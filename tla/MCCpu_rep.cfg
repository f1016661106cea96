CONSTANTS
  ByteBits = 2
  Gprs <- MCGprs
  Xmms = {0, 1}
  MemBytes = 48
  PageBytes = 8
  ArenaPages = {0, 1, 2, 3}
  Fp <- MCFp
  RepBulkMax = 8
  RepHostMin = 3
  ChunkBytes = 2
  MaxBlock = 5
  InlineBytes = 4
  StringInline = TRUE
  Programs <- RepPrograms
  Machines <- MCMachines
SPECIFICATION Spec
INVARIANTS InlineCopyComplete
