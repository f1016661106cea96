CONSTANTS
  ByteBits = 2
  Gprs <- MCGprs
  Xmms = {0, 1}
  MemBytes = 48
  PageBytes = 8
  ArenaPages = {0, 1, 2, 3}
  Fp <- MCFp
  RepBulkMax = 3
  RepHostMin = 3
  ChunkBytes = 2
  MaxBlock = 3
  InlineBytes = 4
  StringInline = FALSE
  Programs <- MCPrograms
  Machines <- MCMachines
SPECIFICATION Spec
INVARIANTS TiersAgree Restartable
