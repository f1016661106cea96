\* A worker may call ExitProcess while it owns the section.
SPECIFICATION FairSpec
CONSTANTS
  Primary = Primary
  Workers = {w1}
  Sections = {c1}
  NoTid = NoTid
  NoSection = NoSection
  U32Max = 7
  MaxCalls = 1
PROPERTIES DyingReleasesParked
