\* Lists of up to three directories of up to three files; any malloc and any
\* recv may fail.
SPECIFICATION MemorySpec
CONSTANTS
  MaxDirs = 3
  MaxFiles = 3
CHECK_DEADLOCK FALSE
INVARIANTS
  ListMirrorsData
  FreesAreSound
  OnlyTheseStay
