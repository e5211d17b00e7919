\* One or two directories of up to two files, over a link that holds five units
\* and may cut any frame.
SPECIFICATION TransferSpec
CONSTANTS
  Catalogs <- SmallCatalogs
  Short = TRUE
  MaxStream = 5
  MaxCount = 2
CHECK_DEADLOCK FALSE
INVARIANTS
  TransferTypeOK
  DoneIsCopy
  RestIsBlank
  AnnouncedIsWritten
PROPERTIES
  GoneEnds
  WholeEnds
