\* Files of up to four units, two units in a read, over a link that holds four,
\* with sends and recvs cut in both directions; a user who may leave one request
\* unfinished.
SPECIFICATION FileSpec
CONSTANTS
  Counts <- TwoDirectories
  Inputs <- Typed
  Units <- Octets
  Files <- SmallFiles
  Olds <- OldFiles
  Word = "Success"
  ReadSize = 2
  Short = TRUE
  MaxStream = 4
  MaxAsks = 2
CHECK_DEADLOCK FALSE
INVARIANTS
  FileTypeOK
  DiskIsPrefixOverOld
  StopsOnlyAtWord
PROPERTIES
  FileArrives
  AskedIsAnswered
