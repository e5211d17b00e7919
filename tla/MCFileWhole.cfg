\* The same instance, with what the device says of a file it has received.
SPECIFICATION FileSpec
CONSTANTS
  Counts <- TwoDirectories
  Inputs <- Typed
  Units <- Octets
  Files <- SmallFiles
  Olds <- OldFiles
  Word = "Success"
  ReadSize = 2
  Short = TRUE
  MaxStream = 4
  MaxAsks = 2
CHECK_DEADLOCK FALSE
INVARIANTS
  SuccessIsWhole
