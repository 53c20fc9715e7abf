SPECIFICATION FairSpec
CONSTANTS
  File = {f1, f2}
  Missing = Missing
  Unsafe = Unsafe
  TooLong = TooLong
  MaxLine = 1
  ReadSize = 2
  LineLength = {1, 3}
  MaxLines = 3
  MaxTruncations = 1
CHECK_DEADLOCK FALSE
INVARIANTS TypeOK WholeLines OnceInOrder NothingSkipped
PROPERTY EverythingArrives
