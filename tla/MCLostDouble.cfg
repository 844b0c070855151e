SPECIFICATION Spec
CONSTANTS
  Buffer <- bufferNames
  NoBuffer = NoBuffer
  ListId = {1, 2}
  FirstCapacity = 1
  Literals <- listLiterals
  MaxValues = 4
  Numbers = {0, 1}
  Answers = {0, 1}
  Objects = {1}
  Places = {"p"}
  Quiet = {"q"}
  MaxSize = 3
  MaxLoad = 7
  MaxCalls = 1
  MaxRaised = 2
  Byte = 16
  Formats <- doubleFormats
  Operands <- operands
  Packable <- numbers
  Precision = 2048
  LargestFloat = 65504
  Single <- singles
  Double <- doubles
  Length = 3
INVARIANT EveryItemComesBack
CHECK_DEADLOCK FALSE
