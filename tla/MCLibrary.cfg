SPECIFICATION AllSpec
CONSTANTS
  Items = {0, 1, 2, 3}
  MaxRange = 3
  LongRange = 5
  Beyond = Beyond
  npos = npos
  Refused = Refused
  NoResult = NoResult
  Rejected = Rejected
  Half = 16
  Addresses = {0, 1, 2}
  MaxOffset = 3
  NanoDen = 10
  RepMax <- MCRepMax
  Periods <- MCPeriods
  Counts <- MCCounts
  Numbers <- MCNumbers
  Image = 8
  WordBits = 3
  Stopped = Stopped
  NoText = NoText
  MaxInt = 127
  Digits10 = 2
  ShortText = 5
  FormatTexts <- MCFormatTexts
  ArgumentLists <- MCArgumentLists
  Fields <- MCFields
  FieldArguments <- MCFieldArguments
  BufferSize = 4
  StoreSize = 3
  Plenty = 40
  OldText <- MCOldText
  BufferLimits = {0, 4, 5, 20}
  WriteSizes = {0, 1, 4, 9}
  MaxWrites = 3
  Garbage = Garbage
INVARIANTS
  AlgorithmsCorrect   ValuesCorrect  CatchBinds BlocksFit
PROPERTIES NewEnds
CHECK_DEADLOCK FALSE
