SPECIFICATION MCSpec
CONSTANTS
  Base = 4
  Slices <- MCSlices
  Words = {6, 15}
  Addresses <- MCAddresses
  Options <- MCOptions
  Urgents = {0}
  MaxBytes = 6
  Canonical <- MCCanonical
  Numbers <- MCNumbers
  Pipelines <- MCPipelines
  RequestCalls <- MCRequestCalls
  BufSize = 32
  FillSizes = {1, 40}
  StatusText <- MCStatusText
  AddCalls <- MCAddCalls
  Lengths <- MCLengths
  MaxCalls = 5
  Dates <- MCDates
  Second = 5
  Escapes <- MCEscapes
  CookieCalls <- MCCookieCalls
  CookieTexts <- MCCookieTexts
  PathParts <- MCPathParts
  MaxWork = 6
  DnsByte = 16
  DotChar = 14
  MaxPointers = 10
  Packets <- MCPackets
  Queries <- MCQueries
  Limits = {1, 2}
  MaxQuestions = 2
INVARIANTS SumIsRFC791 ReadIsRight LoopbackIsSame NeverWaitsForMore AddedAreSent LastCallWins ParseIsInverse PathIsWalked DecodesAsSent
CHECK_DEADLOCK FALSE
