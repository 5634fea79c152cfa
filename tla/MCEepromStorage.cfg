SPECIFICATION Spec
CONSTANTS
  PageCount = 4
  Values = {v1, v2, v3}
  Torn = Torn
INVARIANTS
  IInv
  SurvivesOneInterruption
PROPERTIES
  LastCopyKept
  ReadReturnsWritten
  CorruptOnlyIfLost
