SPECIFICATION Spec
CONSTANTS
  Words <- MCWords
  LevelCount = 2
  Range <- MCRange
  Writers = {isr, thread}
SYMMETRY WriterSymmetry
INVARIANTS
  NoLostUpdate
PROPERTIES
  SteadyStatusFound
  FoundStatusWasActive
  FlagsWhole
