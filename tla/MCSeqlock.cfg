SPECIFICATION Spec
CONSTANTS
  Words = {1, 2}
  MaxValue = 2
  SeqMod = 8
  MaxOverlap = 3
PROPERTIES
  SeqlockImplementsLatest
  SeqlockLoadReturns
