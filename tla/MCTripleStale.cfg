SPECIFICATION Spec
CONSTANTS
  Words = {1, 2}
  MaxValue = 2
PROPERTIES
  AlwaysLatest
