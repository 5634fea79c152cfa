SPECIFICATION MCSpec
CONSTANTS
  Objects = {o1, o2}
  Values = {v, w}
  Capacity = 3
  NoValue = NoValue
  MovedFrom = MovedFrom
  Nothing = Nothing
  Inputs = {0, 1, 3}
  Window = 3
  MaxPushes = 5
  N = 2
  Codes = {0, 4}
  Depth = 2
  Average = 2
  Median = 3
  kp = kp
  ki = ki
  kd = kd
  Zero = Zero
  One = One
  Layouts <- MCLayouts
  ValuesOf <- MCValuesOf
  default_value <- MCdefault_value
  HashSize = 1
  CrcSize = 1
  Blank = {Zero}
  delay_ = 1
  MaxTime = 5
  MaxPolls = 5
  Statuses = {"overheat", "undervoltage"}
  LevelCount = 3
  Words = {1, 2}
  MaxValue = 4
  MantissaBits = 3
  WideBits = 7
  Exponents <- MCExponents
  Turn = 6
SYMMETRY MCSymmetry
\* Filters, triggered actions, the triple buffer and math stop at their bounds.
CHECK_DEADLOCK FALSE
INVARIANTS
  
  ValuesOfOneInstant
  GetReturnsWhatWasSet
PROPERTIES
  ContainersImplementSequences
  NoTornLoad
  NewValueSeen
