SPECIFICATION Spec
CONSTANTS
  Digit = {1}
  Letter = 11
  Ignored = 12
  MinLength = 4
  MaxLength = 5
  MaxSent = 6
  Char = {a, b}
  Blank = Blank
  NUL = NUL
  MaxLen = 5
  Device = {d1, d2, d3}
  MaxElem = 4
  Exclusive = TRUE
  RowChar = {1, 2, 3}
  Dropped = {1}
  MaxRow = 2
  MaxRows = 3
  MaxZones = 6
INVARIANTS
  UnindentedIsKept
  AliasPerDevice
  LongestPrefixFound
  SpaceIsExact
  RowsLeadToTheirZone
PROPERTIES
  CanonicalIsFixed
CHECK_DEADLOCK FALSE
