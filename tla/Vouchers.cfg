SPECIFICATION Spec
CONSTANTS
  o1 = o1
  o2 = o2
  s1 = s1
  s2 = s2
  b1 = b1
  b2 = b2
  Order = {o1, o2}
  MaxSerial = 2
  Quantity = {0, 1, 2, 3}
  Service = {s1, s2}
  Brand = {b1, b2}
  BrandOf <- MCBrandOf
  RangeSent = FALSE
  None = None
INVARIANTS
  TypeOK
  SerialsOrderedOnce
  ReceivedIffComplete
  HoldersInv
PROPERTIES
  RedeemedOnce
SYMMETRY MCSymmetry
