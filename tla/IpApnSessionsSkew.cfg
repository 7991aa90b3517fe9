SPECIFICATION SSpec
CONSTANTS
  i1 = i1
  i2 = i2
  a1 = a1
  a2 = a2
  n1 = n1
  n2 = n2
  s1 = s1
  b1 = b1
  b2 = b2
  Ip <- MCIp
  Apn <- MCApn
  Name <- MCName
  MaxAddr = 2
  Service <- MCService
  Brand <- MCBrand
  BrandOf <- MCBrandOf
  NoBrand = NoBrand
  RangeCheck = FALSE
  None = None
  Session = {p, q}
  Free = Free
  Placed <- MCPlaced
  Addressed <- MCAddressed
  Named <- MCNamed
  Branded = b1
INVARIANTS
  NoAllocatedOnUnusable
SYMMETRY MCSymmetry
CHECK_DEADLOCK FALSE
