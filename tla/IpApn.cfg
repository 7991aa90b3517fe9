SPECIFICATION Spec
CONSTANTS
  Ip = {i1, i2}
  Apn = {a1, a2}
  Name = {n1, n2}
  MaxAddr = 2
  s1 = s1
  s2 = s2
  b1 = b1
  b2 = b2
  Service <- MCService
  Brand <- MCBrand
  BrandOf <- MCBrandOf
  NoBrand = NoBrand
  RangeCheck = FALSE
  None = None
INVARIANTS
  TypeOK
  AllocatedOnServingApn
  AllocatedIffServices
  AddressUnique
  IpOnOpenedApn
  ServicesInBrand
  ApnNameUnique
PROPERTIES
  AllocatedIsFrozen
  BrandMovesTogether
  ImplementsPool
SYMMETRY MCSymmetry
CHECK_DEADLOCK FALSE
