SPECIFICATION Spec
CONSTANTS
  n1 = n1
  n2 = n2
  m1 = m1
  m2 = m2
  line1 = line1
  line2 = line2
  line3 = line3
  acctOnly = acctOnly
  a1 = a1
  a2 = a2
  b1 = b1
  b2 = b2
  e1 = e1
  e2 = e2
  x = x
  y = y
  tel = tel
  Num = {n1, n2}
  Sim = {m1}
  Number <- MCNumber
  NorthAmerica = "001"
  SimId <- MCSimId
  Stripped <- MCStripped
  Service <- MCService
  AccountOf <- MCAccountOf
  TypeOf <- MCTypeOf
  Telephony = tel
  NoType = NoType
  Brand <- MCBrand
  BrandOf <- MCBrandOf
  NumElem <- MCNumElem
  SimElem <- MCSimElem
  NoElem = NoElem
  OneOfEach = TRUE
  None = None
INVARIANTS
  TypeOK
  AssignedIffServices
  TypesWithinLimits
  ImsisAreAliases
  DeviceInAccount
  SameNetworkElementOfPair
  DeviceIdsUnique
PROPERTIES
  LeavesByQuarantine
SYMMETRY MCSymmetry
CHECK_DEADLOCK FALSE
