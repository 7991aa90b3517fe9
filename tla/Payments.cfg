SPECIFICATION MCSpec
CONSTANTS
  a1 = a1
  b1 = b1
  b2 = b2
  r1 = r1
  r2 = r2
  Account = {a1}
  Billinfo = {b1, b2}
  Run = {r1, r2}
  PayType = {"card", "debit"}
  Deferred = {"deposit"}
  AccountOf <- MCAccountOf
  MaxBilled = 3
  Charge <- MCCharge
  MaxBatch = 2
  MinimumPayment = 1
  MinimumRefund = 2
SYMMETRY Alike
CONSTRAINT Searched
INVARIANTS
  CollectionInv
  ChargedOnce
  DebtorsOwe
  ChargesAreIndependent
PROPERTIES
  ImplementsLedger
CHECK_DEADLOCK FALSE
