---------------------------- MODULE NumSimProofs ----------------------------
(***************************************************************************)
(* Theorems about NumSim, for every set of numbers, SIMs and services.     *)
(***************************************************************************)
EXTENDS NumSim, FiniteSetTheorems, TLAPS

\* Every step keeps every field in its type.
LEMMA TypeStep == TypeOK /\ [Next]_vars => TypeOK'
<1> SUFFICES ASSUME TypeOK, [Next]_vars PROVE TypeOK'
  OBVIOUS
<1>0. Stripped \in [SimId -> SimId]
  BY NumSimAssumption
<1> USE DEF TypeOK, NumExists, numVars, simVars, NumStates, SimStates, Missing, ServiceSets, Real
<1>1. CASE UNCHANGED vars
  BY <1>1 DEF vars
<1>2. ASSUME NEW n \in Num, NumNext(n) PROVE TypeOK'
  <2>1. ASSUME NEW id \in Number, NEW b \in Brand, NEW st \in NumCreated, CreateNum(n, id, b, st)
        PROVE  TypeOK'
    BY <2>1 DEF CreateNum, NumCreated
  <2>2. ASSUME NEW id \in Number, ChangeNumber(n, id)
        PROVE  TypeOK'
    BY <2>2 DEF ChangeNumber
  <2>3. ASSUME NEW b \in Brand, SetBrandNum(n, b)
        PROVE  TypeOK'
    BY <2>3 DEF SetBrandNum
  <2>4. ASSUME NEW new \in NumStates, SetStateNum(n, new)
        PROVE  TypeOK'
    BY <2>4 DEF SetStateNum
  <2>5. ASSUME NEW S \in ServiceSets, AssociateNum(n, S)
        PROVE  TypeOK'
    <3>1. numId[n] \in Number
      BY <2>5 DEF AssociateNum
    <3>2. alias' \in [Service -> SUBSET (Number \cup Sim)]
      BY <2>5, <3>1 DEF AssociateNum, AliasAdded
    <3> QED
      BY <2>5, <3>2 DEF AssociateNum, StateOfAssociated
  <2>6. ASSUME NEW S \in ServiceSets, NEW p \in BOOLEAN, DisassociateNum(n, S, p)
        PROVE  TypeOK'
    <3>1. alias' \in [Service -> SUBSET (Number \cup Sim)]
      BY <2>6 DEF DisassociateNum, AliasRemoved
    <3> QED
      BY <2>6, <3>1 DEF DisassociateNum
  <2>7. CASE DeleteNum(n)
    BY <2>7 DEF DeleteNum
  <2> QED
    BY <1>2, <2>1, <2>2, <2>3, <2>4, <2>5, <2>6, <2>7 DEF NumNext
<1>3. ASSUME NEW m \in Sim, SimNext(m) PROVE TypeOK'
  <2>1. ASSUME NEW id \in SimId, NEW b \in Brand, CreateSim(m, id, b)
        PROVE  TypeOK'
    BY <1>0, <2>1 DEF CreateSim
  <2>2. ASSUME NEW b \in Brand, SetBrandSim(m, b)
        PROVE  TypeOK'
    BY <2>2 DEF SetBrandSim
  <2>3. ASSUME NEW new \in SimStates, SetStateSim(m, new)
        PROVE  TypeOK'
    BY <2>3 DEF SetStateSim
  <2>4. ASSUME NEW S \in ServiceSets, AssociateSim(m, S)
        PROVE  TypeOK'
    BY <2>4 DEF AssociateSim, AliasAdded
  <2>5. ASSUME NEW S \in ServiceSets, DisassociateSim(m, S)
        PROVE  TypeOK'
    BY <2>5 DEF DisassociateSim, AliasRemoved
  <2>6. CASE DeleteSim(m)
    BY <2>6 DEF DeleteSim
  <2> QED
    BY <1>3, <2>1, <2>2, <2>3, <2>4, <2>5, <2>6 DEF SimNext
<1>4. ASSUME NEW s \in Service, CloseService(s) PROVE TypeOK'
  BY <1>4 DEF CloseService
<1> QED
  BY <1>1, <1>2, <1>3, <1>4 DEF Next

\* The fields of the device and service rows hold values of their types.
THEOREM TypeCorrect == Spec => []TypeOK
<1>1. Init => TypeOK
  BY DEF Init, TypeOK, NumExists, Missing
<1> QED
  BY <1>1, TypeStep, PTL DEF Spec

-----------------------------------------------------------------------------
\* Removing as many services as a device has removes them all.
LEMMA RemoveAll ==
  ASSUME NEW S \in SUBSET Service, NEW T \in SUBSET Service, S \subseteq T
  PROVE  LeavesNone(S, T) <=> T \ S = {}
<1>1. IsFiniteSet(T) /\ IsFiniteSet(S)
  BY NumSimAssumption, FS_Subset
<1>2. Cardinality(S) = Cardinality(T) => S = T
  BY <1>1, FS_Subset
<1> QED
  BY <1>2 DEF LeavesNone

\* What the counts of the policies rely on.
UseInv == TypeOK /\ AssignedIffServices

\* No step leaves a device ASSIGNED without services or the other way round.
LEMMA UseStep == UseInv /\ [Next]_vars => UseInv'
<1> SUFFICES ASSUME UseInv, [Next]_vars PROVE UseInv'
  OBVIOUS
<1>0. TypeOK'
  BY TypeStep DEF UseInv
<1> USE DEF UseInv, AssignedIffServices, TypeOK, numVars, simVars, Missing, ServiceSets
<1>1. CASE UNCHANGED vars
  BY <1>0, <1>1 DEF vars
<1>2. ASSUME NEW n \in Num, NumNext(n) PROVE UseInv'
  <2>1. ASSUME NEW id \in Number, NEW b \in Brand, NEW st \in NumCreated, CreateNum(n, id, b, st)
        PROVE  UseInv'
    BY <1>0, <2>1 DEF CreateNum, NumCreated
  <2>2. ASSUME NEW id \in Number, ChangeNumber(n, id)
        PROVE  UseInv'
    BY <1>0, <2>2 DEF ChangeNumber
  <2>3. ASSUME NEW b \in Brand, SetBrandNum(n, b)
        PROVE  UseInv'
    BY <1>0, <2>3 DEF SetBrandNum
  <2>4. ASSUME NEW new \in NumStates, SetStateNum(n, new)
        PROVE  UseInv'
    BY <1>0, <2>4 DEF SetStateNum, NumExists
  <2>5. ASSUME NEW S \in ServiceSets, AssociateNum(n, S)
        PROVE  UseInv'
    <3>1. numState'[n] = "ASSIGNED"
      BY <2>5 DEF AssociateNum, StateOfAssociated, NumTable
    <3> QED
      BY <1>0, <3>1, <2>5 DEF AssociateNum
  <2>6. ASSUME NEW S \in ServiceSets, NEW p \in BOOLEAN, DisassociateNum(n, S, p)
        PROVE  UseInv'
    <3>1. LeavesNone(S, numServices[n]) <=> numServices[n] \ S = {}
      BY <2>6, RemoveAll DEF DisassociateNum
    <3> QED
      BY <1>0, <3>1, <2>6 DEF DisassociateNum
  <2>7. CASE DeleteNum(n)
    BY <1>0, <2>7 DEF DeleteNum, NumExists
  <2> QED
    BY <1>2, <2>1, <2>2, <2>3, <2>4, <2>5, <2>6, <2>7 DEF NumNext
<1>3. ASSUME NEW m \in Sim, SimNext(m) PROVE UseInv'
  <2>1. ASSUME NEW id \in SimId, NEW b \in Brand, CreateSim(m, id, b)
        PROVE  UseInv'
    BY <1>0, <2>1 DEF CreateSim
  <2>2. ASSUME NEW b \in Brand, SetBrandSim(m, b)
        PROVE  UseInv'
    BY <1>0, <2>2 DEF SetBrandSim
  <2>3. ASSUME NEW new \in SimStates, SetStateSim(m, new)
        PROVE  UseInv'
    BY <1>0, <2>3 DEF SetStateSim, SimExists
  <2>4. ASSUME NEW S \in ServiceSets, AssociateSim(m, S)
        PROVE  UseInv'
    BY <1>0, <2>4 DEF AssociateSim, SimExists
  <2>5. ASSUME NEW S \in ServiceSets, DisassociateSim(m, S)
        PROVE  UseInv'
    <3>1. LeavesNone(S, simServices[m]) <=> simServices[m] \ S = {}
      BY <2>5, RemoveAll DEF DisassociateSim
    <3> QED
      BY <1>0, <3>1, <2>5 DEF DisassociateSim
  <2>6. CASE DeleteSim(m)
    BY <1>0, <2>6 DEF DeleteSim, SimExists
  <2> QED
    BY <1>3, <2>1, <2>2, <2>3, <2>4, <2>5, <2>6 DEF SimNext
<1>4. ASSUME NEW s \in Service, CloseService(s) PROVE UseInv'
  BY <1>0, <1>4 DEF CloseService
<1> QED
  BY <1>1, <1>2, <1>3, <1>4 DEF Next

LEMMA UseInvariant == Spec => []UseInv
<1>1. Init => UseInv
  BY DEF Init, UseInv, TypeOK, AssignedIffServices, NumExists, Missing
<1> QED
  BY <1>1, UseStep, PTL DEF Spec

\* A device is ASSIGNED exactly while a service has it: the counts that the
\* policies compare decide it right for every sequence of partial
\* associations and disassociations.
THEOREM AssignedWhileHeld == Spec => []AssignedIffServices
<1>1. UseInv => AssignedIffServices
  BY DEF UseInv
<1> QED
  BY <1>1, UseInvariant, PTL

-----------------------------------------------------------------------------
\* Services come from the account and the brand of the device, and a brand
\* changes only while there are none.
LEMMA AccountStep == UseInv /\ DeviceInAccount /\ [Next]_vars => DeviceInAccount'
<1> SUFFICES ASSUME UseInv, DeviceInAccount, [Next]_vars PROVE DeviceInAccount'
  OBVIOUS
<1> USE DEF DeviceInAccount, UseInv, AssignedIffServices, TypeOK, numVars, simVars, Missing, ServiceSets
<1>1. CASE UNCHANGED vars
  BY <1>1 DEF vars
<1>2. ASSUME NEW n \in Num, NumNext(n) PROVE DeviceInAccount'
  <2>1. ASSUME NEW id \in Number, NEW b \in Brand, NEW st \in NumCreated, CreateNum(n, id, b, st)
        PROVE  DeviceInAccount'
    BY <2>1 DEF CreateNum
  <2>2. ASSUME NEW id \in Number, ChangeNumber(n, id)
        PROVE  DeviceInAccount'
    BY <2>2 DEF ChangeNumber
  <2>3. ASSUME NEW b \in Brand, SetBrandNum(n, b)
        PROVE  DeviceInAccount'
    BY <2>3 DEF SetBrandNum, NumExists
  <2>4. ASSUME NEW new \in NumStates, SetStateNum(n, new)
        PROVE  DeviceInAccount'
    BY <2>4 DEF SetStateNum
  <2>5. ASSUME NEW S \in ServiceSets, AssociateNum(n, S)
        PROVE  DeviceInAccount'
    BY <2>5 DEF AssociateNum, OneAccount
  <2>6. ASSUME NEW S \in ServiceSets, NEW p \in BOOLEAN, DisassociateNum(n, S, p)
        PROVE  DeviceInAccount'
    BY <2>6 DEF DisassociateNum
  <2>7. CASE DeleteNum(n)
    BY <2>7 DEF DeleteNum
  <2> QED
    BY <1>2, <2>1, <2>2, <2>3, <2>4, <2>5, <2>6, <2>7 DEF NumNext
<1>3. ASSUME NEW m \in Sim, SimNext(m) PROVE DeviceInAccount'
  <2>1. ASSUME NEW id \in SimId, NEW b \in Brand, CreateSim(m, id, b)
        PROVE  DeviceInAccount'
    BY <2>1 DEF CreateSim
  <2>2. ASSUME NEW b \in Brand, SetBrandSim(m, b)
        PROVE  DeviceInAccount'
    BY <2>2 DEF SetBrandSim, SimExists
  <2>3. ASSUME NEW new \in SimStates, SetStateSim(m, new)
        PROVE  DeviceInAccount'
    BY <2>3 DEF SetStateSim
  <2>4. ASSUME NEW S \in ServiceSets, AssociateSim(m, S)
        PROVE  DeviceInAccount'
    BY <2>4 DEF AssociateSim, OneAccount
  <2>5. ASSUME NEW S \in ServiceSets, DisassociateSim(m, S)
        PROVE  DeviceInAccount'
    BY <2>5 DEF DisassociateSim
  <2>6. CASE DeleteSim(m)
    BY <2>6 DEF DeleteSim
  <2> QED
    BY <1>3, <2>1, <2>2, <2>3, <2>4, <2>5, <2>6 DEF SimNext
<1>4. ASSUME NEW s \in Service, CloseService(s) PROVE DeviceInAccount'
  BY <1>4 DEF CloseService
<1> QED
  BY <1>1, <1>2, <1>3, <1>4 DEF Next

\* The services of a device belong to one account of the device's brand.
THEOREM OneAccountPerDevice == Spec => []DeviceInAccount
<1>1. Init => DeviceInAccount
  BY DEF Init, DeviceInAccount
<1> QED
  BY <1>1, AccountStep, UseInvariant, PTL DEF Spec

-----------------------------------------------------------------------------
\* The IMSI comes and goes with the SIM, and no MSISDN is an IMSI.
LEMMA ImsiStep == TypeOK /\ ImsisAreAliases /\ [Next]_vars => ImsisAreAliases'
<1> SUFFICES ASSUME TypeOK, ImsisAreAliases, [Next]_vars PROVE ImsisAreAliases'
  OBVIOUS
<1>0. Number \cap Sim = {}
  BY NumSimAssumption
<1> USE DEF ImsisAreAliases, TypeOK, NumExists, Missing, numVars, simVars, ServiceSets, Real
<1>1. CASE UNCHANGED vars
  BY <1>1 DEF vars
<1>2. ASSUME NEW n \in Num, NumNext(n) PROVE ImsisAreAliases'
  <2>1. ASSUME NEW id \in Number, NEW b \in Brand, NEW st \in NumCreated, CreateNum(n, id, b, st)
        PROVE  ImsisAreAliases'
    BY <2>1 DEF CreateNum
  <2>2. ASSUME NEW id \in Number, ChangeNumber(n, id)
        PROVE  ImsisAreAliases'
    BY <2>2 DEF ChangeNumber
  <2>3. ASSUME NEW b \in Brand, SetBrandNum(n, b)
        PROVE  ImsisAreAliases'
    BY <2>3 DEF SetBrandNum
  <2>4. ASSUME NEW new \in NumStates, SetStateNum(n, new)
        PROVE  ImsisAreAliases'
    BY <2>4 DEF SetStateNum
  <2>5. ASSUME NEW S \in ServiceSets, AssociateNum(n, S)
        PROVE  ImsisAreAliases'
    <3>1. numId[n] \in Number \ Sim
      BY <1>0, <2>5 DEF AssociateNum
    <3> QED
      BY <2>5, <3>1 DEF AssociateNum, AliasAdded
  <2>6. ASSUME NEW S \in ServiceSets, NEW p \in BOOLEAN, DisassociateNum(n, S, p)
        PROVE  ImsisAreAliases'
    <3>1. numId[n] \in Number \ Sim
      BY <1>0, <2>6 DEF DisassociateNum
    <3> QED
      BY <2>6, <3>1 DEF DisassociateNum, AliasRemoved
  <2>7. CASE DeleteNum(n)
    BY <2>7 DEF DeleteNum
  <2> QED
    BY <1>2, <2>1, <2>2, <2>3, <2>4, <2>5, <2>6, <2>7 DEF NumNext
<1>3. ASSUME NEW m \in Sim, SimNext(m) PROVE ImsisAreAliases'
  <2>1. ASSUME NEW id \in SimId, NEW b \in Brand, CreateSim(m, id, b)
        PROVE  ImsisAreAliases'
    BY <2>1 DEF CreateSim
  <2>2. ASSUME NEW b \in Brand, SetBrandSim(m, b)
        PROVE  ImsisAreAliases'
    BY <2>2 DEF SetBrandSim
  <2>3. ASSUME NEW new \in SimStates, SetStateSim(m, new)
        PROVE  ImsisAreAliases'
    BY <2>3 DEF SetStateSim
  <2>4. ASSUME NEW S \in ServiceSets, AssociateSim(m, S)
        PROVE  ImsisAreAliases'
    BY <1>0, <2>4 DEF AssociateSim, AliasAdded
  <2>5. ASSUME NEW S \in ServiceSets, DisassociateSim(m, S)
        PROVE  ImsisAreAliases'
    BY <1>0, <2>5 DEF DisassociateSim, AliasRemoved
  <2>6. CASE DeleteSim(m)
    BY <2>6 DEF DeleteSim
  <2> QED
    BY <1>3, <2>1, <2>2, <2>3, <2>4, <2>5, <2>6 DEF SimNext
<1>4. ASSUME NEW s \in Service, CloseService(s) PROVE ImsisAreAliases'
  BY <1>4 DEF CloseService
<1> QED
  BY <1>1, <1>2, <1>3, <1>4 DEF Next

\* The aliases of a service hold the IMSIs of its SIMs and no other.
THEOREM ImsisFollowSims == Spec => []ImsisAreAliases
<1>1. Init => ImsisAreAliases
  BY DEF Init, ImsisAreAliases, Real
<1> QED
  BY <1>1, ImsiStep, TypeCorrect, PTL DEF Spec

-----------------------------------------------------------------------------
\* Creations and changes search the DEVICE_IDs of all existing devices.
LEMMA IdsStep == TypeOK /\ DeviceIdsUnique /\ [Next]_vars => DeviceIdsUnique'
<1> SUFFICES ASSUME TypeOK, DeviceIdsUnique, [Next]_vars PROVE DeviceIdsUnique'
  OBVIOUS
<1> USE DEF DeviceIdsUnique, TypeOK, numVars, simVars, NumExists, SimExists, NumberFree, Missing, ServiceSets
<1>1. CASE UNCHANGED vars
  BY <1>1 DEF vars
<1>2. ASSUME NEW n \in Num, NumNext(n) PROVE DeviceIdsUnique'
  <2>1. ASSUME NEW id \in Number, NEW b \in Brand, NEW st \in NumCreated, CreateNum(n, id, b, st)
        PROVE  DeviceIdsUnique'
    BY <2>1 DEF CreateNum, NumCreated
  <2>2. ASSUME NEW id \in Number, ChangeNumber(n, id)
        PROVE  DeviceIdsUnique'
    BY <2>2 DEF ChangeNumber
  <2>3. ASSUME NEW b \in Brand, SetBrandNum(n, b)
        PROVE  DeviceIdsUnique'
    BY <2>3 DEF SetBrandNum
  <2>4. ASSUME NEW new \in NumStates, SetStateNum(n, new)
        PROVE  DeviceIdsUnique'
    BY <2>4 DEF SetStateNum
  <2>5. ASSUME NEW S \in ServiceSets, AssociateNum(n, S)
        PROVE  DeviceIdsUnique'
    BY <2>5 DEF AssociateNum, StateOfAssociated
  <2>6. ASSUME NEW S \in ServiceSets, NEW p \in BOOLEAN, DisassociateNum(n, S, p)
        PROVE  DeviceIdsUnique'
    BY <2>6 DEF DisassociateNum
  <2>7. CASE DeleteNum(n)
    BY <2>7 DEF DeleteNum
  <2> QED
    BY <1>2, <2>1, <2>2, <2>3, <2>4, <2>5, <2>6, <2>7 DEF NumNext
<1>3. ASSUME NEW m \in Sim, SimNext(m) PROVE DeviceIdsUnique'
  <2>1. ASSUME NEW id \in SimId, NEW b \in Brand, CreateSim(m, id, b)
        PROVE  DeviceIdsUnique'
    BY <2>1 DEF CreateSim
  <2>2. ASSUME NEW b \in Brand, SetBrandSim(m, b)
        PROVE  DeviceIdsUnique'
    BY <2>2 DEF SetBrandSim
  <2>3. ASSUME NEW new \in SimStates, SetStateSim(m, new)
        PROVE  DeviceIdsUnique'
    BY <2>3 DEF SetStateSim
  <2>4. ASSUME NEW S \in ServiceSets, AssociateSim(m, S)
        PROVE  DeviceIdsUnique'
    BY <2>4 DEF AssociateSim
  <2>5. ASSUME NEW S \in ServiceSets, DisassociateSim(m, S)
        PROVE  DeviceIdsUnique'
    BY <2>5 DEF DisassociateSim
  <2>6. CASE DeleteSim(m)
    BY <2>6 DEF DeleteSim
  <2> QED
    BY <1>3, <2>1, <2>2, <2>3, <2>4, <2>5, <2>6 DEF SimNext
<1>4. ASSUME NEW s \in Service, CloseService(s) PROVE DeviceIdsUnique'
  BY <1>4 DEF CloseService
<1> QED
  BY <1>1, <1>2, <1>3, <1>4 DEF Next

\* No two existing numbers, and no two existing SIMs, carry one DEVICE_ID.
THEOREM IdsUnique == Spec => []DeviceIdsUnique
<1>1. Init => DeviceIdsUnique
  BY DEF Init, DeviceIdsUnique, NumExists, SimExists, Missing
<1> QED
  BY <1>1, IdsStep, TypeCorrect, PTL DEF Spec

-----------------------------------------------------------------------------
\* A service has at most one number and one SIM, and they fit.
PairInv ==
  OneOfEach =>
    /\ \A s \in Service : \A n, k \in NumsOf(s) : n = k
    /\ \A s \in Service : \A m, k \in SimsOf(s) : m = k
    /\ SameNetworkElement

\* Each association compares the element with the one device there is.
LEMMA PairStep == UseInv /\ PairInv /\ [Next]_vars => PairInv'
<1> SUFFICES ASSUME UseInv, PairInv, [Next]_vars PROVE PairInv'
  OBVIOUS
<1> USE DEF PairInv, SameNetworkElement, NumsOf, SimsOf, TypeOK, AssignedIffServices, UseInv, numVars, simVars, NumExists, SimExists, Missing, ServiceSets, Real
<1>1. CASE UNCHANGED vars
  BY <1>1 DEF vars
<1>2. ASSUME NEW n \in Num, NumNext(n) PROVE PairInv'
  <2>1. ASSUME NEW id \in Number, NEW b \in Brand, NEW st \in NumCreated, CreateNum(n, id, b, st)
        PROVE  PairInv'
    BY <2>1 DEF CreateNum, NumCreated
  <2>2. ASSUME NEW id \in Number, ChangeNumber(n, id)
        PROVE  PairInv'
    BY <2>2 DEF ChangeNumber
  <2>3. ASSUME NEW b \in Brand, SetBrandNum(n, b)
        PROVE  PairInv'
    BY <2>3 DEF SetBrandNum
  <2>4. ASSUME NEW new \in NumStates, SetStateNum(n, new)
        PROVE  PairInv'
    BY <2>4 DEF SetStateNum
  <2>5. ASSUME NEW S \in ServiceSets, AssociateNum(n, S)
        PROVE  PairInv'
    BY <2>5 DEF AssociateNum, OnElementOfSim, StateOfAssociated
  <2>6. ASSUME NEW S \in ServiceSets, NEW p \in BOOLEAN, DisassociateNum(n, S, p)
        PROVE  PairInv'
    BY <2>6 DEF DisassociateNum
  <2>7. CASE DeleteNum(n)
    BY <2>7 DEF DeleteNum
  <2> QED
    BY <1>2, <2>1, <2>2, <2>3, <2>4, <2>5, <2>6, <2>7 DEF NumNext
<1>3. ASSUME NEW m \in Sim, SimNext(m) PROVE PairInv'
  <2>1. ASSUME NEW id \in SimId, NEW b \in Brand, CreateSim(m, id, b)
        PROVE  PairInv'
    BY <2>1 DEF CreateSim
  <2>2. ASSUME NEW b \in Brand, SetBrandSim(m, b)
        PROVE  PairInv'
    BY <2>2 DEF SetBrandSim
  <2>3. ASSUME NEW new \in SimStates, SetStateSim(m, new)
        PROVE  PairInv'
    BY <2>3 DEF SetStateSim
  <2>4. ASSUME NEW S \in ServiceSets, AssociateSim(m, S)
        PROVE  PairInv'
    BY <2>4 DEF AssociateSim, OnElementOfNum
  <2>5. ASSUME NEW S \in ServiceSets, DisassociateSim(m, S)
        PROVE  PairInv'
    BY <2>5 DEF DisassociateSim
  <2>6. CASE DeleteSim(m)
    BY <2>6 DEF DeleteSim
  <2> QED
    BY <1>3, <2>1, <2>2, <2>3, <2>4, <2>5, <2>6 DEF SimNext
<1>4. ASSUME NEW s \in Service, CloseService(s) PROVE PairInv'
  BY <1>4 DEF CloseService
<1> QED
  BY <1>1, <1>2, <1>3, <1>4 DEF Next

\* Where callers give a service one number and one SIM, both are on one
\* network element, whichever of them was associated first.
THEOREM PairsOnOneElement == Spec => []SameNetworkElementOfPair
<1>1. Init => PairInv
  BY DEF Init, PairInv, SameNetworkElement, NumsOf, SimsOf, NumExists, SimExists, Missing
<1>2. PairInv => SameNetworkElementOfPair
  BY DEF PairInv, SameNetworkElementOfPair
<1> QED
  BY <1>1, <1>2, PairStep, UseInvariant, PTL DEF Spec

-----------------------------------------------------------------------------
\* Only a disassociation takes the last service, and it leaves none.
LEMMA QuarantineStep == UseInv /\ [Next]_vars => \A k \in Num : QuarantinedFirst(k)
<1> SUFFICES ASSUME UseInv, [Next]_vars PROVE \A k \in Num : QuarantinedFirst(k)
  OBVIOUS
<1> USE DEF QuarantinedFirst, UseInv, AssignedIffServices, TypeOK, numVars, simVars, NumExists, Missing, ServiceSets
<1>1. CASE UNCHANGED vars
  BY <1>1 DEF vars
<1>2. ASSUME NEW n \in Num, NumNext(n) PROVE \A k \in Num : QuarantinedFirst(k)
  <2>1. ASSUME NEW id \in Number, NEW b \in Brand, NEW st \in NumCreated, CreateNum(n, id, b, st)
        PROVE  \A k \in Num : QuarantinedFirst(k)
    BY <2>1 DEF CreateNum
  <2>2. ASSUME NEW id \in Number, ChangeNumber(n, id)
        PROVE  \A k \in Num : QuarantinedFirst(k)
    BY <2>2 DEF ChangeNumber
  <2>3. ASSUME NEW b \in Brand, SetBrandNum(n, b)
        PROVE  \A k \in Num : QuarantinedFirst(k)
    BY <2>3 DEF SetBrandNum
  <2>4. ASSUME NEW new \in NumStates, SetStateNum(n, new)
        PROVE  \A k \in Num : QuarantinedFirst(k)
    BY <2>4 DEF SetStateNum
  <2>5. ASSUME NEW S \in ServiceSets, AssociateNum(n, S)
        PROVE  \A k \in Num : QuarantinedFirst(k)
    BY <2>5 DEF AssociateNum
  <2>6. ASSUME NEW S \in ServiceSets, NEW p \in BOOLEAN, DisassociateNum(n, S, p)
        PROVE  \A k \in Num : QuarantinedFirst(k)
    <3>1. LeavesNone(S, numServices[n]) <=> numServices[n] \ S = {}
      BY <2>6, RemoveAll DEF DisassociateNum
    <3> QED
      BY <3>1, <2>6 DEF DisassociateNum
  <2>7. CASE DeleteNum(n)
    BY <2>7 DEF DeleteNum
  <2> QED
    BY <1>2, <2>1, <2>2, <2>3, <2>4, <2>5, <2>6, <2>7 DEF NumNext
<1>3. ASSUME NEW m \in Sim, SimNext(m) PROVE \A k \in Num : QuarantinedFirst(k)
  <2>1. ASSUME NEW id \in SimId, NEW b \in Brand, CreateSim(m, id, b)
        PROVE  \A k \in Num : QuarantinedFirst(k)
    BY <2>1 DEF CreateSim
  <2>2. ASSUME NEW b \in Brand, SetBrandSim(m, b)
        PROVE  \A k \in Num : QuarantinedFirst(k)
    BY <2>2 DEF SetBrandSim
  <2>3. ASSUME NEW new \in SimStates, SetStateSim(m, new)
        PROVE  \A k \in Num : QuarantinedFirst(k)
    BY <2>3 DEF SetStateSim
  <2>4. ASSUME NEW S \in ServiceSets, AssociateSim(m, S)
        PROVE  \A k \in Num : QuarantinedFirst(k)
    BY <2>4 DEF AssociateSim
  <2>5. ASSUME NEW S \in ServiceSets, DisassociateSim(m, S)
        PROVE  \A k \in Num : QuarantinedFirst(k)
    BY <2>5 DEF DisassociateSim
  <2>6. CASE DeleteSim(m)
    BY <2>6 DEF DeleteSim
  <2> QED
    BY <1>3, <2>1, <2>2, <2>3, <2>4, <2>5, <2>6 DEF SimNext
<1>4. ASSUME NEW s \in Service, CloseService(s) PROVE \A k \in Num : QuarantinedFirst(k)
  BY <1>4 DEF CloseService
<1> QED
  BY <1>1, <1>2, <1>3, <1>4 DEF Next

\* A number that loses its last service goes to quarantine, and changes its
\* brand only out of it.
THEOREM QuarantineKept == Spec => LeavesByQuarantine
<1>1. UseInv /\ [Next]_vars => [\A n \in Num : QuarantinedFirst(n)]_vars
  BY QuarantineStep
<1> QED
  BY <1>1, UseInvariant, PTL DEF Spec, LeavesByQuarantine

-----------------------------------------------------------------------------
\* Fewer services are not more of any type.
LEMMA FewerOfType ==
  ASSUME NEW S \in SUBSET Service, NEW T \in SUBSET Service, S \subseteq T, NEW type
  PROVE  /\ Cardinality(OfType(S, type)) \in Nat
         /\ Cardinality(OfType(T, type)) \in Nat
         /\ Cardinality(OfType(S, type)) <= Cardinality(OfType(T, type))
<1>1. OfType(S, type) \subseteq OfType(T, type) /\ OfType(T, type) \subseteq Service
  BY DEF OfType
<1>2. IsFiniteSet(OfType(T, type))
  BY <1>1, NumSimAssumption, FS_Subset
<1> QED
  BY <1>1, <1>2, FS_Subset, FS_CardinalityType

\* Associations count what is there and what comes.
LEMMA LimitStep == UseInv /\ TypesWithinLimits /\ [Next]_vars => TypesWithinLimits'
<1> SUFFICES ASSUME UseInv, TypesWithinLimits, [Next]_vars PROVE TypesWithinLimits'
  OBVIOUS
<1> USE DEF TypesWithinLimits, TypeLimit, UseInv, TypeOK, numVars, simVars, ServiceSets
<1>1. CASE UNCHANGED vars
  BY <1>1 DEF vars
<1>2. ASSUME NEW n \in Num, NumNext(n) PROVE TypesWithinLimits'
  <2>1. ASSUME NEW id \in Number, NEW b \in Brand, NEW st \in NumCreated, CreateNum(n, id, b, st)
        PROVE  TypesWithinLimits'
    BY <2>1 DEF CreateNum
  <2>2. ASSUME NEW id \in Number, ChangeNumber(n, id)
        PROVE  TypesWithinLimits'
    BY <2>2 DEF ChangeNumber
  <2>3. ASSUME NEW b \in Brand, SetBrandNum(n, b)
        PROVE  TypesWithinLimits'
    BY <2>3 DEF SetBrandNum
  <2>4. ASSUME NEW new \in NumStates, SetStateNum(n, new)
        PROVE  TypesWithinLimits'
    BY <2>4 DEF SetStateNum
  <2>5. ASSUME NEW S \in ServiceSets, AssociateNum(n, S)
        PROVE  TypesWithinLimits'
    <3>1. numServices' = [numServices EXCEPT ![n] = numServices[n] \cup S]
      BY <2>5 DEF AssociateNum
    <3>2. \A s \in Real(S) :
            OfType(S, TypeOf[s]) = {s} /\ OfType(numServices[n], TypeOf[s]) = {}
      BY <2>5 DEF AssociateNum
    <3>3. ASSUME NEW s \in Real(numServices[n] \cup S), NEW t \in Real(numServices[n] \cup S),
                 TypeOf[s] = TypeOf[t]
          PROVE  s = t
      BY <3>2, <3>3 DEF OfType, Real
    <3> QED
      BY <3>1, <3>3, <2>5 DEF AssociateNum
  <2>6. ASSUME NEW S \in ServiceSets, NEW p \in BOOLEAN, DisassociateNum(n, S, p)
        PROVE  TypesWithinLimits'
    BY <2>6 DEF DisassociateNum, Real
  <2>7. CASE DeleteNum(n)
    BY <2>7 DEF DeleteNum
  <2> QED
    BY <1>2, <2>1, <2>2, <2>3, <2>4, <2>5, <2>6, <2>7 DEF NumNext
<1>3. ASSUME NEW m \in Sim, SimNext(m) PROVE TypesWithinLimits'
  <2>1. ASSUME NEW id \in SimId, NEW b \in Brand, CreateSim(m, id, b)
        PROVE  TypesWithinLimits'
    BY <2>1 DEF CreateSim
  <2>2. ASSUME NEW b \in Brand, SetBrandSim(m, b)
        PROVE  TypesWithinLimits'
    BY <2>2 DEF SetBrandSim
  <2>3. ASSUME NEW new \in SimStates, SetStateSim(m, new)
        PROVE  TypesWithinLimits'
    BY <2>3 DEF SetStateSim
  <2>4. ASSUME NEW S \in ServiceSets, AssociateSim(m, S)
        PROVE  TypesWithinLimits'
    <3>1. \A s \in Real(S) :
            Cardinality(OfType(simServices[m] \cup S, TypeOf[s])) <= TypeLimit(TypeOf[s])
      BY <2>4 DEF AssociateSim
    <3>2. simServices' = [simServices EXCEPT ![m] = simServices[m] \cup S]
      BY <2>4 DEF AssociateSim
    <3>3. ASSUME NEW s \in Real(simServices[m] \cup S)
          PROVE  Cardinality(OfType(simServices[m] \cup S, TypeOf[s])) <= TypeLimit(TypeOf[s])
      <4>1. CASE \E t \in Real(S) : TypeOf[t] = TypeOf[s]
        BY <3>1, <4>1
      <4>2. CASE \A t \in Real(S) : TypeOf[t] # TypeOf[s]
        <5>1. s \in Real(simServices[m])
          BY <4>2 DEF Real
        <5>2. OfType(simServices[m] \cup S, TypeOf[s]) = OfType(simServices[m], TypeOf[s])
          BY <4>2 DEF OfType, Real
        <5> QED
          BY <5>1, <5>2
      <4> QED
        BY <4>1, <4>2
    <3> QED
      BY <3>2, <3>3, <2>4 DEF AssociateSim
  <2>5. ASSUME NEW S \in ServiceSets, DisassociateSim(m, S)
        PROVE  TypesWithinLimits'
    <3>1. simServices' = [simServices EXCEPT ![m] = simServices[m] \ S]
      BY <2>5 DEF DisassociateSim
    <3>2. ASSUME NEW s \in Real(simServices[m] \ S)
          PROVE  Cardinality(OfType(simServices[m] \ S, TypeOf[s])) <= TypeLimit(TypeOf[s])
      <4>1. s \in Real(simServices[m])
        BY DEF Real
      <4>2. TypeLimit(TypeOf[s]) \in Nat
        BY DEF TypeLimit
      <4>3. /\ simServices[m] \ S \in SUBSET Service
            /\ simServices[m] \in SUBSET Service
            /\ simServices[m] \ S \subseteq simServices[m]
        OBVIOUS
      <4> QED
        BY <4>1, <4>2, <4>3, FewerOfType
    <3> QED
      BY <3>1, <3>2, <2>5 DEF DisassociateSim
  <2>6. CASE DeleteSim(m)
    BY <2>6 DEF DeleteSim
  <2> QED
    BY <1>3, <2>1, <2>2, <2>3, <2>4, <2>5, <2>6 DEF SimNext
<1>4. ASSUME NEW s \in Service, CloseService(s) PROVE TypesWithinLimits'
  BY <1>4 DEF CloseService
<1> QED
  BY <1>1, <1>2, <1>3, <1>4 DEF Next

\* However the associations are split, a number carries one service of a type
\* and a SIM at most the limit of its type.
THEOREM TypesLimited == Spec => []TypesWithinLimits
<1>1. Init => TypesWithinLimits
  BY DEF Init, TypesWithinLimits, Real
<1> QED
  BY <1>1, LimitStep, UseInvariant, PTL DEF Spec
=============================================================================
