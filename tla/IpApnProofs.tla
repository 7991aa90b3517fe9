---------------------------- MODULE IpApnProofs ----------------------------
(***************************************************************************)
(* Theorems about IpApn, for every set of devices, services and brands.    *)
(***************************************************************************)
EXTENDS IpApn, FiniteSetTheorems, TLAPS

\* Every step of every opcode keeps every field in its type.
LEMMA TypeStep == TypeOK /\ [Next]_vars => TypeOK'
<1> SUFFICES ASSUME TypeOK, [Next]_vars PROVE TypeOK'
  OBVIOUS
<1> USE DEF TypeOK, apnVars, ipVars, IpStates, ApnStates, Missing, ServiceSets
<1>1. CASE UNCHANGED vars
  BY <1>1 DEF vars
<1>2. ASSUME NEW a \in Apn, ApnNext(a) PROVE TypeOK'
  <2>1. ASSUME NEW n \in Name, NEW b \in Brand, CreateApn(a, n, b)
        PROVE TypeOK'
    BY <2>1 DEF CreateApn
  <2>2. ASSUME NEW n \in Name, RenameApn(a, n) PROVE TypeOK'
    BY <2>2 DEF RenameApn
  <2>3. ASSUME NEW new \in ApnStates, SetStateApn(a, new) PROVE TypeOK'
    BY <2>3 DEF SetStateApn
  <2>4. ASSUME NEW b \in Brand, SetBrandApn(a, b) PROVE TypeOK'
    BY <2>4 DEF SetBrandApn
  <2>5. ASSUME NEW S \in ServiceSets, AssociateApn(a, S)
        PROVE TypeOK'
    BY <2>5 DEF AssociateApn
  <2>6. ASSUME NEW S \in ServiceSets, DisassociateApn(a, S)
        PROVE TypeOK'
    BY <2>6 DEF DisassociateApn
  <2>7. CASE DeleteApn(a)
    BY <2>7 DEF DeleteApn
  <2> QED
    BY <1>2, <2>1, <2>2, <2>3, <2>4, <2>5, <2>6, <2>7 DEF ApnNext
<1>3. ASSUME NEW i \in Ip, IpNext(i) PROVE TypeOK'
  <2>1. ASSUME NEW lo \in Addr, NEW a \in Apn, NEW b \in Brand,
               NEW end \in EndsFor(lo), CreateIp(i, lo, end, a, b)
        PROVE TypeOK'
    BY <2>1 DEF CreateIp, CreateIpChecks, OpenNewApn
  <2>2. ASSUME NEW a \in Apn, MoveIp(i, a) PROVE TypeOK'
    BY <2>2 DEF MoveIp, OpenNewApn
  <2>3. ASSUME NEW new \in IpStates, SetStateIp(i, new) PROVE TypeOK'
    BY <2>3 DEF SetStateIp
  <2>4. ASSUME NEW S \in ServiceSets, AssociateIp(i, S)
        PROVE TypeOK'
    BY <2>4 DEF AssociateIp
  <2>5. ASSUME NEW S \in ServiceSets, DisassociateIp(i, S)
        PROVE TypeOK'
    BY <2>5 DEF DisassociateIp
  <2>6. CASE DeleteIp(i)
    BY <2>6 DEF DeleteIp
  <2> QED
    BY <1>3, <2>1, <2>2, <2>3, <2>4, <2>5, <2>6 DEF IpNext
<1> QED
  BY <1>1, <1>2, <1>3 DEF Next

\* The fields of the device rows always hold values of their types.
THEOREM TypeCorrect == Spec => []TypeOK
<1>1. Init => TypeOK
  BY DEF Init, TypeOK, Missing
<1> QED
  BY <1>1, TypeStep, PTL DEF Spec

-----------------------------------------------------------------------------
\* The part of the state every safety argument below rests on: an address in
\* use is on an APN in service and held by a service, and an address not in
\* use is held by none.
UseInv ==
  /\ TypeOK
  /\ \A i \in Ip : IpExists(i) => ipApn[i] \in Apn /\ ipAddr[i] \in Addr
  /\ \A i \in Ip : ipState[i] = "ALLOCATED" =>
       apnState[ipApn[i]] \in {"NEW", "USABLE"}
  /\ IpOnOpenedApn
  /\ AllocatedIffServices

\* Removing as many services as a device has removes them all.
LEMMA RemoveAll ==
  ASSUME NEW S \in SUBSET Service, NEW T \in SUBSET Service, S \subseteq T
  PROVE  Cardinality(S) = Cardinality(T) <=> T \ S = {}
<1>1. IsFiniteSet(T) /\ IsFiniteSet(S)
  BY IpApnAssumption, FS_Subset
<1>2. Cardinality(S) = Cardinality(T) => S = T
  BY <1>1, FS_Subset
<1> QED
  BY <1>2

\* No opcode breaks UseInv: the APN's opcodes count its ALLOCATED addresses
\* first, and the IP's opcodes read the APN's state first.
LEMMA UseStep == UseInv /\ [Next]_vars => UseInv'
<1> SUFFICES ASSUME UseInv, [Next]_vars PROVE UseInv'
  OBVIOUS
<1>0. TypeOK'
  BY TypeStep DEF UseInv
<1> USE IpApnAssumption
<1> USE DEF UseInv, TypeOK, IpOnOpenedApn, AllocatedIffServices, IpsOf,
            NoAllocatedIp, IpExists, ApnExists, Missing, ServiceSets, apnVars, ipVars
<1>1. CASE UNCHANGED vars
  BY <1>0, <1>1 DEF vars
<1>2. ASSUME NEW a \in Apn, ApnNext(a) PROVE UseInv'
  <2>1. ASSUME NEW n \in Name, NEW b \in Brand, CreateApn(a, n, b)
        PROVE UseInv'
    BY <1>0, <2>1 DEF CreateApn
  <2>2. ASSUME NEW n \in Name, RenameApn(a, n) PROVE UseInv'
    BY <1>0, <2>2 DEF RenameApn
  <2>3. ASSUME NEW new \in ApnStates, SetStateApn(a, new) PROVE UseInv'
    BY <1>0, <2>3 DEF SetStateApn, ApnStatePermitted, ApnTable
  <2>4. ASSUME NEW b \in Brand, SetBrandApn(a, b) PROVE UseInv'
    BY <1>0, <2>4 DEF SetBrandApn
  <2>5. ASSUME NEW S \in ServiceSets, AssociateApn(a, S)
        PROVE UseInv'
    BY <1>0, <2>5 DEF AssociateApn
  <2>6. ASSUME NEW S \in ServiceSets, DisassociateApn(a, S)
        PROVE UseInv'
    BY <1>0, <2>6 DEF DisassociateApn
  <2>7. CASE DeleteApn(a)
    BY <1>0, <2>7 DEF DeleteApn, IpMayBeDeleted
  <2> QED
    BY <1>2, <2>1, <2>2, <2>3, <2>4, <2>5, <2>6, <2>7 DEF ApnNext
<1>3. ASSUME NEW i \in Ip, IpNext(i) PROVE UseInv'
  <2>1. ASSUME NEW lo \in Addr, NEW a \in Apn, NEW b \in Brand,
               NEW end \in EndsFor(lo), CreateIp(i, lo, end, a, b)
        PROVE UseInv'
    <3>1. CASE RangeCheck /\ end = None
      BY <1>0, <2>1, <3>1 DEF CreateIp, CreateIpChecks
    <3>2. CASE ~(RangeCheck /\ end = None)
      BY <1>0, <2>1, <3>2
      DEF CreateIp, CreateIpChecks, OpenNewApn, ApnStatePermitted
    <3> QED
      BY <3>1, <3>2
  <2>2. ASSUME NEW a \in Apn, MoveIp(i, a) PROVE UseInv'
    BY <1>0, <2>2 DEF MoveIp, OpenNewApn, ApnStatePermitted, ApnStates
  <2>3. ASSUME NEW new \in IpStates, SetStateIp(i, new) PROVE UseInv'
    BY <1>0, <2>3 DEF SetStateIp, IpTable
  <2>4. ASSUME NEW S \in ServiceSets, AssociateIp(i, S)
        PROVE UseInv'
    BY <1>0, <2>4 DEF AssociateIp, ApnStates
  <2>5. ASSUME NEW S \in ServiceSets, DisassociateIp(i, S)
        PROVE UseInv'
    <3>1. Cardinality(S) = Cardinality(ipServices[i]) <=> ipServices[i] \ S = {}
      BY <2>5, RemoveAll DEF DisassociateIp
    <3>2. /\ \A j \in Ip : j # i => ipState'[j] = ipState[j] /\ ipServices'[j] = ipServices[j]
          /\ ipServices'[i] = ipServices[i] \ S
          /\ ipState'[i] = IF ipServices[i] \ S = {} /\ ipState[i] = "ALLOCATED"
                           THEN "UNALLOCATED" ELSE ipState[i]
      BY <2>5, <3>1 DEF DisassociateIp
    <3>3. AllocatedIffServices'
      BY <3>2
    <3> QED
      BY <1>0, <2>5, <3>2, <3>3 DEF DisassociateIp
  <2>6. CASE DeleteIp(i)
    BY <1>0, <2>6 DEF DeleteIp, IpMayBeDeleted
  <2> QED
    BY <1>3, <2>1, <2>2, <2>3, <2>4, <2>5, <2>6 DEF IpNext
<1> QED
  BY <1>1, <1>2, <1>3 DEF Next

LEMMA UseInvariant == Spec => []UseInv
<1>1. Init => UseInv
  BY DEF Init, UseInv, TypeOK, IpOnOpenedApn, AllocatedIffServices, IpExists,
         Missing
<1> QED
  BY <1>1, UseStep, PTL DEF Spec

\* An address in use is on an APN in service: the association reads the state of
\* the APN, whose own opcodes count its addresses in use.
THEOREM AllocatedIsServed == Spec => []AllocatedOnServingApn
<1>1. UseInv => AllocatedOnServingApn
  BY DEF UseInv, AllocatedOnServingApn, IpOnOpenedApn, IpExists, Missing
<1> QED
  BY <1>1, UseInvariant, PTL

\* An address is ALLOCATED exactly while a service holds it, though services
\* come and go in parts and the policy compares counts only.
THEOREM AllocatedIsHeld == Spec => []AllocatedIffServices
<1>1. UseInv => AllocatedIffServices
  BY DEF UseInv
<1> QED
  BY <1>1, UseInvariant, PTL

\* With the setting that checks single addresses, no IP is on an APN that is
\* NEW or gone.
THEOREM ApnsOfIpsOpened == Spec => []IpOnOpenedApn
<1>1. UseInv => IpOnOpenedApn
  BY DEF UseInv
<1> QED
  BY <1>1, UseInvariant, PTL

-----------------------------------------------------------------------------
\* A rebranding never reaches an IP that services hold, and an association
\* compares every service's brand.
LEMMA BrandStep == UseInv /\ ServicesInBrand /\ [Next]_vars => ServicesInBrand'
<1> SUFFICES ASSUME UseInv, ServicesInBrand, [Next]_vars,
                    NEW j \in Ip, NEW s \in ipServices'[j]
             PROVE  BrandOf[s] \in {NoBrand, ipBrand'[j]}
  BY DEF ServicesInBrand, BrandMatches
<1>0. \A t \in ipServices[j] : BrandOf[t] \in {NoBrand, ipBrand[j]}
  BY DEF ServicesInBrand, BrandMatches
<1> USE DEF UseInv, TypeOK, AllocatedIffServices, NoAllocatedIp, IpsOf,
            IpExists, Missing, ipVars
<1>1. CASE UNCHANGED vars
  BY <1>0, <1>1 DEF vars
<1>2. ASSUME NEW a \in Apn, ApnNext(a)
      PROVE  BrandOf[s] \in {NoBrand, ipBrand'[j]}
  <2>1. ASSUME NEW b \in Brand, SetBrandApn(a, b)
        PROVE  BrandOf[s] \in {NoBrand, ipBrand'[j]}
    BY <1>0, <2>1 DEF SetBrandApn
  <2>2. ASSUME ~ \E b \in Brand : SetBrandApn(a, b)
        PROVE  UNCHANGED <<ipBrand, ipServices>>
    BY <1>2, <2>2 DEF ApnNext, CreateApn, RenameApn, SetStateApn, AssociateApn,
                      DisassociateApn, DeleteApn
  <2> QED
    BY <1>0, <2>1, <2>2
<1>3. ASSUME NEW i \in Ip, IpNext(i)
      PROVE  BrandOf[s] \in {NoBrand, ipBrand'[j]}
  <2>1. ASSUME NEW lo \in Addr, NEW a \in Apn, NEW b \in Brand,
               NEW end \in EndsFor(lo), CreateIp(i, lo, end, a, b)
        PROVE  BrandOf[s] \in {NoBrand, ipBrand'[j]}
    BY <1>0, <2>1 DEF CreateIp
  <2>2. ASSUME NEW S \in ServiceSets, AssociateIp(i, S)
        PROVE  BrandOf[s] \in {NoBrand, ipBrand'[j]}
    BY <1>0, <2>2 DEF AssociateIp, BrandMatches
  <2>3. ASSUME NEW S \in ServiceSets, DisassociateIp(i, S)
        PROVE  BrandOf[s] \in {NoBrand, ipBrand'[j]}
    BY <1>0, <2>3 DEF DisassociateIp
  <2>4. ASSUME \/ \E a \in Apn : MoveIp(i, a)
               \/ \E new \in IpStates : SetStateIp(i, new)
               \/ DeleteIp(i)
        PROVE  UNCHANGED <<ipBrand, ipServices>>
    BY <2>4 DEF MoveIp, SetStateIp, DeleteIp
  <2> QED
    BY <1>0, <1>3, <2>1, <2>2, <2>3, <2>4 DEF IpNext
<1> QED
  BY <1>1, <1>2, <1>3 DEF Next

\* A service holds only addresses of its account's brand.
THEOREM BrandsRespected == Spec => []ServicesInBrand
<1>1. Init => ServicesInBrand
  BY DEF Init, ServicesInBrand, BrandMatches
<1> QED
  BY <1>1, BrandStep, UseInvariant, PTL DEF Spec

-----------------------------------------------------------------------------
\* Creation and move search the address on the APN before they put it there.
LEMMA UniqueStep ==
  ASSUME ~RangeCheck
  PROVE  UseInv /\ AddressUnique /\ [Next]_vars => AddressUnique'
<1> SUFFICES ASSUME UseInv, AddressUnique, [Next]_vars PROVE AddressUnique'
  OBVIOUS
<1> USE IpApnAssumption DEF AddressUnique, IpExists, Missing, IpsOf, Taken
<1>1. CASE UNCHANGED vars
  BY <1>1 DEF vars
<1>2. ASSUME NEW a \in Apn, ApnNext(a) PROVE AddressUnique'
  <2>1. UNCHANGED <<ipAddr, ipApn>>
    BY <1>2 DEF ApnNext, CreateApn, RenameApn, SetStateApn, SetBrandApn,
                AssociateApn, DisassociateApn, DeleteApn, ipVars
  <2>2. \A j \in Ip : IpExists(j)' => IpExists(j)
    <3>1. CASE DeleteApn(a)
      BY <3>1 DEF DeleteApn, UseInv, TypeOK
    <3>2. CASE ~DeleteApn(a)
      <4>1. ipState' = ipState
        BY <1>2, <3>2 DEF ApnNext, CreateApn, RenameApn, SetStateApn,
                          SetBrandApn, AssociateApn, DisassociateApn, ipVars
      <4> QED
        BY <4>1
    <3> QED
      BY <3>1, <3>2
  <2> QED
    BY <2>1, <2>2
<1>3. ASSUME NEW i \in Ip, IpNext(i) PROVE AddressUnique'
  <2>1. ASSUME NEW lo \in Addr, NEW a \in Apn, NEW b \in Brand,
               NEW end \in EndsFor(lo), CreateIp(i, lo, end, a, b)
        PROVE  AddressUnique'
    <3>1. ~Taken(a, lo, lo)
      BY <2>1 DEF CreateIp, CreateIpChecks
    <3>2. \A j \in Ip : IpExists(j) /\ ipApn[j] = a => ipAddr[j] # lo
      BY <3>1 DEF Addr
    <3>3. /\ \A j \in Ip : j # i => /\ ipState'[j] = ipState[j]
                                    /\ ipApn'[j] = ipApn[j]
                                    /\ ipAddr'[j] = ipAddr[j]
          /\ ipApn'[i] = a /\ ipAddr'[i] = lo
      BY <2>1 DEF CreateIp, UseInv, TypeOK
    <3> QED
      BY <3>2, <3>3
  <2>2. ASSUME NEW a \in Apn, MoveIp(i, a) PROVE AddressUnique'
    <3>1. \A j \in Ip : j # i /\ IpExists(j) /\ ipApn[j] = a => ipAddr[j] # ipAddr[i]
      <4>1. ipAddr[i] \in Nat
        BY <2>2 DEF MoveIp, UseInv, Addr
      <4> QED
        BY <2>2, <4>1 DEF MoveIp
    <3>2. /\ \A j \in Ip : j # i => ipApn'[j] = ipApn[j]
          /\ ipApn'[i] = a
          /\ ipState' = ipState /\ ipAddr' = ipAddr
      BY <2>2 DEF MoveIp, UseInv, TypeOK
    <3> QED
      BY <3>1, <3>2
  <2>3. CASE \/ \E new \in IpStates : SetStateIp(i, new)
             \/ \E S \in ServiceSets : AssociateIp(i, S) \/ DisassociateIp(i, S)
             \/ DeleteIp(i)
    <3>1. UNCHANGED <<ipAddr, ipApn>> /\ IpExists(i)
      BY <2>3 DEF SetStateIp, AssociateIp, DisassociateIp, DeleteIp
    <3>2. \A j \in Ip : j # i => ipState'[j] = ipState[j]
      BY <2>3 DEF SetStateIp, AssociateIp, DisassociateIp, DeleteIp, UseInv, TypeOK
    <3> QED
      BY <3>1, <3>2
  <2> QED
    BY <1>3, <2>1, <2>2, <2>3 DEF IpNext
<1> QED
  BY <1>1, <1>2, <1>3 DEF Next

\* With the setting that checks single addresses, the addresses of an APN are
\* different.
THEOREM AddressesUnique ==
  ASSUME ~RangeCheck PROVE Spec => []AddressUnique
<1>1. Init => AddressUnique
  BY DEF Init, AddressUnique, IpExists, Missing
<1>2. UseInv /\ AddressUnique /\ [Next]_vars => AddressUnique'
  BY UniqueStep
<1> QED
  BY <1>1, <1>2, UseInvariant, PTL DEF Spec

-----------------------------------------------------------------------------
\* Creation and renaming search the name among all APNs that exist, and no other
\* opcode gives a name or brings an APN into being.
LEMMA NameStep ==
  ASSUME TypeOK, ApnNameUnique, [Next]_vars
  PROVE  ApnNameUnique'
<1> USE DEF TypeOK, ApnExists, Missing, apnVars
<1> DEFINE SameOthers(a) ==
      \A c \in Apn : c # a => apnState'[c] = apnState[c] /\ apnName'[c] = apnName[c]
    Keeps == \A c \in Apn : (ApnExists(c)' => ApnExists(c)) /\ apnName'[c] = apnName[c]
<1>1. ASSUME Keeps PROVE ApnNameUnique'
  BY <1>1 DEF ApnNameUnique
<1>2. ASSUME NEW a \in Apn, NEW n \in Name, NameFree(n), SameOthers(a), apnName'[a] = n
      PROVE  ApnNameUnique'
  BY <1>2 DEF ApnNameUnique, NameFree
<1>3. CASE UNCHANGED vars
  BY <1>1, <1>3 DEF vars
<1>4. ASSUME NEW a \in Apn, ApnNext(a) PROVE ApnNameUnique'
  <2>1. ASSUME NEW n \in Name, NEW b \in Brand, CreateApn(a, n, b) PROVE ApnNameUnique'
    BY <1>2, <2>1 DEF CreateApn
  <2>2. ASSUME NEW n \in Name, RenameApn(a, n) PROVE ApnNameUnique'
    BY <1>2, <2>2 DEF RenameApn
  <2>3. ASSUME NEW new \in ApnStates, SetStateApn(a, new) PROVE ApnNameUnique'
    BY <1>1, <2>3 DEF SetStateApn
  <2>4. CASE DeleteApn(a)
    BY <1>1, <2>4 DEF DeleteApn
  <2>5. CASE \/ \E b \in Brand : SetBrandApn(a, b)
             \/ \E S \in ServiceSets : AssociateApn(a, S) \/ DisassociateApn(a, S)
    BY <1>1, <2>5 DEF SetBrandApn, AssociateApn, DisassociateApn
  <2> QED
    BY <1>4, <2>1, <2>2, <2>3, <2>4, <2>5 DEF ApnNext
<1>5. ASSUME NEW i \in Ip, IpNext(i) PROVE ApnNameUnique'
  <2>1. UNCHANGED apnName
    BY <1>5 DEF IpNext, CreateIp, MoveIp, SetStateIp, AssociateIp, DisassociateIp, DeleteIp
  <2>2. UNCHANGED apnState \/ \E a \in Apn : OpenNewApn(a)
    BY <1>5 DEF IpNext, CreateIp, CreateIpChecks, MoveIp, SetStateIp, AssociateIp,
                DisassociateIp, DeleteIp
  <2>3. \A c \in Apn : ApnExists(c)' => ApnExists(c)
    BY <2>2 DEF OpenNewApn
  <2> QED
    BY <1>1, <2>1, <2>3
<1> QED
  BY <1>3, <1>4, <1>5 DEF Next

\* No two APNs have one name, through creations and renamings.
THEOREM ApnNamesUnique == Spec => []ApnNameUnique
<1>1. Init => ApnNameUnique
  BY DEF Init, ApnNameUnique, ApnExists, Missing
<1>2. TypeOK /\ ApnNameUnique /\ [Next]_vars => ApnNameUnique'
  BY NameStep
<1> QED
  BY <1>1, <1>2, TypeCorrect, PTL DEF Spec

-----------------------------------------------------------------------------
\* What one step leaves alone of an address that stays ALLOCATED.
Frozen(i) ==
  /\ UNCHANGED <<ipAddr[i], ipApn[i], ipBrand[i]>>
  /\ UNCHANGED <<apnState[ipApn[i]], apnName[ipApn[i]], apnBrand[ipApn[i]]>>

\* An opcode that would change what the services of an address rely on counts
\* the ALLOCATED addresses of the APN first.
LEMMA FrozenStep ==
  ASSUME UseInv, [Next]_vars, NEW j \in Ip, ipState[j] = "ALLOCATED"
  PROVE  Frozen(j)
<1> USE DEF UseInv, TypeOK, Frozen, NoAllocatedIp, IpsOf, IpExists, Missing,
            apnVars, ipVars
<1>0. /\ IpExists(j) /\ ipApn[j] \in Apn
      /\ apnState[ipApn[j]] \in {"NEW", "USABLE"}
  OBVIOUS
<1>1. CASE UNCHANGED vars
  BY <1>1 DEF vars
<1>2. ASSUME NEW a \in Apn, ApnNext(a) PROVE Frozen(j)
  <2>1. ASSUME NEW n \in Name, NEW b \in Brand, CreateApn(a, n, b)
        PROVE  Frozen(j)
    BY <1>0, <2>1 DEF CreateApn
  <2>2. ASSUME NEW n \in Name, RenameApn(a, n) PROVE Frozen(j)
    BY <1>0, <2>2 DEF RenameApn
  <2>3. ASSUME NEW new \in ApnStates, SetStateApn(a, new) PROVE Frozen(j)
    BY <1>0, <2>3 DEF SetStateApn, ApnStatePermitted
  <2>4. ASSUME NEW b \in Brand, SetBrandApn(a, b) PROVE Frozen(j)
    BY <1>0, <2>4 DEF SetBrandApn
  <2>5. CASE DeleteApn(a)
    BY <1>0, <2>5 DEF DeleteApn
  <2>6. CASE \E S \in ServiceSets : AssociateApn(a, S) \/ DisassociateApn(a, S)
    BY <2>6 DEF AssociateApn, DisassociateApn
  <2> QED
    BY <1>2, <2>1, <2>2, <2>3, <2>4, <2>5, <2>6 DEF ApnNext
<1>3. ASSUME NEW i \in Ip, IpNext(i) PROVE Frozen(j)
  <2>1. ASSUME NEW lo \in Addr, NEW a \in Apn, NEW b \in Brand,
               NEW end \in EndsFor(lo), CreateIp(i, lo, end, a, b)
        PROVE  Frozen(j)
    <3>1. apnState'[ipApn[j]] = apnState[ipApn[j]]
      BY <1>0, <2>1 DEF CreateIp, CreateIpChecks, OpenNewApn, ApnStatePermitted
    <3>2. j # i
      BY <2>1 DEF CreateIp
    <3> QED
      BY <2>1, <3>1, <3>2 DEF CreateIp
  <2>2. ASSUME NEW a \in Apn, MoveIp(i, a) PROVE Frozen(j)
    <3>1. apnState'[ipApn[j]] = apnState[ipApn[j]]
      BY <1>0, <2>2 DEF MoveIp, OpenNewApn, ApnStatePermitted
    <3>2. j # i
      BY <2>2 DEF MoveIp
    <3> QED
      BY <2>2, <3>1, <3>2 DEF MoveIp
  <2>3. CASE \/ \E new \in IpStates : SetStateIp(i, new)
             \/ \E S \in ServiceSets : AssociateIp(i, S) \/ DisassociateIp(i, S)
             \/ DeleteIp(i)
    BY <2>3 DEF SetStateIp, AssociateIp, DisassociateIp, DeleteIp
  <2> QED
    BY <1>3, <2>1, <2>2, <2>3 DEF IpNext
<1> QED
  BY <1>1, <1>2, <1>3 DEF Next

\* Nothing the services of an address rely on changes while it is ALLOCATED.
THEOREM FrozenWhileAllocated == Spec => AllocatedIsFrozen
<1>1. UseInv /\ [Next]_vars =>
        [\A i \in Ip : ipState[i] = "ALLOCATED" /\ ipState'[i] = "ALLOCATED" =>
           /\ UNCHANGED <<ipAddr[i], ipApn[i], ipBrand[i]>>
           /\ UNCHANGED <<apnState[ipApn[i]], apnName[ipApn[i]], apnBrand[ipApn[i]]>>]_vars
  BY FrozenStep DEF Frozen
<1> QED
  BY <1>1, UseInvariant, PTL DEF Spec, AllocatedIsFrozen

-----------------------------------------------------------------------------
\* SET_BRAND of an APN is the only opcode that changes a brand, and it changes
\* those of the APN and of all its IPs to the same one.
LEMMA BrandChange ==
  ASSUME UseInv, [Next]_vars
  PROVE  \/ /\ \A a \in Apn : ApnExists(a) => apnBrand'[a] = apnBrand[a]
            /\ \A i \in Ip : IpExists(i) => ipBrand'[i] = ipBrand[i]
         \/ \E a \in Apn, b \in Brand : SetBrandApn(a, b)
<1> USE DEF UseInv, TypeOK, ApnExists, IpExists, Missing, apnVars, ipVars
<1>1. CASE UNCHANGED vars
  BY <1>1 DEF vars
<1>2. ASSUME NEW a \in Apn, ApnNext(a), ~ \E b \in Brand : SetBrandApn(a, b)
      PROVE  /\ \A c \in Apn : ApnExists(c) => apnBrand'[c] = apnBrand[c]
             /\ \A i \in Ip : IpExists(i) => ipBrand'[i] = ipBrand[i]
  <2>1. ASSUME NEW n \in Name, NEW b \in Brand, CreateApn(a, n, b)
        PROVE  /\ \A c \in Apn : ApnExists(c) => apnBrand'[c] = apnBrand[c]
               /\ ipBrand' = ipBrand
    BY <2>1 DEF CreateApn
  <2>2. CASE ~ \E n \in Name, b \in Brand : CreateApn(a, n, b)
    <3>1. UNCHANGED <<apnBrand, ipBrand>>
      BY <1>2, <2>2 DEF ApnNext, RenameApn, SetStateApn, AssociateApn,
                        DisassociateApn, DeleteApn
    <3> QED
      BY <3>1
  <2> QED
    BY <2>1, <2>2
<1>3. ASSUME NEW i \in Ip, IpNext(i)
      PROVE  /\ apnBrand' = apnBrand
             /\ \A j \in Ip : IpExists(j) => ipBrand'[j] = ipBrand[j]
  <2>1. ASSUME NEW lo \in Addr, NEW a \in Apn, NEW b \in Brand,
               NEW end \in EndsFor(lo), CreateIp(i, lo, end, a, b)
        PROVE  /\ apnBrand' = apnBrand
               /\ \A j \in Ip : IpExists(j) => ipBrand'[j] = ipBrand[j]
    BY <2>1 DEF CreateIp
  <2>2. CASE \/ \E a \in Apn : MoveIp(i, a)
             \/ \E new \in IpStates : SetStateIp(i, new)
             \/ \E S \in ServiceSets : AssociateIp(i, S) \/ DisassociateIp(i, S)
             \/ DeleteIp(i)
    <3>1. UNCHANGED <<apnBrand, ipBrand>>
      BY <2>2 DEF MoveIp, SetStateIp, AssociateIp, DisassociateIp, DeleteIp
    <3> QED
      BY <3>1
  <2> QED
    BY <1>3, <2>1, <2>2 DEF IpNext
<1> QED
  BY <1>1, <1>2, <1>3 DEF Next

\* A brand changes for an APN and all its addresses together.
THEOREM BrandsMoveTogether == Spec => BrandMovesTogether
<1>1. ASSUME UseInv, [Next]_vars
      PROVE  /\ \A a \in Apn : (ApnExists(a) /\ apnBrand'[a] # apnBrand[a]) =>
                  \A i \in IpsOf(a) : ipBrand'[i] = apnBrand'[a]
             /\ \A i \in Ip : (IpExists(i) /\ ipBrand'[i] # ipBrand[i]) =>
                  apnBrand'[ipApn[i]] = ipBrand'[i] /\ apnBrand[ipApn[i]] # ipBrand'[i]
  <2>1. CASE \E a \in Apn, b \in Brand : SetBrandApn(a, b)
    <3>1. PICK a \in Apn, b \in Brand : SetBrandApn(a, b)
      BY <2>1
    <3>2. apnBrand[a] # b
      BY <3>1 DEF SetBrandApn
    <3> QED
      BY <1>1, <3>1, <3>2 DEF SetBrandApn, UseInv, TypeOK, IpsOf
  <2>2. CASE /\ \A a \in Apn : ApnExists(a) => apnBrand'[a] = apnBrand[a]
             /\ \A i \in Ip : IpExists(i) => ipBrand'[i] = ipBrand[i]
    BY <2>2
  <2> QED
    BY <1>1, <2>1, <2>2, BrandChange
<1> QED
  BY <1>1, UseInvariant, PTL DEF Spec, BrandMovesTogether

-----------------------------------------------------------------------------
\* Every opcode on a device is a step of the abstract pool of addresses.
LEMMA PoolStep == UseInv /\ [Next]_vars => [Pool!PoolNext]_(Pool!poolVars)
<1> SUFFICES ASSUME UseInv, [Next]_vars PROVE [Pool!PoolNext]_(Pool!poolVars)
  OBVIOUS
<1> DEFINE open == {a \in Apn : apnState[a] \in {"NEW", "USABLE"}}
           place == [i \in Ip |-> IF IpExists(i) THEN ipApn[i] ELSE None]
<1> USE DEF Pool!PoolNext, Pool!poolVars
<1> USE DEF UseInv, TypeOK, IpExists, ApnExists, Missing, apnVars, ipVars
<1>1. CASE UNCHANGED vars
  BY <1>1 DEF vars
<1>2. ASSUME NEW a \in Apn, ApnNext(a) PROVE [Pool!PoolNext]_(Pool!poolVars)
  <2>0. NoAllocatedIp(a) => \A i \in Pool!On(a) : ~Pool!Held(i)
    BY IpApnAssumption DEF NoAllocatedIp, IpsOf, Pool!On, Pool!Held, AllocatedIffServices
  <2>1. ASSUME NEW n \in Name, NEW b \in Brand, CreateApn(a, n, b)
        PROVE  Pool!Open(a)
    BY <2>1 DEF CreateApn, Pool!Open
  <2>2. CASE \/ \E n \in Name : RenameApn(a, n)
             \/ \E b \in Brand : SetBrandApn(a, b)
             \/ \E S \in ServiceSets : AssociateApn(a, S) \/ DisassociateApn(a, S)
    BY <2>2 DEF RenameApn, SetBrandApn, AssociateApn, DisassociateApn
  <2>3. ASSUME NEW new \in ApnStates, SetStateApn(a, new)
        PROVE  Pool!Open(a) \/ Pool!Close(a)
    <3>1. CASE new \in {"NEW", "USABLE"}
      <4>1. open' = open \cup {a}
        BY <2>3, <3>1 DEF SetStateApn
      <4> QED
        BY <2>3, <4>1 DEF SetStateApn, Pool!Open
    <3>2. CASE new = "UNUSABLE"
      <4>1. open' = open \ {a}
        BY <2>3, <3>2 DEF SetStateApn
      <4> QED
        BY <2>0, <2>3, <4>1 DEF SetStateApn, ApnStatePermitted, Pool!Close
    <3> QED
      BY <3>1, <3>2 DEF ApnStates
  <2>4. ASSUME DeleteApn(a) PROVE Pool!Close(a)
    <3>1. open' = open \ {a}
      BY <2>4 DEF DeleteApn
    <3>2. place' = [i \in Ip |-> IF i \in Pool!On(a) THEN None ELSE place[i]]
      BY <2>4, IpApnAssumption DEF DeleteApn, IpsOf, Pool!On
    <3> QED
      BY <2>0, <2>4, <3>1, <3>2 DEF DeleteApn, Pool!Close
  <2> QED
    BY <1>2, <2>1, <2>2, <2>3, <2>4 DEF ApnNext
<1>3. ASSUME NEW i \in Ip, IpNext(i) PROVE [Pool!PoolNext]_(Pool!poolVars)
  <2>0. ASSUME NEW a \in Apn, OpenNewApn(a) PROVE open' \in {open, open \cup {a}}
    BY <2>0 DEF OpenNewApn
  <2>1. ASSUME NEW lo \in Addr, NEW a \in Apn, NEW b \in Brand,
               NEW end \in EndsFor(lo), CreateIp(i, lo, end, a, b)
        PROVE  Pool!Put(i, a)
    <3>1. place' = [place EXCEPT ![i] = a]
      BY <2>1 DEF CreateIp
    <3>2. open' \in {open, open \cup {a}}
      BY <2>0, <2>1 DEF CreateIp, CreateIpChecks
    <3> QED
      BY <2>1, <3>1, <3>2, IpApnAssumption
      DEF CreateIp, Pool!Put, Pool!Held, AllocatedIffServices
  <2>2. ASSUME NEW a \in Apn, MoveIp(i, a) PROVE Pool!Put(i, a)
    <3>1. place' = [place EXCEPT ![i] = a]
      BY <2>2 DEF MoveIp
    <3>2. open' \in {open, open \cup {a}}
      BY <2>0, <2>2 DEF MoveIp
    <3> QED
      BY <2>2, <3>1, <3>2, IpApnAssumption
      DEF MoveIp, Pool!Put, Pool!Held, AllocatedIffServices
  <2>3. ASSUME NEW new \in IpStates, SetStateIp(i, new)
        PROVE  UNCHANGED <<open, place, ipServices>>
    BY <2>3 DEF SetStateIp, IpStates
  <2>4. ASSUME NEW S \in ServiceSets, AssociateIp(i, S) PROVE Pool!Hold(i, S)
    <3>1. UNCHANGED <<open, place>>
      BY <2>4 DEF AssociateIp
    <3>2. place[i] \in open
      BY <2>4 DEF AssociateIp, ApnStates
    <3> QED
      BY <2>4, <3>1, <3>2 DEF AssociateIp, Pool!Hold
  <2>5. ASSUME NEW S \in ServiceSets, DisassociateIp(i, S)
        PROVE  Pool!Release(i, S)
    <3>1. UNCHANGED <<open, place>>
      BY <2>5 DEF DisassociateIp
    <3> QED
      BY <2>5, <3>1 DEF DisassociateIp, Pool!Release
  <2>6. ASSUME DeleteIp(i) PROVE Pool!Put(i, None)
    <3>1. place' = [place EXCEPT ![i] = None]
      BY <2>6 DEF DeleteIp
    <3> QED
      BY <2>6, <3>1 DEF DeleteIp, IpMayBeDeleted, Pool!Put, Pool!Held
  <2> QED
    BY <1>3, <2>1, <2>2, <2>3, <2>4, <2>5, <2>6 DEF IpNext, ServiceSets
<1> QED
  BY <1>1, <1>2, <1>3 DEF Next

\* The opcodes on IPs and APNs implement the abstract pool of addresses.
THEOREM PoolImplemented == Spec => ImplementsPool
<1>1. Init => Pool!PoolInit
  BY DEF Init, Pool!PoolInit, IpExists, Missing
<1> QED
  BY <1>1, PoolStep, UseInvariant, PTL DEF Spec, ImplementsPool, Pool!PoolSpec
=============================================================================
