------------------------------- MODULE IpApn -------------------------------
(***************************************************************************)
(* IP addresses (/device/ip) and access points (/device/apn) as the policy *)
(* opcodes of fm_ip_pol, fm_apn_pol and fm_device_pol govern them.         *)
(*                                                                         *)
(* One action is one PCM_OP_DEVICE_* call of a client: the external        *)
(* standard opcode, the policy opcode it calls through fm_device_pol, and  *)
(* every nested PCM_OP_DEVICE_* call the policy makes.  A policy that sets *)
(* the error buffer makes the standard opcode abort its transaction, so a  *)
(* refused call leaves the database as it was and is a stuttering step.    *)
(***************************************************************************)
EXTENDS Naturals, FiniteSets

CONSTANTS
  Ip,         \* poids of /device/ip objects
  Apn,        \* poids of /device/apn objects
  Name,       \* DEVICE_ID values of APNs, already trimmed
  MaxAddr,    \* DEVICE_ID values of IPs are 1..MaxAddr, in their string order
  Service,    \* services that can be associated with a device
  Brand,      \* brand accounts a device can belong to (ACCOUNT_OBJ)
  BrandOf,    \* brand of the account that owns each service, or NoBrand
  NoBrand,    \* the null BRAND_OBJ
  RangeCheck, \* pin.conf fm_ip ip_device_dup_check_type is not 0
  None        \* value of a field of an object that was never created

ASSUME IpApnAssumption ==
  /\ MaxAddr \in Nat
  /\ IsFiniteSet(Service)
  /\ RangeCheck \in BOOLEAN
  /\ BrandOf \in [Service -> Brand \cup {NoBrand}]
  /\ NoBrand \notin Brand
  /\ None \notin Name \cup Brand \cup Apn \cup Nat

VARIABLES
  apnState, apnName, apnBrand, apnServices,
  ipState, ipAddr, ipApn, ipBrand, ipServices

apnVars == <<apnState, apnName, apnBrand, apnServices>>
ipVars  == <<ipState, ipAddr, ipApn, ipBrand, ipServices>>
vars    == <<apnState, apnName, apnBrand, apnServices,
             ipState, ipAddr, ipApn, ipBrand, ipServices>>

Addr == 1 .. MaxAddr

\* The SERVICES arrays a caller sends: never empty.
ServiceSets == (SUBSET Service) \ {{}}

\* "absent" before PCM_OP_DEVICE_CREATE, "deleted" after PCM_OP_DEVICE_DELETE:
\* a poid is never given to a second object.
IpStates  == {"NEW", "ALLOCATED", "UNALLOCATED", "RETURNED"}
ApnStates == {"NEW", "USABLE", "UNUSABLE"}
Missing   == {"absent", "deleted"}

\* The transitions PCM_OP_DEVICE_SET_STATE accepts between stable states.
IpTable ==
  {<<"NEW", "ALLOCATED">>, <<"NEW", "RETURNED">>,
   <<"ALLOCATED", "UNALLOCATED">>,
   <<"UNALLOCATED", "ALLOCATED">>, <<"UNALLOCATED", "RETURNED">>}

ApnTable ==
  {<<"NEW", "USABLE">>, <<"NEW", "UNUSABLE">>,
   <<"USABLE", "UNUSABLE">>, <<"UNUSABLE", "USABLE">>}

IpExists(i)  == ipState[i] \notin Missing
ApnExists(a) == apnState[a] \notin Missing
IpsOf(a)     == {i \in Ip : IpExists(i) /\ ipApn[i] = a}

\* The count of ALLOCATED addresses every APN policy opcode takes before it
\* lets the APN change.
NoAllocatedIp(a) == \A i \in IpsOf(a) : ipState[i] # "ALLOCATED"

\* The accounts that own the services have no brand or the device's brand.
BrandMatches(b, S) == \A s \in S : BrandOf[s] \in {NoBrand, b}

-----------------------------------------------------------------------------
(***************************************************************************)
(* State changes of an APN.                                                *)
(***************************************************************************)

\* PCM_OP_APN_POL_DEVICE_SET_STATE: a direct call may not make a NEW APN
\* USABLE, only the creation or the move of an IP may (they are ancestors).
ApnStatePermitted(a, new, viaIp) ==
  /\ <<apnState[a], new>> \in ApnTable
  /\ viaIp \/ ~(apnState[a] = "NEW" /\ new = "USABLE")
  /\ NoAllocatedIp(a)

\* A NEW APN becomes USABLE with the first IP that is put on it.
OpenNewApn(a) ==
  /\ apnState[a] = "NEW" => ApnStatePermitted(a, "USABLE", TRUE)
  /\ apnState' = IF apnState[a] = "NEW"
                 THEN [apnState EXCEPT ![a] = "USABLE"] ELSE apnState

SetStateApn(a, new) ==
  /\ ApnExists(a)
  /\ ApnStatePermitted(a, new, FALSE)
  /\ apnState' = [apnState EXCEPT ![a] = new]
  /\ UNCHANGED <<apnName, apnBrand, apnServices>> /\ UNCHANGED ipVars

-----------------------------------------------------------------------------
(***************************************************************************)
(* The other opcodes on an APN.                                            *)
(***************************************************************************)

NameFree(n) == \A a \in Apn : ApnExists(a) => apnName[a] # n

CreateApn(a, n, b) ==
  /\ apnState[a] = "absent"
  /\ NameFree(n)
  /\ apnState' = [apnState EXCEPT ![a] = "NEW"]
  /\ apnName' = [apnName EXCEPT ![a] = n]
  /\ apnBrand' = [apnBrand EXCEPT ![a] = b]
  /\ UNCHANGED apnServices /\ UNCHANGED ipVars

\* Mutants of RenameApn: the name is not searched, or the addresses not counted.
RenameApnUnsearched(a, n) ==
  /\ ApnExists(a)
  /\ NoAllocatedIp(a)
  /\ apnName' = [apnName EXCEPT ![a] = n]
  /\ UNCHANGED <<apnState, apnBrand, apnServices>> /\ UNCHANGED ipVars

RenameApnUncounted(a, n) ==
  /\ ApnExists(a)
  /\ NameFree(n)
  /\ apnName' = [apnName EXCEPT ![a] = n]
  /\ UNCHANGED <<apnState, apnBrand, apnServices>> /\ UNCHANGED ipVars

\* PCM_OP_DEVICE_SET_ATTR with a DEVICE_ID.
RenameApn(a, n) ==
  /\ ApnExists(a)
  /\ NameFree(n)
  /\ NoAllocatedIp(a)
  /\ apnName' = [apnName EXCEPT ![a] = n]
  /\ UNCHANGED <<apnState, apnBrand, apnServices>> /\ UNCHANGED ipVars

\* PCM_OP_IP_POL_DEVICE_SET_BRAND, reached only from the APN's SET_BRAND.
IpMayChangeBrand(i, b) ==
  ipBrand[i] # b => ipState[i] \in {"NEW", "UNALLOCATED"}

\* Mutant of SetBrandApn: only the IPs still NEW are moved to the brand.
SetBrandApnOfNewIps(a, b) ==
  /\ ApnExists(a)
  /\ apnBrand[a] # b => apnState[a] \in {"NEW", "USABLE"}
  /\ ~ \E c \in Apn :
         ApnExists(c) /\ apnBrand[c] = b /\ apnName[c] = apnName[a]
  /\ NoAllocatedIp(a)
  /\ apnBrand' = [apnBrand EXCEPT ![a] = b]
  /\ ipBrand' = [i \in Ip |-> IF i \in IpsOf(a) /\ ipState[i] = "NEW"
                              THEN b ELSE ipBrand[i]]
  /\ UNCHANGED <<apnState, apnName, apnServices>>
  /\ UNCHANGED <<ipState, ipAddr, ipApn, ipServices>>

\* An APN takes all its IPs with it; one refusal rolls everything back.  The
\* search for another APN of the target brand with this name finds the APN
\* itself when the brand does not change.
SetBrandApn(a, b) ==
  /\ ApnExists(a)
  /\ apnBrand[a] # b => apnState[a] \in {"NEW", "USABLE"}
  /\ ~ \E c \in Apn :
         ApnExists(c) /\ apnBrand[c] = b /\ apnName[c] = apnName[a]
  /\ NoAllocatedIp(a)
  /\ \A i \in IpsOf(a) : IpMayChangeBrand(i, b)
  /\ apnBrand' = [apnBrand EXCEPT ![a] = b]
  /\ ipBrand' = [i \in Ip |-> IF i \in IpsOf(a) THEN b ELSE ipBrand[i]]
  /\ UNCHANGED <<apnState, apnName, apnServices>>
  /\ UNCHANGED <<ipState, ipAddr, ipApn, ipServices>>

AssociateApn(a, S) ==
  /\ ApnExists(a)
  /\ apnState[a] # "UNUSABLE"
  /\ BrandMatches(apnBrand[a], S)
  /\ apnServices' = [apnServices EXCEPT ![a] = @ \cup S]
  /\ UNCHANGED <<apnState, apnName, apnBrand>> /\ UNCHANGED ipVars

DisassociateApn(a, S) ==
  /\ ApnExists(a)
  /\ S \subseteq apnServices[a]
  /\ apnServices' = [apnServices EXCEPT ![a] = @ \ S]
  /\ UNCHANGED <<apnState, apnName, apnBrand>> /\ UNCHANGED ipVars

\* fm_device_pol refuses a device with services, the IP policy one that is
\* ALLOCATED.
IpMayBeDeleted(i) == ipServices[i] = {} /\ ipState[i] # "ALLOCATED"

DeleteIp(i) ==
  /\ IpExists(i)
  /\ IpMayBeDeleted(i)
  /\ ipState' = [ipState EXCEPT ![i] = "deleted"]
  /\ UNCHANGED apnVars /\ UNCHANGED <<ipAddr, ipApn, ipBrand, ipServices>>

\* Mutant of DeleteApn: its IPs are checked but only the NEW ones deleted.
DeleteApnKeepingIps(a) ==
  /\ ApnExists(a)
  /\ apnServices[a] = {}
  /\ NoAllocatedIp(a)
  /\ apnState' = [apnState EXCEPT ![a] = "deleted"]
  /\ ipState' = [i \in Ip |-> IF i \in IpsOf(a) /\ ipState[i] = "NEW"
                              THEN "deleted" ELSE ipState[i]]
  /\ UNCHANGED <<apnName, apnBrand, apnServices>>
  /\ UNCHANGED <<ipAddr, ipApn, ipBrand, ipServices>>

\* Every IP of the APN goes through PCM_OP_DEVICE_DELETE before the APN does.
DeleteApn(a) ==
  /\ ApnExists(a)
  /\ apnServices[a] = {}
  /\ NoAllocatedIp(a)
  /\ \A i \in IpsOf(a) : IpMayBeDeleted(i)
  /\ apnState' = [apnState EXCEPT ![a] = "deleted"]
  /\ ipState' = [i \in Ip |-> IF i \in IpsOf(a) THEN "deleted" ELSE ipState[i]]
  /\ UNCHANGED <<apnName, apnBrand, apnServices>>
  /\ UNCHANGED <<ipAddr, ipApn, ipBrand, ipServices>>

-----------------------------------------------------------------------------
(***************************************************************************)
(* The other opcodes on an IP.                                             *)
(***************************************************************************)

\* An IP of the APN with an address from lo to hi.
Taken(a, lo, hi) == \E j \in IpsOf(a) : lo <= ipAddr[j] /\ ipAddr[j] <= hi

\* Under the range setting the caller checks a whole range with the first
\* address (END_ADDRESS present) and creates the others without END_ADDRESS,
\* for which neither the addresses nor the APN are looked at.
CreateIpChecks(a, lo, end) ==
  IF RangeCheck /\ end = None
  THEN UNCHANGED apnState
  ELSE /\ ~Taken(a, lo, IF RangeCheck THEN end ELSE lo)
       /\ apnState[a] \in {"NEW", "USABLE"}
       /\ OpenNewApn(a)

CreateIp(i, lo, end, a, b) ==
  /\ ipState[i] = "absent"
  /\ apnState[a] # "absent"
  /\ CreateIpChecks(a, lo, end)
  /\ ipState' = [ipState EXCEPT ![i] = "NEW"]
  /\ ipAddr' = [ipAddr EXCEPT ![i] = lo]
  /\ ipApn' = [ipApn EXCEPT ![i] = a]
  /\ ipBrand' = [ipBrand EXCEPT ![i] = b]
  /\ UNCHANGED ipServices /\ UNCHANGED <<apnName, apnBrand, apnServices>>

\* Mutant of MoveIp: the address is not searched on the new APN.
MoveIpUnsearched(i, a) ==
  /\ IpExists(i)
  /\ ipState[i] \notin {"ALLOCATED", "RETURNED"}
  /\ ApnExists(a)
  /\ OpenNewApn(a)
  /\ ipApn' = [ipApn EXCEPT ![i] = a]
  /\ UNCHANGED <<ipState, ipAddr, ipBrand, ipServices>>
  /\ UNCHANGED <<apnName, apnBrand, apnServices>>

\* PCM_OP_DEVICE_SET_ATTR with an APN_OBJ.  The duplicate search does not
\* leave out the IP itself, and an UNUSABLE APN is accepted.
MoveIp(i, a) ==
  /\ IpExists(i)
  /\ ipState[i] \notin {"ALLOCATED", "RETURNED"}
  /\ ~Taken(a, ipAddr[i], ipAddr[i])
  /\ ApnExists(a)
  /\ OpenNewApn(a)
  /\ ipApn' = [ipApn EXCEPT ![i] = a]
  /\ UNCHANGED <<ipState, ipAddr, ipBrand, ipServices>>
  /\ UNCHANGED <<apnName, apnBrand, apnServices>>

\* PCM_OP_IP_POL_DEVICE_SET_STATE: only an association or a disassociation may
\* enter or leave ALLOCATED.
SetStateIp(i, new) ==
  /\ IpExists(i)
  /\ <<ipState[i], new>> \in IpTable
  /\ ipState[i] # "ALLOCATED" /\ new # "ALLOCATED"
  /\ ipState' = [ipState EXCEPT ![i] = new]
  /\ UNCHANGED apnVars /\ UNCHANGED <<ipAddr, ipApn, ipBrand, ipServices>>

\* Mutants of AssociateIp: the state of the APN is not read, or the brand is
\* compared only with the association that allocates the address.
AssociateIpOnAnyApn(i, S) ==
  /\ IpExists(i)
  /\ ipState[i] \in {"NEW", "UNALLOCATED", "ALLOCATED"}
  /\ BrandMatches(ipBrand[i], S)
  /\ ipState' = [ipState EXCEPT ![i] = "ALLOCATED"]
  /\ ipServices' = [ipServices EXCEPT ![i] = @ \cup S]
  /\ UNCHANGED apnVars /\ UNCHANGED <<ipAddr, ipApn, ipBrand>>

AssociateIpBrandOnce(i, S) ==
  /\ IpExists(i)
  /\ ApnExists(ipApn[i])
  /\ apnState[ipApn[i]] # "UNUSABLE"
  /\ ipState[i] \in {"NEW", "UNALLOCATED", "ALLOCATED"}
  /\ ipState[i] # "ALLOCATED" => BrandMatches(ipBrand[i], S)
  /\ ipState' = [ipState EXCEPT ![i] = "ALLOCATED"]
  /\ ipServices' = [ipServices EXCEPT ![i] = @ \cup S]
  /\ UNCHANGED apnVars /\ UNCHANGED <<ipAddr, ipApn, ipBrand>>

\* An ALLOCATED IP takes further services and stays ALLOCATED.
AssociateIp(i, S) ==
  /\ IpExists(i)
  /\ ApnExists(ipApn[i])
  /\ apnState[ipApn[i]] # "UNUSABLE"
  /\ ipState[i] \in {"NEW", "UNALLOCATED", "ALLOCATED"}
  /\ BrandMatches(ipBrand[i], S)
  /\ ipState' = [ipState EXCEPT ![i] = "ALLOCATED"]
  /\ ipServices' = [ipServices EXCEPT ![i] = @ \cup S]
  /\ UNCHANGED apnVars /\ UNCHANGED <<ipAddr, ipApn, ipBrand>>

\* Mutants of DisassociateIp: the first service to go releases the address, or
\* the state written is not one of /device/ip.
DisassociateIpEarly(i, S) ==
  /\ IpExists(i)
  /\ S \subseteq ipServices[i]
  /\ ipState' = IF ipState[i] = "ALLOCATED"
                THEN [ipState EXCEPT ![i] = "UNALLOCATED"] ELSE ipState
  /\ ipServices' = [ipServices EXCEPT ![i] = @ \ S]
  /\ UNCHANGED apnVars /\ UNCHANGED <<ipAddr, ipApn, ipBrand>>

DisassociateIpUnassigned(i, S) ==
  /\ IpExists(i)
  /\ S \subseteq ipServices[i]
  /\ ipState' = IF /\ Cardinality(S) = Cardinality(ipServices[i])
                   /\ ipState[i] = "ALLOCATED"
                THEN [ipState EXCEPT ![i] = "UNASSIGNED"] ELSE ipState
  /\ ipServices' = [ipServices EXCEPT ![i] = @ \ S]
  /\ UNCHANGED apnVars /\ UNCHANGED <<ipAddr, ipApn, ipBrand>>

\* The IP is released when as many services go as it has.
DisassociateIp(i, S) ==
  /\ IpExists(i)
  /\ S \subseteq ipServices[i]
  /\ ipState' = IF /\ Cardinality(S) = Cardinality(ipServices[i])
                   /\ ipState[i] = "ALLOCATED"
                THEN [ipState EXCEPT ![i] = "UNALLOCATED"] ELSE ipState
  /\ ipServices' = [ipServices EXCEPT ![i] = @ \ S]
  /\ UNCHANGED apnVars /\ UNCHANGED <<ipAddr, ipApn, ipBrand>>

-----------------------------------------------------------------------------
Init ==
  /\ apnState = [a \in Apn |-> "absent"]
  /\ apnName = [a \in Apn |-> None]
  /\ apnBrand = [a \in Apn |-> None]
  /\ apnServices = [a \in Apn |-> {}]
  /\ ipState = [i \in Ip |-> "absent"]
  /\ ipAddr = [i \in Ip |-> None]
  /\ ipApn = [i \in Ip |-> None]
  /\ ipBrand = [i \in Ip |-> None]
  /\ ipServices = [i \in Ip |-> {}]

\* The END_ADDRESS a caller can send with a first address.
EndsFor(lo) == {None} \cup {hi \in Addr : lo <= hi}

ApnNext(a) ==
  \/ \E n \in Name, b \in Brand : CreateApn(a, n, b)
  \/ \E n \in Name : RenameApn(a, n)
  \/ \E new \in ApnStates : SetStateApn(a, new)
  \/ \E b \in Brand : SetBrandApn(a, b)
  \/ \E S \in ServiceSets : AssociateApn(a, S)
  \/ \E S \in ServiceSets : DisassociateApn(a, S)
  \/ DeleteApn(a)

IpNext(i) ==
  \/ \E lo \in Addr, a \in Apn, b \in Brand :
       \E end \in EndsFor(lo) : CreateIp(i, lo, end, a, b)
  \/ \E a \in Apn : MoveIp(i, a)
  \/ \E new \in IpStates : SetStateIp(i, new)
  \/ \E S \in ServiceSets : AssociateIp(i, S)
  \/ \E S \in ServiceSets : DisassociateIp(i, S)
  \/ DeleteIp(i)

Next == (\E a \in Apn : ApnNext(a)) \/ (\E i \in Ip : IpNext(i))

Spec == Init /\ [][Next]_vars

-----------------------------------------------------------------------------
(***************************************************************************)
(* Properties.                                                             *)
(***************************************************************************)

\* Every field holds a value of its type.
TypeOK ==
  /\ apnState \in [Apn -> ApnStates \cup Missing]
  /\ apnName \in [Apn -> Name \cup {None}]
  /\ apnBrand \in [Apn -> Brand \cup {None}]
  /\ apnServices \in [Apn -> SUBSET Service]
  /\ ipState \in [Ip -> IpStates \cup Missing]
  /\ ipAddr \in [Ip -> Addr \cup {None}]
  /\ ipApn \in [Ip -> Apn \cup {None}]
  /\ ipBrand \in [Ip -> Brand \cup {None}]
  /\ ipServices \in [Ip -> SUBSET Service]

\* An address in use is on an APN that is in service: associate refuses an
\* UNUSABLE APN, and SET_STATE, DELETE and SET_BRAND of the APN count its
\* ALLOCATED addresses first.  Without the range setting the APN left NEW when
\* the address was put on it.
AllocatedOnServingApn ==
  \A i \in Ip : ipState[i] = "ALLOCATED" =>
    /\ ipApn[i] \in Apn
    /\ apnState[ipApn[i]] \in {"USABLE"} \cup (IF RangeCheck THEN {"NEW"} ELSE {})

\* The state kept by the policy agrees with the SERVICES the device framework
\* keeps: an address is ALLOCATED exactly while a service holds it.
AllocatedIffServices ==
  \A i \in Ip : ipState[i] = "ALLOCATED" <=> ipServices[i] # {}

\* An IP is put on an APN that exists and leaves NEW with it; an APN never
\* becomes NEW again and takes its IPs with it when it is deleted.  The range
\* setting skips the step that opens the APN.
IpOnOpenedApn ==
  ~RangeCheck =>
    \A i \in Ip : IpExists(i) => /\ ipApn[i] \in Apn
                                 /\ apnState[ipApn[i]] \in {"USABLE", "UNUSABLE"}

\* No two addresses of an APN are equal (checked by creation and by the move
\* of an IP to another APN, with the setting that checks single addresses).
AddressUnique ==
  \A i, j \in Ip :
    (i # j /\ IpExists(i) /\ IpExists(j) /\ ipApn[i] = ipApn[j])
      => ipAddr[i] # ipAddr[j]

\* A service holds only addresses of its account's brand, however the
\* addresses are rebranded later: an IP with services keeps its brand.
ServicesInBrand == \A i \in Ip : BrandMatches(ipBrand[i], ipServices[i])

\* Two APNs never carry the same name.
ApnNameUnique ==
  \A a, c \in Apn :
    (a # c /\ ApnExists(a) /\ ApnExists(c)) => apnName[a] # apnName[c]

\* While an address stays ALLOCATED nothing its services rely on changes:
\* neither its address, its APN and its brand, nor the APN's name, brand and
\* state, whichever opcode runs on the IP, on the APN or on another IP.
AllocatedIsFrozen ==
  [][\A i \in Ip : ipState[i] = "ALLOCATED" /\ ipState'[i] = "ALLOCATED" =>
       /\ UNCHANGED <<ipAddr[i], ipApn[i], ipBrand[i]>>
       /\ UNCHANGED <<apnState[ipApn[i]], apnName[ipApn[i]], apnBrand[ipApn[i]]>>]_vars

\* A brand changes for an APN and all its addresses together: an address takes
\* a new brand only with its APN, and the APN leaves none behind.
BrandMovesTogether ==
  [][/\ \A a \in Apn : (ApnExists(a) /\ apnBrand'[a] # apnBrand[a]) =>
          \A i \in IpsOf(a) : ipBrand'[i] = apnBrand'[a]
     /\ \A i \in Ip : (IpExists(i) /\ ipBrand'[i] # ipBrand[i]) =>
          apnBrand'[ipApn[i]] = ipBrand'[i] /\ apnBrand[ipApn[i]] # ipBrand'[i]]_vars

\* The opcodes implement the pool of addresses: an APN serves while it is NEW
\* or USABLE, and the SERVICES of an IP are its holders.
Pool == INSTANCE AddressPool WITH
  Nowhere <- None,
  open <- {a \in Apn : apnState[a] \in {"NEW", "USABLE"}},
  place <- [i \in Ip |-> IF IpExists(i) THEN ipApn[i] ELSE None],
  holders <- ipServices

ImplementsPool == Pool!PoolSpec
=============================================================================
