------------------------------- MODULE NumSim -------------------------------
(***************************************************************************)
(* Telephone numbers (/device/num) and SIM cards (/device/sim) as the      *)
(* policy opcodes of fm_num_pol, fm_sim_pol and fm_device_pol govern them. *)
(* Number and SIM of one telephone service meet in the service: in its     *)
(* list of aliases, and in the search of one device for the other one's    *)
(* network element.                                                        *)
(*                                                                         *)
(* One action is one PCM_OP_DEVICE_* call of a client with everything it   *)
(* nests; a refused call is rolled back and is a stuttering step.          *)
(***************************************************************************)
EXTENDS Naturals, FiniteSets

CONSTANTS
  Num, Sim,        \* poids of devices; a SIM stands for its IMSI too
  Number,          \* DEVICE_IDs of numbers, canonical: [cc, area, local]
  NorthAmerica,    \* the country code "001"
  SimId, Stripped, \* DEVICE_IDs of SIMs as sent, and without padding on the right
  Service,         \* elements of SERVICES arrays
  AccountOf,       \* the account of each
  TypeOf,          \* the type of its service, or NoType if SERVICE_OBJ is null
  Telephony, NoType,
  Brand, BrandOf,  \* brand of each account
  NumElem, SimElem, NoElem, \* NETWORK_ELEMENT of each device, or none
  OneOfEach,       \* callers give a service at most one number and one SIM
  None             \* field of a device that was never created

ASSUME NumSimAssumption ==
  /\ Number \subseteq [cc : {n.cc : n \in Number}, area : {n.area : n \in Number},
                       local : {n.local : n \in Number}]
  /\ Stripped \in [SimId -> SimId]
  /\ \A id \in SimId : Stripped[Stripped[id]] = Stripped[id]
  /\ \A s \in Service : BrandOf[AccountOf[s]] \in Brand
  /\ OneOfEach \in BOOLEAN
  /\ IsFiniteSet(Service)
  /\ Number \cap Sim = {}
  /\ None \notin Number \cup Brand \cup SimId

VARIABLES
  numState, numId, numBrand, numServices,
  simState, simId, simBrand, simServices,
  alias,  \* ALIAS_LIST of each service: MSISDNs and IMSIs
  closed  \* services in status CLOSED

numVars == <<numState, numId, numBrand, numServices>>
simVars == <<simState, simId, simBrand, simServices>>
vars == <<numState, numId, numBrand, numServices,
          simState, simId, simBrand, simServices, alias, closed>>

Missing == {"absent", "deleted"}

NumStates ==
  {"NEW", "ASSIGNED", "QUARANTINED", "UNASSIGNED", "PORT_IN_NEW",
   "TEMPORARY_ASSIGN", "QUARANTINED_REPATRIATED", "REPATRIATED",
   "QUARANTINED_PORT_OUT", "PORT_OUT"}

SimStates ==
  {"NEW", "RELEASED", "PROVISIONING", "FAILED_PROVISIONING", "ASSIGNED",
   "UNASSIGNED"}

\* The transitions PCM_OP_DEVICE_SET_STATE accepts, and the states a device may
\* be created in.
NumCreated == {"NEW", "PORT_IN_NEW"}

NumTable ==
  {<<"NEW", "ASSIGNED">>,
   <<"ASSIGNED", "QUARANTINED">>, <<"ASSIGNED", "QUARANTINED_PORT_OUT">>,
   <<"QUARANTINED", "ASSIGNED">>, <<"QUARANTINED", "UNASSIGNED">>,
   <<"QUARANTINED", "QUARANTINED_PORT_OUT">>,
   <<"UNASSIGNED", "ASSIGNED">>,
   <<"PORT_IN_NEW", "QUARANTINED_REPATRIATED">>}

SimTable ==
  {<<"NEW", "ASSIGNED">>, <<"NEW", "PROVISIONING">>,
   <<"PROVISIONING", "RELEASED">>, <<"PROVISIONING", "FAILED_PROVISIONING">>,
   <<"RELEASED", "ASSIGNED">>, <<"ASSIGNED", "UNASSIGNED">>}

NumExists(n) == numState[n] \notin Missing
SimExists(m) == simState[m] \notin Missing

\* The elements with a SERVICE_OBJ; the others name an account only.
Real(S) == {s \in S : TypeOf[s] # NoType}
OfType(S, type) == {s \in S : TypeOf[s] = type}

NumsOf(s) == {n \in Num : NumExists(n) /\ s \in numServices[n]}
SimsOf(s) == {m \in Sim : SimExists(m) /\ s \in simServices[m]}

\* Mutant of OneAccount: only the services sent are compared.
OneAccountSent(S, current) == \E k \in S : \A s \in S : AccountOf[s] = AccountOf[k]

\* All accounts sent are the account of the services the device has, or of the
\* first one sent when it has none.
OneAccount(S, current) ==
  \E k \in (IF current = {} THEN S ELSE current) :
    \A s \in S : AccountOf[s] = AccountOf[k]

\* Mutants: a null name is added, and the name is searched for among none.
AliasAddedNull(S, name) ==
  alias' = [s \in Service |-> alias[s] \cup (IF s \in Real(S) THEN {None} ELSE {})]
AliasRemovedNot(S, name) == UNCHANGED alias

AliasAdded(S, name) ==
  alias' = [s \in Service |-> alias[s] \cup (IF s \in Real(S) THEN {name} ELSE {})]
AliasRemoved(S, name) ==
  alias' = [s \in Service |-> alias[s] \ (IF s \in Real(S) THEN {name} ELSE {})]

\* Mutant of LeavesNone: the first services to go release the device.
LeavesNoneEarly(S, current) == S # {}

\* A disassociation takes as many services as the device has.
LeavesNone(S, current) == Cardinality(S) = Cardinality(current)

-----------------------------------------------------------------------------
(***************************************************************************)
(* Numbers.                                                                *)
(***************************************************************************)

\* Mutant of NumberFree: numbers in use are not searched.
NumberFreeUnused(id) == \A n \in Num : numState[n] = "NEW" => numId[n] # id

NumberFree(id) == \A n \in Num : NumExists(n) => numId[n] # id

CreateNum(n, id, b, state) ==
  /\ numState[n] = "absent"
  /\ NumberFree(id)
  /\ state \in NumCreated
  /\ numState' = [numState EXCEPT ![n] = state]
  /\ numId' = [numId EXCEPT ![n] = id]
  /\ numBrand' = [numBrand EXCEPT ![n] = b]
  /\ UNCHANGED <<numServices, alias, closed>> /\ UNCHANGED simVars

\* PCM_OP_DEVICE_SET_ATTR with a DEVICE_ID: the area of a North American number
\* may change, in every state of the number.
ChangeNumber(n, id) ==
  /\ NumExists(n)
  /\ id.cc = NorthAmerica /\ numId[n].cc = NorthAmerica
  /\ id.local = numId[n].local
  /\ NumberFree(id)
  /\ numId' = [numId EXCEPT ![n] = id]
  /\ UNCHANGED <<numState, numBrand, numServices, alias, closed>>
  /\ UNCHANGED simVars

\* Mutant of SetBrandNum: a quarantined number may change its brand too.
SetBrandNumQuarantined(n, b) ==
  /\ NumExists(n)
  /\ numBrand[n] # b => numState[n] \in {"NEW", "QUARANTINED", "UNASSIGNED"}
  /\ numBrand' = [numBrand EXCEPT ![n] = b]
  /\ UNCHANGED <<numState, numId, numServices, alias, closed>>
  /\ UNCHANGED simVars

SetBrandNum(n, b) ==
  /\ NumExists(n)
  /\ numBrand[n] # b => numState[n] \in {"NEW", "UNASSIGNED"}
  /\ numBrand' = [numBrand EXCEPT ![n] = b]
  /\ UNCHANGED <<numState, numId, numServices, alias, closed>>
  /\ UNCHANGED simVars

\* The moves clients make with PCM_OP_DEVICE_SET_STATE: the end of the
\* quarantine, and number portability.
SetStateNum(n, new) ==
  /\ NumExists(n)
  /\ <<numState[n], new>> \in NumTable
  /\ numState[n] # "ASSIGNED" /\ new # "ASSIGNED"
  /\ numState' = [numState EXCEPT ![n] = new]
  /\ UNCHANGED <<numId, numBrand, numServices, alias, closed>>
  /\ UNCHANGED simVars

\* Any one SIM of the service, the first the search returns, is compared.
OnElementOfSim(n, s) ==
  SimsOf(s) # {} =>
    /\ NumElem[n] # NoElem
    /\ \E m \in SimsOf(s) : SimElem[m] = NumElem[n]

\* The state a number is moved to by an association.
StateOfAssociated(state) ==
  IF state \in {"PORT_IN_NEW", "PORT_OUT", "REPATRIATED"}
  THEN "TEMPORARY_ASSIGN" ELSE "ASSIGNED"

NumAssociable ==
  {"NEW", "QUARANTINED", "UNASSIGNED", "PORT_IN_NEW", "PORT_OUT",
   "REPATRIATED", "ASSIGNED"}

AssociateNum(n, S) ==
  /\ NumExists(n)
  /\ S \cap numServices[n] = {}
  /\ OneOfEach => \A s \in S : NumsOf(s) = {}
  /\ \A s \in S : BrandOf[AccountOf[s]] = numBrand[n]
  /\ OneAccount(S, numServices[n])
  /\ \A s \in Real(S) :
       /\ OfType(S, TypeOf[s]) = {s} /\ OfType(numServices[n], TypeOf[s]) = {}
       /\ OnElementOfSim(n, s)
       /\ s \notin closed
  /\ numState[n] \in NumAssociable
  /\ numState[n] # "ASSIGNED" =>
       <<numState[n], StateOfAssociated(numState[n])>> \in NumTable
  /\ numState' = [numState EXCEPT ![n] = StateOfAssociated(@)]
  /\ numServices' = [numServices EXCEPT ![n] = @ \cup S]
  /\ AliasAdded(S, numId[n])
  /\ UNCHANGED <<numId, numBrand, closed>> /\ UNCHANGED simVars

\* The alias goes by the number the device has now.
DisassociateNum(n, S, portOut) ==
  /\ NumExists(n)
  /\ S \subseteq numServices[n]
  /\ IF LeavesNone(S, numServices[n])
     THEN /\ numState[n] = "ASSIGNED"
          /\ numState' = [numState EXCEPT ![n] =
               IF portOut THEN "QUARANTINED_PORT_OUT" ELSE "QUARANTINED"]
     ELSE UNCHANGED numState
  /\ numServices' = [numServices EXCEPT ![n] = @ \ S]
  /\ AliasRemoved(S, numId[n])
  /\ UNCHANGED <<numId, numBrand, closed>> /\ UNCHANGED simVars

DeleteNum(n) ==
  /\ NumExists(n)
  /\ numServices[n] = {}
  /\ numState' = [numState EXCEPT ![n] = "deleted"]
  /\ UNCHANGED <<numId, numBrand, numServices, alias, closed>>
  /\ UNCHANGED simVars

-----------------------------------------------------------------------------
(***************************************************************************)
(* SIM cards.                                                              *)
(***************************************************************************)

\* Mutant of CreateSim: the search is for the DEVICE_ID as it was sent.
CreateSimUnstripped(m, id, b) ==
  /\ simState[m] = "absent"
  /\ \A k \in Sim : SimExists(k) => simId[k] # id
  /\ simState' = [simState EXCEPT ![m] = "NEW"]
  /\ simId' = [simId EXCEPT ![m] = Stripped[id]]
  /\ simBrand' = [simBrand EXCEPT ![m] = b]
  /\ UNCHANGED <<simServices, alias, closed>> /\ UNCHANGED numVars

\* The search is for the DEVICE_ID without its padding.
CreateSim(m, id, b) ==
  /\ simState[m] = "absent"
  /\ \A k \in Sim : SimExists(k) => simId[k] # Stripped[id]
  /\ simState' = [simState EXCEPT ![m] = "NEW"]
  /\ simId' = [simId EXCEPT ![m] = Stripped[id]]
  /\ simBrand' = [simBrand EXCEPT ![m] = b]
  /\ UNCHANGED <<simServices, alias, closed>> /\ UNCHANGED numVars

SetBrandSim(m, b) ==
  /\ SimExists(m)
  /\ simBrand[m] # b => simState[m] = "RELEASED"
  /\ simBrand' = [simBrand EXCEPT ![m] = b]
  /\ UNCHANGED <<simState, simId, simServices, alias, closed>>
  /\ UNCHANGED numVars

\* The moves clients make: PCM_OP_SIM_DEVICE_PROVISION and its answers.  The
\* services it lends to the SIM meanwhile pass the policy unseen.
SetStateSim(m, new) ==
  /\ SimExists(m)
  /\ <<simState[m], new>> \in SimTable
  /\ simState[m] # "ASSIGNED" /\ new # "ASSIGNED"
  /\ simState' = [simState EXCEPT ![m] = new]
  /\ UNCHANGED <<simId, simBrand, simServices, alias, closed>>
  /\ UNCHANGED numVars

\* Mutant of OnElementOfNum: nothing is compared.
OnElementOfNumAny(m, s) == s \in Service

\* Any one number of the service is compared, if both have an element.
OnElementOfNum(m, s) ==
  NumsOf(s) # {} =>
    \E n \in NumsOf(s) : NumElem[n] = NoElem \/ SimElem[m] \in {NoElem, NumElem[n]}

\* Mutant of TypeLimit: one line more.
TypeLimitMore(type) == IF type = Telephony THEN 3 ELSE 1

\* A SIM carries two lines of telephony and one service of any other type.
TypeLimit(type) == IF type = Telephony THEN 2 ELSE 1

AssociateSim(m, S) ==
  /\ SimExists(m)
  /\ S \cap simServices[m] = {}
  /\ OneOfEach => \A s \in S : SimsOf(s) = {}
  /\ OneAccount(S, simServices[m])
  /\ \A s \in Real(S) :
       /\ OnElementOfNum(m, s)
       /\ s \notin closed
       /\ Cardinality(OfType(simServices[m] \cup S, TypeOf[s])) <= TypeLimit(TypeOf[s])
  /\ \A s \in S : BrandOf[AccountOf[s]] = simBrand[m]
  /\ simState[m] # "ASSIGNED" => <<simState[m], "ASSIGNED">> \in SimTable
  /\ simState' = [simState EXCEPT ![m] = "ASSIGNED"]
  /\ simServices' = [simServices EXCEPT ![m] = @ \cup S]
  /\ AliasAdded(S, m)
  /\ UNCHANGED <<simId, simBrand, closed>> /\ UNCHANGED numVars

DisassociateSim(m, S) ==
  /\ SimExists(m)
  /\ S \subseteq simServices[m]
  /\ IF /\ LeavesNone(S, simServices[m])
        /\ simState[m] # "UNASSIGNED"
     THEN /\ <<simState[m], "UNASSIGNED">> \in SimTable
          /\ simState' = [simState EXCEPT ![m] = "UNASSIGNED"]
     ELSE UNCHANGED simState
  /\ simServices' = [simServices EXCEPT ![m] = @ \ S]
  /\ AliasRemoved(S, m)
  /\ UNCHANGED <<simId, simBrand, closed>> /\ UNCHANGED numVars

DeleteSim(m) ==
  /\ SimExists(m)
  /\ simServices[m] = {}
  /\ simState' = [simState EXCEPT ![m] = "deleted"]
  /\ UNCHANGED <<simId, simBrand, simServices, alias, closed>>
  /\ UNCHANGED numVars

\* The status of a service is set by the customer opcodes, which leave its
\* devices to their owners.
CloseService(s) ==
  /\ s \in Real(Service)
  /\ closed' = closed \cup {s}
  /\ UNCHANGED numVars /\ UNCHANGED simVars /\ UNCHANGED alias

-----------------------------------------------------------------------------
Init ==
  /\ numState = [n \in Num |-> "absent"]
  /\ numId = [n \in Num |-> None]
  /\ numBrand = [n \in Num |-> None]
  /\ numServices = [n \in Num |-> {}]
  /\ simState = [m \in Sim |-> "absent"]
  /\ simId = [m \in Sim |-> None]
  /\ simBrand = [m \in Sim |-> None]
  /\ simServices = [m \in Sim |-> {}]
  /\ alias = [s \in Service |-> {}]
  /\ closed = {}

ServiceSets == (SUBSET Service) \ {{}}

NumNext(n) ==
  \/ \E id \in Number, b \in Brand, st \in NumCreated : CreateNum(n, id, b, st)
  \/ \E id \in Number : ChangeNumber(n, id)
  \/ \E b \in Brand : SetBrandNum(n, b)
  \/ \E new \in NumStates : SetStateNum(n, new)
  \/ \E S \in ServiceSets : AssociateNum(n, S)
  \/ \E S \in ServiceSets, p \in BOOLEAN : DisassociateNum(n, S, p)
  \/ DeleteNum(n)

SimNext(m) ==
  \/ \E id \in SimId, b \in Brand : CreateSim(m, id, b)
  \/ \E b \in Brand : SetBrandSim(m, b)
  \/ \E new \in SimStates : SetStateSim(m, new)
  \/ \E S \in ServiceSets : AssociateSim(m, S)
  \/ \E S \in ServiceSets : DisassociateSim(m, S)
  \/ DeleteSim(m)

Next ==
  \/ \E n \in Num : NumNext(n)
  \/ \E m \in Sim : SimNext(m)
  \/ \E s \in Service : CloseService(s)

Spec == Init /\ [][Next]_vars

-----------------------------------------------------------------------------
(***************************************************************************)
(* Properties.                                                             *)
(***************************************************************************)

\* Every field holds a value of its type.
TypeOK ==
  /\ numState \in [Num -> NumStates \cup Missing]
  /\ numId \in [Num -> Number \cup {None}]
  /\ \A n \in Num : NumExists(n) => numId[n] \in Number
  /\ numBrand \in [Num -> Brand \cup {None}]
  /\ numServices \in [Num -> SUBSET Service]
  /\ simState \in [Sim -> SimStates \cup Missing]
  /\ simId \in [Sim -> SimId \cup {None}]
  /\ simBrand \in [Sim -> Brand \cup {None}]
  /\ simServices \in [Sim -> SUBSET Service]
  /\ alias \in [Service -> SUBSET (Number \cup Sim)]
  /\ closed \in SUBSET Service

\* A device is ASSIGNED exactly while a service has it, whatever subsets of its
\* services come and go: the policies decide by comparing counts.
AssignedIffServices ==
  /\ \A n \in Num : numState[n] = "ASSIGNED" <=> numServices[n] # {}
  /\ \A m \in Sim : simState[m] = "ASSIGNED" <=> simServices[m] # {}

\* All services of a device belong to one account, and that account to the
\* device's brand, although brands are set and services added in any order.
DeviceInAccount ==
  /\ \A n \in Num : \A s, t \in numServices[n] :
       AccountOf[s] = AccountOf[t] /\ BrandOf[AccountOf[s]] = numBrand[n]
  /\ \A m \in Sim : \A s, t \in simServices[m] :
       AccountOf[s] = AccountOf[t] /\ BrandOf[AccountOf[s]] = simBrand[m]

\* A number has one service of a type, a SIM two of telephony and one of any
\* other type, over all associations together.
TypesWithinLimits ==
  /\ \A n \in Num : \A s, t \in Real(numServices[n]) : TypeOf[s] = TypeOf[t] => s = t
  /\ \A m \in Sim : \A s \in Real(simServices[m]) :
       Cardinality(OfType(simServices[m], TypeOf[s])) <=
         IF TypeOf[s] = Telephony THEN 2 ELSE 1

\* The list of aliases of a service holds the IMSI of each SIM it has and of no
\* other, whichever SIMs came and went.
ImsisAreAliases ==
  \A s \in Real(Service) : alias[s] \cap Sim = {m \in Sim : s \in simServices[m]}

\* A service without a number has no MSISDN among its aliases.  It fails,
\* because a number may be changed while a service has it and goes by its new
\* DEVICE_ID when it is disassociated.
MsisdnsLeaveWithNumbers ==
  \A s \in Real(Service) : NumsOf(s) = {} => alias[s] \cap Number = {}

\* A number and a SIM of one service are on the same network element; a number
\* or a SIM without element is tolerated by the SIM's policy only.
SameNetworkElement ==
  \A s \in Real(Service) : \A n \in NumsOf(s), m \in SimsOf(s) :
    NumElem[n] = SimElem[m] \/ NumElem[n] = NoElem \/ SimElem[m] = NoElem

\* The same where callers give a service one number and one SIM only.
SameNetworkElementOfPair == OneOfEach => SameNetworkElement

\* No two numbers and no two SIM cards carry the same DEVICE_ID, however the
\* identifiers are padded and changed.
DeviceIdsUnique ==
  /\ \A n, k \in Num : NumExists(n) /\ NumExists(k) /\ numId[n] = numId[k] => n = k
  /\ \A m, k \in Sim : SimExists(m) /\ SimExists(k) /\ simId[m] = simId[k] => m = k

\* A number that loses its last service is quarantined, and while it is it
\* keeps its brand: nobody gets it before the quarantine ends except by an
\* association.
QuarantinedFirst(n) ==
  /\ (numServices[n] # {} /\ numServices'[n] = {}) =>
       numState'[n] \in {"QUARANTINED", "QUARANTINED_PORT_OUT"}
  /\ (NumExists(n) /\ numBrand'[n] # numBrand[n]) =>
       numServices[n] = {} /\ numState[n] \notin {"QUARANTINED", "QUARANTINED_PORT_OUT"}

LeavesByQuarantine == [][\A n \in Num : QuarantinedFirst(n)]_vars
=============================================================================
