--------------------------- MODULE IpApnSessions ---------------------------
(***************************************************************************)
(* The opcodes of IpApn run by concurrent CM sessions.                     *)
(*                                                                         *)
(* A policy opcode reads what it checks with PCM_OP_READ_FLDS and searches *)
(* and the database is written when the transaction of the standard opcode *)
(* commits.  The model is generous to the code: each session holds a lock  *)
(* on every device object its PCM_OP_DEVICE_* calls are about, from the    *)
(* call to the end of its transaction.  A device that is only read or      *)
(* counted by a search is not locked: no policy opcode asks for it.        *)
(* Every call on one IP alone is atomic under its lock.                    *)
(***************************************************************************)
EXTENDS IpApn

CONSTANTS
  Session,   \* connections, each served by a CM process
  Free,      \* no session
  Placed, Addressed, Named, Branded \* the devices when the sessions start

ASSUME SessionsAssumption ==
  /\ Free \notin Session /\ Ip \cap Apn = {}
  /\ Branded \in Brand

VARIABLES
  lock,  \* the session that holds each device object, or Free
  call   \* the call each session is in: opcode, device, argument, and the
         \* IPs its nested PCM_OP_DEVICE_* calls have still to visit

sVars == <<apnState, apnName, apnBrand, apnServices,
           ipState, ipAddr, ipApn, ipBrand, ipServices, lock, call>>
dbVars == vars

Idle == [op |-> "none", dev |-> None, arg |-> None, todo |-> {}]
Calling(s, op) == call[s].op = op

\* A call starts once its device is not held by another session.
Enter(s, d, op, arg, todo) ==
  /\ call[s] = Idle
  /\ lock[d] = Free
  /\ lock' = [lock EXCEPT ![d] = s]
  /\ call' = [call EXCEPT ![s] = [op |-> op, dev |-> d, arg |-> arg, todo |-> todo]]

\* The end of the transaction, by commit or by abort.
Leave(s) ==
  /\ lock' = [d \in Ip \cup Apn |-> IF lock[d] = s THEN Free ELSE lock[d]]
  /\ call' = [call EXCEPT ![s] = Idle]

HeldIps(s) == {i \in Ip : lock[i] = s}

-----------------------------------------------------------------------------
\* PCM_OP_IP_POL_DEVICE_ASSOCIATE reads the state of the APN and checks ...
BeginAssociate(s, i, S) ==
  /\ IpExists(i) /\ ApnExists(ipApn[i])
  /\ apnState[ipApn[i]] # "UNUSABLE"
  /\ ipState[i] \in {"NEW", "UNALLOCATED", "ALLOCATED"}
  /\ BrandMatches(ipBrand[i], S)
  /\ Enter(s, i, "associate", S, {})
  /\ UNCHANGED dbVars

\* ... and the address is ALLOCATED when the transaction commits.
CommitAssociate(s) ==
  /\ Calling(s, "associate")
  /\ LET i == call[s].dev IN
     /\ ipState' = [ipState EXCEPT ![i] = "ALLOCATED"]
     /\ ipServices' = [ipServices EXCEPT ![i] = @ \cup call[s].arg]
  /\ Leave(s)
  /\ UNCHANGED apnVars /\ UNCHANGED <<ipAddr, ipApn, ipBrand>>

\* Calls that read and write one IP.
CallOnIp(i) ==
  /\ lock[i] = Free
  /\ \/ \E S \in ServiceSets : DisassociateIp(i, S)
     \/ \E new \in IpStates : SetStateIp(i, new)
     \/ DeleteIp(i)
  /\ UNCHANGED <<lock, call>>

\* PCM_OP_APN_POL_DEVICE_SET_STATE counts the ALLOCATED addresses ...
BeginSetStateApn(s, a, new) ==
  /\ ApnExists(a)
  /\ ApnStatePermitted(a, new, FALSE)
  /\ Enter(s, a, "set_state", new, {})
  /\ UNCHANGED dbVars

\* ... and the standard opcode writes the state.
CommitSetStateApn(s) ==
  /\ Calling(s, "set_state")
  /\ apnState' = [apnState EXCEPT ![call[s].dev] = call[s].arg]
  /\ Leave(s)
  /\ UNCHANGED <<apnName, apnBrand, apnServices>> /\ UNCHANGED ipVars

-----------------------------------------------------------------------------
\* SET_BRAND and DELETE of an APN count its ALLOCATED addresses, collect its
\* IPs by a step search, and call the device framework on one after the other.
BeginSetBrandApn(s, a, b) ==
  /\ ApnExists(a)
  /\ apnBrand[a] # b => apnState[a] \in {"NEW", "USABLE"}
  /\ ~ \E c \in Apn :
         ApnExists(c) /\ apnBrand[c] = b /\ apnName[c] = apnName[a]
  /\ NoAllocatedIp(a)
  /\ Enter(s, a, "set_brand", b, IpsOf(a))
  /\ UNCHANGED dbVars

BeginDeleteApn(s, a) ==
  /\ ApnExists(a)
  /\ apnServices[a] = {}
  /\ NoAllocatedIp(a)
  /\ Enter(s, a, "delete", None, IpsOf(a))
  /\ UNCHANGED dbVars

\* Mutant of NestedPermitted: the nested policies trust the APN's count.
NestedPermittedUnread(s, i) == IpExists(i)

\* The policy of the nested call reads the IP again, now under its lock.  An IP
\* deleted meanwhile cannot be read.
NestedPermitted(s, i) ==
  /\ IpExists(i)
  /\ Calling(s, "set_brand") => IpMayChangeBrand(i, call[s].arg)
  /\ Calling(s, "delete") => IpMayBeDeleted(i)

NestedCall(s, i) ==
  /\ i \in call[s].todo
  /\ lock[i] = Free
  /\ IF NestedPermitted(s, i)
     THEN /\ lock' = [lock EXCEPT ![i] = s]
          /\ call' = [call EXCEPT ![s].todo = @ \ {i}]
     ELSE Leave(s)
  /\ UNCHANGED dbVars

CommitSetBrandApn(s) ==
  /\ Calling(s, "set_brand") /\ call[s].todo = {}
  /\ apnBrand' = [apnBrand EXCEPT ![call[s].dev] = call[s].arg]
  /\ ipBrand' = [i \in Ip |-> IF i \in HeldIps(s) THEN call[s].arg ELSE ipBrand[i]]
  /\ Leave(s)
  /\ UNCHANGED <<apnState, apnName, apnServices>>
  /\ UNCHANGED <<ipState, ipAddr, ipApn, ipServices>>

CommitDeleteApn(s) ==
  /\ Calling(s, "delete") /\ call[s].todo = {}
  /\ apnState' = [apnState EXCEPT ![call[s].dev] = "deleted"]
  /\ ipState' = [i \in Ip |-> IF i \in HeldIps(s) THEN "deleted" ELSE ipState[i]]
  /\ Leave(s)
  /\ UNCHANGED <<apnName, apnBrand, apnServices>>
  /\ UNCHANGED <<ipAddr, ipApn, ipBrand, ipServices>>

-----------------------------------------------------------------------------
\* The move of an IP to another APN; an APN read as NEW is opened by a nested
\* PCM_OP_DEVICE_SET_STATE, which needs the APN's lock.
BeginMove(s, i, a) ==
  /\ IpExists(i)
  /\ ipState[i] \notin {"ALLOCATED", "RETURNED"}
  /\ ~Taken(a, ipAddr[i], ipAddr[i])
  /\ ApnExists(a)
  /\ Enter(s, i, IF apnState[a] = "NEW" THEN "open_move" ELSE "move", a, {})
  /\ UNCHANGED dbVars

OpenForMove(s) ==
  /\ Calling(s, "open_move")
  /\ lock[call[s].arg] = Free
  /\ IF /\ apnState[call[s].arg] = "NEW"
        /\ ApnStatePermitted(call[s].arg, "USABLE", TRUE)
     THEN /\ lock' = [lock EXCEPT ![call[s].arg] = s]
          /\ call' = [call EXCEPT ![s].op = "move"]
     ELSE Leave(s)
  /\ UNCHANGED dbVars

CommitMove(s) ==
  /\ Calling(s, "move")
  /\ LET a == call[s].arg IN
     /\ ipApn' = [ipApn EXCEPT ![call[s].dev] = a]
     /\ apnState' = IF lock[a] = s THEN [apnState EXCEPT ![a] = "USABLE"]
                    ELSE apnState
  /\ Leave(s)
  /\ UNCHANGED <<apnName, apnBrand, apnServices>>
  /\ UNCHANGED <<ipState, ipAddr, ipBrand, ipServices>>

-----------------------------------------------------------------------------
\* Created devices of one brand, each IP on an APN that it opened.
SInit ==
  /\ ipApn = Placed
  /\ ipAddr = Addressed
  /\ apnName = Named
  /\ apnBrand = [a \in Apn |-> Branded]
  /\ ipBrand = [i \in Ip |-> Branded]
  /\ apnState = [a \in Apn |-> IF \E i \in Ip : ipApn[i] = a THEN "USABLE" ELSE "NEW"]
  /\ apnServices = [a \in Apn |-> {}]
  /\ ipState = [i \in Ip |-> "NEW"]
  /\ ipServices = [i \in Ip |-> {}]
  /\ lock = [d \in Ip \cup Apn |-> Free]
  /\ call = [s \in Session |-> Idle]

Begin(s) ==
  \/ \E i \in Ip, S \in ServiceSets : BeginAssociate(s, i, S)
  \/ \E a \in Apn, new \in ApnStates : BeginSetStateApn(s, a, new)
  \/ \E a \in Apn, b \in Brand : BeginSetBrandApn(s, a, b)
  \/ \E a \in Apn : BeginDeleteApn(s, a)
  \/ \E i \in Ip, a \in Apn : BeginMove(s, i, a)

Continue(s) ==
  \/ CommitAssociate(s)
  \/ CommitSetStateApn(s)
  \/ \E i \in Ip : NestedCall(s, i)
  \/ CommitSetBrandApn(s)
  \/ CommitDeleteApn(s)
  \/ OpenForMove(s)
  \/ CommitMove(s)

SNext ==
  \/ \E s \in Session : Begin(s) \/ Continue(s)
  \/ \E i \in Ip : CallOnIp(i)

SSpec == SInit /\ [][SNext]_sVars

-----------------------------------------------------------------------------
\* Addresses held by services stay in their brand and exist, although the APN
\* was rebranded or deleted by a session whose count of ALLOCATED addresses
\* was taken before an association committed.
HeldIpKeepsBrand ==
  \A i \in Ip : ipServices[i] # {} =>
    IpExists(i) /\ ipState[i] = "ALLOCATED" /\ BrandMatches(ipBrand[i], ipServices[i])

-----------------------------------------------------------------------------
SessionTypes ==
  /\ ipState \in [Ip -> IpStates \cup Missing]
  /\ ipBrand \in [Ip -> Brand]
  /\ ipServices \in [Ip -> SUBSET Service]
  /\ lock \in [Ip \cup Apn -> Session \cup {Free}]
  /\ call = [s \in Session |-> [op |-> call[s].op, dev |-> call[s].dev,
                                arg |-> call[s].arg, todo |-> call[s].todo]]

\* What a session has checked, and its locks keep true until it commits.
Checked(s) ==
  /\ Calling(s, "none") => call[s].todo = {} /\ \A d \in Ip \cup Apn : lock[d] # s
  /\ Calling(s, "associate") =>
       /\ call[s].dev \in Ip /\ lock[call[s].dev] = s
       /\ ipState[call[s].dev] \in {"NEW", "UNALLOCATED", "ALLOCATED"}
       /\ call[s].arg \in ServiceSets
       /\ BrandMatches(ipBrand[call[s].dev], call[s].arg)
  /\ Calling(s, "set_brand") =>
       /\ call[s].arg \in Brand
       /\ \A i \in Ip : lock[i] = s => IpMayChangeBrand(i, call[s].arg)
  /\ Calling(s, "delete") =>
       \A i \in Ip : lock[i] = s => IpMayBeDeleted(i)
  /\ Calling(s, "open_move") => call[s].arg \in Apn

\* Why the addresses that services hold are safe: whatever a session counted
\* before, it has read every IP it will write under the lock it still has.
SessionInv ==
  /\ SessionTypes
  /\ AllocatedIffServices /\ ServicesInBrand
  /\ \A s \in Session : Checked(s)

\* What the comments of the APN policy say and interleaved calls break: the
\* APN of an address in use is not made UNUSABLE.
NoAllocatedOnUnusable ==
  \A i \in Ip : ipState[i] = "ALLOCATED" => apnState[ipApn[i]] # "UNUSABLE"
=============================================================================
