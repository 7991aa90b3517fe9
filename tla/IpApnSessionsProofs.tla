------------------------ MODULE IpApnSessionsProofs ------------------------
(***************************************************************************)
(* Theorems about IpApnSessions, for any number of sessions, devices and   *)
(* services: what holds of the addresses in use although the policies      *)
(* count them without locking them.                                        *)
(***************************************************************************)
EXTENDS IpApnSessions, IpApnProofs

\* Locks that belong to no session, and IPs that are no APNs.
LEMMA Apart ==
  /\ \A s \in Session : s # Free
  /\ \A i \in Ip : i \notin Apn
BY SessionsAssumption

-----------------------------------------------------------------------------
\* What a session has checked stays true while the calls of others leave alone
\* what it has locked.
LEMMA StillChecked ==
  ASSUME SessionInv, NEW t \in Session, call'[t] = call[t],
         \A d \in Ip \cup Apn : lock'[d] = t <=> lock[d] = t,
         \A i \in Ip : lock[i] = t =>
           ipState'[i] = ipState[i] /\ ipBrand'[i] = ipBrand[i] /\ ipServices'[i] = ipServices[i]
  PROVE  Checked(t)'
<1>1. Checked(t)
  BY DEF SessionInv
<1> QED
  BY <1>1 DEF Checked, Calling, IpMayChangeBrand, IpMayBeDeleted, BrandMatches

\* A call begins: its session has one lock, on the device that the call is for.
LEMMA EnterEffect ==
  ASSUME SessionInv, NEW s \in Session, NEW d \in Ip \cup Apn, NEW op, NEW arg, NEW todo,
         Enter(s, d, op, arg, todo), UNCHANGED <<ipState, ipBrand, ipServices>>
  PROVE  /\ SessionTypes'
         /\ \A t \in Session : t # s => Checked(t)'
         /\ call'[s] = [op |-> op, dev |-> d, arg |-> arg, todo |-> todo]
         /\ \A e \in Ip \cup Apn : lock'[e] = s <=> e = d
<1>1. /\ lock \in [Ip \cup Apn -> Session \cup {Free}]
      /\ call = [t \in Session |-> [op |-> call[t].op, dev |-> call[t].dev,
                                    arg |-> call[t].arg, todo |-> call[t].todo]]
      /\ Checked(s)
  BY DEF SessionInv, SessionTypes
<1>2. /\ call[s].op = "none" /\ lock[d] = Free
      /\ lock' = [lock EXCEPT ![d] = s]
      /\ call' = [call EXCEPT ![s] = [op |-> op, dev |-> d, arg |-> arg, todo |-> todo]]
  BY DEF Enter, Idle
<1>3. \A e \in Ip \cup Apn : lock[e] # s
  BY <1>1, <1>2 DEF Checked, Calling
<1>4. /\ lock' \in [Ip \cup Apn -> Session \cup {Free}]
      /\ \A e \in Ip \cup Apn : lock'[e] = IF e = d THEN s ELSE lock[e]
  BY <1>1, <1>2
<1>5. /\ call'[s] = [op |-> op, dev |-> d, arg |-> arg, todo |-> todo]
      /\ \A t \in Session : t # s => call'[t] = call[t]
  BY <1>1, <1>2
<1>6. call' = [t \in Session |-> [op |-> call'[t].op, dev |-> call'[t].dev,
                                  arg |-> call'[t].arg, todo |-> call'[t].todo]]
  <2>1. \A t \in Session : call'[t] = [op |-> call'[t].op, dev |-> call'[t].dev,
                                       arg |-> call'[t].arg, todo |-> call'[t].todo]
    BY <1>1, <1>5
  <2>2. call' = [t \in Session |-> call'[t]]
    BY <1>1, <1>2
  <2> QED
    BY <2>1, <2>2
<1>7. SessionTypes'
  BY <1>4, <1>6 DEF SessionInv, SessionTypes
<1>8. ASSUME NEW t \in Session, t # s PROVE Checked(t)'
  <2>1. \A e \in Ip \cup Apn : lock'[e] = t <=> lock[e] = t
    BY <1>2, <1>4, <1>8, Apart
  <2> QED
    BY <1>5, <1>8, <2>1, StillChecked
<1> QED
  BY <1>3, <1>4, <1>5, <1>7, <1>8

\* A call ends: its session has no lock, and the others theirs.
LEMMA LeaveEffect ==
  ASSUME SessionInv, NEW s \in Session, Leave(s)
  PROVE  /\ lock' \in [Ip \cup Apn -> Session \cup {Free}]
         /\ call' = [t \in Session |-> [op |-> call'[t].op, dev |-> call'[t].dev,
                                        arg |-> call'[t].arg, todo |-> call'[t].todo]]
         /\ Checked(s)'
         /\ \A t \in Session : t # s =>
              /\ call'[t] = call[t]
              /\ \A d \in Ip \cup Apn : lock'[d] = t <=> lock[d] = t
<1>1. /\ lock \in [Ip \cup Apn -> Session \cup {Free}]
      /\ call = [t \in Session |-> [op |-> call[t].op, dev |-> call[t].dev,
                                    arg |-> call[t].arg, todo |-> call[t].todo]]
  BY DEF SessionInv, SessionTypes
<1>2. /\ lock' = [d \in Ip \cup Apn |-> IF lock[d] = s THEN Free ELSE lock[d]]
      /\ call' = [call EXCEPT ![s] = Idle]
  BY DEF Leave
<1>3. /\ call'[s] = Idle
      /\ \A t \in Session : t # s => call'[t] = call[t]
  BY <1>1, <1>2
<1>4. call' = [t \in Session |-> [op |-> call'[t].op, dev |-> call'[t].dev,
                                  arg |-> call'[t].arg, todo |-> call'[t].todo]]
  <2>1. \A t \in Session : call'[t] = [op |-> call'[t].op, dev |-> call'[t].dev,
                                       arg |-> call'[t].arg, todo |-> call'[t].todo]
    BY <1>1, <1>3 DEF Idle
  <2>2. call' = [t \in Session |-> call'[t]]
    BY <1>1, <1>2
  <2> QED
    BY <2>1, <2>2
<1>5. \A d \in Ip \cup Apn : lock'[d] = IF lock[d] = s THEN Free ELSE lock[d]
  BY <1>2
<1>6. Checked(s)'
  BY <1>3, <1>5, Apart DEF Checked, Calling, Idle
<1>7. lock' \in [Ip \cup Apn -> Session \cup {Free}]
  BY <1>1, <1>2
<1> QED
  BY <1>3, <1>4, <1>5, <1>6, <1>7, Apart

\* A session that ends its call, having written nothing but IPs it has locked.
LEMMA LeaveStep ==
  ASSUME SessionInv, NEW s \in Session, Leave(s),
         ipState' \in [Ip -> IpStates \cup Missing], ipBrand' \in [Ip -> Brand],
         ipServices' \in [Ip -> SUBSET Service],
         \A i \in Ip : lock[i] # s =>
           ipState'[i] = ipState[i] /\ ipBrand'[i] = ipBrand[i] /\ ipServices'[i] = ipServices[i],
         AllocatedIffServices', ServicesInBrand'
  PROVE  SessionInv'
<1>1. SessionTypes'
  BY LeaveEffect DEF SessionTypes
<1>2. ASSUME NEW t \in Session PROVE Checked(t)'
  <2>1. CASE t = s
    BY <2>1, LeaveEffect
  <2>2. CASE t # s
    <3>1. /\ call'[t] = call[t]
          /\ \A d \in Ip \cup Apn : lock'[d] = t <=> lock[d] = t
      BY <2>2, LeaveEffect
    <3> QED
      BY <2>2, <3>1, StillChecked
  <2> QED
    BY <2>1, <2>2
<1> QED
  BY <1>1, <1>2 DEF SessionInv

-----------------------------------------------------------------------------
\* The policies of a call have checked what they check.
LEMMA BeginStep ==
  ASSUME SessionInv, NEW s \in Session, Begin(s)
  PROVE  SessionInv'
<1>1. UNCHANGED <<ipState, ipBrand, ipServices>>
  BY DEF Begin, BeginAssociate, BeginSetStateApn, BeginSetBrandApn, BeginDeleteApn, BeginMove,
         dbVars, vars
<1>2. AllocatedIffServices' /\ ServicesInBrand'
  BY <1>1 DEF SessionInv, AllocatedIffServices, ServicesInBrand, BrandMatches
<1>3. ASSUME NEW d \in Ip \cup Apn, NEW op, NEW arg, NEW todo, Enter(s, d, op, arg, todo),
             Checked(s)'
      PROVE  SessionInv'
  BY <1>1, <1>2, <1>3, EnterEffect DEF SessionInv
<1>4. ASSUME NEW i \in Ip, NEW S \in ServiceSets, BeginAssociate(s, i, S)
      PROVE  SessionInv'
  <2>1. Enter(s, i, "associate", S, {})
    BY <1>4 DEF BeginAssociate
  <2>2. /\ call'[s] = [op |-> "associate", dev |-> i, arg |-> S, todo |-> {}]
        /\ lock'[i] = s
    BY <1>1, <2>1, EnterEffect
  <2>3. Checked(s)'
    BY <1>1, <1>4, <2>2 DEF BeginAssociate, Checked, Calling, BrandMatches
  <2> QED
    BY <1>3, <2>1, <2>3
<1>5. ASSUME NEW a \in Apn, NEW new \in ApnStates, BeginSetStateApn(s, a, new)
      PROVE  SessionInv'
  <2>1. Enter(s, a, "set_state", new, {})
    BY <1>5 DEF BeginSetStateApn
  <2>2. call'[s] = [op |-> "set_state", dev |-> a, arg |-> new, todo |-> {}]
    BY <1>1, <2>1, EnterEffect
  <2>3. Checked(s)'
    BY <2>2 DEF Checked, Calling
  <2> QED
    BY <1>3, <2>1, <2>3
<1>6. ASSUME NEW a \in Apn, NEW b \in Brand, BeginSetBrandApn(s, a, b)
      PROVE  SessionInv'
  <2>1. Enter(s, a, "set_brand", b, IpsOf(a))
    BY <1>6 DEF BeginSetBrandApn
  <2>2. /\ call'[s] = [op |-> "set_brand", dev |-> a, arg |-> b, todo |-> IpsOf(a)]
        /\ \A i \in Ip : lock'[i] # s
    BY <1>1, <2>1, EnterEffect, Apart
  <2>3. Checked(s)'
    BY <2>2 DEF Checked, Calling
  <2> QED
    BY <1>3, <2>1, <2>3
<1>7. ASSUME NEW a \in Apn, BeginDeleteApn(s, a)
      PROVE  SessionInv'
  <2>1. Enter(s, a, "delete", None, IpsOf(a))
    BY <1>7 DEF BeginDeleteApn
  <2>2. /\ call'[s] = [op |-> "delete", dev |-> a, arg |-> None, todo |-> IpsOf(a)]
        /\ \A i \in Ip : lock'[i] # s
    BY <1>1, <2>1, EnterEffect, Apart
  <2>3. Checked(s)'
    BY <2>2 DEF Checked, Calling
  <2> QED
    BY <1>3, <2>1, <2>3
<1>8. ASSUME NEW i \in Ip, NEW a \in Apn, BeginMove(s, i, a)
      PROVE  SessionInv'
  <2> DEFINE op == IF apnState[a] = "NEW" THEN "open_move" ELSE "move"
  <2>1. Enter(s, i, op, a, {})
    BY <1>8 DEF BeginMove
  <2>2. call'[s] = [op |-> op, dev |-> i, arg |-> a, todo |-> {}]
    BY <1>1, <2>1, EnterEffect
  <2>3. Checked(s)'
    BY <2>2 DEF Checked, Calling
  <2> QED
    BY <1>3, <2>1, <2>3
<1> QED
  BY <1>4, <1>5, <1>6, <1>7, <1>8 DEF Begin

\* An IP or an APN is added to the locks of a session, whose call goes on.
LEMMA LockStep ==
  ASSUME SessionInv, NEW s \in Session, NEW d \in Ip \cup Apn, NEW c,
         lock[d] = Free, lock' = [lock EXCEPT ![d] = s], call' = [call EXCEPT ![s] = c],
         c = [op |-> c.op, dev |-> c.dev, arg |-> c.arg, todo |-> c.todo],
         UNCHANGED <<ipState, ipBrand, ipServices>>, Checked(s)'
  PROVE  SessionInv'
<1>1. /\ lock \in [Ip \cup Apn -> Session \cup {Free}]
      /\ call = [t \in Session |-> [op |-> call[t].op, dev |-> call[t].dev,
                                    arg |-> call[t].arg, todo |-> call[t].todo]]
  BY DEF SessionInv, SessionTypes
<1>2. /\ lock' \in [Ip \cup Apn -> Session \cup {Free}]
      /\ \A e \in Ip \cup Apn : lock'[e] = IF e = d THEN s ELSE lock[e]
  BY <1>1
<1>3. call'[s] = c /\ \A t \in Session : t # s => call'[t] = call[t]
  BY <1>1
<1>4. call' = [t \in Session |-> [op |-> call'[t].op, dev |-> call'[t].dev,
                                  arg |-> call'[t].arg, todo |-> call'[t].todo]]
  <2>1. \A t \in Session : call'[t] = [op |-> call'[t].op, dev |-> call'[t].dev,
                                       arg |-> call'[t].arg, todo |-> call'[t].todo]
    BY <1>1, <1>3
  <2>2. call' = [t \in Session |-> call'[t]]
    BY <1>1
  <2> QED
    BY <2>1, <2>2
<1>5. SessionTypes'
  BY <1>2, <1>4 DEF SessionInv, SessionTypes
<1>6. ASSUME NEW t \in Session, t # s PROVE Checked(t)'
  <2>1. \A e \in Ip \cup Apn : lock'[e] = t <=> lock[e] = t
    BY <1>2, <1>6, Apart
  <2> QED
    BY <1>3, <1>6, <2>1, StillChecked
<1>7. AllocatedIffServices' /\ ServicesInBrand'
  BY DEF SessionInv, AllocatedIffServices, ServicesInBrand, BrandMatches
<1> QED
  BY <1>5, <1>6, <1>7 DEF SessionInv

\* A call that ends without writing an IP.
LEMMA NothingWritten ==
  ASSUME SessionInv, NEW s \in Session, Leave(s), UNCHANGED <<ipState, ipBrand, ipServices>>
  PROVE  SessionInv'
<1>1. AllocatedIffServices' /\ ServicesInBrand'
  BY DEF SessionInv, AllocatedIffServices, ServicesInBrand, BrandMatches
<1>2. /\ ipState' \in [Ip -> IpStates \cup Missing] /\ ipBrand' \in [Ip -> Brand]
      /\ ipServices' \in [Ip -> SUBSET Service]
  BY DEF SessionInv, SessionTypes
<1> QED
  BY <1>1, <1>2, LeaveStep

\* The nested call on an IP reads it again under its lock, or ends the call.
LEMMA NestedStep ==
  ASSUME SessionInv, NEW s \in Session, NEW i \in Ip, NestedCall(s, i)
  PROVE  SessionInv'
<1>1. UNCHANGED <<ipState, ipBrand, ipServices>> /\ lock[i] = Free
  BY DEF NestedCall, dbVars, vars
<1>2. CASE ~NestedPermitted(s, i)
  BY <1>1, <1>2, NothingWritten DEF NestedCall
<1>3. CASE NestedPermitted(s, i)
  <2> DEFINE c == [call[s] EXCEPT !.todo = @ \ {i}]
  <2>1. lock' = [lock EXCEPT ![i] = s] /\ call' = [call EXCEPT ![s] = c]
    BY <1>3 DEF NestedCall
  <2>2. /\ lock \in [Ip \cup Apn -> Session \cup {Free}]
        /\ call = [t \in Session |-> [op |-> call[t].op, dev |-> call[t].dev,
                                      arg |-> call[t].arg, todo |-> call[t].todo]]
        /\ Checked(s)
    BY DEF SessionInv, SessionTypes
  <2>3. call[s] = [op |-> call[s].op, dev |-> call[s].dev,
                   arg |-> call[s].arg, todo |-> call[s].todo]
    BY <2>2
  <2>4. c = [op |-> c.op, dev |-> c.dev, arg |-> c.arg, todo |-> c.todo]
    BY <2>3
  <2>5. c.op = call[s].op /\ c.dev = call[s].dev /\ c.arg = call[s].arg
    BY <2>3
  <2>6. call'[s] = c
    BY <2>1, <2>2
  <2>7. \A e \in Ip \cup Apn : lock'[e] = IF e = i THEN s ELSE lock[e]
    BY <2>1, <2>2
  <2>8. call[s].op # "none"
    BY DEF SessionInv, Checked, Calling, NestedCall
  <2> HIDE DEF c
  <2>9. Checked(s)'
    BY <1>1, <1>3, <2>2, <2>5, <2>6, <2>7, <2>8
       DEF Checked, Calling, NestedPermitted, IpMayChangeBrand, IpMayBeDeleted, BrandMatches
  <2> QED
    BY <1>1, <2>1, <2>4, <2>9, LockStep
<1> QED
  BY <1>2, <1>3

\* An association commits what it has read under the lock of the IP.
LEMMA CommitAssociateStep ==
  ASSUME SessionInv, NEW s \in Session, CommitAssociate(s)
  PROVE  SessionInv'
<1> DEFINE i == call[s].dev
           S == call[s].arg
<1>1. /\ i \in Ip /\ lock[i] = s /\ S \in ServiceSets
      /\ BrandMatches(ipBrand[i], S)
  BY DEF SessionInv, Checked, CommitAssociate
<1>2. /\ ipState \in [Ip -> IpStates \cup Missing] /\ ipBrand \in [Ip -> Brand]
      /\ ipServices \in [Ip -> SUBSET Service]
      /\ AllocatedIffServices /\ ServicesInBrand
  BY DEF SessionInv, SessionTypes
<1>3. /\ ipState' = [ipState EXCEPT ![i] = "ALLOCATED"]
      /\ ipServices' = [ipServices EXCEPT ![i] = @ \cup S]
      /\ ipBrand' = ipBrand /\ Leave(s)
  BY DEF CommitAssociate
<1> HIDE DEF i, S
<1>4. /\ ipState' \in [Ip -> IpStates \cup Missing]
      /\ ipServices' \in [Ip -> SUBSET Service]
      /\ \A j \in Ip : ipState'[j] = IF j = i THEN "ALLOCATED" ELSE ipState[j]
      /\ \A j \in Ip : ipServices'[j] = IF j = i THEN ipServices[i] \cup S ELSE ipServices[j]
  BY <1>1, <1>2, <1>3 DEF IpStates, ServiceSets
<1>5. AllocatedIffServices'
  BY <1>1, <1>2, <1>4 DEF AllocatedIffServices, ServiceSets
<1>6. ServicesInBrand'
  BY <1>1, <1>2, <1>3, <1>4 DEF ServicesInBrand, BrandMatches
<1> QED
  BY <1>1, <1>2, <1>3, <1>4, <1>5, <1>6, LeaveStep

\* The change of brand reaches no IP that services hold.
LEMMA CommitSetBrandStep ==
  ASSUME SessionInv, NEW s \in Session, CommitSetBrandApn(s)
  PROVE  SessionInv'
<1>1. /\ call[s].arg \in Brand
      /\ \A i \in Ip : lock[i] = s => IpMayChangeBrand(i, call[s].arg)
  BY DEF SessionInv, Checked, CommitSetBrandApn
<1>2. /\ ipState \in [Ip -> IpStates \cup Missing] /\ ipBrand \in [Ip -> Brand]
      /\ ipServices \in [Ip -> SUBSET Service]
      /\ AllocatedIffServices /\ ServicesInBrand
  BY DEF SessionInv, SessionTypes
<1>3. /\ ipBrand' = [i \in Ip |-> IF i \in HeldIps(s) THEN call[s].arg ELSE ipBrand[i]]
      /\ UNCHANGED <<ipState, ipServices>> /\ Leave(s)
  BY DEF CommitSetBrandApn
<1>4. /\ ipBrand' \in [Ip -> Brand]
      /\ \A i \in Ip : ipBrand'[i] = IF lock[i] = s THEN call[s].arg ELSE ipBrand[i]
  BY <1>1, <1>2, <1>3 DEF HeldIps
<1>5. AllocatedIffServices'
  BY <1>2, <1>3 DEF AllocatedIffServices
<1>6. ServicesInBrand'
  <2> SUFFICES ASSUME NEW i \in Ip, NEW v \in ipServices[i]
               PROVE  BrandOf[v] \in {NoBrand, ipBrand'[i]}
    BY <1>3 DEF ServicesInBrand, BrandMatches
  <2>1. ipState[i] = "ALLOCATED" /\ BrandOf[v] \in {NoBrand, ipBrand[i]}
    BY <1>2 DEF AllocatedIffServices, ServicesInBrand, BrandMatches
  <2>2. ipBrand'[i] = ipBrand[i]
    BY <1>1, <1>4, <2>1 DEF IpMayChangeBrand
  <2> QED
    BY <2>1, <2>2
<1> QED
  BY <1>2, <1>3, <1>4, <1>5, <1>6, LeaveStep

\* The deletion of an APN takes no IP with it that services hold.
LEMMA CommitDeleteStep ==
  ASSUME SessionInv, NEW s \in Session, CommitDeleteApn(s)
  PROVE  SessionInv'
<1>1. \A i \in Ip : lock[i] = s => IpMayBeDeleted(i)
  BY DEF SessionInv, Checked, CommitDeleteApn
<1>2. /\ ipState \in [Ip -> IpStates \cup Missing] /\ ipBrand \in [Ip -> Brand]
      /\ ipServices \in [Ip -> SUBSET Service]
      /\ AllocatedIffServices /\ ServicesInBrand
  BY DEF SessionInv, SessionTypes
<1>3. /\ ipState' = [i \in Ip |-> IF i \in HeldIps(s) THEN "deleted" ELSE ipState[i]]
      /\ UNCHANGED <<ipBrand, ipServices>> /\ Leave(s)
  BY DEF CommitDeleteApn
<1>4. /\ ipState' \in [Ip -> IpStates \cup Missing]
      /\ \A i \in Ip : ipState'[i] = IF lock[i] = s THEN "deleted" ELSE ipState[i]
  BY <1>2, <1>3 DEF HeldIps, Missing
<1>5. AllocatedIffServices'
  BY <1>1, <1>2, <1>3, <1>4 DEF AllocatedIffServices, IpMayBeDeleted
<1>6. ServicesInBrand'
  BY <1>2, <1>3 DEF ServicesInBrand, BrandMatches
<1> QED
  BY <1>2, <1>3, <1>4, <1>5, <1>6, LeaveStep

\* The lock of the APN for a move, or the end of it.
LEMMA OpenStep ==
  ASSUME SessionInv, NEW s \in Session, OpenForMove(s)
  PROVE  SessionInv'
<1>1. UNCHANGED <<ipState, ipBrand, ipServices>> /\ lock[call[s].arg] = Free
  BY DEF OpenForMove, dbVars, vars
<1>2. CASE Leave(s)
  BY <1>1, <1>2, NothingWritten
<1>3. CASE /\ lock' = [lock EXCEPT ![call[s].arg] = s]
           /\ call' = [call EXCEPT ![s].op = "move"]
  <2> DEFINE c == [call[s] EXCEPT !.op = "move"]
  <2>1. call[s] = [op |-> call[s].op, dev |-> call[s].dev,
                   arg |-> call[s].arg, todo |-> call[s].todo]
    BY DEF SessionInv, SessionTypes
  <2>2. c = [op |-> c.op, dev |-> c.dev, arg |-> c.arg, todo |-> c.todo] /\ c.op = "move"
    BY <2>1
  <2>3. call' = [call EXCEPT ![s] = c]
    BY <1>3
  <2>4. call'[s] = c
    BY <2>3 DEF SessionInv, SessionTypes
  <2> HIDE DEF c
  <2>5. Checked(s)'
    BY <2>2, <2>4 DEF Checked, Calling
  <2>6. call[s].arg \in Ip \cup Apn
    BY DEF SessionInv, Checked, OpenForMove
  <2> QED
    BY <1>1, <1>3, <2>2, <2>3, <2>5, <2>6, LockStep
<1> QED
  BY <1>2, <1>3 DEF OpenForMove

\* A call on an IP that no session has locked disturbs none.
LEMMA CallOnIpStep ==
  ASSUME SessionInv, NEW i \in Ip, CallOnIp(i)
  PROVE  SessionInv'
<1>1. /\ ipState \in [Ip -> IpStates \cup Missing] /\ ipBrand \in [Ip -> Brand]
      /\ ipServices \in [Ip -> SUBSET Service]
      /\ AllocatedIffServices /\ ServicesInBrand
  BY DEF SessionInv, SessionTypes
<1>2. lock[i] = Free /\ UNCHANGED <<lock, call, ipBrand>>
  BY DEF CallOnIp, DisassociateIp, SetStateIp, DeleteIp
<1>3. /\ ipState' \in [Ip -> IpStates \cup Missing] /\ ipServices' \in [Ip -> SUBSET Service]
      /\ \A j \in Ip : j # i => ipState'[j] = ipState[j] /\ ipServices'[j] = ipServices[j]
      /\ ipServices'[i] \subseteq ipServices[i]
      /\ ipState'[i] = "ALLOCATED" <=> ipServices'[i] # {}
  <2>1. ASSUME NEW S \in ServiceSets, DisassociateIp(i, S)
        PROVE  <1>3
    <3>1. Cardinality(S) = Cardinality(ipServices[i]) <=> ipServices[i] \ S = {}
      BY <1>1, <2>1, RemoveAll DEF DisassociateIp, ServiceSets
    <3>2. /\ ipServices' = [ipServices EXCEPT ![i] = @ \ S]
          /\ ipState' = IF ipServices[i] \ S = {} /\ ipState[i] = "ALLOCATED"
                        THEN [ipState EXCEPT ![i] = "UNALLOCATED"] ELSE ipState
      BY <2>1, <3>1 DEF DisassociateIp
    <3> QED
      BY <1>1, <3>2 DEF AllocatedIffServices, IpStates
  <2>2. ASSUME NEW new \in IpStates, SetStateIp(i, new)
        PROVE  <1>3
    BY <1>1, <2>2 DEF SetStateIp, AllocatedIffServices
  <2>3. CASE DeleteIp(i)
    BY <1>1, <2>3 DEF DeleteIp, IpMayBeDeleted, Missing, AllocatedIffServices
  <2> QED
    BY <2>1, <2>2, <2>3 DEF CallOnIp
<1>4. AllocatedIffServices' /\ ServicesInBrand'
  BY <1>1, <1>2, <1>3 DEF AllocatedIffServices, ServicesInBrand, BrandMatches
<1>5. ASSUME NEW t \in Session PROVE Checked(t)'
  <2>1. \A j \in Ip : lock[j] = t => j # i
    BY <1>2, Apart
  <2> QED
    BY <1>2, <1>3, <2>1, StillChecked
<1>6. SessionTypes'
  BY <1>2, <1>3 DEF SessionInv, SessionTypes
<1> QED
  BY <1>4, <1>5, <1>6 DEF SessionInv

-----------------------------------------------------------------------------
\* Every step of every session keeps the invariant.
LEMMA SessionStep == SessionInv /\ [SNext]_sVars => SessionInv'
<1> SUFFICES ASSUME SessionInv, [SNext]_sVars PROVE SessionInv'
  OBVIOUS
<1>1. CASE UNCHANGED sVars
  BY <1>1 DEF sVars, SessionInv, SessionTypes, Checked, Calling, AllocatedIffServices,
              ServicesInBrand, BrandMatches, IpMayChangeBrand, IpMayBeDeleted
<1>2. ASSUME NEW s \in Session, Begin(s) PROVE SessionInv'
  BY <1>2, BeginStep
<1>3. ASSUME NEW s \in Session, Continue(s) PROVE SessionInv'
  <2>1. CASE CommitSetStateApn(s) \/ CommitMove(s)
    BY <2>1, NothingWritten DEF CommitSetStateApn, CommitMove, ipVars
  <2> QED
    BY <1>3, <2>1, CommitAssociateStep, NestedStep, CommitSetBrandStep, CommitDeleteStep, OpenStep
       DEF Continue
<1>4. ASSUME NEW i \in Ip, CallOnIp(i) PROVE SessionInv'
  BY <1>4, CallOnIpStep
<1> QED
  BY <1>1, <1>2, <1>3, <1>4 DEF SNext

\* The inductive invariant, for any number of sessions: an IP that a session is
\* about to write is as the session has read it.
THEOREM SessionInvariant == SSpec => []SessionInv
<1>1. SInit => SessionInv
  <2> SUFFICES ASSUME SInit PROVE SessionInv
    OBVIOUS
  <2>1. SessionTypes
    BY SessionsAssumption DEF SInit, SessionTypes, IpStates, Idle
  <2>2. AllocatedIffServices /\ ServicesInBrand
    BY DEF SInit, AllocatedIffServices, ServicesInBrand, BrandMatches
  <2>3. \A s \in Session : Checked(s)
    BY Apart DEF SInit, Checked, Calling, Idle
  <2> QED
    BY <2>1, <2>2, <2>3 DEF SessionInv
<1> QED
  BY <1>1, SessionStep, PTL DEF SSpec

\* Addresses that services hold stay in their brand and exist, though the count of
\* the APN's policies may be outdated.
THEOREM HeldIpsKeepTheirBrand == SSpec => []HeldIpKeepsBrand
<1>1. SessionInv => HeldIpKeepsBrand
  BY DEF SessionInv, AllocatedIffServices, ServicesInBrand, HeldIpKeepsBrand, IpExists, Missing
<1> QED
  BY <1>1, SessionInvariant, PTL
=============================================================================
