----------------------------- MODULE AliasList -----------------------------
(***************************************************************************)
(* The ALIAS_LIST array of one service, which the policies of its number   *)
(* and of its SIMs edit in the same way: they read the whole list, compute *)
(* an element id, and call PCM_OP_CUST_SET_LOGIN on that element alone.    *)
(* The association of each device runs in a session of its own.            *)
(***************************************************************************)
EXTENDS Naturals, FiniteSetsExt

CONSTANTS
  Device,   \* devices that are associated with the service and leave it again
  MaxElem,  \* bound: the highest element id
  Exclusive \* the service is locked from the read to the end of the transaction

VARIABLES
  list, \* element id -> name of a device (its MSISDN or IMSI)
  step, \* what the session of each device is doing
  seen, \* the list as the session read it
  held  \* devices the service has

vars == <<list, step, seen, held>>

Elems == 0 .. MaxElem

\* Mutant of NewElem: elements are counted instead of looking for the highest.
NewElemCounted(l) == Cardinality(DOMAIN l)

\* max_elem_id + 1
NewElem(l) == IF DOMAIN l = {} THEN 0 ELSE Max(DOMAIN l) + 1

With(l, e, d) == [x \in DOMAIN l \cup {e} |-> IF x = e THEN d ELSE l[x]]
Without(l, e) == [x \in DOMAIN l \ {e} |-> l[x]]

Read(d) ==
  /\ step[d] = "idle"
  /\ Exclusive => \A c \in Device : step[c] = "idle"
  /\ step' = [step EXCEPT ![d] = IF d \in held THEN "removing" ELSE "adding"]
  /\ seen' = [seen EXCEPT ![d] = list]
  /\ UNCHANGED <<list, held>>

Add(d) ==
  /\ step[d] = "adding"
  /\ NewElem(seen[d]) \in Elems
  /\ list' = With(list, NewElem(seen[d]), d)
  /\ held' = held \cup {d}
  /\ step' = [step EXCEPT ![d] = "idle"]
  /\ seen' = [seen EXCEPT ![d] = << >>]

\* The first element with the name goes; without one nothing is changed.
Remove(d) ==
  /\ step[d] = "removing"
  /\ LET named == {e \in DOMAIN seen[d] : seen[d][e] = d}
     IN list' = IF named = {} THEN list ELSE Without(list, Min(named))
  /\ held' = held \ {d}
  /\ step' = [step EXCEPT ![d] = "idle"]
  /\ seen' = [seen EXCEPT ![d] = << >>]

Init ==
  /\ list = << >>
  /\ step = [d \in Device |-> "idle"]
  /\ seen = [d \in Device |-> << >>]
  /\ held = {}

Next == \E d \in Device : Read(d) \/ Add(d) \/ Remove(d)

Spec == Init /\ [][Next]_vars

-----------------------------------------------------------------------------
\* The service has an alias for each device it has and for no other, however
\* associations and disassociations alternate.
AliasPerDevice == {list[e] : e \in DOMAIN list} = held
=============================================================================
