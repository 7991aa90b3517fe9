---------------------------- MODULE AddressPool ----------------------------
(***************************************************************************)
(* What address management promises to services, without states, brands or *)
(* names: a pool of addresses, each placed on at most one access point and *)
(* held by a set of services, and access points that open and close.  An   *)
(* address is taken into use on an open access point only, and an access   *)
(* point closes only when none of its addresses is held.  IpApn implements *)
(* this module.                                                            *)
(***************************************************************************)
CONSTANTS Ip, Apn, Service, Nowhere

VARIABLES
  open,    \* the access points in service
  place,   \* the access point of each address, Nowhere when there is none
  holders  \* the services that hold each address

poolVars == <<open, place, holders>>

On(a) == {i \in Ip : place[i] = a}
Held(i) == holders[i] # {}

Open(a) ==
  /\ open' = open \cup {a}
  /\ UNCHANGED <<place, holders>>

\* Closing keeps the addresses where they are, or withdraws them all.
Close(a) ==
  /\ \A i \in On(a) : ~Held(i)
  /\ open' = open \ {a}
  /\ \/ UNCHANGED place
     \/ place' = [i \in Ip |-> IF i \in On(a) THEN Nowhere ELSE place[i]]
  /\ UNCHANGED holders

\* Only an address nobody holds comes, moves or goes; the first one to come
\* may open its access point.
Put(i, a) ==
  /\ ~Held(i)
  /\ place' = [place EXCEPT ![i] = a]
  /\ open' \in {open, open \cup ({a} \ {Nowhere})}
  /\ UNCHANGED holders

Hold(i, S) ==
  /\ place[i] \in open
  /\ holders' = [holders EXCEPT ![i] = @ \cup S]
  /\ UNCHANGED <<open, place>>

Release(i, S) ==
  /\ holders' = [holders EXCEPT ![i] = @ \ S]
  /\ UNCHANGED <<open, place>>

PoolInit ==
  /\ open = {}
  /\ place = [i \in Ip |-> Nowhere]
  /\ holders = [i \in Ip |-> {}]

PoolNext ==
  \/ \E a \in Apn : Open(a) \/ Close(a)
  \/ \E i \in Ip, a \in Apn \cup {Nowhere} : Put(i, a)
  \/ \E i \in Ip, S \in SUBSET Service : Hold(i, S) \/ Release(i, S)

PoolSpec == PoolInit /\ [][PoolNext]_poolVars
=============================================================================
