------------------------------- MODULE Ledger -------------------------------
(***************************************************************************)
(* What the collection of payments promises to customers, without runs,    *)
(* checkpoints, answers or statuses: what a billinfo owes comes from bills *)
(* only, and is paid once, at once or after it was reserved.  Collection   *)
(* implements this module.                                                 *)
(***************************************************************************)
EXTENDS Naturals

CONSTANT Billinfo

VARIABLES
  owed,      \* billed, and neither reserved nor paid
  reserved,  \* authorized, and not paid yet
  paid       \* what the customer has paid

ledgerVars == <<owed, reserved, paid>>

LedgerInit ==
  /\ owed = [b \in Billinfo |-> 0]
  /\ reserved = [b \in Billinfo |-> 0]
  /\ paid = [b \in Billinfo |-> 0]

Owe(b) ==
  /\ owed' = [owed EXCEPT ![b] = @ + 1]
  /\ UNCHANGED <<reserved, paid>>

Reserve(b, x) ==
  /\ owed' = [owed EXCEPT ![b] = @ - x]
  /\ reserved' = [reserved EXCEPT ![b] = @ + x]
  /\ UNCHANGED paid

Pay(b, x) ==
  /\ owed' = [owed EXCEPT ![b] = @ - x]
  /\ paid' = [paid EXCEPT ![b] = @ + x]
  /\ UNCHANGED reserved

Settle(b, x) ==
  /\ reserved' = [reserved EXCEPT ![b] = @ - x]
  /\ paid' = [paid EXCEPT ![b] = @ + x]
  /\ UNCHANGED owed

\* Billinfos for which nothing is promised any more.
Strike(B) ==
  /\ owed' = [b \in DOMAIN owed \ B |-> owed[b]]
  /\ reserved' = [b \in DOMAIN owed \ B |-> reserved[b]]
  /\ paid' = [b \in DOMAIN owed \ B |-> paid[b]]

LedgerNext ==
  \/ \E b \in DOMAIN owed :
       \/ Owe(b)
       \/ \E x \in 1 .. owed[b] : Reserve(b, x) \/ Pay(b, x)
       \/ \E x \in 1 .. reserved[b] : Settle(b, x)
  \/ \E B \in SUBSET DOMAIN owed : Strike(B)

LedgerSpec == LedgerInit /\ [][LedgerNext]_ledgerVars
=============================================================================
