----------------------------- MODULE MCPayments -----------------------------
(***************************************************************************)
(* Small instances of Collection and PaymentBatch.  A behaviour is one of  *)
(* the two; the variables of the other keep their initial values.          *)
(***************************************************************************)
EXTENDS Collection, PaymentBatch, TLC

CONSTANTS a1, b1, b2, r1, r2

MCAccountOf == [b \in {b1, b2} |-> a1]

\* A payment of an account with one billinfo, one that leaves the choice of the
\* billinfo to the policy, and the return of a payment.
Plain ==
  [status |-> "success", result |-> "absent", reason |-> "none", billinfo |-> "object",
   bills |-> "none", original |-> "found", payer |-> "open", account |-> "open",
   matching |-> FALSE, amount |-> 1, credit |-> TRUE, several |-> FALSE,
   foreign |-> FALSE, writtenOff |-> FALSE]
Unallocated == [Plain EXCEPT !.billinfo = "none", !.several = TRUE]
Returned == [Plain EXCEPT !.status = "failed"]

\* Payments that differ from c in one thing that matters.
Near(c) ==
  {c}
  \cup {[c EXCEPT !.status = s] : s \in {"absent", "suspense"}}
  \cup {[c EXCEPT !.result = "fail"]}
  \cup {[c EXCEPT !.reason = r] : r \in {"other", "mbi"}}
  \cup {[c EXCEPT !.billinfo = b] : b \in {"none", "object", "array"}}
  \cup {[c EXCEPT !.bills = "charge"]}
  \cup {[c EXCEPT !.original = o] : o \in {"distributed", "unknown", "untraced", "marked"}}
  \cup {[c EXCEPT !.payer = "closed"]}
  \cup {[c EXCEPT !.account = a] : a \in {"closed", "none"}}
  \cup {[c EXCEPT !.amount = -a] : a \in 1..2}
  \cup {[c EXCEPT !.amount = -2, !.credit = FALSE]}
  \cup {[c EXCEPT !.matching = TRUE], [c EXCEPT !.several = TRUE],
        [c EXCEPT !.foreign = TRUE], [c EXCEPT !.writtenOff = TRUE]}

MCCharge == Near(Plain) \cup Near(Unallocated) \cup Near(Returned)

NoBatch ==
  /\ parameters = [suspense |-> FALSE, search |-> FALSE]
  /\ batch = <<>> /\ validated = <<>> /\ verdicts = <<>>
  /\ local = Start /\ error = FALSE

MCInit ==
  \/ Init /\ NoBatch
  \/ /\ BatchInit /\ Init
     /\ payType = [b \in Billinfo |-> CHOOSE t \in PayType : TRUE] /\ contracted = {}

MCNext ==
  \/ batch = <<>> /\ Next /\ UNCHANGED batchVars
  \/ batch # <<>> /\ BatchNext /\ UNCHANGED vars

MCSpec == MCInit /\ [][MCNext]_<<vars, batchVars>>

\* What follows after a search has missed a charge is not explored: its account
\* is then excepted from every property.
Searched == missed = {}

\* Runs and the billinfos of the account can be exchanged.
Alike == Permutations(Run) \cup Permutations(Billinfo)
=============================================================================
