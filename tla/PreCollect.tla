----------------------------- MODULE PreCollect -----------------------------
(***************************************************************************)
(* What PCM_OP_PYMT_POL_PRE_COLLECT decides about one charge of a batch:   *)
(* whether it goes on to the payment processor, or the result that it is   *)
(* given instead.                                                          *)
(***************************************************************************)
EXTENDS Integers

CONSTANTS MinimumPayment, MinimumRefund \* pin.conf or business parameters

ASSUME PreCollectAssumption == MinimumPayment \in Nat /\ MinimumRefund \in Nat

\* Commands that go to the processor, and so leave checkpoints.
Online == {"condition", "refund", "auth_only", "deposit"}

Commands == Online \cup {"none", "rfr", "resubmit"}

IsRefund(command, amount) ==
  command = "refund" \/ (command = "none" /\ amount < 0)

\* The minimum of a refund is compared from below with the amount of a refund
\* command, and from above with a negative payment.
BelowMinimum(command, amount, minimumRefund) ==
  \/ command \in Online \ {"refund"} /\ amount < MinimumPayment
  \/ command = "refund" /\ amount < minimumRefund
  \/ command = "none" /\ amount < 0 /\ amount > minimumRefund

\* One turn of the loop, for a charge that is neither suspended nor failed.
\* Only a missing credit lets the check of the mandate have its say.
Verdict(command, amount, minimumRefund, selected, credit, outstanding, mandate) ==
  IF ~selected THEN "select"
  ELSE IF BelowMinimum(command, amount, minimumRefund) THEN "no_min"
  ELSE IF outstanding /\ command \in Online THEN "checkpoint"
  ELSE IF command \notin Commands THEN "invalid"
  ELSE IF ~mandate /\ command # "rfr" THEN "select"
  ELSE IF IsRefund(command, amount) /\ ~credit THEN "no_credit"
  ELSE "ok"
=============================================================================
