---------------------------- MODULE PaymentBatch ----------------------------
(***************************************************************************)
(* Validating a batch of payments that came from outside                   *)
(* (fm_pymt_pol_validate_payment.c) and taking it through the checks of    *)
(* PRE_COLLECT.  Both opcodes are a loop over the charges of the batch     *)
(* whose local variables outlive a turn.                                   *)
(*                                                                         *)
(* A charge is a record of what the opcodes set and of what their searches *)
(* would find for it:                                                      *)
(*   status, result, reason, billinfo, bills  - fields of the charge;      *)
(*     a billinfo is an object or an array, and holds the bills if it is   *)
(*     an array;                                                           *)
(*   original, payer - for a failed payment, the payment that failed and   *)
(*     the account that it was for;                                        *)
(*   account - what account and bills of the charge lead to;               *)
(*   matching - a bill of the account is for that amount;                  *)
(*   credit, several, foreign, writtenOff - of the account: a credit to    *)
(*     refund, more billinfos than one, no rate for its currency, written  *)
(*     off.                                                                *)
(***************************************************************************)
EXTENDS PreCollect, Sequences

CONSTANTS
  Charge,  \* the charges a batch is made of
  MaxBatch \* bound: the longest batch

ChargeType ==
  [status : {"absent", "success", "writeoff", "suspense", "failed_suspense", "failed"},
   result : {"absent", "pass", "fail"}, reason : {"none", "other", "mbi"},
   billinfo : {"none", "object", "array"}, bills : {"none", "charge", "array"},
   original : {"found", "distributed", "unknown", "untraced", "marked"},
   payer : {"open", "closed", "none"}, account : {"open", "closed", "none"},
   matching : BOOLEAN, amount : Int, credit : BOOLEAN, several : BOOLEAN,
   foreign : BOOLEAN, writtenOff : BOOLEAN]

ASSUME ChargeAssumption == Charge \subseteq ChargeType

IsSuccess(status)  == status \in {"success", "writeoff"}
IsSuspense(status) == status \in {"suspense", "failed_suspense"}
IsFailed(status)   == status = "failed"

VARIABLES
  parameters, \* business parameters: payment suspense, search of bills by amount
  batch,      \* what is passed to the opcode
  validated,  \* the charges that had their turn in VALIDATE_PAYMENT
  verdicts,   \* of the charges that had their turn in PRE_COLLECT
  local,      \* variables of the loops
  error       \* the opcode has failed, and the batch with it

batchVars == <<parameters, batch, validated, verdicts, local, error>>

\* is_billinfo_exist, is_refund, what reason_idp points to, and minimum_ref.
Local == [billinfo : BOOLEAN, refund : BOOLEAN,
          reason : {"none", "other", "mbi", "freed"}, minimum : Int]

Start == [billinfo |-> TRUE, refund |-> FALSE, reason |-> "none", minimum |-> MinimumRefund]

BatchInit ==
  /\ parameters \in [suspense : BOOLEAN, search : BOOLEAN]
  /\ \E n \in 1 .. MaxBatch : batch \in [1 .. n -> Charge]
  /\ validated = <<>> /\ verdicts = <<>>
  /\ local = Start /\ error = FALSE

-----------------------------------------------------------------------------
(***************************************************************************)
(* The functions that a turn of VALIDATE_PAYMENT calls, in their order.    *)
(***************************************************************************)

Suspended(c, suspense) ==
  [c EXCEPT !.status = suspense, !.reason = "other"]

\* The original payment is found.  When it was distributed over accounts, the
\* payer is that of a part.
OriginalFound(c) ==
  [c EXCEPT !.result = "pass", !.account = c.payer,
            !.reason = IF c.original = "distributed" THEN "mbi" ELSE @]

\* It is not found, or nothing names it.
OriginalMissing(c) ==
  IF parameters.suspense THEN Suspended(c, "failed_suspense")
  ELSE [c EXCEPT !.result = "fail"]

\* The original is looked for unless EXTENDED_INFO says that it was.
FailedPayment(c) ==
  IF ~IsFailed(c.status) \/ c.result = "fail" \/ c.original = "marked" THEN c
  ELSE IF c.original \in {"found", "distributed"} THEN OriginalFound(c)
  ELSE OriginalMissing(c)

\* fm_pymt_pol_validate_payment_billinfo: the default billinfo.
WithBillinfo(c) ==
  [c EXCEPT !.billinfo = IF @ = "none" THEN "object" ELSE @]

ForSuspense(c) ==
  IF IsSuspense(c.status) THEN c
  ELSE IF parameters.suspense
  THEN IF c.account = "open" THEN WithBillinfo(c)
       ELSE Suspended(c, IF IsFailed(c.status) THEN "failed_suspense" ELSE "suspense")
  ELSE IF c.account = "none" THEN [c EXCEPT !.result = "fail"]
  ELSE WithBillinfo([c EXCEPT !.result = "pass"])

\* is_suspense_enabled is set by for_suspense in each turn.  Mutant of
\* SuspenseEnabled: it is set in the first turn, and reset at its end.
SuspenseEnabledOnce(first) == first /\ parameters.suspense
SuspenseEnabled(first) == parameters.suspense

NoExchangeRate(c, enabled) ==
  /\ c.foreign /\ c.account # "none"
  /\ IF enabled THEN c.status # "absent" /\ ~IsSuspense(c.status)
                ELSE c.result = "pass"

\* fm_pymt_pol_validate_find_bill_by_amount looks where the billinfo is.
BillsPlace(c) == IF c.billinfo = "array" THEN "array" ELSE "charge"

FindBillByAmount(c) ==
  IF /\ parameters.search /\ IsSuccess(c.status) /\ c.result # "fail"
     /\ c.account # "none" /\ c.bills = "none" /\ c.matching
  THEN [c EXCEPT !.bills = BillsPlace(c)]
  ELSE c

CheckAccountForWriteoff(c) ==
  IF IsSuccess(c.status) /\ c.result # "fail" /\ c.writtenOff
  THEN [c EXCEPT !.status = "writeoff"]
  ELSE c

\* The part of the turn for payments of accounts with several billinfos.
Reads(c, l, enabled) ==
  (c.status = "absent" \/ IsSuccess(c.status)) /\ ~l.refund /\ enabled

MarkedForDistribution(c, l, enabled, reason) ==
  /\ Reads(c, l, enabled)
  /\ c.bills # "charge" /\ ~l.billinfo /\ reason # "mbi" /\ c.several

Distributed(c) ==
  [c EXCEPT !.reason = "mbi", !.billinfo = IF @ = "object" THEN "none" ELSE @]

\* What reason_idp points to after the turn: a reason that was replaced has been
\* freed.
LeftReason(c, l, enabled, marked) ==
  IF ~Reads(c, l, enabled) \/ c.reason = "none" THEN l.reason
  ELSE IF marked THEN "freed" ELSE c.reason

\* What reading through reason_idp may find.
Readable(c, l, enabled) ==
  IF Reads(c, l, enabled) /\ c.reason # "none" THEN {c.reason}
  ELSE IF l.reason = "freed" THEN {"other", "mbi"}
  ELSE {l.reason}

\* A charge when its turn comes to the distribution.
Checked(c) == CheckAccountForWriteoff(FindBillByAmount(ForSuspense(FailedPayment(c))))

\* for_suspense refuses a suspended charge when there is no suspense.
Invalid(c, enabled) ==
  \/ ~parameters.suspense /\ IsSuspense(FailedPayment(c).status)
  \/ NoExchangeRate(ForSuspense(FailedPayment(c)), enabled)

\* The local variables when the turn of a charge decides on the distribution.
Entered(c, l) ==
  [l EXCEPT !.billinfo = @ /\ c.billinfo # "none", !.refund = @ \/ c.amount < 0]

\* The outcomes of a turn: the charge, and what the next turn starts with.
Turn(c, l, first) ==
  LET enabled == SuspenseEnabled(first)
      d == Checked(c)
      m == Entered(c, l)
  IN {LET marked == MarkedForDistribution(d, m, enabled, reason)
      IN [charge |-> IF marked THEN Distributed(d) ELSE d,
          local |-> [m EXCEPT !.reason = LeftReason(d, m, enabled, marked)]] :
      reason \in Readable(d, m, enabled)}

ValidateCharge ==
  /\ ~error /\ Len(validated) < Len(batch)
  /\ LET c == batch[Len(validated) + 1]
         first == validated = <<>>
     IN IF Invalid(c, SuspenseEnabled(first))
        THEN error' = TRUE /\ UNCHANGED <<validated, local>>
        ELSE /\ \E t \in Turn(c, local, first) :
                  /\ validated' = Append(validated, t.charge)
                  /\ local' = t.local
             /\ UNCHANGED error
  /\ UNCHANGED <<parameters, batch, verdicts>>

-----------------------------------------------------------------------------
(***************************************************************************)
(* The loop of PRE_COLLECT.  No charge from outside is sent to a           *)
(* processor, so that checkpoints and mandates do not matter.              *)
(***************************************************************************)

Skipped(c) == IsSuspense(c.status) \/ c.result = "fail"

\* minimum_ref is negated at each negative payment.
MinimumFor(c, minimum) ==
  IF ~Skipped(c) /\ c.amount < 0 THEN -minimum ELSE minimum

VerdictOn(c, minimum) ==
  IF Skipped(c) THEN "skipped"
  ELSE Verdict("none", c.amount, MinimumFor(c, minimum), TRUE, c.credit, FALSE, TRUE)

PreCollectCharge ==
  /\ ~error /\ Len(validated) = Len(batch) /\ Len(verdicts) < Len(batch)
  /\ LET c == validated[Len(verdicts) + 1]
     IN /\ verdicts' = Append(verdicts, VerdictOn(c, local.minimum))
        /\ local' = [local EXCEPT !.minimum = MinimumFor(c, @)]
  /\ UNCHANGED <<parameters, batch, validated, error>>

BatchNext == ValidateCharge \/ PreCollectCharge

BatchSpec == BatchInit /\ [][BatchNext]_batchVars

-----------------------------------------------------------------------------
\* A charge that changes what the loops remember: a refund, a payment without
\* a billinfo, or one with a reason.
LeavesTraces(c) == c.amount < 0 \/ c.billinfo = "none" \/ c.reason # "none"

Undisturbed(i) == \A j \in 1..(i - 1) : ~LeavesTraces(batch[j])

\* What is decided about a payment is what would be decided if it came alone,
\* as long as no payment before it leaves traces; and a batch fails only by a
\* payment that fails alone.
ChargesAreIndependent ==
  /\ \A i \in DOMAIN validated :
       Undisturbed(i) => \E t \in Turn(batch[i], Start, TRUE) : t.charge = validated[i]
  /\ \A i \in DOMAIN verdicts :
       Undisturbed(i) => verdicts[i] = VerdictOn(validated[i], MinimumRefund)
  /\ \A i \in DOMAIN validated : ~Invalid(batch[i], parameters.suspense)
  /\ error => Invalid(batch[Len(validated) + 1], parameters.suspense)

\* "Else Set PIN_FLD_RESULT to PIN_PAYMENT_RES_FAIL.": a failed payment whose
\* original is not found is refused when there is no payment suspense.
UnmatchedFailureIsRefused ==
  \A i \in DOMAIN validated :
    IsFailed(batch[i].status) /\ batch[i].original \in {"unknown", "untraced"}
      /\ ~parameters.suspense
      => validated[i].result = "fail"
=============================================================================
