------------------------- MODULE PaymentBatchProofs -------------------------
(***************************************************************************)
(* Theorems about PaymentBatch, for batches of any length of any charges   *)
(* that the opcodes know: the turns of both loops are shown to leave the   *)
(* variables of the loops as they were, unless a payment leaves traces.    *)
(***************************************************************************)
EXTENDS PaymentBatch, TLAPS

\* What the loops rely on, and keep: their variables are as at the start, and
\* the amounts of the charges are never changed.
LoopsStartAfresh ==
  /\ verdicts = <<>> /\ Undisturbed(Len(validated) + 1) => local = Start
  /\ Undisturbed(Len(verdicts) + 1) => local.minimum = MinimumRefund
  /\ Len(verdicts) <= Len(validated) /\ Len(validated) <= Len(batch)
  /\ verdicts # <<>> => Len(validated) = Len(batch)
  /\ \A i \in 1 .. Len(validated) : validated[i].amount = batch[i].amount

TypeOK ==
  /\ parameters \in [suspense : BOOLEAN, search : BOOLEAN]
  /\ batch \in Seq(ChargeType) /\ validated \in Seq(ChargeType)
  /\ verdicts \in Seq({"skipped", "select", "no_min", "checkpoint", "invalid",
                       "no_credit", "ok"})
  /\ local \in Local /\ error \in BOOLEAN

-----------------------------------------------------------------------------
(***************************************************************************)
(* The functions that a turn of VALIDATE_PAYMENT calls, one by one: each   *)
(* keeps the amount, and gives a reason only to a charge that it suspends  *)
(* or that is a failed one.                                                *)
(***************************************************************************)

\* A charge that came without a reason has none when it comes to be read.
Unreasoned(c) == c.status \in {"absent", "success", "writeoff"} => c.reason = "none"

LEMMA FailedPaymentKeeps ==
  ASSUME TypeOK, NEW c \in ChargeType
  PROVE  /\ FailedPayment(c) \in ChargeType /\ FailedPayment(c).amount = c.amount
         /\ c.reason = "none" => Unreasoned(FailedPayment(c))
<1>1. CASE ~IsFailed(c.status) \/ c.result = "fail" \/ c.original = "marked"
  BY <1>1 DEF FailedPayment, Unreasoned
<1>2. CASE /\ ~(~IsFailed(c.status) \/ c.result = "fail" \/ c.original = "marked")
           /\ c.original \in {"found", "distributed"}
  <2>1. FailedPayment(c) = OriginalFound(c)
    BY <1>2 DEF FailedPayment
  <2>2. OriginalFound(c) \in ChargeType /\ OriginalFound(c).amount = c.amount
        /\ OriginalFound(c).status = "failed"
    BY <1>2 DEF OriginalFound, ChargeType, IsFailed
  <2> QED
    BY <2>1, <2>2 DEF Unreasoned
<1>3. CASE /\ ~(~IsFailed(c.status) \/ c.result = "fail" \/ c.original = "marked")
           /\ c.original \notin {"found", "distributed"}
  <2>1. FailedPayment(c) = OriginalMissing(c)
    BY <1>3 DEF FailedPayment
  <2>2. /\ OriginalMissing(c) \in ChargeType /\ OriginalMissing(c).amount = c.amount
        /\ OriginalMissing(c).status \in {"failed", "failed_suspense"}
    BY <1>3 DEF OriginalMissing, Suspended, ChargeType, IsFailed
  <2> QED
    BY <2>1, <2>2 DEF Unreasoned
<1> QED
  BY <1>1, <1>2, <1>3

LEMMA ForSuspenseKeeps ==
  ASSUME TypeOK, NEW c \in ChargeType
  PROVE  /\ ForSuspense(c) \in ChargeType /\ ForSuspense(c).amount = c.amount
         /\ Unreasoned(c) => Unreasoned(ForSuspense(c))
<1>1. ASSUME NEW d \in ChargeType
      PROVE  /\ WithBillinfo(d) \in ChargeType /\ WithBillinfo(d).amount = d.amount
             /\ WithBillinfo(d).status = d.status /\ WithBillinfo(d).reason = d.reason
  BY <1>1 DEF WithBillinfo, ChargeType
<1>2. ASSUME NEW s \in {"suspense", "failed_suspense"}
      PROVE  /\ Suspended(c, s) \in ChargeType /\ Suspended(c, s).amount = c.amount
             /\ Suspended(c, s).status = s
  BY <1>2 DEF Suspended, ChargeType
<1>3. ASSUME NEW r \in {"pass", "fail"}
      PROVE  /\ [c EXCEPT !.result = r] \in ChargeType
             /\ [c EXCEPT !.result = r].amount = c.amount
             /\ [c EXCEPT !.result = r].status = c.status
             /\ [c EXCEPT !.result = r].reason = c.reason
  BY <1>3 DEF ChargeType
<1>4. CASE IsSuspense(c.status)
  BY <1>4 DEF ForSuspense
<1>5. CASE ~IsSuspense(c.status) /\ parameters.suspense
  <2>1. CASE c.account = "open"
    BY <1>1, <1>5, <2>1 DEF ForSuspense, Unreasoned
  <2>2. CASE c.account # "open"
    <3>1. PICK s \in {"suspense", "failed_suspense"} : ForSuspense(c) = Suspended(c, s)
      BY <1>5, <2>2 DEF ForSuspense
    <3> QED
      BY <1>2, <3>1 DEF Unreasoned
  <2> QED
    BY <2>1, <2>2
<1>6. CASE ~IsSuspense(c.status) /\ ~parameters.suspense
  <2>1. CASE c.account = "none"
    <3>1. ForSuspense(c) = [c EXCEPT !.result = "fail"]
      BY <1>6, <2>1 DEF ForSuspense
    <3> QED
      BY <1>3, <3>1 DEF Unreasoned
  <2>2. CASE c.account # "none"
    <3>1. ForSuspense(c) = WithBillinfo([c EXCEPT !.result = "pass"])
      BY <1>6, <2>2 DEF ForSuspense
    <3> QED
      BY <1>1, <1>3, <3>1 DEF Unreasoned
  <2> QED
    BY <2>1, <2>2
<1> QED
  BY <1>4, <1>5, <1>6

LEMMA CheckedKeeps ==
  ASSUME TypeOK, NEW c \in ChargeType
  PROVE  /\ Checked(c) \in ChargeType /\ Checked(c).amount = c.amount
         /\ c.reason = "none" => Unreasoned(Checked(c))
<1>1. ASSUME NEW d \in ChargeType
      PROVE  /\ FindBillByAmount(d) \in ChargeType /\ FindBillByAmount(d).amount = d.amount
             /\ FindBillByAmount(d).status = d.status /\ FindBillByAmount(d).reason = d.reason
  BY <1>1 DEF FindBillByAmount, BillsPlace, ChargeType
<1>2. ASSUME NEW d \in ChargeType
      PROVE  /\ CheckAccountForWriteoff(d) \in ChargeType
             /\ CheckAccountForWriteoff(d).amount = d.amount
             /\ Unreasoned(d) => Unreasoned(CheckAccountForWriteoff(d))
  <2>1. [d EXCEPT !.status = "writeoff"] \in ChargeType
        /\ [d EXCEPT !.status = "writeoff"].amount = d.amount
        /\ [d EXCEPT !.status = "writeoff"].reason = d.reason
    BY <1>2 DEF ChargeType
  <2>2. CASE IsSuccess(d.status) /\ d.result # "fail" /\ d.writtenOff
    BY <2>1, <2>2 DEF CheckAccountForWriteoff, Unreasoned, IsSuccess
  <2>3. CASE ~(IsSuccess(d.status) /\ d.result # "fail" /\ d.writtenOff)
    BY <1>2, <2>3 DEF CheckAccountForWriteoff
  <2> QED
    BY <2>2, <2>3
<1>3. /\ FailedPayment(c) \in ChargeType /\ FailedPayment(c).amount = c.amount
      /\ c.reason = "none" => Unreasoned(FailedPayment(c))
  BY FailedPaymentKeeps
<1>4. /\ ForSuspense(FailedPayment(c)) \in ChargeType
      /\ ForSuspense(FailedPayment(c)).amount = c.amount
      /\ c.reason = "none" => Unreasoned(ForSuspense(FailedPayment(c)))
  BY <1>3, ForSuspenseKeeps
<1>5. /\ FindBillByAmount(ForSuspense(FailedPayment(c))) \in ChargeType
      /\ FindBillByAmount(ForSuspense(FailedPayment(c))).amount = c.amount
      /\ c.reason = "none" => Unreasoned(FindBillByAmount(ForSuspense(FailedPayment(c))))
  BY <1>1, <1>4 DEF Unreasoned
<1> QED
  BY <1>2, <1>5 DEF Checked

-----------------------------------------------------------------------------
\* The variables of the loop are as at the start when each of them is.
LEMMA SameLocal ==
  ASSUME NEW l \in Local, l.billinfo = TRUE, l.refund = FALSE, l.reason = "none",
         l.minimum = MinimumRefund
  PROVE  l = Start
BY DEF Local, Start

LEMMA DistributedKeeps ==
  ASSUME NEW c \in ChargeType
  PROVE  Distributed(c) \in ChargeType /\ Distributed(c).amount = c.amount
<1>1. CASE c.billinfo = "object"
  <2>1. Distributed(c) = [c EXCEPT !.reason = "mbi", !.billinfo = "none"]
    BY <1>1 DEF Distributed, ChargeType
  <2> QED
    BY <2>1 DEF ChargeType
<1>2. CASE c.billinfo # "object"
  <2>1. Distributed(c) = [c EXCEPT !.reason = "mbi"]
    BY <1>2 DEF Distributed, ChargeType
  <2> QED
    BY <2>1 DEF ChargeType
<1> QED
  BY <1>1, <1>2

\* What a turn leaves: the amount as it was, and the variables of the loop too
\* after a charge that leaves no traces.
LEMMA TurnKeeps ==
  ASSUME TypeOK, NEW c \in ChargeType, NEW l \in Local, NEW first, NEW t \in Turn(c, l, first)
  PROVE  /\ t.charge \in ChargeType /\ t.charge.amount = c.amount
         /\ t.local \in Local /\ t.local.minimum = l.minimum
         /\ l = Start /\ ~LeavesTraces(c) => t.local = Start
<1> DEFINE d == Checked(c)
           m == Entered(c, l)
           enabled == SuspenseEnabled(first)
<1>1. PICK reason \in Readable(d, m, enabled) :
        /\ t.charge = IF MarkedForDistribution(d, m, enabled, reason) THEN Distributed(d) ELSE d
        /\ t.local = [m EXCEPT !.reason =
             LeftReason(d, m, enabled, MarkedForDistribution(d, m, enabled, reason))]
  BY DEF Turn
<1>2. d \in ChargeType /\ d.amount = c.amount /\ (c.reason = "none" => Unreasoned(d))
  BY CheckedKeeps
<1>3. /\ m \in Local /\ m.minimum = l.minimum
      /\ l = Start /\ ~LeavesTraces(c) => m = Start
  <2>1. m \in Local /\ m.minimum = l.minimum
    BY DEF Entered, Local, ChargeType
  <2>2. ASSUME l = Start, ~LeavesTraces(c) PROVE m = Start
    <3>1. c.billinfo # "none" /\ ~(c.amount < 0)
      BY <2>2 DEF LeavesTraces
    <3>2. m.reason = "none" /\ m.minimum = MinimumRefund
      BY <2>2 DEF Entered, Start, Local
    <3>3. m.billinfo = TRUE
      BY <2>2, <3>1 DEF Entered, Start, Local
    <3>4. m.refund = FALSE
      BY <2>2, <3>1 DEF Entered, Start, Local
    <3> QED
      BY <2>1, <3>2, <3>3, <3>4, SameLocal
  <2> QED
    BY <2>1, <2>2
<1> HIDE DEF d, m, enabled
<1>4. /\ Distributed(d) \in ChargeType /\ Distributed(d).amount = d.amount
  BY <1>2, DistributedKeeps
<1>5. ASSUME NEW marked
      PROVE  /\ LeftReason(d, m, enabled, marked) \in {"none", "other", "mbi", "freed"}
             /\ m = Start /\ Unreasoned(d) => LeftReason(d, m, enabled, marked) = "none"
  BY <1>2, <1>3 DEF LeftReason, Reads, Unreasoned, IsSuccess, Start, Local, ChargeType
<1>6. /\ t.local \in Local /\ t.local.minimum = m.minimum
      /\ m = Start /\ Unreasoned(d) => t.local = Start
  <2>1. PICK r \in {"none", "other", "mbi", "freed"} :
          /\ t.local = [m EXCEPT !.reason = r]
          /\ m = Start /\ Unreasoned(d) => r = "none"
    BY <1>1, <1>5
  <2>2. t.local \in Local /\ t.local.minimum = m.minimum
    BY <1>3, <2>1 DEF Local
  <2>3. ASSUME m = Start, Unreasoned(d) PROVE t.local = Start
    <3>1. /\ t.local.billinfo = m.billinfo /\ t.local.refund = m.refund
          /\ t.local.reason = "none"
      BY <1>3, <2>1, <2>3 DEF Local
    <3>2. m.billinfo = TRUE /\ m.refund = FALSE /\ m.minimum = MinimumRefund
      BY <2>3 DEF Start
    <3> QED
      BY <2>2, <3>1, <3>2, SameLocal
  <2> QED
    BY <2>2, <2>3
<1>7. t.charge \in ChargeType /\ t.charge.amount = c.amount
  BY <1>1, <1>2, <1>4
<1> QED
  BY <1>2, <1>3, <1>6, <1>7 DEF LeavesTraces

-----------------------------------------------------------------------------
\* A turn depends on the business parameters, and on nothing else that changes.
LEMMA SameParameters ==
  ASSUME parameters' = parameters
  PROVE  /\ \A c, l, first : Turn(c, l, first)' = Turn(c, l, first)
         /\ \A c, enabled : Invalid(c, enabled)' <=> Invalid(c, enabled)
<1>1. \A c : FailedPayment(c)' = FailedPayment(c)
  BY DEF FailedPayment, OriginalMissing, OriginalFound, Suspended
<1>2. \A c : ForSuspense(c)' = ForSuspense(c)
  BY DEF ForSuspense, WithBillinfo, Suspended
<1>3. \A c : FindBillByAmount(c)' = FindBillByAmount(c)
  BY DEF FindBillByAmount
<1>4. \A c : Checked(c)' = Checked(c)
  BY <1>1, <1>2, <1>3 DEF Checked
<1>5. \A c, l, first : Turn(c, l, first)' = Turn(c, l, first)
  BY <1>4 DEF Turn, SuspenseEnabled
<1>6. \A c, enabled : Invalid(c, enabled)' <=> Invalid(c, enabled)
  BY <1>1, <1>2 DEF Invalid
<1> QED
  BY <1>5, <1>6

LEMMA SameDecisions ==
  ASSUME parameters' = parameters, batch' = batch
  PROVE  /\ \A i : Turn(batch[i], Start, TRUE)' = Turn(batch[i], Start, TRUE)
         /\ \A i : Invalid(batch[i], parameters.suspense)' <=> Invalid(batch[i], parameters.suspense)
         /\ \A i : Undisturbed(i)' <=> Undisturbed(i)
<1>1. \A i : Turn(batch[i], Start, TRUE)' = Turn(batch[i], Start, TRUE)
  BY SameParameters, Zenon
<1>2. \A i : Invalid(batch[i], parameters.suspense)' <=> Invalid(batch[i], parameters.suspense)
  BY SameParameters, Zenon
<1>3. \A i : Undisturbed(i)' <=> Undisturbed(i)
  BY DEF Undisturbed
<1> QED
  BY <1>1, <1>2, <1>3

\* "first" makes no difference to a turn.
LEMMA EveryTurnIsFirst ==
  \A c, l, first : Turn(c, l, first) = Turn(c, l, TRUE)
BY DEF Turn, SuspenseEnabled

LEMMA Verdicts ==
  ASSUME NEW c, NEW minimum
  PROVE  VerdictOn(c, minimum)
           \in {"skipped", "select", "no_min", "checkpoint", "invalid", "no_credit", "ok"}
BY DEF VerdictOn, Verdict

\* A minimum that is negated where a payment leaves traces only.
LEMMA MinimumKept ==
  ASSUME NEW c \in ChargeType, NEW minimum \in Int
  PROVE  /\ MinimumFor(c, minimum) \in Int
         /\ ~(c.amount < 0) => MinimumFor(c, minimum) = minimum
BY DEF MinimumFor, ChargeType

IInv == TypeOK /\ LoopsStartAfresh /\ ChargesAreIndependent

LEMMA StartsAfresh ==
  ASSUME BatchInit
  PROVE  IInv
<1>1. PICK n \in 1 .. MaxBatch : batch \in [1 .. n -> Charge]
  BY DEF BatchInit
<1>2. batch \in Seq(ChargeType)
  <2>1. batch \in [1 .. n -> ChargeType] /\ n \in Nat
    BY <1>1, ChargeAssumption
  <2> QED
    BY <2>1
<1>3. Start \in Local /\ Start.minimum = MinimumRefund
  BY PreCollectAssumption DEF Start, Local
<1>4. TypeOK
  <2>1. /\ validated \in Seq(ChargeType) /\ local \in Local /\ error \in BOOLEAN
        /\ verdicts \in Seq({"skipped", "select", "no_min", "checkpoint", "invalid",
                             "no_credit", "ok"})
    <3>1. validated = <<>> /\ verdicts = <<>> /\ local = Start /\ error = FALSE
      BY DEF BatchInit
    <3>2. <<>> \in Seq(ChargeType)
      OBVIOUS
    <3>3. <<>> \in Seq({"skipped", "select", "no_min", "checkpoint", "invalid",
                       "no_credit", "ok"})
      OBVIOUS
    <3> QED
      BY <1>3, <3>1, <3>2, <3>3, Zenon
  <2>2. parameters \in [suspense : BOOLEAN, search : BOOLEAN]
    BY DEF BatchInit
  <2> QED
    BY <1>2, <2>1, <2>2, Zenon DEF TypeOK
<1>5. Len(validated) = 0 /\ Len(verdicts) = 0 /\ Len(batch) \in Nat
  BY <1>2 DEF BatchInit
<1>6. LoopsStartAfresh
  BY <1>3, <1>5 DEF BatchInit, LoopsStartAfresh
<1>7. ChargesAreIndependent
  BY <1>5 DEF BatchInit, ChargesAreIndependent
<1> QED
  BY <1>4, <1>6, <1>7 DEF IInv

\* A turn of VALIDATE_PAYMENT.
LEMMA ValidateChargeStep ==
  ASSUME IInv, ValidateCharge
  PROVE  IInv'
<1> DEFINE n == Len(validated) + 1
           c == batch[n]
<1>1. /\ TypeOK /\ batch' = batch /\ parameters' = parameters /\ verdicts' = verdicts
      /\ ~error /\ Len(validated) < Len(batch)
  BY DEF IInv, ValidateCharge
<1>2. /\ Len(validated) \in Nat /\ Len(batch) \in Nat /\ Len(verdicts) \in Nat
      /\ validated \in Seq(ChargeType) /\ DOMAIN validated = 1 .. Len(validated)
      /\ c \in ChargeType /\ local \in Local /\ n \in Nat
  BY <1>1 DEF TypeOK
<1>3. verdicts = <<>>
  <2>1. Len(verdicts) = 0 \/ Len(validated) = Len(batch)
    BY DEF IInv, LoopsStartAfresh
  <2> QED
    BY <1>1, <1>2, <2>1 DEF TypeOK
<1>4. CASE Invalid(c, parameters.suspense) /\ error' = TRUE /\ UNCHANGED <<validated, local>>
  <2>1. TypeOK'
    BY <1>1, <1>4 DEF TypeOK
  <2>2. LoopsStartAfresh'
    BY <1>1, <1>4 DEF IInv, LoopsStartAfresh, Undisturbed
  <2>3. ChargesAreIndependent'
    <3>1. \A i : Undisturbed(i)' <=> Undisturbed(i)
      BY <1>1 DEF Undisturbed
    <3> QED
      BY <1>1, <1>4, <3>1, SameDecisions DEF IInv, ChargesAreIndependent
  <2> QED
    BY <2>1, <2>2, <2>3 DEF IInv
<1>5. ASSUME NEW t \in Turn(c, local, validated = <<>>), ~Invalid(c, parameters.suspense),
             validated' = Append(validated, t.charge), local' = t.local, error' = error
      PROVE  IInv'
  <2>1. /\ t.charge \in ChargeType /\ t.charge.amount = c.amount
        /\ t.local \in Local /\ t.local.minimum = local.minimum
        /\ local = Start /\ ~LeavesTraces(c) => t.local = Start
    BY <1>1, <1>2, <1>5, TurnKeeps
  <2>2. /\ Len(validated') = n /\ validated'[n] = t.charge /\ DOMAIN validated' = 1 .. n
        /\ \A i \in 1 .. Len(validated) : validated'[i] = validated[i]
        /\ validated' \in Seq(ChargeType)
    BY <1>2, <1>5, <2>1
  <2>3. \A i : Undisturbed(i)' <=> Undisturbed(i)
    BY <1>1 DEF Undisturbed
  <2>4. /\ Undisturbed(n) => local = Start
        /\ Undisturbed(n + 1) => Undisturbed(n) /\ ~LeavesTraces(c)
    BY <1>2, <1>3 DEF IInv, LoopsStartAfresh, Undisturbed
  <2>5. TypeOK'
    BY <1>1, <1>5, <2>1, <2>2 DEF TypeOK
  <2>6. LoopsStartAfresh'
    <3>1. Undisturbed(n + 1) => local' = Start
      BY <1>5, <2>1, <2>4
    <3>2. Undisturbed(Len(verdicts) + 1) => local'.minimum = MinimumRefund
      BY <1>5, <2>1 DEF IInv, LoopsStartAfresh
    <3>3. \A i \in 1 .. Len(validated') : validated'[i].amount = batch'[i].amount
      BY <1>1, <1>2, <2>1, <2>2 DEF IInv, LoopsStartAfresh
    <3>4. Len(verdicts') <= Len(validated') /\ Len(validated') <= Len(batch')
      BY <1>1, <1>2, <1>3, <2>2
    <3> QED
      BY <1>1, <1>3, <2>2, <2>3, <3>1, <3>2, <3>3, <3>4 DEF LoopsStartAfresh
  <2>7. ChargesAreIndependent'
    <3>1. ASSUME NEW i \in 1 .. n, Undisturbed(i)
          PROVE  \E u \in Turn(batch[i], Start, TRUE) : u.charge = validated'[i]
      <4>1. CASE i = n
        <5>1. local = Start
          BY <2>4, <3>1, <4>1
        <5>2. t \in Turn(c, Start, TRUE)
          BY <1>5, <5>1, EveryTurnIsFirst
        <5> QED
          BY <2>2, <4>1, <5>2
      <4>2. CASE i # n
        <5>1. i \in DOMAIN validated /\ validated'[i] = validated[i]
          BY <1>2, <2>2, <4>2
        <5>2. \E u \in Turn(batch[i], Start, TRUE) : u.charge = validated[i]
          BY <3>1, <5>1, Zenon DEF IInv, ChargesAreIndependent
        <5> QED
          BY <5>1, <5>2, Zenon
      <4> QED
        BY <4>1, <4>2
    <3>2. \A i \in 1 .. n : ~Invalid(batch[i], parameters.suspense)
      BY <1>2, <1>5 DEF IInv, ChargesAreIndependent
    <3>3. DOMAIN verdicts' = {} /\ ~error'
      BY <1>1, <1>3, <1>5
    <3>4. \A i \in DOMAIN validated' :
            Undisturbed(i)' => \E u \in Turn(batch[i], Start, TRUE)' : u.charge = validated'[i]
      BY <1>1, <2>2, <3>1, SameDecisions, Zenon
    <3>5. \A i \in DOMAIN validated' : ~Invalid(batch[i], parameters.suspense)'
      BY <1>1, <2>2, <3>2, SameDecisions, Zenon
    <3> QED
      BY <3>3, <3>4, <3>5, Zenon DEF ChargesAreIndependent
  <2> QED
    BY <2>5, <2>6, <2>7 DEF IInv
<1>6. CASE Invalid(c, SuspenseEnabled(validated = <<>>))
  BY <1>4, <1>6 DEF ValidateCharge, SuspenseEnabled
<1>7. CASE ~Invalid(c, SuspenseEnabled(validated = <<>>))
  BY <1>5, <1>7 DEF ValidateCharge, SuspenseEnabled
<1> QED
  BY <1>6, <1>7

\* A turn of PRE_COLLECT.
LEMMA PreCollectChargeStep ==
  ASSUME IInv, PreCollectCharge
  PROVE  IInv'
<1> DEFINE n == Len(verdicts) + 1
           c == validated[n]
           v == VerdictOn(c, local.minimum)
<1>1. /\ TypeOK /\ batch' = batch /\ parameters' = parameters /\ validated' = validated
      /\ error' = error /\ ~error /\ Len(validated) = Len(batch) /\ Len(verdicts) < Len(batch)
      /\ verdicts' = Append(verdicts, v)
      /\ local' = [local EXCEPT !.minimum = MinimumFor(c, @)]
  BY DEF IInv, PreCollectCharge
<1>2. /\ Len(validated) \in Nat /\ Len(batch) \in Nat /\ Len(verdicts) \in Nat
      /\ c \in ChargeType /\ local \in Local /\ n \in Nat /\ local.minimum \in Int
  BY <1>1 DEF TypeOK, Local
<1>3. /\ local' \in Local /\ local'.minimum = MinimumFor(c, local.minimum)
  BY <1>1, <1>2, MinimumKept DEF Local
<1>4. /\ Len(verdicts') = n /\ verdicts'[n] = v /\ DOMAIN verdicts' = 1 .. n
      /\ \A i \in 1 .. Len(verdicts) : verdicts'[i] = verdicts[i]
      /\ DOMAIN verdicts = 1 .. Len(verdicts)
  BY <1>1 DEF TypeOK
<1>5. TypeOK'
  BY <1>1, <1>3, Verdicts DEF TypeOK
<1>6. /\ Undisturbed(n) => local.minimum = MinimumRefund
      /\ Undisturbed(n + 1) => Undisturbed(n) /\ ~LeavesTraces(batch[n])
  BY <1>2 DEF IInv, LoopsStartAfresh, Undisturbed
<1>7. c.amount = batch[n].amount
  BY <1>1, <1>2 DEF IInv, LoopsStartAfresh
<1>8. LoopsStartAfresh'
  <2>1. Undisturbed(n + 1) => local'.minimum = MinimumRefund
    BY <1>2, <1>3, <1>6, <1>7, MinimumKept DEF LeavesTraces
  <2>2. \A i : Undisturbed(i)' <=> Undisturbed(i)
    BY <1>1 DEF Undisturbed
  <2>3. verdicts' # <<>>
    BY <1>2, <1>4
  <2>4. Len(verdicts') <= Len(validated') /\ Len(validated') <= Len(batch')
    BY <1>1, <1>2, <1>4
  <2> QED
    BY <1>1, <1>4, <2>1, <2>2, <2>3, <2>4 DEF IInv, LoopsStartAfresh
<1>9. ChargesAreIndependent'
  <2>1. ASSUME NEW i \in 1 .. n, Undisturbed(i)
        PROVE  verdicts'[i] = VerdictOn(validated[i], MinimumRefund)
    <3>1. CASE i = n
      BY <1>4, <1>6, <2>1, <3>1
    <3>2. CASE i # n
      BY <1>2, <1>4, <2>1, <3>2 DEF IInv, ChargesAreIndependent
    <3> QED
      BY <3>1, <3>2
  <2>2. \A i : Undisturbed(i)' <=> Undisturbed(i)
    BY <1>1 DEF Undisturbed
  <2>3. \A x, y : VerdictOn(x, y)' = VerdictOn(x, y)
    OBVIOUS
  <2> QED
    BY <1>1, <1>4, <2>1, <2>2, SameDecisions DEF IInv, ChargesAreIndependent
<1> QED
  BY <1>5, <1>8, <1>9 DEF IInv

\* What is decided about a payment is what would be decided if it came alone,
\* as long as no payment before it leaves traces, in batches of any length.
THEOREM ChargesDecidedAlone == BatchSpec => []ChargesAreIndependent
<1>1. BatchInit => IInv
  BY StartsAfresh
<1>2. IInv /\ [BatchNext]_batchVars => IInv'
  <2> SUFFICES ASSUME IInv, [BatchNext]_batchVars PROVE IInv'
    OBVIOUS
  <2>1. CASE UNCHANGED batchVars
    <3>1. \A i : Undisturbed(i)' <=> Undisturbed(i)
      BY <2>1 DEF batchVars, Undisturbed
    <3> QED
      BY <2>1, <3>1, SameDecisions
         DEF batchVars, IInv, TypeOK, LoopsStartAfresh, ChargesAreIndependent
  <2> QED
    BY <2>1, ValidateChargeStep, PreCollectChargeStep DEF BatchNext
<1>3. IInv => ChargesAreIndependent
  BY DEF IInv
<1> QED
  BY <1>1, <1>2, <1>3, PTL DEF BatchSpec
=============================================================================
