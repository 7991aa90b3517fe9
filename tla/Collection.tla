----------------------------- MODULE Collection -----------------------------
(***************************************************************************)
(* Collecting what billinfos owe from a payment processor, and what the    *)
(* answers do to the account (fm_pymt_pol_pre_collect.c and                *)
(* fm_pymt_pol_collect.c).  The programs that run the collection, the      *)
(* opcode that writes a checkpoint before it calls the processor, and the  *)
(* processor are outside the repository; what they do here is what the two *)
(* policies are written for.                                               *)
(*                                                                         *)
(* A run dies at any time.  The charges it has not sent are forgotten;     *)
(* those that have a checkpoint are recovered, which takes them through    *)
(* the same policy.                                                        *)
(*                                                                         *)
(* Refunds are left out here: they pay out a credit balance, of which this *)
(* module has none, and what they are refused for is in PreCollect.        *)
(***************************************************************************)
EXTENDS PreCollect, FiniteSetsExt

CONSTANTS
  Account, Billinfo,
  AccountOf,   \* the account of each billinfo
  PayType, Run,
  Deferred,    \* commands whose charges may wait as DepositPending
  MaxBilled    \* bound of what the billinfos are billed

ASSUME CollectionAssumption ==
  /\ AccountOf \in [Billinfo -> Account]
  /\ PayType # {} /\ MaxBilled \in Nat

VARIABLES
  status, flags,    \* of each account
  contracted,       \* accounts with contracts, which are not inactivated for debt
  pending,          \* PIN_FLD_PENDING_RECV of each billinfo
  payType,          \* of each billinfo
  held,             \* authorized and not yet deposited
  charge,           \* what each run has to do with each billinfo
  billed, charged,  \* all that a billinfo was billed, and the customer paid
  missed,           \* accounts with a charge that a search did not find
  undeposited       \* accounts with a deposit that was declined

accountVars == <<status, flags>>
ghosts == <<missed, undeposited>>
vars == <<status, flags, contracted, pending, payType, held, charge, billed, charged,
          missed, undeposited>>

\* "unknown" stands for the results that COLLECT has no case for.
Answers == {"passed", "hard", "soft", "unknown"}

\* "ready" charges are in the memory of a run; from "sent" on, there is an event.
States == {"none", "ready", "sent"} \cup Answers

AuthPending == 888
DepositPending == 777

\* What the event of a charge that is not collected may have for a result.
PendingResults(command) ==
  {AuthPending} \cup (IF command \in Deferred THEN {DepositPending} ELSE {})

NoCharge == [state |-> "none", command |-> "condition", amount |-> 0,
             type |-> CHOOSE t \in PayType : TRUE, result |-> 0]

ChargeCommands == {"condition", "auth_only", "deposit"}

TypeOK ==
  /\ status \in [Account -> {"active", "inactive", "closed"}]
  /\ flags \in [Account -> SUBSET {"debt", "manual"}] /\ contracted \subseteq Account
  /\ pending \in [Billinfo -> Nat] /\ held \in [Billinfo -> Int]
  /\ billed \in [Billinfo -> Nat] /\ charged \in [Billinfo -> Nat]
  /\ payType \in [Billinfo -> PayType]
  /\ charge \in [Run -> [Billinfo -> [state : States, command : ChargeCommands,
                                      amount : Nat, type : PayType, result : Nat]]]
  /\ missed \subseteq Account /\ undeposited \subseteq Account

Init ==
  /\ status = [a \in Account |-> "active"] /\ flags = [a \in Account |-> {}]
  /\ contracted \in SUBSET Account
  /\ pending = [b \in Billinfo |-> 0] /\ held = [b \in Billinfo |-> 0]
  /\ billed = [b \in Billinfo |-> 0] /\ charged = [b \in Billinfo |-> 0]
  /\ payType \in [Billinfo -> PayType]
  /\ charge = [r \in Run |-> [b \in Billinfo |-> NoCharge]]
  /\ missed = {} /\ undeposited = {}

-----------------------------------------------------------------------------
(***************************************************************************)
(* The world around the collection.                                        *)
(***************************************************************************)

TotalBilled == MapThenSumSet(LAMBDA c : billed[c], Billinfo)

\* The billing run; an account with several billinfos gets a bill from each.
Bill(b) ==
  /\ TotalBilled < MaxBilled /\ status[AccountOf[b]] # "closed"
  /\ pending' = [pending EXCEPT ![b] = @ + 1]
  /\ billed' = [billed EXCEPT ![b] = @ + 1]
  /\ UNCHANGED <<accountVars, payType, held, charge, charged, ghosts>>

SetPayType(b) ==
  /\ \E t \in PayType \ {payType[b]} : payType' = [payType EXCEPT ![b] = t]
  /\ UNCHANGED <<accountVars, pending, held, charge, billed, charged, ghosts>>

\* PCM_OP_CUST_SET_STATUS of the base FM: an account is active again when the
\* last reason for its inactivity is gone.
Inactivated(a, flag) ==
  /\ status' = [status EXCEPT ![a] = "inactive"]
  /\ flags' = [flags EXCEPT ![a] = @ \cup {flag}]
Activated(a, flag) ==
  /\ flags' = [flags EXCEPT ![a] = @ \ {flag}]
  /\ status' = [status EXCEPT ![a] = IF flags[a] \subseteq {flag} THEN "active" ELSE @]

\* A person suspends the account, lets it go on, or closes it.
Operator(a) ==
  /\ status[a] # "closed"
  /\ \/ "manual" \notin flags[a] /\ Inactivated(a, "manual")
     \/ "manual" \in flags[a] /\ Activated(a, "manual")
     \/ status' = [status EXCEPT ![a] = "closed"] /\ UNCHANGED flags
  /\ UNCHANGED <<pending, payType, held, charge, billed, charged, ghosts>>

-----------------------------------------------------------------------------
(***************************************************************************)
(* A run of the collection.                                                *)
(***************************************************************************)

\* The charges of an account that other runs have, sent or not.
Others(r, a) ==
  {p \in (Run \ {r}) \X Billinfo : AccountOf[p[2]] = a /\ charge[p[1]][p[2]].state # "none"}

\* fm_pymt_pol_find_outstanding_chkpts: events with a result that is pending, but
\* for deposits, and of the pay type of the first charge only.
Outstanding(s, b, type) ==
  charge[s][b].result >= AuthPending /\ charge[s][b].type = type

\* Mutant of IsChkptOutstanding: nothing is found.
IsChkptOutstandingNever(r, a, type) == FALSE

\* Mutant of IsChkptOutstanding: an answered charge is not found.
IsChkptOutstandingUnanswered(r, a, type) ==
  \E p \in Others(r, a) :
    Outstanding(p[1], p[2], type) /\ charge[p[1]][p[2]].state \notin Answers

\* fm_pymt_pol_is_chkpt_outstanding
IsChkptOutstanding(r, a, type) ==
  \E p \in Others(r, a) : Outstanding(p[1], p[2], type)

\* What a charge is for: the whole pending amount, or a deposit of what was
\* authorized before.
Amount(b, command) == IF command = "deposit" THEN held[b] ELSE pending[b]

Sendable(r, b, command, type, searched) ==
  Verdict(command, Amount(b, command), MinimumRefund, TRUE, TRUE,
          searched /\ IsChkptOutstanding(r, AccountOf[b], type), TRUE) = "ok"

\* A run takes billinfos of one pay type and passes them to PRE_COLLECT, which
\* searches once, or not at all if the batch has PIN_PAYMENT_BATCH_CHKPTS set.
\* Charges it leaves out change nothing in COLLECT.
PreCollectBatch(r, batch, command) ==
  /\ \A b \in Billinfo : charge[r][b].state = "none"
  /\ \E t \in PayType, searched \in BOOLEAN :
       /\ \A b \in batch : payType[b] = t /\ Amount(b, command) > 0
       /\ LET sendable == {b \in batch : Sendable(r, b, command, t, searched)}
          IN /\ charge' = [charge EXCEPT ![r] = [b \in Billinfo |->
                  IF b \notin sendable THEN charge[r][b]
                  ELSE [state |-> "ready", command |-> command,
                        amount |-> Amount(b, command), type |-> t, result |-> 0]]]
             /\ missed' = missed \cup
                  {a \in Account :
                     /\ \E b \in sendable : AccountOf[b] = a
                     /\ \E p \in Others(r, a) : ~(searched /\ Outstanding(p[1], p[2], t))}
  /\ UNCHANGED <<accountVars, pending, payType, held, billed, charged, undeposited>>

\* PCM_OP_PYMT_CHARGE writes the event and calls the processor.
Send(r, b) ==
  /\ charge[r][b].state = "ready"
  /\ \E result \in PendingResults(charge[r][b].command) :
       charge' = [charge EXCEPT ![r][b] = [@ EXCEPT !.state = "sent", !.result = result]]
  /\ UNCHANGED <<accountVars, pending, payType, held, billed, charged, ghosts>>

\* The processor decides, whoever still waits for it.
Answer(r, b) ==
  /\ charge[r][b].state = "sent"
  /\ \E answer \in Answers :
       /\ charge' = [charge EXCEPT ![r][b].state = answer]
       /\ charged' = [charged EXCEPT ![b] =
            IF answer = "passed" /\ charge[r][b].command # "auth_only"
            THEN @ + charge[r][b].amount ELSE @]
  /\ UNCHANGED <<accountVars, pending, payType, held, billed, ghosts>>

Crash(r) ==
  /\ \E b \in Billinfo : charge[r][b].state = "ready"
  /\ charge' = [charge EXCEPT ![r] = [b \in Billinfo |->
       IF charge[r][b].state = "ready" THEN NoCharge ELSE charge[r][b]]]
  /\ UNCHANGED <<accountVars, pending, payType, held, billed, charged, ghosts>>

-----------------------------------------------------------------------------
(***************************************************************************)
(* PCM_OP_PYMT_POL_COLLECT on an answered charge, with the activities that *)
(* its caller executes in the same transaction.                            *)
(***************************************************************************)

\* Mutant of Cleared: an answered charge clears all that is pending.
ClearedAll(b, amount) == pending[b]

Cleared(b, amount) == IF amount >= pending[b] THEN pending[b] ELSE amount

\* Mutant of PaysOff: the amount must be more than what is pending.
PaysOffMore(b, amount) == amount > pending[b]

PaysOff(b, amount) == amount >= pending[b]

\* fm_pymt_pol_collect_result_pass
ResultPass(r, b) ==
  LET a == AccountOf[b]
      c == charge[r][b]
  IN /\ c.state = "passed"
     /\ \/ /\ c.command # "deposit"
           /\ pending' = [pending EXCEPT ![b] = @ - Cleared(b, c.amount)]
           /\ IF PaysOff(b, c.amount) /\ status[a] = "inactive" /\ "debt" \in flags[a]
              THEN Activated(a, "debt") ELSE UNCHANGED accountVars
        \/ c.command = "deposit" /\ UNCHANGED <<accountVars, pending>>
     /\ held' = [held EXCEPT ![b] = CASE c.command = "auth_only" -> @ + c.amount
                                      [] c.command = "deposit" -> @ - c.amount
                                      [] OTHER -> @]
     /\ UNCHANGED undeposited

\* "INACTIVE" without the debt flag falls through to "ACTIVE".
InactivateForDebt(a) ==
  IF a \notin contracted
     /\ (status[a] = "active" \/ (status[a] = "inactive" /\ "debt" \notin flags[a]))
  THEN Inactivated(a, "debt")
  ELSE UNCHANGED accountVars

\* Some item of the account is from before its last bill and still open.
MayHaveOldItems(a) == \E b \in Billinfo : AccountOf[b] = a /\ charged[b] < billed[b]

\* fm_pymt_pol_collect_result_hard and _soft
Declined(r, b) ==
  LET a == AccountOf[b]
  IN /\ \/ charge[r][b].state = "hard" /\ InactivateForDebt(a)
        \/ charge[r][b].state = "soft" /\ MayHaveOldItems(a) /\ InactivateForDebt(a)
        \/ charge[r][b].state = "soft" /\ UNCHANGED accountVars
     /\ undeposited' = IF charge[r][b].command = "deposit" THEN undeposited \cup {a}
                       ELSE undeposited
     /\ UNCHANGED <<pending, held>>

\* COLLECT ends in an error and does nothing to the account.
Unknown(r, b) ==
  /\ charge[r][b].state = "unknown"
  /\ UNCHANGED <<accountVars, pending, held, undeposited>>

\* The run, or the recovery after its death, collects the answer.
Collect(r, b) ==
  /\ ResultPass(r, b) \/ Declined(r, b) \/ Unknown(r, b)
  /\ charge' = [charge EXCEPT ![r][b] = NoCharge]
  /\ UNCHANGED <<payType, billed, charged, missed>>

-----------------------------------------------------------------------------
Next ==
  /\ \/ \E b \in Billinfo : Bill(b) \/ SetPayType(b)
     \/ \E a \in Account : Operator(a)
     \/ \E r \in Run :
          \/ \E batch \in SUBSET Billinfo, command \in ChargeCommands :
               batch # {} /\ PreCollectBatch(r, batch, command)
          \/ Crash(r)
          \/ \E b \in Billinfo : Send(r, b) \/ Answer(r, b) \/ Collect(r, b)
  /\ UNCHANGED contracted

Spec == Init /\ [][Next]_vars

-----------------------------------------------------------------------------
\* Billinfos of accounts whose charges every run has found before it charged them.
Found == {b \in Billinfo : AccountOf[b] \notin missed}

\* The processor has taken the money and the database does not know.
Taken(r, b) == charge[r][b].state = "passed" /\ charge[r][b].command # "auth_only"

\* No two runs have charges of one account at a time.
OneRunPerAccount ==
  \A r, s \in Run, b, c \in Billinfo :
    /\ b \in Found /\ AccountOf[b] = AccountOf[c]
    /\ charge[r][b].state # "none" /\ charge[s][c].state # "none"
    => r = s

\* A charge is for something, and for no more than what it was computed from.
ChargesAreCovered ==
  /\ \A b \in Found : held[b] >= 0
  /\ \A r \in Run, b \in Found :
       charge[r][b].state # "none" =>
         /\ charge[r][b].amount > 0
         /\ charge[r][b].amount <= Amount(b, charge[r][b].command)

\* What was billed is pending, authorized or paid; what is paid and not yet
\* collected is counted twice.
Balanced ==
  \A b \in Found :
    /\ \A r \in Run : Taken(r, b) =>
         billed[b] + charge[r][b].amount = pending[b] + held[b] + charged[b]
    /\ (\A r \in Run : ~Taken(r, b)) => billed[b] = pending[b] + held[b] + charged[b]

\* The account is inactive for debt, and no deposit was declined that would
\* not lift this when it succeeds.
Debtor(a) ==
  status[a] = "inactive" /\ "debt" \in flags[a] /\ a \notin missed \cup undeposited

\* Why debtors owe: what is pending is what inactivated the account, and the
\* charge that clears it reactivates the account.
DebtIsPending ==
  \A a \in Account :
    /\ status[a] = "active" => flags[a] = {}
    /\ Debtor(a) => \E b \in Billinfo : AccountOf[b] = a /\ pending[b] > 0

CollectionInv ==
  TypeOK /\ OneRunPerAccount /\ ChargesAreCovered /\ Balanced /\ DebtIsPending

\* Through crashes and late answers, a customer never pays more than was
\* billed: unless two runs have searched before either had sent the charge, the
\* pay type was changed while a charge was outstanding, the charge was waiting
\* with a result of PIN_CHARGE_RES_DEPOSIT_PENDING, or the batch came with
\* PIN_PAYMENT_BATCH_CHKPTS and its caller had not searched for the charge.
ChargedOnce == \A b \in Found : charged[b] <= billed[b]

\* An account is inactive for debt only while it has not paid all its bills.
DebtorsOwe ==
  \A a \in Account :
    Debtor(a) =>
      \E b \in Billinfo :
        /\ AccountOf[b] = a
        /\ charged[b] < billed[b] \/ \E r \in Run : Taken(r, b)

-----------------------------------------------------------------------------
(***************************************************************************)
(* The ledger that the collection keeps, as a refinement.                  *)
(***************************************************************************)

\* What a charge with the given command has brought for a billinfo that COLLECT
\* has not entered yet.
InFlight(b, command) ==
  LET passed == {r \in Run : charge[r][b].state = "passed" /\ charge[r][b].command = command}
  IN IF passed = {} THEN 0 ELSE charge[CHOOSE r \in passed : TRUE][b].amount

OwedNow == [b \in Found |-> pending[b] - InFlight(b, "condition")]
ReservedNow == [b \in Found |-> held[b] - InFlight(b, "deposit")]
PaidNow == [b \in Found |-> charged[b]]

L == INSTANCE Ledger WITH owed <- OwedNow, reserved <- ReservedNow, paid <- PaidNow

\* Every step of the collection is one of a ledger that knows no runs, or is
\* none of its business: no answer is taken twice or for more than is owed, no
\* death of a run loses what was paid, and nothing is written off.
ImplementsLedger == L!LedgerSpec
=============================================================================
