-------------------------- MODULE CollectionProofs --------------------------
(***************************************************************************)
(* Theorems about Collection, for all sets of accounts, billinfos, runs    *)
(* and pay types.                                                          *)
(***************************************************************************)
EXTENDS Collection, TLAPS

ChargeType ==
  [state : States, command : ChargeCommands, amount : Nat, type : PayType, result : Nat]

USE DEF accountVars, ghosts

\* Accounts, pay types and what has no charge.
LEMMA Constants ==
  /\ \A b \in Billinfo : AccountOf[b] \in Account
  /\ NoCharge \in ChargeType /\ NoCharge.state = "none"
<1>1. \A b \in Billinfo : AccountOf[b] \in Account
  BY CollectionAssumption
<1>2. (CHOOSE t \in PayType : TRUE) \in PayType
  BY CollectionAssumption
<1>3. NoCharge \in ChargeType /\ NoCharge.state = "none"
  BY <1>2 DEF NoCharge, ChargeType, States, Answers, ChargeCommands
<1> QED
  BY <1>1, <1>3

\* The types of the parts of the state, one by one.
LEMMA Typed ==
  ASSUME TypeOK
  PROVE  /\ charge \in [Run -> [Billinfo -> ChargeType]]
         /\ \A r \in Run, b \in Billinfo :
              /\ charge[r][b] \in ChargeType
              /\ charge[r][b].state \in States /\ charge[r][b].command \in ChargeCommands
              /\ charge[r][b].amount \in Nat
         /\ \A b \in Billinfo :
              /\ pending[b] \in Nat /\ held[b] \in Int
              /\ billed[b] \in Nat /\ charged[b] \in Nat
              /\ \A c \in ChargeCommands : Amount(b, c) \in Int
<1>1. charge \in [Run -> [Billinfo -> ChargeType]]
  BY DEF TypeOK, ChargeType
<1>2. \A r \in Run, b \in Billinfo :
        /\ charge[r][b] \in ChargeType
        /\ charge[r][b].state \in States /\ charge[r][b].command \in ChargeCommands
        /\ charge[r][b].amount \in Nat
  BY <1>1 DEF ChargeType
<1>3. \A b \in Billinfo :
        /\ pending[b] \in Nat /\ held[b] \in Int
        /\ billed[b] \in Nat /\ charged[b] \in Nat
  BY DEF TypeOK
<1> QED
  BY <1>1, <1>2, <1>3 DEF Amount

-----------------------------------------------------------------------------
\* One more on both sides.
LEMMA OneMore ==
  ASSUME NEW x \in Int, NEW y \in Int, NEW p \in Int, NEW h \in Int, NEW c \in Int,
         x + y = p + h + c
  PROVE  (x + 1) + y = (p + 1) + h + c
OBVIOUS

\* A bill adds as much to what is billed as to what is pending.
LEMMA BillStep ==
  ASSUME CollectionInv, NEW b \in Billinfo, Bill(b), UNCHANGED contracted
  PROVE  CollectionInv'
<1>1. TypeOK
  BY DEF CollectionInv
<1>2. \A d \in Billinfo :
        /\ pending'[d] = IF d = b THEN pending[d] + 1 ELSE pending[d]
        /\ billed'[d] = IF d = b THEN billed[d] + 1 ELSE billed[d]
  BY <1>1 DEF Bill, TypeOK
<1>3. TypeOK'
  BY <1>1 DEF Bill, TypeOK
<1>4. OneRunPerAccount'
  BY DEF Bill, CollectionInv, OneRunPerAccount, Found
<1>5. ChargesAreCovered'
  <2>1. \A d \in Billinfo, c \in ChargeCommands :
          Amount(d, c) <= Amount(d, c)' /\ Amount(d, c)' \in Int
    BY <1>1, <1>2, Typed DEF Amount, Bill
  <2> QED
    BY <1>1, <2>1, Typed DEF Bill, CollectionInv, ChargesAreCovered, Found
<1>6. Balanced'
  <2>1. Found' = Found /\ charge' = charge /\ held' = held /\ charged' = charged
    BY DEF Bill, Found
  <2>2. \A r \in Run, d \in Billinfo : Taken(r, d)' <=> Taken(r, d)
    BY <2>1 DEF Taken
  <2>3. ASSUME NEW d \in Found
        PROVE  /\ \A r \in Run : Taken(r, d) =>
                    billed'[d] + charge[r][d].amount = pending'[d] + held[d] + charged[d]
               /\ (\A r \in Run : ~Taken(r, d)) => billed'[d] = pending'[d] + held[d] + charged[d]
    <3>1. /\ d \in Billinfo
          /\ \A r \in Run : Taken(r, d) =>
               billed[d] + charge[r][d].amount = pending[d] + held[d] + charged[d]
          /\ (\A r \in Run : ~Taken(r, d)) => billed[d] = pending[d] + held[d] + charged[d]
      BY DEF CollectionInv, Balanced, Found
    <3>2. /\ pending[d] \in Int /\ held[d] \in Int /\ billed[d] \in Int /\ charged[d] \in Int
          /\ \A r \in Run : charge[r][d].amount \in Int
      BY <1>1, <3>1, Typed
    <3>3. \/ pending'[d] = pending[d] + 1 /\ billed'[d] = billed[d] + 1
          \/ pending'[d] = pending[d] /\ billed'[d] = billed[d]
      BY <1>2, <3>1
    <3>4. ASSUME NEW r \in Run, Taken(r, d)
          PROVE  billed'[d] + charge[r][d].amount = pending'[d] + held[d] + charged[d]
      <4>1. billed[d] + charge[r][d].amount = pending[d] + held[d] + charged[d]
        BY <3>1, <3>4
      <4>2. charge[r][d].amount \in Int
        BY <3>2
      <4> QED
        BY <3>2, <3>3, <4>1, <4>2, OneMore
    <3>5. ASSUME \A r \in Run : ~Taken(r, d)
          PROVE  billed'[d] = pending'[d] + held[d] + charged[d]
      BY <3>1, <3>2, <3>3, <3>5
    <3> QED
      BY <3>4, <3>5
  <2> QED
    BY <2>1, <2>2, <2>3 DEF Balanced, Found
<1>7. DebtIsPending'
  BY <1>1, <1>2, Typed DEF Bill, CollectionInv, DebtIsPending, Debtor
<1> QED
  BY <1>3, <1>4, <1>5, <1>6, <1>7 DEF CollectionInv

\* The pay type matters to later searches only.
LEMMA SetPayTypeStep ==
  ASSUME CollectionInv, NEW b \in Billinfo, SetPayType(b), UNCHANGED contracted
  PROVE  CollectionInv'
<1>1. TypeOK'
  BY DEF SetPayType, CollectionInv, TypeOK
<1> QED
  BY <1>1 DEF SetPayType, CollectionInv, OneRunPerAccount, ChargesAreCovered, Balanced,
              DebtIsPending, Debtor, Found, Taken, Amount

\* What an operator does makes nobody a debtor.
LEMMA OperatorStep ==
  ASSUME CollectionInv, NEW a \in Account, Operator(a), UNCHANGED contracted
  PROVE  CollectionInv'
<1>1. TypeOK
  BY DEF CollectionInv
<1>2. TypeOK'
  <2>1. /\ status \in [Account -> {"active", "inactive", "closed"}]
        /\ flags \in [Account -> SUBSET {"debt", "manual"}]
    BY <1>1 DEF TypeOK
  <2>2. CASE Inactivated(a, "manual")
    BY <1>1, <2>1, <2>2 DEF Operator, TypeOK, Inactivated
  <2>3. CASE Activated(a, "manual")
    BY <1>1, <2>1, <2>3 DEF Operator, TypeOK, Activated
  <2>4. CASE status' = [status EXCEPT ![a] = "closed"] /\ UNCHANGED flags
    BY <1>1, <2>1, <2>4 DEF Operator, TypeOK
  <2> QED
    BY <2>2, <2>3, <2>4 DEF Operator
<1>3. \A x \in Account :
        /\ status'[x] = "active" => flags'[x] = {}
        /\ Debtor(x)' => Debtor(x)
  <2>1. \A x \in Account : x # a => status'[x] = status[x] /\ flags'[x] = flags[x]
    BY <1>1 DEF Operator, TypeOK, Inactivated, Activated
  <2>2. status[a] = "active" => flags[a] = {}
    BY DEF CollectionInv, DebtIsPending
  <2>3. CASE Inactivated(a, "manual")
    BY <1>1, <2>1, <2>2, <2>3
       DEF Operator, TypeOK, Inactivated, CollectionInv, DebtIsPending, Debtor
  <2>4. CASE Activated(a, "manual")
    BY <1>1, <2>1, <2>2, <2>4
       DEF Operator, TypeOK, Activated, CollectionInv, DebtIsPending, Debtor
  <2>5. CASE status' = [status EXCEPT ![a] = "closed"] /\ UNCHANGED flags
    BY <1>1, <2>1, <2>2, <2>5
       DEF Operator, TypeOK, CollectionInv, DebtIsPending, Debtor
  <2> QED
    BY <2>3, <2>4, <2>5 DEF Operator
<1>4. DebtIsPending'
  BY <1>3 DEF Operator, CollectionInv, DebtIsPending
<1> QED
  BY <1>2, <1>4 DEF Operator, CollectionInv, OneRunPerAccount, ChargesAreCovered, Balanced,
                    Found, Taken, Amount

-----------------------------------------------------------------------------
\* A search that sees every charge of the account lets a new one pass only when
\* there is no other.
LEMMA SendableAlone ==
  ASSUME NEW r \in Run, NEW b \in Billinfo, NEW command \in ChargeCommands, NEW t \in PayType,
         NEW searched \in BOOLEAN, Sendable(r, b, command, t, searched),
         \A p \in Others(r, AccountOf[b]) : searched /\ Outstanding(p[1], p[2], t)
  PROVE  \A s \in Run \ {r}, d \in Billinfo :
           AccountOf[d] = AccountOf[b] => charge[s][d].state = "none"
<1>1. ~(searched /\ IsChkptOutstanding(r, AccountOf[b], t))
  BY DEF Sendable, Verdict, Online, ChargeCommands
<1>2. Others(r, AccountOf[b]) = {}
  BY <1>1 DEF IsChkptOutstanding
<1> QED
  <2>1. ASSUME NEW s \in Run \ {r}, NEW d \in Billinfo,
               AccountOf[d] = AccountOf[b], charge[s][d].state # "none"
        PROVE  FALSE
    <3>1. <<s, d>> \in Others(r, AccountOf[b])
      BY <2>1 DEF Others
    <3> QED
      BY <1>2, <3>1
  <2> QED
    BY <2>1

\* What a batch leaves behind: charges of the amounts there are.
LEMMA PreCollectEffect ==
  ASSUME CollectionInv, NEW r \in Run, NEW batch \in SUBSET Billinfo,
         NEW command \in ChargeCommands, PreCollectBatch(r, batch, command)
  PROVE  /\ charge' \in [Run -> [Billinfo -> ChargeType]]
         /\ missed \subseteq missed' /\ missed' \subseteq Account
         /\ \A s \in Run \ {r} : charge'[s] = charge[s]
         /\ \A d \in Billinfo :
              \/ charge'[r][d].state = "none"
              \/ /\ charge'[r][d].state = "ready"
                 /\ charge'[r][d].command \in ChargeCommands
                 /\ charge'[r][d].amount = Amount(d, charge'[r][d].command)
                 /\ charge'[r][d].amount > 0
                 /\ AccountOf[d] \notin missed' =>
                      \A s \in Run \ {r}, e \in Billinfo :
                        AccountOf[e] = AccountOf[d] => charge[s][e].state = "none"
<1>1. TypeOK
  BY DEF CollectionInv
<1>2. PICK t \in PayType, searched \in BOOLEAN :
        /\ \A b \in batch : payType[b] = t /\ Amount(b, command) > 0
        /\ LET sendable == {b \in batch : Sendable(r, b, command, t, searched)}
           IN /\ charge' = [charge EXCEPT ![r] = [b \in Billinfo |->
                   IF b \notin sendable THEN charge[r][b]
                   ELSE [state |-> "ready", command |-> command,
                         amount |-> Amount(b, command), type |-> t, result |-> 0]]]
              /\ missed' = missed \cup
                   {a \in Account :
                      /\ \E b \in sendable : AccountOf[b] = a
                      /\ \E p \in Others(r, a) : ~(searched /\ Outstanding(p[1], p[2], t))}
  BY DEF PreCollectBatch
<1> DEFINE sendable == {b \in batch : Sendable(r, b, command, t, searched)}
           New(b) == [state |-> "ready", command |-> command,
                      amount |-> Amount(b, command), type |-> t, result |-> 0]
           Mine == [b \in Billinfo |-> IF b \notin sendable THEN charge[r][b] ELSE New(b)]
<1>3. charge' = [charge EXCEPT ![r] = Mine]
  BY <1>2
<1>4. /\ missed' = missed \cup {a \in Account :
            /\ \E b \in sendable : AccountOf[b] = a
            /\ \E p \in Others(r, a) : ~(searched /\ Outstanding(p[1], p[2], t))}
  BY <1>2
<1>5. \A b \in sendable : New(b) \in ChargeType
  <2>1. \A b \in sendable : Amount(b, command) \in Nat
    BY <1>1, <1>2, Typed
  <2> QED
    BY <2>1 DEF ChargeType, States
<1>6. Mine \in [Billinfo -> ChargeType]
  BY <1>1, <1>5, Typed
<1>7. charge' \in [Run -> [Billinfo -> ChargeType]]
  BY <1>1, <1>3, <1>6, Typed
<1>8. \A s \in Run \ {r} : charge'[s] = charge[s]
  BY <1>1, <1>3, Typed
<1>9. charge'[r] = Mine
  BY <1>1, <1>3, Typed
<1>10. missed \subseteq missed' /\ missed' \subseteq Account
  BY <1>1, <1>4 DEF TypeOK
<1>11. ASSUME NEW d \in Billinfo
       PROVE  \/ charge'[r][d].state = "none"
              \/ /\ charge'[r][d].state = "ready"
                 /\ charge'[r][d].command \in ChargeCommands
                 /\ charge'[r][d].amount = Amount(d, charge'[r][d].command)
                 /\ charge'[r][d].amount > 0
                 /\ AccountOf[d] \notin missed' =>
                      \A s \in Run \ {r}, e \in Billinfo :
                        AccountOf[e] = AccountOf[d] => charge[s][e].state = "none"
  <2>1. CASE d \notin sendable
    BY <1>9, <2>1 DEF PreCollectBatch
  <2>2. CASE d \in sendable
    <3>1. charge'[r][d] = New(d)
      BY <1>9, <2>2
    <3>2. Amount(d, command) > 0 /\ Sendable(r, d, command, t, searched)
      BY <1>2, <2>2
    <3>3. ASSUME AccountOf[d] \notin missed'
          PROVE  \A p \in Others(r, AccountOf[d]) : searched /\ Outstanding(p[1], p[2], t)
      BY <1>4, <2>2, <3>3, Constants
    <3>4. AccountOf[d] \notin missed' =>
            \A s \in Run \ {r}, e \in Billinfo :
              AccountOf[e] = AccountOf[d] => charge[s][e].state = "none"
      BY <3>2, <3>3, SendableAlone
    <3> QED
      BY <3>1, <3>2, <3>4
  <2> QED
    BY <2>1, <2>2
<1> QED
  BY <1>7, <1>8, <1>10, <1>11

\* A batch breaks no rule: its charges are alone, and for what there is.
LEMMA PreCollectStep ==
  ASSUME CollectionInv, NEW r \in Run, NEW batch \in SUBSET Billinfo,
         NEW command \in ChargeCommands, PreCollectBatch(r, batch, command),
         UNCHANGED contracted
  PROVE  CollectionInv'
<1>1. /\ charge' \in [Run -> [Billinfo -> ChargeType]]
      /\ missed \subseteq missed' /\ missed' \subseteq Account
      /\ \A s \in Run \ {r} : charge'[s] = charge[s]
  BY PreCollectEffect
<1>2. \A d \in Billinfo :
        \/ charge'[r][d].state = "none"
        \/ /\ charge'[r][d].state = "ready"
           /\ charge'[r][d].command \in ChargeCommands
           /\ charge'[r][d].amount = Amount(d, charge'[r][d].command)
           /\ charge'[r][d].amount > 0
           /\ AccountOf[d] \notin missed' =>
                \A s \in Run \ {r}, e \in Billinfo :
                  AccountOf[e] = AccountOf[d] => charge[s][e].state = "none"
  BY PreCollectEffect
<1>3. UNCHANGED <<status, flags, pending, payType, held, billed, charged, undeposited>>
  BY DEF PreCollectBatch
<1>4. TypeOK'
  BY <1>1, <1>3 DEF CollectionInv, TypeOK, ChargeType
<1>5. Found' \subseteq Found
  BY <1>1 DEF Found
<1>6. OneRunPerAccount'
  <2>1. ASSUME NEW s \in Run, NEW q \in Run, NEW d \in Billinfo, NEW e \in Billinfo,
               d \in Found', AccountOf[d] = AccountOf[e],
               charge'[s][d].state # "none", charge'[q][e].state # "none", s # q
        PROVE  FALSE
    <3>0. d \in Found /\ AccountOf[d] \notin missed' /\ AccountOf[e] \notin missed'
      BY <1>5, <2>1 DEF Found
    <3>1. CASE s = r
      BY <1>1, <1>2, <2>1, <3>0, <3>1
    <3>2. CASE q = r
      BY <1>1, <1>2, <2>1, <3>0, <3>2
    <3>3. CASE s # r /\ q # r
      BY <1>1, <2>1, <3>0, <3>3 DEF CollectionInv, OneRunPerAccount
    <3> QED
      BY <3>1, <3>2, <3>3
  <2> QED
    BY <2>1 DEF OneRunPerAccount
<1>7. ChargesAreCovered'
  <2>1. \A d \in Found' : held'[d] >= 0
    BY <1>3, <1>5 DEF CollectionInv, ChargesAreCovered
  <2>2. ASSUME NEW s \in Run, NEW d \in Found', charge'[s][d].state # "none"
        PROVE  (/\ charge[s][d].amount > 0
                /\ charge[s][d].amount <= Amount(d, charge[s][d].command))'
    <3>1. d \in Billinfo /\ d \in Found
      BY <1>5 DEF Found
    <3>2. CASE s = r
      <4>1. charge'[s][d].amount = Amount(d, charge'[s][d].command) /\ charge'[s][d].amount > 0
        BY <1>2, <2>2, <3>1, <3>2
      <4>2. charge'[s][d].amount \in Nat /\ charge'[s][d].command \in ChargeCommands
        BY <1>1, <3>1 DEF ChargeType
      <4> QED
        BY <1>3, <4>1, <4>2 DEF Amount
    <3>3. CASE s # r
      <4>1. charge'[s] = charge[s]
        BY <1>1, <3>3
      <4>2. /\ charge[s][d].amount > 0
            /\ charge[s][d].amount <= Amount(d, charge[s][d].command)
        BY <2>2, <3>1, <4>1 DEF CollectionInv, ChargesAreCovered
      <4> QED
        BY <1>3, <4>1, <4>2 DEF Amount
    <3> QED
      BY <3>2, <3>3
  <2> QED
    BY <2>1, <2>2 DEF ChargesAreCovered
<1>8. Balanced'
  <2>1. \A s \in Run, d \in Billinfo :
          /\ Taken(s, d)' <=> Taken(s, d)
          /\ Taken(s, d)' => charge'[s][d] = charge[s][d]
    <3>1. \A d \in Billinfo : charge[r][d].state = "none"
      BY DEF PreCollectBatch
    <3> QED
      BY <1>1, <1>2, <3>1 DEF Taken
  <2> QED
    BY <1>3, <1>5, <2>1 DEF CollectionInv, Balanced, Found
<1>9. DebtIsPending'
  BY <1>1, <1>3 DEF CollectionInv, DebtIsPending, Debtor
<1> QED
  BY <1>4, <1>6, <1>7, <1>8, <1>9 DEF CollectionInv

-----------------------------------------------------------------------------
\* A step that moves no money and starts no charge.
LEMMA OnlyStates ==
  ASSUME CollectionInv, UNCHANGED <<pending, held, billed, charged, missed>>,
         \A s \in Run, d \in Billinfo :
           /\ \/ charge'[s][d].state = "none"
              \/ /\ charge[s][d].state # "none"
                 /\ charge'[s][d].command = charge[s][d].command
                 /\ charge'[s][d].amount = charge[s][d].amount
           /\ Taken(s, d)' <=> Taken(s, d)
  PROVE  OneRunPerAccount' /\ ChargesAreCovered' /\ Balanced'
<1>1. Found' = Found /\ Found \subseteq Billinfo
  BY DEF Found
<1>2. OneRunPerAccount'
  BY <1>1 DEF CollectionInv, OneRunPerAccount
<1>3. ChargesAreCovered'
  BY <1>1 DEF CollectionInv, ChargesAreCovered, Amount
<1>4. \A s \in Run, d \in Billinfo : Taken(s, d) => charge'[s][d].amount = charge[s][d].amount
  BY DEF Taken
<1>5. Balanced'
  BY <1>1, <1>4 DEF CollectionInv, Balanced
<1> QED
  BY <1>2, <1>3, <1>5

\* Sending a charge.
LEMMA SendStep ==
  ASSUME CollectionInv, NEW r \in Run, NEW b \in Billinfo, Send(r, b), UNCHANGED contracted
  PROVE  CollectionInv'
<1>1. charge \in [Run -> [Billinfo -> ChargeType]]
  BY Typed DEF CollectionInv
<1>a. PICK result \in PendingResults(charge[r][b].command) :
        charge' = [charge EXCEPT ![r][b] = [@ EXCEPT !.state = "sent", !.result = result]]
  BY DEF Send
<1>2. charge' \in [Run -> [Billinfo -> ChargeType]]
  <2> DEFINE c == charge[r][b]
             sent == [c EXCEPT !.state = "sent", !.result = result]
  <2>1. result \in Nat
    BY DEF PendingResults, AuthPending, DepositPending
  <2>2. sent \in ChargeType
    <3>1. c \in ChargeType
      BY <1>1
    <3>2. \A x \in ChargeType, n \in Nat :
            [x EXCEPT !.state = "sent", !.result = n] \in ChargeType
      BY DEF ChargeType, States
    <3> QED
      BY <2>1, <3>1, <3>2
  <2>3. [charge[r] EXCEPT ![b] = sent] \in [Billinfo -> ChargeType]
    BY <1>1, <2>2
  <2>4. charge' = [charge EXCEPT ![r] = [charge[r] EXCEPT ![b] = sent]]
    BY <1>a
  <2> QED
    BY <1>1, <2>3, <2>4
<1>3. \A s \in Run, d \in Billinfo :
        IF s = r /\ d = b
        THEN /\ charge'[s][d].state = "sent"
             /\ charge'[s][d].command = charge[s][d].command
             /\ charge'[s][d].amount = charge[s][d].amount
        ELSE charge'[s][d] = charge[s][d]
  BY <1>1, <1>a DEF ChargeType
<1>4. charge[r][b].state = "ready"
  BY DEF Send
<1>5. \A s \in Run, d \in Billinfo : Taken(s, d)' <=> Taken(s, d)
  BY <1>3, <1>4 DEF Taken
<1>6. OneRunPerAccount' /\ ChargesAreCovered' /\ Balanced'
  BY <1>3, <1>4, <1>5, OnlyStates DEF Send
<1>7. TypeOK'
  BY <1>2 DEF Send, CollectionInv, TypeOK, ChargeType
<1> QED
  BY <1>6, <1>7 DEF Send, CollectionInv, DebtIsPending, Debtor

\* The death of a run.
LEMMA CrashStep ==
  ASSUME CollectionInv, NEW r \in Run, Crash(r), UNCHANGED contracted
  PROVE  CollectionInv'
<1>1. charge \in [Run -> [Billinfo -> ChargeType]]
  BY Typed DEF CollectionInv
<1> DEFINE Left == [b \in Billinfo |->
                     IF charge[r][b].state = "ready" THEN NoCharge ELSE charge[r][b]]
<1>2. charge' = [charge EXCEPT ![r] = Left]
  BY DEF Crash
<1>3. Left \in [Billinfo -> ChargeType]
  BY <1>1, Constants
<1>4. charge' \in [Run -> [Billinfo -> ChargeType]]
  BY <1>1, <1>2, <1>3
<1>5. \A s \in Run, d \in Billinfo :
        IF s = r /\ charge[s][d].state = "ready" THEN charge'[s][d].state = "none"
        ELSE charge'[s][d] = charge[s][d]
  BY <1>1, <1>2, Constants
<1>6. \A s \in Run, d \in Billinfo : Taken(s, d)' <=> Taken(s, d)
  BY <1>5 DEF Taken
<1>7. OneRunPerAccount' /\ ChargesAreCovered' /\ Balanced'
  BY <1>5, <1>6, OnlyStates DEF Crash
<1>8. TypeOK'
  BY <1>4 DEF Crash, CollectionInv, TypeOK, ChargeType
<1> QED
  BY <1>7, <1>8 DEF Crash, CollectionInv, DebtIsPending, Debtor

\* While a run has a charge, no other has one of that billinfo.
LEMMA Alone ==
  ASSUME CollectionInv, NEW r \in Run, NEW b \in Found, charge[r][b].state # "none"
  PROVE  \A s \in Run : s # r => charge[s][b].state = "none"
BY DEF CollectionInv, OneRunPerAccount, Found

\* The decision of the processor: what the customer pays is what the charge,
\* which is then taken, is for.
LEMMA AnswerStep ==
  ASSUME CollectionInv, NEW r \in Run, NEW b \in Billinfo, Answer(r, b), UNCHANGED contracted
  PROVE  CollectionInv'
<1>1. charge \in [Run -> [Billinfo -> ChargeType]]
  BY Typed DEF CollectionInv
<1>2. PICK answer \in Answers :
        /\ charge' = [charge EXCEPT ![r][b].state = answer]
        /\ charged' = [charged EXCEPT ![b] =
             IF answer = "passed" /\ charge[r][b].command # "auth_only"
             THEN @ + charge[r][b].amount ELSE @]
  BY DEF Answer
<1>3. charge[r][b].state = "sent"
  BY DEF Answer
<1>4. UNCHANGED <<status, flags, pending, payType, held, billed, missed, undeposited>>
  BY DEF Answer
<1>5. charge' \in [Run -> [Billinfo -> ChargeType]]
  <2>1. [charge[r][b] EXCEPT !.state = answer] \in ChargeType
    BY <1>1 DEF ChargeType, States
  <2>2. [charge[r] EXCEPT ![b] = [charge[r][b] EXCEPT !.state = answer]]
          \in [Billinfo -> ChargeType]
    BY <1>1, <2>1
  <2>3. charge' = [charge EXCEPT ![r] =
                     [charge[r] EXCEPT ![b] = [charge[r][b] EXCEPT !.state = answer]]]
    BY <1>2
  <2> QED
    BY <1>1, <2>2, <2>3
<1>6. \A s \in Run, d \in Billinfo :
        IF s = r /\ d = b
        THEN /\ charge'[s][d].state = answer
             /\ charge'[s][d].command = charge[s][d].command
             /\ charge'[s][d].amount = charge[s][d].amount
        ELSE charge'[s][d] = charge[s][d]
  BY <1>1, <1>2 DEF ChargeType
<1>7. /\ \A d \in Billinfo : charged[d] \in Nat /\ charge[r][d].amount \in Nat
      /\ charged \in [Billinfo -> Nat]
  BY Typed DEF CollectionInv, TypeOK
<1>8. charged' \in [Billinfo -> Nat]
  BY <1>2, <1>7
<1>9. TypeOK'
  BY <1>4, <1>5, <1>8 DEF CollectionInv, TypeOK, ChargeType
<1>10. DebtIsPending'
  BY <1>4 DEF CollectionInv, DebtIsPending, Debtor
<1>11. CASE ~(answer = "passed" /\ charge[r][b].command # "auth_only")
  <2>1. charged' = charged
    BY <1>2, <1>7, <1>11
  <2>2. \A s \in Run, d \in Billinfo : Taken(s, d)' <=> Taken(s, d)
    BY <1>3, <1>6, <1>11 DEF Taken
  <2>3. OneRunPerAccount' /\ ChargesAreCovered' /\ Balanced'
    BY <1>3, <1>4, <1>6, <2>1, <2>2, OnlyStates
  <2> QED
    BY <1>9, <1>10, <2>3 DEF CollectionInv
<1>12. CASE answer = "passed" /\ charge[r][b].command # "auth_only"
  <2>1. Found' = Found /\ Found \subseteq Billinfo
    BY <1>4 DEF Found
  <2>2. OneRunPerAccount'
    BY <1>3, <1>6, <2>1 DEF CollectionInv, OneRunPerAccount
  <2>3. ChargesAreCovered'
    BY <1>3, <1>4, <1>6, <2>1 DEF CollectionInv, ChargesAreCovered, Amount
  <2>4. ASSUME NEW d \in Found, d # b
        PROVE  /\ \A s \in Run : Taken(s, d)' =>
                    billed[d] + charge'[s][d].amount = pending[d] + held[d] + charged'[d]
               /\ (\A s \in Run : ~Taken(s, d)') => billed[d] = pending[d] + held[d] + charged'[d]
    <3>1. /\ \A s \in Run : charge'[s][d] = charge[s][d]
          /\ charged'[d] = charged[d]
      BY <1>2, <1>6, <1>7, <2>1, <2>4
    <3>2. \A s \in Run : Taken(s, d)' <=> Taken(s, d)
      BY <3>1 DEF Taken
    <3> QED
      BY <3>1, <3>2 DEF CollectionInv, Balanced
  <2>5. ASSUME b \in Found
        PROVE  /\ \A s \in Run : Taken(s, b)' =>
                    billed[b] + charge'[s][b].amount = pending[b] + held[b] + charged'[b]
               /\ Taken(r, b)'
    <3>1. \A s \in Run : s # r => charge[s][b].state = "none"
      BY <1>3, <2>5, Alone
    <3>2. \A s \in Run : ~Taken(s, b)
      BY <1>3, <3>1 DEF Taken
    <3>3. billed[b] = pending[b] + held[b] + charged[b]
      BY <2>5, <3>2 DEF CollectionInv, Balanced
    <3>4. charged'[b] = charged[b] + charge[r][b].amount
      BY <1>2, <1>7, <1>12
    <3>5. \A s \in Run : Taken(s, b)' => s = r
      BY <1>6, <3>1 DEF Taken
    <3>6. Taken(r, b)' /\ charge'[r][b].amount = charge[r][b].amount
      BY <1>6, <1>12 DEF Taken
    <3>7. /\ pending[b] \in Int /\ held[b] \in Int /\ billed[b] \in Int /\ charged[b] \in Int
          /\ charge[r][b].amount \in Int
      BY Typed DEF CollectionInv
    <3>8. billed[b] + charge[r][b].amount = pending[b] + held[b] + (charged[b] + charge[r][b].amount)
      BY <3>3, <3>7
    <3> QED
      BY <3>4, <3>5, <3>6, <3>8
  <2>6. Balanced'
    BY <1>4, <2>1, <2>4, <2>5 DEF Balanced
  <2> QED
    BY <1>9, <1>10, <2>2, <2>3, <2>6 DEF CollectionInv
<1> QED
  BY <1>11, <1>12

\* A collected charge is gone.
LEMMA Gone ==
  ASSUME CollectionInv, NEW r \in Run, NEW b \in Billinfo, Collect(r, b)
  PROVE  /\ charge' \in [Run -> [Billinfo -> ChargeType]]
         /\ \A s \in Run, d \in Billinfo :
              IF s = r /\ d = b THEN charge'[s][d].state = "none"
              ELSE charge'[s][d] = charge[s][d]
<1>1. charge \in [Run -> [Billinfo -> ChargeType]] /\ charge' = [charge EXCEPT ![r][b] = NoCharge]
  BY Typed DEF CollectionInv, Collect
<1> QED
  BY <1>1, Constants

\* What a declined charge does to the account: it owes what the charge was for.
LEMMA DeclinedStep ==
  ASSUME CollectionInv, NEW r \in Run, NEW b \in Billinfo,
         Collect(r, b), Declined(r, b), UNCHANGED contracted
  PROVE  CollectionInv'
<1> DEFINE a == AccountOf[b]
<1>1. /\ UNCHANGED <<pending, held, payType, billed, charged, missed>>
      /\ charge[r][b].state \in {"hard", "soft"}
      /\ UNCHANGED accountVars \/ InactivateForDebt(a)
  BY DEF Collect, Declined
<1>2. \A s \in Run, d \in Billinfo : Taken(s, d)' <=> Taken(s, d)
  BY <1>1, Gone DEF Taken
<1>3. OneRunPerAccount' /\ ChargesAreCovered' /\ Balanced'
  <2>1. \A s \in Run, d \in Billinfo :
          \/ charge'[s][d].state = "none"
          \/ /\ charge[s][d].state # "none"
             /\ charge'[s][d].command = charge[s][d].command
             /\ charge'[s][d].amount = charge[s][d].amount
    BY Gone
  <2> QED
    BY <1>1, <1>2, <2>1, OnlyStates
<1>4. /\ status' \in [Account -> {"active", "inactive", "closed"}]
      /\ flags' \in [Account -> SUBSET {"debt", "manual"}]
      /\ \A x \in Account : x # a => status'[x] = status[x] /\ flags'[x] = flags[x]
      /\ UNCHANGED <<status, flags>> \/ status'[a] = "inactive"
  <2>1. a \in Account
    BY Constants
  <2>2. /\ status \in [Account -> {"active", "inactive", "closed"}]
        /\ flags \in [Account -> SUBSET {"debt", "manual"}]
    BY DEF CollectionInv, TypeOK
  <2>3. UNCHANGED <<status, flags>> \/ Inactivated(a, "debt")
    BY <1>1 DEF InactivateForDebt
  <2>4. CASE Inactivated(a, "debt")
    BY <2>1, <2>2, <2>4 DEF Inactivated
  <2> QED
    BY <2>2, <2>3, <2>4
<1>5. undeposited \subseteq undeposited' /\ undeposited' \subseteq Account
  BY Constants DEF Declined, CollectionInv, TypeOK
<1>6. TypeOK'
  BY <1>1, <1>4, <1>5, Gone DEF CollectionInv, TypeOK, ChargeType
<1>7. Debtor(a)' => pending[b] > 0
  <2>1. SUFFICES ASSUME Debtor(a)' PROVE pending[b] > 0
    OBVIOUS
  <2>2. charge[r][b].command # "deposit"
    BY <2>1 DEF Declined, Debtor
  <2>3. b \in Found
    BY <1>1, <2>1 DEF Debtor, Found
  <2>4. charge[r][b].amount > 0 /\ charge[r][b].amount <= Amount(b, charge[r][b].command)
    BY <1>1, <2>3 DEF CollectionInv, ChargesAreCovered
  <2>5. pending[b] \in Nat /\ charge[r][b].amount \in Nat
    BY Typed DEF CollectionInv
  <2> QED
    BY <2>2, <2>4, <2>5 DEF Amount
<1>8. ASSUME NEW x \in Account
      PROVE  /\ status'[x] = "active" => flags'[x] = {}
             /\ Debtor(x)' => \E d \in Billinfo : AccountOf[d] = x /\ pending'[d] > 0
  <2>1. CASE x = a
    BY <1>1, <1>4, <1>7, <2>1 DEF CollectionInv, DebtIsPending
  <2>2. CASE x # a
    <3>1. Debtor(x)' => Debtor(x)
      BY <1>1, <1>4, <1>5, <2>2 DEF Debtor
    <3> QED
      BY <1>1, <1>4, <2>2, <3>1 DEF CollectionInv, DebtIsPending
  <2> QED
    BY <2>1, <2>2
<1>9. DebtIsPending'
  BY <1>8 DEF DebtIsPending
<1> QED
  BY <1>3, <1>6, <1>9 DEF CollectionInv

\* An answer that COLLECT does not know: only the charge is gone.
LEMMA UnknownStep ==
  ASSUME CollectionInv, NEW r \in Run, NEW b \in Billinfo,
         Collect(r, b), Unknown(r, b), UNCHANGED contracted
  PROVE  CollectionInv'
<1>1. /\ UNCHANGED <<status, flags, pending, held, payType, billed, charged, missed, undeposited>>
      /\ charge[r][b].state = "unknown"
  BY DEF Collect, Unknown
<1>2. /\ \A s \in Run, d \in Billinfo : Taken(s, d)' <=> Taken(s, d)
      /\ \A s \in Run, d \in Billinfo :
           \/ charge'[s][d].state = "none"
           \/ /\ charge[s][d].state # "none"
              /\ charge'[s][d].command = charge[s][d].command
              /\ charge'[s][d].amount = charge[s][d].amount
  BY <1>1, Gone DEF Taken
<1>3. OneRunPerAccount' /\ ChargesAreCovered' /\ Balanced'
  BY <1>1, <1>2, OnlyStates
<1>4. TypeOK'
  BY <1>1, Gone DEF CollectionInv, TypeOK, ChargeType
<1>5. DebtIsPending'
  BY <1>1 DEF CollectionInv, DebtIsPending, Debtor
<1> QED
  BY <1>3, <1>4, <1>5 DEF CollectionInv

-----------------------------------------------------------------------------
\* The terms that a collected charge moves keep their sum.
LEMMA Moved ==
  ASSUME NEW x \in Int, NEW y \in Int, NEW p \in Int, NEW h \in Int, NEW c \in Int,
         x + y = p + h + c
  PROVE  x = (p - y) + h + c /\ x = p + (h - y) + c
OBVIOUS

\* What an answered charge for a found billinfo clears is its amount.
LEMMA ClearedExactly ==
  ASSUME CollectionInv, NEW r \in Run, NEW b \in Found, charge[r][b].state # "none",
         charge[r][b].command # "deposit"
  PROVE  Cleared(b, charge[r][b].amount) = charge[r][b].amount
<1>1. b \in Billinfo
  BY DEF Found
<1>2. charge[r][b].amount <= pending[b]
  BY DEF CollectionInv, ChargesAreCovered, Amount
<1>3. charge[r][b].amount \in Int /\ pending[b] \in Int
  BY <1>1, Typed DEF CollectionInv
<1> QED
  BY <1>2, <1>3 DEF Cleared

\* What a passed charge does to the account and the balances of the billinfo.
LEMMA PassedEffect ==
  ASSUME CollectionInv, NEW r \in Run, NEW b \in Billinfo,
         Collect(r, b), ResultPass(r, b)
  PROVE  /\ UNCHANGED <<payType, billed, charged, missed, undeposited>>
         /\ charge[r][b].state = "passed"
         /\ pending' \in [Billinfo -> Nat] /\ held' \in [Billinfo -> Int]
         /\ \A d \in Billinfo : d # b => pending'[d] = pending[d] /\ held'[d] = held[d]
         /\ pending'[b] = IF charge[r][b].command = "deposit" THEN pending[b]
                          ELSE pending[b] - Cleared(b, charge[r][b].amount)
         /\ held'[b] = CASE charge[r][b].command = "auth_only" -> held[b] + charge[r][b].amount
                         [] charge[r][b].command = "deposit" -> held[b] - charge[r][b].amount
                         [] OTHER -> held[b]
<1>1. /\ pending \in [Billinfo -> Nat] /\ held \in [Billinfo -> Int]
      /\ charge[r][b].amount \in Nat
  BY Typed DEF CollectionInv, TypeOK
<1>2. UNCHANGED <<payType, billed, charged, missed, undeposited>> /\ charge[r][b].state = "passed"
  BY DEF Collect, ResultPass
<1>3. pending[b] - Cleared(b, charge[r][b].amount) \in Nat
  BY <1>1 DEF Cleared
<1>4. /\ pending' \in [Billinfo -> Nat]
      /\ \A d \in Billinfo : d # b => pending'[d] = pending[d]
      /\ pending'[b] = IF charge[r][b].command = "deposit" THEN pending[b]
                       ELSE pending[b] - Cleared(b, charge[r][b].amount)
  <2>1. CASE charge[r][b].command # "deposit"
    <3>1. pending' = [pending EXCEPT ![b] = pending[b] - Cleared(b, charge[r][b].amount)]
      BY <2>1 DEF ResultPass
    <3> QED
      BY <1>1, <1>3, <2>1, <3>1
  <2>2. CASE charge[r][b].command = "deposit"
    BY <1>1, <2>2 DEF ResultPass
  <2> QED
    BY <2>1, <2>2
<1> DEFINE Left == CASE charge[r][b].command = "auth_only" -> held[b] + charge[r][b].amount
                     [] charge[r][b].command = "deposit" -> held[b] - charge[r][b].amount
                     [] OTHER -> held[b]
<1>5. held' = [held EXCEPT ![b] = Left]
  BY DEF ResultPass
<1>6. Left \in Int
  <2>1. /\ held[b] + charge[r][b].amount \in Int /\ held[b] - charge[r][b].amount \in Int
        /\ held[b] \in Int
    BY <1>1
  <2> QED
    BY <2>1
<1>7. /\ held' \in [Billinfo -> Int]
      /\ \A d \in Billinfo : d # b => held'[d] = held[d]
      /\ held'[b] = Left
  <2> HIDE DEF Left
  <2> QED
    BY <1>1, <1>5, <1>6
<1> QED
  BY <1>2, <1>4, <1>7

\* What a passed charge moves is what it was for.
LEMMA PassedBalance ==
  ASSUME CollectionInv, NEW r \in Run, NEW b \in Found,
         Collect(r, b), ResultPass(r, b)
  PROVE  billed[b] = pending'[b] + held'[b] + charged[b] /\ held'[b] >= 0
<1>1. b \in Billinfo
  BY DEF Found
<1> DEFINE m == charge[r][b].amount
           k == charge[r][b].command
<1>2. /\ charge[r][b].state = "passed"
      /\ pending'[b] = IF k = "deposit" THEN pending[b] ELSE pending[b] - Cleared(b, m)
      /\ held'[b] = CASE k = "auth_only" -> held[b] + m
                      [] k = "deposit" -> held[b] - m
                      [] OTHER -> held[b]
  BY <1>1, PassedEffect
<1>3. /\ pending[b] \in Int /\ held[b] \in Int /\ billed[b] \in Int /\ charged[b] \in Int
      /\ m \in Int /\ m >= 0 /\ held[b] >= 0
  BY <1>1, Typed DEF CollectionInv, ChargesAreCovered
<1>4. k # "deposit" => Cleared(b, m) = m
  BY <1>2, ClearedExactly
<1>5. k = "deposit" => m <= held[b]
  BY <1>2 DEF CollectionInv, ChargesAreCovered, Amount
<1>6. Taken(r, b) => billed[b] + m = pending[b] + held[b] + charged[b]
  BY DEF CollectionInv, Balanced
<1>7. ~Taken(r, b) => billed[b] = pending[b] + held[b] + charged[b]
  <2>1. \A s \in Run : s # r => charge[s][b].state = "none"
    BY <1>2, Alone
  <2>2. ASSUME ~Taken(r, b) PROVE \A s \in Run : ~Taken(s, b)
    BY <2>1, <2>2 DEF Taken
  <2> QED
    BY <2>2 DEF CollectionInv, Balanced
<1>8. Taken(r, b) <=> k # "auth_only"
  BY <1>2 DEF Taken
<1> HIDE DEF m, k
<1>9. CASE k = "auth_only"
  <2>1. pending'[b] = pending[b] - m /\ held'[b] = held[b] + m
    BY <1>2, <1>4, <1>9
  <2>2. billed[b] = pending[b] + held[b] + charged[b]
    BY <1>7, <1>8, <1>9
  <2> QED
    BY <1>3, <2>1, <2>2
<1>10. CASE k = "deposit"
  <2>1. pending'[b] = pending[b] /\ held'[b] = held[b] - m
    BY <1>2, <1>10
  <2>2. billed[b] + m = pending[b] + held[b] + charged[b]
    BY <1>6, <1>8, <1>10
  <2> QED
    BY <1>3, <1>5, <1>10, <2>1, <2>2
<1>11. CASE k # "auth_only" /\ k # "deposit"
  <2>1. pending'[b] = pending[b] - m /\ held'[b] = held[b]
    BY <1>2, <1>4, <1>11
  <2>2. billed[b] + m = pending[b] + held[b] + charged[b]
    BY <1>6, <1>8, <1>11
  <2> QED
    <3>1. billed[b] = (pending[b] - m) + held[b] + charged[b]
      BY <1>3, <2>2, Moved
    <3> QED
      BY <1>3, <2>1, <3>1
<1> QED
  BY <1>9, <1>10, <1>11

\* A passed charge lifts the inactivity for debt, or leaves some debt.
LEMMA PassedDebt ==
  ASSUME CollectionInv, NEW r \in Run, NEW b \in Billinfo,
         Collect(r, b), ResultPass(r, b)
  PROVE  /\ status' \in [Account -> {"active", "inactive", "closed"}]
         /\ flags' \in [Account -> SUBSET {"debt", "manual"}]
         /\ DebtIsPending'
<1> DEFINE a == AccountOf[b]
           m == charge[r][b].amount
           Lifts == /\ charge[r][b].command # "deposit"
                    /\ PaysOff(b, m) /\ status[a] = "inactive" /\ "debt" \in flags[a]
<1>1. /\ a \in Account
      /\ status \in [Account -> {"active", "inactive", "closed"}]
      /\ flags \in [Account -> SUBSET {"debt", "manual"}]
  BY Constants DEF CollectionInv, TypeOK
<1>2. IF Lifts THEN Activated(a, "debt") ELSE UNCHANGED accountVars
  BY DEF ResultPass
<1>3. /\ status' \in [Account -> {"active", "inactive", "closed"}]
      /\ flags' \in [Account -> SUBSET {"debt", "manual"}]
      /\ \A x \in Account : x # a => status'[x] = status[x] /\ flags'[x] = flags[x]
      /\ ~Lifts => status'[a] = status[a] /\ flags'[a] = flags[a]
      /\ Lifts => "debt" \notin flags'[a] /\ (status'[a] = "active" => flags'[a] = {})
  <2>1. CASE Lifts
    <3>1. /\ flags' = [flags EXCEPT ![a] = flags[a] \ {"debt"}]
          /\ status' = [status EXCEPT ![a] = IF flags[a] \subseteq {"debt"} THEN "active"
                                             ELSE status[a]]
      BY <1>2, <2>1 DEF Activated
    <3>2. flags'[a] = flags[a] \ {"debt"} /\ flags[a] \ {"debt"} \in SUBSET {"debt", "manual"}
      BY <1>1, <3>1
    <3>3. /\ status'[a] = IF flags[a] \subseteq {"debt"} THEN "active" ELSE status[a]
          /\ status[a] = "inactive"
      BY <1>1, <2>1, <3>1
    <3>4. status'[a] = "active" => flags'[a] = {}
      BY <3>2, <3>3
    <3>5. /\ status' \in [Account -> {"active", "inactive", "closed"}]
          /\ flags' \in [Account -> SUBSET {"debt", "manual"}]
          /\ \A x \in Account : x # a => status'[x] = status[x] /\ flags'[x] = flags[x]
      BY <1>1, <3>1, <3>2
    <3> QED
      BY <2>1, <3>2, <3>4, <3>5
  <2>2. CASE ~Lifts
    BY <1>1, <1>2, <2>2
  <2> QED
    BY <2>1, <2>2
<1>4. /\ missed' = missed /\ undeposited' = undeposited /\ charge[r][b].state = "passed"
      /\ \A d \in Billinfo : d # b => pending'[d] = pending[d]
      /\ pending'[b] = IF charge[r][b].command = "deposit" THEN pending[b]
                       ELSE pending[b] - Cleared(b, m)
  BY PassedEffect
<1>5. ASSUME ~Lifts, Debtor(a)
      PROVE  \E d \in Billinfo : AccountOf[d] = a /\ pending'[d] > 0
  <2>1. b \in Found /\ status[a] = "inactive" /\ "debt" \in flags[a]
    BY <1>5 DEF Debtor, Found
  <2>2. CASE charge[r][b].command = "deposit"
    <3>1. \A d \in Billinfo : pending'[d] = pending[d]
      BY <1>4, <2>2
    <3> QED
      BY <1>1, <1>5, <3>1 DEF CollectionInv, DebtIsPending
  <2>3. CASE charge[r][b].command # "deposit"
    <3>1. ~PaysOff(b, m)
      BY <1>5, <2>1, <2>3
    <3>2. Cleared(b, m) = m
      BY <1>4, <2>1, <2>3, ClearedExactly
    <3>3. pending[b] \in Int /\ m \in Int
      BY Typed DEF CollectionInv
    <3>4. pending'[b] > 0
      BY <1>4, <2>3, <3>1, <3>2, <3>3 DEF PaysOff
    <3> QED
      BY <3>4
  <2> QED
    BY <2>2, <2>3
<1>6. Debtor(a)' => ~Lifts /\ Debtor(a)
  BY <1>3, <1>4 DEF Debtor
<1>7. ASSUME NEW x \in Account
      PROVE  /\ status'[x] = "active" => flags'[x] = {}
             /\ Debtor(x)' => \E d \in Billinfo : AccountOf[d] = x /\ pending'[d] > 0
  <2>1. status[x] = "active" => flags[x] = {}
    BY DEF CollectionInv, DebtIsPending
  <2>2. CASE x = a
    BY <1>3, <1>5, <1>6, <2>1, <2>2
  <2>3. CASE x # a
    <3>1. Debtor(x)' => Debtor(x)
      BY <1>3, <1>4, <2>3 DEF Debtor
    <3>2. Debtor(x) => \E d \in Billinfo : AccountOf[d] = x /\ pending[d] > 0
      BY DEF CollectionInv, DebtIsPending
    <3>3. \A d \in Billinfo : AccountOf[d] = x => pending'[d] = pending[d]
      BY <1>4, <2>3
    <3> QED
      BY <1>3, <2>1, <2>3, <3>1, <3>2, <3>3
  <2> QED
    BY <2>2, <2>3
<1>8. DebtIsPending'
  BY <1>7 DEF DebtIsPending
<1> QED
  BY <1>3, <1>8

\* Collecting a passed charge.
LEMMA ResultPassStep ==
  ASSUME CollectionInv, NEW r \in Run, NEW b \in Billinfo,
         Collect(r, b), ResultPass(r, b), UNCHANGED contracted
  PROVE  CollectionInv'
<1>1. /\ charge' \in [Run -> [Billinfo -> ChargeType]]
      /\ \A s \in Run, d \in Billinfo :
           IF s = r /\ d = b THEN charge'[s][d].state = "none"
           ELSE charge'[s][d] = charge[s][d]
  BY Gone
<1>2. /\ UNCHANGED <<payType, billed, charged, missed, undeposited>>
      /\ charge[r][b].state = "passed"
      /\ pending' \in [Billinfo -> Nat] /\ held' \in [Billinfo -> Int]
      /\ \A d \in Billinfo : d # b => pending'[d] = pending[d] /\ held'[d] = held[d]
  BY PassedEffect
<1>3. Found' = Found /\ Found \subseteq Billinfo
  BY <1>2 DEF Found
<1>4. TypeOK' /\ DebtIsPending'
  BY <1>1, <1>2, PassedDebt DEF CollectionInv, TypeOK, ChargeType
<1>5. OneRunPerAccount'
  BY <1>1, <1>3 DEF CollectionInv, OneRunPerAccount
<1>6. b \in Found => \A s \in Run : charge'[s][b].state = "none"
  BY <1>1, <1>2, Alone
<1>7. ChargesAreCovered'
  <2>1. ASSUME NEW d \in Found PROVE held'[d] >= 0
    BY <1>2, <1>3, PassedBalance DEF CollectionInv, ChargesAreCovered
  <2>2. ASSUME NEW s \in Run, NEW d \in Found, charge'[s][d].state # "none"
        PROVE  (/\ charge[s][d].amount > 0
                /\ charge[s][d].amount <= Amount(d, charge[s][d].command))'
    <3>1. d # b /\ charge'[s][d] = charge[s][d]
      BY <1>1, <1>3, <1>6, <2>2
    <3>2. /\ charge[s][d].amount > 0
          /\ charge[s][d].amount <= Amount(d, charge[s][d].command)
      BY <2>2, <3>1 DEF CollectionInv, ChargesAreCovered
    <3> QED
      BY <1>2, <1>3, <3>1, <3>2 DEF Amount
  <2> QED
    BY <1>3, <2>1, <2>2 DEF ChargesAreCovered
<1>8. Balanced'
  <2>1. ASSUME NEW d \in Found
        PROVE  /\ \A s \in Run : Taken(s, d)' =>
                    billed[d] + charge'[s][d].amount = pending'[d] + held'[d] + charged[d]
               /\ (\A s \in Run : ~Taken(s, d)') => billed[d] = pending'[d] + held'[d] + charged[d]
    <3>1. CASE d = b
      BY <1>6, <2>1, <3>1, PassedBalance DEF Taken
    <3>2. CASE d # b
      <4>1. /\ \A s \in Run : charge'[s][d] = charge[s][d]
            /\ pending'[d] = pending[d] /\ held'[d] = held[d]
        BY <1>1, <1>2, <1>3, <3>2
      <4>2. \A s \in Run : Taken(s, d)' <=> Taken(s, d)
        BY <4>1 DEF Taken
      <4> QED
        BY <4>1, <4>2 DEF CollectionInv, Balanced
    <3> QED
      BY <3>1, <3>2
  <2> QED
    BY <1>2, <1>3, <2>1 DEF Balanced
<1> QED
  BY <1>4, <1>5, <1>7, <1>8 DEF CollectionInv

-----------------------------------------------------------------------------
\* At first nothing is billed.
LEMMA StartsWell == Init => CollectionInv
<1> SUFFICES ASSUME Init PROVE CollectionInv
  OBVIOUS
<1>1. \A r \in Run, b \in Billinfo : charge[r][b] = NoCharge
  BY DEF Init
<1>2. charge \in [Run -> [Billinfo -> ChargeType]]
  BY Constants DEF Init
<1>3. TypeOK
  BY <1>2 DEF Init, TypeOK, ChargeType
<1>4. \A r \in Run, b \in Billinfo : charge[r][b].state = "none" /\ ~Taken(r, b)
  BY <1>1, Constants DEF Taken
<1>5. OneRunPerAccount /\ ChargesAreCovered
  BY <1>4 DEF Init, OneRunPerAccount, ChargesAreCovered, Found
<1>6. Balanced
  BY <1>4 DEF Init, Balanced, Found
<1>7. DebtIsPending
  BY DEF Init, DebtIsPending, Debtor
<1> QED
  BY <1>3, <1>5, <1>6, <1>7 DEF CollectionInv

\* Every step keeps the invariant.
LEMMA NextStep == CollectionInv /\ [Next]_vars => CollectionInv'
<1> SUFFICES ASSUME CollectionInv, [Next]_vars PROVE CollectionInv'
  OBVIOUS
<1>1. CASE UNCHANGED vars
  BY <1>1 DEF vars, CollectionInv, TypeOK, OneRunPerAccount, ChargesAreCovered, Balanced,
              DebtIsPending, Debtor, Found, Taken, Amount
<1>2. ASSUME NEW b \in Billinfo, Bill(b) \/ SetPayType(b), UNCHANGED contracted
      PROVE  CollectionInv'
  BY <1>2, BillStep, SetPayTypeStep
<1>3. ASSUME NEW a \in Account, Operator(a), UNCHANGED contracted PROVE CollectionInv'
  BY <1>3, OperatorStep
<1>4. ASSUME NEW r \in Run, NEW batch \in SUBSET Billinfo, NEW command \in ChargeCommands,
             PreCollectBatch(r, batch, command), UNCHANGED contracted
      PROVE  CollectionInv'
  BY <1>4, PreCollectStep
<1>5. ASSUME NEW r \in Run, Crash(r), UNCHANGED contracted PROVE CollectionInv'
  BY <1>5, CrashStep
<1>6. ASSUME NEW r \in Run, NEW b \in Billinfo, Send(r, b) \/ Answer(r, b), UNCHANGED contracted
      PROVE  CollectionInv'
  BY <1>6, SendStep, AnswerStep
<1>7. ASSUME NEW r \in Run, NEW b \in Billinfo, Collect(r, b), UNCHANGED contracted
      PROVE  CollectionInv'
  <2>1. CASE ResultPass(r, b)
    BY <1>7, <2>1, ResultPassStep
  <2>2. CASE Declined(r, b)
    BY <1>7, <2>2, DeclinedStep
  <2>3. CASE Unknown(r, b)
    BY <1>7, <2>3, UnknownStep
  <2> QED
    BY <1>7, <2>1, <2>2, <2>3 DEF Collect
<1> QED
  BY <1>1, <1>2, <1>3, <1>4, <1>5, <1>6, <1>7 DEF Next

\* The inductive invariant: what was billed is pending, authorized or paid, for
\* every number of runs, however they die.
THEOREM CollectionInvariant == Spec => []CollectionInv
<1>1. Init => CollectionInv
  BY StartsWell
<1>2. CollectionInv /\ [Next]_vars => CollectionInv'
  BY NextStep
<1> QED
  BY <1>1, <1>2, PTL DEF Spec

\* No customer pays more than the bills, as fm_pymt_pol_is_chkpt_outstanding is
\* there to ensure, while each run finds the charges of the account that other
\* runs have: it is not one of two that search before either has sent a charge,
\* the charge is of the pay type searched for and does not wait as DepositPending,
\* and the batch does not come with PIN_PAYMENT_BATCH_CHKPTS.
THEOREM NothingChargedTwice == Spec => []ChargedOnce
<1>1. CollectionInv => ChargedOnce
  <2> SUFFICES ASSUME CollectionInv, NEW b \in Found PROVE charged[b] <= billed[b]
    BY DEF ChargedOnce
  <2>1. b \in Billinfo
    BY DEF Found
  <2>2. /\ pending[b] \in Int /\ held[b] \in Int /\ billed[b] \in Int /\ charged[b] \in Int
        /\ pending[b] >= 0 /\ held[b] >= 0
    BY <2>1, Typed DEF CollectionInv, ChargesAreCovered
  <2>3. CASE \A r \in Run : ~Taken(r, b)
    <3>1. billed[b] = pending[b] + held[b] + charged[b]
      BY <2>3 DEF CollectionInv, Balanced
    <3> QED
      BY <2>2, <3>1
  <2>4. ASSUME NEW r \in Run, Taken(r, b) PROVE charged[b] <= billed[b]
    <3>1. billed[b] + charge[r][b].amount = pending[b] + held[b] + charged[b]
      BY <2>4 DEF CollectionInv, Balanced
    <3>2. charge[r][b].amount <= Amount(b, charge[r][b].command)
      BY <2>4 DEF CollectionInv, ChargesAreCovered, Taken
    <3>3. charge[r][b].amount \in Int
      BY <2>1, Typed DEF CollectionInv
    <3>4. charge[r][b].amount <= pending[b] \/ charge[r][b].amount <= held[b]
      BY <3>2 DEF Amount
    <3> QED
      BY <2>2, <3>1, <3>3, <3>4
  <2> QED
    BY <2>3, <2>4
<1> QED
  BY <1>1, CollectionInvariant, PTL

\* Who is inactive for debt has not paid: fm_pymt_pol_collect_result_pass lifts
\* the inactivity when the charge clears what is pending.
THEOREM DebtorsHaveDebt == Spec => []DebtorsOwe
<1>1. CollectionInv => DebtorsOwe
  <2> SUFFICES ASSUME CollectionInv, NEW a \in Account, Debtor(a)
               PROVE  \E b \in Billinfo :
                        /\ AccountOf[b] = a
                        /\ charged[b] < billed[b] \/ \E r \in Run : Taken(r, b)
    BY DEF DebtorsOwe
  <2>1. PICK b \in Billinfo : AccountOf[b] = a /\ pending[b] > 0
    BY DEF CollectionInv, DebtIsPending
  <2>2. b \in Found
    BY <2>1 DEF Debtor, Found
  <2>3. /\ pending[b] \in Int /\ held[b] \in Int /\ billed[b] \in Int /\ charged[b] \in Int
        /\ held[b] >= 0
    BY <2>2, Typed DEF CollectionInv, ChargesAreCovered
  <2>4. CASE \A r \in Run : ~Taken(r, b)
    <3>1. billed[b] = pending[b] + held[b] + charged[b]
      BY <2>2, <2>4 DEF CollectionInv, Balanced
    <3>2. charged[b] < billed[b]
      BY <2>1, <2>3, <3>1
    <3> QED
      BY <2>1, <3>2
  <2> QED
    BY <2>1, <2>4
<1> QED
  BY <1>1, CollectionInvariant, PTL

-----------------------------------------------------------------------------
(***************************************************************************)
(* The collection implements the ledger.                                   *)
(***************************************************************************)

\* A charge of a run that passed and is not collected, among given charges.
PassedIn(ch, r, b, command) == ch[r][b].state = "passed" /\ ch[r][b].command = command

InFlightIn(ch, b, command) ==
  LET passed == {r \in Run : PassedIn(ch, r, b, command)}
  IN IF passed = {} THEN 0 ELSE ch[CHOOSE r \in passed : TRUE][b].amount

\* InFlight, before and after a step.
LEMMA InFlightNow ==
  \A b, command :
    /\ InFlight(b, command) = InFlightIn(charge, b, command)
    /\ InFlight(b, command)' = InFlightIn(charge', b, command)
BY DEF InFlight, InFlightIn, PassedIn

\* No charge passed.
LEMMA NoneInFlight ==
  ASSUME NEW ch, NEW b, NEW command, \A r \in Run : ~PassedIn(ch, r, b, command)
  PROVE  InFlightIn(ch, b, command) = 0
BY DEF InFlightIn

\* One charge passed.
LEMMA OneInFlight ==
  ASSUME NEW ch, NEW b, NEW command, NEW r \in Run, PassedIn(ch, r, b, command),
         \A s \in Run : PassedIn(ch, s, b, command) => s = r
  PROVE  InFlightIn(ch, b, command) = ch[r][b].amount
<1> DEFINE passed == {s \in Run : PassedIn(ch, s, b, command)}
<1>1. passed = {r}
  OBVIOUS
<1>2. (CHOOSE s \in passed : TRUE) = r /\ passed # {}
  BY <1>1
<1> QED
  BY <1>2 DEF InFlightIn

\* The same charges passed.
LEMMA SameInFlight ==
  ASSUME NEW ch, NEW dh, NEW b, NEW command,
         \A r \in Run : /\ PassedIn(ch, r, b, command) <=> PassedIn(dh, r, b, command)
                        /\ PassedIn(ch, r, b, command) => ch[r][b].amount = dh[r][b].amount
  PROVE  InFlightIn(ch, b, command) = InFlightIn(dh, b, command)
<1> DEFINE passed == {r \in Run : PassedIn(ch, r, b, command)}
<1>1. passed = {r \in Run : PassedIn(dh, r, b, command)}
  OBVIOUS
<1>2. CASE passed = {}
  BY <1>1, <1>2 DEF InFlightIn
<1>3. CASE passed # {}
  <2>1. PICK r \in passed : r = CHOOSE s \in passed : TRUE
    BY <1>3
  <2>2. ch[r][b].amount = dh[r][b].amount
    BY <2>1
  <2> QED
    BY <1>1, <1>3, <2>1, <2>2 DEF InFlightIn
<1> QED
  BY <1>2, <1>3

\* A step after which the same charges of found billinfos have passed.
SamePassed(d) ==
  \A s \in Run, command \in {"condition", "deposit"} :
    /\ PassedIn(charge, s, d, command) <=> PassedIn(charge', s, d, command)
    /\ PassedIn(charge, s, d, command) => charge[s][d].amount = charge'[s][d].amount

LEMMA InFlightKept ==
  ASSUME NEW d, SamePassed(d)
  PROVE  /\ InFlight(d, "condition")' = InFlight(d, "condition")
         /\ InFlight(d, "deposit")' = InFlight(d, "deposit")
BY SameInFlight, InFlightNow DEF SamePassed

\* A step that is none of the ledger's business.
LEMMA NotEntered ==
  ASSUME UNCHANGED <<pending, held, charged, missed>>, \A d \in Found : SamePassed(d)
  PROVE  UNCHANGED <<OwedNow, ReservedNow, PaidNow>>
<1>1. Found' = Found
  BY DEF Found
<1> QED
  BY <1>1, InFlightKept DEF OwedNow, ReservedNow, PaidNow

\* Nothing is in flight for a billinfo while the only charge for it has not
\* passed; one amount is while it has.
LEMMA OnlyOneInFlight ==
  ASSUME NEW ch, NEW r \in Run, NEW b, NEW command,
         \A s \in Run : s # r => ch[s][b].state = "none"
  PROVE  InFlightIn(ch, b, command) =
           IF PassedIn(ch, r, b, command) THEN ch[r][b].amount ELSE 0
<1>1. \A s \in Run : PassedIn(ch, s, b, command) => s = r
  BY DEF PassedIn
<1>2. CASE PassedIn(ch, r, b, command)
  BY <1>1, <1>2, OneInFlight
<1>3. CASE ~PassedIn(ch, r, b, command)
  BY <1>1, <1>3, NoneInFlight
<1> QED
  BY <1>2, <1>3

\* The terms of the ledger are integers.
LEMMA LedgerTyped ==
  ASSUME CollectionInv, NEW b \in Found
  PROVE  b \in Billinfo /\ pending[b] \in Int /\ held[b] \in Int /\ charged[b] \in Int
BY Typed DEF CollectionInv, Found

LEMMA InFlightTyped ==
  ASSUME CollectionInv, NEW b \in Found, NEW command
  PROVE  InFlight(b, command) \in Int
<1> DEFINE passed == {r \in Run : PassedIn(charge, r, b, command)}
<1>1. b \in Billinfo /\ \A r \in Run : charge[r][b].amount \in Int
  BY Typed DEF CollectionInv, Found
<1>2. CASE passed = {}
  BY <1>2, InFlightNow DEF InFlightIn
<1>3. CASE passed # {}
  <2>1. (CHOOSE r \in passed : TRUE) \in Run
    BY <1>3
  <2> QED
    BY <1>1, <1>3, <2>1, InFlightNow DEF InFlightIn
<1> QED
  BY <1>2, <1>3

\* A bill is owed.
LEMMA BillEntered ==
  ASSUME CollectionInv, NEW b \in Billinfo, Bill(b)
  PROVE  [L!LedgerNext]_(L!ledgerVars)
<1>1. Found' = Found /\ UNCHANGED <<held, charge, charged, missed>>
  BY DEF Bill, Found
<1>2. \A d \in Found : SamePassed(d)
  BY <1>1 DEF SamePassed, PassedIn
<1>3. /\ \A d \in Found : InFlight(d, "condition")' = InFlight(d, "condition")
      /\ UNCHANGED <<ReservedNow, PaidNow>>
  BY <1>1, <1>2, InFlightKept DEF ReservedNow, PaidNow
<1>4. \A d \in Found : pending'[d] = IF d = b THEN pending[d] + 1 ELSE pending[d]
  BY DEF Bill, CollectionInv, TypeOK, Found
<1>5. OwedNow' = [d \in Found |-> pending'[d] - InFlight(d, "condition")]
  BY <1>1, <1>3 DEF OwedNow
<1>6. CASE b \in Found
  <2>1. (pending[b] + 1) - InFlight(b, "condition") = (pending[b] - InFlight(b, "condition")) + 1
    BY LedgerTyped, InFlightTyped, <1>6
  <2>2. OwedNow' = [OwedNow EXCEPT ![b] = @ + 1]
    BY <1>4, <1>5, <1>6, <2>1 DEF OwedNow
  <2>3. L!Owe(b) /\ b \in DOMAIN OwedNow
    BY <1>3, <1>6, <2>2 DEF L!Owe, OwedNow
  <2> QED
    BY <2>3 DEF L!LedgerNext
<1>7. CASE b \notin Found
  <2>1. OwedNow' = OwedNow
    BY <1>4, <1>5, <1>7 DEF OwedNow
  <2> QED
    BY <1>3, <2>1 DEF L!ledgerVars
<1> QED
  BY <1>6, <1>7

\* A search that misses a charge strikes the account.
LEMMA PreCollectEntered ==
  ASSUME CollectionInv, NEW r \in Run, NEW batch \in SUBSET Billinfo,
         NEW command \in ChargeCommands, PreCollectBatch(r, batch, command)
  PROVE  [L!LedgerNext]_(L!ledgerVars)
<1> DEFINE B == Found \ Found'
<1>1. /\ missed \subseteq missed'
      /\ \A s \in Run \ {r} : charge'[s] = charge[s]
      /\ \A d \in Billinfo : charge'[r][d].state \in {"none", "ready"}
  BY PreCollectEffect
<1>2. /\ UNCHANGED <<pending, held, charged>>
      /\ \A d \in Billinfo : charge[r][d].state = "none"
  BY DEF PreCollectBatch
<1>3. Found' = Found \ B /\ Found \subseteq Billinfo
  BY <1>1 DEF Found
<1>4. \A d \in Found : SamePassed(d)
  BY <1>1, <1>2, <1>3 DEF SamePassed, PassedIn
<1>5. /\ OwedNow' = [d \in Found \ B |-> OwedNow[d]]
      /\ ReservedNow' = [d \in Found \ B |-> ReservedNow[d]]
      /\ PaidNow' = [d \in Found \ B |-> PaidNow[d]]
  BY <1>2, <1>3, <1>4, InFlightKept DEF OwedNow, ReservedNow, PaidNow
<1>6. DOMAIN OwedNow = Found
  BY DEF OwedNow
<1>7. B \in SUBSET DOMAIN OwedNow /\ L!Strike(B)
  BY <1>5, <1>6 DEF L!Strike
<1> QED
  BY <1>7 DEF L!LedgerNext

\* The processor takes what is owed, or what was reserved.
LEMMA AnswerEntered ==
  ASSUME CollectionInv, NEW r \in Run, NEW b \in Billinfo, Answer(r, b)
  PROVE  [L!LedgerNext]_(L!ledgerVars)
<1>1. charge \in [Run -> [Billinfo -> ChargeType]]
  BY Typed DEF CollectionInv
<1>2. PICK answer \in Answers :
        /\ charge' = [charge EXCEPT ![r][b].state = answer]
        /\ charged' = [charged EXCEPT ![b] =
             IF answer = "passed" /\ charge[r][b].command # "auth_only"
             THEN @ + charge[r][b].amount ELSE @]
  BY DEF Answer
<1> DEFINE m == charge[r][b].amount
           k == charge[r][b].command
<1>3. /\ charge[r][b].state = "sent"
      /\ UNCHANGED <<pending, held, missed>>
  BY DEF Answer
<1>4. \A s \in Run, d \in Billinfo :
        IF s = r /\ d = b
        THEN /\ charge'[s][d].state = answer
             /\ charge'[s][d].command = charge[s][d].command
             /\ charge'[s][d].amount = charge[s][d].amount
        ELSE charge'[s][d] = charge[s][d]
  BY <1>1, <1>2 DEF ChargeType
<1>5. charged \in [Billinfo -> Nat] /\ m \in Nat /\ k \in ChargeCommands
  BY Typed DEF CollectionInv, TypeOK
<1>6. Found' = Found /\ Found \subseteq Billinfo
  BY <1>3 DEF Found
<1>7. \A d \in Found : d # b => SamePassed(d)
  BY <1>4, <1>6 DEF SamePassed, PassedIn
<1>8. CASE ~(b \in Found /\ answer = "passed" /\ k # "auth_only")
  <2>1. b \in Found => SamePassed(b) /\ charged'[b] = charged[b]
    BY <1>2, <1>3, <1>4, <1>5, <1>8 DEF SamePassed, PassedIn
  <2>2. \A d \in Found : charged'[d] = charged[d] /\ SamePassed(d)
    BY <1>2, <1>5, <1>6, <1>7, <2>1
  <2>3. UNCHANGED <<OwedNow, ReservedNow, PaidNow>>
    BY <1>3, <1>6, <2>2, InFlightKept DEF OwedNow, ReservedNow, PaidNow
  <2> QED
    BY <2>3 DEF L!ledgerVars
<1>9. CASE b \in Found /\ answer = "passed" /\ k # "auth_only"
  <2>1. \A s \in Run : s # r => charge[s][b].state = "none" /\ charge'[s][b].state = "none"
    BY <1>3, <1>4, <1>9, Alone
  <2>2. \A c : /\ InFlight(b, c) = 0
               /\ InFlight(b, c)' = IF c = k THEN m ELSE 0
    <3>1. \A c : ~PassedIn(charge, r, b, c) /\ (PassedIn(charge', r, b, c) <=> c = k)
      BY <1>3, <1>4, <1>9 DEF PassedIn
    <3>2. charge'[r][b].amount = m
      BY <1>4
    <3> HIDE DEF m, k
    <3> QED
      BY <2>1, <3>1, <3>2, OnlyOneInFlight, InFlightNow
  <2>3. m > 0 /\ m <= Amount(b, k)
    BY <1>3, <1>9 DEF CollectionInv, ChargesAreCovered
  <2>4. \A d \in Found : d # b =>
          /\ InFlight(d, "condition")' = InFlight(d, "condition")
          /\ InFlight(d, "deposit")' = InFlight(d, "deposit")
          /\ charged'[d] = charged[d]
    BY <1>2, <1>5, <1>6, <1>7, InFlightKept
  <2>5. charged'[b] = charged[b] + m
    BY <1>2, <1>5, <1>9
  <2>6. PaidNow' = [PaidNow EXCEPT ![b] = @ + m]
    BY <1>6, <1>9, <2>4, <2>5 DEF PaidNow
  <2>7. /\ DOMAIN OwedNow = Found /\ OwedNow[b] = pending[b]
        /\ ReservedNow[b] = held[b]
        /\ pending[b] \in Int /\ held[b] \in Int
    BY <1>9, <2>2, LedgerTyped DEF OwedNow, ReservedNow
  <2> HIDE DEF m, k
  <2>8. CASE k = "condition"
    <3>1. pending'[b] - InFlight(b, "condition")' = OwedNow[b] - m
      BY <1>3, <2>2, <2>7, <2>8
    <3>2. OwedNow' = [OwedNow EXCEPT ![b] = @ - m]
      BY <1>3, <1>6, <1>9, <2>4, <3>1 DEF OwedNow
    <3>3. InFlight(b, "deposit")' = InFlight(b, "deposit")
      BY <2>2, <2>8
    <3>4. ReservedNow' = ReservedNow
      BY <1>3, <1>6, <2>4, <3>3 DEF ReservedNow
    <3>5. m \in 1 .. OwedNow[b]
      BY <1>5, <2>3, <2>7, <2>8 DEF Amount
    <3>6. L!Pay(b, m)
      BY <2>6, <3>2, <3>4 DEF L!Pay
    <3> QED
      BY <1>9, <2>7, <3>5, <3>6 DEF L!LedgerNext
  <2>9. CASE k = "deposit"
    <3>1. held'[b] - InFlight(b, "deposit")' = ReservedNow[b] - m
      BY <1>3, <2>2, <2>7, <2>9
    <3>2. ReservedNow' = [ReservedNow EXCEPT ![b] = @ - m]
      BY <1>3, <1>6, <1>9, <2>4, <3>1 DEF ReservedNow
    <3>3. InFlight(b, "condition")' = InFlight(b, "condition")
      BY <2>2, <2>9
    <3>4. OwedNow' = OwedNow
      BY <1>3, <1>6, <2>4, <3>3 DEF OwedNow
    <3>5. m \in 1 .. ReservedNow[b]
      BY <1>5, <2>3, <2>7, <2>9 DEF Amount
    <3>6. L!Settle(b, m)
      BY <2>6, <3>2, <3>4 DEF L!Settle
    <3> QED
      BY <1>9, <2>7, <3>5, <3>6 DEF L!LedgerNext
  <2> QED
    BY <1>5, <1>9, <2>8, <2>9 DEF ChargeCommands
<1> QED
  BY <1>8, <1>9

\* Collecting an authorization reserves its amount; collecting a payment enters
\* what the ledger has.
LEMMA PassedEntered ==
  ASSUME CollectionInv, NEW r \in Run, NEW b \in Billinfo, Collect(r, b), ResultPass(r, b)
  PROVE  [L!LedgerNext]_(L!ledgerVars)
<1> DEFINE m == charge[r][b].amount
           k == charge[r][b].command
<1>1. \A s \in Run, d \in Billinfo :
        IF s = r /\ d = b THEN charge'[s][d].state = "none"
        ELSE charge'[s][d] = charge[s][d]
  BY Gone
<1>2. /\ UNCHANGED <<charged, missed>>
      /\ charge[r][b].state = "passed"
      /\ \A d \in Billinfo : d # b => pending'[d] = pending[d] /\ held'[d] = held[d]
      /\ pending'[b] = IF k = "deposit" THEN pending[b] ELSE pending[b] - Cleared(b, m)
      /\ held'[b] = CASE k = "auth_only" -> held[b] + m
                      [] k = "deposit" -> held[b] - m
                      [] OTHER -> held[b]
  BY PassedEffect
<1>3. Found' = Found /\ Found \subseteq Billinfo
  BY <1>2 DEF Found
<1>4. PaidNow' = PaidNow
  BY <1>2, <1>3 DEF PaidNow
<1>5. \A d \in Found : d # b =>
        /\ InFlight(d, "condition")' = InFlight(d, "condition")
        /\ InFlight(d, "deposit")' = InFlight(d, "deposit")
  <2>1. \A d \in Found : d # b => SamePassed(d)
    BY <1>1, <1>3 DEF SamePassed, PassedIn
  <2> QED
    BY <2>1, InFlightKept
<1>6. CASE b \notin Found
  <2>1. UNCHANGED <<OwedNow, ReservedNow>>
    BY <1>2, <1>3, <1>5, <1>6 DEF OwedNow, ReservedNow
  <2> QED
    BY <1>4, <2>1 DEF L!ledgerVars
<1>7. CASE b \in Found
  <2>1. \A s \in Run : s # r => charge[s][b].state = "none" /\ charge'[s][b].state = "none"
    BY <1>1, <1>2, <1>7, Alone
  <2>2. \A c : /\ InFlight(b, c) = IF c = k THEN m ELSE 0
               /\ InFlight(b, c)' = 0
    <3>1. \A c : (PassedIn(charge, r, b, c) <=> c = k) /\ ~PassedIn(charge', r, b, c)
      BY <1>1, <1>2 DEF PassedIn
    <3>2. charge[r][b].amount = m
      OBVIOUS
    <3> HIDE DEF m, k
    <3> QED
      BY <2>1, <3>1, <3>2, OnlyOneInFlight, InFlightNow
  <2>3. k # "deposit" => Cleared(b, m) = m
    BY <1>2, <1>7, ClearedExactly
  <2>4. /\ pending[b] \in Int /\ held[b] \in Int /\ m \in Nat /\ k \in ChargeCommands
        /\ m > 0 /\ m <= Amount(b, k)
    BY <1>2, <1>7, LedgerTyped, Typed DEF CollectionInv, ChargesAreCovered
  <2> HIDE DEF m, k
  <2>5. CASE k = "auth_only"
    <3>1. /\ OwedNow[b] = pending[b]
          /\ pending'[b] - InFlight(b, "condition")' = pending[b] - m
          /\ held'[b] - InFlight(b, "deposit")' = (held[b] - InFlight(b, "deposit")) + m
      BY <1>2, <1>7, <2>2, <2>3, <2>4, <2>5 DEF OwedNow
    <3>2. OwedNow' = [OwedNow EXCEPT ![b] = @ - m]
      BY <1>2, <1>3, <1>5, <1>7, <3>1 DEF OwedNow
    <3>3. ReservedNow' = [ReservedNow EXCEPT ![b] = @ + m]
      BY <1>2, <1>3, <1>5, <1>7, <3>1 DEF ReservedNow
    <3>4. m \in 1 .. OwedNow[b] /\ b \in DOMAIN OwedNow
      BY <1>7, <2>4, <2>5, <3>1 DEF Amount, OwedNow
    <3>5. L!Reserve(b, m)
      BY <1>4, <3>2, <3>3 DEF L!Reserve
    <3> QED
      BY <3>4, <3>5 DEF L!LedgerNext
  <2>6. CASE k \in {"condition", "deposit"}
    <3>1. /\ pending'[b] - InFlight(b, "condition")' = pending[b] - InFlight(b, "condition")
          /\ held'[b] - InFlight(b, "deposit")' = held[b] - InFlight(b, "deposit")
      BY <1>2, <2>2, <2>3, <2>4, <2>6
    <3>2. UNCHANGED <<OwedNow, ReservedNow>>
      BY <1>2, <1>3, <1>5, <3>1 DEF OwedNow, ReservedNow
    <3> QED
      BY <1>4, <3>2 DEF L!ledgerVars
  <2> QED
    BY <2>4, <2>5, <2>6 DEF ChargeCommands
<1> QED
  BY <1>6, <1>7

\* Every step of the collection is one of the ledger, or none of its business.
LEMMA LedgerStep == CollectionInv /\ [Next]_vars => [L!LedgerNext]_(L!ledgerVars)
<1> SUFFICES ASSUME CollectionInv, [Next]_vars PROVE [L!LedgerNext]_(L!ledgerVars)
  OBVIOUS
<1>1. ASSUME UNCHANGED <<pending, held, charged, missed>>, \A d \in Found : SamePassed(d)
      PROVE  [L!LedgerNext]_(L!ledgerVars)
  BY <1>1, NotEntered DEF L!ledgerVars
<1>2. CASE UNCHANGED vars
  BY <1>1, <1>2 DEF vars, SamePassed, PassedIn
<1>3. ASSUME NEW b \in Billinfo, SetPayType(b) PROVE [L!LedgerNext]_(L!ledgerVars)
  BY <1>1, <1>3 DEF SetPayType, SamePassed, PassedIn
<1>4. ASSUME NEW a \in Account, Operator(a) PROVE [L!LedgerNext]_(L!ledgerVars)
  BY <1>1, <1>4 DEF Operator, SamePassed, PassedIn
<1>5. charge \in [Run -> [Billinfo -> ChargeType]]
  BY Typed DEF CollectionInv
<1>6. ASSUME NEW r \in Run, Crash(r) PROVE [L!LedgerNext]_(L!ledgerVars)
  <2> DEFINE Left == [b \in Billinfo |->
                       IF charge[r][b].state = "ready" THEN NoCharge ELSE charge[r][b]]
  <2>1. charge' = [charge EXCEPT ![r] = Left]
    BY <1>6 DEF Crash
  <2>2. \A s \in Run, d \in Billinfo :
          IF s = r /\ charge[s][d].state = "ready" THEN charge'[s][d].state = "none"
          ELSE charge'[s][d] = charge[s][d]
    BY <1>5, <2>1, Constants
  <2>3. \A d \in Found : SamePassed(d)
    BY <2>2 DEF SamePassed, PassedIn, Found
  <2> QED
    BY <1>1, <1>6, <2>3 DEF Crash
<1>7. ASSUME NEW r \in Run, NEW b \in Billinfo, Send(r, b)
      PROVE  [L!LedgerNext]_(L!ledgerVars)
  <2>a. PICK result : charge' = [charge EXCEPT ![r][b] =
                        [@ EXCEPT !.state = "sent", !.result = result]]
    BY <1>7 DEF Send
  <2>1. \A s \in Run, d \in Billinfo :
          IF s = r /\ d = b THEN charge'[s][d].state = "sent"
          ELSE charge'[s][d] = charge[s][d]
    BY <1>5, <2>a DEF ChargeType
  <2>2. \A d \in Found : SamePassed(d)
    BY <1>7, <2>1 DEF Send, SamePassed, PassedIn, Found
  <2> QED
    BY <1>1, <1>7, <2>2 DEF Send
<1>8. ASSUME NEW r \in Run, NEW b \in Billinfo, Collect(r, b), Declined(r, b) \/ Unknown(r, b)
      PROVE  [L!LedgerNext]_(L!ledgerVars)
  <2>1. charge[r][b].state \in {"hard", "soft", "unknown"}
    BY <1>8 DEF Declined, Unknown
  <2>2. \A d \in Found : SamePassed(d)
    BY <1>8, <2>1, Gone DEF SamePassed, PassedIn, Found
  <2> QED
    BY <1>1, <1>8, <2>2 DEF Collect, Declined, Unknown
<1> QED
  <2>1. ASSUME NEW r \in Run, NEW b \in Billinfo, Collect(r, b)
        PROVE  ResultPass(r, b) \/ Declined(r, b) \/ Unknown(r, b)
    BY <2>1 DEF Collect
  <2> QED
    BY <1>2, <1>3, <1>4, <1>6, <1>7, <1>8, <2>1, BillEntered, PreCollectEntered, AnswerEntered,
       PassedEntered DEF Next

\* At first nothing is in the ledger.
LEMMA LedgerStarts == Init => L!LedgerInit
<1> SUFFICES ASSUME Init PROVE L!LedgerInit
  OBVIOUS
<1>1. Found = Billinfo
  BY DEF Init, Found
<1>2. \A r \in Run, b \in Billinfo : charge[r][b].state = "none"
  BY Constants DEF Init
<1>3. \A b \in Billinfo : \A command : InFlight(b, command) = 0
  BY <1>2, NoneInFlight, InFlightNow DEF PassedIn
<1> QED
  BY <1>1, <1>3 DEF Init, L!LedgerInit, OwedNow, ReservedNow, PaidNow

\* The collection keeps a ledger without runs or answers: what is owed comes
\* from bills, and goes only to what is reserved or paid, whatever runs die and
\* however late an answer is.
THEOREM LedgerIsKept == Spec => ImplementsLedger
<1>1. Init => L!LedgerInit
  BY LedgerStarts
<1>2. CollectionInv /\ [Next]_vars => [L!LedgerNext]_(L!ledgerVars)
  BY LedgerStep
<1> QED
  BY <1>1, <1>2, CollectionInvariant, PTL DEF Spec, ImplementsLedger, L!LedgerSpec
=============================================================================
