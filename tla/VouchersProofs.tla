--------------------------- MODULE VouchersProofs ---------------------------
(***************************************************************************)
(* Theorems about Vouchers, for every set of orders, serial numbers,       *)
(* quantities and services.                                                *)
(***************************************************************************)
EXTENDS Vouchers, FiniteSetTheorems, TLAPS

\* The serial numbers are finitely many,
LEMMA SerialFinite == IsFiniteSet(Serial)
BY VouchersAssumption, FS_Interval DEF Serial

\* and so are the fresh vouchers of a file.
LEMMA FreshCount ==
  ASSUME NEW F \in SUBSET Serial
  PROVE  Cardinality(Fresh(F)) \in Nat
<1>1. IsFiniteSet(Fresh(F))
  BY SerialFinite, FS_Subset DEF Fresh
<1> QED
  BY <1>1, FS_CardinalityType

\* Every step keeps every field in its type.
LEMMA TypeStep ==
  ASSUME TypeOK, [Next]_vars
  PROVE  TypeOK'
<1> USE DEF TypeOK, VoucherExists, orderVars, voucherVars, following, OrderStates, VoucherStates
<1>1. CASE UNCHANGED vars
  BY <1>1 DEF vars
<1>2. ASSUME NEW o \in Order, OrderNext(o) PROVE TypeOK'
  <2>1. ASSUME NEW b \in Block, CreateOrder(o, b)
        PROVE  TypeOK'
    BY <2>1 DEF CreateOrder
  <2>2. ASSUME NEW b \in Block, ChangeNewOrder(o, b)
        PROVE  TypeOK'
    BY <2>2 DEF ChangeNewOrder
  <2>3. ASSUME NEW b \in Block, ChangeOrderUnderWay(o, b)
        PROVE  TypeOK'
    BY <2>3 DEF ChangeOrderUnderWay
  <2>4. ASSUME NEW new \in OrderStates, SetOrderState(o, new)
        PROVE  TypeOK'
    BY <2>4 DEF SetOrderState, OrderTable
  <2>5. ASSUME NEW F \in SUBSET Serial, NEW br \in Brand, ProcessOrder(o, F, br)
        PROVE  TypeOK'
    <3>1. Cardinality(Fresh(F)) \in Nat
      BY FreshCount
    <3>2. Fresh(F) \subseteq Serial
      BY DEF Fresh
    <3> QED
      BY <2>5, <3>1, <3>2 DEF ProcessOrder
  <2>6. CASE DeleteOrder(o)
    BY <2>6 DEF DeleteOrder
  <2> QED
    BY <1>2, <2>1, <2>2, <2>3, <2>4, <2>5, <2>6 DEF OrderNext
<1>3. ASSUME NEW c \in Serial, VoucherNext(c) PROVE TypeOK'
  <2>1. ASSUME NEW br \in Brand, CreateVoucher(c, br)
        PROVE  TypeOK'
    BY <2>1 DEF CreateVoucher
  <2>2. ASSUME NEW br \in Brand, SetBrandVoucher(c, br)
        PROVE  TypeOK'
    BY <2>2 DEF SetBrandVoucher
  <2>3. ASSUME NEW new \in VoucherStates, SetStateVoucher(c, new)
        PROVE  TypeOK'
    BY <2>3 DEF SetStateVoucher, VoucherTable
  <2>4. ASSUME NEW s \in Service, NEW lapsed \in BOOLEAN, AssociateVoucher(c, s, lapsed)
        PROVE  TypeOK'
    BY <2>4 DEF AssociateVoucher, Redeemable, BrandMatches
  <2>5. ASSUME NEW s \in Service, DisassociateVoucher(c, s)
        PROVE  TypeOK'
    BY <2>5 DEF DisassociateVoucher
  <2>6. CASE DeleteVoucher(c)
    BY <2>6 DEF DeleteVoucher
  <2> QED
    BY <1>3, <2>1, <2>2, <2>3, <2>4, <2>5, <2>6 DEF VoucherNext
<1> QED
  BY <1>1, <1>2, <1>3 DEF Next

\* Orders and vouchers have their fields as long as they exist, with values of
\* their types.
THEOREM TypeCorrect == Spec => []TypeOK
<1>1. Init => TypeOK
  BY DEF Init, TypeOK, VoucherExists
<1>2. TypeOK /\ [Next]_vars => TypeOK'
  BY TypeStep
<1> QED
  BY <1>1, <1>2, PTL DEF Spec

-----------------------------------------------------------------------------
\* The comparison of end points sees every common serial number.
LEMMA OverlapSeesAll ==
  ASSUME NEW a \in Block, NEW b \in Block,
         (a.start .. Last(a)) \cap (b.start .. Last(b)) # {}
  PROVE  Overlap(a, b)
<1>0. Quantity \subseteq Nat /\ MaxSerial \in Nat
  BY VouchersAssumption
<1>1. a.start \in Int /\ b.start \in Int /\ Last(a) \in Int /\ Last(b) \in Int
  <2>1. \A d \in Block : d.start \in Serial /\ d.quantity \in Quantity
    BY DEF Block
  <2>2. Serial \subseteq Int /\ Quantity \subseteq Int
    BY <1>0 DEF Serial
  <2>3. a.start \in Int /\ a.quantity \in Int /\ b.start \in Int /\ b.quantity \in Int
    BY <2>1, <2>2
  <2> QED
    BY <2>3 DEF Last
<1>2. PICK x \in Int : /\ a.start <= x /\ x <= Last(a)
                      /\ b.start <= x /\ x <= Last(b)
  BY <1>1
<1> QED
  BY <1>1, <1>2 DEF Overlap, Within

\* A block that is free for an order meets no other order.
LEMMA FreeIsDisjoint ==
  ASSUME TypeOK, NEW b \in Block, NEW own, Free(b, own),
         NEW p \in InPlay, p \notin own
  PROVE  (block[p].start .. Last(block[p])) \cap (b.start .. Last(b)) = {}
<1>1. block[p] \in Block
  BY DEF TypeOK, InPlay
<1>2. ~Overlap(block[p], b)
  BY DEF Free
<1> QED
  BY <1>1, <1>2, OverlapSeesAll

\* Steps that leave every block alone and bring no order into play.
LEMMA SameBlocks ==
  ASSUME SerialsOrderedOnce, InPlay' \subseteq InPlay,
         \A p \in InPlay' : block'[p] = block[p]
  PROVE  SerialsOrderedOnce'
BY DEF SerialsOrderedOnce, Last

\* An order takes a block that is free for it.
LEMMA NewBlock ==
  ASSUME TypeOK, SerialsOrderedOnce, NEW o \in Order, NEW b \in Block,
         NEW own \in SUBSET {o}, Free(b, own),
         o \in own \/ o \notin InPlay, InPlay' \subseteq InPlay \cup {o},
         block' = [block EXCEPT ![o] = b]
  PROVE  SerialsOrderedOnce'
<1> DEFINE Of(q) == block[q].start .. Last(block[q])
<1>1. \A p \in InPlay \ {o} : Of(p) \cap (b.start .. Last(b)) = {}
  BY FreeIsDisjoint
<1>2. block'[o] = b /\ \A p \in Order \ {o} : block'[p] = block[p]
  BY DEF TypeOK
<1> SUFFICES ASSUME NEW p \in InPlay', NEW q \in InPlay', p # q
             PROVE  (block'[p].start .. Last(block'[p]))
                      \cap (block'[q].start .. Last(block'[q])) = {}
  BY DEF SerialsOrderedOnce, Last
<1>3. CASE p = o
  <2>1. q \in InPlay \ {o} /\ q \in Order
    BY <1>3 DEF InPlay
  <2> QED
    BY <1>1, <1>2, <1>3, <2>1
<1>4. CASE q = o
  <2>1. p \in InPlay \ {o} /\ p \in Order
    BY <1>4 DEF InPlay
  <2> QED
    BY <1>1, <1>2, <1>4, <2>1
<1>5. CASE p # o /\ q # o
  <2>1. p \in InPlay /\ q \in InPlay /\ p \in Order /\ q \in Order
    BY <1>5 DEF InPlay
  <2>2. block'[p] = block[p] /\ block'[q] = block[q]
    BY <1>2, <1>5, <2>1
  <2> QED
    BY <2>1, <2>2 DEF SerialsOrderedOnce
<1> QED
  BY <1>3, <1>4, <1>5

\* No step makes two blocks meet, unless the range of an order under way changes.
LEMMA DisjointStep ==
  ASSUME ~RangeSent, TypeOK, SerialsOrderedOnce, [Next]_vars
  PROVE  SerialsOrderedOnce'
<1> USE DEF InPlay, orderVars, voucherVars, following
<1>1. CASE UNCHANGED vars
  BY <1>1, SameBlocks DEF vars
<1>2. ASSUME NEW o \in Order, OrderNext(o) PROVE SerialsOrderedOnce'
  <2>1. ASSUME NEW b \in Block, CreateOrder(o, b)
        PROVE  SerialsOrderedOnce'
    <3>1. Free(b, {}) /\ o \notin InPlay /\ InPlay' \subseteq InPlay \cup {o}
          /\ block' = [block EXCEPT ![o] = b]
      BY <2>1 DEF CreateOrder, TypeOK
    <3> QED
      BY <3>1, NewBlock
  <2>2. ASSUME NEW b \in Block, ChangeNewOrder(o, b)
        PROVE  SerialsOrderedOnce'
    <3>1. Free(b, {o}) /\ InPlay' \subseteq InPlay \cup {o}
          /\ block' = [block EXCEPT ![o] = b]
      BY <2>2 DEF ChangeNewOrder
    <3> QED
      BY <3>1, NewBlock
  <2>3. ASSUME NEW b \in Block, ChangeOrderUnderWay(o, b)
        PROVE  SerialsOrderedOnce'
    <3>1. InPlay' \subseteq InPlay /\ \A p \in InPlay' : block'[p] = block[p]
      BY <2>3 DEF ChangeOrderUnderWay, TypeOK
    <3> QED
      BY <3>1, SameBlocks
  <2>4. ASSUME NEW new \in OrderStates, SetOrderState(o, new)
        PROVE  SerialsOrderedOnce'
    <3>1. InPlay' \subseteq InPlay /\ \A p \in InPlay' : block'[p] = block[p]
      BY <2>4 DEF SetOrderState, OrderTable, TypeOK
    <3> QED
      BY <3>1, SameBlocks
  <2>5. ASSUME NEW F \in SUBSET Serial, NEW br \in Brand, ProcessOrder(o, F, br)
        PROVE  SerialsOrderedOnce'
    <3>1. InPlay' \subseteq InPlay /\ \A p \in InPlay' : block'[p] = block[p]
      BY <2>5 DEF ProcessOrder, OrderTable, TypeOK
    <3> QED
      BY <3>1, SameBlocks
  <2>6. CASE DeleteOrder(o)
    <3>1. InPlay' \subseteq InPlay /\ \A p \in InPlay' : block'[p] = block[p]
      BY <2>6 DEF DeleteOrder, TypeOK
    <3> QED
      BY <3>1, SameBlocks
  <2> QED
    BY <1>2, <2>1, <2>2, <2>3, <2>4, <2>5, <2>6 DEF OrderNext
<1>3. ASSUME NEW c \in Serial, VoucherNext(c) PROVE SerialsOrderedOnce'
  <2>1. UNCHANGED <<orderState, block>>
    BY <1>3 DEF VoucherNext, CreateVoucher, SetBrandVoucher, SetStateVoucher,
      AssociateVoucher, DisassociateVoucher, DeleteVoucher
  <2> QED
    BY <2>1, SameBlocks
<1> QED
  BY <1>1, <1>2, <1>3 DEF Next

\* As long as no client sends the range of an order under way, no serial number
\* is ordered twice: whatever the limit, the quantities and the number of orders.
THEOREM OrderedOnce ==
  ASSUME ~RangeSent
  PROVE  Spec => []SerialsOrderedOnce
<1>1. Init => SerialsOrderedOnce
  BY DEF Init, SerialsOrderedOnce, InPlay
<1>2. TypeOK /\ SerialsOrderedOnce /\ [Next]_vars => SerialsOrderedOnce'
  BY DisjointStep
<1> QED
  BY <1>1, <1>2, TypeCorrect, PTL DEF Spec

-----------------------------------------------------------------------------
\* The vouchers that the files of an order have brought, and what is there.
Brought(o) ==
  /\ \A c \in brought[o] : VoucherExists(c)
  /\ applied[o] = Cardinality(brought[o])

\* What the state of an order says of them.
Reflected(o) ==
  /\ orderState[o] = "RECEIVED" => Cardinality(brought[o]) = block[o].quantity
  /\ orderState[o] = "PARTIAL_RECEIVE" => Cardinality(brought[o]) < block[o].quantity
  /\ orderState[o] \in {"absent", "NEW", "REQUEST", "CANCELLED"} => brought[o] = {}

\* No voucher counts for two orders.
Apart(o, p) == o # p => brought[o] \cap brought[p] = {}

\* ReceivedIffComplete, order by order.
LEMMA OrderByOrder ==
  ReceivedIffComplete <=>
    /\ \A o \in Order \ lost : Brought(o) /\ Reflected(o)
    /\ \A o, p \in Order \ lost : Apart(o, p)
BY DEF ReceivedIffComplete, Brought, Reflected, Apart

\* Orders that a step does not concern.
LEMMA Unconcerned ==
  ASSUME NEW o \in Order, Brought(o), Reflected(o),
         brought'[o] = brought[o], applied'[o] = applied[o],
         orderState'[o] = orderState[o], block'[o] = block[o],
         \A c \in brought[o] : VoucherExists(c)'
  PROVE  Brought(o)' /\ Reflected(o)'
BY DEF Brought, Reflected

\* A file adds its fresh vouchers to those of its order.
LEMMA ProcessStep ==
  ASSUME TypeOK, ReceivedIffComplete, NEW o \in Order, NEW F \in SUBSET Serial,
         NEW br \in Brand, ProcessOrder(o, F, br)
  PROVE  ReceivedIffComplete'
<1>1. /\ lost' = lost /\ block' = block
      /\ \A c \in Serial : VoucherExists(c) \/ c \in Fresh(F) => VoucherExists(c)'
      /\ \A p \in Order \ {o} :
           brought'[p] = brought[p] /\ applied'[p] = applied[p] /\ orderState'[p] = orderState[p]
  BY DEF ProcessOrder, TypeOK, VoucherExists
<1>2. ASSUME NEW p \in Order \ lost, p # o
      PROVE  Brought(p)' /\ Reflected(p)'
  <2>1. \A c \in brought[p] : VoucherExists(c)'
    BY <1>1, OrderByOrder DEF Brought, TypeOK
  <2> QED
    BY <1>1, <1>2, <2>1, OrderByOrder, Unconcerned
<1>3. ASSUME o \notin lost
      PROVE  Brought(o)' /\ Reflected(o)'
  <2>1. brought'[o] = brought[o] \cup Fresh(F) /\ brought[o] \in SUBSET Serial
    BY <1>3 DEF ProcessOrder, TypeOK
  <2>2. brought[o] \cap Fresh(F) = {}
    BY <1>3, OrderByOrder DEF Brought, Fresh
  <2>3. IsFiniteSet(brought[o]) /\ IsFiniteSet(Fresh(F))
    BY <2>1, SerialFinite, FS_Subset DEF Fresh
  <2>4. Cardinality(brought'[o]) = Cardinality(brought[o]) + Cardinality(Fresh(F))
    <3>1. Cardinality(brought[o] \cap Fresh(F)) = 0
      BY <2>2, FS_EmptySet
    <3>2. Cardinality(brought[o]) \in Nat /\ Cardinality(Fresh(F)) \in Nat
      BY <2>3, FS_CardinalityType
    <3>3. Cardinality(brought[o] \cup Fresh(F))
            = Cardinality(brought[o]) + Cardinality(Fresh(F)) - Cardinality(brought[o] \cap Fresh(F))
      BY <2>3, FS_Union
    <3> QED
      BY <2>1, <3>1, <3>2, <3>3
  <2>5. applied[o] = Cardinality(brought[o]) /\ applied[o] \in Nat
    BY <1>3, OrderByOrder DEF Brought, TypeOK
  <2>6. applied'[o] = Cardinality(brought'[o]) /\ Received(o, F) = Cardinality(brought'[o])
    BY <2>4, <2>5 DEF ProcessOrder, TypeOK, Received
  <2>7. \A c \in brought'[o] : VoucherExists(c)'
    <3>1. \A c \in brought[o] : c \in Serial /\ VoucherExists(c)
      BY <1>3, <2>1, OrderByOrder DEF Brought
    <3> QED
      BY <1>1, <2>1, <3>1 DEF Fresh
  <2>8. Brought(o)'
    BY <2>6, <2>7 DEF Brought
  <2>9. Reflected(o)'
    <3>1. block[o].quantity \in Nat /\ block'[o] = block[o]
      BY <1>1, VouchersAssumption DEF ProcessOrder, TypeOK, Block
    <3>2. Received(o, F) <= block[o].quantity
          /\ orderState'[o] = IF Received(o, F) = block[o].quantity
                              THEN "RECEIVED" ELSE "PARTIAL_RECEIVE"
      BY DEF ProcessOrder, TypeOK
    <3>3. Received(o, F) \in Nat
      BY <2>5, FreshCount DEF Received
    <3> QED
      BY <2>6, <3>1, <3>2, <3>3 DEF Reflected
  <2> QED
    BY <2>8, <2>9
<1>4. \A p, q \in Order \ lost : Apart(p, q)'
  <2>1. \A p \in Order \ lost : p # o => brought[p] \cap Fresh(F) = {}
    BY OrderByOrder DEF Brought, Fresh
  <2>2. o \notin lost => brought'[o] = brought[o] \cup Fresh(F)
    BY DEF ProcessOrder, TypeOK
  <2>3. \A p, q \in Order \ lost : Apart(p, q)
    BY OrderByOrder
  <2> QED
    BY <1>1, <2>1, <2>2, <2>3 DEF Apart
<1>5. \A p \in Order \ lost : Brought(p)' /\ Reflected(p)'
  BY <1>2, <1>3
<1> QED
  BY <1>1, <1>4, <1>5 DEF ReceivedIffComplete, Brought, Reflected, Apart

\* Steps of orders that bring no vouchers, and steps of vouchers that take none away.
LEMMA QuietStep ==
  ASSUME TypeOK, ReceivedIffComplete, UNCHANGED <<brought, lost, applied>>,
         \A c \in Serial : VoucherExists(c) => VoucherExists(c)',
         \A o \in Order : Reflected(o) => Reflected(o)'
  PROVE  ReceivedIffComplete'
BY DEF ReceivedIffComplete, Reflected, TypeOK

\* What the files have brought and the state of an order change together.
LEMMA CompleteStep ==
  ASSUME ~RangeSent, TypeOK, ReceivedIffComplete, [Next]_vars
  PROVE  ReceivedIffComplete'
<1> USE DEF orderVars, voucherVars, following
<1>1. CASE UNCHANGED vars
  BY <1>1 DEF vars, ReceivedIffComplete, VoucherExists
<1>2. ASSUME NEW o \in Order, OrderNext(o) PROVE ReceivedIffComplete'
  <2>1. ASSUME NEW b \in Block, CreateOrder(o, b)
        PROVE  ReceivedIffComplete'
    BY <2>1, QuietStep DEF CreateOrder, Reflected, VoucherExists, TypeOK
  <2>2. ASSUME NEW b \in Block, ChangeNewOrder(o, b)
        PROVE  ReceivedIffComplete'
    BY <2>2, QuietStep DEF ChangeNewOrder, Reflected, VoucherExists, TypeOK
  <2>3. ASSUME NEW b \in Block, ChangeOrderUnderWay(o, b)
        PROVE  ReceivedIffComplete'
    BY <2>3, QuietStep DEF ChangeOrderUnderWay, Reflected, VoucherExists, TypeOK
  <2>4. ASSUME NEW new \in OrderStates, SetOrderState(o, new)
        PROVE  ReceivedIffComplete'
    BY <2>4, QuietStep DEF SetOrderState, OrderTable, Reflected, VoucherExists, TypeOK
  <2>5. ASSUME NEW F \in SUBSET Serial, NEW br \in Brand, ProcessOrder(o, F, br)
        PROVE  ReceivedIffComplete'
    BY <2>5, ProcessStep
  <2>6. CASE DeleteOrder(o)
    BY <2>6, FS_EmptySet DEF DeleteOrder, ReceivedIffComplete, VoucherExists, TypeOK
  <2> QED
    BY <1>2, <2>1, <2>2, <2>3, <2>4, <2>5, <2>6 DEF OrderNext
<1>3. ASSUME NEW c \in Serial, VoucherNext(c) PROVE ReceivedIffComplete'
  <2>1. CASE DeleteVoucher(c)
    BY <2>1 DEF DeleteVoucher, ReceivedIffComplete, VoucherExists, TypeOK
  <2>2. CASE ~DeleteVoucher(c)
    <3>1. UNCHANGED orderVars
      BY <1>3, <2>2 DEF VoucherNext, CreateVoucher, SetBrandVoucher, SetStateVoucher,
        AssociateVoucher, DisassociateVoucher
    <3>2. \A d \in Serial : VoucherExists(d) => VoucherExists(d)'
      BY <1>3, <2>2 DEF VoucherNext, CreateVoucher, SetBrandVoucher, SetStateVoucher,
        AssociateVoucher, DisassociateVoucher, VoucherExists, TypeOK, VoucherTable
    <3> QED
      BY <3>1, <3>2, QuietStep DEF Reflected
  <2> QED
    BY <2>1, <2>2
<1> QED
  BY <1>1, <1>2, <1>3 DEF Next

\* As long as no client sends the range of an order under way, an order is RECEIVED
\* when its files have created as many vouchers as it is for, and not before.
THEOREM CompleteWhenReceived ==
  ASSUME ~RangeSent
  PROVE  Spec => []ReceivedIffComplete
<1>1. Init => ReceivedIffComplete
  BY FS_EmptySet DEF Init, ReceivedIffComplete
<1>2. TypeOK /\ ReceivedIffComplete /\ [Next]_vars => ReceivedIffComplete'
  BY CompleteStep
<1> QED
  BY <1>1, <1>2, TypeCorrect, PTL DEF Spec

-----------------------------------------------------------------------------
\* Every step keeps what is known of the holders of a voucher.
LEMMA HoldersStep ==
  ASSUME TypeOK, HoldersInv, [Next]_vars
  PROVE  HoldersInv'
<1> USE DEF TypeOK, HoldersInv, VoucherExists, orderVars, voucherVars, following
<1>1. CASE UNCHANGED vars
  BY <1>1 DEF vars
<1>2. ASSUME NEW o \in Order, OrderNext(o) PROVE HoldersInv'
  <2>1. ASSUME NEW b \in Block, CreateOrder(o, b)
        PROVE  HoldersInv'
    BY <2>1 DEF CreateOrder
  <2>2. ASSUME NEW b \in Block, ChangeNewOrder(o, b)
        PROVE  HoldersInv'
    BY <2>2 DEF ChangeNewOrder
  <2>3. ASSUME NEW b \in Block, ChangeOrderUnderWay(o, b)
        PROVE  HoldersInv'
    BY <2>3 DEF ChangeOrderUnderWay
  <2>4. ASSUME NEW new \in OrderStates, SetOrderState(o, new)
        PROVE  HoldersInv'
    BY <2>4 DEF SetOrderState
  <2>5. ASSUME NEW F \in SUBSET Serial, NEW br \in Brand, ProcessOrder(o, F, br)
        PROVE  HoldersInv'
    BY <2>5 DEF ProcessOrder, Fresh
  <2>6. CASE DeleteOrder(o)
    BY <2>6 DEF DeleteOrder
  <2> QED
    BY <1>2, <2>1, <2>2, <2>3, <2>4, <2>5, <2>6 DEF OrderNext
<1>3. ASSUME NEW c \in Serial, VoucherNext(c) PROVE HoldersInv'
  <2>1. ASSUME NEW br \in Brand, CreateVoucher(c, br)
        PROVE  HoldersInv'
    BY <2>1 DEF CreateVoucher
  <2>2. ASSUME NEW br \in Brand, SetBrandVoucher(c, br)
        PROVE  HoldersInv'
    BY <2>2 DEF SetBrandVoucher, VoucherStates
  <2>3. ASSUME NEW new \in VoucherStates, SetStateVoucher(c, new)
        PROVE  HoldersInv'
    BY <2>3 DEF SetStateVoucher, VoucherTable, VoucherStates
  <2>4. ASSUME NEW s \in Service, NEW lapsed \in BOOLEAN, AssociateVoucher(c, s, lapsed)
        PROVE  HoldersInv'
    BY <2>4 DEF AssociateVoucher, Redeemable, BrandMatches
  <2>5. ASSUME NEW s \in Service, DisassociateVoucher(c, s)
        PROVE  HoldersInv'
    BY <2>5 DEF DisassociateVoucher
  <2>6. CASE DeleteVoucher(c)
    BY <2>6 DEF DeleteVoucher
  <2> QED
    BY <1>3, <2>1, <2>2, <2>3, <2>4, <2>5, <2>6 DEF VoucherNext
<1> QED
  BY <1>1, <1>2, <1>3 DEF Next

\* A voucher serves one service at most, of the voucher's brand: only its state,
\* read under the lock, stands against another redemption, and against another
\* brand while it serves.
THEOREM HeldByOneOfItsBrand == Spec => []HoldersInv
<1>1. Init => HoldersInv
  BY DEF Init, HoldersInv
<1>2. TypeOK /\ HoldersInv /\ [Next]_vars => HoldersInv'
  BY HoldersStep
<1> QED
  BY <1>1, <1>2, TypeCorrect, PTL DEF Spec

\* What RedeemedOnce says of one step.
KeepsRedeemed ==
  \A c \in Serial : voucherState[c] \in {"USED", "EXPIRED"} =>
        \/ ~VoucherExists(c)'
        \/ voucherState'[c] = voucherState[c] /\ holders'[c] \subseteq holders[c]

\* Every step keeps redeemed vouchers redeemed.
LEMMA RedeemedStep ==
  ASSUME TypeOK, [Next]_vars
  PROVE  KeepsRedeemed
<1> USE DEF KeepsRedeemed, TypeOK, VoucherExists, orderVars, voucherVars, following
<1>1. CASE UNCHANGED vars
  BY <1>1 DEF vars
<1>2. ASSUME NEW o \in Order, OrderNext(o) PROVE KeepsRedeemed
  <2>1. ASSUME NEW b \in Block, CreateOrder(o, b)
        PROVE  KeepsRedeemed
    BY <2>1 DEF CreateOrder
  <2>2. ASSUME NEW b \in Block, ChangeNewOrder(o, b)
        PROVE  KeepsRedeemed
    BY <2>2 DEF ChangeNewOrder
  <2>3. ASSUME NEW b \in Block, ChangeOrderUnderWay(o, b)
        PROVE  KeepsRedeemed
    BY <2>3 DEF ChangeOrderUnderWay
  <2>4. ASSUME NEW new \in OrderStates, SetOrderState(o, new)
        PROVE  KeepsRedeemed
    BY <2>4 DEF SetOrderState
  <2>5. ASSUME NEW F \in SUBSET Serial, NEW br \in Brand, ProcessOrder(o, F, br)
        PROVE  KeepsRedeemed
    BY <2>5 DEF ProcessOrder, Fresh
  <2>6. CASE DeleteOrder(o)
    BY <2>6 DEF DeleteOrder
  <2> QED
    BY <1>2, <2>1, <2>2, <2>3, <2>4, <2>5, <2>6 DEF OrderNext
<1>3. ASSUME NEW d \in Serial, VoucherNext(d) PROVE KeepsRedeemed
  <2>1. ASSUME NEW br \in Brand, CreateVoucher(d, br)
        PROVE  KeepsRedeemed
    BY <2>1 DEF CreateVoucher
  <2>2. ASSUME NEW br \in Brand, SetBrandVoucher(d, br)
        PROVE  KeepsRedeemed
    BY <2>2 DEF SetBrandVoucher
  <2>3. ASSUME NEW new \in VoucherStates, SetStateVoucher(d, new)
        PROVE  KeepsRedeemed
    BY <2>3 DEF SetStateVoucher, VoucherTable
  <2>4. ASSUME NEW s \in Service, NEW lapsed \in BOOLEAN, AssociateVoucher(d, s, lapsed)
        PROVE  KeepsRedeemed
    BY <2>4 DEF AssociateVoucher, Redeemable, BrandMatches
  <2>5. ASSUME NEW s \in Service, DisassociateVoucher(d, s)
        PROVE  KeepsRedeemed
    BY <2>5 DEF DisassociateVoucher
  <2>6. CASE DeleteVoucher(d)
    BY <2>6 DEF DeleteVoucher
  <2> QED
    BY <1>3, <2>1, <2>2, <2>3, <2>4, <2>5, <2>6 DEF VoucherNext
<1> QED
  BY <1>1, <1>2, <1>3 DEF Next

\* A voucher once redeemed or expired is never redeemed again.
THEOREM NeverRedeemedAgain == Spec => RedeemedOnce
<1>1. TypeOK /\ [Next]_vars => KeepsRedeemed
  BY RedeemedStep
<1> QED
  BY <1>1, TypeCorrect, PTL DEF Spec, RedeemedOnce, KeepsRedeemed
=============================================================================
