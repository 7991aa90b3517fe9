------------------------------ MODULE Vouchers ------------------------------
(***************************************************************************)
(* Voucher orders (/order/voucher) and vouchers (/device/voucher) as the   *)
(* policy opcodes of fm_order_pol, fm_device_pol and fm_voucher_pol govern *)
(* them.  An order names a block of serial numbers; processing a response  *)
(* file of the printer creates the vouchers of the file and tells from     *)
(* their number whether the order is complete; a service redeems a voucher *)
(* by being associated with it.                                            *)
(*                                                                         *)
(* One action is one PCM_OP_ORDER_* or PCM_OP_DEVICE_* call of a client    *)
(* with everything it nests; a refused call is a stuttering step.  Serial  *)
(* numbers share their first ten characters, without which the search for  *)
(* duplicates finds nothing, and are the numbers that follow.  An order    *)
(* has one element VOUCHER_ORDERS, hence one block, and a client that      *)
(* changes the block of a new order sends all of it.                       *)
(***************************************************************************)
EXTENDS Integers, FiniteSets

CONSTANTS
  Order,      \* poids of orders
  MaxSerial,  \* the last serial number of a block may not exceed it
  Quantity,   \* values of QUANTITY
  Service, Brand,
  BrandOf,    \* the brand of the account of each service
  RangeSent,  \* clients send serial numbers and quantities of orders under way
  None        \* field of an order or voucher that is absent

ASSUME VouchersAssumption ==
  /\ MaxSerial \in Nat
  /\ Quantity \subseteq Nat
  /\ BrandOf \in [Service -> Brand]
  /\ RangeSent \in BOOLEAN
  /\ None \notin Brand

Serial == 0 .. MaxSerial
Block == [start : Serial, quantity : Quantity]

VARIABLES
  orderState, block,
  applied,       \* QUANTITY_APPLIED: the vouchers received for an order so far
  voucherState, voucherBrand,
  holders,       \* the services each voucher is associated with
  brought,       \* the vouchers that the files of each order have created
  lost           \* orders with such a voucher that was deleted since

following == <<brought, lost>>
orderVars == <<orderState, block, applied, following>>
voucherVars == <<voucherState, voucherBrand, holders>>
vars == <<orderState, block, applied, voucherState, voucherBrand, holders, brought, lost>>

OrderStates == {"NEW", "REQUEST", "RECEIVED", "PARTIAL_RECEIVE", "CANCELLED"}
VoucherStates == {"NEW", "USED", "EXPIRED"}

OrderTable ==
  {<<"NEW", "REQUEST">>, <<"NEW", "CANCELLED">>,
   <<"REQUEST", "PARTIAL_RECEIVE">>, <<"REQUEST", "RECEIVED">>,
   <<"PARTIAL_RECEIVE", "PARTIAL_RECEIVE">>, <<"PARTIAL_RECEIVE", "RECEIVED">>}
VoucherTable == {<<"NEW", "USED">>, <<"NEW", "EXPIRED">>}

UnderWay == {"REQUEST", "PARTIAL_RECEIVE"}

\* The orders a search for serial numbers finds.
InPlay == {o \in Order : orderState[o] \notin {"absent", "CANCELLED"}}

VoucherExists(c) == voucherState[c] # "absent"

-----------------------------------------------------------------------------
(***************************************************************************)
(* Orders.                                                                 *)
(***************************************************************************)

\* The first serial number counts.
Last(b) == b.start + b.quantity - 1
Within(x, b) == b.start <= x /\ x <= Last(b)

\* Mutant of Overlap: a block inside the other one is missed.
OverlapOfEnds(old, new) == Within(new.start, old) \/ Within(Last(new), old)

Overlap(old, new) ==
  \/ Within(new.start, old) \/ Within(Last(new), old)
  \/ Within(old.start, new) \/ Within(Last(old), new)

\* The blocks compared must end within the limit, the stored ones too; an order
\* may overlap itself only.
Free(b, own) ==
  /\ Last(b) <= MaxSerial
  /\ \A o \in InPlay : Last(block[o]) <= MaxSerial
  /\ \A o \in InPlay : Overlap(block[o], b) => o \in own

CreateOrder(o, b) ==
  /\ orderState[o] = "absent"
  /\ Free(b, {})
  /\ orderState' = [orderState EXCEPT ![o] = "NEW"]
  /\ block' = [block EXCEPT ![o] = b]
  /\ UNCHANGED <<applied, following>> /\ UNCHANGED voucherVars

ChangeNewOrder(o, b) ==
  /\ orderState[o] = "NEW"
  /\ Free(b, {o})
  /\ block' = [block EXCEPT ![o] = b]
  /\ UNCHANGED <<orderState, applied, following>> /\ UNCHANGED voucherVars

\* The update of an order under way must come with the results of a response
\* file and without a deal; nothing else that is sent with it is examined.
ChangeOrderUnderWay(o, b) ==
  /\ orderState[o] \in UnderWay
  /\ RangeSent \/ b = block[o]
  /\ block' = [block EXCEPT ![o] = b]
  /\ UNCHANGED <<orderState, applied, following>> /\ UNCHANGED voucherVars

\* Clients set the states that no response file sets.
SetOrderState(o, new) ==
  /\ <<orderState[o], new>> \in OrderTable
  /\ new \in {"REQUEST", "CANCELLED"}
  /\ orderState' = [orderState EXCEPT ![o] = new]
  /\ UNCHANGED <<block, applied, following>> /\ UNCHANGED voucherVars

Fresh(F) == {c \in F : ~VoucherExists(c)}

\* Mutant of Received: records of vouchers that exist are not subtracted.
ReceivedWithDuplicates(o, F) == applied[o] + Cardinality(F)

\* COUNT less DUPLICATE, on top of what earlier files brought.
Received(o, F) == applied[o] + Cardinality(Fresh(F))

\* A response file with the serial numbers F, which nothing compares with the
\* block of the order; its vouchers come in brand br.
ProcessOrder(o, F, br) ==
  LET new == IF Received(o, F) = block[o].quantity
             THEN "RECEIVED" ELSE "PARTIAL_RECEIVE"
  IN /\ orderState[o] # "absent"
     /\ Received(o, F) <= block[o].quantity
     /\ <<orderState[o], new>> \in OrderTable
     /\ orderState' = [orderState EXCEPT ![o] = new]
     /\ applied' = [applied EXCEPT ![o] = @ + Cardinality(Fresh(F))]
     /\ voucherState' =
          [c \in Serial |-> IF c \in Fresh(F) THEN "NEW" ELSE voucherState[c]]
     /\ voucherBrand' =
          [c \in Serial |-> IF c \in Fresh(F) THEN br ELSE voucherBrand[c]]
     /\ brought' = IF o \in lost THEN brought ELSE [brought EXCEPT ![o] = @ \cup Fresh(F)]
     /\ UNCHANGED <<block, holders, lost>>

DeleteOrder(o) ==
  /\ orderState[o] \notin UnderWay \cup {"absent"}
  /\ orderState' = [orderState EXCEPT ![o] = "absent"]
  /\ block' = [block EXCEPT ![o] = None]
  /\ applied' = [applied EXCEPT ![o] = 0]
  /\ brought' = [brought EXCEPT ![o] = {}]
  /\ lost' = lost \ {o}
  /\ UNCHANGED voucherVars

-----------------------------------------------------------------------------
(***************************************************************************)
(* Vouchers.                                                               *)
(***************************************************************************)

\* Mutant of CreateVoucher: the brand is not passed on.
CreateVoucherBare(c, br) ==
  /\ ~VoucherExists(c)
  /\ voucherState' = [voucherState EXCEPT ![c] = "NEW"]
  /\ UNCHANGED <<voucherBrand, holders>> /\ UNCHANGED orderVars

CreateVoucher(c, br) ==
  /\ ~VoucherExists(c)
  /\ voucherState' = [voucherState EXCEPT ![c] = "NEW"]
  /\ voucherBrand' = [voucherBrand EXCEPT ![c] = br]
  /\ UNCHANGED holders /\ UNCHANGED orderVars

\* Mutant: the brand of a voucher in use changes.
SetBrandVoucherAlways(c, br) ==
  /\ VoucherExists(c)
  /\ voucherBrand' = [voucherBrand EXCEPT ![c] = br]
  /\ UNCHANGED <<voucherState, holders>> /\ UNCHANGED orderVars

SetBrandVoucher(c, br) ==
  /\ VoucherExists(c)
  /\ br # voucherBrand[c] => voucherState[c] = "NEW"
  /\ voucherBrand' = [voucherBrand EXCEPT ![c] = br]
  /\ UNCHANGED <<voucherState, holders>> /\ UNCHANGED orderVars

SetStateVoucher(c, new) ==
  /\ <<voucherState[c], new>> \in VoucherTable
  /\ voucherState' = [voucherState EXCEPT ![c] = new]
  /\ UNCHANGED <<voucherBrand, holders>> /\ UNCHANGED orderVars

\* Mutant of Redeemable: a used voucher that nobody holds is redeemed again.
RedeemableWhenFree(c) == VoucherExists(c) /\ holders[c] = {}

Redeemable(c) == voucherState[c] = "NEW"

BrandMatches(c, s) == voucherBrand[c] = BrandOf[s]

\* One service is expected, and the PIN of the voucher.  A voucher whose
\* EXPIRATION_T has passed changes to EXPIRED and is associated all the same.
AssociateVoucher(c, s, lapsed) ==
  /\ Redeemable(c)
  /\ BrandMatches(c, s)
  /\ voucherState' =
       [voucherState EXCEPT ![c] = IF lapsed THEN "EXPIRED" ELSE "USED"]
  /\ holders' = [holders EXCEPT ![c] = @ \cup {s}]
  /\ UNCHANGED voucherBrand /\ UNCHANGED orderVars

DisassociateVoucher(c, s) ==
  /\ s \in holders[c]
  /\ holders' = [holders EXCEPT ![c] = @ \ {s}]
  /\ UNCHANGED <<voucherState, voucherBrand>> /\ UNCHANGED orderVars

DeleteVoucher(c) ==
  /\ VoucherExists(c)
  /\ holders[c] = {}
  /\ voucherState' = [voucherState EXCEPT ![c] = "absent"]
  /\ voucherBrand' = [voucherBrand EXCEPT ![c] = None]
  /\ lost' = lost \cup {o \in Order : c \in brought[o]}
  /\ brought' = [o \in Order |-> IF c \in brought[o] THEN {} ELSE brought[o]]
  /\ UNCHANGED <<orderState, block, applied, holders>>

-----------------------------------------------------------------------------
Init ==
  /\ orderState = [o \in Order |-> "absent"]
  /\ block = [o \in Order |-> None]
  /\ applied = [o \in Order |-> 0]
  /\ voucherState = [c \in Serial |-> "absent"]
  /\ voucherBrand = [c \in Serial |-> None]
  /\ holders = [c \in Serial |-> {}]
  /\ brought = [o \in Order |-> {}] /\ lost = {}

OrderNext(o) ==
  \/ \E b \in Block :
       CreateOrder(o, b) \/ ChangeNewOrder(o, b) \/ ChangeOrderUnderWay(o, b)
  \/ \E new \in OrderStates : SetOrderState(o, new)
  \/ \E F \in SUBSET Serial, br \in Brand : ProcessOrder(o, F, br)
  \/ DeleteOrder(o)

VoucherNext(c) ==
  \/ \E br \in Brand : CreateVoucher(c, br) \/ SetBrandVoucher(c, br)
  \/ \E new \in VoucherStates : SetStateVoucher(c, new)
  \/ \E s \in Service, lapsed \in BOOLEAN : AssociateVoucher(c, s, lapsed)
  \/ \E s \in Service : DisassociateVoucher(c, s)
  \/ DeleteVoucher(c)

Next == (\E o \in Order : OrderNext(o)) \/ (\E c \in Serial : VoucherNext(c))

Spec == Init /\ [][Next]_vars

-----------------------------------------------------------------------------
(***************************************************************************)
(* Properties.                                                             *)
(***************************************************************************)

\* Types, and orders and vouchers have their fields as long as they exist.
TypeOK ==
  /\ orderState \in [Order -> OrderStates \cup {"absent"}]
  /\ block \in [Order -> Block \cup {None}]
  /\ \A o \in Order : orderState[o] # "absent" => block[o] \in Block
  /\ applied \in [Order -> Nat]
  /\ voucherState \in [Serial -> VoucherStates \cup {"absent"}]
  /\ voucherBrand \in [Serial -> Brand \cup {None}]
  /\ \A c \in Serial : VoucherExists(c) => voucherBrand[c] \in Brand
  /\ holders \in [Serial -> SUBSET Service]
  /\ brought \in [Order -> SUBSET Serial] /\ lost \subseteq Order

\* No serial number is in the blocks of two orders that are not cancelled: the
\* search for duplicates when an order is created or changed sees every way in
\* which two blocks can meet.
SerialsOrderedOnce ==
  \A o, p \in InPlay : o # p =>
    (block[o].start .. Last(block[o])) \cap (block[p].start .. Last(block[p])) = {}

\* An order that is RECEIVED has got as many vouchers as were ordered: different
\* ones that its own files created, none of which counts for another order.  In
\* PARTIAL_RECEIVE its files have created fewer, in the states before none.  So it
\* is whatever files came in which order, with whatever duplicates, until one of
\* these vouchers is deleted.  That they are the vouchers of the order's block is
\* not claimed: a file may bring any serial numbers.
ReceivedIffComplete ==
  /\ \A o \in Order \ lost :
       /\ \A c \in brought[o] : VoucherExists(c)
       /\ applied[o] = Cardinality(brought[o])
       /\ orderState[o] = "RECEIVED" => Cardinality(brought[o]) = block[o].quantity
       /\ orderState[o] = "PARTIAL_RECEIVE" => Cardinality(brought[o]) < block[o].quantity
       /\ orderState[o] \in {"absent", "NEW", "REQUEST", "CANCELLED"} => brought[o] = {}
  /\ \A o, p \in Order \ lost : o # p => brought[o] \cap brought[p] = {}

\* A voucher serves one service at most, is no longer NEW while it does, and has
\* the brand of the account it was redeemed in, although brands of vouchers
\* change and services come and go.
HoldersInv ==
  \A c \in Serial :
    /\ holders[c] # {} => voucherState[c] \in {"USED", "EXPIRED"}
    /\ \A s, t \in holders[c] : s = t
    /\ \A s \in holders[c] : voucherBrand[c] = BrandOf[s]

\* A voucher once redeemed or expired is never redeemed again, not even when
\* its service has given it up: it keeps its state and gains no service as long
\* as it exists.
RedeemedOnce ==
  [][\A c \in Serial : voucherState[c] \in {"USED", "EXPIRED"} =>
        \/ ~VoucherExists(c)'
        \/ voucherState'[c] = voucherState[c] /\ holders'[c] \subseteq holders[c]]_vars
=============================================================================
