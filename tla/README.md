# TLA+ models of the BRM policies

The repository holds the policy facilities modules (FM) of Oracle's Billing and
Revenue Management, with their headers, configuration data and some sample
applications. A policy FM is C code that the connection manager (CM) loads. A
client sends an opcode with a list of fields (an flist); the base FM of the area
runs the *standard* opcode and calls the *policy* opcode of the same area to
check, change or complete the fields; both read and write objects through
`PCM_OP_*` calls to a data manager. The base FMs and the data managers are not
in the repository: they are modelled from how the policies use them.

What these models are about is the part of the program with state that
policies must keep consistent over many calls: **devices** (IP addresses,
access points, telephone numbers, SIM cards, vouchers), the **services** that
hold them, the **orders** that bring vouchers, the **zone maps** that connection
managers cache, and the **payments** that runs collect while others come in.

## Contents

1. [Inventory of the system](#1-inventory-of-the-system)
2. [From code to actions](#2-from-code-to-actions)
3. [The modules](#3-the-modules)
4. [The runs](#4-the-runs)
5. [Proofs](#5-proofs)
6. [Disagreements found](#6-disagreements-found)
7. [Assumptions and what is not modelled](#7-assumptions-and-what-is-not-modelled)
8. [Plan](#8-plan)

## 1. Inventory of the system

### Modelled

| Component | State | Operations | What makes it hard | What makes it correct |
|---|---|---|---|---|
| IP and APN devices, `fm_ip_pol`, `fm_apn_pol` | state, DEVICE_ID, ACCOUNT_OBJ (brand), services of each device; the APN of each IP | create, set attr (rename an APN; change or move an IP), set state, set brand, associate, disassociate, delete | opcodes on an APN loop over its IPs with nested opcodes; checks read other devices without locking them; two settings of the duplicate check | an address in use is on a serving APN, in its brand, unique on it and frozen; ALLOCATED means held |
| Numbers and SIMs, `fm_num_pol`, `fm_sim_pol` | state, DEVICE_ID, brand, services; the service's ALIAS_LIST and status | create, set attr (renumber), set brand, set state, associate, disassociate, delete; canonicalize | associations and disassociations arrive in part; number and SIM of a service check each other in either order; the alias list is read, then written | ASSIGNED means held, limits per type of service, one account, one network element, IMSIs among the aliases, unique ids, quarantine before reuse |
| Device dispatch, `fm_device_pol` | none of its own | selects the policy of the class; state table; refuses to delete a device with services | every standard opcode passes here | part of the actions of every device |
| Vouchers, `fm_voucher_pol` | state, brand, holder | create, set brand, set state, associate (redeem), disassociate, delete | an expired voucher is not refused; state is all that prevents a second redemption | redeemed once, by one service of its brand |
| Zone maps, `fm_zonemap_pol` | the map in the database; hash table of each CM process, startup list, shared cache; the trie and the tree in a map's blob | get lineage; set zone map; conversion of old formats; startup | a copy is checked once per interval, in three kinds of cache; a lookup may write the map; allocation counts what another pass will need | an answer is at most an interval and a call old; conversions keep what was committed; every lookup ends; a number is found in the zone of its longest prefix; a row leads to its zone |
| Payments, `fm_pymt_pol` | pending amounts and holds of billinfos; checkpoints; status and flags of accounts; variables of the loops over a batch | PRE_COLLECT, COLLECT, VALIDATE_PAYMENT | runs die after the processor was asked; bills and operators come in between; variables outlive the turn of a charge | nobody is charged twice; what was billed is pending, held or paid; inactive for debt means debt; a payment is judged on its own |
| Voucher orders, `fm_order_pol`, `fm_voucher_pol` | state, block of serial numbers, quantity received | create, set attr, set state, process a response file, delete | blocks are compared by their ends; response files come again or in parts | no serial number ordered twice; RECEIVED means as many vouchers as ordered |

How they meet: `fm_device_pol` calls the policy of a device's class; the APN
policies call `PCM_OP_DEVICE_SET_BRAND`, `_SET_STATE` and `_DELETE` on the
APN's addresses; the IP policies open a NEW APN with `PCM_OP_DEVICE_SET_STATE`;
the NUM and SIM policies update the service they are associated with
(`PCM_OP_CUST_UPDATE_SERVICES`) and search for the other device of the service;
the standard ORDER_PROCESS opcode creates the vouchers of a response file by
`PCM_OP_DEVICE_CREATE`. The state tables (`sys/data/config/pin_device_state_*`,
`pin_order_state_voucher`) are loaded into `/config` objects that the standard
SET_STATE opcodes consult. Zone maps and payments meet the rest through the base
FMs only: rating asks for lineages, and the collection changes the status of
accounts with `PCM_OP_CUST_SET_STATUS`.

### Not modelled

| Component | What it does | Why it is not modelled |
|---|---|---|
| `fm_trans_pol` | hooks of transactions: two calls to publishers | both publishers, and the context they share, are outside the repository |
| `fm_prov_pol` | compares the answer of a network platform with the order | one answer, one order, no state of its own |
| `fm_content_pol` | authorization and accounting of content | the recording that a search for duplicates could race with is in the base FM |
| `fm_act_pol` | checks for logins, candidates for rating, authorization hooks | lists built per call, no state |
| `fm_cust_pol` | preparation and validation of registrations | functions of one flist; the largest part of the code, and within reach of tests |
| `fm_subscription_pol`, `fm_bill_pol`, `fm_rate_pol`, `fm_collections_pol`, `fm_ar_pol`, `fm_bal_pol`, `fm_gl_pol`, `fm_remit_pol`, `fm_tcf_pol`, `fm_adu_pol`, `fm_contract_pol`, `fm_price_pol` | hooks and calculations of one call | the state they are about is kept by base FMs outside the repository |
| `fm_inv_pol` | layout of invoices | text formatting |
| `fm_process_audit_pol`, `fm_repl_pol`, `fm_ifw_sync_pol` | audit objects, pushes to a directory, events for the rating engine | the partners they must agree with are outside the repository |
| `cm`, `apps/*`, `sys/amt`, `sys/archive`, `string_masking.c`, `tools/redact.py` | start of the CM, samples, migration SQL, an operator's script, helpers | no protocol of their own, or generated |

`PROJECT.json` lists them with their files.

## 2. From code to actions

* **One action is one opcode call of a client**: the standard opcode, the policy
  opcode it calls, and every nested opcode the policy calls. So `SetBrandApn`
  changes the brand of the APN and of all its IPs, and `CreateIp` opens the APN.
  `IpApnSessions` takes this apart again (below).
* **A policy that sets the error buffer refuses the call**; the transaction is
  rolled back. A refused call is a stuttering step, so the conditions of early
  returns are the guards of the action, negated.
* **Objects** are functions from poids to field values. A poid is not reused:
  devices go from `"absent"` to `"deleted"`. Vouchers are known by their serial
  number, which may be created again after a deletion, and orders likewise.
* **Searches** are set comprehensions (`IpsOf`, `NumsOf`, `InPlay`). Where the
  code reads only the first row of a search, the model takes any row with `\E`:
  the order of rows is not determined.
* **State tables** are sets of pairs, taken from the shipped configuration.
* **Names** follow the code: the policy `fm_ip_pol_device_associate` is
  `AssociateIp`, `fm_apn_pol_set_ip_brand` is the part of `SetBrandApn` over
  `IpsOf(a)`. `PROJECT.json` maps each definition to its lines.
* **Mutants.** Each module holds a few variants of its definitions, marked
  `Mutant` in their comment: a bug that would be plausible at that place. They
  are used in no specification. Every property is violated under at least one.
* **Where one call is too coarse**, it is taken apart at the points where others
  can come in between: a lookup in a zone map is a state machine with one action
  for each access to the database or to a cache, and a collection is the search,
  the sending, the answer and the collecting of the answer.

## 3. The modules

### IpApn, AddressPool, IpApnSessions

`IpApn` has one action for each opcode on IPs and APNs. `RangeCheck` is the
setting `ip_device_dup_check_type` of the CM's `pin.conf`. Its properties:

* `AllocatedOnServingApn`, `AllocatedIffServices`: an address is ALLOCATED exactly
  while a service holds it, and its APN exists and is USABLE (or still NEW with
  `RangeCheck`, which skips the step that opens it);
* `AddressUnique`, `ApnNameUnique`: DEVICE_IDs are unique where they must be,
  through creations, renames and moves, each with a search of its own;
* `IpOnOpenedApn`: an APN with addresses has left NEW;
* `ServicesInBrand`, `BrandMovesTogether`: a service never holds an address of
  another brand, and the brand of an APN and its addresses changes in one step;
* `AllocatedIsFrozen`: no step changes the address, APN, brand or name an
  address in use relies on;
* `ImplementsPool`: `IpApn` implements `AddressPool`.

`AddressPool` is the abstract promise: access points that open and close, and
addresses that are put, taken and released, an address being in use on an open
access point only. The refinement mapping reads `open` from the APN's states,
`place` from the APN of existing IPs and `holders` from the services.

`IpApnSessions` runs two CM sessions whose opcodes overlap: a policy reads what
it checks (`Begin...`), the transaction commits later (`Commit...`), and an APN
opcode visits its IPs one at a time (`NestedCall`). It is generous to the code:
a session locks each device its opcodes name until its transaction ends. What is
only read or counted is not locked, as no policy asks for that. `HeldIpKeepsBrand`
and `SessionInv` then depend on the nested call reading the IP again
under its lock (`NestedPermitted`).

### ApnName, NumCanon, KeptChars, AliasList

Three small pieces that decide what devices are called, model-checked by
`MCNames` together with the structures of a zone map; it chooses one part at the
start:

* `ApnName`: the trim of a new APN's name in place, byte by byte, with the
  `memmove` that leaves the terminator behind;
* `NumCanon`: the canonical form of a number, taken up to twice as the policies do;
  `KeptChars` is the loop that copies some characters and drops the others, which
  it shares with the rows of a zone map;
* `AliasList`: the element ids of ALIAS_LIST in a service while devices come and
  go; `Exclusive` says that the service is locked from the read to the commit
  (with `FALSE` TLC finds a lost alias at once, which is listed as a hazard and
  not as a finding: the lock is taken outside the repository or not at all).

### ZoneTrie, ZoneTree, ZoneMapCache

A zone map is sent as zones with rows (prefixes of numbers) and is stored as a
blob with two structures. `ZoneTrie` inserts the sorted rows into a trie whose
nodes are followed by as many slots for children as `NumChildNodes` counts, in a
blob as long as `NumOfNodes` counts in another pass. `LongestPrefixFound`
compares the search, for every number of a bounded length, with the definition
of the longest prefix; `SpaceIsExact` says that both counts fit. The latter is
stated for rows without characters that the canonical form drops: with them, the
slots are counted from one string and the path is another. A child then may be
written behind the slots of its node, over the next one (`Overrun`), or a slot
may be left, which the walk over the finished blob takes for a node (`Gaps`). The
code goes on in both cases, with a message in the log at most; the model ends
the build as `"overrun"` or `"gaps"`, and `LongestPrefixFound` speaks of tries
that fit (`"built"`) only. In the run these are the tables without dropped
characters: with one, there is an overrun or a gap. `ZoneTree` lays the zones out and follows the
positions that the lineage of a row consists of: `RowsLeadToTheirZone`.

`ZoneMapCache` follows the copies of one map in the three settings of
`startup_cache_type`. A map is identified by the commit of the administrator it
comes from; its revision also grows when a lookup converts it from an older
format (`ReadRaw`, `CommitConverted`, and `ReadDerived`, which reads what the
commit, or one after it, has derived). Calls fail (`Fail`), and processes die in
the middle of a lookup (`Crash`), when the shared cache survives.

A lookup that has found the shared copy outdated goes to `retry_lookup` whatever
the load brought (`StartsOver`, `get_lineage.c:324`). After a failed one
(`LoadFails`) it takes its error along (`work.failed`), finds the copy that it has
postponed itself, and the answer from that copy overwrites the error (`FindInShm`):
the caller gets a lineage from a map just found outdated. If the copy is due
again by then, it is postponed once more and the lookup ends with the error.

* `AnswersFresh`: an answer is from a map that was in force at most an interval
  and a call ago. The exceptions are named: the check that was due has failed
  (the time is noted before the check, so nobody checks again for an interval),
  or the load after it has, as above,
  the map was emptied since (the shared cache cannot hold an empty one and keeps
  the old), another process is just refreshing the shared copy, or it was loaded
  at startup without a time (no check is ever due for it);
* `LookupsKeepTheMap`: a conversion never replaces what an administrator
  committed, given `CommitChecks`, that the commit of the base FM refuses an
  outdated revision;
* `CacheInv`, the invariant behind both: `LookupInv` (types, and what lookups
  may write back) and `CopiesAreRecent`, which says what every copy is worth
  between two checks: the one a lookup works on (`LookupIsRecent`), the one in
  the hash table of a process (`HashIsRecent`) and the shared one
  (`ShmIsRecent`, unless some process refreshes it just then: `Refreshes`);
* `LookupsEnd`: a lookup that starts over ends.

### PreCollect, Ledger, Collection, PaymentBatch

`PreCollect` is the decision on one charge (`Verdict`), used by both others.

`Ledger` is the abstract promise of a collection: for each billinfo, what is
owed, reserved and paid. It has no runs, checkpoints, answers or statuses. What
is owed comes from bills (`Owe`), and goes into what is reserved (`Reserve`) or
paid (`Pay`); what is reserved is paid later (`Settle`); an account may be
struck from it (`Strike`).

`Collection` has runs that search for checkpoints, send charges and collect
their answers, with bills, changes of pay type, operators and deaths of runs in
between. The programs that run it, the charge opcode and the processor are
external. Charges are "ready" in the memory of a run and lost with it; from
"sent" on they have a checkpoint, and the recovery takes them through the same
policy. `missed` remembers the accounts for which a search did not find a charge
that was there. There are four ways to miss one: the other run had not sent it
yet; the search is by the pay type of the first charge of the batch; the charge
is a deposit that waits with PIN_CHARGE_RES_DEPOSIT_PENDING (777), below the 888
that the search begins at (`PendingResults`, for the commands in `Deferred`); or
the batch came with PIN_PAYMENT_BATCH_CHKPTS and is not searched for at all
(`searched`). All four are listed as hazards, and all properties except those
accounts. A result that COLLECT has no case for ends in an error and does
nothing (`Unknown`). Refunds are left out here: they pay out a credit balance,
which this module does not have.

* `ChargedOnce`: no customer pays more than was billed;
* `CollectionInv`: what was billed is pending, authorized or paid (`Balanced`),
  one run has charges of an account (`OneRunPerAccount`), a charge is for no more
  than it was computed from (`ChargesAreCovered`), debtors have something pending
  (`DebtIsPending`);
* `DebtorsOwe`: an account is inactive for debt only while a bill is not paid.
  An operator's suspension in between is kept by flags; an account with a declined
  deposit is excepted, as a deposit never lifts what its decline has set;
* `ImplementsLedger`: `Collection` implements `Ledger`. The customer has paid
  when the processor says so, before COLLECT enters it: the refinement mapping
  takes what is in flight (`InFlight`) off what is pending and what is held.
  A bill is `Owe`, an answer `Pay` or `Settle`, collecting an authorization
  `Reserve`, a search that misses a charge `Strike`; everything else, deaths of
  runs, declines and the collecting of payments included, is a stutter.

`PaymentBatch` takes a batch of external payments through the turns of
VALIDATE_PAYMENT, with the local variables of its loop (`Local`), and through
the verdicts of PRE_COLLECT. A freed reason is read as any value (`Readable`).
`ChargesAreIndependent`: what is decided about a payment is what would be
decided if it came alone, as long as no payment before it leaves traces. Those
that do (a refund, no billinfo, a reason: `LeavesTraces`) are listed as hazards.
`BatchSpec` is stated for batches of any length of any charges (`Charge`); the
run takes up to `MaxBatch` of them.

### NumSim

Numbers and SIMs together, since they meet in the service. A service in a
SERVICES array may be a plain account (`NoType`). `OneOfEach` says that callers
give a service at most one number and one SIM. Properties:

* `AssignedIffServices`: the policies decide from *counts* whether a device lost
  its last service; this says that the count is right in every order of partial
  calls;
* `TypesWithinLimits`: two lines of telephony and one service of another type
  per SIM, however the associations are split;
* `DeviceInAccount`: the services of a device are of one account of its brand;
* `ImsisAreAliases`: the aliases of a service hold exactly the IMSIs of its SIMs,
  whichever came and went;
* `SameNetworkElementOfPair`: number and SIM of a service agree on the network
  element (given `OneOfEach`);
* `DeviceIdsUnique`, with the padding of a SIM's id removed before the search;
* `LeavesByQuarantine`: a number that lost its last service is quarantined and
  keeps its brand until that ends.

### Vouchers

Orders and vouchers. A block is a start and a quantity; `Overlap` is the
four-way comparison of ends in `fm_voucher_pol_utils_is_valid_fld`. `Received`
is COUNT less DUPLICATE on top of QUANTITY_APPLIED. An expired voucher changes to
EXPIRED and its association goes on without an error. `RangeSent` says that
clients send serial numbers and quantities with the update of an order under
way; otherwise such an update leaves the block as it is. `brought` remembers which
vouchers the files of an order have created, and `lost` the orders of which one
was deleted since; no action depends on them. Properties:

* `SerialsOrderedOnce`: no serial number is in the blocks of two orders;
* `ReceivedIffComplete`: a RECEIVED order has got as many different vouchers as
  were ordered, by files of its own and counted for no other order; with fewer it
  is in PARTIAL_RECEIVE. Nothing is claimed of their serial numbers, which no code
  in the repository compares with the block: a file may bring the vouchers of
  another order, which then are duplicates in that order's file;
* `HoldersInv`: a voucher has one holder at most, of its brand, and none while it
  is NEW; `RedeemedOnce`: once redeemed or expired it is never redeemed again.

## 4. The runs

| Run | Instance | Shows |
|---|---|---|
| `ip_apn` | 2 IPs, 2 APNs, 2 addresses, 2 names, 2 services (one of a brandless account), 2 brands | all properties of `IpApn` and the refinement, 133,633 states |
| `ip_apn_sessions` | 2 sessions over 2 IPs on one APN, a second APN, 1 service | the nested calls protect addresses allocated meanwhile, 719,354 states |
| `ip_apn_skew` | the same | violation: ALLOCATED on UNUSABLE |
| `names` | numbers up to 6 symbols, names up to 5 bytes, 3 devices, up to 3 rows of up to 2 characters (one of three is dropped), up to 6 zones | forms are fixed and unique, prefixes and zones are found, 20,115 states |
| `apn_name_indented` | names up to 5 bytes | violation: a name that begins with a blank |
| `num_sim` | 2 numbers on 2 elements, 1 SIM, 3 lines and a plain account, 2 areas | all properties of `NumSim`, 265,160 states |
| `num_sim_renumbered` | 1 number, 2 SIMs, 3 lines | violation: an old MSISDN stays |
| `vouchers` | 2 orders, serial numbers 0..2, quantities 0..3, 2 services of one brand, vouchers of 2 | all properties of `Vouchers`, 896,885 states |
| `vouchers_resent` | the same with `RangeSent` | violation: a serial number ordered twice |
| `zonemap_cache` | 2 processes in each kind of cache, 1 commit, times 1 to 4, interval and call of 1 | all properties of `ZoneMapCache`, 620,403 states |
| `payments` | 2 runs, an account with 2 billinfos, 2 pay types, 3 bills; batches of up to 2 of 65 payments; deposits may wait as 777 | all properties of `Collection` and `PaymentBatch` and the refinement, 334,073 states |
| `payments_unmatched` | the same | violation: an unmatched failure passes |

**Bounds.** `MaxAddr`, `MaxSerial`, `MaxSent`, `MaxLen`, `MaxElem` bound data;
`MaxBilled`, `MaxBatch`, `MaxTime` and `MaxCommit` what happens in the two runs
described below; nothing else bounds the number of calls. Two APNs are the least with which an address
moves, two addresses the least with which one of an APN's addresses is in use
and the other is not; three lines exceed the limit of two; three serial numbers
have blocks that are apart, touch, overlap, contain each other and are empty,
and a quantity of 3 lets a block end beyond the limit. The proofs of section 5 hold
for all values, so bounds matter only for `LookupsEnd` and the violations.

In `zonemap_cache`, four units of time hold a startup, an interval that ends, a
call within it and the next check; one commit is enough for a copy to be
outdated, and a second map only repeats it (`MaxTime`, `MaxCommit`). In
`payments`, `MaxBilled` lets a bill come while charges of both billinfos are
under way; a batch of two (`MaxBatch`) has every pair of "before" and "after", and the
payments differ from three common ones in one thing at a time. `MCPayments`
does not explore what follows once a search has missed a charge (`CONSTRAINT
Searched`): with one account, everything is excepted from then on. For the same
reason only deposits are `Deferred` there: the theorems hold for any commands.
`num_sim` has one SIM, so that no two share a DEVICE_ID there: that half of
`DeviceIdsUnique` rests on its proof.

`MCNames` and `MCPayments` put independent parts into one run, as a choice in
the initial state; in each behaviour the variables of the other parts keep
their values.

**Symmetry** is used over devices, names, lines, areas, orders,
services, billinfos and runs: no definition orders them or chooses among them. It is not
used with the liveness property.

**Fairness.** `ZoneMapCache` states weak fairness of the steps of a lookup: an
opcode that a process has begun runs to its end, as it is a synchronous function
of a process that is scheduled. Nothing is assumed of calls, commits, the clock
or deaths, and a step may always fail where the call to the database can.
`LookupsEnd` then shows that the two loops back to the start of the search end:
one is bounded by `lookup_attempts`, the other only because the refreshed copy is
not due when the search meets it again. No other specification states fairness:
clients call or do not, each call is answered in one synchronous pass, and the
processor of payments owes no answer.

**Deadlock** is not checked where all devices may end deleted, when no call is
accepted any more (`IpApn`, `IpApnSessions`, `NumSim`), or where a behaviour comes to an end
(`MCNames`, the batches of `MCPayments`, the clock of `ZoneMapCache`).
`Vouchers` is checked for it.

## 5. Proofs

The proof modules extend the specifications; all obligations are checked by
TLAPS from the named assumptions of the modules (types and distinctness of
constants, finiteness of the sets of services and of what is counted). They hold
for any sets of devices, services, brands, orders, runs, processes and charges,
any alphabets, and names, numbers, rows, trees of zones and batches of any
length. Every property of a passing run is stated by a theorem but two, the
liveness property `LookupsEnd` and `AliasPerDevice`.

* **IpApnProofs.** `TypeCorrect`, then the inductive invariant `UseInv`:
  existing IPs have an APN and an address; ALLOCATED addresses are on APNs that
  are NEW or USABLE; IPs are on opened APNs; ALLOCATED means held.
  `AllocatedOnServingApn` alone is not inductive: an association refuses an
  UNUSABLE APN only, so that the APN is USABLE afterwards needs that no IP is on
  a NEW one (`IpOnOpenedApn`), and a disassociation releases an address by counts,
  which needs that ALLOCATED means held. From `UseInv` follow `AllocatedIsServed`,
  `AllocatedIsHeld`, `ApnsOfIpsOpened`, `BrandsRespected`, `AddressesUnique` (without
  `RangeCheck`), the action properties `FrozenWhileAllocated` and
  `BrandsMoveTogether`, and `PoolImplemented`: initial states map to initial
  states and each of the actions maps to an action of `AddressPool` or a stutter. `ApnNamesUnique`
  needs the types only.
* **IpApnSessionsProofs.** `SessionInv` says what each session may rely on until
  it commits (`Checked`): nothing of what it counted, but the state and the brand
  of every IP it has read under a lock that it still has. `StillChecked` is the
  frame: nobody writes an IP that another session has locked. `NestedStep` is where
  the code earns it, by the read in each nested call. `HeldIpsKeepTheirBrand`
  follows for any number of sessions.
* **NumSimProofs.** The policies compare counts: `RemoveAll` states that taking
  as many services away as a device has leaves none, by the cardinalities of
  finite sets. With it `AssignedWhileHeld` is inductive together with the types.
  `PairInv` strengthens `SameNetworkElementOfPair`: with callers that give one of
  each, a service has at most one number and one SIM, so the first row of the
  code's search is the only one. `TypesLimited` uses `FewerOfType`, that sets only
  shrink on disassociation. `IdsUnique`, `ImsisFollowSims`, `OneAccountPerDevice`
  and `QuarantineKept` complete the component.
* **VouchersProofs.** `OverlapSeesAll`: the comparison of ends is complete, that
  is, two blocks that share a serial number satisfy `Overlap`. Then
  `FreeIsDisjoint` and `NewBlock` give `OrderedOnce`; For
  `CompleteWhenReceived`, what a file adds to QUANTITY_APPLIED is what it creates,
  since no fresh voucher is among those that files have brought before
  (`ProcessStep`); both assume that the range of an order under way is not sent, and `vouchers_resent` shows why.
  `HeldByOneOfItsBrand` is inductive together with the types;
  `NeverRedeemedAgain` is the action form.
* **ZoneMapCacheProofs.** `LookupsKeepTheMap` says nothing of lookups under way,
  so it is not inductive. `LookupInv` adds that no process works on a revision
  that does not exist yet, and that one about to commit a conversion of the
  present revision has read the present zones; since every commit makes a new
  revision, an administrator's commit in between leaves the conversion with an
  old revision, which the commit refuses (`CommitChecks`, the one assumption).
  The lemmas take the variables apart: a step's effect on the work of a process
  (`WorkNamesRevision`), who may come to commit (`AboutToCommit`), and what the
  commit writes (`WrittenBack`).

  `LineagesAreFresh` needs to know what the copies are worth that no answer has
  been taken from yet, which is `CopiesAreRecent`. The time in an entry is noted
  before its revision is checked, and the reading takes as long as a call at
  most; so until the next check is due, the map in an entry was in force within
  the last interval and call. The shared copy is either recent in that sense or
  being replaced by a process that `Refreshes` it. `RevisionTells` is what the
  check rests on: equal revisions mean equal maps, given `CommitChecks`. There is
  one lemma for each step of a lookup and of the world (`...Recent`), which
  concerns the process that takes it; `OthersRecent` and `ShmKept` are the
  frame, and `RecentStep` combines them to `CacheInvariant`.
* **CollectionProofs.** `ChargedOnce` needs to know where the money is:
  `Balanced` is an equation of what was billed with what is pending, held and
  charged, in which a payment that is not collected yet counts twice. An answer
  keeps it (`AnswerStep`) if no other charge of the billinfo is taken, which is
  `OneRunPerAccount`; collecting keeps it (`PassedBalance`) if what is cleared
  is the whole amount, which is `ChargesAreCovered`. `SendableAlone` is the link to
  the code: a search that sees every charge lets a new one pass only if there is
  none. `PassedDebt` and `DeclinedStep` are the two halves of `DebtIsPending`: a
  decline leaves something pending, and the charge that clears it reactivates.
  The theorems hold for any number of runs, accounts, billinfos and pay types.

  `LedgerIsKept` is the refinement, from the same invariant (`LedgerStep`). While
  the account has not been struck, one charge at most of a billinfo is under way
  (`Alone`), so one amount at most is in flight (`OnlyOneInFlight`): an answer
  turns it into a payment of no more than what is owed (`AnswerEntered`), and
  collecting it takes the same amount off both terms of the mapping
  (`PassedEntered`), which again is where `ChargesAreCovered` is needed. The
  steps that change nothing in the ledger are those that leave the passed charges
  as they are (`NotEntered`).
* **PaymentBatchProofs.** `ChargesDecidedAlone` compares the variables of a
  loop in a batch with those of a loop that has just begun. `LoopsStartAfresh`
  says that they agree in every variable that decides something, as long as no
  earlier charge left traces; this is inductive, because each function that a
  turn calls keeps the amount of the charge and gives a reason to suspended and
  failed ones only (`FailedPaymentKeeps`, `ForSuspenseKeeps`, `CheckedKeeps`,
  `DistributedKeeps`, combined in `TurnKeeps`). Then every turn is a first turn
  (`EveryTurnIsFirst`), and PRE_COLLECT's verdicts follow (`Verdicts`,
  `MinimumKept`).
* **NamesProofs.** The data structures and conversions, part by part. What a loop
  computes is a recursive function here, which TLAPS knows only once it is shown
  to exist (`KeptExists`, `TotalExists`, `PathExists`, `AtExists`, `ListExists`),
  and induction over positions goes through the least counterexample (`Least`,
  `Greatest`, `UpTo`).
  * `CanonicalFormIsFixed`: a canonical form has a length in which nothing is
    left to drop or to pad. `UnindentedNameIsKept`: of a name that does not
    begin with a blank the trim finds the last other byte.
  * `LongestPrefixIsFound`: by `TrieInv`, the nodes are the beginnings of the
    inserted paths, each with the characters that follow it and the row that ends
    there. `Walk` is how far a number leads along nodes (`WalkLeadsAlong`); the
    search visits its beginnings in turn and keeps the last row it meets
    (`SearchFinds`, `MatchesEnd`). The theorem is about tries that fit their
    slots; by the next one, all do where no character is dropped.
  * `BlobIsFilled`: the rows that share a beginning are next to each other
    (`RowsBetween`, from the order of the rows, `OrderIsTransitive`), so a node has
    a child for each change of the following character, which is what
    `NumChildNodes` counts (`SlotsCounted`); a row adds as many nodes as it has
    characters beyond those it shares with the row before it, which is what
    `NumOfNodes` adds up (`NodesGrow`, `NodesCounted`). Slots that suffice at any
    time (`Fits`) leave neither overruns nor gaps (`NotMisledStep`).
  * `RowsAreLed`: by `TreeInv`, the zones that have been served are laid out in
    the blob with their subzones next to each other, in the order of their
    numbers (`TreeServes`); in the end all are (`AllPlaced`), and the positions of
    a lineage, followed from the root, lead to the zone (`PathsLead`).

Only model-checked: `LookupsEnd`, since liveness and ENABLED are out of reach of
the installed back ends; and `AliasPerDevice`, which assumes that sessions exclude
each other on a service (`Exclusive`). The code shows no lock for that, so it is
checked for what it says of the element ids and not proved in general.

## 6. Disagreements found

Each is a run with an expected violation and an entry under `findings`, with
the quoted line.

* An APN is set UNUSABLE while an address of it is being associated (`ip_apn_skew`).
* A name that begins with a blank keeps bytes of its old form (`apn_name_indented`).
* A renumbered line keeps its old MSISDN for good (`num_sim_renumbered`).
* The range of an order under way is not validated (`vouchers_resent`).
* The failure of a payment that cannot be found is refused and then passed when
  payments are not suspended (`payments_unmatched`).

Three more are behaviours of the models that no run singles out: with the range
setting (`RangeCheck`), a creation without END_ADDRESS is stored without a search;
PORT_IN_NEW cannot be associated, as policy and state table disagree; and of
several numbers of a service only one is compared with its SIM, which is why
`SameNetworkElementOfPair` assumes `OneOfEach`.

## 7. Assumptions and what is not modelled

* The standard opcodes of the base FMs, `PCM_OP_CUST_UPDATE_SERVICES` and the data
  managers are external: a standard opcode calls its policy, then writes what the
  policy returned, in one transaction.
* Callers associate services that are not on the device yet and disassociate
  services that are. Clients do not set a number or SIM to ASSIGNED, or out of it,
  by their own SET_STATE, which the policies do not refuse (`fm_device_pol_set_state.c:132`).
* Network elements of numbers and SIMs do not change: no policy validates such a
  change. A SIM stands for its IMSI. Both device classes exist, so searches for them succeed.
* Services lent to a SIM during its provisioning bypass the policies and are left out.
* Serial numbers of vouchers share their first ten characters, without which the
  search for duplicates finds nothing; a redemption brings one service and the
  right PIN; clients set orders to REQUEST and CANCELLED only; one response file
  is processed at a time, as QUANTITY_APPLIED is read by the caller.
* An order has one element VOUCHER_ORDERS: the creation and the search for
  duplicates look at one (`order_create.c:209`, `utils.c:247`), although changes and
  response files loop over several (`order_set_attr.c:403`, `order_process.c:191`).
  A client that changes the block of a new order sends all of it: the stored half
  of a partial change is looked for with the element id and cookie of another
  list (`order_set_attr.c:448`) and may be missing. Of several services in one
  redemption only the brand of the last is compared (`device_associate.c:600`).
* The file of an order may bring any serial numbers; what the base opcode that
  reads it compares them with is not in the repository.
* Left out of orders and vouchers: deals, expiry dates as dates, batch sizes, the
  brand of an order and its associations. They do not touch the state modelled here.
* Vanity, category and dealer of numbers are data without rules.
* Creations of the same id by two sessions are not interleaved: whether a unique
  index stands against them is not visible in the repository. For the same reason
  deletions of two APNs that lock shared IPs in different orders are left out.
* Zone maps: the byte order of blobs, the chains of the hash table and nodes as
  offsets. The poid that the reply shares with the cache is a pointer in C and is
  taken to stay valid. Commits of administrators are external, as is the lock
  that the shared cache takes around an access.
* Payments: a processor answers a charge once. Refunds are in PRE_COLLECT's
  verdicts and not in the collection. Who sets PIN_PAYMENT_BATCH_CHKPTS is not in
  the repository, so a batch may come with it at any time. How an account is found from bill
  numbers, the activities that a decline returns besides the status (fees, letters),
  vouchers as payments, incentives, over- and underpayment, SUSPEND_PAYMENT and
  VALIDATE compute one reply from one flist and are left out.
* `MayHaveOldItems` allows a soft decline to inactivate whenever a bill is open; the
  age of the open items is not modelled, so the model allows more than the code.

## 8. Plan

What remains worth doing, in this order:

1. Proofs: an abstract specification of numbers and SIMs ("a line") and its
   refinement, as `Ledger` and `AddressPool` are for payments and addresses.
2. Orders: brand, association, batch sizes and expiry, and two response files
   processed at once, in a `VouchersSessions` like `IpApnSessions`.
3. **NumSimSessions**: overlapping associations of number and SIM with one
   service, composed with `AliasList`.
4. The order of the opcodes that open, prepare and commit a transaction in
   `fm_trans_pol`, if the base FM's side of it becomes available.

A project of this kind stays readable with about a dozen runs; new components
replace the runs that show single disagreements, which then become properties
of a common run of their module.
