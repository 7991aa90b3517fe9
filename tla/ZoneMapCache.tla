---------------------------- MODULE ZoneMapCache ----------------------------
(***************************************************************************)
(* The cached copies of one zone map that PCM_OP_ZONEMAP_POL_GET_LINEAGE   *)
(* answers from.  A connection manager keeps them in one of three ways     *)
(* (pin.conf startup_cache_type): each CM process has its own hash table   *)
(* ("none"), the same with a list loaded before the processes are forked   *)
(* ("heap"), or all processes share one cache ("shared").  A copy is       *)
(* compared with the revision in the database once per interval.           *)
(*                                                                         *)
(* A map is what an administrator last committed, numbered by the commits. *)
(* Its revision also grows when a process rewrites it in the current       *)
(* format, which a lookup does when it meets a map in an older one.        *)
(***************************************************************************)
EXTENDS Naturals, Sequences

CONSTANTS
  Cm,           \* CM processes
  Modes,        \* the settings of startup_cache_type to consider
  Interval,     \* pin.conf update_interval
  MaxCall,      \* the longest a lookup takes, in the same unit
  CommitChecks, \* PCM_OP_ZONEMAP_COMMIT_ZONEMAP refuses an outdated revision
  MaxTime, MaxCommit  \* bounds of the clock and of the commits

ASSUME ZoneMapCacheAssumption ==
  /\ Modes \subseteq {"none", "heap", "shared"}
  /\ Interval \in Nat /\ MaxCall \in Nat
  /\ CommitChecks \in BOOLEAN
  /\ MaxTime \in Nat /\ MaxCommit \in Nat

VARIABLES
  mode,        \* startup_cache_type
  now,         \* pin_virtual_time
  db,          \* revision, map and format in the database
  superseded,  \* when each earlier map was replaced
  blanks,      \* the maps committed without any zone
  hash,        \* entry of the map in the hash table of each process
  startup,     \* format of the element a process still has from its startup
  atStart,     \* what the list loaded at startup had, for new processes
  shm,         \* entry of the map in the shared cache
  pc, work,    \* the lookup each process is in; what it read, and its start
  reply,       \* the reply given by the last step, if it gave one
  failedWith   \* maps replaced when a call last failed, or a process died

dbVars == <<db, superseded, blanks>>
vars == <<mode, atStart, now, db, superseded, blanks, hash, startup, shm,
          pc, work, reply, failedWith>>

NoEntry == [rev |-> 0, map |-> 0, time |-> 0, due |-> FALSE]

\* An entry of a cache.  "time" is lastUpdate in a hash table and WHEN_T in
\* the shared cache; "due" tells whether that field is there at all.
Entry(rev, map, time, due) == [rev |-> rev, map |-> map, time |-> time, due |-> due]

\* The map of an entry whose data is not in the current format.
Unreadable == 0

Phases == {"idle", "find", "check", "startup", "startcheck",
           "raw", "commit", "derived", "load", "store"}

\* Why a copy is being loaded: the cache has none, its copy is outdated, or
\* the element of the startup list is used; "tries" is lookup_attempts, and
\* "failed" an error that the lookup has started over with.
Reasons == {"missing", "outdated", "startup"}
NoWork == [rev |-> 0, map |-> 0, why |-> "missing", tries |-> 0, began |-> 0,
           failed |-> FALSE]

NoReply == [kind |-> "none", map |-> 0, known |-> FALSE]

TypeOK ==
  /\ mode \in Modes /\ atStart \in {"none", "old", "current"}
  /\ now \in Nat /\ failedWith \in Nat
  /\ db \in [rev : Nat, map : Nat, old : BOOLEAN]
  /\ superseded \in Seq(Nat) /\ blanks \subseteq Nat
  /\ shm \in [rev : Nat, map : Nat, time : Nat, due : BOOLEAN]
  /\ hash \in [Cm -> [rev : Nat, map : Nat, time : Nat, due : BOOLEAN]]
  /\ startup \in [Cm -> {"none", "old", "current"}]
  /\ pc \in [Cm -> Phases]
  /\ work \in [Cm -> [rev : Nat, map : Nat, why : Reasons, tries : {0, 1}, began : Nat,
                   failed : BOOLEAN]]
  /\ reply \in [kind : {"none", "lineage", "bare", "error"}, map : Nat, known : BOOLEAN]

-----------------------------------------------------------------------------
(***************************************************************************)
(* Startup: fm_zonemap_pol_get_lineage_init and _load_maps.                *)
(***************************************************************************)

\* The shared cache gets the maps in the current format, without WHEN_T; one in
\* an older format is left to the first lookup.
LoadMaps(m) ==
  IF m = "shared" /\ ~db.old THEN Entry(db.rev, db.map, 0, FALSE) ELSE NoEntry

\* The loading reads the header of each map: a shared cache does not start
\* with a map that has no data.
Init ==
  /\ mode \in Modes
  /\ now = 1 /\ failedWith = 0
  /\ \E old \in BOOLEAN : db = [rev |-> 1, map |-> 1, old |-> old]
  /\ superseded = << >>
  /\ blanks \in IF mode = "shared" \/ db.old THEN {{}} ELSE {{}, {1}}
  /\ hash = [c \in Cm |-> NoEntry]
  /\ atStart = IF mode # "heap" THEN "none" ELSE IF db.old THEN "old" ELSE "current"
  /\ startup = [c \in Cm |-> atStart]
  /\ shm = LoadMaps(mode)
  /\ pc = [c \in Cm |-> "idle"]
  /\ work = [c \in Cm |-> NoWork]
  /\ reply = NoReply

-----------------------------------------------------------------------------
(***************************************************************************)
(* The world around the lookups.                                           *)
(***************************************************************************)

\* A step that neither replies nor fails.
Silent == reply' = NoReply /\ UNCHANGED failedWith

\* An administrator commits a new map; PCM_OP_ZONEMAP_POL_SET_ZONEMAP derives
\* the data in the current format, or no data from a map without zones.
SetZonemap ==
  /\ Len(superseded) < MaxCommit
  /\ db' = [rev |-> db.rev + 1, map |-> Len(superseded) + 2, old |-> FALSE]
  /\ superseded' = Append(superseded, now)
  /\ blanks' \in {blanks, blanks \cup {db'.map}}
  /\ Silent
  /\ UNCHANGED <<mode, atStart, now, hash, startup, shm, pc, work>>

Tick ==
  /\ now < MaxTime
  /\ \A c \in Cm : pc[c] # "idle" => now < work[c].began + MaxCall
  /\ now' = now + 1
  /\ reply' = NoReply
  /\ UNCHANGED <<mode, atStart, dbVars, hash, startup, shm, pc, work, failedWith>>

\* A process dies in a lookup and another is forked: the shared cache survives,
\* its own hash table does not.
Crash(c) ==
  /\ pc[c] # "idle"
  /\ pc' = [pc EXCEPT ![c] = "idle"]
  /\ work' = [work EXCEPT ![c] = NoWork]
  /\ hash' = [hash EXCEPT ![c] = NoEntry]
  /\ startup' = [startup EXCEPT ![c] = atStart]
  /\ reply' = NoReply
  /\ failedWith' = Len(superseded)
  /\ UNCHANGED <<mode, atStart, now, dbVars, shm>>

-----------------------------------------------------------------------------
(***************************************************************************)
(* A lookup.                                                               *)
(***************************************************************************)

Goto(c, p) == pc' = [pc EXCEPT ![c] = p]

\* Another process is refreshing the shared cache, or filling it.
OthersRefresh(c) == mode = "shared" /\ \E d \in Cm \ {c} : pc[d] \notin {"idle", "find"}

\* "known" marks the replies that no check of a revision stands behind.
Reply(c, kind, map, known) ==
  /\ Goto(c, "idle")
  /\ work' = [work EXCEPT ![c] = NoWork]
  /\ reply' = [kind |-> kind, map |-> map, known |-> known]

Lineage(c, map) == Reply(c, "lineage", map, OthersRefresh(c)) /\ UNCHANGED failedWith

\* A call to the database fails; whatever was noted before it stays noted.
Fail(c) == Reply(c, "error", 0, FALSE) /\ failedWith' = Len(superseded)

GetLineage(c) ==
  /\ pc[c] = "idle"
  /\ Goto(c, "find")
  /\ work' = [work EXCEPT ![c].began = now]
  /\ reply' = NoReply
  /\ UNCHANGED <<mode, atStart, now, dbVars, hash, startup, shm, failedWith>>

Load(c, p, why) == Goto(c, p) /\ work' = [work EXCEPT ![c].why = why]

\* What is loaded first: the element of the startup list, once.
FirstSource(c) == IF startup[c] # "none" THEN "startup" ELSE "load"

\* fm_zonemap_pol_get_lineage_get_zonemap: the process' own hash table.  The
\* time of the check is noted before the check.
FindInHash(c) ==
  /\ pc[c] = "find" /\ mode # "shared"
  /\ \/ /\ hash[c] = NoEntry
        /\ Load(c, FirstSource(c), "missing")
        /\ UNCHANGED hash /\ Silent
     \/ /\ hash[c] # NoEntry /\ now <= hash[c].time + Interval
        /\ Lineage(c, hash[c].map)
        /\ UNCHANGED hash
     \/ /\ hash[c] # NoEntry /\ now > hash[c].time + Interval
        /\ hash' = [hash EXCEPT ![c].time = now]
        /\ Goto(c, "check")
        /\ UNCHANGED work /\ Silent
  /\ UNCHANGED <<mode, atStart, now, dbVars, startup, shm>>

RevChanged(entry) == db.rev # entry.rev

\* Mutant of RevChangedInHash: the entry is kept whatever its revision.
RevNeverChanged(entry) == FALSE
RevChangedInHash(entry) == RevChanged(entry)

\* _rev_changed on the entry of the hash table: a failed read counts as "not
\* changed", but its error is the reply.
CheckHash(c) ==
  /\ pc[c] = "check" /\ mode # "shared"
  /\ \/ /\ RevChangedInHash(hash[c])
        /\ hash' = [hash EXCEPT ![c] = NoEntry]
        /\ Load(c, FirstSource(c), "outdated")
        /\ Silent
     \/ ~RevChangedInHash(hash[c]) /\ Lineage(c, hash[c].map) /\ UNCHANGED hash
     \/ Fail(c) /\ UNCHANGED hash
  /\ UNCHANGED <<mode, atStart, now, dbVars, startup, shm>>

\* fm_zonemap_pol_get_lineage_from_shm: a copy that is due is answered from and
\* postponed by an interval under the lock of the cache, then checked.  The answer
\* from a copy that is not due overwrites an earlier error; with that error a copy
\* that is due is postponed without a check.
FindInShm(c) ==
  /\ pc[c] = "find" /\ mode = "shared"
  /\ \/ /\ shm = NoEntry
        /\ Load(c, "load", "missing")
        /\ UNCHANGED shm /\ Silent
     \/ /\ shm # NoEntry /\ ~(shm.due /\ shm.time < now)
        /\ Reply(c, "lineage", shm.map, OthersRefresh(c) \/ ~shm.due)
        /\ UNCHANGED <<shm, failedWith>>
     \/ /\ shm # NoEntry /\ shm.due /\ shm.time < now
        /\ shm' = [shm EXCEPT !.time = now + Interval]
        /\ \/ work[c].failed /\ Fail(c)
           \/ /\ ~work[c].failed
              /\ work' = [work EXCEPT ![c].rev = shm.rev, ![c].map = shm.map]
              /\ Goto(c, "check")
              /\ Silent
  /\ UNCHANGED <<mode, atStart, now, dbVars, hash, startup>>

CheckShm(c) ==
  /\ pc[c] = "check" /\ mode = "shared"
  /\ \/ RevChanged(work[c]) /\ Load(c, "load", "outdated") /\ Silent
     \/ ~RevChanged(work[c]) /\ Lineage(c, work[c].map)
     \/ Fail(c)
  /\ UNCHANGED <<mode, atStart, now, dbVars, hash, startup, shm>>

-----------------------------------------------------------------------------
(***************************************************************************)
(* Loading a copy.                                                         *)
(***************************************************************************)

\* Whether a lookup goes to retry_lookup after a load that failed: it does when
\* the shared copy was outdated, and keeps the error.
StartsOver(c) == mode = "shared" /\ work[c].why = "outdated"

\* A step of the load fails.
LoadFails(c) ==
  \/ ~StartsOver(c) /\ Fail(c)
  \/ /\ StartsOver(c)
     /\ Goto(c, "find")
     /\ work' = [work EXCEPT ![c].failed = TRUE]
     /\ failedWith' = Len(superseded)
     /\ reply' = NoReply

\* The read of the map, by PCM_OP_ZONEMAP_GET_ZONEMAP or a search by name.
ReadMap(c) ==
  /\ pc[c] = "load"
  /\ \/ /\ work' = [work EXCEPT ![c].rev = db.rev, ![c].map = db.map]
        /\ Goto(c, IF db.old THEN "raw" ELSE "store")
        /\ Silent
     \/ LoadFails(c)
  /\ UNCHANGED <<mode, atStart, now, dbVars, hash, startup, shm>>

\* _search_startup_cache takes the element out of the list; a copy in an older
\* format is converted first.
TakeStartup(c) ==
  /\ pc[c] = "startup"
  /\ startup' = [startup EXCEPT ![c] = "none"]
  /\ work' = [work EXCEPT ![c].rev = 1, ![c].map = 1, ![c].why = "startup"]
  /\ Goto(c, IF startup[c] = "old" THEN "raw" ELSE "startcheck")
  /\ Silent
  /\ UNCHANGED <<mode, atStart, now, dbVars, hash, shm>>

CheckStartup(c) ==
  /\ pc[c] = "startcheck"
  /\ \/ RevChanged(work[c]) /\ Load(c, "load", "missing") /\ Silent
     \/ ~RevChanged(work[c]) /\ Goto(c, "store") /\ UNCHANGED work /\ Silent
     \/ Fail(c)
  /\ UNCHANGED <<mode, atStart, now, dbVars, hash, startup, shm>>

\* A conversion that fails.  The error is lost for an element of the startup
\* list, whose data stays in the old format: no number is found in it.
NotConverted(c) ==
  \/ work[c].why # "startup" /\ LoadFails(c)
  \/ /\ work[c].why = "startup"
     /\ Goto(c, "startcheck")
     /\ work' = [work EXCEPT ![c].map = Unreadable]
     /\ failedWith' = Len(superseded)
     /\ reply' = NoReply

\* fm_zonemap_pol_convert_zonemap reads the zones as they are by now ...
ReadRaw(c) ==
  /\ pc[c] = "raw"
  /\ \/ /\ db.map \notin blanks
        /\ work' = [work EXCEPT ![c].map = db.map]
        /\ Goto(c, "commit")
        /\ Silent
     \/ NotConverted(c)
  /\ UNCHANGED <<mode, atStart, now, dbVars, hash, startup, shm>>

\* Mutant of CommitAccepted: the commit overwrites whatever came meanwhile.
CommitAcceptedAlways(c) == TRUE

\* PCM_OP_ZONEMAP_COMMIT_ZONEMAP, of the base FM.
CommitAccepted(c) == CommitChecks => db.rev = work[c].rev

\* ... and commits them as a new revision.  The poid that is sent, and kept with
\* the copy, has the revision from before.
CommitConverted(c) ==
  /\ pc[c] = "commit"
  /\ \/ /\ CommitAccepted(c)
        /\ db' = [rev |-> db.rev + 1, map |-> work[c].map, old |-> FALSE]
        /\ Goto(c, "derived")
        /\ UNCHANGED work /\ Silent
     \/ NotConverted(c) /\ UNCHANGED db
  /\ UNCHANGED <<mode, atStart, now, superseded, blanks, hash, startup, shm>>

\* Then it reads the data derived by the commit, or by a later one.
ReadDerived(c) ==
  /\ pc[c] = "derived"
  /\ \/ /\ work' = [work EXCEPT ![c].map = db.map]
        /\ Goto(c, IF work[c].why = "startup" THEN "startcheck" ELSE "store")
        /\ Silent
     \/ NotConverted(c)
  /\ UNCHANGED <<mode, atStart, now, dbVars, hash, startup, shm>>

StoreInHash(c) ==
  /\ pc[c] = "store" /\ mode # "shared"
  /\ hash' = [hash EXCEPT ![c] = Entry(work[c].rev, work[c].map, now, TRUE)]
  /\ Lineage(c, work[c].map)
  /\ UNCHANGED <<mode, atStart, now, dbVars, startup, shm>>

\* Mutant of LookupAttempts: the attempt is not counted.
LookupAttemptsUncounted(c) == 0

\* lookup_attempts: only starting over after a missing copy is counted.
LookupAttempts(c) == IF work[c].why = "missing" THEN 1 ELSE work[c].tries

\* fm_zonemap_pol_load_map_into_shm: a map without data leaves the cache as it
\* is.  The lookup starts over; after a copy was missing it does so once, and
\* replies without a lineage when it is still missing.
StoreInShm(c) ==
  /\ pc[c] = "store" /\ mode = "shared"
  /\ shm' = IF work[c].map \in blanks THEN shm
            ELSE Entry(work[c].rev, work[c].map, now + Interval, TRUE)
  /\ \/ work[c].why = "missing" /\ work[c].tries = 1 /\ Reply(c, "bare", 0, FALSE)
     \/ /\ ~(work[c].why = "missing" /\ work[c].tries = 1)
        /\ Goto(c, "find")
        /\ work' = [work EXCEPT ![c].tries = LookupAttempts(c)]
        /\ reply' = NoReply
  /\ UNCHANGED <<mode, atStart, now, dbVars, hash, startup, failedWith>>

-----------------------------------------------------------------------------
Step(c) ==
  \/ FindInHash(c) \/ CheckHash(c)
  \/ FindInShm(c) \/ CheckShm(c)
  \/ TakeStartup(c) \/ CheckStartup(c)
  \/ ReadMap(c) \/ ReadRaw(c) \/ CommitConverted(c) \/ ReadDerived(c)
  \/ StoreInHash(c) \/ StoreInShm(c)

Next ==
  \/ SetZonemap \/ Tick
  \/ \E c \in Cm : GetLineage(c) \/ Crash(c) \/ Step(c)

\* An opcode that a process has begun runs to its end.
Fairness == \A c \in Cm : WF_vars(Step(c))

Spec == Init /\ [][Next]_vars /\ Fairness

-----------------------------------------------------------------------------
Replaced(map) == map <= Len(superseded)

\* The last check of a revision that could have shown that a map is outdated,
\* or the load that was to replace it, has failed since it was replaced.
CheckFailedSince(map) == map <= failedWith

\* The map was emptied, which the shared cache cannot hold.
EmptiedSince(map) == mode = "shared" /\ \E m \in blanks : m > map

\* A lookup answers from a map that was in force at most an interval and the
\* time of a call ago: unless the check in between failed, or the load after it
\* (the lookup itself then answers from the outdated shared copy), another
\* process is just about to refresh the shared copy, or no check is due for it.
AnswersFresh ==
  reply.kind = "lineage" /\ reply.map # Unreadable /\ Replaced(reply.map)
    => \/ now <= superseded[reply.map] + Interval + MaxCall
       \/ CheckFailedSince(reply.map) \/ EmptiedSince(reply.map) \/ reply.known

\* Lookups never change what the administrators committed, though they write
\* the map when they convert it.
LookupsKeepTheMap == db.map = Len(superseded) + 1

\* Why they keep it: a process that is about to commit a conversion has read
\* the zones of the revision it names, or names an earlier one.
ConversionsAreCurrent ==
  \A c \in Cm :
    /\ work[c].rev <= db.rev
    /\ pc[c] = "commit" /\ work[c].rev = db.rev => work[c].map = db.map

LookupInv ==
  TypeOK /\ LookupsKeepTheMap /\ ConversionsAreCurrent /\ shm.rev <= db.rev

\* Where the freshness of an answer comes from.  "map" was in force at t, or not
\* longer than "span" before.
InForce(map, t, span) == Replaced(map) => t <= superseded[map] + span

\* A copy with the present revision has the present map, so that the comparison
\* of revisions tells whether it is outdated.
RevisionTells(copy) ==
  /\ copy.rev <= db.rev /\ copy.map <= db.map
  /\ copy.rev = db.rev => copy.map \in {Unreadable, db.map}

\* The past is over, and one cannot fail with a map that is still to come.
HistoryInOrder ==
  /\ \A i \in DOMAIN superseded : superseded[i] <= now
  /\ blanks \subseteq 1 .. db.map
  /\ failedWith <= Len(superseded)
  /\ db.rev = 1 => db.map = 1

\* What a lookup is about to store was in force when it began, or later.
LookupIsRecent(c) ==
  /\ work[c].began <= now /\ RevisionTells(work[c])
  /\ pc[c] # "idle" => now <= work[c].began + MaxCall
  /\ mode = "shared" => pc[c] \notin {"startup", "startcheck"} /\ work[c].why # "startup"
  /\ pc[c] \in {"commit", "store"} =>
       \/ work[c].map = Unreadable /\ mode # "shared"
       \/ work[c].map # Unreadable /\ InForce(work[c].map, work[c].began, 0)

\* An entry of a hash table was in force when its time was noted, but for the
\* call that noted it, unless the check failed or is still to come.
HashIsRecent(c) ==
  /\ hash[c].time <= now /\ RevisionTells(hash[c])
  /\ \/ pc[c] = "check" /\ mode # "shared"
     \/ hash[c].map = Unreadable
     \/ InForce(hash[c].map, hash[c].time, MaxCall) \/ CheckFailedSince(hash[c].map)

\* A process that will replace the shared copy, or find that it is current.
Refreshes(d) ==
  \/ pc[d] = "check" /\ work[d].rev = shm.rev /\ work[d].map = shm.map
  \/ pc[d] \in {"load", "raw", "derived"}
  \/ pc[d] \in {"commit", "store"} /\ shm.map <= work[d].map

\* The shared copy is not due before it may be outdated for too long, or some
\* process is about to see to it.
ShmIsRecent ==
  /\ shm.time <= now + Interval /\ RevisionTells(shm) /\ shm.map \notin blanks
  /\ shm.due =>
       /\ mode = "shared" /\ shm.map # Unreadable
       /\ \/ InForce(shm.map, shm.time, Interval + MaxCall)
          \/ CheckFailedSince(shm.map) \/ EmptiedSince(shm.map)
          \/ \E d \in Cm : Refreshes(d)

\* What every copy is worth between two checks of its revision.
CopiesAreRecent ==
  /\ HistoryInOrder /\ ShmIsRecent
  /\ \A c \in Cm : LookupIsRecent(c) /\ HashIsRecent(c)

\* What lookups hold, and what the caches hold, at any time.
CacheInv == LookupInv /\ CopiesAreRecent

\* A lookup comes to its end, though it starts over when the copy was missing
\* or outdated.
LookupsEnd == \A c \in Cm : pc[c] # "idle" ~> pc[c] = "idle"
=============================================================================
