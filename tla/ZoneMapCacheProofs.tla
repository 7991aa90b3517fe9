------------------------- MODULE ZoneMapCacheProofs -------------------------
(***************************************************************************)
(* Theorems about ZoneMapCache, for every number of processes, interval    *)
(* and sequence of commits, with a commit that refuses an outdated         *)
(* revision.                                                               *)
(***************************************************************************)
EXTENDS ZoneMapCache, TLAPS

EntryType == [rev : Nat, map : Nat, time : Nat, due : BOOLEAN]
WorkType == [rev : Nat, map : Nat, why : Reasons, tries : {0, 1}, began : Nat,
             failed : BOOLEAN]
ReplyType == [kind : {"none", "lineage", "bare", "error"}, map : Nat, known : BOOLEAN]

USE DEF dbVars, Silent, Reply, Goto, Load, Lineage, Fail, LoadFails

\* The steps of a lookup keep the work of every process in its type.
LEMMA WorkTyped ==
  ASSUME TypeOK, NEW c \in Cm, Step(c)
  PROVE  work' \in [Cm -> WorkType]
<1>1. /\ work \in [Cm -> WorkType]
      /\ db.rev \in Nat /\ db.map \in Nat /\ shm.rev \in Nat /\ shm.map \in Nat
  BY DEF TypeOK, WorkType
<1>2. [work EXCEPT ![c] = NoWork] \in [Cm -> WorkType]
  BY <1>1 DEF WorkType, Reasons, NoWork
<1>3. [work EXCEPT ![c].why = "missing"] \in [Cm -> WorkType]
  BY <1>1 DEF WorkType, Reasons
<1>4. [work EXCEPT ![c].why = "outdated"] \in [Cm -> WorkType]
  BY <1>1 DEF WorkType, Reasons
<1>5. [work EXCEPT ![c].rev = shm.rev, ![c].map = shm.map] \in [Cm -> WorkType]
  BY <1>1 DEF WorkType
<1>6. [work EXCEPT ![c].rev = db.rev, ![c].map = db.map] \in [Cm -> WorkType]
  BY <1>1 DEF WorkType
<1>7. [work EXCEPT ![c].rev = 1, ![c].map = 1, ![c].why = "startup"] \in [Cm -> WorkType]
  <2>1. \A f \in [Cm -> WorkType], n \in Nat : [f EXCEPT ![c].rev = n] \in [Cm -> WorkType]
    BY DEF WorkType
  <2>2. \A f \in [Cm -> WorkType], n \in Nat : [f EXCEPT ![c].map = n] \in [Cm -> WorkType]
    BY DEF WorkType
  <2>3. \A f \in [Cm -> WorkType] : [f EXCEPT ![c].why = "startup"] \in [Cm -> WorkType]
    BY DEF WorkType, Reasons
  <2>4. 1 \in Nat
    OBVIOUS
  <2> QED
    BY <1>1, <2>1, <2>2, <2>3, <2>4, Zenon
<1>8. [work EXCEPT ![c].map = db.map] \in [Cm -> WorkType]
  BY <1>1 DEF WorkType
<1>9. [work EXCEPT ![c].map = Unreadable] \in [Cm -> WorkType]
  BY <1>1 DEF WorkType, Unreadable
<1>10. [work EXCEPT ![c].tries = LookupAttempts(c)] \in [Cm -> WorkType]
  BY <1>1 DEF WorkType, LookupAttempts
<1>f. [work EXCEPT ![c].failed = TRUE] \in [Cm -> WorkType]
  BY <1>1 DEF WorkType
<1>11. CASE FindInHash(c)
  BY <1>1, <1>2, <1>3, <1>11 DEF FindInHash
<1>12. CASE CheckHash(c)
  BY <1>1, <1>2, <1>4, <1>12 DEF CheckHash
<1>13. CASE FindInShm(c)
  BY <1>1, <1>2, <1>3, <1>5, <1>13 DEF FindInShm
<1>14. CASE CheckShm(c)
  BY <1>1, <1>2, <1>4, <1>14 DEF CheckShm
<1>15. CASE TakeStartup(c)
  BY <1>1, <1>7, <1>15 DEF TakeStartup
<1>16. CASE CheckStartup(c)
  BY <1>1, <1>2, <1>3, <1>16 DEF CheckStartup
<1>17. CASE ReadMap(c)
  BY <1>1, <1>2, <1>6, <1>f, <1>17 DEF ReadMap
<1>18. CASE ReadRaw(c)
  BY <1>1, <1>2, <1>8, <1>9, <1>f, <1>18 DEF ReadRaw, NotConverted
<1>19. CASE CommitConverted(c)
  BY <1>1, <1>2, <1>9, <1>f, <1>19 DEF CommitConverted, NotConverted
<1>20. CASE StoreInHash(c)
  BY <1>1, <1>2, <1>20 DEF StoreInHash
<1>21. CASE StoreInShm(c)
  BY <1>1, <1>2, <1>10, <1>21 DEF StoreInShm
<1>22. CASE ReadDerived(c)
  BY <1>1, <1>2, <1>8, <1>9, <1>f, <1>22 DEF ReadDerived, NotConverted
<1> QED
  BY <1>11, <1>12, <1>13, <1>14, <1>15, <1>16, <1>17, <1>18, <1>19, <1>20, <1>21, <1>22 DEF Step

\* And the entries of every hash table.
LEMMA HashTyped ==
  ASSUME TypeOK, NEW c \in Cm, Step(c)
  PROVE  hash' \in [Cm -> EntryType]
<1>1. /\ hash \in [Cm -> EntryType] /\ work \in [Cm -> WorkType]
      /\ now \in Nat
  BY DEF TypeOK, EntryType, WorkType
<1>2. [hash EXCEPT ![c] = NoEntry] \in [Cm -> EntryType]
  BY <1>1 DEF EntryType, NoEntry
<1>3. [hash EXCEPT ![c].time = now] \in [Cm -> EntryType]
  BY <1>1 DEF EntryType
<1>4. [hash EXCEPT ![c] = Entry(work[c].rev, work[c].map, now, TRUE)] \in [Cm -> EntryType]
  BY <1>1 DEF EntryType, WorkType, Entry
<1>5. CASE FindInHash(c)
  BY <1>1, <1>3, <1>5 DEF FindInHash
<1>6. CASE CheckHash(c)
  BY <1>1, <1>2, <1>6 DEF CheckHash
<1>7. CASE FindInShm(c)
  BY <1>1, <1>7 DEF FindInShm
<1>8. CASE CheckShm(c)
  BY <1>1, <1>8 DEF CheckShm
<1>9. CASE TakeStartup(c)
  BY <1>1, <1>9 DEF TakeStartup
<1>10. CASE CheckStartup(c)
  BY <1>1, <1>10 DEF CheckStartup
<1>11. CASE ReadMap(c)
  BY <1>1, <1>11 DEF ReadMap
<1>12. CASE ReadRaw(c)
  BY <1>1, <1>12 DEF ReadRaw, NotConverted
<1>13. CASE CommitConverted(c)
  BY <1>1, <1>13 DEF CommitConverted, NotConverted
<1>14. CASE StoreInHash(c)
  BY <1>1, <1>4, <1>14 DEF StoreInHash
<1>15. CASE StoreInShm(c)
  BY <1>1, <1>15 DEF StoreInShm
<1>16. CASE ReadDerived(c)
  BY <1>1, <1>16 DEF ReadDerived, NotConverted
<1> QED
  BY <1>5, <1>6, <1>7, <1>8, <1>9, <1>10, <1>11, <1>12, <1>13, <1>14, <1>15, <1>16 DEF Step

\* And the phase each lookup is in.
LEMMA PhasesTyped ==
  ASSUME TypeOK, NEW c \in Cm, Step(c)
  PROVE  pc' \in [Cm -> Phases]
<1>1. pc \in [Cm -> Phases]
  BY DEF TypeOK
<1>2. CASE FindInHash(c)
  BY <1>1, <1>2 DEF FindInHash, FirstSource, Phases
<1>3. CASE CheckHash(c)
  BY <1>1, <1>3 DEF CheckHash, FirstSource, Phases
<1>4. CASE FindInShm(c)
  BY <1>1, <1>4 DEF FindInShm, Phases
<1>5. CASE CheckShm(c)
  BY <1>1, <1>5 DEF CheckShm, Phases
<1>6. CASE TakeStartup(c)
  BY <1>1, <1>6 DEF TakeStartup, Phases
<1>7. CASE CheckStartup(c)
  BY <1>1, <1>7 DEF CheckStartup, Phases
<1>8. CASE ReadMap(c)
  BY <1>1, <1>8 DEF ReadMap, Phases
<1>9. CASE ReadRaw(c)
  BY <1>1, <1>9 DEF ReadRaw, NotConverted, Phases
<1>10. CASE CommitConverted(c)
  BY <1>1, <1>10 DEF CommitConverted, NotConverted, Phases
<1>11. CASE StoreInHash(c)
  BY <1>1, <1>11 DEF StoreInHash, Phases
<1>12. CASE StoreInShm(c)
  BY <1>1, <1>12 DEF StoreInShm, Phases
<1>13. CASE ReadDerived(c)
  BY <1>1, <1>13 DEF ReadDerived, NotConverted, Phases
<1> QED
  BY <1>2, <1>3, <1>4, <1>5, <1>6, <1>7, <1>8, <1>9, <1>10, <1>11, <1>12, <1>13 DEF Step

\* And the reply.
LEMMA ReplyTyped ==
  ASSUME TypeOK, NEW c \in Cm, Step(c)
  PROVE  reply' \in ReplyType
<1>1. /\ \A d \in Cm : hash[d].map \in Nat /\ work[d].map \in Nat
      /\ shm.map \in Nat
  BY DEF TypeOK
<1>2. NoReply \in ReplyType /\ [kind |-> "error", map |-> 0, known |-> FALSE] \in ReplyType
  BY DEF NoReply, ReplyType
<1>3. OthersRefresh(c) \in BOOLEAN /\ (OthersRefresh(c) \/ ~shm.due) \in BOOLEAN
  BY DEF OthersRefresh
<1>4. \A m \in Nat, known \in BOOLEAN :
        [kind |-> "lineage", map |-> m, known |-> known] \in ReplyType
  BY DEF ReplyType
<1>5. \A m \in Nat : [kind |-> "lineage", map |-> m, known |-> OthersRefresh(c)] \in ReplyType
  BY <1>3, <1>4
<1>6. [kind |-> "lineage", map |-> shm.map, known |-> OthersRefresh(c) \/ ~shm.due] \in ReplyType
  BY <1>1, <1>3, <1>4
<1>7. [kind |-> "bare", map |-> 0, known |-> FALSE] \in ReplyType
  BY DEF ReplyType
<1>8. CASE FindInHash(c)
  BY <1>1, <1>2, <1>5, <1>8 DEF FindInHash
<1>9. CASE CheckHash(c)
  BY <1>1, <1>2, <1>5, <1>9 DEF CheckHash
<1>10. CASE FindInShm(c)
  BY <1>1, <1>2, <1>6, <1>10 DEF FindInShm
<1>11. CASE CheckShm(c)
  BY <1>1, <1>2, <1>5, <1>11 DEF CheckShm
<1>12. CASE TakeStartup(c)
  BY <1>1, <1>2, <1>12 DEF TakeStartup
<1>13. CASE CheckStartup(c)
  BY <1>1, <1>2, <1>13 DEF CheckStartup
<1>14. CASE ReadMap(c)
  BY <1>1, <1>2, <1>14 DEF ReadMap
<1>15. CASE ReadRaw(c)
  BY <1>1, <1>2, <1>15 DEF ReadRaw, NotConverted
<1>16. CASE CommitConverted(c)
  BY <1>1, <1>2, <1>16 DEF CommitConverted, NotConverted
<1>17. CASE StoreInHash(c)
  BY <1>1, <1>2, <1>5, <1>17 DEF StoreInHash
<1>18. CASE StoreInShm(c)
  BY <1>1, <1>2, <1>7, <1>18 DEF StoreInShm
<1>19. CASE ReadDerived(c)
  BY <1>1, <1>2, <1>19 DEF ReadDerived, NotConverted
<1> QED
  BY <1>8, <1>9, <1>10, <1>11, <1>12, <1>13, <1>14, <1>15, <1>16, <1>17, <1>18, <1>19 DEF Step

\* And everything the processes share, and what is left from the startup.
LEMMA SharedTyped ==
  ASSUME TypeOK, NEW c \in Cm, Step(c)
  PROVE  /\ mode' \in Modes /\ atStart' \in {"none", "old", "current"}
         /\ now' \in Nat /\ failedWith' \in Nat
         /\ db' \in [rev : Nat, map : Nat, old : BOOLEAN]
         /\ superseded' \in Seq(Nat) /\ blanks' \subseteq Nat
         /\ shm' \in [rev : Nat, map : Nat, time : Nat, due : BOOLEAN]
         /\ startup' \in [Cm -> {"none", "old", "current"}]
<1>1. /\ mode \in Modes /\ atStart \in {"none", "old", "current"}
      /\ now \in Nat /\ failedWith \in Nat
      /\ db \in [rev : Nat, map : Nat, old : BOOLEAN]
      /\ superseded \in Seq(Nat) /\ blanks \subseteq Nat
      /\ shm \in [rev : Nat, map : Nat, time : Nat, due : BOOLEAN]
      /\ startup \in [Cm -> {"none", "old", "current"}]
      /\ work[c].rev \in Nat /\ work[c].map \in Nat
      /\ db.rev \in Nat
      /\ Len(superseded) \in Nat /\ Interval \in Nat
  BY ZoneMapCacheAssumption DEF TypeOK
<1>2. [shm EXCEPT !.time = now + Interval] \in [rev : Nat, map : Nat, time : Nat, due : BOOLEAN]
  BY <1>1, SMTT(30)
<1>3. /\ [rev |-> db.rev + 1, map |-> work[c].map, old |-> FALSE]
           \in [rev : Nat, map : Nat, old : BOOLEAN]
      /\ Entry(work[c].rev, work[c].map, now + Interval, TRUE)
           \in [rev : Nat, map : Nat, time : Nat, due : BOOLEAN]
  BY <1>1 DEF Entry
<1>4. CASE FindInHash(c)
  BY <1>1, <1>4 DEF FindInHash
<1>5. CASE CheckHash(c)
  BY <1>1, <1>5 DEF CheckHash
<1>6. CASE FindInShm(c)
  BY <1>1, <1>2, <1>6 DEF FindInShm
<1>7. CASE CheckShm(c)
  BY <1>1, <1>7 DEF CheckShm
<1>8. CASE TakeStartup(c)
  BY <1>1, <1>8 DEF TakeStartup
<1>9. CASE CheckStartup(c)
  BY <1>1, <1>9 DEF CheckStartup
<1>10. CASE ReadMap(c)
  BY <1>1, <1>10 DEF ReadMap
<1>11. CASE ReadRaw(c)
  BY <1>1, <1>11 DEF ReadRaw, NotConverted
<1>12. CASE CommitConverted(c)
  BY <1>1, <1>3, <1>12 DEF CommitConverted, NotConverted
<1>13. CASE StoreInHash(c)
  BY <1>1, <1>13 DEF StoreInHash
<1>14. CASE StoreInShm(c)
  BY <1>1, <1>3, <1>14 DEF StoreInShm
<1>15. CASE ReadDerived(c)
  BY <1>1, <1>15 DEF ReadDerived, NotConverted
<1> QED
  BY <1>4, <1>5, <1>6, <1>7, <1>8, <1>9, <1>10, <1>11, <1>12, <1>13, <1>14, <1>15 DEF Step

\* Every step keeps every variable in its type.
LEMMA TypeStep ==
  ASSUME TypeOK, [Next]_vars
  PROVE  TypeOK'
<1>1. CASE UNCHANGED vars
  BY <1>1 DEF vars, TypeOK
<1>2. CASE SetZonemap
  <2>1. /\ db \in [rev : Nat, map : Nat, old : BOOLEAN] /\ now \in Nat
        /\ superseded \in Seq(Nat) /\ Len(superseded) \in Nat
    BY DEF TypeOK
  <2>2. db' \in [rev : Nat, map : Nat, old : BOOLEAN] /\ db'.map \in Nat
    BY <1>2, <2>1 DEF SetZonemap
  <2>3. superseded' \in Seq(Nat) /\ reply' = NoReply
    BY <1>2, <2>1 DEF SetZonemap
  <2>4. blanks' \subseteq Nat
    BY <1>2, <2>2 DEF SetZonemap, TypeOK
  <2> QED
    BY <1>2, <2>2, <2>3, <2>4, SMTT(30) DEF SetZonemap, TypeOK, NoReply
<1>3. CASE Tick
  BY <1>3 DEF Tick, TypeOK, NoReply
<1>4. ASSUME NEW c \in Cm, GetLineage(c) PROVE TypeOK'
  <2>1. work \in [Cm -> WorkType] /\ now \in Nat
    BY DEF TypeOK, WorkType
  <2>2. [work EXCEPT ![c].began = now] \in [Cm -> WorkType]
    BY <2>1 DEF WorkType
  <2>3. pc' \in [Cm -> Phases]
    BY <1>4 DEF GetLineage, TypeOK, Phases
  <2> QED
    BY <1>4, <2>2, <2>3 DEF GetLineage, TypeOK, NoReply, WorkType
<1>5. ASSUME NEW c \in Cm, Crash(c) PROVE TypeOK'
  <2>1. /\ work \in [Cm -> WorkType] /\ hash \in [Cm -> EntryType]
        /\ startup \in [Cm -> {"none", "old", "current"}]
        /\ atStart \in {"none", "old", "current"} /\ Len(superseded) \in Nat
    BY SMTT(30) DEF TypeOK, WorkType, EntryType
  <2>2. work' \in [Cm -> WorkType]
    BY <1>5, <2>1 DEF Crash, WorkType, NoWork, Reasons
  <2>3. hash' \in [Cm -> EntryType]
    BY <1>5, <2>1 DEF Crash, EntryType, NoEntry
  <2>4. startup' \in [Cm -> {"none", "old", "current"}] /\ failedWith' \in Nat
    BY <1>5, <2>1 DEF Crash
  <2>5. pc' \in [Cm -> Phases]
    BY <1>5 DEF Crash, TypeOK, Phases
  <2> QED
    BY <1>5, <2>2, <2>3, <2>4, <2>5 DEF Crash, TypeOK, NoReply, WorkType, EntryType
<1>6. ASSUME NEW c \in Cm, Step(c) PROVE TypeOK'
  BY <1>6, WorkTyped, HashTyped, PhasesTyped, ReplyTyped, SharedTyped
     DEF TypeOK, WorkType, EntryType, ReplyType
<1> QED
  BY <1>1, <1>2, <1>3, <1>4, <1>5, <1>6 DEF Next

-----------------------------------------------------------------------------
\* What the steps of a lookup need: the copy in the shared cache is of some
\* revision that the map has had.
MapInv == LookupsKeepTheMap /\ ConversionsAreCurrent /\ shm.rev <= db.rev /\ db.rev >= 1

\* A value of "work" in which c names a revision that the map has had, and
\* nothing else is changed.
OnlyOf(c, w) == \A d \in Cm : w[d].rev <= db.rev /\ (d # c => w[d] = work[d])

\* Whatever a step sets of the work of a process, it names such a revision.
LEMMA WorkNamesRevision ==
  ASSUME TypeOK, MapInv, NEW c \in Cm, Step(c)
  PROVE  OnlyOf(c, work')
<1>1. /\ work \in [Cm -> WorkType] /\ \A d \in Cm : work[d].rev <= db.rev
      /\ db.rev \in Nat /\ shm.rev <= db.rev /\ 1 <= db.rev
      /\ 0 <= db.rev /\ db.rev <= db.rev
      /\ db.map \in Nat /\ shm.rev \in Nat /\ shm.map \in Nat
  BY DEF TypeOK, WorkType, MapInv, ConversionsAreCurrent
<1> USE DEF OnlyOf
<1>2. OnlyOf(c, [work EXCEPT ![c] = NoWork])
  BY <1>1 DEF WorkType, NoWork
<1>3. OnlyOf(c, [work EXCEPT ![c].why = "missing"])
  BY <1>1 DEF WorkType
<1>4. OnlyOf(c, [work EXCEPT ![c].why = "outdated"])
  BY <1>1 DEF WorkType
<1>5. OnlyOf(c, [work EXCEPT ![c].rev = shm.rev, ![c].map = shm.map])
  BY <1>1 DEF WorkType
<1>6. OnlyOf(c, [work EXCEPT ![c].rev = db.rev, ![c].map = db.map])
  BY <1>1 DEF WorkType
<1>7. OnlyOf(c, [work EXCEPT ![c].rev = 1, ![c].map = 1, ![c].why = "startup"])
  BY <1>1 DEF WorkType
<1>8. OnlyOf(c, [work EXCEPT ![c].map = db.map])
  BY <1>1 DEF WorkType
<1>9. OnlyOf(c, [work EXCEPT ![c].map = Unreadable])
  BY <1>1 DEF WorkType
<1>10. OnlyOf(c, [work EXCEPT ![c].tries = LookupAttempts(c)])
  BY <1>1 DEF WorkType
<1>f. OnlyOf(c, [work EXCEPT ![c].failed = TRUE])
  BY <1>1 DEF WorkType
<1> HIDE DEF OnlyOf
<1>x. OnlyOf(c, work)
  BY <1>1 DEF OnlyOf
<1>11. CASE FindInHash(c)
  BY <1>2, <1>3, <1>x, <1>11 DEF FindInHash
<1>12. CASE CheckHash(c)
  BY <1>2, <1>4, <1>x, <1>12 DEF CheckHash
<1>13. CASE FindInShm(c)
  BY <1>2, <1>3, <1>5, <1>x, <1>13 DEF FindInShm
<1>14. CASE CheckShm(c)
  BY <1>2, <1>4, <1>x, <1>14 DEF CheckShm
<1>15. CASE TakeStartup(c)
  BY <1>7, <1>x, <1>15 DEF TakeStartup
<1>16. CASE CheckStartup(c)
  BY <1>2, <1>3, <1>x, <1>16 DEF CheckStartup
<1>17. CASE ReadMap(c)
  BY <1>2, <1>6, <1>x, <1>f, <1>17 DEF ReadMap
<1>18. CASE ReadRaw(c)
  BY <1>2, <1>8, <1>9, <1>x, <1>f, <1>18 DEF ReadRaw, NotConverted
<1>19. CASE CommitConverted(c)
  BY <1>2, <1>9, <1>x, <1>f, <1>19 DEF CommitConverted, NotConverted
<1>20. CASE StoreInHash(c)
  BY <1>2, <1>x, <1>20 DEF StoreInHash
<1>21. CASE StoreInShm(c)
  BY <1>2, <1>10, <1>x, <1>21 DEF StoreInShm
<1>22. CASE ReadDerived(c)
  BY <1>2, <1>8, <1>9, <1>f, <1>x, <1>22 DEF ReadDerived, NotConverted
<1> QED
  BY <1>11, <1>12, <1>13, <1>14, <1>15, <1>16, <1>17, <1>18, <1>19, <1>20, <1>21, <1>22 DEF Step

\* A process is about to commit only after it has read the zones there are.
LEMMA AboutToCommit ==
  ASSUME TypeOK, NEW c \in Cm, Step(c), NEW d \in Cm, pc'[d] = "commit"
  PROVE  IF d = c THEN db' = db /\ work'[d].map = db.map ELSE pc[d] = "commit"
<1>1. pc \in [Cm -> Phases] /\ work \in [Cm -> WorkType]
  BY DEF TypeOK, WorkType
<1>2. ([work EXCEPT ![c].map = db.map])[c].map = db.map
  BY <1>1 DEF WorkType
<1>3. CASE FindInHash(c)
  BY <1>1, <1>3 DEF FindInHash, FirstSource
<1>4. CASE CheckHash(c)
  BY <1>1, <1>4 DEF CheckHash, FirstSource
<1>5. CASE FindInShm(c)
  BY <1>1, <1>5 DEF FindInShm
<1>6. CASE CheckShm(c)
  BY <1>1, <1>6 DEF CheckShm
<1>7. CASE TakeStartup(c)
  BY <1>1, <1>7 DEF TakeStartup
<1>8. CASE CheckStartup(c)
  BY <1>1, <1>8 DEF CheckStartup
<1>9. CASE ReadMap(c)
  BY <1>1, <1>9 DEF ReadMap
<1>10. CASE ReadRaw(c)
  BY <1>1, <1>2, <1>10 DEF ReadRaw, NotConverted
<1>11. CASE CommitConverted(c)
  BY <1>1, <1>11 DEF CommitConverted, NotConverted
<1>12. CASE StoreInHash(c)
  BY <1>1, <1>12 DEF StoreInHash
<1>13. CASE StoreInShm(c)
  BY <1>1, <1>13 DEF StoreInShm
<1>14. CASE ReadDerived(c)
  BY <1>1, <1>14 DEF ReadDerived, NotConverted
<1> QED
  BY <1>3, <1>4, <1>5, <1>6, <1>7, <1>8, <1>9, <1>10, <1>11, <1>12, <1>13, <1>14 DEF Step

\* A lookup writes nothing but the map that is there, as a new revision.
LEMMA WrittenBack ==
  ASSUME TypeOK, MapInv, CommitChecks, NEW c \in Cm, Step(c)
  PROVE  /\ db' = db \/ (db'.rev = db.rev + 1 /\ db'.map = db.map)
         /\ shm'.rev <= db.rev /\ superseded' = superseded
<1>1. /\ db.rev \in Nat /\ shm.rev <= db.rev /\ shm.rev \in Nat
      /\ work[c].rev <= db.rev
      /\ pc[c] = "commit" /\ work[c].rev = db.rev => work[c].map = db.map
  BY DEF TypeOK, MapInv, ConversionsAreCurrent
<1>2. [shm EXCEPT !.time = now + Interval].rev = shm.rev
  BY DEF TypeOK
<1>3. CASE FindInHash(c)
  BY <1>1, <1>3 DEF FindInHash
<1>4. CASE CheckHash(c)
  BY <1>1, <1>4 DEF CheckHash
<1>5. CASE FindInShm(c)
  BY <1>1, <1>2, <1>5 DEF FindInShm
<1>6. CASE CheckShm(c)
  BY <1>1, <1>6 DEF CheckShm
<1>7. CASE TakeStartup(c)
  BY <1>1, <1>7 DEF TakeStartup
<1>8. CASE CheckStartup(c)
  BY <1>1, <1>8 DEF CheckStartup
<1>9. CASE ReadMap(c)
  BY <1>1, <1>9 DEF ReadMap
<1>10. CASE ReadRaw(c)
  BY <1>1, <1>10 DEF ReadRaw, NotConverted
<1>11. CASE CommitConverted(c)
  BY <1>1, <1>11 DEF CommitConverted, CommitAccepted, NotConverted
<1>12. CASE StoreInHash(c)
  BY <1>1, <1>12 DEF StoreInHash
<1>13. CASE StoreInShm(c)
  BY <1>1, <1>13 DEF StoreInShm, Entry
<1>14. CASE ReadDerived(c)
  BY <1>1, <1>14 DEF ReadDerived, NotConverted
<1> QED
  BY <1>3, <1>4, <1>5, <1>6, <1>7, <1>8, <1>9, <1>10, <1>11, <1>12, <1>13, <1>14 DEF Step

\* Every step keeps the map what the administrators made it.
LEMMA MapStep ==
  ASSUME TypeOK, TypeOK', MapInv, CommitChecks, [Next]_vars
  PROVE  MapInv'
<1>1. /\ db.rev \in Nat /\ db'.rev \in Nat /\ shm.rev \in Nat
      /\ \A d \in Cm : work[d].rev \in Nat /\ work'[d].rev \in Nat
  BY DEF TypeOK
<1>2. CASE UNCHANGED vars
  BY <1>2 DEF vars, MapInv, LookupsKeepTheMap, ConversionsAreCurrent
<1>3. CASE SetZonemap
  <2>1. db'.rev = db.rev + 1 /\ db'.map = Len(superseded) + 2
    BY <1>3 DEF SetZonemap
  <2>2. Len(superseded') = Len(superseded) + 1
    BY <1>3 DEF SetZonemap, TypeOK
  <2>3. Len(superseded) \in Nat
    BY DEF TypeOK
  <2> QED
    BY <1>1, <1>3, <2>1, <2>2, <2>3
       DEF SetZonemap, MapInv, LookupsKeepTheMap, ConversionsAreCurrent
<1>4. CASE Tick
  BY <1>4 DEF Tick, MapInv, LookupsKeepTheMap, ConversionsAreCurrent
<1>5. ASSUME NEW c \in Cm, GetLineage(c) PROVE MapInv'
  <2>1. \A d \in Cm : work'[d].rev = work[d].rev /\ work'[d].map = work[d].map
    <3>1. work \in [Cm -> WorkType]
      BY DEF TypeOK, WorkType
    <3>2. \A d \in Cm :
            /\ ([work EXCEPT ![c].began = now])[d].rev = work[d].rev
            /\ ([work EXCEPT ![c].began = now])[d].map = work[d].map
      BY <3>1 DEF WorkType
    <3> QED
      BY <1>5, <3>2 DEF GetLineage
  <2>2. \A d \in Cm : pc'[d] = "commit" => pc[d] = "commit"
    BY <1>5 DEF GetLineage, TypeOK
  <2> QED
    BY <1>5, <2>1, <2>2 DEF GetLineage, MapInv, LookupsKeepTheMap, ConversionsAreCurrent
<1>6. ASSUME NEW c \in Cm, Crash(c) PROVE MapInv'
  <2>1. \A d \in Cm : IF d = c THEN work'[d].rev = 0 ELSE work'[d] = work[d]
    BY <1>6 DEF Crash, TypeOK, NoWork
  <2>2. \A d \in Cm : IF d = c THEN pc'[d] = "idle" ELSE pc'[d] = pc[d]
    BY <1>6 DEF Crash, TypeOK
  <2> QED
    BY <1>1, <1>6, <2>1, <2>2 DEF Crash, MapInv, LookupsKeepTheMap, ConversionsAreCurrent
<1>7. ASSUME NEW c \in Cm, Step(c) PROVE MapInv'
  <2>1. \A d \in Cm : work'[d].rev <= db.rev /\ (d # c => work'[d] = work[d])
    BY <1>7, WorkNamesRevision DEF OnlyOf
  <2>2. \A d \in Cm : pc'[d] = "commit" =>
          IF d = c THEN db' = db /\ work'[d].map = db.map ELSE pc[d] = "commit"
    BY <1>7, AboutToCommit
  <2>3. /\ db' = db \/ (db'.rev = db.rev + 1 /\ db'.map = db.map)
        /\ shm'.rev <= db.rev /\ superseded' = superseded
    BY <1>7, WrittenBack
  <2>4. ConversionsAreCurrent'
    BY <1>1, <2>1, <2>2, <2>3 DEF MapInv, ConversionsAreCurrent
  <2>5. shm'.rev \in Nat
    BY DEF TypeOK
  <2> QED
    BY <1>1, <2>3, <2>4, <2>5 DEF MapInv, LookupsKeepTheMap
<1> QED
  BY <1>2, <1>3, <1>4, <1>5, <1>6, <1>7 DEF Next

\* At the start the caches have the revision that is in the database.
LEMMA StartsWell == Init => TypeOK /\ MapInv
<1> SUFFICES ASSUME Init PROVE TypeOK /\ MapInv
  OBVIOUS
<1>1. db \in [rev : Nat, map : Nat, old : BOOLEAN] /\ db.rev = 1 /\ db.map = 1
  BY DEF Init
<1>2. shm \in EntryType /\ shm.rev <= 1
  BY <1>1 DEF Init, LoadMaps, EntryType, NoEntry, Entry
<1>3. hash \in [Cm -> EntryType] /\ work \in [Cm -> WorkType]
  BY DEF Init, EntryType, WorkType, NoEntry, NoWork, Reasons
<1>4. /\ mode \in Modes /\ now \in Nat /\ failedWith \in Nat
      /\ atStart \in {"none", "old", "current"}
      /\ startup \in [Cm -> {"none", "old", "current"}]
      /\ pc \in [Cm -> Phases] /\ \A c \in Cm : pc[c] = "idle" /\ work[c].rev = 0
  BY DEF Init, Phases, NoWork
<1>5. reply \in ReplyType
  BY DEF Init, NoReply, ReplyType
<1>6. superseded \in Seq(Nat) /\ Len(superseded) = 0 /\ blanks \subseteq Nat
  BY DEF Init
<1>7. TypeOK
  BY <1>1, <1>2, <1>3, <1>4, <1>5, <1>6 DEF TypeOK, EntryType, WorkType, ReplyType
<1> QED
  BY <1>1, <1>2, <1>4, <1>6, <1>7 DEF MapInv, LookupsKeepTheMap, ConversionsAreCurrent

\* Lookups never change what the administrators committed, and no process is
\* about to: of the revision that is there, it writes back what it has read.
THEOREM LookupInvariant == CommitChecks => (Spec => []LookupInv)
<1>1. ASSUME CommitChecks, TypeOK, MapInv, [Next]_vars PROVE TypeOK' /\ MapInv'
  BY <1>1, TypeStep, MapStep
<1>2. TypeOK /\ MapInv => LookupInv
  BY DEF LookupInv, MapInv
<1>3. SUFFICES ASSUME CommitChecks PROVE Spec => []LookupInv
  OBVIOUS
<1>4. TypeOK /\ MapInv /\ [Next]_vars => (TypeOK /\ MapInv)'
  BY <1>1, <1>3
<1> QED
  BY <1>2, <1>4, StartsWell, PTL DEF Spec

\* The part of it that a reader wants to know.
THEOREM MapIsKept == CommitChecks => (Spec => []LookupsKeepTheMap)
<1>1. SUFFICES ASSUME CommitChecks PROVE Spec => []LookupsKeepTheMap
  OBVIOUS
<1>2. LookupInv => LookupsKeepTheMap
  BY DEF LookupInv
<1>3. Spec => []LookupInv
  BY <1>1, LookupInvariant
<1> QED
  BY <1>2, <1>3, PTL

-----------------------------------------------------------------------------
\* The steps of a lookup leave the work and the hash table of every other
\* process alone, and the clock and the commits of the administrators.
LEMMA OthersAlone ==
  ASSUME TypeOK, NEW c \in Cm, Step(c)
  PROVE  /\ \A d \in Cm : d # c => /\ pc'[d] = pc[d] /\ work'[d] = work[d]
                                   /\ hash'[d] = hash[d]
         /\ now' = now /\ superseded' = superseded /\ blanks' = blanks /\ mode' = mode
         /\ failedWith' \in {failedWith, Len(superseded)}
<1>1. /\ pc \in [Cm -> Phases] /\ work \in [Cm -> WorkType] /\ hash \in [Cm -> EntryType]
  BY DEF TypeOK, WorkType, EntryType
<1>2. CASE FindInHash(c)
  BY <1>1, <1>2 DEF FindInHash
<1>3. CASE CheckHash(c)
  BY <1>1, <1>3 DEF CheckHash
<1>4. CASE FindInShm(c)
  BY <1>1, <1>4 DEF FindInShm
<1>5. CASE CheckShm(c)
  BY <1>1, <1>5 DEF CheckShm
<1>6. CASE TakeStartup(c)
  BY <1>1, <1>6 DEF TakeStartup
<1>7. CASE CheckStartup(c)
  BY <1>1, <1>7 DEF CheckStartup
<1>8. CASE ReadMap(c)
  BY <1>1, <1>8 DEF ReadMap
<1>9. CASE ReadRaw(c)
  BY <1>1, <1>9 DEF ReadRaw, NotConverted
<1>10. CASE CommitConverted(c)
  BY <1>1, <1>10 DEF CommitConverted, NotConverted
<1>11. CASE StoreInHash(c)
  BY <1>1, <1>11 DEF StoreInHash
<1>12. CASE StoreInShm(c)
  BY <1>1, <1>12 DEF StoreInShm
<1>13. CASE ReadDerived(c)
  BY <1>1, <1>13 DEF ReadDerived, NotConverted
<1> QED
  BY <1>2, <1>3, <1>4, <1>5, <1>6, <1>7, <1>8, <1>9, <1>10, <1>11, <1>12, <1>13 DEF Step

\* What the steps of a lookup may rely on.
Recent == TypeOK /\ MapInv /\ CopiesAreRecent /\ CommitChecks

\* What the others have is worth as much after a step of one lookup.
LEMMA OthersRecent ==
  ASSUME Recent, TypeOK', MapInv', NEW c \in Cm, Step(c), NEW d \in Cm, d # c
  PROVE  LookupIsRecent(d)' /\ HashIsRecent(d)'
<1>1. /\ pc'[d] = pc[d] /\ work'[d] = work[d] /\ hash'[d] = hash[d]
      /\ now' = now /\ superseded' = superseded /\ blanks' = blanks /\ mode' = mode
      /\ failedWith' \in {failedWith, Len(superseded)}
  BY OthersAlone DEF Recent
<1>2. db' = db \/ (db'.rev = db.rev + 1 /\ db'.map = db.map)
  BY WrittenBack DEF Recent
<1>3. /\ LookupIsRecent(d) /\ HashIsRecent(d)
      /\ failedWith <= Len(superseded)
  BY DEF Recent, CopiesAreRecent, HistoryInOrder
<1>t. TypeOK
  BY DEF Recent
<1>a. work[d].rev \in Nat /\ work[d].map \in Nat
  BY <1>t DEF TypeOK
<1>b. hash[d].rev \in Nat /\ hash[d].map \in Nat
  BY <1>t DEF TypeOK
<1>c. /\ db.rev \in Nat /\ db.map \in Nat /\ failedWith \in Nat /\ Len(superseded) \in Nat
  BY <1>t DEF TypeOK
<1>4. /\ db.rev \in Nat /\ db.map \in Nat /\ failedWith \in Nat /\ Len(superseded) \in Nat
      /\ work[d].rev \in Nat /\ work[d].map \in Nat
      /\ hash[d].rev \in Nat /\ hash[d].map \in Nat
  BY <1>a, <1>b, <1>c
<1>5. RevisionTells(work[d])' /\ RevisionTells(hash[d])'
  BY <1>1, <1>2, <1>3, <1>4, SMTT(30) DEF LookupIsRecent, HashIsRecent, RevisionTells
<1>6. LookupIsRecent(d)'
  BY <1>1, <1>3, <1>5 DEF LookupIsRecent, InForce, Replaced
<1>7. CheckFailedSince(hash[d].map) => CheckFailedSince(hash[d].map)'
  BY <1>1, <1>3, <1>4 DEF CheckFailedSince
<1>8. HashIsRecent(d)'
  BY <1>1, <1>3, <1>5, <1>7 DEF HashIsRecent, InForce, Replaced
<1> QED
  BY <1>6, <1>8

\* The shared copy is worth as much after a step that leaves it alone, if the
\* process that takes it still sees to it, or has done so.
LEMMA ShmKept ==
  ASSUME Recent, TypeOK', MapInv', NEW c \in Cm, Step(c), shm' = shm,
         shm.due /\ Refreshes(c) =>
           \/ Refreshes(c)' \/ InForce(shm.map, shm.time, Interval + MaxCall)
           \/ CheckFailedSince(shm.map)' \/ EmptiedSince(shm.map)
  PROVE  ShmIsRecent'
<1>1. /\ \A d \in Cm : d # c => pc'[d] = pc[d] /\ work'[d] = work[d]
      /\ now' = now /\ superseded' = superseded /\ blanks' = blanks /\ mode' = mode
      /\ failedWith' \in {failedWith, Len(superseded)}
  BY OthersAlone DEF Recent
<1>2. db' = db \/ (db'.rev = db.rev + 1 /\ db'.map = db.map)
  BY WrittenBack DEF Recent
<1>3. ShmIsRecent /\ failedWith <= Len(superseded)
  BY DEF Recent, CopiesAreRecent, HistoryInOrder
<1>4. /\ db.rev \in Nat /\ db.map \in Nat /\ failedWith \in Nat /\ Len(superseded) \in Nat
      /\ shm.rev \in Nat /\ shm.map \in Nat
  BY DEF Recent, TypeOK
<1>5. RevisionTells(shm)'
  BY <1>1, <1>2, <1>3, <1>4 DEF ShmIsRecent, RevisionTells
<1>6. CheckFailedSince(shm.map) => CheckFailedSince(shm.map)'
  BY <1>1, <1>3, <1>4 DEF CheckFailedSince
<1>7. \A d \in Cm : d # c /\ Refreshes(d) => Refreshes(d)'
  BY <1>1 DEF Refreshes
<1>8. /\ InForce(shm.map, shm.time, Interval + MaxCall)' <=> InForce(shm.map, shm.time, Interval + MaxCall)
      /\ EmptiedSince(shm.map)' <=> EmptiedSince(shm.map)
  BY <1>1 DEF InForce, Replaced, EmptiedSince
<1> QED
  BY <1>1, <1>3, <1>5, <1>6, <1>7, <1>8 DEF ShmIsRecent

\* A copy with the present revision has been in force until now.
LEMMA CurrentIsInForce ==
  ASSUME TypeOK, LookupsKeepTheMap, NEW copy, RevisionTells(copy), copy.rev = db.rev,
         copy.map # Unreadable, NEW t, NEW span
  PROVE  InForce(copy.map, t, span)
<1>1. Len(superseded) \in Nat /\ copy.map = Len(superseded) + 1
  BY DEF TypeOK, LookupsKeepTheMap, RevisionTells
<1> QED
  BY <1>1 DEF InForce, Replaced

\* A reply without a lineage is none that could be outdated.
LEMMA OtherRepliesAreFresh ==
  ASSUME reply'.kind # "lineage"
  PROVE  AnswersFresh'
BY DEF AnswersFresh

\* What is known of the process that takes a step.
LEMMA OneLookup ==
  ASSUME Recent, NEW c \in Cm
  PROVE  /\ LookupIsRecent(c) /\ HashIsRecent(c) /\ ShmIsRecent /\ HistoryInOrder
         /\ pc \in [Cm -> Phases] /\ work \in [Cm -> WorkType] /\ hash \in [Cm -> EntryType]
         /\ LookupsKeepTheMap /\ TypeOK
         /\ work[c].rev \in Nat /\ work[c].map \in Nat /\ work[c].began \in Nat
         /\ hash[c].rev \in Nat /\ hash[c].map \in Nat /\ hash[c].time \in Nat
         /\ now \in Nat /\ db.rev \in Nat /\ db.map \in Nat /\ db.rev >= 1 /\ db.map >= 1
         /\ Interval \in Nat /\ MaxCall \in Nat
         /\ Len(superseded) \in Nat /\ superseded \in Seq(Nat)
<1>1. TypeOK /\ MapInv /\ CopiesAreRecent
  BY DEF Recent
<1>2. pc \in [Cm -> Phases] /\ work \in [Cm -> WorkType] /\ hash \in [Cm -> EntryType]
  BY <1>1 DEF TypeOK, WorkType, EntryType
<1>3. /\ work[c].rev \in Nat /\ work[c].map \in Nat /\ work[c].began \in Nat
      /\ hash[c].rev \in Nat /\ hash[c].map \in Nat /\ hash[c].time \in Nat
  BY <1>2 DEF WorkType, EntryType
<1>4. now \in Nat /\ db.rev \in Nat /\ db.map \in Nat /\ superseded \in Seq(Nat)
  BY <1>1 DEF TypeOK
<1>5. Len(superseded) \in Nat /\ db.map = Len(superseded) + 1
  BY <1>1, <1>4 DEF MapInv, LookupsKeepTheMap
<1> QED
  BY <1>1, <1>2, <1>3, <1>4, <1>5, ZoneMapCacheAssumption
     DEF MapInv, CopiesAreRecent

\* The search in the hash table: an entry is answered from within the interval.
LEMMA FindInHashRecent ==
  ASSUME Recent, TypeOK', MapInv', NEW c \in Cm, FindInHash(c)
  PROVE  LookupIsRecent(c)' /\ HashIsRecent(c)' /\ ShmIsRecent' /\ AnswersFresh'
<1>1. Step(c)
  BY DEF Step
<1>2. /\ db' = db /\ shm' = shm /\ superseded' = superseded /\ now' = now /\ mode' = mode
      /\ mode # "shared" /\ blanks' = blanks
  BY DEF FindInHash
<1>3. ShmIsRecent'
  <2>1. ~shm.due
    BY <1>2, OneLookup DEF ShmIsRecent
  <2> QED
    BY <1>1, <1>2, <2>1, ShmKept
<1>4. CASE hash[c] = NoEntry /\ Load(c, FirstSource(c), "missing") /\ UNCHANGED hash /\ Silent
  <2>1. /\ work'[c].rev = work[c].rev /\ work'[c].map = work[c].map
        /\ work'[c].began = work[c].began /\ pc'[c] \in {"startup", "load"}
    BY <1>4, OneLookup DEF FirstSource, WorkType
  <2>2. LookupIsRecent(c)'
    BY <1>2, <2>1, OneLookup DEF LookupIsRecent, RevisionTells, FindInHash
  <2>3. HashIsRecent(c)'
    BY <1>2, <1>4, <2>1, OneLookup DEF HashIsRecent, RevisionTells, NoEntry, Unreadable
  <2>4. AnswersFresh'
    BY <1>4, OtherRepliesAreFresh DEF NoReply
  <2> QED
    BY <1>3, <2>2, <2>3, <2>4
<1>5. CASE now <= hash[c].time + Interval /\ Lineage(c, hash[c].map) /\ UNCHANGED hash
  <2>1. work'[c] = NoWork /\ pc'[c] = "idle" /\ hash'[c] = hash[c] /\ failedWith' = failedWith
    BY <1>5, OneLookup
  <2>2. LookupIsRecent(c)'
    BY <1>2, <2>1, OneLookup DEF LookupIsRecent, RevisionTells, NoWork, Unreadable
  <2>3. pc[c] = "find"
    BY DEF FindInHash
  <2>4. HashIsRecent(c)'
    BY <1>2, <2>1, <2>3, OneLookup
       DEF HashIsRecent, RevisionTells, InForce, Replaced, CheckFailedSince
  <2>5. reply'.map = hash[c].map
    BY <1>5
  <2>6. ASSUME hash[c].map # Unreadable, Replaced(hash[c].map), ~CheckFailedSince(hash[c].map)
        PROVE  now <= superseded[hash[c].map] + Interval + MaxCall
    <3>1. superseded[hash[c].map] \in Nat
      BY <2>6, OneLookup DEF Replaced, Unreadable
    <3>2. hash[c].time <= superseded[hash[c].map] + MaxCall
      BY <2>3, <2>6, OneLookup DEF HashIsRecent, InForce
    <3>3. now <= hash[c].time + Interval
      BY <1>5
    <3>4. hash[c].time \in Nat /\ Interval \in Nat /\ MaxCall \in Nat /\ now \in Nat
      BY OneLookup
    <3> QED
      BY <3>1, <3>2, <3>3, <3>4
  <2>7. AnswersFresh'
    BY <1>2, <2>1, <2>5, <2>6 DEF AnswersFresh, Replaced, CheckFailedSince
  <2> QED
    BY <1>3, <2>2, <2>4, <2>7
<1>6. CASE hash' = [hash EXCEPT ![c].time = now] /\ Goto(c, "check") /\ UNCHANGED work /\ Silent
  <2>1. /\ work'[c] = work[c] /\ pc'[c] = "check" /\ hash'[c].time = now
        /\ hash'[c].rev = hash[c].rev /\ hash'[c].map = hash[c].map
    BY <1>6, OneLookup DEF EntryType
  <2>2. LookupIsRecent(c)'
    BY <1>2, <2>1, OneLookup DEF LookupIsRecent, RevisionTells, FindInHash
  <2>3. HashIsRecent(c)'
    BY <1>2, <2>1, OneLookup DEF HashIsRecent, RevisionTells
  <2>4. AnswersFresh'
    BY <1>6, OtherRepliesAreFresh DEF NoReply
  <2> QED
    BY <1>3, <2>2, <2>3, <2>4
<1> QED
  BY <1>4, <1>5, <1>6 DEF FindInHash

\* The check of an entry whose time was noted.
LEMMA CheckHashRecent ==
  ASSUME Recent, TypeOK', MapInv', NEW c \in Cm, CheckHash(c)
  PROVE  LookupIsRecent(c)' /\ HashIsRecent(c)' /\ ShmIsRecent' /\ AnswersFresh'
<1>1. Step(c)
  BY DEF Step
<1>2. /\ db' = db /\ shm' = shm /\ superseded' = superseded /\ now' = now /\ mode' = mode
      /\ mode # "shared" /\ blanks' = blanks /\ pc[c] = "check"
  BY DEF CheckHash
<1>3. ShmIsRecent'
  <2>1. ~shm.due
    BY <1>2, OneLookup DEF ShmIsRecent
  <2> QED
    BY <1>1, <1>2, <2>1, ShmKept
<1>4. CASE hash' = [hash EXCEPT ![c] = NoEntry] /\ Load(c, FirstSource(c), "outdated") /\ Silent
  <2>1. /\ work'[c].rev = work[c].rev /\ work'[c].map = work[c].map
        /\ work'[c].began = work[c].began /\ pc'[c] \in {"startup", "load"}
        /\ hash'[c] = NoEntry
    BY <1>4, OneLookup DEF FirstSource, WorkType
  <2>2. LookupIsRecent(c)'
    BY <1>2, <2>1, OneLookup DEF LookupIsRecent, RevisionTells
  <2>3. HashIsRecent(c)'
    BY <1>2, <2>1, OneLookup DEF HashIsRecent, RevisionTells, NoEntry, Unreadable
  <2>4. AnswersFresh'
    BY <1>4, OtherRepliesAreFresh DEF NoReply
  <2> QED
    BY <1>3, <2>2, <2>3, <2>4
<1>5. CASE ~RevChangedInHash(hash[c]) /\ Lineage(c, hash[c].map) /\ UNCHANGED hash
  <2>1. work'[c] = NoWork /\ pc'[c] = "idle" /\ hash'[c] = hash[c]
    BY <1>5, OneLookup
  <2>2. LookupIsRecent(c)'
    BY <1>2, <2>1, OneLookup DEF LookupIsRecent, RevisionTells, NoWork, Unreadable
  <2>3. hash[c].rev = db.rev
    BY <1>5 DEF RevChangedInHash, RevChanged
  <2>4. RevisionTells(hash[c])
    BY OneLookup DEF HashIsRecent
  <2>5. hash[c].map = Unreadable \/ hash[c].map = Len(superseded) + 1
    BY <2>3, <2>4, OneLookup DEF RevisionTells, LookupsKeepTheMap
  <2>6. HashIsRecent(c)'
    BY <1>2, <2>1, <2>4, <2>5, OneLookup DEF HashIsRecent, RevisionTells, InForce, Replaced
  <2>7. reply'.map = hash[c].map
    BY <1>5
  <2>8. AnswersFresh'
    BY <1>2, <2>5, <2>7, OneLookup DEF AnswersFresh, Replaced
  <2> QED
    BY <1>3, <2>2, <2>6, <2>8
<1>6. CASE Fail(c) /\ UNCHANGED hash
  <2>1. work'[c] = NoWork /\ pc'[c] = "idle" /\ hash'[c] = hash[c] /\ failedWith' = Len(superseded)
    BY <1>6, OneLookup
  <2>2. LookupIsRecent(c)'
    BY <1>2, <2>1, OneLookup DEF LookupIsRecent, RevisionTells, NoWork, Unreadable
  <2>3. HashIsRecent(c)'
    BY <1>2, <2>1, OneLookup
       DEF HashIsRecent, RevisionTells, InForce, Replaced, CheckFailedSince
  <2>4. AnswersFresh'
    BY <1>6, OtherRepliesAreFresh
  <2> QED
    BY <1>3, <2>2, <2>3, <2>4
<1> QED
  BY <1>4, <1>5, <1>6 DEF CheckHash

\* The search in the shared cache: what is due is answered by no other process
\* until it has been checked.
LEMMA FindInShmRecent ==
  ASSUME Recent, TypeOK', MapInv', NEW c \in Cm, FindInShm(c)
  PROVE  LookupIsRecent(c)' /\ HashIsRecent(c)' /\ ShmIsRecent' /\ AnswersFresh'
<1>1. Step(c)
  BY DEF Step
<1>2. /\ db' = db /\ superseded' = superseded /\ now' = now /\ mode' = mode
      /\ mode = "shared" /\ blanks' = blanks /\ hash' = hash /\ pc[c] = "find"
  BY DEF FindInShm
<1>3. ~Refreshes(c)
  BY <1>2 DEF Refreshes
<1>4. CASE Load(c, "load", "missing") /\ UNCHANGED shm /\ Silent
  <2>1. /\ work'[c].rev = work[c].rev /\ work'[c].map = work[c].map
        /\ work'[c].began = work[c].began /\ pc'[c] = "load" /\ work'[c].why = "missing"
    BY <1>4, OneLookup DEF WorkType
  <2>2. LookupIsRecent(c)'
    BY <1>2, <2>1, OneLookup DEF LookupIsRecent, RevisionTells
  <2>3. HashIsRecent(c)'
    BY <1>2, <1>4, <2>1, OneLookup
       DEF HashIsRecent, RevisionTells, InForce, Replaced, CheckFailedSince
  <2>4. AnswersFresh'
    BY <1>4, OtherRepliesAreFresh DEF NoReply
  <2>5. ShmIsRecent'
    BY <1>1, <1>3, <1>4, ShmKept
  <2> QED
    BY <2>2, <2>3, <2>4, <2>5
<1>5. CASE /\ ~(shm.due /\ shm.time < now)
           /\ Reply(c, "lineage", shm.map, OthersRefresh(c) \/ ~shm.due)
           /\ UNCHANGED <<shm, failedWith>>
  <2>1. work'[c] = NoWork /\ pc'[c] = "idle" /\ failedWith' = failedWith
    BY <1>5, OneLookup
  <2>2. LookupIsRecent(c)'
    BY <1>2, <2>1, OneLookup DEF LookupIsRecent, RevisionTells, NoWork, Unreadable
  <2>3. HashIsRecent(c)'
    BY <1>2, <2>1, OneLookup
       DEF HashIsRecent, RevisionTells, InForce, Replaced, CheckFailedSince
  <2>4. ShmIsRecent'
    BY <1>1, <1>3, <1>5, ShmKept
  <2>5. ASSUME shm.due, ~OthersRefresh(c), Replaced(shm.map),
               ~CheckFailedSince(shm.map), ~EmptiedSince(shm.map)
        PROVE  now <= superseded[shm.map] + Interval + MaxCall
    <3>1. \A d \in Cm : ~Refreshes(d)
      BY <1>2, <1>3, <2>5 DEF OthersRefresh, Refreshes
    <3>2. shm.map # Unreadable /\ InForce(shm.map, shm.time, Interval + MaxCall)
      BY <2>5, <3>1, OneLookup DEF ShmIsRecent
    <3>3. shm.map \in Nat /\ shm.time \in Nat
      BY OneLookup DEF TypeOK
    <3>4. superseded[shm.map] \in Nat
      BY <2>5, <3>2, <3>3, OneLookup DEF Replaced, Unreadable
    <3>5. shm.time <= superseded[shm.map] + (Interval + MaxCall)
      BY <2>5, <3>2 DEF InForce
    <3> QED
      BY <1>5, <2>5, <3>3, <3>4, <3>5, OneLookup, SMTT(30)
  <2>6. reply'.map = shm.map /\ reply'.known = (OthersRefresh(c) \/ ~shm.due)
    BY <1>5
  <2>7. AnswersFresh'
    BY <1>2, <2>1, <2>5, <2>6 DEF AnswersFresh, Replaced, CheckFailedSince, EmptiedSince
  <2> QED
    BY <2>2, <2>3, <2>4, <2>7
<1>7. CASE shm.due /\ shm' = [shm EXCEPT !.time = now + Interval] /\ Fail(c)
  <2>1. work'[c] = NoWork /\ pc'[c] = "idle" /\ failedWith' = Len(superseded)
    BY <1>7, OneLookup
  <2>2. /\ shm'.rev = shm.rev /\ shm'.map = shm.map /\ shm'.time = now + Interval
        /\ RevisionTells(shm) /\ shm.map \notin blanks /\ shm.map # Unreadable
    BY <1>7, OneLookup DEF TypeOK, ShmIsRecent
  <2>3. LookupIsRecent(c)'
    BY <1>2, <2>1, OneLookup DEF LookupIsRecent, RevisionTells, NoWork, Unreadable
  <2>4. HashIsRecent(c)'
    BY <1>2, <2>1, OneLookup
       DEF HashIsRecent, RevisionTells, InForce, Replaced, CheckFailedSince
  <2>5. Replaced(shm.map)' => CheckFailedSince(shm.map)'
    BY <1>2, <2>1, <2>2 DEF Replaced, CheckFailedSince
  <2>6. ShmIsRecent'
    BY <1>2, <2>2, <2>5, OneLookup DEF ShmIsRecent, RevisionTells, InForce
  <2>7. AnswersFresh'
    BY <1>7, OtherRepliesAreFresh
  <2> QED
    BY <2>3, <2>4, <2>6, <2>7
<1>6. CASE /\ shm.due /\ shm' = [shm EXCEPT !.time = now + Interval]
           /\ work' = [work EXCEPT ![c].rev = shm.rev, ![c].map = shm.map]
           /\ Goto(c, "check") /\ Silent
  <2>1. /\ work'[c].rev = shm.rev /\ work'[c].map = shm.map
        /\ work'[c].began = work[c].began /\ work'[c].why = work[c].why /\ pc'[c] = "check"
    BY <1>6, OneLookup DEF WorkType
  <2>2. /\ shm'.rev = shm.rev /\ shm'.map = shm.map /\ shm'.time = now + Interval
        /\ RevisionTells(shm) /\ shm.map \notin blanks /\ shm.map # Unreadable
    BY <1>6, OneLookup DEF TypeOK, ShmIsRecent
  <2>3. LookupIsRecent(c)'
    BY <1>2, <2>1, <2>2, OneLookup DEF LookupIsRecent, RevisionTells
  <2>4. HashIsRecent(c)'
    BY <1>2, <1>6, OneLookup
       DEF HashIsRecent, RevisionTells, InForce, Replaced, CheckFailedSince
  <2>5. Refreshes(c)'
    BY <2>1, <2>2 DEF Refreshes
  <2>6. ShmIsRecent'
    BY <1>2, <2>2, <2>5, OneLookup DEF ShmIsRecent, RevisionTells
  <2>7. AnswersFresh'
    BY <1>6, OtherRepliesAreFresh DEF NoReply
  <2> QED
    BY <2>3, <2>4, <2>6, <2>7
<1> QED
  BY <1>4, <1>5, <1>6, <1>7 DEF FindInShm

\* The check of a shared copy: it is current, or will be replaced.
LEMMA CheckShmRecent ==
  ASSUME Recent, TypeOK', MapInv', NEW c \in Cm, CheckShm(c)
  PROVE  LookupIsRecent(c)' /\ HashIsRecent(c)' /\ ShmIsRecent' /\ AnswersFresh'
<1>1. Step(c)
  BY DEF Step
<1>2. /\ db' = db /\ superseded' = superseded /\ now' = now /\ mode' = mode /\ shm' = shm
      /\ mode = "shared" /\ blanks' = blanks /\ hash' = hash /\ pc[c] = "check"
  BY DEF CheckShm
<1>3. RevisionTells(work[c])
  BY OneLookup DEF LookupIsRecent
<1>4. ASSUME failedWith' \in {failedWith, Len(superseded)} PROVE HashIsRecent(c)'
  <2>1. failedWith <= Len(superseded)
    BY OneLookup DEF HistoryInOrder
  <2>2. failedWith \in Nat
    BY OneLookup DEF TypeOK
  <2>3. CheckFailedSince(hash[c].map) => CheckFailedSince(hash[c].map)'
    BY <1>2, <1>4, <2>1, <2>2, OneLookup DEF CheckFailedSince
  <2> QED
    BY <1>2, <2>3, OneLookup DEF HashIsRecent, RevisionTells, InForce, Replaced
<1>5. CASE Load(c, "load", "outdated") /\ Silent
  <2>1. /\ work'[c].rev = work[c].rev /\ work'[c].map = work[c].map
        /\ work'[c].began = work[c].began /\ pc'[c] = "load" /\ work'[c].why = "outdated"
    BY <1>5, OneLookup DEF WorkType
  <2>2. LookupIsRecent(c)'
    BY <1>2, <2>1, OneLookup DEF LookupIsRecent, RevisionTells
  <2>3. Refreshes(c)'
    BY <2>1 DEF Refreshes
  <2>4. ShmIsRecent'
    BY <1>1, <1>2, <2>3, ShmKept
  <2>5. AnswersFresh'
    BY <1>5, OtherRepliesAreFresh DEF NoReply
  <2> QED
    BY <1>4, <1>5, <2>2, <2>4, <2>5
<1>6. CASE ~RevChanged(work[c]) /\ Lineage(c, work[c].map)
  <2>1. work'[c] = NoWork /\ pc'[c] = "idle" /\ failedWith' = failedWith
    BY <1>6, OneLookup
  <2>2. LookupIsRecent(c)'
    BY <1>2, <2>1, OneLookup DEF LookupIsRecent, RevisionTells, NoWork, Unreadable
  <2>3. work[c].rev = db.rev
    BY <1>6 DEF RevChanged
  <2>4. work[c].map = Unreadable \/ work[c].map = Len(superseded) + 1
    BY <1>3, <2>3, OneLookup DEF RevisionTells, LookupsKeepTheMap
  <2>5. ASSUME shm.due, Refreshes(c) PROVE InForce(shm.map, shm.time, Interval + MaxCall)
    <3>1. shm.map = work[c].map /\ shm.map # Unreadable
      BY <1>2, <2>5, OneLookup DEF Refreshes, ShmIsRecent
    <3> QED
      BY <2>4, <3>1, OneLookup DEF InForce, Replaced
  <2>6. ShmIsRecent'
    BY <1>1, <1>2, <2>5, ShmKept
  <2>7. reply'.map = work[c].map
    BY <1>6
  <2>8. AnswersFresh'
    BY <1>2, <2>4, <2>7, OneLookup DEF AnswersFresh, Replaced
  <2> QED
    BY <1>4, <2>1, <2>2, <2>6, <2>8
<1>7. CASE Fail(c)
  <2>1. work'[c] = NoWork /\ pc'[c] = "idle" /\ failedWith' = Len(superseded)
    BY <1>7, OneLookup
  <2>2. LookupIsRecent(c)'
    BY <1>2, <2>1, OneLookup DEF LookupIsRecent, RevisionTells, NoWork, Unreadable
  <2>3. shm.map <= Len(superseded) => CheckFailedSince(shm.map)'
    BY <1>2, <2>1 DEF CheckFailedSince
  <2>4. InForce(shm.map, shm.time, Interval + MaxCall) \/ CheckFailedSince(shm.map)'
    BY <2>3 DEF InForce, Replaced
  <2>5. ShmIsRecent'
    BY <1>1, <1>2, <2>4, ShmKept
  <2>6. AnswersFresh'
    BY <1>7, OtherRepliesAreFresh
  <2> QED
    BY <1>4, <2>1, <2>2, <2>5, <2>6
<1> QED
  BY <1>5, <1>6, <1>7 DEF CheckShm

-----------------------------------------------------------------------------
\* While a copy is being loaded, the process' own hash table is not touched.
LEMMA HashLeftAlone ==
  ASSUME Recent, NEW c \in Cm, Step(c), hash' = hash,
         pc[c] # "check" \/ mode = "shared",
         db' = db \/ (db'.rev = db.rev + 1 /\ db'.map = db.map)
  PROVE  HashIsRecent(c)'
<1>1. /\ now' = now /\ superseded' = superseded /\ mode' = mode
      /\ failedWith' \in {failedWith, Len(superseded)}
  BY OthersAlone DEF Recent
<1>2. failedWith <= Len(superseded) /\ failedWith \in Nat
  BY OneLookup DEF HistoryInOrder, TypeOK
<1>3. CheckFailedSince(hash[c].map) => CheckFailedSince(hash[c].map)'
  BY <1>1, <1>2, OneLookup DEF CheckFailedSince
<1>4. RevisionTells(hash[c])'
  BY OneLookup DEF HashIsRecent, RevisionTells
<1> QED
  BY <1>1, <1>3, <1>4, OneLookup DEF HashIsRecent, InForce, Replaced

\* A call that fails leaves nothing behind that could be taken for checked.
LEMMA FailRecent ==
  ASSUME Recent, TypeOK', MapInv', NEW c \in Cm, Step(c), Fail(c),
         hash' = hash, shm' = shm, db' = db, pc[c] # "check"
  PROVE  LookupIsRecent(c)' /\ HashIsRecent(c)' /\ ShmIsRecent' /\ AnswersFresh'
<1>1. work'[c] = NoWork /\ pc'[c] = "idle" /\ failedWith' = Len(superseded)
  BY OneLookup
<1>2. superseded' = superseded /\ now' = now /\ mode' = mode
  BY OthersAlone DEF Recent
<1>3. LookupIsRecent(c)'
  BY <1>1, <1>2, OneLookup DEF LookupIsRecent, RevisionTells, NoWork, Unreadable
<1>4. shm.map <= Len(superseded) => CheckFailedSince(shm.map)'
  BY <1>1 DEF CheckFailedSince
<1>5. InForce(shm.map, shm.time, Interval + MaxCall) \/ CheckFailedSince(shm.map)'
  BY <1>4 DEF InForce, Replaced
<1>6. ShmIsRecent'
  BY <1>5, ShmKept
<1>7. AnswersFresh'
  BY OtherRepliesAreFresh
<1> QED
  BY <1>3, <1>6, <1>7, HashLeftAlone

\* A load that fails is the end of the lookup, or starts it over with the error.
LEMMA LoadFailsRecent ==
  ASSUME Recent, TypeOK', MapInv', NEW c \in Cm, Step(c), LoadFails(c),
         hash' = hash, shm' = shm, db' = db, pc[c] # "check"
  PROVE  LookupIsRecent(c)' /\ HashIsRecent(c)' /\ ShmIsRecent' /\ AnswersFresh'
<1>1. CASE Fail(c)
  BY <1>1, FailRecent
<1>2. CASE /\ Goto(c, "find") /\ work' = [work EXCEPT ![c].failed = TRUE]
           /\ failedWith' = Len(superseded) /\ reply' = NoReply
  <2>1. /\ work'[c].rev = work[c].rev /\ work'[c].map = work[c].map
        /\ work'[c].began = work[c].began /\ work'[c].why = work[c].why /\ pc'[c] = "find"
    BY <1>2, OneLookup DEF WorkType
  <2>2. superseded' = superseded /\ now' = now /\ mode' = mode
    BY OthersAlone DEF Recent
  <2>3. LookupIsRecent(c)'
    <3>1. pc[c] # "idle"
      BY <1>2 DEF Step, FindInHash, CheckHash, FindInShm, CheckShm, TakeStartup, CheckStartup,
                  ReadMap, ReadRaw, CommitConverted, ReadDerived, StoreInHash, StoreInShm
    <3> QED
      BY <2>1, <2>2, <3>1, OneLookup DEF LookupIsRecent, RevisionTells
  <2>4. shm.map <= Len(superseded) => CheckFailedSince(shm.map)'
    BY <1>2 DEF CheckFailedSince
  <2>5. InForce(shm.map, shm.time, Interval + MaxCall) \/ CheckFailedSince(shm.map)'
    BY <2>4 DEF InForce, Replaced
  <2>6. ShmIsRecent'
    BY <2>5, ShmKept
  <2>7. AnswersFresh'
    BY <1>2, OtherRepliesAreFresh DEF NoReply
  <2> QED
    BY <2>3, <2>6, <2>7, HashLeftAlone
<1> QED
  BY <1>1, <1>2

\* The read of the map from the database.
LEMMA ReadMapRecent ==
  ASSUME Recent, TypeOK', MapInv', NEW c \in Cm, ReadMap(c)
  PROVE  LookupIsRecent(c)' /\ HashIsRecent(c)' /\ ShmIsRecent' /\ AnswersFresh'
<1>1. Step(c)
  BY DEF Step
<1>2. /\ db' = db /\ superseded' = superseded /\ now' = now /\ mode' = mode /\ shm' = shm
      /\ blanks' = blanks /\ hash' = hash /\ pc[c] = "load"
  BY DEF ReadMap
<1>3. CASE /\ work' = [work EXCEPT ![c].rev = db.rev, ![c].map = db.map]
           /\ Goto(c, IF db.old THEN "raw" ELSE "store") /\ Silent
  <2>1. /\ work'[c].rev = db.rev /\ work'[c].map = db.map
        /\ work'[c].began = work[c].began /\ work'[c].why = work[c].why
        /\ pc'[c] \in {"raw", "store"}
    BY <1>3, OneLookup DEF WorkType
  <2>2. InForce(db.map, work[c].began, 0) /\ db.map # Unreadable
    BY OneLookup DEF InForce, Replaced, LookupsKeepTheMap, Unreadable
  <2>3. InForce(work[c].map, work[c].began, 0)'
    BY <1>2, <2>1, <2>2 DEF InForce, Replaced
  <2>4. LookupIsRecent(c)'
    BY <1>2, <2>1, <2>2, <2>3, OneLookup DEF LookupIsRecent, RevisionTells
  <2>5. Refreshes(c)'
    BY <1>2, <2>1, OneLookup DEF Refreshes, ShmIsRecent, RevisionTells
  <2>6. ShmIsRecent'
    BY <1>1, <1>2, <2>5, ShmKept
  <2>7. AnswersFresh'
    BY <1>3, OtherRepliesAreFresh DEF NoReply
  <2>8. HashIsRecent(c)'
    BY <1>1, <1>2, HashLeftAlone
  <2> QED
    BY <2>4, <2>6, <2>7, <2>8
<1>4. CASE LoadFails(c)
  BY <1>1, <1>2, <1>4, LoadFailsRecent
<1> QED
  BY <1>3, <1>4 DEF ReadMap

\* The element of the startup list is from the first revision.
LEMMA TakeStartupRecent ==
  ASSUME Recent, TypeOK', MapInv', NEW c \in Cm, TakeStartup(c)
  PROVE  LookupIsRecent(c)' /\ HashIsRecent(c)' /\ ShmIsRecent' /\ AnswersFresh'
<1>1. Step(c)
  BY DEF Step
<1>2. /\ db' = db /\ superseded' = superseded /\ now' = now /\ mode' = mode /\ shm' = shm
      /\ blanks' = blanks /\ hash' = hash /\ pc[c] = "startup" /\ mode # "shared"
  BY OneLookup DEF TakeStartup, LookupIsRecent
<1>3. /\ work'[c].rev = 1 /\ work'[c].map = 1
      /\ work'[c].began = work[c].began /\ pc'[c] \in {"raw", "startcheck"}
  BY OneLookup DEF TakeStartup, WorkType
<1>4. db.rev = 1 => db.map = 1
  BY OneLookup DEF HistoryInOrder
<1>5. LookupIsRecent(c)'
  BY <1>2, <1>3, <1>4, OneLookup DEF LookupIsRecent, RevisionTells
<1>6. ShmIsRecent'
  <2>1. ~shm.due
    BY <1>2, OneLookup DEF ShmIsRecent
  <2> QED
    BY <1>1, <1>2, <2>1, ShmKept
<1>7. AnswersFresh'
  BY OtherRepliesAreFresh DEF TakeStartup, NoReply
<1> QED
  BY <1>1, <1>2, <1>5, <1>6, <1>7, HashLeftAlone

\* What is still current was in force throughout the lookup.
LEMMA CheckStartupRecent ==
  ASSUME Recent, TypeOK', MapInv', NEW c \in Cm, CheckStartup(c)
  PROVE  LookupIsRecent(c)' /\ HashIsRecent(c)' /\ ShmIsRecent' /\ AnswersFresh'
<1>1. Step(c)
  BY DEF Step
<1>2. /\ db' = db /\ superseded' = superseded /\ now' = now /\ mode' = mode /\ shm' = shm
      /\ blanks' = blanks /\ hash' = hash /\ pc[c] = "startcheck" /\ mode # "shared"
  BY OneLookup DEF CheckStartup, LookupIsRecent
<1>3. ShmIsRecent'
  <2>1. ~shm.due
    BY <1>2, OneLookup DEF ShmIsRecent
  <2> QED
    BY <1>1, <1>2, <2>1, ShmKept
<1>4. HashIsRecent(c)'
  BY <1>1, <1>2, HashLeftAlone
<1>5. CASE Load(c, "load", "missing") /\ Silent
  <2>1. /\ work'[c].rev = work[c].rev /\ work'[c].map = work[c].map
        /\ work'[c].began = work[c].began /\ pc'[c] = "load"
    BY <1>5, OneLookup DEF WorkType
  <2>2. LookupIsRecent(c)'
    BY <1>2, <2>1, OneLookup DEF LookupIsRecent, RevisionTells
  <2> QED
    BY <1>3, <1>4, <1>5, <2>2, OtherRepliesAreFresh DEF NoReply
<1>6. CASE ~RevChanged(work[c]) /\ Goto(c, "store") /\ UNCHANGED work /\ Silent
  <2>1. work'[c] = work[c] /\ pc'[c] = "store"
    BY <1>6, OneLookup
  <2>2. work[c].map = Unreadable \/ work[c].map = Len(superseded) + 1
    BY <1>6, OneLookup DEF RevChanged, LookupIsRecent, RevisionTells, LookupsKeepTheMap
  <2>3. work[c].map = Unreadable \/ InForce(work[c].map, work[c].began, 0)
    BY <2>2, OneLookup DEF InForce, Replaced
  <2>4. LookupIsRecent(c)'
    BY <1>2, <2>1, <2>3, OneLookup DEF LookupIsRecent, RevisionTells, InForce, Replaced
  <2> QED
    BY <1>3, <1>4, <1>6, <2>4, OtherRepliesAreFresh DEF NoReply
<1>7. CASE Fail(c)
  BY <1>1, <1>2, <1>7, FailRecent
<1> QED
  BY <1>5, <1>6, <1>7 DEF CheckStartup

\* A conversion that fails leaves an error, or data that no number is found in.
LEMMA NotConvertedRecent ==
  ASSUME Recent, TypeOK', MapInv', NEW c \in Cm, Step(c), NotConverted(c),
         hash' = hash, shm' = shm, db' = db, pc[c] \in {"raw", "commit", "derived"}
  PROVE  LookupIsRecent(c)' /\ HashIsRecent(c)' /\ ShmIsRecent' /\ AnswersFresh'
<1>1. superseded' = superseded /\ now' = now /\ mode' = mode
  BY OthersAlone DEF Recent
<1>2. CASE LoadFails(c)
  BY <1>2, LoadFailsRecent
<1>3. CASE /\ work[c].why = "startup" /\ Goto(c, "startcheck")
           /\ work' = [work EXCEPT ![c].map = Unreadable] /\ reply' = NoReply
  <2>1. /\ work'[c].rev = work[c].rev /\ work'[c].map = Unreadable
        /\ work'[c].began = work[c].began /\ pc'[c] = "startcheck"
    BY <1>3, OneLookup DEF WorkType
  <2>2. mode # "shared"
    BY <1>3, OneLookup DEF LookupIsRecent
  <2>3. LookupIsRecent(c)'
    BY <1>1, <2>1, <2>2, OneLookup DEF LookupIsRecent, RevisionTells, Unreadable
  <2>4. ~shm.due
    BY <2>2, OneLookup DEF ShmIsRecent
  <2> QED
    BY <1>3, <2>3, <2>4, ShmKept, HashLeftAlone, OtherRepliesAreFresh DEF NoReply
<1> QED
  BY <1>2, <1>3 DEF NotConverted

\* The zones are read as they are now, under the revision that was read before.
LEMMA ReadRawRecent ==
  ASSUME Recent, TypeOK', MapInv', NEW c \in Cm, ReadRaw(c)
  PROVE  LookupIsRecent(c)' /\ HashIsRecent(c)' /\ ShmIsRecent' /\ AnswersFresh'
<1>1. Step(c)
  BY DEF Step
<1>2. /\ db' = db /\ superseded' = superseded /\ now' = now /\ mode' = mode /\ shm' = shm
      /\ blanks' = blanks /\ hash' = hash /\ pc[c] = "raw"
  BY DEF ReadRaw
<1>3. CASE work' = [work EXCEPT ![c].map = db.map] /\ Goto(c, "commit") /\ Silent
  <2>1. /\ work'[c].rev = work[c].rev /\ work'[c].map = db.map
        /\ work'[c].began = work[c].began /\ work'[c].why = work[c].why
        /\ pc'[c] = "commit"
    BY <1>3, OneLookup DEF WorkType
  <2>2. InForce(db.map, work[c].began, 0) /\ db.map # Unreadable
    BY OneLookup DEF InForce, Replaced, LookupsKeepTheMap, Unreadable
  <2>3. InForce(work[c].map, work[c].began, 0)'
    BY <1>2, <2>1, <2>2 DEF InForce, Replaced
  <2>4. LookupIsRecent(c)'
    BY <1>2, <2>1, <2>2, <2>3, OneLookup DEF LookupIsRecent, RevisionTells
  <2>5. Refreshes(c)'
    BY <1>2, <2>1, OneLookup DEF Refreshes, ShmIsRecent, RevisionTells
  <2>6. ShmIsRecent'
    BY <1>1, <1>2, <2>5, ShmKept
  <2> QED
    BY <1>1, <1>2, <1>3, <2>4, <2>6, HashLeftAlone, OtherRepliesAreFresh DEF NoReply
<1>4. CASE NotConverted(c)
  BY <1>1, <1>2, <1>4, NotConvertedRecent
<1> QED
  BY <1>3, <1>4 DEF ReadRaw

\* The commit makes a new revision, and the copy keeps the one from before: it
\* will be found outdated, though it is not.
LEMMA CommitConvertedRecent ==
  ASSUME Recent, TypeOK', MapInv', NEW c \in Cm, CommitConverted(c)
  PROVE  LookupIsRecent(c)' /\ HashIsRecent(c)' /\ ShmIsRecent' /\ AnswersFresh'
<1>1. Step(c)
  BY DEF Step
<1>2. /\ superseded' = superseded /\ now' = now /\ mode' = mode /\ shm' = shm
      /\ blanks' = blanks /\ hash' = hash /\ pc[c] = "commit"
  BY DEF CommitConverted
<1>3. db' = db \/ (db'.rev = db.rev + 1 /\ db'.map = db.map)
  BY <1>1, WrittenBack DEF Recent
<1>4. CASE /\ db' = [rev |-> db.rev + 1, map |-> work[c].map, old |-> FALSE]
           /\ Goto(c, "derived") /\ UNCHANGED work /\ Silent
  <2>1. /\ work'[c] = work[c] /\ db'.rev = db.rev + 1 /\ db'.map = db.map
        /\ pc'[c] = "derived"
    BY <1>3, <1>4, OneLookup
  <2>2. RevisionTells(work[c])'
    BY <2>1, OneLookup DEF LookupIsRecent, RevisionTells
  <2>3. LookupIsRecent(c)'
    BY <1>2, <2>1, <2>2, OneLookup DEF LookupIsRecent
  <2>4. Refreshes(c)'
    BY <2>1 DEF Refreshes
  <2>5. ShmIsRecent'
    BY <1>1, <1>2, <2>4, ShmKept
  <2> QED
    BY <1>1, <1>2, <1>3, <1>4, <2>3, <2>5, HashLeftAlone, OtherRepliesAreFresh DEF NoReply
<1>5. CASE NotConverted(c) /\ UNCHANGED db
  BY <1>1, <1>2, <1>5, NotConvertedRecent
<1> QED
  BY <1>4, <1>5 DEF CommitConverted

\* The data that is kept is what the last commit derived.
LEMMA ReadDerivedRecent ==
  ASSUME Recent, TypeOK', MapInv', NEW c \in Cm, ReadDerived(c)
  PROVE  LookupIsRecent(c)' /\ HashIsRecent(c)' /\ ShmIsRecent' /\ AnswersFresh'
<1>1. Step(c)
  BY DEF Step
<1>2. /\ db' = db /\ superseded' = superseded /\ now' = now /\ mode' = mode /\ shm' = shm
      /\ blanks' = blanks /\ hash' = hash /\ pc[c] = "derived"
  BY DEF ReadDerived
<1>3. CASE /\ work' = [work EXCEPT ![c].map = db.map]
           /\ Goto(c, IF work[c].why = "startup" THEN "startcheck" ELSE "store") /\ Silent
  <2>1. /\ work'[c].rev = work[c].rev /\ work'[c].map = db.map
        /\ work'[c].began = work[c].began /\ work'[c].why = work[c].why
        /\ pc'[c] = IF work[c].why = "startup" THEN "startcheck" ELSE "store"
    BY <1>3, OneLookup DEF WorkType
  <2>2. InForce(db.map, work[c].began, 0) /\ db.map # Unreadable
    BY OneLookup DEF InForce, Replaced, LookupsKeepTheMap, Unreadable
  <2>3. InForce(work[c].map, work[c].began, 0)'
    BY <1>2, <2>1, <2>2 DEF InForce, Replaced
  <2>4. LookupIsRecent(c)'
    BY <1>2, <2>1, <2>2, <2>3, OneLookup DEF LookupIsRecent, RevisionTells
  <2>5. shm.due => Refreshes(c)'
    BY <1>2, <2>1, OneLookup DEF Refreshes, ShmIsRecent, RevisionTells, LookupIsRecent
  <2>6. ShmIsRecent'
    BY <1>1, <1>2, <2>5, ShmKept
  <2> QED
    BY <1>1, <1>2, <1>3, <2>4, <2>6, HashLeftAlone, OtherRepliesAreFresh DEF NoReply
<1>4. CASE NotConverted(c)
  BY <1>1, <1>2, <1>4, NotConvertedRecent
<1> QED
  BY <1>3, <1>4 DEF ReadDerived

\* A new entry of the hash table is as old as the call at most.
LEMMA StoreInHashRecent ==
  ASSUME Recent, TypeOK', MapInv', NEW c \in Cm, StoreInHash(c)
  PROVE  LookupIsRecent(c)' /\ HashIsRecent(c)' /\ ShmIsRecent' /\ AnswersFresh'
<1>1. Step(c)
  BY DEF Step
<1>2. /\ db' = db /\ superseded' = superseded /\ now' = now /\ mode' = mode /\ shm' = shm
      /\ blanks' = blanks /\ pc[c] = "store" /\ mode # "shared"
  BY DEF StoreInHash
<1>3. /\ work'[c] = NoWork /\ pc'[c] = "idle" /\ failedWith' = failedWith
      /\ hash'[c].rev = work[c].rev /\ hash'[c].map = work[c].map /\ hash'[c].time = now
      /\ reply'.map = work[c].map
  BY OneLookup DEF StoreInHash, Entry
<1>4. LookupIsRecent(c)'
  BY <1>2, <1>3, OneLookup DEF LookupIsRecent, RevisionTells, NoWork, Unreadable
<1>5. ShmIsRecent'
  <2>1. ~shm.due
    BY <1>2, OneLookup DEF ShmIsRecent
  <2> QED
    BY <1>1, <1>2, <2>1, ShmKept
<1>6. ASSUME work[c].map # Unreadable, Replaced(work[c].map)
      PROVE  now <= superseded[work[c].map] + MaxCall /\ superseded[work[c].map] \in Nat
  <2>1. superseded[work[c].map] \in Nat
    BY <1>6, OneLookup DEF Replaced, Unreadable
  <2>2. work[c].began <= superseded[work[c].map] + 0 /\ now <= work[c].began + MaxCall
    BY <1>2, <1>6, OneLookup DEF LookupIsRecent, InForce
  <2> QED
    BY <2>1, <2>2, OneLookup
<1>7. HashIsRecent(c)'
  <2>1. work[c].map = Unreadable \/ InForce(work[c].map, now, MaxCall)
    BY <1>6 DEF InForce
  <2> QED
    BY <1>2, <1>3, <2>1, OneLookup
       DEF HashIsRecent, LookupIsRecent, RevisionTells, InForce, Replaced
<1>8. AnswersFresh'
  <2>1. ASSUME work[c].map # Unreadable, Replaced(work[c].map)
        PROVE  now <= superseded[work[c].map] + Interval + MaxCall
    BY <1>6, <2>1, OneLookup
  <2> QED
    BY <1>2, <1>3, <2>1 DEF AnswersFresh, Replaced
<1> QED
  BY <1>4, <1>5, <1>7, <1>8

\* A new shared copy is due after the interval; a map without zones leaves the
\* one that is there, which is then of an emptied map.
LEMMA StoreInShmRecent ==
  ASSUME Recent, TypeOK', MapInv', NEW c \in Cm, StoreInShm(c)
  PROVE  LookupIsRecent(c)' /\ HashIsRecent(c)' /\ ShmIsRecent' /\ AnswersFresh'
<1>1. Step(c)
  BY DEF Step
<1>2. /\ db' = db /\ superseded' = superseded /\ now' = now /\ mode' = mode
      /\ blanks' = blanks /\ hash' = hash /\ pc[c] = "store" /\ mode = "shared"
      /\ failedWith' = failedWith /\ reply'.kind # "lineage"
  BY DEF StoreInShm, NoReply
<1>3. LookupIsRecent(c)'
  <2>1. CASE Reply(c, "bare", 0, FALSE)
    <3>1. work'[c] = NoWork /\ pc'[c] = "idle"
      BY <2>1, OneLookup
    <3> QED
      BY <1>2, <3>1, OneLookup DEF LookupIsRecent, RevisionTells, NoWork, Unreadable
  <2>2. CASE Goto(c, "find") /\ work' = [work EXCEPT ![c].tries = LookupAttempts(c)]
    <3>1. /\ work'[c].rev = work[c].rev /\ work'[c].map = work[c].map
          /\ work'[c].began = work[c].began /\ work'[c].why = work[c].why /\ pc'[c] = "find"
      BY <2>2, OneLookup DEF WorkType
    <3> QED
      BY <1>2, <3>1, OneLookup DEF LookupIsRecent, RevisionTells
  <2> QED
    BY <2>1, <2>2 DEF StoreInShm
<1>4. /\ work[c].map # Unreadable /\ InForce(work[c].map, work[c].began, 0)
      /\ RevisionTells(work[c]) /\ now <= work[c].began + MaxCall
  BY <1>2, OneLookup DEF LookupIsRecent
<1>5. CASE work[c].map \in blanks
  <2>1. shm' = shm
    BY <1>5 DEF StoreInShm
  <2>2. ASSUME shm.due, Refreshes(c) PROVE EmptiedSince(shm.map)
    <3>1. shm.map <= work[c].map /\ shm.map \notin blanks
      BY <1>2, <2>2, OneLookup DEF Refreshes, ShmIsRecent
    <3>2. shm.map \in Nat
      BY OneLookup DEF TypeOK
    <3> QED
      BY <1>2, <1>5, <3>1, <3>2, OneLookup DEF EmptiedSince
  <2> QED
    BY <1>1, <1>2, <1>3, <2>1, <2>2, ShmKept, HashLeftAlone, OtherRepliesAreFresh
<1>6. CASE work[c].map \notin blanks
  <2>1. /\ shm'.rev = work[c].rev /\ shm'.map = work[c].map /\ shm'.time = now + Interval
        /\ shm'.due = TRUE
    BY <1>6 DEF StoreInShm, Entry
  <2>2. InForce(work[c].map, now + Interval, Interval + MaxCall)
    <3>1. ASSUME Replaced(work[c].map)
          PROVE  now + Interval <= superseded[work[c].map] + (Interval + MaxCall)
      <4>1. superseded[work[c].map] \in Nat
        BY <1>4, <3>1, OneLookup DEF Replaced, Unreadable
      <4>2. work[c].began <= superseded[work[c].map] + 0
        BY <1>4, <3>1 DEF InForce
      <4> QED
        BY <1>4, <4>1, <4>2, OneLookup, SMTT(30)
    <3> QED
      BY <3>1 DEF InForce
  <2>3. InForce(shm.map, shm.time, Interval + MaxCall)'
    BY <1>2, <2>1, <2>2 DEF InForce, Replaced
  <2>4. RevisionTells(shm)'
    BY <1>2, <1>4, <2>1 DEF RevisionTells
  <2>5. ShmIsRecent'
    BY <1>2, <1>4, <1>6, <2>1, <2>3, <2>4, OneLookup DEF ShmIsRecent
  <2> QED
    BY <1>1, <1>2, <1>3, <2>5, HashLeftAlone, OtherRepliesAreFresh
<1> QED
  BY <1>5, <1>6

-----------------------------------------------------------------------------
\* A step of a lookup.
LEMMA LookupStepRecent ==
  ASSUME Recent, TypeOK', MapInv', NEW c \in Cm, Step(c)
  PROVE  CopiesAreRecent' /\ AnswersFresh'
<1>1. LookupIsRecent(c)' /\ HashIsRecent(c)' /\ ShmIsRecent' /\ AnswersFresh'
  BY FindInHashRecent, CheckHashRecent, FindInShmRecent, CheckShmRecent,
     TakeStartupRecent, CheckStartupRecent, ReadMapRecent, ReadRawRecent,
     CommitConvertedRecent, ReadDerivedRecent, StoreInHashRecent, StoreInShmRecent DEF Step
<1>2. \A d \in Cm : d # c => LookupIsRecent(d)' /\ HashIsRecent(d)'
  BY OthersRecent
<1>3. HistoryInOrder'
  <2>1. /\ now' = now /\ superseded' = superseded /\ blanks' = blanks
        /\ failedWith' \in {failedWith, Len(superseded)}
    BY OthersAlone DEF Recent
  <2>2. db' = db \/ (db'.rev = db.rev + 1 /\ db'.map = db.map)
    BY WrittenBack DEF Recent
  <2> QED
    BY <2>1, <2>2, OneLookup DEF HistoryInOrder
<1> QED
  BY <1>1, <1>2, <1>3 DEF CopiesAreRecent

\* A commit of an administrator: the map that it replaces was in force until now.
LEMMA SetZonemapRecent ==
  ASSUME Recent, TypeOK', MapInv', SetZonemap
  PROVE  CopiesAreRecent' /\ AnswersFresh'
<1>a. TypeOK /\ MapInv /\ CopiesAreRecent
  BY DEF Recent
<1>b. /\ now \in Nat /\ superseded \in Seq(Nat) /\ Len(superseded) \in Nat
      /\ db.rev \in Nat /\ failedWith \in Nat
  BY <1>a DEF TypeOK
<1>1. /\ TypeOK /\ HistoryInOrder /\ ShmIsRecent /\ LookupsKeepTheMap
      /\ now \in Nat /\ superseded \in Seq(Nat) /\ Len(superseded) \in Nat
      /\ db.rev \in Nat /\ db.map = Len(superseded) + 1 /\ db.rev >= 1
      /\ Interval \in Nat /\ MaxCall \in Nat /\ Interval + MaxCall \in Nat /\ 0 \in Nat
      /\ failedWith \in Nat
  BY <1>a, <1>b, ZoneMapCacheAssumption
     DEF CopiesAreRecent, MapInv, LookupsKeepTheMap
<1>2. /\ db'.rev = db.rev + 1 /\ db'.map = db.map + 1
      /\ superseded' = Append(superseded, now) /\ blanks' \subseteq blanks \cup {db'.map}
      /\ blanks \subseteq blanks' /\ failedWith' = failedWith /\ reply' = NoReply
      /\ now' = now /\ mode' = mode /\ hash' = hash /\ shm' = shm /\ pc' = pc /\ work' = work
  BY <1>1 DEF SetZonemap
<1>3. /\ Len(superseded') = Len(superseded) + 1 /\ superseded'[Len(superseded) + 1] = now
      /\ \A i \in 1 .. Len(superseded) : superseded'[i] = superseded[i]
      /\ DOMAIN superseded = 1 .. Len(superseded) /\ DOMAIN superseded' = 1 .. Len(superseded) + 1
  BY <1>1, <1>2
<1>4. ASSUME NEW m \in Nat, m # Unreadable, m <= db.map, NEW t \in Nat, NEW span \in Nat,
             InForce(m, t, span), t <= now + span
      PROVE  m <= Len(superseded') => t <= superseded'[m] + span
  <2>1. CASE m <= Len(superseded)
    BY <1>3, <1>4, <2>1, <1>1 DEF InForce, Replaced, Unreadable
  <2>2. CASE m = Len(superseded) + 1
    BY <1>1, <1>3, <1>4, <2>2 DEF InForce, Replaced
  <2> QED
    BY <1>1, <1>4, <2>1, <2>2
<1>5. ASSUME NEW copy, copy.rev \in Nat, copy.map \in Nat, RevisionTells(copy)
      PROVE  RevisionTells(copy)'
  BY <1>1, <1>2, <1>5 DEF RevisionTells
<1>6. HistoryInOrder'
  <2>1. \A i \in DOMAIN superseded' : superseded'[i] <= now'
    BY <1>1, <1>2, <1>3 DEF HistoryInOrder
  <2>2. blanks' \subseteq 1 .. db'.map
    <3>1. blanks \subseteq 1 .. db.map /\ db.map \in Nat
      BY <1>1 DEF HistoryInOrder
    <3>2. 1 .. db.map \subseteq 1 .. db'.map /\ db'.map \in 1 .. db'.map
      BY <1>2, <3>1
    <3> QED
      BY <1>2, <3>1, <3>2
  <2>3. failedWith' <= Len(superseded') /\ db'.rev # 1
    BY <1>1, <1>2, <1>3 DEF HistoryInOrder
  <2> QED
    BY <2>1, <2>2, <2>3 DEF HistoryInOrder
<1>7. ASSUME NEW c \in Cm PROVE LookupIsRecent(c)' /\ HashIsRecent(c)'
  <2>1. LookupIsRecent(c) /\ HashIsRecent(c)
    BY <1>7, OneLookup
  <2>2. /\ work[c].rev \in Nat /\ work[c].map \in Nat /\ work[c].began \in Nat
        /\ hash[c].rev \in Nat /\ hash[c].map \in Nat /\ hash[c].time \in Nat
    BY <1>7, OneLookup
  <2>3. RevisionTells(work[c])' /\ RevisionTells(hash[c])'
    BY <1>2, <1>5, <2>1, <2>2 DEF LookupIsRecent, HashIsRecent, RevisionTells
  <2>4. LookupIsRecent(c)'
    <3>1. work[c].map <= db.map /\ work[c].began <= now + 0
      BY <1>1, <2>1, <2>2 DEF LookupIsRecent, RevisionTells
    <3>2. work[c].map # Unreadable /\ InForce(work[c].map, work[c].began, 0)
            => (work[c].map <= Len(superseded') => work[c].began <= superseded'[work[c].map] + 0)
      BY <1>1, <1>4, <2>2, <3>1 DEF InForce
    <3> QED
      BY <1>2, <2>1, <2>3, <3>2 DEF LookupIsRecent, InForce, Replaced
  <2>5. HashIsRecent(c)'
    <3>1. hash[c].map <= db.map /\ hash[c].time <= now + MaxCall
      BY <1>1, <2>1, <2>2 DEF HashIsRecent, RevisionTells
    <3>2. hash[c].map # Unreadable /\ InForce(hash[c].map, hash[c].time, MaxCall)
            => (hash[c].map <= Len(superseded') => hash[c].time <= superseded'[hash[c].map] + MaxCall)
      BY <1>1, <1>4, <2>2, <3>1 DEF InForce
    <3> QED
      BY <1>2, <2>1, <2>3, <3>2 DEF HashIsRecent, InForce, Replaced, CheckFailedSince
  <2> QED
    BY <2>4, <2>5
<1>8. ShmIsRecent'
  <2>1. shm.rev \in Nat /\ shm.map \in Nat /\ shm.time \in Nat
    BY <1>1 DEF TypeOK
  <2>2. RevisionTells(shm)' /\ shm.map \notin blanks'
    BY <1>1, <1>2, <1>5, <2>1 DEF ShmIsRecent, RevisionTells
  <2>5. shm.map <= db.map /\ shm.time <= now + (Interval + MaxCall)
    BY <1>1, <2>1 DEF ShmIsRecent, RevisionTells
  <2>3. shm.map # Unreadable /\ InForce(shm.map, shm.time, Interval + MaxCall)
          => (shm.map <= Len(superseded') => shm.time <= superseded'[shm.map] + (Interval + MaxCall))
    BY <1>1, <1>4, <2>1, <2>5 DEF InForce
  <2>4. /\ \A d \in Cm : Refreshes(d) => Refreshes(d)'
        /\ EmptiedSince(shm.map) => EmptiedSince(shm.map)'
        /\ CheckFailedSince(shm.map) => CheckFailedSince(shm.map)'
    BY <1>2 DEF Refreshes, EmptiedSince, CheckFailedSince
  <2> QED
    BY <1>1, <1>2, <2>2, <2>3, <2>4 DEF ShmIsRecent, InForce, Replaced
<1>9. AnswersFresh'
  BY <1>2, OtherRepliesAreFresh DEF NoReply
<1> QED
  BY <1>6, <1>7, <1>8, <1>9 DEF CopiesAreRecent

\* The clock does not pass the end of a call that is under way.
LEMMA TickRecent ==
  ASSUME Recent, TypeOK', MapInv', Tick
  PROVE  CopiesAreRecent' /\ AnswersFresh'
<1>1. /\ now' = now + 1 /\ reply' = NoReply /\ db' = db /\ superseded' = superseded
      /\ blanks' = blanks /\ mode' = mode /\ hash' = hash /\ shm' = shm /\ pc' = pc
      /\ work' = work /\ failedWith' = failedWith
      /\ \A c \in Cm : pc[c] # "idle" => now < work[c].began + MaxCall
  BY DEF Tick
<1>2. /\ HistoryInOrder /\ ShmIsRecent /\ now \in Nat /\ Interval \in Nat /\ MaxCall \in Nat
      /\ superseded \in Seq(Nat) /\ shm.time \in Nat
  BY ZoneMapCacheAssumption DEF Recent, CopiesAreRecent, TypeOK
<1>3. ASSUME NEW c \in Cm PROVE LookupIsRecent(c)' /\ HashIsRecent(c)'
  <2>1. LookupIsRecent(c)'
    BY <1>1, <1>2, <1>3, OneLookup DEF LookupIsRecent, RevisionTells, InForce, Replaced
  <2>2. HashIsRecent(c)'
    BY <1>1, <1>2, <1>3, OneLookup
       DEF HashIsRecent, RevisionTells, InForce, Replaced, CheckFailedSince
  <2> QED
    BY <2>1, <2>2
<1>4. HistoryInOrder'
  BY <1>1, <1>2 DEF HistoryInOrder
<1>5. ShmIsRecent'
  <2>1. \A d \in Cm : Refreshes(d) => Refreshes(d)'
    BY <1>1 DEF Refreshes
  <2> QED
    BY <1>1, <1>2, <2>1
       DEF ShmIsRecent, RevisionTells, InForce, Replaced, CheckFailedSince, EmptiedSince
<1>6. AnswersFresh'
  BY <1>1, OtherRepliesAreFresh DEF NoReply
<1> QED
  BY <1>3, <1>4, <1>5, <1>6 DEF CopiesAreRecent

\* A lookup begins now.
LEMMA GetLineageRecent ==
  ASSUME Recent, TypeOK', MapInv', NEW c \in Cm, GetLineage(c)
  PROVE  CopiesAreRecent' /\ AnswersFresh'
<1>1. /\ now' = now /\ reply' = NoReply /\ db' = db /\ superseded' = superseded
      /\ blanks' = blanks /\ mode' = mode /\ hash' = hash /\ shm' = shm
      /\ failedWith' = failedWith /\ pc[c] = "idle"
  BY DEF GetLineage
<1>2. /\ work'[c].rev = work[c].rev /\ work'[c].map = work[c].map
      /\ work'[c].why = work[c].why /\ work'[c].began = now /\ pc'[c] = "find"
      /\ \A d \in Cm : d # c => pc'[d] = pc[d] /\ work'[d] = work[d]
  BY OneLookup DEF GetLineage, WorkType
<1>3. ASSUME NEW d \in Cm PROVE LookupIsRecent(d)' /\ HashIsRecent(d)'
  <2>1. LookupIsRecent(d)'
    BY <1>1, <1>2, <1>3, OneLookup, SMTT(30) DEF LookupIsRecent, RevisionTells, InForce, Replaced
  <2>2. HashIsRecent(d)'
    BY <1>1, <1>2, <1>3, OneLookup
       DEF HashIsRecent, RevisionTells, InForce, Replaced, CheckFailedSince
  <2> QED
    BY <2>1, <2>2
<1>4. HistoryInOrder'
  BY <1>1, OneLookup DEF HistoryInOrder
<1>5. ShmIsRecent'
  <2>1. \A d \in Cm : Refreshes(d) => Refreshes(d)'
    BY <1>1, <1>2 DEF Refreshes
  <2> QED
    BY <1>1, <2>1, OneLookup
       DEF ShmIsRecent, RevisionTells, InForce, Replaced, CheckFailedSince, EmptiedSince
<1>6. AnswersFresh'
  BY <1>1, OtherRepliesAreFresh DEF NoReply
<1> QED
  BY <1>3, <1>4, <1>5, <1>6 DEF CopiesAreRecent

\* A process that dies takes its hash table with it, and a check that it owed
\* to the shared cache.
LEMMA CrashRecent ==
  ASSUME Recent, TypeOK', MapInv', NEW c \in Cm, Crash(c)
  PROVE  CopiesAreRecent' /\ AnswersFresh'
<1>1. /\ now' = now /\ reply' = NoReply /\ db' = db /\ superseded' = superseded
      /\ blanks' = blanks /\ mode' = mode /\ shm' = shm
      /\ failedWith' = Len(superseded)
  BY DEF Crash
<1>2. /\ work'[c] = NoWork /\ hash'[c] = NoEntry /\ pc'[c] = "idle"
      /\ \A d \in Cm : d # c => pc'[d] = pc[d] /\ work'[d] = work[d] /\ hash'[d] = hash[d]
  BY OneLookup DEF Crash
<1>3. /\ failedWith <= Len(superseded) /\ failedWith \in Nat /\ Len(superseded) \in Nat
      /\ db.map = Len(superseded) + 1 /\ shm.map \in Nat /\ shm.map <= db.map
  BY OneLookup DEF HistoryInOrder, LookupsKeepTheMap, TypeOK, ShmIsRecent, RevisionTells
<1>4. ASSUME NEW d \in Cm PROVE LookupIsRecent(d)' /\ HashIsRecent(d)'
  <2>1. CASE d = c
    BY <1>1, <1>2, <2>1, OneLookup
       DEF LookupIsRecent, HashIsRecent, RevisionTells, NoWork, NoEntry, Unreadable
  <2>2. CASE d # c
    <3>1. LookupIsRecent(d)'
      BY <1>1, <1>2, <1>4, <2>2, OneLookup DEF LookupIsRecent, RevisionTells, InForce, Replaced
    <3>a. hash[d].map \in Nat
      BY <1>4, OneLookup
    <3>2. CheckFailedSince(hash[d].map) => CheckFailedSince(hash[d].map)'
      BY <1>1, <1>2, <1>3, <1>4, <2>2, <3>a DEF CheckFailedSince
    <3>3. HashIsRecent(d)'
      BY <1>1, <1>2, <1>4, <2>2, <3>2, OneLookup
         DEF HashIsRecent, RevisionTells, InForce, Replaced
    <3> QED
      BY <3>1, <3>3
  <2> QED
    BY <2>1, <2>2
<1>5. HistoryInOrder'
  BY <1>1, <1>3, OneLookup DEF HistoryInOrder
<1>6. ShmIsRecent'
  <2>1. InForce(shm.map, shm.time, Interval + MaxCall)' \/ CheckFailedSince(shm.map)'
    BY <1>1, <1>3 DEF InForce, Replaced, CheckFailedSince
  <2> QED
    BY <1>1, <2>1, OneLookup DEF ShmIsRecent, RevisionTells
<1>7. AnswersFresh'
  BY <1>1, OtherRepliesAreFresh DEF NoReply
<1> QED
  BY <1>4, <1>5, <1>6, <1>7 DEF CopiesAreRecent

\* Every step keeps what the copies are worth.
LEMMA RecentStep ==
  ASSUME TypeOK, MapInv, CommitChecks, CopiesAreRecent, AnswersFresh, [Next]_vars
  PROVE  CopiesAreRecent' /\ AnswersFresh'
<1>1. TypeOK' /\ MapInv'
  BY TypeStep, MapStep
<1>2. Recent
  BY DEF Recent
<1>3. CASE UNCHANGED vars
  BY <1>3 DEF vars, CopiesAreRecent, HistoryInOrder, ShmIsRecent, LookupIsRecent, HashIsRecent,
              RevisionTells, InForce, Replaced, CheckFailedSince, EmptiedSince, Refreshes,
              AnswersFresh
<1>4. CASE SetZonemap
  BY <1>1, <1>2, <1>4, SetZonemapRecent
<1>5. CASE Tick
  BY <1>1, <1>2, <1>5, TickRecent
<1>6. ASSUME NEW c \in Cm, GetLineage(c) PROVE CopiesAreRecent' /\ AnswersFresh'
  BY <1>1, <1>2, <1>6, GetLineageRecent
<1>7. ASSUME NEW c \in Cm, Crash(c) PROVE CopiesAreRecent' /\ AnswersFresh'
  BY <1>1, <1>2, <1>7, CrashRecent
<1>8. ASSUME NEW c \in Cm, Step(c) PROVE CopiesAreRecent' /\ AnswersFresh'
  BY <1>1, <1>2, <1>8, LookupStepRecent
<1> QED
  BY <1>3, <1>4, <1>5, <1>6, <1>7, <1>8 DEF Next

\* At the start no copy has been read yet, but for those of the first revision.
LEMMA StartsRecent == Init => CopiesAreRecent /\ AnswersFresh
<1> SUFFICES ASSUME Init PROVE CopiesAreRecent /\ AnswersFresh
  OBVIOUS
<1>1. /\ db.rev = 1 /\ db.map = 1 /\ now = 1 /\ failedWith = 0 /\ superseded = << >>
      /\ \A c \in Cm : hash[c] = NoEntry /\ work[c] = NoWork /\ pc[c] = "idle"
      /\ reply = NoReply /\ Interval \in Nat /\ MaxCall \in Nat
  BY ZoneMapCacheAssumption DEF Init
<1>2. HistoryInOrder
  BY <1>1 DEF Init, HistoryInOrder
<1>3. ASSUME NEW c \in Cm PROVE LookupIsRecent(c) /\ HashIsRecent(c)
  <2>1. /\ work[c].rev = 0 /\ work[c].map = 0 /\ work[c].began = 0 /\ work[c].why = "missing"
        /\ hash[c].rev = 0 /\ hash[c].map = 0 /\ hash[c].time = 0 /\ pc[c] = "idle"
    BY <1>1, <1>3 DEF NoWork, NoEntry
  <2>2. LookupIsRecent(c)
    BY <1>1, <2>1 DEF LookupIsRecent, RevisionTells, Unreadable
  <2>3. HashIsRecent(c)
    BY <1>1, <2>1 DEF HashIsRecent, RevisionTells, Unreadable
  <2> QED
    BY <2>2, <2>3
<1>4. ShmIsRecent
  <2>1. CASE mode = "shared" /\ ~db.old
    <3>1. shm = Entry(1, 1, 0, FALSE) /\ blanks = {}
      BY <1>1, <2>1 DEF Init, LoadMaps
    <3> QED
      BY <1>1, <3>1 DEF ShmIsRecent, RevisionTells, Entry
  <2>2. CASE ~(mode = "shared" /\ ~db.old)
    <3>1. shm = NoEntry /\ blanks \subseteq {1}
      BY <1>1, <2>2 DEF Init, LoadMaps
    <3> QED
      BY <1>1, <3>1 DEF ShmIsRecent, RevisionTells, NoEntry, Unreadable
  <2> QED
    BY <2>1, <2>2
<1>5. AnswersFresh
  BY <1>1 DEF AnswersFresh, NoReply
<1> QED
  BY <1>2, <1>3, <1>4, <1>5 DEF CopiesAreRecent

\* What every copy is worth, at any time between two checks of its revision,
\* and what lookups may write back.
THEOREM CacheInvariant == CommitChecks => (Spec => []CacheInv)
<1>1. SUFFICES ASSUME CommitChecks PROVE Spec => []CacheInv
  OBVIOUS
<1> DEFINE IInv == TypeOK /\ MapInv /\ CopiesAreRecent /\ AnswersFresh
<1>2. Init => IInv
  BY StartsWell, StartsRecent
<1>3. IInv /\ [Next]_vars => IInv'
  BY <1>1, TypeStep, MapStep, RecentStep
<1>4. IInv => CacheInv
  BY DEF CacheInv, LookupInv, MapInv
<1> HIDE DEF IInv
<1> QED
  BY <1>2, <1>3, <1>4, PTL DEF Spec

\* No lineage is older than an interval and the time of a call, but for the
\* exceptions that the property names.
THEOREM LineagesAreFresh == CommitChecks => (Spec => []AnswersFresh)
<1>1. SUFFICES ASSUME CommitChecks PROVE Spec => []AnswersFresh
  OBVIOUS
<1> DEFINE IInv == TypeOK /\ MapInv /\ CopiesAreRecent /\ AnswersFresh
<1>2. Init => IInv
  BY StartsWell, StartsRecent
<1>3. IInv /\ [Next]_vars => IInv'
  BY <1>1, TypeStep, MapStep, RecentStep
<1>4. IInv => AnswersFresh
  OBVIOUS
<1> HIDE DEF IInv
<1> QED
  BY <1>2, <1>3, <1>4, PTL DEF Spec
=============================================================================
