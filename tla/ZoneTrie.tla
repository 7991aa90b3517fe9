------------------------------ MODULE ZoneTrie ------------------------------
(***************************************************************************)
(* The search structure of a zone map (fm_zonemap_pol_prep_zonemap.c): the *)
(* rows of the zones, sorted, are put one after the other into a trie that *)
(* lives in a blob of a size computed before.  Each node is followed by    *)
(* slots for its children, as many as are counted when it is allocated in  *)
(* the rows as they were sent; a child too many is written over what is    *)
(* behind, and behind a slot too many the next node is not found.          *)
(*                                                                         *)
(* Characters are numbers in the order of strcmp.                          *)
(***************************************************************************)
EXTENDS Naturals, Sequences, FiniteSetsExt, SequencesExt, KeptChars

CONSTANTS
  Char,       \* characters of the rows
  Dropped,    \* those that are not in EXTENDED_VALID_CHARS
  NUL,        \* the end of a string, less than any character
  MaxRow,     \* bound of the length of a row
  MaxRows     \* bound of the number of rows

VARIABLES
  rows,    \* PIN_FLD_ZONEMAP_DATA_DATA of all zones, sorted
  next,    \* the row to be inserted next
  trie,    \* node of each prefix: slots, characters of children, row
  outcome  \* "building", "built", "refused", "overrun", or "gaps"

vars == <<rows, next, trie, outcome>>

Strings(n) == UNION {[1 .. k -> Char] : k \in 0 .. n}

CharAt(s, i) == IF i <= Len(s) THEN s[i] ELSE NUL

\* strcmp(s, t) < 0
Before(s, t) ==
  \E i \in 1 .. Len(t) :
    CharAt(s, i) < t[i] /\ \A j \in 1 .. i - 1 : CharAt(s, j) = t[j]

Sorted(table) == \A i \in 1 .. Len(table) - 1 : ~Before(table[i + 1], table[i])

\* fm_util_ipt_canon_phone_number
Canon(s) == Kept(s, Char \ Dropped)

-----------------------------------------------------------------------------
\* strncmp over "len" characters: the rows from r on that go on alike.
SamePrefix(r, len) ==
  {i \in r .. Len(rows) :
     \A k \in r .. i : \A j \in 1 .. len : CharAt(rows[k], j) = CharAt(rows[r], j)}

\* Mutant: the row the node is allocated for is not counted itself.
NumChildNodesAfter(r, len) ==
  LET here(i) == CharAt(rows[i], len + 1)
  IN Cardinality({i \in SamePrefix(r, len) : i > r /\ here(i) # here(i - 1)})

\* fm_zonemap_pol_get_num_child_nodes: how often the next character changes.
NumChildNodes(r, len) ==
  LET here(i) == CharAt(rows[i], len + 1)
  IN Cardinality({i \in SamePrefix(r, len) :
                    here(i) # IF i = r THEN NUL ELSE here(i - 1)})

\* fm_zonemap_pol_get_num_of_nodes: what each row adds to the one before it.
NumOfNodes ==
  LET shared(i) == IF i = 1 THEN 0
                   ELSE Max({k \in 0 .. Len(rows[i]) : IsPrefix(SubSeq(rows[i], 1, k), rows[i - 1])})
      total[i \in 0 .. Len(rows)] ==
        IF i = 0 THEN 1 ELSE total[i - 1] + (Len(rows[i]) - shared(i))
  IN total[Len(rows)]

Kids(prefix, path) ==
  IF IsStrictPrefix(prefix, path) THEN {path[Len(prefix) + 1]} ELSE {}

NoNode == [slots |-> 0, kids |-> {}, row |-> 0]
NodeAt(p) == IF p \in DOMAIN trie THEN trie[p] ELSE NoNode

\* fm_zonemap_pol_insert_path_to_trie: the nodes on the path, new ones with
\* the slots that the raw rows call for, and the row in the last of them, as far
\* as each child has a slot.
Inserted(r) ==
  LET path == Canon(rows[r])
      on == Prefixes(path)
  IN [p \in DOMAIN trie \cup on |->
        IF p \notin on THEN trie[p]
        ELSE [slots |-> IF p \in DOMAIN trie THEN trie[p].slots ELSE NumChildNodes(r, Len(p)),
              kids  |-> NodeAt(p).kids \cup Kids(p, path),
              row   |-> IF p = path THEN r ELSE NodeAt(p).row]]

Init ==
  /\ \E n \in 0 .. MaxRows : rows \in [1 .. n -> Strings(MaxRow)]
  /\ Sorted(rows)
  /\ next = 1 /\ trie = << >> /\ outcome = "building"

\* fm_zonemap_pol_insert_path: the place of the row is taken.
Duplicate(r) == NodeAt(Canon(rows[r])).row # 0

\* A child is written behind the slots of its node.
Overrun == \E p \in DOMAIN trie : Cardinality(trie[p].kids) > trie[p].slots

\* A node has a slot without a child.
Gaps == \E p \in DOMAIN trie : Cardinality(trie[p].kids) # trie[p].slots

\* One turn of fm_zonemap_pol_fill_blob; an error ends the build.  After an overrun
\* the build goes on, with nodes that are no longer what the trie here says.
InsertRow ==
  /\ outcome = "building" /\ next <= Len(rows)
  /\ \/ Duplicate(next) /\ outcome' = "refused" /\ UNCHANGED <<next, trie>>
     \/ /\ ~Duplicate(next)
        /\ trie' = Inserted(next)
        /\ next' = next + 1
        /\ outcome' = IF Overrun' THEN "overrun" ELSE "building"
  /\ UNCHANGED rows

\* fm_zonemap_pol_post_process_blob steps from node to node over the children
\* that there are, not over the slots: gaps lead it astray, with a message in
\* the log only.
Finish ==
  /\ outcome = "building" /\ next > Len(rows)
  /\ outcome' = IF Gaps THEN "gaps" ELSE "built"
  /\ UNCHANGED <<rows, next, trie>>

Next == InsertRow \/ Finish

Spec == Init /\ [][Next]_vars

-----------------------------------------------------------------------------
\* fm_zonemap_pol_get_lineage_search_zonemap: how far the slots lead, and the
\* last node on the way that is a terminal.
Depth(number) ==
  Max({k \in 0 .. Len(number) :
         \A j \in 1 .. k : number[j] \in trie[SubSeq(number, 1, j - 1)].kids})

\* Mutant: the node where the walk ends must be a terminal.
SearchZonemapEnd(number, exact) ==
  LET d == Depth(number)
  IN IF exact /\ d # Len(number) THEN 0 ELSE trie[SubSeq(number, 1, d)].row

SearchZonemap(number, exact) ==
  LET way == {k \in 0 .. Depth(number) : trie[SubSeq(number, 1, k)].row # 0}
      last == Max(way)
  IN IF way = {} \/ (exact /\ last # Len(number)) THEN 0
     ELSE trie[SubSeq(number, 1, last)].row

-----------------------------------------------------------------------------
Clean == \A i \in 1 .. Len(rows) : Canon(rows[i]) = rows[i]

\* The rows that are a prefix of a number, and the best of them.
Matches(number) == {i \in 1 .. Len(rows) : IsPrefix(Canon(rows[i]), number)}
Best(number) ==
  {i \in Matches(number) :
     \A j \in Matches(number) : Len(Canon(rows[j])) <= Len(Canon(rows[i]))}

\* In a trie that fits its slots, a number is found in the zone of the longest
\* row it begins with, and exactly if it is a row; no other zone could claim it
\* as well.
LongestPrefixFound ==
  outcome = "built" /\ rows # << >> =>
    \A number \in Strings(MaxRow + 1) :
      /\ Best(number) = {SearchZonemap(number, FALSE)} \ {0}
      /\ {i \in Best(number) : Canon(rows[i]) = number} = {SearchZonemap(number, TRUE)} \ {0}

\* Where no character is dropped, the trie fits: no child is without a slot at
\* any time, no slot is left, and there are as many nodes as the blob was made for.
SpaceIsExact ==
  Clean =>
    /\ outcome \notin {"overrun", "gaps"}
    /\ outcome = "built" /\ rows # << >> => Cardinality(DOMAIN trie) = NumOfNodes
=============================================================================
