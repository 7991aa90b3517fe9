------------------------------ MODULE ZoneTree ------------------------------
(***************************************************************************)
(* The zones of a zone map in its blob (fm_zonemap_pol_serialize.c) and    *)
(* the lineage of a row, which is a list of positions among siblings       *)
(* (fm_zonemap_pol_prep_zonemap.c) that is followed from the root.         *)
(*                                                                         *)
(* Zones are numbered; zone 0 is the map itself, a subzone has a greater   *)
(* number than its zone, and siblings are listed by their numbers.         *)
(***************************************************************************)
EXTENDS Naturals, Sequences, FiniteSets, SequencesExt

CONSTANT MaxZones \* bound of the number of zones

VARIABLES
  parent,      \* the zone each zone is listed in
  todo,        \* calls of _serialize_zone_tree to come, innermost first
  last,        \* zone_vp: the last place given to a zone
  place,       \* the place of each zone
  firstChild,  \* firstchild_addr of the zone at each place
  parentAddr   \* parent_addr of the zone at each place

treeVars == <<parent, todo, last, place, firstChild, parentAddr>>

Zones == {0} \cup DOMAIN parent
SubzonesOf(z) ==
  LET subs == {s \in DOMAIN parent : parent[s] = z}
  IN CHOOSE q \in [1 .. Cardinality(subs) -> subs] : \A i, j \in DOMAIN q : i < j => q[i] < q[j]

\* The root is the only zone that is placed by the call for itself.
Init ==
  /\ \E n \in 0 .. MaxZones : parent \in {f \in [1 .. n -> 0 .. n] : \A s \in 1 .. n : f[s] < s}
  /\ todo = <<0>> /\ last = 1
  /\ place = [z \in {0} |-> 1]
  /\ firstChild = << >> /\ parentAddr = << >>

\* Mutant of FirstChild: the subzones follow their zone, as if each was gone
\* into when it is placed.
FirstChildBehind(z, subs) == IF subs = << >> THEN 0 ELSE place[z] + 1

FirstChild(z, subs) == IF subs = << >> THEN 0 ELSE last + 1

\* fm_zonemap_pol_serialize_zone_tree for one zone: its subzones are placed side
\* by side behind the last zone, then each is gone into.
Serialize ==
  /\ todo # << >>
  /\ LET z == Head(todo)
         subs == SubzonesOf(z)
     IN /\ place' = [s \in DOMAIN place \cup ToSet(subs) |->
                       IF s \in DOMAIN place THEN place[s]
                       ELSE last + CHOOSE i \in 1 .. Len(subs) : subs[i] = s]
        /\ firstChild' = [p \in DOMAIN firstChild \cup {place[z]} |->
                            IF p = place[z] THEN FirstChild(z, subs) ELSE firstChild[p]]
        /\ parentAddr' = [p \in DOMAIN parentAddr \cup (last + 1 .. last + Len(subs)) |->
                            IF p > last THEN place[z] ELSE parentAddr[p]]
        /\ last' = last + Len(subs)
        /\ todo' = subs \o Tail(todo)
  /\ UNCHANGED parent

Next == Serialize

Spec == Init /\ [][Next]_treeVars

-----------------------------------------------------------------------------
\* fm_zonemap_pol_create_tmp_table: the positions on the way from the map to a
\* zone, counted from 0 among the subzones of each.
PathTo ==
  LET path[z \in Zones] ==
        IF z = 0 THEN << >>
        ELSE Append(path[parent[z]],
                    Cardinality({s \in DOMAIN parent : parent[s] = parent[z] /\ s < z}))
  IN path

\* fm_zonemap_pol_get_lineage_from_ancestors: the place the positions lead to,
\* or 0 where a place does not name the one before it as its parent.
PlaceAt(path) ==
  LET at[i \in 0 .. Len(path)] ==
        IF i = 0 THEN 1
        ELSE LET up == at[i - 1]
                 p == firstChild[up] + path[i]
             IN IF up # 0 /\ p \in DOMAIN parentAddr /\ parentAddr[p] = up THEN p ELSE 0
  IN at[Len(path)]

\* Every row leads to its own zone, no two zones share a place, and the blob
\* is as long as there are zones.
RowsLeadToTheirZone ==
  todo = << >> =>
    /\ \A z \in Zones : PlaceAt(PathTo[z]) = place[z]
    /\ last = Cardinality(Zones)
    /\ \A y, z \in Zones : place[y] = place[z] => y = z
=============================================================================
