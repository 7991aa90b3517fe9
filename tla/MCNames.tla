------------------------------ MODULE MCNames ------------------------------
(***************************************************************************)
(* Model checking of the parts that compute: the canonical form of a       *)
(* number, the trimmed name of an APN, the names in the alias list of a    *)
(* service, and the two structures of a zone map that lead from a number   *)
(* to its zone.  Nothing relates them, so a behaviour is one of a single   *)
(* part, chosen at the start.                                              *)
(***************************************************************************)
EXTENDS Naturals, Sequences

CONSTANTS Digit, Letter, Ignored, MinLength, MaxLength, MaxSent,
          Char, Blank, NUL, MaxLen,
          Device, MaxElem, Exclusive,
          RowChar, Dropped, MaxRow, MaxRows, MaxZones

VARIABLES part,
          number, times, canonical,
          sent, id, trimmed,
          list, step, seen, held,
          rows, next, trie, outcome,
          parent, todo, last, place, firstChild, parentAddr

ASSUME NamesAssumption ==
  /\ Letter # Ignored /\ {0, Letter, Ignored} \cap Digit = {} /\ 0 \notin {Letter, Ignored}
  /\ MinLength \in Nat /\ MinLength > 2 /\ MaxLength \in Nat /\ MaxSent \in Nat
  /\ Blank \notin Char /\ NUL \notin Char \cup {Blank} /\ MaxLen \in Nat
  /\ MaxElem \in Nat /\ Exclusive \in BOOLEAN
  /\ RowChar \subseteq Nat \ {0} /\ MaxRow \in Nat /\ MaxRows \in Nat /\ MaxZones \in Nat

canonVars == <<number, times, canonical>>
apnVars == <<sent, id, trimmed>>
aliasVars == <<list, step, seen, held>>
trieVars == <<rows, next, trie, outcome>>
treeVars == <<parent, todo, last, place, firstChild, parentAddr>>
vars == <<part, canonVars, apnVars, aliasVars, trieVars, treeVars>>

Canon == INSTANCE NumCanon WITH result <- canonical
Apn == INSTANCE ApnName WITH result <- trimmed
Alias == INSTANCE AliasList
Trie == INSTANCE ZoneTrie WITH Char <- RowChar, NUL <- 0
Tree == INSTANCE ZoneTree

NoNumber == number = << >> /\ times = 0 /\ canonical = "ok"
NoName == sent = << >> /\ id = << >> /\ trimmed = "none"
NoAlias == Alias!Init
NoRows == rows = << >> /\ next = 1 /\ trie = << >> /\ outcome = "building"
NoZones ==
  /\ parent = << >> /\ todo = << >> /\ last = 1
  /\ place = << >> /\ firstChild = << >> /\ parentAddr = << >>

Init ==
  \/ part = "number" /\ Canon!Init /\ NoName /\ NoAlias /\ NoRows /\ NoZones
  \/ part = "apn" /\ NoNumber /\ Apn!Init /\ NoAlias /\ NoRows /\ NoZones
  \/ part = "alias" /\ NoNumber /\ NoName /\ Alias!Init /\ NoRows /\ NoZones
  \/ part = "trie" /\ NoNumber /\ NoName /\ NoAlias /\ Trie!Init /\ NoZones
  \/ part = "tree" /\ NoNumber /\ NoName /\ NoAlias /\ NoRows /\ Tree!Init

Next ==
  /\ UNCHANGED part
  /\ \/ /\ part = "number" /\ Canon!Next
        /\ UNCHANGED <<apnVars, aliasVars, trieVars, treeVars>>
     \/ /\ part = "apn" /\ Apn!Next
        /\ UNCHANGED <<canonVars, aliasVars, trieVars, treeVars>>
     \/ /\ part = "alias" /\ Alias!Next
        /\ UNCHANGED <<canonVars, apnVars, trieVars, treeVars>>
     \/ /\ part = "trie" /\ Trie!Next
        /\ UNCHANGED <<canonVars, apnVars, aliasVars, treeVars>>
     \/ /\ part = "tree" /\ Tree!Next
        /\ UNCHANGED <<canonVars, apnVars, aliasVars, trieVars>>

Spec == Init /\ [][Next]_vars

-----------------------------------------------------------------------------
\* The canonical form of a number is fixed, however often it is taken.
CanonicalIsFixed == Canon!CanonicalIsFixed

\* An APN name without blanks at its left keeps every other character.
UnindentedIsKept == Apn!UnindentedIsKept

\* Where sessions exclude each other on the service, it has an alias for each
\* of its devices and for no other.
AliasPerDevice == Alias!AliasPerDevice

\* Where the trie fits its slots, a number is found in the zone of the longest
\* row it begins with.
LongestPrefixFound == part = "trie" => Trie!LongestPrefixFound

\* The trie fits its slots, and fills the blob computed for it, where no
\* character of a row is dropped.
SpaceIsExact == part = "trie" => Trie!SpaceIsExact

\* The path of a row leads to the zone it was listed in.
RowsLeadToTheirZone == part = "tree" => Tree!RowsLeadToTheirZone
=============================================================================
