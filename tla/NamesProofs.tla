---------------------------- MODULE NamesProofs ----------------------------
(***************************************************************************)
(* Theorems about the parts of MCNames, for every set of characters and    *)
(* digits and any length of numbers, names, rows and trees; the alias list *)
(* of a service is left to the model checker.                              *)
(*                                                                         *)
(* What follows from a loop or a recursion is shown for the smallest case  *)
(* that it could fail for: every set of numbers has a least one.           *)
(***************************************************************************)
EXTENDS MCNames, KeptChars, TLAPS, SequenceTheorems, WellFoundedInduction,
        FiniteSetTheorems

-----------------------------------------------------------------------------
(***************************************************************************)
(* Numbers.                                                                *)
(***************************************************************************)

\* Every set of numbers has a least one.
LEMMA Least ==
  ASSUME NEW T, T \subseteq Nat, T # {}
  PROVE  \E x \in T : \A y \in T : x <= y
<1>1. IsWellFoundedOn(OpToRel(<, Nat), Nat)
  BY NatLessThanWellFounded
<1>2. \A i, j \in Nat : i < j => <<i, j>> \in OpToRel(<, Nat)
  BY DEF OpToRel
<1>3. PICK x \in T : \A y \in T : ~(<<y, x>> \in OpToRel(<, Nat))
  BY <1>1, WFMin
<1>4. \A y \in T : ~(y < x)
  BY <1>2, <1>3
<1> QED
  BY <1>4

\* A set of numbers with a bound has a greatest one.
LEMMA Greatest ==
  ASSUME NEW n \in Nat, NEW T, T \subseteq 0 .. n, T # {}
  PROVE  \E x \in T : \A y \in T : y <= x
<1>a. \A y \in T : y \in Nat /\ n - y \in Nat
  OBVIOUS
<1>1. {n - y : y \in T} \subseteq Nat /\ {n - y : y \in T} # {}
  BY <1>a
<1>2. PICK m \in {n - y : y \in T} : \A k \in {n - y : y \in T} : m <= k
  BY <1>1, Least
<1>3. PICK x \in T : m = n - x
  OBVIOUS
<1>4. \A y \in T : n - x <= n - y
  BY <1>2, <1>3
<1> QED
  BY <1>3, <1>4

\* Induction up to a number, over the members of a set.
LEMMA UpTo ==
  ASSUME NEW m \in Nat, NEW T, 0 \in T, \A k \in 0 .. m - 1 : k \in T => k + 1 \in T
  PROVE  0 .. m \subseteq T
<1> SUFFICES ASSUME (0 .. m) \ T # {} PROVE FALSE
  OBVIOUS
<1> DEFINE missing == (0 .. m) \ T
<1>a. missing \subseteq Nat /\ missing # {}
  OBVIOUS
<1>1. PICK k \in missing : \A j \in missing : k <= j
  <2> HIDE DEF missing
  <2> QED
    BY <1>a, Least
<1>2. k # 0 /\ k - 1 \in 0 .. m - 1 /\ k - 1 \notin (0 .. m) \ T
  BY <1>1
<1>3. k - 1 \in T /\ (k - 1) + 1 = k
  BY <1>2
<1> QED
  BY <1>1, <1>2, <1>3

-----------------------------------------------------------------------------
(***************************************************************************)
(* The characters that a canonicalization keeps.                           *)
(***************************************************************************)

\* One step of the loop, and all of them up to m.
KeptAt(s, keep, f, n) ==
  IF n = 0 THEN << >> ELSE IF s[n] \in keep THEN Append(f[n - 1], s[n]) ELSE f[n - 1]
IsKept(s, keep, f, m) == f = [n \in 0 .. m |-> KeptAt(s, keep, f, n)]

LEMMA KeptExists ==
  ASSUME NEW s, NEW keep, NEW m \in Nat
  PROVE  \E f : IsKept(s, keep, f, m)
<1> DEFINE Good(k) == \E f : IsKept(s, keep, f, k)
           T == {k \in Nat : Good(k)}
<1>1. 0 \in T
  <2> DEFINE f == [n \in 0 .. 0 |-> << >>]
  <2>1. \A n \in 0 .. 0 : KeptAt(s, keep, f, n) = << >>
    BY DEF KeptAt
  <2>2. IsKept(s, keep, f, 0)
    BY <2>1 DEF IsKept
  <2> QED
    BY <2>2
<1>2. ASSUME NEW k \in 0 .. m - 1, k \in T PROVE k + 1 \in T
  <2>1. k \in Nat /\ k + 1 \in Nat
    BY <1>2
  <2>2. PICK g : IsKept(s, keep, g, k)
    BY <1>2
  <2> DEFINE f == [n \in 0 .. k + 1 |-> IF n = k + 1 THEN KeptAt(s, keep, g, n) ELSE g[n]]
  <2>3. ASSUME NEW n \in 0 .. k + 1 PROVE f[n] = KeptAt(s, keep, f, n)
    <3>1. n # 0 => n - 1 \in 0 .. k /\ f[n - 1] = g[n - 1]
      BY <2>1
    <3>2. KeptAt(s, keep, f, n) = KeptAt(s, keep, g, n)
      <4> HIDE DEF f
      <4> QED
        BY <3>1 DEF KeptAt
    <3>3. n # k + 1 => g[n] = KeptAt(s, keep, g, n)
      BY <2>1, <2>2 DEF IsKept
    <3> QED
      BY <3>2, <3>3
  <2>4. f = [n \in 0 .. k + 1 |-> KeptAt(s, keep, f, n)]
    BY <2>3
  <2>5. IsKept(s, keep, f, k + 1)
    BY <2>4 DEF IsKept
  <2>6. \E h : IsKept(s, keep, h, k + 1)
    <3> HIDE DEF f
    <3> QED
      BY <2>5
  <2> QED
    BY <2>1, <2>6
<1> HIDE DEF T
<1>3. 0 .. m \subseteq T
  BY <1>1, <1>2, UpTo
<1>4. m \in T
  BY <1>3
<1> QED
  BY <1>4 DEF T

LEMMA KeptIs ==
  ASSUME NEW s, NEW keep, Len(s) \in Nat
  PROVE  \E f : Kept(s, keep) = f[Len(s)] /\ IsKept(s, keep, f, Len(s))
<1> DEFINE upTo == CHOOSE f : IsKept(s, keep, f, Len(s))
<1>1. Kept(s, keep) = upTo[Len(s)]
  BY DEF Kept, IsKept, KeptAt
<1>2. IsKept(s, keep, upTo, Len(s))
  BY KeptExists
<1> QED
  BY <1>1, <1>2

\* What is kept of a string is a string of what is kept, and all of it if
\* nothing is left out.
LEMMA KeptProperties ==
  ASSUME NEW S, NEW s \in Seq(S), NEW keep
  PROVE  /\ Kept(s, keep) \in Seq(S \cap keep) /\ Len(Kept(s, keep)) <= Len(s)
         /\ s \in Seq(keep) => Kept(s, keep) = s
<1>1. PICK f : Kept(s, keep) = f[Len(s)] /\ IsKept(s, keep, f, Len(s))
  BY KeptIs
<1> DEFINE T == {n \in 0 .. Len(s) : /\ f[n] \in Seq(S \cap keep) /\ Len(f[n]) <= n
                                     /\ s \in Seq(keep) => f[n] = SubSeq(s, 1, n)}
<1>2. \A n \in 0 .. Len(s) : f[n] = KeptAt(s, keep, f, n)
  BY <1>1 DEF IsKept
<1>3. 0 \in T
  <2>1. f[0] = << >>
    BY <1>2 DEF KeptAt
  <2>2. SubSeq(s, 1, 0) = << >>
    OBVIOUS
  <2>3. << >> \in Seq(S \cap keep) /\ Len(<< >>) <= 0 /\ 0 \in 0 .. Len(s)
    OBVIOUS
  <2> QED
    BY <2>1, <2>2, <2>3
<1>4. ASSUME NEW k \in 0 .. Len(s) - 1, k \in T PROVE k + 1 \in T
  <2>1. k + 1 \in 0 .. Len(s) /\ (k + 1) - 1 = k /\ s[k + 1] \in S
    BY <1>4
  <2>2. f[k + 1] = IF s[k + 1] \in keep THEN Append(f[k], s[k + 1]) ELSE f[k]
    BY <1>2, <2>1 DEF KeptAt
  <2>3. f[k + 1] \in Seq(S \cap keep) /\ Len(f[k + 1]) <= k + 1
    BY <1>4, <2>1, <2>2
  <2>4. ASSUME s \in Seq(keep) PROVE f[k + 1] = SubSeq(s, 1, k + 1)
    <3>1. f[k] = SubSeq(s, 1, k) /\ s[k + 1] \in keep
      BY <1>4, <2>1, <2>4
    <3>2. Append(SubSeq(s, 1, k), s[k + 1]) = SubSeq(s, 1, k + 1)
      BY <2>1
    <3> QED
      BY <2>2, <3>1, <3>2
  <2> QED
    BY <2>1, <2>3, <2>4
<1>5. 0 .. Len(s) \subseteq T
  <2> HIDE DEF T
  <2> QED
    BY <1>3, <1>4, UpTo
<1>6. Len(s) \in T /\ SubSeq(s, 1, Len(s)) = s
  BY <1>5
<1> QED
  BY <1>1, <1>6

-----------------------------------------------------------------------------
(***************************************************************************)
(* The canonical form of a number.                                         *)
(***************************************************************************)

\* A number that has been canonicalized: digits that begin with two zeros, as
\* many as are supported.
IsCanonical(n) ==
  /\ n \in Seq(Digit \cup {0})
  /\ Len(n) > 1 /\ n[1] = 0 /\ n[2] = 0
  /\ Canon!LengthIsSupported(n)

CanonInv ==
  /\ number \in Seq(Canon!Symbols) /\ times \in Nat
  /\ times > 0 /\ canonical = "ok" => IsCanonical(number)

LEMMA BoundedIsSeq ==
  ASSUME NEW S, NEW n \in Nat
  PROVE  Canon!BoundedSeq(S, n) \subseteq Seq(S) /\ Apn!BoundedSeq(S, n) \subseteq Seq(S)
<1>1. \A k \in 0 .. n : [1 .. k -> S] \subseteq Seq(S)
  OBVIOUS
<1> QED
  BY <1>1 DEF Canon!BoundedSeq, Canon!SeqOf, Apn!BoundedSeq, Apn!SeqOf

LEMMA CanonStart == Init => CanonInv
<1>1. Canon!Init => CanonInv
  BY BoundedIsSeq, NamesAssumption DEF Canon!Init, CanonInv
<1>2. NoNumber => CanonInv
  BY DEF NoNumber, CanonInv
<1> QED
  BY <1>1, <1>2 DEF Init

\* The digits of a number, behind the zeros put before them, begin with two
\* zeros.
LEMMA PaddedIsCanonical ==
  ASSUME NEW n \in Seq(Canon!Symbols)
  PROVE  LET d == Canon!Digits(n)
             padded == Canon!Padding(d) \o d
         IN /\ padded \in Seq(Digit \cup {0})
            /\ Len(padded) > 1 /\ padded[1] = 0 /\ padded[2] = 0
<1> DEFINE d == Canon!Digits(n)
<1>1. d \in Seq(Digit \cup {0})
  <2>1. d = Kept(n, Digit \cup {0})
    BY DEF Canon!Digits, Canon!Kept, Kept, Canon!Zero
  <2>2. d \in Seq(Canon!Symbols \cap (Digit \cup {0}))
    BY <2>1, KeptProperties
  <2> QED
    BY <2>2
<1> HIDE DEF d
<1>2. CASE d = << >> \/ d[1] # 0
  <2>1. Canon!Padding(d) = <<0, 0>>
    BY <1>2 DEF Canon!Padding, Canon!Zero
  <2> QED
    BY <1>1, <2>1 DEF d
<1>3. CASE ~(d = << >> \/ d[1] # 0) /\ (Len(d) = 1 \/ d[2] # 0)
  <2>1. Canon!Padding(d) = <<0>>
    BY <1>3 DEF Canon!Padding, Canon!Zero
  <2>2. Len(d) > 0 /\ d[1] = 0
    BY <1>1, <1>3
  <2> QED
    BY <1>1, <2>1, <2>2 DEF d
<1>4. CASE ~(d = << >> \/ d[1] # 0) /\ ~(Len(d) = 1 \/ d[2] # 0)
  <2>1. Canon!Padding(d) = << >>
    BY <1>4 DEF Canon!Padding, Canon!Zero
  <2>2. Len(d) \in Nat /\ Len(d) # 0
    BY <1>1, <1>4, EmptySeq, LenProperties
  <2>3. d[1] = 0 /\ d[2] = 0 /\ Len(d) # 1
    BY <1>4
  <2>4. Len(d) > 1
    <3>1. \A k \in Nat : k # 0 /\ k # 1 => k > 1
      OBVIOUS
    <3> QED
      BY <2>2, <2>3, <3>1, Zenon
  <2>5. << >> \o d = d
    BY <1>1
  <2> QED
    BY <1>1, <2>1, <2>3, <2>4, <2>5 DEF d
<1> QED
  BY <1>2, <1>3, <1>4

\* Nothing is left out of a canonical number and nothing put before it.
LEMMA CanonicalIsKept ==
  ASSUME NEW n, IsCanonical(n)
  PROVE  ~Canon!HasLetter(n) /\ Canon!Padding(Canon!Digits(n)) \o Canon!Digits(n) = n
<1>1. Canon!Digits(n) = n
  <2>1. Canon!Digits(n) = Kept(n, Digit \cup {0})
    BY DEF Canon!Digits, Canon!Kept, Kept, Canon!Zero
  <2> QED
    BY <2>1, KeptProperties DEF IsCanonical
<1>2. Canon!Padding(n) = << >>
  <2>1. n # << >>
    BY DEF IsCanonical
  <2> QED
    BY <2>1 DEF IsCanonical, Canon!Padding, Canon!Zero
<1>3. ~Canon!HasLetter(n)
  <2>1. \A i \in DOMAIN n : n[i] \in Digit \cup {0}
    BY DEF IsCanonical
  <2> QED
    BY <2>1, NamesAssumption DEF Canon!HasLetter, Canon!Range
<1> QED
  BY <1>1, <1>2, <1>3 DEF IsCanonical

LEMMA CanonicalizeAgain ==
  ASSUME CanonInv, Canon!Canonicalize, times > 0, canonical = "ok"
  PROVE  number' = number /\ canonical' = "ok"
<1>1. IsCanonical(number)
  BY DEF CanonInv
<1> QED
  BY <1>1, CanonicalIsKept DEF Canon!Canonicalize, IsCanonical

LEMMA CanonicalizeKeeps ==
  ASSUME CanonInv, Canon!Canonicalize
  PROVE  CanonInv'
<1>1. number \in Seq(Canon!Symbols) /\ times \in Nat /\ times' = times + 1
  BY DEF CanonInv, Canon!Canonicalize
<1>2. CASE Canon!HasLetter(number)
  BY <1>1, <1>2 DEF Canon!Canonicalize, CanonInv
<1>3. CASE ~Canon!HasLetter(number)
  <2> DEFINE padded == Canon!Padding(Canon!Digits(number)) \o Canon!Digits(number)
  <2>1. number' = padded /\ canonical' = IF Canon!LengthIsSupported(padded) THEN "ok" ELSE "CANON_CONV"
    BY <1>3 DEF Canon!Canonicalize
  <2>2. /\ padded \in Seq(Digit \cup {0})
        /\ Len(padded) > 1 /\ padded[1] = 0 /\ padded[2] = 0
    BY <1>1, PaddedIsCanonical
  <2> HIDE DEF padded
  <2>3. number' \in Seq(Canon!Symbols)
    BY <2>1, <2>2 DEF Canon!Symbols, Canon!Zero
  <2>4. canonical' = "ok" => IsCanonical(padded)
    BY <2>1, <2>2 DEF IsCanonical
  <2>5. canonical' = "ok" => IsCanonical(number)'
    BY <2>1, <2>4 DEF IsCanonical, Canon!LengthIsSupported
  <2>6. times' \in Nat /\ Canon!Symbols' = Canon!Symbols
    BY <1>1
  <2> QED
    BY <2>3, <2>5, <2>6 DEF CanonInv
<1> QED
  BY <1>2, <1>3

LEMMA CanonStep ==
  ASSUME CanonInv, [Next]_vars
  PROVE  CanonInv'
<1>1. CASE Canon!Next
  BY <1>1, CanonicalizeKeeps DEF Canon!Next
<1>2. CASE UNCHANGED canonVars
  BY <1>2 DEF canonVars, CanonInv, IsCanonical, Canon!LengthIsSupported
<1> QED
  BY <1>1, <1>2 DEF Next, vars

\* However a number is written, its canonical form is its own canonical form:
\* to take it again, as a change of numbers does, changes nothing.
THEOREM CanonicalFormIsFixed == Spec => CanonicalIsFixed
<1> DEFINE Fixed == times > 0 /\ canonical = "ok" => number' = number /\ canonical' = "ok"
<1>1. CanonInv /\ [Next]_vars => [Fixed]_<<number, times, canonical>>
  <2> SUFFICES ASSUME CanonInv, [Next]_vars PROVE [Fixed]_<<number, times, canonical>>
    OBVIOUS
  <2>1. CASE Canon!Next
    BY <2>1, CanonicalizeAgain DEF Canon!Next
  <2>2. CASE UNCHANGED canonVars
    BY <2>2 DEF canonVars
  <2> QED
    BY <2>1, <2>2 DEF Next, vars
<1>2. CanonInv /\ [Next]_vars => CanonInv'
  BY CanonStep
<1> QED
  BY CanonStart, <1>1, <1>2, PTL DEF Spec, CanonicalIsFixed, Canon!CanonicalIsFixed, Canon!vars

-----------------------------------------------------------------------------
(***************************************************************************)
(* The name of an APN.                                                     *)
(***************************************************************************)

ApnInv == sent \in Seq(Char \cup {Blank}) /\ UnindentedIsKept

LEMMA ApnStart == Init => ApnInv
<1>1. Apn!Init => ApnInv
  BY BoundedIsSeq, NamesAssumption
  DEF Apn!Init, Apn!Strings, ApnInv, UnindentedIsKept, Apn!UnindentedIsKept
<1>2. NoName => ApnInv
  BY DEF NoName, ApnInv, UnindentedIsKept, Apn!UnindentedIsKept
<1> QED
  BY <1>1, <1>2 DEF Init

\* A string that does not begin with a blank stays where it is.
LEMMA UnindentedStays ==
  ASSUME NEW s \in Seq(Char \cup {Blank}), s # << >>, s[1] # Blank
  PROVE  /\ Apn!LeadingBlanks(s) = 0
         /\ Apn!Moved(s) = [p \in 1 .. Len(s) + 1 |-> IF p <= Len(s) THEN s[p] ELSE NUL]
<1> DEFINE t == s \o <<NUL>>
           T == {i \in 1 .. Len(t) : t[i] # Blank}
<1>1. Len(t) = Len(s) + 1 /\ \A p \in 1 .. Len(s) + 1 : t[p] = IF p <= Len(s) THEN s[p] ELSE NUL
  OBVIOUS
<1>2. Len(s) \in Nat /\ Len(s) > 0
  OBVIOUS
<1>3. 1 \in T
  BY <1>1, <1>2
<1>4. Apn!Min(T) = 1
  <2>1. \A y \in T : y \in Nat /\ 1 <= y
    BY <1>1, <1>2
  <2> HIDE DEF T
  <2> QED
    BY <1>3, <2>1 DEF Apn!Min
<1>5. Apn!LeadingBlanks(s) = 0
  <2>1. Apn!LeadingBlanks(s) = (IF T # {} THEN Apn!Min(T) ELSE 0) - 1
    BY DEF Apn!LeadingBlanks, Apn!SelectInSeq
  <2>2. T # {}
    BY <1>3
  <2> HIDE DEF T
  <2> QED
    BY <2>1, <2>2, <1>4
<1>6. \A p \in 1 .. Len(s) + 1 : p + 0 = p
  BY <1>2
<1> HIDE DEF t
<1>7. Apn!Moved(s) = [p \in 1 .. Len(s) + 1 |-> IF p <= Len(s) - 0 THEN s[p + 0] ELSE t[p]]
  BY <1>5 DEF Apn!Moved, t
<1> QED
  BY <1>1, <1>2, <1>5, <1>6, <1>7

\* What Create returns of it ends with the last character that is not a blank.
LEMMA FinalLenIsLast ==
  ASSUME NEW s \in Seq(Char \cup {Blank}), s # << >>, s[1] # Blank
  PROVE  /\ Apn!FinalLen(s) + 1 \in 1 .. Len(s)
         /\ \A p \in 1 .. Len(s) : p > Apn!FinalLen(s) + 1 => s[p] = Blank
<1> DEFINE m == Apn!Moved(s)
           T == {i \in 1 .. Len(s) + 1 : m[i] \notin {Blank, NUL}}
<1>1. Len(s) \in Nat /\ Len(s) > 0 /\ \A i \in 1 .. Len(s) : s[i] \in Char \cup {Blank}
  OBVIOUS
<1>2. \A i \in 1 .. Len(s) + 1 : m[i] = IF i <= Len(s) THEN s[i] ELSE NUL
  BY UnindentedStays
<1>3. Apn!FinalLen(s) = (IF T # {} THEN Apn!Max(T) ELSE 0) - 1
  <2>1. Len(s) - Apn!LeadingBlanks(s) + 1 = Len(s) + 1
    BY <1>1, UnindentedStays
  <2> QED
    BY <2>1 DEF Apn!FinalLen, Apn!SelectLastInSubSeq
<1>4. 1 \in T
  BY <1>1, <1>2, NamesAssumption
<1>5. T \subseteq 0 .. Len(s)
  BY <1>1, <1>2
<1>6. \A i \in 1 .. Len(s) : i \notin T => s[i] = Blank
  BY <1>1, <1>2, NamesAssumption
<1> HIDE DEF T
<1>7. Apn!Max(T) \in T /\ \A y \in T : y <= Apn!Max(T)
  <2>1. \E x \in T : \A y \in T : x >= y
    <3>1. PICK x \in T : \A y \in T : y <= x
      BY <1>1, <1>4, <1>5, Greatest
    <3> QED
      BY <3>1
  <2> QED
    BY <2>1 DEF Apn!Max
<1> DEFINE M == Apn!Max(T)
<1>8. M \in T /\ \A y \in T : y <= M
  BY <1>7
<1> HIDE DEF M
<1>9. M \in 1 .. Len(s) /\ \A y \in T : y <= M
  BY <1>1, <1>4, <1>5, <1>8
<1>10. Apn!FinalLen(s) + 1 = M
  BY <1>3, <1>4, <1>9, <1>1 DEF M
<1>11. \A p \in 1 .. Len(s) : p > M => p \notin T
  BY <1>1, <1>9
<1> QED
  BY <1>6, <1>9, <1>10, <1>11

LEMMA ApnStep ==
  ASSUME ApnInv, [Next]_vars
  PROVE  ApnInv'
<1>1. CASE Apn!Next
  <2>1. sent' = sent /\ sent \in Seq(Char \cup {Blank})
    BY <1>1 DEF Apn!Next, Apn!Create, ApnInv
  <2>2. ASSUME trimmed' = "ok", Head(sent) # Blank
        PROVE  Apn!IsPrefix(id', sent) /\ \A p \in (Len(id') + 1) .. Len(sent) : sent[p] = Blank
    <3>1. Apn!LeadingBlanks(sent) # Len(sent)
      BY <1>1, <2>2 DEF Apn!Next, Apn!Create
    <3>2. sent # << >>
      <4> SUFFICES ASSUME sent = << >> PROVE FALSE
        OBVIOUS
      <4> DEFINE t == sent \o <<NUL>>
                 T == {i \in 1 .. Len(t) : t[i] # Blank}
      <4>1. t = <<NUL>>
        OBVIOUS
      <4>2. T = {1}
        BY <4>1, NamesAssumption
      <4>3. Apn!Min(T) = 1
        BY <4>2 DEF Apn!Min
      <4>4. Apn!LeadingBlanks(sent) = (IF T # {} THEN Apn!Min(T) ELSE 0) - 1
        BY DEF Apn!LeadingBlanks, Apn!SelectInSeq
      <4>5. Len(sent) = 0
        OBVIOUS
      <4> QED
        BY <3>1, <4>2, <4>3, <4>4, <4>5
    <3> DEFINE M == Apn!FinalLen(sent) + 1
               m == Apn!Moved(sent)
    <3>3. sent[1] # Blank
      BY <2>1, <2>2, <3>2
    <3>4. M \in 1 .. Len(sent) /\ \A p \in 1 .. Len(sent) : p > M => sent[p] = Blank
      BY <2>1, <3>2, <3>3, FinalLenIsLast
    <3>5. m = [p \in 1 .. Len(sent) + 1 |-> IF p <= Len(sent) THEN sent[p] ELSE NUL]
      BY <2>1, <3>2, <3>3, UnindentedStays
    <3>6. id' = SubSeq(m, 1, M)
      BY <1>1, <3>1 DEF Apn!Next, Apn!Create
    <3> HIDE DEF M, m
    <3>7. id' = SubSeq(sent, 1, M)
      <4>1. m \in Seq(Char \cup {Blank, NUL}) /\ Len(m) = Len(sent) + 1
        BY <2>1, <3>5
      <4>2. \A p \in 1 .. M : m[p] = sent[p]
        BY <2>1, <3>4, <3>5
      <4>3. SubSeq(m, 1, M) = [p \in 1 .. M |-> m[p]]
        BY <2>1, <3>4, <4>1
      <4>4. SubSeq(sent, 1, M) = [p \in 1 .. M |-> sent[p]]
        BY <2>1, <3>4
      <4> QED
        BY <3>6, <4>2, <4>3, <4>4
    <3>8. Len(id') = M /\ SubSeq(id', 1, Len(id')) = SubSeq(sent, 1, Len(id'))
      BY <2>1, <3>4, <3>7
    <3> QED
      BY <2>1, <3>4, <3>8 DEF Apn!IsPrefix
  <2> QED
    BY <2>1, <2>2 DEF ApnInv, UnindentedIsKept, Apn!UnindentedIsKept, Apn!IsPrefix
<1>2. CASE UNCHANGED apnVars
  BY <1>2 DEF apnVars, ApnInv, UnindentedIsKept, Apn!UnindentedIsKept, Apn!IsPrefix
<1> QED
  BY <1>1, <1>2 DEF Next, vars

\* Of a name that does not begin with a blank, only blanks at its end are lost.
THEOREM UnindentedNameIsKept == Spec => []UnindentedIsKept
<1>1. ApnInv => UnindentedIsKept
  BY DEF ApnInv
<1>2. ApnInv /\ [Next]_vars => ApnInv'
  BY ApnStep
<1> QED
  BY ApnStart, <1>1, <1>2, PTL DEF Spec

-----------------------------------------------------------------------------
(***************************************************************************)
(* The beginnings of strings.                                              *)
(***************************************************************************)

\* The first k characters of a string.
Up(s, k) == SubSeq(s, 1, k)

LEMMA UpProperties ==
  ASSUME NEW S, NEW s \in Seq(S), NEW k \in 0 .. Len(s)
  PROVE  /\ Up(s, k) \in Seq(S) /\ Len(Up(s, k)) = k
         /\ \A j \in 1 .. k : Up(s, k)[j] = s[j]
<1>1. \A i \in 1 .. k : s[i] \in S
  OBVIOUS
<1>2. k \in Int /\ 1 \in Int /\ Len(s) \in Nat
  OBVIOUS
<1> QED
  BY <1>1, <1>2, SubSeqProperties DEF Up

LEMMA SameUp ==
  ASSUME NEW S, NEW s \in Seq(S), NEW t \in Seq(S), NEW k \in 0 .. Len(s), k <= Len(t),
         \A j \in 1 .. k : s[j] = t[j]
  PROVE  Up(s, k) = Up(t, k)
<1>1. k \in 0 .. Len(t)
  OBVIOUS
<1>2. /\ Up(s, k) \in Seq(S) /\ Len(Up(s, k)) = k /\ \A j \in 1 .. k : Up(s, k)[j] = s[j]
      /\ Up(t, k) \in Seq(S) /\ Len(Up(t, k)) = k /\ \A j \in 1 .. k : Up(t, k)[j] = t[j]
  BY <1>1, UpProperties
<1> QED
  BY <1>2

LEMMA UpFull ==
  ASSUME NEW S, NEW s \in Seq(S)
  PROVE  Up(s, Len(s)) = s
BY SubSeqFull DEF Up

LEMMA PrefixIsUp ==
  ASSUME NEW S, NEW p \in Seq(S), NEW s \in Seq(S)
  PROVE  /\ Trie!IsPrefix(p, s) <=> Len(p) <= Len(s) /\ p = Up(s, Len(p))
         /\ p \in Trie!Prefixes(s) <=> Trie!IsPrefix(p, s)
<1>1. Up(p, Len(p)) = p
  BY UpFull
<1>2. Trie!IsPrefix(p, s) <=> Len(p) <= Len(s) /\ p = Up(s, Len(p))
  BY <1>1 DEF Trie!IsPrefix, Up
<1>3. ASSUME p \in Trie!Prefixes(s) PROVE Trie!IsPrefix(p, s)
  <2>1. PICK l \in 0 .. Len(s) : p = Up(s, l)
    BY <1>3 DEF Trie!Prefixes, Up
  <2>2. Len(p) = l
    BY <2>1, UpProperties
  <2> QED
    BY <1>2, <2>1, <2>2
<1>4. ASSUME Trie!IsPrefix(p, s) PROVE p \in Trie!Prefixes(s)
  <2>1. Len(p) \in 0 .. Len(s) /\ p = Up(s, Len(p))
    BY <1>2, <1>4
  <2> QED
    BY <2>1 DEF Trie!Prefixes, Up
<1> QED
  BY <1>2, <1>3, <1>4

-----------------------------------------------------------------------------
(***************************************************************************)
(* What the trie of a zone map has when some of the rows are inserted.     *)
(***************************************************************************)

Str == Seq(RowChar)

\* The path of a row: its canonical form.
Path(r) == Trie!Canon(rows[r])

Done == 1 .. next - 1

\* The trie has the nodes on the paths of the rows inserted so far, each with
\* the characters that these paths go on with, and the row that ends there.
TrieInv ==
  /\ rows \in Seq(Str) /\ next \in 1 .. Len(rows) + 1
  /\ outcome = "built" => next = Len(rows) + 1
  /\ DOMAIN trie \subseteq Str
  /\ \A p \in Str : p \in DOMAIN trie <=> \E i \in Done : p \in Trie!Prefixes(Path(i))
  /\ \A p \in DOMAIN trie : \A c :
       c \in trie[p].kids <=> \E i \in Done : c \in Trie!Kids(p, Path(i))
  /\ \A p \in DOMAIN trie :
       /\ trie[p].row \in {0} \cup Done
       /\ \A i \in Done : trie[p].row = i => Path(i) = p
  /\ \A i \in Done : Path(i) \in DOMAIN trie /\ trie[Path(i)].row = i

LEMMA PathTyped ==
  ASSUME rows \in Seq(Str), NEW r \in 1 .. Len(rows)
  PROVE  Path(r) \in Str /\ rows[r] \in Str
<1>1. rows[r] \in Str
  OBVIOUS
<1>2. Trie!Canon(rows[r]) = Kept(rows[r], RowChar \ Dropped)
  BY DEF Trie!Canon, Trie!Kept, Kept
<1>3. Kept(rows[r], RowChar \ Dropped) \in Seq(RowChar \cap (RowChar \ Dropped))
  BY <1>1, KeptProperties DEF Str
<1>4. Kept(rows[r], RowChar \ Dropped) \in Str
  BY <1>3 DEF Str
<1> QED
  BY <1>1, <1>2, <1>4 DEF Path

\* A node without characters to go on with.
LEMMA KidsOf ==
  ASSUME NEW p \in Str, NEW s \in Str
  PROVE  /\ Trie!Kids(p, s) # {} => p \in Trie!Prefixes(s)
         /\ \A c : c \in Trie!Kids(p, s) <=>
              Len(p) < Len(s) /\ p = Up(s, Len(p)) /\ c = s[Len(p) + 1]
<1>1. Trie!IsPrefix(p, s) <=> Len(p) <= Len(s) /\ p = Up(s, Len(p))
  BY PrefixIsUp DEF Str
<1>2. p \in Trie!Prefixes(s) <=> Trie!IsPrefix(p, s)
  BY PrefixIsUp DEF Str
<1>3. Len(p) \in Nat /\ Len(s) \in Nat
  BY DEF Str
<1>4. p = Up(s, Len(p)) /\ Len(p) = Len(s) => p = s
  BY UpFull DEF Str
<1>5. Trie!IsStrictPrefix(p, s) <=> Len(p) < Len(s) /\ p = Up(s, Len(p))
  BY <1>1, <1>3, <1>4 DEF Trie!IsStrictPrefix
<1> QED
  BY <1>1, <1>2, <1>3, <1>5 DEF Trie!Kids, Trie!IsStrictPrefix

LEMMA TrieStarts ==
  ASSUME rows \in Seq(Str), next = 1, trie = << >>, outcome = "building"
  PROVE  TrieInv
<1>1. Done = {} /\ DOMAIN trie = {} /\ Len(rows) \in Nat
  BY DEF Done
<1> QED
  BY <1>1 DEF TrieInv

LEMMA TrieInsert ==
  ASSUME TrieInv, Trie!InsertRow
  PROVE  TrieInv'
<1> DEFINE path == Path(next)
           on == Trie!Prefixes(path)
<1>1. /\ outcome = "building" /\ next \in 1 .. Len(rows) /\ rows' = rows
      /\ rows \in Seq(Str) /\ Len(rows) \in Nat
  BY DEF Trie!InsertRow, TrieInv
<1>2. path \in Str /\ \A i \in Done : Path(i) \in Str
  BY <1>1, PathTyped DEF Done
<1>3. \A i : Path(i)' = Path(i)
  BY <1>1 DEF Path, Trie!Canon, Trie!Kept
<1>4. CASE Trie!Duplicate(next) /\ outcome' = "refused" /\ UNCHANGED <<next, trie>>
  <2>1. Done' = Done
    BY <1>4 DEF Done
  <2> QED
    BY <1>1, <1>3, <1>4, <2>1 DEF TrieInv
<1>5. CASE ~Trie!Duplicate(next) /\ trie' = Trie!Inserted(next) /\ next' = next + 1
             /\ outcome' \in {"overrun", "building"}
  <2>1. Done' = Done \cup {next} /\ next \notin Done
    BY <1>1, <1>5 DEF Done
  <2>2. /\ DOMAIN trie' = DOMAIN trie \cup on
        /\ \A p \in DOMAIN trie \cup on :
             /\ p \notin on => trie'[p] = trie[p]
             /\ p \in on => /\ trie'[p].kids = Trie!NodeAt(p).kids \cup Trie!Kids(p, path)
                            /\ trie'[p].row = IF p = path THEN next ELSE Trie!NodeAt(p).row
    BY <1>5 DEF Trie!Inserted, Path
  <2>3. on \subseteq Str
    BY <1>2, UpProperties DEF Trie!Prefixes, Up, Str
  <2>4. /\ \A p \in DOMAIN trie : Trie!NodeAt(p) = trie[p]
        /\ \A p : p \notin DOMAIN trie => Trie!NodeAt(p).kids = {} /\ Trie!NodeAt(p).row = 0
    BY DEF Trie!NodeAt, Trie!NoNode
  <2>5. path \in on
    BY <1>2, UpFull, PrefixIsUp DEF Str
  <2> HIDE DEF on, path
  <2>a. Trie!NodeAt(path).row = 0
    BY <1>5 DEF Trie!Duplicate, Path, path
  <2>6. ASSUME NEW i \in Done PROVE Path(i) # path
    <3>1. Path(i) \in DOMAIN trie /\ trie[Path(i)].row = i /\ i # 0
      BY DEF TrieInv, Done
    <3> QED
      BY <2>4, <2>a, <3>1
  <2>7. \A p \in Str : p \in DOMAIN trie' <=> \E i \in Done' : p \in Trie!Prefixes(Path(i))
    BY <2>1, <2>2 DEF TrieInv, on, path
  <2>8. ASSUME NEW p \in DOMAIN trie', NEW ch
        PROVE  ch \in trie'[p].kids <=> \E i \in Done' : ch \in Trie!Kids(p, Path(i))
    <3>1. p \in Str
      BY <2>2, <2>3 DEF TrieInv
    <3>2. CASE p \notin on
      <4>1. p \in DOMAIN trie /\ trie'[p] = trie[p]
        BY <2>2, <3>2
      <4>2. Trie!Kids(p, path) = {}
        BY <1>2, <3>1, <3>2, KidsOf DEF on
      <4>3. ch \in trie[p].kids <=> \E i \in Done : ch \in Trie!Kids(p, Path(i))
        BY <4>1 DEF TrieInv
      <4> QED
        BY <2>1, <4>1, <4>2, <4>3 DEF path
    <3>3. CASE p \in on
      <4>1. trie'[p].kids = Trie!NodeAt(p).kids \cup Trie!Kids(p, path)
        BY <2>2, <3>3
      <4>2. ch \in Trie!NodeAt(p).kids <=> \E i \in Done : ch \in Trie!Kids(p, Path(i))
        <5>1. CASE p \in DOMAIN trie
          BY <2>4, <5>1 DEF TrieInv
        <5>2. CASE p \notin DOMAIN trie
          <6>1. \A i \in Done : p \notin Trie!Prefixes(Path(i))
            BY <3>1, <5>2 DEF TrieInv
          <6>2. \A i \in Done : Trie!Kids(p, Path(i)) = {}
            BY <1>2, <3>1, <6>1, KidsOf
          <6> QED
            BY <2>4, <5>2, <6>2
        <5> QED
          BY <5>1, <5>2
      <4> QED
        BY <2>1, <4>1, <4>2 DEF path
    <3> QED
      BY <3>2, <3>3
  <2>9. ASSUME NEW p \in DOMAIN trie'
        PROVE  /\ trie'[p].row \in {0} \cup Done'
               /\ \A i \in Done' : trie'[p].row = i => Path(i) = p
    <3>1. CASE p = path
      <4>1. trie'[p].row = next
        BY <2>2, <2>5, <3>1
      <4> QED
        BY <2>1, <3>1, <4>1 DEF path
    <3>2. CASE p # path
      <4>1. trie'[p].row = Trie!NodeAt(p).row
        BY <2>2, <2>4, <3>2
      <4>2. p \in DOMAIN trie => /\ trie[p].row \in {0} \cup Done
                                /\ \A i \in Done : trie[p].row = i => Path(i) = p
        BY DEF TrieInv
      <4>3. 0 \notin Done' /\ next # 0 /\ \A i \in Done : i # 0
        BY <1>1, <2>1 DEF Done
      <4>4. CASE p \in DOMAIN trie
        BY <2>1, <2>4, <4>1, <4>2, <4>3, <4>4
      <4>5. CASE p \notin DOMAIN trie
        BY <2>4, <4>1, <4>3, <4>5
      <4> QED
        BY <4>4, <4>5
    <3> QED
      BY <3>1, <3>2
  <2>10. ASSUME NEW i \in Done' PROVE Path(i) \in DOMAIN trie' /\ trie'[Path(i)].row = i
    <3>1. CASE i = next
      BY <2>2, <2>5, <3>1 DEF path
    <3>2. CASE i \in Done
      <4>1. Path(i) \in DOMAIN trie /\ trie[Path(i)].row = i /\ Path(i) # path
        BY <2>6, <3>2 DEF TrieInv
      <4> QED
        BY <2>2, <2>4, <4>1
    <3> QED
      BY <2>1, <3>1, <3>2
  <2>11. /\ rows' \in Seq(Str) /\ next' \in 1 .. Len(rows') + 1 /\ outcome' # "built"
         /\ DOMAIN trie' \subseteq Str
    BY <1>1, <1>5, <2>2, <2>3 DEF TrieInv
  <2> QED
    BY <1>3, <2>7, <2>8, <2>9, <2>10, <2>11 DEF TrieInv
<1> QED
  BY <1>4, <1>5 DEF Trie!InsertRow

-----------------------------------------------------------------------------
(***************************************************************************)
(* The search in a finished trie.                                          *)
(***************************************************************************)

\* How far a number can be followed in the trie.
Walk(num) ==
  {k \in 0 .. Len(num) : \A j \in 1 .. k : num[j] \in trie[Up(num, j - 1)].kids}
\* The numbers of characters after which a row ends.
Ends(num) == {k \in 0 .. Len(num) : \E i \in Done : Path(i) = Up(num, k)}

LEMMA UpOfUp ==
  ASSUME NEW s \in Str, NEW t \in Str, NEW k \in 0 .. Len(s), k <= Len(t), Up(s, k) = Up(t, k)
  PROVE  /\ \A j \in 0 .. k : Up(s, j) = Up(t, j)
         /\ \A j \in 1 .. k : s[j] = t[j]
<1>1. \A j \in 1 .. k : s[j] = t[j]
  <2>1. k \in 0 .. Len(t)
    BY DEF Str
  <2>2. \A j \in 1 .. k : Up(s, k)[j] = s[j]
    BY UpProperties DEF Str
  <2>3. \A j \in 1 .. k : Up(t, k)[j] = t[j]
    BY <2>1, UpProperties DEF Str
  <2> QED
    BY <2>2, <2>3
<1>2. ASSUME NEW j \in 0 .. k PROVE Up(s, j) = Up(t, j)
  <2>1. j \in 0 .. Len(s) /\ j <= Len(t) /\ \A i \in 1 .. j : s[i] = t[i]
    BY <1>1 DEF Str
  <2> QED
    BY <2>1, SameUp DEF Str
<1> QED
  BY <1>1, <1>2

\* A walk leads along the nodes of the trie, and past the end of every row that
\* the num begins with.
LEMMA WalkLeadsAlong ==
  ASSUME TrieInv, Done # {}, NEW num \in Str
  PROVE  /\ \A k \in Walk(num) : Up(num, k) \in DOMAIN trie
         /\ Ends(num) \subseteq Walk(num)
         /\ 0 \in Walk(num)
         /\ \A k \in Walk(num) : 0 .. k \subseteq Walk(num)
<1>1. /\ \A i \in Done : Path(i) \in Str /\ Len(Path(i)) \in Nat
      /\ Len(num) \in Nat
  <2>1. rows \in Seq(Str) /\ Len(rows) \in Nat /\ \A i \in Done : i \in 1 .. Len(rows)
    BY DEF TrieInv, Done
  <2>2. \A i \in Done : Path(i) \in Str
    BY <2>1, PathTyped
  <2> QED
    BY <2>2 DEF Str
<1>2. 0 \in Walk(num) /\ \A k \in Walk(num) : 0 .. k \subseteq Walk(num)
  BY <1>1 DEF Walk
<1>3. ASSUME NEW k \in 0 .. Len(num), NEW i \in Done, k <= Len(Path(i)),
             Up(num, k) = Up(Path(i), k)
      PROVE  Up(num, k) \in DOMAIN trie
  <2>1. k \in 0 .. Len(Path(i)) /\ Up(num, k) \in Str
    BY <1>1, <1>3, UpProperties DEF Str
  <2>2. Up(num, k) \in Trie!Prefixes(Path(i))
    BY <1>3, <2>1 DEF Trie!Prefixes, Up
  <2> QED
    BY <2>1, <2>2 DEF TrieInv
<1>4. 0 .. Len(num) \subseteq {k \in 0 .. Len(num) :
                                    k \in Walk(num) => Up(num, k) \in DOMAIN trie}
  <2> DEFINE T == {k \in 0 .. Len(num) : k \in Walk(num) => Up(num, k) \in DOMAIN trie}
  <2>1. 0 \in T
    <3>1. PICK i : i \in Done
      OBVIOUS
    <3>2. 0 \in 0 .. Len(num) /\ 0 \in 0 .. Len(Path(i)) /\ 0 <= Len(Path(i))
      BY <1>1, <3>1
    <3>3. Up(num, 0) = Up(Path(i), 0)
      BY <1>1, <3>1, <3>2, SameUp DEF Str
    <3> QED
      BY <1>3, <3>1, <3>2, <3>3
  <2>2. ASSUME NEW k \in 0 .. Len(num) - 1, k \in T PROVE k + 1 \in T
    <3> SUFFICES ASSUME k + 1 \in Walk(num) PROVE Up(num, k + 1) \in DOMAIN trie
      BY <1>1
    <3>1. /\ k \in 0 .. Len(num) /\ k + 1 \in 0 .. Len(num) /\ k \in 0 .. k + 1
          /\ k + 1 \in 1 .. k + 1 /\ (k + 1) - 1 = k
      BY <1>1
    <3>2. Up(num, k) \in DOMAIN trie /\ num[k + 1] \in trie[Up(num, k)].kids
      <4>1. k \in Walk(num)
        BY <1>2, <3>1
      <4>2. \A j \in 1 .. k + 1 : num[j] \in trie[Up(num, j - 1)].kids
        BY DEF Walk
      <4> QED
        BY <2>2, <3>1, <4>1, <4>2
    <3>3. Up(num, k) \in Str /\ Len(Up(num, k)) = k
      BY <3>1, UpProperties DEF Str
    <3>4. PICK i \in Done : num[k + 1] \in Trie!Kids(Up(num, k), Path(i))
      BY <3>2 DEF TrieInv
    <3>5. k < Len(Path(i)) /\ Up(num, k) = Up(Path(i), k) /\ num[k + 1] = Path(i)[k + 1]
      BY <1>1, <3>3, <3>4, KidsOf
    <3>6. \A j \in 1 .. k + 1 : num[j] = Path(i)[j]
      <4>1. \A j \in 1 .. k : num[j] = Path(i)[j]
        BY <1>1, <3>1, <3>5, UpOfUp
      <4> QED
        BY <3>1, <3>5, <4>1
    <3>7. k + 1 <= Len(Path(i))
      BY <1>1, <3>5
    <3>8. Up(num, k + 1) = Up(Path(i), k + 1)
      BY <1>1, <3>1, <3>6, <3>7, SameUp DEF Str
    <3> QED
      BY <1>3, <3>1, <3>7, <3>8
  <2> HIDE DEF T
  <2>3. 0 .. Len(num) \subseteq T
    BY <1>1, <2>1, <2>2, UpTo
  <2> QED
    BY <2>3 DEF T
<1>5. ASSUME NEW k \in Ends(num) PROVE k \in Walk(num)
  <2>1. k \in 0 .. Len(num) /\ k \in Nat
    BY DEF Ends
  <2>2. PICK i \in Done : Path(i) = Up(num, k)
    BY DEF Ends
  <2>3. Len(Path(i)) = k /\ Up(Path(i), k) = Up(num, k)
    BY <1>1, <2>1, <2>2, UpProperties, UpFull DEF Str
  <2>4. ASSUME NEW j \in 1 .. k PROVE num[j] \in trie[Up(num, j - 1)].kids
    <3>1. j - 1 \in 0 .. k /\ j - 1 \in 0 .. Len(num) /\ j - 1 < k /\ (j - 1) + 1 = j
      BY <2>1
    <3>2. Up(num, j - 1) = Up(Path(i), j - 1) /\ num[j] = Path(i)[j]
      BY <1>1, <2>1, <2>3, <3>1, UpOfUp
    <3>3. Up(num, j - 1) \in Str /\ Len(Up(num, j - 1)) = j - 1
      BY <3>1, UpProperties DEF Str
    <3>4. num[j] \in Trie!Kids(Up(num, j - 1), Path(i))
      BY <1>1, <2>3, <3>1, <3>2, <3>3, KidsOf
    <3>5. Up(num, j - 1) \in DOMAIN trie
      BY <1>3, <2>3, <3>1, <3>2
    <3> QED
      BY <3>4, <3>5 DEF TrieInv
  <2> QED
    BY <2>1, <2>4 DEF Walk
<1>6. \A k \in Walk(num) : k \in 0 .. Len(num)
  BY DEF Walk
<1> QED
  BY <1>2, <1>4, <1>5, <1>6

\* The search finds the last end of a row on the walk.
LEMMA SearchFinds ==
  ASSUME TrieInv, Done # {}, NEW num \in Str
  PROVE  /\ Ends(num) = {} => \A exact : Trie!SearchZonemap(num, exact) = 0
         /\ Ends(num) # {} =>
              \E end \in Ends(num), i \in Done :
                /\ \A k \in Ends(num) : k <= end
                /\ Path(i) = Up(num, end)
                /\ Trie!SearchZonemap(num, FALSE) = i
                /\ Trie!SearchZonemap(num, TRUE) = IF end = Len(num) THEN i ELSE 0
<1> DEFINE depth == Trie!Depth(num)
           way == {k \in 0 .. depth : trie[Up(num, k)].row # 0}
           end == Trie!Max(way)
<1>1. /\ Len(num) \in Nat /\ Walk(num) \subseteq 0 .. Len(num) /\ Walk(num) # {}
      /\ Ends(num) \subseteq Walk(num) /\ \A i \in Done : i # 0
  BY WalkLeadsAlong DEF Walk, Str, Done
<1>2. depth \in Walk(num) /\ \A k \in Walk(num) : k <= depth
  <2>1. \E x \in Walk(num) : \A y \in Walk(num) : x >= y
    BY <1>1, Greatest
  <2>2. depth = Trie!Max(Walk(num))
    BY DEF Trie!Depth, Walk, Up
  <2> QED
    BY <2>1, <2>2 DEF Trie!Max
<1> HIDE DEF depth
<1>3. Walk(num) = 0 .. depth
  <2>1. 0 .. depth \subseteq Walk(num)
    BY <1>2, WalkLeadsAlong
  <2>2. ASSUME NEW k \in Walk(num) PROVE k \in 0 .. depth
    <3>1. k \in 0 .. Len(num) /\ depth \in 0 .. Len(num) /\ k <= depth
      BY <1>1, <1>2
    <3> QED
      BY <1>1, <3>1
  <2> QED
    BY <2>1, <2>2
<1>4. way = Ends(num)
  <2>1. ASSUME NEW k \in way PROVE k \in Ends(num)
    <3>1. k \in Walk(num) /\ trie[Up(num, k)].row # 0
      BY <1>3
    <3>2. Up(num, k) \in DOMAIN trie
      BY <3>1, WalkLeadsAlong
    <3>3. PICK i \in Done : trie[Up(num, k)].row = i
      BY <3>1, <3>2 DEF TrieInv
    <3>4. Path(i) = Up(num, k)
      BY <3>2, <3>3 DEF TrieInv
    <3> QED
      BY <1>1, <3>1, <3>4 DEF Ends
  <2>2. ASSUME NEW k \in Ends(num) PROVE k \in way
    <3>1. PICK i \in Done : Path(i) = Up(num, k)
      BY DEF Ends
    <3>2. trie[Up(num, k)].row = i
      BY <3>1 DEF TrieInv
    <3> QED
      BY <1>1, <1>3, <3>2
  <2> QED
    BY <2>1, <2>2
<1>5. \A exact : Trie!SearchZonemap(num, exact) =
        IF way = {} \/ (exact /\ end # Len(num)) THEN 0 ELSE trie[Up(num, end)].row
  BY DEF Trie!SearchZonemap, Up, depth
<1>6. ASSUME Ends(num) # {}
      PROVE  \E i \in Done : /\ end \in Ends(num) /\ \A k \in Ends(num) : k <= end
                             /\ Path(i) = Up(num, end) /\ trie[Up(num, end)].row = i
  <2>1. \E x \in Ends(num) : \A y \in Ends(num) : x >= y
    BY <1>1, <1>6, Greatest
  <2>2. end \in Ends(num) /\ \A k \in Ends(num) : end >= k
    <3> HIDE DEF way
    <3> QED
      BY <1>4, <2>1 DEF Trie!Max
  <2> HIDE DEF end
  <2>3. PICK i \in Done : Path(i) = Up(num, end)
    BY <2>2 DEF Ends
  <2>4. trie[Up(num, end)].row = i
    BY <2>3 DEF TrieInv
  <2> QED
    BY <1>1, <2>2, <2>3, <2>4
<1> HIDE DEF way, end
<1>7. ASSUME Ends(num) = {}, NEW exact PROVE Trie!SearchZonemap(num, exact) = 0
  BY <1>4, <1>5, <1>7
<1>8. ASSUME Ends(num) # {}
      PROVE  /\ Trie!SearchZonemap(num, FALSE) = trie[Up(num, end)].row
             /\ Trie!SearchZonemap(num, TRUE) =
                  IF end = Len(num) THEN trie[Up(num, end)].row ELSE 0
  <2>1. way # {}
    BY <1>4, <1>8
  <2>2. Trie!SearchZonemap(num, FALSE) =
          IF way = {} \/ (FALSE /\ end # Len(num)) THEN 0 ELSE trie[Up(num, end)].row
    BY <1>5, Zenon
  <2>3. Trie!SearchZonemap(num, TRUE) =
          IF way = {} \/ (TRUE /\ end # Len(num)) THEN 0 ELSE trie[Up(num, end)].row
    BY <1>5, Zenon
  <2> QED
    BY <2>1, <2>2, <2>3
<1>9. Ends(num) # {} =>
        \E i \in Done :
          /\ end \in Ends(num) /\ \A k \in Ends(num) : k <= end
          /\ Path(i) = Up(num, end)
          /\ Trie!SearchZonemap(num, FALSE) = i
          /\ Trie!SearchZonemap(num, TRUE) = IF end = Len(num) THEN i ELSE 0
  BY <1>6, <1>8
<1> QED
  BY <1>7, <1>9

\* The rows that are a prefix of a number end on its walk.
LEMMA MatchesEnd ==
  ASSUME TrieInv, outcome = "built", NEW num \in Str
  PROVE  /\ Done = 1 .. Len(rows)
         /\ Trie!Matches(num) = {i \in Done : \E k \in 0 .. Len(num) : Path(i) = Up(num, k)}
         /\ \A i \in Trie!Matches(num) : /\ Len(Path(i)) \in Ends(num)
                                        /\ Path(i) = Up(num, Len(Path(i)))
<1>1. rows \in Seq(Str) /\ Len(rows) \in Nat /\ Done = 1 .. Len(rows) /\ Len(num) \in Nat
  BY DEF TrieInv, Done, Str
<1>2. \A i \in Done : Path(i) \in Str
  BY <1>1, PathTyped
<1>3. Trie!Matches(num) = {i \in Done : Trie!IsPrefix(Path(i), num)}
  BY <1>1 DEF Trie!Matches, Path
<1>4. ASSUME NEW i \in Done
      PROVE  /\ Trie!IsPrefix(Path(i), num) <=> \E k \in 0 .. Len(num) : Path(i) = Up(num, k)
             /\ Trie!IsPrefix(Path(i), num) =>
                  /\ Len(Path(i)) \in 0 .. Len(num) /\ Path(i) = Up(num, Len(Path(i)))
  <2>1. Path(i) \in Seq(RowChar) /\ num \in Seq(RowChar) /\ Len(Path(i)) \in Nat
    BY <1>2 DEF Str
  <2>2. Trie!IsPrefix(Path(i), num) <=>
          Len(Path(i)) <= Len(num) /\ Path(i) = Up(num, Len(Path(i)))
    BY <2>1, PrefixIsUp
  <2>3. ASSUME NEW k \in 0 .. Len(num), Path(i) = Up(num, k) PROVE Len(Path(i)) = k
    BY <2>1, <2>3, UpProperties
  <2>4. Trie!IsPrefix(Path(i), num) =>
          Len(Path(i)) \in 0 .. Len(num) /\ Path(i) = Up(num, Len(Path(i)))
    BY <1>1, <2>1, <2>2
  <2> QED
    BY <1>1, <2>1, <2>2, <2>3, <2>4
<1>5. ASSUME NEW i \in Trie!Matches(num)
      PROVE  Len(Path(i)) \in Ends(num) /\ Path(i) = Up(num, Len(Path(i)))
  BY <1>3, <1>4, <1>5 DEF Ends
<1> QED
  BY <1>1, <1>3, <1>4, <1>5

\* A number is found in the zone of the longest row it begins with.
LEMMA LongestFound ==
  ASSUME TrieInv, outcome = "built", Done # {}, NEW num \in Str
  PROVE  /\ Trie!Best(num) = {Trie!SearchZonemap(num, FALSE)} \ {0}
         /\ {i \in Trie!Best(num) : Trie!Canon(rows[i]) = num}
              = {Trie!SearchZonemap(num, TRUE)} \ {0}
<1>1. /\ Done = 1 .. Len(rows)
      /\ Trie!Matches(num) = {i \in Done : \E k \in 0 .. Len(num) : Path(i) = Up(num, k)}
      /\ \A i \in Trie!Matches(num) : /\ Len(Path(i)) \in Ends(num)
                                     /\ Path(i) = Up(num, Len(Path(i)))
  BY MatchesEnd
<1>2. Trie!Best(num) =
        {i \in Trie!Matches(num) :
           \A j \in Trie!Matches(num) : Len(Path(j)) <= Len(Path(i))}
  BY DEF Trie!Best, Path
<1>3. CASE Ends(num) = {}
  <2>1. Trie!Best(num) = {}
    BY <1>1, <1>2, <1>3
  <2>2. Trie!SearchZonemap(num, FALSE) = 0 /\ Trie!SearchZonemap(num, TRUE) = 0
    BY <1>3, SearchFinds, Zenon
  <2> QED
    BY <2>1, <2>2
<1>4. CASE Ends(num) # {}
  <2>1. PICK end \in Ends(num), i \in Done :
          /\ \A k \in Ends(num) : k <= end
          /\ Path(i) = Up(num, end)
          /\ Trie!SearchZonemap(num, FALSE) = i
          /\ Trie!SearchZonemap(num, TRUE) = IF end = Len(num) THEN i ELSE 0
    BY <1>4, SearchFinds, Zenon
  <2>2. end \in 0 .. Len(num) /\ Len(num) \in Nat /\ i # 0
    BY DEF Ends, Done, Str
  <2>3. Len(Path(i)) = end /\ i \in Trie!Matches(num)
    BY <1>1, <2>1, <2>2, UpProperties DEF Str
  <2>4. \A j \in Trie!Matches(num) : Len(Path(j)) <= Len(Path(i))
    BY <1>1, <2>1, <2>3
  <2>5. ASSUME NEW j \in Trie!Best(num) PROVE j = i
    <3>1. j \in Trie!Matches(num) /\ Len(Path(i)) <= Len(Path(j))
      BY <1>2, <2>3, <2>5
    <3>2. Len(Path(j)) = end
      <4>1. Len(Path(j)) \in Ends(num) /\ Len(Path(j)) <= end
        BY <1>1, <2>1, <3>1
      <4>2. Len(Path(j)) \in Nat
        BY <4>1 DEF Ends
      <4> QED
        BY <2>2, <2>3, <3>1, <4>1, <4>2
    <3>3. Path(j) = Path(i) /\ j \in Done
      BY <1>1, <2>1, <3>1, <3>2
    <3>4. trie[Path(j)].row = j /\ trie[Path(i)].row = i
      BY <3>3 DEF TrieInv
    <3> QED
      BY <3>3, <3>4
  <2>6. Trie!Best(num) = {i}
    BY <1>2, <2>3, <2>4, <2>5
  <2>7. Path(i) = num <=> end = Len(num)
    <3>1. Up(num, Len(num)) = num
      BY UpFull DEF Str
    <3> QED
      BY <2>1, <2>3, <3>1
  <2>8. {j \in Trie!Best(num) : Trie!Canon(rows[j]) = num} = IF Path(i) = num THEN {i} ELSE {}
    BY <2>6 DEF Path
  <2>9. /\ Trie!Best(num) = {Trie!SearchZonemap(num, FALSE)} \ {0}
        /\ Trie!SearchZonemap(num, TRUE) = IF Path(i) = num THEN i ELSE 0
    BY <2>1, <2>2, <2>6, <2>7
  <2> QED
    BY <2>2, <2>8, <2>9
<1> QED
  BY <1>3, <1>4

LEMMA StringsAreStr == \A n \in Nat : Trie!Strings(n) \subseteq Str
BY DEF Trie!Strings, Str

LEMMA TrieStart == Init => TrieInv
<1>1. Trie!Init => TrieInv
  <2> SUFFICES ASSUME Trie!Init PROVE TrieInv
    OBVIOUS
  <2>1. PICK n \in 0 .. MaxRows : rows \in [1 .. n -> Trie!Strings(MaxRow)]
    BY DEF Trie!Init
  <2>2. rows \in [1 .. n -> Str] /\ n \in Nat
    BY <2>1, StringsAreStr, NamesAssumption
  <2>3. rows \in Seq(Str)
    BY <2>2
  <2> QED
    BY <2>3, TrieStarts DEF Trie!Init
<1>2. NoRows => TrieInv
  <2>1. NoRows => rows \in Seq(Str)
    BY DEF NoRows
  <2> QED
    BY <2>1, TrieStarts DEF NoRows
<1> QED
  BY <1>1, <1>2 DEF Init

LEMMA TrieStep ==
  ASSUME TrieInv, [Next]_vars
  PROVE  TrieInv'
<1>1. CASE Trie!InsertRow
  BY <1>1, TrieInsert
<1>2. CASE Trie!Finish
  <2>1. next = Len(rows) + 1 /\ UNCHANGED <<rows, next, trie>>
    BY <1>2 DEF Trie!Finish, TrieInv
  <2>2. Done' = Done /\ \A i : Path(i)' = Path(i)
    BY <2>1 DEF Done, Path, Trie!Canon, Trie!Kept
  <2> QED
    BY <2>1, <2>2 DEF TrieInv
<1>3. CASE UNCHANGED trieVars
  <2>1. Done' = Done /\ \A i : Path(i)' = Path(i)
    BY <1>3 DEF trieVars, Done, Path, Trie!Canon, Trie!Kept
  <2> QED
    BY <1>3, <2>1 DEF trieVars, TrieInv
<1> QED
  BY <1>1, <1>2, <1>3 DEF Next, Trie!Next, vars

\* In a trie that fits its slots, a number is found in the zone of the longest
\* row it begins with, whatever the rows are and in whatever order they have been
\* put into it.  That it fits where no character is dropped is BlobIsFilled.
THEOREM LongestPrefixIsFound == Spec => []LongestPrefixFound
<1>1. TrieInv => LongestPrefixFound
  <2> SUFFICES ASSUME TrieInv, outcome = "built", rows # << >>,
                      NEW num \in Trie!Strings(MaxRow + 1)
               PROVE  /\ Trie!Best(num) = {Trie!SearchZonemap(num, FALSE)} \ {0}
                      /\ {i \in Trie!Best(num) : Trie!Canon(rows[i]) = num}
                           = {Trie!SearchZonemap(num, TRUE)} \ {0}
    BY DEF LongestPrefixFound, Trie!LongestPrefixFound
  <2>1. num \in Str
    BY StringsAreStr, NamesAssumption
  <2>2. Done # {}
    <3>1. next = Len(rows) + 1 /\ rows \in Seq(Str)
      BY DEF TrieInv
    <3>2. Len(rows) \in Nat \ {0}
      BY <3>1, EmptySeq, LenProperties
    <3>3. 1 \in Done
      BY <3>1, <3>2 DEF Done
    <3> QED
      BY <3>3
  <2> QED
    BY <2>1, <2>2, LongestFound
<1>2. TrieInv /\ [Next]_vars => TrieInv'
  BY TrieStep
<1> QED
  BY TrieStart, <1>1, <1>2, PTL DEF Spec

-----------------------------------------------------------------------------
(***************************************************************************)
(* The order of the rows of a zone map.                                    *)
(***************************************************************************)

\* The first characters of two strings are the same.
Agree(s, t, len) == \A j \in 1 .. len : Trie!CharAt(s, j) = Trie!CharAt(t, j)

LEMMA CharAtIs ==
  ASSUME NEW s \in Str, NEW i \in Nat \ {0}
  PROVE  /\ Trie!CharAt(s, i) \in Nat
         /\ i <= Len(s) => Trie!CharAt(s, i) = s[i] /\ s[i] \in RowChar /\ s[i] # 0
         /\ ~(i <= Len(s)) => Trie!CharAt(s, i) = 0
<1>1. RowChar \subseteq Nat \ {0}
  BY NamesAssumption
<1>2. i <= Len(s) => s[i] \in RowChar
  BY DEF Str
<1> QED
  BY <1>1, <1>2 DEF Trie!CharAt

LEMMA BeforeIs ==
  ASSUME NEW s \in Str, NEW t \in Str
  PROVE  Trie!Before(s, t) <=> \E i \in Nat \ {0} : /\ Trie!CharAt(s, i) < Trie!CharAt(t, i)
                                                    /\ Agree(s, t, i - 1)
<1>0. Len(t) \in Nat
  BY DEF Str
<1>1. \A i \in 1 .. Len(t) : \A j \in 1 .. i - 1 : Trie!CharAt(t, j) = t[j]
  <2> SUFFICES ASSUME NEW i \in 1 .. Len(t), NEW j \in 1 .. i - 1 PROVE Trie!CharAt(t, j) = t[j]
    OBVIOUS
  <2>1. j \in Nat \ {0} /\ j <= Len(t)
    BY <1>0
  <2> QED
    BY <2>1, CharAtIs
<1>2. \A i \in 1 .. Len(t) : Trie!CharAt(t, i) = t[i] /\ i \in Nat \ {0}
  <2> SUFFICES ASSUME NEW i \in 1 .. Len(t) PROVE Trie!CharAt(t, i) = t[i] /\ i \in Nat \ {0}
    OBVIOUS
  <2>1. i \in Nat \ {0} /\ i <= Len(t)
    BY <1>0
  <2> QED
    BY <2>1, CharAtIs
<1>3. ASSUME Trie!Before(s, t)
      PROVE  \E i \in Nat \ {0} : Trie!CharAt(s, i) < Trie!CharAt(t, i) /\ Agree(s, t, i - 1)
  <2>1. PICK i \in 1 .. Len(t) :
          Trie!CharAt(s, i) < t[i] /\ \A j \in 1 .. i - 1 : Trie!CharAt(s, j) = t[j]
    BY <1>3 DEF Trie!Before
  <2> QED
    BY <1>1, <1>2, <2>1 DEF Agree
<1>4. ASSUME NEW i \in Nat \ {0}, Trie!CharAt(s, i) < Trie!CharAt(t, i), Agree(s, t, i - 1)
      PROVE  Trie!Before(s, t)
  <2>1. Trie!CharAt(s, i) \in Nat /\ Trie!CharAt(t, i) \in Nat /\ Trie!CharAt(t, i) # 0
    <3>1. Trie!CharAt(s, i) \in Nat /\ Trie!CharAt(t, i) \in Nat
      BY CharAtIs
    <3> QED
      BY <1>4, <3>1
  <2>2. i \in 1 .. Len(t)
    BY <1>0, <2>1, CharAtIs
  <2> QED
    BY <1>1, <1>2, <1>4, <2>2 DEF Trie!Before, Agree
<1> QED
  BY <1>3, <1>4

\* Where two strings differ there is a first difference.
LEMMA FirstDifference ==
  ASSUME NEW s, NEW t, NEW m \in Nat, ~Agree(s, t, m)
  PROVE  \E d \in 1 .. m : Trie!CharAt(s, d) # Trie!CharAt(t, d) /\ Agree(s, t, d - 1)
<1> DEFINE D == {j \in 1 .. m : Trie!CharAt(s, j) # Trie!CharAt(t, j)}
<1>1. D \subseteq Nat /\ D # {}
  BY DEF Agree
<1>2. PICK d \in D : \A y \in D : d <= y
  <2> HIDE DEF D
  <2> QED
    BY <1>1, Least
<1>3. d \in 1 .. m /\ \A j \in 1 .. d - 1 : j \in 1 .. m /\ j \notin D
  BY <1>2
<1> QED
  BY <1>2, <1>3 DEF Agree

LEMMA OrderIsTransitive ==
  ASSUME NEW s \in Str, NEW t \in Str, NEW u \in Str,
         ~Trie!Before(t, s), ~Trie!Before(u, t)
  PROVE  ~Trie!Before(u, s)
<1> SUFFICES ASSUME Trie!Before(u, s) PROVE FALSE
  OBVIOUS
<1>1. PICK i \in Nat \ {0} : Trie!CharAt(u, i) < Trie!CharAt(s, i) /\ Agree(u, s, i - 1)
  BY BeforeIs
<1>2. \A k \in Nat \ {0} : /\ Trie!CharAt(s, k) \in Nat
                           /\ Trie!CharAt(t, k) \in Nat /\ Trie!CharAt(u, k) \in Nat
  BY CharAtIs
<1>3. ~(Trie!CharAt(s, i) <= Trie!CharAt(u, i))
  BY <1>1, <1>2
<1>4. \A k \in Nat \ {0} : Agree(t, s, k - 1) => ~(Trie!CharAt(t, k) < Trie!CharAt(s, k))
  BY BeforeIs
<1>5. \A k \in Nat \ {0} : Agree(u, t, k - 1) => ~(Trie!CharAt(u, k) < Trie!CharAt(t, k))
  BY BeforeIs
<1>6. CASE Agree(s, t, i - 1)
  <2>1. Agree(t, s, i - 1) /\ Agree(u, t, i - 1)
    BY <1>1, <1>6 DEF Agree
  <2>2. Trie!CharAt(s, i) <= Trie!CharAt(t, i) /\ Trie!CharAt(t, i) <= Trie!CharAt(u, i)
    BY <1>2, <1>4, <1>5, <2>1
  <2> QED
    BY <1>2, <1>3, <2>2
<1>7. CASE ~Agree(s, t, i - 1)
  <2>1. PICK d \in 1 .. i - 1 : Trie!CharAt(s, d) # Trie!CharAt(t, d) /\ Agree(s, t, d - 1)
    BY <1>7, FirstDifference
  <2>2. d \in Nat \ {0} /\ \A j \in 1 .. d - 1 : j \in 1 .. i - 1
    BY <2>1
  <2>3. Agree(t, s, d - 1) /\ Agree(u, t, d - 1) /\ Trie!CharAt(u, d) = Trie!CharAt(s, d)
    BY <1>1, <2>1, <2>2 DEF Agree
  <2>4. Trie!CharAt(s, d) <= Trie!CharAt(t, d) /\ Trie!CharAt(t, d) <= Trie!CharAt(s, d)
    BY <1>2, <1>4, <1>5, <2>2, <2>3
  <2> QED
    BY <1>2, <2>1, <2>2, <2>4
<1> QED
  BY <1>6, <1>7

Rising == rows \in Seq(Str) /\ Trie!Sorted(rows)

LEMMA RowsRise ==
  ASSUME Rising, NEW i \in 1 .. Len(rows), NEW j \in i .. Len(rows)
  PROVE  ~Trie!Before(rows[j], rows[i])
<1>1. Len(rows) \in Nat /\ \A k \in 1 .. Len(rows) : rows[k] \in Str
  BY DEF Rising
<1> DEFINE T == {k \in Nat : i + k <= Len(rows) => ~Trie!Before(rows[i + k], rows[i])}
<1>2. 0 \in T
  <2>1. i + 0 = i /\ rows[i] \in Str
    BY <1>1
  <2>2. ~Trie!Before(rows[i], rows[i])
    <3>1. \A k \in Nat \ {0} : Trie!CharAt(rows[i], k) \in Nat
      BY <2>1, CharAtIs
    <3>2. \A k \in Nat \ {0} : ~(Trie!CharAt(rows[i], k) < Trie!CharAt(rows[i], k))
      BY <3>1
    <3> QED
      BY <2>1, <3>2, BeforeIs
  <2> QED
    BY <2>1, <2>2
<1>3. ASSUME NEW k \in 0 .. (j - i) - 1, k \in T PROVE k + 1 \in T
  <2>1. /\ k \in Nat /\ k + 1 \in Nat /\ i + k \in 1 .. Len(rows) - 1
        /\ (i + k) + 1 = i + (k + 1) /\ i + k \in 1 .. Len(rows) /\ i + (k + 1) \in 1 .. Len(rows)
    BY <1>1
  <2>2. ~Trie!Before(rows[i + k], rows[i])
    BY <1>3, <2>1
  <2>3. ~Trie!Before(rows[(i + k) + 1], rows[i + k])
    BY <2>1 DEF Rising, Trie!Sorted
  <2>4. ~Trie!Before(rows[i + (k + 1)], rows[i])
    BY <1>1, <2>1, <2>2, <2>3, OrderIsTransitive
  <2> QED
    BY <2>1, <2>4
<1> HIDE DEF T
<1>4. j - i \in Nat /\ i + (j - i) = j /\ j <= Len(rows)
  BY <1>1
<1>5. 0 .. j - i \subseteq T
  BY <1>2, <1>3, <1>4, UpTo
<1>6. j - i \in T
  BY <1>4, <1>5
<1> QED
  BY <1>4, <1>6 DEF T

\* Rows between two that begin alike begin like them, and the next character
\* does not fall.
LEMMA RowsBetween ==
  ASSUME Rising, NEW i \in 1 .. Len(rows), NEW j \in i .. Len(rows), NEW k \in i .. j,
         NEW len \in Nat, Agree(rows[i], rows[j], len)
  PROVE  /\ Agree(rows[i], rows[k], len)
         /\ Trie!CharAt(rows[i], len + 1) <= Trie!CharAt(rows[j], len + 1)
<1>1. /\ Len(rows) \in Nat /\ k \in 1 .. Len(rows) /\ j \in 1 .. Len(rows)
      /\ k \in i .. Len(rows) /\ j \in k .. Len(rows)
  BY DEF Rising
<1>2. rows[i] \in Str /\ rows[k] \in Str /\ rows[j] \in Str
  BY <1>1 DEF Rising
<1>3. ~Trie!Before(rows[k], rows[i]) /\ ~Trie!Before(rows[j], rows[k]) /\ ~Trie!Before(rows[j], rows[i])
  BY <1>1, RowsRise
<1>4. \A m \in Nat \ {0} : /\ Trie!CharAt(rows[i], m) \in Nat
                           /\ Trie!CharAt(rows[k], m) \in Nat /\ Trie!CharAt(rows[j], m) \in Nat
  BY <1>2, CharAtIs
<1>5. \A m \in Nat \ {0} :
         /\ Agree(rows[k], rows[i], m - 1) => ~(Trie!CharAt(rows[k], m) < Trie!CharAt(rows[i], m))
         /\ Agree(rows[j], rows[k], m - 1) => ~(Trie!CharAt(rows[j], m) < Trie!CharAt(rows[k], m))
         /\ Agree(rows[j], rows[i], m - 1) => ~(Trie!CharAt(rows[j], m) < Trie!CharAt(rows[i], m))
  BY <1>2, <1>3, BeforeIs
<1>6. ASSUME ~Agree(rows[i], rows[k], len) PROVE FALSE
  <2>1. PICK d \in 1 .. len : /\ Trie!CharAt(rows[i], d) # Trie!CharAt(rows[k], d)
                              /\ Agree(rows[i], rows[k], d - 1)
    BY <1>6, FirstDifference
  <2>2. d \in Nat \ {0} /\ \A m \in 1 .. d - 1 : m \in 1 .. len
    BY <2>1
  <2>3. /\ Agree(rows[k], rows[i], d - 1) /\ Agree(rows[j], rows[k], d - 1)
        /\ Trie!CharAt(rows[j], d) = Trie!CharAt(rows[i], d)
    BY <2>1, <2>2 DEF Agree
  <2>4. ~(Trie!CharAt(rows[k], d) < Trie!CharAt(rows[i], d)) /\ ~(Trie!CharAt(rows[i], d) < Trie!CharAt(rows[k], d))
    BY <1>5, <2>2, <2>3
  <2> QED
    BY <1>4, <2>1, <2>2, <2>4
<1>7. Trie!CharAt(rows[i], len + 1) <= Trie!CharAt(rows[j], len + 1)
  <2>1. len + 1 \in Nat \ {0} /\ (len + 1) - 1 = len
    OBVIOUS
  <2>2. Agree(rows[j], rows[i], (len + 1) - 1)
    BY <2>1 DEF Agree
  <2> QED
    BY <1>4, <1>5, <2>1, <2>2
<1> QED
  BY <1>6, <1>7

LEMMA PrefixAgrees ==
  ASSUME NEW p \in Str, NEW s \in Str, NEW t \in Str, p \in Trie!Prefixes(s)
  PROVE  p \in Trie!Prefixes(t) <=> Agree(s, t, Len(p))
<1>1. Len(p) \in Nat /\ Len(s) \in Nat /\ Len(t) \in Nat
  BY DEF Str
<1>2. Len(p) <= Len(s) /\ p = Up(s, Len(p))
  BY PrefixIsUp DEF Str
<1>3. p \in Trie!Prefixes(t) <=> Len(p) <= Len(t) /\ p = Up(t, Len(p))
  BY PrefixIsUp DEF Str
<1>4. \A j \in 1 .. Len(p) : j \in Nat \ {0} /\ j <= Len(s) /\ j <= Len(p)
  BY <1>1, <1>2
<1>5. ASSUME p \in Trie!Prefixes(t) PROVE Agree(s, t, Len(p))
  <2>1. \A j \in 1 .. Len(p) : s[j] = t[j]
    BY <1>1, <1>2, <1>3, <1>5, UpOfUp
  <2>2. \A j \in 1 .. Len(p) : j <= Len(t)
    BY <1>1, <1>3, <1>5
  <2>3. \A j \in 1 .. Len(p) : Trie!CharAt(s, j) = s[j] /\ Trie!CharAt(t, j) = t[j]
    BY <1>4, <2>2, CharAtIs
  <2> QED
    BY <2>1, <2>3 DEF Agree
<1>6. ASSUME Agree(s, t, Len(p)) PROVE p \in Trie!Prefixes(t)
  <2>1. ASSUME NEW j \in 1 .. Len(p) PROVE j <= Len(t) /\ s[j] = t[j]
    <3>1. Trie!CharAt(s, j) = s[j] /\ s[j] # 0
      BY <1>4, CharAtIs
    <3>2. Trie!CharAt(s, j) = Trie!CharAt(t, j)
      BY <1>6 DEF Agree
    <3>3. j \in Nat \ {0}
      BY <1>4
    <3> QED
      BY <3>1, <3>2, <3>3, CharAtIs
  <2>2. Len(p) <= Len(t)
    <3>1. CASE Len(p) = 0
      BY <1>1, <3>1
    <3>2. CASE Len(p) # 0
      <4>1. Len(p) \in 1 .. Len(p)
        BY <1>1, <3>2
      <4> QED
        BY <2>1, <4>1
    <3> QED
      BY <3>1, <3>2
  <2>3. Up(s, Len(p)) = Up(t, Len(p))
    <3>1. Len(p) \in 0 .. Len(s)
      BY <1>1, <1>2
    <3> QED
      BY <2>1, <2>2, <3>1, SameUp DEF Str
  <2> QED
    BY <1>2, <1>3, <2>2, <2>3
<1> QED
  BY <1>5, <1>6

-----------------------------------------------------------------------------
(***************************************************************************)
(* The size of the blob.                                                   *)
(***************************************************************************)

\* ZoneTrie counts with its own instance of the module FiniteSets.
LEMMA TrieCounts == \A S : Trie!Cardinality(S) = Cardinality(S)
BY DEF Trie!Cardinality, Cardinality

\* The rows below a node, and the characters they go on with.
Below(p) == {i \in 1 .. Len(rows) : p \in Trie!Prefixes(rows[i])}
After(p) == {c \in RowChar : \E i \in 1 .. Len(rows) : c \in Trie!Kids(p, rows[i])}

LEMMA NextChar ==
  ASSUME NEW p \in Str, NEW s \in Str, p \in Trie!Prefixes(s)
  PROVE  /\ Trie!CharAt(s, Len(p) + 1) \in Nat
         /\ Trie!CharAt(s, Len(p) + 1) # 0 => Trie!CharAt(s, Len(p) + 1) \in RowChar
         /\ \A c : c \in Trie!Kids(p, s) <=> c # 0 /\ c = Trie!CharAt(s, Len(p) + 1)
<1>1. Len(p) \in Nat /\ Len(s) \in Nat /\ Len(p) + 1 \in Nat \ {0}
  BY DEF Str
<1>2. Len(p) <= Len(s) /\ p = Up(s, Len(p))
  BY PrefixIsUp DEF Str
<1>3. \A c : c \in Trie!Kids(p, s) <=> Len(p) < Len(s) /\ c = s[Len(p) + 1]
  BY <1>2, KidsOf
<1>4. Trie!CharAt(s, Len(p) + 1) \in Nat
  BY <1>1, CharAtIs
<1>5. CASE Len(p) < Len(s)
  <2>1. Len(p) + 1 <= Len(s)
    BY <1>1, <1>5
  <2>2. /\ Trie!CharAt(s, Len(p) + 1) = s[Len(p) + 1]
        /\ s[Len(p) + 1] \in RowChar /\ s[Len(p) + 1] # 0
    BY <1>1, <2>1, CharAtIs
  <2> QED
    BY <1>3, <1>4, <1>5, <2>2
<1>6. CASE ~(Len(p) < Len(s))
  <2>1. ~(Len(p) + 1 <= Len(s))
    BY <1>1, <1>6
  <2>2. Trie!CharAt(s, Len(p) + 1) = 0
    BY <1>1, <2>1, CharAtIs
  <2> QED
    BY <1>3, <1>4, <1>6, <2>2
<1> QED
  BY <1>5, <1>6

LEMMA SamePrefixIs ==
  ASSUME Rising, NEW r \in 1 .. Len(rows), NEW p \in Str, p \in Trie!Prefixes(rows[r]),
         \A i \in 1 .. r - 1 : p \notin Trie!Prefixes(rows[i])
  PROVE  Trie!SamePrefix(r, Len(p)) = Below(p)
<1>1. Len(rows) \in Nat /\ Len(p) \in Nat /\ \A i \in 1 .. Len(rows) : rows[i] \in Str
  BY DEF Rising, Str
<1>2. \A i \in 1 .. Len(rows) : p \in Trie!Prefixes(rows[i]) <=> Agree(rows[r], rows[i], Len(p))
  BY <1>1, PrefixAgrees
<1>3. Trie!SamePrefix(r, Len(p)) =
        {i \in r .. Len(rows) : \A k \in r .. i : Agree(rows[k], rows[r], Len(p))}
  BY DEF Trie!SamePrefix, Agree
<1>4. \A k : Agree(rows[k], rows[r], Len(p)) <=> Agree(rows[r], rows[k], Len(p))
  BY DEF Agree
<1>5. ASSUME NEW i \in Below(p)
      PROVE  i \in r .. Len(rows) /\ \A k \in r .. i : Agree(rows[k], rows[r], Len(p))
  <2>1. i \in 1 .. Len(rows) /\ Agree(rows[r], rows[i], Len(p)) /\ i \notin 1 .. r - 1
    BY <1>2 DEF Below
  <2>2. i \in r .. Len(rows)
    BY <1>1, <2>1
  <2>3. \A k \in r .. i : Agree(rows[r], rows[k], Len(p))
    BY <1>1, <2>1, <2>2, RowsBetween
  <2> QED
    BY <1>4, <2>2, <2>3
<1>6. ASSUME NEW i \in r .. Len(rows), \A k \in r .. i : Agree(rows[k], rows[r], Len(p))
      PROVE  i \in Below(p)
  <2>1. i \in 1 .. Len(rows) /\ i \in r .. i
    BY <1>1
  <2>2. Agree(rows[r], rows[i], Len(p))
    BY <1>4, <1>6, <2>1
  <2> QED
    BY <1>2, <2>1, <2>2 DEF Below
<1> QED
  BY <1>3, <1>5, <1>6

\* The next character changes once for each character that follows.
LEMMA SlotsCounted ==
  ASSUME Rising, NEW r \in 1 .. Len(rows), NEW p \in Str, p \in Trie!Prefixes(rows[r]),
         \A i \in 1 .. r - 1 : p \notin Trie!Prefixes(rows[i])
  PROVE  /\ IsFiniteSet(After(p))
         /\ Trie!NumChildNodes(r, Len(p)) = Cardinality(After(p))
<1> DEFINE n == Len(rows)
           here(i) == Trie!CharAt(rows[i], Len(p) + 1)
           Changes == {i \in Below(p) : here(i) # IF i = r THEN 0 ELSE here(i - 1)}
           h == [i \in Changes |-> here(i)]
<1>1. /\ n \in Nat /\ r \in Nat /\ Len(p) \in Nat /\ \A i \in 1 .. n : rows[i] \in Str
      /\ Below(p) \subseteq 1 .. n
  BY DEF Rising, Str, Below
<1>2. Trie!NumChildNodes(r, Len(p)) = Cardinality(Changes)
  <2>1. Trie!SamePrefix(r, Len(p)) = Below(p)
    BY SamePrefixIs
  <2> QED
    BY <2>1, TrieCounts DEF Trie!NumChildNodes
<1>3. \A i \in Below(p) : i >= r /\ i \in Nat
  BY <1>1 DEF Below
<1>4. \A i \in Below(p) :
         /\ here(i) \in Nat
         /\ here(i) # 0 => here(i) \in After(p)
  <2> SUFFICES ASSUME NEW i \in Below(p)
               PROVE  here(i) \in Nat /\ (here(i) # 0 => here(i) \in After(p))
    OBVIOUS
  <2>1. i \in 1 .. n /\ rows[i] \in Str /\ p \in Trie!Prefixes(rows[i])
    BY <1>1 DEF Below
  <2>2. /\ here(i) \in Nat
        /\ here(i) # 0 => here(i) \in RowChar
        /\ here(i) # 0 => here(i) \in Trie!Kids(p, rows[i])
    BY <2>1, NextChar
  <2> HIDE DEF here
  <2> QED
    BY <2>1, <2>2 DEF After
<1>5. \A c \in After(p) : c # 0 /\ \E i \in Below(p) : here(i) = c
  <2> SUFFICES ASSUME NEW c \in After(p) PROVE c # 0 /\ \E i \in Below(p) : here(i) = c
    OBVIOUS
  <2>1. PICK i \in 1 .. n : c \in Trie!Kids(p, rows[i])
    BY DEF After
  <2>2. p \in Trie!Prefixes(rows[i])
    BY <1>1, <2>1, KidsOf
  <2>3. c # 0 /\ c = here(i)
    BY <1>1, <2>1, <2>2, NextChar
  <2> QED
    BY <2>2, <2>3 DEF Below
<1>6. \A i, j \in Below(p) : i <= j => here(i) <= here(j)
  <2> SUFFICES ASSUME NEW i \in Below(p), NEW j \in Below(p), i <= j
               PROVE  here(i) <= here(j)
    OBVIOUS
  <2>1. i \in 1 .. n /\ j \in i .. n /\ i \in i .. j
    BY <1>1
  <2>2. Agree(rows[i], rows[j], Len(p))
    BY <1>1, <2>1, PrefixAgrees DEF Below
  <2> QED
    BY <1>1, <2>1, <2>2, RowsBetween
<1>7. \A i \in Below(p) : i # r => i - 1 \in Below(p)
  <2> SUFFICES ASSUME NEW i \in Below(p), i # r PROVE i - 1 \in Below(p)
    OBVIOUS
  <2>1. i \in r .. n /\ i - 1 \in r .. i /\ i - 1 \in 1 .. n /\ i \in 1 .. n
    BY <1>1, <1>3
  <2>2. Agree(rows[r], rows[i], Len(p))
    BY <1>1, <2>1, PrefixAgrees DEF Below
  <2>3. Agree(rows[r], rows[i - 1], Len(p))
    BY <1>1, <2>1, <2>2, RowsBetween
  <2>4. p \in Trie!Prefixes(rows[i - 1])
    BY <1>1, <2>1, <2>3, PrefixAgrees
  <2> QED
    BY <2>1, <2>4 DEF Below
<1> HIDE DEF here
<1>8. \A i \in Changes : i \in Below(p) /\ here(i) # 0
  <2> SUFFICES ASSUME NEW i \in Changes PROVE i \in Below(p) /\ here(i) # 0
    OBVIOUS
  <2>1. CASE i = r
    BY <2>1
  <2>2. CASE i # r
    <3>1. i - 1 \in Below(p) /\ i - 1 <= i /\ here(i) # here(i - 1)
      BY <1>3, <1>7, <2>2
    <3>2. here(i - 1) <= here(i) /\ here(i) \in Nat /\ here(i - 1) \in Nat
      BY <1>4, <1>6, <3>1
    <3> QED
      BY <3>1, <3>2
  <2> QED
    BY <2>1, <2>2
<1>9. ASSUME NEW i \in Changes, NEW j \in Changes, i < j PROVE here(i) # here(j)
  <2>1. /\ i \in Below(p) /\ j \in Below(p) /\ i \in Nat /\ j \in Nat /\ j # r
        /\ i <= j - 1 /\ j - 1 <= j
    BY <1>3, <1>9
  <2>2. j - 1 \in Below(p) /\ here(j) # here(j - 1)
    BY <1>7, <2>1
  <2>3. here(i) <= here(j - 1) /\ here(j - 1) <= here(j)
    BY <1>6, <2>1, <2>2
  <2>4. here(i) \in Nat /\ here(j - 1) \in Nat /\ here(j) \in Nat
    BY <1>4, <2>1, <2>2
  <2> QED
    BY <2>2, <2>3, <2>4
<1>10. \A i, j \in Changes : h[i] = h[j] => i = j
  <2> SUFFICES ASSUME NEW i \in Changes, NEW j \in Changes, i # j PROVE here(i) # here(j)
    OBVIOUS
  <2>1. i < j \/ j < i
    BY <1>3
  <2> QED
    BY <1>9, <2>1
<1>11. ASSUME NEW c \in After(p) PROVE \E i \in Changes : h[i] = c
  <2> DEFINE with == {i \in Below(p) : here(i) = c}
  <2>1. with \subseteq Nat /\ with # {}
    BY <1>3, <1>5
  <2>2. PICK i \in with : \A y \in with : i <= y
    <3> HIDE DEF with
    <3> QED
      BY <2>1, Least
  <2>3. c # 0
    BY <1>5
  <2>4. i # r => i - 1 \in Below(p) /\ i - 1 \notin with
    <3>1. ~(i <= i - 1)
      BY <1>3, <2>2
    <3> QED
      BY <1>7, <2>2, <3>1
  <2>5. i \in Changes
    BY <2>2, <2>3, <2>4
  <2> QED
    BY <2>2, <2>5
<1>12. h \in [Changes -> After(p)]
  BY <1>4, <1>8
<1>13. IsFiniteSet(Changes)
  <2>1. Changes \subseteq 1 .. n
    BY <1>1
  <2>2. IsFiniteSet(1 .. n)
    BY <1>1, FS_Interval
  <2> HIDE DEF Changes
  <2> QED
    BY <2>1, <2>2, FS_Subset
<1> HIDE DEF h, Changes
<1>14. h \in Bijection(Changes, After(p))
  BY <1>10, <1>11, <1>12 DEF Bijection, Injection, Surjection, IsInjective
<1>15. IsFiniteSet(After(p)) /\ Cardinality(After(p)) = Cardinality(Changes)
  BY <1>13, <1>14, FS_Bijection DEF ExistsBijection
<1> QED
  BY <1>2, <1>15

\* What fm_zonemap_pol_get_num_of_nodes finds shared with the row before, and
\* its count after i rows.
SharedLengths(i) == {k \in 0 .. Len(rows[i]) : Trie!IsPrefix(SubSeq(rows[i], 1, k), rows[i - 1])}
Shared(i) == IF i = 1 THEN 0 ELSE Trie!Max(SharedLengths(i))
TotalAt(f, i) == IF i = 0 THEN 1 ELSE f[i - 1] + (Len(rows[i]) - Shared(i))
IsTotal(f, m) == f = [i \in 0 .. m |-> TotalAt(f, i)]

LEMMA TotalExists ==
  ASSUME NEW m \in Nat
  PROVE  \E f : IsTotal(f, m)
<1> DEFINE T == {k \in Nat : \E f : IsTotal(f, k)}
<1>1. 0 \in T
  <2> DEFINE f == [i \in 0 .. 0 |-> 1]
  <2>1. \A i \in 0 .. 0 : TotalAt(f, i) = 1
    BY DEF TotalAt
  <2>2. IsTotal(f, 0)
    BY <2>1 DEF IsTotal
  <2> QED
    BY <2>2
<1>2. ASSUME NEW k \in 0 .. m - 1, k \in T PROVE k + 1 \in T
  <2>1. k \in Nat /\ k + 1 \in Nat
    BY <1>2
  <2>2. PICK g : IsTotal(g, k)
    BY <1>2
  <2> DEFINE f == [i \in 0 .. k + 1 |-> IF i = k + 1 THEN TotalAt(g, i) ELSE g[i]]
  <2>3. ASSUME NEW i \in 0 .. k + 1 PROVE f[i] = TotalAt(f, i)
    <3>1. i # 0 => i - 1 \in 0 .. k /\ f[i - 1] = g[i - 1]
      BY <2>1
    <3>2. TotalAt(f, i) = TotalAt(g, i)
      <4> HIDE DEF f
      <4> QED
        BY <3>1 DEF TotalAt
    <3>3. i # k + 1 => g[i] = TotalAt(g, i)
      BY <2>1, <2>2 DEF IsTotal
    <3> QED
      BY <3>2, <3>3
  <2>4. f = [i \in 0 .. k + 1 |-> TotalAt(f, i)]
    BY <2>3
  <2>5. IsTotal(f, k + 1)
    BY <2>4 DEF IsTotal
  <2>6. \E h : IsTotal(h, k + 1)
    <3> HIDE DEF f
    <3> QED
      BY <2>5
  <2> QED
    BY <2>1, <2>6
<1> HIDE DEF T
<1>3. 0 .. m \subseteq T
  BY <1>1, <1>2, UpTo
<1>4. m \in T
  BY <1>3
<1> QED
  BY <1>4 DEF T

LEMMA TotalIs ==
  ASSUME Len(rows) \in Nat
  PROVE  \E f : Trie!NumOfNodes = f[Len(rows)] /\ IsTotal(f, Len(rows))
<1> DEFINE total == CHOOSE f : IsTotal(f, Len(rows))
<1>1. Trie!NumOfNodes = total[Len(rows)]
  BY DEF Trie!NumOfNodes, IsTotal, TotalAt, Shared, SharedLengths
<1>2. IsTotal(total, Len(rows))
  BY TotalExists
<1> QED
  BY <1>1, <1>2

\* The nodes on the paths of the first rows, and those that a row adds.
NodesOf(m) == {<< >>} \cup UNION {Trie!Prefixes(rows[i]) : i \in 1 .. m}
Added(i) == {Up(rows[i], k) : k \in Shared(i) + 1 .. Len(rows[i])}

LEMMA SharedIs ==
  ASSUME Rising, NEW i \in 1 .. Len(rows)
  PROVE  /\ Shared(i) \in 0 .. Len(rows[i])
         /\ i # 1 => /\ Up(rows[i], Shared(i)) \in Trie!Prefixes(rows[i - 1])
                     /\ \A k \in 0 .. Len(rows[i]) :
                          Up(rows[i], k) \in Trie!Prefixes(rows[i - 1]) => k <= Shared(i)
<1>1. /\ Len(rows) \in Nat /\ rows[i] \in Str /\ Len(rows[i]) \in Nat
      /\ i # 1 => i - 1 \in 1 .. Len(rows) /\ rows[i - 1] \in Str
  BY DEF Rising, Str
<1>2. CASE i = 1
  BY <1>1, <1>2 DEF Shared
<1>3. CASE i # 1
  <2>1. \A k \in 0 .. Len(rows[i]) :
           /\ Up(rows[i], k) \in Str
           /\ k \in SharedLengths(i) <=> Up(rows[i], k) \in Trie!Prefixes(rows[i - 1])
    <3> SUFFICES ASSUME NEW k \in 0 .. Len(rows[i])
                 PROVE  /\ Up(rows[i], k) \in Str
                        /\ k \in SharedLengths(i) <=> Up(rows[i], k) \in Trie!Prefixes(rows[i - 1])
      OBVIOUS
    <3>1. Up(rows[i], k) \in Str
      BY <1>1, UpProperties DEF Str
    <3>2. k \in SharedLengths(i) <=> Trie!IsPrefix(Up(rows[i], k), rows[i - 1])
      BY DEF SharedLengths, Up
    <3> QED
      BY <1>1, <1>3, <3>1, <3>2, PrefixIsUp DEF Str
  <2>2. 0 \in SharedLengths(i)
    <3>1. Up(rows[i], 0) = << >>
      BY <1>1, UpProperties, EmptySeq DEF Str
    <3>2. Up(rows[i - 1], 0) = << >>
      BY <1>1, <1>3, UpProperties, EmptySeq DEF Str
    <3>3. << >> \in Trie!Prefixes(rows[i - 1])
      <4>1. 0 \in 0 .. Len(rows[i - 1])
        BY <1>1, <1>3 DEF Str
      <4> QED
        BY <3>2, <4>1 DEF Trie!Prefixes, Up
    <3> QED
      BY <1>1, <2>1, <3>1, <3>3
  <2>3. SharedLengths(i) \subseteq 0 .. Len(rows[i])
    BY DEF SharedLengths
  <2>4. \E x \in SharedLengths(i) : \A y \in SharedLengths(i) : x >= y
    BY <1>1, <2>2, <2>3, Greatest
  <2>5. Trie!Max(SharedLengths(i)) \in SharedLengths(i)
        /\ \A y \in SharedLengths(i) : Trie!Max(SharedLengths(i)) >= y
    BY <2>4 DEF Trie!Max
  <2>6. Shared(i) \in SharedLengths(i) /\ \A y \in SharedLengths(i) : Shared(i) >= y
    BY <1>3, <2>5 DEF Shared
  <2> QED
    BY <1>1, <1>3, <2>1, <2>3, <2>6
<1> QED
  BY <1>2, <1>3

LEMMA AddedCounted ==
  ASSUME Rising, NEW i \in 1 .. Len(rows)
  PROVE  IsFiniteSet(Added(i)) /\ Cardinality(Added(i)) = Len(rows[i]) - Shared(i)
<1> DEFINE n == Len(rows[i]) - Shared(i)
           g == [k \in 1 .. n |-> Up(rows[i], Shared(i) + k)]
<1>1. rows[i] \in Str /\ Len(rows[i]) \in Nat /\ Shared(i) \in 0 .. Len(rows[i]) /\ n \in Nat
  BY SharedIs DEF Rising, Str
<1>2. \A k \in 1 .. n : /\ Shared(i) + k \in Shared(i) + 1 .. Len(rows[i])
                        /\ Shared(i) + k \in 0 .. Len(rows[i])
  BY <1>1
<1>3. g \in [1 .. n -> Added(i)]
  BY <1>2 DEF Added
<1>4. ASSUME NEW j \in 1 .. n, NEW k \in 1 .. n, g[j] = g[k] PROVE j = k
  <2>1. Len(Up(rows[i], Shared(i) + j)) = Shared(i) + j /\ Len(Up(rows[i], Shared(i) + k)) = Shared(i) + k
    BY <1>1, <1>2, UpProperties DEF Str
  <2>2. Shared(i) + j = Shared(i) + k
    BY <1>4, <2>1
  <2> QED
    BY <1>1, <2>2
<1>5. ASSUME NEW p \in Added(i) PROVE \E k \in 1 .. n : g[k] = p
  <2>1. PICK k \in Shared(i) + 1 .. Len(rows[i]) : p = Up(rows[i], k)
    BY DEF Added
  <2>2. k - Shared(i) \in 1 .. n /\ Shared(i) + (k - Shared(i)) = k
    BY <1>1, <2>1
  <2>3. g[k - Shared(i)] = p
    BY <2>1, <2>2
  <2> QED
    BY <2>2, <2>3
<1> HIDE DEF g, n
<1>6. g \in Bijection(1 .. n, Added(i))
  BY <1>3, <1>4, <1>5 DEF Bijection, Injection, Surjection, IsInjective
<1>7. IsFiniteSet(1 .. n) /\ Cardinality(1 .. n) = n
  <2>1. n \in Nat
    BY <1>1
  <2> QED
    BY <2>1, FS_Interval
<1>8. IsFiniteSet(Added(i)) /\ Cardinality(Added(i)) = Cardinality(1 .. n)
  BY <1>6, <1>7, FS_Bijection DEF ExistsBijection
<1> QED
  BY <1>7, <1>8 DEF n

LEMMA NodesGrow ==
  ASSUME Rising, NEW i \in 1 .. Len(rows)
  PROVE  NodesOf(i) = NodesOf(i - 1) \cup Added(i) /\ NodesOf(i - 1) \cap Added(i) = {}
<1>1. /\ Len(rows) \in Nat /\ rows[i] \in Str /\ Len(rows[i]) \in Nat
      /\ Shared(i) \in 0 .. Len(rows[i]) /\ \A j \in 1 .. Len(rows) : rows[j] \in Str
  BY SharedIs DEF Rising, Str
<1>2. 1 .. i = (1 .. i - 1) \cup {i} /\ 1 .. i \subseteq 1 .. Len(rows)
  BY <1>1
<1>3. NodesOf(i) = NodesOf(i - 1) \cup Trie!Prefixes(rows[i])
  BY <1>2 DEF NodesOf
<1>4. Added(i) \subseteq Trie!Prefixes(rows[i])
  <2>1. \A k \in Shared(i) + 1 .. Len(rows[i]) : k \in 0 .. Len(rows[i])
    BY <1>1
  <2> QED
    BY <2>1 DEF Added, Trie!Prefixes, Up
<1>5. \A k \in 0 .. Len(rows[i]) : Up(rows[i], k) \in Str /\ Len(Up(rows[i], k)) = k
  BY <1>1, UpProperties DEF Str
<1>6. ASSUME NEW k \in 0 .. Shared(i) PROVE Up(rows[i], k) \in NodesOf(i - 1)
  <2>1. k \in 0 .. Len(rows[i]) /\ k <= Len(rows[i])
    BY <1>1
  <2>2. CASE i = 1
    <3>1. k = 0
      BY <2>2 DEF Shared
    <3>2. Up(rows[i], k) = << >>
      BY <1>5, <2>1, <3>1, EmptySeq DEF Str
    <3> QED
      BY <3>2 DEF NodesOf
  <2>3. CASE i # 1
    <3> DEFINE p == Up(rows[i], Shared(i))
               before == rows[i - 1]
    <3>1. i - 1 \in 1 .. Len(rows) /\ i - 1 \in 1 .. i - 1 /\ before \in Str
      BY <1>1, <2>3
    <3>2. p \in Str /\ Len(p) = Shared(i) /\ p \in Trie!Prefixes(before)
      BY <1>1, <1>5, <2>3, SharedIs
    <3>3. Shared(i) <= Len(before) /\ Up(rows[i], Shared(i)) = Up(before, Shared(i))
      BY <3>1, <3>2, PrefixIsUp DEF Str
    <3>4. Up(rows[i], k) = Up(before, k) /\ k \in 0 .. Len(before)
      <4>1. Up(rows[i], k) = Up(before, k)
        BY <1>1, <3>1, <3>3, UpOfUp
      <4>2. Len(before) \in Nat
        BY <3>1 DEF Str
      <4> QED
        BY <1>1, <3>3, <4>1, <4>2
    <3>5. Up(rows[i], k) \in Trie!Prefixes(before)
      BY <3>4 DEF Trie!Prefixes, Up
    <3> QED
      BY <3>1, <3>5 DEF NodesOf
  <2> QED
    BY <2>2, <2>3
<1>7. Trie!Prefixes(rows[i]) \subseteq NodesOf(i - 1) \cup Added(i)
  <2> SUFFICES ASSUME NEW k \in 0 .. Len(rows[i])
               PROVE  Up(rows[i], k) \in NodesOf(i - 1) \cup Added(i)
    BY DEF Trie!Prefixes, Up
  <2>1. k \in 0 .. Shared(i) \/ k \in Shared(i) + 1 .. Len(rows[i])
    BY <1>1
  <2> QED
    BY <1>6, <2>1 DEF Added
<1>8. ASSUME NEW p \in NodesOf(i - 1), p \in Added(i) PROVE FALSE
  <2>1. PICK k \in Shared(i) + 1 .. Len(rows[i]) : p = Up(rows[i], k)
    BY <1>8 DEF Added
  <2>2. k \in 0 .. Len(rows[i]) /\ k # 0 /\ ~(k <= Shared(i))
    BY <1>1, <2>1
  <2>3. p \in Str /\ Len(p) = k /\ p # << >> /\ p \in Trie!Prefixes(rows[i])
    <3>1. p \in Str /\ Len(p) = k
      BY <1>5, <2>1, <2>2
    <3> QED
      BY <1>4, <1>8, <2>2, <3>1
  <2>4. PICK j \in 1 .. i - 1 : p \in Trie!Prefixes(rows[j])
    BY <1>8, <2>3 DEF NodesOf
  <2>5. /\ j \in 1 .. Len(rows) /\ i \in j .. Len(rows) /\ i - 1 \in j .. i
        /\ i - 1 \in 1 .. Len(rows) /\ i # 1
    BY <1>1, <2>4
  <2>6. Agree(rows[j], rows[i], Len(p))
    BY <1>1, <2>3, <2>4, <2>5, PrefixAgrees
  <2>7. Agree(rows[j], rows[i - 1], Len(p))
    BY <1>1, <2>2, <2>3, <2>5, <2>6, RowsBetween
  <2>8. p \in Trie!Prefixes(rows[i - 1])
    BY <1>1, <2>3, <2>4, <2>5, <2>7, PrefixAgrees
  <2> QED
    BY <2>1, <2>2, <2>5, <2>8, SharedIs
<1> QED
  BY <1>3, <1>4, <1>7, <1>8

LEMMA NodesCounted ==
  ASSUME Rising
  PROVE  Trie!NumOfNodes = Cardinality(NodesOf(Len(rows)))
<1> DEFINE n == Len(rows)
<1>1. n \in Nat /\ \A i \in 1 .. n : Len(rows[i]) \in Nat
  BY DEF Rising, Str
<1>2. PICK f : Trie!NumOfNodes = f[n] /\ IsTotal(f, n)
  BY <1>1, TotalIs
<1> DEFINE T == {i \in Nat : IsFiniteSet(NodesOf(i)) /\ Cardinality(NodesOf(i)) = f[i]}
<1>3. 0 \in T
  <2>1. NodesOf(0) = {<< >>}
    BY DEF NodesOf
  <2>2. f[0] = 1
    BY <1>1, <1>2 DEF IsTotal, TotalAt
  <2> QED
    BY <2>1, <2>2, FS_Singleton
<1>4. ASSUME NEW k \in 0 .. n - 1, k \in T PROVE k + 1 \in T
  <2>1. k + 1 \in 1 .. n /\ k + 1 \in 0 .. n /\ (k + 1) - 1 = k /\ k + 1 \in Nat /\ k + 1 # 0
    BY <1>1
  <2>2. NodesOf(k + 1) = NodesOf(k) \cup Added(k + 1) /\ NodesOf(k) \cap Added(k + 1) = {}
    BY <2>1, NodesGrow
  <2>3. IsFiniteSet(NodesOf(k)) /\ Cardinality(NodesOf(k)) = f[k] /\ f[k] \in Nat
    BY <1>4, FS_CardinalityType
  <2>4. IsFiniteSet(Added(k + 1)) /\ Cardinality(Added(k + 1)) = Len(rows[k + 1]) - Shared(k + 1)
    BY <2>1, AddedCounted
  <2>5. /\ IsFiniteSet(NodesOf(k + 1))
        /\ Cardinality(NodesOf(k + 1)) =
             Cardinality(NodesOf(k)) + Cardinality(Added(k + 1)) - Cardinality({})
    BY <2>2, <2>3, <2>4, FS_Union
  <2>6. f[k + 1] = f[k] + (Len(rows[k + 1]) - Shared(k + 1))
    <3>1. f[k + 1] = TotalAt(f, k + 1)
      BY <1>2, <2>1 DEF IsTotal
    <3> QED
      BY <2>1, <3>1 DEF TotalAt
  <2>7. Len(rows[k + 1]) - Shared(k + 1) \in Nat
    BY <2>4, FS_CardinalityType
  <2>8. Cardinality(NodesOf(k + 1)) = f[k + 1]
    BY <2>3, <2>4, <2>5, <2>6, <2>7, FS_EmptySet
  <2> QED
    BY <2>1, <2>5, <2>8
<1> HIDE DEF T
<1>5. 0 .. n \subseteq T
  BY <1>1, <1>3, <1>4, UpTo
<1>6. n \in T
  BY <1>1, <1>5
<1> QED
  BY <1>2, <1>6 DEF T

\* The slots of a node were counted from the first row below it.
SlotsInv ==
  /\ Trie!Sorted(rows)
  /\ \A p \in DOMAIN trie : \E r \in Done :
       /\ p \in Trie!Prefixes(Path(r)) /\ \A i \in 1 .. r - 1 : p \notin Trie!Prefixes(Path(i))
       /\ trie[p].slots = Trie!NumChildNodes(r, Len(p))

LEMMA SlotsStart == Init => SlotsInv
<1>1. rows = << >> => Trie!Sorted(rows)
  BY DEF Trie!Sorted
<1>2. Init => Trie!Sorted(rows) /\ trie = << >>
  BY <1>1 DEF Init, Trie!Init, NoRows
<1> QED
  BY <1>2 DEF SlotsInv

LEMMA SlotsStep ==
  ASSUME TrieInv, SlotsInv, [Next]_vars
  PROVE  SlotsInv'
<1>1. rows' = rows
  BY DEF Next, Trie!Next, Trie!InsertRow, Trie!Finish, trieVars, vars
<1>2. /\ Trie!Sorted(rows)' /\ \A r : Path(r)' = Path(r)
      /\ \A r, len : Trie!NumChildNodes(r, len)' = Trie!NumChildNodes(r, len)
  <2>1. Trie!Sorted(rows)'
    BY <1>1 DEF SlotsInv, Trie!Sorted, Trie!Before, Trie!CharAt
  <2>2. \A r : Path(r)' = Path(r)
    BY <1>1 DEF Path, Trie!Canon, Trie!Kept
  <2>3. \A r, len : Trie!NumChildNodes(r, len)' = Trie!NumChildNodes(r, len)
    BY <1>1 DEF Trie!NumChildNodes, Trie!SamePrefix, Trie!CharAt
  <2> QED
    BY <2>1, <2>2, <2>3
<1>3. CASE UNCHANGED <<next, trie>>
  BY <1>2, <1>3 DEF SlotsInv, Done
<1>4. CASE ~Trie!Duplicate(next) /\ trie' = Trie!Inserted(next) /\ next' = next + 1
             /\ next <= Len(rows)
  <2> DEFINE on == Trie!Prefixes(Path(next))
  <2>1. next \in 1 .. Len(rows) /\ Done' = Done \cup {next} /\ Path(next) \in Str
    BY <1>4, PathTyped DEF TrieInv, Done
  <2>2. /\ DOMAIN trie' = DOMAIN trie \cup on
        /\ \A p \in DOMAIN trie : trie'[p].slots = trie[p].slots
        /\ \A p \in on : p \notin DOMAIN trie => trie'[p].slots = Trie!NumChildNodes(next, Len(p))
    BY <1>4 DEF Trie!Inserted, Path
  <2>3. on \subseteq Str
    BY <2>1, UpProperties DEF Trie!Prefixes, Up, Str
  <2> HIDE DEF on
  <2> SUFFICES ASSUME NEW p \in DOMAIN trie'
               PROVE  \E r \in Done' :
                        /\ p \in Trie!Prefixes(Path(r))
                        /\ \A i \in 1 .. r - 1 : p \notin Trie!Prefixes(Path(i))
                        /\ trie'[p].slots = Trie!NumChildNodes(r, Len(p))
    BY <1>2 DEF SlotsInv
  <2>4. CASE p \in DOMAIN trie
    BY <2>1, <2>2, <2>4 DEF SlotsInv
  <2>5. CASE p \notin DOMAIN trie
    <3>1. p \in on /\ trie'[p].slots = Trie!NumChildNodes(next, Len(p))
      BY <2>2, <2>5
    <3>2. \A i \in 1 .. next - 1 : p \notin Trie!Prefixes(Path(i))
      BY <2>3, <2>5, <3>1 DEF TrieInv, Done
    <3> QED
      BY <2>1, <3>1, <3>2 DEF on
  <2> QED
    BY <2>4, <2>5
<1> QED
  BY <1>3, <1>4 DEF Next, Trie!Next, Trie!InsertRow, Trie!Finish, trieVars, vars

LEMMA SpaceFits ==
  ASSUME TrieInv, SlotsInv, Trie!Clean, NEW p \in DOMAIN trie
  PROVE  /\ Cardinality(trie[p].kids) \in Nat /\ trie[p].slots \in Nat
         /\ Cardinality(trie[p].kids) <= trie[p].slots
         /\ next = Len(rows) + 1 => Cardinality(trie[p].kids) = trie[p].slots
<1>1. /\ Rising /\ Len(rows) \in Nat /\ next \in 1 .. Len(rows) + 1 /\ p \in Str
      /\ Done \subseteq 1 .. Len(rows) /\ \A i \in 1 .. Len(rows) : Path(i) = rows[i]
  <2>1. Rising /\ Len(rows) \in Nat /\ next \in 1 .. Len(rows) + 1 /\ p \in Str
    BY DEF TrieInv, SlotsInv, Rising
  <2>2. Done \subseteq 1 .. Len(rows)
    BY <2>1 DEF Done
  <2>3. \A i \in 1 .. Len(rows) : Path(i) = rows[i]
    BY DEF Path, Trie!Clean
  <2> QED
    BY <2>1, <2>2, <2>3
<1>2. PICK r \in Done :
        /\ p \in Trie!Prefixes(Path(r)) /\ \A i \in 1 .. r - 1 : p \notin Trie!Prefixes(Path(i))
        /\ trie[p].slots = Trie!NumChildNodes(r, Len(p))
  BY DEF SlotsInv
<1>3. /\ r \in 1 .. Len(rows) /\ \A i \in 1 .. r - 1 : i \in 1 .. Len(rows)
  BY <1>1
<1>4. IsFiniteSet(After(p)) /\ trie[p].slots = Cardinality(After(p))
  BY <1>1, <1>2, <1>3, SlotsCounted
<1>5. \A c : c \in trie[p].kids <=> \E i \in Done : c \in Trie!Kids(p, rows[i])
  BY <1>1 DEF TrieInv
<1>6. \A i \in 1 .. Len(rows) : Trie!Kids(p, rows[i]) \subseteq RowChar
  <2> SUFFICES ASSUME NEW i \in 1 .. Len(rows), NEW c \in Trie!Kids(p, rows[i])
               PROVE  c \in RowChar
    OBVIOUS
  <2>1. rows[i] \in Str
    BY <1>1 DEF Rising
  <2>2. p \in Trie!Prefixes(rows[i])
    BY <1>1, <2>1, KidsOf
  <2> QED
    BY <1>1, <2>1, <2>2, NextChar
<1>7. trie[p].kids \subseteq After(p)
  BY <1>1, <1>5, <1>6 DEF After
<1>8. next = Len(rows) + 1 => trie[p].kids = After(p)
  <2>1. next = Len(rows) + 1 => Done = 1 .. Len(rows)
    BY <1>1 DEF Done
  <2> QED
    BY <1>5, <1>7, <2>1 DEF After
<1> QED
  BY <1>4, <1>7, <1>8, FS_Subset, FS_CardinalityType

LEMMA NodesFill ==
  ASSUME TrieInv, SlotsInv, Trie!Clean, next = Len(rows) + 1, rows # << >>
  PROVE  Cardinality(DOMAIN trie) = Trie!NumOfNodes
<1>1. /\ Rising /\ Len(rows) \in Nat \ {0} /\ Done = 1 .. Len(rows)
      /\ \A i \in 1 .. Len(rows) : Path(i) = rows[i] /\ rows[i] \in Str
  BY DEF TrieInv, SlotsInv, Rising, Done, Path, Trie!Clean
<1>2. \A p : p \in DOMAIN trie <=> \E i \in 1 .. Len(rows) : p \in Trie!Prefixes(rows[i])
  <2>1. \A i \in 1 .. Len(rows) : Trie!Prefixes(rows[i]) \subseteq Str
    BY <1>1, UpProperties DEF Trie!Prefixes, Up, Str
  <2> QED
    BY <1>1, <2>1 DEF TrieInv
<1>3. << >> \in Trie!Prefixes(rows[1])
  <2>1. 1 \in 1 .. Len(rows) /\ rows[1] \in Str /\ 0 \in 0 .. Len(rows[1])
    BY <1>1 DEF Str
  <2>2. Up(rows[1], 0) = << >>
    BY <2>1, UpProperties, EmptySeq DEF Str
  <2> QED
    BY <2>1, <2>2 DEF Trie!Prefixes, Up
<1>4. DOMAIN trie = NodesOf(Len(rows))
  <2>1. 1 \in 1 .. Len(rows)
    BY <1>1
  <2> QED
    BY <1>2, <1>3, <2>1 DEF NodesOf
<1> QED
  BY <1>1, <1>4, NodesCounted

\* Where no character of a row is dropped, there is a slot for every child as
\* long as rows are inserted, and no other when all are.
Fits ==
  Trie!Clean => \A p \in DOMAIN trie :
    /\ Cardinality(trie[p].kids) \in Nat /\ trie[p].slots \in Nat
    /\ Cardinality(trie[p].kids) <= trie[p].slots
    /\ next = Len(rows) + 1 => Cardinality(trie[p].kids) = trie[p].slots

NotMisled == Trie!Clean => outcome \notin {"overrun", "gaps"}

LEMMA NotMisledStep ==
  ASSUME TrieInv, Fits, Fits', NotMisled, [Next]_vars
  PROVE  NotMisled'
<1>1. rows' = rows
  BY DEF Next, Trie!Next, Trie!InsertRow, Trie!Finish, trieVars, vars
<1>2. Trie!Clean' <=> Trie!Clean
  BY <1>1 DEF Trie!Clean, Trie!Canon, Trie!Kept
<1> SUFFICES ASSUME Trie!Clean PROVE outcome' \notin {"overrun", "gaps"}
  BY <1>2 DEF NotMisled
<1>3. CASE Trie!InsertRow
  <2>1. \A p \in DOMAIN trie' : ~(Trie!Cardinality(trie'[p].kids) > trie'[p].slots)
    BY <1>2, TrieCounts DEF Fits
  <2>2. ~Trie!Overrun'
    BY <2>1 DEF Trie!Overrun
  <2> QED
    BY <1>3, <2>2 DEF Trie!InsertRow
<1>4. CASE Trie!Finish
  <2>1. next = Len(rows) + 1
    BY <1>4 DEF Trie!Finish, TrieInv
  <2>2. ~Trie!Gaps
    BY <2>1, TrieCounts DEF Fits, Trie!Gaps
  <2> QED
    BY <1>4, <2>2 DEF Trie!Finish
<1>5. CASE UNCHANGED outcome
  BY <1>5 DEF NotMisled
<1> QED
  BY <1>3, <1>4, <1>5 DEF Next, Trie!Next, trieVars, vars

\* Where no character of a row is dropped, no child is written behind the slots
\* of its node, no slot is left, and in the end the blob is filled, whatever the
\* rows are.
THEOREM BlobIsFilled == Spec => []SpaceIsExact
<1>1. TrieInv /\ SlotsInv => Fits
  BY SpaceFits DEF Fits
<1>2. TrieInv /\ SlotsInv /\ NotMisled => SpaceIsExact
  <2> SUFFICES ASSUME TrieInv, SlotsInv, NotMisled, Trie!Clean
               PROVE  /\ outcome \notin {"overrun", "gaps"}
                      /\ outcome = "built" /\ rows # << >> =>
                           Cardinality(DOMAIN trie) = Trie!NumOfNodes
    BY TrieCounts DEF SpaceIsExact, Trie!SpaceIsExact
  <2>1. outcome = "built" => next = Len(rows) + 1
    BY DEF TrieInv
  <2> QED
    BY <2>1, NodesFill DEF NotMisled
<1>3. Init => NotMisled
  BY DEF Init, Trie!Init, NoRows, NotMisled
<1>4. TrieInv /\ SlotsInv /\ [Next]_vars => TrieInv' /\ SlotsInv'
  BY TrieStep, SlotsStep
<1>5. TrieInv /\ Fits /\ Fits' /\ NotMisled /\ [Next]_vars => NotMisled'
  BY NotMisledStep
<1> QED
  BY TrieStart, SlotsStart, <1>1, <1>2, <1>3, <1>4, <1>5, PTL DEF Spec

-----------------------------------------------------------------------------
(***************************************************************************)
(* Sets of numbers in order.                                               *)
(***************************************************************************)

\* q lists the members of S, each once, in their order.
Lists(q, S) ==
  /\ q \in [1 .. Cardinality(S) -> S]
  /\ \A i, j \in 1 .. Cardinality(S) : i < j => q[i] < q[j]
  /\ \A s \in S : \E i \in 1 .. Cardinality(S) : q[i] = s

LEMMA ListExists ==
  ASSUME NEW S, S \subseteq Nat, IsFiniteSet(S)
  PROVE  \E q : Lists(q, S)
<1> DEFINE n == Cardinality(S)
           Good(k) == \A X \in SUBSET Nat :
                        IsFiniteSet(X) /\ Cardinality(X) = k => \E q : Lists(q, X)
           T == {k \in Nat : Good(k)}
<1>1. 0 \in T
  <2> SUFFICES ASSUME NEW X \in SUBSET Nat, IsFiniteSet(X), Cardinality(X) = 0
               PROVE  \E q : Lists(q, X)
    OBVIOUS
  <2>1. X = {}
    BY FS_EmptySet
  <2>2. << >> \in [1 .. 0 -> X] /\ 1 .. 0 = {}
    OBVIOUS
  <2>3. Lists(<< >>, X)
    BY <2>1, <2>2 DEF Lists
  <2> QED
    BY <2>3
<1>2. ASSUME NEW k \in Nat, k \in T PROVE k + 1 \in T
  <2> SUFFICES ASSUME NEW X \in SUBSET Nat, IsFiniteSet(X), Cardinality(X) = k + 1
               PROVE  \E q : Lists(q, X)
    BY <1>2
  <2>1. X # {}
    BY <1>2, FS_EmptySet
  <2>2. PICK m \in X : \A y \in X : m <= y
    BY <2>1, Least
  <2>3. IsFiniteSet(X \ {m}) /\ Cardinality(X \ {m}) = k
    <3>1. Cardinality(X \ {m}) = Cardinality(X) - 1 /\ IsFiniteSet(X \ {m})
      BY FS_RemoveElement
    <3> QED
      BY <1>2, <3>1
  <2>4. PICK g : Lists(g, X \ {m})
    BY <1>2, <2>3
  <2> DEFINE q == [i \in 1 .. k + 1 |-> IF i = 1 THEN m ELSE g[i - 1]]
  <2>5. /\ \A i \in 2 .. k + 1 : i - 1 \in 1 .. k
        /\ \A i \in 1 .. k : g[i] \in X \ {m} /\ g[i] \in Nat
        /\ \A i, j \in 1 .. k : i < j => g[i] < g[j]
        /\ \A s \in X \ {m} : \E i \in 1 .. k : g[i] = s
    <3>1. g \in [1 .. k -> X \ {m}]
      BY <2>3, <2>4 DEF Lists
    <3>2. \A i, j \in 1 .. k : i < j => g[i] < g[j]
      BY <2>3, <2>4 DEF Lists
    <3>3. \A s \in X \ {m} : \E i \in 1 .. k : g[i] = s
      BY <2>3, <2>4 DEF Lists
    <3>4. \A i \in 2 .. k + 1 : i - 1 \in 1 .. k
      BY <1>2
    <3> QED
      BY <3>1, <3>2, <3>3, <3>4
  <2>6. q[1] = m /\ \A i \in 2 .. k + 1 : q[i] = g[i - 1] /\ q[i] \in X \ {m}
    BY <1>2, <2>5
  <2>7. q \in [1 .. k + 1 -> X]
    BY <1>2, <2>5
  <2>8. \A i, j \in 1 .. k + 1 : i < j => q[i] < q[j]
    <3> SUFFICES ASSUME NEW i \in 1 .. k + 1, NEW j \in 1 .. k + 1, i < j PROVE q[i] < q[j]
      OBVIOUS
    <3>1. j \in 2 .. k + 1
      BY <1>2
    <3>2. CASE i = 1
      <4>1. q[j] \in X /\ q[j] # m
        BY <2>6, <3>1
      <4>2. m <= q[j] /\ m \in Nat /\ q[j] \in Nat
        BY <2>2, <4>1
      <4> QED
        BY <2>6, <3>2, <4>1, <4>2
    <3>3. CASE i # 1
      <4>1. i \in 2 .. k + 1 /\ i - 1 \in 1 .. k /\ j - 1 \in 1 .. k /\ i - 1 < j - 1
        BY <1>2, <3>1, <3>3
      <4>2. g[i - 1] < g[j - 1]
        BY <2>5, <4>1
      <4> QED
        BY <2>6, <3>1, <4>1, <4>2
    <3> QED
      BY <3>2, <3>3
  <2>9. ASSUME NEW s \in X PROVE \E i \in 1 .. k + 1 : q[i] = s
    <3>1. CASE s = m
      <4>1. 1 \in 1 .. k + 1
        BY <1>2
      <4> QED
        BY <2>6, <3>1, <4>1
    <3>2. CASE s # m
      <4>1. PICK i \in 1 .. k : g[i] = s
        BY <2>5, <3>2
      <4>2. i + 1 \in 2 .. k + 1 /\ i + 1 \in 1 .. k + 1 /\ (i + 1) - 1 = i
        BY <1>2
      <4>3. q[i + 1] = s
        BY <2>6, <4>1, <4>2
      <4> QED
        BY <4>2, <4>3
    <3> QED
      BY <3>1, <3>2
  <2> HIDE DEF q
  <2>10. Lists(q, X)
    BY <2>7, <2>8, <2>9 DEF Lists
  <2> QED
    BY <2>10
<1>3. n \in Nat
  BY FS_CardinalityType
<1> HIDE DEF T
<1>4. 0 .. n \subseteq T
  BY <1>1, <1>2, <1>3, UpTo
<1>5. n \in T
  BY <1>3, <1>4
<1> QED
  BY <1>5 DEF T

LEMMA RisingIsInjective ==
  ASSUME NEW n \in Nat, NEW q, \A i \in 1 .. n : q[i] \in Nat,
         \A i, j \in 1 .. n : i < j => q[i] < q[j]
  PROVE  \A i, j \in 1 .. n : q[i] = q[j] => i = j
<1> SUFFICES ASSUME NEW i \in 1 .. n, NEW j \in 1 .. n, i # j
             PROVE  q[i] # q[j]
  OBVIOUS
<1>1. \A a, b \in Nat : a < b => a # b
  OBVIOUS
<1>2. i < j \/ j < i
  OBVIOUS
<1> QED
  BY <1>1, <1>2

LEMMA ListIsInjective ==
  ASSUME NEW S, S \subseteq Nat, IsFiniteSet(S), NEW q, Lists(q, S)
  PROVE  \A i, j \in 1 .. Cardinality(S) : q[i] = q[j] => i = j
<1>1. Cardinality(S) \in Nat
  BY FS_CardinalityType
<1>2. \A i \in 1 .. Cardinality(S) : q[i] \in S
  BY DEF Lists
<1>3. \A i \in 1 .. Cardinality(S) : q[i] \in Nat
  BY <1>2
<1>4. \A i, j \in 1 .. Cardinality(S) : i < j => q[i] < q[j]
  BY DEF Lists
<1> QED
  BY <1>1, <1>3, <1>4, RisingIsInjective

LEMMA ListChosen ==
  ASSUME NEW S, S \subseteq Nat, IsFiniteSet(S)
  PROVE  Lists(CHOOSE q \in [1 .. Cardinality(S) -> S] :
                 \A i, j \in DOMAIN q : i < j => q[i] < q[j], S)
<1> DEFINE n == Cardinality(S)
           Rises(x) == \A i, j \in DOMAIN x : i < j => x[i] < x[j]
           q == CHOOSE x \in [1 .. n -> S] : Rises(x)
<1>1. PICK f : Lists(f, S)
  BY ListExists
<1>2. n \in Nat
  BY FS_CardinalityType
<1>3. f \in [1 .. n -> S] /\ Rises(f)
  BY <1>1 DEF Lists
<1>4. q \in [1 .. n -> S] /\ Rises(q)
  BY <1>3
<1> HIDE DEF q
<1>5. \A i, j \in 1 .. n : i < j => q[i] < q[j]
  BY <1>4
<1>6. \A i, j \in 1 .. n : q[i] = q[j] => i = j
  <2>1. \A i \in 1 .. n : q[i] \in Nat
    BY <1>4
  <2> QED
    BY <1>2, <1>5, <2>1, RisingIsInjective
<1>7. q \in Injection(1 .. n, S)
  BY <1>4, <1>6 DEF Injection, IsInjective
<1>8. IsFiniteSet(1 .. n) /\ Cardinality(1 .. n) = n
  BY <1>2, FS_Interval
<1>9. q \in Surjection(1 .. n, S)
  BY <1>7, <1>8, FS_Injection
<1>10. \A s \in S : \E i \in 1 .. n : q[i] = s
  BY <1>9 DEF Surjection
<1>11. Lists(q, S)
  BY <1>4, <1>5, <1>10 DEF Lists
<1> QED
  BY <1>11 DEF q

\* How many members come before one of the list.
LEMMA Rank ==
  ASSUME NEW S, S \subseteq Nat, IsFiniteSet(S), NEW q, Lists(q, S),
         NEW i \in 1 .. Cardinality(S)
  PROVE  Cardinality({t \in S : t < q[i]}) = i - 1
<1> DEFINE n == Cardinality(S)
           B == {t \in S : t < q[i]}
           g == [j \in 1 .. i - 1 |-> q[j]]
<1>1. n \in Nat /\ i \in Nat /\ i - 1 \in Nat
  BY FS_CardinalityType
<1>2. \A j \in 1 .. i - 1 : j \in 1 .. n /\ j < i
  BY <1>1
<1>3. g \in [1 .. i - 1 -> B]
  BY <1>2 DEF Lists
<1>4. \A j, k \in 1 .. i - 1 : g[j] = g[k] => j = k
  BY <1>2, ListIsInjective
<1>5. ASSUME NEW t \in B PROVE \E j \in 1 .. i - 1 : g[j] = t
  <2>1. PICK j \in 1 .. n : q[j] = t
    BY DEF Lists
  <2>2. q[i] \in Nat /\ q[j] \in Nat /\ q[j] < q[i]
    BY <1>1, <2>1 DEF Lists
  <2>3. ~(i < j) /\ j # i
    BY <2>2 DEF Lists
  <2>4. j \in 1 .. i - 1
    BY <1>1, <2>3
  <2> QED
    BY <2>1, <2>4
<1> HIDE DEF g, B
<1>6. g \in Bijection(1 .. i - 1, B)
  BY <1>3, <1>4, <1>5 DEF Bijection, Injection, Surjection, IsInjective
<1>7. Cardinality(B) = i - 1
  BY <1>1, <1>6, FS_CountingElements DEF ExistsBijection
<1> QED
  BY <1>7 DEF B

-----------------------------------------------------------------------------
(***************************************************************************)
(* The zones of the blob.                                                  *)
(***************************************************************************)

Zone == {0} \cup DOMAIN parent
Subs(z) == {s \in DOMAIN parent : parent[s] = z}
Before(s) == {t \in DOMAIN parent : parent[t] = parent[s] /\ t < s}

\* Where the subzones of a zone are once it has been gone into.
Served(z) ==
  /\ place[z] \in DOMAIN firstChild
  /\ Subs(z) \subseteq DOMAIN place
  /\ \A s \in Subs(z) :
       /\ place[s] = firstChild[place[z]] + Cardinality(Before(s))
       /\ place[s] \in DOMAIN parentAddr /\ parentAddr[place[s]] = place[z]

Shape(n) == parent \in [1 .. n -> Nat] /\ \A s \in 1 .. n : parent[s] < s

Placed ==
  /\ last \in Nat /\ 0 \in DOMAIN place /\ place[0] = 1 /\ DOMAIN place \subseteq Zone
  /\ place \in [DOMAIN place -> 1 .. last]
  /\ \A y, z \in DOMAIN place : place[y] = place[z] => y = z
  /\ \A p \in 1 .. last : \E z \in DOMAIN place : place[z] = p

ToDo ==
  /\ todo \in Seq(DOMAIN place)
  /\ \A i, j \in 1 .. Len(todo) : todo[i] = todo[j] => i = j

Open(z) == \E i \in 1 .. Len(todo) : todo[i] = z

\* Each zone with a place comes from a zone that has been gone into, and each
\* one gone into has placed its subzones.
TreeInv ==
  /\ \E n \in Nat : Shape(n)
  /\ Placed /\ ToDo
  /\ DOMAIN parentAddr = 2 .. last
  /\ \A z \in DOMAIN place \ {0} : parent[z] \in DOMAIN place /\ ~Open(parent[z])
  /\ \A z \in DOMAIN place : Open(z) \/ Served(z)

\* ZoneTree counts with its own instance of the module FiniteSets.
LEMMA TreeCounts == \A S : Tree!Cardinality(S) = Cardinality(S)
BY DEF Tree!Cardinality, Cardinality

LEMMA SubzonesListed ==
  ASSUME NEW n \in Nat, Shape(n), NEW z
  PROVE  /\ Subs(z) \subseteq 1 .. n /\ IsFiniteSet(Subs(z)) /\ Cardinality(Subs(z)) \in Nat
         /\ Lists(Tree!SubzonesOf(z), Subs(z))
<1>1. Subs(z) \subseteq 1 .. n /\ Subs(z) \subseteq Nat
  BY DEF Subs, Shape
<1>2. IsFiniteSet(Subs(z))
  BY <1>1, FS_Interval, FS_Subset
<1>3. Cardinality(Subs(z)) \in Nat
  BY <1>2, FS_CardinalityType
<1>4. Lists(Tree!SubzonesOf(z), Subs(z))
  <2>1. Tree!SubzonesOf(z) =
          CHOOSE q \in [1 .. Cardinality(Subs(z)) -> Subs(z)] :
            \A i, j \in DOMAIN q : i < j => q[i] < q[j]
    BY TreeCounts DEF Tree!SubzonesOf, Subs
  <2> QED
    BY <1>1, <1>2, <2>1, ListChosen
<1> QED
  BY <1>1, <1>2, <1>3, <1>4

\* The subzones of one that is gone into are placed behind all others, each as
\* far behind the first as it has siblings listed before it.
LEMMA TreeServes ==
  ASSUME TreeInv, Tree!Serialize
  PROVE  TreeInv'
<1> DEFINE D == DOMAIN place
           z == Head(todo)
           q == Tree!SubzonesOf(z)
           k == Cardinality(Subs(z))
<1>1. PICK n \in Nat : Shape(n)
  BY DEF TreeInv
<1>2. /\ todo \in Seq(D) /\ todo # << >>
      /\ Placed /\ ToDo
  BY DEF TreeInv, ToDo, Tree!Serialize
<1>3. /\ Len(todo) \in Nat \ {0} /\ z = todo[1] /\ z \in D
      /\ Tail(todo) \in Seq(D) /\ Len(Tail(todo)) = Len(todo) - 1
      /\ \A i \in 1 .. Len(todo) - 1 : Tail(todo)[i] = todo[i + 1]
  BY <1>2
<1>4. /\ Subs(z) \subseteq 1 .. n /\ k \in Nat
      /\ Lists(q, Subs(z)) /\ IsFiniteSet(Subs(z))
  BY <1>1, SubzonesListed
<1>5. /\ q \in [1 .. k -> Subs(z)] /\ Len(q) = k /\ q \in Seq(Subs(z))
      /\ \A s \in Subs(z) : \E i \in 1 .. k : q[i] = s
      /\ \A i, j \in 1 .. k : q[i] = q[j] => i = j
      /\ Tree!ToSet(q) = Subs(z)
  <2>1. q \in [1 .. k -> Subs(z)] /\ \A s \in Subs(z) : \E i \in 1 .. k : q[i] = s
    BY <1>4 DEF Lists
  <2>2. \A i, j \in 1 .. k : q[i] = q[j] => i = j
    <3>1. Subs(z) \subseteq Nat
      BY <1>4
    <3> QED
      BY <1>4, <3>1, ListIsInjective
  <2>3. q \in Seq(Subs(z)) /\ Len(q) = k
    <3> HIDE DEF q, k
    <3> QED
      BY <1>4, <2>1
  <2>4. Tree!ToSet(q) = Subs(z)
    <3> HIDE DEF q, k
    <3> QED
      BY <2>1 DEF Tree!ToSet
  <2> QED
    BY <2>1, <2>2, <2>3, <2>4
<1>6. Open(z)
  BY <1>3 DEF Open
<1>7. \A s \in Subs(z) : s \notin D
  <2>1. \A s \in Subs(z) : s \in Nat \ {0} /\ parent[s] = z
    BY <1>4 DEF Subs
  <2> QED
    BY <1>6, <2>1 DEF TreeInv
<1>8. parent' = parent /\ last' = last + k /\ todo' = q \o Tail(todo)
  BY <1>5 DEF Tree!Serialize
<1>9. /\ DOMAIN place' = D \cup Subs(z)
      /\ \A y \in D : place'[y] = place[y]
      /\ \A i \in 1 .. k : place'[q[i]] = last + i
  <2>1. place' = [s \in D \cup Subs(z) |->
                    IF s \in D THEN place[s] ELSE last + CHOOSE i \in 1 .. Len(q) : q[i] = s]
    BY <1>5 DEF Tree!Serialize
  <2>2. ASSUME NEW i \in 1 .. k PROVE (CHOOSE j \in 1 .. Len(q) : q[j] = q[i]) = i
    <3> HIDE DEF q, k
    <3> QED
      BY <1>5
  <2>3. \A i \in 1 .. k : q[i] \in Subs(z) /\ q[i] \notin D
    BY <1>5, <1>7
  <2> HIDE DEF q, k
  <2> QED
    BY <2>1, <2>2, <2>3
<1>10. /\ DOMAIN firstChild' = DOMAIN firstChild \cup {place[z]}
       /\ \A p \in DOMAIN firstChild : p # place[z] => firstChild'[p] = firstChild[p]
       /\ k # 0 => firstChild'[place[z]] = last + 1
  <2>1. firstChild' = [p \in DOMAIN firstChild \cup {place[z]} |->
                         IF p = place[z] THEN Tree!FirstChild(z, q) ELSE firstChild[p]]
    BY DEF Tree!Serialize
  <2>2. k # 0 => Tree!FirstChild(z, q) = last + 1
    <3>1. k # 0 => q # << >>
      BY <1>5
    <3> QED
      BY <3>1 DEF Tree!FirstChild
  <2> HIDE DEF q, k
  <2> QED
    BY <2>1, <2>2
<1>11. /\ DOMAIN parentAddr' = 2 .. last + k
       /\ \A p \in 2 .. last : parentAddr'[p] = parentAddr[p]
       /\ \A i \in 1 .. k : last + i \in DOMAIN parentAddr' /\ parentAddr'[last + i] = place[z]
  <2>1. parentAddr' = [p \in DOMAIN parentAddr \cup (last + 1 .. last + k) |->
                         IF p > last THEN place[z] ELSE parentAddr[p]]
    BY <1>5 DEF Tree!Serialize
  <2>2. DOMAIN parentAddr = 2 .. last /\ last \in Nat /\ place[0] \in 1 .. last
    BY <1>2 DEF TreeInv, Placed
  <2>3. /\ (2 .. last) \cup (last + 1 .. last + k) = 2 .. last + k
        /\ \A p \in 2 .. last : ~(p > last)
        /\ \A i \in 1 .. k : last + i \in last + 1 .. last + k /\ last + i > last
    BY <1>4, <2>2
  <2> HIDE DEF q, k
  <2> QED
    BY <2>1, <2>2, <2>3
<1> HIDE DEF q, k
<1>12. Shape(n)' /\ \A s : Subs(s)' = Subs(s) /\ Before(s)' = Before(s)
  BY <1>1, <1>8 DEF Shape, Subs, Before
<1>13. Placed'
  <2>1. last \in Nat /\ last' \in Nat /\ last <= last'
    BY <1>2, <1>4, <1>8 DEF Placed
  <2>2. DOMAIN place' \subseteq Zone'
    <3>1. Zone' = Zone /\ Subs(z) \subseteq Zone
      BY <1>8 DEF Zone, Subs
    <3> QED
      BY <1>2, <1>9, <3>1 DEF Placed
  <2>3. \A y \in D : place'[y] \in 1 .. last
    BY <1>2, <1>9 DEF Placed
  <2>4. \A s \in Subs(z) : \E i \in 1 .. k : s = q[i] /\ place'[s] = last + i
    BY <1>5, <1>9
  <2>5. \A s \in Subs(z) : place'[s] \in last + 1 .. last + k
    BY <1>4, <2>1, <2>4
  <2>6. \A y \in DOMAIN place' : place'[y] \in 1 .. last'
    <3>1. 1 .. last \subseteq 1 .. last' /\ last + 1 .. last + k \subseteq 1 .. last'
      BY <1>4, <1>8, <2>1
    <3> QED
      BY <1>9, <2>3, <2>5, <3>1
  <2>7. ASSUME NEW x \in DOMAIN place', NEW y \in DOMAIN place', place'[x] = place'[y]
        PROVE  x = y
    <3>1. CASE x \in D /\ y \in D
      BY <1>2, <1>9, <2>7, <3>1 DEF Placed
    <3>2. CASE x \in Subs(z) /\ y \in Subs(z)
      <4>1. PICK i \in 1 .. k : x = q[i] /\ place'[x] = last + i
        BY <2>4, <3>2
      <4>2. PICK j \in 1 .. k : y = q[j] /\ place'[y] = last + j
        BY <2>4, <3>2
      <4>3. i = j
        BY <1>4, <2>1, <2>7, <4>1, <4>2
      <4> QED
        BY <4>1, <4>2, <4>3
    <3>3. (1 .. last) \cap (last + 1 .. last + k) = {}
      BY <2>1
    <3> QED
      BY <1>9, <2>3, <2>5, <2>7, <3>1, <3>2, <3>3
  <2>8. ASSUME NEW p \in 1 .. last' PROVE \E y \in DOMAIN place' : place'[y] = p
    <3>1. CASE p <= last
      <4>1. PICK y \in D : place[y] = p
        BY <1>2, <2>1, <3>1 DEF Placed
      <4> QED
        BY <1>9, <4>1
    <3>2. CASE p > last
      <4>1. p - last \in 1 .. k /\ last + (p - last) = p
        BY <1>4, <1>8, <2>1, <3>2
      <4>2. q[p - last] \in Subs(z) /\ place'[q[p - last]] = p
        BY <1>5, <1>9, <4>1
      <4> QED
        BY <1>9, <4>2
    <3> QED
      BY <2>1, <3>1, <3>2
  <2>9. 0 \in DOMAIN place' /\ place'[0] = 1
    BY <1>2, <1>9 DEF Placed
  <2>10. place' \in [DOMAIN place' -> 1 .. last']
    <3>1. place' = [y \in DOMAIN place' |-> place'[y]]
      BY DEF Tree!Serialize
    <3> QED
      BY <2>6, <3>1
  <2> QED
    BY <2>1, <2>2, <2>7, <2>8, <2>9, <2>10 DEF Placed
<1>14. /\ Tail(todo) \in Seq(DOMAIN place') /\ q \in Seq(DOMAIN place')
       /\ todo' \in Seq(DOMAIN place') /\ Len(todo') = k + (Len(todo) - 1)
       /\ \A i \in 1 .. k : todo'[i] = q[i]
       /\ \A i \in 1 .. Len(todo) - 1 : todo'[k + i] = todo[i + 1]
  <2>1. Tail(todo) \in Seq(DOMAIN place') /\ q \in Seq(DOMAIN place')
    <3>1. D \subseteq DOMAIN place' /\ Subs(z) \subseteq DOMAIN place'
      BY <1>9
    <3>2. \A S, R : S \subseteq R => Seq(S) \subseteq Seq(R)
      OBVIOUS
    <3> QED
      BY <1>3, <1>5, <3>1, <3>2
  <2>2. todo' \in Seq(DOMAIN place') /\ Len(todo') = Len(q) + Len(Tail(todo))
    BY <1>8, <2>1, ConcatProperties
  <2>3. /\ \A i \in 1 .. Len(q) : todo'[i] = q[i]
        /\ \A i \in 1 .. Len(Tail(todo)) : todo'[Len(q) + i] = Tail(todo)[i]
    BY <1>8, <2>1, ConcatProperties, LenProperties
  <2> QED
    BY <1>3, <1>5, <2>1, <2>2, <2>3
<1>15. \A i \in 1 .. Len(todo') :
         \/ i \in 1 .. k /\ todo'[i] = q[i]
         \/ \E j \in 2 .. Len(todo) : i = k + j - 1 /\ todo'[i] = todo[j]
  <2> SUFFICES ASSUME NEW i \in 1 .. Len(todo'), i \notin 1 .. k
               PROVE  \E j \in 2 .. Len(todo) : i = k + j - 1 /\ todo'[i] = todo[j]
    BY <1>14
  <2>1. /\ i - k \in 1 .. Len(todo) - 1 /\ k + (i - k) = i
        /\ (i - k) + 1 \in 2 .. Len(todo) /\ i = k + ((i - k) + 1) - 1
    BY <1>3, <1>4, <1>14
  <2>2. todo'[i] = todo[(i - k) + 1]
    BY <1>14, <2>1
  <2> QED
    BY <2>1, <2>2
<1>16. \A j \in 2 .. Len(todo) : todo[j] \in D /\ todo[j] # z
  <2>1. \A j \in 2 .. Len(todo) : j \in 1 .. Len(todo) /\ j # 1 /\ 1 \in 1 .. Len(todo)
    BY <1>3
  <2>2. \A j \in 1 .. Len(todo) : todo[j] \in D
    BY <1>2, ElementOfSeq
  <2> QED
    BY <1>2, <1>3, <2>1, <2>2 DEF ToDo
<1>17. \A y : Open(y)' <=> y \in Subs(z) \/ (y # z /\ Open(y))
  <2>1. ASSUME NEW y, Open(y)' PROVE y \in Subs(z) \/ (y # z /\ Open(y))
    <3>1. PICK i \in 1 .. Len(todo') : todo'[i] = y
      BY <2>1 DEF Open
    <3>2. CASE i \in 1 .. k /\ todo'[i] = q[i]
      BY <1>5, <3>1, <3>2
    <3>3. CASE \E j \in 2 .. Len(todo) : i = k + j - 1 /\ todo'[i] = todo[j]
      <4>1. PICK j \in 2 .. Len(todo) : todo'[i] = todo[j]
        BY <3>3
      <4>2. j \in 1 .. Len(todo)
        BY <1>3
      <4> QED
        BY <1>16, <3>1, <4>1, <4>2 DEF Open
    <3> QED
      BY <1>15, <3>2, <3>3
  <2>2. ASSUME NEW y \in Subs(z) PROVE Open(y)'
    <3>1. PICK i \in 1 .. k : q[i] = y
      BY <1>5
    <3>2. i \in 1 .. Len(todo')
      BY <1>3, <1>4, <1>14
    <3> QED
      BY <1>14, <3>1, <3>2 DEF Open
  <2>3. ASSUME NEW y, y # z, Open(y) PROVE Open(y)'
    <3>1. PICK i \in 1 .. Len(todo) : todo[i] = y
      BY <2>3 DEF Open
    <3>2. i # 1
      BY <1>3, <2>3, <3>1
    <3>3. i - 1 \in 1 .. Len(todo) - 1 /\ (i - 1) + 1 = i /\ k + (i - 1) \in 1 .. Len(todo')
      BY <1>3, <1>4, <1>14, <3>2
    <3>4. todo'[k + (i - 1)] = y
      BY <1>14, <3>1, <3>3
    <3> QED
      BY <3>3, <3>4 DEF Open
  <2> QED
    BY <2>1, <2>2, <2>3
<1>18. ToDo'
  <2> SUFFICES ASSUME NEW i \in 1 .. Len(todo'), NEW j \in 1 .. Len(todo'), todo'[i] = todo'[j]
               PROVE  i = j
    BY <1>14 DEF ToDo
  <2>1. \A a \in 1 .. k : q[a] \notin D
    BY <1>5, <1>7
  <2>2. CASE i \in 1 .. k /\ todo'[i] = q[i]
    <3>1. j \in 1 .. k /\ todo'[j] = q[j]
      BY <1>15, <1>16, <2>1, <2>2
    <3> QED
      BY <1>5, <2>2, <3>1
  <2>3. CASE \E a \in 2 .. Len(todo) : i = k + a - 1 /\ todo'[i] = todo[a]
    <3>1. PICK a \in 2 .. Len(todo) : i = k + a - 1 /\ todo'[i] = todo[a]
      BY <2>3
    <3>2. PICK b \in 2 .. Len(todo) : j = k + b - 1 /\ todo'[j] = todo[b]
      BY <1>15, <1>16, <2>1, <3>1
    <3>3. a \in 1 .. Len(todo) /\ b \in 1 .. Len(todo) /\ todo[a] = todo[b]
      BY <1>3, <3>1, <3>2
    <3>4. a = b
      BY <1>2, <3>3 DEF ToDo
    <3> QED
      BY <3>1, <3>2, <3>4
  <2> QED
    BY <1>15, <2>2, <2>3
<1>19. DOMAIN parentAddr' = 2 .. last'
  BY <1>8, <1>11
<1>20. ASSUME NEW y \in DOMAIN place' \ {0}
       PROVE  parent'[y] \in DOMAIN place' /\ ~Open(parent[y])'
  <2>1. z \notin Subs(z)
    BY <1>7, <1>3
  <2>2. CASE y \in Subs(z)
    <3>1. parent[y] = z
      BY <2>2 DEF Subs
    <3> QED
      BY <1>3, <1>8, <1>9, <1>17, <2>1, <3>1
  <2>3. CASE y \in D
    <3>1. parent[y] \in D /\ ~Open(parent[y])
      BY <2>3 DEF TreeInv
    <3> QED
      BY <1>7, <1>8, <1>9, <1>17, <3>1
  <2> QED
    BY <1>9, <2>2, <2>3
<1>21. ASSUME NEW y \in DOMAIN place' PROVE Open(y)' \/ Served(y)'
  <2>1. CASE y \in Subs(z)
    BY <1>17, <2>1
  <2>2. CASE y = z
    <3>1. place'[z] = place[z] /\ place'[z] \in DOMAIN firstChild'
      BY <1>3, <1>9, <1>10
    <3>2. ASSUME NEW s \in Subs(z)
          PROVE  /\ place'[s] = firstChild'[place'[z]] + Cardinality(Before(s))
                 /\ place'[s] \in DOMAIN parentAddr' /\ parentAddr'[place'[s]] = place'[z]
      <4>1. PICK i \in 1 .. k : q[i] = s
        BY <1>5
      <4>2. Before(s) = {t \in Subs(z) : t < s}
        BY DEF Before, Subs
      <4>3. Cardinality(Before(s)) = i - 1
        <5>1. Subs(z) \subseteq Nat
          BY <1>4
        <5> QED
          BY <1>4, <4>1, <4>2, <5>1, Rank DEF k
      <4>4. firstChild'[place'[z]] = last + 1 /\ last \in Nat
        BY <1>2, <1>4, <1>10, <3>1 DEF Placed
      <4>5. place'[s] = last + i
        BY <1>9, <4>1
      <4>6. last + i = (last + 1) + (i - 1)
        BY <4>4
      <4> QED
        BY <1>11, <3>1, <4>3, <4>4, <4>5, <4>6
    <3> QED
      BY <1>9, <1>12, <2>2, <3>1, <3>2 DEF Served
  <2>3. CASE y \in D /\ y # z /\ Open(y)
    BY <1>17, <2>3
  <2>4. CASE y \in D /\ y # z /\ ~Open(y)
    <3>1. Served(y)
      BY <2>4 DEF TreeInv
    <3>2. place[y] # place[z] /\ place'[y] = place[y]
      BY <1>2, <1>3, <1>9, <2>4 DEF Placed
    <3>3. /\ place'[y] \in DOMAIN firstChild'
          /\ firstChild'[place'[y]] = firstChild[place[y]]
      BY <1>10, <3>1, <3>2 DEF Served
    <3>4. ASSUME NEW s \in Subs(y)
          PROVE  /\ s \in DOMAIN place'
                 /\ place'[s] = firstChild'[place'[y]] + Cardinality(Before(s))
                 /\ place'[s] \in DOMAIN parentAddr' /\ parentAddr'[place'[s]] = place'[y]
      <4>1. /\ s \in D
            /\ place[s] = firstChild[place[y]] + Cardinality(Before(s))
            /\ place[s] \in DOMAIN parentAddr /\ parentAddr[place[s]] = place[y]
        BY <3>1 DEF Served
      <4>2. place'[s] = place[s] /\ s \in DOMAIN place'
        BY <1>9, <4>1
      <4>3. place[s] \in 2 .. last /\ 2 .. last \subseteq 2 .. last + k
        BY <1>2, <1>4, <4>1 DEF TreeInv, Placed
      <4> QED
        BY <1>11, <3>2, <3>3, <4>1, <4>2, <4>3
    <3> QED
      BY <1>12, <3>3, <3>4 DEF Served
  <2> QED
    BY <1>9, <2>1, <2>2, <2>3, <2>4
<1>22. (\E m \in Nat : Shape(m))'
  BY <1>12
<1> QED
  BY <1>13, <1>18, <1>19, <1>20, <1>21, <1>22 DEF TreeInv

-----------------------------------------------------------------------------
(***************************************************************************)
(* The paths of rows and where they lead.                                  *)
(***************************************************************************)

\* What both recursions do for one zone or one position, and up to m.
PathStep(f, z) == IF z = 0 THEN << >> ELSE Append(f[parent[z]], Cardinality(Before(z)))
IsPath(f, m) == f = [z \in 0 .. m |-> PathStep(f, z)]

Go(up, k) ==
  IF up # 0 /\ firstChild[up] + k \in DOMAIN parentAddr /\ parentAddr[firstChild[up] + k] = up
  THEN firstChild[up] + k ELSE 0
AtStep(path, f, i) == IF i = 0 THEN 1 ELSE Go(f[i - 1], path[i])
IsAt(path, f, m) == f = [i \in 0 .. m |-> AtStep(path, f, i)]

LEMMA PathExists ==
  ASSUME NEW n \in Nat, Shape(n)
  PROVE  \E f : IsPath(f, n)
<1> DEFINE T == {k \in Nat : \E f : IsPath(f, k)}
<1>1. 0 \in T
  <2> DEFINE f == [z \in 0 .. 0 |-> << >>]
  <2>1. \A z \in 0 .. 0 : PathStep(f, z) = << >>
    BY DEF PathStep
  <2>2. IsPath(f, 0)
    BY <2>1 DEF IsPath
  <2> QED
    BY <2>2
<1>2. ASSUME NEW k \in 0 .. n - 1, k \in T PROVE k + 1 \in T
  <2>1. k \in Nat /\ k + 1 \in Nat
    BY <1>2
  <2>2. PICK g : IsPath(g, k)
    BY <1>2
  <2> DEFINE f == [z \in 0 .. k + 1 |-> IF z = k + 1 THEN PathStep(g, z) ELSE g[z]]
  <2>3. ASSUME NEW z \in 0 .. k + 1 PROVE f[z] = PathStep(f, z)
    <3>1. z # 0 => parent[z] \in 0 .. k /\ f[parent[z]] = g[parent[z]]
      <4>1. z # 0 => z \in 1 .. n
        BY <2>1
      <4>2. z # 0 => parent[z] \in Nat /\ parent[z] < z
        BY <4>1 DEF Shape
      <4> QED
        BY <2>1, <4>2
    <3>2. PathStep(f, z) = PathStep(g, z)
      <4> HIDE DEF f
      <4> QED
        BY <3>1 DEF PathStep
    <3>3. z # k + 1 => g[z] = PathStep(g, z)
      BY <2>1, <2>2 DEF IsPath
    <3> QED
      BY <3>2, <3>3
  <2>4. f = [z \in 0 .. k + 1 |-> PathStep(f, z)]
    BY <2>3
  <2>5. IsPath(f, k + 1)
    BY <2>4 DEF IsPath
  <2>6. \E h : IsPath(h, k + 1)
    <3> HIDE DEF f
    <3> QED
      BY <2>5
  <2> QED
    BY <2>1, <2>6
<1> HIDE DEF T
<1>3. 0 .. n \subseteq T
  BY <1>1, <1>2, UpTo
<1>4. n \in T
  BY <1>3
<1> QED
  BY <1>4 DEF T

LEMMA PathIs ==
  ASSUME NEW n \in Nat, Shape(n)
  PROVE  IsPath(Tree!PathTo, n)
<1>1. {0} \cup DOMAIN parent = 0 .. n
  BY DEF Shape
<1>2. Tree!PathTo = CHOOSE f : IsPath(f, n)
  BY <1>1, TreeCounts DEF Tree!PathTo, Tree!Zones, IsPath, PathStep, Before
<1> QED
  BY <1>2, PathExists

LEMMA AtExists ==
  ASSUME NEW path, NEW m \in Nat
  PROVE  \E f : IsAt(path, f, m)
<1> DEFINE T == {k \in Nat : \E f : IsAt(path, f, k)}
<1>1. 0 \in T
  <2> DEFINE f == [i \in 0 .. 0 |-> 1]
  <2>1. \A i \in 0 .. 0 : AtStep(path, f, i) = 1
    BY DEF AtStep
  <2>2. IsAt(path, f, 0)
    BY <2>1 DEF IsAt
  <2> QED
    BY <2>2
<1>2. ASSUME NEW k \in 0 .. m - 1, k \in T PROVE k + 1 \in T
  <2>1. k \in Nat /\ k + 1 \in Nat
    BY <1>2
  <2>2. PICK g : IsAt(path, g, k)
    BY <1>2
  <2> DEFINE f == [i \in 0 .. k + 1 |-> IF i = k + 1 THEN AtStep(path, g, i) ELSE g[i]]
  <2>3. ASSUME NEW i \in 0 .. k + 1 PROVE f[i] = AtStep(path, f, i)
    <3>1. i # 0 => i - 1 \in 0 .. k /\ f[i - 1] = g[i - 1]
      BY <2>1
    <3>2. AtStep(path, f, i) = AtStep(path, g, i)
      <4> HIDE DEF f
      <4> QED
        BY <3>1 DEF AtStep
    <3>3. i # k + 1 => g[i] = AtStep(path, g, i)
      BY <2>1, <2>2 DEF IsAt
    <3> QED
      BY <3>2, <3>3
  <2>4. f = [i \in 0 .. k + 1 |-> AtStep(path, f, i)]
    BY <2>3
  <2>5. IsAt(path, f, k + 1)
    BY <2>4 DEF IsAt
  <2>6. \E h : IsAt(path, h, k + 1)
    <3> HIDE DEF f
    <3> QED
      BY <2>5
  <2> QED
    BY <2>1, <2>6
<1> HIDE DEF T
<1>3. 0 .. m \subseteq T
  BY <1>1, <1>2, UpTo
<1>4. m \in T
  BY <1>3
<1> QED
  BY <1>4 DEF T

LEMMA PlaceAtIs ==
  ASSUME NEW path, Len(path) \in Nat
  PROVE  \E f : Tree!PlaceAt(path) = f[Len(path)] /\ IsAt(path, f, Len(path))
<1> DEFINE at == CHOOSE f : IsAt(path, f, Len(path))
<1>1. Tree!PlaceAt(path) = at[Len(path)]
  BY DEF Tree!PlaceAt, IsAt, AtStep, Go
<1>2. IsAt(path, at, Len(path))
  BY AtExists
<1> QED
  BY <1>1, <1>2

LEMMA PlaceAtRoot == Tree!PlaceAt(<< >>) = 1
<1>1. Len(<< >>) = 0
  OBVIOUS
<1>2. PICK f : Tree!PlaceAt(<< >>) = f[0] /\ IsAt(<< >>, f, 0)
  BY <1>1, PlaceAtIs
<1>3. f[0] = 1
  BY <1>2 DEF IsAt, AtStep
<1> QED
  BY <1>2, <1>3

\* A path is followed one position at a time.
LEMMA PlaceAtAppend ==
  ASSUME NEW p \in Seq(Nat), NEW k \in Nat
  PROVE  Tree!PlaceAt(Append(p, k)) = Go(Tree!PlaceAt(p), k)
<1> DEFINE n == Len(p)
           r == Append(p, k)
<1>1. n \in Nat /\ Len(r) = n + 1 /\ r[n + 1] = k /\ \A i \in 1 .. n : r[i] = p[i]
  BY AppendProperties, LenProperties
<1>2. PICK f : Tree!PlaceAt(p) = f[n] /\ IsAt(p, f, n)
  BY <1>1, PlaceAtIs
<1> HIDE DEF r
<1>3. PICK g : Tree!PlaceAt(r) = g[n + 1] /\ IsAt(r, g, n + 1)
  <2>1. Len(r) \in Nat
    BY <1>1
  <2>2. PICK g : Tree!PlaceAt(r) = g[Len(r)] /\ IsAt(r, g, Len(r))
    BY <2>1, PlaceAtIs
  <2> QED
    BY <1>1, <2>2
<1> HIDE DEF n
<1> DEFINE T == {i \in Nat : f[i] = g[i]}
<1>4. 0 \in T
  BY <1>1, <1>2, <1>3 DEF IsAt, AtStep
<1>5. ASSUME NEW i \in 0 .. n - 1, i \in T PROVE i + 1 \in T
  <2>1. i + 1 \in 1 .. n /\ i + 1 \in 0 .. n /\ i + 1 \in 0 .. n + 1 /\ (i + 1) - 1 = i /\ i + 1 \in Nat
    BY <1>1
  <2>a. i + 1 # 0
    BY <1>1
  <2>2. f[i + 1] = Go(f[i], p[i + 1])
    <3>1. f[i + 1] = AtStep(p, f, i + 1)
      BY <1>2, <2>1 DEF IsAt
    <3> QED
      BY <2>1, <2>a, <3>1, Zenon DEF AtStep
  <2>3. g[i + 1] = Go(g[i], r[i + 1])
    <3>1. g[i + 1] = AtStep(r, g, i + 1)
      BY <1>3, <2>1 DEF IsAt
    <3> QED
      BY <2>1, <2>a, <3>1, Zenon DEF AtStep
  <2>4. f[i] = g[i] /\ r[i + 1] = p[i + 1]
    BY <1>1, <1>5, <2>1
  <2> QED
    BY <2>1, <2>2, <2>3, <2>4
<1> HIDE DEF T
<1>6. 0 .. n \subseteq T
  BY <1>1, <1>4, <1>5, UpTo
<1>7. f[n] = g[n]
  BY <1>1, <1>6 DEF T
<1>8. g[n + 1] = Go(g[n], k)
  <2>1. n + 1 \in 0 .. n + 1 /\ n + 1 # 0 /\ (n + 1) - 1 = n
    BY <1>1
  <2> QED
    BY <1>1, <1>3, <2>1 DEF IsAt, AtStep
<1> QED
  BY <1>2, <1>3, <1>7, <1>8 DEF r

\* With nothing left to go into, every zone has its place: a zone without one
\* would be in a zone without one, which comes before it.
LEMMA AllPlaced ==
  ASSUME TreeInv, todo = << >>
  PROVE  DOMAIN place = Zone /\ \A z \in Zone : Served(z)
<1>1. PICK n \in Nat : Shape(n)
  BY DEF TreeInv
<1>2. Zone = 0 .. n
  BY <1>1 DEF Zone, Shape
<1>3. \A z : ~Open(z)
  BY DEF Open
<1>4. DOMAIN place \subseteq Zone /\ 0 \in DOMAIN place /\ \A z \in DOMAIN place : Served(z)
  BY <1>3 DEF TreeInv, Placed
<1>5. ASSUME Zone \ DOMAIN place # {} PROVE FALSE
  <2> DEFINE missing == Zone \ DOMAIN place
  <2>1. missing \subseteq Nat /\ missing # {}
    BY <1>2, <1>5
  <2>2. PICK z \in missing : \A y \in missing : z <= y
    <3> HIDE DEF missing
    <3> QED
      BY <2>1, Least
  <2>3. z \in 1 .. n
    BY <1>2, <1>4, <2>2
  <2>4. parent[z] \in Zone /\ parent[z] \in Nat /\ ~(z <= parent[z])
    BY <1>1, <1>2, <2>3 DEF Shape
  <2>5. parent[z] \in DOMAIN place
    BY <2>2, <2>4
  <2>6. z \in Subs(parent[z])
    BY <1>1, <2>3 DEF Subs, Shape
  <2> QED
    BY <1>4, <2>2, <2>5, <2>6 DEF Served
<1> QED
  BY <1>4, <1>5

\* The path of a zone is the path of the zone it is in and one position more.
LEMMA PathsLead ==
  ASSUME TreeInv, todo = << >>, NEW x \in Zone
  PROVE  Tree!PlaceAt(Tree!PathTo[x]) = place[x]
<1>1. PICK n \in Nat : Shape(n)
  BY DEF TreeInv
<1>2. Zone = 0 .. n
  BY <1>1 DEF Zone, Shape
<1>3. IsPath(Tree!PathTo, n)
  BY <1>1, PathIs
<1> DEFINE Good(z) == Tree!PathTo[z] \in Seq(Nat) /\ Tree!PlaceAt(Tree!PathTo[z]) = place[z]
           bad == {z \in Zone : ~Good(z)}
<1>4. ASSUME bad # {} PROVE FALSE
  <2>1. bad \subseteq Nat
    BY <1>2
  <2>2. PICK z \in bad : \A y \in bad : z <= y
    <3> HIDE DEF bad
    <3> QED
      BY <1>4, <2>1, Least
  <2>3. CASE z = 0
    <3>1. Tree!PathTo[0] = << >>
      BY <1>3 DEF IsPath, PathStep
    <3>2. place[0] = 1
      BY DEF TreeInv, Placed
    <3>3. Good(0)
      BY <3>1, <3>2, PlaceAtRoot
    <3> QED
      BY <2>2, <2>3, <3>3
  <2>4. CASE z # 0
    <3> DEFINE y == parent[z]
               k == Cardinality(Before(z))
    <3>1. z \in 1 .. n /\ z \in 0 .. n
      BY <1>2, <2>2, <2>4
    <3>2. y \in Zone /\ y \in Nat /\ ~(z <= y)
      BY <1>1, <1>2, <3>1 DEF Shape
    <3>3. Good(y)
      BY <2>2, <3>2
    <3>4. Tree!PathTo[z] = Append(Tree!PathTo[y], k)
      BY <1>3, <2>4, <3>1 DEF IsPath, PathStep
    <3>5. k \in Nat
      <4>1. Before(z) \subseteq 1 .. n
        BY <1>1 DEF Before, Shape
      <4>2. IsFiniteSet(Before(z))
        <5>1. IsFiniteSet(1 .. n)
          BY FS_Interval
        <5> QED
          BY <4>1, <5>1, FS_Subset
      <4> QED
        BY <4>2, FS_CardinalityType
    <3>6. Tree!PathTo[z] \in Seq(Nat)
      BY <3>3, <3>4, <3>5
    <3>7. Tree!PlaceAt(Tree!PathTo[z]) = Go(place[y], k)
      BY <3>3, <3>4, <3>5, PlaceAtAppend
    <3>8. z \in Subs(y)
      BY <1>1, <3>1 DEF Subs, Shape
    <3>9. /\ place[z] = firstChild[place[y]] + k
          /\ place[z] \in DOMAIN parentAddr /\ parentAddr[place[z]] = place[y]
      BY <3>2, <3>8, AllPlaced DEF Served
    <3>10. place[y] # 0
      <4>1. place[y] \in 1 .. last /\ last \in Nat
        BY <3>2, AllPlaced DEF TreeInv, Placed
      <4> QED
        BY <4>1
    <3>11. Go(place[y], k) = place[z]
      <4> HIDE DEF y, k
      <4> QED
        BY <3>9, <3>10 DEF Go
    <3> QED
      BY <2>2, <3>6, <3>7, <3>11
  <2> QED
    BY <2>3, <2>4
<1> QED
  BY <1>4

LEMMA AsLongAsZones ==
  ASSUME TreeInv, DOMAIN place = Zone
  PROVE  last = Cardinality(Zone)
<1> DEFINE g == [p \in 1 .. last |-> CHOOSE z \in Zone : place[z] = p]
<1>1. /\ last \in Nat
      /\ \A z \in Zone : place[z] \in 1 .. last
      /\ \A y, z \in Zone : place[y] = place[z] => y = z
      /\ \A p \in 1 .. last : \E z \in Zone : place[z] = p
  BY DEF TreeInv, Placed
<1>2. \A p \in 1 .. last : g[p] \in Zone /\ place[g[p]] = p
  BY <1>1
<1>3. g \in [1 .. last -> Zone]
  BY <1>2
<1> HIDE DEF g
<1>4. \A z \in Zone : g[place[z]] = z
  BY <1>1, <1>2
<1>5. g \in Bijection(1 .. last, Zone)
  BY <1>1, <1>2, <1>3, <1>4 DEF Bijection, Injection, Surjection, IsInjective
<1> QED
  BY <1>1, <1>5, FS_CountingElements DEF ExistsBijection

LEMMA TreeStart == Init => (part = "tree" => TreeInv)
<1> SUFFICES ASSUME Tree!Init PROVE TreeInv
  BY DEF Init
<1>1. \E n \in Nat : Shape(n)
  <2>1. PICK n \in 0 .. MaxZones :
          parent \in [1 .. n -> 0 .. n] /\ \A s \in 1 .. n : parent[s] < s
    BY DEF Tree!Init
  <2>2. n \in Nat /\ parent \in [1 .. n -> Nat]
    BY <2>1
  <2> QED
    BY <2>1, <2>2 DEF Shape
<1>2. todo = <<0>> /\ last = 1 /\ place = [z \in {0} |-> 1] /\ parentAddr = << >>
  BY DEF Tree!Init
<1>3. Placed
  BY <1>2 DEF Placed, Zone
<1>4. ToDo
  BY <1>2 DEF ToDo
<1>5. Open(0)
  BY <1>2 DEF Open
<1>6. DOMAIN parentAddr = 2 .. last
  BY <1>2
<1>7. DOMAIN place = {0}
  BY <1>2
<1> QED
  BY <1>1, <1>3, <1>4, <1>5, <1>6, <1>7 DEF TreeInv

LEMMA TreeStep ==
  ASSUME part = "tree" => TreeInv, [Next]_vars
  PROVE  (part = "tree" => TreeInv)'
<1> SUFFICES ASSUME part' = "tree" PROVE TreeInv'
  OBVIOUS
<1>1. part' = part
  BY DEF Next, vars
<1>2. CASE Tree!Serialize
  BY <1>1, <1>2, TreeServes
<1>3. CASE UNCHANGED treeVars
  <2>1. UNCHANGED <<parent, todo, last, place, firstChild, parentAddr>>
    BY <1>3 DEF treeVars
  <2>2. /\ \A n : Shape(n)' <=> Shape(n)
        /\ Placed' <=> Placed
        /\ ToDo' <=> ToDo
        /\ \A z : Open(z)' <=> Open(z)
    BY <2>1 DEF Shape, Placed, ToDo, Open, Zone
  <2>3. \A z : Served(z)' <=> Served(z)
    <3>1. \A z : Subs(z)' = Subs(z) /\ Before(z)' = Before(z)
      BY <2>1 DEF Subs, Before
    <3> QED
      BY <2>1, <3>1 DEF Served
  <2>4. TreeInv
    BY <1>1
  <2>5. /\ \A z \in DOMAIN place \ {0} : parent[z] \in DOMAIN place /\ ~Open(parent[z])'
        /\ \A z \in DOMAIN place : Open(z)' \/ Served(z)'
    BY <2>1, <2>2, <2>3, <2>4 DEF TreeInv
  <2>6. (\E n \in Nat : Shape(n))' /\ DOMAIN parentAddr' = 2 .. last'
    BY <2>1, <2>2, <2>4 DEF TreeInv
  <2> QED
    BY <2>1, <2>2, <2>4, <2>5, <2>6 DEF TreeInv
<1> QED
  BY <1>1, <1>2, <1>3 DEF Next, Tree!Next, vars

\* Every row leads to the zone it was listed in, whatever the tree of zones is:
\* no two zones share a place and the blob is as long as there are zones.
THEOREM RowsAreLed == Spec => []RowsLeadToTheirZone
<1>1. (part = "tree" => TreeInv) => RowsLeadToTheirZone
  <2> SUFFICES ASSUME TreeInv, todo = << >>
               PROVE  /\ \A z \in Zone : Tree!PlaceAt(Tree!PathTo[z]) = place[z]
                      /\ last = Cardinality(Zone)
                      /\ \A y, z \in Zone : place[y] = place[z] => y = z
    BY TreeCounts DEF RowsLeadToTheirZone, Tree!RowsLeadToTheirZone, Tree!Zones, Zone
  <2>1. DOMAIN place = Zone
    BY AllPlaced
  <2> QED
    BY <2>1, PathsLead, AsLongAsZones DEF TreeInv, Placed
<1>2. (part = "tree" => TreeInv) /\ [Next]_vars => (part = "tree" => TreeInv)'
  BY TreeStep
<1> QED
  BY TreeStart, <1>1, <1>2, PTL DEF Spec
=============================================================================
