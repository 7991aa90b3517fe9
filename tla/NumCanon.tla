------------------------------ MODULE NumCanon ------------------------------
(***************************************************************************)
(* The canonical form of a telephone number: PCM_OP_NUM_POL_CANONICALIZE.  *)
(* The policy canonicalizes a DEVICE_ID when a number is created, and once *)
(* or twice when it is changed, and compares DEVICE_IDs as strings: the    *)
(* form must not depend on how often it was taken.                         *)
(***************************************************************************)
EXTENDS Naturals, Sequences, SequencesExt, KeptChars

CONSTANTS
  Digit,     \* the digits other than 0
  Letter,    \* what isalpha() accepts
  Ignored,   \* punctuation, and all that is neither a digit nor a letter;
             \* 0, digits, Letter and Ignored are all different
  MinLength, \* PIN_NUM_CANON_MIN_LENGTH, which is more than two
  MaxLength, \* PIN_NUM_CANON_MAX_LENGTH
  MaxSent    \* bound: the longest number sent

VARIABLES
  number, \* the number, canonicalized in place as often as the policy asks
  times,  \* how often: 0, 1 or 2
  result  \* "ok" or PIN_ERR_"CANON_CONV"

vars == <<number, times, result>>

Zero == 0
Symbols == Digit \cup {Zero, Letter, Ignored}

Digits(str) == Kept(str, Digit \cup {Zero})
HasLetter(str) == Letter \in Range(str)

\* Mutant of Padding: the second zero is not looked for.
PaddingAgain(str) == IF str = << >> \/ str[1] # Zero THEN <<Zero, Zero>> ELSE <<Zero>>

\* The zeros put before a number that has not two of them.
Padding(str) ==
  IF str = << >> \/ str[1] # Zero THEN <<Zero, Zero>>
  ELSE IF Len(str) = 1 \/ str[2] # Zero THEN <<Zero>>
  ELSE << >>

LengthIsSupported(str) == Len(str) >= MinLength /\ Len(str) <= MaxLength

Canonicalize ==
  /\ times < 2 /\ result = "ok" /\ number # << >>
  /\ times' = times + 1
  /\ LET digits == Digits(number)
         padded == Padding(digits) \o digits
     IN IF HasLetter(number)
        THEN result' = "CANON_CONV" /\ UNCHANGED number
        ELSE /\ number' = padded
             /\ result' = IF LengthIsSupported(padded) THEN "ok" ELSE "CANON_CONV"

Init ==
  /\ number \in BoundedSeq(Symbols, MaxSent)
  /\ times = 0
  /\ result = "ok"

Next == Canonicalize

Spec == Init /\ [][Next]_vars

-----------------------------------------------------------------------------
\* The canonical form is fixed: what the creation of a number stored is found
\* by the search of another creation, however the number is written.
CanonicalIsFixed ==
  [][times > 0 /\ result = "ok" => number' = number /\ result' = "ok"]_vars
=============================================================================
