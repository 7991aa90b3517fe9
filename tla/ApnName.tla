------------------------------ MODULE ApnName ------------------------------
(***************************************************************************)
(* The DEVICE_ID of a new /device/apn: PCM_OP_APN_POL_DEVICE_CREATE strips *)
(* its blanks in place, in a C string.  IpApn takes its names from here:   *)
(* they are what this module leaves in DEVICE_ID.                          *)
(***************************************************************************)
EXTENDS Naturals, Sequences, SequencesExt

CONSTANTS
  Char,   \* the characters of a name other than a space and a tab
  Blank,  \* a space or a tab
  NUL,    \* the character that ends a C string
  MaxLen  \* bound: the longest DEVICE_ID sent

VARIABLES
  sent,   \* DEVICE_ID in the caller's flist
  id,     \* DEVICE_ID in the flist the policy returns
  result  \* "none" before the call, then "ok" or PIN_ERR_"BAD_VALUE"

vars == <<sent, id, result>>

Strings == BoundedSeq(Char \cup {Blank}, MaxLen)

\* strspn(dev_id, " \t")
LeadingBlanks(str) ==
  SelectInSeq(str \o <<NUL>>, LAMBDA c : c # Blank) - 1

\* The bytes of the buffer from index 1, once the string has been moved over
\* its leading blanks: the tail keeps the bytes it had.
Moved(str) ==
  LET k == LeadingBlanks(str)
      n == Len(str) - k
  IN [p \in 1 .. Len(str) + 1 |->
        IF p <= n THEN str[p + k] ELSE (str \o <<NUL>>)[p]]

\* Mutant of FinalLen: the terminator is written over the last character.
FinalLenCut(str) ==
  LET from == Len(str) - LeadingBlanks(str) + 1
  IN SelectLastInSubSeq(Moved(str), 1, from, LAMBDA c : c \notin {Blank, NUL}) - 2

\* dev_final_len: the C index of the last byte at or before the end of the
\* moved string that is none of " \t\0".
FinalLen(str) ==
  LET from == Len(str) - LeadingBlanks(str) + 1
  IN SelectLastInSubSeq(Moved(str), 1, from, LAMBDA c : c \notin {Blank, NUL}) - 1

Create ==
  /\ result = "none"
  /\ IF LeadingBlanks(sent) = Len(sent)
     THEN /\ id' = sent
          /\ result' = "BAD_VALUE"
     ELSE /\ id' = SubSeq(Moved(sent), 1, FinalLen(sent) + 1)
          /\ result' = IF FinalLen(sent) > 0 THEN "ok" ELSE "BAD_VALUE"
  /\ UNCHANGED sent

Init ==
  /\ sent \in Strings
  /\ id = sent
  /\ result = "none"

Next == Create

Spec == Init /\ [][Next]_vars

-----------------------------------------------------------------------------
\* A name of two characters or more that does not begin with a blank keeps
\* every character up to its last one, blanks inside included.
UnindentedIsKept ==
  (result = "ok" /\ Head(sent) # Blank) =>
     /\ IsPrefix(id, sent)
     /\ \A p \in (Len(id) + 1) .. Len(sent) : sent[p] = Blank

\* What the comments of the code promise: the blanks on the left are removed,
\* so a stored name is a part of the name that was sent.
LeftBlanksAreRemoved ==
  result = "ok" =>
    \E m, n \in 1 .. Len(sent) : id = SubSeq(sent, m, n)
=============================================================================
