----------------------------- MODULE KeptChars -----------------------------
(***************************************************************************)
(* The loop of both canonicalizations: one character after the other is    *)
(* copied, or left out.                                                    *)
(***************************************************************************)
EXTENDS Naturals, Sequences

Kept(s, keep) ==
  LET upTo[n \in 0 .. Len(s)] ==
        IF n = 0 THEN << >>
        ELSE IF s[n] \in keep THEN Append(upTo[n - 1], s[n]) ELSE upTo[n - 1]
  IN upTo[Len(s)]
=============================================================================
