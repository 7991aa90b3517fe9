------------------------------ MODULE MCNumSim ------------------------------
(***************************************************************************)
(* Model checking of NumSim: the lines of two accounts of two brands, two  *)
(* network elements, and North American numbers in two areas.              *)
(***************************************************************************)
EXTENDS NumSim, TLC

CONSTANTS n1, n2, m1, m2, line1, line2, line3, acctOnly, a1, a2, b1, b2, e1, e2, x, y,
          tel

MCNumber == [cc : {NorthAmerica}, area : {x, y}, local : {"5551234"}]
MCSimId == {"893", "893F"}
MCStripped == [id \in MCSimId |-> "893"]
MCBrand == {b1, b2}
MCBrandOf == (a1 :> b1) @@ (a2 :> b1)

\* Lines of telephony of one account, and another account without a service.
MCLines == {line1, line2, line3}
MCService == MCLines \cup {acctOnly}
MCAccountOf == (line1 :> a1) @@ (line2 :> a1) @@ (line3 :> a1) @@ (acctOnly :> a2)
MCTypeOf == (line1 :> tel) @@ (line2 :> tel) @@ (line3 :> tel) @@ (acctOnly :> NoType)

\* Numbers on two network elements, a SIM on one of them and one on none.
MCNumElem == (n1 :> e1) @@ (n2 :> e2)
MCSimElem == (m1 :> e1) @@ (m2 :> NoElem)

\* The lines are alike, and so are the areas.
MCSymmetry == Permutations(MCLines) \cup Permutations({x, y})
=============================================================================
