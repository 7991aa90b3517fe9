----------------------------- MODULE MCVouchers -----------------------------
(***************************************************************************)
(* Model checking of Vouchers: two orders over three serial numbers, two   *)
(* services of accounts of one brand, and vouchers of two brands.          *)
(***************************************************************************)
EXTENDS Vouchers, TLC

CONSTANTS o1, o2, s1, s2, b1, b2

MCBrandOf == (s1 :> b1) @@ (s2 :> b1)

\* The orders are alike, and so are the services.
MCSymmetry == Permutations({o1, o2}) \cup Permutations({s1, s2})
=============================================================================
