------------------------------ MODULE MCIpApn ------------------------------
(***************************************************************************)
(* Model checking of IpApn: two services of two brands and a service whose *)
(* account has no brand.                                                   *)
(***************************************************************************)
EXTENDS IpApn, TLC

CONSTANTS s1, s2, b1, b2

MCService == {s1, s2}
MCBrand == {b1, b2}
MCBrandOf == (s1 :> b1) @@ (s2 :> NoBrand)

\* Neither addresses, APNs nor APN names have an order.
MCSymmetry == Permutations(Ip) \cup Permutations(Apn) \cup Permutations(Name)
=============================================================================
