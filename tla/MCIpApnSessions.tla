-------------------------- MODULE MCIpApnSessions --------------------------
(***************************************************************************)
(* Model checking of IpApnSessions: two sessions, two IPs and two APNs.    *)
(* Both IPs start on the first APN, so the second one is NEW.              *)
(***************************************************************************)
EXTENDS IpApnSessions, TLC

CONSTANTS i1, i2, a1, a2, n1, n2, s1, b1, b2

MCIp == {i1, i2}
MCApn == {a1, a2}
MCName == {n1, n2}
MCService == {s1}
MCBrand == {b1, b2}
MCBrandOf == s1 :> b1
MCPlaced == (i1 :> a1) @@ (i2 :> a1)
MCAddressed == (i1 :> 1) @@ (i2 :> 2)
MCNamed == (a1 :> n1) @@ (a2 :> n2)

\* The sessions are alike.
MCSymmetry == Permutations(Session)
=============================================================================
