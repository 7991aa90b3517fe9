--------------------------- MODULE MCZoneMapCache ---------------------------
(***************************************************************************)
(* Model checking of ZoneMapCache.                                         *)
(***************************************************************************)
EXTENDS ZoneMapCache
=============================================================================
