------------------------------ MODULE MCRealtime ------------------------------
(* Model checking of Realtime: a room of two members, a member of two rooms, and *)
(* a member of two registries.                                                   *)
EXTENDS Realtime

CONSTANTS s1, s2, r1, r2, g1, g2

MCPlaces == {<<g1, r1, s1>>, <<g1, r1, s2>>, <<g1, r2, s1>>, <<g2, r1, s1>>}
=============================================================================
