---------------------------- MODULE MCServerCaches ----------------------------
(***************************************************************************)
(* TLC instance of ServerCaches.                                           *)
(***************************************************************************)
EXTENDS ServerCaches, TLC

CallSymmetry == Permutations(Lookups) \cup Permutations(Updates)

=============================================================================
