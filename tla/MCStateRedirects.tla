-------------------------- MODULE MCStateRedirects --------------------------
(* Values of StateRedirects' constants for TLC: the states and the slots are *)
(* interchangeable.                                                          *)
EXTENDS StateRedirects, TLC

Alike == Permutations(States) \cup Permutations(Slots)
=============================================================================
