--------------------------- MODULE MCCoopSession ---------------------------
(* Small instances of CoopSession. *)
EXTENDS CoopSession, TLC

CONSTANTS p1, p2, g1, t1, s1, s2, s3, k1

Coop1 == k1 :> sync(0, "DIFFERENT")
\* a state that counts from a threshold on
CoopOn2 == k1 :> sync(2, "DIFFERENT")

Game1 == t1 :> g1
Pair == t1 :> {p1, p2}
NoJoins == {}
OneValue == {[changes |-> 2, top |-> 1, faults |-> 0]}
TwoValues == {[changes |-> 2, top |-> 2, faults |-> 0]}
TwoValuesOrAFault == TwoValues \cup {[changes |-> 1, top |-> 1, faults |-> 1]}
Alike == Permutations(Players) \cup Permutations(Sockets)
=============================================================================
