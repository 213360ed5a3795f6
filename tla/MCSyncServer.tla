---------------------------- MODULE MCSyncServer ----------------------------
(* Small instances of SyncServer. *)
EXTENDS SyncServer, TLC

CONSTANTS p1, p2, g1, g2, t1, t2, s1, s2, h1, k1, k2

Coop1 == k1 :> sync(0, "DIFFERENT")
Coop2 == k1 :> sync(0, "DIFFERENT") @@ k2 :> sync(1, "DIFFERENT")

\* one game with one team of two, players and sockets alike
Game1 == t1 :> g1
Pair == t1 :> {p1, p2}
NoJoins == {}
Alike == Permutations(Players) \cup Permutations(Sockets)

\* two games: the first player has a team in the second game and founds the
\* first game's, or joins it after the other player founded it
Games2 == t1 :> g1 @@ t2 :> g2
Elsewhere == t1 :> {} @@ t2 :> {p1}
Enter == {<<p1, t1>>, <<p2, t1>>}
=============================================================================
