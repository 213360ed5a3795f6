---------------------------- MODULE MCBingoSync -----------------------------
(* A small instance of BingoSync. *)
EXTENDS BingoSync, TLC

CONSTANTS p1, p2, p3, t1, t2, v1, v2, k1, k2

\* two players in one team, a third who founds the other
TwoTeams == p1 :> t1 @@ p2 :> t1 @@ p3 :> t2

\* a card of four: either of two states, one of them up to a value, both of them
flag(k) == [kind |-> "bool", key |-> k, least |-> 0]
number(k, n) == [kind |-> "number", key |-> k, least |-> n]
Card == <<1, 1>> :> [parts |-> {flag(k1)}, threshold |-> 1]
     @@ <<1, 2>> :> [parts |-> {flag(k2)}, threshold |-> 1]
     @@ <<2, 1>> :> [parts |-> {flag(k1), number(k2, 1)}, threshold |-> 2]
     @@ <<2, 2>> :> [parts |-> {number(k1, 1), number(k2, 2)}, threshold |-> 2]
Corner == {<<1, 1>>}

\* races for squares; pushes to one viewer that overlap or follow its latest
\* game; two viewers and their sets; a viewer of a team that is founded
Start(lockout, latest, sends, founds, comes, requests, goes) ==
  [lockout |-> lockout, latest |-> latest, updates |-> sends, enrolments |-> founds,
   viewers |-> comes, asks |-> requests, leaves |-> goes]
Scenes == {Start(TRUE, {}, 2, 1, 0, 0, 0), Start(FALSE, Players, 2, 0, 1, 1, 0),
           Start(TRUE, {}, 1, 0, 2, 1, 1), Start(FALSE, Players, 1, 1, 1, 0, 0)}

Alike == Permutations(Viewers)
=============================================================================
