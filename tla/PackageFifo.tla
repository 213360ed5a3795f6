---------------------------- MODULE PackageFifo ----------------------------
(***************************************************************************)
(* What a user of WinNetwork expects of one direction of a connection:     *)
(* packages are said one at a time and heard in the order they were said,  *)
(* each once, one or more at a time, and every package is heard in the end.*)
(***************************************************************************)
EXTENDS Naturals, Sequences

CONSTANT Packages       \* what can be said

VARIABLES pending,      \* said and not yet heard
          heard         \* handed to the other end's event handler

vars == <<pending, heard>>

Init == pending = <<>> /\ heard = <<>>

Say(p) == pending' = Append(pending, p) /\ UNCHANGED heard

Hear(n) ==
    /\ heard' = heard \o SubSeq(pending, 1, n)
    /\ pending' = SubSeq(pending, n + 1, Len(pending))

Next == \/ \E p \in Packages : Say(p)
        \/ \E n \in 1..Len(pending) : Hear(n)

Spec == Init /\ [][Next]_vars /\ WF_vars(\E n \in 1..Len(pending) : Hear(n))
============================================================================
