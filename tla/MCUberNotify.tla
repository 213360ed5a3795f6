---------------------------- MODULE MCUberNotify ----------------------------
(***************************************************************************)
(* A seed for UberNotify: the craft cutscene's state and its diamond, the  *)
(* quest of Ku, and another pickup "b" that sets the diamond, whose pickup *)
(* advances the quest, which counts in "b"; resources on the way and a     *)
(* checkpoint at the end of the quest.                                     *)
(***************************************************************************)
EXTENDS UberNotify, TLC

save == [op |-> "save"]
ore == [op |-> "resource"]
setTo(k, v) == [op |-> "set", key |-> k, value |-> v]
more(k) == [op |-> "inc", key |-> k]

\* The pickups of one state: those of any value, and those of the value v.
Of(any, v, grants) ==
    [w \in 0 .. Max |-> IF w = 0 THEN any ELSE IF w = v THEN grants ELSE <<>>]

QuestSeed ==
    "craft" :> Of(<<>>, 3, <<ore>>)
    @@ "diamond" :> Of(<<setTo("ku", 3), ore>>, 0, <<>>)
    @@ "ku" :> Of(<<more("b"), save>>, 0, <<>>)
    @@ "b" :> Of(<<setTo("diamond", 1), ore>>, 0, <<>>)
=============================================================================
