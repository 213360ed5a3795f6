----------------------------- MODULE UberNotify -----------------------------
(***************************************************************************)
(* What happens on the game's thread when an uber state is set: the hook   *)
(* of set_Value tells the C# side (InjectDLL/uber_states/                  *)
(* uber_state_manager.cpp, RandoMainDLL/UberStateController.cs), which     *)
(* grants the pickups of the state, which set other states and resources   *)
(* through further hooks, before the first hook has returned; and all of   *)
(* it may happen inside a hook of the game's own collecting of a pickup,   *)
(* whose vanilla reward the flag collecting_pickup suppresses              *)
(* (InjectDLL/pickups/), or inside CreateCheckpoint                  *)
(* (InjectDLL/system/save.cpp), which runs an update.                      *)
(*                                                                         *)
(* `stack' is the stack of these calls; one step is what the code on top   *)
(* of it does up to its next call or its return.                           *)
(***************************************************************************)
EXTENDS Naturals, Sequences, FiniteSets

CONSTANTS Keys,         \* uber states
          Synced,       \* those the server asked for
          Max,          \* values are 0 .. Max
          Pickups,      \* key -> value -> grants; value 0: the pickup of any value
          Craft,        \* craftCutsceneState: 1 and 2 become 3 (a key, or no key)
          Diamond,      \* the state that is set with it
          Quest,        \* findKuQuest: a value below QuestMin is reverted
          QuestMin,
          Orbs,         \* states the game sets when it collects a pickup
          MaxGame,      \* bound: how often the game acts of its own accord
          MaxServer,    \* bound: updates the server sends
          MaxDepth      \* the deepest nesting that the rules of Pickups allow

Grants == [op : {"resource", "save"}] \cup [op : {"set"}, key : Keys, value : 0 .. Max]
              \cup [op : {"inc"}, key : Keys]

ASSUME NotifyAssumption ==
    /\ Synced \subseteq Keys /\ Orbs \subseteq Keys
    /\ Max \in Nat /\ Pickups \in [Keys -> [0 .. Max -> Seq(Grants)]]
    /\ Craft \in Keys => Diamond \in Keys /\ Max >= 3
    /\ Craft # Quest

VARIABLES value,        \* the game's uber states
          cache,        \* UberStates of the C# side
          told,         \* what the server was told last
          inbox,        \* UberStateQueue: updates of the server
          full,         \* FullSyncNextUpdate
          collecting,   \* collecting_pickup
          resource,     \* the game's count of, say, ore
          owed,         \* what the grants amount to, for the properties
          overtaken,    \* states set again within their own notification, likewise
          skip,         \* SkipUberStateMapCount: notifications that are to be suppressed
          stack,
          acts, sent    \* counted for the bounds

vars == <<value, cache, told, inbox, full, collecting, resource, owed, overtaken, skip, stack,
          acts, sent>>

(* A call on the stack: the game's collecting, an update with the flag put     *)
(* aside, a notification with the grants that are due.                         *)
Calls == [op : {"collect"}] \cup [op : {"update"}, saved : BOOLEAN]
             \cup [op : {"notify"}, key : Keys, new : 0 .. Max,
                   pc : {"special", "also", "cache", "grant"}, todo : Seq(Grants)]

Top == stack[Len(stack)]
Below == SubSeq(stack, 1, Len(stack) - 1)
Replaced(frame) == Append(Below, frame)
Running(op) == stack # <<>> /\ Top.op = op

(* States whose changes are still to be told, with the value they had then.    *)
Untold(frames) ==
    {frames[i].key : i \in {j \in 1 .. Len(frames) :
                                frames[j].op = "notify" /\ frames[j].pc \in {"cache", "grant"}}}

(* Mutant: a state that keeps its value is a change like any other. *)
Set_always(k, v, frames) ==
    /\ value' = [value EXCEPT ![k] = v]
    /\ stack' = Append(frames, [op |-> "notify", key |-> k, new |-> v, pc |-> "special", todo |-> <<>>])
    /\ overtaken' = IF k \in Untold(frames) THEN overtaken \cup {k} ELSE overtaken

(* The hook of set_Value, called by the topmost of frames: the notification    *)
(* returns at once when the value stays what it was.                           *)
Set(k, v, frames) ==
    /\ value' = [value EXCEPT ![k] = v]
    /\ IF v = value[k] THEN stack' = frames /\ UNCHANGED overtaken
       ELSE /\ stack' = Append(frames, [op |-> "notify", key |-> k, new |-> v,
                                        pc |-> "special", todo |-> <<>>])
            /\ overtaken' = IF k \in Untold(frames) THEN overtaken \cup {k} ELSE overtaken

----------------------------------------------------------------------------
Init ==
    /\ value = [k \in Keys |-> 0] /\ cache = value /\ told = value
    /\ inbox = <<>> /\ full = FALSE
    /\ collecting = FALSE /\ resource = 0 /\ owed = 0 /\ overtaken = {}
    /\ skip = [k \in Keys |-> 0]
    /\ stack = <<>> /\ acts = 0 /\ sent = 0

(* The game itself acts between two calls, or inside the original of a hook.   *)
GameActs == acts < MaxGame /\ acts' = acts + 1

GameSets ==
    /\ GameActs /\ stack = <<>>
    /\ \E k \in Keys, v \in 0 .. Max : Set(k, v, stack)
    /\ UNCHANGED <<cache, told, inbox, full, collecting, resource, owed, skip, sent>>

(* OnCollect...Pickup: the hook raises the flag and calls the original, ...    *)
CollectStarts ==
    /\ GameActs /\ stack = <<>>
    /\ collecting' = TRUE
    /\ stack' = Append(stack, [op |-> "collect"])
    /\ UNCHANGED <<value, cache, told, inbox, full, resource, owed, overtaken, skip, sent>>

(* ... which adds its reward through a setter that is hooked as well, ...      *)
VanillaReward == IF collecting THEN resource ELSE resource + 1

CollectRewards ==
    /\ Running("collect") /\ GameActs
    /\ resource' = VanillaReward
    /\ UNCHANGED <<value, cache, told, inbox, full, collecting, owed, overtaken, skip, stack, sent>>

(* ... sets the uber state of the pickup, ...                                  *)
CollectSets ==
    /\ Running("collect") /\ GameActs
    /\ \E k \in Orbs, v \in 1 .. Max : Set(k, v, stack)
    /\ UNCHANGED <<cache, told, inbox, full, collecting, resource, owed, skip, sent>>

(* ... and returns: the hook lowers the flag.                                  *)
CollectEnds ==
    /\ Running("collect")
    /\ collecting' = FALSE
    /\ stack' = Below
    /\ UNCHANGED <<value, cache, told, inbox, full, resource, owed, overtaken, skip, acts, sent>>

(* CreateCheckpoint, called from the frames below: the flag is put aside while *)
(* on_checkpoint runs UberStateController.Update.                              *)
Checkpoint(frames) ==
    /\ stack' = Append(frames, [op |-> "update", saved |-> collecting])
    /\ collecting' = FALSE

GameCheckpoints ==
    /\ stack = <<>> \/ Running("collect")
    /\ GameActs
    /\ Checkpoint(stack)
    /\ UNCHANGED <<value, cache, told, inbox, full, resource, owed, overtaken, skip, sent>>

(* Randomizer.Update, once a frame.                                            *)
UpdateStarts ==
    /\ stack = <<>> /\ (inbox # <<>> \/ full)
    /\ stack' = Append(stack, [op |-> "update", saved |-> collecting])
    /\ UNCHANGED <<value, cache, told, inbox, full, collecting, resource, owed, overtaken, skip, acts, sent>>

(* Update: the full sync, ...                                                  *)
UpdateSyncs ==
    /\ Running("update") /\ full
    /\ full' = FALSE
    /\ told' = [k \in Keys |-> IF k \in Synced THEN cache[k] ELSE told[k]]
    /\ UNCHANGED <<value, cache, inbox, collecting, resource, owed, overtaken, skip, stack, acts, sent>>

(* ... and what the server has sent.                                           *)
UpdateTakes ==
    /\ Running("update") /\ ~full /\ inbox # <<>>
    /\ inbox' = Tail(inbox)
    /\ LET k == Head(inbox)[1] v == Head(inbox)[2] IN
         IF cache[k] # v THEN Set(k, v, stack) ELSE UNCHANGED <<value, stack, overtaken>>
    /\ UNCHANGED <<cache, told, full, collecting, resource, owed, skip, acts, sent>>

(* Mutant: the checkpoint forgets what it put aside. *)
Restored_no == FALSE
Restored == Top.saved

UpdateEnds ==
    /\ Running("update") /\ ~full /\ inbox = <<>>
    /\ collecting' = Restored
    /\ stack' = Below
    /\ UNCHANGED <<value, cache, told, inbox, full, resource, owed, overtaken, skip, acts, sent>>

----------------------------------------------------------------------------
(* ResolveUberStateChange.                                                     *)

Notify(pc) == Running("notify") /\ Top.pc = pc

(* ShouldRevert: the cached value is written back.                             *)
Revert ==
    /\ Notify("special") /\ Top.key = Quest /\ Top.new < QuestMin
    /\ Set(Quest, cache[Quest], Below)
    /\ UNCHANGED <<cache, told, inbox, full, collecting, resource, owed, skip, acts, sent>>

(* Mutant: the state that is written is a copy of the one that is told. *)
SpecialValue_copied == Top.new

SpecialValue == 3

(* HandleSpecial: Write sets the value of the object it is given, which is the *)
(* state whose change is being resolved.                                       *)
Special ==
    /\ Notify("special") /\ Top.key = Craft /\ Top.new \in 1 .. 2
    /\ Set(Craft, 3, Replaced([Top EXCEPT !.new = SpecialValue, !.pc = "also"]))
    /\ UNCHANGED <<cache, told, inbox, full, collecting, resource, owed, skip, acts, sent>>

SpecialAlso ==
    /\ Notify("also")
    /\ Set(Diamond, 1, Replaced([Top EXCEPT !.pc = "cache"]))
    /\ UNCHANGED <<cache, told, inbox, full, collecting, resource, owed, skip, acts, sent>>

Resolvable ==
    \/ Notify("cache")
    \/ /\ Notify("special")
       /\ ~(Top.key = Quest /\ Top.new < QuestMin)
       /\ ~(Top.key = Craft /\ Top.new \in 1 .. 2)

(* The pickups of the state and of its value. *)
Found == IF Top.new = 0 THEN <<>> ELSE Pickups[Top.key][0] \o Pickups[Top.key][Top.new]

(* UberStates[key].Value = state.Value, and the pickups are due; but where     *)
(* they are suppressed, the notification returns here, and the server is told  *)
(* nothing either.                                                             *)
Resolve ==
    /\ Resolvable
    /\ cache' = [cache EXCEPT ![Top.key] = Top.new]
    /\ IF skip[Top.key] > 0 /\ Found # <<>>
       THEN stack' = Below /\ skip' = [skip EXCEPT ![Top.key] = @ - 1]
       ELSE stack' = Replaced([Top EXCEPT !.pc = "grant", !.todo = Found]) /\ UNCHANGED skip
    /\ UNCHANGED <<value, told, inbox, full, collecting, resource, owed, overtaken, acts, sent>>

Due(op) == Notify("grant") /\ Top.todo # <<>> /\ Head(Top.todo).op = op
Granted == Replaced([Top EXCEPT !.todo = Tail(@)])

(* The helpers (set_max_health, add_energy, ...) put the flag aside while they *)
(* call the hooked setter.                                                     *)
HelperFlag == FALSE

GrantResource ==
    /\ Due("resource")
    /\ resource' = IF HelperFlag THEN resource ELSE resource + 1
    /\ owed' = owed + 1
    /\ stack' = Granted
    /\ UNCHANGED <<value, cache, told, inbox, full, collecting, overtaken, skip, acts, sent>>

(* Mutant: a counter leaves its type. *)
Counted_on(k) == cache[k] + 1

(* UberInc reads the cache; the model's values end at Max. *)
Counted(k) == IF cache[k] = Max THEN Max ELSE cache[k] + 1

(* Mutant: the notification of a state that a pickup sets is suppressed. *)
SupCount_one == 1

(* The seed's pickups are built without a count to suppress; no other are.     *)
SupCount == 0

(* UberStateModifier, and the counters that resources keep. *)
GrantState ==
    /\ \/ /\ Due("set")
          /\ skip' = [skip EXCEPT ![Head(Top.todo).key] = SupCount]
          /\ Set(Head(Top.todo).key, Head(Top.todo).value, Granted)
       \/ /\ Due("inc")
          /\ Set(Head(Top.todo).key, Counted(Head(Top.todo).key), Granted)
          /\ UNCHANGED skip
    /\ UNCHANGED <<cache, told, inbox, full, collecting, resource, owed, acts, sent>>

GrantSave ==
    /\ Due("save")
    /\ Checkpoint(Granted)
    /\ UNCHANGED <<value, cache, told, inbox, full, resource, owed, overtaken, skip, acts, sent>>

(* Client.SendUpdate with the value of this change.                            *)
Tell == told' = IF Top.key \in Synced THEN [told EXCEPT ![Top.key] = Top.new] ELSE told

NotifyEnds ==
    /\ Notify("grant") /\ Top.todo = <<>>
    /\ Tell
    /\ stack' = Below
    /\ UNCHANGED <<value, cache, inbox, full, collecting, resource, owed, overtaken, skip, acts, sent>>

----------------------------------------------------------------------------
(* The socket's thread: an update of the server, a new connection.             *)
ServerSends ==
    /\ sent < MaxServer /\ sent' = sent + 1
    /\ \E k \in Synced, v \in 0 .. Max : inbox' = Append(inbox, <<k, v>>)
    /\ UNCHANGED <<value, cache, told, full, collecting, resource, owed, overtaken, skip, stack, acts>>

Connects ==
    /\ sent < MaxServer /\ sent' = sent + 1
    /\ full' = TRUE
    /\ UNCHANGED <<value, cache, told, inbox, collecting, resource, owed, overtaken, skip, stack, acts>>

Next ==
    \/ GameSets \/ CollectStarts \/ CollectRewards \/ CollectSets \/ CollectEnds
    \/ GameCheckpoints \/ UpdateStarts \/ UpdateSyncs \/ UpdateTakes \/ UpdateEnds
    \/ Revert \/ Special \/ SpecialAlso \/ Resolve
    \/ GrantResource \/ GrantState \/ GrantSave \/ NotifyEnds
    \/ ServerSends \/ Connects

Spec == Init /\ [][Next]_vars

----------------------------------------------------------------------------
TypeOK ==
    /\ {value, cache, told} \subseteq [Keys -> 0 .. Max]
    /\ collecting \in BOOLEAN /\ full \in BOOLEAN
    /\ resource \in Nat /\ owed \in Nat /\ overtaken \subseteq Keys
    /\ skip \in [Keys -> Nat]
    /\ stack \in Seq(Calls) /\ inbox \in Seq(Synced \X (0 .. Max))

(* Exactly what the seed grants arrives: whatever is granted while the game    *)
(* collects something, through however many states and checkpoints, is not     *)
(* suppressed, and the game's own reward always is.                            *)
RewardsExact == resource = owed

(* At rest, the C# side's cache is what the game has: reverts, special cases   *)
(* and states set within their own notification included.  (But not the        *)
(* craft cutscene's state when it is set again while its diamond's pickups     *)
(* are granted, which is before the outer call stores its 3.)                  *)
CacheAgrees ==
    stack = <<>> => \A k \in Keys : cache[k] = value[k] \/ (k = Craft /\ k \in overtaken)

(* At rest, the server was told every state that was not set again within its  *)
(* own notification.  (Such a state is told in the wrong order: the outer call *)
(* sends its older value last.)  Also not told would be a state whose pickups  *)
(* are suppressed: it rests on no pickup of a seed asking for that (SupCount). *)
ToldAgrees == stack = <<>> => \A k \in Synced \ overtaken : told[k] = value[k]

(* States that set each other to fixed values come to an end.                  *)
Bounded == Len(stack) <= MaxDepth
=============================================================================
