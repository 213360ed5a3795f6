--------------------------- MODULE StateRedirects ---------------------------
(***************************************************************************)
(* Redirects of applied states that a seed's pickups register while the    *)
(* game is played (InjectDLL/uber_states/state_applier.cpp), kept in uber  *)
(* states so that they live in saves, and the hooks of the game's saving   *)
(* and loading that copy them there and back (InjectDLL/system/save.cpp).  *)
(*                                                                         *)
(* The redirects in force are one copy; the uber states of the "appliers"  *)
(* group a second one; checkpoint and save files hold a third and fourth,  *)
(* each together with the other uber states (who was granted what).        *)
(***************************************************************************)
EXTENDS Naturals, FiniteSets

CONSTANTS States,       \* states that can be redirected
          Values,       \* states they can be redirected to, 0 among them or not
          Slots,        \* save slots
          Count         \* APPLIERS_GROUP_COUNT

ASSUME RedirectAssumption ==
    /\ Values \subseteq Nat /\ Count \in Nat
    /\ IsFiniteSet(States) /\ Cardinality(States) <= Count

VARIABLES redirects,    \* dynamic_applier_redirects: a function on the redirected states
          progress,     \* live uber states: [granted |-> pairs registered, kept |-> the appliers group]
          checkpoint,   \* the same, as the last checkpoint has it
          file,         \* slot -> the same, as its save has it
          slot,         \* the slot being played
          respawning,   \* between RestoreCheckpoint and OnRespawn
          survived      \* states whose redirect a load has brought back, for the properties

vars == <<redirects, progress, checkpoint, file, slot, respawning, survived>>

Redirects == UNION {[S -> Values] : S \in SUBSET States}
Fresh == [granted |-> {}, kept |-> <<>>]

(* Mutant: the two states of a redirect are swapped. *)
Kept_swapped(r) == {[v \in {r[s] : s \in DOMAIN r} |-> CHOOSE s \in DOMAIN r : r[s] = v]}

(* save_dynamic_redirects: as many as there are uber states for, in the order  *)
(* of an unordered_map.                                                        *)
Kept(r) ==
    IF Cardinality(DOMAIN r) <= Count THEN {r}
    ELSE {[s \in S |-> r[s]] : S \in {T \in SUBSET DOMAIN r : Cardinality(T) = Count}}

(* Mutant: the map is not cleared first. *)
Loaded_mixed(kept) == [s \in {t \in DOMAIN kept : kept[t] # 0} \cup DOMAIN redirects |->
                         IF s \in DOMAIN kept /\ kept[s] # 0 THEN kept[s] ELSE redirects[s]]

(* load_dynamic_redirects: zero stands for nothing. *)
Loaded(kept) == [s \in {t \in DOMAIN kept : kept[t] # 0} |-> kept[s]]

----------------------------------------------------------------------------
Init ==
    /\ redirects = <<>> /\ progress = Fresh /\ checkpoint = Fresh
    /\ file = [t \in Slots |-> Fresh]
    /\ slot \in Slots
    /\ respawning = FALSE /\ survived = {}

(* A pickup is granted: register_state_redirect. *)
Register(s, v) ==
    /\ redirects' = [t \in DOMAIN redirects \cup {s} |-> IF t = s THEN v ELSE redirects[t]]
    /\ progress' = [progress EXCEPT !.granted = @ \cup {<<s, v>>}]
    /\ survived' = IF v = 0 THEN survived \ {s} ELSE survived
    /\ UNCHANGED <<checkpoint, file, slot, respawning>>

(* CreateCheckpoint without a save. *)
Checkpoint ==
    /\ ~respawning
    /\ checkpoint' = progress
    /\ UNCHANGED <<redirects, progress, file, slot, respawning, survived>>

(* CreateCheckpoint with a save: the bytes SaveToFile is given were made      *)
(* before the hook copies the redirects into the uber states.                 *)
Save ==
    /\ ~respawning
    /\ checkpoint' = progress
    /\ file' = [file EXCEPT ![slot] = progress]
    /\ \E kept \in Kept(redirects) : progress' = [progress EXCEPT !.kept = kept]
    /\ UNCHANGED <<redirects, slot, respawning, survived>>

(* PerformBackup: a copy of the slot's save, which is not read back here. *)
Backup ==
    /\ \E kept \in Kept(redirects) : progress' = [progress EXCEPT !.kept = kept]
    /\ UNCHANGED <<redirects, checkpoint, file, slot, respawning, survived>>

(* Mutant: the hook reads before the original restores. *)
RestoreCheckpoint_early ==
    /\ progress' = checkpoint
    /\ redirects' = Loaded(progress.kept)
    /\ survived' = survived \cup DOMAIN redirects'
    /\ respawning' = TRUE
    /\ UNCHANGED <<checkpoint, file, slot>>

(* Death: RestoreCheckpoint ... *)
RestoreCheckpoint ==
    /\ progress' = checkpoint
    /\ redirects' = Loaded(checkpoint.kept)
    /\ survived' = survived \cup DOMAIN redirects'
    /\ respawning' = TRUE
    /\ UNCHANGED <<checkpoint, file, slot>>

(* ... and OnRespawn, which reads the uber states once more. *)
OnRespawn ==
    /\ respawning
    /\ redirects' = Loaded(progress.kept)
    /\ respawning' = FALSE
    /\ UNCHANGED <<progress, checkpoint, file, slot, survived>>

(* OnFinishedLoading of a slot. *)
Load(t) ==
    /\ slot' = t
    /\ progress' = file[t] /\ checkpoint' = file[t]
    /\ redirects' = Loaded(file[t].kept)
    /\ survived' = DOMAIN redirects'
    /\ respawning' = FALSE
    /\ UNCHANGED file

(* NewGameAction.Perform. *)
NewGame(t) ==
    /\ slot' = t
    /\ progress' = Fresh /\ checkpoint' = Fresh
    /\ file' = [file EXCEPT ![t] = Fresh]
    /\ redirects' = Loaded(<<>>)
    /\ survived' = {}
    /\ respawning' = FALSE

Next ==
    \/ \E s \in States, v \in Values : Register(s, v)
    \/ Checkpoint \/ Save \/ Backup
    \/ RestoreCheckpoint \/ OnRespawn
    \/ \E t \in Slots : Load(t) \/ NewGame(t)

Spec == Init /\ [][Next]_vars

----------------------------------------------------------------------------
Progress == [granted : SUBSET (States \X Values), kept : Redirects]

TypeOK ==
    /\ redirects \in Redirects
    /\ progress \in Progress /\ checkpoint \in Progress
    /\ file \in [Slots -> Progress]
    /\ slot \in Slots /\ respawning \in BOOLEAN /\ survived \subseteq States

(* Whatever is saved, loaded, backed up and died through, in whatever slots:  *)
(* a redirect in force was registered by a pickup this save has been granted. *)
(* The four copies never mix two games (clear in load_dynamic_redirects, the  *)
(* zeros save_dynamic_redirects leaves in unused states).                     *)
OnlyGranted == \A s \in DOMAIN redirects : <<s, redirects[s]>> \in progress.granted

(* A redirect that was in force after a load stays in force through every     *)
(* death that follows, until it is set to zero or a save is loaded.  (One that  *)
(* was registered since the last save but one may be lost: its pickup stays    *)
(* granted and is not granted again.)                                          *)
SurvivorsStay == survived \subseteq DOMAIN redirects
============================================================================
