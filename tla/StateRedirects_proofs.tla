----------------------- MODULE StateRedirects_proofs ------------------------
(* Proofs about StateRedirects, for any states, values, slots and any number *)
(* of uber states to keep redirects in that is large enough.                 *)
EXTENDS StateRedirects, FiniteSetTheorems, TLAPS

-----------------------------------------------------------------------------
(* What a function of redirects is, and what the operators make of one.      *)

LEMMA ToRedirects ==
  ASSUME NEW S \in SUBSET States, NEW r \in [S -> Values]
  PROVE  r \in Redirects
  BY DEF Redirects

LEMMA FromRedirects ==
  ASSUME NEW r \in Redirects
  PROVE  /\ DOMAIN r \subseteq States
         /\ r \in [DOMAIN r -> Values]
<1>1. PICK S \in SUBSET States : r \in [S -> Values]
  BY DEF Redirects
<1>2. DOMAIN r = S
  BY <1>1
<1> QED
  BY <1>1, <1>2

LEMMA EmptyRedirects == <<>> \in Redirects /\ DOMAIN <<>> = {}
<1>1. <<>> \in [{} -> Values]
  OBVIOUS
<1>2. DOMAIN <<>> = {}
  OBVIOUS
<1> QED
  BY <1>1, <1>2, ToRedirects

LEMMA LoadedOf ==
  ASSUME NEW kept \in Redirects
  PROVE  /\ Loaded(kept) \in Redirects
         /\ DOMAIN Loaded(kept) = {s \in DOMAIN kept : kept[s] # 0}
         /\ \A s \in DOMAIN Loaded(kept) : Loaded(kept)[s] = kept[s]
<1> DEFINE S == {s \in DOMAIN kept : kept[s] # 0}
<1>1. S \in SUBSET States /\ \A s \in S : kept[s] \in Values
  BY FromRedirects
<1>2. Loaded(kept) = [s \in S |-> kept[s]]
  BY DEF Loaded
<1>3. Loaded(kept) \in [S -> Values]
  BY <1>1, <1>2
<1> HIDE DEF S
<1>4. Loaded(kept) \in Redirects
  BY <1>1, <1>3, ToRedirects
<1>5. DOMAIN Loaded(kept) = S /\ \A s \in S : Loaded(kept)[s] = kept[s]
  BY <1>2
<1> QED
  BY <1>4, <1>5 DEF S

(* There is room for all of them, so all are kept. *)
LEMMA KeptOf ==
  ASSUME NEW r \in Redirects
  PROVE  Kept(r) = {r}
<1>1. DOMAIN r \subseteq States
  BY FromRedirects
<1>2. Cardinality(DOMAIN r) <= Cardinality(States) /\ IsFiniteSet(DOMAIN r)
  BY <1>1, RedirectAssumption, FS_Subset
<1>3. Cardinality(DOMAIN r) \in Nat /\ Cardinality(States) \in Nat
  BY <1>2, RedirectAssumption, FS_CardinalityType
<1>4. Cardinality(DOMAIN r) <= Count
  BY <1>2, <1>3, RedirectAssumption
<1> QED
  BY <1>4 DEF Kept

-----------------------------------------------------------------------------
(* The inductive invariant: every copy of the redirects, wherever it lies,   *)
(* holds granted ones only, and what survived a load is in all the copies a  *)
(* death reads from or is followed by.                                       *)

Holds(copy) == \A s \in DOMAIN copy.kept : <<s, copy.kept[s]>> \in copy.granted
Surviving(r) == \A s \in survived : s \in DOMAIN r /\ r[s] # 0

Granted ==
  /\ OnlyGranted
  /\ Holds(progress) /\ Holds(checkpoint)
  /\ \A t \in Slots : Holds(file[t])

Survive == Surviving(redirects) /\ Surviving(progress.kept) /\ Surviving(checkpoint.kept)

-----------------------------------------------------------------------------
(* Types: whatever is registered, saved and loaded, redirects and copies are *)
(* functions of states to values.                                            *)

LEMMA RegisterKeepsType ==
  ASSUME TypeOK, NEW s \in States, NEW v \in Values, Register(s, v)
  PROVE  TypeOK'
<1> DEFINE S == DOMAIN redirects \cup {s}
<1>1. S \in SUBSET States /\ redirects \in [DOMAIN redirects -> Values]
  BY FromRedirects DEF TypeOK
<1>2. redirects' \in [S -> Values]
  BY <1>1 DEF Register
<1>3. redirects' \in Redirects
  BY <1>1, <1>2, ToRedirects
<1>4. progress' \in Progress
  BY DEF TypeOK, Register, Progress
<1> QED
  BY <1>3, <1>4 DEF TypeOK, Register

LEMMA KeepingKeepsType ==
  ASSUME TypeOK, \E kept \in Kept(redirects) : progress' = [progress EXCEPT !.kept = kept]
  PROVE  progress' = [progress EXCEPT !.kept = redirects] /\ progress' \in Progress
<1>1. progress' = [progress EXCEPT !.kept = redirects]
  BY KeptOf DEF TypeOK
<1> QED
  BY <1>1 DEF TypeOK, Progress

LEMMA CopyTypes ==
  ASSUME TypeOK
  PROVE  /\ progress.kept \in Redirects /\ checkpoint.kept \in Redirects
         /\ \A t \in Slots : file[t].kept \in Redirects
  BY DEF TypeOK, Progress

LEMMA FreshType == Fresh \in Progress /\ Fresh.kept = <<>> /\ Fresh.granted = {}
  BY EmptyRedirects DEF Fresh, Progress

LEMMA NextKeepsType == TypeOK /\ [Next]_vars => TypeOK'
<1> SUFFICES ASSUME TypeOK, [Next]_vars
             PROVE  TypeOK'
  OBVIOUS
<1>1. CASE \E s \in States, v \in Values : Register(s, v)
  BY <1>1, RegisterKeepsType
<1>2. CASE Checkpoint
  BY <1>2 DEF TypeOK, Checkpoint
<1>3. CASE Save
  <2>1. progress' \in Progress
    BY <1>3, KeepingKeepsType DEF Save
  <2> QED
    BY <1>3, <2>1 DEF TypeOK, Save
<1>4. CASE Backup
  <2>1. progress' \in Progress
    BY <1>4, KeepingKeepsType DEF Backup
  <2> QED
    BY <1>4, <2>1 DEF TypeOK, Backup
<1>5. CASE RestoreCheckpoint
  <2>1. redirects' \in Redirects /\ DOMAIN redirects' \subseteq States
    BY <1>5, CopyTypes, LoadedOf, FromRedirects DEF RestoreCheckpoint
  <2> QED
    BY <1>5, <2>1 DEF TypeOK, RestoreCheckpoint
<1>6. CASE OnRespawn
  <2>1. redirects' \in Redirects
    BY <1>6, CopyTypes, LoadedOf DEF OnRespawn
  <2> QED
    BY <1>6, <2>1 DEF TypeOK, OnRespawn
<1>7. ASSUME NEW t \in Slots, Load(t) PROVE TypeOK'
  <2>1. redirects' \in Redirects /\ DOMAIN redirects' \subseteq States
    BY <1>7, CopyTypes, LoadedOf, FromRedirects DEF Load
  <2> QED
    BY <1>7, <2>1 DEF TypeOK, Load
<1>8. ASSUME NEW t \in Slots, NewGame(t) PROVE TypeOK'
  <2>1. redirects' \in Redirects
    BY <1>8, EmptyRedirects, LoadedOf DEF NewGame
  <2> QED
    BY <1>8, <2>1, FreshType DEF TypeOK, NewGame
<1>9. CASE UNCHANGED vars
  BY <1>9 DEF TypeOK, vars
<1> QED
  BY <1>1, <1>2, <1>3, <1>4, <1>5, <1>6, <1>7, <1>8, <1>9 DEF Next

(* Redirects, uber states, checkpoint and save files always have their types. *)
THEOREM RedirectTypes == Spec => []TypeOK
<1>1. Init => TypeOK
  BY EmptyRedirects, FreshType DEF Init, TypeOK
<1> QED
  BY <1>1, NextKeepsType, PTL DEF Spec

-----------------------------------------------------------------------------
(* A copy that is loaded brings back granted redirects only. *)
LEMMA LoadedIsGranted ==
  ASSUME NEW copy \in Progress, Holds(copy)
  PROVE  \A s \in DOMAIN Loaded(copy.kept) : <<s, Loaded(copy.kept)[s]>> \in copy.granted
<1>1. copy.kept \in Redirects
  BY DEF Progress
<1> QED
  BY <1>1, LoadedOf DEF Holds

LEMMA NextKeepsGranted == TypeOK /\ Granted /\ [Next]_vars => Granted'
<1> SUFFICES ASSUME TypeOK, Granted, [Next]_vars
             PROVE  Granted'
  OBVIOUS
<1>0. /\ progress \in Progress /\ checkpoint \in Progress
      /\ \A t \in Slots : file[t] \in Progress
  BY DEF TypeOK
<1>a. ASSUME \E kept \in Kept(redirects) : progress' = [progress EXCEPT !.kept = kept]
      PROVE  Holds(progress)' /\ progress'.granted = progress.granted
  <2>1. progress' = [progress EXCEPT !.kept = redirects]
    BY <1>a, KeepingKeepsType
  <2>2. progress'.kept = redirects /\ progress'.granted = progress.granted
    BY <2>1, <1>0 DEF Progress
  <2> QED
    BY <2>2 DEF Granted, OnlyGranted, Holds
<1>1. ASSUME NEW s \in States, NEW v \in Values, Register(s, v) PROVE Granted'
  <2>1. progress'.granted = progress.granted \cup {<<s, v>>} /\ progress'.kept = progress.kept
    BY <1>1, <1>0 DEF Register, Progress
  <2>2. OnlyGranted'
    BY <1>1, <2>1 DEF Granted, OnlyGranted, Register
  <2> QED
    BY <1>1, <2>1, <2>2 DEF Granted, Holds, Register
<1>2. CASE Checkpoint
  BY <1>2 DEF Granted, OnlyGranted, Holds, Checkpoint
<1>3. CASE Save
  <2>1. Holds(progress)' /\ progress'.granted = progress.granted
    BY <1>3, <1>a DEF Save
  <2>2. Holds(checkpoint)' /\ OnlyGranted'
    BY <1>3, <2>1 DEF Save, Granted, OnlyGranted, Holds
  <2>3. ASSUME NEW t \in Slots PROVE Holds(file[t])'
    BY <1>3 DEF Save, Granted, Holds, TypeOK
  <2> QED
    BY <2>1, <2>2, <2>3 DEF Granted
<1>4. CASE Backup
  <2>1. Holds(progress)' /\ progress'.granted = progress.granted
    BY <1>4, <1>a DEF Backup
  <2> QED
    BY <1>4, <2>1 DEF Backup, Granted, OnlyGranted, Holds
<1>5. CASE RestoreCheckpoint
  BY <1>0, <1>5, LoadedIsGranted DEF RestoreCheckpoint, Granted, OnlyGranted, Holds
<1>6. CASE OnRespawn
  BY <1>0, <1>6, LoadedIsGranted DEF OnRespawn, Granted, OnlyGranted, Holds
<1>7. ASSUME NEW t \in Slots, Load(t) PROVE Granted'
  <2>1. \A s \in DOMAIN Loaded(file[t].kept) : <<s, Loaded(file[t].kept)[s]>> \in file[t].granted
    BY <1>0, LoadedIsGranted DEF Granted
  <2> QED
    BY <1>7, <2>1 DEF Load, Granted, OnlyGranted, Holds
<1>8. ASSUME NEW t \in Slots, NewGame(t) PROVE Granted'
  <2>1. Holds(Fresh)
    BY FreshType, EmptyRedirects DEF Holds
  <2>2. DOMAIN redirects' = {}
    BY <1>8, LoadedOf, EmptyRedirects DEF NewGame
  <2>3. ASSUME NEW u \in Slots PROVE Holds(file[u])'
    BY <1>8, <2>1 DEF NewGame, Granted, Holds, TypeOK
  <2> QED
    BY <1>8, <2>1, <2>2, <2>3 DEF NewGame, Granted, OnlyGranted, Holds
<1>9. CASE UNCHANGED vars
  BY <1>9 DEF Granted, OnlyGranted, Holds, vars
<1> QED
  BY <1>1, <1>2, <1>3, <1>4, <1>5, <1>6, <1>7, <1>8, <1>9 DEF Next

(* No redirect of another game is ever in force: each was registered by a    *)
(* pickup that the game being played has been granted.                       *)
THEOREM NeverMixed == Spec => []OnlyGranted
<1>1. Init => Granted
  BY FreshType, EmptyRedirects DEF Init, Granted, OnlyGranted, Holds
<1>2. Granted => OnlyGranted
  BY DEF Granted
<1> QED
  BY <1>1, <1>2, NextKeepsGranted, RedirectTypes, PTL DEF Spec

-----------------------------------------------------------------------------
LEMMA NextKeepsSurvivors == TypeOK /\ Survive /\ [Next]_vars => Survive'
<1> SUFFICES ASSUME TypeOK, Survive, [Next]_vars
             PROVE  Survive'
  OBVIOUS
<1>0. /\ progress \in Progress /\ checkpoint \in Progress
      /\ \A t \in Slots : file[t] \in Progress
  BY DEF TypeOK
<1>a. ASSUME \E kept \in Kept(redirects) : progress' = [progress EXCEPT !.kept = kept]
      PROVE  progress'.kept = redirects
  <2>1. progress' = [progress EXCEPT !.kept = redirects]
    BY <1>a, KeepingKeepsType
  <2> QED
    BY <2>1, <1>0 DEF Progress
<1>b. ASSUME NEW kept \in Redirects
      PROVE  \A s \in DOMAIN Loaded(kept) :
               s \in DOMAIN kept /\ kept[s] # 0 /\ Loaded(kept)[s] # 0
  BY LoadedOf
<1>c. ASSUME NEW kept \in Redirects, Surviving(kept)
      PROVE  survived \subseteq DOMAIN Loaded(kept)
  BY <1>c, LoadedOf DEF Surviving
<1>1. ASSUME NEW s \in States, NEW v \in Values, Register(s, v) PROVE Survive'
  <2>1. progress'.kept = progress.kept
    BY <1>1, <1>0 DEF Register, Progress
  <2>2. Surviving(redirects)'
    BY <1>1 DEF Register, Survive, Surviving
  <2>3. survived' \subseteq survived
    BY <1>1 DEF Register
  <2> QED
    BY <1>1, <2>1, <2>2, <2>3 DEF Register, Survive, Surviving
<1>2. CASE Checkpoint
  BY <1>2 DEF Survive, Surviving, Checkpoint
<1>3. CASE Save
  <2>1. progress'.kept = redirects
    BY <1>3, <1>a DEF Save
  <2> QED
    BY <1>3, <2>1 DEF Survive, Surviving, Save
<1>4. CASE Backup
  <2>1. progress'.kept = redirects
    BY <1>4, <1>a DEF Backup
  <2> QED
    BY <1>4, <2>1 DEF Survive, Surviving, Backup
<1>5. CASE RestoreCheckpoint
  <2>1. checkpoint.kept \in Redirects /\ Surviving(checkpoint.kept)
    BY CopyTypes DEF Survive
  <2>2. survived' = DOMAIN redirects'
    BY <1>5, <1>c, <2>1 DEF RestoreCheckpoint
  <2> QED
    BY <1>5, <1>b, <2>1, <2>2 DEF RestoreCheckpoint, Survive, Surviving
<1>6. CASE OnRespawn
  <2>1. progress.kept \in Redirects /\ Surviving(progress.kept)
    BY CopyTypes DEF Survive
  <2> QED
    BY <1>6, <1>b, <1>c, <2>1 DEF OnRespawn, Survive, Surviving
<1>7. ASSUME NEW t \in Slots, Load(t) PROVE Survive'
  <2>1. file[t].kept \in Redirects
    BY CopyTypes
  <2> QED
    BY <1>7, <1>b, <2>1 DEF Load, Survive, Surviving
<1>8. ASSUME NEW t \in Slots, NewGame(t) PROVE Survive'
  BY <1>8 DEF NewGame, Survive, Surviving
<1>9. CASE UNCHANGED vars
  BY <1>9 DEF Survive, Surviving, vars
<1> QED
  BY <1>1, <1>2, <1>3, <1>4, <1>5, <1>6, <1>7, <1>8, <1>9 DEF Next

(* A redirect that a load brought back survives every death that follows. *)
THEOREM DeathsKeepSurvivors == Spec => []SurvivorsStay
<1>1. Init => Survive
  BY DEF Init, Survive, Surviving
<1>2. Survive => SurvivorsStay
  BY DEF Survive, Surviving, SurvivorsStay
<1> QED
  BY <1>1, <1>2, NextKeepsSurvivors, RedirectTypes, PTL DEF Spec
=============================================================================
