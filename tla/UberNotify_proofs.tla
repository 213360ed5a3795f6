-------------------------- MODULE UberNotify_proofs --------------------------
(***************************************************************************)
(* Proofs about UberNotify, for any uber states, pickups and depth of      *)
(* nested calls.                                                           *)
(***************************************************************************)
EXTENDS UberNotify, SequenceTheorems, TLAPS

IsNotify(f) == f.op = "notify"

(* The flag: what the game sets at stack[1 .. n] is suppressed when the     *)
(* game's collecting of a pickup was not interrupted by an update.          *)
Suppressed(frames, n) ==
  n > 0 /\ frames[1].op = "collect" /\ \A j \in 1 .. n : frames[j].op # "update"

Flagged ==
  /\ collecting <=> Suppressed(stack, Len(stack))
  /\ \A i \in 1 .. Len(stack) :
       /\ stack[i].op = "collect" => i = 1
       /\ stack[i].op = "update" => (stack[i].saved <=> Suppressed(stack, i - 1))

(* Only the last call can be about to look for special cases; the two later *)
(* places of the craft cutscene's state are its, with the 3 that was set;   *)
(* above the first of them is the notification of that 3.                   *)
Shape(frames) ==
  \A i \in 1 .. Len(frames) : IsNotify(frames[i]) =>
    /\ frames[i].pc = "special" => i = Len(frames)
    /\ frames[i].pc \in {"also", "cache"} => frames[i].key = Craft /\ frames[i].new = 3
    /\ frames[i].pc = "also" /\ i < Len(frames) =>
         /\ IsNotify(frames[i + 1]) /\ frames[i + 1].key = Craft /\ frames[i + 1].new = 3
         /\ frames[i + 1].pc \in {"special", "grant"}

(* A state has the value that a notification of it tells, or it was set     *)
(* again within one that goes on.                                           *)
Current(frames) ==
  \A i \in 1 .. Len(frames) : IsNotify(frames[i]) =>
    \/ value[frames[i].key] = frames[i].new
    \/ frames[i].pc # "special" /\ frames[i].key \in overtaken

(* The cache lags behind only by the change that is being looked at. *)
Exempt(k) == k = Craft /\ k \in overtaken
Cached ==
  \A k \in Keys : cache[k] = value[k] \/ Exempt(k) \/ (Notify("special") /\ Top.key = k)

(* The server lags behind the cache only by changes whose pickups are being *)
(* granted.                                                                 *)
Granting(frames, k) ==
  \E i \in 1 .. Len(frames) : IsNotify(frames[i]) /\ frames[i].key = k /\ frames[i].pc = "grant"
Told == \A k \in Synced : k \in overtaken \/ told[k] = cache[k] \/ Granting(stack, k)

Agreeing == Shape(stack) /\ Current(stack) /\ Cached /\ Told

(* No notification is to be suppressed. *)
Unskipped == skip = [k \in Keys |-> 0]

NInv == TypeOK /\ RewardsExact /\ Flagged /\ Agreeing /\ Unskipped

-----------------------------------------------------------------------------
(* The stack.                                                               *)

LEMMA StackFacts ==
  ASSUME TypeOK, stack # <<>>
  PROVE  /\ Len(stack) \in Nat /\ Len(stack) >= 1 /\ Top \in Calls
         /\ Below \in Seq(Calls) /\ Len(Below) = Len(stack) - 1
         /\ \A i \in 1 .. Len(stack) - 1 : Below[i] = stack[i]
         /\ \A f \in Calls :
              /\ Replaced(f) \in Seq(Calls) /\ Len(Replaced(f)) = Len(stack)
              /\ Replaced(f)[Len(stack)] = f
              /\ \A i \in 1 .. Len(stack) - 1 : Replaced(f)[i] = stack[i]
<1>1. stack \in Seq(Calls)
  BY DEF TypeOK
<1>2. Len(stack) \in Nat /\ Len(stack) >= 1 /\ Top \in Calls
  BY <1>1 DEF Top
<1>3. /\ Below \in Seq(Calls) /\ Len(Below) = Len(stack) - 1
      /\ \A i \in 1 .. Len(stack) - 1 : Below[i] = stack[i]
  <2>1. \A i \in 1 .. Len(stack) - 1 : stack[i] \in Calls
    BY <1>1, <1>2
  <2> HIDE DEF Calls
  <2>2. /\ SubSeq(stack, 1, Len(stack) - 1) \in Seq(Calls)
        /\ Len(SubSeq(stack, 1, Len(stack) - 1)) =
             IF 1 <= Len(stack) - 1 THEN (Len(stack) - 1) - 1 + 1 ELSE 0
        /\ \A i \in 1 .. (Len(stack) - 1) - 1 + 1 : SubSeq(stack, 1, Len(stack) - 1)[i] = stack[1 + i - 1]
    BY <1>2, <2>1, SubSeqProperties
  <2>3. (Len(stack) - 1) - 1 + 1 = Len(stack) - 1 /\ \A i \in 1 .. Len(stack) - 1 : 1 + i - 1 = i
    BY <1>2
  <2>4. /\ SubSeq(stack, 1, Len(stack) - 1) \in Seq(Calls)
        /\ Len(SubSeq(stack, 1, Len(stack) - 1)) = Len(stack) - 1
    BY <1>2, <2>2, <2>3
  <2>5. \A i \in 1 .. Len(stack) - 1 : SubSeq(stack, 1, Len(stack) - 1)[i] = stack[i]
    BY <2>2, <2>3
  <2> QED
    BY <2>4, <2>5 DEF Below
<1>4. \A f \in Calls :
        /\ Replaced(f) \in Seq(Calls) /\ Len(Replaced(f)) = Len(stack)
        /\ Replaced(f)[Len(stack)] = f
        /\ \A i \in 1 .. Len(stack) - 1 : Replaced(f)[i] = stack[i]
  <2> TAKE f \in Calls
  <2>1. /\ Append(Below, f) \in Seq(Calls) /\ Len(Append(Below, f)) = Len(Below) + 1
        /\ \A i \in 1 .. Len(Below) : Append(Below, f)[i] = Below[i]
        /\ Append(Below, f)[Len(Below) + 1] = f
    BY <1>3, AppendProperties
  <2> QED
    BY <1>2, <1>3, <2>1 DEF Replaced
<1> QED
  BY <1>2, <1>3, <1>4

LEMMA NotifyFields ==
  ASSUME NEW f \in Calls, IsNotify(f)
  PROVE  /\ f.key \in Keys /\ f.new \in 0 .. Max /\ f.todo \in Seq(Grants)
         /\ f.pc \in {"special", "also", "cache", "grant"}
BY DEF Calls, IsNotify

LEMMA SpecialFields ==
  ASSUME NEW f \in Calls, IsNotify(f), 3 \in 0 .. Max
  PROVE  LET g == [f EXCEPT !.new = SpecialValue, !.pc = "also"]
         IN  g \in Calls /\ IsNotify(g) /\ g.key = f.key /\ g.new = 3 /\ g.pc = "also"
BY DEF Calls, IsNotify, SpecialValue

LEMMA AlsoFields ==
  ASSUME NEW f \in Calls, IsNotify(f)
  PROVE  LET g == [f EXCEPT !.pc = "cache"]
         IN  g \in Calls /\ IsNotify(g) /\ g.key = f.key /\ g.new = f.new /\ g.pc = "cache"
BY DEF Calls, IsNotify

LEMMA GrantFields ==
  ASSUME NEW f \in Calls, IsNotify(f), NEW todo \in Seq(Grants)
  PROVE  LET g == [f EXCEPT !.pc = "grant", !.todo = todo]
         IN  g \in Calls /\ IsNotify(g) /\ g.key = f.key /\ g.new = f.new /\ g.pc = "grant"
BY DEF Calls, IsNotify

LEMMA GrantedFields ==
  ASSUME NEW f \in Calls, IsNotify(f), f.todo # <<>>
  PROVE  LET g == [f EXCEPT !.todo = Tail(@)]
         IN  g \in Calls /\ IsNotify(g) /\ g.key = f.key /\ g.new = f.new /\ g.pc = f.pc
<1>1. Tail(f.todo) \in Seq(Grants)
  <2>1. f.todo \in Seq(Grants)
    BY NotifyFields
  <2> HIDE DEF Grants
  <2> QED
    BY <2>1, HeadTailProperties
<1> DEFINE todo == Tail(f.todo)
<1> HIDE DEF todo
<1>2. LET g == [f EXCEPT !.todo = todo]
      IN  g \in Calls /\ IsNotify(g) /\ g.key = f.key /\ g.new = f.new /\ g.pc = f.pc
  BY <1>1 DEF todo, Calls, IsNotify
<1> QED
  BY <1>2 DEF todo

(* What a call of Set does to the stack *)
LEMMA SetIs ==
  ASSUME NEW frames \in Seq(Calls), NEW k \in Keys, NEW v \in 0 .. Max, Set(k, v, frames),
         value \in [Keys -> 0 .. Max], overtaken \subseteq Keys
  PROVE  /\ value' \in [Keys -> 0 .. Max] /\ overtaken' \subseteq Keys /\ overtaken \subseteq overtaken'
         /\ value'[k] = v /\ \A x \in Keys \ {k} : value'[x] = value[x]
         /\ v = value[k] => stack' = frames
         /\ v # value[k] =>
              /\ Len(stack') = Len(frames) + 1
              /\ \A i \in 1 .. Len(frames) : stack'[i] = frames[i]
              /\ LET f == stack'[Len(frames) + 1]
                 IN  IsNotify(f) /\ f.key = k /\ f.new = v /\ f.pc = "special"
              /\ k \in Untold(frames) => k \in overtaken'
         /\ stack' \in Seq(Calls)
<1> DEFINE f == [op |-> "notify", key |-> k, new |-> v, pc |-> "special", todo |-> <<>>]
<1>1. f \in Calls
  <2>1. <<>> \in Seq(Grants)
    BY EmptySeq
  <2> QED
    BY <2>1 DEF Calls
<1>2. IsNotify(f) /\ f.key = k /\ f.new = v /\ f.pc = "special"
  BY DEF IsNotify
<1>3. /\ value' = [value EXCEPT ![k] = v]
      /\ v = value[k] => stack' = frames /\ overtaken' = overtaken
      /\ v # value[k] => /\ stack' = Append(frames, f)
                         /\ overtaken' = IF k \in Untold(frames) THEN overtaken \cup {k} ELSE overtaken
  BY DEF Set
<1> HIDE DEF f
<1>4. /\ Append(frames, f) \in Seq(Calls) /\ Len(Append(frames, f)) = Len(frames) + 1
      /\ \A i \in 1 .. Len(frames) : Append(frames, f)[i] = frames[i]
      /\ Append(frames, f)[Len(frames) + 1] = f
  BY <1>1, AppendProperties
<1> QED
  BY <1>2, <1>3, <1>4

-----------------------------------------------------------------------------
(* Setting a state, whoever sets it, keeps the server, the cache and the    *)
(* game in agreement: of the frames that call it is only asked that the     *)
(* value is news to none of them that could not tell.                       *)
LEMMA SetAgrees ==
  ASSUME TypeOK, UNCHANGED <<cache, told>>,
         NEW frames \in Seq(Calls), NEW k \in Keys, NEW v \in 0 .. Max, Set(k, v, frames),
         Shape(frames),
         \A i \in 1 .. Len(frames) : IsNotify(frames[i]) =>
           /\ frames[i].pc # "special"
           /\ \/ value[frames[i].key] = frames[i].new \/ frames[i].key \in overtaken
              \/ frames[i].key = k /\ frames[i].new = v
           /\ i = Len(frames) /\ frames[i].pc = "also" => k = Craft /\ v = 3 /\ v # value[k],
         \A x \in Keys : cache[x] = value[x] \/ Exempt(x) \/ (x = k /\ (v # value[k] \/ v = cache[k])),
         \A x \in Synced : x \in overtaken \/ told[x] = cache[x] \/ Granting(frames, x)
  PROVE  Agreeing'
<1>0. value \in [Keys -> 0 .. Max] /\ overtaken \subseteq Keys /\ Len(frames) \in Nat
  BY DEF TypeOK
<1>1. /\ value' \in [Keys -> 0 .. Max] /\ overtaken' \subseteq Keys /\ overtaken \subseteq overtaken'
      /\ value'[k] = v /\ \A x \in Keys \ {k} : value'[x] = value[x]
      /\ v = value[k] => stack' = frames
      /\ v # value[k] =>
           /\ Len(stack') = Len(frames) + 1
           /\ \A i \in 1 .. Len(frames) : stack'[i] = frames[i]
           /\ LET f == stack'[Len(frames) + 1]
              IN  IsNotify(f) /\ f.key = k /\ f.new = v /\ f.pc = "special"
           /\ k \in Untold(frames) => k \in overtaken'
      /\ stack' \in Seq(Calls)
  BY <1>0, SetIs
<1>2. CASE v = value[k]
  <2>1. stack' = frames /\ \A x \in Keys : value'[x] = value[x]
    BY <1>1, <1>2
  <2>2. \A i \in 1 .. Len(frames) : IsNotify(frames[i]) => frames[i].key \in Keys
    BY NotifyFields
  <2>3. Shape(stack)'
    BY <2>1 DEF Shape
  <2>4. Current(stack)'
    BY <1>1, <1>2, <2>1, <2>2 DEF Current
  <2>5. Cached'
    BY <1>1, <1>2, <2>1 DEF Cached, Exempt
  <2>6. Told'
    BY <1>1, <2>1 DEF Told, Granting
  <2> QED
    BY <2>3, <2>4, <2>5, <2>6 DEF Agreeing
<1>3. CASE v # value[k]
  <2> DEFINE n == Len(frames) + 1
  <2>1. /\ Len(stack') = n /\ n \in Nat /\ n >= 1
        /\ \A i \in 1 .. n : i = n \/ (i \in 1 .. Len(frames) /\ stack'[i] = frames[i])
        /\ IsNotify(stack'[n]) /\ stack'[n].key = k /\ stack'[n].new = v /\ stack'[n].pc = "special"
    BY <1>0, <1>1, <1>3
  <2>2. Shape(stack')
    <3> SUFFICES ASSUME NEW i \in 1 .. n, IsNotify(stack'[i])
                 PROVE  /\ stack'[i].pc = "special" => i = n
                        /\ stack'[i].pc \in {"also", "cache"} => stack'[i].key = Craft /\ stack'[i].new = 3
                        /\ stack'[i].pc = "also" /\ i < n =>
                             /\ IsNotify(stack'[i + 1]) /\ stack'[i + 1].key = Craft
                             /\ stack'[i + 1].new = 3 /\ stack'[i + 1].pc \in {"special", "grant"}
      BY <2>1 DEF Shape
    <3>1. CASE i = n
      BY <2>1, <3>1
    <3>2. CASE i # n
      <4>1. i \in 1 .. Len(frames) /\ stack'[i] = frames[i]
        BY <2>1, <3>2
      <4>2. CASE i = Len(frames)
        BY <1>0, <2>1, <4>1, <4>2 DEF Shape
      <4>3. CASE i < Len(frames)
        <5>1. i + 1 \in 1 .. Len(frames) /\ stack'[i + 1] = frames[i + 1]
          BY <1>0, <1>1, <1>3, <4>1, <4>3
        <5> QED
          BY <4>1, <4>3, <5>1 DEF Shape
      <4> QED
        BY <1>0, <4>1, <4>2, <4>3
    <3> QED
      BY <3>1, <3>2
  <2>3. \A i \in 1 .. Len(frames) : IsNotify(frames[i]) /\ frames[i].key = k =>
          frames[i].new = v \/ k \in overtaken'
    <3> SUFFICES ASSUME NEW i \in 1 .. Len(frames), IsNotify(frames[i]), frames[i].key = k,
                        frames[i].new # v
                 PROVE  k \in overtaken'
      OBVIOUS
    <3>1. CASE frames[i].pc \in {"cache", "grant"}
      <4>1. k \in Untold(frames)
        BY <3>1 DEF Untold, IsNotify
      <4> QED
        BY <1>1, <1>3, <4>1
    <3>2. CASE frames[i].pc = "also"
      <4>1. frames[i].new = 3 /\ k = Craft
        BY <3>2 DEF Shape
      <4>2. i < Len(frames)
        BY <1>0, <3>2, <4>1
      <4>3. /\ i + 1 \in 1 .. Len(frames) /\ IsNotify(frames[i + 1]) /\ frames[i + 1].key = Craft
            /\ frames[i + 1].pc = "grant"
        BY <1>0, <3>2, <4>2 DEF Shape
      <4>4. k \in Untold(frames)
        BY <4>1, <4>3 DEF Untold, IsNotify
      <4> QED
        BY <1>1, <1>3, <4>4
    <3> QED
      BY <3>1, <3>2, NotifyFields
  <2>4. Current(stack)'
    <3> SUFFICES ASSUME NEW i \in 1 .. n, IsNotify(stack'[i])
                 PROVE  \/ value'[stack'[i].key] = stack'[i].new
                        \/ stack'[i].pc # "special" /\ stack'[i].key \in overtaken'
      BY <2>1 DEF Current
    <3>1. CASE i = n
      BY <1>1, <2>1, <3>1
    <3>2. CASE i # n
      <4>1. i \in 1 .. Len(frames) /\ stack'[i] = frames[i]
        BY <2>1, <3>2
      <4>2. frames[i].key \in Keys
        BY <4>1, NotifyFields
      <4>3. CASE frames[i].key = k
        BY <1>1, <2>3, <4>1, <4>3
      <4>4. CASE frames[i].key # k
        BY <1>1, <4>1, <4>2, <4>4
      <4> QED
        BY <4>3, <4>4
    <3> QED
      BY <3>1, <3>2
  <2>5. Cached'
    <3>1. Notify("special")' /\ Top'.key = k
      BY <1>0, <2>1 DEF Notify, Running, Top, IsNotify
    <3> QED
      BY <1>1, <3>1 DEF Cached, Exempt
  <2>6. Told'
    <3>1. \A x \in Synced : Granting(frames, x) => Granting(stack, x)'
      BY <1>0, <1>1, <1>3 DEF Granting
    <3> QED
      BY <1>1, <3>1 DEF Told
  <2> QED
    BY <2>2, <2>4, <2>5, <2>6 DEF Agreeing
<1> QED
  BY <1>2, <1>3

(* A call that is no notification comes or goes, or a grant is struck off.  *)
LEMMA StackAgrees ==
  ASSUME TypeOK, Agreeing, UNCHANGED <<value, cache, told, overtaken>>,
         ~ Notify("special"), ~ Notify("also"),
         stack' \in Seq(Calls),
         \A i \in 1 .. Len(stack') : IsNotify(stack'[i]) => i \in 1 .. Len(stack),
         \A i \in 1 .. Len(stack) : IsNotify(stack[i]) => i \in 1 .. Len(stack'),
         \A i \in 1 .. Len(stack) : i \in 1 .. Len(stack') =>
           /\ IsNotify(stack'[i]) <=> IsNotify(stack[i])
           /\ IsNotify(stack[i]) => /\ stack'[i].key = stack[i].key /\ stack'[i].new = stack[i].new
                                    /\ stack'[i].pc = stack[i].pc
  PROVE  Agreeing'
<1>0. Len(stack) \in Nat /\ Len(stack') \in Nat /\ stack \in Seq(Calls)
  BY DEF TypeOK
<1>1. \A i \in 1 .. Len(stack) : IsNotify(stack[i]) =>
        /\ stack[i].pc # "special"
        /\ stack[i].pc = "also" => i < Len(stack)
  <2> SUFFICES ASSUME NEW i \in 1 .. Len(stack), IsNotify(stack[i]), stack[i].pc \in {"special", "also"},
                      i = Len(stack)
               PROVE  FALSE
    BY <1>0 DEF Agreeing, Shape
  <2> QED
    BY <1>0 DEF Notify, Running, Top, IsNotify
<1>2. Shape(stack)'
  <2> SUFFICES ASSUME NEW i \in 1 .. Len(stack'), IsNotify(stack'[i])
               PROVE  /\ stack'[i].pc = "special" => i = Len(stack')
                      /\ stack'[i].pc \in {"also", "cache"} => stack'[i].key = Craft /\ stack'[i].new = 3
                      /\ stack'[i].pc = "also" /\ i < Len(stack') =>
                           /\ IsNotify(stack'[i + 1]) /\ stack'[i + 1].key = Craft
                           /\ stack'[i + 1].new = 3 /\ stack'[i + 1].pc \in {"special", "grant"}
    BY DEF Shape
  <2>1. /\ i \in 1 .. Len(stack) /\ IsNotify(stack[i])
        /\ stack'[i].key = stack[i].key /\ stack'[i].new = stack[i].new /\ stack'[i].pc = stack[i].pc
    OBVIOUS
  <2>2. /\ stack[i].pc # "special"
        /\ stack[i].pc \in {"also", "cache"} => stack[i].key = Craft /\ stack[i].new = 3
    BY <1>1, <2>1 DEF Agreeing, Shape
  <2>3. ASSUME stack[i].pc = "also", i < Len(stack')
        PROVE  /\ IsNotify(stack'[i + 1]) /\ stack'[i + 1].key = Craft
               /\ stack'[i + 1].new = 3 /\ stack'[i + 1].pc \in {"special", "grant"}
    <3>1. i + 1 \in 1 .. Len(stack) /\ i + 1 \in 1 .. Len(stack') /\ i < Len(stack)
      BY <1>0, <1>1, <2>1, <2>3
    <3>2. /\ IsNotify(stack[i + 1]) /\ stack[i + 1].key = Craft
          /\ stack[i + 1].new = 3 /\ stack[i + 1].pc \in {"special", "grant"}
      BY <2>1, <2>3, <3>1 DEF Agreeing, Shape
    <3> QED
      BY <3>1, <3>2
  <2> QED
    BY <2>1, <2>2, <2>3
<1>3. Current(stack)'
  BY DEF Agreeing, Current
<1>4. Cached'
  BY DEF Agreeing, Cached, Exempt
<1>5. Told'
  <2>1. \A x \in Synced : Granting(stack, x) => Granting(stack, x)'
    BY DEF Granting
  <2> QED
    BY <2>1 DEF Agreeing, Told
<1> QED
  BY <1>2, <1>3, <1>4, <1>5 DEF Agreeing

LEMMA FoundIsGrants ==
  ASSUME Top.key \in Keys, Top.new \in 0 .. Max
  PROVE  Found \in Seq(Grants)
<1>1. CASE Top.new = 0
  <2>1. <<>> \in Seq(Grants)
    BY EmptySeq
  <2> QED
    BY <1>1, <2>1 DEF Found
<1>2. CASE Top.new # 0
  <2>1. 0 \in 0 .. Max
    BY NotifyAssumption
  <2>2. Pickups[Top.key][0] \in Seq(Grants) /\ Pickups[Top.key][Top.new] \in Seq(Grants)
    BY <2>1, NotifyAssumption
  <2> HIDE DEF Grants
  <2>3. Pickups[Top.key][0] \o Pickups[Top.key][Top.new] \in Seq(Grants)
    BY <2>2, ConcatProperties
  <2> QED
    BY <1>2, <2>3 DEF Found
<1> QED
  BY <1>1, <1>2

(* No count to suppress is ever set, so a pickup that is found is granted.  *)
LEMMA ResolveGoesOn ==
  ASSUME Unskipped, Resolve, Top.key \in Keys
  PROVE  stack' = Replaced([Top EXCEPT !.pc = "grant", !.todo = Found]) /\ UNCHANGED skip
<1>1. skip[Top.key] = 0
  BY DEF Unskipped
<1>2. ~ (skip[Top.key] > 0)
  BY <1>1
<1> QED
  BY <1>2 DEF Resolve

LEMMA ResolveAgrees ==
  ASSUME TypeOK, Agreeing, Unskipped, Resolve
  PROVE  Agreeing' /\ cache' \in [Keys -> 0 .. Max] /\ stack' \in Seq(Calls)
<1> DEFINE n == Len(stack)
           todo == Found
           f == [Top EXCEPT !.pc = "grant", !.todo = todo]
<1>1. stack # <<>> /\ IsNotify(Top) /\ Top.pc \in {"special", "cache"}
  BY DEF Resolve, Resolvable, Notify, Running, IsNotify
<1>2. /\ n \in Nat /\ n >= 1 /\ Top \in Calls /\ Top = stack[n]
      /\ \A g \in Calls : /\ Replaced(g) \in Seq(Calls) /\ Len(Replaced(g)) = n /\ Replaced(g)[n] = g
                          /\ \A i \in 1 .. n - 1 : Replaced(g)[i] = stack[i]
  BY <1>1, StackFacts DEF Top
<1>3. /\ Top.key \in Keys /\ Top.new \in 0 .. Max /\ value \in [Keys -> 0 .. Max]
      /\ cache \in [Keys -> 0 .. Max]
  BY <1>1, <1>2, NotifyFields DEF TypeOK
<1>4. todo \in Seq(Grants)
  BY <1>3, FoundIsGrants
<1>5. cache' = [cache EXCEPT ![Top.key] = Top.new] /\ UNCHANGED <<value, told, overtaken>>
  BY DEF Resolve
<1>6. stack' = Replaced(f)
  BY <1>3, ResolveGoesOn
<1> HIDE DEF todo
<1>7. f \in Calls /\ IsNotify(f) /\ f.key = Top.key /\ f.new = Top.new /\ f.pc = "grant"
  BY <1>1, <1>2, <1>4, GrantFields
<1> HIDE DEF f
<1>8. /\ stack' \in Seq(Calls) /\ Len(stack') = n /\ stack'[n] = f
      /\ \A i \in 1 .. n : i # n => stack'[i] = stack[i]
  BY <1>2, <1>6, <1>7
<1>9. \A i \in 1 .. n : /\ IsNotify(stack'[i]) <=> IsNotify(stack[i])
                        /\ stack'[i].key = stack[i].key \/ ~ IsNotify(stack[i])
                        /\ stack'[i].new = stack[i].new \/ ~ IsNotify(stack[i])
                        /\ stack'[i].pc = IF i = n THEN "grant" ELSE stack[i].pc
  BY <1>1, <1>2, <1>7, <1>8
<1>10. Shape(stack)'
  <2> SUFFICES ASSUME NEW i \in 1 .. n, IsNotify(stack'[i])
               PROVE  /\ stack'[i].pc = "special" => i = n
                      /\ stack'[i].pc \in {"also", "cache"} => stack'[i].key = Craft /\ stack'[i].new = 3
                      /\ stack'[i].pc = "also" /\ i < n =>
                           /\ IsNotify(stack'[i + 1]) /\ stack'[i + 1].key = Craft
                           /\ stack'[i + 1].new = 3 /\ stack'[i + 1].pc \in {"special", "grant"}
    BY <1>8 DEF Shape
  <2>1. CASE i = n
    BY <1>2, <1>9, <2>1
  <2>2. CASE i # n
    <3>1. i + 1 \in 1 .. n /\ i < n /\ stack'[i] = stack[i]
      BY <1>2, <1>8, <2>2
    <3>2. /\ stack[i].pc # "special"
          /\ stack[i].pc \in {"also", "cache"} => stack[i].key = Craft /\ stack[i].new = 3
          /\ stack[i].pc = "also" => /\ IsNotify(stack[i + 1]) /\ stack[i + 1].key = Craft
                                     /\ stack[i + 1].new = 3 /\ stack[i + 1].pc \in {"special", "grant"}
      BY <1>2, <3>1 DEF Agreeing, Shape
    <3> QED
      BY <1>9, <3>1, <3>2
  <2> QED
    BY <2>1, <2>2
<1>11. /\ value[Top.key] = Top.new \/ (Top.key \in overtaken /\ Top.key = Craft)
  BY <1>1, <1>2 DEF Agreeing, Current, Shape
<1>12. Current(stack)'
  <2> SUFFICES ASSUME NEW i \in 1 .. n, IsNotify(stack'[i])
               PROVE  \/ value[stack'[i].key] = stack'[i].new
                      \/ stack'[i].pc # "special" /\ stack'[i].key \in overtaken
    BY <1>5, <1>8 DEF Current
  <2>1. CASE i = n
    BY <1>7, <1>8, <1>11, <2>1
  <2>2. CASE i # n
    BY <1>8, <2>2 DEF Agreeing, Current
  <2> QED
    BY <2>1, <2>2
<1>13. Cached'
  <2> SUFFICES ASSUME NEW x \in Keys
               PROVE  cache'[x] = value[x] \/ Exempt(x)
    BY <1>5 DEF Cached, Exempt
  <2>1. CASE x = Top.key
    BY <1>3, <1>5, <1>11, <2>1 DEF Exempt
  <2>2. CASE x # Top.key
    BY <1>3, <1>5, <2>2 DEF Agreeing, Cached
  <2> QED
    BY <2>1, <2>2
<1>14. Told'
  <2>1. \A x \in Keys : x = Top.key => Granting(stack, x)'
    BY <1>2, <1>7, <1>8 DEF Granting
  <2>2. \A x \in Keys : Granting(stack, x) => Granting(stack, x)'
    <3> SUFFICES ASSUME NEW x \in Keys, NEW i \in 1 .. n, IsNotify(stack[i]), stack[i].key = x,
                        stack[i].pc = "grant"
                 PROVE  Granting(stack, x)'
      BY DEF Granting
    <3>1. i # n
      BY <1>1, <1>2
    <3> QED
      BY <1>8, <3>1 DEF Granting
  <2>3. \A x \in Synced : x # Top.key => cache'[x] = cache[x]
    BY <1>3, <1>5, NotifyAssumption
  <2> QED
    BY <1>5, <2>1, <2>2, <2>3, NotifyAssumption DEF Agreeing, Told
<1> QED
  BY <1>3, <1>5, <1>8, <1>10, <1>12, <1>13, <1>14 DEF Agreeing

LEMMA NotifyEndsAgrees ==
  ASSUME TypeOK, Agreeing, NotifyEnds
  PROVE  Agreeing' /\ told' \in [Keys -> 0 .. Max] /\ stack' \in Seq(Calls)
<1> DEFINE n == Len(stack)
<1>1. stack # <<>> /\ IsNotify(Top) /\ Top.pc = "grant"
  BY DEF NotifyEnds, Notify, Running, IsNotify
<1>2. /\ n \in Nat /\ n >= 1 /\ Top \in Calls /\ Top = stack[n]
      /\ stack' \in Seq(Calls) /\ Len(stack') = n - 1
      /\ \A i \in 1 .. n - 1 : stack'[i] = stack[i]
  BY <1>1, StackFacts DEF Top, NotifyEnds
<1>3. /\ Top.key \in Keys /\ Top.new \in 0 .. Max
      /\ told \in [Keys -> 0 .. Max]
  BY <1>1, <1>2, NotifyFields DEF TypeOK
<1>4. /\ told' = IF Top.key \in Synced THEN [told EXCEPT ![Top.key] = Top.new] ELSE told
      /\ UNCHANGED <<value, cache, overtaken>>
  BY DEF NotifyEnds, Tell
<1>5. Shape(stack)'
  <2> SUFFICES ASSUME NEW i \in 1 .. n - 1, IsNotify(stack[i])
               PROVE  /\ stack[i].pc # "special"
                      /\ stack[i].pc \in {"also", "cache"} => stack[i].key = Craft /\ stack[i].new = 3
                      /\ stack[i].pc = "also" /\ i < n - 1 =>
                           /\ IsNotify(stack'[i + 1]) /\ stack'[i + 1].key = Craft
                           /\ stack'[i + 1].new = 3 /\ stack'[i + 1].pc \in {"special", "grant"}
    BY <1>2 DEF Shape
  <2>1. /\ stack[i].pc # "special"
        /\ stack[i].pc \in {"also", "cache"} => stack[i].key = Craft /\ stack[i].new = 3
        /\ stack[i].pc = "also" => /\ IsNotify(stack[i + 1]) /\ stack[i + 1].key = Craft
                                   /\ stack[i + 1].new = 3 /\ stack[i + 1].pc \in {"special", "grant"}
    BY <1>2 DEF Agreeing, Shape
  <2>2. i < n - 1 => stack'[i + 1] = stack[i + 1]
    BY <1>2
  <2> QED
    BY <2>1, <2>2
<1>6. Current(stack)'
  BY <1>2, <1>4 DEF Agreeing, Current
<1>7. \A x \in Keys : cache[x] = value[x] \/ Exempt(x)
  BY <1>1 DEF Agreeing, Cached, Notify
<1>8. Cached'
  BY <1>4, <1>7 DEF Cached, Exempt
<1>9. Told'
  <2> SUFFICES ASSUME NEW x \in Synced, x \notin overtaken
               PROVE  told'[x] = cache[x] \/ Granting(stack, x)'
    BY <1>4 DEF Told
  <2>1. x \in Keys
    BY NotifyAssumption
  <2>2. CASE x = Top.key
    <3>1. value[x] = Top.new
      BY <1>1, <1>2, <2>2 DEF Agreeing, Current
    <3>2. cache[x] = value[x]
      BY <1>7, <2>1 DEF Exempt
    <3> QED
      BY <1>3, <1>4, <2>2, <3>1, <3>2
  <2>3. CASE x # Top.key
    <3>1. told'[x] = told[x]
      BY <1>3, <1>4, <2>1, <2>3
    <3>2. told[x] = cache[x] \/ Granting(stack, x)
      BY DEF Agreeing, Told
    <3>3. ASSUME NEW i \in 1 .. n, IsNotify(stack[i]), stack[i].key = x, stack[i].pc = "grant"
          PROVE  Granting(stack, x)'
      <4>1. i \in 1 .. n - 1
        BY <1>2, <2>3, <3>3
      <4> QED
        BY <1>2, <3>3, <4>1 DEF Granting
    <3> QED
      BY <3>1, <3>2, <3>3 DEF Granting
  <2> QED
    BY <2>2, <2>3
<1> QED
  BY <1>2, <1>3, <1>4, <1>5, <1>6, <1>8, <1>9 DEF Agreeing

-----------------------------------------------------------------------------
(* The flag depends on the calls that are no notifications.                 *)
LEMMA FlagKept ==
  ASSUME TypeOK, Flagged, collecting' = collecting, stack' \in Seq(Calls),
         \A i \in 1 .. Len(stack') :
           IF i \in 1 .. Len(stack)
           THEN /\ stack'[i].op = stack[i].op
                /\ stack[i].op = "update" => stack'[i].saved = stack[i].saved
           ELSE stack'[i].op = "notify",
         \A i \in 1 .. Len(stack) : i \notin 1 .. Len(stack') => stack[i].op = "notify"
  PROVE  Flagged'
<1>0. Len(stack) \in Nat /\ Len(stack') \in Nat
  BY DEF TypeOK
<1>1. \A n \in 0 .. Len(stack') : n <= Len(stack) => (Suppressed(stack', n) <=> Suppressed(stack, n))
  BY <1>0 DEF Suppressed
<1>2. Suppressed(stack', Len(stack')) <=> Suppressed(stack, Len(stack))
  BY <1>0 DEF Suppressed
<1>3. \A i \in 1 .. Len(stack') :
        /\ stack'[i].op = "collect" => i = 1
        /\ stack'[i].op = "update" => (stack'[i].saved <=> Suppressed(stack', i - 1))
  <2> SUFFICES ASSUME NEW i \in 1 .. Len(stack')
               PROVE  /\ stack'[i].op = "collect" => i = 1
                      /\ stack'[i].op = "update" => (stack'[i].saved <=> Suppressed(stack', i - 1))
    OBVIOUS
  <2>1. CASE i \in 1 .. Len(stack)
    <3>1. i - 1 \in 0 .. Len(stack') /\ i - 1 <= Len(stack)
      BY <1>0, <2>1
    <3>2. Suppressed(stack', i - 1) <=> Suppressed(stack, i - 1)
      BY <1>1, <3>1
    <3> QED
      BY <2>1, <3>2 DEF Flagged
  <2>2. CASE i \notin 1 .. Len(stack)
    BY <2>2
  <2> QED
    BY <2>1, <2>2
<1> QED
  BY <1>2, <1>3 DEF Flagged

(* What is below or replaced keeps the other calls. *)
LEMMA SetFlags ==
  ASSUME TypeOK, Flagged, collecting' = collecting,
         NEW frames \in Seq(Calls), NEW k \in Keys, NEW v \in 0 .. Max, Set(k, v, frames),
         Len(frames) <= Len(stack),
         \A i \in 1 .. Len(frames) : /\ frames[i].op = stack[i].op
                                     /\ stack[i].op = "update" => frames[i].saved = stack[i].saved,
         \A i \in 1 .. Len(stack) : i > Len(frames) => stack[i].op = "notify",
         Len(stack) <= Len(frames) + 1
  PROVE  Flagged'
<1>0. Len(frames) \in Nat /\ Len(stack) \in Nat /\ value \in [Keys -> 0 .. Max] /\ overtaken \subseteq Keys
  BY DEF TypeOK
<1>1. /\ stack' \in Seq(Calls)
      /\ \/ stack' = frames
         \/ /\ Len(stack') = Len(frames) + 1
            /\ \A i \in 1 .. Len(frames) : stack'[i] = frames[i]
            /\ stack'[Len(frames) + 1].op = "notify"
  BY <1>0, SetIs DEF IsNotify
<1>2. \A i \in 1 .. Len(stack') :
           IF i \in 1 .. Len(stack)
           THEN /\ stack'[i].op = stack[i].op
                /\ stack[i].op = "update" => stack'[i].saved = stack[i].saved
           ELSE stack'[i].op = "notify"
  BY <1>0, <1>1
<1>3. \A i \in 1 .. Len(stack) : i \notin 1 .. Len(stack') => stack[i].op = "notify"
  BY <1>0, <1>1
<1> QED
  BY <1>1, <1>2, <1>3, FlagKept

(* An update is called: the flag is put aside, and lowered by a checkpoint.  *)
LEMMA UpdateFlags ==
  ASSUME TypeOK, Flagged, NEW frames \in Seq(Calls), Len(frames) = Len(stack),
         \A i \in 1 .. Len(frames) : /\ frames[i].op = stack[i].op
                                     /\ stack[i].op = "update" => frames[i].saved = stack[i].saved,
         stack' = Append(frames, [op |-> "update", saved |-> collecting]),
         collecting' = FALSE
  PROVE  Flagged' /\ stack' \in Seq(Calls)
<1> DEFINE f == [op |-> "update", saved |-> collecting]
           n == Len(stack)
<1>0. n \in Nat /\ collecting \in BOOLEAN
  BY DEF TypeOK
<1>1. f \in Calls /\ f.op = "update" /\ f.saved = collecting
  BY <1>0 DEF Calls
<1> HIDE DEF f
<1>2. /\ stack' \in Seq(Calls) /\ Len(stack') = n + 1 /\ stack'[n + 1] = f
      /\ \A i \in 1 .. n : stack'[i] = frames[i]
  BY <1>1, AppendProperties DEF f
<1>3. \A m \in 0 .. n : Suppressed(stack', m) <=> Suppressed(stack, m)
  BY <1>0, <1>2 DEF Suppressed
<1>4. ~ Suppressed(stack', n + 1)
  BY <1>0, <1>1, <1>2 DEF Suppressed
<1>5. \A i \in 1 .. n + 1 :
        /\ stack'[i].op = "collect" => i = 1
        /\ stack'[i].op = "update" => (stack'[i].saved <=> Suppressed(stack', i - 1))
  <2> SUFFICES ASSUME NEW i \in 1 .. n + 1
               PROVE  /\ stack'[i].op = "collect" => i = 1
                      /\ stack'[i].op = "update" => (stack'[i].saved <=> Suppressed(stack', i - 1))
    OBVIOUS
  <2>1. CASE i = n + 1
    <3>1. i - 1 = n
      BY <1>0, <2>1
    <3>2. stack'[i].saved <=> Suppressed(stack, n)
      BY <1>1, <1>2, <2>1 DEF Flagged
    <3> QED
      BY <1>0, <1>1, <1>2, <1>3, <2>1, <3>1, <3>2
  <2>2. CASE i # n + 1
    <3>1. i \in 1 .. n /\ i - 1 \in 0 .. n
      BY <1>0, <2>2
    <3> QED
      BY <1>2, <1>3, <3>1 DEF Flagged
  <2> QED
    BY <2>1, <2>2
<1> QED
  BY <1>2, <1>4, <1>5 DEF Flagged

-----------------------------------------------------------------------------
(* The steps that set a state.                                              *)
LEMMA TypeParts ==
  TypeOK <=> /\ value \in [Keys -> 0 .. Max] /\ cache \in [Keys -> 0 .. Max] /\ told \in [Keys -> 0 .. Max]
             /\ collecting \in BOOLEAN /\ full \in BOOLEAN
             /\ resource \in Nat /\ owed \in Nat /\ overtaken \subseteq Keys
             /\ skip \in [Keys -> Nat]
             /\ stack \in Seq(Calls) /\ inbox \in Seq(Synced \X (0 .. Max))
BY DEF TypeOK

LEMMA SetTypes ==
  ASSUME TypeOK, RewardsExact, NEW frames \in Seq(Calls), NEW k \in Keys, NEW v \in 0 .. Max,
         Set(k, v, frames), UNCHANGED <<cache, told, full, collecting, resource, owed, skip>>,
         inbox' \in Seq(Synced \X (0 .. Max))
  PROVE  TypeOK' /\ RewardsExact'
<1>1. /\ value' \in [Keys -> 0 .. Max] /\ overtaken' \subseteq Keys /\ stack' \in Seq(Calls)
  BY TypeParts, SetIs
<1>2. TypeOK'
  BY <1>1, TypeParts DEF TypeOK
<1> QED
  BY <1>2 DEF RewardsExact

(* The game or an update sets a state: no notification is the last call. *)
LEMMA SetOnTop ==
  ASSUME NInv, ~ Running("notify"), NEW k \in Keys, NEW v \in 0 .. Max, Set(k, v, stack),
         UNCHANGED <<cache, told, full, collecting, resource, owed, skip>>,
         inbox' \in Seq(Synced \X (0 .. Max))
  PROVE  NInv'
<1>0. TypeOK /\ RewardsExact /\ Flagged /\ Agreeing /\ stack \in Seq(Calls) /\ Len(stack) \in Nat
  BY DEF NInv, TypeOK
<1>1. \A i \in 1 .. Len(stack) : IsNotify(stack[i]) => i # Len(stack)
  BY <1>0 DEF Running, Top, IsNotify
<1>2. Agreeing'
  <2>1. \A i \in 1 .. Len(stack) : IsNotify(stack[i]) =>
          /\ stack[i].pc # "special"
          /\ \/ value[stack[i].key] = stack[i].new \/ stack[i].key \in overtaken
             \/ stack[i].key = k /\ stack[i].new = v
          /\ i = Len(stack) /\ stack[i].pc = "also" => k = Craft /\ v = 3 /\ v # value[k]
    BY <1>0, <1>1 DEF Agreeing, Shape, Current
  <2>2. \A x \in Keys : cache[x] = value[x] \/ Exempt(x) \/ (x = k /\ (v # value[k] \/ v = cache[k]))
    BY <1>0 DEF Agreeing, Cached, Notify
  <2>3. \A x \in Synced : x \in overtaken \/ told[x] = cache[x] \/ Granting(stack, x)
    BY <1>0 DEF Agreeing, Told
  <2>4. Shape(stack)
    BY <1>0 DEF Agreeing
  <2> QED
    BY <1>0, <2>1, <2>2, <2>3, <2>4, SetAgrees
<1>3. Flagged'
  BY <1>0, SetFlags
<1>4. TypeOK' /\ RewardsExact'
  BY <1>0, SetTypes
<1> QED
  BY <1>2, <1>3, <1>4 DEF NInv, Unskipped

LEMMA RevertKeeps ==
  ASSUME NInv, Revert
  PROVE  NInv'
<1> DEFINE n == Len(stack)
<1>1. /\ stack # <<>> /\ IsNotify(Top) /\ Top.pc = "special" /\ Top.key = Quest
      /\ Set(Quest, cache[Quest], Below)
      /\ UNCHANGED <<cache, told, inbox, full, collecting, resource, owed, skip>>
  BY DEF Revert, Notify, Running, IsNotify
<1>0. TypeOK /\ RewardsExact /\ Flagged /\ Agreeing
  BY DEF NInv
<1>2. /\ n \in Nat /\ n >= 1 /\ Top \in Calls /\ Top = stack[n]
      /\ Below \in Seq(Calls) /\ Len(Below) = n - 1
      /\ \A i \in 1 .. n - 1 : Below[i] = stack[i]
  BY <1>0, <1>1, StackFacts DEF Top
<1>3. Quest \in Keys /\ cache[Quest] \in 0 .. Max /\ inbox' \in Seq(Synced \X (0 .. Max))
  BY <1>0, <1>1, <1>2, NotifyFields DEF TypeOK
<1>4. Shape(Below)
  <2> SUFFICES ASSUME NEW i \in 1 .. n - 1, IsNotify(stack[i])
               PROVE  /\ stack[i].pc # "special"
                      /\ stack[i].pc \in {"also", "cache"} => stack[i].key = Craft /\ stack[i].new = 3
                      /\ stack[i].pc = "also" /\ i < n - 1 =>
                           /\ IsNotify(Below[i + 1]) /\ Below[i + 1].key = Craft
                           /\ Below[i + 1].new = 3 /\ Below[i + 1].pc \in {"special", "grant"}
    BY <1>2 DEF Shape
  <2>1. /\ stack[i].pc # "special"
        /\ stack[i].pc \in {"also", "cache"} => stack[i].key = Craft /\ stack[i].new = 3
        /\ stack[i].pc = "also" => /\ IsNotify(stack[i + 1]) /\ stack[i + 1].key = Craft
                                   /\ stack[i + 1].new = 3 /\ stack[i + 1].pc \in {"special", "grant"}
    BY <1>0, <1>2 DEF Agreeing, Shape
  <2>2. i < n - 1 => Below[i + 1] = stack[i + 1]
    BY <1>2
  <2> QED
    BY <2>1, <2>2
<1>5. \A i \in 1 .. Len(Below) : IsNotify(Below[i]) =>
        /\ Below[i].pc # "special"
        /\ \/ value[Below[i].key] = Below[i].new \/ Below[i].key \in overtaken
           \/ Below[i].key = Quest /\ Below[i].new = cache[Quest]
        /\ ~ (i = Len(Below) /\ Below[i].pc = "also")
  <2> SUFFICES ASSUME NEW i \in 1 .. n - 1, IsNotify(stack[i])
               PROVE  /\ stack[i].pc # "special"
                      /\ value[stack[i].key] = stack[i].new \/ stack[i].key \in overtaken
                      /\ ~ (i = n - 1 /\ stack[i].pc = "also")
    BY <1>2
  <2>1. stack[i].pc # "special" /\ (value[stack[i].key] = stack[i].new \/ stack[i].key \in overtaken)
    BY <1>0, <1>2 DEF Agreeing, Shape, Current
  <2>2. stack[i].pc = "also" => stack[i + 1].key = Craft
    BY <1>0, <1>2 DEF Agreeing, Shape
  <2>3. i = n - 1 => i + 1 = n
    BY <1>2
  <2> QED
    BY <1>1, <1>2, <2>1, <2>2, <2>3, NotifyAssumption
<1>6. \A x \in Keys : \/ cache[x] = value[x] \/ Exempt(x)
                      \/ x = Quest /\ (cache[Quest] # value[Quest] \/ cache[Quest] = cache[Quest])
  BY <1>0, <1>1 DEF Agreeing, Cached
<1>7. \A x \in Synced : x \in overtaken \/ told[x] = cache[x] \/ Granting(Below, x)
  <2> SUFFICES ASSUME NEW x \in Synced, NEW i \in 1 .. n, IsNotify(stack[i]), stack[i].key = x,
                      stack[i].pc = "grant"
               PROVE  Granting(Below, x)
    BY <1>0 DEF Agreeing, Told, Granting
  <2>1. i \in 1 .. n - 1
    BY <1>1, <1>2
  <2> QED
    BY <1>2, <2>1 DEF Granting
<1>8. Agreeing'
  BY <1>0, <1>1, <1>2, <1>3, <1>4, <1>5, <1>6, <1>7, SetAgrees
<1>9. Flagged'
  <2>1. stack[n].op = "notify"
    BY <1>1, <1>2 DEF IsNotify
  <2>2. \A i \in 1 .. n : i > n - 1 => stack[i].op = "notify"
    BY <1>2, <2>1
  <2>3. n - 1 <= n /\ n <= (n - 1) + 1
    BY <1>2
  <2> QED
    BY <1>0, <1>1, <1>2, <1>3, <2>2, <2>3, SetFlags
<1>10. TypeOK' /\ RewardsExact'
  BY <1>0, <1>1, <1>2, <1>3, SetTypes
<1> QED
  BY <1>1, <1>8, <1>9, <1>10 DEF NInv, Unskipped

(* A notification that sets a state k to v goes on as f. *)
GoesOn(f, k, v) ==
  /\ IsNotify(f) /\ f.key = Top.key /\ f.pc # "special"
  /\ Top.pc = "grant" => f.pc = "grant"
  /\ f.pc \in {"also", "cache"} => f.key = Craft /\ f.new = 3
  /\ Top.pc = "special" => f.pc = "also" /\ Top.key = k
  /\ f.pc = "also" => k = Craft /\ v = 3 /\ v # value[k]
  /\ Top.new = f.new \/ Top.pc = "special"
  /\ value[f.key] = f.new \/ f.key \in overtaken \/ (f.key = k /\ f.new = v)

LEMMA SetWithin ==
  ASSUME NInv, Running("notify"),
         NEW k \in Keys, NEW v \in 0 .. Max, NEW f \in Calls, GoesOn(f, k, v),
         Set(k, v, Replaced(f)),
         UNCHANGED <<cache, told, inbox, full, collecting, resource, owed, skip>>
  PROVE  NInv'
<1> DEFINE n == Len(stack)
           frames == Replaced(f)
<1>0. TypeOK /\ RewardsExact /\ Flagged /\ Agreeing
  BY DEF NInv
<1>1. stack # <<>> /\ IsNotify(Top)
  BY DEF Running, IsNotify
<1> USE DEF GoesOn
<1>2. /\ n \in Nat /\ n >= 1 /\ Top \in Calls /\ Top = stack[n]
      /\ frames \in Seq(Calls) /\ Len(frames) = n /\ frames[n] = f
      /\ \A i \in 1 .. n : i # n => frames[i] = stack[i]
  BY <1>0, <1>1, StackFacts DEF Top
<1> HIDE DEF frames
<1>4. Shape(frames)
  <2> SUFFICES ASSUME NEW i \in 1 .. n, IsNotify(frames[i])
               PROVE  /\ frames[i].pc # "special"
                      /\ frames[i].pc \in {"also", "cache"} => frames[i].key = Craft /\ frames[i].new = 3
                      /\ frames[i].pc = "also" /\ i < n =>
                           /\ IsNotify(frames[i + 1]) /\ frames[i + 1].key = Craft
                           /\ frames[i + 1].new = 3 /\ frames[i + 1].pc \in {"special", "grant"}
    BY <1>2 DEF Shape
  <2>1. CASE i = n
    BY <1>2, <2>1
  <2>2. CASE i # n
    <3>1. frames[i] = stack[i] /\ i + 1 \in 1 .. n /\ i < n
      BY <1>2, <2>2
    <3>2. /\ stack[i].pc # "special"
          /\ stack[i].pc \in {"also", "cache"} => stack[i].key = Craft /\ stack[i].new = 3
          /\ stack[i].pc = "also" => /\ IsNotify(stack[i + 1]) /\ stack[i + 1].key = Craft
                                     /\ stack[i + 1].new = 3 /\ stack[i + 1].pc \in {"special", "grant"}
      BY <1>0, <1>2, <3>1 DEF Agreeing, Shape
    <3>3. CASE i + 1 # n
      BY <1>2, <3>1, <3>2, <3>3
    <3>4. CASE i + 1 = n /\ stack[i].pc # "also"
      BY <3>1, <3>2, <3>4
    <3>5. CASE i + 1 = n /\ stack[i].pc = "also"
      <4>1. Top.key = Craft /\ Top.new = 3 /\ Top.pc \in {"special", "grant"}
        BY <1>2, <3>2, <3>5
      <4>2. Top.pc = "grant"
        <5> SUFFICES ASSUME Top.pc = "special" PROVE FALSE
          BY <4>1
        <5>1. f.pc = "also" /\ k = Craft /\ v = 3 /\ v # value[k]
          OBVIOUS
        <5>2. value[Craft] = 3
          BY <1>0, <1>1, <1>2, <4>1 DEF Agreeing, Current
        <5> QED
          BY <5>1, <5>2
      <4>3. frames[i + 1] = f /\ f.pc = "grant" /\ f.new = 3 /\ f.key = Craft
        BY <1>2, <3>5, <4>1, <4>2
      <4> QED
        BY <3>1, <3>2, <4>3
    <3> QED
      BY <3>3, <3>4, <3>5
  <2> QED
    BY <2>1, <2>2
<1>5. \A i \in 1 .. n : IsNotify(frames[i]) =>
        /\ frames[i].pc # "special"
        /\ \/ value[frames[i].key] = frames[i].new \/ frames[i].key \in overtaken
           \/ frames[i].key = k /\ frames[i].new = v
        /\ i = n /\ frames[i].pc = "also" => k = Craft /\ v = 3 /\ v # value[k]
  <2> SUFFICES ASSUME NEW i \in 1 .. n, IsNotify(frames[i])
               PROVE  /\ frames[i].pc # "special"
                      /\ \/ value[frames[i].key] = frames[i].new \/ frames[i].key \in overtaken
                         \/ frames[i].key = k /\ frames[i].new = v
                      /\ i = n /\ frames[i].pc = "also" => k = Craft /\ v = 3 /\ v # value[k]
    OBVIOUS
  <2>1. CASE i = n
    BY <1>2, <2>1
  <2>2. CASE i # n
    BY <1>0, <1>2, <2>2 DEF Agreeing, Shape, Current
  <2> QED
    BY <2>1, <2>2
<1>6. \A x \in Keys : cache[x] = value[x] \/ Exempt(x) \/ (x = k /\ (v # value[k] \/ v = cache[k]))
  <2> SUFFICES ASSUME Notify("special") PROVE v # value[k]
    BY <1>0 DEF Agreeing, Cached, Notify
  <2> QED
    BY DEF Notify
<1>7. \A x \in Synced : x \in overtaken \/ told[x] = cache[x] \/ Granting(frames, x)
  <2> SUFFICES ASSUME NEW x \in Synced, NEW i \in 1 .. n, IsNotify(stack[i]), stack[i].key = x,
                      stack[i].pc = "grant"
               PROVE  Granting(frames, x)
    BY <1>0 DEF Agreeing, Told, Granting
  <2>1. IsNotify(frames[i]) /\ frames[i].key = x /\ frames[i].pc = "grant"
    BY <1>2
  <2> QED
    BY <1>2, <2>1 DEF Granting
<1>8. Agreeing'
  BY <1>0, <1>2, <1>4, <1>5, <1>6, <1>7, SetAgrees DEF frames
<1>9. Flagged'
  <2>1. stack[n].op = "notify" /\ frames[n].op = "notify"
    BY <1>1, <1>2 DEF IsNotify
  <2>2. \A i \in 1 .. n : /\ frames[i].op = stack[i].op
                          /\ stack[i].op = "update" => frames[i].saved = stack[i].saved
    BY <1>2, <2>1
  <2>3. n <= n /\ n <= n + 1 /\ \A i \in 1 .. n : ~ (i > n)
    BY <1>2
  <2> QED
    BY <1>0, <1>2, <2>2, <2>3, SetFlags DEF frames
<1>10. TypeOK' /\ RewardsExact'
  <2>1. inbox' \in Seq(Synced \X (0 .. Max))
    BY <1>0 DEF TypeOK
  <2> QED
    BY <1>0, <1>2, <2>1, SetTypes DEF frames
<1> QED
  BY <1>1, <1>8, <1>9, <1>10 DEF NInv, Unskipped

LEMMA InboxFacts ==
  ASSUME TypeOK, inbox # <<>>
  PROVE  /\ Head(inbox)[1] \in Keys /\ Head(inbox)[2] \in 0 .. Max
         /\ Tail(inbox) \in Seq(Synced \X (0 .. Max))
<1>1. inbox \in Seq(Synced \X (0 .. Max))
  BY DEF TypeOK
<1>2. Head(inbox) \in Synced \X (0 .. Max) /\ Tail(inbox) \in Seq(Synced \X (0 .. Max))
  BY <1>1, HeadTailProperties
<1> QED
  BY <1>2, NotifyAssumption

LEMMA SetsKeep ==
  ASSUME NInv, GameSets \/ CollectSets \/ UpdateTakes
  PROVE  NInv'
<1>0. TypeOK /\ inbox \in Seq(Synced \X (0 .. Max))
  BY DEF NInv, TypeOK
<1>1. CASE GameSets \/ CollectSets
  <2>1. PICK k \in Keys, v \in 0 .. Max : Set(k, v, stack)
    BY <1>1, NotifyAssumption DEF GameSets, CollectSets
  <2>2. ~ Running("notify") /\ UNCHANGED <<cache, told, full, collecting, resource, owed, skip, inbox>>
    BY <1>1 DEF GameSets, CollectSets, Running
  <2> QED
    BY <1>0, <2>1, <2>2, SetOnTop
<1>2. CASE UpdateTakes
  <2> DEFINE k == Head(inbox)[1]
             v == Head(inbox)[2]
  <2>1. k \in Keys /\ v \in 0 .. Max /\ inbox' \in Seq(Synced \X (0 .. Max))
    BY <1>0, <1>2, InboxFacts DEF UpdateTakes
  <2>2. /\ ~ Running("notify") /\ UNCHANGED <<cache, told, full, collecting, resource, owed, skip>>
        /\ Set(k, v, stack) \/ UNCHANGED <<value, stack, overtaken>>
    BY <1>2 DEF UpdateTakes, Running
  <2>3. CASE Set(k, v, stack)
    BY <2>1, <2>2, <2>3, SetOnTop
  <2>4. CASE UNCHANGED <<value, stack, overtaken>>
    <3>1. TypeOK'
      BY <1>0, <2>1, <2>2, <2>4, TypeParts DEF TypeOK
    <3> QED
      BY <2>2, <2>4, <3>1 DEF NInv, Unskipped, RewardsExact, Flagged, Agreeing, Shape, Current, Cached, Exempt, Notify,
                              Running, Top, Told, Granting
  <2> QED
    BY <2>2, <2>3, <2>4
<1> QED
  BY <1>1, <1>2

LEMMA SpecialKeeps ==
  ASSUME NInv, Special
  PROVE  NInv'
<1> DEFINE f == [Top EXCEPT !.new = SpecialValue, !.pc = "also"]
<1>0. TypeOK /\ Agreeing
  BY DEF NInv
<1>1. /\ Running("notify") /\ stack # <<>> /\ IsNotify(Top) /\ Top.pc = "special"
      /\ Top.key = Craft /\ Top.new \in 1 .. 2
      /\ Set(Craft, 3, Replaced(f)) /\ UNCHANGED <<cache, told, inbox, full, collecting, resource, owed, skip>>
  BY DEF Special, Notify, Running, IsNotify
<1>2. Top \in Calls /\ Top = stack[Len(stack)] /\ Len(stack) \in 1 .. Len(stack)
  BY <1>0, <1>1, StackFacts DEF Top
<1>3. Craft \in Keys /\ 3 \in 0 .. Max
  BY <1>1, <1>2, NotifyFields, NotifyAssumption
<1>4. f \in Calls /\ IsNotify(f) /\ f.key = Craft /\ f.new = 3 /\ f.pc = "also"
  BY <1>1, <1>2, <1>3, SpecialFields
<1>5. value[Craft] = Top.new
  BY <1>0, <1>1, <1>2 DEF Agreeing, Current
<1>6. 3 # value[Craft]
  BY <1>1, <1>5
<1>7. Set(Craft, 3, Replaced(f))
  BY <1>1
<1> HIDE DEF f
<1>8. GoesOn(f, Craft, 3)
  BY <1>1, <1>4, <1>6 DEF GoesOn
<1> QED
  BY <1>1, <1>3, <1>4, <1>7, <1>8, SetWithin

LEMMA SpecialAlsoKeeps ==
  ASSUME NInv, SpecialAlso
  PROVE  NInv'
<1> DEFINE f == [Top EXCEPT !.pc = "cache"]
<1>0. TypeOK /\ Agreeing
  BY DEF NInv
<1>1. /\ Running("notify") /\ stack # <<>> /\ IsNotify(Top) /\ Top.pc = "also"
      /\ Set(Diamond, 1, Replaced(f)) /\ UNCHANGED <<cache, told, inbox, full, collecting, resource, owed, skip>>
  BY DEF SpecialAlso, Notify, Running, IsNotify
<1>2. Top \in Calls /\ Top = stack[Len(stack)] /\ Len(stack) \in 1 .. Len(stack)
  BY <1>0, <1>1, StackFacts DEF Top
<1>3. Top.key = Craft /\ Top.new = 3 /\ (value[Top.key] = Top.new \/ Top.key \in overtaken)
  BY <1>0, <1>1, <1>2 DEF Agreeing, Shape, Current
<1>4. Diamond \in Keys /\ 1 \in 0 .. Max
  BY <1>1, <1>2, <1>3, NotifyFields, NotifyAssumption
<1>5. f \in Calls /\ IsNotify(f) /\ f.key = Top.key /\ f.new = Top.new /\ f.pc = "cache"
  BY <1>1, <1>2, AlsoFields
<1> HIDE DEF f
<1>6. GoesOn(f, Diamond, 1)
  BY <1>1, <1>3, <1>5 DEF GoesOn
<1>7. Set(Diamond, 1, Replaced(f))
  BY <1>1 DEF f
<1> QED
  BY <1>1, <1>4, <1>5, <1>6, <1>7, SetWithin

(* A grant is struck off. *)
LEMMA DueFacts ==
  ASSUME TypeOK, NEW op, Due(op)
  PROVE  LET f == [Top EXCEPT !.todo = Tail(@)]
         IN  /\ stack # <<>> /\ IsNotify(Top) /\ Top.pc = "grant" /\ Top = stack[Len(stack)]
             /\ Top \in Calls /\ Head(Top.todo) \in Grants /\ Head(Top.todo).op = op
             /\ f \in Calls /\ IsNotify(f) /\ f.key = Top.key /\ f.new = Top.new /\ f.pc = "grant"
             /\ Granted = Replaced(f)
<1>1. stack # <<>> /\ IsNotify(Top) /\ Top.pc = "grant" /\ Top.todo # <<>> /\ Head(Top.todo).op = op
  BY DEF Due, Notify, Running, IsNotify
<1>2. Top \in Calls /\ Top = stack[Len(stack)]
  BY <1>1, StackFacts DEF Top
<1>3. Head(Top.todo) \in Grants
  <2>1. Top.todo \in Seq(Grants)
    BY <1>1, <1>2, NotifyFields
  <2> HIDE DEF Grants
  <2> QED
    BY <1>1, <2>1, HeadTailProperties
<1>4. LET f == [Top EXCEPT !.todo = Tail(@)]
      IN  f \in Calls /\ IsNotify(f) /\ f.key = Top.key /\ f.new = Top.new /\ f.pc = Top.pc
  BY <1>1, <1>2, GrantedFields
<1> QED
  BY <1>1, <1>2, <1>3, <1>4 DEF Granted

LEMMA SkipStays ==
  ASSUME TypeOK, Unskipped, GrantState
  PROVE  UNCHANGED skip
<1>1. CASE Due("set") /\ skip' = [skip EXCEPT ![Head(Top.todo).key] = SupCount]
  <2>1. Head(Top.todo) \in Grants /\ Head(Top.todo).op = "set"
    BY <1>1, DueFacts
  <2>2. Head(Top.todo).key \in Keys
    BY <2>1 DEF Grants
  <2> QED
    BY <1>1, <2>2 DEF Unskipped, SupCount
<1> QED
  BY <1>1 DEF GrantState

LEMMA GrantStateKeeps ==
  ASSUME NInv, GrantState
  PROVE  NInv'
<1> DEFINE f == [Top EXCEPT !.todo = Tail(@)]
           g == Head(Top.todo)
<1>0. TypeOK /\ Agreeing
  BY DEF NInv
<1>1. /\ Due("set") \/ Due("inc")
      /\ UNCHANGED <<cache, told, inbox, full, collecting, resource, owed, skip>>
  BY SkipStays DEF GrantState, NInv
<1>2. /\ stack # <<>> /\ IsNotify(Top) /\ Top.pc = "grant" /\ Top = stack[Len(stack)]
      /\ Top \in Calls /\ g \in Grants
      /\ f \in Calls /\ IsNotify(f) /\ f.key = Top.key /\ f.new = Top.new /\ f.pc = "grant"
      /\ Granted = Replaced(f)
      /\ Running("notify")
  BY <1>0, <1>1, DueFacts DEF Running, IsNotify
<1>3. Len(stack) \in 1 .. Len(stack)
  BY <1>0, <1>2, StackFacts
<1>4. PICK k \in Keys, v \in 0 .. Max : Set(k, v, Granted)
  <2>1. CASE Due("set") /\ Set(g.key, g.value, Granted)
    <3>1. g.op = "set"
      BY <2>1 DEF Due
    <3>2. g.key \in Keys /\ g.value \in 0 .. Max
      BY <1>2, <3>1 DEF Grants
    <3> QED
      BY <2>1, <3>2
  <2>2. CASE Due("inc") /\ Set(g.key, Counted(g.key), Granted)
    <3>1. g.op = "inc"
      BY <2>2 DEF Due
    <3>2. g.key \in Keys
      BY <1>2, <3>1 DEF Grants
    <3>3. cache[g.key] \in 0 .. Max
      BY <1>0, <3>2 DEF TypeOK
    <3>4. Counted(g.key) \in 0 .. Max
      BY <3>3, NotifyAssumption DEF Counted
    <3> QED
      BY <2>2, <3>2, <3>4
  <2> QED
    BY <2>1, <2>2 DEF GrantState
<1>5. value[Top.key] = Top.new \/ Top.key \in overtaken
  BY <1>0, <1>2, <1>3 DEF Agreeing, Current
<1> HIDE DEF f, g
<1>6. GoesOn(f, k, v)
  BY <1>2, <1>5 DEF GoesOn
<1>7. Set(k, v, Replaced(f))
  BY <1>2, <1>4
<1> QED
  BY <1>1, <1>2, <1>4, <1>6, <1>7, SetWithin

-----------------------------------------------------------------------------
(* Calls that are no notifications come and go.                             *)

(* frames are the calls of the stack, but for the grants that are due: a    *)
(* call that is none of a notification is put on top of them, or nothing.   *)
LEMMA PushAgrees ==
  ASSUME TypeOK, Agreeing, UNCHANGED <<value, cache, told, overtaken>>,
         ~ Notify("special"), ~ Notify("also"),
         NEW frames \in Seq(Calls), Len(frames) = Len(stack),
         \A i \in 1 .. Len(stack) :
           /\ IsNotify(frames[i]) <=> IsNotify(stack[i])
           /\ IsNotify(stack[i]) => /\ frames[i].key = stack[i].key /\ frames[i].new = stack[i].new
                                    /\ frames[i].pc = stack[i].pc,
         NEW f \in Calls, ~ IsNotify(f),
         stack' = frames \/ stack' = Append(frames, f)
  PROVE  Agreeing' /\ stack' \in Seq(Calls)
<1>0. Len(stack) \in Nat
  BY DEF TypeOK
<1>1. /\ stack' \in Seq(Calls) /\ Len(stack') \in Len(stack) .. Len(stack) + 1
      /\ \A i \in 1 .. Len(stack) : stack'[i] = frames[i]
      /\ \A i \in 1 .. Len(stack') : i \in 1 .. Len(stack) \/ stack'[i] = f
  <2>1. /\ Append(frames, f) \in Seq(Calls) /\ Len(Append(frames, f)) = Len(frames) + 1
        /\ \A i \in 1 .. Len(frames) : Append(frames, f)[i] = frames[i]
        /\ Append(frames, f)[Len(frames) + 1] = f
    BY AppendProperties
  <2> QED
    BY <1>0, <2>1
<1>2. \A i \in 1 .. Len(stack) : i \in 1 .. Len(stack')
  BY <1>0, <1>1
<1>3. \A i \in 1 .. Len(stack) :
        /\ IsNotify(stack'[i]) <=> IsNotify(stack[i])
        /\ IsNotify(stack[i]) => /\ stack'[i].key = stack[i].key /\ stack'[i].new = stack[i].new
                                 /\ stack'[i].pc = stack[i].pc
  BY <1>1
<1>4. \A i \in 1 .. Len(stack') : IsNotify(stack'[i]) => i \in 1 .. Len(stack)
  BY <1>1
<1> QED
  BY <1>1, <1>2, <1>3, <1>4, StackAgrees

LEMMA PopAgrees ==
  ASSUME TypeOK, Agreeing, UNCHANGED <<value, cache, told, overtaken>>,
         stack # <<>>, ~ Running("notify"), stack' = Below
  PROVE  Agreeing' /\ stack' \in Seq(Calls)
<1> DEFINE n == Len(stack)
<1>1. /\ n \in Nat /\ n >= 1 /\ Top = stack[n] /\ stack' \in Seq(Calls) /\ Len(stack') = n - 1
      /\ \A i \in 1 .. n - 1 : stack'[i] = stack[i]
  BY StackFacts DEF Top
<1>2. ~ Notify("special") /\ ~ Notify("also") /\ ~ IsNotify(stack[n])
  BY <1>1 DEF Notify, Running, IsNotify
<1>3. \A i \in 1 .. Len(stack') : i \in 1 .. n
  BY <1>1
<1>4. \A i \in 1 .. n : IsNotify(stack[i]) => i \in 1 .. Len(stack')
  <2> SUFFICES ASSUME NEW i \in 1 .. n, IsNotify(stack[i])
               PROVE  i # n
    BY <1>1
  <2> QED
    BY <1>2
<1>5. \A i \in 1 .. n : i \in 1 .. Len(stack') => stack'[i] = stack[i]
  BY <1>1
<1> QED
  BY <1>1, <1>2, <1>3, <1>4, <1>5, StackAgrees

(* OnCollect...Pickup begins only when nothing else runs. *)
LEMMA CollectStartsKeeps ==
  ASSUME NInv, CollectStarts
  PROVE  NInv'
<1> DEFINE f == [op |-> "collect"]
<1>0. TypeOK /\ RewardsExact /\ Flagged /\ Agreeing
  BY DEF NInv
<1>1. /\ stack = <<>> /\ stack' = Append(stack, f) /\ collecting' = TRUE
      /\ UNCHANGED <<value, cache, told, inbox, full, resource, owed, overtaken, skip>>
  BY DEF CollectStarts
<1>2. f \in Calls /\ ~ IsNotify(f) /\ f.op = "collect"
  BY DEF Calls, IsNotify
<1> HIDE DEF f
<1>3. /\ stack \in Seq(Calls) /\ Len(stack) = 0
      /\ ~ Notify("special") /\ ~ Notify("also")
  BY <1>0, <1>1 DEF TypeOK, Notify, Running
<1>4. Agreeing' /\ stack' \in Seq(Calls)
  BY <1>0, <1>1, <1>2, <1>3, PushAgrees
<1>5. Len(stack') = 1 /\ stack'[1] = f
  BY <1>1, <1>2, <1>3, AppendProperties
<1>6. Flagged'
  BY <1>1, <1>2, <1>5 DEF Flagged, Suppressed
<1>7. TypeOK'
  BY <1>0, <1>1, <1>4, TypeParts DEF TypeOK
<1> QED
  BY <1>0, <1>1, <1>4, <1>6, <1>7 DEF NInv, Unskipped, RewardsExact

(* While the game's own code runs, nothing has lowered the flag. *)
LEMMA CollectRewardsKeeps ==
  ASSUME NInv, CollectRewards
  PROVE  NInv'
<1> DEFINE n == Len(stack)
<1>0. TypeOK /\ RewardsExact /\ Flagged /\ Agreeing
  BY DEF NInv
<1>1. /\ stack # <<>> /\ Top.op = "collect" /\ resource' = VanillaReward
      /\ UNCHANGED <<value, cache, told, inbox, full, collecting, owed, overtaken, skip, stack>>
  BY DEF CollectRewards, Running
<1>2. n \in Nat /\ n >= 1 /\ stack[n].op = "collect"
  BY <1>0, <1>1, StackFacts DEF Top
<1>3. n = 1
  <2>1. n \in 1 .. n
    BY <1>2
  <2> QED
    BY <1>0, <1>2, <2>1 DEF Flagged
<1>4. Suppressed(stack, n)
  BY <1>2, <1>3 DEF Suppressed
<1>5. resource' = resource
  BY <1>0, <1>1, <1>4 DEF Flagged, VanillaReward
<1> QED
  BY <1>0, <1>1, <1>5 DEF NInv, Unskipped, TypeOK, RewardsExact, Flagged, Agreeing, Shape, Current, Cached, Exempt,
                          Notify, Running, Top, Told, Granting

LEMMA CollectEndsKeeps ==
  ASSUME NInv, CollectEnds
  PROVE  NInv'
<1> DEFINE n == Len(stack)
<1>0. TypeOK /\ RewardsExact /\ Flagged /\ Agreeing
  BY DEF NInv
<1>1. /\ stack # <<>> /\ ~ Running("notify") /\ Top.op = "collect" /\ stack' = Below /\ collecting' = FALSE
      /\ UNCHANGED <<value, cache, told, inbox, full, resource, owed, overtaken, skip>>
  BY DEF CollectEnds, Running
<1>2. n \in Nat /\ n >= 1 /\ stack[n].op = "collect" /\ Len(stack') = n - 1
  BY <1>0, <1>1, StackFacts DEF Top
<1>3. Len(stack') = 0
  <2>1. n \in 1 .. n
    BY <1>2
  <2>2. n = 1
    BY <1>0, <1>2, <2>1 DEF Flagged
  <2> QED
    BY <1>2, <2>2
<1>4. Flagged'
  BY <1>1, <1>3 DEF Flagged, Suppressed
<1>5. Agreeing' /\ stack' \in Seq(Calls)
  BY <1>0, <1>1, PopAgrees
<1>6. TypeOK'
  BY <1>0, <1>1, <1>5, TypeParts DEF TypeOK
<1> QED
  BY <1>0, <1>1, <1>4, <1>5, <1>6 DEF NInv, Unskipped, RewardsExact

(* An update is called, by the frame or by a checkpoint. *)
LEMMA UpdateCalled ==
  ASSUME NInv, ~ Notify("special"), ~ Notify("also"),
         NEW frames \in Seq(Calls), Len(frames) = Len(stack),
         \A i \in 1 .. Len(stack) :
           /\ frames[i].op = stack[i].op
           /\ stack[i].op = "update" => frames[i].saved = stack[i].saved
           /\ IsNotify(stack[i]) => /\ frames[i].key = stack[i].key /\ frames[i].new = stack[i].new
                                    /\ frames[i].pc = stack[i].pc,
         stack' = Append(frames, [op |-> "update", saved |-> collecting]), collecting' = FALSE,
         UNCHANGED <<value, cache, told, inbox, full, resource, owed, overtaken, skip>>
  PROVE  NInv'
<1> DEFINE f == [op |-> "update", saved |-> collecting]
<1>0. TypeOK /\ RewardsExact /\ Flagged /\ Agreeing
  BY DEF NInv
<1>1. f \in Calls /\ ~ IsNotify(f)
  BY <1>0 DEF TypeOK, Calls, IsNotify
<1>2. \A i \in 1 .. Len(stack) : IsNotify(frames[i]) <=> IsNotify(stack[i])
  BY DEF IsNotify
<1>3. Flagged' /\ stack' \in Seq(Calls)
  BY <1>0, UpdateFlags
<1> HIDE DEF f
<1>4. stack' = Append(frames, f)
  BY DEF f
<1>5. Agreeing'
  BY <1>0, <1>1, <1>2, <1>4, PushAgrees
<1>6. TypeOK'
  BY <1>0, <1>3, TypeParts DEF TypeOK
<1> QED
  BY <1>0, <1>3, <1>5, <1>6 DEF NInv, Unskipped, RewardsExact

LEMMA CheckpointKeeps ==
  ASSUME NInv, GameCheckpoints \/ UpdateStarts
  PROVE  NInv'
<1>0. TypeOK /\ Flagged
  BY DEF NInv
<1>1. /\ ~ Notify("special") /\ ~ Notify("also")
      /\ stack' = Append(stack, [op |-> "update", saved |-> collecting])
      /\ UNCHANGED <<value, cache, told, inbox, full, resource, owed, overtaken, skip>>
  BY DEF GameCheckpoints, UpdateStarts, Checkpoint, Notify, Running
<1>2. collecting' = FALSE
  <2>1. CASE GameCheckpoints
    BY <2>1 DEF GameCheckpoints, Checkpoint
  <2>2. CASE UpdateStarts
    <3>1. stack = <<>> /\ collecting' = collecting
      BY <2>2 DEF UpdateStarts
    <3>2. ~ Suppressed(stack, Len(stack))
      BY <3>1 DEF Suppressed
    <3> QED
      BY <1>0, <3>1, <3>2 DEF Flagged, TypeOK
  <2> QED
    BY <2>1, <2>2
<1>3. stack \in Seq(Calls)
  BY <1>0 DEF TypeOK
<1> QED
  BY <1>1, <1>2, <1>3, UpdateCalled

(* The full sync sends what the cache holds, the updates that are taken     *)
(* were handled above; then the flag gets back what the update put aside.   *)
LEMMA UpdateKeeps ==
  ASSUME NInv, UpdateSyncs \/ UpdateEnds
  PROVE  NInv'
<1>0. TypeOK /\ RewardsExact /\ Flagged /\ Agreeing
  BY DEF NInv
<1>1. CASE UpdateSyncs
  <2>1. /\ told' = [k \in Keys |-> IF k \in Synced THEN cache[k] ELSE told[k]] /\ full' = FALSE
        /\ UNCHANGED <<value, cache, inbox, collecting, resource, owed, overtaken, skip, stack>>
    BY <1>1 DEF UpdateSyncs
  <2>2. told' \in [Keys -> 0 .. Max] /\ \A k \in Synced : told'[k] = cache[k]
    BY <1>0, <2>1, NotifyAssumption DEF TypeOK
  <2>3. TypeOK'
    BY <1>0, <2>1, <2>2, TypeParts DEF TypeOK
  <2>4. Told'
    <3>1. cache' = cache
      BY <2>1
    <3> QED
      BY <2>2, <3>1 DEF Told
  <2> QED
    BY <1>0, <2>1, <2>3, <2>4 DEF NInv, Unskipped, RewardsExact, Flagged, Agreeing, Shape, Current, Cached, Exempt,
                                  Notify, Running, Top
<1>2. CASE UpdateEnds
  <2> DEFINE n == Len(stack)
  <2>1. /\ stack # <<>> /\ ~ Running("notify") /\ Top.op = "update" /\ stack' = Below
        /\ collecting' = Top.saved
        /\ UNCHANGED <<value, cache, told, inbox, full, resource, owed, overtaken, skip>>
    BY <1>2 DEF UpdateEnds, Running, Restored
  <2>2. /\ n \in Nat /\ n >= 1 /\ Top \in Calls /\ Top = stack[n] /\ n \in 1 .. n
        /\ Len(stack') = n - 1
        /\ \A i \in 1 .. n - 1 : stack'[i] = stack[i]
    <3>1. n \in Nat /\ n >= 1 /\ Top \in Calls
      BY <1>0, <2>1, StackFacts
    <3>2. Len(stack') = n - 1 /\ \A i \in 1 .. n - 1 : stack'[i] = stack[i]
      BY <1>0, <2>1, StackFacts
    <3> QED
      BY <3>1, <3>2 DEF Top
  <2>3. Agreeing' /\ stack' \in Seq(Calls)
    BY <1>0, <2>1, PopAgrees
  <2>4. collecting' \in BOOLEAN
    BY <2>1, <2>2 DEF Calls
  <2>5. TypeOK'
    BY <1>0, <2>1, <2>3, <2>4, TypeParts DEF TypeOK
  <2>6. \A m \in 0 .. n - 1 : Suppressed(stack', m) <=> Suppressed(stack, m)
    BY <2>2 DEF Suppressed
  <2>7. collecting' <=> Suppressed(stack', Len(stack'))
    <3>1. Top.saved <=> Suppressed(stack, n - 1)
      BY <1>0, <2>1, <2>2 DEF Flagged
    <3> QED
      BY <2>1, <2>2, <2>6, <3>1
  <2>8. \A i \in 1 .. n - 1 :
          /\ stack'[i].op = "collect" => i = 1
          /\ stack'[i].op = "update" => (stack'[i].saved <=> Suppressed(stack', i - 1))
    <3> SUFFICES ASSUME NEW i \in 1 .. n - 1
                 PROVE  /\ stack'[i].op = "collect" => i = 1
                        /\ stack'[i].op = "update" => (stack'[i].saved <=> Suppressed(stack', i - 1))
      OBVIOUS
    <3>1. i - 1 \in 0 .. n - 1 /\ i \in 1 .. n
      BY <2>2
    <3>2. Suppressed(stack', i - 1) <=> Suppressed(stack, i - 1)
      BY <2>6, <3>1
    <3> QED
      BY <1>0, <2>2, <3>1, <3>2 DEF Flagged
  <2>9. Flagged'
    BY <2>2, <2>7, <2>8 DEF Flagged
  <2> QED
    BY <1>0, <2>1, <2>3, <2>5, <2>9 DEF NInv, Unskipped, RewardsExact
<1> QED
  BY <1>1, <1>2

-----------------------------------------------------------------------------
(* The notification's own steps.                                            *)

LEMMA ResolveKeeps ==
  ASSUME NInv, Resolve
  PROVE  NInv'
<1> DEFINE n == Len(stack)
           todo == Found
           f == [Top EXCEPT !.pc = "grant", !.todo = todo]
<1>0. TypeOK /\ RewardsExact /\ Flagged /\ Agreeing /\ Unskipped
  BY DEF NInv
<1>1. stack # <<>> /\ Top.op = "notify" /\ Top.key \in Keys /\ Top.new \in 0 .. Max
  <2>1. stack # <<>> /\ IsNotify(Top) /\ Top.op = "notify"
    BY DEF Resolve, Resolvable, Notify, Running, IsNotify
  <2>2. Top \in Calls
    BY <1>0, <2>1, StackFacts
  <2> QED
    BY <2>1, <2>2, NotifyFields
<1>2. /\ stack # <<>> /\ Top.op = "notify" /\ stack' = Replaced(f)
      /\ UNCHANGED <<value, told, inbox, full, collecting, resource, owed, overtaken, skip>>
  BY <1>0, <1>1, ResolveGoesOn DEF Resolve
<1>3. Agreeing' /\ cache' \in [Keys -> 0 .. Max] /\ stack' \in Seq(Calls)
  BY <1>0, ResolveAgrees
<1>4. n \in Nat /\ n >= 1 /\ Top \in Calls /\ Top = stack[n]
  BY <1>0, <1>2, StackFacts DEF Top
<1>5. f \in Calls /\ f.op = "notify"
  <2>1. todo \in Seq(Grants)
    BY <1>1, FoundIsGrants
  <2> HIDE DEF todo
  <2> QED
    BY <1>2, <1>4, <2>1, GrantFields DEF IsNotify
<1> HIDE DEF f
<1>6. /\ Len(stack') = n /\ stack'[n] = f
      /\ \A i \in 1 .. n - 1 : stack'[i] = stack[i]
  BY <1>0, <1>2, <1>5, StackFacts
<1>7. \A i \in 1 .. n : /\ stack'[i].op = stack[i].op
                        /\ stack[i].op = "update" => stack'[i].saved = stack[i].saved
  BY <1>2, <1>4, <1>5, <1>6
<1>8. Flagged'
  BY <1>0, <1>2, <1>3, <1>6, <1>7, FlagKept
<1>9. TypeOK'
  BY <1>0, <1>2, <1>3, TypeParts DEF TypeOK
<1> QED
  BY <1>0, <1>2, <1>3, <1>8, <1>9 DEF NInv, Unskipped, RewardsExact

(* What a grant leaves of the stack *)
LEMMA GrantedFacts ==
  ASSUME TypeOK, NEW op, Due(op)
  PROVE  /\ ~ Notify("special") /\ ~ Notify("also")
         /\ Granted \in Seq(Calls) /\ Len(Granted) = Len(stack)
         /\ \A i \in 1 .. Len(stack) :
              /\ Granted[i].op = stack[i].op
              /\ IsNotify(Granted[i]) <=> IsNotify(stack[i])
              /\ stack[i].op = "update" => Granted[i].saved = stack[i].saved
              /\ IsNotify(stack[i]) => /\ Granted[i].key = stack[i].key /\ Granted[i].new = stack[i].new
                                       /\ Granted[i].pc = stack[i].pc
<1> DEFINE f == [Top EXCEPT !.todo = Tail(@)]
           n == Len(stack)
<1>1. /\ stack # <<>> /\ IsNotify(Top) /\ Top.pc = "grant" /\ Top = stack[n]
      /\ f \in Calls /\ IsNotify(f) /\ f.key = Top.key /\ f.new = Top.new /\ f.pc = "grant"
      /\ Granted = Replaced(f)
  BY DueFacts
<1> HIDE DEF f
<1>2. /\ n \in Nat /\ n >= 1
      /\ Granted \in Seq(Calls) /\ Len(Granted) = n /\ Granted[n] = f
      /\ \A i \in 1 .. n - 1 : Granted[i] = stack[i]
  BY <1>1, StackFacts
<1>3. ~ Notify("special") /\ ~ Notify("also")
  BY <1>1 DEF Notify
<1>4. \A i \in 1 .. n : i = n \/ Granted[i] = stack[i]
  BY <1>2
<1>5. stack[n].op = "notify" /\ Granted[n].op = "notify" /\ stack[n].op # "update"
  BY <1>1, <1>2 DEF IsNotify
<1> QED
  BY <1>1, <1>2, <1>3, <1>4, <1>5

LEMMA GrantResourceKeeps ==
  ASSUME NInv, GrantResource
  PROVE  NInv'
<1> DEFINE c == [op |-> "collect"]
<1>0. TypeOK /\ RewardsExact /\ Flagged /\ Agreeing
  BY DEF NInv
<1>1. /\ Due("resource") /\ stack' = Granted /\ resource' = resource + 1 /\ owed' = owed + 1
      /\ UNCHANGED <<value, cache, told, inbox, full, collecting, overtaken, skip>>
  BY DEF GrantResource, HelperFlag
<1>2. /\ ~ Notify("special") /\ ~ Notify("also")
      /\ Granted \in Seq(Calls) /\ Len(Granted) = Len(stack)
      /\ \A i \in 1 .. Len(stack) :
           /\ Granted[i].op = stack[i].op
           /\ IsNotify(Granted[i]) <=> IsNotify(stack[i])
           /\ stack[i].op = "update" => Granted[i].saved = stack[i].saved
           /\ IsNotify(stack[i]) => /\ Granted[i].key = stack[i].key /\ Granted[i].new = stack[i].new
                                    /\ Granted[i].pc = stack[i].pc
  BY <1>0, <1>1, GrantedFacts
<1>3. c \in Calls /\ ~ IsNotify(c)
  BY DEF Calls, IsNotify
<1> HIDE DEF c
<1>4. Agreeing'
  BY <1>0, <1>1, <1>2, <1>3, PushAgrees
<1>5. Flagged'
  BY <1>0, <1>1, <1>2, FlagKept
<1>6. TypeOK' /\ RewardsExact'
  BY <1>0, <1>1, <1>2, TypeParts DEF TypeOK, RewardsExact
<1> QED
  BY <1>1, <1>4, <1>5, <1>6 DEF NInv, Unskipped

LEMMA GrantSaveKeeps ==
  ASSUME NInv, GrantSave
  PROVE  NInv'
<1>0. TypeOK
  BY DEF NInv
<1>1. /\ Due("save") /\ collecting' = FALSE
      /\ stack' = Append(Granted, [op |-> "update", saved |-> collecting])
      /\ UNCHANGED <<value, cache, told, inbox, full, resource, owed, overtaken, skip>>
  BY DEF GrantSave, Checkpoint
<1> QED
  BY <1>0, <1>1, GrantedFacts, UpdateCalled

LEMMA NotifyEndsKeeps ==
  ASSUME NInv, NotifyEnds
  PROVE  NInv'
<1> DEFINE n == Len(stack)
<1>0. TypeOK /\ RewardsExact /\ Flagged /\ Agreeing
  BY DEF NInv
<1>1. /\ stack # <<>> /\ Top.op = "notify" /\ stack' = Below
      /\ UNCHANGED <<value, cache, inbox, full, collecting, resource, owed, overtaken, skip>>
  BY DEF NotifyEnds, Notify, Running
<1>2. Agreeing' /\ told' \in [Keys -> 0 .. Max] /\ stack' \in Seq(Calls)
  BY <1>0, NotifyEndsAgrees
<1>3. /\ n \in Nat /\ n >= 1 /\ stack[n].op = "notify" /\ Len(stack') = n - 1
      /\ \A i \in 1 .. n - 1 : stack'[i] = stack[i]
  BY <1>0, <1>1, StackFacts DEF Top
<1>4. \A i \in 1 .. Len(stack') : i \in 1 .. n /\ stack'[i] = stack[i]
  BY <1>3
<1>5. \A i \in 1 .. n : i \notin 1 .. Len(stack') => stack[i].op = "notify"
  BY <1>3
<1>6. Flagged'
  BY <1>0, <1>1, <1>2, <1>4, <1>5, FlagKept
<1>7. TypeOK'
  BY <1>0, <1>1, <1>2, TypeParts DEF TypeOK
<1> QED
  BY <1>0, <1>1, <1>2, <1>6, <1>7 DEF NInv, Unskipped, RewardsExact

-----------------------------------------------------------------------------
(* The socket's thread touches the inbox and the wish for a full sync only. *)
LEMMA SocketKeeps ==
  ASSUME NInv, ServerSends \/ Connects \/ UNCHANGED vars
  PROVE  NInv'
<1>0. TypeOK /\ inbox \in Seq(Synced \X (0 .. Max))
  BY DEF NInv, TypeOK
<1>1. UNCHANGED <<value, cache, told, collecting, resource, owed, overtaken, skip, stack>>
  BY DEF ServerSends, Connects, vars
<1>2. full' \in BOOLEAN
  BY <1>0 DEF ServerSends, Connects, vars, TypeOK
<1>3. inbox' \in Seq(Synced \X (0 .. Max))
  <2>1. CASE ServerSends
    <3>1. PICK k \in Synced, v \in 0 .. Max : inbox' = Append(inbox, <<k, v>>)
      BY <2>1 DEF ServerSends
    <3>2. <<k, v>> \in Synced \X (0 .. Max)
      OBVIOUS
    <3> QED
      BY <1>0, <3>1, <3>2, AppendProperties
  <2>2. CASE Connects \/ UNCHANGED vars
    BY <1>0, <2>2 DEF Connects, vars
  <2> QED
    BY <2>1, <2>2
<1>4. TypeOK'
  BY <1>0, <1>1, <1>2, <1>3, TypeParts DEF TypeOK
<1> QED
  BY <1>1, <1>4 DEF NInv, Unskipped, RewardsExact, Flagged, Agreeing, Shape, Current, Cached, Exempt,
                    Notify, Running, Top, Told, Granting

LEMMA InitNInv ==
  ASSUME Init
  PROVE  NInv
<1>1. 0 \in 0 .. Max
  BY NotifyAssumption
<1>2. stack \in Seq(Calls) /\ inbox \in Seq(Synced \X (0 .. Max)) /\ Len(stack) = 0
  BY EmptySeq DEF Init
<1>3. TypeOK /\ RewardsExact
  BY <1>1, <1>2 DEF Init, TypeOK, RewardsExact
<1>4. Flagged
  BY <1>2 DEF Init, Flagged, Suppressed
<1>5. Agreeing
  BY <1>2, NotifyAssumption DEF Init, Agreeing, Shape, Current, Cached, Told
<1> QED
  BY <1>3, <1>4, <1>5 DEF Init, NInv, Unskipped

LEMMA NextNInv ==
  ASSUME NInv, [Next]_vars
  PROVE  NInv'
<1>1. CASE GameSets \/ CollectSets \/ UpdateTakes
  BY <1>1, SetsKeep
<1>2. CASE CollectStarts
  BY <1>2, CollectStartsKeeps
<1>3. CASE CollectRewards
  BY <1>3, CollectRewardsKeeps
<1>4. CASE CollectEnds
  BY <1>4, CollectEndsKeeps
<1>5. CASE GameCheckpoints \/ UpdateStarts
  BY <1>5, CheckpointKeeps
<1>6. CASE UpdateSyncs \/ UpdateEnds
  BY <1>6, UpdateKeeps
<1>7. CASE Revert
  BY <1>7, RevertKeeps
<1>8. CASE Special
  BY <1>8, SpecialKeeps
<1>9. CASE SpecialAlso
  BY <1>9, SpecialAlsoKeeps
<1>10. CASE Resolve
  BY <1>10, ResolveKeeps
<1>11. CASE GrantResource
  BY <1>11, GrantResourceKeeps
<1>12. CASE GrantState
  BY <1>12, GrantStateKeeps
<1>13. CASE GrantSave
  BY <1>13, GrantSaveKeeps
<1>14. CASE NotifyEnds
  BY <1>14, NotifyEndsKeeps
<1>15. CASE ServerSends \/ Connects \/ UNCHANGED vars
  BY <1>15, SocketKeeps
<1> QED
  BY <1>1, <1>2, <1>3, <1>4, <1>5, <1>6, <1>7, <1>8, <1>9, <1>10, <1>11, <1>12, <1>13, <1>14, <1>15
  DEF Next

LEMMA NInvHolds == Spec => []NInv
<1>1. Init => NInv
  BY InitNInv
<1>2. NInv /\ [Next]_vars => NInv'
  BY NextNInv
<1> QED
  BY <1>1, <1>2, PTL DEF Spec

-----------------------------------------------------------------------------
(* Every variable keeps its type, the calls on the stack included: a        *)
(* notification is of a known state, and what is due of it are grants.      *)
THEOREM NotifyTypes == Spec => []TypeOK
<1>1. NInv => TypeOK
  BY DEF NInv
<1> QED
  BY <1>1, NInvHolds, PTL

(* Whatever the seed places, however deep its pickups nest and wherever the *)
(* game makes a checkpoint: exactly what the seed grants arrives.           *)
THEOREM RewardsAlwaysExact == Spec => []RewardsExact
<1>1. NInv => RewardsExact
  BY DEF NInv
<1> QED
  BY <1>1, NInvHolds, PTL

(* When no call is left, the C# side's cache is what the game has, but for  *)
(* the craft cutscene's state that was set again.                           *)
THEOREM CacheAlwaysAgrees == Spec => []CacheAgrees
<1>1. NInv => CacheAgrees
  BY DEF NInv, Agreeing, Cached, Exempt, CacheAgrees, Notify, Running
<1> QED
  BY <1>1, NInvHolds, PTL

(* When no call is left, the server was told the value of every state that  *)
(* was not set again within its own notification.                           *)
THEOREM ServerAlwaysTold == Spec => []ToldAgrees
<1>1. NInv => ToldAgrees
  <2> SUFFICES ASSUME NInv, stack = <<>>, NEW k \in Synced, k \notin overtaken
               PROVE  told[k] = value[k]
    BY DEF ToldAgrees
  <2>1. k \in Keys
    BY NotifyAssumption
  <2>2. cache[k] = value[k]
    BY <2>1 DEF NInv, Agreeing, Cached, Exempt, Notify, Running
  <2>3. ~ Granting(stack, k)
    BY DEF Granting
  <2> QED
    BY <2>2, <2>3 DEF NInv, Agreeing, Told
<1> QED
  BY <1>1, NInvHolds, PTL
=============================================================================
