--------------------------- MODULE NetClient_proofs ---------------------------
(***************************************************************************)
(* Proofs about NetClient, for any uber states and any number of changes,  *)
(* broken connections and reloads.                                         *)
(***************************************************************************)
EXTENDS NetClient, SequenceTheorems, TLAPS

(* p is no newer than q in what both hold. *)
Before(p, q) == \A k \in DOMAIN p \cap DOMAIN q : p[k] <= q[k]
AllBefore(packets, q) == \A i \in 1 .. Len(packets) : Before(packets[i], q)
AllAfter(p, packets) == \A i \in 1 .. Len(packets) : Before(p, packets[i])
Lined(packets) == \A i, j \in 1 .. Len(packets) : i < j => Before(packets[i], packets[j])

(* A change counts up by one. *)
Counted == changes \in Nat /\ \A k \in Keys : mine[k] <= changes

(* From what was said to the game, nothing is overtaken: what was sent last, *)
(* what the sender holds, what is queued and what the game has are in this   *)
(* order.                                                                    *)
Chain ==
  /\ Lined(sendQueue)
  /\ Before(said, held) /\ AllAfter(said, sendQueue) /\ Before(said, mine)
  /\ AllAfter(held, sendQueue) /\ Before(held, mine)
  /\ AllBefore(sendQueue, mine)

CInv == TypeOK /\ changes <= MaxChanges /\ Counted /\ Chain

-----------------------------------------------------------------------------
(* Packets and sequences of them.                                           *)

LEMMA PacketFacts ==
  /\ \A p \in Packets : DOMAIN p \subseteq Keys /\ \A k \in DOMAIN p : p[k] \in 0 .. MaxChanges
  /\ \A K \in SUBSET Keys : \A p \in [K -> 0 .. MaxChanges] : p \in Packets
BY DEF Packets

LEMMA NonePacket == None \in Packets /\ DOMAIN None = {}
<1>1. None \in [{} -> 0 .. MaxChanges]
  BY DEF None
<1> QED
  BY <1>1, PacketFacts DEF None

LEMMA AppendFacts ==
  ASSUME NEW s \in Seq(Packets), NEW p \in Packets, Lined(s), AllBefore(s, p)
  PROVE  /\ Append(s, p) \in Seq(Packets) /\ Lined(Append(s, p))
         /\ \A q : AllBefore(s, q) /\ Before(p, q) => AllBefore(Append(s, p), q)
         /\ \A q : AllAfter(q, s) /\ Before(q, p) => AllAfter(q, Append(s, p))
         /\ \A i \in 1 .. Len(Append(s, p)) : Append(s, p)[i] = p \/ (i \in 1 .. Len(s) /\ Append(s, p)[i] = s[i])
<1>1. /\ Append(s, p) \in Seq(Packets) /\ Len(Append(s, p)) = Len(s) + 1 /\ Len(s) \in Nat
      /\ \A i \in 1 .. Len(s) : Append(s, p)[i] = s[i]
      /\ Append(s, p)[Len(s) + 1] = p
  BY AppendProperties
<1>2. \A i \in 1 .. Len(s) + 1 : i = Len(s) + 1 \/ i \in 1 .. Len(s)
  BY <1>1
<1>3. \A i \in 1 .. Len(Append(s, p)) : Append(s, p)[i] = p \/ (i \in 1 .. Len(s) /\ Append(s, p)[i] = s[i])
  BY <1>1, <1>2
<1>4. Lined(Append(s, p))
  <2> SUFFICES ASSUME NEW i \in 1 .. Len(s) + 1, NEW j \in 1 .. Len(s) + 1, i < j
               PROVE  Before(Append(s, p)[i], Append(s, p)[j])
    BY <1>1 DEF Lined
  <2>1. i \in 1 .. Len(s)
    BY <1>1
  <2>2. CASE j = Len(s) + 1
    BY <1>1, <2>1, <2>2 DEF AllBefore
  <2>3. CASE j \in 1 .. Len(s)
    BY <1>1, <2>1, <2>3 DEF Lined
  <2> QED
    BY <1>2, <2>2, <2>3
<1>5. \A q : AllBefore(s, q) /\ Before(p, q) => AllBefore(Append(s, p), q)
  BY <1>3 DEF AllBefore
<1>6. \A q : AllAfter(q, s) /\ Before(q, p) => AllAfter(q, Append(s, p))
  BY <1>3 DEF AllAfter
<1> QED
  BY <1>1, <1>3, <1>4, <1>5, <1>6

LEMMA TailFacts ==
  ASSUME NEW s \in Seq(Packets), s # <<>>, Lined(s)
  PROVE  /\ Head(s) \in Packets /\ Tail(s) \in Seq(Packets) /\ Lined(Tail(s))
         /\ AllAfter(Head(s), Tail(s))
         /\ \A q : AllBefore(s, q) => AllBefore(Tail(s), q) /\ Before(Head(s), q)
         /\ \A q : AllAfter(q, s) => AllAfter(q, Tail(s)) /\ Before(q, Head(s))
         /\ 1 \in 1 .. Len(s) /\ Head(s) = s[1]
         /\ \A i \in 1 .. Len(Tail(s)) : i + 1 \in 1 .. Len(s) /\ Tail(s)[i] = s[i + 1]
<1>1. /\ Head(s) \in Packets /\ Tail(s) \in Seq(Packets) /\ Len(s) \in Nat /\ Len(s) >= 1
      /\ Len(Tail(s)) = Len(s) - 1 /\ Head(s) = s[1]
      /\ \A i \in 1 .. Len(Tail(s)) : Tail(s)[i] = s[i + 1]
  BY HeadTailProperties, EmptySeq
<1>2. 1 \in 1 .. Len(s) /\ \A i \in 1 .. Len(Tail(s)) : i + 1 \in 1 .. Len(s) /\ 1 < i + 1
  BY <1>1
<1>3. Lined(Tail(s))
  <2> SUFFICES ASSUME NEW i \in 1 .. Len(Tail(s)), NEW j \in 1 .. Len(Tail(s)), i < j
               PROVE  Before(Tail(s)[i], Tail(s)[j])
    BY DEF Lined
  <2>1. i + 1 < j + 1
    BY <1>1
  <2> QED
    BY <1>1, <1>2, <2>1 DEF Lined
<1>4. AllAfter(Head(s), Tail(s))
  BY <1>1, <1>2 DEF AllAfter, Lined
<1>5. \A q : AllBefore(s, q) => AllBefore(Tail(s), q) /\ Before(Head(s), q)
  BY <1>1, <1>2 DEF AllBefore
<1>6. \A q : AllAfter(q, s) => AllAfter(q, Tail(s)) /\ Before(q, Head(s))
  BY <1>1, <1>2 DEF AllAfter
<1> QED
  BY <1>1, <1>2, <1>3, <1>4, <1>5, <1>6

LEMMA EmptyFacts ==
  /\ <<>> \in Seq(Packets) /\ Lined(<<>>) /\ Len(<<>>) = 0
  /\ \A q : AllBefore(<<>>, q) /\ AllAfter(q, <<>>)
BY EmptySeq DEF Lined, AllBefore, AllAfter

-----------------------------------------------------------------------------
(* The order is kept.                                                       *)

(* The game's thread raises states and queues a packet with what they are.  *)
LEMMA QueueKeepsChain ==
  ASSUME TypeOK, Chain, mine' \in [Keys -> 0 .. MaxChanges], \A k \in Keys : mine'[k] >= mine[k],
         UNCHANGED <<said, held>>,
         NEW p \in Packets, \A k \in DOMAIN p : p[k] = mine'[k],
         sendQueue' = sendQueue \/ sendQueue' = Append(sendQueue, p)
  PROVE  Chain' /\ sendQueue' \in Seq(Packets)
<1>1. /\ mine \in [Keys -> 0 .. MaxChanges] /\ said \in [Keys -> 0 .. MaxChanges] /\ said \in Packets
      /\ sendQueue \in Seq(Packets) /\ held \in Packets
  BY PacketFacts DEF TypeOK
<1>2. DOMAIN p \subseteq Keys /\ Before(p, mine')
  BY <1>1, PacketFacts DEF Before
<1>3. \A q \in Packets : Before(q, mine) => Before(q, mine') /\ Before(q, p)
  <2> SUFFICES ASSUME NEW q \in Packets, Before(q, mine), NEW k \in DOMAIN q
               PROVE  /\ q[k] <= mine'[k]
                      /\ k \in DOMAIN p => q[k] <= p[k]
    BY DEF Before
  <2>1. k \in Keys /\ q[k] \in 0 .. MaxChanges
    BY PacketFacts
  <2>2. q[k] <= mine[k] /\ mine'[k] >= mine[k] /\ mine[k] \in Nat /\ mine'[k] \in Nat /\ q[k] \in Nat
    BY <1>1, <2>1, NetClientAssumption DEF Before
  <2> QED
    BY <2>2
<1>4. /\ AllBefore(sendQueue, mine') /\ AllBefore(sendQueue, p)
      /\ Before(held, mine') /\ Before(held, p) /\ Before(said, mine') /\ Before(said, p)
  <2>1. \A i \in 1 .. Len(sendQueue) : sendQueue[i] \in Packets
    BY <1>1
  <2> QED
    BY <1>1, <1>3, <2>1 DEF Chain, AllBefore
<1>5. CASE sendQueue' = sendQueue
  BY <1>1, <1>4, <1>5 DEF Chain
<1>6. CASE sendQueue' = Append(sendQueue, p)
  <2>1. /\ Append(sendQueue, p) \in Seq(Packets) /\ Lined(Append(sendQueue, p))
        /\ AllBefore(Append(sendQueue, p), mine')
        /\ \A q : AllAfter(q, sendQueue) /\ Before(q, p) => AllAfter(q, Append(sendQueue, p))
    BY <1>1, <1>2, <1>4, AppendFacts DEF Chain
  <2>2. AllAfter(held, Append(sendQueue, p)) /\ AllAfter(said, Append(sendQueue, p))
    BY <1>4, <2>1 DEF Chain
  <2> QED
    BY <1>4, <1>6, <2>1, <2>2 DEF Chain
<1> QED
  BY <1>5, <1>6

(* Another thread clears the queue. *)
LEMMA ClearKeepsChain ==
  ASSUME Chain, UNCHANGED <<said, held, mine>>, sendQueue' = <<>>
  PROVE  Chain'
BY EmptyFacts DEF Chain

LEMMA TakeKeepsChain ==
  ASSUME TypeOK, Chain, UNCHANGED <<said, mine>>, sendQueue # <<>>,
         held' = Head(sendQueue), sendQueue' = Tail(sendQueue)
  PROVE  Chain' /\ held' \in Packets /\ sendQueue' \in Seq(Packets)
<1>1. sendQueue \in Seq(Packets)
  BY DEF TypeOK
<1>2. /\ Head(sendQueue) \in Packets /\ Tail(sendQueue) \in Seq(Packets) /\ Lined(Tail(sendQueue))
      /\ AllAfter(Head(sendQueue), Tail(sendQueue))
      /\ \A q : AllBefore(sendQueue, q) => AllBefore(Tail(sendQueue), q) /\ Before(Head(sendQueue), q)
      /\ \A q : AllAfter(q, sendQueue) => AllAfter(q, Tail(sendQueue)) /\ Before(q, Head(sendQueue))
  BY <1>1, TailFacts DEF Chain
<1> QED
  BY <1>2 DEF Chain

(* What is held is said on the connection there is, whichever that is, or   *)
(* is lost: what was said last rises.                                       *)
Sent == [k \in Keys |-> IF k \in DOMAIN held THEN held[k] ELSE said[k]]

LEMMA SendKeepsChain ==
  ASSUME TypeOK, Chain, UNCHANGED <<sendQueue, mine>>, held' = None,
         said' = said \/ said' = Sent
  PROVE  /\ Chain' /\ held' \in Packets /\ said' \in [Keys -> 0 .. MaxChanges]
         /\ \A k \in Keys : said'[k] >= said[k]
<1>1. said \in [Keys -> 0 .. MaxChanges] /\ held \in Packets
  BY DEF TypeOK
<1>2. None \in Packets /\ \A q : Before(None, q) /\ Before(q, None) /\ AllAfter(None, q)
  BY NonePacket DEF Before, AllAfter
<1>3. \A k \in Keys : /\ said[k] \in 0 .. MaxChanges
                      /\ k \in DOMAIN held => held[k] \in 0 .. MaxChanges /\ said[k] <= held[k]
  BY <1>1, PacketFacts DEF Chain, Before
<1>4. \A q : Before(held, q) /\ Before(said, q) => Before(said', q)
  BY <1>1 DEF Before, Sent
<1>5. AllAfter(said', sendQueue) /\ Before(said', mine)
  BY <1>4 DEF Chain, AllAfter
<1>6. said' \in [Keys -> 0 .. MaxChanges] /\ \A k \in Keys : said'[k] >= said[k]
  <2>1. CASE said' = said
    BY <1>1, <1>3, <2>1, NetClientAssumption
  <2>2. CASE said' = Sent
    <3>1. \A k \in Keys : Sent[k] \in 0 .. MaxChanges /\ Sent[k] >= said[k]
      BY <1>3, NetClientAssumption DEF Sent
    <3>2. Sent = [k \in Keys |-> Sent[k]]
      BY DEF Sent
    <3> QED
      BY <2>2, <3>1, <3>2
  <2> QED
    BY <2>1, <2>2
<1> QED
  BY <1>2, <1>5, <1>6 DEF Chain

-----------------------------------------------------------------------------
(* The wire, and what outlives it.                                          *)

LEMMA DisconnectedTypes ==
  ASSUME TypeOK, Disconnected
  PROVE  wire' \in Seq(Packets) /\ late' \in Seq(Seq(Packets)) /\ socket' = "closed"
<1>1. wire \in Seq(Packets) /\ late \in Seq(Seq(Packets)) /\ Len(wire) \in Nat
  BY DEF TypeOK
<1>2. PICK n \in 0 .. Len(wire) : late' = IF n = 0 THEN late ELSE Append(late, SubSeq(wire, 1, n))
  BY DEF Disconnected
<1>3. CASE n # 0
  <2>1. \A i \in 1 .. n : wire[i] \in Packets
    BY <1>1
  <2>2. SubSeq(wire, 1, n) \in Seq(Packets)
    BY <1>1, <2>1, SubSeqProperties
  <2>3. Append(late, SubSeq(wire, 1, n)) \in Seq(Seq(Packets))
    BY <1>1, <2>2, AppendProperties
  <2> QED
    BY <1>2, <1>3, <2>3, EmptyFacts DEF Disconnected
<1> QED
  BY <1>1, <1>2, <1>3, EmptyFacts DEF Disconnected

LEMMA LearnedTypes ==
  ASSUME TypeOK, NEW p \in Packets
  PROVE  Learned(p) \in [Keys -> 0 .. MaxChanges]
<1>1. \A k \in Keys : known[k] \in 0 .. MaxChanges /\ (k \in DOMAIN p => p[k] \in 0 .. MaxChanges)
  BY PacketFacts DEF TypeOK
<1> QED
  BY <1>1 DEF Learned

LEMMA ReadTypes ==
  ASSUME TypeOK, ServerReads \/ \E i \in DOMAIN late : ServerReadsLate(i)
  PROVE  known' \in [Keys -> 0 .. MaxChanges] /\ wire' \in Seq(Packets) /\ late' \in Seq(Seq(Packets))
<1>0. wire \in Seq(Packets) /\ late \in Seq(Seq(Packets))
  BY DEF TypeOK
<1>1. CASE ServerReads
  <2>1. Head(wire) \in Packets /\ Tail(wire) \in Seq(Packets)
    BY <1>0, <1>1, HeadTailProperties DEF ServerReads
  <2> QED
    BY <1>0, <1>1, <2>1, LearnedTypes DEF ServerReads
<1>2. ASSUME NEW i \in DOMAIN late, ServerReadsLate(i)
      PROVE  known' \in [Keys -> 0 .. MaxChanges] /\ late' \in Seq(Seq(Packets)) /\ wire' = wire
  <2>1. late[i] \in Seq(Packets) /\ late[i] # <<>>
    BY <1>0, <1>2 DEF ServerReadsLate
  <2>2. Head(late[i]) \in Packets /\ Tail(late[i]) \in Seq(Packets)
    BY <2>1, HeadTailProperties
  <2>3. [late EXCEPT ![i] = Tail(@)] \in Seq(Seq(Packets))
    <3>1. i \in 1 .. Len(late)
      BY <1>0
    <3> HIDE DEF Packets
    <3>2. \A t \in Seq(Packets) : [late EXCEPT ![i] = t] \in Seq(Seq(Packets))
      BY <1>0, <3>1, ExceptSeq
    <3> QED
      BY <2>2, <3>2
  <2> QED
    BY <1>2, <2>2, <2>3, LearnedTypes DEF ServerReadsLate
<1> QED
  BY <1>0, <1>1, <1>2

-----------------------------------------------------------------------------
(* Every step keeps the invariant, and what was said last never falls.      *)

Rising == \A k \in Keys : said'[k] >= said[k]

LEMMA SaidKept ==
  ASSUME TypeOK, UNCHANGED said
  PROVE  Rising
<1>1. \A k \in Keys : said[k] \in Nat
  BY NetClientAssumption DEF TypeOK
<1> QED
  BY <1>1 DEF Rising

LEMMA ChangeKeeps ==
  ASSUME CInv, NEW k \in Keys, Change(k)
  PROVE  CInv' /\ Rising
<1> DEFINE p == [x \in {k} |-> mine'[x]]
<1>0. TypeOK /\ Chain /\ Counted /\ changes < MaxChanges /\ mine \in [Keys -> 0 .. MaxChanges]
  BY DEF CInv, Change, TypeOK
<1>1. /\ changes' = changes + 1 /\ mine' = [mine EXCEPT ![k] = @ + 1]
      /\ sendQueue' = sendQueue \/ sendQueue' = Append(sendQueue, p)
      /\ UNCHANGED <<listed, full, syncing, frames, discord, socket, connector, sender, held, net, said>>
  BY DEF Change, Queued
<1>2. changes' \in Nat /\ changes' <= MaxChanges
  BY <1>0, <1>1, NetClientAssumption DEF Counted
<1>3. \A x \in Keys : mine'[x] \in Nat /\ mine'[x] >= mine[x] /\ mine'[x] <= changes'
  BY <1>0, <1>1, NetClientAssumption DEF Counted
<1>4. mine' \in [Keys -> 0 .. MaxChanges]
  <2>1. \A x \in Keys : mine'[x] \in 0 .. MaxChanges
    BY <1>2, <1>3, NetClientAssumption
  <2>2. mine' = [x \in Keys |-> mine'[x]]
    BY <1>0, <1>1
  <2> QED
    BY <2>1, <2>2
<1>5. p \in Packets /\ \A x \in DOMAIN p : p[x] = mine'[x]
  <2>1. p \in [{k} -> 0 .. MaxChanges]
    BY <1>4
  <2> QED
    BY <2>1, PacketFacts
<1> HIDE DEF p
<1>6. Chain' /\ sendQueue' \in Seq(Packets)
  BY <1>0, <1>1, <1>3, <1>4, <1>5, QueueKeepsChain DEF net
<1>7. TypeOK'
  BY <1>0, <1>1, <1>4, <1>6 DEF TypeOK, discord, net
<1>8. Rising
  BY <1>0, <1>1, SaidKept DEF net
<1> QED
  BY <1>2, <1>3, <1>6, <1>7, <1>8 DEF CInv, Counted

LEMMA SyncEndsKeeps ==
  ASSUME CInv, SyncEnds
  PROVE  CInv' /\ Rising
<1> DEFINE p == [k \in listed |-> mine[k]]
<1>0. TypeOK /\ Chain /\ Counted /\ mine \in [Keys -> 0 .. MaxChanges] /\ listed \subseteq Keys
  BY DEF CInv, TypeOK
<1>1. /\ sendQueue' = sendQueue \/ sendQueue' = Append(sendQueue, p)
      /\ syncing' = Idle
      /\ UNCHANGED <<mine, listed, full, frames, discord, socket, connector, sender, held, net, said, bounds>>
  BY DEF SyncEnds, Queued
<1>2. p \in Packets /\ \A k \in DOMAIN p : p[k] = mine'[k]
  <2>1. p \in [listed -> 0 .. MaxChanges]
    BY <1>0
  <2> QED
    BY <1>0, <1>1, <2>1, PacketFacts
<1> HIDE DEF p
<1>3. \A k \in Keys : mine'[k] >= mine[k]
  BY <1>0, <1>1, NetClientAssumption
<1>4. Chain' /\ sendQueue' \in Seq(Packets)
  BY <1>0, <1>1, <1>2, <1>3, QueueKeepsChain DEF net
<1>5. TypeOK'
  BY <1>0, <1>1, <1>4 DEF TypeOK, discord, net, Idle
<1> QED
  BY <1>0, <1>1, <1>4, <1>5, SaidKept DEF CInv, Counted, net, bounds

(* The connecting thread closes the old connection and clears the queue;    *)
(* a connection breaks.                                                     *)
LEMMA CloseKeeps ==
  ASSUME CInv, Close \/ ClearQueue \/ Drop
  PROVE  CInv' /\ Rising
<1>0. TypeOK /\ Chain /\ Counted
  BY DEF CInv
<1>1. UNCHANGED <<mine, said, held, changes>>
  BY DEF Close, ClearQueue, Drop, game, net, bounds
<1>2. Chain'
  <2>1. UNCHANGED sendQueue => Chain'
    BY <1>0, <1>1 DEF Chain
  <2>2. sendQueue' = <<>> => Chain'
    BY <1>0, <1>1, ClearKeepsChain
  <2> QED
    BY <2>1, <2>2 DEF Close, ClearQueue, Drop, game
<1>3. TypeOK'
  <2>1. CASE Close
    <3>1. /\ connector' \in {"user", "null"}
          /\ UNCHANGED <<game, discord, sender, held, unlisted, known, said>>
          /\ UNCHANGED <<socket, wire, late>> \/ Disconnected
      BY <2>1 DEF Close, Goto
    <3>2. wire' \in Seq(Packets) /\ late' \in Seq(Seq(Packets)) /\ socket' \in {socket, "closed"}
      BY <1>0, <3>1, DisconnectedTypes DEF TypeOK
    <3> QED
      BY <1>0, <3>1, <3>2 DEF TypeOK, game, discord
  <2>2. CASE ClearQueue
    BY <1>0, <2>2, EmptyFacts DEF ClearQueue, TypeOK, discord, net, At, Goto, bounds
  <2>3. CASE Drop
    <3>1. /\ UNCHANGED <<game, discord, connector, sender, held, unlisted, known, said>>
          /\ Disconnected
      BY <2>3 DEF Drop
    <3>2. wire' \in Seq(Packets) /\ late' \in Seq(Seq(Packets)) /\ socket' = "closed"
      BY <1>0, <3>1, DisconnectedTypes
    <3> QED
      BY <1>0, <3>1, <3>2 DEF TypeOK, game, discord
  <2> QED
    BY <2>1, <2>2, <2>3
<1> QED
  BY <1>0, <1>1, <1>2, <1>3, SaidKept DEF CInv, Counted

LEMMA SenderKeeps ==
  ASSUME CInv, SenderTakes \/ SenderSends
  PROVE  CInv' /\ Rising
<1>0. TypeOK /\ Chain /\ Counted
  BY DEF CInv
<1>1. UNCHANGED <<mine, changes>>
  BY DEF SenderTakes, SenderSends, game, net, bounds
<1>2. CASE SenderTakes
  <2>1. /\ sendQueue # <<>> /\ held' = Head(sendQueue) /\ sendQueue' = Tail(sendQueue)
        /\ sender' = "sending" /\ UNCHANGED <<listed, full, syncing, frames, discord, socket, connector>>
        /\ UNCHANGED <<net, said>>
    BY <1>2 DEF SenderTakes
  <2>2. Chain' /\ held' \in Packets /\ sendQueue' \in Seq(Packets)
    BY <1>0, <1>1, <2>1, TakeKeepsChain
  <2>3. TypeOK'
    BY <1>0, <1>1, <2>1, <2>2 DEF TypeOK, discord, net
  <2> QED
    BY <1>0, <1>1, <2>1, <2>2, <2>3, SaidKept DEF CInv, Counted
<1>3. CASE SenderSends
  <2>1. /\ held' = None
        /\ wire' = wire \/ wire' = Append(wire, held)
        /\ said' = said \/ said' = Sent
        /\ sender' = "idle" /\ UNCHANGED <<game, discord, socket, connector, unlisted, late, known>>
    BY <1>3 DEF SenderSends, Sent
  <2>2. /\ Chain' /\ held' \in Packets /\ said' \in [Keys -> 0 .. MaxChanges]
        /\ \A k \in Keys : said'[k] >= said[k]
    BY <1>0, <1>1, <2>1, SendKeepsChain DEF game
  <2>3. wire' \in Seq(Packets)
    <3>1. wire \in Seq(Packets) /\ held \in Packets
      BY <1>0 DEF TypeOK
    <3> QED
      BY <2>1, <3>1, AppendProperties
  <2>4. TypeOK'
    BY <1>0, <1>1, <2>1, <2>2, <2>3 DEF TypeOK, discord, game
  <2> QED
    BY <1>0, <1>1, <2>2, <2>4 DEF CInv, Counted, Rising
<1> QED
  BY <1>2, <1>3

(* The server handles a packet of any connection, old or new. *)
LEMMA ServerReadsKeeps ==
  ASSUME CInv, ServerReads \/ \E i \in DOMAIN late : ServerReadsLate(i)
  PROVE  CInv' /\ Rising
<1>0. TypeOK /\ Chain /\ Counted
  BY DEF CInv
<1>1. UNCHANGED <<game, discord, socket, connector, sender, held, unlisted, said, bounds>>
  BY DEF ServerReads, ServerReadsLate
<1>2. known' \in [Keys -> 0 .. MaxChanges] /\ wire' \in Seq(Packets) /\ late' \in Seq(Seq(Packets))
  BY <1>0, ReadTypes
<1>3. TypeOK'
  BY <1>0, <1>1, <1>2 DEF TypeOK, discord, game
<1>4. Chain'
  BY <1>0, <1>1 DEF Chain, game
<1> QED
  BY <1>0, <1>1, <1>3, <1>4, SaidKept DEF CInv, Counted, game, bounds

(* The other steps leave packets and values alone. *)
Elsewhere ==
  \/ SyncStarts \/ ClientUpdate \/ Reload \/ UserArrives \/ DiscordInit \/ SetNull \/ GetUser \/ Login
  \/ SocketConnects \/ (\E k \in Keys : Register(k)) \/ SenderLooks \/ SenderAsks \/ UNCHANGED vars

LEMMA ElsewhereKeeps ==
  ASSUME CInv, Elsewhere
  PROVE  CInv' /\ Rising
<1>0. TypeOK /\ Chain /\ Counted
  BY DEF CInv
<1>1. UNCHANGED <<mine, sendQueue, held, wire, late, known, said, changes>>
  BY DEF Elsewhere, SyncStarts, ClientUpdate, Reload, UserArrives, DiscordInit, SetNull, GetUser, Login,
         SocketConnects, Register, SenderLooks, SenderAsks, vars, game, net, bounds
<1>2. Chain'
  BY <1>0, <1>1 DEF Chain
<1>3. ASSUME NEW wait \in 0 .. 10, Connect(wait)
      PROVE  frames' \in 0 .. 10 /\ connector' \in {connector, "start"} /\ sender' \in {sender, "idle"}
  BY <1>3 DEF Connect
<1>4. TypeOK'
  <2> USE DEF TypeOK, game, discord, net, bounds
  <2>1. CASE SyncStarts
    BY <1>0, <2>1 DEF SyncStarts
  <2>2. CASE ClientUpdate
    <3>1. CASE Due
      <4>1. /\ Connect(10)
            /\ UNCHANGED <<mine, listed, full, syncing, sendQueue, discord, socket, held, net, said>>
        BY <2>2, <3>1 DEF ClientUpdate
      <4>2. frames' \in 0 .. 10 /\ connector' \in {connector, "start"} /\ sender' \in {sender, "idle"}
        BY <1>3, <4>1
      <4> QED
        BY <1>0, <4>1, <4>2
    <3>2. CASE ~ Due
      BY <1>0, <2>2, <3>2 DEF ClientUpdate, Due
    <3> QED
      BY <3>1, <3>2
  <2>3. CASE Reload
    <3>1. frames' \in 0 .. 10 /\ connector' \in {connector, "start"} /\ sender' \in {sender, "idle"}
      BY <1>0, <1>3, <2>3 DEF Reload
    <3> QED
      BY <1>0, <2>3, <3>1 DEF Reload
  <2>4. CASE UserArrives
    <3>1. frames' \in 0 .. 10 /\ connector' \in {connector, "start"} /\ sender' \in {sender, "idle"}
      BY <1>0, <1>3, <2>4 DEF UserArrives
    <3> QED
      BY <1>0, <2>4, <3>1 DEF UserArrives
  <2>5. CASE DiscordInit
    <3>1. handlers' \in 0 .. 2
      BY <1>0, <2>5 DEF DiscordInit
    <3>2. init' \in BOOLEAN /\ UNCHANGED <<game, user, socket, connector, sender, held, net, said>>
      BY <2>5 DEF DiscordInit
    <3> QED
      BY <1>0, <3>1, <3>2
  <2>6. CASE SetNull
    BY <1>0, <2>6 DEF SetNull, Goto
  <2>7. CASE GetUser
    <3>1. /\ frames' \in 0 .. 10 /\ connector' \in {"off", "login"}
          /\ UNCHANGED <<mine, listed, full, syncing, sendQueue, user, handlers, socket, sender, held, net, said>>
      BY <1>0, <2>7 DEF GetUser, Goto
    <3>2. init' \in BOOLEAN
      BY <1>0, <2>7 DEF GetUser
    <3> QED
      BY <1>0, <3>1, <3>2
  <2>8. CASE Login
    <3>1. /\ UNCHANGED <<mine, listed, full, syncing, sendQueue, discord, sender, held, net, said>>
          /\ connector' \in {"connect", "off"} /\ socket' \in {"new", socket}
          /\ frames' \in {frames, 2}
      BY <2>8 DEF Login, Goto
    <3>2. frames' \in 0 .. 10
      BY <1>0, <3>1
    <3> QED
      BY <1>0, <3>1, <3>2
  <2>9. CASE SocketConnects
    <3>1. /\ frames' \in 0 .. 10 /\ connector' = "off" /\ socket' \in {"open", "closed"}
          /\ UNCHANGED <<mine, listed, syncing, sendQueue, discord, sender, held, wire, late, known, said>>
      BY <1>0, <2>9 DEF SocketConnects, Goto
    <3>2. full' \in BOOLEAN /\ unlisted' \subseteq Keys
      BY <1>0, <2>9 DEF SocketConnects, OnOpen
    <3> QED
      BY <1>0, <3>1, <3>2
  <2>10. CASE \E k \in Keys : Register(k)
    BY <1>0, <2>10 DEF Register
  <2>11. CASE SenderLooks \/ SenderAsks
    BY <1>0, <2>11 DEF SenderLooks, SenderAsks
  <2>12. CASE UNCHANGED vars
    BY <1>0, <2>12 DEF vars
  <2> QED
    BY <2>1, <2>2, <2>3, <2>4, <2>5, <2>6, <2>7, <2>8, <2>9, <2>10, <2>11, <2>12 DEF Elsewhere
<1> QED
  BY <1>0, <1>1, <1>2, <1>4, SaidKept DEF CInv, Counted

LEMMA InitCInv ==
  ASSUME Init
  PROVE  CInv
<1>1. 0 \in 0 .. MaxChanges /\ 0 <= MaxChanges
  BY NetClientAssumption
<1>2. TypeOK
  <2>1. /\ mine \in [Keys -> 0 .. MaxChanges] /\ known \in [Keys -> 0 .. MaxChanges]
        /\ said \in [Keys -> 0 .. MaxChanges] /\ unlisted \subseteq Keys
        /\ sendQueue \in Seq(Packets) /\ wire \in Seq(Packets) /\ held \in Packets
        /\ late \in Seq(Seq(Packets))
    BY <1>1, EmptyFacts, EmptySeq, NonePacket DEF Init
  <2>2. full \in BOOLEAN /\ user \in BOOLEAN /\ init \in BOOLEAN
    BY DEF Init
  <2>3. /\ listed \subseteq Keys /\ syncing \in SUBSET SUBSET Keys
        /\ frames \in 0 .. 10 /\ handlers \in 0 .. 2
        /\ socket = "none" /\ connector = "off" /\ sender = "unborn"
    BY DEF Init, Idle
  <2> QED
    BY <2>1, <2>2, <2>3 DEF TypeOK
<1>3. Chain
  BY EmptyFacts, NonePacket DEF Init, Chain, Before
<1> QED
  BY <1>1, <1>2, <1>3 DEF Init, CInv, Counted

LEMMA NextCInv ==
  ASSUME CInv, [Next]_vars
  PROVE  CInv' /\ Rising
<1>1. CASE GameThread
  BY <1>1, ChangeKeeps DEF GameThread
<1>2. CASE SyncEnds
  BY <1>2, SyncEndsKeeps
<1>3. CASE Close \/ ClearQueue \/ Drop
  BY <1>3, CloseKeeps
<1>4. CASE SenderTakes \/ SenderSends
  BY <1>4, SenderKeeps
<1>5. CASE ServerReads \/ \E i \in DOMAIN late : ServerReadsLate(i)
  BY <1>5, ServerReadsKeeps
<1>6. CASE Elsewhere
  BY <1>6, ElsewhereKeeps
<1> QED
  BY <1>1, <1>2, <1>3, <1>4, <1>5, <1>6
  DEF Next, Elsewhere, GameSteps, ConnectorSteps, SocketSteps, SenderSteps

-----------------------------------------------------------------------------
(* Every variable of the client's threads keeps its type.                   *)
THEOREM ClientTypes == Spec => []TypeOK
<1>1. Init => CInv
  BY InitCInv
<1>2. CInv /\ [Next]_vars => CInv'
  BY NextCInv
<1>3. CInv => TypeOK
  BY DEF CInv
<1> QED
  BY <1>1, <1>2, <1>3, PTL DEF Spec

(* However the threads interleave, connections break and are made again,    *)
(* and full syncs fall between changes: over whatever connections, the      *)
(* client never sends an older value after a newer one.                     *)
THEOREM NeverSendsOlder == Spec => SendsInOrder
<1>1. Init => CInv
  BY InitCInv
<1>2. CInv /\ [Next]_vars => CInv'
  BY NextCInv
<1>3. CInv /\ [Next]_vars => [\A k \in Keys : said'[k] >= said[k]]_vars
  BY NextCInv DEF Rising
<1> QED
  BY <1>1, <1>2, <1>3, PTL DEF Spec, SendsInOrder
=============================================================================
