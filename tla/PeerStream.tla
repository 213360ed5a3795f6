----------------------------- MODULE PeerStream -----------------------------
(***************************************************************************)
(* One direction of a WinNetwork connection (projects/WinNetwork/peer.cpp):*)
(* packages are appended to the peer's buffer, poll_peer sends the buffer, *)
(* the other end reads what has arrived and cuts it into packages.         *)
(*                                                                         *)
(* A package is appended in one step, and never while the buffer is being  *)
(* sent and emptied.  The game's other threads append under network_mutex  *)
(* (Il2CppModLoader/dll_main.cpp), which poll_peer does not take: if one   *)
(* appends while the main loop polls, what is sent is undefined, and such  *)
(* runs are left out.  TCP neither loses nor reorders, but may hand over a *)
(* part of what was sent.                                                  *)
(***************************************************************************)
EXTENDS Integers, Sequences, FiniteSets

CONSTANTS Messages,     \* payloads sent besides pings
          CutMessages,  \* those sent where the network cuts
          MaxSaid,      \* bound: packages appended ...
          MaxCut        \* ... where the network cuts them

Byte == {n \in Nat : n < 256}
Lengths == {n \in Nat : 0 < n /\ n < 256 * 256}     \* of packages whose length takes at most two bytes

(* send_trace has room for 508 bytes, the trace server's command line for 127. *)
(* An empty line is sent as a length of zero, which nobody hears: left out.     *)
ASSUME StreamAssumption ==
    /\ MaxSaid \in Nat /\ MaxCut \in 0..MaxSaid
    /\ CutMessages \subseteq Messages
    /\ \A p \in Messages : p \in Seq(Byte) /\ Len(p) \in Lengths

VARIABLES setting,      \* which of two connections this is: "whole", reads are of whole sends;
                        \* "cut", the network may hand over a part of what was sent
          buffer,       \* PeerData::buffer of the sending end
          poll,         \* the polling thread: "idle", or "sent" before buffer.clear()
          wire,         \* what send() was given and has not arrived, one sequence a call
          arrived,      \* bytes recv() would return
          said,         \* payloads in the order they were appended
          heard,        \* payloads handed to the event handler
          reads         \* <<first, last>> positions in the stream of the last read, for the properties

vars == <<setting, buffer, poll, wire, arrived, said, heard, reads>>

----------------------------------------------------------------------------
(* The format: four bytes of length, then a type and the contents.          *)

(* Mutant: the four bytes are subtracted from a length that never held them. *)
Framed_headerTwice(payload) ==
    <<(Len(payload) - 4) % 256, (Len(payload) - 4) \div 256, 0, 0>> \o payload

Framed(payload) == <<Len(payload) % 256, Len(payload) \div 256, 0, 0>> \o payload

Ping == <<1>>

(* read_bw<int> at cursor c of the bytes d.  A length read at the wrong place *)
(* may be negative in the code, which ends the loop like one that is too      *)
(* long; only three bytes of 255, which no text holds, would be skipped.      *)
Int32(d, c) == d[c + 1] + 256 * (d[c + 2] + 256 * (d[c + 3] + 256 * d[c + 4]))

(* Mutants of Packets: a package that ends with the read is left; the length *)
(* is taken to include its own four bytes.                                   *)
Packets_dropsLast(d) ==
    LET from[c \in 0..Len(d)] ==
          IF c + 4 >= Len(d) THEN <<>>
          ELSE LET next == c + 4 + Int32(d, c)
               IN  IF next >= Len(d) THEN <<>>
                   ELSE IF next < c + 5 THEN from[c + 4]
                   ELSE <<SubSeq(d, c + 5, next)>> \o from[next]
    IN  from[0]

Packets_wholeLength(d) ==
    LET from[c \in 0..Len(d)] ==
          IF c + 4 >= Len(d) THEN <<>>
          ELSE LET next == c + Int32(d, c)
               IN  IF next > Len(d) THEN <<>>
                   ELSE IF next < c + 5 THEN from[c + 4]
                   ELSE <<SubSeq(d, c + 5, next)>> \o from[next]
    IN  from[0]

(* The loop of recieve_packets over the bytes of one recv. *)
Packets(d) ==
    LET from[c \in 0..Len(d)] ==
          IF c + 4 >= Len(d) THEN <<>>
          ELSE LET size == Int32(d, c)
                   next == c + 4 + size
               IN  IF next > Len(d) THEN <<>>
                   ELSE IF size < 1 THEN from[c + 4]
                   ELSE <<SubSeq(d, c + 5, next)>> \o from[next]
    IN  from[0]

----------------------------------------------------------------------------
Init ==
    /\ setting \in {"whole", "cut"}
    /\ buffer = <<>> /\ poll = "idle"
    /\ wire = <<>> /\ arrived = <<>>
    /\ said = <<>> /\ heard = <<>> /\ reads = <<0, 0>>

MaySay == Len(said) < (IF setting = "cut" THEN MaxCut ELSE MaxSaid)

(* send_data: the ping in poll_peer, what the event handler and the rest of  *)
(* the polling thread's turn send, and another thread's trace that does not  *)
(* overlap a poll.                                                           *)
SendData(payload) ==
    /\ poll = "idle" /\ MaySay
    /\ buffer' = buffer \o Framed(payload)
    /\ said' = Append(said, payload)
    /\ UNCHANGED <<setting, poll, wire, arrived, heard, reads>>

(* send_packets: send() takes the buffer, its result is not looked at ...    *)
Send ==
    /\ poll = "idle" /\ buffer # <<>>
    /\ wire' = Append(wire, buffer)
    /\ poll' = "sent"
    /\ UNCHANGED <<setting, buffer, arrived, said, heard, reads>>

(* ... and the buffer is emptied. *)
Clear ==
    /\ poll = "sent"
    /\ buffer' = <<>>
    /\ poll' = "idle"
    /\ UNCHANGED <<setting, wire, arrived, said, heard, reads>>

(* The network. *)
Deliver(n) ==
    /\ wire # <<>> /\ n \in 1..Len(Head(wire))
    /\ n < Len(Head(wire)) => setting = "cut"
    /\ arrived' = arrived \o SubSeq(Head(wire), 1, n)
    /\ wire' = IF n = Len(Head(wire)) THEN Tail(wire)
               ELSE <<SubSeq(Head(wire), n + 1, Len(Head(wire)))>> \o Tail(wire)
    /\ UNCHANGED <<setting, buffer, poll, said, heard, reads>>

(* recieve_packets: everything that has arrived is read and cut into         *)
(* packages; what does not make a package is forgotten.                      *)
Receive ==
    /\ arrived # <<>>
    /\ heard' = heard \o Packets(arrived)
    /\ arrived' = <<>>
    /\ reads' = <<reads[2], reads[2] + Len(arrived)>>
    /\ UNCHANGED <<setting, buffer, poll, wire, said>>

DeliverSome == wire # <<>> /\ \E n \in 1..Len(Head(wire)) : Deliver(n)

Next ==
    \/ \E p \in {Ping} \cup (IF setting = "cut" THEN CutMessages ELSE Messages) : SendData(p)
    \/ Send \/ Clear
    \/ DeliverSome
    \/ Receive

(* Both ends poll in their main loop; TCP delivers. *)
Fairness ==
    WF_vars(Send) /\ WF_vars(Clear) /\ WF_vars(DeliverSome) /\ WF_vars(Receive)

Spec == Init /\ [][Next]_vars /\ Fairness

----------------------------------------------------------------------------
TypeOK ==
    /\ setting \in {"whole", "cut"}
    /\ buffer \in Seq(Byte) /\ wire \in Seq(Seq(Byte)) /\ arrived \in Seq(Byte)
    /\ poll \in {"idle", "sent"}
    /\ said \in Seq(Seq(Byte)) /\ heard \in Seq(Seq(Byte))
    /\ reads \in Nat \X Nat

(* Where a package ends in the stream of bytes. *)
EndOf[i \in 0..Len(said)] == IF i = 0 THEN 0 ELSE EndOf[i - 1] + Len(Framed(said[i]))

(* A read that begins where a package begins yields exactly the packages that *)
(* lie whole in it, in order, whatever earlier reads cut in two: the loop of  *)
(* recieve_packets, and data.buffer.clear() before it, carry nothing from one *)
(* read to the next.  A package cut in two is lost with what follows it.      *)
ReadsWholePackages ==
    [][LET begun(x) == {i \in 0..Len(said) : EndOf[i] <= x}
           first == Cardinality(begun(reads'[1]))
           last == Cardinality(begun(reads'[2])) - 1
       IN  (\E i \in 0..Len(said) : EndOf[i] = reads'[1])
               => heard' = heard \o SubSeq(said, first, last)]_<<heard, reads>>

(* Where reads do not cut what was sent, the connection is the queue of      *)
(* packages its user takes it for, whatever the packages' lengths.           *)
Abstract == INSTANCE PackageFifo WITH Packages <- {Ping} \cup Messages,
                                      pending <- IF setting = "whole"
                                                 THEN SubSeq(said, Len(heard) + 1, Len(said))
                                                 ELSE <<>>,
                                      heard <- IF setting = "whole" THEN heard ELSE <<>>

IsFifo == Abstract!Spec
============================================================================
