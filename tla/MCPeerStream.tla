---------------------------- MODULE MCPeerStream ----------------------------
(* Values of PeerStream's constants for TLC: what a game sends, set_pinging's *)
(* package and traces (type Info, level 4, a group and a text, one of them so *)
(* long that the length takes two bytes), and a line the trace server sends.  *)
EXTENDS PeerStream

Word(n) == <<n, 0, 0, 0>>
Text(s) == <<Len(s) % 256, Len(s) \div 256, 0, 0>> \o s

ConfigPing == <<240, 0>>
TraceMessage(text) == <<16>> \o Word(2) \o Word(4) \o Text(<<103>>) \o Text(text)
CommandLine == <<108, 105, 115, 116>>

MCCutMessages == {CommandLine}
MCMessages ==
    {ConfigPing, TraceMessage(<<97>>), TraceMessage([i \in 1..260 |-> 97 + (i % 26)])} \cup MCCutMessages
=============================================================================
