---- MODULE MCNetClient ----
(***************************************************************************)
(* NetClient on one or two states, with a few changes, broken connections  *)
(* and reloads.                                                            *)
(***************************************************************************)
EXTENDS NetClient
============================
