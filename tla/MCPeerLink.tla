----------------------------- MODULE MCPeerLink -----------------------------
(* Values of PeerLink's constants for TLC. *)
EXTENDS PeerLink
============================================================================
