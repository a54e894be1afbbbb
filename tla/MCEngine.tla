----------------------------- MODULE MCEngine -----------------------------
(***************************************************************************)
(* Small instances of Engine for TLC.                                      *)
(***************************************************************************)
EXTENDS Engine

\* The events on which a handler may ask the engine back and still return.
PeerEvents == {"PeerDiscovered", "PeerUpdated", "PeerLost"}
===========================================================================
