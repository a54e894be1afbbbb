--------------------------- MODULE MCSecureChannel ---------------------------
(***************************************************************************)
(* A small instance of SecureChannel for TLC.                              *)
(***************************************************************************)
EXTENDS SecureChannel, TLC

CONSTANTS short, long, hs1, hs2, hs3

HandshakeMessages == <<hs1, hs2, hs3>>
Sizes == (short :> 1) @@ (long :> 2) @@ (hs1 :> 1) @@ (hs2 :> 1) @@ (hs3 :> 1)
Sends == [initiator |-> 4, responder |-> 2]
=============================================================================
