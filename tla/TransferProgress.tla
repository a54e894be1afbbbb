-------------------------- MODULE TransferProgress --------------------------
(***************************************************************************)
(* Where an end of a transfer is, in the terms of the documented state     *)
(* machine (TransferStates).  send_files and handle_incoming never touch a *)
(* TransferStateMachine; this is how far their control flow follows one.   *)
(***************************************************************************)
EXTENDS Transfer

Ends == {"sender", "receiver"} \X Transfers

SenderProgress ==
  [idle |-> "Handshaking", handshake |-> "Handshaking", negotiating |-> "Negotiating",
   sending |-> "Transferring", awaitAck |-> "Transferring", verifying |-> "Verifying",
   completed |-> "Completed", rejected |-> "Cancelled", failed |-> "Failed"]

ReceiverProgress ==
  [idle |-> "Handshaking", hs1 |-> "Handshaking", hs3 |-> "Handshaking",
   waitRequest |-> "Negotiating", deciding |-> "Negotiating", creating |-> "Negotiating",
   receiving |-> "Transferring", finalizing |-> "Verifying",
   removing |-> "Verifying", closing |-> "Verifying",
   completed |-> "Completed", incomplete |-> "Failed", failed |-> "Failed"]

progress ==
  [e \in Ends |-> IF e[1] = "sender" THEN SenderProgress[spc[e[2]]]
                  ELSE ReceiverProgress[rpc[e[2]]]]

Machine == INSTANCE TransferStates WITH state <- progress

\* Both ends of a transfer go through the documented states in the documented
\* order, whatever messages come, are lost or are wrong: none verifies before it
\* has transferred, none completes before it has verified, and none leaves a
\* state that is terminal.
FollowsStateMachine == Machine!TSSpec
===========================================================================
