--------------------------- MODULE TransferStates ---------------------------
(***************************************************************************)
(* The state machine of a transfer as justdrop-protocol/src/state.rs       *)
(* documents it: which states follow which.  Every end of a transfer has   *)
(* one.  TransferProgress shows that the transfer protocol, which keeps    *)
(* its state in the control flow of two functions, moves along it.         *)
(***************************************************************************)
CONSTANT Ends   \* ends of transfers

VARIABLE state  \* state[e]: TransferStateMachine.state

Running == {"Handshaking", "Negotiating", "Transferring", "Verifying"}
Terminal == {"Completed", "Failed", "Cancelled"}
States == Running \cup {"Paused"} \cup Terminal

\* is_valid_transition.
Valid ==
  {<<"Handshaking", "Negotiating">>, <<"Negotiating", "Transferring">>,
   <<"Transferring", "Verifying">>, <<"Verifying", "Completed">>}
    \cup Running \X {"Cancelled", "Failed"}
    \cup {<<"Transferring", "Paused">>, <<"Negotiating", "Negotiating">>}
    \cup {"Paused"} \X {"Transferring", "Cancelled", "Failed"}

\* TransferStateMachine::new
TSInit == state = [e \in Ends |-> "Handshaking"]

\* A transition that is not valid is an error and changes nothing.
transition(e, to) ==
  /\ <<state[e], to>> \in Valid
  /\ state' = [state EXCEPT ![e] = to]

TSNext == \E e \in Ends, to \in States : transition(e, to)

TSSpec == TSInit /\ [][TSNext]_state
===========================================================================
