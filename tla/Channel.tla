------------------------------- MODULE Channel -------------------------------
(***************************************************************************)
(* What the transfer protocol takes a connection for: whole messages, each *)
(* at most once and in order, and a clean end only after the last one.     *)
(***************************************************************************)
EXTENDS Naturals, Sequences

CONSTANTS Ends, Other(_), Messages

VARIABLES
  sent,    \* sent[e]: messages e has begun to hand over
  got,     \* got[e]: messages e has received
  ended,   \* how the connection ended for e: "open", "clean" or "broken"
  closed   \* ends that have closed the connection

CInit ==
  /\ sent = [e \in Ends |-> <<>>]
  /\ got = [e \in Ends |-> <<>>]
  /\ ended = [e \in Ends |-> "open"]
  /\ closed = {}

HandOver(e, m) ==
  /\ e \notin closed
  /\ sent' = [sent EXCEPT ![e] = Append(@, m)]
  /\ UNCHANGED <<got, ended, closed>>

Deliver(e) ==
  /\ ended[e] = "open"
  /\ Len(got[e]) < Len(sent[Other(e)])
  /\ got' = [got EXCEPT ![e] = Append(@, sent[Other(e)][Len(@) + 1])]
  /\ UNCHANGED <<sent, ended, closed>>

\* The end of the stream is clean when every message begun has arrived.
EndClean(e) ==
  /\ ended[e] = "open"
  /\ Other(e) \in closed
  /\ got[e] = sent[Other(e)]
  /\ ended' = [ended EXCEPT ![e] = "clean"]
  /\ UNCHANGED <<sent, got, closed>>

EndBroken(e) ==
  /\ ended[e] = "open"
  /\ ended' = [ended EXCEPT ![e] = "broken"]
  /\ UNCHANGED <<sent, got, closed>>

CloseEnd(e) ==
  /\ e \notin closed
  /\ closed' = closed \cup {e}
  /\ UNCHANGED <<sent, got, ended>>

CNext ==
  \E e \in Ends :
    \/ \E m \in Messages : HandOver(e, m)
    \/ Deliver(e) \/ EndClean(e) \/ EndBroken(e) \/ CloseEnd(e)

CSpec == CInit /\ [][CNext]_<<sent, got, ended, closed>>
=============================================================================
