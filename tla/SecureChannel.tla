---------------------------- MODULE SecureChannel ----------------------------
(***************************************************************************)
(* One connection byte by byte (justdrop-network/src/transport.rs under    *)
(* justdrop-security): three handshake messages in raw frames, then frames *)
(* that a Noise session seals.  TCP hands over any number of bytes at a    *)
(* time, so frames arrive in pieces and run into each other, and the       *)
(* handshake and the session read one stream one after the other.          *)
(***************************************************************************)
EXTENDS Naturals, Sequences

CONSTANTS
  Header,        \* FRAME_HEADER_SIZE
  Messages,      \* messages the ends send once the session is there
  Hs,            \* Hs[k]: handshake message k of three
  Size,          \* Size[m]: bytes of the frame of m behind its header
  MaxFrame,      \* MAX_MESSAGE_SIZE
  MaxSends       \* bound on the messages an end sends

Ends == {"initiator", "responder"}
Other(e) == IF e = "initiator" THEN "responder" ELSE "initiator"
AllMessages == Messages \cup {Hs[k] : k \in 1 .. 3}

ASSUME ChannelAssumption ==
  /\ Header \in Nat \ {0}
  /\ Size \in [AllMessages -> Nat \ {0}]
  /\ MaxFrame \in Nat /\ \A m \in AllMessages : Size[m] <= MaxFrame
  /\ MaxSends \in [Ends -> Nat]

\* Noise_XX: what an end does with each of the three handshake messages
\* (handshake_initiator and handshake_responder of transfer.rs).
NoiseInitiator == <<"send", "receive", "send">>
NoiseResponder == <<"receive", "send", "receive">>
Handshake(e) == IF e = "initiator" THEN NoiseInitiator ELSE NoiseResponder

VARIABLES
  stage,    \* stage[e]: number of the next handshake message; 4 in the session
  out,      \* out[e]: bytes a send under way has still to write
  wire,     \* wire[e]: bytes sent to e that e has not read yet
  tail,     \* tail[e]: what follows them: "open", "fin" or "rst"
  buf,      \* buf[e]: read_buf, or what read_exact has read so far
  reading,  \* ends with a recv call under way
  sealed,   \* sealed[e]: the Noise nonce of the next message e encrypts
  opened,   \* opened[e]: the Noise nonce e expects next
  silent,   \* the network carries nothing any more, and tells no one
  sent, got, ended, closed  \* of Channel

cvars == <<stage, out, wire, tail, buf, reading, sealed, opened, silent, sent, got, ended, closed>>

CInit ==
  /\ stage = [e \in Ends |-> 1]
  /\ out = [e \in Ends |-> <<>>]
  /\ wire = [e \in Ends |-> <<>>]
  /\ tail = [e \in Ends |-> "open"]
  /\ buf = [e \in Ends |-> <<>>]
  /\ reading = {}
  /\ sealed = [e \in Ends |-> 0] /\ opened = [e \in Ends |-> 0]
  /\ silent = FALSE
  /\ sent = [e \in Ends |-> <<>>] /\ got = [e \in Ends |-> <<>>]
  /\ ended = [e \in Ends |-> "open"]
  /\ closed = {}

InSession(e) == stage[e] = 4

\* An end does one thing at a time: send and recv take the transport mutably.
Free(e) == e \notin closed /\ e \notin reading /\ out[e] = <<>> /\ ended[e] = "open"

---------------------------------------------------------------------------
(* Sending *)

\* The bytes of a frame.  Every byte of the header says how long the body is;
\* nonce is meaningless in a raw frame.
Frame(m, raw, nonce) ==
  [k \in 1 .. Header + Size[m] |->
     [msg |-> m, len |-> Size[m], pos |-> k, raw |-> raw, nonce |-> nonce]]

\* The next handshake message of e (write_raw_frame).
SendRaw(e) ==
  /\ Free(e)
  /\ ~InSession(e)
  /\ Handshake(e)[stage[e]] = "send"
  /\ out' = [out EXCEPT ![e] = Frame(Hs[stage[e]], TRUE, 0)]
  /\ stage' = [stage EXCEPT ![e] = @ + 1]
  /\ UNCHANGED <<wire, tail, buf, reading, sealed, opened, silent, sent, got, ended, closed>>

\* send encrypts, which uses up a nonce, and begins to write the frame.
Send(e, m) ==
  /\ Free(e)
  /\ InSession(e)
  /\ Len(sent[e]) < MaxSends[e]
  /\ out' = [out EXCEPT ![e] = Frame(m, FALSE, sealed[e])]
  /\ sealed' = [sealed EXCEPT ![e] = @ + 1]
  /\ UNCHANGED <<stage, wire, tail, buf, reading, opened, silent, sent, got, ended, closed>>

\* write_all: the kernel takes some bytes.  Once the stream has ended, or the
\* network is silent, it takes them for nothing.
Write(e) ==
  /\ out[e] # <<>>
  /\ \E k \in 1 .. Len(out[e]) :
       /\ out' = [out EXCEPT ![e] = SubSeq(@, k + 1, Len(@))]
       /\ wire' = IF tail[Other(e)] = "open" /\ Other(e) \notin closed /\ ~silent
                    THEN [wire EXCEPT ![Other(e)] = @ \o SubSeq(out[e], 1, k)]
                    ELSE wire
       /\ sent' = IF Head(out[e]).pos = 1 THEN [sent EXCEPT ![e] = Append(@, Head(out[e]).msg)] ELSE sent
  /\ UNCHANGED <<stage, tail, buf, reading, sealed, opened, silent, got, ended, closed>>

---------------------------------------------------------------------------
(* Receiving *)

\* MAX_MESSAGE_SIZE is looked at as soon as the header is there.
TooLong(e) == Len(buf[e]) >= Header /\ Head(buf[e]).len > MaxFrame

StartRecv(e) ==
  /\ Free(e)
  /\ ~InSession(e) => Handshake(e)[stage[e]] = "receive"
  /\ reading' = reading \cup {e}
  /\ UNCHANGED <<stage, out, wire, tail, buf, sealed, opened, silent, sent, got, ended, closed>>

\* Bytes the buffer must hold before the next decision: a header, or the frame
\* whose length the header gives.
Needed(e) ==
  IF Len(buf[e]) < Header \/ TooLong(e) THEN Header ELSE Header + Head(buf[e]).len

\* Mutant: the handshake reads through a buffer as the session does.
Room_buffered(e) == Len(wire[e])

\* read_buf takes what there is; read_exact, in the handshake, no more than it
\* was asked for: what follows belongs to the session.
Room(e) ==
  IF InSession(e) \/ Needed(e) - Len(buf[e]) > Len(wire[e])
    THEN Len(wire[e]) ELSE Needed(e) - Len(buf[e])

Read(e) ==
  /\ e \in reading
  /\ Len(buf[e]) < Needed(e)
  /\ \E k \in 1 .. Room(e) :
       /\ buf' = [buf EXCEPT ![e] = @ \o SubSeq(wire[e], 1, k)]
       /\ wire' = [wire EXCEPT ![e] = SubSeq(@, k + 1, Len(@))]
  /\ UNCHANGED <<stage, out, tail, reading, sealed, opened, silent, sent, got, ended, closed>>

\* Mutant: the end of the stream is clean wherever it comes.
ReadEnd_always_clean(e) ==
  /\ e \in reading
  /\ Len(buf[e]) < Needed(e)
  /\ wire[e] = <<>> /\ tail[e] # "open"
  /\ ended' = [ended EXCEPT ![e] = IF tail[e] = "fin" THEN "clean" ELSE "broken"]
  /\ reading' = reading \ {e}
  /\ UNCHANGED <<stage, out, wire, tail, buf, sealed, opened, silent, sent, got, closed>>

\* Mutant: recv waits for more whatever the end of the stream says.
ReadEnd_waits(e) ==
  /\ e \in reading
  /\ buf[e] = <<>>
  /\ wire[e] = <<>> /\ tail[e] # "open"
  /\ ended' = [ended EXCEPT ![e] = IF tail[e] = "fin" /\ InSession(e) THEN "clean" ELSE "broken"]
  /\ reading' = reading \ {e}
  /\ UNCHANGED <<stage, out, wire, tail, buf, sealed, opened, silent, sent, got, closed>>

\* No more bytes: None between two frames of the session, else an error.
ReadEnd(e) ==
  /\ e \in reading
  /\ Len(buf[e]) < Needed(e)
  /\ wire[e] = <<>> /\ tail[e] # "open"
  /\ ended' = [ended EXCEPT ![e] =
       IF tail[e] = "fin" /\ InSession(e) /\ buf[e] = <<>> THEN "clean" ELSE "broken"]
  /\ reading' = reading \ {e}
  /\ UNCHANGED <<stage, out, wire, tail, buf, sealed, opened, silent, sent, got, closed>>

\* A body the state of e can read: one whole frame, under the nonce the session
\* expects, or the handshake message whose turn it is.
Opens(e, body) ==
  LET b == Head(body)
  IN  /\ Len(body) = b.len
      /\ \A k \in DOMAIN body : body[k] = [b EXCEPT !.pos = Header + k]
      /\ IF InSession(e) THEN ~b.raw /\ b.nonce = opened[e]
         ELSE b.raw /\ b.msg = Hs[stage[e]]

\* The frame is whole: header off, body off the buffer, decrypted, unless the header
\* asked for too much.  The buffers of read_raw_frame go with the call.
TakeFrame(e) ==
  /\ e \in reading
  /\ Len(buf[e]) >= Needed(e)
  /\ LET body == SubSeq(buf[e], Header + 1, Needed(e))
     IN  IF ~TooLong(e) /\ Opens(e, body)
           THEN /\ got' = [got EXCEPT ![e] = Append(@, Head(body).msg)]
                /\ opened' = [opened EXCEPT ![e] = IF InSession(e) THEN @ + 1 ELSE @]
                /\ stage' = [stage EXCEPT ![e] = IF InSession(e) THEN @ ELSE @ + 1]
                /\ UNCHANGED ended
           ELSE /\ ended' = [ended EXCEPT ![e] = "broken"]
                /\ UNCHANGED <<got, opened, stage>>
  /\ buf' = [buf EXCEPT ![e] = IF InSession(e) THEN SubSeq(@, Needed(e) + 1, Len(@)) ELSE <<>>]
  /\ reading' = reading \ {e}
  /\ UNCHANGED <<out, wire, tail, sealed, silent, sent, closed>>

---------------------------------------------------------------------------
(* Closing, and the network *)

\* The stream to e breaks off; what is still on its way may be lost.
BreakOff(e) ==
  /\ tail' = [tail EXCEPT ![e] = "rst"]
  /\ \E n \in 0 .. Len(wire[e]) : wire' = [wire EXCEPT ![e] = SubSeq(@, 1, n)]

\* The task of e returns or its process ends, at any point, in the middle of a
\* frame too.  Dropping a socket with unread data resets the connection.
Close(e) ==
  /\ e \notin closed
  /\ closed' = closed \cup {e}
  /\ out' = [out EXCEPT ![e] = <<>>]
  /\ reading' = reading \ {e}
  /\ IF tail[Other(e)] # "open" \/ silent THEN UNCHANGED <<wire, tail>>
     ELSE IF wire[e] # <<>> THEN BreakOff(Other(e))
     ELSE tail' = [tail EXCEPT ![Other(e)] = "fin"] /\ UNCHANGED wire
  /\ UNCHANGED <<stage, buf, sealed, opened, silent, sent, got, ended>>

\* write_all fails on a connection that is reset or times out: the error ends
\* the task, and with it the rest of the frame.
WriteFails(e) ==
  /\ out[e] # <<>>
  /\ tail[e] = "rst" \/ silent
  /\ Close(e)

\* The connection is reset: the network cuts it, or the kernel of a peer that
\* is gone answers what was written to it.
Cut(e) ==
  /\ tail[e] # "rst" /\ ~silent
  /\ BreakOff(e)
  /\ UNCHANGED <<stage, out, buf, reading, sealed, opened, silent, sent, got, ended, closed>>

\* The peer's device leaves the network: no byte, FIN or RST arrives any more.
Vanish ==
  /\ ~silent
  /\ silent' = TRUE
  /\ UNCHANGED <<stage, out, wire, tail, buf, reading, sealed, opened, sent, got, ended, closed>>

EndStep(e) ==
  \/ SendRaw(e) \/ (\E m \in Messages : Send(e, m)) \/ Write(e)
  \/ StartRecv(e) \/ Read(e) \/ ReadEnd(e) \/ TakeFrame(e)
  \/ Close(e) \/ WriteFails(e)

CNext == (\E e \in Ends : EndStep(e) \/ Cut(e)) \/ Vanish

CSpec == CInit /\ [][CNext]_cvars

\* A recv under way takes what arrives: tokio polls it whenever the socket is ready.
FairCSpec == CSpec /\ \A e \in Ends : WF_cvars(Read(e) \/ ReadEnd(e) \/ TakeFrame(e))

---------------------------------------------------------------------------
(* Properties *)

\* The connection is the channel the transfer protocol takes it for: frames in
\* pieces, frames run together, the change from handshake to session and a
\* close in the middle of a frame neither lose, repeat nor reorder a message,
\* and recv returns None only when no message was begun that it has not returned.
Carrier == INSTANCE Channel WITH Messages <- AllMessages
ImplementsChannel == Carrier!CSpec

\* A frame that recv has gathered can be decrypted: between two ends that follow
\* the protocol the framing and the nonces of the two sessions never part.
FramesOpen ==
  \A e \in reading :
    Len(buf[e]) >= Needed(e) =>
      ~TooLong(e) /\ Opens(e, SubSeq(buf[e], Header + 1, Needed(e)))

\* recv comes back once a message has been sent that it has not returned yet, or
\* the peer has closed: it waits for ever only for a peer that says nothing, or
\* when the network has gone silent, because recv has no timeout.
RecvReturns ==
  \A e \in Ends :
    (e \in reading /\ (Other(e) \in closed \/
                       (Len(sent[Other(e)]) > Len(got[e]) /\ out[Other(e)] = <<>>)))
      ~> (e \notin reading \/ silent)
=============================================================================
