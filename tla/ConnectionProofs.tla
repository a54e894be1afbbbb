--------------------------- MODULE ConnectionProofs ---------------------------
(***************************************************************************)
(* What two devices agree on over one connection.  SecureChannel: the      *)
(* connection is the channel the transfer protocol takes it for, messages  *)
(* of any size, pieces of any size.  ResumeNegotiation: what is held and   *)
(* what is sent, for manifests of any shape.                               *)
(***************************************************************************)
EXTENDS SecureChannel, ResumeNegotiation, ChunkingProofs,
        SequenceTheorems, WellFoundedInduction, TLAPS

---------------------------------------------------------------------------
(* Streams of bytes *)

\* A byte of a frame: the header and Size[m] bytes of body.
Octet ==
  {b \in [msg : AllMessages, len : Nat, pos : Nat, raw : BOOLEAN, nonce : Nat] :
     b.len = Size[b.msg] /\ b.pos \in 1 .. Header + b.len}

\* Handshake messages come before every session message, those in the order of
\* their nonces.  Two handshake messages are never under way to one end at once.
Number(b) == IF b.raw THEN 0 ELSE b.nonce + 1

\* Bytes of the frame of b behind b.
Rest(b) == Header + b.len - b.pos

SameFrame(b, c) ==
  b.msg = c.msg /\ b.len = c.len /\ b.raw = c.raw /\ b.nonce = c.nonce

\* c may follow b at distance d: in the frame of b, or in a later one.
Linked(b, c, d) ==
  /\ Number(b) <= Number(c)
  /\ Number(b) = Number(c) => SameFrame(b, c) /\ c.pos = b.pos + d
  /\ d <= Rest(b) => Number(c) = Number(b)
  /\ d = Rest(b) + 1 => c.pos = 1 /\ Number(c) = Number(b) + 1

\* Frames without a gap; the first may lack its beginning, the last its end.
Framed(q) == \A j, k \in DOMAIN q : j <= k => Linked(q[j], q[k], k - j)

\* Frames that start with the first byte of frame number first.
Stream(q, first) ==
  /\ Framed(q)
  /\ q # <<>> => q[1].pos = 1 /\ Number(q[1]) = first

\* The number of the frame that comes after q.
NextNumber(q, first) == IF q = <<>> THEN first ELSE Number(q[Len(q)]) + 1

\* The last frame of q is whole.
EndsWhole(q) == q # <<>> => Rest(q[Len(q)]) = 0

\* q is what is left of one frame.
Remainder(q) ==
  q # <<>> =>
    /\ Rest(q[Len(q)]) = 0
    /\ \A k \in DOMAIN q : SameFrame(q[1], q[k]) /\ q[k].pos = q[1].pos + (k - 1)

\* The frames of q, of which the one with number first would be message n + 1,
\* carry the messages of msgs.
Carried(q, first, msgs, n) ==
  \A k \in DOMAIN q :
    /\ n + 1 + Number(q[k]) - first \in DOMAIN msgs
    /\ q[k].msg = msgs[n + 1 + Number(q[k]) - first]

---------------------------------------------------------------------------
(* The invariant *)

Arriving(e) == buf[e] \o wire[e]
Coming(e) == Arriving(e) \o out[Other(e)]

\* The number of the frame e takes next, and of the one its peer sends next.
First(e) == IF InSession(e) THEN opened[e] + 1 ELSE 0
Due(e) ==
  IF InSession(Other(e)) THEN sealed[Other(e)] + 1
  ELSE IF InSession(e) \/ stage[Other(e)] > stage[e] THEN 1 ELSE 0

\* Nothing the peer writes is lost; nothing it has written is.
Live(e) == tail[e] = "open" /\ ~silent
Whole(e) == Live(e) \/ tail[e] = "fin"

CTypeOK ==
  /\ stage \in [Ends -> 1 .. 4]
  /\ out \in [Ends -> Seq(Octet)] /\ wire \in [Ends -> Seq(Octet)] /\ buf \in [Ends -> Seq(Octet)]
  /\ tail \in [Ends -> {"open", "fin", "rst"}]
  /\ reading \subseteq Ends /\ closed \subseteq Ends
  /\ sealed \in [Ends -> Nat] /\ opened \in [Ends -> Nat]
  /\ silent \in BOOLEAN
  /\ sent \in [Ends -> Seq(AllMessages)] /\ got \in [Ends -> Seq(AllMessages)]
  /\ ended \in [Ends -> {"open", "clean", "broken"}]

\* The two handshakes move in turns; nonces are counted in the session only.
Turns ==
  /\ <<stage["initiator"], stage["responder"]>> \in
       {<<1, 1>>, <<2, 1>>, <<2, 2>>, <<2, 3>>, <<3, 3>>, <<4, 3>>, <<4, 4>>}
  /\ \A e \in Ends : ~InSession(e) => opened[e] = 0 /\ sealed[e] = 0

\* Who does what: a recv is under way at an open end only, a send too, and the
\* handshake reads no byte behind the frame it is waiting for.
Calls ==
  \A e \in Ends :
    /\ e \in reading =>
         /\ e \notin closed /\ ended[e] = "open"
         /\ ~InSession(e) => Handshake(e)[stage[e]] = "receive"
    /\ out[e] # <<>> => e \notin closed
    /\ tail[e] = "fin" => Other(e) \in closed
    /\ ~InSession(e) => Len(buf[e]) <= Needed(e)

\* A byte on its way to e: of the handshake message e waits for, or sealed by
\* the session of the peer.
InFlight(e, b) ==
  /\ b.raw /\ ~InSession(e) => b.msg = Hs[stage[e]]
  /\ ~InSession(e) => stage[Other(e)] = stage[e] + 1
  /\ ~b.raw => InSession(Other(e)) /\ b.nonce < sealed[Other(e)]

\* What has arrived at e continues what it has taken, and carries what the peer
\* has sent; the bytes the peer still has to write continue it.
FlowArriving(e) ==
  /\ Stream(Arriving(e), First(e))
  /\ \A k \in DOMAIN Arriving(e) : InFlight(e, Arriving(e)[k])
  /\ Carried(Arriving(e), First(e), sent[Other(e)], Len(got[e]))
  /\ Whole(e) =>
       Len(sent[Other(e)]) + First(e) = Len(got[e]) + NextNumber(Arriving(e), First(e))

FlowComing(e) ==
  /\ Stream(Coming(e), First(e))
  /\ \A k \in DOMAIN Coming(e) : InFlight(e, Coming(e)[k])
  /\ EndsWhole(Coming(e))
  /\ Remainder(out[Other(e)])
  /\ Due(e) = NextNumber(Coming(e), First(e))

Flow(e) == FlowArriving(e) /\ (Live(e) => FlowComing(e))

Flows == \A e \in Ends : e \notin closed => Flow(e)

\* An end has received the first messages its peer has sent.
InOrder ==
  \A e \in Ends :
    /\ Len(got[e]) <= Len(sent[Other(e)])
    /\ \A k \in 1 .. Len(got[e]) : got[e][k] = sent[Other(e)][k]

ChannelInv == CTypeOK /\ Turns /\ Calls /\ Flows /\ InOrder

---------------------------------------------------------------------------
(* Facts about sequences *)

LEMMA Associates == \A u, v, z \in Seq(Octet) : (u \o v) \o z = u \o (v \o z)
  BY ConcatAssociative

\* The first k elements of q move behind p.
LEMMA MoveFront ==
  ASSUME NEW p \in Seq(Octet), NEW q \in Seq(Octet), NEW k \in 1 .. Len(q)
  PROVE  /\ SubSeq(q, 1, k) \in Seq(Octet) /\ SubSeq(q, k + 1, Len(q)) \in Seq(Octet)
         /\ Len(SubSeq(q, 1, k)) = k /\ Len(SubSeq(q, k + 1, Len(q))) = Len(q) - k
         /\ (p \o SubSeq(q, 1, k)) \o SubSeq(q, k + 1, Len(q)) = p \o q
         /\ \A i \in 1 .. k : SubSeq(q, 1, k)[i] = q[i]
         /\ \A i \in 1 .. Len(q) - k : SubSeq(q, k + 1, Len(q))[i] = q[k + i]
<1> DEFINE a == SubSeq(q, 1, k)
           b == SubSeq(q, k + 1, Len(q))
<1>1. Len(q) \in Nat /\ \A i \in 1 .. Len(q) : q[i] \in Octet
  OBVIOUS
<1>2. a \in Seq(Octet) /\ Len(a) = k /\ \A i \in 1 .. k : a[i] = q[i]
  BY <1>1, SubSeqProperties
<1>3. b \in Seq(Octet) /\ Len(b) = Len(q) - k /\ \A i \in 1 .. Len(q) - k : b[i] = q[k + i]
  BY <1>1, SubSeqProperties
<1>4. (p \o a) \o b = p \o (a \o b)
  <2> HIDE DEF a, b
  <2> QED BY <1>2, <1>3, Associates
<1>5. a \o b = q
  <2>1. a \o b = SubSeq(q, 1, Len(q))
    BY <1>1, ConcatAdjacentSubSeq
  <2> QED BY <2>1, SubSeqFull
<1> QED BY <1>2, <1>3, <1>4, <1>5

\* What is left of p behind its first n elements, and q: the two together.
LEMMA DropFront ==
  ASSUME NEW p \in Seq(Octet), NEW q \in Seq(Octet), NEW n \in 0 .. Len(p)
  PROVE  /\ SubSeq(p, n + 1, Len(p)) \in Seq(Octet)
         /\ Len(SubSeq(p, n + 1, Len(p))) = Len(p) - n
         /\ \A i \in 1 .. Len(p) - n : SubSeq(p, n + 1, Len(p))[i] = p[n + i]
         /\ SubSeq(p, n + 1, Len(p)) \o q = SubSeq(p \o q, n + 1, Len(p \o q))
<1> DEFINE a == SubSeq(p, n + 1, Len(p))
           b == SubSeq(p \o q, n + 1, Len(p \o q))
<1>1. /\ Len(p) \in Nat /\ \A i \in 1 .. Len(p) : p[i] \in Octet
      /\ Len(q) \in Nat /\ \A i \in 1 .. Len(q) : q[i] \in Octet
  OBVIOUS
<1>2. a \in Seq(Octet) /\ Len(a) = Len(p) - n /\ \A i \in 1 .. Len(p) - n : a[i] = p[n + i]
  BY <1>1, SubSeqProperties
<1>3. /\ p \o q \in Seq(Octet) /\ Len(p \o q) = Len(p) + Len(q)
      /\ \A i \in 1 .. Len(p) + Len(q) : (p \o q)[i] = IF i <= Len(p) THEN p[i] ELSE q[i - Len(p)]
  BY ConcatProperties
<1>4. /\ b \in Seq(Octet) /\ Len(b) = Len(p) + Len(q) - n
      /\ \A i \in 1 .. Len(p) + Len(q) - n : b[i] = (p \o q)[n + i]
  <2>1. \A i \in n + 1 .. Len(p \o q) : (p \o q)[i] \in Octet
    BY <1>1, <1>3
  <2> HIDE DEF b
  <2>2. n + 1 \in Int /\ Len(p \o q) \in Int
    BY <1>1, <1>3
  <2> QED BY <2>1, <2>2, <1>1, <1>3, SubSeqProperties DEF b
<1>5. /\ a \o q \in Seq(Octet) /\ Len(a \o q) = Len(p) - n + Len(q)
      /\ \A i \in 1 .. Len(p) - n + Len(q) :
           (a \o q)[i] = IF i <= Len(p) - n THEN a[i] ELSE q[i - (Len(p) - n)]
  BY <1>1, <1>2, ConcatProperties
<1>6. \A i \in 1 .. Len(p) - n + Len(q) : (a \o q)[i] = b[i]
  <2> HIDE DEF a, b
  <2> SUFFICES ASSUME NEW i \in 1 .. Len(p) - n + Len(q) PROVE (a \o q)[i] = b[i]
    OBVIOUS
  <2>1. n + i \in 1 .. Len(p) + Len(q) /\ i \in 1 .. Len(p) + Len(q) - n
    BY <1>1
  <2>2. CASE i <= Len(p) - n
    BY <2>1, <2>2, <1>1, <1>2, <1>3, <1>4, <1>5
  <2>3. CASE ~(i <= Len(p) - n)
    <3>1. (n + i) - Len(p) = i - (Len(p) - n) /\ ~(n + i <= Len(p))
      BY <2>3, <1>1
    <3> QED BY <3>1, <2>1, <2>3, <1>1, <1>3, <1>4, <1>5
  <2> QED BY <2>2, <2>3
<1>7. a \o q = b
  <2> HIDE DEF a, b
  <2>1. Len(a \o q) = Len(b) /\ \A i \in 1 .. Len(a \o q) : (a \o q)[i] = b[i]
    BY <1>1, <1>4, <1>5, <1>6
  <2> QED BY <2>1, <1>4, <1>5, SeqEqual
<1> QED BY <1>2, <1>7

\* The first elements of q, behind p.
LEMMA KeepFront ==
  ASSUME NEW p \in Seq(Octet), NEW q \in Seq(Octet), NEW n \in 0 .. Len(q)
  PROVE  /\ SubSeq(q, 1, n) \in Seq(Octet)
         /\ p \o SubSeq(q, 1, n) = SubSeq(p \o q, 1, Len(p) + n)
<1> DEFINE a == SubSeq(q, 1, n)
           b == SubSeq(p \o q, 1, Len(p) + n)
<1>1. /\ Len(p) \in Nat /\ \A i \in 1 .. Len(p) : p[i] \in Octet
      /\ Len(q) \in Nat /\ \A i \in 1 .. Len(q) : q[i] \in Octet
  OBVIOUS
<1>2. a \in Seq(Octet) /\ Len(a) = n /\ \A i \in 1 .. n : a[i] = q[i]
  BY <1>1, SubSeqProperties
<1>3. /\ p \o q \in Seq(Octet) /\ Len(p \o q) = Len(p) + Len(q)
      /\ \A i \in 1 .. Len(p) + Len(q) : (p \o q)[i] = IF i <= Len(p) THEN p[i] ELSE q[i - Len(p)]
  BY ConcatProperties
<1>4. /\ b \in Seq(Octet) /\ Len(b) = Len(p) + n
      /\ \A i \in 1 .. Len(p) + n : b[i] = (p \o q)[i]
  <2>1. \A i \in 1 .. Len(p) + n : (p \o q)[i] \in Octet
    BY <1>1, <1>3
  <2>2. Len(p) + n \in Nat
    BY <1>1
  <2> QED BY <2>1, <2>2, SubSeqProperties
<1>5. /\ p \o a \in Seq(Octet) /\ Len(p \o a) = Len(p) + n
      /\ \A i \in 1 .. Len(p) + n : (p \o a)[i] = IF i <= Len(p) THEN p[i] ELSE a[i - Len(p)]
  BY <1>1, <1>2, ConcatProperties
<1>6. \A i \in 1 .. Len(p) + n : (p \o a)[i] = b[i]
  <2> HIDE DEF a, b
  <2> SUFFICES ASSUME NEW i \in 1 .. Len(p) + n PROVE (p \o a)[i] = b[i]
    OBVIOUS
  <2>1. b[i] = IF i <= Len(p) THEN p[i] ELSE q[i - Len(p)]
    BY <1>1, <1>3, <1>4
  <2>2. CASE i <= Len(p)
    BY <2>1, <2>2, <1>5
  <2>3. CASE ~(i <= Len(p))
    <3>1. i - Len(p) \in 1 .. n
      BY <2>3, <1>1
    <3> QED BY <3>1, <2>1, <2>3, <1>2, <1>5
  <2> QED BY <2>2, <2>3
<1>7. p \o a = b
  <2> HIDE DEF a, b
  <2> QED BY <1>1, <1>4, <1>5, <1>6, SeqEqual
<1> QED BY <1>2, <1>7

---------------------------------------------------------------------------
(* Facts about streams *)

LEMMA ByteFacts ==
  ASSUME NEW b \in Octet
  PROVE  /\ b.msg \in AllMessages /\ b.len \in Nat /\ b.pos \in Nat /\ b.raw \in BOOLEAN /\ b.nonce \in Nat
         /\ b.len = Size[b.msg] /\ 1 <= b.pos /\ b.pos <= Header + b.len
         /\ Number(b) \in Nat /\ Rest(b) \in Nat /\ (Number(b) = 0 <=> b.raw)
         /\ ~b.raw => Number(b) = b.nonce + 1
  BY ChannelAssumption DEF ChannelAssumption, Octet, Number, Rest

\* A contiguous part of a stream of frames is one.
LEMMA FramedPart ==
  ASSUME NEW q \in Seq(Octet), NEW m \in 1 .. Len(q) + 1, NEW n \in 0 .. Len(q), Framed(q)
  PROVE  Framed(SubSeq(q, m, n))
<1> DEFINE r == SubSeq(q, m, n)
<1>1. Len(q) \in Nat /\ \A i \in 1 .. Len(q) : q[i] \in Octet
  OBVIOUS
<1>2. /\ r \in Seq(Octet) /\ Len(r) = IF m <= n THEN n - m + 1 ELSE 0
      /\ \A i \in 1 .. n - m + 1 : r[i] = q[m + i - 1]
  BY <1>1, SubSeqProperties
<1> HIDE DEF r
<1>3. SUFFICES ASSUME NEW j \in DOMAIN r, NEW k \in DOMAIN r, j <= k
               PROVE  Linked(r[j], r[k], k - j)
  BY DEF Framed, r
<1>4. j \in 1 .. n - m + 1 /\ k \in 1 .. n - m + 1
  BY <1>1, <1>2
<1>5. /\ m + j - 1 \in DOMAIN q /\ m + k - 1 \in DOMAIN q
      /\ m + j - 1 <= m + k - 1 /\ (m + k - 1) - (m + j - 1) = k - j
  BY <1>1, <1>3, <1>4
<1>6. Linked(q[m + j - 1], q[m + k - 1], k - j)
  BY <1>5 DEF Framed
<1> QED BY <1>2, <1>4, <1>6

\* What a send begins to write is one whole frame.
LEMMA FrameFacts ==
  ASSUME NEW m \in AllMessages, NEW raw \in BOOLEAN, NEW nonce \in Nat
  PROVE  /\ Frame(m, raw, nonce) \in Seq(Octet) /\ Frame(m, raw, nonce) # <<>>
         /\ Remainder(Frame(m, raw, nonce))
         /\ Frame(m, raw, nonce)[1].pos = 1
         /\ \A k \in DOMAIN Frame(m, raw, nonce) :
              LET b == Frame(m, raw, nonce)[k]
              IN  b.msg = m /\ (b.raw <=> raw) /\ b.nonce = nonce
<1> DEFINE f == Frame(m, raw, nonce)
           N == Header + Size[m]
           byte(k) == [msg |-> m, len |-> Size[m], pos |-> k, raw |-> raw, nonce |-> nonce]
<1>1. Header \in Nat \ {0} /\ Size[m] \in Nat \ {0} /\ N \in Nat \ {0}
  BY ChannelAssumption DEF ChannelAssumption
<1>2. \A k \in 1 .. N : byte(k) \in Octet
  BY <1>1 DEF Octet
<1>3. f = [k \in 1 .. N |-> byte(k)]
  BY DEF Frame
<1> HIDE DEF N
<1>4. f \in Seq(Octet) /\ Len(f) = N /\ DOMAIN f = 1 .. N
  BY <1>1, <1>2, <1>3
<1>5. \A k \in 1 .. N : f[k] = byte(k)
  BY <1>3
<1>6. f # <<>> /\ 1 \in 1 .. N /\ N \in 1 .. N
  BY <1>1, <1>4
<1>7. /\ \A k \in 1 .. N : f[k].msg = m /\ f[k].len = Size[m] /\ f[k].raw = raw /\ f[k].nonce = nonce
      /\ \A k \in 1 .. N : f[k].pos = k
  <2>1. \A k : /\ byte(k).msg = m /\ byte(k).len = Size[m] /\ byte(k).raw = raw
               /\ byte(k).nonce = nonce /\ byte(k).pos = k
    OBVIOUS
  <2> HIDE DEF byte, f
  <2> QED BY <1>5, <2>1
<1>8. Remainder(f)
  <2>1. Rest(f[Len(f)]) = 0
    BY <1>1, <1>4, <1>6, <1>7 DEF Rest, N
  <2>2. \A k \in DOMAIN f : SameFrame(f[1], f[k]) /\ f[k].pos = f[1].pos + (k - 1)
    BY <1>1, <1>4, <1>6, <1>7 DEF SameFrame
  <2> QED BY <2>1, <2>2 DEF Remainder
<1> QED BY <1>4, <1>6, <1>7, <1>8

\* A handshake frame, and one of the session.
LEMMA RawFrame ==
  \A m \in AllMessages : \A f : f = Frame(m, TRUE, 0) =>
    /\ f \in Seq(Octet) /\ f # <<>> /\ Remainder(f) /\ f[1].pos = 1
    /\ \A k \in DOMAIN f : f[k].msg = m
    /\ \A k \in DOMAIN f : f[k].raw
<1> SUFFICES ASSUME NEW m \in AllMessages
             PROVE  \A f : f = Frame(m, TRUE, 0) =>
                      /\ f \in Seq(Octet) /\ f # <<>> /\ Remainder(f) /\ f[1].pos = 1
                      /\ \A k \in DOMAIN f : f[k].msg = m
                      /\ \A k \in DOMAIN f : f[k].raw
  OBVIOUS
<1>1. \A r \in BOOLEAN :
         /\ Frame(m, r, 0) \in Seq(Octet) /\ Frame(m, r, 0) # <<>>
         /\ Remainder(Frame(m, r, 0)) /\ Frame(m, r, 0)[1].pos = 1
  BY FrameFacts
<1>2. \A r \in BOOLEAN : (r <=> TRUE) =>
         \A k \in DOMAIN Frame(m, r, 0) : Frame(m, r, 0)[k].raw
  BY FrameFacts
<1>3. \A r \in BOOLEAN :
         \A k \in DOMAIN Frame(m, r, 0) : Frame(m, r, 0)[k].msg = m
  BY FrameFacts
<1>5. TRUE \in BOOLEAN
  OBVIOUS
<1> QED BY <1>1, <1>2, <1>3, <1>5, Zenon

LEMMA SealedFrame ==
  \A m \in AllMessages, nonce \in Nat : \A f : f = Frame(m, FALSE, nonce) =>
    /\ f \in Seq(Octet) /\ f # <<>> /\ Remainder(f) /\ f[1].pos = 1
    /\ \A k \in DOMAIN f : f[k].msg = m
    /\ \A k \in DOMAIN f : ~f[k].raw
    /\ \A k \in DOMAIN f : f[k].nonce = nonce
<1> SUFFICES ASSUME NEW m \in AllMessages, NEW nonce \in Nat
             PROVE  \A f : f = Frame(m, FALSE, nonce) =>
                      /\ f \in Seq(Octet) /\ f # <<>> /\ Remainder(f) /\ f[1].pos = 1
                      /\ \A k \in DOMAIN f : f[k].msg = m
                      /\ \A k \in DOMAIN f : ~f[k].raw
                      /\ \A k \in DOMAIN f : f[k].nonce = nonce
  OBVIOUS
<1>1. \A r \in BOOLEAN :
         /\ Frame(m, r, nonce) \in Seq(Octet) /\ Frame(m, r, nonce) # <<>>
         /\ Remainder(Frame(m, r, nonce)) /\ Frame(m, r, nonce)[1].pos = 1
  BY FrameFacts
<1>2. \A r \in BOOLEAN : (r <=> FALSE) =>
         \A k \in DOMAIN Frame(m, r, nonce) : ~Frame(m, r, nonce)[k].raw
  BY FrameFacts
<1>3. \A r \in BOOLEAN :
         \A k \in DOMAIN Frame(m, r, nonce) : Frame(m, r, nonce)[k].msg = m
  BY FrameFacts
<1>4. \A r \in BOOLEAN :
         \A k \in DOMAIN Frame(m, r, nonce) : Frame(m, r, nonce)[k].nonce = nonce
  BY FrameFacts
<1>5. FALSE \in BOOLEAN
  OBVIOUS
<1> QED BY <1>1, <1>2, <1>3, <1>4, <1>5, Zenon

LEMMA SameNumber ==
  ASSUME NEW b \in Octet, NEW c \in Octet, SameFrame(b, c)
  PROVE  Number(b) = Number(c)
  BY DEF SameFrame, Number

\* The first byte of a stream decides where the frame ends.
LEMMA Between ==
  ASSUME NEW q \in Seq(Octet), Framed(q), NEW j \in DOMAIN q, NEW k \in DOMAIN q, j <= k
  PROVE  /\ Number(q[j]) \in Nat /\ Number(q[k]) \in Nat /\ Number(q[j]) <= Number(q[k])
         /\ Number(q[j]) = Number(q[k]) => /\ SameFrame(q[j], q[k]) /\ q[k].pos = q[j].pos + (k - j)
                                           /\ Rest(q[k]) = Rest(q[j]) - (k - j)
         /\ k - j <= Rest(q[j]) => Number(q[k]) = Number(q[j])
         /\ k - j = Rest(q[j]) + 1 => q[k].pos = 1 /\ Number(q[k]) = Number(q[j]) + 1
<1>1. Linked(q[j], q[k], k - j)
  BY DEF Framed
<1>2. q[j] \in Octet /\ q[k] \in Octet /\ j \in Nat /\ k \in Nat
  OBVIOUS
<1>3. Number(q[j]) = Number(q[k]) => SameFrame(q[j], q[k]) /\ q[k].pos = q[j].pos + (k - j)
  BY <1>1 DEF Linked
<1>4. Number(q[j]) = Number(q[k]) => Rest(q[k]) = Rest(q[j]) - (k - j)
  <2>1. /\ q[j].len \in Nat /\ q[j].pos \in Nat /\ q[k].len \in Nat /\ q[k].pos \in Nat
        /\ Header \in Nat
    BY <1>2, ByteFacts, ChannelAssumption DEF ChannelAssumption
  <2> SUFFICES ASSUME Number(q[j]) = Number(q[k]) PROVE Rest(q[k]) = Rest(q[j]) - (k - j)
    OBVIOUS
  <2>2. q[k].len = q[j].len /\ q[k].pos = q[j].pos + (k - j)
    BY <1>3 DEF SameFrame
  <2>3. \A h, l, p, x, y \in Nat : h + l - (p + (x - y)) = (h + l - p) - (x - y)
    OBVIOUS
  <2>4. \A x, y \in Nat :
          Header + q[j].len - (q[j].pos + (x - y)) = (Header + q[j].len - q[j].pos) - (x - y)
    BY <2>1, <2>3
  <2>5. Header + q[j].len - (q[j].pos + (k - j)) = (Header + q[j].len - q[j].pos) - (k - j)
    BY <1>2, <2>4
  <2> QED BY <2>2, <2>5 DEF Rest
<1> QED BY <1>1, <1>2, <1>3, <1>4, ByteFacts DEF Linked

\* Two sequences of bytes together: whose byte each place holds.
LEMMA Together ==
  ASSUME NEW p \in Seq(Octet), NEW q \in Seq(Octet)
  PROVE  /\ p \o q \in Seq(Octet) /\ Len(p \o q) = Len(p) + Len(q)
         /\ Len(p) \in Nat /\ Len(q) \in Nat
         /\ DOMAIN p = 1 .. Len(p) /\ DOMAIN q = 1 .. Len(q) /\ DOMAIN (p \o q) = 1 .. Len(p) + Len(q)
         /\ \A i \in 1 .. Len(p) : (p \o q)[i] = p[i]
         /\ \A i \in 1 .. Len(q) : (p \o q)[Len(p) + i] = q[i]
         /\ (p = <<>> <=> Len(p) = 0) /\ (q = <<>> <=> Len(q) = 0)
<1>1. Len(p) \in Nat /\ Len(q) \in Nat /\ (p = <<>> <=> Len(p) = 0) /\ (q = <<>> <=> Len(q) = 0)
      /\ DOMAIN p = 1 .. Len(p) /\ DOMAIN q = 1 .. Len(q)
  OBVIOUS
<1>2. /\ p \o q \in Seq(Octet) /\ Len(p \o q) = Len(p) + Len(q)
      /\ \A i \in 1 .. Len(p) + Len(q) : (p \o q)[i] = IF i <= Len(p) THEN p[i] ELSE q[i - Len(p)]
  BY ConcatProperties
<1>3. DOMAIN (p \o q) = 1 .. Len(p) + Len(q)
  BY <1>2
<1>4. \A i \in 1 .. Len(p) : (p \o q)[i] = p[i]
  BY <1>1, <1>2
<1>5. \A i \in 1 .. Len(q) : (p \o q)[Len(p) + i] = q[i]
  <2> SUFFICES ASSUME NEW i \in 1 .. Len(q) PROVE (p \o q)[Len(p) + i] = q[i]
    OBVIOUS
  <2>1. Len(p) + i \in 1 .. Len(p) + Len(q) /\ ~(Len(p) + i <= Len(p)) /\ (Len(p) + i) - Len(p) = i
    BY <1>1
  <2> QED BY <1>2, <2>1
<1> QED BY <1>1, <1>2, <1>3, <1>4, <1>5

\* The front of a stream is one.
LEMMA FrontStreams ==
  ASSUME NEW p \in Seq(Octet), NEW q \in Seq(Octet), NEW first \in Nat, Stream(p \o q, first)
  PROVE  Stream(p, first)
<1>1. Framed(p)
  <2> SUFFICES ASSUME NEW j \in DOMAIN p, NEW k \in DOMAIN p, j <= k
               PROVE  Linked(p[j], p[k], k - j)
    BY DEF Framed
  <2>1. j \in DOMAIN (p \o q) /\ k \in DOMAIN (p \o q) /\ (p \o q)[j] = p[j] /\ (p \o q)[k] = p[k]
    BY Together
  <2> QED BY <2>1 DEF Stream, Framed
<1>2. p # <<>> => p \o q # <<>> /\ (p \o q)[1] = p[1]
  BY Together
<1> QED BY <1>1, <1>2 DEF Stream

\* A stream that ends with a whole frame goes on with the next one.
LEMMA NextFrame ==
  ASSUME NEW q \in Seq(Octet), NEW f \in Seq(Octet), NEW first \in Nat,
         Stream(q, first), EndsWhole(q),
         f # <<>>, Remainder(f), f[1].pos = 1, Number(f[1]) = NextNumber(q, first)
  PROVE  /\ Stream(q \o f, first) /\ EndsWhole(q \o f)
         /\ NextNumber(q \o f, first) = NextNumber(q, first) + 1
<1> DEFINE r == q \o f
           L == Len(q)
<1>1. /\ r \in Seq(Octet) /\ Len(r) = L + Len(f) /\ L \in Nat /\ Len(f) \in Nat \ {0}
      /\ DOMAIN q = 1 .. L /\ DOMAIN f = 1 .. Len(f) /\ DOMAIN r = 1 .. L + Len(f)
      /\ \A i \in 1 .. L : r[i] = q[i]
      /\ \A i \in 1 .. Len(f) : r[L + i] = f[i]
      /\ (q = <<>> <=> L = 0)
  BY Together
<1> HIDE DEF r, L
<1>2. \A i \in DOMAIN f : /\ f[i] \in Octet /\ SameFrame(f[1], f[i]) /\ f[i].pos = i
                          /\ Number(f[i]) = NextNumber(q, first)
  <2> SUFFICES ASSUME NEW i \in DOMAIN f
               PROVE  /\ f[i] \in Octet /\ SameFrame(f[1], f[i]) /\ f[i].pos = i
                      /\ Number(f[i]) = NextNumber(q, first)
    OBVIOUS
  <2>1. f[1] \in Octet /\ f[i] \in Octet /\ i \in Nat
    BY <1>1
  <2>2. SameFrame(f[1], f[i]) /\ f[i].pos = 1 + (i - 1)
    BY DEF Remainder
  <2> QED BY <2>1, <2>2, SameNumber
<1>3. /\ NextNumber(q, first) \in Nat
      /\ \A j \in DOMAIN q : q[j] \in Octet /\ Number(q[j]) < NextNumber(q, first) /\ L - j >= Rest(q[j])
  <2>1. CASE q = <<>>
    BY <2>1, <1>1 DEF NextNumber
  <2>2. CASE q # <<>>
    <3>1. L \in DOMAIN q /\ q[L] \in Octet /\ Rest(q[L]) = 0 /\ NextNumber(q, first) = Number(q[L]) + 1
      BY <2>2, <1>1 DEF EndsWhole, NextNumber, L
    <3>2. Number(q[L]) \in Nat
      BY <3>1, ByteFacts
    <3>3. ASSUME NEW j \in DOMAIN q
          PROVE  q[j] \in Octet /\ Number(q[j]) < NextNumber(q, first) /\ L - j >= Rest(q[j])
      <4>1. j \in Nat /\ j <= L /\ q[j] \in Octet /\ Rest(q[j]) \in Nat
        BY <1>1, ByteFacts
      <4>2. /\ Number(q[j]) \in Nat /\ Number(q[j]) <= Number(q[L])
            /\ Number(q[j]) = Number(q[L]) => Rest(q[L]) = Rest(q[j]) - (L - j)
            /\ L - j <= Rest(q[j]) => Number(q[L]) = Number(q[j])
        BY <3>1, <4>1, Between DEF Stream
      <4> QED BY <3>1, <3>2, <4>1, <4>2, <1>1
    <3> QED BY <3>1, <3>2, <3>3
  <2> QED BY <2>1, <2>2
<1>4. \A j, k \in DOMAIN r : j <= k => Linked(r[j], r[k], k - j)
  <2> SUFFICES ASSUME NEW j \in DOMAIN r, NEW k \in DOMAIN r, j <= k
               PROVE  Linked(r[j], r[k], k - j)
    OBVIOUS
  <2>0. j \in Nat /\ k \in Nat /\ j \in 1 .. L + Len(f) /\ k \in 1 .. L + Len(f)
    BY <1>1
  <2>1. CASE k <= L
    <3>1. j \in DOMAIN q /\ k \in DOMAIN q /\ r[j] = q[j] /\ r[k] = q[k]
      BY <2>0, <2>1, <1>1
    <3> QED BY <3>1 DEF Stream, Framed
  <2>2. CASE j > L
    <3>1. j - L \in DOMAIN f /\ k - L \in DOMAIN f /\ r[j] = f[j - L] /\ r[k] = f[k - L]
          /\ k > L
      <4>1. k > L /\ j - L \in 1 .. Len(f) /\ k - L \in 1 .. Len(f) /\ L + (j - L) = j /\ L + (k - L) = k
        BY <2>0, <2>2, <1>1
      <4> QED BY <4>1, <1>1
    <3>2. /\ r[j] \in Octet /\ r[k] \in Octet /\ Number(r[j]) = Number(r[k])
          /\ r[j].pos = j - L /\ r[k].pos = k - L
          /\ SameFrame(f[1], r[j]) /\ SameFrame(f[1], r[k])
      BY <3>1, <1>2
    <3>3. r[k].pos = r[j].pos + (k - j)
      BY <3>2, <2>0, <1>1
    <3>4. SameFrame(r[j], r[k])
      BY <3>2 DEF SameFrame
    <3>5. r[k].pos <= Header + r[k].len /\ r[k].len = r[j].len
      BY <3>2, <3>4, ByteFacts DEF SameFrame
    <3>6. ~(k - j = Rest(r[j]) + 1)
      <4>1. r[j].len \in Nat /\ r[j].pos \in Nat /\ Header \in Nat
        BY <3>2, ByteFacts, ChannelAssumption DEF ChannelAssumption
      <4> QED BY <4>1, <3>3, <3>5, <2>0 DEF Rest
    <3>7. Number(r[j]) \in Nat
      BY <3>2, ByteFacts
    <3> QED BY <3>2, <3>3, <3>4, <3>6, <3>7 DEF Linked
  <2>3. CASE j <= L /\ k > L
    <3>1. j \in DOMAIN q /\ r[j] = q[j] /\ k - L \in DOMAIN f /\ r[k] = f[k - L] /\ k - L >= 1
      <4>1. k - L \in 1 .. Len(f) /\ L + (k - L) = k
        BY <2>0, <2>3, <1>1
      <4>2. j \in 1 .. L
        BY <2>0, <2>3, <1>1
      <4> QED BY <4>1, <4>2, <1>1
    <3>2. /\ Number(r[j]) < Number(r[k]) /\ L - j >= Rest(r[j]) /\ r[j] \in Octet /\ r[k] \in Octet
          /\ r[k].pos = k - L /\ Number(r[k]) = NextNumber(q, first)
      BY <3>1, <1>2, <1>3
    <3>3. Number(r[j]) \in Nat /\ Number(r[k]) \in Nat /\ Rest(r[j]) \in Nat
      BY <3>2, ByteFacts
    <3>4. ~(k - j <= Rest(r[j]))
      BY <3>1, <3>2, <3>3, <2>0, <1>1
    <3>5. ASSUME k - j = Rest(r[j]) + 1
          PROVE  r[k].pos = 1 /\ Number(r[k]) = Number(r[j]) + 1
      <4>1. k = L + 1 /\ Rest(r[j]) = L - j
        <5>1. \A a, b, c, x \in Nat : b > c /\ c - a >= x /\ b - a = x + 1 => b = c + 1 /\ x = c - a
          OBVIOUS
        <5>2. j \in Nat /\ k \in Nat /\ L \in Nat /\ k > L
          BY <2>0, <2>3, <1>1
        <5> QED BY <5>1, <5>2, <3>2, <3>3, <3>5
      <4>2. r[k].pos = 1
        BY <4>1, <3>2, <1>1
      <4>3. L \in DOMAIN q /\ NextNumber(q, first) = Number(q[L]) + 1
        BY <3>1, <1>1, <2>0 DEF NextNumber, L
      <4>4. Number(q[L]) = Number(q[j])
        <5>1. j <= L /\ L - j <= Rest(q[j])
          BY <2>3, <4>1, <3>1, <3>3
        <5> QED BY <5>1, <4>3, <3>1, Between DEF Stream
      <4> QED BY <4>2, <4>3, <4>4, <3>1, <3>2
    <3> QED BY <3>2, <3>3, <3>4, <3>5 DEF Linked
  <2> QED BY <2>0, <2>1, <2>2, <2>3, <1>1
<1>5. r # <<>> => r[1].pos = 1 /\ Number(r[1]) = first
  <2>1. CASE q = <<>>
    <3>1. r[1] = f[1] /\ NextNumber(q, first) = first
      <4>1. L = 0 /\ 1 \in 1 .. Len(f) /\ L + 1 = 1
        BY <2>1, <1>1
      <4> QED BY <4>1, <2>1, <1>1 DEF NextNumber
    <3> QED BY <3>1
  <2>2. CASE q # <<>>
    <3>1. 1 \in 1 .. L
      BY <2>2, <1>1
    <3> QED BY <3>1, <2>2, <1>1 DEF Stream
  <2> QED BY <2>1, <2>2
<1>6. r # <<>> /\ r[Len(r)] = f[Len(f)] /\ Len(f) \in DOMAIN f
  <2>1. Len(f) \in 1 .. Len(f)
    BY <1>1
  <2>2. r # <<>>
    BY <1>1
  <2> QED BY <2>1, <2>2, <1>1
<1>7. EndsWhole(r)
  BY <1>6 DEF EndsWhole, Remainder
<1>8. NextNumber(r, first) = NextNumber(q, first) + 1
  <2>1. NextNumber(r, first) = Number(r[Len(r)]) + 1
    BY <1>6 DEF NextNumber
  <2> QED BY <2>1, <1>6, <1>2
<1> QED BY <1>4, <1>5, <1>7, <1>8 DEF Stream, Framed, r

\* The end takes the first frame of a stream off it.
LEMMA FirstFrame ==
  ASSUME NEW q \in Seq(Octet), NEW first \in Nat, Stream(q, first),
         q # <<>>, Header + q[1].len <= Len(q)
  PROVE  \A k \in 1 .. Header + q[1].len :
           k \in DOMAIN q /\ q[k] \in Octet /\ SameFrame(q[1], q[k]) /\ q[k].pos = k /\ Number(q[k]) = first
<1>1. Len(q) \in Nat /\ DOMAIN q = 1 .. Len(q) /\ 1 \in DOMAIN q /\ q[1] \in Octet /\ q[1].len \in Nat /\ Header \in Nat
      /\ q[1].pos = 1 /\ Number(q[1]) = first
  <2>1. 1 \in DOMAIN q
    OBVIOUS
  <2> QED BY <2>1, ByteFacts, ChannelAssumption DEF ChannelAssumption, Stream
<1>2. SUFFICES ASSUME NEW k \in 1 .. Header + q[1].len
               PROVE  k \in DOMAIN q /\ q[k] \in Octet /\ SameFrame(q[1], q[k]) /\ q[k].pos = k /\ Number(q[k]) = first
  OBVIOUS
<1>3. k \in DOMAIN q /\ q[k] \in Octet /\ 1 <= k /\ k \in Nat
  BY <1>1
<1>4. k - 1 <= Rest(q[1])
  BY <1>1, <1>3 DEF Rest
<1>5. Number(q[k]) = Number(q[1])
  BY <1>1, <1>3, <1>4, Between DEF Stream
<1>6. SameFrame(q[1], q[k]) /\ q[k].pos = q[1].pos + (k - 1)
  BY <1>1, <1>3, <1>5, Between DEF Stream
<1> QED BY <1>1, <1>3, <1>5, <1>6

\* What is left is the stream from the next frame on.
LEMMA BehindFirst ==
  ASSUME NEW q \in Seq(Octet), NEW first \in Nat, Stream(q, first),
         q # <<>>, NEW n \in Nat, n = Header + q[1].len, n <= Len(q)
  PROVE  LET r == SubSeq(q, n + 1, Len(q))
         IN  /\ r \in Seq(Octet) /\ Len(r) = Len(q) - n
             /\ \A i \in DOMAIN r : n + i \in DOMAIN q /\ r[i] = q[n + i]
             /\ Stream(r, first + 1)
             /\ NextNumber(r, first + 1) = NextNumber(q, first)
             /\ EndsWhole(q) => EndsWhole(r)
<1> DEFINE r == SubSeq(q, n + 1, Len(q))
<1>1. Len(q) \in Nat /\ DOMAIN q = 1 .. Len(q) /\ 1 \in DOMAIN q /\ q[1] \in Octet /\ n \in Nat \ {0}
      /\ \A i \in 1 .. Len(q) : q[i] \in Octet
  <2>1. 1 \in DOMAIN q
    OBVIOUS
  <2> QED BY <2>1, ByteFacts, ChannelAssumption DEF ChannelAssumption
<1>2. /\ r \in Seq(Octet) /\ Len(r) = Len(q) - n
      /\ \A i \in 1 .. Len(q) - n : r[i] = q[n + i]
  <2>1. \A i \in n + 1 .. Len(q) : q[i] \in Octet
    BY <1>1
  <2>2. /\ r \in Seq(Octet) /\ Len(r) = IF n + 1 <= Len(q) THEN Len(q) - (n + 1) + 1 ELSE 0
        /\ \A i \in 1 .. Len(q) - (n + 1) + 1 : r[i] = q[(n + 1) + i - 1]
    BY <1>1, <2>1, SubSeqProperties
  <2>3. Len(q) - (n + 1) + 1 = Len(q) - n
    BY <1>1
  <2> HIDE DEF r
  <2>4. Len(r) = Len(q) - n
    BY <1>1, <2>2, <2>3
  <2>5. ASSUME NEW i \in 1 .. Len(q) - n PROVE r[i] = q[n + i]
    <3>1. (n + 1) + i - 1 = n + i /\ i \in 1 .. Len(q) - (n + 1) + 1
      BY <1>1, <2>3
    <3> QED BY <2>2, <3>1
  <2> QED BY <2>2, <2>4, <2>5
<1>3. Framed(r)
  <2>1. n + 1 \in 1 .. Len(q) + 1 /\ Len(q) \in 0 .. Len(q)
    BY <1>1
  <2> QED BY <2>1, FramedPart DEF Stream
<1> HIDE DEF r
<1>4. /\ DOMAIN r = 1 .. Len(q) - n
      /\ \A i \in DOMAIN r : n + i \in DOMAIN q /\ r[i] = q[n + i]
      /\ (r = <<>> <=> Len(q) = n)
  <2>1. DOMAIN r = 1 .. Len(q) - n /\ (r = <<>> <=> Len(q) = n)
    BY <1>1, <1>2
  <2> QED BY <2>1, <1>1, <1>2
<1>5. n \in DOMAIN q /\ Number(q[n]) = first
  BY <1>1, FirstFrame
<1>6. r # <<>> => r[1].pos = 1 /\ Number(r[1]) = first + 1
  <2> SUFFICES ASSUME r # <<>> PROVE r[1].pos = 1 /\ Number(r[1]) = first + 1
    OBVIOUS
  <2>1. 1 \in DOMAIN r /\ n + 1 \in DOMAIN q /\ r[1] = q[n + 1] /\ 1 <= n + 1
    BY <1>1, <1>4
  <2>2. q[1].pos = 1 /\ Number(q[1]) = first /\ q[1].len \in Nat /\ Header \in Nat
    BY <1>1, ByteFacts, ChannelAssumption DEF ChannelAssumption, Stream
  <2>3. (n + 1) - 1 = Rest(q[1]) + 1
    BY <2>2 DEF Rest
  <2>4. q[n + 1].pos = 1 /\ Number(q[n + 1]) = Number(q[1]) + 1
    BY <1>1, <2>1, <2>3, Between DEF Stream
  <2> QED BY <2>1, <2>2, <2>4
<1>7. r # <<>> => r[Len(r)] = q[Len(q)]
  <2> SUFFICES ASSUME r # <<>> PROVE r[Len(r)] = q[Len(q)]
    OBVIOUS
  <2>1. Len(r) \in DOMAIN r /\ n + Len(r) = Len(q)
    BY <1>1, <1>2, <1>4
  <2> QED BY <2>1, <1>4
<1>8. NextNumber(r, first + 1) = NextNumber(q, first)
  BY <1>4, <1>5, <1>7 DEF NextNumber
<1>9. EndsWhole(q) => EndsWhole(r)
  BY <1>7 DEF EndsWhole
<1> QED BY <1>2, <1>3, <1>4, <1>6, <1>8, <1>9 DEF Stream, r

LEMMA CarriedOn ==
  ASSUME NEW q \in Seq(Octet), NEW r \in Seq(Octet), NEW n \in Nat, NEW first \in Nat, NEW msgs, NEW g \in Nat,
         \A i \in DOMAIN r : n + i \in DOMAIN q /\ r[i] = q[n + i],
         Carried(q, first, msgs, g)
  PROVE  Carried(r, first + 1, msgs, g + 1)
<1> SUFFICES ASSUME NEW k \in DOMAIN r
             PROVE  /\ (g + 1) + 1 + Number(r[k]) - (first + 1) \in DOMAIN msgs
                    /\ r[k].msg = msgs[(g + 1) + 1 + Number(r[k]) - (first + 1)]
  BY DEF Carried
<1>1. Number(r[k]) \in Nat
  BY ByteFacts
<1>2. (g + 1) + 1 + Number(r[k]) - (first + 1) = g + 1 + Number(r[k]) - first
  BY <1>1
<1> QED BY <1>2 DEF Carried

\* With the first byte of its frame a message counts as sent.
Begun(w, msgs) == IF w[1].pos = 1 THEN Append(msgs, w[1].msg) ELSE msgs

\* The length and the domain of a sequence.
LEMMA SeqShape ==
  ASSUME NEW S, NEW q \in Seq(S)
  PROVE  Len(q) \in Nat /\ DOMAIN q = 1 .. Len(q) /\ (q = <<>> <=> Len(q) = 0)
OBVIOUS

\* The kernel takes the first k bytes w of a send and passes them on behind q.
LEMMA PassedOn ==
  \A q, w \in Seq(Octet) : \A first, g \in Nat : \A msgs \in Seq(AllMessages) :
  \A k \in 1 .. Len(w) : \A s, t :
    /\ Stream(q \o w, first) /\ Remainder(w)
    /\ Carried(q, first, msgs, g) /\ Len(msgs) + first = g + NextNumber(q, first)
    /\ s = Begun(w, msgs)
    /\ t = q \o SubSeq(w, 1, k)
    => /\ Stream(t, first) /\ Carried(t, first, s, g)
       /\ Len(s) + first = g + NextNumber(t, first)
<1> TAKE q, w \in Seq(Octet)
<1> TAKE first, g \in Nat
<1> TAKE msgs \in Seq(AllMessages)
<1> TAKE k \in 1 .. Len(w)
<1> TAKE s, t
<1> HAVE /\ Stream(q \o w, first) /\ Remainder(w)
         /\ Carried(q, first, msgs, g) /\ Len(msgs) + first = g + NextNumber(q, first)
         /\ s = Begun(w, msgs)
         /\ t = q \o SubSeq(w, 1, k)
<1> USE DEF Begun
<1> DEFINE a == SubSeq(w, 1, k)
           rest == SubSeq(w, k + 1, Len(w))
           r == q \o a
           L == Len(q)
           x == g + 1 + Number(w[1]) - first
<1>1. /\ a \in Seq(Octet) /\ rest \in Seq(Octet) /\ Len(a) = k
      /\ r \o rest = q \o w
      /\ \A i \in 1 .. k : a[i] = w[i]
  BY MoveFront
<1>2. /\ L \in Nat /\ DOMAIN q = 1 .. L /\ (q = <<>> <=> L = 0)
      /\ Len(w) \in Nat \ {0} /\ DOMAIN w = 1 .. Len(w) /\ k \in Nat \ {0} /\ k <= Len(w) /\ w # <<>>
      /\ Len(msgs) \in Nat /\ DOMAIN msgs = 1 .. Len(msgs)
  <2>1. L \in Nat /\ DOMAIN q = 1 .. L /\ (q = <<>> <=> L = 0)
    BY SeqShape
  <2>2. Len(w) \in Nat /\ DOMAIN w = 1 .. Len(w) /\ (w = <<>> <=> Len(w) = 0)
    BY SeqShape
  <2>3. Len(msgs) \in Nat /\ DOMAIN msgs = 1 .. Len(msgs)
    BY SeqShape
  <2> HIDE DEF L
  <2>4. k \in Nat \ {0} /\ k <= Len(w) /\ Len(w) # 0
    BY <2>2
  <2> QED BY <2>1, <2>2, <2>3, <2>4
<1> HIDE DEF a, rest
<1>3. /\ r \in Seq(Octet) /\ Len(r) = L + k /\ DOMAIN r = 1 .. L + k
      /\ \A i \in 1 .. L : r[i] = q[i]
      /\ \A i \in 1 .. k : r[L + i] = a[i]
  BY <1>1, Together
<1> HIDE DEF r
<1>4. Stream(r, first)
  BY <1>1, <1>3, FrontStreams
<1>5. /\ w[1] \in Octet /\ Number(w[1]) \in Nat /\ w[1].msg \in AllMessages /\ w[1].pos \in Nat
      /\ \A i \in 1 .. k : a[i] \in Octet /\ a[i].msg = w[1].msg /\ Number(a[i]) = Number(w[1])
  <2>1. w[1] \in Octet
    BY <1>2
  <2>2. ASSUME NEW i \in 1 .. k
        PROVE  a[i] \in Octet /\ a[i].msg = w[1].msg /\ Number(a[i]) = Number(w[1])
    <3>1. i \in DOMAIN w /\ a[i] = w[i] /\ w[i] \in Octet
      BY <1>1, <1>2
    <3>2. SameFrame(w[1], w[i])
      BY <3>1, <1>2 DEF Remainder
    <3> QED BY <2>1, <3>1, <3>2, SameNumber DEF SameFrame
  <2> QED BY <2>1, <2>2, ByteFacts
<1>6. /\ w[1].pos = 1 => Number(w[1]) = NextNumber(q, first)
      /\ w[1].pos # 1 => /\ q # <<>> /\ q[L].msg = w[1].msg
                         /\ Number(q[L]) = Number(w[1]) /\ NextNumber(q, first) = Number(w[1]) + 1
  <2> DEFINE c == q \o w
  <2>1. /\ c \in Seq(Octet) /\ c # <<>> /\ DOMAIN c = 1 .. L + Len(w)
        /\ \A i \in 1 .. L : c[i] = q[i]
        /\ c[L + 1] = w[1]
    <3>1. 1 \in 1 .. Len(w)
      BY <1>2
    <3>2. /\ c \in Seq(Octet) /\ Len(c) = L + Len(w) /\ DOMAIN c = 1 .. L + Len(w)
          /\ \A i \in 1 .. L : c[i] = q[i]
          /\ \A i \in 1 .. Len(w) : c[L + i] = w[i]
      BY Together
    <3> HIDE DEF c
    <3>3. c # <<>>
      BY <3>2, <1>2
    <3> QED BY <3>1, <3>2, <3>3
  <2>2. Framed(c) /\ c[1].pos = 1 /\ Number(c[1]) = first
    BY <2>1 DEF Stream
  <2> HIDE DEF c
  <2>3. CASE q = <<>>
    <3>1. L = 0
      BY <2>3, <1>2
    <3>2. c[1] = w[1]
      BY <2>1, <3>1
    <3> QED BY <3>2, <2>2, <2>3 DEF NextNumber
  <2>4. CASE q # <<>>
    <3>1. L \in DOMAIN c /\ L + 1 \in DOMAIN c /\ L <= L + 1 /\ (L + 1) - L = 1 /\ c[L] = q[L] /\ q[L] \in Octet
      <4>1. L \in Nat /\ L # 0 /\ Len(w) \in Nat \ {0}
        BY <1>2, <2>4
      <4>2. L \in 1 .. L + Len(w) /\ L + 1 \in 1 .. L + Len(w) /\ L \in 1 .. L /\ L <= L + 1 /\ (L + 1) - L = 1
        BY <4>1
      <4> QED BY <1>2, <2>1, <4>2
    <3>2. NextNumber(q, first) = Number(q[L]) + 1
      BY <2>4 DEF NextNumber
    <3>3. /\ Number(q[L]) = Number(w[1]) => SameFrame(q[L], w[1]) /\ w[1].pos = q[L].pos + 1
          /\ 1 <= Rest(q[L]) => Number(w[1]) = Number(q[L])
          /\ 1 = Rest(q[L]) + 1 => w[1].pos = 1 /\ Number(w[1]) = Number(q[L]) + 1
      <4>1. /\ Number(c[L]) = Number(c[L + 1]) => /\ SameFrame(c[L], c[L + 1])
                                                 /\ c[L + 1].pos = c[L].pos + ((L + 1) - L)
            /\ (L + 1) - L <= Rest(c[L]) => Number(c[L + 1]) = Number(c[L])
            /\ (L + 1) - L = Rest(c[L]) + 1 => c[L + 1].pos = 1 /\ Number(c[L + 1]) = Number(c[L]) + 1
        BY <2>1, <2>2, <3>1, Between
      <4> QED BY <4>1, <3>1, <2>1
    <3>4. Rest(q[L]) \in Nat /\ q[L].pos \in Nat /\ q[L].pos >= 1
      BY <3>1, ByteFacts
    <3>5. CASE Rest(q[L]) = 0
      BY <3>2, <3>3, <3>5
    <3>6. CASE Rest(q[L]) # 0
      <4>1. Number(w[1]) = Number(q[L])
        BY <3>3, <3>4, <3>6
      <4>2. q[L].msg = w[1].msg /\ w[1].pos = q[L].pos + 1
        BY <4>1, <3>3 DEF SameFrame
      <4>3. w[1].pos # 1
        BY <4>2, <3>4
      <4> QED BY <4>1, <4>2, <4>3, <3>2, <2>4
    <3> QED BY <3>5, <3>6
  <2> QED BY <2>3, <2>4
<1>7. /\ s \in Seq(AllMessages) /\ x = Len(s) /\ Len(s) \in Nat /\ x \in DOMAIN s /\ s[x] = w[1].msg
      /\ \A i \in DOMAIN msgs : i \in DOMAIN s /\ s[i] = msgs[i]
  <2>1. CASE w[1].pos = 1
    <3>1. /\ s \in Seq(AllMessages) /\ Len(s) = Len(msgs) + 1 /\ s[Len(msgs) + 1] = w[1].msg
          /\ \A i \in 1 .. Len(msgs) : s[i] = msgs[i]
      BY <2>1, <1>5, AppendProperties
    <3>2. x = Len(msgs) + 1
      BY <2>1, <1>2, <1>5, <1>6
    <3>3. DOMAIN s = 1 .. Len(msgs) + 1
      BY <3>1
    <3> QED BY <3>1, <3>2, <3>3, <1>2
  <2>2. CASE w[1].pos # 1
    <3>1. s = msgs /\ L \in DOMAIN q
      BY <2>2, <1>2, <1>6
    <3>2. x \in DOMAIN msgs /\ q[L].msg = msgs[x]
      BY <2>2, <3>1, <1>6 DEF Carried
    <3>3. x = Len(msgs)
      BY <2>2, <1>2, <1>5, <1>6
    <3> QED BY <2>2, <3>1, <3>2, <3>3, <1>2, <1>6
  <2> QED BY <2>1, <2>2
<1>8. Carried(r, first, s, g)
  <2> SUFFICES ASSUME NEW i \in DOMAIN r
               PROVE  /\ g + 1 + Number(r[i]) - first \in DOMAIN s
                      /\ r[i].msg = s[g + 1 + Number(r[i]) - first]
    BY DEF Carried
  <2>1. CASE i <= L
    <3>1. i \in DOMAIN q /\ r[i] = q[i]
      BY <2>1, <1>2, <1>3
    <3> QED BY <3>1, <1>7 DEF Carried
  <2>2. CASE ~(i <= L)
    <3>1. i - L \in 1 .. k /\ L + (i - L) = i
      <4>1. i \in 1 .. L + k
        BY <1>3
      <4> QED BY <4>1, <2>2, <1>2
    <3>2. r[i] = a[i - L]
      BY <3>1, <1>3
    <3> QED BY <3>1, <3>2, <1>5, <1>7
  <2> QED BY <2>1, <2>2
<1>9. NextNumber(r, first) = Number(w[1]) + 1
  <2>1. k \in 1 .. k /\ r # <<>>
    BY <1>2, <1>3
  <2>2. r[Len(r)] = a[k]
    BY <2>1, <1>3
  <2> QED BY <2>1, <2>2, <1>5 DEF NextNumber
<1>10. Len(s) + first = g + NextNumber(r, first)
  <2>1. Len(s) = g + 1 + Number(w[1]) - first /\ Number(w[1]) \in Nat
    BY <1>5, <1>7
  <2>2. \A y, z \in Nat : z = g + 1 + y - first => z + first = g + (y + 1)
    OBVIOUS
  <2> QED BY <2>1, <2>2, <1>7, <1>9
<1> QED BY <1>4, <1>8, <1>10 DEF r, a

\* What is left of a send after that.
LEMMA StillToWrite ==
  ASSUME NEW w \in Seq(Octet), NEW k \in 1 .. Len(w), Remainder(w)
  PROVE  Remainder(SubSeq(w, k + 1, Len(w)))
<1> DEFINE r == SubSeq(w, k + 1, Len(w))
<1>1. /\ r \in Seq(Octet) /\ Len(r) = Len(w) - k
      /\ \A i \in 1 .. Len(w) - k : r[i] = w[k + i]
  BY MoveFront
<1>2. Len(w) \in Nat /\ DOMAIN w = 1 .. Len(w) /\ w # <<>> /\ k \in Nat
  OBVIOUS
<1> HIDE DEF r
<1> SUFFICES ASSUME r # <<>>
             PROVE  /\ Rest(r[Len(r)]) = 0
                    /\ \A i \in DOMAIN r : SameFrame(r[1], r[i]) /\ r[i].pos = r[1].pos + (i - 1)
  BY DEF Remainder, r
<1>3. DOMAIN r = 1 .. Len(w) - k /\ Len(w) - k \in Nat \ {0}
  BY <1>1, <1>2
<1>4. Rest(r[Len(r)]) = 0
  <2>1. Len(r) \in 1 .. Len(w) - k /\ k + Len(r) = Len(w)
    BY <1>1, <1>2, <1>3
  <2>2. r[Len(r)] = w[Len(w)]
    BY <2>1, <1>1
  <2> QED BY <2>2, <1>2 DEF Remainder
<1>5. ASSUME NEW i \in DOMAIN r
      PROVE  SameFrame(r[1], r[i]) /\ r[i].pos = r[1].pos + (i - 1)
  <2>1. /\ 1 \in 1 .. Len(w) - k /\ i \in 1 .. Len(w) - k /\ k + 1 \in DOMAIN w /\ k + i \in DOMAIN w
        /\ i \in Nat
    <3>1. i \in 1 .. Len(w) - k
      BY <1>3
    <3>2. \A m \in Nat : \A j \in 1 .. m - k : 1 \in 1 .. m - k /\ k + 1 \in 1 .. m /\ k + j \in 1 .. m /\ j \in Nat
      BY <1>2
    <3> QED BY <3>1, <3>2, <1>2
  <2>2. r[1] = w[k + 1] /\ r[i] = w[k + i]
    BY <2>1, <1>1
  <2>3. /\ SameFrame(w[1], r[1]) /\ r[1].pos = w[1].pos + ((k + 1) - 1)
        /\ SameFrame(w[1], r[i]) /\ r[i].pos = w[1].pos + ((k + i) - 1)
    BY <2>1, <2>2, <1>2 DEF Remainder
  <2>4. w[1].pos \in Nat
    <3>1. w[1] \in Octet
      BY <1>2
    <3> QED BY <3>1, ByteFacts
  <2>5. r[i].pos = r[1].pos + (i - 1)
    <3>1. \A p, m, j \in Nat : p + ((m + j) - 1) = (p + ((m + 1) - 1)) + (j - 1)
      OBVIOUS
    <3>2. w[1].pos + ((k + i) - 1) = (w[1].pos + ((k + 1) - 1)) + (i - 1)
      BY <3>1, <2>1, <2>4, <1>2
    <3> QED BY <3>2, <2>3
  <2> QED BY <2>3, <2>5 DEF SameFrame
<1> QED BY <1>4, <1>5

---------------------------------------------------------------------------
(* The start *)

LEMMA ChannelInit == CInit => ChannelInv
<1> SUFFICES ASSUME CInit PROVE ChannelInv
  OBVIOUS
<1>1. CTypeOK
  <2>1. <<>> \in Seq(Octet) /\ <<>> \in Seq(AllMessages)
    OBVIOUS
  <2>2. /\ stage \in [Ends -> 1 .. 4] /\ sealed \in [Ends -> Nat] /\ opened \in [Ends -> Nat]
    BY DEF CInit
  <2>5. tail \in [Ends -> {"open", "fin", "rst"}] /\ ended \in [Ends -> {"open", "clean", "broken"}]
    BY DEF CInit
  <2>6. reading \subseteq Ends /\ closed \subseteq Ends /\ silent \in BOOLEAN
    BY DEF CInit
  <2>3. out \in [Ends -> Seq(Octet)] /\ wire \in [Ends -> Seq(Octet)] /\ buf \in [Ends -> Seq(Octet)]
    BY <2>1 DEF CInit
  <2>4. sent \in [Ends -> Seq(AllMessages)] /\ got \in [Ends -> Seq(AllMessages)]
    BY <2>1 DEF CInit
  <2> QED BY <2>2, <2>3, <2>4, <2>5, <2>6 DEF CTypeOK
<1>2. Turns
  BY DEF CInit, Turns, InSession, Ends
<1>3. Calls
  <2> SUFFICES ASSUME NEW e \in Ends PROVE ~InSession(e) => Len(buf[e]) <= Needed(e)
    BY DEF CInit, Calls
  <2>1. buf[e] = <<>> /\ Len(<<>>) = 0 /\ Header \in Nat \ {0}
    BY ChannelAssumption DEF CInit, ChannelAssumption
  <2> QED BY <2>1 DEF Needed, TooLong
<1>4. ASSUME NEW e \in Ends PROVE Flow(e)
  <2>1. /\ Other(e) \in Ends /\ stage[e] = 1 /\ stage[Other(e)] = 1
        /\ out[Other(e)] = <<>> /\ buf[e] = <<>> /\ wire[e] = <<>>
        /\ sent[Other(e)] = <<>> /\ got[e] = <<>>
    BY DEF CInit, Ends, Other
  <2>2. Arriving(e) = <<>> /\ Coming(e) = <<>>
    BY <2>1 DEF Arriving, Coming
  <2>3. First(e) = 0 /\ Due(e) = 0
    BY <2>1 DEF First, Due, InSession
  <2>4. DOMAIN <<>> = {} /\ Len(<<>>) = 0
    OBVIOUS
  <2>5. Stream(<<>>, 0) /\ EndsWhole(<<>>) /\ Remainder(<<>>) /\ NextNumber(<<>>, 0) = 0
        /\ Carried(<<>>, 0, <<>>, 0)
    BY <2>4 DEF Stream, Framed, EndsWhole, Remainder, NextNumber, Carried
  <2> QED BY <2>1, <2>2, <2>3, <2>4, <2>5 DEF Flow, FlowArriving, FlowComing
<1>5. InOrder
  BY DEF CInit, InOrder, Ends, Other
<1> QED BY <1>1, <1>2, <1>3, <1>4, <1>5 DEF ChannelInv, Flows

---------------------------------------------------------------------------
(* A whole frame opens *)

LEMMA SameBytes ==
  ASSUME NEW b \in Octet, NEW c \in Octet, SameFrame(b, c), NEW p, c.pos = p
  PROVE  c = [b EXCEPT !.pos = p]
  BY DEF SameFrame, Octet

LEMMA OtherEnd ==
  ASSUME NEW e \in Ends
  PROVE  Other(e) \in Ends /\ Other(e) # e /\ Other(Other(e)) = e /\ Ends = {e, Other(e)}
  BY DEF Ends, Other

\* The parts of the stream to e.
LEMMA Parts ==
  ASSUME CTypeOK, NEW e \in Ends
  PROVE  /\ buf[e] \in Seq(Octet) /\ wire[e] \in Seq(Octet) /\ out[Other(e)] \in Seq(Octet)
         /\ Arriving(e) \in Seq(Octet) /\ Coming(e) \in Seq(Octet)
         /\ Len(buf[e]) \in Nat /\ Len(Arriving(e)) \in Nat
         /\ First(e) \in Nat /\ Len(got[e]) \in Nat /\ sent[Other(e)] \in Seq(AllMessages)
<1>1. buf[e] \in Seq(Octet) /\ wire[e] \in Seq(Octet) /\ out[Other(e)] \in Seq(Octet)
      /\ got[e] \in Seq(AllMessages) /\ sent[Other(e)] \in Seq(AllMessages) /\ opened[e] \in Nat
  BY OtherEnd DEF CTypeOK
<1>2. Arriving(e) \in Seq(Octet)
  BY <1>1, Together DEF Arriving
<1>3. Coming(e) \in Seq(Octet)
  BY <1>1, <1>2, Together DEF Coming
<1> QED BY <1>1, <1>2, <1>3 DEF First

\* No end is sent a frame that is too long.
LEMMA NoLongFrame ==
  ASSUME NEW q \in Seq(Octet), Len(q) >= Header
  PROVE  ~(Head(q).len > MaxFrame)
<1>1. Head(q) \in Octet
  <2>1. Header \in Nat \ {0} /\ Len(q) \in Nat
    BY ChannelAssumption DEF ChannelAssumption
  <2>2. q # <<>>
    BY <2>1
  <2> QED BY <2>2
<1>2. \A m \in AllMessages : Size[m] \in Nat /\ Size[m] <= MaxFrame /\ MaxFrame \in Nat
  BY ChannelAssumption DEF ChannelAssumption
<1> QED BY <1>1, <1>2 DEF Octet

LEMMA NeverTooLong ==
  ASSUME CTypeOK, NEW e \in Ends
  PROVE  ~TooLong(e)
BY Parts, NoLongFrame DEF TooLong

\* What an end has gathered starts with one whole frame, which it can read: of
\* the handshake message it waits for, or under the nonce it expects.
LEMMA WholeFrame ==
  ASSUME CTypeOK, NEW e \in Ends, Flow(e), Len(buf[e]) >= Needed(e)
  PROVE  /\ Arriving(e) # <<>> /\ Arriving(e)[1] \in Octet
         /\ Needed(e) \in Nat /\ Needed(e) = Header + Arriving(e)[1].len
         /\ Needed(e) <= Len(buf[e]) /\ Needed(e) <= Len(Arriving(e))
         /\ Opens(e, SubSeq(buf[e], Header + 1, Needed(e)))
         /\ Head(SubSeq(buf[e], Header + 1, Needed(e))).msg = Arriving(e)[1].msg
<1> DEFINE A == Arriving(e)
           b == A[1]
           N == Header + b.len
           body == SubSeq(buf[e], Header + 1, N)
<1>1. Header \in Nat \ {0} /\ buf[e] \in Seq(Octet) /\ wire[e] \in Seq(Octet) /\ First(e) \in Nat
      /\ Len(buf[e]) \in Nat
  BY Parts, ChannelAssumption DEF ChannelAssumption
<1>2. ~(Len(buf[e]) < Header) /\ buf[e] # <<>>
  BY <1>1 DEF Needed, TooLong
<1>3. /\ A \in Seq(Octet) /\ Len(buf[e]) <= Len(A) /\ Len(A) \in Nat
      /\ DOMAIN buf[e] = 1 .. Len(buf[e])
      /\ \A i \in 1 .. Len(buf[e]) : A[i] = buf[e][i] /\ i \in DOMAIN A
  <2>1. /\ A \in Seq(Octet) /\ Len(A) = Len(buf[e]) + Len(wire[e]) /\ Len(wire[e]) \in Nat
        /\ DOMAIN A = 1 .. Len(buf[e]) + Len(wire[e])
        /\ DOMAIN buf[e] = 1 .. Len(buf[e])
        /\ \A i \in 1 .. Len(buf[e]) : A[i] = buf[e][i]
    BY <1>1, Together DEF Arriving
  <2> HIDE DEF A
  <2>2. Len(buf[e]) <= Len(A) /\ Len(A) \in Nat
    <3>1. \A x, y \in Nat : x <= x + y /\ x + y \in Nat
      OBVIOUS
    <3> QED BY <1>1, <2>1, <3>1
  <2>3. DOMAIN A = 1 .. Len(buf[e]) + Len(wire[e])
    BY <2>1
  <2>4. \A i \in 1 .. Len(buf[e]) : i \in DOMAIN A
    <3>1. \A x, y \in Nat : \A i \in 1 .. x : i \in 1 .. x + y
      OBVIOUS
    <3> QED BY <1>1, <2>1, <2>3, <3>1
  <2> QED BY <2>1, <2>2, <2>4
<1>4. A # <<>> /\ b \in Octet /\ b = Head(buf[e]) /\ Stream(A, First(e))
  <2>1. 1 \in 1 .. Len(buf[e])
    BY <1>1, <1>2
  <2>2. Head(buf[e]) = buf[e][1]
    BY <1>1, <1>2
  <2> HIDE DEF A
  <2>3. A[1] \in Octet /\ A # <<>> /\ A[1] = buf[e][1]
    BY <1>3, <2>1
  <2> QED BY <2>2, <2>3 DEF A, Flow, FlowArriving
<1>5. Needed(e) = N /\ N \in Nat /\ b.len \in Nat \ {0} /\ b.msg \in AllMessages /\ b.len = Size[b.msg]
  <2>1. b.len \in Nat \ {0} /\ b.msg \in AllMessages /\ b.len = Size[b.msg]
    BY <1>4, ByteFacts, ChannelAssumption DEF ChannelAssumption
  <2> QED BY <1>1, <1>2, <1>4, <2>1, NeverTooLong DEF Needed
<1>6. N <= Len(buf[e]) /\ N <= Len(A)
  BY <1>1, <1>3, <1>5
<1> HIDE DEF A
<1>7. \A k \in 1 .. N : buf[e][k] \in Octet /\ SameFrame(b, buf[e][k]) /\ buf[e][k].pos = k
                        /\ Number(b) = First(e)
  <2>1. \A k \in 1 .. N : A[k] \in Octet /\ SameFrame(b, A[k]) /\ A[k].pos = k
    <3>1. Header + A[1].len <= Len(A)
      BY <1>6
    <3> QED BY <1>1, <1>3, <1>4, <3>1, FirstFrame
  <2>2. \A k \in 1 .. N : A[k] = buf[e][k]
    BY <1>1, <1>3, <1>5, <1>6
  <2>3. Number(b) = First(e)
    BY <1>4 DEF Stream
  <2> QED BY <2>1, <2>2, <2>3
<1>8. /\ Len(body) = b.len
      /\ \A k \in 1 .. b.len : body[k] = buf[e][Header + k] /\ Header + k \in 1 .. N
  <2>1. \A i \in Header + 1 .. N : buf[e][i] \in Octet
    BY <1>1, <1>5, <1>7
  <2>2. /\ Len(body) = IF Header + 1 <= N THEN N - (Header + 1) + 1 ELSE 0
        /\ \A k \in 1 .. N - (Header + 1) + 1 : body[k] = buf[e][(Header + 1) + k - 1]
    BY <2>1, <1>1, <1>5, SubSeqProperties
  <2>3. Header + 1 <= N /\ N - (Header + 1) + 1 = b.len
    BY <1>1, <1>5
  <2>4. ASSUME NEW k \in 1 .. b.len PROVE (Header + 1) + k - 1 = Header + k /\ Header + k \in 1 .. N
    BY <1>1, <1>5
  <2> HIDE DEF body, N
  <2> QED BY <2>2, <2>3, <2>4
<1>9. /\ body # <<>> /\ DOMAIN body = 1 .. b.len /\ Head(body) = body[1] /\ 1 \in 1 .. b.len
      /\ \A k \in 1 .. b.len : body[k] \in Octet /\ SameFrame(b, body[k]) /\ body[k].pos = Header + k
  <2>1. body \in Seq(Octet)
    <3>1. \A i \in Header + 1 .. N : buf[e][i] \in Octet
      BY <1>1, <1>5, <1>7
    <3> QED BY <3>1, <1>1, <1>5, SubSeqProperties
  <2>2. \A k \in 1 .. b.len : body[k] \in Octet /\ SameFrame(b, body[k]) /\ body[k].pos = Header + k
    BY <1>7, <1>8
  <2> HIDE DEF body
  <2>3. body # <<>> /\ DOMAIN body = 1 .. b.len /\ 1 \in 1 .. b.len
    BY <2>1, <1>5, <1>8
  <2> QED BY <2>1, <2>2, <2>3
<1> HIDE DEF body, N
<1>10. /\ Head(body) \in Octet /\ SameFrame(b, Head(body)) /\ Head(body).msg = b.msg
       /\ Head(body).len = b.len /\ Head(body).raw = b.raw /\ Head(body).nonce = b.nonce
  BY <1>9 DEF SameFrame
<1>11. \A k \in DOMAIN body : body[k] = [Head(body) EXCEPT !.pos = Header + k]
  <2> SUFFICES ASSUME NEW k \in 1 .. b.len PROVE body[k] = [Head(body) EXCEPT !.pos = Header + k]
    BY <1>9
  <2>1. body[k] \in Octet /\ body[k].pos = Header + k /\ SameFrame(Head(body), body[k])
    BY <1>9, <1>10 DEF SameFrame
  <2> QED BY <2>1, <1>10, SameBytes
<1>12. IF InSession(e) THEN ~b.raw /\ b.nonce = opened[e] ELSE b.raw /\ b.msg = Hs[stage[e]]
  <2>1. Number(b) = First(e) /\ opened[e] \in Nat /\ b.nonce \in Nat
    BY <1>4, ByteFacts DEF Stream, CTypeOK
  <2>2. CASE InSession(e)
    <3>1. Number(b) = opened[e] + 1
      BY <2>1, <2>2 DEF First
    <3>2. Number(b) # 0
      BY <3>1, <2>1
    <3>3. ~b.raw
      BY <3>2 DEF Number
    <3>4. Number(b) = b.nonce + 1
      BY <3>3 DEF Number
    <3> QED BY <2>1, <2>2, <3>1, <3>3, <3>4
  <2>3. CASE ~InSession(e)
    <3>1. Number(b) = 0
      BY <2>1, <2>3 DEF First
    <3>2. b.raw
      BY <3>1, <1>4, ByteFacts
    <3>3. InFlight(e, b)
      <4>1. 1 \in DOMAIN A
        BY <1>3, <1>4
      <4> QED BY <4>1 DEF Flow, FlowArriving, A
    <3> QED BY <2>3, <3>2, <3>3 DEF InFlight
  <2> QED BY <2>2, <2>3
<1>13. Size[b.msg] <= MaxFrame
  BY <1>5, ChannelAssumption DEF ChannelAssumption
<1>14. Opens(e, body)
  BY <1>5, <1>8, <1>10, <1>11, <1>12, <1>13 DEF Opens
<1> QED BY <1>4, <1>5, <1>6, <1>10, <1>14 DEF A, N, body

\* So TakeFrame always returns a message, and takes just that frame off the buffer.
LEMMA Taken ==
  ASSUME CTypeOK, Calls, Flows, NEW e \in Ends, TakeFrame(e)
  PROVE  /\ e \in reading /\ e \notin closed /\ ended[e] = "open" /\ Flow(e)
         /\ Len(buf[e]) >= Needed(e)
         /\ got' = [got EXCEPT ![e] = Append(@, Arriving(e)[1].msg)]
         /\ opened' = [opened EXCEPT ![e] = IF InSession(e) THEN @ + 1 ELSE @]
         /\ stage' = [stage EXCEPT ![e] = IF InSession(e) THEN @ ELSE @ + 1]
         /\ buf' = [buf EXCEPT ![e] = SubSeq(@, Needed(e) + 1, Len(@))]
         /\ reading' = reading \ {e}
         /\ UNCHANGED <<out, wire, tail, sealed, silent, sent, closed, ended>>
<1>1. e \in reading /\ Len(buf[e]) >= Needed(e) /\ e \notin closed /\ ended[e] = "open"
  BY DEF TakeFrame, Calls
<1>2. Flow(e)
  BY <1>1 DEF Flows
<1>3. /\ Opens(e, SubSeq(buf[e], Header + 1, Needed(e)))
      /\ Head(SubSeq(buf[e], Header + 1, Needed(e))).msg = Arriving(e)[1].msg
      /\ Needed(e) \in Nat
  BY <1>1, <1>2, WholeFrame
<1>4. ~InSession(e) => SubSeq(buf[e], Needed(e) + 1, Len(buf[e])) = <<>>
  <2> SUFFICES ASSUME ~InSession(e) PROVE SubSeq(buf[e], Needed(e) + 1, Len(buf[e])) = <<>>
    OBVIOUS
  <2>1. Len(buf[e]) <= Needed(e) /\ Len(buf[e]) \in Nat
    BY Parts DEF Calls
  <2>2. Len(buf[e]) < Needed(e) + 1 /\ Needed(e) + 1 \in Int /\ Len(buf[e]) \in Int
    BY <2>1, <1>3
  <2> QED BY <2>2, SubSeqEmpty
<1>5. buf' = [buf EXCEPT ![e] = SubSeq(@, Needed(e) + 1, Len(@))]
  BY <1>4 DEF TakeFrame, CTypeOK
<1>6. /\ got' = [got EXCEPT ![e] = Append(@, Arriving(e)[1].msg)]
      /\ opened' = [opened EXCEPT ![e] = IF InSession(e) THEN @ + 1 ELSE @]
      /\ stage' = [stage EXCEPT ![e] = IF InSession(e) THEN @ ELSE @ + 1]
      /\ UNCHANGED ended
  BY <1>3, NeverTooLong DEF TakeFrame
<1>7. reading' = reading \ {e} /\ UNCHANGED <<out, wire, tail, sealed, silent, sent, closed>>
  BY DEF TakeFrame
<1> QED BY <1>1, <1>2, <1>5, <1>6, <1>7

---------------------------------------------------------------------------
(* What every step keeps *)

LEMMA HandshakeMessage ==
  ASSUME NEW k \in 1 .. 4, k # 4
  PROVE  Hs[k] \in AllMessages /\ k + 1 \in 1 .. 4
  BY DEF AllMessages

LEMMA BytesOf ==
  ASSUME NEW q \in Seq(Octet), NEW m \in Nat \ {0}, NEW n \in Nat, n <= Len(q)
  PROVE  SubSeq(q, m, n) \in Seq(Octet)
<1>1. Len(q) \in Nat /\ \A i \in m .. n : q[i] \in Octet
  OBVIOUS
<1> QED BY <1>1, SubSeqProperties

LEMMA BreakOffType ==
  ASSUME CTypeOK, NEW e \in Ends, BreakOff(e)
  PROVE  wire' \in [Ends -> Seq(Octet)] /\ tail' \in [Ends -> {"open", "fin", "rst"}]
<1>1. PICK n \in 0 .. Len(wire[e]) : wire' = [wire EXCEPT ![e] = SubSeq(@, 1, n)]
  BY DEF BreakOff
<1>2. wire[e] \in Seq(Octet) /\ n \in Nat /\ n <= Len(wire[e])
  BY DEF CTypeOK
<1>3. SubSeq(wire[e], 1, n) \in Seq(Octet)
  BY <1>2, BytesOf
<1> QED BY <1>1, <1>3 DEF BreakOff, CTypeOK

\* Read takes bytes that are there, and in the handshake no byte behind the
\* frame it is waiting for.
LEMMA ReadRoom ==
  ASSUME CTypeOK, Calls, NEW e \in Ends, Read(e), NEW k \in 1 .. Room(e)
  PROVE  /\ k \in 1 .. Len(wire[e])
         /\ ~InSession(e) => Len(buf[e]) + k <= Needed(e)
<1>1. /\ buf[e] \in Seq(Octet) /\ wire[e] \in Seq(Octet) /\ Len(buf[e]) \in Nat /\ Len(wire[e]) \in Nat
      /\ Len(buf[e]) < Needed(e) /\ Header \in Nat
  BY ChannelAssumption DEF CTypeOK, Read, ChannelAssumption
<1>2. Needed(e) \in Nat
  <2>1. CASE Len(buf[e]) < Header
    BY <1>1, <2>1 DEF Needed, TooLong
  <2>2. CASE ~(Len(buf[e]) < Header)
    <3>1. buf[e] # <<>>
      BY <1>1, <2>2, ChannelAssumption DEF ChannelAssumption
    <3>2. Head(buf[e]) \in Octet
      BY <3>1, <1>1
    <3>3. Head(buf[e]).len \in Nat
      BY <3>2, ByteFacts
    <3> QED BY <1>1, <2>2, <3>3 DEF Needed, TooLong
  <2> QED BY <2>1, <2>2
<1>3. \A a, b, c \in Nat : \A x \in 1 .. (IF c - a > b THEN b ELSE c - a) :
        x \in 1 .. b /\ a + x <= c
  OBVIOUS
<1>4. CASE InSession(e)
  BY <1>1, <1>4 DEF Room
<1>5. CASE ~InSession(e)
  <2>1. k \in 1 .. (IF Needed(e) - Len(buf[e]) > Len(wire[e]) THEN Len(wire[e]) ELSE Needed(e) - Len(buf[e]))
    BY <1>5 DEF Room
  <2> QED BY <2>1, <1>1, <1>2, <1>3
<1> QED BY <1>4, <1>5

LEMMA TypeStep == CTypeOK /\ Calls /\ Flows /\ CNext => CTypeOK'
<1> SUFFICES ASSUME CTypeOK, Calls, Flows, CNext PROVE CTypeOK'
  OBVIOUS
<1>1. ASSUME NEW e \in Ends, SendRaw(e) PROVE CTypeOK'
  <2>1. Frame(Hs[stage[e]], TRUE, 0) \in Seq(Octet) /\ stage[e] + 1 \in 1 .. 4
    <3>1. Hs[stage[e]] \in AllMessages /\ stage[e] + 1 \in 1 .. 4
      BY <1>1, HandshakeMessage DEF SendRaw, InSession, CTypeOK
    <3> QED BY <3>1, FrameFacts
  <2>2. out' \in [Ends -> Seq(Octet)]
    BY <1>1, <2>1 DEF SendRaw, CTypeOK
  <2>3. stage' \in [Ends -> 1 .. 4]
    BY <1>1, <2>1 DEF SendRaw, CTypeOK
  <2> QED BY <1>1, <2>2, <2>3 DEF SendRaw, CTypeOK
<1>2. ASSUME NEW e \in Ends, NEW m \in Messages, Send(e, m) PROVE CTypeOK'
  <2>1. Frame(m, FALSE, sealed[e]) \in Seq(Octet)
    BY FrameFacts DEF CTypeOK, AllMessages
  <2>2. out' \in [Ends -> Seq(Octet)]
    BY <1>2, <2>1 DEF Send, CTypeOK
  <2>3. sealed' \in [Ends -> Nat]
    BY <1>2 DEF Send, CTypeOK
  <2> QED BY <1>2, <2>2, <2>3 DEF Send, CTypeOK
<1>3. ASSUME NEW e \in Ends, Write(e) PROVE CTypeOK'
  <2>1. PICK k \in 1 .. Len(out[e]) :
          /\ out' = [out EXCEPT ![e] = SubSeq(@, k + 1, Len(@))]
          /\ wire' = IF tail[Other(e)] = "open" /\ Other(e) \notin closed /\ ~silent
                       THEN [wire EXCEPT ![Other(e)] = @ \o SubSeq(out[e], 1, k)]
                       ELSE wire
          /\ sent' = IF Head(out[e]).pos = 1 THEN [sent EXCEPT ![e] = Append(@, Head(out[e]).msg)] ELSE sent
    BY <1>3 DEF Write
  <2>2. out[e] \in Seq(Octet) /\ out[e] # <<>> /\ wire[Other(e)] \in Seq(Octet) /\ sent[e] \in Seq(AllMessages)
        /\ Other(e) \in Ends
    BY <1>3, OtherEnd DEF Write, CTypeOK
  <2>3. SubSeq(out[e], 1, k) \in Seq(Octet) /\ SubSeq(out[e], k + 1, Len(out[e])) \in Seq(Octet)
    BY <2>2, MoveFront
  <2>4. wire[Other(e)] \o SubSeq(out[e], 1, k) \in Seq(Octet)
    BY <2>2, <2>3, Together
  <2>5. Append(sent[e], Head(out[e]).msg) \in Seq(AllMessages)
    <3>1. Head(out[e]) \in Octet
      BY <2>2
    <3>2. Head(out[e]).msg \in AllMessages
      BY <3>1, ByteFacts
    <3> QED BY <2>2, <3>2, AppendProperties
  <2>6. out' \in [Ends -> Seq(Octet)]
    BY <2>1, <2>3 DEF CTypeOK
  <2>7. wire' \in [Ends -> Seq(Octet)]
    BY <2>1, <2>4 DEF CTypeOK
  <2>8. sent' \in [Ends -> Seq(AllMessages)]
    BY <2>1, <2>5 DEF CTypeOK
  <2> QED BY <1>3, <2>6, <2>7, <2>8 DEF Write, CTypeOK
<1>4. ASSUME NEW e \in Ends, StartRecv(e) PROVE CTypeOK'
  BY <1>4 DEF StartRecv, CTypeOK
<1>5. ASSUME NEW e \in Ends, Read(e) PROVE CTypeOK'
  <2>1. PICK k \in 1 .. Room(e) :
          /\ buf' = [buf EXCEPT ![e] = @ \o SubSeq(wire[e], 1, k)]
          /\ wire' = [wire EXCEPT ![e] = SubSeq(@, k + 1, Len(@))]
    BY <1>5 DEF Read
  <2>2. k \in 1 .. Len(wire[e])
    BY <1>5, ReadRoom
  <2>3. buf[e] \in Seq(Octet) /\ wire[e] \in Seq(Octet)
    BY DEF CTypeOK
  <2>4. SubSeq(wire[e], 1, k) \in Seq(Octet) /\ SubSeq(wire[e], k + 1, Len(wire[e])) \in Seq(Octet)
    BY <2>2, <2>3, MoveFront
  <2>5. buf[e] \o SubSeq(wire[e], 1, k) \in Seq(Octet)
    BY <2>3, <2>4, Together
  <2>6. buf' \in [Ends -> Seq(Octet)] /\ wire' \in [Ends -> Seq(Octet)]
    BY <2>1, <2>4, <2>5 DEF CTypeOK
  <2> QED BY <1>5, <2>6 DEF Read, CTypeOK
<1>6. ASSUME NEW e \in Ends, ReadEnd(e) PROVE CTypeOK'
  BY <1>6 DEF ReadEnd, CTypeOK
<1>7. ASSUME NEW e \in Ends, TakeFrame(e) PROVE CTypeOK'
  <2>1. Arriving(e)[1].msg \in AllMessages /\ Needed(e) \in Nat /\ Needed(e) <= Len(buf[e])
    <3>1. Arriving(e)[1] \in Octet /\ Needed(e) \in Nat /\ Needed(e) <= Len(buf[e])
      BY <1>7, Taken, WholeFrame
    <3> QED BY <3>1, ByteFacts
  <2>2. Append(got[e], Arriving(e)[1].msg) \in Seq(AllMessages)
    BY <2>1, AppendProperties DEF CTypeOK
  <2>3. SubSeq(buf[e], Needed(e) + 1, Len(buf[e])) \in Seq(Octet)
    BY <2>1, BytesOf DEF CTypeOK
  <2>4. ~InSession(e) => stage[e] + 1 \in 1 .. 4
    BY HandshakeMessage DEF InSession, CTypeOK
  <2>5. /\ got' = [got EXCEPT ![e] = Append(@, Arriving(e)[1].msg)]
        /\ opened' = [opened EXCEPT ![e] = IF InSession(e) THEN @ + 1 ELSE @]
        /\ stage' = [stage EXCEPT ![e] = IF InSession(e) THEN @ ELSE @ + 1]
        /\ buf' = [buf EXCEPT ![e] = SubSeq(@, Needed(e) + 1, Len(@))]
        /\ reading' = reading \ {e}
        /\ UNCHANGED <<out, wire, tail, sealed, silent, sent, closed, ended>>
    BY <1>7, Taken
  <2>6. got' \in [Ends -> Seq(AllMessages)] /\ buf' \in [Ends -> Seq(Octet)]
    BY <2>2, <2>3, <2>5 DEF CTypeOK
  <2>7. opened' \in [Ends -> Nat]
    BY <2>5 DEF CTypeOK
  <2>8. stage' \in [Ends -> 1 .. 4]
    BY <2>4, <2>5 DEF CTypeOK
  <2> QED BY <2>5, <2>6, <2>7, <2>8 DEF CTypeOK
<1>8. ASSUME NEW e \in Ends, Close(e) PROVE CTypeOK'
  <2>1. wire' \in [Ends -> Seq(Octet)] /\ tail' \in [Ends -> {"open", "fin", "rst"}]
    BY <1>8, OtherEnd, BreakOffType DEF Close, CTypeOK
  <2>2. out' \in [Ends -> Seq(Octet)]
    <3>1. <<>> \in Seq(Octet)
      OBVIOUS
    <3> QED BY <1>8, <3>1 DEF Close, CTypeOK
  <2> QED BY <1>8, <2>1, <2>2 DEF Close, CTypeOK
<1>9. ASSUME NEW e \in Ends, Cut(e) PROVE CTypeOK'
  BY <1>9, BreakOffType DEF Cut, CTypeOK
<1>10. ASSUME Vanish PROVE CTypeOK'
  BY <1>10 DEF Vanish, CTypeOK
<1> QED BY <1>1, <1>2, <1>3, <1>4, <1>5, <1>6, <1>7, <1>8, <1>9, <1>10 DEF CNext, EndStep, WriteFails

\* The stages the two ends can be in, as seen from one of them.
LEMMA StagePairs ==
  ASSUME Turns, NEW e \in Ends
  PROVE  /\ e = "initiator" =>
              <<stage[e], stage[Other(e)]>> \in
                {<<1, 1>>, <<2, 1>>, <<2, 2>>, <<2, 3>>, <<3, 3>>, <<4, 3>>, <<4, 4>>}
         /\ e = "responder" =>
              <<stage[Other(e)], stage[e]>> \in
                {<<1, 1>>, <<2, 1>>, <<2, 2>>, <<2, 3>>, <<3, 3>>, <<4, 3>>, <<4, 4>>}
  BY DEF Turns, Ends, Other

\* An end whose turn it is to send is where its peer is; one that takes a
\* handshake message is one behind.
LEMMA SendTurn ==
  ASSUME CTypeOK, Turns, NEW e \in Ends, ~InSession(e)
  PROVE  /\ Handshake(e)[stage[e]] = "send" => stage[Other(e)] = stage[e]
         /\ InSession(Other(e)) => stage[e] = 3 /\ e = "responder"
<1>1. CASE e = "initiator"
  BY <1>1, StagePairs DEF Handshake, NoiseInitiator, InSession
<1>2. CASE e = "responder"
  BY <1>2, StagePairs DEF Handshake, NoiseResponder, InSession
<1> QED BY <1>1, <1>2 DEF Ends

LEMMA PeerInSession ==
  ASSUME CTypeOK, Turns, NEW e \in Ends, ~InSession(e), InSession(Other(e))
  PROVE  stage[Other(e)] = stage[e] + 1
  BY SendTurn DEF InSession

LEMMA TurnsStep == CTypeOK /\ Turns /\ Calls /\ Flows /\ CNext => Turns'
<1> SUFFICES ASSUME CTypeOK, Turns, Calls, Flows, CNext PROVE Turns'
  OBVIOUS
<1> USE DEF Turns
<1>1. ASSUME NEW e \in Ends, SendRaw(e) PROVE Turns'
  <2>1. stage[Other(e)] = stage[e] /\ ~InSession(e) /\ Handshake(e)[stage[e]] = "send"
    BY <1>1, SendTurn DEF SendRaw
  <2>2. stage' = [stage EXCEPT ![e] = @ + 1] /\ UNCHANGED <<opened, sealed>>
    BY <1>1 DEF SendRaw
  <2>3. <<stage'["initiator"], stage'["responder"]>> \in {<<2, 1>>, <<2, 3>>, <<4, 3>>}
    <3>1. CASE e = "initiator"
      BY <2>1, <2>2, <3>1, StagePairs DEF CTypeOK, Ends, Other, InSession, Handshake, NoiseInitiator
    <3>2. CASE e = "responder"
      BY <2>1, <2>2, <3>2, StagePairs DEF CTypeOK, Ends, Other, InSession, Handshake, NoiseResponder
    <3> QED BY <3>1, <3>2 DEF Ends
  <2>4. \A x \in Ends : ~InSession(x)' => ~InSession(x)
    BY <2>1, <2>2 DEF CTypeOK, InSession
  <2> QED BY <2>2, <2>3, <2>4
<1>2. ASSUME NEW e \in Ends, NEW m \in Messages, Send(e, m) PROVE Turns'
  BY <1>2 DEF Send, CTypeOK, InSession
<1>3. ASSUME NEW e \in Ends, TakeFrame(e) PROVE Turns'
  <2>1. /\ Flow(e) /\ Len(buf[e]) >= Needed(e)
        /\ stage' = [stage EXCEPT ![e] = IF InSession(e) THEN @ ELSE @ + 1]
        /\ opened' = [opened EXCEPT ![e] = IF InSession(e) THEN @ + 1 ELSE @]
        /\ UNCHANGED sealed
    BY <1>3, Taken
  <2>2. CASE InSession(e)
    <3>1. UNCHANGED stage /\ \A x \in Ends : ~InSession(x) => opened'[x] = opened[x]
      BY <2>1, <2>2 DEF CTypeOK
    <3> QED BY <2>1, <3>1 DEF InSession
  <2>3. CASE ~InSession(e)
    <3>1. InFlight(e, Arriving(e)[1])
      <4>1. Arriving(e) # <<>> /\ Arriving(e) \in Seq(Octet)
        BY <2>1, WholeFrame, Parts
      <4>2. 1 \in DOMAIN Arriving(e)
        BY <4>1
      <4> QED BY <4>2, <2>1 DEF Flow, FlowArriving
    <3>2. stage[Other(e)] = stage[e] + 1
      BY <3>1, <2>3 DEF InFlight
    <3>3. stage' = [stage EXCEPT ![e] = @ + 1] /\ UNCHANGED <<opened, sealed>>
      BY <2>1, <2>3 DEF CTypeOK
    <3>4. <<stage'["initiator"], stage'["responder"]>> \in {<<2, 2>>, <<3, 3>>, <<4, 4>>}
      <4>1. CASE e = "initiator"
        BY <3>2, <3>3, <4>1, StagePairs DEF CTypeOK, Ends, Other
      <4>2. CASE e = "responder"
        BY <3>2, <3>3, <4>2, StagePairs DEF CTypeOK, Ends, Other
      <4> QED BY <4>1, <4>2 DEF Ends
    <3>5. \A x \in Ends : ~InSession(x)' => ~InSession(x)
      BY <2>3, <3>3 DEF CTypeOK, InSession
    <3> QED BY <3>3, <3>4, <3>5
  <2> QED BY <2>2, <2>3
<1>4. ASSUME UNCHANGED <<stage, opened, sealed>> PROVE Turns'
  BY <1>4 DEF InSession
<1> QED BY <1>1, <1>2, <1>3, <1>4 DEF CNext, EndStep, WriteFails, Write, StartRecv, Read, ReadEnd, Close, Cut, Vanish

\* What one end may still have to read before it decides.
LEMMA NeededGrows ==
  ASSUME NEW p \in Seq(Octet), NEW q \in Seq(Octet),
         Len(p) + Len(q) <= (IF Len(p) < Header THEN Header ELSE Header + Head(p).len)
  PROVE  Len(p \o q) <= (IF Len(p \o q) < Header THEN Header ELSE Header + Head(p \o q).len)
<1> DEFINE r == p \o q
<1>1. /\ r \in Seq(Octet) /\ Len(r) = Len(p) + Len(q) /\ Len(p) \in Nat /\ Len(q) \in Nat
      /\ \A i \in 1 .. Len(p) : r[i] = p[i]
  BY Together
<1>2. Header \in Nat \ {0}
  BY ChannelAssumption DEF ChannelAssumption
<1> HIDE DEF r
<1>3. CASE Len(r) < Header
  BY <1>1, <1>2, <1>3 DEF r
<1>4. CASE ~(Len(r) < Header) /\ Len(p) < Header
  <2>1. Len(r) \in Nat
    BY <1>1
  <2>2. r # <<>>
    BY <1>1, <1>2, <1>4
  <2>3. Head(r) \in Octet
    BY <1>1, <2>2
  <2>4. Head(r).len \in Nat
    BY <2>3, ByteFacts
  <2>5. Len(r) <= Header
    BY <1>1, <1>4
  <2> QED BY <1>2, <1>4, <2>1, <2>4, <2>5 DEF r
<1>5. CASE ~(Len(p) < Header)
  <2>1. 1 \in 1 .. Len(p) /\ p # <<>> /\ r # <<>>
    BY <1>1, <1>2, <1>5
  <2>2. Head(r) = Head(p)
    <3>1. Head(r) = r[1] /\ Head(p) = p[1]
      BY <2>1, <1>1
    <3> QED BY <3>1, <2>1, <1>1
  <2>3. Len(r) <= Header + Head(r).len
    BY <1>1, <1>5, <2>2
  <2>4. ~(Len(r) < Header)
    BY <1>1, <1>2, <1>5
  <2> QED BY <2>3, <2>4 DEF r
<1> QED BY <1>3, <1>4, <1>5

LEMMA CallsStep == CTypeOK /\ Turns /\ Calls /\ Flows /\ CNext => Calls'
<1> SUFFICES ASSUME CTypeOK, Turns, Calls, Flows, CNext PROVE Calls'
  OBVIOUS
<1>1. ASSUME NEW e \in Ends, SendRaw(e) PROVE Calls'
  <2>1. /\ e \notin closed /\ e \notin reading
        /\ \A x \in Ends \ {e} : out'[x] = out[x]
        /\ UNCHANGED <<tail, buf, reading, ended, closed>>
    BY <1>1 DEF SendRaw, Free, CTypeOK
  <2>2. /\ \A x \in Ends \ {e} : stage'[x] = stage[x]
        /\ \A x \in Ends : ~InSession(x)' => ~InSession(x)
    BY <1>1 DEF SendRaw, CTypeOK, InSession
  <2> QED BY <2>1, <2>2 DEF Calls, InSession, Needed, TooLong, Handshake
<1>2. ASSUME NEW e \in Ends, NEW m \in Messages, Send(e, m) PROVE Calls'
  <2>1. /\ e \notin closed /\ e \notin reading
        /\ \A x \in Ends \ {e} : out'[x] = out[x]
        /\ UNCHANGED <<stage, tail, buf, reading, ended, closed>>
    BY <1>2 DEF Send, Free, CTypeOK
  <2> QED BY <2>1 DEF Calls, InSession, Needed, TooLong, Handshake
<1>3. ASSUME NEW e \in Ends, Write(e) PROVE Calls'
  BY <1>3 DEF Write, Calls, CTypeOK, InSession, Needed, TooLong, Handshake
<1>4. ASSUME NEW e \in Ends, StartRecv(e) PROVE Calls'
  BY <1>4 DEF StartRecv, Free, Calls, CTypeOK, InSession, Needed, TooLong, Handshake
<1>5. ASSUME NEW e \in Ends, Read(e) PROVE Calls'
  <2>1. PICK k \in 1 .. Room(e) : buf' = [buf EXCEPT ![e] = @ \o SubSeq(wire[e], 1, k)]
    BY <1>5 DEF Read
  <2>2. /\ buf[e] \in Seq(Octet) /\ SubSeq(wire[e], 1, k) \in Seq(Octet) /\ Len(SubSeq(wire[e], 1, k)) = k
        /\ ~InSession(e) => Len(buf[e]) + k <= Needed(e)
    <3>1. buf[e] \in Seq(Octet) /\ wire[e] \in Seq(Octet)
      BY DEF CTypeOK
    <3> QED BY <1>5, <3>1, ReadRoom, MoveFront
  <2>3. ~InSession(e) => Len(buf'[e]) <= Needed(e)'
    <3>1. buf'[e] = buf[e] \o SubSeq(wire[e], 1, k)
      BY <2>1 DEF CTypeOK
    <3>2. ~InSession(e) =>
            Len(buf[e]) + k <= (IF Len(buf[e]) < Header THEN Header ELSE Header + Head(buf[e]).len)
      BY <2>2, NeverTooLong DEF Needed
    <3>3. ~InSession(e) =>
            Len(buf'[e]) <= (IF Len(buf'[e]) < Header THEN Header ELSE Header + Head(buf'[e]).len)
      BY <2>2, <3>1, <3>2, NeededGrows
    <3>4. buf'[e] \in Seq(Octet) /\ Header \in Nat /\ Len(buf'[e]) \in Nat
      BY <2>2, <3>1, Together, ChannelAssumption DEF ChannelAssumption
    <3>5. ~TooLong(e)'
      BY <3>4, NoLongFrame DEF TooLong
    <3> QED BY <3>3, <3>5 DEF Needed
  <2>4. \A x \in Ends \ {e} : buf'[x] = buf[x] /\ Needed(x)' = Needed(x)
    BY <2>1 DEF CTypeOK, Needed, TooLong
  <2>5. UNCHANGED <<stage, out, tail, reading, ended, closed>>
    BY <1>5 DEF Read
  <2> QED BY <2>3, <2>4, <2>5 DEF Calls, InSession, Handshake
<1>6. ASSUME NEW e \in Ends, ReadEnd(e) PROVE Calls'
  BY <1>6 DEF ReadEnd, Calls, CTypeOK, InSession, Needed, TooLong, Handshake
<1>7. ASSUME NEW e \in Ends, TakeFrame(e) PROVE Calls'
  <2>1. /\ stage' = [stage EXCEPT ![e] = IF InSession(e) THEN @ ELSE @ + 1]
        /\ reading' = reading \ {e}
        /\ UNCHANGED <<out, tail, closed, ended>>
    BY <1>7, Taken
  <2>2. ~InSession(e) => Len(buf'[e]) <= Needed(e)'
    <3>1. ~InSession(e) => buf'[e] = <<>>
      BY <1>7 DEF TakeFrame, CTypeOK
    <3>2. Len(<<>>) = 0 /\ Header \in Nat \ {0}
      BY ChannelAssumption DEF ChannelAssumption
    <3> QED BY <3>1, <3>2 DEF Needed, TooLong
  <2>3. \A x \in Ends \ {e} : buf'[x] = buf[x] /\ Needed(x)' = Needed(x)
    BY <1>7 DEF TakeFrame, CTypeOK, Needed, TooLong
  <2>4. \A x \in Ends : /\ ~InSession(x)' => ~InSession(x)
                        /\ x # e => stage'[x] = stage[x]
    BY <2>1 DEF CTypeOK, InSession
  <2> QED BY <2>1, <2>2, <2>3, <2>4 DEF Calls, InSession, Handshake
<1>8. ASSUME NEW e \in Ends, Close(e) PROVE Calls'
  <2>1. \A x \in Ends : tail'[x] = "fin" => Other(x) \in closed'
    BY <1>8, OtherEnd DEF Close, BreakOff, Calls, CTypeOK
  <2>2. /\ closed' = closed \cup {e} /\ out' = [out EXCEPT ![e] = <<>>] /\ reading' = reading \ {e}
        /\ UNCHANGED <<stage, buf, ended>>
    BY <1>8 DEF Close
  <2> QED BY <2>1, <2>2 DEF Calls, CTypeOK, InSession, Handshake, Needed, TooLong
<1>9. ASSUME NEW e \in Ends, Cut(e) PROVE Calls'
  BY <1>9 DEF Cut, BreakOff, Calls, CTypeOK, InSession, Needed, TooLong, Handshake
<1>10. ASSUME Vanish PROVE Calls'
  BY <1>10 DEF Vanish, Calls, InSession, Needed, TooLong, Handshake
<1> QED BY <1>1, <1>2, <1>3, <1>4, <1>5, <1>6, <1>7, <1>8, <1>9, <1>10 DEF CNext, EndStep, WriteFails

---------------------------------------------------------------------------
(* What every step keeps of the two streams *)

LEMMA NoBytes ==
  ASSUME NEW first \in Nat, NEW msgs, NEW g
  PROVE  /\ DOMAIN <<>> = {} /\ <<>> \in Seq(Octet)
         /\ Stream(<<>>, first) /\ EndsWhole(<<>>) /\ Remainder(<<>>)
         /\ NextNumber(<<>>, first) = first
         /\ Carried(<<>>, first, msgs, g)
<1>1. DOMAIN <<>> = {} /\ <<>> \in Seq(Octet)
  OBVIOUS
<1> QED BY <1>1 DEF Stream, Framed, EndsWhole, Remainder, NextNumber, Carried

\* Steps that move no byte to or from e.
LEMMA FlowStays ==
  ASSUME NEW e \in Ends, Flow(e),
         Arriving(e)' = Arriving(e), First(e)' = First(e),
         \A b : InFlight(e, b) => InFlight(e, b)',
         sent'[Other(e)] = sent[Other(e)], got'[e] = got[e],
         Whole(e)' => Whole(e),
         Live(e)' => Live(e) /\ out'[Other(e)] = out[Other(e)] /\ Due(e)' = Due(e)
  PROVE  Flow(e)'
<1>1. FlowArriving(e)'
  BY DEF Flow, FlowArriving
<1>2. ASSUME Live(e)' PROVE FlowComing(e)'
  <2>1. Coming(e)' = Coming(e)
    BY <1>2 DEF Coming
  <2> QED BY <1>2, <2>1 DEF Flow, FlowComing
<1> QED BY <1>1, <1>2 DEF Flow

LEMMA FlowKept ==
  ASSUME NEW e \in Ends, Flow(e),
         buf'[e] = buf[e], wire'[e] = wire[e],
         stage'[e] = stage[e], stage'[Other(e)] = stage[Other(e)],
         sealed'[Other(e)] = sealed[Other(e)], opened'[e] = opened[e],
         sent'[Other(e)] = sent[Other(e)], got'[e] = got[e],
         Whole(e)' => Whole(e),
         Live(e)' => Live(e) /\ out'[Other(e)] = out[Other(e)]
  PROVE  Flow(e)'
<1>1. Arriving(e)' = Arriving(e) /\ First(e)' = First(e) /\ Due(e)' = Due(e)
  BY DEF Arriving, First, Due, InSession
<1>2. \A b : InFlight(e, b) => InFlight(e, b)'
  BY DEF InFlight, InSession
<1> QED BY <1>1, <1>2, FlowStays

\* Nothing is under way to an end that is as far in the handshake as its peer.
LEMMA QuietTurn ==
  ASSUME CTypeOK, NEW e \in Ends, Flow(e), ~InSession(e), stage[Other(e)] = stage[e]
  PROVE  Arriving(e) = <<>> /\ (Live(e) => Coming(e) = <<>>)
<1>1. stage[Other(e)] # stage[e] + 1
  <2>1. stage[e] \in 1 .. 4
    BY DEF CTypeOK
  <2> QED BY <2>1
<1>2. Arriving(e) \in Seq(Octet) /\ Coming(e) \in Seq(Octet)
  BY Parts
<1>3. \A q \in Seq(Octet) : q # <<>> => 1 \in DOMAIN q
  OBVIOUS
<1>4. \A b : ~InFlight(e, b)
  BY <1>1 DEF InFlight
<1> QED BY <1>2, <1>3, <1>4 DEF Flow, FlowArriving, FlowComing

LEMMA SendRawFlow ==
  ASSUME CTypeOK, Turns, NEW x \in Ends, SendRaw(x), NEW e \in Ends, Flow(e), CTypeOK'
  PROVE  Flow(e)'
<1>1. /\ ~InSession(x) /\ stage[Other(x)] = stage[x] /\ out[x] = <<>>
      /\ stage' = [stage EXCEPT ![x] = @ + 1]
      /\ UNCHANGED <<wire, tail, buf, sealed, opened, silent, sent, got>>
  BY SendTurn DEF SendRaw, Free
<1>f. out' = [out EXCEPT ![x] = Frame(Hs[stage[x]], TRUE, 0)]
  BY DEF SendRaw
<1>2. /\ ~InSession(e) /\ stage[Other(e)] = stage[e] /\ ~InSession(Other(e))
      /\ opened[e] = 0 /\ sealed[Other(e)] = 0 /\ stage[e] \in 1 .. 3
  <2>1. x \in {e, Other(e)} /\ Other(e) \in Ends /\ Other(Other(e)) = e
    BY OtherEnd
  <2>2. ~InSession(e) /\ ~InSession(Other(e)) /\ stage[Other(e)] = stage[e]
    BY <1>1, <2>1 DEF InSession
  <2>3. stage[e] \in 1 .. 4
    BY DEF CTypeOK
  <2> QED BY <2>1, <2>2, <2>3 DEF Turns, InSession
<1>3. Arriving(e) = <<>> /\ (Live(e) => Coming(e) = <<>>) /\ First(e) = 0
  BY <1>2, QuietTurn DEF First
<1>4. Arriving(e)' = <<>> /\ (Live(e)' <=> Live(e)) /\ (Whole(e)' <=> Whole(e))
  BY <1>1, <1>3 DEF Arriving, Live, Whole
<1>5. Len(got[e]) \in Nat /\ (Whole(e) => Len(sent[Other(e)]) = Len(got[e]))
  <2>1. Len(got[e]) \in Nat /\ sent[Other(e)] \in Seq(AllMessages)
    BY Parts
  <2>2. NextNumber(<<>>, 0) = 0
    BY DEF NextNumber
  <2> QED BY <1>3, <2>1, <2>2 DEF Flow, FlowArriving
<1>6. CASE x = e
  <2>1. stage'[e] = stage[e] + 1 /\ stage'[Other(e)] = stage[e] /\ out'[Other(e)] = out[Other(e)]
    BY <1>1, <1>f, <1>2, <1>6, OtherEnd DEF CTypeOK
  <2>2. Due(e)' = First(e)' /\ First(e)' \in Nat
    BY <1>1, <1>2, <2>1 DEF Due, First, InSession
  <2>3. Coming(e)' = Coming(e)
    BY <1>1, <2>1 DEF Coming, Arriving
  <2>4. Live(e) => out[Other(e)] = <<>>
    <3>1. Live(e) => Coming(e) = <<>>
      BY <1>3
    <3>2. out[Other(e)] \in Seq(Octet) /\ <<>> \o out[Other(e)] = out[Other(e)]
      <4>1. out[Other(e)] \in Seq(Octet)
        BY Parts
      <4> QED BY <4>1, ConcatEmptySeq
    <3> QED BY <1>3, <3>1, <3>2 DEF Coming
  <2>5. Flow(e)'
    <3>1. Live(e)' => Coming(e)' = <<>> /\ out'[Other(e)] = <<>>
      BY <1>3, <1>4, <2>1, <2>3, <2>4
    <3>2. Whole(e)' => Len(sent'[Other(e)]) = Len(got'[e])
      BY <1>1, <1>4, <1>5
    <3>3. Len(got'[e]) \in Nat
      BY <1>1, <1>5
    <3>4. <<>> \in Seq(Octet) /\ DOMAIN <<>> = {}
      OBVIOUS
    <3>5. /\ Stream(<<>>, First(e)') /\ EndsWhole(<<>>) /\ Remainder(<<>>)
          /\ NextNumber(<<>>, First(e)') = First(e)'
          /\ Carried(<<>>, First(e)', sent'[Other(e)], Len(got'[e]))
      BY <3>4 DEF Stream, Framed, EndsWhole, Remainder, NextNumber, Carried
    <3> QED BY <1>4, <2>2, <3>1, <3>2, <3>3, <3>4, <3>5 DEF Flow, FlowArriving, FlowComing
  <2> QED BY <2>5
<1>7. CASE x = Other(e)
  <2>0. stage[x] \in 1 .. 3 /\ Hs[stage[x]] \in AllMessages
    <3>1. stage[x] \in 1 .. 4 /\ stage[x] # 4
      BY <1>1 DEF InSession, CTypeOK
    <3> QED BY <3>1, HandshakeMessage
  <2>f. PICK f : f = Frame(Hs[stage[x]], TRUE, 0)
    OBVIOUS
  <2>1. /\ f \in Seq(Octet) /\ f # <<>> /\ Remainder(f) /\ f[1].pos = 1
        /\ \A k \in DOMAIN f : f[k].msg = Hs[stage[x]]
        /\ \A k \in DOMAIN f : f[k].raw
    <3>1. Hs[stage[x]] \in AllMessages
      BY <2>0
    <3>4. f \in Seq(Octet) /\ f # <<>> /\ Remainder(f) /\ f[1].pos = 1
      BY <3>1, <2>f, RawFrame, Zenon
    <3>5. \A k \in DOMAIN f : f[k].msg = Hs[stage[x]]
      <4>1. \A m \in AllMessages : \A g : g = Frame(m, TRUE, 0) => \A k \in DOMAIN g : g[k].msg = m
        BY RawFrame, Zenon
      <4> QED BY <3>1, <2>f, <4>1, Zenon
    <3>6. \A k \in DOMAIN f : f[k].raw
      BY <3>1, <2>f, RawFrame, Zenon
    <3> QED BY <3>4, <3>5, <3>6
  <2>2. /\ stage'[e] = stage[e] /\ stage'[Other(e)] = stage[e] + 1 /\ out'[Other(e)] = f
        /\ stage[x] = stage[e]
    <3>1. out' = [out EXCEPT ![x] = f]
      BY <1>f, <2>f, Zenon
    <3> QED BY <1>1, <1>2, <1>7, <3>1, OtherEnd DEF CTypeOK
  <2>3. First(e)' = 0 /\ Due(e)' = 1 /\ ~InSession(e)'
    BY <1>1, <1>2, <2>2 DEF Due, First, InSession
  <2>4. Coming(e)' = f
    <3>1. Coming(e)' = <<>> \o f
      BY <1>4, <2>2 DEF Coming
    <3> QED BY <2>1, <3>1, ConcatEmptySeq
  <2>5. DOMAIN <<>> = {} /\ <<>> \in Seq(Octet) /\ <<>> \o f = f
    BY <2>1, ConcatEmptySeq
  <2>6. /\ Stream(<<>>, 0) /\ EndsWhole(<<>>) /\ NextNumber(<<>>, 0) = 0
        /\ Carried(<<>>, 0, sent'[Other(e)], Len(got'[e]))
    BY <2>5 DEF Stream, Framed, EndsWhole, NextNumber, Carried
  <2>7. 1 \in DOMAIN f /\ Number(f[1]) = 0
    <3>1. f \in Seq(Octet) /\ f # <<>>
      BY <2>1
    <3>2. 1 \in DOMAIN f
      BY <3>1
    <3>3. f[1].raw
      BY <3>2, <2>1
    <3> QED BY <3>2, <3>3 DEF Number
  <2>8. Stream(f, 0) /\ EndsWhole(f) /\ NextNumber(f, 0) = 1
    <3>1. Stream(<<>> \o f, 0) /\ EndsWhole(<<>> \o f) /\ NextNumber(<<>> \o f, 0) = 0 + 1
      <4>1. ASSUME NEW q \in Seq(Octet), q = <<>>
            PROVE  Stream(q \o f, 0) /\ EndsWhole(q \o f) /\ NextNumber(q \o f, 0) = 0 + 1
        <5>1. Stream(q, 0) /\ EndsWhole(q) /\ NextNumber(q, 0) = 0 /\ 0 \in Nat
          BY <2>6, <4>1
        <5>2. Number(f[1]) = NextNumber(q, 0)
          BY <2>7, <5>1
        <5> QED BY <2>1, <5>1, <5>2, NextFrame
      <4> QED BY <2>5, <4>1
    <3> QED BY <3>1, <2>5
  <2>9. \A k \in DOMAIN f : InFlight(e, f[k])'
    <3> SUFFICES ASSUME NEW k \in DOMAIN f PROVE InFlight(e, f[k])'
      OBVIOUS
    <3>1. f[k].raw /\ f[k].msg = Hs[stage'[e]] /\ stage'[Other(e)] = stage'[e] + 1
      BY <2>1, <2>2
    <3> QED BY <3>1 DEF InFlight
  <2>10. FlowArriving(e)'
    <3>1. Whole(e)' => Len(sent'[Other(e)]) + 0 = Len(got'[e]) + 0
      BY <1>1, <1>4, <1>5
    <3> QED BY <1>4, <2>3, <2>5, <2>6, <3>1 DEF FlowArriving
  <2>11. FlowComing(e)'
    BY <2>1, <2>2, <2>3, <2>4, <2>8, <2>9 DEF FlowComing
  <2> QED BY <2>10, <2>11 DEF Flow
<1> QED BY <1>6, <1>7, OtherEnd

LEMMA SendFlow ==
  ASSUME CTypeOK, Turns, NEW x \in Ends, NEW m \in Messages, Send(x, m), NEW e \in Ends, Flow(e)
  PROVE  Flow(e)'
<1>1. /\ InSession(x) /\ out[x] = <<>> /\ sealed[x] \in Nat
      /\ sealed' = [sealed EXCEPT ![x] = @ + 1]
      /\ UNCHANGED <<stage, wire, tail, buf, opened, silent, sent, got>>
  BY DEF Send, Free, CTypeOK
<1>f. out' = [out EXCEPT ![x] = Frame(m, FALSE, sealed[x])]
  BY DEF Send
<1>2. CASE x = e
  <2>1. sealed'[Other(e)] = sealed[Other(e)] /\ out'[Other(e)] = out[Other(e)]
    BY <1>1, <1>f, <1>2, OtherEnd DEF CTypeOK
  <2>2. (Whole(e)' => Whole(e)) /\ (Live(e)' => Live(e))
    BY <1>1 DEF Whole, Live
  <2> QED BY <1>1, <2>1, <2>2, FlowKept
<1>3. CASE x = Other(e)
  <2>f. PICK f : f = Frame(m, FALSE, sealed[x])
    OBVIOUS
  <2>1. /\ f \in Seq(Octet) /\ f # <<>> /\ Remainder(f) /\ f[1].pos = 1
        /\ \A k \in DOMAIN f : ~f[k].raw
        /\ \A k \in DOMAIN f : f[k].nonce = sealed[x]
    <3>1. m \in AllMessages /\ sealed[x] \in Nat
      BY <1>1 DEF AllMessages
    <3> QED BY <3>1, <2>f, SealedFrame, Zenon
  <2>2. out'[Other(e)] = f /\ sealed'[Other(e)] = sealed[Other(e)] + 1 /\ sealed[Other(e)] \in Nat
    <3>1. out' = [out EXCEPT ![x] = f]
      BY <1>f, <2>f, Zenon
    <3> QED BY <3>1, <1>1, <1>3, OtherEnd DEF CTypeOK
  <2>3. /\ Arriving(e)' = Arriving(e) /\ First(e)' = First(e) /\ (InSession(e)' <=> InSession(e))
        /\ (InSession(Other(e))' <=> InSession(Other(e)))
        /\ (Live(e)' <=> Live(e)) /\ (Whole(e)' <=> Whole(e))
    BY <1>1 DEF Arriving, First, InSession, Live, Whole
  <2>4. \A q \in Seq(Octet) : \A k \in DOMAIN q : InFlight(e, q[k]) => InFlight(e, q[k])'
    <3> SUFFICES ASSUME NEW q \in Seq(Octet), NEW k \in DOMAIN q, InFlight(e, q[k])
                 PROVE  InFlight(e, q[k])'
      OBVIOUS
    <3>1. q[k].nonce \in Nat
      <4>1. q[k] \in Octet
        OBVIOUS
      <4> QED BY <4>1, ByteFacts
    <3>2. UNCHANGED stage
      BY <1>1
    <3> QED BY <2>2, <2>3, <3>1, <3>2 DEF InFlight
  <2>5. Arriving(e) \in Seq(Octet) /\ Coming(e) \in Seq(Octet) /\ First(e) \in Nat
    BY Parts
  <2>6. FlowArriving(e)'
    BY <1>1, <2>3, <2>4, <2>5 DEF Flow, FlowArriving
  <2>7. ASSUME Live(e)' PROVE FlowComing(e)'
    <3>0. FlowComing(e)
      BY <2>3, <2>7 DEF Flow
    <3>1. Coming(e) = Arriving(e) /\ Coming(e)' = Coming(e) \o f
      BY <1>1, <1>3, <2>2, <2>3, <2>5, ConcatEmptySeq DEF Coming
    <3>2. Due(e) = sealed[Other(e)] + 1 /\ Due(e)' = sealed[Other(e)] + 2
      BY <1>1, <1>3, <2>2, <2>3 DEF Due
    <3>3. 1 \in DOMAIN f /\ Number(f[1]) = Due(e)
      <4>1. f \in Seq(Octet) /\ f # <<>>
        BY <2>1
      <4>2. 1 \in DOMAIN f
        BY <4>1
      <4>3. ~f[1].raw /\ f[1].nonce = sealed[x]
        BY <4>2, <2>1
      <4>4. Number(f[1]) = sealed[x] + 1
        BY <4>3 DEF Number
      <4> QED BY <4>2, <4>4, <3>2, <1>3
    <3>4. /\ Stream(Coming(e) \o f, First(e)) /\ EndsWhole(Coming(e) \o f)
          /\ NextNumber(Coming(e) \o f, First(e)) = Due(e) + 1
      <4>1. Stream(Coming(e), First(e)) /\ EndsWhole(Coming(e)) /\ NextNumber(Coming(e), First(e)) = Due(e)
        BY <3>0 DEF FlowComing
      <4> QED BY <2>1, <2>5, <3>3, <4>1, NextFrame
    <3>5. \A k \in DOMAIN f : InFlight(e, f[k])'
      <4> SUFFICES ASSUME NEW k \in DOMAIN f PROVE InFlight(e, f[k])'
        OBVIOUS
      <4>1. ~f[k].raw /\ f[k].nonce = sealed[Other(e)] /\ InSession(Other(e))'
        BY <1>1, <1>3, <2>1, <2>3
      <4>2. ~InSession(e)' => stage'[Other(e)] = stage'[e] + 1
        BY <1>1, <1>3, PeerInSession DEF InSession
      <4> QED BY <4>1, <4>2, <2>2 DEF InFlight
    <3> PICK c \in Seq(Octet) : c = Coming(e)
      BY <2>5
    <3>6. \A k \in DOMAIN (c \o f) : InFlight(e, (c \o f)[k])'
      <4> SUFFICES ASSUME NEW k \in DOMAIN (c \o f) PROVE InFlight(e, (c \o f)[k])'
        OBVIOUS
      <4>0. \A i \in DOMAIN c : InFlight(e, c[i])'
        BY <2>4, <3>0 DEF FlowComing
      <4>1. /\ Len(c) \in Nat /\ Len(f) \in Nat /\ DOMAIN (c \o f) = 1 .. Len(c) + Len(f)
            /\ DOMAIN c = 1 .. Len(c) /\ DOMAIN f = 1 .. Len(f)
            /\ \A i \in 1 .. Len(c) : (c \o f)[i] = c[i]
            /\ \A i \in 1 .. Len(f) : (c \o f)[Len(c) + i] = f[i]
        BY <2>1, Together
      <4>2. CASE k <= Len(c)
        <5>1. k \in DOMAIN c /\ (c \o f)[k] = c[k]
          BY <4>1, <4>2
        <5> QED BY <4>0, <5>1
      <4>3. CASE ~(k <= Len(c))
        <5>1. k - Len(c) \in DOMAIN f /\ (c \o f)[k] = f[k - Len(c)]
          <6>1. k - Len(c) \in 1 .. Len(f) /\ Len(c) + (k - Len(c)) = k
            BY <4>1, <4>3
          <6> QED BY <4>1, <6>1
        <5> QED BY <3>5, <5>1
      <4> QED BY <4>2, <4>3
    <3> QED BY <2>1, <2>2, <2>3, <3>1, <3>2, <3>4, <3>6 DEF FlowComing
  <2> QED BY <2>6, <2>7 DEF Flow
<1> QED BY <1>2, <1>3, OtherEnd

LEMMA WriteFlow ==
  ASSUME CTypeOK, Turns, Calls, NEW x \in Ends, Write(x), NEW e \in Ends, e \notin closed, Flow(e), CTypeOK'
  PROVE  Flow(e)'
<1>1. PICK k \in 1 .. Len(out[x]) :
        /\ out' = [out EXCEPT ![x] = SubSeq(@, k + 1, Len(@))]
        /\ wire' = IF tail[Other(x)] = "open" /\ Other(x) \notin closed /\ ~silent
                     THEN [wire EXCEPT ![Other(x)] = @ \o SubSeq(out[x], 1, k)]
                     ELSE wire
        /\ sent' = IF Head(out[x]).pos = 1 THEN [sent EXCEPT ![x] = Append(@, Head(out[x]).msg)] ELSE sent
  BY DEF Write
<1>2. UNCHANGED <<stage, tail, buf, sealed, opened, silent, got>> /\ out[x] # <<>>
  BY DEF Write
<1>3. CASE x = e
  <2>1. /\ out'[Other(e)] = out[Other(e)] /\ wire'[e] = wire[e] /\ sent'[Other(e)] = sent[Other(e)]
    BY <1>1, <1>3, OtherEnd DEF CTypeOK
  <2>2. (Whole(e)' => Whole(e)) /\ (Live(e)' => Live(e))
    BY <1>2 DEF Whole, Live
  <2> QED BY <1>2, <2>1, <2>2, FlowKept
<1>4. CASE x = Other(e)
  <2>1. PICK w \in Seq(Octet), p \in Seq(Octet) : w = out[x] /\ p = Arriving(e)
    BY Parts, <1>4
  <2>2. /\ First(e) \in Nat /\ sent[x] \in Seq(AllMessages) /\ Len(got[e]) \in Nat
        /\ buf[e] \in Seq(Octet) /\ wire[e] \in Seq(Octet)
    BY Parts, <1>4
  <2>3. /\ sent'[x] = IF w[1].pos = 1 THEN Append(sent[x], w[1].msg) ELSE sent[x]
        /\ out'[x] = SubSeq(w, k + 1, Len(w))
        /\ w # <<>> /\ k \in 1 .. Len(w)
    <3>1. w # <<>> /\ Head(w) = w[1]
      BY <1>2, <2>1
    <3>2. out[x] = w /\ sent[x] = sent[x] /\ x \in Ends
      BY <2>1
    <3>3. out'[x] = SubSeq(w, k + 1, Len(w))
      BY <1>1, <3>2 DEF CTypeOK
    <3>4. sent'[x] = IF Head(w).pos = 1 THEN Append(sent[x], Head(w).msg) ELSE sent[x]
      BY <1>1, <3>2 DEF CTypeOK
    <3> QED BY <1>1, <2>1, <3>1, <3>3, <3>4
  <2>4. /\ First(e)' = First(e) /\ Due(e)' = Due(e) /\ (Live(e)' <=> Live(e)) /\ (Whole(e)' <=> Whole(e))
        /\ got'[e] = got[e]
    BY <1>2 DEF First, Due, InSession, Live, Whole
  <2>5. \A b : InFlight(e, b)' <=> InFlight(e, b)
    BY <1>2 DEF InFlight, InSession
  <2>6. CASE Live(e)
    <3> DEFINE a == SubSeq(w, 1, k)
               rest == SubSeq(w, k + 1, Len(w))
    <3>1. a \in Seq(Octet) /\ rest \in Seq(Octet) /\ (p \o a) \o rest = p \o w
      <4>1. k \in 1 .. Len(w)
        BY <2>3
      <4> QED BY <4>1, MoveFront
    <3>2. PICK c \in Seq(Octet) : c = p \o w
      BY Together
    <3>3. Coming(e) = c /\ FlowComing(e)
      BY <1>4, <2>1, <2>6, <3>2 DEF Coming, Flow
    <3>4. PICK r \in Seq(Octet) : r = p \o a
      BY <3>1, Together
    <3>5. Arriving(e)' = r
      <4>1. wire'[e] = wire[e] \o a
        <5>1. Other(x) = e /\ x \in Ends
          BY <1>4, OtherEnd
        <5>2. wire' = [wire EXCEPT ![e] = @ \o a]
          BY <1>1, <2>1, <2>6, <5>1 DEF Live
        <5> QED BY <5>2 DEF CTypeOK
      <4>2. Arriving(e)' = buf[e] \o (wire[e] \o a)
        BY <1>2, <4>1 DEF Arriving
      <4> HIDE DEF a
      <4>4. (buf[e] \o wire[e]) \o a = buf[e] \o (wire[e] \o a)
        <5>1. buf[e] \in Seq(Octet) /\ wire[e] \in Seq(Octet) /\ a \in Seq(Octet)
          <6>1. a \in Seq(Octet)
            BY <3>1 DEF a
          <6> QED BY <2>2, <6>1
        <5>2. PICK bu, wi, an \in Seq(Octet) : bu = buf[e] /\ wi = wire[e] /\ an = a
          BY <5>1
        <5>3. (bu \o wi) \o an = bu \o (wi \o an)
          BY Associates
        <5> QED BY <5>2, <5>3
      <4> QED BY <2>1, <3>4, <4>2, <4>4 DEF Arriving, a
    <3>6. Coming(e)' = c
      <4>1. Coming(e)' = r \o rest
        BY <1>4, <2>3, <3>5 DEF Coming
      <4> HIDE DEF a, rest
      <4> QED BY <3>1, <3>2, <3>4, <4>1
    <3>7. /\ Stream(r, First(e)) /\ Carried(r, First(e), sent'[x], Len(got[e]))
          /\ Len(sent'[x]) + First(e) = Len(got[e]) + NextNumber(r, First(e))
      <4>1. Stream(p \o w, First(e)) /\ Remainder(w)
        BY <1>4, <2>1, <3>2, <3>3 DEF FlowComing
      <4>2. Carried(p, First(e), sent[x], Len(got[e]))
        BY <1>4, <2>1 DEF Flow, FlowArriving
      <4>3. Len(sent[x]) + First(e) = Len(got[e]) + NextNumber(p, First(e))
        BY <1>4, <2>1, <2>6 DEF Flow, FlowArriving, Whole
      <4>4. PICK s1, s2, g, f : s1 = sent[x] /\ s2 = sent'[x] /\ g = Len(got[e]) /\ f = First(e)
        OBVIOUS
      <4>5. /\ k \in 1 .. Len(w) /\ s2 = Begun(w, s1)
            /\ f \in Nat /\ s1 \in Seq(AllMessages) /\ g \in Nat
            /\ Stream(p \o w, f) /\ Remainder(w) /\ Carried(p, f, s1, g) /\ Len(s1) + f = g + NextNumber(p, f)
            /\ r = p \o SubSeq(w, 1, k)
        BY <2>2, <2>3, <3>4, <4>1, <4>2, <4>3, <4>4 DEF Begun
      <4>6. Stream(r, f) /\ Carried(r, f, s2, g) /\ Len(s2) + f = g + NextNumber(r, f)
        <5> HIDE DEF a, rest
        <5>1. \A first, gg \in Nat : \A msgs \in Seq(AllMessages) :
              \A kk \in 1 .. Len(w) : \A s, z :
                /\ Stream(p \o w, first) /\ Remainder(w)
                /\ Carried(p, first, msgs, gg) /\ Len(msgs) + first = gg + NextNumber(p, first)
                /\ s = Begun(w, msgs)
                /\ z = p \o SubSeq(w, 1, kk)
                => /\ Stream(z, first) /\ Carried(z, first, s, gg)
                   /\ Len(s) + first = gg + NextNumber(z, first)
          BY PassedOn, Zenon
        <5>2. \A kk \in 1 .. Len(w) : \A s, z :
                /\ Stream(p \o w, f) /\ Remainder(w)
                /\ Carried(p, f, s1, g) /\ Len(s1) + f = g + NextNumber(p, f)
                /\ s = Begun(w, s1)
                /\ z = p \o SubSeq(w, 1, kk)
                => /\ Stream(z, f) /\ Carried(z, f, s, g)
                   /\ Len(s) + f = g + NextNumber(z, f)
          <6>1. f \in Nat /\ g \in Nat /\ s1 \in Seq(AllMessages)
            BY <4>5
          <6> QED BY <5>1, <6>1, Zenon
        <5>3. \A s, z :
                /\ Stream(p \o w, f) /\ Remainder(w)
                /\ Carried(p, f, s1, g) /\ Len(s1) + f = g + NextNumber(p, f)
                /\ s = Begun(w, s1)
                /\ z = p \o SubSeq(w, 1, k)
                => /\ Stream(z, f) /\ Carried(z, f, s, g)
                   /\ Len(s) + f = g + NextNumber(z, f)
          BY <4>5, <5>2, Zenon
        <5> QED BY <4>5, <5>3, Zenon
      <4> QED BY <4>4, <4>6
    <3>8. \A i \in DOMAIN r : i \in DOMAIN c /\ r[i] = c[i]
      <4> HIDE DEF a, rest
      <4>1. c = r \o rest
        BY <3>1, <3>2, <3>4
      <4> QED BY <3>1, <4>1, Together
    <3>9. FlowArriving(e)'
      <4>1. \A i \in DOMAIN r : InFlight(e, r[i])'
        BY <2>5, <3>3, <3>8 DEF FlowComing
      <4> QED BY <1>4, <2>4, <3>5, <3>7, <4>1 DEF FlowArriving
    <3>10. Remainder(rest)
      BY <1>4, <2>1, <2>3, <3>3, StillToWrite DEF FlowComing
    <3>11. FlowComing(e)'
      <4>1. out'[Other(e)] = rest
        BY <1>4, <2>3
      <4>2. Remainder(out[Other(e)])'
        BY <3>10, <4>1 DEF Remainder, Rest, SameFrame
      <4>3. \A i \in DOMAIN c : InFlight(e, c[i])'
        BY <2>5, <3>3 DEF FlowComing
      <4> QED BY <2>4, <3>3, <3>6, <4>2, <4>3 DEF FlowComing
    <3> QED BY <3>9, <3>11 DEF Flow
  <2>7. CASE ~Live(e)
    <3>1. wire'[e] = wire[e]
      BY <1>1, <1>4, <2>7, OtherEnd DEF Live
    <3>2. Arriving(e)' = Arriving(e)
      BY <1>2, <3>1 DEF Arriving
    <3>3. ~Whole(e)
      BY <1>2, <1>4, <2>7 DEF Whole, Calls
    <3>4. Carried(p, First(e), sent'[x], Len(got[e]))
      <4>1. Carried(p, First(e), sent[x], Len(got[e]))
        BY <1>4, <2>1 DEF Flow, FlowArriving
      <4>2. \A i \in DOMAIN sent[x] : i \in DOMAIN sent'[x] /\ sent'[x][i] = sent[x][i]
        <5>1. w[1].msg \in AllMessages
          <6>1. w[1] \in Octet
            BY <2>3
          <6> QED BY <6>1, ByteFacts
        <5>2. \A i \in 1 .. Len(sent[x]) : /\ i \in DOMAIN Append(sent[x], w[1].msg)
                                           /\ Append(sent[x], w[1].msg)[i] = sent[x][i]
          BY <2>2, <5>1, AppendProperties
        <5>3. DOMAIN sent[x] = 1 .. Len(sent[x])
          BY <2>2
        <5> QED BY <2>3, <5>2, <5>3
      <4> QED BY <4>1, <4>2 DEF Carried
    <3>5. FlowArriving(e)'
      <4>1. /\ Stream(p, First(e)) /\ Carried(p, First(e), sent'[Other(e)], Len(got'[e]))
            /\ \A i \in DOMAIN p : InFlight(e, p[i])'
        BY <1>4, <2>1, <2>4, <2>5, <3>4 DEF Flow, FlowArriving
      <4> QED BY <2>1, <2>4, <3>2, <3>3, <4>1 DEF FlowArriving
    <3> QED BY <2>4, <2>7, <3>5 DEF Flow
  <2> QED BY <2>6, <2>7
<1> QED BY <1>3, <1>4, OtherEnd

LEMMA ReadFlow ==
  ASSUME CTypeOK, Calls, NEW x \in Ends, Read(x), NEW e \in Ends, Flow(e)
  PROVE  Flow(e)'
<1>1. PICK k \in 1 .. Room(x) :
        /\ buf' = [buf EXCEPT ![x] = @ \o SubSeq(wire[x], 1, k)]
        /\ wire' = [wire EXCEPT ![x] = SubSeq(@, k + 1, Len(@))]
  BY DEF Read
<1>2. UNCHANGED <<stage, out, tail, sealed, opened, silent, sent, got>>
  BY DEF Read
<1>3. (Whole(e)' => Whole(e)) /\ (Live(e)' => Live(e))
  BY <1>2 DEF Whole, Live
<1>4. CASE x # e
  <2>1. buf'[e] = buf[e] /\ wire'[e] = wire[e]
    BY <1>1, <1>4 DEF CTypeOK
  <2> QED BY <1>2, <1>3, <2>1, FlowKept
<1>5. CASE x = e
  <2>1. k \in 1 .. Len(wire[e]) /\ buf[e] \in Seq(Octet) /\ wire[e] \in Seq(Octet)
    BY <1>5, ReadRoom, Parts
  <2>2. (buf[e] \o SubSeq(wire[e], 1, k)) \o SubSeq(wire[e], k + 1, Len(wire[e])) = buf[e] \o wire[e]
    BY <2>1, MoveFront
  <2>3. Arriving(e)' = Arriving(e)
    <3>1. /\ buf'[e] = buf[e] \o SubSeq(wire[e], 1, k)
          /\ wire'[e] = SubSeq(wire[e], k + 1, Len(wire[e]))
      BY <1>1, <1>5 DEF CTypeOK
    <3> QED BY <2>2, <3>1 DEF Arriving
  <2>4. First(e)' = First(e) /\ Due(e)' = Due(e) /\ \A b : InFlight(e, b) => InFlight(e, b)'
    BY <1>2 DEF First, Due, InFlight, InSession
  <2> QED BY <1>2, <1>3, <2>3, <2>4, FlowStays
<1> QED BY <1>4, <1>5

\* What is under way to an end in the handshake, of which the peer is not further
\* than one message ahead, is one frame.
LEMMA TakeFlow ==
  ASSUME CTypeOK, Turns, Calls, Flows, NEW x \in Ends, TakeFrame(x), NEW e \in Ends, Flow(e)
  PROVE  Flow(e)'
<1>1. /\ Flow(x) /\ Len(buf[x]) >= Needed(x)
      /\ got' = [got EXCEPT ![x] = Append(@, Arriving(x)[1].msg)]
      /\ opened' = [opened EXCEPT ![x] = IF InSession(x) THEN @ + 1 ELSE @]
      /\ stage' = [stage EXCEPT ![x] = IF InSession(x) THEN @ ELSE @ + 1]
      /\ buf' = [buf EXCEPT ![x] = SubSeq(@, Needed(x) + 1, Len(@))]
      /\ UNCHANGED <<out, wire, tail, sealed, silent, sent>>
  BY Taken
<1>2. (Whole(e)' <=> Whole(e)) /\ (Live(e)' <=> Live(e))
  BY <1>1 DEF Whole, Live
<1>3. /\ Arriving(x) \in Seq(Octet) /\ Arriving(x) # <<>> /\ Arriving(x)[1] \in Octet
      /\ Needed(x) \in Nat /\ Needed(x) = Header + Arriving(x)[1].len
      /\ Needed(x) <= Len(buf[x]) /\ Needed(x) <= Len(Arriving(x))
  BY <1>1, WholeFrame, Parts
<1>4. ~InSession(x) => stage[Other(x)] = stage[x] + 1
  <2>1. 1 \in DOMAIN Arriving(x)
    BY <1>3
  <2>2. InFlight(x, Arriving(x)[1])
    BY <1>1, <2>1 DEF Flow, FlowArriving
  <2> QED BY <2>2 DEF InFlight
<1>5. CASE x = Other(e)
  <2>1. /\ buf'[e] = buf[e] /\ wire'[e] = wire[e] /\ stage'[e] = stage[e]
        /\ sealed'[x] = sealed[x] /\ opened'[e] = opened[e] /\ got'[e] = got[e]
        /\ sent'[x] = sent[x] /\ out'[x] = out[x]
    BY <1>1, <1>5, OtherEnd DEF CTypeOK
  <2>2. CASE InSession(x)
    <3>1. stage'[x] = stage[x]
      BY <1>1, <2>2 DEF CTypeOK
    <3> QED BY <1>2, <1>5, <2>1, <3>1, FlowKept
  <2>3. CASE ~InSession(x)
    <3>1. stage[e] = stage[x] + 1 /\ stage'[x] = stage[e] /\ stage[x] \in Nat /\ sealed[x] = 0
      <4>1. Other(x) = e
        BY <1>5, OtherEnd
      <4>2. stage'[x] = stage[x] + 1 /\ stage[x] \in 1 .. 4
        BY <1>1, <2>3 DEF CTypeOK
      <4>3. sealed[x] = 0
        BY <2>3 DEF Turns
      <4> QED BY <1>4, <2>3, <4>1, <4>2, <4>3
    <3>2. \A b : InFlight(e, b) => InFlight(e, b)'
      <4>1. InSession(e)' <=> InSession(e)
        BY <2>1 DEF InSession
      <4>2. ~InSession(e) => stage[Other(e)] # stage[e] + 1
        BY <3>1, <1>5
      <4> QED BY <4>1, <4>2, <2>3, <1>5 DEF InFlight
    <3>3. Due(e)' = Due(e)
      <4>1. CASE InSession(e)
        <5>1. InSession(e)' /\ InSession(x)'
          BY <4>1, <2>1, <3>1 DEF InSession
        <5> QED BY <4>1, <5>1, <2>1, <2>3, <3>1, <1>5 DEF Due
      <4>2. CASE ~InSession(e)
        <5>1. ~InSession(e)' /\ ~InSession(x)'
          BY <4>2, <2>1, <3>1 DEF InSession
        <5>2. ~(stage[x] > stage[e]) /\ ~(stage'[x] > stage'[e])
          BY <3>1, <2>1
        <5> QED BY <4>2, <5>1, <5>2, <2>3, <1>5 DEF Due
      <4> QED BY <4>1, <4>2
    <3>4. Arriving(e)' = Arriving(e) /\ First(e)' = First(e)
      BY <2>1 DEF Arriving, First, InSession
    <3> QED BY <1>2, <1>5, <2>1, <3>2, <3>3, <3>4, FlowStays
  <2> QED BY <2>2, <2>3
<1>6. CASE x = e
  <2>0. /\ First(e) \in Nat /\ Len(got[e]) \in Nat /\ got[e] \in Seq(AllMessages)
        /\ buf[e] \in Seq(Octet) /\ wire[e] \in Seq(Octet) /\ out[Other(e)] \in Seq(Octet)
        /\ Arriving(e) \in Seq(Octet) /\ Coming(e) \in Seq(Octet) /\ Len(buf[e]) \in Nat
    BY Parts DEF CTypeOK
  <2>1. PICK n \in Nat, g \in Nat, first \in Nat, bu \in Seq(Octet), wi \in Seq(Octet), ou \in Seq(Octet),
             A \in Seq(Octet), C \in Seq(Octet) :
          /\ n = Needed(e) /\ g = Len(got[e]) /\ first = First(e)
          /\ bu = buf[e] /\ wi = wire[e] /\ ou = out[Other(e)] /\ A = Arriving(e) /\ C = Coming(e)
    BY <2>0, <1>3, <1>6
  <2>2. PICK r, r2 : r = SubSeq(A, n + 1, Len(A)) /\ r2 = SubSeq(C, n + 1, Len(C))
    OBVIOUS
  <2>3. /\ A = bu \o wi /\ C = A \o ou /\ A # <<>> /\ n = Header + A[1].len
        /\ n <= Len(bu) /\ n <= Len(A)
    BY <1>3, <1>6, <2>1 DEF Arriving, Coming
  <2>4. /\ Len(bu) \in Nat /\ Len(A) \in Nat /\ n \in 0 .. Len(bu) /\ n \in 0 .. Len(A)
        /\ 1 \in 1 .. Len(A)
    BY <2>3
  <2>5. C # <<>> /\ C[1] = A[1] /\ n <= Len(C)
    <3>1. Len(C) = Len(A) + Len(ou) /\ Len(ou) \in Nat /\ C[1] = A[1] /\ (C = <<>> <=> Len(C) = 0)
      BY <2>3, <2>4, Together
    <3> QED BY <3>1, <2>3, <2>4
  <2>6. Arriving(e)' = r
    <3>1. buf'[e] = SubSeq(bu, n + 1, Len(bu)) /\ wire'[e] = wi
      BY <1>1, <1>6, <2>1 DEF CTypeOK
    <3>2. SubSeq(bu, n + 1, Len(bu)) \o wi = SubSeq(bu \o wi, n + 1, Len(bu \o wi))
      BY <2>4, DropFront
    <3> QED BY <3>1, <3>2, <2>2, <2>3 DEF Arriving
  <2>7. Coming(e)' = r2
    <3>1. out'[Other(e)] = ou
      BY <1>1, <2>1
    <3>2. SubSeq(A, n + 1, Len(A)) \o ou = SubSeq(A \o ou, n + 1, Len(A \o ou))
      BY <2>4, DropFront
    <3> QED BY <3>1, <3>2, <2>2, <2>3, <2>6 DEF Coming
  <2>8. /\ Stream(A, first) /\ \A k \in DOMAIN A : InFlight(e, A[k])
        /\ Carried(A, first, sent[Other(e)], g)
        /\ Whole(e) => Len(sent[Other(e)]) + first = g + NextNumber(A, first)
    BY <2>1 DEF Flow, FlowArriving
  <2>9. /\ r \in Seq(Octet) /\ Len(r) = Len(A) - n
        /\ \A i \in DOMAIN r : n + i \in DOMAIN A /\ r[i] = A[n + i]
        /\ Stream(r, first + 1) /\ NextNumber(r, first + 1) = NextNumber(A, first)
    <3>1. Stream(A, first) /\ A # <<>> /\ n = Header + A[1].len /\ n <= Len(A)
      BY <2>3, <2>8
    <3> QED BY <2>2, <3>1, BehindFirst
  <2>10. Carried(r, first + 1, sent[Other(e)], g + 1)
    <3>1. PICK ms : ms = sent[Other(e)]
      OBVIOUS
    <3>2. Carried(A, first, ms, g) /\ \A i \in DOMAIN r : n + i \in DOMAIN A /\ r[i] = A[n + i]
      BY <2>8, <2>9, <3>1
    <3>3. Carried(r, first + 1, ms, g + 1)
      BY <2>9, <3>2, CarriedOn
    <3> QED BY <3>1, <3>3
  <2>11. Live(e) =>
           /\ r2 \in Seq(Octet) /\ \A i \in DOMAIN r2 : n + i \in DOMAIN C /\ r2[i] = C[n + i]
           /\ Stream(r2, first + 1) /\ NextNumber(r2, first + 1) = Due(e) /\ EndsWhole(r2)
           /\ \A k \in DOMAIN C : InFlight(e, C[k])
           /\ Remainder(ou)
    <3> SUFFICES ASSUME Live(e)
                 PROVE  /\ r2 \in Seq(Octet) /\ \A i \in DOMAIN r2 : n + i \in DOMAIN C /\ r2[i] = C[n + i]
                        /\ Stream(r2, first + 1) /\ NextNumber(r2, first + 1) = Due(e) /\ EndsWhole(r2)
                        /\ \A k \in DOMAIN C : InFlight(e, C[k])
                        /\ Remainder(ou)
      OBVIOUS
    <3>1. /\ Stream(C, first) /\ EndsWhole(C) /\ Due(e) = NextNumber(C, first)
          /\ \A k \in DOMAIN C : InFlight(e, C[k])
          /\ Remainder(ou)
      BY <2>1 DEF Flow, FlowComing
    <3>2. n = Header + C[1].len
      BY <2>3, <2>5
    <3> QED BY <2>2, <2>5, <3>1, <3>2, BehindFirst
  <2>12. got'[e] \in Seq(AllMessages) /\ Len(got'[e]) = g + 1
    <3>1. got'[e] = Append(got[e], A[1].msg)
      BY <1>1, <1>6, <2>1 DEF CTypeOK
    <3>2. A[1].msg \in AllMessages
      BY <1>3, <1>6, <2>1, ByteFacts
    <3> QED BY <3>1, <3>2, <2>0, <2>1, AppendProperties
  <2>13. sent'[Other(e)] = sent[Other(e)] /\ out'[Other(e)] = ou
    BY <1>1, <2>1
  <2>14. CASE InSession(e) \/ stage[e] = 3
    <3>1. InSession(e)' /\ First(e)' = first + 1
      <4>1. CASE InSession(e)
        <5>1. stage'[e] = stage[e] /\ opened'[e] = opened[e] + 1 /\ opened[e] \in Nat
          BY <4>1, <1>1, <1>6 DEF CTypeOK
        <5> QED BY <4>1, <5>1, <2>1 DEF First, InSession
      <4>2. CASE ~InSession(e) /\ stage[e] = 3
        <5>1. stage'[e] = 4 /\ opened'[e] = 0
          BY <4>2, <1>1, <1>6 DEF CTypeOK, Turns
        <5> QED BY <4>2, <5>1, <2>1 DEF First, InSession
      <4> QED BY <2>14, <4>1, <4>2
    <3>2. stage'[Other(e)] = stage[Other(e)] /\ sealed'[Other(e)] = sealed[Other(e)]
      BY <1>1, <1>6, OtherEnd DEF CTypeOK
    <3>3. InSession(Other(e))' <=> InSession(Other(e))
      BY <3>2 DEF InSession
    <3>4. Due(e)' = Due(e)
      <4>1. InSession(e) \/ InSession(Other(e))
        BY <1>4, <1>6, <2>14 DEF InSession
      <4> QED BY <4>1, <3>1, <3>2, <3>3 DEF Due
    <3>5. \A b : InFlight(e, b) => InFlight(e, b)'
      BY <3>1, <3>2, <3>3 DEF InFlight
    <3>6. FlowArriving(e)'
      <4>1. \A k \in DOMAIN r : InFlight(e, r[k])'
        BY <2>8, <2>9, <3>5
      <4>2. Whole(e)' => Len(sent'[Other(e)]) + (first + 1) = Len(got'[e]) + NextNumber(r, first + 1)
        <5> SUFFICES ASSUME Whole(e)
                     PROVE  Len(sent'[Other(e)]) + (first + 1) = Len(got'[e]) + NextNumber(r, first + 1)
          BY <1>2
        <5>1. Len(sent[Other(e)]) + first = g + NextNumber(A, first)
          BY <2>8
        <5>2. Len(sent[Other(e)]) \in Nat /\ NextNumber(A, first) \in Nat
          <6>1. sent[Other(e)] \in Seq(AllMessages)
            BY Parts
          <6>2. Len(A) \in DOMAIN A /\ A[Len(A)] \in Octet
            BY <2>4
          <6>3. NextNumber(A, first) = Number(A[Len(A)]) + 1
            BY <2>3 DEF NextNumber
          <6> QED BY <6>1, <6>2, <6>3, ByteFacts
        <5>3. \A s, nn \in Nat : s + first = g + nn => s + (first + 1) = (g + 1) + nn
          OBVIOUS
        <5>4. Len(sent[Other(e)]) + (first + 1) = (g + 1) + NextNumber(A, first)
          BY <5>1, <5>2, <5>3
        <5> QED BY <5>4, <2>9, <2>12, <2>13
      <4> QED BY <2>6, <2>9, <2>10, <2>12, <2>13, <3>1, <4>1, <4>2 DEF FlowArriving
    <3>7. ASSUME Live(e)' PROVE FlowComing(e)'
      <4>1. Live(e)
        BY <3>7, <1>2
      <4>2. \A k \in DOMAIN r2 : InFlight(e, r2[k])'
        BY <2>11, <3>5, <4>1
      <4>3. Remainder(out[Other(e)])'
        BY <2>11, <2>13, <4>1 DEF Remainder, Rest, SameFrame
      <4> QED BY <2>7, <2>11, <3>1, <3>4, <4>1, <4>2, <4>3 DEF FlowComing
    <3> QED BY <3>6, <3>7 DEF Flow
  <2>15. CASE ~InSession(e) /\ stage[e] # 3
    <3>1. /\ stage[Other(e)] = stage[e] + 1 /\ stage'[e] = stage[e] + 1 /\ stage'[Other(e)] = stage[Other(e)]
          /\ stage[e] \in 1 .. 2
      <4>1. stage'[e] = stage[e] + 1 /\ stage'[Other(e)] = stage[Other(e)]
        BY <1>1, <1>6, <2>15, OtherEnd DEF CTypeOK
      <4>2. stage[e] \in 1 .. 4 /\ stage[e] # 4 /\ stage[e] # 3
        BY <2>15 DEF CTypeOK, InSession
      <4> QED BY <1>4, <1>6, <2>15, <4>1, <4>2
    <3>2. ~InSession(Other(e)) /\ ~InSession(Other(e))' /\ ~InSession(e)' /\ first = 0
      BY <3>1, <2>1, <2>15 DEF InSession, First
    <3>3. First(e)' = 0 /\ Due(e)' = 0
      BY <3>1, <3>2 DEF First, Due
    <3>4. \A q \in Seq(Octet) : Stream(q, first + 1) /\ (\A k \in DOMAIN q : InFlight(e, q[k])) => q = <<>>
      <4> SUFFICES ASSUME NEW q \in Seq(Octet), Stream(q, first + 1), \A k \in DOMAIN q : InFlight(e, q[k]),
                          q # <<>>
                   PROVE  FALSE
        OBVIOUS
      <4>1. 1 \in DOMAIN q
        OBVIOUS
      <4>2. q[1].raw
        BY <4>1, <3>2 DEF InFlight
      <4>3. Number(q[1]) = 0 /\ Number(q[1]) = 1
        BY <4>2, <3>2 DEF Number, Stream
      <4> QED BY <4>3
    <3>5. r = <<>>
      <4>1. \A k \in DOMAIN r : InFlight(e, r[k])
        BY <2>8, <2>9
      <4> QED BY <4>1, <2>9, <3>4
    <3>6. Live(e) => r2 = <<>>
      <4>1. Live(e) => \A k \in DOMAIN r2 : InFlight(e, r2[k])
        BY <2>11
      <4> QED BY <4>1, <2>11, <3>4
    <3>7. /\ DOMAIN <<>> = {} /\ Stream(<<>>, 0) /\ EndsWhole(<<>>) /\ NextNumber(<<>>, 0) = 0
          /\ Carried(<<>>, 0, sent[Other(e)], g + 1) /\ NextNumber(<<>>, 1) = 1
      BY NoBytes DEF NextNumber
    <3>8. FlowArriving(e)'
      <4>1. Whole(e)' => Len(sent'[Other(e)]) + 0 = Len(got'[e]) + 0
        <5> SUFFICES ASSUME Whole(e) PROVE Len(sent'[Other(e)]) + 0 = Len(got'[e]) + 0
          BY <1>2
        <5>1. Len(sent[Other(e)]) + 0 = g + 1
          BY <2>8, <2>9, <3>2, <3>5, <3>7
        <5> QED BY <5>1, <2>12, <2>13
      <4> QED BY <2>6, <2>12, <2>13, <3>3, <3>5, <3>7, <4>1 DEF FlowArriving
    <3>9. ASSUME Live(e)' PROVE FlowComing(e)'
      <4>1. Live(e)
        BY <3>9, <1>2
      <4>2. Remainder(out[Other(e)])'
        BY <2>11, <2>13, <4>1 DEF Remainder, Rest, SameFrame
      <4> QED BY <2>7, <3>3, <3>6, <3>7, <4>1, <4>2 DEF FlowComing
    <3> QED BY <3>8, <3>9 DEF Flow
  <2> QED BY <2>14, <2>15
<1> QED BY <1>5, <1>6, OtherEnd

\* What is cut off leaves frames without a gap, of which the last may be broken.
LEMMA BreakOffFlow ==
  ASSUME CTypeOK, NEW e \in Ends, Flow(e), BreakOff(e),
         UNCHANGED <<stage, buf, sealed, opened, sent, got>>
  PROVE  Flow(e)'
<1>1. PICK n \in 0 .. Len(wire[e]) : wire' = [wire EXCEPT ![e] = SubSeq(@, 1, n)]
  BY DEF BreakOff
<1>2. ~Live(e)' /\ ~Whole(e)'
  BY DEF BreakOff, Live, Whole, CTypeOK
<1>3. PICK A \in Seq(Octet), bu \in Seq(Octet), wi \in Seq(Octet), first \in Nat :
        A = Arriving(e) /\ bu = buf[e] /\ wi = wire[e] /\ first = First(e)
  BY Parts
<1>4. PICK m, r : m = Len(bu) + n /\ r = SubSeq(A, 1, m)
  OBVIOUS
<1>5. A = bu \o wi /\ n \in 0 .. Len(wi) /\ Len(wi) \in Nat /\ Len(bu) \in Nat
  BY <1>3 DEF Arriving
<1>6. Len(A) = Len(bu) + Len(wi)
  BY <1>5, Together
<1>7. m \in 0 .. Len(A) /\ m \in Nat /\ 1 \in 1 .. Len(A) + 1 /\ Len(A) \in Nat
  BY <1>4, <1>5, <1>6
<1>8. Arriving(e)' = r
  <2>1. buf'[e] = bu /\ wire'[e] = SubSeq(wi, 1, n)
    BY <1>1, <1>3 DEF CTypeOK
  <2>2. bu \o SubSeq(wi, 1, n) = SubSeq(bu \o wi, 1, Len(bu) + n)
    BY <1>5, KeepFront
  <2> QED BY <1>4, <1>5, <2>1, <2>2 DEF Arriving
<1>9. /\ Stream(A, first) /\ Carried(A, first, sent[Other(e)], Len(got[e]))
      /\ \A k \in DOMAIN A : InFlight(e, A[k])
  BY <1>3 DEF Flow, FlowArriving
<1>10. /\ r \in Seq(Octet) /\ Len(r) = m /\ DOMAIN r = 1 .. m
       /\ \A i \in DOMAIN r : i \in DOMAIN A /\ r[i] = A[i]
  <2>1. \A i \in 1 .. m : A[i] \in Octet /\ i \in DOMAIN A
    BY <1>7
  <2>2. r \in Seq(Octet) /\ Len(r) = m /\ \A i \in 1 .. m : r[i] = A[i]
    BY <1>4, <1>7, <2>1, SubSeqProperties
  <2> QED BY <2>1, <2>2
<1>11. Stream(r, first)
  <2>1. Framed(r)
    BY <1>4, <1>7, <1>9, FramedPart DEF Stream
  <2>2. r # <<>> => 1 \in DOMAIN r /\ A # <<>>
    BY <1>10
  <2> QED BY <1>9, <1>10, <2>1, <2>2 DEF Stream
<1>12. Carried(r, first, sent[Other(e)], Len(got[e]))
  BY <1>9, <1>10 DEF Carried
<1>13. First(e)' = first /\ \A b : InFlight(e, b) => InFlight(e, b)'
  BY <1>3 DEF First, InFlight, InSession
<1>14. \A k \in DOMAIN r : InFlight(e, r[k])'
  BY <1>9, <1>10, <1>13
<1> QED BY <1>2, <1>8, <1>11, <1>12, <1>13, <1>14 DEF Flow, FlowArriving

LEMMA CloseFlow ==
  ASSUME CTypeOK, NEW x \in Ends, Close(x), NEW e \in Ends, e # x, Flow(e)
  PROVE  Flow(e)'
<1>1. e = Other(x) /\ x = Other(e)
  BY OtherEnd
<1>2. UNCHANGED <<stage, buf, sealed, opened, silent, sent, got>>
  BY DEF Close
<1>3. CASE tail[e] # "open" \/ silent
  <2>1. UNCHANGED <<wire, tail>>
    BY <1>1, <1>3 DEF Close
  <2>2. (Whole(e)' => Whole(e)) /\ ~Live(e)'
    BY <1>2, <1>3, <2>1 DEF Whole, Live
  <2> QED BY <1>2, <2>1, <2>2, FlowKept
<1>4. CASE ~(tail[e] # "open" \/ silent) /\ wire[x] # <<>>
  <2>1. BreakOff(e)
    BY <1>1, <1>4 DEF Close
  <2> QED BY <1>2, <2>1, BreakOffFlow
<1>5. CASE ~(tail[e] # "open" \/ silent) /\ wire[x] = <<>>
  <2>1. wire' = wire /\ tail'[e] = "fin"
    BY <1>1, <1>5 DEF Close, CTypeOK
  <2>2. Whole(e) /\ ~Live(e)'
    BY <1>5, <2>1 DEF Whole, Live
  <2> QED BY <1>2, <2>1, <2>2, FlowKept
<1> QED BY <1>3, <1>4, <1>5

LEMMA FlowsStep == CTypeOK /\ Turns /\ Calls /\ Flows /\ CNext => Flows'
<1> SUFFICES ASSUME CTypeOK, Turns, Calls, Flows, CNext, NEW e \in Ends, e \notin closed'
             PROVE  Flow(e)'
  BY DEF Flows
<1>1. CTypeOK'
  BY TypeStep
<1>2. e \notin closed
  BY DEF CNext, EndStep, WriteFails, SendRaw, Send, Write, StartRecv, Read, ReadEnd, TakeFrame, Close, Cut, Vanish
<1>3. Flow(e)
  BY <1>2 DEF Flows
<1>4. ASSUME NEW x \in Ends, SendRaw(x) PROVE Flow(e)'
  BY <1>1, <1>3, <1>4, SendRawFlow
<1>5. ASSUME NEW x \in Ends, NEW m \in Messages, Send(x, m) PROVE Flow(e)'
  BY <1>3, <1>5, SendFlow
<1>6. ASSUME NEW x \in Ends, Write(x) PROVE Flow(e)'
  BY <1>1, <1>2, <1>3, <1>6, WriteFlow
<1>7. ASSUME NEW x \in Ends, Read(x) PROVE Flow(e)'
  BY <1>3, <1>7, ReadFlow
<1>8. ASSUME NEW x \in Ends, TakeFrame(x) PROVE Flow(e)'
  BY <1>3, <1>8, TakeFlow
<1>9. ASSUME NEW x \in Ends, Close(x) PROVE Flow(e)'
  <2>1. e # x
    BY <1>9 DEF Close
  <2> QED BY <1>3, <1>9, <2>1, CloseFlow
<1>10. ASSUME NEW x \in Ends, Cut(x) PROVE Flow(e)'
  <2>1. UNCHANGED <<stage, out, buf, sealed, opened, silent, sent, got>> /\ BreakOff(x)
    BY <1>10 DEF Cut
  <2>2. CASE x = e
    BY <1>3, <2>1, <2>2, BreakOffFlow
  <2>3. CASE x # e
    <3>1. wire'[e] = wire[e] /\ tail'[e] = tail[e]
      BY <2>1, <2>3 DEF BreakOff, CTypeOK
    <3>2. (Whole(e)' => Whole(e)) /\ (Live(e)' => Live(e))
      BY <2>1, <3>1 DEF Whole, Live
    <3> QED BY <1>3, <2>1, <3>1, <3>2, FlowKept
  <2> QED BY <2>2, <2>3
<1>11. ASSUME Vanish PROVE Flow(e)'
  <2>1. /\ UNCHANGED <<stage, out, wire, tail, buf, sealed, opened, sent, got>>
        /\ silent'
    BY <1>11 DEF Vanish
  <2>2. (Whole(e)' => Whole(e)) /\ ~Live(e)'
    BY <2>1 DEF Whole, Live
  <2> QED BY <1>3, <2>1, <2>2, FlowKept
<1>12. ASSUME NEW x \in Ends, StartRecv(x) \/ ReadEnd(x) PROVE Flow(e)'
  <2>1. UNCHANGED <<stage, out, wire, tail, buf, sealed, opened, silent, sent, got>>
    BY <1>12 DEF StartRecv, ReadEnd
  <2>2. (Whole(e)' => Whole(e)) /\ (Live(e)' => Live(e))
    BY <2>1 DEF Whole, Live
  <2> QED BY <1>3, <2>1, <2>2, FlowKept
<1> QED BY <1>4, <1>5, <1>6, <1>7, <1>8, <1>9, <1>10, <1>11, <1>12 DEF CNext, EndStep, WriteFails

---------------------------------------------------------------------------
(* Messages arrive in the order they were sent in *)

\* What recv returns is the first message the peer has sent that it has not returned.
LEMMA Delivered ==
  ASSUME CTypeOK, Calls, Flows, NEW e \in Ends, TakeFrame(e)
  PROVE  /\ Len(got[e]) \in Nat /\ Len(got[e]) + 1 \in DOMAIN sent[Other(e)]
         /\ got' = [got EXCEPT ![e] = Append(@, sent[Other(e)][Len(@) + 1])]
<1>1. Flow(e) /\ got' = [got EXCEPT ![e] = Append(@, Arriving(e)[1].msg)] /\ Len(buf[e]) >= Needed(e)
  BY Taken
<1>2. Arriving(e) \in Seq(Octet) /\ Arriving(e) # <<>> /\ First(e) \in Nat /\ Len(got[e]) \in Nat
  BY <1>1, WholeFrame, Parts
<1>3. 1 \in DOMAIN Arriving(e) /\ Number(Arriving(e)[1]) = First(e)
  BY <1>1, <1>2 DEF Flow, FlowArriving, Stream
<1>4. Len(got[e]) + 1 + Number(Arriving(e)[1]) - First(e) = Len(got[e]) + 1
  BY <1>2, <1>3
<1>5. /\ Len(got[e]) + 1 \in DOMAIN sent[Other(e)]
      /\ Arriving(e)[1].msg = sent[Other(e)][Len(got[e]) + 1]
  BY <1>1, <1>3, <1>4 DEF Flow, FlowArriving, Carried
<1> QED BY <1>1, <1>2, <1>5

LEMMA OrderStep == CTypeOK /\ Calls /\ Flows /\ InOrder /\ CNext => InOrder'
<1> SUFFICES ASSUME CTypeOK, Calls, Flows, InOrder, CNext, NEW e \in Ends
             PROVE  /\ Len(got'[e]) <= Len(sent'[Other(e)])
                    /\ \A k \in 1 .. Len(got'[e]) : got'[e][k] = sent'[Other(e)][k]
  BY DEF InOrder
<1>1. /\ got[e] \in Seq(AllMessages) /\ sent[Other(e)] \in Seq(AllMessages)
      /\ Len(got[e]) \in Nat /\ Len(sent[Other(e)]) \in Nat
      /\ Len(got[e]) <= Len(sent[Other(e)])
      /\ \A k \in 1 .. Len(got[e]) : got[e][k] = sent[Other(e)][k]
  <2>1. got[e] \in Seq(AllMessages) /\ sent[Other(e)] \in Seq(AllMessages)
    BY Parts DEF CTypeOK
  <2>2. Len(got[e]) \in Nat /\ Len(sent[Other(e)]) \in Nat
    BY <2>1
  <2> QED BY <2>1, <2>2 DEF InOrder
<1>2. ASSUME NEW x \in Ends, Write(x)
      PROVE  /\ Len(got'[e]) <= Len(sent'[Other(e)])
             /\ \A k \in 1 .. Len(got'[e]) : got'[e][k] = sent'[Other(e)][k]
  <2>1. got' = got /\ (sent' = sent \/ sent' = [sent EXCEPT ![x] = Append(@, Head(out[x]).msg)])
    BY <1>2 DEF Write
  <2>2. Head(out[x]).msg \in AllMessages
    <3>1. out[x] \in Seq(Octet) /\ out[x] # <<>>
      BY <1>2 DEF Write, CTypeOK
    <3>2. Head(out[x]) \in Octet
      BY <3>1
    <3> QED BY <3>2, ByteFacts
  <2>3. sent'[Other(e)] = sent[Other(e)] \/ sent'[Other(e)] = Append(sent[Other(e)], Head(out[x]).msg)
    <3>1. Other(e) \in Ends /\ sent \in [Ends -> Seq(AllMessages)]
      BY OtherEnd DEF CTypeOK
    <3>2. CASE sent' = sent
      BY <3>2
    <3>3. CASE sent' = [sent EXCEPT ![x] = Append(@, Head(out[x]).msg)]
      BY <3>1, <3>3
    <3> QED BY <2>1, <3>2, <3>3
  <2>4. CASE sent'[Other(e)] = sent[Other(e)]
    BY <1>1, <2>1, <2>4
  <2>5. CASE sent'[Other(e)] = Append(sent[Other(e)], Head(out[x]).msg)
    <3>1. /\ Len(sent'[Other(e)]) = Len(sent[Other(e)]) + 1
          /\ \A k \in 1 .. Len(sent[Other(e)]) : sent'[Other(e)][k] = sent[Other(e)][k]
      BY <1>1, <2>2, <2>5, AppendProperties
    <3> QED BY <1>1, <2>1, <3>1
  <2> QED BY <2>3, <2>4, <2>5
<1>3. ASSUME NEW x \in Ends, TakeFrame(x)
      PROVE  /\ Len(got'[e]) <= Len(sent'[Other(e)])
             /\ \A k \in 1 .. Len(got'[e]) : got'[e][k] = sent'[Other(e)][k]
  <2>1. sent' = sent
    BY <1>3, Taken
  <2>2. CASE x = e
    <3>1. /\ Len(got[e]) + 1 \in DOMAIN sent[Other(e)]
          /\ got'[e] = Append(got[e], sent[Other(e)][Len(got[e]) + 1])
      BY <1>3, <2>2, Delivered DEF CTypeOK
    <3>2. sent[Other(e)][Len(got[e]) + 1] \in AllMessages /\ Len(got[e]) + 1 <= Len(sent[Other(e)])
      BY <1>1, <3>1
    <3>3. /\ Len(got'[e]) = Len(got[e]) + 1
          /\ got'[e][Len(got[e]) + 1] = sent[Other(e)][Len(got[e]) + 1]
          /\ \A k \in 1 .. Len(got[e]) : got'[e][k] = got[e][k]
      BY <1>1, <3>1, <3>2, AppendProperties
    <3> QED BY <1>1, <2>1, <3>2, <3>3
  <2>3. CASE x # e
    <3>1. got'[e] = got[e]
      BY <1>3, <2>3, Taken DEF CTypeOK
    <3> QED BY <1>1, <2>1, <3>1
  <2> QED BY <2>2, <2>3
<1>4. CASE UNCHANGED <<sent, got>>
  BY <1>1, <1>4
<1> QED BY <1>2, <1>3, <1>4 DEF CNext, EndStep, WriteFails, SendRaw, Send, StartRecv, Read, ReadEnd, Close, Cut, Vanish

LEMMA ChannelStep == ChannelInv /\ [CNext]_cvars => ChannelInv'
<1> SUFFICES ASSUME ChannelInv, [CNext]_cvars PROVE ChannelInv'
  OBVIOUS
<1>1. CASE CNext
  BY <1>1, TypeStep, TurnsStep, CallsStep, FlowsStep, OrderStep DEF ChannelInv
<1>2. CASE UNCHANGED cvars
  <2>1. CTypeOK' /\ Turns' /\ Calls' /\ InOrder'
    <3>1. CTypeOK' /\ Turns' /\ InOrder'
      BY <1>2 DEF ChannelInv, cvars, CTypeOK, Turns, InOrder, InSession
    <3>2. Calls'
      BY <1>2 DEF ChannelInv, cvars, Calls, InSession, Needed, TooLong, Handshake
    <3> QED BY <3>1, <3>2
  <2>2. Flows'
    <3> SUFFICES ASSUME NEW e \in Ends, Flow(e) PROVE Flow(e)'
      BY <1>2 DEF ChannelInv, cvars, Flows
    <3>1. UNCHANGED <<stage, out, wire, tail, buf, sealed, opened, silent, sent, got>>
      BY <1>2 DEF cvars
    <3>2. (Whole(e)' => Whole(e)) /\ (Live(e)' => Live(e))
      BY <3>1 DEF Whole, Live
    <3> QED BY <3>1, <3>2, FlowKept
  <2> QED BY <2>1, <2>2 DEF ChannelInv
<1> QED BY <1>1, <1>2

THEOREM ChannelCorrect == CSpec => []ChannelInv
  BY ChannelInit, ChannelStep, PTL DEF CSpec

\* Whatever the sizes of the messages and of the pieces TCP hands over, every frame
\* recv has gathered is one whole frame and opens: in the handshake it is the
\* message whose turn it is, in the session it has the nonce that is expected.
THEOREM FramesAlwaysOpen == CSpec => []FramesOpen
<1>1. ChannelInv => FramesOpen
  <2> SUFFICES ASSUME ChannelInv, NEW e \in reading, Len(buf[e]) >= Needed(e)
               PROVE  ~TooLong(e) /\ Opens(e, SubSeq(buf[e], Header + 1, Needed(e)))
    BY DEF FramesOpen
  <2>1. e \in Ends /\ Flow(e) /\ CTypeOK
    BY DEF ChannelInv, CTypeOK, Calls, Flows
  <2> QED BY <2>1, WholeFrame, NeverTooLong
<1> QED BY <1>1, ChannelCorrect, PTL

---------------------------------------------------------------------------
(* A connection is the channel the transfer protocol takes it for *)

\* The end of the stream is clean only when every message begun has been taken.
LEMMA CleanEnd ==
  ASSUME ChannelInv, NEW e \in Ends, e \in reading, buf[e] = <<>>, wire[e] = <<>>, tail[e] = "fin"
  PROVE  Other(e) \in closed /\ got[e] = sent[Other(e)]
<1>1. CTypeOK /\ Flow(e) /\ Other(e) \in closed
  BY DEF ChannelInv, Calls, Flows
<1>2. Arriving(e) = <<>> /\ Whole(e)
  BY DEF Arriving, Whole
<1>3. /\ First(e) \in Nat /\ Len(got[e]) \in Nat /\ got[e] \in Seq(AllMessages)
      /\ sent[Other(e)] \in Seq(AllMessages)
  BY <1>1, Parts DEF CTypeOK
<1>4. Len(sent[Other(e)]) + First(e) = Len(got[e]) + First(e)
  BY <1>1, <1>2 DEF Flow, FlowArriving, NextNumber
<1>5. Len(sent[Other(e)]) \in Nat
  BY <1>3
<1>6. Len(sent[Other(e)]) = Len(got[e])
  BY <1>3, <1>4, <1>5
<1>7. \A k \in 1 .. Len(got[e]) : got[e][k] = sent[Other(e)][k]
  BY DEF ChannelInv, InOrder
<1>8. got[e] = sent[Other(e)]
  BY <1>3, <1>6, <1>7, SeqEqual
<1> QED BY <1>1, <1>8

LEMMA ChannelStepImplements ==
  ChannelInv /\ [CNext]_cvars => [Carrier!CNext]_<<sent, got, ended, closed>>
<1> SUFFICES ASSUME ChannelInv, [CNext]_cvars
             PROVE  Carrier!CNext \/ UNCHANGED <<sent, got, ended, closed>>
  OBVIOUS
<1>0. CTypeOK /\ Calls /\ Flows
  BY DEF ChannelInv
<1>1. ASSUME NEW e \in Ends, Write(e)
      PROVE  Carrier!CNext \/ UNCHANGED <<sent, got, ended, closed>>
  <2>1. out[e] # <<>> /\ out[e] \in Seq(Octet) /\ UNCHANGED <<got, ended, closed>> /\ e \notin closed
    BY <1>0, <1>1 DEF Write, CTypeOK, Calls
  <2>2. Head(out[e]).msg \in AllMessages
    <3>1. Head(out[e]) \in Octet
      BY <2>1
    <3> QED BY <3>1, ByteFacts
  <2>3. sent' = sent \/ sent' = [sent EXCEPT ![e] = Append(@, Head(out[e]).msg)]
    BY <1>1 DEF Write
  <2> QED BY <2>1, <2>2, <2>3 DEF Carrier!CNext, Carrier!HandOver
<1>2. ASSUME NEW e \in Ends, TakeFrame(e) PROVE Carrier!CNext
  <2>1. ended[e] = "open" /\ UNCHANGED <<sent, ended, closed>>
    BY <1>0, <1>2, Taken
  <2>2. /\ Len(got[e]) \in Nat /\ Len(got[e]) + 1 \in DOMAIN sent[Other(e)]
        /\ got' = [got EXCEPT ![e] = Append(@, sent[Other(e)][Len(@) + 1])]
    BY <1>0, <1>2, Delivered
  <2>3. Len(got[e]) < Len(sent[Other(e)])
    <3>1. sent[Other(e)] \in Seq(AllMessages)
      BY <1>0, Parts
    <3> QED BY <2>2, <3>1
  <2> QED BY <2>1, <2>2, <2>3 DEF Carrier!CNext, Carrier!Deliver
<1>3. ASSUME NEW e \in Ends, ReadEnd(e) PROVE Carrier!CNext
  <2>1. ended[e] = "open" /\ e \in reading /\ wire[e] = <<>> /\ UNCHANGED <<sent, got, closed>>
    BY <1>0, <1>3 DEF ReadEnd, Calls
  <2>2. CASE tail[e] = "fin" /\ InSession(e) /\ buf[e] = <<>>
    <3>1. ended' = [ended EXCEPT ![e] = "clean"]
      BY <1>3, <2>2 DEF ReadEnd
    <3>2. Other(e) \in closed /\ got[e] = sent[Other(e)]
      BY <2>1, <2>2, CleanEnd
    <3> QED BY <2>1, <3>1, <3>2 DEF Carrier!CNext, Carrier!EndClean
  <2>3. CASE ~(tail[e] = "fin" /\ InSession(e) /\ buf[e] = <<>>)
    <3>1. ended' = [ended EXCEPT ![e] = "broken"]
      BY <1>3, <2>3 DEF ReadEnd
    <3> QED BY <2>1, <3>1 DEF Carrier!CNext, Carrier!EndBroken
  <2> QED BY <2>2, <2>3
<1>4. ASSUME NEW e \in Ends, Close(e) PROVE Carrier!CNext
  BY <1>4 DEF Close, Carrier!CNext, Carrier!CloseEnd
<1>5. CASE UNCHANGED <<sent, got, ended, closed>>
  BY <1>5
<1> QED
  BY <1>1, <1>2, <1>3, <1>4, <1>5
     DEF CNext, cvars, EndStep, WriteFails, SendRaw, Send, StartRecv, Read, Cut, Vanish

\* Frames in pieces and frames run together, the change from the handshake to the
\* session, a close or a cut at any byte: the connection is the channel of Channel,
\* which neither loses nor repeats nor reorders a message, and recv returns None
\* only behind the last one.
THEOREM ConnectionImplementsChannel == CSpec => ImplementsChannel
<1>1. CInit => Carrier!CInit
  BY DEF CInit, Carrier!CInit
<1> QED BY <1>1, ChannelCorrect, ChannelStepImplements, PTL DEF CSpec, ImplementsChannel, Carrier!CSpec

---------------------------------------------------------------------------
(* The states of a negotiation *)

\* The manifest and the chunks the receiver holds: sizes are numbers, and only
\* chunks that a file has are recorded.
Negotiable ==
  /\ files \in Seq(Nat)
  /\ \A i \in DOMAIN files : files[i] \in Sizes
  /\ chunk_size \in Nat \ {0}
  /\ held \in [DOMAIN files -> SUBSET Nat]
  /\ \A i \in DOMAIN files : held[i] \subseteq 0 .. counts[i] - 1

\* The chunk counts of a manifest: one number per file, never zero.
LEMMA CountsType ==
  ASSUME files \in Seq(Nat), chunk_size \in Nat \ {0}
  PROVE  /\ counts \in Seq(Nat) /\ Len(counts) = Len(files)
         /\ DOMAIN files = 1 .. Len(files)
         /\ \A i \in 1 .. Len(files) : /\ counts[i] = chunk_count(files[i], chunk_size)
                                       /\ counts[i] \in Nat \ {0} /\ files[i] \in Nat
<1>1. DOMAIN files = 1 .. Len(files) /\ Len(files) \in Nat
      /\ \A i \in 1 .. Len(files) : files[i] \in Nat
  OBVIOUS
<1>2. \A i \in 1 .. Len(files) : chunk_count(files[i], chunk_size) \in Nat \ {0}
  BY <1>1, ChunkCountPositive
<1>3. counts = [i \in 1 .. Len(files) |-> chunk_count(files[i], chunk_size)]
  BY <1>1 DEF counts
<1> QED BY <1>1, <1>2, <1>3

\* Recording keeps to the chunks a file has.
LEMMA NegotiableAlways == NegotiationSpec => []Negotiable
<1>1. Start => Negotiable
  <2> SUFFICES ASSUME Start PROVE Negotiable
    OBVIOUS
  <2>1. PICK n \in 0 .. MaxFiles : files \in [1 .. n -> Sizes]
    BY DEF Start
  <2>2. n \in Nat /\ Sizes \subseteq Nat /\ ChunkSizes \subseteq Nat \ {0}
    BY NegotiationAssumption DEF NegotiationAssumption
  <2>3. files \in [1 .. n -> Nat]
    BY <2>1, <2>2
  <2>4. files \in Seq(Nat)
    BY <2>2, <2>3
  <2>5. \A i \in DOMAIN files : files[i] \in Sizes
    BY <2>1
  <2> QED BY <2>2, <2>4, <2>5 DEF Start, Negotiable
<1>2. Negotiable /\ [Step]_nvars => Negotiable'
  <2> SUFFICES ASSUME Negotiable, [Step]_nvars PROVE Negotiable'
    OBVIOUS
  <2>1. CASE UNCHANGED nvars
    BY <2>1 DEF Negotiable, nvars, counts
  <2>2. ASSUME NEW i \in DOMAIN files, NEW o \in 0 .. counts[i] - 1, Record(i, o)
        PROVE  Negotiable'
    <3>1. counts' = counts /\ files' = files /\ chunk_size' = chunk_size
      BY <2>2 DEF Record, counts
    <3>2. held' = [held EXCEPT ![i] = @ \cup {o}]
      BY <2>2 DEF Record
    <3>3. \A j \in DOMAIN files : held'[j] \subseteq 0 .. counts[j] - 1
      BY <2>2, <3>2 DEF Negotiable
    <3>4. held' \in [DOMAIN files -> SUBSET Nat]
      BY <2>2, <3>2 DEF Negotiable
    <3> QED BY <3>1, <3>3, <3>4 DEF Negotiable
  <2> QED BY <2>1, <2>2 DEF Step
<1> QED BY <1>1, <1>2, PTL DEF NegotiationSpec

---------------------------------------------------------------------------
(* What the sender passes over *)

\* The sender passes over a chunk exactly when the receiver holds it, for any
\* number of files of any size: the numbering, the bitmap and its decoding
\* together lose no chunk and invent none.
THEOREM SkipsExactly == NegotiationSpec => []SkipsExactlyHeld
<1>1. Negotiable => SkipsExactlyHeld
  <2> SUFFICES ASSUME Negotiable PROVE SkipsExactlyHeld
    OBVIOUS
  <2> DEFINE total == total_chunks(counts)
             Sent == UNION {{global_chunk_offset(counts, i, o) : o \in held[i]} : i \in DOMAIN files}
  <2>1. /\ counts \in Seq(Nat) /\ DOMAIN files = 1 .. Len(counts)
        /\ \A i \in DOMAIN files : counts[i] \in Nat /\ held[i] \subseteq 0 .. counts[i] - 1
    BY CountsType DEF Negotiable
  <2>2. total \in Nat
    BY <2>1, ChunkIdsFinite DEF total_chunks
  <2>3. \A i \in DOMAIN files : \A o \in 0 .. counts[i] - 1 :
          o \in Nat /\ o < counts[i]
    BY <2>1
  <2>4. \A i \in DOMAIN files : \A o \in held[i] :
          global_chunk_offset(counts, i, o) \in 0 .. total - 1
    BY <2>1, <2>3, GlobalOffsetsDistinct
  <2>5. Sent \in SUBSET (0 .. total - 1)
    BY <2>4
  <2>6. skip_chunks = Sent
    BY <2>2, <2>5, BitmapRoundTrip DEF skip_chunks, Answer
  <2>7. ASSUME NEW i \in DOMAIN files, NEW o \in 0 .. counts[i] - 1
        PROVE  global_chunk_offset(counts, i, o) \in Sent <=> o \in held[i]
    <3>1. ASSUME NEW j \in DOMAIN files, NEW p \in held[j],
                 global_chunk_offset(counts, i, o) = global_chunk_offset(counts, j, p)
          PROVE  i = j /\ o = p
      <4>1. /\ o \in Nat /\ o < counts[i] /\ p \in Nat /\ p < counts[j]
            /\ i \in 1 .. Len(counts) /\ j \in 1 .. Len(counts)
        BY <2>1, <2>3
      <4>2. counts \in Seq(Nat)
        BY <2>1
      <4> HIDE DEF Sent
      <4> QED BY <3>1, <4>1, <4>2, GlobalOffsetsDistinct
    <3>2. ASSUME global_chunk_offset(counts, i, o) \in Sent PROVE o \in held[i]
      <4>1. PICK j \in DOMAIN files :
              \E p \in held[j] : global_chunk_offset(counts, i, o) = global_chunk_offset(counts, j, p)
        BY <3>2
      <4> QED BY <3>1, <4>1
    <3> QED BY <3>2
  <2> HIDE DEF Sent
  <2> QED BY <2>6, <2>7 DEF SkipsExactlyHeld
<1> QED BY <1>1, NegotiableAlways, PTL

---------------------------------------------------------------------------
(* Which bytes a chunk stands for *)

\* A chunk that the file has stands for as many bytes as read_chunk returns, if
\* usize can hold the file's length.
LEMMA ChunkLength ==
  ASSUME NEW size \in Nat, size < UsizeValues, NEW cs \in Nat \ {0}, NEW o \in Nat
  PROVE  read_size(size, o, cs) = Cardinality(ChunkBytes(size, o, cs))
<1> DEFINE lo == o * cs
           hi == IF (o + 1) * cs <= size THEN (o + 1) * cs ELSE size
<1>1. lo \in Nat /\ (o + 1) * cs \in Nat /\ (o + 1) * cs = lo + cs
  BY SMTT(20)
<1>2. ChunkBytes(size, o, cs) = {b \in 0 .. size - 1 : lo <= b /\ b < (o + 1) * cs}
  BY DEF ChunkBytes
<1>3. hi \in Nat
  BY <1>1
<1>4. read_size(size, o, cs) = IF lo >= size THEN 0 ELSE hi - lo
  <2> DEFINE up == (o + 1) * cs
  <2>1. up = lo + cs /\ lo \in Nat /\ cs \in Nat /\ up \in Nat
    BY <1>1
  <2>2. read_size(size, o, cs) = IF lo >= size THEN 0 ELSE Smaller(size - lo, cs)
    <3> DEFINE r == IF lo >= size THEN 0 ELSE size - lo
    <3>1. r \in Nat /\ r < UsizeValues /\ UsizeValues \in Nat \ {0}
      <4> HIDE DEF lo
      <4> QED BY <1>1, ChunkingAssumption DEF ChunkingAssumption
    <3>2. r % UsizeValues = r
      <4> HIDE DEF r
      <4> QED BY <3>1
    <3>3. read_size(size, o, cs) = Smaller(r % UsizeValues, cs)
      BY DEF read_size, remaining
    <3>4. Smaller(0, cs) = 0
      BY DEF Smaller
    <3> QED BY <3>2, <3>3, <3>4
  <2>3. hi = IF up <= size THEN up ELSE size
    OBVIOUS
  <2> HIDE DEF lo, up, hi
  <2> QED BY <2>1, <2>2, <2>3 DEF Smaller
<1>5. ChunkBytes(size, o, cs) = lo .. hi - 1
  <2> DEFINE up == (o + 1) * cs
  <2>1. up \in Nat /\ hi = IF up <= size THEN up ELSE size
    BY <1>1
  <2>2. ChunkBytes(size, o, cs) = {b \in 0 .. size - 1 : lo <= b /\ b < up}
    BY <1>2
  <2> HIDE DEF lo, up, hi
  <2> QED BY <1>1, <1>3, <2>1, <2>2
<1>6. Cardinality(lo .. hi - 1) = IF lo > hi - 1 THEN 0 ELSE (hi - 1) - lo + 1
  <2>1. lo \in Int /\ hi - 1 \in Int
    BY <1>1, <1>3
  <2> HIDE DEF lo, hi
  <2> QED BY <2>1, FS_Interval, Zenon
<1>7. lo >= size => lo > hi - 1
  <2>1. hi <= size
    BY <1>1
  <2> HIDE DEF lo, hi
  <2> QED BY <1>1, <1>3, <2>1
<1>8. lo < size => lo <= hi - 1
  <2> DEFINE up == (o + 1) * cs
  <2>1. up = lo + cs /\ lo \in Nat /\ up \in Nat /\ hi = IF up <= size THEN up ELSE size
    BY <1>1
  <2> HIDE DEF lo, up, hi
  <2> QED BY <2>1
<1> HIDE DEF lo, hi
<1> QED BY <1>1, <1>3, <1>4, <1>5, <1>6, <1>7, <1>8

\* A byte is in one chunk only, the one its position divided by the chunk size names.
LEMMA OneChunk ==
  ASSUME NEW size \in Nat, NEW cs \in Nat \ {0}, NEW b \in 0 .. size - 1
  PROVE  {o \in 0 .. chunk_count(size, cs) - 1 : b \in ChunkBytes(size, o, cs)} = {b \div cs}
<1> DEFINE q == b \div cs
           n == chunk_count(size, cs)
<1>1. q \in Nat /\ q * cs <= b /\ b < (q + 1) * cs
  BY DivBounds
<1>2. n \in Nat /\ q < n
  BY DivLess, ChunkCountPositive DEF chunk_count, div_ceil
<1>3. b \in ChunkBytes(size, q, cs)
  BY <1>1 DEF ChunkBytes
<1>4. ASSUME NEW o \in 0 .. n - 1, b \in ChunkBytes(size, o, cs) PROVE o = q
  <2>1. o \in Nat /\ o * cs <= b /\ b < (o + 1) * cs
    BY <1>2, <1>4 DEF ChunkBytes
  <2> HIDE DEF q, n
  <2>2. ASSUME o < q PROVE FALSE
    <3>1. o + 1 <= q
      BY <1>1, <2>1, <2>2
    <3>2. (o + 1) * cs <= q * cs
      BY <1>1, <2>1, <3>1
    <3> QED BY <1>1, <2>1, <3>2
  <2>3. ASSUME q < o PROVE FALSE
    <3>1. q + 1 <= o
      BY <1>1, <2>1, <2>3
    <3>2. (q + 1) * cs <= o * cs
      BY <1>1, <2>1, <3>1
    <3> QED BY <1>1, <2>1, <3>2
  <2> QED BY <1>1, <2>1, <2>2, <2>3
<1> QED BY <1>1, <1>2, <1>3, <1>4

\* The chunks that the sender reads tile every file of every manifest, as long as
\* usize can hold the files' lengths: none overlap, none leave a byte out, and
\* read_chunk returns as many bytes as the chunk has.
THEOREM ChunksTileFiles ==
  ASSUME \A size \in Sizes : size < UsizeValues
  PROVE  NegotiationSpec => []ChunksTile
<1>1. Negotiable => ChunksTile
  <2> SUFFICES ASSUME Negotiable, NEW i \in DOMAIN files
               PROVE  /\ \A o \in 0 .. counts[i] - 1 :
                           read_size(files[i], o, chunk_size)
                             = Cardinality(ChunkBytes(files[i], o, chunk_size))
                      /\ \A b \in 0 .. files[i] - 1 :
                           Cardinality({o \in 0 .. counts[i] - 1 :
                                          b \in ChunkBytes(files[i], o, chunk_size)}) = 1
    BY DEF ChunksTile
  <2>1. /\ files[i] \in Nat /\ files[i] < UsizeValues /\ chunk_size \in Nat \ {0}
        /\ counts[i] = chunk_count(files[i], chunk_size) /\ counts[i] \in Nat
    BY CountsType DEF Negotiable
  <2>2. \A o \in 0 .. counts[i] - 1 : o \in Nat
    BY <2>1
  <2>3. ASSUME NEW b \in 0 .. files[i] - 1
        PROVE  Cardinality({o \in 0 .. counts[i] - 1 :
                              b \in ChunkBytes(files[i], o, chunk_size)}) = 1
    <3>1. {o \in 0 .. counts[i] - 1 : b \in ChunkBytes(files[i], o, chunk_size)} = {b \div chunk_size}
      BY <2>1, OneChunk
    <3> QED BY <3>1, FS_Singleton, Zenon
  <2> QED BY <2>1, <2>2, <2>3, ChunkLength
<1> QED BY <1>1, NegotiableAlways, PTL

---------------------------------------------------------------------------
(* The loop that adds the chunk counts up *)

\* Induction up to k, over a set of numbers: the least number outside the set would
\* follow one inside.
LEMMA IntervalInduction ==
  ASSUME NEW k \in Nat, NEW T, 0 \in T, \A j \in 0 .. k - 1 : j \in T => j + 1 \in T
  PROVE  0 .. k \subseteq T
<1> DEFINE R == OpToRel(<, Nat)
           B == {j \in 0 .. k : j \notin T}
<1>1. SUFFICES ASSUME B # {} PROVE FALSE
  OBVIOUS
<1>2. IsWellFoundedOn(R, Nat)
  BY NatLessThanWellFounded, Zenon
<1>3. B \subseteq Nat
  OBVIOUS
<1>4. PICK x \in B : \A y \in B : ~(<<y, x>> \in R)
  <2> HIDE DEF R, B
  <2> QED BY <1>1, <1>2, <1>3, WFMin, Zenon
<1>5. \A y \in B : ~(y < x)
  BY <1>3, <1>4 DEF OpToRel
<1>6. x # 0 /\ x - 1 \in 0 .. k - 1 /\ (x - 1) + 1 = x
  OBVIOUS
<1>7. x - 1 \notin B
  BY <1>5, <1>6
<1> QED BY <1>6, <1>7

\* The loop is well defined and ends at the number of chunks of the files it went
\* through.
LEMMA LoopSumCounts ==
  ASSUME counts \in Seq(Nat), NEW k \in 0 .. Len(counts)
  PROVE  LoopSum(k) = ChunksBefore(counts, k)
<1> DEFINE Def(f) == [j \in 0 .. k |-> IF j = 0 THEN 0 ELSE f[j - 1] + counts[j]]
           sum == CHOOSE f : f = Def(f)
           g == [j \in 0 .. k |-> ChunksBefore(counts, j)]
<1>1. LoopSum(k) = sum[k]
  BY DEF LoopSum
<1>2. ChunksBefore(counts, 0) = 0
  <2>1. ChunkIds(counts, 0) = {}
    BY DEF ChunkIds, Smaller
  <2> QED BY <2>1, FS_EmptySet DEF ChunksBefore
<1>3. \A j \in 0 .. k : j # 0 => ChunksBefore(counts, j) = ChunksBefore(counts, j - 1) + counts[j]
  BY ChunksBeforeStep
<1>4. g = Def(g)
  BY <1>2, <1>3
<1>5. sum = Def(sum)
  <2> HIDE DEF g
  <2> QED BY <1>4
<1> HIDE DEF sum
<1> DEFINE T == {j \in 0 .. k : sum[j] = ChunksBefore(counts, j)}
<1>6. 0 \in T
  BY <1>2, <1>5
<1>7. \A j \in 0 .. k - 1 : j \in T => j + 1 \in T
  <2> TAKE j \in 0 .. k - 1
  <2>1. j + 1 \in 0 .. k /\ j + 1 # 0 /\ (j + 1) - 1 = j
    OBVIOUS
  <2>2. sum[j + 1] = sum[j] + counts[j + 1]
    BY <1>5, <2>1
  <2> QED BY <1>3, <2>1, <2>2
<1>8. 0 .. k \subseteq T
  <2>1. k \in Nat
    OBVIOUS
  <2> HIDE DEF T
  <2> QED BY <1>6, <1>7, <2>1, IntervalInduction, Zenon
<1> QED BY <1>1, <1>8

\* The sums that global_chunk_offset and total_chunks compute with a loop are the
\* numbers of chunks that come before, for a manifest of any length.
THEOREM LoopCountsChunks == NegotiationSpec => []LoopCounts
<1>1. Negotiable => LoopCounts
  <2> SUFFICES ASSUME Negotiable PROVE LoopCounts
    OBVIOUS
  <2>1. counts \in Seq(Nat) /\ Len(counts) = Len(files) /\ DOMAIN files = 1 .. Len(counts)
    BY CountsType DEF Negotiable
  <2>2. \A k \in 0 .. Len(counts) : LoopSum(k) = ChunksBefore(counts, k) /\ ChunksBefore(counts, k) \in Nat
    BY <2>1, LoopSumCounts, ChunkIdsFinite
  <2>3. total_chunks(counts) = LoopSum(Len(files))
    BY <2>1, <2>2 DEF total_chunks
  <2>4. ASSUME NEW i \in DOMAIN files PROVE global_chunk_offset(counts, i, 0) = LoopSum(i - 1)
    <3>1. i - 1 \in 0 .. Len(counts)
      BY <2>1
    <3> QED BY <2>2, <3>1 DEF global_chunk_offset
  <2> QED BY <2>3, <2>4 DEF LoopCounts
<1> QED BY <1>1, NegotiableAlways, PTL
===============================================================================
