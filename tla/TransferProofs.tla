-------------------------- MODULE TransferProofs --------------------------
(***************************************************************************)
(* Theorems about Transfer, for every value of its constants:              *)
(*   TypeCorrect, CompletedAgrees    types, and the two ends' verdicts     *)
(*   ProtocolAlwaysAgrees            the two halves stay in step           *)
(*   DeliveredFilesIntact            delivered files have their bytes      *)
(*   AckedAlwaysWritten              the sender is never ahead             *)
(*   NeverIncomplete                 no verification loop falls short      *)
(*   ResumeAlwaysBacked              resume states record what is there    *)
(*   ProtocolFollowsMachine          the documented state machine          *)
(***************************************************************************)
EXTENDS TransferProgress, ChunkingProofs

---------------------------------------------------------------------------
(* Types of the operators *)

\* File numbers are those of the manifest, counted from 1.
LEMMA FileIndexNat ==
  /\ FileIndex \subseteq Nat \ {0}
  /\ \A t \in Transfers : Idx(t) \subseteq FileIndex /\ Idx(t) = 1 .. Len(FilesOf[t])
  /\ \A t \in Transfers : \A i \in Idx(t) : FilesOf[t][i] \in Sources /\ Path(t, i) \in Paths
<1>1. \A t \in Transfers : FilesOf[t] \in Seq(Sources)
  BY ConstantsAssumption DEF ConstantsAssumption
<1>2. \A t \in Transfers : Idx(t) = 1 .. Len(FilesOf[t]) /\ Len(FilesOf[t]) \in Nat
  BY <1>1 DEF Idx
<1>3. FileIndex = UNION {Idx(t) : t \in Transfers}
  BY DEF FileIndex, Idx
<1>4. \A t \in Transfers : \A i \in Idx(t) : FilesOf[t][i] \in Sources
  BY <1>1, <1>2
<1>5. TempPath \in [Sources -> Paths]
  BY ConstantsAssumption DEF ConstantsAssumption
<1>6. \A t \in Transfers : Idx(t) \subseteq Nat \ {0}
  BY <1>2
<1> QED BY <1>2, <1>3, <1>4, <1>5, <1>6 DEF Path

\* Every message the two ends build is a message of the protocol.
LEMMA MessageTypes ==
  /\ \A k \in {"Hs1", "Hs2", "Hs3", "Request", "Accept", "Reject", "Complete", "FIN", "RST"} :
       Msg(k) \in Message
  /\ \A b \in Seq(Byte) : ResumeAtMsg(b) \in Message
  /\ \A i \in FileIndex, o \in Nat, sp \in Span : ChunkMsg(i, o, sp) \in Message
  /\ \A i \in FileIndex, o \in Nat : AckMsg(i, o) \in Message
  /\ \A ok \in BOOLEAN : VerifiedMsg(ok) \in Message
  /\ \A u : Closing(u) \in Message
BY DEF Message, Msg, ResumeAtMsg, ChunkMsg, AckMsg, VerifiedMsg, Closing

\* A message of each kind with a payload has the payload's type.
LEMMA Payloads ==
  ASSUME NEW m \in Message
  PROVE  /\ m.type = "Chunk" => m.file \in FileIndex /\ m.off \in Nat /\ m.span \in Span
         /\ m.type = "Verified" => m.ok \in BOOLEAN
BY DEF Message

\* A function on 1 .. n is a sequence.
LEMMA FunctionIsSeq ==
  ASSUME NEW n \in Nat, NEW S, NEW f \in [1 .. n -> S]
  PROVE  f \in Seq(S)
OBVIOUS

\* set_len and write_at give sequences of cells.
LEMMA ContentTypes ==
  ASSUME NEW bytes \in Seq(Cell)
  PROVE  /\ \A n \in Nat : set_len(bytes, n) \in Seq(Cell)
         /\ \A at \in Nat, sp \in Span : write_at(bytes, at, sp) \in Seq(Cell)
<1>1. Blank \in Cell /\ Len(bytes) \in Nat /\ \A k \in 1 .. Len(bytes) : bytes[k] \in Cell
  BY DEF Cell
<1>2. ASSUME NEW n \in Nat PROVE set_len(bytes, n) \in Seq(Cell)
  <2>1. \A k \in 1 .. n : (IF k <= Len(bytes) THEN bytes[k] ELSE Blank) \in Cell
    BY <1>1
  <2> QED BY <2>1 DEF set_len
<1>3. ASSUME NEW at \in Nat, NEW sp \in Span PROVE write_at(bytes, at, sp) \in Seq(Cell)
  <2>1. sp.src \in Sources /\ sp.lo \in Nat /\ sp.len \in Nat /\ sp.ver \in Nat
    BY DEF Span
  <2> DEFINE n == IF Len(bytes) < at + sp.len THEN at + sp.len ELSE Len(bytes)
             Cl(k) == IF at < k /\ k <= at + sp.len
                        THEN [src |-> sp.src, pos |-> sp.lo + (k - 1 - at), ver |-> sp.ver]
                      ELSE IF k <= Len(bytes) THEN bytes[k] ELSE Blank
  <2>2. n \in Nat
    BY <1>1, <2>1
  <2>3. ASSUME NEW k \in 1 .. n PROVE Cl(k) \in Cell
    <3>1. CASE at < k /\ k <= at + sp.len
      <4>1. sp.lo + (k - 1 - at) \in Nat
        BY <2>1, <2>2, <3>1
      <4> QED BY <2>1, <3>1, <4>1 DEF Cell, SourceByte
    <3>2. CASE ~(at < k /\ k <= at + sp.len)
      BY <1>1, <2>2, <3>2
    <3> QED BY <3>1, <3>2
  <2>4. [k \in 1 .. n |-> Cl(k)] \in [1 .. n -> Cell]
    BY <2>3
  <2>5. [k \in 1 .. n |-> Cl(k)] \in Seq(Cell)
    BY <2>2, <2>4, FunctionIsSeq
  <2> QED BY <2>5 DEF write_at
<1> QED BY <1>2, <1>3

\* The bitmap of any set of chunks is a sequence of bytes.
LEMMA BitmapType ==
  ASSUME NEW S, NEW total \in Nat
  PROVE  encode_received_bitmap(S, total) \in Seq(Byte)
<1>1. div_ceil(total, 8) \in Nat
  BY DEF div_ceil
<1> QED BY <1>1 DEF encode_received_bitmap, Byte

\* The bitmap a sender decodes names chunk numbers.
LEMMA DecodedType ==
  ASSUME NEW b, NEW total \in Nat
  PROVE  decode_received_bitmap(b, total) \in SUBSET Nat
BY DEF decode_received_bitmap

\* The manifest entry of a file, its chunk count and the numbers of its chunks.
LEMMA ManifestTypes ==
  ASSUME TypeOK, NEW t \in Transfers
  PROVE  /\ \A i \in FileIndex :
              /\ man[t][i] \in Stat /\ man[t][i].size \in Nat
              /\ WriterChunks(t, i) \in Nat \ {0}
         /\ ManifestCounts(t) \in Seq(Nat)
         /\ total_chunks(ManifestCounts(t)) \in Nat
<1>1. \A i \in FileIndex : man[t][i] \in Stat /\ man[t][i].size \in Nat
  BY DEF TypeOK, Stat
<1>2. ChunkSize \in Nat \ {0}
  BY ConstantsAssumption DEF ConstantsAssumption
<1>3. \A i \in FileIndex : WriterChunks(t, i) \in Nat \ {0}
  BY <1>1, <1>2, ChunkCountPositive DEF WriterChunks
<1>4. Idx(t) = 1 .. Len(FilesOf[t]) /\ Len(FilesOf[t]) \in Nat /\ Idx(t) \subseteq FileIndex
  BY FileIndexNat, ConstantsAssumption DEF ConstantsAssumption
<1>5. ManifestCounts(t) \in [1 .. Len(FilesOf[t]) -> Nat]
  BY <1>3, <1>4 DEF ManifestCounts
<1>6. ManifestCounts(t) \in Seq(Nat)
  BY <1>4, <1>5, FunctionIsSeq
<1>7. Len(ManifestCounts(t)) \in Nat
  BY <1>6
<1> QED BY <1>1, <1>3, <1>6, <1>7, ChunkIdsFinite DEF total_chunks

\* The sender's cursor and what it reads there.
LEMMA CursorTypes ==
  ASSUME TypeOK, NEW t \in Transfers
  PROVE  /\ \A i \in Nat : OpenFile(t, i) \in Cursor
         /\ NextChunk(t) \in Cursor
         /\ cur[t].file \in Idx(t) => ReadSpan(t) \in Span
<1>1. ASSUME NEW i \in Nat PROVE OpenFile(t, i) \in Cursor
  <2>1. i \in Idx(t) => disk[FilesOf[t][i]].size \in Nat
    BY FileIndexNat DEF TypeOK, Stat
  <2> QED BY <2>1 DEF OpenFile, Cursor
<1>2. cur[t] \in Cursor /\ cur[t].file \in Nat /\ cur[t].off \in Nat /\ cur[t].len \in Nat
  BY DEF TypeOK, Cursor
<1>3. NextChunk(t) \in Cursor
  <2>1. [cur[t] EXCEPT !.off = @ + 1] \in Cursor
    BY <1>2 DEF Cursor
  <2>2. OpenFile(t, cur[t].file + 1) \in Cursor
    BY <1>1, <1>2
  <2> QED BY <2>1, <2>2 DEF NextChunk
<1>4. ASSUME cur[t].file \in Idx(t) PROVE ReadSpan(t) \in Span
  <2> DEFINE s == FilesOf[t][cur[t].file]
             size == EffectiveSize(t, cur[t].file)
  <2>1. s \in Sources /\ disk[s].size \in Nat /\ disk[s].ver \in Nat
    BY <1>4, FileIndexNat DEF TypeOK, Stat
  <2>2. man[t][cur[t].file].size \in Nat
    BY <1>4, FileIndexNat, ManifestTypes
  <2>3. ChunkSize \in Nat /\ MaxChunkSize \in Nat
    BY ConstantsAssumption DEF ConstantsAssumption
  <2>4. size \in Nat
    BY <2>2, <2>3 DEF EffectiveSize, effective_chunk_size, Smaller
  <2> HIDE DEF size, s
  <2>5. cur[t].off * size \in Nat
    BY <1>2, <2>4
  <2>a. \A n \in Nat : remaining(n, cur[t].off, size) \in Nat
    BY <2>4, <2>5 DEF remaining
  <2>b. UsizeValues \in Nat \ {0} /\ \A n \in Nat : n % UsizeValues \in Nat
    BY ChunkingAssumption DEF ChunkingAssumption
  <2>6. \A n \in Nat : read_size(n, cur[t].off, size) \in Nat
    BY <2>4, <2>a, <2>b DEF read_size, Smaller
  <2>7. Smaller(read_size(cur[t].len, cur[t].off, size),
                remaining(disk[s].size, cur[t].off, size)) \in Nat
    BY <1>2, <2>1, <2>6, <2>a DEF Smaller
  <2>8. ReadSpan(t) = [src |-> s, lo |-> cur[t].off * size, ver |-> disk[s].ver,
                       len |-> Smaller(read_size(cur[t].len, cur[t].off, size),
                                       remaining(disk[s].size, cur[t].off, size))]
    BY DEF ReadSpan, s, size
  <2> QED BY <2>1, <2>5, <2>7, <2>8 DEF Span
<1> QED BY <1>1, <1>3, <1>4

---------------------------------------------------------------------------
(* Type correctness *)

\* Appending to and taking from the queues keeps them queues of messages.
LEMMA QueueTypes ==
  ASSUME NEW q \in [Transfers -> Seq(Message)], NEW t \in Transfers
  PROVE  /\ \A m \in Message : [q EXCEPT ![t] = Append(@, m)] \in [Transfers -> Seq(Message)]
         /\ \A m, n \in Message : [q EXCEPT ![t] = @ \o <<m, n>>] \in [Transfers -> Seq(Message)]
         /\ \A m \in Message : [q EXCEPT ![t] = <<m>>] \in [Transfers -> Seq(Message)]
         /\ q[t] # <<>> => /\ [q EXCEPT ![t] = Tail(@)] \in [Transfers -> Seq(Message)]
                           /\ Head(q[t]) \in Message
<1>1. q[t] \in Seq(Message)
  OBVIOUS
<1>2. /\ \A m \in Message : Append(q[t], m) \in Seq(Message)
      /\ \A m, n \in Message : q[t] \o <<m, n>> \in Seq(Message)
      /\ \A m \in Message : <<m>> \in Seq(Message)
      /\ q[t] # <<>> => Tail(q[t]) \in Seq(Message) /\ Head(q[t]) \in Message
  BY <1>1
<1> QED BY <1>2

\* The initial state is well typed.
LEMMA TypeInit == Init => TypeOK
<1> SUFFICES ASSUME Init PROVE TypeOK
  OBVIOUS
<1>1. disk \in [Sources -> Stat]
  BY ConstantsAssumption DEF ConstantsAssumption, Init, Stat
<1>2. /\ man \in [Transfers -> [FileIndex -> Stat]]
      /\ cur \in [Transfers -> Cursor]
  BY DEF Init, Stat, Cursor
<1>3. temp \in [Paths -> Seq(Cell)]
  <2>1. [k \in 1 .. StaleLen |-> Blank] \in [1 .. StaleLen -> Cell]
    BY DEF Cell
  <2>2. [k \in 1 .. StaleLen |-> Blank] \in Seq(Cell)
    BY <2>1, FunctionIsSeq, ConstantsAssumption DEF ConstantsAssumption
  <2> QED BY <2>2 DEF Init
<1>4. edits \in 0 .. MaxEdits
  BY ConstantsAssumption DEF ConstantsAssumption, Init
<1>5. /\ rfile \in [Transfers -> Nat]
      /\ completed \in [Transfers -> [FileIndex -> SUBSET Nat]]
      /\ resume \in [Ids -> [FileIndex -> SUBSET Nat]]
      /\ toR \in [Transfers -> Seq(Message)] /\ toS \in [Transfers -> Seq(Message)]
  BY DEF Init
<1>6. partials \subseteq Paths /\ answer \in [Transfers -> Answers]
  BY DEF Init
<1> QED BY <1>1, <1>2, <1>3, <1>4, <1>5, <1>6
     DEF Init, TypeOK, SenderStates, SenderActive, SenderWaiting,
         ReceiverStates, ReceiverActive, ReceiverWaiting

\* Every step keeps the types.
LEMMA TypeStep == TypeOK /\ [Next]_vars => TypeOK'
<1> SUFFICES ASSUME TypeOK, [Next]_vars PROVE TypeOK'
  OBVIOUS
<1> USE DEF TypeOK
<1>e. ASSUME NEW s \in Sources, EditSource(s) PROVE TypeOK'
  <2>1. PICK n \in EditSizes : disk' = [disk EXCEPT ![s] = [size |-> n, ver |-> @.ver + 1]]
    BY <1>e DEF EditSource
  <2>2. n \in Nat /\ MaxEdits \in Nat
    BY ConstantsAssumption DEF ConstantsAssumption
  <2>3. disk[s].ver \in Nat
    BY DEF Stat
  <2>4. [size |-> n, ver |-> disk[s].ver + 1] \in Stat
    BY <2>2, <2>3 DEF Stat
  <2>5. disk' \in [Sources -> Stat]
    BY <2>1, <2>4
  <2>6. edits' \in 0 .. MaxEdits
    BY <1>e, <2>2 DEF EditSource
  <2>7. UNCHANGED <<spc, man, cur, skip, rpc, rfile, rok, loaded, completed, toR, toS,
                    partials, temp, delivered, saved, resume, faulty, answer>>
    BY <1>e DEF EditSource, senderVars, receiverVars, storeVars
  <2> QED BY <2>5, <2>6, <2>7
<1>1. ASSUME NEW t \in Transfers, Prepare(t) PROVE TypeOK'
  <2>1. man' \in [Transfers -> [FileIndex -> Stat]]
    <3>1. FilesOf \in [Transfers -> Seq(Sources)]
      BY ConstantsAssumption DEF ConstantsAssumption
    <3>2. \A i \in Idx(t) : disk[FilesOf[t][i]] \in Stat
      BY <3>1 DEF Idx
    <3> QED BY <1>1, <3>2 DEF Prepare
  <2>2. toR' \in [Transfers -> Seq(Message)]
    BY <1>1, MessageTypes, QueueTypes DEF Prepare, SendToR
  <2> QED BY <1>1, <2>1, <2>2
     DEF Prepare, HandlerStarts, storeVars, environment, SetSpc, SetRpc,
         SenderStates, SenderActive, SenderWaiting, ReceiverStates, ReceiverActive, ReceiverWaiting
<1>2. ASSUME NEW t \in Transfers, SendRequest(t) PROVE TypeOK'
  BY <1>2, MessageTypes, QueueTypes
     DEF SendRequest, SenderGets, vars, receiverVars, storeVars, environment, SetSpc, ConsumeS,
          SenderStates, SenderActive, SenderWaiting, ReceiverStates, ReceiverActive, ReceiverWaiting
<1>3. ASSUME NEW t \in Transfers, RecvAccept(t) PROVE TypeOK'
  BY <1>3, QueueTypes, CursorTypes
     DEF RecvAccept, SenderGets, vars, receiverVars, storeVars, environment, SetSpc, ConsumeS,
          SenderStates, SenderActive, SenderWaiting, ReceiverStates, ReceiverActive, ReceiverWaiting
<1>4. ASSUME NEW t \in Transfers, RecvResumeAt(t) PROVE TypeOK'
  BY <1>4, QueueTypes, CursorTypes, ManifestTypes, DecodedType
     DEF RecvResumeAt, SenderGets, vars, receiverVars, storeVars, environment, SetSpc, ConsumeS,
          SenderStates, SenderActive, SenderWaiting, ReceiverStates, ReceiverActive, ReceiverWaiting
<1>5. ASSUME NEW t \in Transfers, RecvReject(t) PROVE TypeOK'
  BY <1>5, MessageTypes, QueueTypes
     DEF RecvReject, SenderGets, SenderStops, vars, receiverVars, storeVars, environment, SetSpc,
          SendToR, ConsumeS, SenderStates, SenderActive, SenderWaiting, ReceiverStates,
          ReceiverActive, ReceiverWaiting
<1>6. ASSUME NEW t \in Transfers, SkipChunk(t) PROVE TypeOK'
  BY <1>6, CursorTypes
     DEF SkipChunk, vars, receiverVars, storeVars, environment, SenderStates, SenderActive,
          SenderWaiting, ReceiverStates, ReceiverActive, ReceiverWaiting
<1>7. ASSUME NEW t \in Transfers, SendChunk(t) PROVE TypeOK'
  BY <1>7, CursorTypes, MessageTypes, QueueTypes, FileIndexNat
     DEF SendChunk, AtChunk, Cursor, vars, receiverVars, storeVars, environment, SetSpc, SendToR,
          SenderStates, SenderActive, SenderWaiting, ReceiverStates, ReceiverActive, ReceiverWaiting
<1>8. ASSUME NEW t \in Transfers, ChunkTooLong(t) PROVE TypeOK'
  BY <1>8, MessageTypes, QueueTypes
     DEF ChunkTooLong, vars, receiverVars, storeVars, environment, SetSpc, SendToR, SenderStates,
          SenderActive, SenderWaiting, ReceiverStates, ReceiverActive, ReceiverWaiting
<1>9. ASSUME NEW t \in Transfers, RecvAck(t) PROVE TypeOK'
  BY <1>9, QueueTypes, CursorTypes
     DEF RecvAck, SenderGets, vars, receiverVars, storeVars, environment, SetSpc, ConsumeS,
          SenderStates, SenderActive, SenderWaiting, ReceiverStates, ReceiverActive, ReceiverWaiting
<1>10. ASSUME NEW t \in Transfers, SendComplete(t) PROVE TypeOK'
  BY <1>10, MessageTypes, QueueTypes
     DEF SendComplete, vars, receiverVars, storeVars, environment, SetSpc, SendToR, SenderStates,
          SenderActive, SenderWaiting, ReceiverStates, ReceiverActive, ReceiverWaiting
<1>11. ASSUME NEW t \in Transfers, RecvVerified(t) PROVE TypeOK'
  BY <1>11, MessageTypes, QueueTypes
     DEF RecvVerified, SenderGets, SenderStops, vars, receiverVars, storeVars, environment, SetSpc,
          SendToR, ConsumeS, SenderStates, SenderActive, SenderWaiting, ReceiverStates,
          ReceiverActive, ReceiverWaiting
<1>12. ASSUME NEW t \in Transfers, SenderRecvFails(t) PROVE TypeOK'
  BY <1>12, MessageTypes, QueueTypes
     DEF SenderRecvFails, SenderStops, vars, receiverVars, storeVars, environment, SetSpc, SendToR,
          ConsumeS, SenderStates, SenderActive, SenderWaiting, ReceiverStates, ReceiverActive,
          ReceiverWaiting
<1>13. ASSUME NEW t \in Transfers, RecvHs1(t) PROVE TypeOK'
  BY <1>13, MessageTypes, QueueTypes
     DEF RecvHs1, ReceiverGets, vars, senderVars, storeVars, environment, SetRpc, SendToS,
          ConsumeR, SenderStates, SenderActive, SenderWaiting, ReceiverStates, ReceiverActive,
          ReceiverWaiting
<1>14. ASSUME NEW t \in Transfers, RecvHs3(t) PROVE TypeOK'
  BY <1>14, MessageTypes, QueueTypes
     DEF RecvHs3, ReceiverGets, vars, senderVars, storeVars, environment, SetRpc, ConsumeR,
          SenderStates, SenderActive, SenderWaiting, ReceiverStates, ReceiverActive, ReceiverWaiting
<1>15. ASSUME NEW t \in Transfers, RecvRequest(t) PROVE TypeOK'
  <2>1. IdOf[t] \in Ids
    BY ConstantsAssumption DEF ConstantsAssumption
  <2> QED BY <1>15, <2>1, QueueTypes
          DEF RecvRequest, load, ReceiverGets, vars, senderVars, storeVars, environment, SetRpc,
               ConsumeR, SenderStates, SenderActive, SenderWaiting, ReceiverStates, ReceiverActive,
               ReceiverWaiting
<1>16. ASSUME NEW t \in Transfers, DecideReject(t) PROVE TypeOK'
  BY <1>16, MessageTypes, QueueTypes
     DEF DecideReject, vars, senderVars, storeVars, environment, SetRpc, SenderStates,
          SenderActive, SenderWaiting, ReceiverStates, ReceiverActive, ReceiverWaiting
<1>17. ASSUME NEW t \in Transfers, DecideAccept(t) PROVE TypeOK'
  <2>1. \A S : encode_received_bitmap(S, total_chunks(ManifestCounts(t))) \in Seq(Byte)
    BY ManifestTypes, BitmapType
  <2>2. toS' \in [Transfers -> Seq(Message)]
    <3> DEFINE S == UNION {{GlobalOffset(t, i, o) : o \in state[i]} :
                             state \in loaded[t], i \in FileIndex}
               bm == encode_received_bitmap(S, total_chunks(ManifestCounts(t)))
               m == IF loaded[t] = {} THEN Msg("Accept") ELSE ResumeAtMsg(bm)
    <3>1. toS' = [toS EXCEPT ![t] = Append(@, m)]
      BY <1>17 DEF DecideAccept, SendToS
    <3>2. bm \in Seq(Byte)
      BY <2>1
    <3> HIDE DEF bm
    <3>3. m \in Message
      BY <3>2, MessageTypes
    <3> QED BY <3>1, <3>3, QueueTypes
  <2> QED BY <1>17, <2>2 DEF DecideAccept, vars, senderVars, storeVars, environment, SetRpc,
       SendToS, SenderStates, SenderActive, SenderWaiting, ReceiverStates, ReceiverActive,
       ReceiverWaiting
<1>18. ASSUME NEW t \in Transfers, CreateWriter(t) PROVE TypeOK'
  <2>1. rfile[t] \in Nat /\ rfile[t] \in FileIndex /\ Path(t, rfile[t]) \in Paths
    BY <1>18, FileIndexNat DEF CreateWriter
  <2>2. temp[Path(t, rfile[t])] \in Seq(Cell) /\ man[t][rfile[t]].size \in Nat
    BY <2>1, ManifestTypes
  <2>3. set_len(temp[Path(t, rfile[t])], man[t][rfile[t]].size) \in Seq(Cell)
    BY <2>2, ContentTypes
  <2>4. temp' \in [Paths -> Seq(Cell)] /\ partials' \subseteq Paths
    BY <1>18, <2>1, <2>3 DEF CreateWriter
  <2>5. completed' \in [Transfers -> [FileIndex -> SUBSET Nat]] /\ rfile' \in [Transfers -> Nat]
    BY <1>18, <2>1 DEF CreateWriter
  <2> QED BY <1>18, <2>4, <2>5 DEF CreateWriter, vars, senderVars, environment, SenderStates,
       SenderActive, SenderWaiting, ReceiverStates, ReceiverActive, ReceiverWaiting
<1>19. ASSUME NEW t \in Transfers, StartReceiving(t) PROVE TypeOK'
  BY <1>19
     DEF StartReceiving, vars, senderVars, storeVars, environment, SetRpc, SenderStates,
          SenderActive, SenderWaiting, ReceiverStates, ReceiverActive, ReceiverWaiting
<1>20. ASSUME NEW t \in Transfers, RecvChunk(t) PROVE TypeOK'
  <2> DEFINE m == Head(toR[t])
             p == Path(t, m.file)
  <2>1. m \in Message /\ m.type = "Chunk"
    BY <1>20, QueueTypes DEF RecvChunk, ReceiverGets
  <2>2. m.file \in FileIndex /\ m.off \in Nat /\ m.span \in Span
    BY <2>1, Payloads
  <2>3. p \in Paths /\ temp[p] \in Seq(Cell)
    BY <1>20 DEF RecvChunk, Writable
  <2> HIDE DEF m, p
  <2>4. m.off * ChunkSize \in Nat
    BY <2>2, ConstantsAssumption DEF ConstantsAssumption
  <2>5. write_at(temp[p], m.off * ChunkSize, m.span) \in Seq(Cell)
    BY <2>2, <2>3, <2>4, ContentTypes
  <2>6. temp' = [temp EXCEPT ![p] = write_at(@, m.off * ChunkSize, m.span)]
    BY <1>20 DEF RecvChunk, m, p
  <2>7. temp' \in [Paths -> Seq(Cell)]
    BY <2>3, <2>5, <2>6
  <2>8. completed' \in [Transfers -> [FileIndex -> SUBSET Nat]]
    <3>1. completed' = [completed EXCEPT ![t][m.file] = @ \cup {m.off}]
      BY <1>20 DEF RecvChunk, m
    <3> QED BY <2>2, <3>1
  <2>9. toS' \in [Transfers -> Seq(Message)]
    <3>1. AckMsg(m.file, m.off) \in Message
      BY <2>2, MessageTypes
    <3>2. toS' = [toS EXCEPT ![t] = Append(@, AckMsg(m.file, m.off))]
      BY <1>20 DEF RecvChunk, SendToS, m
    <3> QED BY <3>1, <3>2, QueueTypes
  <2>10. toR' \in [Transfers -> Seq(Message)]
    BY <1>20, QueueTypes DEF RecvChunk, ConsumeR, ReceiverGets
  <2> QED BY <1>20, <2>7, <2>8, <2>9, <2>10 DEF RecvChunk, senderVars, environment
<1>21. ASSUME NEW t \in Transfers, RecvChunkFails(t) PROVE TypeOK'
  BY <1>21, MessageTypes, QueueTypes
     DEF RecvChunkFails, ReceiverGets, ReceiverStops, vars, senderVars, storeVars, environment,
          SetRpc, SendToS, ConsumeR, SenderStates, SenderActive, SenderWaiting, ReceiverStates,
          ReceiverActive, ReceiverWaiting
<1>22. ASSUME NEW t \in Transfers, RecvComplete(t) PROVE TypeOK'
  BY <1>22, QueueTypes
     DEF RecvComplete, ReceiverGets, vars, senderVars, storeVars, environment, SetRpc, ConsumeR,
          SenderStates, SenderActive, SenderWaiting, ReceiverStates, ReceiverActive, ReceiverWaiting
<1>23. ASSUME NEW t \in Transfers, Finalize(t) PROVE TypeOK'
  <2>1. rfile[t] \in FileIndex /\ rfile' \in [Transfers -> Nat]
    BY <1>23, FileIndexNat DEF Finalize
  <2>2. ASSUME Path(t, rfile[t]) \in partials,
               delivered' = delivered \cup {[transfer |-> t, file |-> rfile[t],
                                             content |-> temp[Path(t, rfile[t])]]}
        PROVE  delivered' \subseteq [transfer : Transfers, file : FileIndex, content : Seq(Cell)]
    <3>1. temp[Path(t, rfile[t])] \in Seq(Cell)
      BY <2>2
    <3> QED BY <2>1, <2>2, <3>1
  <2>3. delivered' \subseteq [transfer : Transfers, file : FileIndex, content : Seq(Cell)]
    BY <1>23, <2>2 DEF Finalize
  <2>4. rok' \in [Transfers -> BOOLEAN]
    BY <1>23 DEF Finalize
  <2>5. temp' \in [Paths -> Seq(Cell)] /\ partials' \subseteq Paths
    <3>1. <<>> \in Seq(Cell)
      OBVIOUS
    <3>2. CASE UNCHANGED <<partials, temp>>
      BY <3>2
    <3>3. CASE /\ partials' = partials \ {Path(t, rfile[t])}
               /\ temp' = [temp EXCEPT ![Path(t, rfile[t])] = <<>>]
      BY <3>1, <3>3
    <3> QED BY <1>23, <3>2, <3>3 DEF Finalize
  <2> QED BY <1>23, <2>1, <2>3, <2>4, <2>5 DEF Finalize, vars, senderVars, environment,
       SenderStates, SenderActive, SenderWaiting, ReceiverStates, ReceiverActive, ReceiverWaiting
<1>24. ASSUME NEW t \in Transfers, FinalizeFails(t) PROVE TypeOK'
  BY <1>24, MessageTypes, QueueTypes
     DEF FinalizeFails, vars, senderVars, storeVars, environment, SetRpc, SendToS, SenderStates,
          SenderActive, SenderWaiting, ReceiverStates, ReceiverActive, ReceiverWaiting
<1>25. ASSUME NEW t \in Transfers, SendVerified(t) PROVE TypeOK'
  BY <1>25, MessageTypes, QueueTypes
     DEF SendVerified, vars, senderVars, storeVars, environment, SetRpc, SendToS, SenderStates,
          SenderActive, SenderWaiting, ReceiverStates, ReceiverActive, ReceiverWaiting
<1>33. ASSUME NEW t \in Transfers, RemoveResumeState(t) PROVE TypeOK'
  BY <1>33
     DEF RemoveResumeState, remove, vars, senderVars, environment, SetRpc, SenderStates,
          SenderActive, SenderWaiting, ReceiverStates, ReceiverActive, ReceiverWaiting
<1>34. ASSUME NEW t \in Transfers, EndReceiving(t) PROVE TypeOK'
  BY <1>34, MessageTypes, QueueTypes
     DEF EndReceiving, vars, senderVars, storeVars, environment, SetRpc, SendToS, SenderStates,
          SenderActive, SenderWaiting, ReceiverStates, ReceiverActive, ReceiverWaiting
<1>26. ASSUME NEW t \in Transfers, RecvClosed(t) PROVE TypeOK'
  <2>1. IdOf[t] \in Ids /\ completed[t] \in [FileIndex -> SUBSET Nat]
    BY ConstantsAssumption DEF ConstantsAssumption
  <2>2. resume' \in [Ids -> [FileIndex -> SUBSET Nat]] /\ saved' \subseteq Ids
    BY <1>26, <2>1 DEF RecvClosed, save
  <2>3. toR' \in [Transfers -> Seq(Message)] /\ toS' \in [Transfers -> Seq(Message)]
    BY <1>26, MessageTypes, QueueTypes DEF RecvClosed, ReceiverStops, ReceiverGets, SendToS, ConsumeR
  <2> QED BY <1>26, <2>2, <2>3
      DEF RecvClosed, ReceiverStops, vars, senderVars, environment, SetRpc, SendToS, ConsumeR,
           SenderStates, SenderActive, SenderWaiting, ReceiverStates, ReceiverActive,
           ReceiverWaiting
<1>27. ASSUME NEW t \in Transfers, ReceiverRecvFails(t) PROVE TypeOK'
  BY <1>27, MessageTypes, QueueTypes
     DEF ReceiverRecvFails, ReceiverStops, vars, senderVars, storeVars, environment, SetRpc,
          SendToS, ConsumeR, SenderStates, SenderActive, SenderWaiting, ReceiverStates,
          ReceiverActive, ReceiverWaiting
<1>28. ASSUME NEW t \in Transfers, ConnectFails(t) PROVE TypeOK'
  BY <1>28
     DEF ConnectFails, Fault, vars, receiverVars, storeVars, SetSpc, SenderStates, SenderActive,
          SenderWaiting, ReceiverStates, ReceiverActive, ReceiverWaiting
<1>29. ASSUME NEW t \in Transfers, SenderCrash(t) PROVE TypeOK'
  BY <1>29, MessageTypes, QueueTypes
     DEF SenderCrash, Fault, vars, receiverVars, storeVars, SetSpc, SendToR, SenderStates,
          SenderActive, SenderWaiting, ReceiverStates, ReceiverActive, ReceiverWaiting
<1>30. ASSUME NEW t \in Transfers, ReceiverCrash(t) PROVE TypeOK'
  BY <1>30, MessageTypes, QueueTypes
     DEF ReceiverCrash, Fault, vars, senderVars, storeVars, SetRpc, SendToS, SenderStates,
          SenderActive, SenderWaiting, ReceiverStates, ReceiverActive, ReceiverWaiting
<1>32. ASSUME NEW t \in Transfers, SaveTorn(t) PROVE TypeOK'
  <2>1. IdOf[t] \in Ids /\ completed[t] \in [FileIndex -> SUBSET Nat]
    BY ConstantsAssumption DEF ConstantsAssumption
  <2>2. resume' \in [Ids -> [FileIndex -> SUBSET Nat]] /\ saved' \subseteq Ids
    BY <1>32, <2>1 DEF SaveTorn, remove
  <2>3. toR' \in [Transfers -> Seq(Message)] /\ toS' \in [Transfers -> Seq(Message)]
    BY <1>32, MessageTypes, QueueTypes DEF SaveTorn, ReceiverStops, ReceiverGets, SendToS, ConsumeR
  <2> QED BY <1>32, <2>2, <2>3
      DEF SaveTorn, ReceiverStops, Fault, vars, senderVars, SetRpc, SendToS, ConsumeR,
           SenderStates, SenderActive, SenderWaiting, ReceiverStates, ReceiverActive,
           ReceiverWaiting
<1>31. ASSUME NEW t \in Transfers, Disconnect(t) PROVE TypeOK'
  BY <1>31, MessageTypes, QueueTypes
     DEF Disconnect, Fault, vars, senderVars, receiverVars, storeVars, SenderStates, SenderActive,
          SenderWaiting, ReceiverStates, ReceiverActive, ReceiverWaiting
<1>u. CASE UNCHANGED vars
  BY <1>u DEF vars
<1> QED BY <1>e, <1>1, <1>2, <1>3, <1>4, <1>5, <1>6, <1>7, <1>8, <1>9, <1>10, <1>11, <1>12, <1>13, <1>14, <1>15, <1>16, <1>17, <1>18, <1>19, <1>20, <1>21, <1>22, <1>23, <1>24, <1>25, <1>26, <1>27, <1>28, <1>29, <1>30, <1>31, <1>32, <1>33, <1>34, <1>u
     DEF Next, SenderStep, ReceiverStep, FaultStep

\* TypeOK holds in every state of every transfer system, for any number of
\* transfers and files and any sizes.
THEOREM TypeCorrect == Spec => []TypeOK
BY TypeInit, TypeStep, PTL DEF Spec

---------------------------------------------------------------------------
(* Agreement of the two ends *)

\* The kinds of the messages the code builds.
LEMMA MessageKinds ==
  /\ \A k : Msg(k).type = k
  /\ \A b : ResumeAtMsg(b).type = "ResumeAt"
  /\ \A i, o, sp : ChunkMsg(i, o, sp).type = "Chunk"
  /\ \A i, o : AckMsg(i, o).type = "Ack"
  /\ \A ok : VerifiedMsg(ok).type = "Verified" /\ VerifiedMsg(ok).ok = ok
  /\ \A u : Closing(u).type \in {"FIN", "RST"}
BY DEF Msg, ResumeAtMsg, ChunkMsg, AckMsg, VerifiedMsg, Closing

\* A positive verdict in a queue was there before, or is what was appended.
LEMMA VerifiedQueue ==
  ASSUME NEW q \in Seq(Message)
  PROVE  /\ \A m \in Message : VerifiedOk(Append(q, m)) =>
              VerifiedOk(q) \/ (m.type = "Verified" /\ m.ok)
         /\ \A m, n \in Message : VerifiedOk(q \o <<m, n>>) =>
              VerifiedOk(q) \/ (m.type = "Verified" /\ m.ok) \/ (n.type = "Verified" /\ n.ok)
         /\ \A m \in Message : VerifiedOk(<<m>>) => m.type = "Verified" /\ m.ok
         /\ q # <<>> /\ VerifiedOk(Tail(q)) => VerifiedOk(q)
         /\ q # <<>> /\ Head(q).type = "Verified" /\ Head(q).ok => VerifiedOk(q)
BY DEF VerifiedOk

\* The agreement holds at the start.
LEMMA AgreementInit == Init => AgreementInv
BY DEF Init, AgreementInv, VerifiedOk

\* What these appends put on a queue is no positive verdict.
LEMMA NoNewVerdict ==
  ASSUME toS \in [Transfers -> Seq(Message)], NEW t \in Transfers,
         NEW m \in Message, m.type # "Verified",
         toS' = [toS EXCEPT ![t] = Append(@, m)] \/ toS' = [toS EXCEPT ![t] = <<m>>]
  PROVE  \A u \in Transfers : VerifiedOk(toS'[u]) => VerifiedOk(toS[u])
<1> TAKE u \in Transfers
<1>1. toS[t] \in Seq(Message)
  OBVIOUS
<1>2. CASE u # t
  BY <1>2
<1>3. CASE u = t /\ toS' = [toS EXCEPT ![t] = Append(@, m)]
  BY <1>1, <1>3, VerifiedQueue
<1>4. CASE u = t /\ toS' = [toS EXCEPT ![t] = <<m>>]
  BY <1>1, <1>4, VerifiedQueue
<1> QED BY <1>2, <1>3, <1>4

\* Where a receiver stands that has come to its verdict, or has not begun.
Decided == {"idle", "removing", "closing", "completed", "failed"}

\* A step of the receiver that gives no verdict keeps the agreement.
LEMMA ReceiverMoves ==
  ASSUME TypeOK, AgreementInv, NEW t \in Transfers,
         NEW pc \in {"hs1", "hs3", "waitRequest", "deciding", "creating", "receiving", "failed"},
         rpc[t] \notin Decided, rpc' = [rpc EXCEPT ![t] = pc],
         UNCHANGED <<spc, rok, delivered>>, faulty \subseteq faulty',
         rfile' = rfile \/ rfile' = [rfile EXCEPT ![t] = 1],
         \A u \in Transfers : VerifiedOk(toS'[u]) => VerifiedOk(toS[u])
  PROVE  AgreementInv'
<1>1. rpc \in [Transfers -> ReceiverStates] /\ rfile \in [Transfers -> Nat]
  BY DEF TypeOK
<1>2. \A u \in Transfers : rfile'[u] = rfile[u] \/ (u = t /\ rfile'[u] = 1)
  BY <1>1
<1>3. \A u \in Transfers : rpc'[u] = IF u = t THEN pc ELSE rpc[u]
  BY <1>1
<1> QED BY <1>1, <1>2, <1>3 DEF AgreementInv, Delivered, Succeeds, Decided

\* Every step keeps the agreement.
LEMMA AgreementStep == TypeOK /\ AgreementInv /\ [Next]_vars => AgreementInv'
<1> SUFFICES ASSUME TypeOK, AgreementInv, [Next]_vars PROVE AgreementInv'
  OBVIOUS
<1>q. /\ toS \in [Transfers -> Seq(Message)] /\ spc \in [Transfers -> SenderStates]
      /\ rpc \in [Transfers -> ReceiverStates] /\ rfile \in [Transfers -> Nat]
      /\ rok \in [Transfers -> BOOLEAN]
  BY DEF TypeOK
<1> USE DEF AgreementInv, Delivered, Succeeds
<1>e. ASSUME NEW s \in Sources, EditSource(s) PROVE AgreementInv'
  BY <1>e DEF EditSource, senderVars, receiverVars, storeVars
<1>1. ASSUME NEW t \in Transfers, Prepare(t) PROVE AgreementInv'
  BY <1>1, <1>q, MessageTypes, MessageKinds, VerifiedQueue
     DEF Prepare, HandlerStarts, storeVars, environment, SetSpc, SetRpc, SendToR
<1>2. ASSUME NEW t \in Transfers, SendRequest(t) PROVE AgreementInv'
  BY <1>2, <1>q, MessageTypes, MessageKinds, VerifiedQueue
     DEF SendRequest, SenderGets, receiverVars, storeVars, environment, SetSpc, ConsumeS
<1>3. ASSUME NEW t \in Transfers, RecvAccept(t) PROVE AgreementInv'
  BY <1>3, <1>q, MessageTypes, MessageKinds, VerifiedQueue
     DEF RecvAccept, SenderGets, receiverVars, storeVars, environment, SetSpc, ConsumeS
<1>4. ASSUME NEW t \in Transfers, RecvResumeAt(t) PROVE AgreementInv'
  BY <1>4, <1>q, MessageTypes, MessageKinds, VerifiedQueue
     DEF RecvResumeAt, SenderGets, receiverVars, storeVars, environment, SetSpc, ConsumeS
<1>5. ASSUME NEW t \in Transfers, RecvReject(t) PROVE AgreementInv'
  BY <1>5, <1>q, MessageTypes, MessageKinds, VerifiedQueue
     DEF RecvReject, SenderGets, SenderStops, receiverVars, storeVars, environment, SetSpc,
          SendToR, ConsumeS
<1>6. ASSUME NEW t \in Transfers, SkipChunk(t) PROVE AgreementInv'
  BY <1>6, <1>q
     DEF SkipChunk, receiverVars, storeVars, environment
<1>7. ASSUME NEW t \in Transfers, SendChunk(t) PROVE AgreementInv'
  BY <1>7, <1>q, MessageTypes, MessageKinds, VerifiedQueue
     DEF SendChunk, AtChunk, Cursor, receiverVars, storeVars, environment, SetSpc, SendToR
<1>8. ASSUME NEW t \in Transfers, ChunkTooLong(t) PROVE AgreementInv'
  BY <1>8, <1>q, MessageTypes, MessageKinds, VerifiedQueue
     DEF ChunkTooLong, receiverVars, storeVars, environment, SetSpc, SendToR
<1>9. ASSUME NEW t \in Transfers, RecvAck(t) PROVE AgreementInv'
  BY <1>9, <1>q, MessageTypes, MessageKinds, VerifiedQueue
     DEF RecvAck, SenderGets, receiverVars, storeVars, environment, SetSpc, ConsumeS
<1>10. ASSUME NEW t \in Transfers, SendComplete(t) PROVE AgreementInv'
  BY <1>10, <1>q, MessageTypes, MessageKinds, VerifiedQueue
     DEF SendComplete, receiverVars, storeVars, environment, SetSpc, SendToR
<1>11. ASSUME NEW t \in Transfers, RecvVerified(t) PROVE AgreementInv'
  <2>1. /\ spc[t] = "verifying" /\ toS[t] # <<>> /\ Head(toS[t]).type = "Verified"
        /\ spc' = [spc EXCEPT ![t] = IF Head(toS[t]).ok THEN "completed" ELSE "failed"]
        /\ toS' = [toS EXCEPT ![t] = Tail(@)]
        /\ UNCHANGED <<rpc, rfile, rok, delivered, faulty>>
    BY <1>11 DEF RecvVerified, SenderGets, SenderStops, SetSpc, ConsumeS, receiverVars, storeVars,
         environment
  <2>2. toS[t] \in Seq(Message)
    BY <1>q
  <2>3. \A u \in Transfers : VerifiedOk(toS'[u]) => VerifiedOk(toS[u])
    BY <1>q, <2>1, <2>2, VerifiedQueue
  <2>4. spc'[t] = "completed" => VerifiedOk(toS[t])
    <3>1. spc'[t] = "completed" => Head(toS[t]).ok
      BY <1>q, <2>1
    <3> QED BY <2>1, <2>2, <3>1, VerifiedQueue
  <2>5. \A u \in Transfers : u # t => spc'[u] = spc[u]
    BY <1>q, <2>1
  <2>6. spc'[t] # "idle"
    BY <1>q, <2>1
  <2> QED BY <2>1, <2>3, <2>4, <2>5, <2>6
<1>12. ASSUME NEW t \in Transfers, SenderRecvFails(t) PROVE AgreementInv'
  BY <1>12, <1>q, MessageTypes, MessageKinds, VerifiedQueue
     DEF SenderRecvFails, SenderStops, receiverVars, storeVars, environment, SetSpc, SendToR,
          ConsumeS, SenderWaiting
<1>13. ASSUME NEW t \in Transfers, RecvHs1(t) PROVE AgreementInv'
  <2> DEFINE m == Msg("Hs2")
  <2>1. m \in Message /\ m.type # "Verified"
    BY MessageTypes, MessageKinds
  <2>2. toS' = [toS EXCEPT ![t] = Append(@, m)]
    BY <1>13 DEF RecvHs1, SendToS
  <2> HIDE DEF m
  <2>3. \A u \in Transfers : VerifiedOk(toS'[u]) => VerifiedOk(toS[u])
    BY <1>q, <2>1, <2>2, NoNewVerdict
  <2>4. /\ rpc[t] \notin Decided /\ rpc' = [rpc EXCEPT ![t] = "hs3"]
        /\ UNCHANGED <<spc, rok, delivered, faulty>>
        /\ rfile' = rfile \/ rfile' = [rfile EXCEPT ![t] = 1]
    BY <1>13, <1>q DEF RecvHs1, SetRpc, senderVars, storeVars, environment, Decided
  <2> QED BY <2>3, <2>4, ReceiverMoves
<1>14. ASSUME NEW t \in Transfers, RecvHs3(t) PROVE AgreementInv'
  BY <1>14, <1>q, MessageTypes, MessageKinds, VerifiedQueue
     DEF RecvHs3, ReceiverGets, senderVars, storeVars, environment, SetRpc, ConsumeR
<1>15. ASSUME NEW t \in Transfers, RecvRequest(t) PROVE AgreementInv'
  BY <1>15, <1>q, MessageTypes, MessageKinds, VerifiedQueue
     DEF RecvRequest, ReceiverGets, senderVars, storeVars, environment, SetRpc, ConsumeR
<1>16. ASSUME NEW t \in Transfers, DecideReject(t) PROVE AgreementInv'
  <2> DEFINE m == Msg("Reject")
             n == Closing(toR[t])
  <2>1. m \in Message /\ m.type # "Verified" /\ n \in Message /\ n.type # "Verified"
    BY MessageTypes, MessageKinds
  <2>2. toS' = [toS EXCEPT ![t] = @ \o <<m, n>>]
    BY <1>16 DEF DecideReject
  <2> HIDE DEF m, n
  <2>3. \A u \in Transfers : VerifiedOk(toS'[u]) => VerifiedOk(toS[u])
    <3>1. toS'[t] = toS[t] \o <<m, n>> /\ toS[t] \in Seq(Message)
      BY <1>q, <2>2
    <3>2. VerifiedOk(toS'[t]) => VerifiedOk(toS[t])
      BY <2>1, <3>1, VerifiedQueue
    <3>3. \A u \in Transfers : u # t => toS'[u] = toS[u]
      BY <1>q, <2>2
    <3> QED BY <3>2, <3>3
  <2>4. /\ rpc[t] \notin Decided /\ rpc' = [rpc EXCEPT ![t] = "failed"]
        /\ UNCHANGED <<spc, rok, delivered, faulty>>
        /\ rfile' = rfile \/ rfile' = [rfile EXCEPT ![t] = 1]
    BY <1>16, <1>q DEF DecideReject, SetRpc, senderVars, storeVars, environment, Decided
  <2> QED BY <2>3, <2>4, ReceiverMoves
<1>17. ASSUME NEW t \in Transfers, DecideAccept(t) PROVE AgreementInv'
  <2> DEFINE S == UNION {{GlobalOffset(t, i, o) : o \in state[i]} :
                           state \in loaded[t], i \in FileIndex}
             bm == encode_received_bitmap(S, total_chunks(ManifestCounts(t)))
             m == IF loaded[t] = {} THEN Msg("Accept") ELSE ResumeAtMsg(bm)
  <2>1. bm \in Seq(Byte)
    BY ManifestTypes, BitmapType
  <2>2. toS' = [toS EXCEPT ![t] = Append(@, m)]
    BY <1>17 DEF DecideAccept, SendToS
  <2> HIDE DEF bm
  <2>3. m \in Message /\ m.type # "Verified"
    BY <2>1, MessageTypes, MessageKinds
  <2> HIDE DEF m
  <2>4. \A u \in Transfers : VerifiedOk(toS'[u]) => VerifiedOk(toS[u])
    BY <1>q, <2>2, <2>3, NoNewVerdict
  <2>5. /\ rpc[t] \notin Decided /\ rpc' = [rpc EXCEPT ![t] = "creating"]
        /\ UNCHANGED <<spc, rok, delivered, faulty>>
        /\ rfile' = [rfile EXCEPT ![t] = 1]
    BY <1>17 DEF DecideAccept, SetRpc, senderVars, storeVars, environment, Decided
  <2> QED BY <2>4, <2>5, ReceiverMoves
<1>18. ASSUME NEW t \in Transfers, CreateWriter(t) PROVE AgreementInv'
  BY <1>18, <1>q
     DEF CreateWriter, senderVars, environment
<1>19. ASSUME NEW t \in Transfers, StartReceiving(t) PROVE AgreementInv'
  BY <1>19, <1>q
     DEF StartReceiving, senderVars, storeVars, environment, SetRpc
<1>20. ASSUME NEW t \in Transfers, RecvChunk(t) PROVE AgreementInv'
  <2> DEFINE m == AckMsg(Head(toR[t]).file, Head(toR[t]).off)
  <2>1. m \in Message /\ m.type # "Verified"
    <3>1. Head(toR[t]) \in Message /\ Head(toR[t]).type = "Chunk"
      BY <1>20, QueueTypes DEF RecvChunk, ReceiverGets, TypeOK
    <3> QED BY <3>1, Payloads, MessageTypes, MessageKinds
  <2>2. toS' = [toS EXCEPT ![t] = Append(@, m)]
    BY <1>20 DEF RecvChunk, SendToS
  <2> HIDE DEF m
  <2>3. \A u \in Transfers : VerifiedOk(toS'[u]) => VerifiedOk(toS[u])
    BY <1>q, <2>1, <2>2, NoNewVerdict
  <2>4. /\ rpc[t] \notin Decided /\ rpc' = [rpc EXCEPT ![t] = "receiving"]
        /\ UNCHANGED <<spc, rok, delivered, rfile, faulty>>
    BY <1>20, <1>q DEF RecvChunk, senderVars, environment, Decided
  <2> QED BY <2>3, <2>4, ReceiverMoves
<1>21. ASSUME NEW t \in Transfers, RecvChunkFails(t) PROVE AgreementInv'
  <2> DEFINE m == Closing(Tail(toR[t]))
  <2>1. m \in Message /\ m.type # "Verified"
    BY MessageTypes, MessageKinds
  <2>2. toS' = [toS EXCEPT ![t] = Append(@, m)]
    BY <1>21 DEF RecvChunkFails, ReceiverStops, SendToS
  <2> HIDE DEF m
  <2>3. \A u \in Transfers : VerifiedOk(toS'[u]) => VerifiedOk(toS[u])
    BY <1>q, <2>1, <2>2, NoNewVerdict
  <2>4. /\ rpc[t] \notin Decided /\ rpc' = [rpc EXCEPT ![t] = "failed"]
        /\ UNCHANGED <<spc, rok, delivered, faulty>>
        /\ rfile' = rfile \/ rfile' = [rfile EXCEPT ![t] = 1]
    BY <1>21, <1>q DEF RecvChunkFails, ReceiverStops, SetRpc, senderVars, storeVars, environment, Decided
  <2> QED BY <2>3, <2>4, ReceiverMoves
<1>22. ASSUME NEW t \in Transfers, RecvComplete(t) PROVE AgreementInv'
  <2>1. /\ rpc[t] = "receiving" /\ rpc' = [rpc EXCEPT ![t] = "finalizing"]
        /\ rfile' = [rfile EXCEPT ![t] = 1]
        /\ rok' = [rok EXCEPT ![t] = TRUE]
        /\ UNCHANGED <<spc, toS, delivered, faulty>>
    BY <1>22 DEF RecvComplete, SetRpc, senderVars, storeVars, environment
  <2>2. \A i \in Idx(t) : ~(i < 1)
    BY FileIndexNat
  <2>3. \A u \in Transfers :
          /\ u # t => rpc'[u] = rpc[u] /\ rfile'[u] = rfile[u] /\ rok'[u] = rok[u]
          /\ u = t => rpc'[u] = "finalizing" /\ rfile'[u] = 1
    <3> TAKE u \in Transfers
    <3>1. rpc'[u] = IF u = t THEN "finalizing" ELSE rpc[u]
      BY <1>q, <2>1
    <3>2. rfile'[u] = IF u = t THEN 1 ELSE rfile[u]
      BY <1>q, <2>1
    <3>3. rok'[u] = IF u = t THEN TRUE ELSE rok[u]
      BY <1>q, <2>1
    <3> QED BY <3>1, <3>2, <3>3
  <2> QED BY <1>q, <2>1, <2>2, <2>3
<1>23. ASSUME NEW t \in Transfers, Finalize(t) PROVE AgreementInv'
  <2>1. /\ rpc[t] = "finalizing" /\ rfile[t] \in Idx(t)
        /\ rfile' = [rfile EXCEPT ![t] = @ + 1]
        /\ UNCHANGED <<spc, rpc, toS, faulty>>
        /\ \/ rok' = [rok EXCEPT ![t] = FALSE] /\ delivered' = delivered
           \/ /\ rok' = rok
              /\ delivered' = delivered \cup {[transfer |-> t, file |-> rfile[t],
                                               content |-> temp[Path(t, rfile[t])]]}
    BY <1>23 DEF Finalize, senderVars, environment
  <2>2. \A u \in Transfers : \A i \in Idx(u) : Delivered(u, i) => Delivered(u, i)'
    BY <2>1
  <2>3. rok'[t] => rok[t] /\ \E d \in delivered' : d.transfer = t /\ d.file = rfile[t]
    <3> DEFINE d == [transfer |-> t, file |-> rfile[t], content |-> temp[Path(t, rfile[t])]]
    <3>1. d.transfer = t /\ d.file = rfile[t]
      OBVIOUS
    <3> HIDE DEF d
    <3>2. rok'[t] => rok'= rok /\ d \in delivered'
      BY <1>q, <2>1 DEF d
    <3> QED BY <3>1, <3>2
  <2>4. rfile'[t] = rfile[t] + 1 /\ rfile[t] \in Nat /\ rfile'[t] >= 1
    BY <1>q, <2>1
  <2>5. \A i \in Idx(t) : i \in Nat /\ (i < rfile'[t] => i < rfile[t] \/ i = rfile[t])
    BY <2>4, FileIndexNat
  <2>6. \A u \in Transfers : u # t => rfile'[u] = rfile[u] /\ rok'[u] = rok[u]
    BY <1>q, <2>1
  <2>7. rok'[t] => \A i \in Idx(t) : i < rfile'[t] => Delivered(t, i)'
    <3> SUFFICES ASSUME rok'[t], NEW i \in Idx(t), i < rfile'[t] PROVE Delivered(t, i)'
      OBVIOUS
    <3>1. CASE i < rfile[t]
      BY <2>1, <2>2, <2>3, <3>1
    <3>2. CASE i = rfile[t]
      BY <2>3, <3>2
    <3> QED BY <2>5, <3>1, <3>2
  <2> HIDE DEF Delivered
  <2> QED BY <2>1, <2>2, <2>4, <2>6, <2>7
<1>24. ASSUME NEW t \in Transfers, FinalizeFails(t) PROVE AgreementInv'
  <2> DEFINE m == Closing(toR[t])
  <2>1. m \in Message /\ m.type # "Verified"
    BY MessageTypes, MessageKinds
  <2>2. toS' = [toS EXCEPT ![t] = Append(@, m)]
    BY <1>24 DEF FinalizeFails, SendToS
  <2> HIDE DEF m
  <2>3. \A u \in Transfers : VerifiedOk(toS'[u]) => VerifiedOk(toS[u])
    BY <1>q, <2>1, <2>2, NoNewVerdict
  <2>4. /\ rpc[t] \notin Decided /\ rpc' = [rpc EXCEPT ![t] = "failed"]
        /\ UNCHANGED <<spc, rok, delivered, faulty>>
        /\ rfile' = rfile \/ rfile' = [rfile EXCEPT ![t] = 1]
    BY <1>24, <1>q DEF FinalizeFails, SetRpc, senderVars, storeVars, environment, Decided
  <2> QED BY <2>3, <2>4, ReceiverMoves
<1>25. ASSUME NEW t \in Transfers, SendVerified(t) PROVE AgreementInv'
  <2>1. /\ rpc[t] = "finalizing" /\ rfile[t] \notin Idx(t)
        /\ toS' = [toS EXCEPT ![t] = Append(@, VerifiedMsg(rok[t]))]
        /\ rpc' = [rpc EXCEPT ![t] = IF rok[t] THEN "removing" ELSE "closing"]
        /\ UNCHANGED <<spc, rfile, rok, delivered, faulty>>
    BY <1>25 DEF SendVerified, SetRpc, SendToS, senderVars, storeVars, environment
  <2>2. VerifiedMsg(rok[t]) \in Message /\ toS[t] \in Seq(Message)
    BY <1>q, MessageTypes
  <2>3. VerifiedOk(toS'[t]) => VerifiedOk(toS[t]) \/ rok[t]
    <3>1. toS'[t] = Append(toS[t], VerifiedMsg(rok[t]))
      BY <1>q, <2>1
    <3>2. VerifiedMsg(rok[t]).ok = rok[t]
      BY MessageKinds
    <3> QED BY <2>2, <3>1, <3>2, VerifiedQueue
  <2>4. ~VerifiedOk(toS[t]) /\ spc[t] # "completed" /\ spc[t] # "idle"
    BY <2>1
  <2>5. rok[t] => \A i \in Idx(t) : Delivered(t, i)
    <3>1. \A i \in Idx(t) : i < rfile[t]
      <4>1. Idx(t) = 1 .. Len(FilesOf[t]) /\ Len(FilesOf[t]) \in Nat
        BY FileIndexNat, ConstantsAssumption DEF ConstantsAssumption
      <4>2. rfile[t] \in Nat /\ rfile[t] >= 1
        BY <1>q
      <4> QED BY <2>1, <4>1, <4>2
    <3> QED BY <2>1, <3>1
  <2>6. \A u \in Transfers : u # t => toS'[u] = toS[u] /\ rpc'[u] = rpc[u]
    BY <1>q, <2>1
  <2>7. rpc'[t] = IF rok[t] THEN "removing" ELSE "closing"
    BY <1>q, <2>1
  <2> HIDE DEF Delivered
  <2>8. \A u \in Transfers : \A i \in Idx(u) : Delivered(u, i)' <=> Delivered(u, i)
    BY <2>1 DEF Delivered
  <2> QED BY <2>1, <2>3, <2>4, <2>5, <2>6, <2>7, <2>8
<1>33. ASSUME NEW t \in Transfers, RemoveResumeState(t) PROVE AgreementInv'
  <2>1. /\ rpc[t] = "removing" /\ rpc' = [rpc EXCEPT ![t] = "closing"]
        /\ UNCHANGED <<spc, toS, rfile, rok, delivered, faulty>>
    BY <1>33 DEF RemoveResumeState, SetRpc, senderVars, environment
  <2>2. \A u \in Transfers : rpc'[u] = IF u = t THEN "closing" ELSE rpc[u]
    BY <1>q, <2>1
  <2> QED BY <2>1, <2>2
<1>34. ASSUME NEW t \in Transfers, EndReceiving(t) PROVE AgreementInv'
  <2> DEFINE m == Msg("FIN")
  <2>1. m \in Message /\ m.type # "Verified"
    BY MessageTypes, MessageKinds
  <2>2. toS' = [toS EXCEPT ![t] = Append(@, m)]
    BY <1>34 DEF EndReceiving, SendToS
  <2> HIDE DEF m
  <2>3. \A u \in Transfers : VerifiedOk(toS'[u]) => VerifiedOk(toS[u])
    BY <1>q, <2>1, <2>2, NoNewVerdict
  <2>4. /\ rpc[t] = "closing" /\ UNCHANGED <<spc, rfile, rok, delivered, faulty>>
        /\ \A u \in Transfers :
             rpc'[u] = IF u = t THEN IF rok[t] THEN "completed" ELSE "incomplete" ELSE rpc[u]
    BY <1>34, <1>q DEF EndReceiving, SetRpc, senderVars, storeVars, environment
  <2>5. \A u \in Transfers : Succeeds(u) => Succeeds(u)'
    BY <2>4
  <2>6. \A u \in Transfers : rpc'[u] \in {"removing", "closing", "completed"} /\ rok'[u] =>
                              rpc[u] \in {"removing", "closing", "completed"} /\ rok[u]
    BY <2>4
  <2> QED BY <2>3, <2>4, <2>5, <2>6
<1>26. ASSUME NEW t \in Transfers, RecvClosed(t) PROVE AgreementInv'
  <2> DEFINE m == Closing(Tail(toR[t]))
  <2>1. m \in Message /\ m.type # "Verified"
    BY MessageTypes, MessageKinds
  <2>2. toS' = [toS EXCEPT ![t] = Append(@, m)]
    BY <1>26 DEF RecvClosed, ReceiverStops, SendToS
  <2> HIDE DEF m
  <2>3. \A u \in Transfers : VerifiedOk(toS'[u]) => VerifiedOk(toS[u])
    BY <1>q, <2>1, <2>2, NoNewVerdict
  <2>4. /\ rpc[t] \notin Decided /\ rpc' = [rpc EXCEPT ![t] = "failed"]
        /\ UNCHANGED <<spc, rok, delivered, faulty>>
        /\ rfile' = rfile \/ rfile' = [rfile EXCEPT ![t] = 1]
    BY <1>26, <1>q DEF RecvClosed, ReceiverStops, SetRpc, senderVars, environment, Decided
  <2> QED BY <2>3, <2>4, ReceiverMoves
<1>27. ASSUME NEW t \in Transfers, ReceiverRecvFails(t) PROVE AgreementInv'
  <2> DEFINE m == Closing(Tail(toR[t]))
  <2>1. m \in Message /\ m.type # "Verified"
    BY MessageTypes, MessageKinds
  <2>2. toS' = [toS EXCEPT ![t] = Append(@, m)]
    BY <1>27 DEF ReceiverRecvFails, ReceiverStops, SendToS
  <2> HIDE DEF m
  <2>3. \A u \in Transfers : VerifiedOk(toS'[u]) => VerifiedOk(toS[u])
    BY <1>q, <2>1, <2>2, NoNewVerdict
  <2>4. /\ rpc[t] \notin Decided /\ rpc' = [rpc EXCEPT ![t] = "failed"]
        /\ UNCHANGED <<spc, rok, delivered, faulty>>
        /\ rfile' = rfile \/ rfile' = [rfile EXCEPT ![t] = 1]
    BY <1>27, <1>q DEF ReceiverRecvFails, ReceiverStops, SetRpc, senderVars, storeVars, ReceiverWaiting, environment, Decided
  <2> QED BY <2>3, <2>4, ReceiverMoves
<1>28. ASSUME NEW t \in Transfers, ConnectFails(t) PROVE AgreementInv'
  BY <1>28, <1>q
     DEF ConnectFails, Fault, receiverVars, storeVars, SetSpc
<1>29. ASSUME NEW t \in Transfers, SenderCrash(t) PROVE AgreementInv'
  BY <1>29, <1>q, MessageTypes, MessageKinds, VerifiedQueue
     DEF SenderCrash, Fault, receiverVars, storeVars, SetSpc, SendToR, SenderActive, SenderWaiting
<1>30. ASSUME NEW t \in Transfers, ReceiverCrash(t) PROVE AgreementInv'
  <2>1. PICK kind \in {"FIN", "RST"} : toS' = [toS EXCEPT ![t] = Append(@, Msg(kind))]
    BY <1>30 DEF ReceiverCrash, SendToS
  <2> DEFINE m == Msg(kind)
  <2>2. m \in Message /\ m.type # "Verified" /\ toS' = [toS EXCEPT ![t] = Append(@, m)]
    BY <2>1, MessageTypes, MessageKinds
  <2> HIDE DEF m
  <2>3. \A u \in Transfers : VerifiedOk(toS'[u]) => VerifiedOk(toS[u])
    BY <1>q, <2>2, NoNewVerdict
  <2>4. /\ rpc' = [rpc EXCEPT ![t] = "failed"] /\ rpc[t] # "idle"
        /\ UNCHANGED <<spc, rok, delivered, rfile>> /\ faulty' = faulty \cup {t}
    BY <1>30 DEF ReceiverCrash, Fault, SetRpc, senderVars, storeVars, ReceiverActive, ReceiverWaiting
  <2>5. \A u \in Transfers : rpc'[u] = IF u = t THEN "failed" ELSE rpc[u]
    BY <1>q, <2>4
  <2> QED BY <2>3, <2>4, <2>5
<1>32. ASSUME NEW t \in Transfers, SaveTorn(t) PROVE AgreementInv'
  <2> DEFINE m == Closing(Tail(toR[t]))
  <2>1. m \in Message /\ m.type # "Verified"
    BY MessageTypes, MessageKinds
  <2>2. toS' = [toS EXCEPT ![t] = Append(@, m)]
    BY <1>32 DEF SaveTorn, ReceiverStops, SendToS
  <2> HIDE DEF m
  <2>3. \A u \in Transfers : VerifiedOk(toS'[u]) => VerifiedOk(toS[u])
    BY <1>q, <2>1, <2>2, NoNewVerdict
  <2>4. /\ rpc[t] \notin Decided /\ rpc' = [rpc EXCEPT ![t] = "failed"]
        /\ UNCHANGED <<spc, rok, delivered>> /\ faulty \subseteq faulty'
        /\ rfile' = rfile \/ rfile' = [rfile EXCEPT ![t] = 1]
    BY <1>32, <1>q DEF SaveTorn, ReceiverStops, SetRpc, senderVars, Fault, Decided
  <2> QED BY <2>3, <2>4, ReceiverMoves
<1>31. ASSUME NEW t \in Transfers, Disconnect(t) PROVE AgreementInv'
  <2> DEFINE m == Msg("RST")
  <2>1. m \in Message /\ m.type # "Verified"
    BY MessageTypes, MessageKinds
  <2>2. toS' = [toS EXCEPT ![t] = <<m>>]
    BY <1>31 DEF Disconnect
  <2> HIDE DEF m
  <2>3. \A u \in Transfers : VerifiedOk(toS'[u]) => VerifiedOk(toS[u])
    BY <1>q, <2>1, <2>2, NoNewVerdict
  <2>4. UNCHANGED <<spc, rpc, rfile, rok, delivered>> /\ faulty \subseteq faulty'
    BY <1>31 DEF Disconnect, Fault, senderVars, receiverVars, storeVars
  <2> QED BY <2>3, <2>4
<1>u. CASE UNCHANGED vars
  BY <1>u DEF vars
<1> QED BY <1>e, <1>1, <1>2, <1>3, <1>4, <1>5, <1>6, <1>7, <1>8, <1>9, <1>10, <1>11, <1>12, <1>13, <1>14, <1>15, <1>16, <1>17, <1>18, <1>19, <1>20, <1>21, <1>22, <1>23, <1>24, <1>25, <1>26, <1>27, <1>28, <1>29, <1>30, <1>31, <1>32, <1>33, <1>34, <1>u
     DEF Next, SenderStep, ReceiverStep, FaultStep

\* send_files reports success only when handle_incoming has put every file of the
\* manifest into the download directory, and handle_incoming comes to the same result
\* unless it is killed on its last steps: under any number of transfers, retries,
\* crashes, lost connections, edits of the sources, shared partial files and chunk sizes.
THEOREM CompletedAgrees == Spec => []CompletedAgreement
<1>1. AgreementInv => CompletedAgreement
  BY DEF AgreementInv, CompletedAgreement
<1> QED BY <1>1, TypeInit, TypeStep, AgreementInit, AgreementStep, PTL DEF Spec

---------------------------------------------------------------------------
(* The two halves in step *)

\* The last message of an end that closes.
IsEnd(m) == m.type \in {"FIN", "RST"}

\* One message is under way, of one of these kinds.
Just(q, kinds) == Len(q) = 1 /\ q[1].type \in kinds

\* A chunk or an acknowledgement for the chunk the cursor is at.
IsAt(m, c) == m.file = c.file /\ m.off = c.off

\* Neither end has closed: where they stand (s, r), what is under way (x to the
\* receiver, y to the sender) and the sender's cursor fit together.
InStep(s, r, x, y, c) ==
  \/ s = "handshake" /\ r = "hs1" /\ Just(x, {"Hs1"}) /\ y = <<>>
  \/ s = "handshake" /\ r = "hs3" /\ x = <<>> /\ Just(y, {"Hs2"})
  \/ /\ s = "negotiating" /\ r = "hs3"
     /\ Len(x) = 2 /\ x[1].type = "Hs3" /\ x[2].type = "Request" /\ y = <<>>
  \/ s = "negotiating" /\ r = "waitRequest" /\ Just(x, {"Request"}) /\ y = <<>>
  \/ s = "negotiating" /\ r = "deciding" /\ x = <<>> /\ y = <<>>
  \/ s = "negotiating" /\ r \in {"creating", "receiving"} /\ x = <<>> /\ Just(y, {"Accept", "ResumeAt"})
  \/ s = "sending" /\ r \in {"creating", "receiving"} /\ x = <<>> /\ y = <<>>
  \/ s = "awaitAck" /\ r \in {"creating", "receiving"} /\ Just(x, {"Chunk"}) /\ IsAt(x[1], c) /\ y = <<>>
  \/ s = "awaitAck" /\ r = "receiving" /\ x = <<>> /\ Just(y, {"Ack"}) /\ IsAt(y[1], c)
  \/ s = "verifying" /\ r \in {"creating", "receiving"} /\ Just(x, {"Complete"}) /\ y = <<>>
  \/ s = "verifying" /\ r = "finalizing" /\ x = <<>> /\ y = <<>>
  \/ s = "verifying" /\ r \in {"removing", "closing"} /\ x = <<>> /\ Just(y, {"Verified"})

\* The sender will read the end of the connection next, or after the one message it
\* waits for.
SenderWillEnd(s, y, c) ==
  s \in SenderActive =>
    /\ y # <<>>
    /\ \/ IsEnd(y[1])
       \/ /\ Len(y) >= 2 /\ IsEnd(y[2])
          /\ y[1].type \in SenderExpects(s)
          /\ y[1].type = "Ack" => IsAt(y[1], c)

\* So will the receiver: while it waits for Noise message 3 the request may follow it.
ReceiverWillEnd(r, x) ==
  r \in ReceiverActive =>
    /\ x # <<>>
    /\ \/ IsEnd(x[1])
       \/ /\ Len(x) >= 2 /\ IsEnd(x[2])
          /\ x[1].type \in (IF r = "creating" THEN {"Chunk", "Complete"} ELSE ReceiverExpects(r))
       \/ r = "hs3" /\ Len(x) >= 3 /\ x[1].type = "Hs3" /\ x[2].type = "Request" /\ IsEnd(x[3])

Parted(s, r, x, y, c) ==
  s # "idle" /\ r # "idle" /\ SenderWillEnd(s, y, c) /\ ReceiverWillEnd(r, x)

Fits(s, r, x, y, c) ==
  \/ s \in {"idle", "failed"} /\ r = "idle" /\ x = <<>> /\ y = <<>>
  \/ InStep(s, r, x, y, c)
  \/ Parted(s, r, x, y, c)

ProtocolInv == \A t \in Transfers : Fits(spc[t], rpc[t], toR[t], toS[t], cur[t])

---------------------------------------------------------------------------
(* What closing does *)

\* The messages of a queue after one or two are added ...
LEMMA QueueAppended ==
  ASSUME NEW q \in Seq(Message), NEW m \in Message
  PROVE  /\ Len(q) \in Nat /\ (q = <<>> <=> Len(q) = 0)
         /\ Len(Append(q, m)) = Len(q) + 1 /\ Append(q, m)[Len(q) + 1] = m
         /\ Append(q, m) # <<>>
         /\ \A k \in 1 .. Len(q) : Append(q, m)[k] = q[k]
OBVIOUS

LEMMA QueueMessages ==
  ASSUME NEW q \in Seq(Message), NEW m \in Message, NEW n \in Message
  PROVE  /\ Len(q) \in Nat /\ (q = <<>> <=> Len(q) = 0)
         /\ Len(q \o <<m, n>>) = Len(q) + 2 /\ q \o <<m, n>> # <<>>
         /\ (q \o <<m, n>>)[Len(q) + 1] = m /\ (q \o <<m, n>>)[Len(q) + 2] = n
         /\ \A k \in 1 .. Len(q) : (q \o <<m, n>>)[k] = q[k]
OBVIOUS

\* ... or one is taken.
LEMMA QueueTaken ==
  ASSUME NEW q \in Seq(Message), q # <<>>
  PROVE  /\ Head(q) = q[1] /\ Len(q) \in Nat /\ Len(q) >= 1
         /\ Len(q) = 1 => Tail(q) = <<>>
         /\ Len(Tail(q)) = Len(q) - 1
         /\ Len(q) >= 2 => Tail(q) # <<>> /\ Tail(q)[1] = q[2]
         /\ Len(q) >= 3 => Tail(q)[2] = q[3]
<1>1. /\ Head(q) = q[1] /\ Len(q) \in Nat /\ Len(q) >= 1
      /\ Tail(q) \in Seq(Message) /\ Len(Tail(q)) = Len(q) - 1
  OBVIOUS
<1>2. Len(q) >= 2 => Tail(q)[1] = q[2]
  OBVIOUS
<1>3. Len(q) >= 3 => Tail(q)[2] = q[3]
  OBVIOUS
<1>4. \A p \in Seq(Message) : p = <<>> <=> Len(p) = 0
  OBVIOUS
<1> QED BY <1>1, <1>2, <1>3, <1>4

\* What is added to a queue does not change what the end that reads it is about to read.
LEMMA EndStays ==
  ASSUME NEW q \in Seq(Message), NEW m \in Message, NEW s, NEW r, NEW c
  PROVE  /\ SenderWillEnd(s, q, c) =>
              /\ SenderWillEnd(s, Append(q, m), c)
              /\ \A n \in Message : SenderWillEnd(s, q \o <<m, n>>, c)
         /\ ReceiverWillEnd(r, q) =>
              /\ ReceiverWillEnd(r, Append(q, m))
              /\ \A n \in Message : ReceiverWillEnd(r, q \o <<m, n>>)
<1>1. SenderWillEnd(s, q, c) => SenderWillEnd(s, Append(q, m), c)
  BY QueueAppended DEF SenderWillEnd
<1>2. ASSUME NEW n \in Message, SenderWillEnd(s, q, c) PROVE SenderWillEnd(s, q \o <<m, n>>, c)
  BY <1>2, QueueMessages DEF SenderWillEnd
<1>3. ReceiverWillEnd(r, q) => ReceiverWillEnd(r, Append(q, m))
  BY QueueAppended DEF ReceiverWillEnd
<1>4. ASSUME NEW n \in Message, ReceiverWillEnd(r, q) PROVE ReceiverWillEnd(r, q \o <<m, n>>)
  BY <1>4, QueueMessages DEF ReceiverWillEnd
<1> QED BY <1>1, <1>2, <1>3, <1>4

\* An end that reads what it waits for, when the connection has ended behind it, will read
\* the end next: wherever it goes on.
LEMMA EndComes ==
  ASSUME NEW q \in Seq(Message), q # <<>>
  PROVE  /\ \A s \in SenderActive : \A c, s2, c2 :
              SenderWillEnd(s, q, c) /\ Head(q).type \in SenderExpects(s) =>
                SenderWillEnd(s2, Tail(q), c2)
         /\ \A r \in ReceiverActive \ {"hs3"} : \A r2 :
              ReceiverWillEnd(r, q) /\ Head(q).type \in ReceiverExpects(r) =>
                ReceiverWillEnd(r2, Tail(q))
         /\ ReceiverWillEnd("hs3", q) /\ Head(q).type = "Hs3" => ReceiverWillEnd("waitRequest", Tail(q))
<1>1. ASSUME NEW s \in SenderActive, NEW c, NEW s2, NEW c2,
             SenderWillEnd(s, q, c), Head(q).type \in SenderExpects(s)
      PROVE  SenderWillEnd(s2, Tail(q), c2)
  <2>1. ~IsEnd(q[1])
    BY <1>1, QueueTaken DEF SenderExpects, IsEnd
  <2>2. Len(q) >= 2 /\ IsEnd(q[2])
    BY <1>1, <2>1 DEF SenderWillEnd
  <2> QED BY <2>2, QueueTaken DEF SenderWillEnd
<1>2. ASSUME NEW r \in ReceiverActive \ {"hs3"}, NEW r2,
             ReceiverWillEnd(r, q), Head(q).type \in ReceiverExpects(r)
      PROVE  ReceiverWillEnd(r2, Tail(q))
  <2>1. ~IsEnd(q[1])
    BY <1>2, QueueTaken DEF ReceiverExpects, IsEnd
  <2>2. Len(q) >= 2 /\ IsEnd(q[2])
    BY <1>2, <2>1 DEF ReceiverWillEnd
  <2> QED BY <2>2, QueueTaken DEF ReceiverWillEnd
<1>3. ASSUME ReceiverWillEnd("hs3", q), Head(q).type = "Hs3"
      PROVE  ReceiverWillEnd("waitRequest", Tail(q))
  BY <1>3, QueueTaken
     DEF ReceiverWillEnd, IsEnd, ReceiverExpects, ReceiverActive, ReceiverWaiting
<1> QED BY <1>1, <1>2, <1>3

\* The sender closes: what the receiver still has to read ends.
LEMMA SenderCloses ==
  ASSUME NEW s, NEW r, NEW x \in Seq(Message), NEW y, NEW c, Fits(s, r, x, y, c), s \in SenderActive,
         NEW e \in Message, IsEnd(e),
         NEW s2, s2 \notin SenderActive, s2 # "idle", NEW y2, NEW c2
  PROVE  Fits(s2, r, Append(x, e), y2, c2)
<1>1. CASE InStep(s, r, x, y, c)
  <2>1. r # "idle"
    BY <1>1 DEF InStep
  <2>2. ReceiverWillEnd(r, Append(x, e))
    BY <1>1, QueueAppended
       DEF InStep, Just, ReceiverWillEnd, ReceiverExpects, ReceiverActive, ReceiverWaiting
  <2> QED BY <2>1, <2>2 DEF Fits, Parted, SenderWillEnd
<1>2. CASE Parted(s, r, x, y, c)
  BY <1>2, EndStays DEF Fits, Parted, SenderWillEnd
<1> QED BY <1>1, <1>2 DEF Fits, SenderActive, SenderWaiting

\* The receiver closes: what the sender still has to read ends.
LEMMA ReceiverCloses ==
  ASSUME NEW s, NEW r, NEW x, NEW y \in Seq(Message), NEW c, Fits(s, r, x, y, c), r \in ReceiverActive,
         NEW e \in Message, IsEnd(e),
         NEW r2, r2 \notin ReceiverActive, r2 # "idle", NEW x2
  PROVE  /\ Fits(s, r2, x2, Append(y, e), c)
         /\ r = "deciding" => Fits(s, r2, x2, y \o <<Msg("Reject"), e>>, c)
<1>1. CASE InStep(s, r, x, y, c)
  <2>1. s # "idle"
    BY <1>1 DEF InStep
  <2>2. SenderWillEnd(s, Append(y, e), c)
    BY <1>1, QueueAppended
       DEF InStep, Just, SenderWillEnd, SenderExpects, SenderActive, SenderWaiting
  <2>3. ASSUME r = "deciding" PROVE SenderWillEnd(s, y \o <<Msg("Reject"), e>>, c)
    <3>1. s = "negotiating" /\ y = <<>>
      BY <1>1, <2>3 DEF InStep
    <3>2. Msg("Reject") \in Message /\ Msg("Reject").type = "Reject"
      BY MessageTypes, MessageKinds
    <3> QED BY <3>1, <3>2, QueueMessages DEF SenderWillEnd, SenderExpects
  <2> QED BY <2>1, <2>2, <2>3 DEF Fits, Parted, ReceiverWillEnd
<1>2. CASE Parted(s, r, x, y, c)
  <2>1. Msg("Reject") \in Message
    BY MessageTypes
  <2> QED BY <1>2, <2>1, EndStays DEF Fits, Parted, ReceiverWillEnd
<1> QED BY <1>1, <1>2 DEF Fits, ReceiverActive, ReceiverWaiting

\* Closing is the end of the connection.
LEMMA ClosingEnds ==
  /\ \A u : Closing(u) \in Message /\ IsEnd(Closing(u))
  /\ \A k \in {"FIN", "RST"} : Msg(k) \in Message /\ IsEnd(Msg(k))
BY MessageTypes, MessageKinds DEF IsEnd

\* What happens to one transfer leaves the others as they fit.
LEMMA Elsewhere ==
  ASSUME ProtocolInv, NEW t \in Transfers,
         \A u \in Transfers : u # t =>
            /\ spc'[u] = spc[u] /\ rpc'[u] = rpc[u] /\ cur'[u] = cur[u]
            /\ toR'[u] = toR[u] /\ toS'[u] = toS[u],
         Fits(spc'[t], rpc'[t], toR'[t], toS'[t], cur'[t])
  PROVE  ProtocolInv'
BY DEF ProtocolInv

LEMMA ProtocolInit == Init => ProtocolInv
BY DEF Init, ProtocolInv, Fits
---------------------------------------------------------------------------
(* Every step keeps the two halves in step *)

\* Transfer t goes on with these values, the others stay.
Turns(t, s, r, x, y, c) ==
  /\ spc' = [spc EXCEPT ![t] = s] /\ rpc' = [rpc EXCEPT ![t] = r]
  /\ toR' = [toR EXCEPT ![t] = x] /\ toS' = [toS EXCEPT ![t] = y]
  /\ cur' = [cur EXCEPT ![t] = c]

LEMMA TurnsFit ==
  ASSUME TypeOK, ProtocolInv, NEW t \in Transfers, NEW s, NEW r, NEW x, NEW y, NEW c,
         Turns(t, s, r, x, y, c), Fits(s, r, x, y, c)
  PROVE  ProtocolInv'
<1>1. /\ spc'[t] = s /\ rpc'[t] = r /\ toR'[t] = x /\ toS'[t] = y /\ cur'[t] = c
      /\ \A u \in Transfers : u # t =>
            /\ spc'[u] = spc[u] /\ rpc'[u] = rpc[u] /\ cur'[u] = cur[u]
            /\ toR'[u] = toR[u] /\ toS'[u] = toS[u]
  BY DEF Turns, TypeOK
<1> QED BY <1>1, Elsewhere

LEMMA ProtocolStep == TypeOK /\ ProtocolInv /\ [Next]_vars => ProtocolInv'
<1> SUFFICES ASSUME TypeOK, ProtocolInv, [Next]_vars PROVE ProtocolInv'
  OBVIOUS
<1>q. /\ spc \in [Transfers -> SenderStates] /\ rpc \in [Transfers -> ReceiverStates]
      /\ toR \in [Transfers -> Seq(Message)] /\ toS \in [Transfers -> Seq(Message)]
      /\ cur \in [Transfers -> Cursor]
  BY DEF TypeOK
<1>f. \A t \in Transfers : Fits(spc[t], rpc[t], toR[t], toS[t], cur[t]) /\ toR[t] \in Seq(Message)
                             /\ toS[t] \in Seq(Message)
  BY <1>q DEF ProtocolInv
<1>e. ASSUME NEW s \in Sources, EditSource(s) PROVE ProtocolInv'
  BY <1>e DEF EditSource, ProtocolInv, senderVars, receiverVars
<1>1. ASSUME NEW t \in Transfers, Prepare(t) PROVE ProtocolInv'
  <2>1. Turns(t, "handshake", "hs1", Append(toR[t], Msg("Hs1")), toS[t], cur[t])
    BY <1>1, <1>q DEF Prepare, Turns, SetSpc, SetRpc, SendToR, HandlerStarts, storeVars, environment
  <2>3. Msg("Hs1") \in Message /\ Msg("Hs1").type = "Hs1"
    BY MessageTypes, MessageKinds
  <2>4. spc[t] = "idle"
    BY <1>1 DEF Prepare
  <2>5. toR[t] = <<>> /\ toS[t] = <<>>
    BY <1>f, <2>4 DEF Fits, InStep, Parted
  <2>9. Fits("handshake", "hs1", Append(toR[t], Msg("Hs1")), toS[t], cur[t])
    BY <1>f, <2>3, <2>5, QueueAppended DEF Fits, InStep, Just
  <2> QED BY <2>1, <2>9, TurnsFit
<1>2. ASSUME NEW t \in Transfers, SendRequest(t) PROVE ProtocolInv'
  <2>1. Turns(t, "negotiating", rpc[t], toR[t] \o <<Msg("Hs3"), Msg("Request")>>, Tail(toS[t]), cur[t])
    BY <1>2, <1>q DEF SendRequest, Turns, SetSpc, ConsumeS, receiverVars, storeVars, environment
  <2>2. spc[t] = "handshake" /\ toS[t] # <<>> /\ Head(toS[t]).type = "Hs2"
    BY <1>2 DEF SendRequest, SenderGets, AtChunk
  <2>3. /\ Msg("Hs3") \in Message /\ Msg("Request") \in Message
        /\ Msg("Hs3").type = "Hs3" /\ Msg("Request").type = "Request"
    BY MessageTypes, MessageKinds
  <2>4. ASSUME InStep(spc[t], rpc[t], toR[t], toS[t], cur[t])
        PROVE  Fits("negotiating", rpc[t], toR[t] \o <<Msg("Hs3"), Msg("Request")>>, Tail(toS[t]), cur[t])
    BY <1>f, <2>2, <2>3, <2>4, QueueTaken, QueueAppended, QueueMessages
       DEF Fits, InStep, Just, IsAt, Parted, IsEnd, SenderWillEnd, ReceiverWillEnd
  <2>5. ASSUME Parted(spc[t], rpc[t], toR[t], toS[t], cur[t])
        PROVE  Fits("negotiating", rpc[t], toR[t] \o <<Msg("Hs3"), Msg("Request")>>, Tail(toS[t]), cur[t])
    <3>1. /\ "negotiating" # "idle" /\ rpc[t] # "idle" /\ spc[t] # "idle" /\ rpc[t] # "idle"
          /\ SenderWillEnd(spc[t], toS[t], cur[t]) /\ ReceiverWillEnd(rpc[t], toR[t])
      BY <2>2, <2>5 DEF Parted
    <3>2. SenderWillEnd("negotiating", Tail(toS[t]), cur[t])
      BY <1>f, <2>2, <2>3, <3>1, EndStays, EndComes
         DEF SenderExpects, SenderActive, SenderWaiting
    <3>3. ReceiverWillEnd(rpc[t], toR[t] \o <<Msg("Hs3"), Msg("Request")>>)
      BY <1>f, <2>2, <2>3, <3>1, EndStays
         DEF ReceiverExpects, ReceiverActive, ReceiverWaiting
    <3> QED BY <3>1, <3>2, <3>3 DEF Fits, Parted
  <2>9. Fits("negotiating", rpc[t], toR[t] \o <<Msg("Hs3"), Msg("Request")>>, Tail(toS[t]), cur[t])
    BY <1>f, <2>2, <2>4, <2>5 DEF Fits
  <2> QED BY <2>1, <2>9, TurnsFit
<1>3. ASSUME NEW t \in Transfers, RecvAccept(t) PROVE ProtocolInv'
  <2>1. Turns(t, "sending", rpc[t], toR[t], Tail(toS[t]), OpenFile(t, 1))
    BY <1>3, <1>q DEF RecvAccept, Turns, SetSpc, ConsumeS, receiverVars, storeVars, environment
  <2>2. spc[t] = "negotiating" /\ toS[t] # <<>> /\ Head(toS[t]).type = "Accept"
    BY <1>3 DEF RecvAccept, SenderGets, AtChunk
  <2>4. ASSUME InStep(spc[t], rpc[t], toR[t], toS[t], cur[t])
        PROVE  Fits("sending", rpc[t], toR[t], Tail(toS[t]), OpenFile(t, 1))
    BY <1>f, <2>2, <2>4, QueueTaken, QueueAppended, QueueMessages
       DEF Fits, InStep, Just, IsAt, Parted, IsEnd, SenderWillEnd, ReceiverWillEnd
  <2>5. ASSUME Parted(spc[t], rpc[t], toR[t], toS[t], cur[t])
        PROVE  Fits("sending", rpc[t], toR[t], Tail(toS[t]), OpenFile(t, 1))
    <3>1. /\ "sending" # "idle" /\ rpc[t] # "idle" /\ spc[t] # "idle" /\ rpc[t] # "idle"
          /\ SenderWillEnd(spc[t], toS[t], cur[t]) /\ ReceiverWillEnd(rpc[t], toR[t])
      BY <2>2, <2>5 DEF Parted
    <3>2. SenderWillEnd("sending", Tail(toS[t]), OpenFile(t, 1))
      BY <1>f, <2>2, <3>1, EndStays, EndComes
         DEF SenderExpects, SenderActive, SenderWaiting
    <3>3. ReceiverWillEnd(rpc[t], toR[t])
      BY <1>f, <2>2, <3>1, EndStays
         DEF ReceiverExpects, ReceiverActive, ReceiverWaiting
    <3> QED BY <3>1, <3>2, <3>3 DEF Fits, Parted
  <2>9. Fits("sending", rpc[t], toR[t], Tail(toS[t]), OpenFile(t, 1))
    BY <1>f, <2>2, <2>4, <2>5 DEF Fits
  <2> QED BY <2>1, <2>9, TurnsFit
<1>4. ASSUME NEW t \in Transfers, RecvResumeAt(t) PROVE ProtocolInv'
  <2>1. Turns(t, "sending", rpc[t], toR[t], Tail(toS[t]), OpenFile(t, 1))
    BY <1>4, <1>q DEF RecvResumeAt, Turns, SetSpc, ConsumeS, receiverVars, storeVars, environment
  <2>2. spc[t] = "negotiating" /\ toS[t] # <<>> /\ Head(toS[t]).type = "ResumeAt"
    BY <1>4 DEF RecvResumeAt, SenderGets, AtChunk
  <2>4. ASSUME InStep(spc[t], rpc[t], toR[t], toS[t], cur[t])
        PROVE  Fits("sending", rpc[t], toR[t], Tail(toS[t]), OpenFile(t, 1))
    BY <1>f, <2>2, <2>4, QueueTaken, QueueAppended, QueueMessages
       DEF Fits, InStep, Just, IsAt, Parted, IsEnd, SenderWillEnd, ReceiverWillEnd
  <2>5. ASSUME Parted(spc[t], rpc[t], toR[t], toS[t], cur[t])
        PROVE  Fits("sending", rpc[t], toR[t], Tail(toS[t]), OpenFile(t, 1))
    <3>1. /\ "sending" # "idle" /\ rpc[t] # "idle" /\ spc[t] # "idle" /\ rpc[t] # "idle"
          /\ SenderWillEnd(spc[t], toS[t], cur[t]) /\ ReceiverWillEnd(rpc[t], toR[t])
      BY <2>2, <2>5 DEF Parted
    <3>2. SenderWillEnd("sending", Tail(toS[t]), OpenFile(t, 1))
      BY <1>f, <2>2, <3>1, EndStays, EndComes
         DEF SenderExpects, SenderActive, SenderWaiting
    <3>3. ReceiverWillEnd(rpc[t], toR[t])
      BY <1>f, <2>2, <3>1, EndStays
         DEF ReceiverExpects, ReceiverActive, ReceiverWaiting
    <3> QED BY <3>1, <3>2, <3>3 DEF Fits, Parted
  <2>9. Fits("sending", rpc[t], toR[t], Tail(toS[t]), OpenFile(t, 1))
    BY <1>f, <2>2, <2>4, <2>5 DEF Fits
  <2> QED BY <2>1, <2>9, TurnsFit
<1>5. ASSUME NEW t \in Transfers, RecvReject(t) PROVE ProtocolInv'
  <2>1. Turns(t, "rejected", rpc[t], Append(toR[t], Closing(Tail(toS[t]))), Tail(toS[t]), cur[t])
    BY <1>5, <1>q DEF RecvReject, Turns, SetSpc, SendToR, ConsumeS, SenderStops, receiverVars,
         storeVars, environment
  <2>2. spc[t] = "negotiating"
    BY <1>5 DEF RecvReject
  <2>9. Fits("rejected", rpc[t], Append(toR[t], Closing(Tail(toS[t]))), Tail(toS[t]), cur[t])
    BY <1>f, <2>2, ClosingEnds, SenderCloses DEF SenderActive, SenderWaiting
  <2> QED BY <2>1, <2>9, TurnsFit
<1>6. ASSUME NEW t \in Transfers, SkipChunk(t) PROVE ProtocolInv'
  <2>1. Turns(t, spc[t], rpc[t], toR[t], toS[t], NextChunk(t))
    BY <1>6, <1>q DEF SkipChunk, Turns, receiverVars, storeVars, environment
  <2>2. spc[t] = "sending"
    BY <1>6 DEF SkipChunk, AtChunk
  <2>4. ASSUME InStep(spc[t], rpc[t], toR[t], toS[t], cur[t])
        PROVE  Fits(spc[t], rpc[t], toR[t], toS[t], NextChunk(t))
    BY <1>f, <2>2, <2>4, QueueAppended, QueueMessages
       DEF Fits, InStep, Just, IsAt, Parted, IsEnd, SenderWillEnd, ReceiverWillEnd
  <2>5. ASSUME Parted(spc[t], rpc[t], toR[t], toS[t], cur[t])
        PROVE  Fits(spc[t], rpc[t], toR[t], toS[t], NextChunk(t))
    <3>1. /\ spc[t] # "idle" /\ rpc[t] # "idle" /\ spc[t] # "idle" /\ rpc[t] # "idle"
          /\ SenderWillEnd(spc[t], toS[t], cur[t]) /\ ReceiverWillEnd(rpc[t], toR[t])
      BY <2>2, <2>5 DEF Parted
    <3>2. SenderWillEnd(spc[t], toS[t], NextChunk(t))
      BY <1>f, <2>2, <3>1, EndStays
         DEF SenderExpects, SenderActive, SenderWaiting, SenderWillEnd
    <3>3. ReceiverWillEnd(rpc[t], toR[t])
      BY <1>f, <2>2, <3>1, EndStays
         DEF ReceiverExpects, ReceiverActive, ReceiverWaiting
    <3> QED BY <3>1, <3>2, <3>3 DEF Fits, Parted
  <2>9. Fits(spc[t], rpc[t], toR[t], toS[t], NextChunk(t))
    BY <1>f, <2>2, <2>4, <2>5 DEF Fits
  <2> QED BY <2>1, <2>9, TurnsFit
<1>7. ASSUME NEW t \in Transfers, SendChunk(t) PROVE ProtocolInv'
  <2>1. Turns(t, "awaitAck", rpc[t], Append(toR[t], ChunkMsg(cur[t].file, cur[t].off, ReadSpan(t))), toS[t], cur[t])
    BY <1>7, <1>q DEF SendChunk, Turns, SetSpc, SendToR, receiverVars, storeVars, environment
  <2>2. spc[t] = "sending" /\ cur[t].file \in Idx(t)
    BY <1>7 DEF SendChunk, AtChunk
  <2>3. /\ ChunkMsg(cur[t].file, cur[t].off, ReadSpan(t)) \in Message /\ ChunkMsg(cur[t].file, cur[t].off, ReadSpan(t)).type = "Chunk"
        /\ ChunkMsg(cur[t].file, cur[t].off, ReadSpan(t)).file = cur[t].file /\ ChunkMsg(cur[t].file, cur[t].off, ReadSpan(t)).off = cur[t].off
    <3>1. cur[t].file \in FileIndex /\ cur[t].off \in Nat /\ ReadSpan(t) \in Span
      BY <1>q, <2>2, FileIndexNat, CursorTypes DEF Cursor
    <3>2. ChunkMsg(cur[t].file, cur[t].off, ReadSpan(t)) \in Message
      BY <3>1, MessageTypes
    <3> QED BY <3>2 DEF ChunkMsg
  <2>4. ASSUME InStep(spc[t], rpc[t], toR[t], toS[t], cur[t])
        PROVE  Fits("awaitAck", rpc[t], Append(toR[t], ChunkMsg(cur[t].file, cur[t].off, ReadSpan(t))), toS[t], cur[t])
    BY <1>f, <2>2, <2>3, <2>4, QueueAppended, QueueMessages
       DEF Fits, InStep, Just, IsAt, Parted, IsEnd, SenderWillEnd, ReceiverWillEnd
  <2>5. ASSUME Parted(spc[t], rpc[t], toR[t], toS[t], cur[t])
        PROVE  Fits("awaitAck", rpc[t], Append(toR[t], ChunkMsg(cur[t].file, cur[t].off, ReadSpan(t))), toS[t], cur[t])
    <3>1. /\ "awaitAck" # "idle" /\ rpc[t] # "idle" /\ spc[t] # "idle" /\ rpc[t] # "idle"
          /\ SenderWillEnd(spc[t], toS[t], cur[t]) /\ ReceiverWillEnd(rpc[t], toR[t])
      BY <2>2, <2>5 DEF Parted
    <3>2. SenderWillEnd("awaitAck", toS[t], cur[t])
      BY <1>f, <2>2, <2>3, <3>1, EndStays
         DEF SenderExpects, SenderActive, SenderWaiting, SenderWillEnd
    <3>3. ReceiverWillEnd(rpc[t], Append(toR[t], ChunkMsg(cur[t].file, cur[t].off, ReadSpan(t))))
      BY <1>f, <2>2, <2>3, <3>1, EndStays
         DEF ReceiverExpects, ReceiverActive, ReceiverWaiting
    <3> QED BY <3>1, <3>2, <3>3 DEF Fits, Parted
  <2>9. Fits("awaitAck", rpc[t], Append(toR[t], ChunkMsg(cur[t].file, cur[t].off, ReadSpan(t))), toS[t], cur[t])
    BY <1>f, <2>2, <2>4, <2>5 DEF Fits
  <2> QED BY <2>1, <2>9, TurnsFit
<1>8. ASSUME NEW t \in Transfers, ChunkTooLong(t) PROVE ProtocolInv'
  <2>1. Turns(t, "failed", rpc[t], Append(toR[t], Closing(toS[t])), toS[t], cur[t])
    BY <1>8, <1>q DEF ChunkTooLong, Turns, SetSpc, SendToR, receiverVars, storeVars, environment
  <2>2. spc[t] = "sending"
    BY <1>8 DEF ChunkTooLong, AtChunk
  <2>9. Fits("failed", rpc[t], Append(toR[t], Closing(toS[t])), toS[t], cur[t])
    BY <1>f, <2>2, ClosingEnds, SenderCloses DEF SenderActive, SenderWaiting
  <2> QED BY <2>1, <2>9, TurnsFit
<1>9. ASSUME NEW t \in Transfers, RecvAck(t) PROVE ProtocolInv'
  <2>1. Turns(t, "sending", rpc[t], toR[t], Tail(toS[t]), NextChunk(t))
    BY <1>9, <1>q DEF RecvAck, Turns, SetSpc, ConsumeS, receiverVars, storeVars, environment
  <2>2. spc[t] = "awaitAck" /\ toS[t] # <<>> /\ Head(toS[t]).type = "Ack"
    BY <1>9 DEF RecvAck, SenderGets, AtChunk
  <2>4. ASSUME InStep(spc[t], rpc[t], toR[t], toS[t], cur[t])
        PROVE  Fits("sending", rpc[t], toR[t], Tail(toS[t]), NextChunk(t))
    BY <1>f, <2>2, <2>4, QueueTaken, QueueAppended, QueueMessages
       DEF Fits, InStep, Just, IsAt, Parted, IsEnd, SenderWillEnd, ReceiverWillEnd
  <2>5. ASSUME Parted(spc[t], rpc[t], toR[t], toS[t], cur[t])
        PROVE  Fits("sending", rpc[t], toR[t], Tail(toS[t]), NextChunk(t))
    <3>1. /\ "sending" # "idle" /\ rpc[t] # "idle" /\ spc[t] # "idle" /\ rpc[t] # "idle"
          /\ SenderWillEnd(spc[t], toS[t], cur[t]) /\ ReceiverWillEnd(rpc[t], toR[t])
      BY <2>2, <2>5 DEF Parted
    <3>2. SenderWillEnd("sending", Tail(toS[t]), NextChunk(t))
      BY <1>f, <2>2, <3>1, EndStays, EndComes
         DEF SenderExpects, SenderActive, SenderWaiting
    <3>3. ReceiverWillEnd(rpc[t], toR[t])
      BY <1>f, <2>2, <3>1, EndStays
         DEF ReceiverExpects, ReceiverActive, ReceiverWaiting
    <3> QED BY <3>1, <3>2, <3>3 DEF Fits, Parted
  <2>9. Fits("sending", rpc[t], toR[t], Tail(toS[t]), NextChunk(t))
    BY <1>f, <2>2, <2>4, <2>5 DEF Fits
  <2> QED BY <2>1, <2>9, TurnsFit
<1>10. ASSUME NEW t \in Transfers, SendComplete(t) PROVE ProtocolInv'
  <2>1. Turns(t, "verifying", rpc[t], Append(toR[t], Msg("Complete")), toS[t], cur[t])
    BY <1>10, <1>q DEF SendComplete, Turns, SetSpc, SendToR, receiverVars, storeVars, environment
  <2>2. spc[t] = "sending"
    BY <1>10 DEF SendComplete, AtChunk
  <2>3. Msg("Complete") \in Message /\ Msg("Complete").type = "Complete"
    BY MessageTypes, MessageKinds
  <2>4. ASSUME InStep(spc[t], rpc[t], toR[t], toS[t], cur[t])
        PROVE  Fits("verifying", rpc[t], Append(toR[t], Msg("Complete")), toS[t], cur[t])
    BY <1>f, <2>2, <2>3, <2>4, QueueAppended, QueueMessages
       DEF Fits, InStep, Just, IsAt, Parted, IsEnd, SenderWillEnd, ReceiverWillEnd
  <2>5. ASSUME Parted(spc[t], rpc[t], toR[t], toS[t], cur[t])
        PROVE  Fits("verifying", rpc[t], Append(toR[t], Msg("Complete")), toS[t], cur[t])
    <3>1. /\ "verifying" # "idle" /\ rpc[t] # "idle" /\ spc[t] # "idle" /\ rpc[t] # "idle"
          /\ SenderWillEnd(spc[t], toS[t], cur[t]) /\ ReceiverWillEnd(rpc[t], toR[t])
      BY <2>2, <2>5 DEF Parted
    <3>2. SenderWillEnd("verifying", toS[t], cur[t])
      BY <1>f, <2>2, <2>3, <3>1, EndStays
         DEF SenderExpects, SenderActive, SenderWaiting, SenderWillEnd
    <3>3. ReceiverWillEnd(rpc[t], Append(toR[t], Msg("Complete")))
      BY <1>f, <2>2, <2>3, <3>1, EndStays
         DEF ReceiverExpects, ReceiverActive, ReceiverWaiting
    <3> QED BY <3>1, <3>2, <3>3 DEF Fits, Parted
  <2>9. Fits("verifying", rpc[t], Append(toR[t], Msg("Complete")), toS[t], cur[t])
    BY <1>f, <2>2, <2>4, <2>5 DEF Fits
  <2> QED BY <2>1, <2>9, TurnsFit
<1>11. ASSUME NEW t \in Transfers, RecvVerified(t) PROVE ProtocolInv'
  <2>1. Turns(t, IF Head(toS[t]).ok THEN "completed" ELSE "failed", rpc[t], Append(toR[t], Closing(Tail(toS[t]))), Tail(toS[t]), cur[t])
    BY <1>11, <1>q DEF RecvVerified, Turns, SetSpc, SendToR, ConsumeS, SenderStops, receiverVars,
         storeVars, environment
  <2>2. spc[t] = "verifying"
    BY <1>11 DEF RecvVerified
  <2>9. Fits(IF Head(toS[t]).ok THEN "completed" ELSE "failed", rpc[t], Append(toR[t], Closing(Tail(toS[t]))), Tail(toS[t]), cur[t])
    BY <1>f, <2>2, ClosingEnds, SenderCloses DEF SenderActive, SenderWaiting
  <2> QED BY <2>1, <2>9, TurnsFit
<1>12. ASSUME NEW t \in Transfers, SenderRecvFails(t) PROVE ProtocolInv'
  <2>1. Turns(t, "failed", rpc[t], Append(toR[t], Closing(Tail(toS[t]))), Tail(toS[t]), cur[t])
    BY <1>12, <1>q DEF SenderRecvFails, Turns, SetSpc, SendToR, ConsumeS, SenderStops,
         receiverVars, storeVars, environment
  <2>2. spc[t] \in SenderWaiting
    BY <1>12 DEF SenderRecvFails
  <2>9. Fits("failed", rpc[t], Append(toR[t], Closing(Tail(toS[t]))), Tail(toS[t]), cur[t])
    BY <1>f, <2>2, ClosingEnds, SenderCloses DEF SenderActive, SenderWaiting
  <2> QED BY <2>1, <2>9, TurnsFit
<1>13. ASSUME NEW t \in Transfers, RecvHs1(t) PROVE ProtocolInv'
  <2>1. Turns(t, spc[t], "hs3", Tail(toR[t]), Append(toS[t], Msg("Hs2")), cur[t])
    BY <1>13, <1>q DEF RecvHs1, Turns, SetRpc, SendToS, ConsumeR, senderVars, storeVars, environment
  <2>2. rpc[t] = "hs1" /\ toR[t] # <<>> /\ Head(toR[t]).type = "Hs1"
    BY <1>13 DEF RecvHs1, ReceiverGets, AtChunk
  <2>3. Msg("Hs2") \in Message /\ Msg("Hs2").type = "Hs2"
    BY MessageTypes, MessageKinds
  <2>4. ASSUME InStep(spc[t], rpc[t], toR[t], toS[t], cur[t])
        PROVE  Fits(spc[t], "hs3", Tail(toR[t]), Append(toS[t], Msg("Hs2")), cur[t])
    <3>1. /\ spc[t] = "handshake" /\ Len(toR[t]) = 1 /\ toS[t] = <<>>
      BY <2>2, <2>4, <1>f, QueueTaken DEF InStep, Just
    <3>2. Tail(toR[t]) = <<>> /\ Just(Append(toS[t], Msg("Hs2")), {"Hs2"})
      BY <1>f, <2>2, <2>3, <3>1, QueueTaken, QueueAppended DEF Just
    <3> QED BY <3>1, <3>2 DEF Fits, InStep
  <2>5. ASSUME Parted(spc[t], rpc[t], toR[t], toS[t], cur[t])
        PROVE  Fits(spc[t], "hs3", Tail(toR[t]), Append(toS[t], Msg("Hs2")), cur[t])
    <3>1. /\ spc[t] # "idle" /\ "hs3" # "idle" /\ spc[t] # "idle" /\ rpc[t] # "idle"
          /\ SenderWillEnd(spc[t], toS[t], cur[t]) /\ ReceiverWillEnd(rpc[t], toR[t])
      BY <2>2, <2>5 DEF Parted
    <3>2. SenderWillEnd(spc[t], Append(toS[t], Msg("Hs2")), cur[t])
      BY <1>f, <2>2, <2>3, <3>1, EndStays
         DEF SenderExpects, SenderActive, SenderWaiting
    <3>3. ReceiverWillEnd("hs3", Tail(toR[t]))
      BY <1>f, <2>2, <2>3, <3>1, EndStays, EndComes
         DEF ReceiverExpects, ReceiverActive, ReceiverWaiting
    <3> QED BY <3>1, <3>2, <3>3 DEF Fits, Parted
  <2>9. Fits(spc[t], "hs3", Tail(toR[t]), Append(toS[t], Msg("Hs2")), cur[t])
    BY <1>f, <2>2, <2>4, <2>5 DEF Fits
  <2> QED BY <2>1, <2>9, TurnsFit
<1>14. ASSUME NEW t \in Transfers, RecvHs3(t) PROVE ProtocolInv'
  <2>1. Turns(t, spc[t], "waitRequest", Tail(toR[t]), toS[t], cur[t])
    BY <1>14, <1>q DEF RecvHs3, Turns, SetRpc, ConsumeR, senderVars, storeVars, environment
  <2>2. rpc[t] = "hs3" /\ toR[t] # <<>> /\ Head(toR[t]).type = "Hs3"
    BY <1>14 DEF RecvHs3, ReceiverGets, AtChunk
  <2>4. ASSUME InStep(spc[t], rpc[t], toR[t], toS[t], cur[t])
        PROVE  Fits(spc[t], "waitRequest", Tail(toR[t]), toS[t], cur[t])
    BY <1>f, <2>2, <2>4, QueueTaken, QueueAppended, QueueMessages
       DEF Fits, InStep, Just, IsAt, Parted, IsEnd, SenderWillEnd, ReceiverWillEnd
  <2>5. ASSUME Parted(spc[t], rpc[t], toR[t], toS[t], cur[t])
        PROVE  Fits(spc[t], "waitRequest", Tail(toR[t]), toS[t], cur[t])
    <3>1. /\ spc[t] # "idle" /\ "waitRequest" # "idle" /\ spc[t] # "idle" /\ rpc[t] # "idle"
          /\ SenderWillEnd(spc[t], toS[t], cur[t]) /\ ReceiverWillEnd(rpc[t], toR[t])
      BY <2>2, <2>5 DEF Parted
    <3>2. SenderWillEnd(spc[t], toS[t], cur[t])
      BY <1>f, <2>2, <3>1, EndStays
         DEF SenderExpects, SenderActive, SenderWaiting
    <3>3. ReceiverWillEnd("waitRequest", Tail(toR[t]))
      BY <1>f, <2>2, <3>1, EndStays, EndComes
         DEF ReceiverExpects, ReceiverActive, ReceiverWaiting
    <3> QED BY <3>1, <3>2, <3>3 DEF Fits, Parted
  <2>9. Fits(spc[t], "waitRequest", Tail(toR[t]), toS[t], cur[t])
    BY <1>f, <2>2, <2>4, <2>5 DEF Fits
  <2> QED BY <2>1, <2>9, TurnsFit
<1>15. ASSUME NEW t \in Transfers, RecvRequest(t) PROVE ProtocolInv'
  <2>1. Turns(t, spc[t], "deciding", Tail(toR[t]), toS[t], cur[t])
    BY <1>15, <1>q DEF RecvRequest, Turns, SetRpc, ConsumeR, senderVars, storeVars, environment
  <2>2. rpc[t] = "waitRequest" /\ toR[t] # <<>> /\ Head(toR[t]).type = "Request"
    BY <1>15 DEF RecvRequest, ReceiverGets, AtChunk
  <2>4. ASSUME InStep(spc[t], rpc[t], toR[t], toS[t], cur[t])
        PROVE  Fits(spc[t], "deciding", Tail(toR[t]), toS[t], cur[t])
    BY <1>f, <2>2, <2>4, QueueTaken, QueueAppended, QueueMessages
       DEF Fits, InStep, Just, IsAt, Parted, IsEnd, SenderWillEnd, ReceiverWillEnd
  <2>5. ASSUME Parted(spc[t], rpc[t], toR[t], toS[t], cur[t])
        PROVE  Fits(spc[t], "deciding", Tail(toR[t]), toS[t], cur[t])
    <3>1. /\ spc[t] # "idle" /\ "deciding" # "idle" /\ spc[t] # "idle" /\ rpc[t] # "idle"
          /\ SenderWillEnd(spc[t], toS[t], cur[t]) /\ ReceiverWillEnd(rpc[t], toR[t])
      BY <2>2, <2>5 DEF Parted
    <3>2. SenderWillEnd(spc[t], toS[t], cur[t])
      BY <1>f, <2>2, <3>1, EndStays
         DEF SenderExpects, SenderActive, SenderWaiting
    <3>3. ReceiverWillEnd("deciding", Tail(toR[t]))
      BY <1>f, <2>2, <3>1, EndStays, EndComes
         DEF ReceiverExpects, ReceiverActive, ReceiverWaiting
    <3> QED BY <3>1, <3>2, <3>3 DEF Fits, Parted
  <2>9. Fits(spc[t], "deciding", Tail(toR[t]), toS[t], cur[t])
    BY <1>f, <2>2, <2>4, <2>5 DEF Fits
  <2> QED BY <2>1, <2>9, TurnsFit
<1>16. ASSUME NEW t \in Transfers, DecideReject(t) PROVE ProtocolInv'
  <2>1. Turns(t, spc[t], "failed", toR[t], toS[t] \o <<Msg("Reject"), Closing(toR[t])>>, cur[t])
    BY <1>16, <1>q DEF DecideReject, Turns, SetRpc, senderVars, storeVars, environment
  <2>2. rpc[t] = "deciding"
    BY <1>16 DEF DecideReject
  <2>9. Fits(spc[t], "failed", toR[t], toS[t] \o <<Msg("Reject"), Closing(toR[t])>>, cur[t])
    BY <1>f, <2>2, ClosingEnds, ReceiverCloses DEF ReceiverActive, ReceiverWaiting
  <2> QED BY <2>1, <2>9, TurnsFit
<1>17. ASSUME NEW t \in Transfers, DecideAccept(t) PROVE ProtocolInv'
  <2> DEFINE m == IF loaded[t] = {} THEN Msg("Accept")
                  ELSE ResumeAtMsg(encode_received_bitmap(
                         UNION {{GlobalOffset(t, i, o) : o \in state[i]} : state \in loaded[t], i \in FileIndex},
                         total_chunks(ManifestCounts(t))))
  <2>0. rpc[t] = "deciding" /\ toS' = [toS EXCEPT ![t] = Append(@, m)]
    BY <1>17 DEF DecideAccept, SendToS
  <2>3. m \in Message /\ m.type \in {"Accept", "ResumeAt"}
    <3>1. \A S : encode_received_bitmap(S, total_chunks(ManifestCounts(t))) \in Seq(Byte)
      BY ManifestTypes, BitmapType
    <3> QED BY <3>1, MessageTypes, MessageKinds
  <2> HIDE DEF m
  <2>1. Turns(t, spc[t], "creating", toR[t], Append(toS[t], m), cur[t])
    BY <1>17, <1>q, <2>0 DEF DecideAccept, Turns, SetRpc, SendToS, senderVars, storeVars,
         environment
  <2>2. rpc[t] = "deciding"
    BY <1>17 DEF DecideAccept, AtChunk
  <2>4. ASSUME InStep(spc[t], rpc[t], toR[t], toS[t], cur[t])
        PROVE  Fits(spc[t], "creating", toR[t], Append(toS[t], m), cur[t])
    BY <1>f, <2>2, <2>3, <2>4, QueueAppended, QueueMessages
       DEF Fits, InStep, Just, IsAt, Parted, IsEnd, SenderWillEnd, ReceiverWillEnd
  <2>5. ASSUME Parted(spc[t], rpc[t], toR[t], toS[t], cur[t])
        PROVE  Fits(spc[t], "creating", toR[t], Append(toS[t], m), cur[t])
    <3>1. /\ spc[t] # "idle" /\ "creating" # "idle" /\ spc[t] # "idle" /\ rpc[t] # "idle"
          /\ SenderWillEnd(spc[t], toS[t], cur[t]) /\ ReceiverWillEnd(rpc[t], toR[t])
      BY <2>2, <2>5 DEF Parted
    <3>2. SenderWillEnd(spc[t], Append(toS[t], m), cur[t])
      BY <1>f, <2>2, <2>3, <3>1, EndStays
         DEF SenderExpects, SenderActive, SenderWaiting
    <3>3. ReceiverWillEnd("creating", toR[t])
      BY <1>f, <2>2, <2>3, <3>1, EndStays
         DEF ReceiverExpects, ReceiverActive, ReceiverWaiting, ReceiverWillEnd
    <3> QED BY <3>1, <3>2, <3>3 DEF Fits, Parted
  <2>9. Fits(spc[t], "creating", toR[t], Append(toS[t], m), cur[t])
    BY <1>f, <2>2, <2>4, <2>5 DEF Fits
  <2> QED BY <2>1, <2>9, TurnsFit
<1>18. ASSUME NEW t \in Transfers, CreateWriter(t) PROVE ProtocolInv'
  <2>1. Turns(t, spc[t], rpc[t], toR[t], toS[t], cur[t])
    BY <1>18, <1>q DEF CreateWriter, Turns, senderVars, environment
  <2>9. Fits(spc[t], rpc[t], toR[t], toS[t], cur[t])
    BY <1>f
  <2> QED BY <2>1, <2>9, TurnsFit
<1>19. ASSUME NEW t \in Transfers, StartReceiving(t) PROVE ProtocolInv'
  <2>1. Turns(t, spc[t], "receiving", toR[t], toS[t], cur[t])
    BY <1>19, <1>q DEF StartReceiving, Turns, SetRpc, senderVars, storeVars, environment
  <2>2. rpc[t] = "creating"
    BY <1>19 DEF StartReceiving, AtChunk
  <2>4. ASSUME InStep(spc[t], rpc[t], toR[t], toS[t], cur[t])
        PROVE  Fits(spc[t], "receiving", toR[t], toS[t], cur[t])
    BY <1>f, <2>2, <2>4, QueueAppended, QueueMessages
       DEF Fits, InStep, Just, IsAt, Parted, IsEnd, SenderWillEnd, ReceiverWillEnd
  <2>5. ASSUME Parted(spc[t], rpc[t], toR[t], toS[t], cur[t])
        PROVE  Fits(spc[t], "receiving", toR[t], toS[t], cur[t])
    <3>1. /\ spc[t] # "idle" /\ "receiving" # "idle" /\ spc[t] # "idle" /\ rpc[t] # "idle"
          /\ SenderWillEnd(spc[t], toS[t], cur[t]) /\ ReceiverWillEnd(rpc[t], toR[t])
      BY <2>2, <2>5 DEF Parted
    <3>2. SenderWillEnd(spc[t], toS[t], cur[t])
      BY <1>f, <2>2, <3>1, EndStays
         DEF SenderExpects, SenderActive, SenderWaiting
    <3>3. ReceiverWillEnd("receiving", toR[t])
      BY <1>f, <2>2, <3>1, EndStays
         DEF ReceiverExpects, ReceiverActive, ReceiverWaiting, ReceiverWillEnd
    <3> QED BY <3>1, <3>2, <3>3 DEF Fits, Parted
  <2>9. Fits(spc[t], "receiving", toR[t], toS[t], cur[t])
    BY <1>f, <2>2, <2>4, <2>5 DEF Fits
  <2> QED BY <2>1, <2>9, TurnsFit
<1>20. ASSUME NEW t \in Transfers, RecvChunk(t) PROVE ProtocolInv'
  <2>1. Turns(t, spc[t], rpc[t], Tail(toR[t]), Append(toS[t], AckMsg(Head(toR[t]).file, Head(toR[t]).off)), cur[t])
    BY <1>20, <1>q DEF RecvChunk, Turns, SendToS, ConsumeR, senderVars, environment
  <2>2. rpc[t] = "receiving" /\ toR[t] # <<>> /\ Head(toR[t]).type = "Chunk"
    BY <1>20 DEF RecvChunk, ReceiverGets, AtChunk
  <2>3. /\ AckMsg(Head(toR[t]).file, Head(toR[t]).off) \in Message /\ AckMsg(Head(toR[t]).file, Head(toR[t]).off).type = "Ack"
        /\ AckMsg(Head(toR[t]).file, Head(toR[t]).off).file = Head(toR[t]).file /\ AckMsg(Head(toR[t]).file, Head(toR[t]).off).off = Head(toR[t]).off
    <3>1. Head(toR[t]) \in Message
      BY <1>f, <2>2
    <3>2. AckMsg(Head(toR[t]).file, Head(toR[t]).off) \in Message
      BY <2>2, <3>1, Payloads, MessageTypes
    <3> QED BY <3>2 DEF AckMsg
  <2>4. ASSUME InStep(spc[t], rpc[t], toR[t], toS[t], cur[t])
        PROVE  Fits(spc[t], rpc[t], Tail(toR[t]), Append(toS[t], AckMsg(Head(toR[t]).file, Head(toR[t]).off)), cur[t])
    <3> DEFINE m == AckMsg(Head(toR[t]).file, Head(toR[t]).off)
    <3>1. /\ spc[t] = "awaitAck" /\ Len(toR[t]) = 1 /\ IsAt(toR[t][1], cur[t]) /\ toS[t] = <<>>
      BY <2>2, <2>4, <1>f, QueueTaken DEF InStep, Just
    <3>2. Tail(toR[t]) = <<>> /\ Head(toR[t]) = toR[t][1]
      BY <1>f, <2>2, <3>1, QueueTaken
    <3>3. IsAt(m, cur[t]) /\ m \in Message /\ m.type = "Ack"
      BY <2>3, <3>1, <3>2 DEF IsAt
    <3> HIDE DEF m
    <3>4. Just(Append(toS[t], m), {"Ack"}) /\ Append(toS[t], m)[1] = m
      BY <1>f, <3>1, <3>3, QueueAppended DEF Just
    <3>5. InStep(spc[t], rpc[t], Tail(toR[t]), Append(toS[t], m), cur[t])
      BY <2>2, <3>1, <3>2, <3>3, <3>4 DEF InStep
    <3> QED BY <3>5 DEF Fits, m
  <2>5. ASSUME Parted(spc[t], rpc[t], toR[t], toS[t], cur[t])
        PROVE  Fits(spc[t], rpc[t], Tail(toR[t]), Append(toS[t], AckMsg(Head(toR[t]).file, Head(toR[t]).off)), cur[t])
    <3>1. /\ spc[t] # "idle" /\ rpc[t] # "idle" /\ spc[t] # "idle" /\ rpc[t] # "idle"
          /\ SenderWillEnd(spc[t], toS[t], cur[t]) /\ ReceiverWillEnd(rpc[t], toR[t])
      BY <2>2, <2>5 DEF Parted
    <3>2. SenderWillEnd(spc[t], Append(toS[t], AckMsg(Head(toR[t]).file, Head(toR[t]).off)), cur[t])
      BY <1>f, <2>2, <2>3, <3>1, EndStays
         DEF SenderExpects, SenderActive, SenderWaiting
    <3>3. ReceiverWillEnd(rpc[t], Tail(toR[t]))
      BY <1>f, <2>2, <2>3, <3>1, EndStays, EndComes
         DEF ReceiverExpects, ReceiverActive, ReceiverWaiting
    <3> QED BY <3>1, <3>2, <3>3 DEF Fits, Parted
  <2>9. Fits(spc[t], rpc[t], Tail(toR[t]), Append(toS[t], AckMsg(Head(toR[t]).file, Head(toR[t]).off)), cur[t])
    BY <1>f, <2>2, <2>4, <2>5 DEF Fits
  <2> QED BY <2>1, <2>9, TurnsFit
<1>21. ASSUME NEW t \in Transfers, RecvChunkFails(t) PROVE ProtocolInv'
  <2>1. Turns(t, spc[t], "failed", Tail(toR[t]), Append(toS[t], Closing(Tail(toR[t]))), cur[t])
    BY <1>21, <1>q DEF RecvChunkFails, Turns, SetRpc, SendToS, ConsumeR, ReceiverStops, senderVars,
         storeVars, environment
  <2>2. rpc[t] = "receiving"
    BY <1>21 DEF RecvChunkFails
  <2>9. Fits(spc[t], "failed", Tail(toR[t]), Append(toS[t], Closing(Tail(toR[t]))), cur[t])
    BY <1>f, <2>2, ClosingEnds, ReceiverCloses DEF ReceiverActive, ReceiverWaiting
  <2> QED BY <2>1, <2>9, TurnsFit
<1>22. ASSUME NEW t \in Transfers, RecvComplete(t) PROVE ProtocolInv'
  <2>1. Turns(t, spc[t], "finalizing", Tail(toR[t]), toS[t], cur[t])
    BY <1>22, <1>q DEF RecvComplete, Turns, SetRpc, ConsumeR, senderVars, storeVars, environment
  <2>2. rpc[t] = "receiving" /\ toR[t] # <<>> /\ Head(toR[t]).type = "Complete"
    BY <1>22 DEF RecvComplete, ReceiverGets, AtChunk
  <2>4. ASSUME InStep(spc[t], rpc[t], toR[t], toS[t], cur[t])
        PROVE  Fits(spc[t], "finalizing", Tail(toR[t]), toS[t], cur[t])
    BY <1>f, <2>2, <2>4, QueueTaken, QueueAppended, QueueMessages
       DEF Fits, InStep, Just, IsAt, Parted, IsEnd, SenderWillEnd, ReceiverWillEnd
  <2>5. ASSUME Parted(spc[t], rpc[t], toR[t], toS[t], cur[t])
        PROVE  Fits(spc[t], "finalizing", Tail(toR[t]), toS[t], cur[t])
    <3>1. /\ spc[t] # "idle" /\ "finalizing" # "idle" /\ spc[t] # "idle" /\ rpc[t] # "idle"
          /\ SenderWillEnd(spc[t], toS[t], cur[t]) /\ ReceiverWillEnd(rpc[t], toR[t])
      BY <2>2, <2>5 DEF Parted
    <3>2. SenderWillEnd(spc[t], toS[t], cur[t])
      BY <1>f, <2>2, <3>1, EndStays
         DEF SenderExpects, SenderActive, SenderWaiting
    <3>3. ReceiverWillEnd("finalizing", Tail(toR[t]))
      BY <1>f, <2>2, <3>1, EndStays, EndComes
         DEF ReceiverExpects, ReceiverActive, ReceiverWaiting
    <3> QED BY <3>1, <3>2, <3>3 DEF Fits, Parted
  <2>9. Fits(spc[t], "finalizing", Tail(toR[t]), toS[t], cur[t])
    BY <1>f, <2>2, <2>4, <2>5 DEF Fits
  <2> QED BY <2>1, <2>9, TurnsFit
<1>23. ASSUME NEW t \in Transfers, Finalize(t) PROVE ProtocolInv'
  <2>1. Turns(t, spc[t], rpc[t], toR[t], toS[t], cur[t])
    BY <1>23, <1>q DEF Finalize, Turns, senderVars, environment
  <2>9. Fits(spc[t], rpc[t], toR[t], toS[t], cur[t])
    BY <1>f
  <2> QED BY <2>1, <2>9, TurnsFit
<1>24. ASSUME NEW t \in Transfers, FinalizeFails(t) PROVE ProtocolInv'
  <2>1. Turns(t, spc[t], "failed", toR[t], Append(toS[t], Closing(toR[t])), cur[t])
    BY <1>24, <1>q DEF FinalizeFails, Turns, SetRpc, SendToS, senderVars, storeVars, environment
  <2>2. rpc[t] = "finalizing"
    BY <1>24 DEF FinalizeFails
  <2>9. Fits(spc[t], "failed", toR[t], Append(toS[t], Closing(toR[t])), cur[t])
    BY <1>f, <2>2, ClosingEnds, ReceiverCloses DEF ReceiverActive, ReceiverWaiting
  <2> QED BY <2>1, <2>9, TurnsFit
<1>25. ASSUME NEW t \in Transfers, SendVerified(t) PROVE ProtocolInv'
  <2> DEFINE r == IF rok[t] THEN "removing" ELSE "closing"
             m == VerifiedMsg(rok[t])
             y == Append(toS[t], m)
  <2>1. Turns(t, spc[t], r, toR[t], y, cur[t])
    BY <1>25, <1>q DEF SendVerified, Turns, SetRpc, SendToS, senderVars, storeVars, environment
  <2>2. /\ rpc[t] = "finalizing" /\ r \in {"removing", "closing"}
        /\ m \in Message /\ m.type = "Verified" /\ toS[t] \in Seq(Message)
    BY <1>25, <1>q, MessageTypes, MessageKinds DEF SendVerified, TypeOK
  <2> HIDE DEF r, m
  <2>3. ASSUME InStep(spc[t], rpc[t], toR[t], toS[t], cur[t])
        PROVE  Fits(spc[t], r, toR[t], y, cur[t])
    <3>1. spc[t] = "verifying" /\ toR[t] = <<>> /\ toS[t] = <<>>
      BY <2>2, <2>3 DEF InStep
    <3>2. Len(y) = 1 /\ y[1] = m
      BY <2>2, <3>1
    <3> HIDE DEF y
    <3> QED BY <2>2, <3>1, <3>2 DEF Fits, InStep, Just
  <2>4. ASSUME Parted(spc[t], rpc[t], toR[t], toS[t], cur[t])
        PROVE  Fits(spc[t], r, toR[t], y, cur[t])
    <3>1. /\ spc[t] # "idle" /\ SenderWillEnd(spc[t], toS[t], cur[t])
          /\ ReceiverWillEnd("finalizing", toR[t])
      BY <2>2, <2>4 DEF Parted
    <3>2. SenderWillEnd(spc[t], y, cur[t])
      BY <2>2, <3>1, EndStays
    <3>3. ReceiverWillEnd(r, toR[t])
      BY <2>2, <3>1 DEF ReceiverWillEnd, ReceiverExpects, ReceiverActive, ReceiverWaiting
    <3> HIDE DEF y
    <3> QED BY <2>2, <3>1, <3>2, <3>3 DEF Fits, Parted
  <2>9. Fits(spc[t], r, toR[t], y, cur[t])
    BY <1>f, <2>2, <2>3, <2>4 DEF Fits
  <2> QED BY <2>1, <2>9, TurnsFit
<1>33. ASSUME NEW t \in Transfers, RemoveResumeState(t) PROVE ProtocolInv'
  <2>1. Turns(t, spc[t], "closing", toR[t], toS[t], cur[t])
    BY <1>33, <1>q DEF RemoveResumeState, Turns, SetRpc, senderVars, environment
  <2>2. rpc[t] = "removing"
    BY <1>33 DEF RemoveResumeState
  <2>9. Fits(spc[t], "closing", toR[t], toS[t], cur[t])
    BY <1>f, <2>2 DEF Fits, InStep, Parted, ReceiverWillEnd, ReceiverExpects, ReceiverActive, ReceiverWaiting
  <2> QED BY <2>1, <2>9, TurnsFit
<1>34. ASSUME NEW t \in Transfers, EndReceiving(t) PROVE ProtocolInv'
  <2> DEFINE r == IF rok[t] THEN "completed" ELSE "incomplete"
  <2>1. Turns(t, spc[t], r, toR[t], Append(toS[t], Msg("FIN")), cur[t])
    BY <1>34, <1>q DEF EndReceiving, Turns, SetRpc, SendToS, senderVars, storeVars, environment
  <2>2. rpc[t] = "closing" /\ r \notin ReceiverActive /\ r # "idle"
    BY <1>34 DEF EndReceiving, ReceiverActive, ReceiverWaiting
  <2> HIDE DEF r
  <2>9. Fits(spc[t], r, toR[t], Append(toS[t], Msg("FIN")), cur[t])
    BY <1>f, <2>2, ClosingEnds, ReceiverCloses DEF ReceiverActive, ReceiverWaiting
  <2> QED BY <2>1, <2>9, TurnsFit
<1>26. ASSUME NEW t \in Transfers, RecvClosed(t) PROVE ProtocolInv'
  <2>1. Turns(t, spc[t], "failed", Tail(toR[t]), Append(toS[t], Closing(Tail(toR[t]))), cur[t])
    BY <1>26, <1>q DEF RecvClosed, Turns, SetRpc, SendToS, ConsumeR, ReceiverStops, senderVars,
         environment
  <2>2. rpc[t] = "receiving"
    BY <1>26 DEF RecvClosed
  <2>9. Fits(spc[t], "failed", Tail(toR[t]), Append(toS[t], Closing(Tail(toR[t]))), cur[t])
    BY <1>f, <2>2, ClosingEnds, ReceiverCloses DEF ReceiverActive, ReceiverWaiting
  <2> QED BY <2>1, <2>9, TurnsFit
<1>27. ASSUME NEW t \in Transfers, ReceiverRecvFails(t) PROVE ProtocolInv'
  <2>1. Turns(t, spc[t], "failed", Tail(toR[t]), Append(toS[t], Closing(Tail(toR[t]))), cur[t])
    BY <1>27, <1>q DEF ReceiverRecvFails, Turns, SetRpc, SendToS, ConsumeR, ReceiverStops,
         senderVars, storeVars, environment
  <2>2. rpc[t] \in ReceiverWaiting
    BY <1>27 DEF ReceiverRecvFails
  <2>9. Fits(spc[t], "failed", Tail(toR[t]), Append(toS[t], Closing(Tail(toR[t]))), cur[t])
    BY <1>f, <2>2, ClosingEnds, ReceiverCloses DEF ReceiverActive, ReceiverWaiting
  <2> QED BY <2>1, <2>9, TurnsFit
<1>28. ASSUME NEW t \in Transfers, ConnectFails(t) PROVE ProtocolInv'
  <2>1. Turns(t, "failed", rpc[t], toR[t], toS[t], cur[t])
    BY <1>28, <1>q DEF ConnectFails, Turns, SetSpc, receiverVars, storeVars, Fault
  <2>2. spc[t] = "idle"
    BY <1>28 DEF ConnectFails
  <2>9. Fits("failed", rpc[t], toR[t], toS[t], cur[t])
    BY <1>f, <2>2 DEF Fits, InStep, Parted
  <2> QED BY <2>1, <2>9, TurnsFit
<1>29. ASSUME NEW t \in Transfers, SenderCrash(t) PROVE ProtocolInv'
  <2>1. PICK kind \in {"FIN", "RST"} : SendToR(t, Msg(kind))
    BY <1>29 DEF SenderCrash
  <2>2. spc[t] \in SenderActive
    BY <1>29 DEF SenderCrash
  <2>3. Turns(t, "failed", rpc[t], Append(toR[t], Msg(kind)), toS[t], cur[t])
    BY <1>29, <1>q, <2>1 DEF SenderCrash, Turns, SetSpc, SendToR, receiverVars
  <2>4. Fits("failed", rpc[t], Append(toR[t], Msg(kind)), toS[t], cur[t])
    BY <1>f, <2>2, ClosingEnds, SenderCloses DEF SenderActive, SenderWaiting
  <2> QED BY <2>3, <2>4, TurnsFit
<1>30. ASSUME NEW t \in Transfers, ReceiverCrash(t) PROVE ProtocolInv'
  <2>1. PICK kind \in {"FIN", "RST"} : SendToS(t, Msg(kind))
    BY <1>30 DEF ReceiverCrash
  <2>2. rpc[t] \in ReceiverActive
    BY <1>30 DEF ReceiverCrash
  <2>3. Turns(t, spc[t], "failed", toR[t], Append(toS[t], Msg(kind)), cur[t])
    BY <1>30, <1>q, <2>1 DEF ReceiverCrash, Turns, SetRpc, SendToS, senderVars
  <2>4. Fits(spc[t], "failed", toR[t], Append(toS[t], Msg(kind)), cur[t])
    BY <1>f, <2>2, ClosingEnds, ReceiverCloses DEF ReceiverActive, ReceiverWaiting
  <2> QED BY <2>3, <2>4, TurnsFit
<1>31. ASSUME NEW t \in Transfers, Disconnect(t) PROVE ProtocolInv'
  <2>1. Turns(t, spc[t], rpc[t], <<Msg("RST")>>, <<Msg("RST")>>, cur[t])
    BY <1>31, <1>q DEF Disconnect, Turns, senderVars, receiverVars, storeVars, Fault
  <2>2. spc[t] \in SenderActive \/ rpc[t] \in ReceiverActive
    BY <1>31 DEF Disconnect
  <2>3. spc[t] # "idle" /\ rpc[t] # "idle"
    BY <1>f, <2>2 DEF Fits, InStep, Parted, SenderActive, SenderWaiting, ReceiverActive, ReceiverWaiting
  <2>4. IsEnd(Msg("RST"))
    BY ClosingEnds
  <2>9. Fits(spc[t], rpc[t], <<Msg("RST")>>, <<Msg("RST")>>, cur[t])
    BY <2>3, <2>4 DEF Fits, Parted, SenderWillEnd, ReceiverWillEnd
  <2> QED BY <2>1, <2>9, TurnsFit
<1>32. ASSUME NEW t \in Transfers, SaveTorn(t) PROVE ProtocolInv'
  <2>1. Turns(t, spc[t], "failed", Tail(toR[t]), Append(toS[t], Closing(Tail(toR[t]))), cur[t])
    BY <1>32, <1>q DEF SaveTorn, Turns, SetRpc, SendToS, ConsumeR, ReceiverStops, senderVars, Fault
  <2>2. rpc[t] = "receiving"
    BY <1>32 DEF SaveTorn
  <2>9. Fits(spc[t], "failed", Tail(toR[t]), Append(toS[t], Closing(Tail(toR[t]))), cur[t])
    BY <1>f, <2>2, ClosingEnds, ReceiverCloses DEF ReceiverActive, ReceiverWaiting
  <2> QED BY <2>1, <2>9, TurnsFit
<1>u. CASE UNCHANGED vars
  BY <1>u DEF vars, ProtocolInv
<1> QED BY <1>e, <1>1, <1>2, <1>3, <1>4, <1>5, <1>6, <1>7, <1>8, <1>9, <1>10, <1>11, <1>12, <1>13, <1>14, <1>15, <1>16, <1>17, <1>18, <1>19, <1>20, <1>21, <1>22, <1>23, <1>24, <1>25, <1>26, <1>27, <1>28, <1>29, <1>30, <1>31, <1>32, <1>33, <1>34, <1>u
     DEF Next, SenderStep, ReceiverStep, FaultStep

\* What it says of the two ends.
LEMMA ProtocolImplies == TypeOK /\ ProtocolInv => ProtocolAgrees
<1> SUFFICES ASSUME TypeOK, ProtocolInv, NEW t \in Transfers
             PROVE  /\ spc[t] \in SenderWaiting /\ toS[t] # <<>> =>
                        /\ Head(toS[t]).type \in SenderExpects(spc[t]) \cup {"FIN", "RST"}
                        /\ Head(toS[t]).type = "Ack" =>
                             Head(toS[t]).file = cur[t].file /\ Head(toS[t]).off = cur[t].off
                    /\ rpc[t] \in ReceiverWaiting /\ toR[t] # <<>> =>
                        Head(toR[t]).type \in ReceiverExpects(rpc[t]) \cup {"FIN", "RST"}
  BY DEF ProtocolAgrees
<1>1. /\ Fits(spc[t], rpc[t], toR[t], toS[t], cur[t])
      /\ toR[t] # <<>> => Head(toR[t]) = toR[t][1]
      /\ toS[t] # <<>> => Head(toS[t]) = toS[t][1]
  BY DEF ProtocolInv, TypeOK
<1>2. CASE InStep(spc[t], rpc[t], toR[t], toS[t], cur[t])
  BY <1>1, <1>2 DEF InStep, Just, IsAt, SenderExpects, ReceiverExpects, SenderWaiting, ReceiverWaiting
<1>3. CASE Parted(spc[t], rpc[t], toR[t], toS[t], cur[t])
  BY <1>1, <1>3 DEF Parted, SenderWillEnd, ReceiverWillEnd, IsEnd, IsAt, SenderExpects, ReceiverExpects,
                    SenderActive, SenderWaiting, ReceiverActive, ReceiverWaiting
<1> QED BY <1>1, <1>2, <1>3 DEF Fits

\* The two halves of the protocol never get out of step, for any number of transfers and
\* any faults: an end that waits is next given what it waits for or the end of the
\* connection, and an acknowledgement is for the chunk the sender is at.
THEOREM ProtocolAlwaysAgrees == Spec => []ProtocolAgrees
BY ProtocolImplies, TypeInit, TypeStep, ProtocolInit, ProtocolStep, PTL DEF Spec

---------------------------------------------------------------------------
(* While no writer collides every delivered file holds its promised bytes: IntactInv follows *)
(* the bytes from the source to the chunk in flight, the partial file, the delivered file.  *)

\* The initial state satisfies the invariant.
LEMMA IntactInit == Init => IntactInv
BY DEF Init, IntactInv, SenderKnows, ChunksInFlight, WritersAgree, WritersRight, DeliveredRight, Writing,
       HasWriter

---------------------------------------------------------------------------
(* From the source to the sender *)

\* The sources stay as they were, the manifest and the open chunker agree
\* with them.
LEMMA SenderKnowsStep ==
  ASSUME TypeOK, SenderKnows, edits' = 0, [Next]_vars
  PROVE  SenderKnows'
<1>q. /\ spc \in [Transfers -> SenderStates] /\ rpc \in [Transfers -> ReceiverStates]
      /\ toR \in [Transfers -> Seq(Message)] /\ toS \in [Transfers -> Seq(Message)]
      /\ man \in [Transfers -> [FileIndex -> Stat]]
      /\ cur \in [Transfers -> Cursor]
  BY DEF TypeOK
<1>o. \A t \in Transfers : \A i \in Idx(t) :
         /\ FilesOf[t][i] \in Sources
         /\ disk[FilesOf[t][i]] = [size |-> SourceSize(t, i), ver |-> 0]
         /\ disk[FilesOf[t][i]].size = SourceSize(t, i)
  BY FileIndexNat DEF SenderKnows, SourceSize
<1>f. \A t \in Transfers : \A i \in Nat : i \in Idx(t) => OpenFile(t, i).len = SourceSize(t, i)
  <2> SUFFICES ASSUME NEW t \in Transfers, NEW i \in Nat, i \in Idx(t)
               PROVE  OpenFile(t, i).len = SourceSize(t, i)
    OBVIOUS
  <2>1. disk[FilesOf[t][i]].size = SourceSize(t, i)
    BY <1>o
  <2>2. OpenFile(t, i).len = disk[FilesOf[t][i]].size
    BY DEF OpenFile
  <2> QED BY <2>1, <2>2
<1>n. \A t \in Transfers :
         /\ OpenFile(t, 1).file \in Idx(t) => OpenFile(t, 1).len = SourceSize(t, OpenFile(t, 1).file)
         /\ spc[t] \in {"sending", "awaitAck"} /\ NextChunk(t).file \in Idx(t) =>
              NextChunk(t).len = SourceSize(t, NextChunk(t).file)
  <2> TAKE t \in Transfers
  <2>1. \A i \in Nat : OpenFile(t, i).file = i
    BY DEF OpenFile
  <2>2. cur[t].file \in Nat /\ cur[t].off \in Nat /\ cur[t].len \in Nat
    BY <1>q DEF Cursor
  <2>3. [cur[t] EXCEPT !.off = @ + 1].file = cur[t].file /\ [cur[t] EXCEPT !.off = @ + 1].len = cur[t].len
    BY <1>q DEF Cursor
  <2>4. cur[t].file + 1 \in Nat
    BY <2>2
  <2> QED BY <1>f, <2>1, <2>2, <2>3, <2>4 DEF NextChunk, SenderKnows
<1> USE DEF SenderKnows
<1>e. ASSUME NEW s \in Sources, EditSource(s) PROVE SenderKnows'
  BY <1>e DEF EditSource, TypeOK
<1>1. ASSUME NEW t \in Transfers, Prepare(t) PROVE SenderKnows'
  BY <1>1, <1>q, <1>o, FileIndexNat
     DEF Prepare, HandlerStarts, storeVars, environment, SetSpc, SetRpc, SendToR, SourceSize
<1>2. ASSUME NEW t \in Transfers, SendRequest(t) PROVE SenderKnows'
  BY <1>2, <1>q
     DEF SendRequest, SenderGets, receiverVars, storeVars, environment, SetSpc, ConsumeS, SourceSize
<1>3. ASSUME NEW t \in Transfers, RecvAccept(t) PROVE SenderKnows'
  BY <1>3, <1>q, <1>n
     DEF RecvAccept, SenderGets, receiverVars, storeVars, environment, SetSpc, ConsumeS, SourceSize
<1>4. ASSUME NEW t \in Transfers, RecvResumeAt(t) PROVE SenderKnows'
  BY <1>4, <1>q, <1>n
     DEF RecvResumeAt, SenderGets, receiverVars, storeVars, environment, SetSpc, ConsumeS,
          SourceSize
<1>5. ASSUME NEW t \in Transfers, RecvReject(t) PROVE SenderKnows'
  BY <1>5, <1>q
     DEF RecvReject, SenderGets, SenderStops, receiverVars, storeVars, environment, SetSpc,
          SendToR, ConsumeS, SourceSize
<1>6. ASSUME NEW t \in Transfers, SkipChunk(t) PROVE SenderKnows'
  BY <1>6, <1>q, <1>n
     DEF SkipChunk, AtChunk, receiverVars, storeVars, environment, SourceSize
<1>7. ASSUME NEW t \in Transfers, SendChunk(t) PROVE SenderKnows'
  BY <1>7, <1>q
     DEF SendChunk, AtChunk, receiverVars, storeVars, environment, SetSpc, SendToR, SourceSize
<1>8. ASSUME NEW t \in Transfers, ChunkTooLong(t) PROVE SenderKnows'
  BY <1>8, <1>q
     DEF ChunkTooLong, AtChunk, receiverVars, storeVars, environment, SetSpc, SendToR, SourceSize
<1>9. ASSUME NEW t \in Transfers, RecvAck(t) PROVE SenderKnows'
  <2>1. /\ spc[t] = "awaitAck" /\ spc' = [spc EXCEPT ![t] = "sending"]
        /\ cur' = [cur EXCEPT ![t] = NextChunk(t)]
        /\ UNCHANGED <<disk, rpc, toR, man>>
    BY <1>9 DEF RecvAck, SetSpc, receiverVars, environment
  <2>2. /\ cur'[t] = NextChunk(t)
        /\ \A u \in Transfers : u # t => cur'[u] = cur[u] /\ spc'[u] = spc[u]
        /\ spc'[t] = "sending"
    BY <1>q, <2>1
  <2>3. cur'[t].file \in Idx(t) => cur'[t].len = SourceSize(t, cur'[t].file)
    <3>1. NextChunk(t).file \in Idx(t) => NextChunk(t).len = SourceSize(t, NextChunk(t).file)
      BY <1>n, <1>9 DEF RecvAck
    <3> QED BY <2>2, <3>1, Zenon
  <2>4. \A u \in Transfers : spc'[u] \in {"sending", "awaitAck"} /\ cur'[u].file \in Idx(u) =>
           cur'[u].len = SourceSize(u, cur'[u].file)
    BY <2>2, <2>3
  <2> QED BY <2>1, <2>2, <2>4 DEF SourceSize
<1>10. ASSUME NEW t \in Transfers, SendComplete(t) PROVE SenderKnows'
  BY <1>10, <1>q
     DEF SendComplete, receiverVars, storeVars, environment, SetSpc, SendToR, SourceSize
<1>11. ASSUME NEW t \in Transfers, RecvVerified(t) PROVE SenderKnows'
  BY <1>11, <1>q
     DEF RecvVerified, SenderGets, SenderStops, receiverVars, storeVars, environment, SetSpc,
          SendToR, ConsumeS, SourceSize
<1>12. ASSUME NEW t \in Transfers, SenderRecvFails(t) PROVE SenderKnows'
  BY <1>12, <1>q
     DEF SenderRecvFails, SenderStops, receiverVars, storeVars, environment, SetSpc, SendToR,
          ConsumeS, SenderWaiting, SourceSize
<1>13. ASSUME NEW t \in Transfers, RecvHs1(t) PROVE SenderKnows'
  BY <1>13, <1>q
     DEF RecvHs1, ReceiverGets, senderVars, storeVars, environment, SetRpc, SendToS, ConsumeR,
          SourceSize
<1>14. ASSUME NEW t \in Transfers, RecvHs3(t) PROVE SenderKnows'
  BY <1>14, <1>q
     DEF RecvHs3, ReceiverGets, senderVars, storeVars, environment, SetRpc, ConsumeR, SourceSize
<1>15. ASSUME NEW t \in Transfers, RecvRequest(t) PROVE SenderKnows'
  BY <1>15, <1>q
     DEF RecvRequest, ReceiverGets, senderVars, storeVars, environment, SetRpc, ConsumeR, SourceSize
<1>16. ASSUME NEW t \in Transfers, DecideReject(t) PROVE SenderKnows'
  BY <1>16, <1>q
     DEF DecideReject, senderVars, storeVars, environment, SetRpc, SourceSize
<1>17. ASSUME NEW t \in Transfers, DecideAccept(t) PROVE SenderKnows'
  BY <1>17, <1>q
     DEF DecideAccept, senderVars, storeVars, environment, SetRpc, SendToS, SourceSize
<1>18. ASSUME NEW t \in Transfers, CreateWriter(t) PROVE SenderKnows'
  BY <1>18, <1>q
     DEF CreateWriter, senderVars, environment, SourceSize
<1>19. ASSUME NEW t \in Transfers, StartReceiving(t) PROVE SenderKnows'
  BY <1>19, <1>q
     DEF StartReceiving, senderVars, storeVars, environment, SetRpc, SourceSize
<1>20. ASSUME NEW t \in Transfers, RecvChunk(t) PROVE SenderKnows'
  BY <1>20, <1>q
     DEF RecvChunk, ReceiverGets, Writable, senderVars, environment, SendToS, ConsumeR, SourceSize
<1>21. ASSUME NEW t \in Transfers, RecvChunkFails(t) PROVE SenderKnows'
  BY <1>21, <1>q
     DEF RecvChunkFails, ReceiverGets, ReceiverStops, senderVars, storeVars, environment, SetRpc,
          SendToS, ConsumeR, SourceSize
<1>22. ASSUME NEW t \in Transfers, RecvComplete(t) PROVE SenderKnows'
  BY <1>22, <1>q
     DEF RecvComplete, ReceiverGets, senderVars, storeVars, environment, SetRpc, ConsumeR,
          SourceSize
<1>23. ASSUME NEW t \in Transfers, Finalize(t) PROVE SenderKnows'
  BY <1>23, <1>q
     DEF Finalize, senderVars, environment, SourceSize
<1>24. ASSUME NEW t \in Transfers, FinalizeFails(t) PROVE SenderKnows'
  BY <1>24, <1>q
     DEF FinalizeFails, senderVars, storeVars, environment, SetRpc, SendToS, SourceSize
<1>25. ASSUME NEW t \in Transfers, SendVerified(t) PROVE SenderKnows'
  BY <1>25, <1>q
     DEF SendVerified, senderVars, storeVars, environment, SetRpc, SendToS, SourceSize
<1>33. ASSUME NEW t \in Transfers, RemoveResumeState(t) PROVE SenderKnows'
  BY <1>33, <1>q
     DEF RemoveResumeState, senderVars, environment, SetRpc, SourceSize
<1>34. ASSUME NEW t \in Transfers, EndReceiving(t) PROVE SenderKnows'
  BY <1>34, <1>q
     DEF EndReceiving, senderVars, storeVars, environment, SetRpc, SendToS, SourceSize
<1>26. ASSUME NEW t \in Transfers, RecvClosed(t) PROVE SenderKnows'
  BY <1>26, <1>q
     DEF RecvClosed, ReceiverGets, ReceiverStops, senderVars, environment, SetRpc, SendToS,
          ConsumeR, SourceSize
<1>27. ASSUME NEW t \in Transfers, ReceiverRecvFails(t) PROVE SenderKnows'
  BY <1>27, <1>q
     DEF ReceiverRecvFails, ReceiverStops, senderVars, storeVars, environment, SetRpc, SendToS,
          ConsumeR, ReceiverWaiting, SourceSize
<1>28. ASSUME NEW t \in Transfers, ConnectFails(t) PROVE SenderKnows'
  BY <1>28, <1>q
     DEF ConnectFails, Fault, receiverVars, storeVars, SetSpc, SourceSize
<1>29. ASSUME NEW t \in Transfers, SenderCrash(t) PROVE SenderKnows'
  BY <1>29, <1>q
     DEF SenderCrash, Fault, receiverVars, storeVars, SetSpc, SendToR, SenderActive, SenderWaiting,
          SourceSize
<1>30. ASSUME NEW t \in Transfers, ReceiverCrash(t) PROVE SenderKnows'
  BY <1>30, <1>q
     DEF ReceiverCrash, Fault, senderVars, storeVars, SetRpc, SendToS, ReceiverActive,
          ReceiverWaiting, SourceSize
<1>32. ASSUME NEW t \in Transfers, SaveTorn(t) PROVE SenderKnows'
  BY <1>32, <1>q
     DEF SaveTorn, Fault, ReceiverGets, ReceiverStops, senderVars, SetRpc, SendToS, ConsumeR,
          SourceSize
<1>31. ASSUME NEW t \in Transfers, Disconnect(t) PROVE SenderKnows'
  BY <1>31, <1>q
     DEF Disconnect, Fault, senderVars, receiverVars, storeVars, SenderActive, SenderWaiting,
          ReceiverActive, ReceiverWaiting, SourceSize
<1>u. CASE UNCHANGED vars
  BY <1>u DEF vars, SourceSize
<1> QED BY <1>e, <1>1, <1>2, <1>3, <1>4, <1>5, <1>6, <1>7, <1>8, <1>9, <1>10, <1>11, <1>12, <1>13, <1>14, <1>15, <1>16, <1>17, <1>18, <1>19, <1>20, <1>21, <1>22, <1>23, <1>24, <1>25, <1>26, <1>27, <1>28, <1>29, <1>30, <1>31, <1>32, <1>33, <1>34, <1>u
     DEF Next, SenderStep, ReceiverStep, FaultStep

---------------------------------------------------------------------------
(* From the sender to the connection *)

\* Every chunk in queue q of t carries the bytes of its file at its offset.
RightQueue(t, q) ==
  \A k \in DOMAIN q :
    q[k].type = "Chunk" =>
      /\ q[k].file \in Idx(t)
      /\ q[k].span = RightSpan(t, q[k].file, q[k].off)

RightMsg(t, m) ==
  m.type = "Chunk" => m.file \in Idx(t) /\ m.span = RightSpan(t, m.file, m.off)

\* A queue stays right when a right message is appended or one is taken.
LEMMA RightQueues ==
  ASSUME NEW t, NEW q \in Seq(Message), RightQueue(t, q)
  PROVE  /\ \A m \in Message : RightMsg(t, m) => RightQueue(t, Append(q, m)) /\ RightQueue(t, <<m>>)
         /\ \A m, n \in Message : RightMsg(t, m) /\ RightMsg(t, n) => RightQueue(t, q \o <<m, n>>)
         /\ q # <<>> => RightQueue(t, Tail(q)) /\ RightMsg(t, Head(q))
BY DEF RightQueue, RightMsg

\* The chunk the sender is at is read right.
LEMMA ReadsRight ==
  ASSUME TypeOK, SenderKnows, SmallSources, NEW t \in Transfers,
         spc[t] = "sending", cur[t].file \in Idx(t)
  PROVE  ReadSpan(t) = RightSpan(t, cur[t].file, cur[t].off)
<1> DEFINE i == cur[t].file
           n == SourceSize(t, i)
<1>1. FilesOf[t][i] \in Sources /\ InitSize \in [Sources -> Nat] /\ ChunkSize \in Nat
  BY FileIndexNat, ConstantsAssumption DEF ConstantsAssumption
<1>2. /\ disk[FilesOf[t][i]].size = n /\ disk[FilesOf[t][i]].ver = 0
      /\ n \in Nat /\ n <= LargeThreshold
  BY <1>1 DEF SenderKnows, SourceSize, SmallSources
<1>3. man[t][i].size = n /\ cur[t].len = n
  <2>1. rpc[t] # "idle" /\ cur[t].len = n
    BY DEF SenderKnows
  <2>2. man[t][i] = [size |-> n, ver |-> 0]
    BY <2>1 DEF SenderKnows
  <2> HIDE DEF n
  <2> QED BY <2>1, <2>2
<1>4. LargeThreshold \in Nat
  BY ConstantsAssumption DEF ConstantsAssumption
<1>5. EffectiveSize(t, i) = ChunkSize
  BY <1>2, <1>3, <1>4 DEF EffectiveSize, effective_chunk_size
<1> DEFINE r == remaining(n, cur[t].off, ChunkSize)
<1>6. r \in Nat /\ r <= n
  <2>1. cur[t].off * ChunkSize \in Nat
    BY <1>1 DEF TypeOK, Cursor
  <2> HIDE DEF n
  <2> QED BY <1>2, <2>1 DEF remaining
<1>7. r % UsizeValues = r
  <2>1. r < UsizeValues /\ UsizeValues \in Nat \ {0}
    <3> HIDE DEF r, n
    <3> QED BY <1>2, <1>4, <1>6, ConstantsAssumption, ChunkingAssumption
            DEF ConstantsAssumption, ChunkingAssumption
  <2> HIDE DEF r
  <2> QED BY <1>6, <2>1
<1>8. Smaller(Smaller(r % UsizeValues, ChunkSize), r) = Smaller(r, ChunkSize)
  <2> HIDE DEF r
  <2> QED BY <1>1, <1>6, <1>7 DEF Smaller
<1> HIDE DEF n
<1>9. read_size(n, cur[t].off, ChunkSize) = Smaller(r % UsizeValues, ChunkSize)
  BY DEF read_size
<1> HIDE DEF r
<1>10. ReadSpan(t).len = Smaller(r, ChunkSize) /\ RightSpan(t, i, cur[t].off).len = Smaller(r, ChunkSize)
  BY <1>2, <1>3, <1>5, <1>8, <1>9 DEF ReadSpan, RightSpan, n, r
<1> QED BY <1>2, <1>3, <1>5, <1>10 DEF ReadSpan, RightSpan, n

\* Every step keeps the chunks in flight right.
LEMMA ChunksInFlightStep ==
  ASSUME TypeOK, SenderKnows, SmallSources, ChunksInFlight, [Next]_vars
  PROVE  ChunksInFlight'
<1>q. toR \in [Transfers -> Seq(Message)] /\ \A t \in Transfers : RightQueue(t, toR[t])
  BY DEF TypeOK, ChunksInFlight, RightQueue
<1>r. (\A t \in Transfers : RightQueue(t, toR'[t])) => ChunksInFlight'
  BY DEF ChunksInFlight, RightQueue, RightSpan, SourceSize
<1>a. ASSUME NEW t \in Transfers, NEW m \in Message, RightMsg(t, m),
             \/ toR' = [toR EXCEPT ![t] = Append(@, m)]
             \/ toR' = [toR EXCEPT ![t] = <<m>>]
      PROVE  ChunksInFlight'
  <2>1. toR[t] \in Seq(Message) /\ RightQueue(t, toR[t])
    BY <1>q
  <2>2. RightQueue(t, Append(toR[t], m)) /\ RightQueue(t, <<m>>)
    BY <1>a, <2>1, RightQueues
  <2> QED BY <1>a, <1>q, <1>r, <2>2
<1>t. ASSUME NEW t \in Transfers, toR[t] # <<>>, toR' = [toR EXCEPT ![t] = Tail(@)]
      PROVE  ChunksInFlight'
  <2>1. toR[t] \in Seq(Message) /\ RightQueue(t, toR[t])
    BY <1>q
  <2>2. RightQueue(t, Tail(toR[t]))
    BY <1>t, <2>1, RightQueues
  <2> QED BY <1>q, <1>r, <1>t, <2>2
<1>s. toR' = toR => ChunksInFlight'
  BY <1>q, <1>r
<1>m. \A t \in Transfers :
         /\ \A k \in {"Hs1", "Complete", "FIN", "RST", "Hs3", "Request"} :
              Msg(k) \in Message /\ RightMsg(t, Msg(k))
         /\ \A u : Closing(u) \in Message /\ RightMsg(t, Closing(u))
  BY MessageTypes, MessageKinds DEF RightMsg
<1>e. ASSUME NEW s \in Sources, EditSource(s) PROVE ChunksInFlight'
  BY <1>e, <1>s DEF EditSource
<1>1. ASSUME NEW t \in Transfers, Prepare(t) PROVE ChunksInFlight'
  <2> DEFINE m == Msg("Hs1")
  <2>1. m \in Message /\ RightMsg(t, m) /\ toR' = [toR EXCEPT ![t] = Append(@, m)]
    BY <1>1, <1>m DEF Prepare, SendToR
  <2> HIDE DEF m
  <2> QED BY <2>1, <1>a
<1>2. ASSUME NEW t \in Transfers, SendRequest(t) PROVE ChunksInFlight'
  <2> DEFINE m == Msg("Hs3")
             n == Msg("Request")
  <2>1. /\ m \in Message /\ RightMsg(t, m) /\ n \in Message /\ RightMsg(t, n)
        /\ toR' = [toR EXCEPT ![t] = @ \o <<m, n>>]
    BY <1>2, <1>m DEF SendRequest
  <2> HIDE DEF m, n
  <2>2. toR[t] \in Seq(Message) /\ RightQueue(t, toR[t])
    BY <1>q
  <2>3. RightQueue(t, toR[t] \o <<m, n>>)
    BY <2>1, <2>2, RightQueues
  <2> QED BY <1>q, <1>r, <2>1, <2>3
<1>3. ASSUME NEW t \in Transfers, RecvAccept(t) PROVE ChunksInFlight'
  BY <1>3, <1>s DEF RecvAccept, receiverVars, storeVars
<1>4. ASSUME NEW t \in Transfers, RecvResumeAt(t) PROVE ChunksInFlight'
  BY <1>4, <1>s DEF RecvResumeAt, receiverVars, storeVars
<1>5. ASSUME NEW t \in Transfers, RecvReject(t) PROVE ChunksInFlight'
  <2> DEFINE m == Closing(Tail(toS[t]))
  <2>1. m \in Message /\ RightMsg(t, m) /\ toR' = [toR EXCEPT ![t] = Append(@, m)]
    BY <1>5, <1>m DEF RecvReject, SenderStops, SendToR
  <2> HIDE DEF m
  <2> QED BY <2>1, <1>a
<1>6. ASSUME NEW t \in Transfers, SkipChunk(t) PROVE ChunksInFlight'
  BY <1>6, <1>s DEF SkipChunk, receiverVars, storeVars
<1>7. ASSUME NEW t \in Transfers, SendChunk(t) PROVE ChunksInFlight'
  <2> DEFINE m == ChunkMsg(cur[t].file, cur[t].off, ReadSpan(t))
  <2>1. spc[t] = "sending" /\ cur[t].file \in Idx(t) /\ cur[t].file \in FileIndex
    BY <1>7, FileIndexNat DEF SendChunk, AtChunk
  <2>2. cur[t].off \in Nat /\ ReadSpan(t) \in Span
    BY <2>1, CursorTypes DEF TypeOK, Cursor
  <2>3. ReadSpan(t) = RightSpan(t, cur[t].file, cur[t].off)
    BY <2>1, ReadsRight
  <2>4. m \in Message
    BY <2>1, <2>2, MessageTypes
  <2>5. RightMsg(t, m)
    BY <2>1, <2>3 DEF RightMsg, ChunkMsg
  <2>6. toR' = [toR EXCEPT ![t] = Append(@, m)]
    BY <1>7 DEF SendChunk, SendToR
  <2> HIDE DEF m
  <2> QED BY <2>4, <2>5, <2>6, <1>a
<1>8. ASSUME NEW t \in Transfers, ChunkTooLong(t) PROVE ChunksInFlight'
  <2> DEFINE m == Closing(toS[t])
  <2>1. m \in Message /\ RightMsg(t, m) /\ toR' = [toR EXCEPT ![t] = Append(@, m)]
    BY <1>8, <1>m DEF ChunkTooLong, SendToR
  <2> HIDE DEF m
  <2> QED BY <2>1, <1>a
<1>9. ASSUME NEW t \in Transfers, RecvAck(t) PROVE ChunksInFlight'
  BY <1>9, <1>s DEF RecvAck, receiverVars, storeVars
<1>10. ASSUME NEW t \in Transfers, SendComplete(t) PROVE ChunksInFlight'
  <2> DEFINE m == Msg("Complete")
  <2>1. m \in Message /\ RightMsg(t, m) /\ toR' = [toR EXCEPT ![t] = Append(@, m)]
    BY <1>10, <1>m DEF SendComplete, SendToR
  <2> HIDE DEF m
  <2> QED BY <2>1, <1>a
<1>11. ASSUME NEW t \in Transfers, RecvVerified(t) PROVE ChunksInFlight'
  <2> DEFINE m == Closing(Tail(toS[t]))
  <2>1. m \in Message /\ RightMsg(t, m) /\ toR' = [toR EXCEPT ![t] = Append(@, m)]
    BY <1>11, <1>m DEF RecvVerified, SenderStops, SendToR
  <2> HIDE DEF m
  <2> QED BY <2>1, <1>a
<1>12. ASSUME NEW t \in Transfers, SenderRecvFails(t) PROVE ChunksInFlight'
  <2> DEFINE m == Closing(Tail(toS[t]))
  <2>1. m \in Message /\ RightMsg(t, m) /\ toR' = [toR EXCEPT ![t] = Append(@, m)]
    BY <1>12, <1>m DEF SenderRecvFails, SenderStops, SendToR
  <2> HIDE DEF m
  <2> QED BY <2>1, <1>a
<1>13. ASSUME NEW t \in Transfers, RecvHs1(t) PROVE ChunksInFlight'
  BY <1>13, <1>t DEF RecvHs1, ReceiverGets, ConsumeR
<1>14. ASSUME NEW t \in Transfers, RecvHs3(t) PROVE ChunksInFlight'
  BY <1>14, <1>t DEF RecvHs3, ReceiverGets, ConsumeR
<1>15. ASSUME NEW t \in Transfers, RecvRequest(t) PROVE ChunksInFlight'
  BY <1>15, <1>t DEF RecvRequest, ReceiverGets, ConsumeR
<1>16. ASSUME NEW t \in Transfers, DecideReject(t) PROVE ChunksInFlight'
  BY <1>16, <1>s DEF DecideReject, senderVars, storeVars
<1>17. ASSUME NEW t \in Transfers, DecideAccept(t) PROVE ChunksInFlight'
  BY <1>17, <1>s DEF DecideAccept, senderVars, storeVars
<1>18. ASSUME NEW t \in Transfers, CreateWriter(t) PROVE ChunksInFlight'
  BY <1>18, <1>s DEF CreateWriter, senderVars
<1>19. ASSUME NEW t \in Transfers, StartReceiving(t) PROVE ChunksInFlight'
  BY <1>19, <1>s DEF StartReceiving, senderVars, storeVars
<1>20. ASSUME NEW t \in Transfers, RecvChunk(t) PROVE ChunksInFlight'
  BY <1>20, <1>t DEF RecvChunk, ReceiverGets, ConsumeR
<1>21. ASSUME NEW t \in Transfers, RecvChunkFails(t) PROVE ChunksInFlight'
  BY <1>21, <1>t DEF RecvChunkFails, ReceiverGets, ReceiverStops, ConsumeR
<1>22. ASSUME NEW t \in Transfers, RecvComplete(t) PROVE ChunksInFlight'
  BY <1>22, <1>t DEF RecvComplete, ReceiverGets, ConsumeR
<1>23. ASSUME NEW t \in Transfers, Finalize(t) PROVE ChunksInFlight'
  BY <1>23, <1>s DEF Finalize, senderVars
<1>24. ASSUME NEW t \in Transfers, FinalizeFails(t) PROVE ChunksInFlight'
  BY <1>24, <1>s DEF FinalizeFails, senderVars, storeVars
<1>25. ASSUME NEW t \in Transfers, SendVerified(t) PROVE ChunksInFlight'
  BY <1>25, <1>s DEF SendVerified, senderVars
<1>33. ASSUME NEW t \in Transfers, RemoveResumeState(t) PROVE ChunksInFlight'
  BY <1>33, <1>s DEF RemoveResumeState, senderVars
<1>34. ASSUME NEW t \in Transfers, EndReceiving(t) PROVE ChunksInFlight'
  BY <1>34, <1>s DEF EndReceiving, senderVars
<1>26. ASSUME NEW t \in Transfers, RecvClosed(t) PROVE ChunksInFlight'
  BY <1>26, <1>t DEF RecvClosed, ReceiverGets, ReceiverStops, ConsumeR
<1>27. ASSUME NEW t \in Transfers, ReceiverRecvFails(t) PROVE ChunksInFlight'
  BY <1>27, <1>t DEF ReceiverRecvFails, ReceiverGets, ReceiverStops, ConsumeR
<1>28. ASSUME NEW t \in Transfers, ConnectFails(t) PROVE ChunksInFlight'
  BY <1>28, <1>s DEF ConnectFails, receiverVars, storeVars
<1>29. ASSUME NEW t \in Transfers, SenderCrash(t) PROVE ChunksInFlight'
  <2>1. PICK kind \in {"FIN", "RST"} : toR' = [toR EXCEPT ![t] = Append(@, Msg(kind))]
    BY <1>29 DEF SenderCrash, SendToR
  <2> DEFINE m == Msg(kind)
  <2>2. m \in Message /\ RightMsg(t, m) /\ toR' = [toR EXCEPT ![t] = Append(@, m)]
    BY <2>1, <1>m
  <2> HIDE DEF m
  <2> QED BY <2>2, <1>a
<1>30. ASSUME NEW t \in Transfers, ReceiverCrash(t) PROVE ChunksInFlight'
  BY <1>30, <1>s DEF ReceiverCrash, senderVars, storeVars
<1>32. ASSUME NEW t \in Transfers, SaveTorn(t) PROVE ChunksInFlight'
  BY <1>32, <1>t DEF SaveTorn, ReceiverGets, ReceiverStops, ConsumeR
<1>31. ASSUME NEW t \in Transfers, Disconnect(t) PROVE ChunksInFlight'
  <2> DEFINE m == Msg("RST")
  <2>1. m \in Message /\ RightMsg(t, m) /\ toR' = [toR EXCEPT ![t] = <<m>>]
    BY <1>31, <1>m DEF Disconnect
  <2> HIDE DEF m
  <2> QED BY <2>1, <1>a
<1>u. CASE UNCHANGED vars
  BY <1>u, <1>s DEF vars
<1> QED BY <1>e, <1>1, <1>2, <1>3, <1>4, <1>5, <1>6, <1>7, <1>8, <1>9, <1>10, <1>11, <1>12, <1>13, <1>14, <1>15, <1>16, <1>17, <1>18, <1>19, <1>20, <1>21, <1>22, <1>23, <1>24, <1>25, <1>26, <1>27, <1>28, <1>29, <1>30, <1>31, <1>32, <1>33, <1>34, <1>u
     DEF Next, SenderStep, ReceiverStep, FaultStep

---------------------------------------------------------------------------
(* From the connection to the partial file *)

\* A right chunk fits into the file, and what write_at stores are right bytes:
\* those of the chunk become right, the others stay.
LEMMA WritesRight ==
  ASSUME NEW t \in Transfers, NEW i \in Idx(t), NEW o \in Nat,
         NEW bytes \in Seq(Cell), Len(bytes) = SourceSize(t, i)
  PROVE  LET after == write_at(bytes, o * ChunkSize, RightSpan(t, i, o))
         IN  /\ Len(after) = SourceSize(t, i)
             /\ \A b \in ChunkBytes(SourceSize(t, i), o, ChunkSize) :
                  after[b + 1] = RightByte(t, i, b)
             /\ \A b \in 0 .. SourceSize(t, i) - 1 :
                  bytes[b + 1] = RightByte(t, i, b) => after[b + 1] = RightByte(t, i, b)
<1> DEFINE n == SourceSize(t, i)
           at == o * ChunkSize
           len == Smaller(remaining(n, o, ChunkSize), ChunkSize)
           span == RightSpan(t, i, o)
           after == write_at(bytes, at, span)
<1>1. n \in Nat /\ ChunkSize \in Nat \ {0}
  BY FileIndexNat, ConstantsAssumption DEF ConstantsAssumption, SourceSize
<1>2. at \in Nat /\ (o + 1) * ChunkSize = at + ChunkSize
  BY <1>1
<1>3. span.src = FilesOf[t][i] /\ span.lo = at /\ span.ver = 0 /\ span.len = len
  BY DEF RightSpan
<1>4. len \in Nat /\ (at >= n => len = 0) /\ (at < n => at + len <= n /\ len > 0)
      /\ (at < n => len = n - at \/ len = ChunkSize)
  <2> HIDE DEF n, at
  <2>1. len = IF at >= n THEN 0 ELSE IF n - at <= ChunkSize THEN n - at ELSE ChunkSize
    BY <1>1, <1>2 DEF remaining, Smaller, at
  <2> HIDE DEF len
  <2> QED BY <1>1, <1>2, <2>1
<1>5. \A b \in ChunkBytes(n, o, ChunkSize) : b \in 0 .. n - 1 /\ at <= b /\ b < at + len
  <2> TAKE b \in ChunkBytes(n, o, ChunkSize)
  <2>1. b \in 0 .. n - 1 /\ at <= b /\ b < at + ChunkSize
    BY <1>2 DEF ChunkBytes
  <2> HIDE DEF n, at, len
  <2> QED BY <1>1, <1>2, <1>4, <2>1
<1>6. CASE len = 0
  <2>1. after = bytes
    BY <1>3, <1>6 DEF write_at
  <2>2. ChunkBytes(n, o, ChunkSize) = {}
    <3> HIDE DEF n, at, len
    <3> QED BY <1>1, <1>2, <1>5, <1>6
  <2> HIDE DEF n, at, after
  <2>3. Len(after) = n
    BY <2>1 DEF n
  <2>4. \A b \in 0 .. n - 1 : bytes[b + 1] = RightByte(t, i, b) => after[b + 1] = RightByte(t, i, b)
    BY <2>1
  <2> QED BY <2>2, <2>3, <2>4 DEF n, at, after, span
<1>7. CASE len # 0
  <2>1. at + len <= n
    BY <1>1, <1>2, <1>4, <1>7
  <2> DEFINE Cl(k) == IF at < k /\ k <= at + len
                        THEN [src |-> FilesOf[t][i], pos |-> at + (k - 1 - at), ver |-> 0]
                      ELSE IF k <= n THEN bytes[k] ELSE Blank
  <2>2. after = [k \in 1 .. n |-> Cl(k)]
    <3>1. ~(n < at + len)
      <4> HIDE DEF n, at, len
      <4> QED BY <1>1, <1>2, <1>4, <2>1
    <3>2. (IF Len(bytes) < at + len THEN at + len ELSE Len(bytes)) = n
      BY <3>1
    <3> HIDE DEF at, len, n
    <3>3. write_at(bytes, at, span) =
            [k \in 1 .. (IF Len(bytes) < at + span.len THEN at + span.len ELSE Len(bytes)) |->
               IF at < k /\ k <= at + span.len
                 THEN [src |-> span.src, pos |-> span.lo + (k - 1 - at), ver |-> span.ver]
               ELSE IF k <= Len(bytes) THEN bytes[k] ELSE Blank]
      BY <1>3, <1>7 DEF write_at
    <3>4. Len(bytes) = n
      BY DEF n
    <3> HIDE DEF span
    <3> QED BY <1>3, <3>2, <3>3, <3>4
  <2>3. Len(after) = n
    BY <1>1, <2>2
  <2>4. ASSUME NEW b \in 0 .. n - 1
        PROVE  /\ after[b + 1] = Cl(b + 1)
               /\ at <= b /\ b < at + len => after[b + 1] = RightByte(t, i, b)
               /\ ~(at <= b /\ b < at + len) => after[b + 1] = bytes[b + 1]
    <3>1. b \in Nat /\ b + 1 \in 1 .. n /\ b + 1 <= n
      BY <1>1
    <3>2. after[b + 1] = Cl(b + 1)
      BY <2>2, <3>1
    <3>3. at + ((b + 1) - 1 - at) = b
      BY <1>2, <3>1
    <3>4. (at < b + 1 /\ b + 1 <= at + len) <=> (at <= b /\ b < at + len)
      <4> HIDE DEF n, at, len
      <4> QED BY <1>2, <1>4, <3>1
    <3> HIDE DEF n, at, len, after
    <3>5. at <= b /\ b < at + len => Cl(b + 1) = RightByte(t, i, b)
      BY <3>3, <3>4 DEF RightByte
    <3>6. ~(at <= b /\ b < at + len) => Cl(b + 1) = bytes[b + 1]
      BY <3>1, <3>4
    <3> QED BY <3>2, <3>5, <3>6
  <2> HIDE DEF n, at, len, after, Cl
  <2>5. \A b \in ChunkBytes(n, o, ChunkSize) : after[b + 1] = RightByte(t, i, b)
    BY <1>5, <2>4
  <2>6. \A b \in 0 .. n - 1 : bytes[b + 1] = RightByte(t, i, b) => after[b + 1] = RightByte(t, i, b)
    BY <2>4
  <2> QED BY <2>3, <2>5, <2>6 DEF n, at, after, span
<1> HIDE DEF len
<1> QED BY <1>4, <1>6, <1>7

\* The chunk a receiver reads next carries the bytes of its file at its offset.
LEMMA ArrivingChunk ==
  ASSUME TypeOK, ChunksInFlight, NEW t \in Transfers, ReceiverGets(t, "Chunk")
  PROVE  \E i \in Idx(t), o \in Nat :
           /\ Head(toR[t]).file = i /\ Head(toR[t]).off = o
           /\ Head(toR[t]).span = RightSpan(t, i, o)
<1> DEFINE m == Head(toR[t])
<1>1. toR[t] \in Seq(Message) /\ toR[t] # <<>> /\ m.type = "Chunk"
  BY DEF TypeOK, ReceiverGets
<1>2. m \in Message /\ RightMsg(t, m)
  <2>1. RightQueue(t, toR[t])
    BY DEF ChunksInFlight, RightQueue
  <2>2. m \in Message
    BY <1>1
  <2> HIDE DEF m
  <2>3. toR[t] # <<>> => RightQueue(t, Tail(toR[t])) /\ RightMsg(t, Head(toR[t]))
    BY <1>1, <2>1, RightQueues, Zenon
  <2> QED BY <1>1, <2>2, <2>3 DEF m
<1>3. m.off \in Nat
  BY <1>1, <1>2, Payloads
<1> HIDE DEF m
<1>4. m.file \in Idx(t) /\ m.span = RightSpan(t, m.file, m.off)
  BY <1>1, <1>2 DEF RightMsg
<1> QED BY <1>3, <1>4 DEF m

\* The body of WritersRight for one file.
WriterRight(t, i) ==
  /\ completed[t][i] \subseteq 0 .. chunk_count(SourceSize(t, i), ChunkSize) - 1
  /\ Path(t, i) \in partials =>
       /\ Len(temp[Path(t, i)]) = SourceSize(t, i)
       /\ \A o \in completed[t][i] : \A b \in ChunkBytes(SourceSize(t, i), o, ChunkSize) :
            temp[Path(t, i)][b + 1] = RightByte(t, i, b)

\* Every step keeps the writers right: writers at work on one partial file write the
\* same bytes to it, and none comes to work on a file that another has begun and lost.
LEMMA WritersStep ==
  ASSUME TypeOK, AgreementInv, SenderKnows, ChunksInFlight, WritersAgree, WritersRight,
         [Next]_vars, [~Collides]_vars
  PROVE  WritersAgree' /\ WritersRight'
<1>q. /\ rpc \in [Transfers -> ReceiverStates] /\ rfile \in [Transfers -> Nat]
      /\ completed \in [Transfers -> [FileIndex -> SUBSET Nat]]
      /\ partials \subseteq Paths /\ temp \in [Paths -> Seq(Cell)]
      /\ toR \in [Transfers -> Seq(Message)]
  BY DEF TypeOK
<1>w. \A t \in Transfers : \A i \in Idx(t) : Writing(t, i) => WriterRight(t, i)
  BY DEF WritersRight, WriterRight
<1>r. (\A t \in Transfers : \A i \in Idx(t) : Writing(t, i)' => WriterRight(t, i)')
        => WritersRight'
  BY DEF WritersRight, WriterRight, Writing, HasWriter, SourceSize, RightByte, Path
<1>a. ASSUME \A u \in Transfers : \A j \in Idx(u) : Writing(u, j)' => Writing(u, j)
      PROVE  WritersAgree'
  <2> SUFFICES ASSUME NEW t \in Transfers, NEW u \in Transfers, NEW i \in Idx(t), NEW j \in Idx(u),
                      Writing(t, i)', Writing(u, j)', Path(t, i) = Path(u, j)
               PROVE  FilesOf[t][i] = FilesOf[u][j]
    BY DEF WritersAgree, Path, Idx
  <2> QED BY <1>a DEF WritersAgree
<1>o. ASSUME NEW u \in Transfers, NEW j \in Idx(u), Writing(u, j)' => Writing(u, j),
             completed'[u][j] = completed[u][j],
             Path(u, j) \in partials' => Path(u, j) \in partials
                                           /\ temp'[Path(u, j)] = temp[Path(u, j)]
      PROVE  Writing(u, j)' => WriterRight(u, j)'
  BY <1>o, <1>w DEF WriterRight, SourceSize, RightByte, Path
<1>k. ASSUME \A u \in Transfers : \A j \in Idx(u) : Writing(u, j)' => Writing(u, j),
             UNCHANGED <<completed, partials, temp>>
      PROVE  WritersAgree' /\ WritersRight'
  BY <1>a, <1>k, <1>o, <1>r
<1>n. ASSUME NEW t \in Transfers, NEW pc \in {"hs1", "hs3", "waitRequest", "deciding", "removing",
                                              "closing", "failed", "completed", "incomplete"},
             rpc' = rpc \/ rpc' = [rpc EXCEPT ![t] = pc],
             UNCHANGED <<rfile, completed, partials, temp>>
      PROVE  WritersAgree' /\ WritersRight'
  <2>1. \A u \in Transfers : \A j \in Idx(u) : Writing(u, j)' => Writing(u, j)
    BY <1>n, <1>q DEF Writing, HasWriter
  <2> QED BY <1>k, <1>n, <2>1
<1>e. ASSUME NEW s \in Sources, EditSource(s) PROVE WritersAgree' /\ WritersRight'
  <2>1. UNCHANGED <<rpc, rfile, completed, partials, temp>>
    BY <1>e DEF EditSource, receiverVars, storeVars
  <2> QED BY <1>k, <2>1 DEF Writing, HasWriter
<1>1. ASSUME NEW t \in Transfers, Prepare(t) PROVE WritersAgree' /\ WritersRight'
  <2>1. /\ rpc' = [rpc EXCEPT ![t] = "hs1"]
        /\ UNCHANGED <<rfile, completed, partials, temp>>
    BY <1>1 DEF Prepare, HandlerStarts, SetRpc, storeVars
  <2> QED BY <1>n, <2>1
<1>2. ASSUME NEW t \in Transfers, SendRequest(t) PROVE WritersAgree' /\ WritersRight'
  <2>1. UNCHANGED <<rpc, rfile, completed, partials, temp>>
    BY <1>2 DEF SendRequest, receiverVars, storeVars
  <2> QED BY <1>n, <2>1
<1>3. ASSUME NEW t \in Transfers, RecvAccept(t) PROVE WritersAgree' /\ WritersRight'
  <2>1. UNCHANGED <<rpc, rfile, completed, partials, temp>>
    BY <1>3 DEF RecvAccept, receiverVars, storeVars
  <2> QED BY <1>n, <2>1
<1>4. ASSUME NEW t \in Transfers, RecvResumeAt(t) PROVE WritersAgree' /\ WritersRight'
  <2>1. UNCHANGED <<rpc, rfile, completed, partials, temp>>
    BY <1>4 DEF RecvResumeAt, receiverVars, storeVars
  <2> QED BY <1>n, <2>1
<1>5. ASSUME NEW t \in Transfers, RecvReject(t) PROVE WritersAgree' /\ WritersRight'
  <2>1. UNCHANGED <<rpc, rfile, completed, partials, temp>>
    BY <1>5 DEF RecvReject, receiverVars, storeVars
  <2> QED BY <1>n, <2>1
<1>6. ASSUME NEW t \in Transfers, SkipChunk(t) PROVE WritersAgree' /\ WritersRight'
  <2>1. UNCHANGED <<rpc, rfile, completed, partials, temp>>
    BY <1>6 DEF SkipChunk, receiverVars, storeVars
  <2> QED BY <1>n, <2>1
<1>7. ASSUME NEW t \in Transfers, SendChunk(t) PROVE WritersAgree' /\ WritersRight'
  <2>1. UNCHANGED <<rpc, rfile, completed, partials, temp>>
    BY <1>7 DEF SendChunk, receiverVars, storeVars
  <2> QED BY <1>n, <2>1
<1>8. ASSUME NEW t \in Transfers, ChunkTooLong(t) PROVE WritersAgree' /\ WritersRight'
  <2>1. UNCHANGED <<rpc, rfile, completed, partials, temp>>
    BY <1>8 DEF ChunkTooLong, receiverVars, storeVars
  <2> QED BY <1>n, <2>1
<1>9. ASSUME NEW t \in Transfers, RecvAck(t) PROVE WritersAgree' /\ WritersRight'
  <2>1. UNCHANGED <<rpc, rfile, completed, partials, temp>>
    BY <1>9 DEF RecvAck, receiverVars, storeVars
  <2> QED BY <1>n, <2>1
<1>10. ASSUME NEW t \in Transfers, SendComplete(t) PROVE WritersAgree' /\ WritersRight'
  <2>1. UNCHANGED <<rpc, rfile, completed, partials, temp>>
    BY <1>10 DEF SendComplete, receiverVars, storeVars
  <2> QED BY <1>n, <2>1
<1>11. ASSUME NEW t \in Transfers, RecvVerified(t) PROVE WritersAgree' /\ WritersRight'
  <2>1. UNCHANGED <<rpc, rfile, completed, partials, temp>>
    BY <1>11 DEF RecvVerified, receiverVars, storeVars
  <2> QED BY <1>n, <2>1
<1>12. ASSUME NEW t \in Transfers, SenderRecvFails(t) PROVE WritersAgree' /\ WritersRight'
  <2>1. UNCHANGED <<rpc, rfile, completed, partials, temp>>
    BY <1>12 DEF SenderRecvFails, receiverVars, storeVars
  <2> QED BY <1>n, <2>1
<1>13. ASSUME NEW t \in Transfers, RecvHs1(t) PROVE WritersAgree' /\ WritersRight'
  <2>1. /\ rpc' = [rpc EXCEPT ![t] = "hs3"]
        /\ UNCHANGED <<rfile, completed, partials, temp>>
    BY <1>13 DEF RecvHs1, SetRpc, storeVars
  <2> QED BY <1>n, <2>1
<1>14. ASSUME NEW t \in Transfers, RecvHs3(t) PROVE WritersAgree' /\ WritersRight'
  <2>1. /\ rpc' = [rpc EXCEPT ![t] = "waitRequest"]
        /\ UNCHANGED <<rfile, completed, partials, temp>>
    BY <1>14 DEF RecvHs3, SetRpc, storeVars
  <2> QED BY <1>n, <2>1
<1>15. ASSUME NEW t \in Transfers, RecvRequest(t) PROVE WritersAgree' /\ WritersRight'
  <2>1. /\ rpc' = [rpc EXCEPT ![t] = "deciding"]
        /\ UNCHANGED <<rfile, completed, partials, temp>>
    BY <1>15 DEF RecvRequest, SetRpc, storeVars
  <2> QED BY <1>n, <2>1
<1>16. ASSUME NEW t \in Transfers, DecideReject(t) PROVE WritersAgree' /\ WritersRight'
  <2>1. /\ rpc' = [rpc EXCEPT ![t] = "failed"]
        /\ UNCHANGED <<rfile, completed, partials, temp>>
    BY <1>16 DEF DecideReject, SetRpc, storeVars
  <2> QED BY <1>n, <2>1
<1>17. ASSUME NEW t \in Transfers, DecideAccept(t) PROVE WritersAgree' /\ WritersRight'
  <2>1. /\ rpc' = [rpc EXCEPT ![t] = "creating"] /\ rfile' = [rfile EXCEPT ![t] = 1]
        /\ UNCHANGED <<completed, partials, temp>>
    BY <1>17 DEF DecideAccept, SetRpc, storeVars
  <2>2. \A j \in Idx(t) : ~(j < 1)
    BY FileIndexNat
  <2>3. \A u \in Transfers : \A j \in Idx(u) : Writing(u, j)' => Writing(u, j)
    BY <1>q, <2>1, <2>2 DEF Writing, HasWriter
  <2> QED BY <1>k, <2>1, <2>3
<1>18. ASSUME NEW t \in Transfers, CreateWriter(t) PROVE WritersAgree' /\ WritersRight'
  <2>i. PICK i \in Idx(t) : i = rfile[t]
    BY <1>18 DEF CreateWriter
  <2> DEFINE p == Path(t, i)
  <2>1. /\ rpc[t] = "creating" /\ rpc' = rpc
        /\ partials' = partials \cup {p}
        /\ temp' = [temp EXCEPT ![p] = set_len(@, man[t][i].size)]
        /\ completed' = [completed EXCEPT ![t][i] = {}]
        /\ rfile' = [rfile EXCEPT ![t] = i + 1]
    BY <1>18, <2>i DEF CreateWriter
  <2>2. i \in Nat /\ i \in FileIndex /\ p \in Paths /\ temp[p] \in Seq(Cell)
    BY <1>q, FileIndexNat
  <2>3. man[t][i].size = SourceSize(t, i) /\ SourceSize(t, i) \in Nat
    <3>1. man[t][i] = [size |-> SourceSize(t, i), ver |-> 0]
      BY <2>1 DEF SenderKnows
    <3>2. man[t][i].size \in Nat
      BY <2>2, ManifestTypes
    <3> QED BY <3>1, <3>2
  <2> HIDE DEF p
  <2>4. /\ temp'[p] = set_len(temp[p], SourceSize(t, i)) /\ Len(temp'[p]) = SourceSize(t, i)
        /\ completed'[t][i] = {} /\ WriterRight(t, i)'
    <3>1. completed'[t][i] = {}
      BY <1>q, <2>1, <2>2
    <3>2. temp'[p] = set_len(temp[p], SourceSize(t, i))
      BY <1>q, <2>1, <2>2, <2>3
    <3>3. Len(temp'[p]) = SourceSize(t, i)
      BY <2>3, <3>2 DEF set_len
    <3> QED BY <3>1, <3>2, <3>3 DEF WriterRight, SourceSize, Path, p
  <2>5. ASSUME NEW u \in Transfers, NEW j \in Idx(u), u # t \/ j # i
        PROVE  Writing(u, j)' => Writing(u, j)
    <3>1. j \in Nat
      BY FileIndexNat
    <3> QED BY <1>q, <2>1, <2>2, <2>5, <3>1, <2>i DEF Writing, HasWriter
  <2>6. ASSUME NEW u \in Transfers, NEW j \in Idx(u), Writing(u, j), Path(u, j) = p
        PROVE  /\ FilesOf[u][j] = FilesOf[t][i]
               /\ p \in partials \/ completed[u][j] = {}
    <3>1. ~Collides
      <4>1. rfile' # rfile
        BY <1>q, <2>1, <2>2, <2>i
      <4> QED BY <4>1 DEF vars
    <3>2. Path(u, j) = Path(t, rfile[t]) /\ rfile[t] = i
      BY <2>6, <2>i DEF p
    <3>3. ~(FilesOf[u][j] # FilesOf[t][rfile[t]] \/ (Path(u, j) \notin partials /\ completed[u][j] # {}))
      BY <1>18, <2>6, <3>1, <3>2 DEF Collides
    <3> QED BY <2>6, <3>2, <3>3
  <2>7. ASSUME NEW u \in Transfers, NEW j \in Idx(u), u # t \/ j # i, Writing(u, j)'
        PROVE  WriterRight(u, j)'
    <3>1. Writing(u, j) /\ WriterRight(u, j) /\ j \in FileIndex /\ Path(u, j) \in Paths
      BY <1>w, <2>5, <2>7, FileIndexNat
    <3>2. completed'[u][j] = completed[u][j]
      BY <1>q, <2>1, <2>2, <2>7, <3>1
    <3>3. CASE Path(u, j) # p
      <4>1. temp'[Path(u, j)] = temp[Path(u, j)] /\ (Path(u, j) \in partials' => Path(u, j) \in partials)
        BY <1>q, <2>1, <2>2, <3>1, <3>3
      <4> QED BY <1>o, <2>7, <3>1, <3>2, <4>1
    <3>4. CASE Path(u, j) = p
      <4>1. SourceSize(u, j) = SourceSize(t, i)
        BY <2>6, <3>1, <3>4 DEF SourceSize
      <4>2. CASE p \in partials
        <5>1. Len(temp[p]) = SourceSize(t, i)
          BY <3>1, <3>4, <4>1, <4>2 DEF WriterRight
        <5>2. temp'[p] = temp[p]
          BY <2>2, <2>4, <5>1 DEF set_len
        <5> QED BY <1>o, <2>7, <3>1, <3>2, <3>4, <4>2, <5>2
      <4>3. CASE completed[u][j] = {}
        BY <2>4, <3>2, <3>4, <4>1, <4>3 DEF WriterRight, SourceSize, Path
      <4> QED BY <2>6, <3>1, <3>4, <4>2, <4>3
    <3> QED BY <3>3, <3>4
  <2>8. WritersAgree'
    <3> SUFFICES ASSUME NEW u \in Transfers, NEW v \in Transfers, NEW j \in Idx(u), NEW k \in Idx(v),
                        Writing(u, j)', Writing(v, k)', Path(u, j) = Path(v, k)
                 PROVE  FilesOf[u][j] = FilesOf[v][k]
      BY DEF WritersAgree, Path, Idx
    <3>1. CASE u = t /\ j = i
      BY <2>5, <2>6, <3>1 DEF p
    <3>2. CASE v = t /\ k = i
      BY <2>5, <2>6, <3>2 DEF p
    <3>3. CASE (u # t \/ j # i) /\ (v # t \/ k # i)
      BY <2>5, <3>3 DEF WritersAgree
    <3> QED BY <3>1, <3>2, <3>3
  <2> QED BY <1>r, <2>4, <2>7, <2>8
<1>19. ASSUME NEW t \in Transfers, StartReceiving(t) PROVE WritersAgree' /\ WritersRight'
  <2>1. /\ rpc[t] = "creating" /\ rpc' = [rpc EXCEPT ![t] = "receiving"]
        /\ UNCHANGED <<rfile, completed, partials, temp>> /\ rfile[t] \notin Idx(t)
    BY <1>19 DEF StartReceiving, SetRpc, storeVars
  <2>2. \A j \in Idx(t) : j < rfile[t]
    <3>1. Idx(t) = 1 .. Len(FilesOf[t]) /\ Len(FilesOf[t]) \in Nat
      BY FileIndexNat, ConstantsAssumption DEF ConstantsAssumption
    <3>2. rfile[t] \in Nat /\ rfile[t] >= 1
      BY <1>q DEF AgreementInv
    <3> QED BY <2>1, <3>1, <3>2
  <2>3. \A u \in Transfers : \A j \in Idx(u) : Writing(u, j)' => Writing(u, j)
    BY <1>q, <2>1, <2>2 DEF Writing, HasWriter
  <2> QED BY <1>k, <2>1, <2>3
<1>20. ASSUME NEW t \in Transfers, RecvChunk(t) PROVE WritersAgree' /\ WritersRight'
  <2>i. PICK i \in Idx(t), o \in Nat :
           /\ Head(toR[t]).file = i /\ Head(toR[t]).off = o
           /\ Head(toR[t]).span = RightSpan(t, i, o)
    BY <1>20, ArrivingChunk DEF RecvChunk
  <2> DEFINE p == Path(t, i)
             n == SourceSize(t, i)
             span == RightSpan(t, i, o)
  <2>1. /\ rpc[t] = "receiving" /\ UNCHANGED <<rpc, rfile, partials>>
        /\ p \in partials /\ o < WriterChunks(t, i)
        /\ temp' = [temp EXCEPT ![p] = write_at(@, o * ChunkSize, span)]
        /\ completed' = [completed EXCEPT ![t][i] = @ \cup {o}]
    BY <1>20, <2>i DEF RecvChunk, Writable
  <2>2. i \in FileIndex /\ p \in Paths /\ temp[p] \in Seq(Cell)
    BY <1>q, FileIndexNat
  <2>3. man[t][i].size = n /\ WriterChunks(t, i) = chunk_count(n, ChunkSize)
    <3>1. man[t][i] = [size |-> n, ver |-> 0]
      BY <2>1 DEF SenderKnows
    <3> HIDE DEF n
    <3> QED BY <3>1 DEF WriterChunks
  <2>4. /\ completed[t][i] \subseteq 0 .. chunk_count(n, ChunkSize) - 1
        /\ Len(temp[p]) = n
        /\ \A c \in completed[t][i] : \A b \in ChunkBytes(n, c, ChunkSize) :
             temp[p][b + 1] = RightByte(t, i, b)
    BY <1>w, <2>1 DEF Writing, HasWriter, WriterRight
  <2> DEFINE after == write_at(temp[p], o * ChunkSize, span)
  <2>5. /\ Len(after) = n
        /\ \A b \in ChunkBytes(n, o, ChunkSize) : after[b + 1] = RightByte(t, i, b)
        /\ \A b \in 0 .. n - 1 :
             temp[p][b + 1] = RightByte(t, i, b) => after[b + 1] = RightByte(t, i, b)
    BY <2>2, <2>4, WritesRight
  <2>6. \A c : ChunkBytes(n, c, ChunkSize) \subseteq 0 .. n - 1
    BY DEF ChunkBytes
  <2>7. chunk_count(n, ChunkSize) \in Nat
    <3>1. n \in Nat /\ ChunkSize \in Nat \ {0}
      BY FileIndexNat, ConstantsAssumption DEF ConstantsAssumption, SourceSize
    <3> QED BY <3>1, ChunkCountPositive
  <2>8. completed'[t][i] = completed[t][i] \cup {o} /\ temp'[p] = after
    BY <1>q, <2>1, <2>2
  <2> HIDE DEF after, span, n, p
  <2>9. completed'[t][i] \subseteq 0 .. chunk_count(n, ChunkSize) - 1
    BY <2>1, <2>3, <2>4, <2>7, <2>8
  <2>10. \A c \in completed'[t][i] : \A b \in ChunkBytes(n, c, ChunkSize) :
            temp'[p][b + 1] = RightByte(t, i, b)
    BY <2>4, <2>5, <2>6, <2>8
  <2>11. WriterRight(t, i)'
    BY <2>5, <2>8, <2>9, <2>10 DEF WriterRight, SourceSize, RightByte, Path, n, p
  <2>12. \A u \in Transfers : \A j \in Idx(u) : Writing(u, j)' => Writing(u, j)
    BY <2>1 DEF Writing, HasWriter
  <2>13. ASSUME NEW u \in Transfers, NEW j \in Idx(u), u # t \/ j # i, Writing(u, j)'
         PROVE  WriterRight(u, j)'
    <3>1. j \in FileIndex /\ Path(u, j) \in Paths /\ Writing(u, j) /\ WriterRight(u, j)
      BY <1>w, <2>12, <2>13, FileIndexNat
    <3>2. completed'[u][j] = completed[u][j]
      BY <1>q, <2>1, <2>2, <2>13, <3>1
    <3>3. CASE Path(u, j) # p
      <4>1. temp'[Path(u, j)] = temp[Path(u, j)]
        BY <1>q, <2>1, <2>2, <3>1, <3>3
      <4> QED BY <1>o, <2>1, <2>12, <2>13, <3>2, <4>1
    <3>4. CASE Path(u, j) = p
      <4>1. FilesOf[u][j] = FilesOf[t][i]
        BY <2>1, <3>1, <3>4 DEF WritersAgree, Writing, HasWriter, p
      <4>2. SourceSize(u, j) = n /\ \A b : RightByte(u, j, b) = RightByte(t, i, b)
        BY <4>1 DEF SourceSize, RightByte, n
      <4>3. \A c \in completed[u][j] : \A b \in ChunkBytes(n, c, ChunkSize) :
              temp'[p][b + 1] = RightByte(u, j, b)
        BY <2>1, <2>5, <2>6, <2>8, <3>1, <3>4, <4>2 DEF WriterRight
      <4>4. completed[u][j] \subseteq 0 .. chunk_count(n, ChunkSize) - 1 /\ Len(temp'[p]) = n
        BY <2>5, <2>8, <3>1, <4>2 DEF WriterRight
      <4> QED BY <3>2, <3>4, <4>2, <4>3, <4>4 DEF WriterRight, SourceSize, RightByte, Path
    <3> QED BY <3>3, <3>4
  <2> QED BY <1>a, <1>r, <2>11, <2>12, <2>13
<1>21. ASSUME NEW t \in Transfers, RecvChunkFails(t) PROVE WritersAgree' /\ WritersRight'
  <2>1. /\ rpc' = [rpc EXCEPT ![t] = "failed"]
        /\ UNCHANGED <<rfile, completed, partials, temp>>
    BY <1>21 DEF RecvChunkFails, ReceiverStops, SetRpc, storeVars
  <2> QED BY <1>n, <2>1
<1>22. ASSUME NEW t \in Transfers, RecvComplete(t) PROVE WritersAgree' /\ WritersRight'
  <2>1. /\ rpc[t] = "receiving" /\ rpc' = [rpc EXCEPT ![t] = "finalizing"]
        /\ rfile' = [rfile EXCEPT ![t] = 1] /\ UNCHANGED <<completed, partials, temp>>
    BY <1>22 DEF RecvComplete, SetRpc, storeVars
  <2>2. \A u \in Transfers : \A j \in Idx(u) : Writing(u, j)' => Writing(u, j)
    BY <1>q, <2>1 DEF Writing, HasWriter
  <2> QED BY <1>k, <2>1, <2>2
<1>23. ASSUME NEW t \in Transfers, Finalize(t) PROVE WritersAgree' /\ WritersRight'
  <2> DEFINE p == Path(t, rfile[t])
  <2>1. /\ rpc[t] = "finalizing" /\ UNCHANGED <<rpc, completed>>
        /\ rfile' = [rfile EXCEPT ![t] = @ + 1]
        /\ \/ UNCHANGED <<partials, temp>>
           \/ partials' = partials \ {p} /\ temp' = [temp EXCEPT ![p] = <<>>]
    BY <1>23 DEF Finalize
  <2> HIDE DEF p
  <2>2. \A q \in Paths : q \in partials' => q \in partials /\ temp'[q] = temp[q]
    BY <1>q, <2>1
  <2>3. \A u \in Transfers : \A j \in Idx(u) : Path(u, j) \in Paths
    BY FileIndexNat
  <2>4. \A u \in Transfers : \A j \in Idx(u) : Writing(u, j)' => Writing(u, j)
    <3> SUFFICES ASSUME NEW u \in Transfers, NEW j \in Idx(u), Writing(u, j)'
                 PROVE  Writing(u, j)
      OBVIOUS
    <3>1. CASE u = t
      <4>1. j \in Nat
        BY FileIndexNat
      <4>2. rfile[t] \in Nat /\ rfile'[t] = rfile[t] + 1
        BY <1>q, <2>1 DEF AgreementInv
      <4>3. rfile'[t] <= j
        BY <2>1, <3>1 DEF Writing
      <4> QED BY <2>1, <3>1, <4>1, <4>2, <4>3 DEF Writing, HasWriter
    <3>2. CASE u # t
      <4>1. rfile'[u] = rfile[u]
        BY <1>q, <2>1, <3>2
      <4> QED BY <2>1, <4>1 DEF Writing, HasWriter
    <3> QED BY <3>1, <3>2
  <2> QED BY <1>a, <1>o, <1>r, <2>1, <2>2, <2>3, <2>4
<1>24. ASSUME NEW t \in Transfers, FinalizeFails(t) PROVE WritersAgree' /\ WritersRight'
  <2>1. /\ rpc' = [rpc EXCEPT ![t] = "failed"]
        /\ UNCHANGED <<rfile, completed, partials, temp>>
    BY <1>24 DEF FinalizeFails, SetRpc, storeVars
  <2> QED BY <1>n, <2>1
<1>25. ASSUME NEW t \in Transfers, SendVerified(t) PROVE WritersAgree' /\ WritersRight'
  <2> DEFINE pc == IF rok[t] THEN "removing" ELSE "closing"
  <2>1. /\ rpc' = [rpc EXCEPT ![t] = pc] /\ pc \in {"removing", "closing", "completed", "incomplete"}
        /\ UNCHANGED <<rfile, completed, partials, temp>>
    BY <1>25 DEF SendVerified, SetRpc, storeVars
  <2> HIDE DEF pc
  <2> QED BY <1>n, <2>1
<1>33. ASSUME NEW t \in Transfers, RemoveResumeState(t) PROVE WritersAgree' /\ WritersRight'
  <2> DEFINE pc == "closing"
  <2>1. /\ rpc' = [rpc EXCEPT ![t] = pc] /\ pc \in {"removing", "closing", "completed", "incomplete"}
        /\ UNCHANGED <<rfile, completed, partials, temp>>
    BY <1>33 DEF RemoveResumeState, SetRpc
  <2> HIDE DEF pc
  <2> QED BY <1>n, <2>1
<1>34. ASSUME NEW t \in Transfers, EndReceiving(t) PROVE WritersAgree' /\ WritersRight'
  <2> DEFINE pc == IF rok[t] THEN "completed" ELSE "incomplete"
  <2>1. /\ rpc' = [rpc EXCEPT ![t] = pc] /\ pc \in {"removing", "closing", "completed", "incomplete"}
        /\ UNCHANGED <<rfile, completed, partials, temp>>
    BY <1>34 DEF EndReceiving, SetRpc, storeVars
  <2> HIDE DEF pc
  <2> QED BY <1>n, <2>1
<1>26. ASSUME NEW t \in Transfers, RecvClosed(t) PROVE WritersAgree' /\ WritersRight'
  <2>1. /\ rpc' = [rpc EXCEPT ![t] = "failed"]
        /\ UNCHANGED <<rfile, completed, partials, temp>>
    BY <1>26 DEF RecvClosed, ReceiverStops, SetRpc
  <2> QED BY <1>n, <2>1
<1>27. ASSUME NEW t \in Transfers, ReceiverRecvFails(t) PROVE WritersAgree' /\ WritersRight'
  <2>1. /\ rpc' = [rpc EXCEPT ![t] = "failed"]
        /\ UNCHANGED <<rfile, completed, partials, temp>>
    BY <1>27 DEF ReceiverRecvFails, ReceiverStops, SetRpc, storeVars
  <2> QED BY <1>n, <2>1
<1>28. ASSUME NEW t \in Transfers, ConnectFails(t) PROVE WritersAgree' /\ WritersRight'
  <2>1. UNCHANGED <<rpc, rfile, completed, partials, temp>>
    BY <1>28 DEF ConnectFails, receiverVars, storeVars
  <2> QED BY <1>n, <2>1
<1>29. ASSUME NEW t \in Transfers, SenderCrash(t) PROVE WritersAgree' /\ WritersRight'
  <2>1. UNCHANGED <<rpc, rfile, completed, partials, temp>>
    BY <1>29 DEF SenderCrash, receiverVars, storeVars
  <2> QED BY <1>n, <2>1
<1>30. ASSUME NEW t \in Transfers, ReceiverCrash(t) PROVE WritersAgree' /\ WritersRight'
  <2>1. /\ rpc' = [rpc EXCEPT ![t] = "failed"]
        /\ UNCHANGED <<rfile, completed, partials, temp>>
    BY <1>30 DEF ReceiverCrash, SetRpc, storeVars
  <2> QED BY <1>n, <2>1
<1>32. ASSUME NEW t \in Transfers, SaveTorn(t) PROVE WritersAgree' /\ WritersRight'
  <2>1. /\ rpc' = [rpc EXCEPT ![t] = "failed"]
        /\ UNCHANGED <<rfile, completed, partials, temp>>
    BY <1>32 DEF SaveTorn, ReceiverStops, SetRpc
  <2> QED BY <1>n, <2>1
<1>31. ASSUME NEW t \in Transfers, Disconnect(t) PROVE WritersAgree' /\ WritersRight'
  <2>1. UNCHANGED <<rpc, rfile, completed, partials, temp>>
    BY <1>31 DEF Disconnect, receiverVars, storeVars
  <2> QED BY <1>n, <2>1
<1>u. CASE UNCHANGED vars
  BY <1>u, <1>k DEF vars, Writing, HasWriter
<1> QED BY <1>e, <1>1, <1>2, <1>3, <1>4, <1>5, <1>6, <1>7, <1>8, <1>9, <1>10, <1>11, <1>12, <1>13, <1>14, <1>15, <1>16, <1>17, <1>18, <1>19, <1>20, <1>21, <1>22, <1>23, <1>24, <1>25, <1>26, <1>27, <1>28, <1>29, <1>30, <1>31, <1>32, <1>33, <1>34, <1>u
     DEF Next, SenderStep, ReceiverStep, FaultStep

---------------------------------------------------------------------------
(* From the partial file to the delivered file *)

\* The completion test of a writer: a set of chunk offsets of the file that is
\* as large as the chunk count holds every chunk.
LEMMA CompleteMeansAll ==
  ASSUME NEW n \in Nat, NEW S \in SUBSET (0 .. n - 1), Cardinality(S) = n
  PROVE  S = 0 .. n - 1
<1>1. IsFiniteSet(0 .. n - 1) /\ Cardinality(0 .. n - 1) = n
  BY ChunkInterval, Zenon
<1>2. Cardinality(S) = Cardinality(0 .. n - 1) => S = 0 .. n - 1
  BY <1>1, FS_Subset, Zenon
<1> QED BY <1>1, <1>2

\* A writer that finalize finds complete has all the bytes of its file in the
\* partial file.
LEMMA CompleteContent ==
  ASSUME TypeOK, SenderKnows, WritersRight, NEW t \in Transfers, NEW i \in Idx(t),
         rpc[t] = "finalizing", rfile[t] = i, is_complete(t, i), Path(t, i) \in partials
  PROVE  temp[Path(t, i)] = [k \in 1 .. SourceSize(t, i) |-> RightByte(t, i, k - 1)]
<1> DEFINE n == SourceSize(t, i)
           c == chunk_count(n, ChunkSize)
           bytes == temp[Path(t, i)]
<1>1. n \in Nat /\ ChunkSize \in Nat \ {0}
  BY FileIndexNat, ConstantsAssumption DEF ConstantsAssumption, SourceSize
<1>2. c \in Nat
  BY <1>1, ChunkCountPositive
<1>3. WriterChunks(t, i) = c
  <2>1. man[t][i] = [size |-> n, ver |-> 0]
    BY DEF SenderKnows
  <2> HIDE DEF n
  <2> QED BY <2>1 DEF WriterChunks
<1>4. WriterRight(t, i)
  BY FileIndexNat DEF WritersRight, WriterRight, Writing, HasWriter
<1>5. completed[t][i] = 0 .. c - 1
  <2>1. completed[t][i] \in SUBSET (0 .. c - 1) /\ Cardinality(completed[t][i]) = c
    BY <1>3, <1>4 DEF WriterRight, is_complete
  <2> HIDE DEF c
  <2> QED BY <1>2, <2>1, CompleteMeansAll, Zenon
<1>6. bytes \in Seq(Cell) /\ Len(bytes) = n
  BY <1>4, FileIndexNat DEF WriterRight, TypeOK
<1>7. \A b \in 0 .. n - 1 : bytes[b + 1] = RightByte(t, i, b)
  <2> TAKE b \in 0 .. n - 1
  <2>1. PICK o \in 0 .. c - 1 : b \in ChunkBytes(n, o, ChunkSize)
    <3> HIDE DEF n
    <3> QED BY <1>1, Covers
  <2>2. o \in completed[t][i]
    BY <1>5, <2>1
  <2> QED BY <1>4, <2>1, <2>2 DEF WriterRight
<1> HIDE DEF n, c, bytes
<1>8. \A k \in 1 .. n : k - 1 \in 0 .. n - 1 /\ (k - 1) + 1 = k
  BY <1>1
<1>9. \A k \in 1 .. n : bytes[k] = RightByte(t, i, k - 1)
  <2> TAKE k \in 1 .. n
  <2>1. k - 1 \in 0 .. n - 1 /\ (k - 1) + 1 = k
    BY <1>8
  <2>2. bytes[(k - 1) + 1] = RightByte(t, i, k - 1)
    BY <1>7, <2>1, Zenon
  <2> QED BY <2>1, <2>2
<1>10. DOMAIN bytes = 1 .. n /\ bytes = [k \in DOMAIN bytes |-> bytes[k]]
  BY <1>6
<1> QED BY <1>9, <1>10, Zenon DEF n, bytes

\* Every step keeps the delivered files right: only finalize delivers.
LEMMA DeliveredRightStep ==
  ASSUME TypeOK, SenderKnows, WritersRight, DeliveredRight, [Next]_vars
  PROVE  DeliveredRight'
<1>q. rpc \in [Transfers -> ReceiverStates] /\ rfile \in [Transfers -> Nat]
      /\ delivered \subseteq [transfer : Transfers, file : FileIndex, content : Seq(Cell)]
  BY DEF TypeOK
<1>k. ASSUME UNCHANGED delivered,
             rpc' = rpc \/ \E t \in Transfers : \E pc : pc # "idle" /\ rpc' = [rpc EXCEPT ![t] = pc]
      PROVE  DeliveredRight'
  <2>1. \A u \in Transfers : rpc[u] # "idle" => rpc'[u] # "idle"
    BY <1>k, <1>q
  <2>2. \A d \in delivered : d.transfer \in Transfers
    BY <1>q
  <2> QED BY <1>k, <2>1, <2>2 DEF DeliveredRight, SourceSize, RightByte
<1>1. ASSUME NEW t \in Transfers, Finalize(t) PROVE DeliveredRight'
  <2>i. PICK i \in Idx(t) : i = rfile[t]
    BY <1>1 DEF Finalize
  <2>1. rpc[t] = "finalizing" /\ rpc' = rpc
    BY <1>1 DEF Finalize
  <2>2. CASE delivered' = delivered
    BY <1>k, <2>1, <2>2
  <2>3. CASE is_complete(t, i) /\ Path(t, i) \in partials
               /\ delivered' = delivered \cup
                    {[transfer |-> t, file |-> i, content |-> temp[Path(t, i)]]}
    <3>1. temp[Path(t, i)] = [k \in 1 .. SourceSize(t, i) |-> RightByte(t, i, k - 1)]
      BY <2>1, <2>3, <2>i, CompleteContent
    <3>2. rpc'[t] # "idle"
      BY <2>1
    <3>3. \A d \in delivered :
            /\ d.file \in Idx(d.transfer) /\ rpc'[d.transfer] # "idle"
            /\ d.content = [k \in 1 .. SourceSize(d.transfer, d.file) |->
                              RightByte(d.transfer, d.file, k - 1)]
      BY <2>1 DEF DeliveredRight
    <3>4. \A d \in delivered' :
            /\ d.file \in Idx(d.transfer) /\ rpc'[d.transfer] # "idle"
            /\ d.content = [k \in 1 .. SourceSize(d.transfer, d.file) |->
                              RightByte(d.transfer, d.file, k - 1)]
      <4> DEFINE e == [transfer |-> t, file |-> i, content |-> temp[Path(t, i)]]
      <4>1. e.transfer = t /\ e.file = i /\ e.content = temp[Path(t, i)]
        OBVIOUS
      <4>2. delivered' = delivered \cup {e}
        BY <2>3
      <4> HIDE DEF e
      <4>3. /\ e.file \in Idx(e.transfer) /\ rpc'[e.transfer] # "idle"
            /\ e.content = [k \in 1 .. SourceSize(e.transfer, e.file) |->
                              RightByte(e.transfer, e.file, k - 1)]
        BY <3>1, <3>2, <4>1
      <4> QED BY <3>3, <4>2, <4>3
    <3> QED BY <3>4 DEF DeliveredRight, SourceSize, RightByte
  <2> QED BY <1>1, <2>i, <2>2, <2>3 DEF Finalize
<1>2. CASE UNCHANGED vars
  BY <1>k, <1>2 DEF vars
<1>3. ASSUME NEW t \in Transfers,
             Prepare(t) \/ SenderStep(t) \/ FaultStep(t)
               \/ (ReceiverStep(t) /\ ~Finalize(t))
      PROVE  /\ UNCHANGED delivered
             /\ rpc' = rpc \/ \E pc : pc # "idle" /\ rpc' = [rpc EXCEPT ![t] = pc]
  <2>1. CASE Prepare(t)
    BY <2>1 DEF Prepare, HandlerStarts, SetRpc, storeVars
  <2>2. CASE SenderStep(t)
    BY <2>2 DEF SenderStep, SendRequest, RecvAccept, RecvResumeAt, RecvReject, SkipChunk,
         SendChunk, ChunkTooLong, RecvAck, SendComplete, RecvVerified, SenderRecvFails,
         receiverVars, storeVars
  <2>3. CASE FaultStep(t)
    BY <2>3 DEF FaultStep, ConnectFails, SenderCrash, ReceiverCrash, SaveTorn, ReceiverStops, Disconnect,
         SetRpc, receiverVars, storeVars
  <2>4. CASE ReceiverStep(t) /\ ~Finalize(t)
    <3> USE DEF SetRpc, storeVars, ReceiverStops
    <3>1. CASE RecvHs1(t)
      BY <3>1 DEF RecvHs1
    <3>2. CASE RecvHs3(t)
      BY <3>2 DEF RecvHs3
    <3>3. CASE RecvRequest(t)
      BY <3>3 DEF RecvRequest
    <3>4. CASE DecideReject(t)
      BY <3>4 DEF DecideReject
    <3>5. CASE DecideAccept(t)
      BY <3>5 DEF DecideAccept
    <3>6. CASE CreateWriter(t)
      BY <3>6 DEF CreateWriter
    <3>7. CASE StartReceiving(t)
      BY <3>7 DEF StartReceiving
    <3>8. CASE RecvChunk(t)
      BY <3>8 DEF RecvChunk
    <3>9. CASE RecvChunkFails(t)
      BY <3>9 DEF RecvChunkFails
    <3>10. CASE RecvComplete(t)
      BY <3>10 DEF RecvComplete
    <3>11. CASE FinalizeFails(t)
      BY <3>11 DEF FinalizeFails
    <3>12. CASE SendVerified(t)
      <4>1. rpc' = [rpc EXCEPT ![t] = IF rok[t] THEN "removing" ELSE "closing"]
            /\ UNCHANGED delivered
        BY <3>12 DEF SendVerified
      <4> QED BY <4>1
    <3>15. CASE RemoveResumeState(t)
      BY <3>15 DEF RemoveResumeState
    <3>16. CASE EndReceiving(t)
      <4>1. rpc' = [rpc EXCEPT ![t] = IF rok[t] THEN "completed" ELSE "incomplete"]
            /\ UNCHANGED delivered
        BY <3>16 DEF EndReceiving
      <4> QED BY <4>1
    <3>13. CASE RecvClosed(t)
      BY <3>13 DEF RecvClosed
    <3>14. CASE ReceiverRecvFails(t)
      BY <3>14 DEF ReceiverRecvFails
    <3> QED BY <2>4, <3>1, <3>2, <3>3, <3>4, <3>5, <3>6, <3>7, <3>8, <3>9, <3>10, <3>11,
               <3>12, <3>13, <3>14, <3>15, <3>16 DEF ReceiverStep
  <2> QED BY <1>3, <2>1, <2>2, <2>3, <2>4
<1>4. ASSUME NEW s \in Sources, EditSource(s) PROVE DeliveredRight'
  BY <1>k, <1>4 DEF EditSource, receiverVars, storeVars
<1> QED
  <2>1. ASSUME NEW t \in Transfers,
               Prepare(t) \/ SenderStep(t) \/ ReceiverStep(t) \/ FaultStep(t)
        PROVE  DeliveredRight'
    BY <1>1, <1>3, <1>k, <2>1, Zenon
  <2> QED BY <1>2, <1>4, <2>1 DEF Next

---------------------------------------------------------------------------

\* What the invariant says of delivered files is DeliveredIntact.
LEMMA IntactImplies == TypeOK /\ IntactInv => DeliveredIntact
<1> SUFFICES ASSUME TypeOK, IntactInv, NEW d \in delivered
             PROVE  d.content = Promised(d.transfer, d.file)
  BY DEF DeliveredIntact
<1>1. d.transfer \in Transfers
  BY DEF TypeOK
<1> DEFINE t == d.transfer
           i == d.file
           n == SourceSize(t, i)
<1>2. i \in Idx(t) /\ rpc[t] # "idle"
      /\ d.content = [k \in 1 .. n |-> RightByte(t, i, k - 1)]
  BY DEF IntactInv, DeliveredRight
<1>3. man[t][i] = [size |-> n, ver |-> 0]
  BY <1>1, <1>2 DEF IntactInv, SenderKnows
<1> HIDE DEF t, i, n
<1>4. man[t][i].size = n /\ man[t][i].ver = 0
  BY <1>3
<1>5. Promised(t, i) = [k \in 1 .. n |-> RightByte(t, i, k - 1)]
  BY <1>4 DEF Promised, RightByte
<1> QED BY <1>2, <1>5 DEF t, i

\* An edit is never taken back.
LEMMA EditsStay == TypeOK /\ [Next]_vars /\ edits' = 0 => edits = 0
<1> SUFFICES ASSUME TypeOK, [Next]_vars, edits' = 0 PROVE edits = 0
  OBVIOUS
<1>0. edits \in Nat
  BY ConstantsAssumption DEF TypeOK, ConstantsAssumption
<1>1. ASSUME NEW s \in Sources, EditSource(s) PROVE edits' = edits + 1
  BY <1>1 DEF EditSource
<1>2. ASSUME NEW t \in Transfers, Prepare(t) \/ SenderStep(t) PROVE edits' = edits
  BY <1>2 DEF Prepare, SenderStep, SendRequest, RecvAccept, RecvResumeAt, RecvReject, SkipChunk,
       SendChunk, ChunkTooLong, RecvAck, SendComplete, RecvVerified, SenderRecvFails, environment
<1>3. ASSUME NEW t \in Transfers, ReceiverStep(t) PROVE edits' = edits
  BY <1>3 DEF ReceiverStep, RecvHs1, RecvHs3, RecvRequest, DecideReject, DecideAccept, CreateWriter,
       StartReceiving, RecvChunk, RecvChunkFails, RecvComplete, Finalize, FinalizeFails,
       SendVerified, RemoveResumeState, EndReceiving, RecvClosed, ReceiverRecvFails, environment
<1>4. ASSUME NEW t \in Transfers, FaultStep(t) PROVE edits' = edits
  BY <1>4 DEF FaultStep, ConnectFails, SenderCrash, ReceiverCrash, SaveTorn, Disconnect, Fault
<1>5. CASE UNCHANGED vars
  BY <1>5 DEF vars
<1> QED BY <1>0, <1>1, <1>2, <1>3, <1>4, <1>5 DEF Next

\* Every file that finalize renames into the download directory has the promised bytes:
\* whatever the number of transfers and files, with transfers of one file at the same time,
\* retried or offered again, whatever crashes, is cut off or was left over.  Three
\* circumstances are excepted, each with a counterexample of its own: a file above the
\* large-file threshold, an edited source, and a partial file that is opened under a writer
\* of another source or of chunks that have been renamed away.
THEOREM DeliveredFilesIntact ==
  SmallSources /\ Spec /\ [][~Collides]_vars => [](edits = 0 => DeliveredIntact)
<1> DEFINE Inv == TypeOK /\ AgreementInv /\ (edits = 0 => IntactInv)
<1>1. Init => Inv
  BY TypeInit, AgreementInit, IntactInit
<1>2. SmallSources /\ Inv /\ [Next]_vars /\ [~Collides]_vars => Inv'
  <2>1. Inv /\ [Next]_vars => TypeOK' /\ AgreementInv'
    BY TypeStep, AgreementStep
  <2>2. SmallSources /\ Inv /\ [Next]_vars /\ [~Collides]_vars /\ edits' = 0 => IntactInv'
    BY EditsStay, SenderKnowsStep, ChunksInFlightStep, WritersStep, DeliveredRightStep
       DEF IntactInv
  <2> QED BY <2>1, <2>2
<1>3. Inv => (edits = 0 => DeliveredIntact)
  BY IntactImplies
<1>4. SmallSources => []SmallSources
  <2>1. SmallSources => SmallSources'
    BY DEF SmallSources
  <2> QED BY <2>1, PTL
<1> QED BY <1>1, <1>2, <1>3, <1>4, PTL DEF Spec

---------------------------------------------------------------------------
(* What the sender has passed is written *)

\* No writer of the transfer exists yet, or not every one.
Preparing == {"idle", "hs1", "hs3", "waitRequest", "deciding", "creating"}

\* A sender whose cursor is c is past chunk o of file i.
Passed(c, i, o) == i < c.file \/ (i = c.file /\ o < c.off)

Written(t, i, o) == rpc[t] \notin Preparing /\ o \in completed[t][i]

\* Before the negotiation the cursor is at the start; what it is past was reported or is
\* written, and so is what is acknowledged.
AckInvOf(t) ==
  /\ cur[t].file >= 1
  /\ spc[t] = "idle" => cur[t].file = 1 /\ cur[t].off = 0
  /\ \A i \in Idx(t) : \A o \in 0 .. WriterChunks(t, i) - 1 :
       Passed(cur[t], i, o) => Written(t, i, o) \/ GlobalOffset(t, i, o) \in skip[t]
  /\ \A k \in DOMAIN toS[t] :
       toS[t][k].type = "Ack" => Written(t, toS[t][k].file, toS[t][k].off)

AckInv == \A t \in Transfers : AckInvOf(t)

\* Every acknowledgement in queue y is in queue q.
From(y, q) ==
  \A k \in DOMAIN y : y[k].type = "Ack" => \E j \in DOMAIN q : q[j] = y[k]

\* No acknowledgement comes from a queue one is taken from or another message is put on.
LEMMA AcksFrom ==
  ASSUME NEW q \in Seq(Message)
  PROVE  /\ From(q, q)
         /\ q # <<>> => From(Tail(q), q)
         /\ \A m \in Message : m.type # "Ack" => From(Append(q, m), q) /\ From(<<m>>, q)
         /\ \A m, n \in Message : m.type # "Ack" /\ n.type # "Ack" => From(q \o <<m, n>>, q)
<1>1. q # <<>> => From(Tail(q), q)
  <2> SUFFICES ASSUME q # <<>>, NEW k \in DOMAIN Tail(q)
               PROVE  \E j \in DOMAIN q : q[j] = Tail(q)[k]
    BY DEF From
  <2>1. k + 1 \in DOMAIN q /\ q[k + 1] = Tail(q)[k]
    OBVIOUS
  <2> QED BY <2>1
<1>2. ASSUME NEW m \in Message, m.type # "Ack" PROVE From(Append(q, m), q) /\ From(<<m>>, q)
  BY <1>2 DEF From
<1>3. ASSUME NEW m \in Message, NEW n \in Message, m.type # "Ack", n.type # "Ack"
      PROVE  From(q \o <<m, n>>, q)
  BY <1>3 DEF From
<1> QED BY <1>1, <1>2, <1>3 DEF From

\* What happens to one transfer leaves the others as they are.
LEMMA AckElsewhere ==
  ASSUME AckInv, NEW t \in Transfers,
         \A u \in Transfers : u # t =>
            /\ spc'[u] = spc[u] /\ rpc'[u] = rpc[u] /\ cur'[u] = cur[u] /\ skip'[u] = skip[u]
            /\ man'[u] = man[u] /\ completed'[u] = completed[u] /\ toS'[u] = toS[u],
         AckInvOf(t)'
  PROVE  AckInv'
<1> SUFFICES ASSUME NEW u \in Transfers, u # t PROVE AckInvOf(u)'
  BY DEF AckInv
<1>1. /\ spc'[u] = spc[u] /\ rpc'[u] = rpc[u] /\ cur'[u] = cur[u] /\ skip'[u] = skip[u]
      /\ man'[u] = man[u] /\ completed'[u] = completed[u] /\ toS'[u] = toS[u]
  OBVIOUS
<1>2. /\ \A i : WriterChunks(u, i)' = WriterChunks(u, i)
      /\ ManifestCounts(u)' = ManifestCounts(u)
  BY <1>1 DEF WriterChunks, ManifestCounts, Idx
<1>3. /\ \A i, o : GlobalOffset(u, i, o)' = GlobalOffset(u, i, o)
      /\ \A i, o : Written(u, i, o)' <=> Written(u, i, o)
  BY <1>1, <1>2 DEF GlobalOffset, Written
<1>4. AckInvOf(u)
  BY DEF AckInv
<1> QED BY <1>1, <1>2, <1>3, <1>4 DEF AckInvOf, Idx

\* A step that leaves the cursor and the writers alone keeps it.
LEMMA AckMoves ==
  ASSUME TypeOK, AckInv, NEW t \in Transfers, NEW s, NEW r, NEW y,
         s = "idle" => spc[t] = "idle", rpc[t] \in Preparing \/ r \notin Preparing,
         From(y, toS[t]),
         spc' = [spc EXCEPT ![t] = s], rpc' = [rpc EXCEPT ![t] = r], toS' = [toS EXCEPT ![t] = y],
         UNCHANGED <<cur, skip, man, completed>>
  PROVE  AckInv'
<1>1. /\ spc'[t] = s /\ rpc'[t] = r /\ toS'[t] = y
      /\ \A u \in Transfers : u # t => spc'[u] = spc[u] /\ rpc'[u] = rpc[u] /\ toS'[u] = toS[u]
  BY DEF TypeOK
<1>2. /\ \A i : WriterChunks(t, i)' = WriterChunks(t, i)
      /\ ManifestCounts(t)' = ManifestCounts(t)
  BY DEF WriterChunks, ManifestCounts, Idx
<1>3. /\ \A i, o : GlobalOffset(t, i, o)' = GlobalOffset(t, i, o)
      /\ \A i, o : Written(t, i, o) => Written(t, i, o)'
  BY <1>1, <1>2 DEF GlobalOffset, Written
<1>4. AckInvOf(t)
  BY DEF AckInv
<1>5. \A k \in DOMAIN y : y[k].type = "Ack" => Written(t, y[k].file, y[k].off)'
  BY <1>3, <1>4 DEF From, AckInvOf
<1>6. AckInvOf(t)'
  BY <1>1, <1>2, <1>3, <1>4, <1>5 DEF AckInvOf, Idx
<1> QED BY <1>1, <1>6, AckElsewhere

\* A sender that goes on to the next chunk is past no other chunk than before and the one
\* it was at: it counts the chunks of a file as the receiver's writer does.
LEMMA PassesOne ==
  ASSUME TypeOK, SenderKnows, SmallSources, NEW t \in Transfers, cur[t].file >= 1,
         spc[t] \in {"sending", "awaitAck"},
         NEW i \in Idx(t), NEW o \in 0 .. WriterChunks(t, i) - 1, Passed(NextChunk(t), i, o)
  PROVE  Passed(cur[t], i, o) \/ (i = cur[t].file /\ o = cur[t].off)
<1> DEFINE f == cur[t].file
<1>1. f \in Nat /\ cur[t].off \in Nat /\ i \in Nat /\ cur[t] \in Cursor
  BY FileIndexNat DEF TypeOK, Cursor
<1>2. WriterChunks(t, i) \in Nat /\ o \in Nat /\ o < WriterChunks(t, i)
  BY ManifestTypes, FileIndexNat
<1>3. ASSUME i = f PROVE SenderChunks(t) = WriterChunks(t, i)
  <2>1. /\ SourceSize(t, i) \in Nat /\ SourceSize(t, i) <= LargeThreshold
        /\ LargeThreshold \in Nat
    BY FileIndexNat, ConstantsAssumption DEF SourceSize, SmallSources, ConstantsAssumption
  <2>2. cur[t].len = SourceSize(t, i) /\ rpc[t] # "idle"
    BY <1>3 DEF SenderKnows
  <2>3. man[t][i].size = SourceSize(t, i)
    <3>1. man[t][i] = [size |-> SourceSize(t, i), ver |-> 0]
      BY <2>2 DEF SenderKnows
    <3> QED BY <3>1
  <2> HIDE DEF f
  <2>4. EffectiveSize(t, i) = ChunkSize
    BY <2>1, <2>3 DEF EffectiveSize, effective_chunk_size
  <2> QED BY <1>3, <2>2, <2>3, <2>4 DEF SenderChunks, WriterChunks, f
<1>4. CASE NextChunk(t) = [cur[t] EXCEPT !.off = @ + 1]
  <2>1. NextChunk(t).file = f /\ NextChunk(t).off = cur[t].off + 1
    BY <1>1, <1>4 DEF Cursor
  <2> QED BY <1>1, <1>2, <2>1 DEF Passed
<1>5. CASE ~(cur[t].off + 1 < SenderChunks(t)) /\ NextChunk(t) = OpenFile(t, f + 1)
  <2>1. NextChunk(t).file = f + 1 /\ NextChunk(t).off = 0
    BY <1>5 DEF OpenFile
  <2>2. i < f \/ i = f
    BY <1>1, <1>2, <2>1 DEF Passed
  <2>3. CASE i = f
    <3>1. ~(cur[t].off + 1 < WriterChunks(t, i))
      BY <1>3, <1>5, <2>3
    <3> QED BY <1>1, <1>2, <2>3, <3>1 DEF Passed
  <2> QED BY <2>2, <2>3 DEF Passed
<1> QED BY <1>4, <1>5 DEF NextChunk

LEMMA AckInit == Init => AckInv
<1> SUFFICES ASSUME Init, NEW t \in Transfers PROVE AckInvOf(t)
  BY DEF AckInv
<1>1. cur[t].file = 1 /\ cur[t].off = 0 /\ toS[t] = <<>>
  BY DEF Init
<1>2. \A i \in Idx(t) : \A o \in 0 .. WriterChunks(t, i) - 1 : ~Passed(cur[t], i, o)
  BY <1>1, FileIndexNat DEF Passed
<1> QED BY <1>1, <1>2 DEF AckInvOf

\* Every step keeps it.
LEMMA AckStep ==
  ASSUME TypeOK, ProtocolInv, SenderKnows, AckInv, SmallSources, edits' = 0, [Next]_vars
  PROVE  AckInv'
<1>q. /\ spc \in [Transfers -> SenderStates] /\ rpc \in [Transfers -> ReceiverStates]
      /\ toS \in [Transfers -> Seq(Message)] /\ cur \in [Transfers -> Cursor]
      /\ man \in [Transfers -> [FileIndex -> Stat]] /\ skip \in [Transfers -> SUBSET Nat]
      /\ completed \in [Transfers -> [FileIndex -> SUBSET Nat]]
  BY DEF TypeOK
<1>f. \A t \in Transfers : AckInvOf(t) /\ toS[t] \in Seq(Message)
  BY <1>q DEF AckInv
<1>i. \A t \in Transfers : spc[t] = "idle" => rpc[t] = "idle"
  BY DEF SenderKnows
<1>e. ASSUME NEW s \in Sources, EditSource(s) PROVE AckInv'
  BY <1>e DEF EditSource, TypeOK
<1>1. ASSUME NEW t \in Transfers, Prepare(t) PROVE AckInv'
  <2>1. /\ spc[t] = "idle" /\ spc' = [spc EXCEPT ![t] = "handshake"] /\ rpc' = [rpc EXCEPT ![t] = "hs1"]
        /\ \A u \in Transfers : u # t => man'[u] = man[u]
        /\ UNCHANGED <<cur, skip, completed, toS>>
    BY <1>1, <1>q DEF Prepare, HandlerStarts, SetSpc, SetRpc
  <2>2. rpc[t] = "idle" /\ cur[t].file = 1 /\ cur[t].off = 0
    BY <1>f, <1>i, <2>1 DEF AckInvOf
  <2>3. \A k \in DOMAIN toS[t] : toS[t][k].type # "Ack"
    BY <1>f, <2>2 DEF AckInvOf, Written, Preparing
  <2>4. \A i \in Idx(t), o \in Nat : ~Passed(cur[t], i, o)
    BY <2>2, FileIndexNat DEF Passed
  <2>5. \A i \in Idx(t) : \A o \in 0 .. WriterChunks(t, i)' - 1 : ~Passed(cur'[t], i, o)
    BY <2>1, <2>4
  <2>6. /\ spc'[t] = "handshake"
        /\ \A u \in Transfers : u # t => spc'[u] = spc[u] /\ rpc'[u] = rpc[u]
    BY <1>q, <2>1
  <2>7. AckInvOf(t)'
    BY <2>1, <2>2, <2>3, <2>5, <2>6 DEF AckInvOf, Idx
  <2> QED BY <2>1, <2>6, <2>7, AckElsewhere
<1>2. ASSUME NEW t \in Transfers, SendRequest(t) PROVE AckInv'
  <2> DEFINE s == "negotiating"
             r == rpc[t]
             y == Tail(toS[t])
  <2>1. /\ spc' = [spc EXCEPT ![t] = s] /\ rpc' = [rpc EXCEPT ![t] = r]
        /\ toS' = [toS EXCEPT ![t] = y] /\ UNCHANGED <<cur, skip, man, completed>>
    BY <1>2, <1>q DEF SendRequest, SetSpc, ConsumeS, SenderGets, receiverVars
  <2>2. (s = "idle" => spc[t] = "idle") /\ (rpc[t] \in Preparing \/ r \notin Preparing)
    BY <1>2 DEF SendRequest, Preparing
  <2>3. From(y, toS[t])
    <3>1. toS[t] # <<>>
      BY <1>2 DEF SendRequest, SenderGets
    <3> QED BY <1>f, <3>1, AcksFrom
  <2> HIDE DEF s, r, y
  <2> QED BY <2>1, <2>2, <2>3, AckMoves
<1>3. ASSUME NEW t \in Transfers, RecvAccept(t) PROVE AckInv'
  <2>1. /\ toS[t] # <<>> /\ spc' = [spc EXCEPT ![t] = "sending"] /\ toS' = [toS EXCEPT ![t] = Tail(toS[t])]
        /\ cur' = [cur EXCEPT ![t] = OpenFile(t, 1)]
        /\ \A u \in Transfers : u # t => skip'[u] = skip[u]
        /\ UNCHANGED <<man, rpc, completed>>
    BY <1>3, <1>q DEF RecvAccept, SenderGets, SetSpc, ConsumeS, receiverVars
  <2>2. /\ spc'[t] = "sending" /\ toS'[t] = Tail(toS[t]) /\ cur'[t] = OpenFile(t, 1)
        /\ \A u \in Transfers : u # t => spc'[u] = spc[u] /\ toS'[u] = toS[u] /\ cur'[u] = cur[u]
    BY <1>q, <2>1
  <2>3. cur'[t].file = 1 /\ cur'[t].off = 0
    BY <2>2 DEF OpenFile
  <2>4. \A i \in Idx(t) : \A o \in 0 .. WriterChunks(t, i)' - 1 : ~Passed(cur'[t], i, o)
    BY <2>3, FileIndexNat DEF Passed
  <2>5. \A i, o : Written(t, i, o)' <=> Written(t, i, o)
    BY <2>1 DEF Written
  <2>6. From(Tail(toS[t]), toS[t])
    BY <1>f, <2>1, AcksFrom
  <2>7. AckInvOf(t)'
    BY <1>f, <2>2, <2>3, <2>4, <2>5, <2>6 DEF AckInvOf, From, Idx
  <2> QED BY <2>1, <2>2, <2>7, AckElsewhere
<1>4. ASSUME NEW t \in Transfers, RecvResumeAt(t) PROVE AckInv'
  <2>1. /\ toS[t] # <<>> /\ spc' = [spc EXCEPT ![t] = "sending"] /\ toS' = [toS EXCEPT ![t] = Tail(toS[t])]
        /\ cur' = [cur EXCEPT ![t] = OpenFile(t, 1)]
        /\ \A u \in Transfers : u # t => skip'[u] = skip[u]
        /\ UNCHANGED <<man, rpc, completed>>
    BY <1>4, <1>q DEF RecvResumeAt, SenderGets, SetSpc, ConsumeS, receiverVars
  <2>2. /\ spc'[t] = "sending" /\ toS'[t] = Tail(toS[t]) /\ cur'[t] = OpenFile(t, 1)
        /\ \A u \in Transfers : u # t => spc'[u] = spc[u] /\ toS'[u] = toS[u] /\ cur'[u] = cur[u]
    BY <1>q, <2>1
  <2>3. cur'[t].file = 1 /\ cur'[t].off = 0
    BY <2>2 DEF OpenFile
  <2>4. \A i \in Idx(t) : \A o \in 0 .. WriterChunks(t, i)' - 1 : ~Passed(cur'[t], i, o)
    BY <2>3, FileIndexNat DEF Passed
  <2>5. \A i, o : Written(t, i, o)' <=> Written(t, i, o)
    BY <2>1 DEF Written
  <2>6. From(Tail(toS[t]), toS[t])
    BY <1>f, <2>1, AcksFrom
  <2>7. AckInvOf(t)'
    BY <1>f, <2>2, <2>3, <2>4, <2>5, <2>6 DEF AckInvOf, From, Idx
  <2> QED BY <2>1, <2>2, <2>7, AckElsewhere
<1>5. ASSUME NEW t \in Transfers, RecvReject(t) PROVE AckInv'
  <2> DEFINE s == "rejected"
             r == rpc[t]
             y == Tail(toS[t])
  <2>1. /\ spc' = [spc EXCEPT ![t] = s] /\ rpc' = [rpc EXCEPT ![t] = r]
        /\ toS' = [toS EXCEPT ![t] = y] /\ UNCHANGED <<cur, skip, man, completed>>
    BY <1>5, <1>q DEF RecvReject, SetSpc, ConsumeS, SenderStops, SenderGets, receiverVars
  <2>2. (s = "idle" => spc[t] = "idle") /\ (rpc[t] \in Preparing \/ r \notin Preparing)
    BY <1>5 DEF RecvReject, Preparing
  <2>3. From(y, toS[t])
    <3>1. toS[t] # <<>>
      BY <1>5 DEF RecvReject, SenderGets
    <3> QED BY <1>f, <3>1, AcksFrom
  <2> HIDE DEF s, r, y
  <2> QED BY <2>1, <2>2, <2>3, AckMoves
<1>6. ASSUME NEW t \in Transfers, SkipChunk(t) PROVE AckInv'
  <2>1. /\ spc[t] = "sending" /\ spc' = [spc EXCEPT ![t] = "sending"] /\ toS' = [toS EXCEPT ![t] = toS[t]]
        /\ cur' = [cur EXCEPT ![t] = NextChunk(t)]
        /\ UNCHANGED <<man, skip, rpc, completed>>
    BY <1>6, <1>q DEF SkipChunk, AtChunk, receiverVars
  <2>2. GlobalOffset(t, cur[t].file, cur[t].off) \in skip[t]
    BY <1>6 DEF SkipChunk, Skipped
  <2>3. /\ spc'[t] = "sending" /\ toS'[t] = toS[t] /\ cur'[t] = NextChunk(t)
        /\ \A u \in Transfers : u # t => spc'[u] = spc[u] /\ toS'[u] = toS[u] /\ cur'[u] = cur[u]
    BY <1>q, <2>1
  <2>4. cur'[t].file \in Nat /\ cur'[t].file >= 1
    <3>1. cur[t].file \in Nat /\ cur[t].file >= 1 /\ cur[t] \in Cursor
      BY <1>f, <1>q DEF AckInvOf, Cursor
    <3>2. NextChunk(t).file \in {cur[t].file, cur[t].file + 1}
      BY <3>1 DEF NextChunk, OpenFile, Cursor
    <3> QED BY <2>3, <3>1, <3>2
  <2>5. /\ \A i : WriterChunks(t, i)' = WriterChunks(t, i)
        /\ ManifestCounts(t)' = ManifestCounts(t)
    BY <2>1 DEF WriterChunks, ManifestCounts, Idx
  <2>6. /\ \A i, o : GlobalOffset(t, i, o)' = GlobalOffset(t, i, o)
        /\ \A i, o : Written(t, i, o)' <=> Written(t, i, o)
    BY <2>1, <2>5 DEF GlobalOffset, Written
  <2>7. ASSUME NEW i \in Idx(t), NEW o \in 0 .. WriterChunks(t, i) - 1, Passed(NextChunk(t), i, o)
        PROVE  Written(t, i, o) \/ GlobalOffset(t, i, o) \in skip[t]
    <3>1. Passed(cur[t], i, o) \/ (i = cur[t].file /\ o = cur[t].off)
      BY <1>f, <2>1, <2>7, PassesOne DEF AckInvOf
    <3> QED BY <1>f, <2>2, <2>7, <3>1 DEF AckInvOf
  <2>8. From(toS[t], toS[t])
    BY <1>f, <2>1, AcksFrom
  <2>9. AckInvOf(t)'
    BY <1>f, <2>1, <2>3, <2>4, <2>5, <2>6, <2>7, <2>8 DEF AckInvOf, From, Idx
  <2> QED BY <2>1, <2>3, <2>9, AckElsewhere
<1>7. ASSUME NEW t \in Transfers, SendChunk(t) PROVE AckInv'
  <2> DEFINE s == "awaitAck"
             r == rpc[t]
             y == toS[t]
  <2>1. /\ spc' = [spc EXCEPT ![t] = s] /\ rpc' = [rpc EXCEPT ![t] = r]
        /\ toS' = [toS EXCEPT ![t] = y] /\ UNCHANGED <<cur, skip, man, completed>>
    BY <1>7, <1>q DEF SendChunk, SetSpc, receiverVars
  <2>2. (s = "idle" => spc[t] = "idle") /\ (rpc[t] \in Preparing \/ r \notin Preparing)
    BY <1>7 DEF SendChunk, Preparing
  <2>3. From(y, toS[t])
    BY <1>f, AcksFrom
  <2> HIDE DEF s, r, y
  <2> QED BY <2>1, <2>2, <2>3, AckMoves
<1>8. ASSUME NEW t \in Transfers, ChunkTooLong(t) PROVE AckInv'
  <2> DEFINE s == "failed"
             r == rpc[t]
             y == toS[t]
  <2>1. /\ spc' = [spc EXCEPT ![t] = s] /\ rpc' = [rpc EXCEPT ![t] = r]
        /\ toS' = [toS EXCEPT ![t] = y] /\ UNCHANGED <<cur, skip, man, completed>>
    BY <1>8, <1>q DEF ChunkTooLong, SetSpc, receiverVars
  <2>2. (s = "idle" => spc[t] = "idle") /\ (rpc[t] \in Preparing \/ r \notin Preparing)
    BY <1>8 DEF ChunkTooLong, Preparing
  <2>3. From(y, toS[t])
    BY <1>f, AcksFrom
  <2> HIDE DEF s, r, y
  <2> QED BY <2>1, <2>2, <2>3, AckMoves
<1>9. ASSUME NEW t \in Transfers, RecvAck(t) PROVE AckInv'
  <2>1. /\ spc[t] = "awaitAck" /\ toS[t] # <<>> /\ Head(toS[t]).type = "Ack"
        /\ spc' = [spc EXCEPT ![t] = "sending"] /\ toS' = [toS EXCEPT ![t] = Tail(toS[t])]
        /\ cur' = [cur EXCEPT ![t] = NextChunk(t)]
        /\ UNCHANGED <<man, skip, rpc, completed>>
    BY <1>9, <1>q DEF RecvAck, SenderGets, SetSpc, ConsumeS, receiverVars
  <2>2. Written(t, cur[t].file, cur[t].off)
    <3>1. Head(toS[t]) = toS[t][1] /\ 1 \in DOMAIN toS[t]
      BY <1>f, <2>1
    <3>2. Head(toS[t]).file = cur[t].file /\ Head(toS[t]).off = cur[t].off
      BY <2>1, ProtocolImplies DEF ProtocolAgrees, SenderWaiting
    <3> QED BY <1>f, <2>1, <3>1, <3>2 DEF AckInvOf
  <2>3. /\ spc'[t] = "sending" /\ toS'[t] = Tail(toS[t]) /\ cur'[t] = NextChunk(t)
        /\ \A u \in Transfers : u # t => spc'[u] = spc[u] /\ toS'[u] = toS[u] /\ cur'[u] = cur[u]
    BY <1>q, <2>1
  <2>4. cur'[t].file \in Nat /\ cur'[t].file >= 1
    <3>1. cur[t].file \in Nat /\ cur[t].file >= 1 /\ cur[t] \in Cursor
      BY <1>f, <1>q DEF AckInvOf, Cursor
    <3>2. NextChunk(t).file \in {cur[t].file, cur[t].file + 1}
      BY <3>1 DEF NextChunk, OpenFile, Cursor
    <3> QED BY <2>3, <3>1, <3>2
  <2>5. /\ \A i : WriterChunks(t, i)' = WriterChunks(t, i)
        /\ ManifestCounts(t)' = ManifestCounts(t)
    BY <2>1 DEF WriterChunks, ManifestCounts, Idx
  <2>6. /\ \A i, o : GlobalOffset(t, i, o)' = GlobalOffset(t, i, o)
        /\ \A i, o : Written(t, i, o)' <=> Written(t, i, o)
    BY <2>1, <2>5 DEF GlobalOffset, Written
  <2>7. ASSUME NEW i \in Idx(t), NEW o \in 0 .. WriterChunks(t, i) - 1, Passed(NextChunk(t), i, o)
        PROVE  Written(t, i, o) \/ GlobalOffset(t, i, o) \in skip[t]
    <3>1. Passed(cur[t], i, o) \/ (i = cur[t].file /\ o = cur[t].off)
      BY <1>f, <2>1, <2>7, PassesOne DEF AckInvOf
    <3> QED BY <1>f, <2>2, <2>7, <3>1 DEF AckInvOf
  <2>8. From(Tail(toS[t]), toS[t])
    BY <1>f, <2>1, AcksFrom
  <2>9. AckInvOf(t)'
    BY <1>f, <2>1, <2>3, <2>4, <2>5, <2>6, <2>7, <2>8 DEF AckInvOf, From, Idx
  <2> QED BY <2>1, <2>3, <2>9, AckElsewhere
<1>10. ASSUME NEW t \in Transfers, SendComplete(t) PROVE AckInv'
  <2> DEFINE s == "verifying"
             r == rpc[t]
             y == toS[t]
  <2>1. /\ spc' = [spc EXCEPT ![t] = s] /\ rpc' = [rpc EXCEPT ![t] = r]
        /\ toS' = [toS EXCEPT ![t] = y] /\ UNCHANGED <<cur, skip, man, completed>>
    BY <1>10, <1>q DEF SendComplete, SetSpc, receiverVars
  <2>2. (s = "idle" => spc[t] = "idle") /\ (rpc[t] \in Preparing \/ r \notin Preparing)
    BY <1>10 DEF SendComplete, Preparing
  <2>3. From(y, toS[t])
    BY <1>f, AcksFrom
  <2> HIDE DEF s, r, y
  <2> QED BY <2>1, <2>2, <2>3, AckMoves
<1>11. ASSUME NEW t \in Transfers, RecvVerified(t) PROVE AckInv'
  <2> DEFINE s == IF Head(toS[t]).ok THEN "completed" ELSE "failed"
             r == rpc[t]
             y == Tail(toS[t])
  <2>1. /\ spc' = [spc EXCEPT ![t] = s] /\ rpc' = [rpc EXCEPT ![t] = r]
        /\ toS' = [toS EXCEPT ![t] = y] /\ UNCHANGED <<cur, skip, man, completed>>
    BY <1>11, <1>q DEF RecvVerified, SetSpc, ConsumeS, SenderStops, SenderGets, receiverVars
  <2>2. (s = "idle" => spc[t] = "idle") /\ (rpc[t] \in Preparing \/ r \notin Preparing)
    BY <1>11 DEF RecvVerified, Preparing
  <2>3. From(y, toS[t])
    <3>1. toS[t] # <<>>
      BY <1>11 DEF RecvVerified, SenderGets
    <3> QED BY <1>f, <3>1, AcksFrom
  <2> HIDE DEF s, r, y
  <2> QED BY <2>1, <2>2, <2>3, AckMoves
<1>12. ASSUME NEW t \in Transfers, SenderRecvFails(t) PROVE AckInv'
  <2> DEFINE s == "failed"
             r == rpc[t]
             y == Tail(toS[t])
  <2>1. /\ spc' = [spc EXCEPT ![t] = s] /\ rpc' = [rpc EXCEPT ![t] = r]
        /\ toS' = [toS EXCEPT ![t] = y] /\ UNCHANGED <<cur, skip, man, completed>>
    BY <1>12, <1>q DEF SenderRecvFails, SetSpc, ConsumeS, SenderStops, receiverVars
  <2>2. (s = "idle" => spc[t] = "idle") /\ (rpc[t] \in Preparing \/ r \notin Preparing)
    BY <1>12 DEF SenderRecvFails, Preparing
  <2>3. From(y, toS[t])
    <3>1. toS[t] # <<>>
      BY <1>12 DEF SenderRecvFails
    <3> QED BY <1>f, <3>1, AcksFrom
  <2> HIDE DEF s, r, y
  <2> QED BY <2>1, <2>2, <2>3, AckMoves
<1>13. ASSUME NEW t \in Transfers, RecvHs1(t) PROVE AckInv'
  <2> DEFINE s == spc[t]
             r == "hs3"
             y == Append(toS[t], Msg("Hs2"))
  <2>1. /\ spc' = [spc EXCEPT ![t] = s] /\ rpc' = [rpc EXCEPT ![t] = r]
        /\ toS' = [toS EXCEPT ![t] = y] /\ UNCHANGED <<cur, skip, man, completed>>
    BY <1>13, <1>q DEF RecvHs1, SetRpc, SendToS, senderVars
  <2>2. (s = "idle" => spc[t] = "idle") /\ (rpc[t] \in Preparing \/ r \notin Preparing)
    BY <1>13 DEF RecvHs1, Preparing
  <2>3. From(y, toS[t])
    <3>1. Msg("Hs2") \in Message /\ Msg("Hs2").type # "Ack"
      BY MessageTypes, MessageKinds
    <3> QED BY <1>f, <3>1, AcksFrom
  <2> HIDE DEF s, r, y
  <2> QED BY <2>1, <2>2, <2>3, AckMoves
<1>14. ASSUME NEW t \in Transfers, RecvHs3(t) PROVE AckInv'
  <2> DEFINE s == spc[t]
             r == "waitRequest"
             y == toS[t]
  <2>1. /\ spc' = [spc EXCEPT ![t] = s] /\ rpc' = [rpc EXCEPT ![t] = r]
        /\ toS' = [toS EXCEPT ![t] = y] /\ UNCHANGED <<cur, skip, man, completed>>
    BY <1>14, <1>q DEF RecvHs3, SetRpc, senderVars
  <2>2. (s = "idle" => spc[t] = "idle") /\ (rpc[t] \in Preparing \/ r \notin Preparing)
    BY <1>14 DEF RecvHs3, Preparing
  <2>3. From(y, toS[t])
    BY <1>f, AcksFrom
  <2> HIDE DEF s, r, y
  <2> QED BY <2>1, <2>2, <2>3, AckMoves
<1>15. ASSUME NEW t \in Transfers, RecvRequest(t) PROVE AckInv'
  <2> DEFINE s == spc[t]
             r == "deciding"
             y == toS[t]
  <2>1. /\ spc' = [spc EXCEPT ![t] = s] /\ rpc' = [rpc EXCEPT ![t] = r]
        /\ toS' = [toS EXCEPT ![t] = y] /\ UNCHANGED <<cur, skip, man, completed>>
    BY <1>15, <1>q DEF RecvRequest, SetRpc, senderVars
  <2>2. (s = "idle" => spc[t] = "idle") /\ (rpc[t] \in Preparing \/ r \notin Preparing)
    BY <1>15 DEF RecvRequest, Preparing
  <2>3. From(y, toS[t])
    BY <1>f, AcksFrom
  <2> HIDE DEF s, r, y
  <2> QED BY <2>1, <2>2, <2>3, AckMoves
<1>16. ASSUME NEW t \in Transfers, DecideReject(t) PROVE AckInv'
  <2> DEFINE s == spc[t]
             r == "failed"
             y == toS[t] \o <<Msg("Reject"), Closing(toR[t])>>
  <2>1. /\ spc' = [spc EXCEPT ![t] = s] /\ rpc' = [rpc EXCEPT ![t] = r]
        /\ toS' = [toS EXCEPT ![t] = y] /\ UNCHANGED <<cur, skip, man, completed>>
    BY <1>16, <1>q DEF DecideReject, SetRpc, senderVars
  <2>2. (s = "idle" => spc[t] = "idle") /\ (rpc[t] \in Preparing \/ r \notin Preparing)
    BY <1>16 DEF DecideReject, Preparing
  <2>3. From(y, toS[t])
    <3>1. Msg("Reject") \in Message /\ Msg("Reject").type # "Ack" /\ Closing(toR[t]) \in Message /\ Closing(toR[t]).type # "Ack"
      BY MessageTypes, MessageKinds
    <3> QED BY <1>f, <3>1, AcksFrom
  <2> HIDE DEF s, r, y
  <2> QED BY <2>1, <2>2, <2>3, AckMoves
<1>17. ASSUME NEW t \in Transfers, DecideAccept(t) PROVE AckInv'
  <2> DEFINE S == UNION {{GlobalOffset(t, i, o) : o \in state[i]} :
                           state \in loaded[t], i \in FileIndex}
             b == encode_received_bitmap(S, total_chunks(ManifestCounts(t)))
             m == IF loaded[t] = {} THEN Msg("Accept") ELSE ResumeAtMsg(b)
  <2>1. /\ rpc[t] = "deciding" /\ toS' = [toS EXCEPT ![t] = Append(@, m)]
        /\ rpc' = [rpc EXCEPT ![t] = "creating"] /\ UNCHANGED <<spc, cur, skip, man, completed>>
    BY <1>17 DEF DecideAccept, SendToS, SetRpc, senderVars
  <2>2. b \in Seq(Byte)
    BY ManifestTypes, BitmapType
  <2> HIDE DEF b
  <2>3. m \in Message /\ m.type # "Ack"
    BY <2>2, MessageTypes, MessageKinds
  <2> HIDE DEF m
  <2> DEFINE y == Append(toS[t], m)
  <2>4. /\ spc' = [spc EXCEPT ![t] = spc[t]] /\ toS' = [toS EXCEPT ![t] = y]
    BY <1>q, <2>1
  <2>5. From(y, toS[t])
    BY <1>f, <2>3, AcksFrom
  <2> HIDE DEF y
  <2> QED BY <2>1, <2>4, <2>5, AckMoves DEF Preparing
<1>18. ASSUME NEW t \in Transfers, CreateWriter(t) PROVE AckInv'
  <2>1. /\ rpc[t] = "creating" /\ completed' = [completed EXCEPT ![t][rfile[t]] = {}]
        /\ UNCHANGED <<spc, man, cur, skip, rpc, toS>>
    BY <1>18 DEF CreateWriter, senderVars
  <2>2. \A u \in Transfers : u # t => completed'[u] = completed[u]
    BY <1>q, <2>1
  <2>3. \A i, o : ~Written(t, i, o) /\ ~Written(t, i, o)'
    BY <2>1 DEF Written, Preparing
  <2>4. /\ \A i : WriterChunks(t, i)' = WriterChunks(t, i)
        /\ ManifestCounts(t)' = ManifestCounts(t)
    BY <2>1 DEF WriterChunks, ManifestCounts, Idx
  <2>5. \A i, o : GlobalOffset(t, i, o)' = GlobalOffset(t, i, o)
    BY <2>4 DEF GlobalOffset
  <2>6. AckInvOf(t)'
    BY <1>f, <2>1, <2>3, <2>4, <2>5 DEF AckInvOf, Idx
  <2> QED BY <2>1, <2>2, <2>6, AckElsewhere
<1>19. ASSUME NEW t \in Transfers, StartReceiving(t) PROVE AckInv'
  <2> DEFINE s == spc[t]
             r == "receiving"
             y == toS[t]
  <2>1. /\ spc' = [spc EXCEPT ![t] = s] /\ rpc' = [rpc EXCEPT ![t] = r]
        /\ toS' = [toS EXCEPT ![t] = y] /\ UNCHANGED <<cur, skip, man, completed>>
    BY <1>19, <1>q DEF StartReceiving, SetRpc, senderVars
  <2>2. (s = "idle" => spc[t] = "idle") /\ (rpc[t] \in Preparing \/ r \notin Preparing)
    BY <1>19 DEF StartReceiving, Preparing
  <2>3. From(y, toS[t])
    BY <1>f, AcksFrom
  <2> HIDE DEF s, r, y
  <2> QED BY <2>1, <2>2, <2>3, AckMoves
<1>20. ASSUME NEW t \in Transfers, RecvChunk(t) PROVE AckInv'
  <2>0. toR[t] # <<>> /\ Head(toR[t]) \in Message /\ Head(toR[t]).type = "Chunk"
    BY <1>20 DEF RecvChunk, ReceiverGets, TypeOK
  <2>3. PICK f \in FileIndex, c \in Nat : f = Head(toR[t]).file /\ c = Head(toR[t]).off
    BY <2>0, Payloads
  <2> DEFINE a == AckMsg(f, c)
  <2>1. /\ rpc[t] = "receiving" /\ completed' = [completed EXCEPT ![t][f] = @ \cup {c}]
        /\ toS' = [toS EXCEPT ![t] = Append(@, a)]
        /\ UNCHANGED <<spc, man, cur, skip, rpc>>
    BY <1>20, <2>3 DEF RecvChunk, SendToS, senderVars
  <2>2. a \in Message /\ a.type = "Ack" /\ a.file = f /\ a.off = c
    BY MessageTypes DEF AckMsg
  <2> HIDE DEF a
  <2>4. /\ \A i : WriterChunks(t, i)' = WriterChunks(t, i)
        /\ ManifestCounts(t)' = ManifestCounts(t)
    BY <2>1 DEF WriterChunks, ManifestCounts, Idx
  <2>5. \A i, o : GlobalOffset(t, i, o)' = GlobalOffset(t, i, o)
    BY <2>4 DEF GlobalOffset
  <2>6. /\ toS'[t] = Append(toS[t], a)
        /\ \A u \in Transfers : u # t => completed'[u] = completed[u] /\ toS'[u] = toS[u]
        /\ c \in completed'[t][f]
        /\ \A i \in FileIndex : completed[t][i] \subseteq completed'[t][i]
    BY <1>q, <2>1
  <2>7. /\ \A i \in FileIndex, d \in Nat : Written(t, i, d) => Written(t, i, d)'
        /\ Written(t, f, c)'
    BY <2>1, <2>6 DEF Written, Preparing
  <2>8. ASSUME NEW k \in DOMAIN toS'[t], toS'[t][k].type = "Ack"
        PROVE  rpc'[t] \notin Preparing /\ toS'[t][k].off \in completed'[t][toS'[t][k].file]
    <3>1. toS[t] \in Seq(Message)
      BY <1>f
    <3>2. CASE k \in DOMAIN toS[t] /\ toS'[t][k] = toS[t][k]
      <4>1. toS[t][k] \in Message /\ Written(t, toS[t][k].file, toS[t][k].off)
        BY <1>f, <2>8, <3>1, <3>2 DEF AckInvOf
      <4>2. toS[t][k].file \in FileIndex /\ toS[t][k].off \in Nat
        BY <2>8, <3>2, <4>1 DEF Message
      <4>3. toS'[t][k].file \in FileIndex /\ toS'[t][k].off \in Nat
            /\ Written(t, toS'[t][k].file, toS'[t][k].off)
        BY <3>2, <4>1, <4>2
      <4> QED BY <2>7, <4>3 DEF Written
    <3>3. CASE toS'[t][k] = a
      <4>1. toS'[t][k].file = f /\ toS'[t][k].off = c
        BY <2>2, <3>3
      <4> QED BY <2>7, <4>1 DEF Written
    <3> QED BY <2>2, <2>6, <3>1, <3>2, <3>3
  <2>9. AckInvOf(t)'
    <3>1. Idx(t) \subseteq FileIndex
      BY FileIndexNat
    <3>2. \A i \in FileIndex : WriterChunks(t, i) \in Nat
      BY ManifestTypes
    <3>3. \A i \in Idx(t) : \A d \in 0 .. WriterChunks(t, i) - 1 : i \in FileIndex /\ d \in Nat
      BY <3>1, <3>2
    <3>4. \A i \in Idx(t) : \A d \in 0 .. WriterChunks(t, i) - 1 :
            Passed(cur[t], i, d) => Written(t, i, d)' \/ GlobalOffset(t, i, d) \in skip[t]
      BY <1>f, <2>7, <3>3 DEF AckInvOf
    <3> QED BY <1>f, <2>1, <2>4, <2>5, <2>8, <3>4 DEF AckInvOf, Idx, Written
  <2> QED BY <2>1, <2>6, <2>9, AckElsewhere
<1>21. ASSUME NEW t \in Transfers, RecvChunkFails(t) PROVE AckInv'
  <2> DEFINE s == spc[t]
             r == "failed"
             y == Append(toS[t], Closing(Tail(toR[t])))
  <2>1. /\ spc' = [spc EXCEPT ![t] = s] /\ rpc' = [rpc EXCEPT ![t] = r]
        /\ toS' = [toS EXCEPT ![t] = y] /\ UNCHANGED <<cur, skip, man, completed>>
    BY <1>21, <1>q DEF RecvChunkFails, SetRpc, SendToS, ReceiverStops, senderVars
  <2>2. (s = "idle" => spc[t] = "idle") /\ (rpc[t] \in Preparing \/ r \notin Preparing)
    BY <1>21 DEF RecvChunkFails, Preparing
  <2>3. From(y, toS[t])
    <3>1. Closing(Tail(toR[t])) \in Message /\ Closing(Tail(toR[t])).type # "Ack"
      BY MessageTypes, MessageKinds
    <3> QED BY <1>f, <3>1, AcksFrom
  <2> HIDE DEF s, r, y
  <2> QED BY <2>1, <2>2, <2>3, AckMoves
<1>22. ASSUME NEW t \in Transfers, RecvComplete(t) PROVE AckInv'
  <2> DEFINE s == spc[t]
             r == "finalizing"
             y == toS[t]
  <2>1. /\ spc' = [spc EXCEPT ![t] = s] /\ rpc' = [rpc EXCEPT ![t] = r]
        /\ toS' = [toS EXCEPT ![t] = y] /\ UNCHANGED <<cur, skip, man, completed>>
    BY <1>22, <1>q DEF RecvComplete, SetRpc, senderVars
  <2>2. (s = "idle" => spc[t] = "idle") /\ (rpc[t] \in Preparing \/ r \notin Preparing)
    BY <1>22 DEF RecvComplete, Preparing
  <2>3. From(y, toS[t])
    BY <1>f, AcksFrom
  <2> HIDE DEF s, r, y
  <2> QED BY <2>1, <2>2, <2>3, AckMoves
<1>23. ASSUME NEW t \in Transfers, Finalize(t) PROVE AckInv'
  <2> DEFINE s == spc[t]
             r == rpc[t]
             y == toS[t]
  <2>1. /\ spc' = [spc EXCEPT ![t] = s] /\ rpc' = [rpc EXCEPT ![t] = r]
        /\ toS' = [toS EXCEPT ![t] = y] /\ UNCHANGED <<cur, skip, man, completed>>
    BY <1>23, <1>q DEF Finalize, senderVars
  <2>2. (s = "idle" => spc[t] = "idle") /\ (rpc[t] \in Preparing \/ r \notin Preparing)
    BY <1>23 DEF Finalize, Preparing
  <2>3. From(y, toS[t])
    BY <1>f, AcksFrom
  <2> HIDE DEF s, r, y
  <2> QED BY <2>1, <2>2, <2>3, AckMoves
<1>24. ASSUME NEW t \in Transfers, FinalizeFails(t) PROVE AckInv'
  <2> DEFINE s == spc[t]
             r == "failed"
             y == Append(toS[t], Closing(toR[t]))
  <2>1. /\ spc' = [spc EXCEPT ![t] = s] /\ rpc' = [rpc EXCEPT ![t] = r]
        /\ toS' = [toS EXCEPT ![t] = y] /\ UNCHANGED <<cur, skip, man, completed>>
    BY <1>24, <1>q DEF FinalizeFails, SetRpc, SendToS, senderVars
  <2>2. (s = "idle" => spc[t] = "idle") /\ (rpc[t] \in Preparing \/ r \notin Preparing)
    BY <1>24 DEF FinalizeFails, Preparing
  <2>3. From(y, toS[t])
    <3>1. Closing(toR[t]) \in Message /\ Closing(toR[t]).type # "Ack"
      BY MessageTypes, MessageKinds
    <3> QED BY <1>f, <3>1, AcksFrom
  <2> HIDE DEF s, r, y
  <2> QED BY <2>1, <2>2, <2>3, AckMoves
<1>25. ASSUME NEW t \in Transfers, SendVerified(t) PROVE AckInv'
  <2> DEFINE s == spc[t]
             r == IF rok[t] THEN "removing" ELSE "closing"
             y == Append(toS[t], VerifiedMsg(rok[t]))
  <2>1. /\ spc' = [spc EXCEPT ![t] = s] /\ rpc' = [rpc EXCEPT ![t] = r]
        /\ toS' = [toS EXCEPT ![t] = y] /\ UNCHANGED <<cur, skip, man, completed>>
    BY <1>25, <1>q DEF SendVerified, SetRpc, SendToS, senderVars
  <2>2. (s = "idle" => spc[t] = "idle") /\ (rpc[t] \in Preparing \/ r \notin Preparing)
    BY <1>25 DEF SendVerified, Preparing
  <2>3. From(y, toS[t])
    <3>1. VerifiedMsg(rok[t]) \in Message /\ VerifiedMsg(rok[t]).type # "Ack"
      BY MessageTypes, MessageKinds DEF TypeOK
    <3> QED BY <1>f, <3>1, AcksFrom
  <2> HIDE DEF s, r, y
  <2> QED BY <2>1, <2>2, <2>3, AckMoves
<1>33. ASSUME NEW t \in Transfers, RemoveResumeState(t) PROVE AckInv'
  <2> DEFINE s == spc[t]
             r == "closing"
             y == toS[t]
  <2>1. /\ spc' = [spc EXCEPT ![t] = s] /\ rpc' = [rpc EXCEPT ![t] = r]
        /\ toS' = [toS EXCEPT ![t] = y] /\ UNCHANGED <<cur, skip, man, completed>>
    BY <1>33, <1>q DEF RemoveResumeState, SetRpc, senderVars
  <2>2. (s = "idle" => spc[t] = "idle") /\ (rpc[t] \in Preparing \/ r \notin Preparing)
    BY <1>33 DEF RemoveResumeState, Preparing
  <2>3. From(y, toS[t])
    BY <1>f, AcksFrom
  <2> HIDE DEF s, r, y
  <2> QED BY <2>1, <2>2, <2>3, AckMoves
<1>34. ASSUME NEW t \in Transfers, EndReceiving(t) PROVE AckInv'
  <2> DEFINE s == spc[t]
             r == IF rok[t] THEN "completed" ELSE "incomplete"
             y == Append(toS[t], Msg("FIN"))
  <2>1. /\ spc' = [spc EXCEPT ![t] = s] /\ rpc' = [rpc EXCEPT ![t] = r]
        /\ toS' = [toS EXCEPT ![t] = y] /\ UNCHANGED <<cur, skip, man, completed>>
    BY <1>34, <1>q DEF EndReceiving, SetRpc, SendToS, senderVars
  <2>2. (s = "idle" => spc[t] = "idle") /\ (rpc[t] \in Preparing \/ r \notin Preparing)
    BY <1>34 DEF EndReceiving, Preparing
  <2>3. From(y, toS[t])
    <3>1. Msg("FIN") \in Message /\ Msg("FIN").type # "Ack"
      BY MessageTypes, MessageKinds DEF TypeOK
    <3> QED BY <1>f, <3>1, AcksFrom
  <2> HIDE DEF s, r, y
  <2> QED BY <2>1, <2>2, <2>3, AckMoves
<1>26. ASSUME NEW t \in Transfers, RecvClosed(t) PROVE AckInv'
  <2> DEFINE s == spc[t]
             r == "failed"
             y == Append(toS[t], Closing(Tail(toR[t])))
  <2>1. /\ spc' = [spc EXCEPT ![t] = s] /\ rpc' = [rpc EXCEPT ![t] = r]
        /\ toS' = [toS EXCEPT ![t] = y] /\ UNCHANGED <<cur, skip, man, completed>>
    BY <1>26, <1>q DEF RecvClosed, SetRpc, SendToS, ReceiverStops, senderVars
  <2>2. (s = "idle" => spc[t] = "idle") /\ (rpc[t] \in Preparing \/ r \notin Preparing)
    BY <1>26 DEF RecvClosed, Preparing
  <2>3. From(y, toS[t])
    <3>1. Closing(Tail(toR[t])) \in Message /\ Closing(Tail(toR[t])).type # "Ack"
      BY MessageTypes, MessageKinds
    <3> QED BY <1>f, <3>1, AcksFrom
  <2> HIDE DEF s, r, y
  <2> QED BY <2>1, <2>2, <2>3, AckMoves
<1>27. ASSUME NEW t \in Transfers, ReceiverRecvFails(t) PROVE AckInv'
  <2> DEFINE s == spc[t]
             r == "failed"
             y == Append(toS[t], Closing(Tail(toR[t])))
  <2>1. /\ spc' = [spc EXCEPT ![t] = s] /\ rpc' = [rpc EXCEPT ![t] = r]
        /\ toS' = [toS EXCEPT ![t] = y] /\ UNCHANGED <<cur, skip, man, completed>>
    BY <1>27, <1>q DEF ReceiverRecvFails, SetRpc, SendToS, ReceiverStops, senderVars
  <2>2. (s = "idle" => spc[t] = "idle") /\ (rpc[t] \in Preparing \/ r \notin Preparing)
    BY <1>27 DEF ReceiverRecvFails, Preparing
  <2>3. From(y, toS[t])
    <3>1. Closing(Tail(toR[t])) \in Message /\ Closing(Tail(toR[t])).type # "Ack"
      BY MessageTypes, MessageKinds
    <3> QED BY <1>f, <3>1, AcksFrom
  <2> HIDE DEF s, r, y
  <2> QED BY <2>1, <2>2, <2>3, AckMoves
<1>28. ASSUME NEW t \in Transfers, ConnectFails(t) PROVE AckInv'
  <2> DEFINE s == "failed"
             r == rpc[t]
             y == toS[t]
  <2>1. /\ spc' = [spc EXCEPT ![t] = s] /\ rpc' = [rpc EXCEPT ![t] = r]
        /\ toS' = [toS EXCEPT ![t] = y] /\ UNCHANGED <<cur, skip, man, completed>>
    BY <1>28, <1>q DEF ConnectFails, SetSpc, Fault, receiverVars
  <2>2. (s = "idle" => spc[t] = "idle") /\ (rpc[t] \in Preparing \/ r \notin Preparing)
    BY <1>28 DEF ConnectFails, Preparing
  <2>3. From(y, toS[t])
    BY <1>f, AcksFrom
  <2> HIDE DEF s, r, y
  <2> QED BY <2>1, <2>2, <2>3, AckMoves
<1>29. ASSUME NEW t \in Transfers, SenderCrash(t) PROVE AckInv'
  <2> DEFINE s == "failed"
             r == rpc[t]
             y == toS[t]
  <2>1. /\ spc' = [spc EXCEPT ![t] = s] /\ rpc' = [rpc EXCEPT ![t] = r]
        /\ toS' = [toS EXCEPT ![t] = y] /\ UNCHANGED <<cur, skip, man, completed>>
    BY <1>29, <1>q DEF SenderCrash, SetSpc, Fault, receiverVars
  <2>2. (s = "idle" => spc[t] = "idle") /\ (rpc[t] \in Preparing \/ r \notin Preparing)
    BY <1>29 DEF SenderCrash, Preparing
  <2>3. From(y, toS[t])
    BY <1>f, AcksFrom
  <2> HIDE DEF s, r, y
  <2> QED BY <2>1, <2>2, <2>3, AckMoves
<1>30. ASSUME NEW t \in Transfers, ReceiverCrash(t) PROVE AckInv'
  <2>1. PICK kind \in {"FIN", "RST"} : toS' = [toS EXCEPT ![t] = Append(@, Msg(kind))]
    BY <1>30 DEF ReceiverCrash, SendToS
  <2> DEFINE y == Append(toS[t], Msg(kind))
  <2>2. /\ spc' = [spc EXCEPT ![t] = spc[t]] /\ rpc' = [rpc EXCEPT ![t] = "failed"]
        /\ toS' = [toS EXCEPT ![t] = y] /\ UNCHANGED <<cur, skip, man, completed>>
    BY <1>30, <1>q, <2>1 DEF ReceiverCrash, SetRpc, senderVars
  <2>3. From(y, toS[t])
    <3>1. Msg(kind) \in Message /\ Msg(kind).type # "Ack"
      BY MessageTypes, MessageKinds
    <3> QED BY <1>f, <3>1, AcksFrom
  <2> HIDE DEF y
  <2> QED BY <2>2, <2>3, AckMoves DEF Preparing
<1>32. ASSUME NEW t \in Transfers, SaveTorn(t) PROVE AckInv'
  <2> DEFINE s == spc[t]
             r == "failed"
             y == Append(toS[t], Closing(Tail(toR[t])))
  <2>1. /\ spc' = [spc EXCEPT ![t] = s] /\ rpc' = [rpc EXCEPT ![t] = r]
        /\ toS' = [toS EXCEPT ![t] = y] /\ UNCHANGED <<cur, skip, man, completed>>
    BY <1>32, <1>q DEF SaveTorn, SetRpc, SendToS, ReceiverStops, Fault, senderVars
  <2>2. (s = "idle" => spc[t] = "idle") /\ (rpc[t] \in Preparing \/ r \notin Preparing)
    BY <1>32 DEF SaveTorn, Preparing
  <2>3. From(y, toS[t])
    <3>1. Closing(Tail(toR[t])) \in Message /\ Closing(Tail(toR[t])).type # "Ack"
      BY MessageTypes, MessageKinds
    <3> QED BY <1>f, <3>1, AcksFrom
  <2> HIDE DEF s, r, y
  <2> QED BY <2>1, <2>2, <2>3, AckMoves
<1>31. ASSUME NEW t \in Transfers, Disconnect(t) PROVE AckInv'
  <2> DEFINE s == spc[t]
             r == rpc[t]
             y == <<Msg("RST")>>
  <2>1. /\ spc' = [spc EXCEPT ![t] = s] /\ rpc' = [rpc EXCEPT ![t] = r]
        /\ toS' = [toS EXCEPT ![t] = y] /\ UNCHANGED <<cur, skip, man, completed>>
    BY <1>31, <1>q DEF Disconnect, Fault, senderVars, receiverVars
  <2>2. (s = "idle" => spc[t] = "idle") /\ (rpc[t] \in Preparing \/ r \notin Preparing)
    BY <1>31 DEF Disconnect, Preparing
  <2>3. From(y, toS[t])
    <3>1. Msg("RST") \in Message /\ Msg("RST").type # "Ack"
      BY MessageTypes, MessageKinds
    <3> QED BY <1>f, <3>1, AcksFrom
  <2> HIDE DEF s, r, y
  <2> QED BY <2>1, <2>2, <2>3, AckMoves
<1>u. CASE UNCHANGED vars
  <2>1. UNCHANGED <<spc, rpc, cur, skip, man, completed, toS>>
    BY <1>u DEF vars
  <2>2. /\ \A t \in Transfers : \A i : WriterChunks(t, i)' = WriterChunks(t, i)
        /\ \A t \in Transfers : ManifestCounts(t)' = ManifestCounts(t)
    BY <2>1 DEF WriterChunks, ManifestCounts, Idx
  <2>3. /\ \A t \in Transfers : \A i, o : GlobalOffset(t, i, o)' = GlobalOffset(t, i, o)
        /\ \A t \in Transfers : \A i, o : Written(t, i, o)' <=> Written(t, i, o)
    BY <2>1, <2>2 DEF GlobalOffset, Written
  <2> QED BY <2>1, <2>2, <2>3 DEF AckInv, AckInvOf, Idx
<1> QED BY <1>e, <1>1, <1>2, <1>3, <1>4, <1>5, <1>6, <1>7, <1>8, <1>9, <1>10, <1>11, <1>12, <1>13, <1>14, <1>15, <1>16, <1>17, <1>18, <1>19, <1>20, <1>21, <1>22, <1>23, <1>24, <1>25, <1>26, <1>27, <1>28, <1>29, <1>30, <1>31, <1>32, <1>33, <1>34, <1>u
     DEF Next, SenderStep, ReceiverStep, FaultStep

\* The chunk loop of send_files is never ahead of the writers, for any number of transfers,
\* files and faults, as long as no file is above the large-file threshold and no source has
\* been edited: a chunk it is past is written and recorded, or the receiver reported it.
THEOREM AckedAlwaysWritten == SmallSources /\ Spec => [](edits = 0 => AckedWritten)
<1> DEFINE Inv == TypeOK /\ ProtocolInv /\ (edits = 0 => SenderKnows /\ AckInv)
<1>1. Init => Inv
  BY TypeInit, ProtocolInit, IntactInit, AckInit DEF IntactInv
<1>2. SmallSources /\ Inv /\ [Next]_vars => Inv'
  <2>1. Inv /\ [Next]_vars => TypeOK' /\ ProtocolInv'
    BY TypeStep, ProtocolStep
  <2>2. SmallSources /\ Inv /\ [Next]_vars /\ edits' = 0 => SenderKnows' /\ AckInv'
    BY EditsStay, SenderKnowsStep, AckStep
  <2> QED BY <2>1, <2>2
<1>3. AckInv => AckedWritten
  BY DEF AckInv, AckInvOf, AckedWritten, Passed, Written
<1>4. SmallSources => []SmallSources
  <2>1. SmallSources => SmallSources'
    BY DEF SmallSources
  <2> QED BY <2>1, PTL
<1> QED BY <1>1, <1>2, <1>3, <1>4, PTL DEF Spec

---------------------------------------------------------------------------
(* A transfer with an id of its own never ends incomplete *)

\* TransferManifest::new draws a new id (Uuid::new_v4) for every call of send_files.
OwnIds == \A t, u \in Transfers : IdOf[t] = IdOf[u] => t = u

HasKind(q, kind) == \E k \in DOMAIN q : q[k].type = kind

\* The sender may still send a chunk.
Sending == {"idle", "handshake", "negotiating", "sending", "awaitAck"}

\* The sender has announced that it is done, and perhaps the receiver has been told.
Announced(t) ==
  \/ spc[t] = "verifying"
  \/ rpc[t] \in {"finalizing", "removing", "closing", "completed", "incomplete"}
  \/ HasKind(toR[t], "Complete")

\* The receiver has nothing on file for a new id, so that no chunk is skipped; a writer
\* records chunks of its file only; and when TransferComplete is sent, every chunk of
\* every file has been passed.
VerdictInvOf(t) ==
  /\ IdOf[t] \in saved => rpc[t] = "failed"
  /\ loaded[t] = {} /\ skip[t] = {} /\ ~HasKind(toS[t], "ResumeAt")
  /\ \A i \in Idx(t) :
       completed[t][i] \subseteq IF rpc[t] = "idle" THEN {} ELSE 0 .. WriterChunks(t, i) - 1
  /\ Announced(t) => spc[t] \notin Sending /\ \A i \in Idx(t) : i < cur[t].file
  /\ rpc[t] \in {"finalizing", "removing", "closing"} => rok[t]
  /\ rpc[t] # "incomplete"

VerdictInv == \A t \in Transfers : VerdictInvOf(t)

\* The kinds of the messages of a queue after one is taken or some are added.
LEMMA KindsFrom ==
  ASSUME NEW q \in Seq(Message), NEW kind
  PROVE  /\ q # <<>> => /\ HasKind(Tail(q), kind) => HasKind(q, kind)
                        /\ Head(q).type = kind => HasKind(q, kind)
         /\ \A m \in Message : HasKind(Append(q, m), kind) <=> HasKind(q, kind) \/ m.type = kind
         /\ \A m \in Message : HasKind(<<m>>, kind) <=> m.type = kind
         /\ \A m, n \in Message :
              HasKind(q \o <<m, n>>, kind) <=> HasKind(q, kind) \/ m.type = kind \/ n.type = kind
<1>1. ASSUME q # <<>>, HasKind(Tail(q), kind) PROVE HasKind(q, kind)
  <2>1. PICK k \in DOMAIN Tail(q) : Tail(q)[k].type = kind
    BY <1>1 DEF HasKind
  <2>2. k + 1 \in DOMAIN q /\ q[k + 1] = Tail(q)[k]
    BY <1>1
  <2> QED BY <2>1, <2>2 DEF HasKind
<1>2. ASSUME q # <<>>, Head(q).type = kind PROVE HasKind(q, kind)
  BY <1>2 DEF HasKind
<1>3. ASSUME NEW m \in Message
      PROVE  HasKind(Append(q, m), kind) <=> HasKind(q, kind) \/ m.type = kind
  <2>1. Len(q) \in Nat /\ DOMAIN Append(q, m) = 1 .. Len(q) + 1 /\ Append(q, m)[Len(q) + 1] = m
        /\ DOMAIN q = 1 .. Len(q) /\ \A k \in 1 .. Len(q) : Append(q, m)[k] = q[k]
    OBVIOUS
  <2> QED BY <2>1 DEF HasKind
<1>4. ASSUME NEW m \in Message PROVE HasKind(<<m>>, kind) <=> m.type = kind
  BY DEF HasKind
<1>5. ASSUME NEW m \in Message, NEW n \in Message
      PROVE  HasKind(q \o <<m, n>>, kind) <=> HasKind(q, kind) \/ m.type = kind \/ n.type = kind
  <2> DEFINE y == q \o <<m, n>>
  <2>1. /\ Len(q) \in Nat /\ DOMAIN y = 1 .. Len(q) + 2
        /\ y[Len(q) + 1] = m /\ y[Len(q) + 2] = n
        /\ DOMAIN q = 1 .. Len(q) /\ \A k \in 1 .. Len(q) : y[k] = q[k]
    OBVIOUS
  <2> HIDE DEF y
  <2>2. Len(q) + 1 \in DOMAIN y /\ Len(q) + 2 \in DOMAIN y /\ \A k \in DOMAIN q : k \in DOMAIN y
    BY <2>1
  <2>3. \A k \in DOMAIN y : k \in DOMAIN q \/ k = Len(q) + 1 \/ k = Len(q) + 2
    BY <2>1
  <2>4. HasKind(y, kind) <=> HasKind(q, kind) \/ m.type = kind \/ n.type = kind
    BY <2>1, <2>2, <2>3 DEF HasKind
  <2> QED BY <2>4 DEF y
<1> QED BY <1>1, <1>2, <1>3, <1>4, <1>5

\* What happens to one transfer leaves the others as they are, when ids are not shared.
LEMMA VerdictElsewhere ==
  ASSUME VerdictInv, OwnIds, NEW t \in Transfers,
         \A u \in Transfers : u # t =>
            /\ spc'[u] = spc[u] /\ rpc'[u] = rpc[u] /\ cur'[u] = cur[u] /\ skip'[u] = skip[u]
            /\ man'[u] = man[u] /\ completed'[u] = completed[u] /\ toS'[u] = toS[u]
            /\ toR'[u] = toR[u] /\ loaded'[u] = loaded[u] /\ rok'[u] = rok[u],
         saved' \subseteq saved \cup {IdOf[t]},
         VerdictInvOf(t)'
  PROVE  VerdictInv'
<1> SUFFICES ASSUME NEW u \in Transfers, u # t PROVE VerdictInvOf(u)'
  BY DEF VerdictInv
<1>1. /\ spc'[u] = spc[u] /\ rpc'[u] = rpc[u] /\ cur'[u] = cur[u] /\ skip'[u] = skip[u]
      /\ man'[u] = man[u] /\ completed'[u] = completed[u] /\ toS'[u] = toS[u]
      /\ toR'[u] = toR[u] /\ loaded'[u] = loaded[u] /\ rok'[u] = rok[u]
  OBVIOUS
<1>2. \A i : WriterChunks(u, i)' = WriterChunks(u, i)
  BY <1>1 DEF WriterChunks
<1>3. IdOf[u] # IdOf[t]
  BY DEF OwnIds
<1>4. VerdictInvOf(u)
  BY DEF VerdictInv
<1> QED BY <1>1, <1>2, <1>3, <1>4 DEF VerdictInvOf, Announced, Idx

\* When the sender is past every chunk, every writer has recorded every chunk.
LEMMA PassedMeansComplete ==
  ASSUME TypeOK, NEW t \in Transfers, AckInvOf(t), VerdictInvOf(t), rpc[t] = "finalizing",
         NEW i \in Idx(t)
  PROVE  is_complete(t, i)
<1>1. WriterChunks(t, i) \in Nat /\ i < cur[t].file
  BY ManifestTypes, FileIndexNat DEF VerdictInvOf, Announced
<1>2. \A o \in 0 .. WriterChunks(t, i) - 1 : o \in completed[t][i]
  BY <1>1 DEF AckInvOf, Passed, Written, VerdictInvOf
<1>3. completed[t][i] \subseteq 0 .. WriterChunks(t, i) - 1
  BY DEF VerdictInvOf
<1>4. completed[t][i] = 0 .. WriterChunks(t, i) - 1
  BY <1>2, <1>3
<1> QED BY <1>1, <1>4, ChunkInterval DEF is_complete

LEMMA VerdictInit == Init => VerdictInv
<1> SUFFICES ASSUME Init, NEW t \in Transfers PROVE VerdictInvOf(t)
  BY DEF VerdictInv
<1>1. /\ spc[t] = "idle" /\ rpc[t] = "idle" /\ toR[t] = <<>> /\ toS[t] = <<>>
      /\ skip[t] = {} /\ loaded[t] = {} /\ saved = {}
  BY DEF Init
<1>2. \A kind : ~HasKind(<<>>, kind)
  BY DEF HasKind
<1>3. \A i \in Idx(t) : completed[t][i] = {}
  BY FileIndexNat DEF Init
<1> QED BY <1>1, <1>2, <1>3 DEF VerdictInvOf, Announced

\* Every step keeps it.
LEMMA VerdictStep ==
  ASSUME TypeOK, SenderKnows, AckInv, VerdictInv, OwnIds, edits' = 0, [Next]_vars
  PROVE  VerdictInv'
<1>q. /\ spc \in [Transfers -> SenderStates] /\ rpc \in [Transfers -> ReceiverStates]
      /\ toS \in [Transfers -> Seq(Message)] /\ toR \in [Transfers -> Seq(Message)]
      /\ cur \in [Transfers -> Cursor] /\ man \in [Transfers -> [FileIndex -> Stat]]
      /\ skip \in [Transfers -> SUBSET Nat] /\ rok \in [Transfers -> BOOLEAN]
      /\ loaded \in [Transfers -> SUBSET [FileIndex -> SUBSET Nat]]
      /\ completed \in [Transfers -> [FileIndex -> SUBSET Nat]]
  BY DEF TypeOK
<1>f. \A t \in Transfers : VerdictInvOf(t) /\ toS[t] \in Seq(Message) /\ toR[t] \in Seq(Message)
  BY <1>q DEF VerdictInv
<1>i. \A t \in Transfers : spc[t] = "idle" => rpc[t] = "idle"
  BY DEF SenderKnows
<1>e. ASSUME NEW s \in Sources, EditSource(s) PROVE VerdictInv'
  BY <1>e DEF EditSource, TypeOK
<1>1. ASSUME NEW t \in Transfers, Prepare(t) PROVE VerdictInv'
  <2>1. /\ spc'[t] = "handshake"
        /\ rpc'[t] = "hs1"
        /\ toR'[t] = Append(toR[t], Msg("Hs1"))
        /\ \A u \in Transfers : u # t => spc'[u] = spc[u] /\ rpc'[u] = rpc[u] /\ toR'[u] = toR[u] /\ man'[u] = man[u]
        /\ UNCHANGED <<toS, cur, skip, completed, loaded, rok, saved>>
    BY <1>1, <1>q DEF Prepare, SetSpc, SetRpc, SendToR, HandlerStarts, storeVars
  <2>4. rpc[t] = "idle" /\ spc[t] = "idle"
    BY <1>1, <1>i DEF Prepare
  <2>m. /\ Msg("Hs1") \in Message /\ Msg("Hs1").type \notin {"ResumeAt", "Complete"}
    BY MessageTypes, MessageKinds
  <2>2. HasKind(toR'[t], "Complete") => HasKind(toR[t], "Complete")
    BY <1>f, <2>1, <2>m, KindsFrom
  <2>9. VerdictInvOf(t)'
    BY <1>1, <1>f, <2>1, <2>2, <2>4 DEF Prepare, VerdictInvOf, Announced, Sending, AtChunk, Idx
  <2> QED BY <2>1, <2>9, VerdictElsewhere
<1>2. ASSUME NEW t \in Transfers, SendRequest(t) PROVE VerdictInv'
  <2>1. /\ spc'[t] = "negotiating"
        /\ toS'[t] = Tail(toS[t])
        /\ toR'[t] = toR[t] \o <<Msg("Hs3"), Msg("Request")>>
        /\ \A u \in Transfers : u # t => spc'[u] = spc[u] /\ toS'[u] = toS[u] /\ toR'[u] = toR[u]
        /\ UNCHANGED <<rpc, cur, skip, man, completed, loaded, rok, saved>>
    BY <1>2, <1>q DEF SendRequest, SetSpc, ConsumeS, receiverVars, storeVars
  <2>m. /\ Msg("Hs3") \in Message /\ Msg("Hs3").type \notin {"ResumeAt", "Complete"}
        /\ Msg("Request") \in Message /\ Msg("Request").type \notin {"ResumeAt", "Complete"}
    BY MessageTypes, MessageKinds
  <2>g. toS[t] # <<>>
    BY <1>2 DEF SendRequest, SenderGets
  <2>2. /\ HasKind(toS'[t], "ResumeAt") => HasKind(toS[t], "ResumeAt")
        /\ HasKind(toR'[t], "Complete") => HasKind(toR[t], "Complete")
    BY <1>f, <2>1, <2>m, KindsFrom, <2>g
  <2>3. \A i : WriterChunks(t, i)' = WriterChunks(t, i)
    BY <2>1 DEF WriterChunks
  <2>9. VerdictInvOf(t)'
    BY <1>2, <1>f, <2>1, <2>2, <2>3 DEF SendRequest, VerdictInvOf, Announced, Sending, AtChunk, Idx
  <2> QED BY <2>1, <2>9, VerdictElsewhere
<1>3. ASSUME NEW t \in Transfers, RecvAccept(t) PROVE VerdictInv'
  <2>1. /\ spc'[t] = "sending"
        /\ toS'[t] = Tail(toS[t])
        /\ skip'[t] = {}
        /\ cur'[t] = OpenFile(t, 1)
        /\ \A u \in Transfers : u # t => spc'[u] = spc[u] /\ toS'[u] = toS[u] /\ cur'[u] = cur[u] /\ skip'[u] = skip[u]
        /\ UNCHANGED <<rpc, toR, man, completed, loaded, rok, saved>>
    BY <1>3, <1>q DEF RecvAccept, SetSpc, ConsumeS, receiverVars, storeVars
  <2>g. toS[t] # <<>>
    BY <1>3 DEF RecvAccept, SenderGets
  <2>2. HasKind(toS'[t], "ResumeAt") => HasKind(toS[t], "ResumeAt")
    BY <1>f, <2>1, KindsFrom, <2>g
  <2>3. \A i : WriterChunks(t, i)' = WriterChunks(t, i)
    BY <2>1 DEF WriterChunks
  <2>9. VerdictInvOf(t)'
    BY <1>3, <1>f, <2>1, <2>2, <2>3 DEF RecvAccept, VerdictInvOf, Announced, Sending, AtChunk, Idx
  <2> QED BY <2>1, <2>9, VerdictElsewhere
<1>4. ASSUME NEW t \in Transfers, RecvResumeAt(t) PROVE VerdictInv'
  <2>1. toS[t] # <<>> /\ Head(toS[t]).type = "ResumeAt"
    BY <1>4 DEF RecvResumeAt, SenderGets
  <2> QED BY <1>f, <2>1, KindsFrom DEF VerdictInvOf
<1>5. ASSUME NEW t \in Transfers, RecvReject(t) PROVE VerdictInv'
  <2>1. /\ spc'[t] = "rejected"
        /\ toS'[t] = Tail(toS[t])
        /\ toR'[t] = Append(toR[t], Closing(Tail(toS[t])))
        /\ \A u \in Transfers : u # t => spc'[u] = spc[u] /\ toS'[u] = toS[u] /\ toR'[u] = toR[u]
        /\ UNCHANGED <<rpc, cur, skip, man, completed, loaded, rok, saved>>
    BY <1>5, <1>q DEF RecvReject, SetSpc, SendToR, ConsumeS, SenderStops, receiverVars, storeVars
  <2>m. /\ Closing(Tail(toS[t])) \in Message /\ Closing(Tail(toS[t])).type \notin {"ResumeAt", "Complete"}
    BY MessageTypes, MessageKinds
  <2>g. toS[t] # <<>>
    BY <1>5 DEF RecvReject, SenderGets
  <2>2. /\ HasKind(toS'[t], "ResumeAt") => HasKind(toS[t], "ResumeAt")
        /\ HasKind(toR'[t], "Complete") => HasKind(toR[t], "Complete")
    BY <1>f, <2>1, <2>m, KindsFrom, <2>g
  <2>3. \A i : WriterChunks(t, i)' = WriterChunks(t, i)
    BY <2>1 DEF WriterChunks
  <2>9. VerdictInvOf(t)'
    BY <1>5, <1>f, <2>1, <2>2, <2>3 DEF RecvReject, VerdictInvOf, Announced, Sending, AtChunk, Idx
  <2> QED BY <2>1, <2>9, VerdictElsewhere
<1>6. ASSUME NEW t \in Transfers, SkipChunk(t) PROVE VerdictInv'
  <2>1. /\ cur'[t] = NextChunk(t)
        /\ \A u \in Transfers : u # t => cur'[u] = cur[u]
        /\ UNCHANGED <<spc, rpc, toS, toR, skip, man, completed, loaded, rok, saved>>
    BY <1>6, <1>q DEF SkipChunk, receiverVars, storeVars
  <2>3. \A i : WriterChunks(t, i)' = WriterChunks(t, i)
    BY <2>1 DEF WriterChunks
  <2>9. VerdictInvOf(t)'
    BY <1>6, <1>f, <2>1, <2>3 DEF SkipChunk, VerdictInvOf, Announced, Sending, AtChunk, Idx
  <2> QED BY <2>1, <2>9, VerdictElsewhere
<1>7. ASSUME NEW t \in Transfers, SendChunk(t) PROVE VerdictInv'
  <2>1. /\ spc'[t] = "awaitAck" /\ toR'[t] = Append(toR[t], ChunkMsg(cur[t].file, cur[t].off, ReadSpan(t)))
        /\ \A u \in Transfers : u # t => spc'[u] = spc[u] /\ toR'[u] = toR[u]
        /\ UNCHANGED <<rpc, toS, cur, skip, man, completed, loaded, rok, saved>>
    BY <1>7, <1>q DEF SendChunk, SetSpc, SendToR, receiverVars, storeVars
  <2>m. /\ ChunkMsg(cur[t].file, cur[t].off, ReadSpan(t)) \in Message
        /\ ChunkMsg(cur[t].file, cur[t].off, ReadSpan(t)).type = "Chunk"
    <3>1. cur[t].file \in Idx(t) /\ cur[t].file \in FileIndex
      BY <1>7, FileIndexNat DEF SendChunk, AtChunk
    <3>2. cur[t].off \in Nat /\ ReadSpan(t) \in Span
      BY <1>q, <3>1, CursorTypes DEF Cursor
    <3> QED BY <3>1, <3>2, MessageTypes, MessageKinds
  <2>2. HasKind(toR'[t], "Complete") => HasKind(toR[t], "Complete")
    BY <1>f, <2>1, <2>m, KindsFrom
  <2>3. \A i : WriterChunks(t, i)' = WriterChunks(t, i)
    BY <2>1 DEF WriterChunks
  <2>9. VerdictInvOf(t)'
    BY <1>7, <1>f, <2>1, <2>2, <2>3 DEF SendChunk, VerdictInvOf, Announced, Sending, AtChunk, Idx
  <2> QED BY <2>1, <2>9, VerdictElsewhere
<1>8. ASSUME NEW t \in Transfers, ChunkTooLong(t) PROVE VerdictInv'
  <2>1. /\ spc'[t] = "failed" /\ toR'[t] = Append(toR[t], Closing(toS[t]))
        /\ \A u \in Transfers : u # t => spc'[u] = spc[u] /\ toR'[u] = toR[u]
        /\ UNCHANGED <<rpc, toS, cur, skip, man, completed, loaded, rok, saved>>
    BY <1>8, <1>q DEF ChunkTooLong, SetSpc, SendToR, receiverVars, storeVars
  <2>m. /\ Closing(toS[t]) \in Message /\ Closing(toS[t]).type \notin {"ResumeAt", "Complete"}
    BY MessageTypes, MessageKinds
  <2>2. HasKind(toR'[t], "Complete") => HasKind(toR[t], "Complete")
    BY <1>f, <2>1, <2>m, KindsFrom
  <2>3. \A i : WriterChunks(t, i)' = WriterChunks(t, i)
    BY <2>1 DEF WriterChunks
  <2>9. VerdictInvOf(t)'
    BY <1>8, <1>f, <2>1, <2>2, <2>3 DEF ChunkTooLong, VerdictInvOf, Announced, Sending, AtChunk, Idx
  <2> QED BY <2>1, <2>9, VerdictElsewhere
<1>9. ASSUME NEW t \in Transfers, RecvAck(t) PROVE VerdictInv'
  <2>1. /\ spc'[t] = "sending"
        /\ toS'[t] = Tail(toS[t])
        /\ cur'[t] = NextChunk(t)
        /\ \A u \in Transfers : u # t => spc'[u] = spc[u] /\ toS'[u] = toS[u] /\ cur'[u] = cur[u]
        /\ UNCHANGED <<rpc, toR, skip, man, completed, loaded, rok, saved>>
    BY <1>9, <1>q DEF RecvAck, SetSpc, ConsumeS, receiverVars, storeVars
  <2>g. toS[t] # <<>>
    BY <1>9 DEF RecvAck, SenderGets
  <2>2. HasKind(toS'[t], "ResumeAt") => HasKind(toS[t], "ResumeAt")
    BY <1>f, <2>1, KindsFrom, <2>g
  <2>3. \A i : WriterChunks(t, i)' = WriterChunks(t, i)
    BY <2>1 DEF WriterChunks
  <2>9. VerdictInvOf(t)'
    BY <1>9, <1>f, <2>1, <2>2, <2>3 DEF RecvAck, VerdictInvOf, Announced, Sending, AtChunk, Idx
  <2> QED BY <2>1, <2>9, VerdictElsewhere
<1>10. ASSUME NEW t \in Transfers, SendComplete(t) PROVE VerdictInv'
  <2>1. /\ spc'[t] = "verifying" /\ toR'[t] = Append(toR[t], Msg("Complete"))
        /\ \A u \in Transfers : u # t => spc'[u] = spc[u] /\ toR'[u] = toR[u]
        /\ UNCHANGED <<rpc, toS, cur, skip, man, completed, loaded, rok, saved>>
    BY <1>10, <1>q DEF SendComplete, SetSpc, SendToR, receiverVars, storeVars
  <2>4. \A i \in Idx(t) : i < cur[t].file
    <3>1. cur[t].file \in Nat /\ cur[t].file >= 1 /\ cur[t].file \notin Idx(t)
      BY <1>10, <1>q DEF SendComplete, AckInv, AckInvOf, Cursor
    <3>2. Idx(t) = 1 .. Len(FilesOf[t]) /\ Len(FilesOf[t]) \in Nat
      BY FileIndexNat, ConstantsAssumption DEF ConstantsAssumption
    <3> QED BY <3>1, <3>2
  <2>3. \A i : WriterChunks(t, i)' = WriterChunks(t, i)
    BY <2>1 DEF WriterChunks
  <2>9. VerdictInvOf(t)'
    BY <1>10, <1>f, <2>1, <2>3, <2>4 DEF SendComplete, VerdictInvOf, Announced, Sending, AtChunk,
         Idx
  <2> QED BY <2>1, <2>9, VerdictElsewhere
<1>11. ASSUME NEW t \in Transfers, RecvVerified(t) PROVE VerdictInv'
  <2>1. /\ spc'[t] = IF Head(toS[t]).ok THEN "completed" ELSE "failed"
        /\ toS'[t] = Tail(toS[t])
        /\ toR'[t] = Append(toR[t], Closing(Tail(toS[t])))
        /\ \A u \in Transfers : u # t => spc'[u] = spc[u] /\ toS'[u] = toS[u] /\ toR'[u] = toR[u]
        /\ UNCHANGED <<rpc, cur, skip, man, completed, loaded, rok, saved>>
    BY <1>11, <1>q DEF RecvVerified, SetSpc, SendToR, ConsumeS, SenderStops, receiverVars, storeVars
  <2>m. /\ Closing(Tail(toS[t])) \in Message /\ Closing(Tail(toS[t])).type \notin {"ResumeAt", "Complete"}
    BY MessageTypes, MessageKinds
  <2>g. toS[t] # <<>>
    BY <1>11 DEF RecvVerified, SenderGets
  <2>2. /\ HasKind(toS'[t], "ResumeAt") => HasKind(toS[t], "ResumeAt")
        /\ HasKind(toR'[t], "Complete") => HasKind(toR[t], "Complete")
    BY <1>f, <2>1, <2>m, KindsFrom, <2>g
  <2>3. \A i : WriterChunks(t, i)' = WriterChunks(t, i)
    BY <2>1 DEF WriterChunks
  <2>9. VerdictInvOf(t)'
    BY <1>11, <1>f, <2>1, <2>2, <2>3 DEF RecvVerified, VerdictInvOf, Announced, Sending, AtChunk,
         Idx
  <2> QED BY <2>1, <2>9, VerdictElsewhere
<1>12. ASSUME NEW t \in Transfers, SenderRecvFails(t) PROVE VerdictInv'
  <2>1. /\ spc'[t] = "failed"
        /\ toS'[t] = Tail(toS[t])
        /\ toR'[t] = Append(toR[t], Closing(Tail(toS[t])))
        /\ \A u \in Transfers : u # t => spc'[u] = spc[u] /\ toS'[u] = toS[u] /\ toR'[u] = toR[u]
        /\ UNCHANGED <<rpc, cur, skip, man, completed, loaded, rok, saved>>
    BY <1>12, <1>q DEF SenderRecvFails, SetSpc, SendToR, ConsumeS, SenderStops, receiverVars,
         storeVars
  <2>m. /\ Closing(Tail(toS[t])) \in Message /\ Closing(Tail(toS[t])).type \notin {"ResumeAt", "Complete"}
    BY MessageTypes, MessageKinds
  <2>g. toS[t] # <<>>
    BY <1>12 DEF SenderRecvFails
  <2>2. /\ HasKind(toS'[t], "ResumeAt") => HasKind(toS[t], "ResumeAt")
        /\ HasKind(toR'[t], "Complete") => HasKind(toR[t], "Complete")
    BY <1>f, <2>1, <2>m, KindsFrom, <2>g
  <2>3. \A i : WriterChunks(t, i)' = WriterChunks(t, i)
    BY <2>1 DEF WriterChunks
  <2>9. VerdictInvOf(t)'
    BY <1>12, <1>f, <2>1, <2>2, <2>3 DEF SenderRecvFails, VerdictInvOf, Announced, Sending,
         SenderWaiting, AtChunk, Idx
  <2> QED BY <2>1, <2>9, VerdictElsewhere
<1>13. ASSUME NEW t \in Transfers, RecvHs1(t) PROVE VerdictInv'
  <2>1. /\ rpc'[t] = "hs3"
        /\ toR'[t] = Tail(toR[t])
        /\ toS'[t] = Append(toS[t], Msg("Hs2"))
        /\ \A u \in Transfers : u # t => rpc'[u] = rpc[u] /\ toS'[u] = toS[u] /\ toR'[u] = toR[u]
        /\ UNCHANGED <<spc, cur, skip, man, completed, loaded, rok, saved>>
    BY <1>13, <1>q DEF RecvHs1, SetRpc, SendToS, ConsumeR, senderVars, storeVars
  <2>m. /\ Msg("Hs2") \in Message /\ Msg("Hs2").type \notin {"ResumeAt", "Complete"}
    BY MessageTypes, MessageKinds
  <2>g. toR[t] # <<>>
    BY <1>13 DEF RecvHs1, ReceiverGets
  <2>2. /\ HasKind(toS'[t], "ResumeAt") => HasKind(toS[t], "ResumeAt")
        /\ HasKind(toR'[t], "Complete") => HasKind(toR[t], "Complete")
    BY <1>f, <2>1, <2>m, KindsFrom, <2>g
  <2>3. \A i : WriterChunks(t, i)' = WriterChunks(t, i)
    BY <2>1 DEF WriterChunks
  <2>9. VerdictInvOf(t)'
    BY <1>13, <1>f, <2>1, <2>2, <2>3 DEF RecvHs1, VerdictInvOf, Announced, Sending, AtChunk, Idx
  <2> QED BY <2>1, <2>9, VerdictElsewhere
<1>14. ASSUME NEW t \in Transfers, RecvHs3(t) PROVE VerdictInv'
  <2>1. /\ rpc'[t] = "waitRequest" /\ toR'[t] = Tail(toR[t])
        /\ \A u \in Transfers : u # t => rpc'[u] = rpc[u] /\ toR'[u] = toR[u]
        /\ UNCHANGED <<spc, toS, cur, skip, man, completed, loaded, rok, saved>>
    BY <1>14, <1>q DEF RecvHs3, SetRpc, ConsumeR, senderVars, storeVars
  <2>g. toR[t] # <<>>
    BY <1>14 DEF RecvHs3, ReceiverGets
  <2>2. HasKind(toR'[t], "Complete") => HasKind(toR[t], "Complete")
    BY <1>f, <2>1, KindsFrom, <2>g
  <2>3. \A i : WriterChunks(t, i)' = WriterChunks(t, i)
    BY <2>1 DEF WriterChunks
  <2>9. VerdictInvOf(t)'
    BY <1>14, <1>f, <2>1, <2>2, <2>3 DEF RecvHs3, VerdictInvOf, Announced, Sending, AtChunk, Idx
  <2> QED BY <2>1, <2>9, VerdictElsewhere
<1>15. ASSUME NEW t \in Transfers, RecvRequest(t) PROVE VerdictInv'
  <2>4. load(IdOf[t]) = {}
    BY <1>15, <1>f DEF RecvRequest, VerdictInvOf, load
  <2>1. /\ rpc'[t] = "deciding"
        /\ toR'[t] = Tail(toR[t])
        /\ loaded'[t] = load(IdOf[t])
        /\ \A u \in Transfers : u # t => rpc'[u] = rpc[u] /\ toR'[u] = toR[u] /\ loaded'[u] = loaded[u]
        /\ UNCHANGED <<spc, toS, cur, skip, man, completed, rok, saved>>
    BY <1>15, <1>q DEF RecvRequest, SetRpc, ConsumeR, senderVars, storeVars
  <2>g. toR[t] # <<>>
    BY <1>15 DEF RecvRequest, ReceiverGets
  <2>2. HasKind(toR'[t], "Complete") => HasKind(toR[t], "Complete")
    BY <1>f, <2>1, KindsFrom, <2>g
  <2>3. \A i : WriterChunks(t, i)' = WriterChunks(t, i)
    BY <2>1 DEF WriterChunks
  <2>9. VerdictInvOf(t)'
    BY <1>15, <1>f, <2>1, <2>2, <2>3, <2>4 DEF RecvRequest, VerdictInvOf, Announced, Sending,
         AtChunk, Idx
  <2> QED BY <2>1, <2>9, VerdictElsewhere
<1>16. ASSUME NEW t \in Transfers, DecideReject(t) PROVE VerdictInv'
  <2>1. /\ rpc'[t] = "failed" /\ toS'[t] = toS[t] \o <<Msg("Reject"), Closing(toR[t])>>
        /\ \A u \in Transfers : u # t => rpc'[u] = rpc[u] /\ toS'[u] = toS[u]
        /\ UNCHANGED <<spc, toR, cur, skip, man, completed, loaded, rok, saved>>
    BY <1>16, <1>q DEF DecideReject, SetRpc, senderVars, storeVars
  <2>m. /\ Msg("Reject") \in Message /\ Msg("Reject").type \notin {"ResumeAt", "Complete"}
        /\ Closing(toR[t]) \in Message /\ Closing(toR[t]).type \notin {"ResumeAt", "Complete"}
    BY MessageTypes, MessageKinds
  <2>2. HasKind(toS'[t], "ResumeAt") => HasKind(toS[t], "ResumeAt")
    BY <1>f, <2>1, <2>m, KindsFrom
  <2>3. \A i : WriterChunks(t, i)' = WriterChunks(t, i)
    BY <2>1 DEF WriterChunks
  <2>9. VerdictInvOf(t)'
    BY <1>16, <1>f, <2>1, <2>2, <2>3 DEF DecideReject, VerdictInvOf, Announced, Sending, AtChunk,
         Idx
  <2> QED BY <2>1, <2>9, VerdictElsewhere
<1>17. ASSUME NEW t \in Transfers, DecideAccept(t) PROVE VerdictInv'
  <2>4. loaded[t] = {}
    BY <1>f DEF VerdictInvOf
  <2>1. /\ rpc'[t] = "creating" /\ toS'[t] = Append(toS[t], Msg("Accept"))
        /\ \A u \in Transfers : u # t => rpc'[u] = rpc[u] /\ toS'[u] = toS[u]
        /\ UNCHANGED <<spc, toR, cur, skip, man, completed, loaded, rok, saved>>
    BY <1>17, <1>q, <2>4 DEF DecideAccept, SetRpc, SendToS, senderVars, storeVars
  <2>m. /\ Msg("Accept") \in Message /\ Msg("Accept").type \notin {"ResumeAt", "Complete"}
    BY MessageTypes, MessageKinds
  <2>2. HasKind(toS'[t], "ResumeAt") => HasKind(toS[t], "ResumeAt")
    BY <1>f, <2>1, <2>m, KindsFrom
  <2>3. \A i : WriterChunks(t, i)' = WriterChunks(t, i)
    BY <2>1 DEF WriterChunks
  <2>9. VerdictInvOf(t)'
    BY <1>17, <1>f, <2>1, <2>2, <2>3, <2>4 DEF DecideAccept, VerdictInvOf, Announced, Sending,
         AtChunk, Idx
  <2> QED BY <2>1, <2>9, VerdictElsewhere
<1>18. ASSUME NEW t \in Transfers, CreateWriter(t) PROVE VerdictInv'
  <2>1. /\ completed'[t] = [completed[t] EXCEPT ![rfile[t]] = {}]
        /\ \A u \in Transfers : u # t => completed'[u] = completed[u]
        /\ UNCHANGED <<spc, rpc, toS, toR, cur, skip, man, loaded, rok, saved>>
    BY <1>18, <1>q DEF CreateWriter, senderVars
  <2>4. \A i \in Idx(t) : completed'[t][i] \subseteq 0 .. WriterChunks(t, i) - 1
    <3>1. /\ completed' = [completed EXCEPT ![t][rfile[t]] = {}]
          /\ rpc[t] = "creating" /\ rfile[t] \in Idx(t)
      BY <1>18 DEF CreateWriter
    <3>2. \A i \in Idx(t) : i \in FileIndex /\ completed[t][i] \subseteq 0 .. WriterChunks(t, i) - 1
      BY <1>f, <3>1, FileIndexNat DEF VerdictInvOf
    <3> QED BY <1>q, <3>1, <3>2
  <2>3. \A i : WriterChunks(t, i)' = WriterChunks(t, i)
    BY <2>1 DEF WriterChunks
  <2>9. VerdictInvOf(t)'
    BY <1>18, <1>f, <2>1, <2>3, <2>4 DEF CreateWriter, VerdictInvOf, Announced, Sending, AtChunk,
         Idx
  <2> QED BY <2>1, <2>9, VerdictElsewhere
<1>19. ASSUME NEW t \in Transfers, StartReceiving(t) PROVE VerdictInv'
  <2>1. /\ rpc'[t] = "receiving"
        /\ \A u \in Transfers : u # t => rpc'[u] = rpc[u]
        /\ UNCHANGED <<spc, toS, toR, cur, skip, man, completed, loaded, rok, saved>>
    BY <1>19, <1>q DEF StartReceiving, SetRpc, senderVars, storeVars
  <2>3. \A i : WriterChunks(t, i)' = WriterChunks(t, i)
    BY <2>1 DEF WriterChunks
  <2>9. VerdictInvOf(t)'
    BY <1>19, <1>f, <2>1, <2>3 DEF StartReceiving, VerdictInvOf, Announced, Sending, AtChunk, Idx
  <2> QED BY <2>1, <2>9, VerdictElsewhere
<1>20. ASSUME NEW t \in Transfers, RecvChunk(t) PROVE VerdictInv'
  <2>1. /\ toR'[t] = Tail(toR[t]) /\ toS'[t] = Append(toS[t], AckMsg(Head(toR[t]).file, Head(toR[t]).off))
        /\ \A u \in Transfers : u # t => toS'[u] = toS[u] /\ toR'[u] = toR[u] /\ completed'[u] = completed[u]
        /\ UNCHANGED <<spc, rpc, cur, skip, man, loaded, rok, saved>>
    BY <1>20, <1>q DEF RecvChunk, SendToS, ConsumeR, senderVars
  <2>4. \A i \in Idx(t) : completed'[t][i] \subseteq 0 .. WriterChunks(t, i) - 1
    <3>1. PICK f \in FileIndex, c \in Nat : f = Head(toR[t]).file /\ c = Head(toR[t]).off
      <4>1. toR[t] # <<>> /\ Head(toR[t]) \in Message /\ Head(toR[t]).type = "Chunk"
        BY <1>20, <1>q DEF RecvChunk, ReceiverGets
      <4> QED BY <4>1, Payloads
    <3>2. completed' = [completed EXCEPT ![t][f] = @ \cup {c}] /\ c < WriterChunks(t, f)
          /\ rpc[t] = "receiving"
      BY <1>20, <3>1 DEF RecvChunk, Writable
    <3>3. WriterChunks(t, f) \in Nat
      BY ManifestTypes
    <3>4. \A i \in Idx(t) : i \in FileIndex /\ completed[t][i] \subseteq 0 .. WriterChunks(t, i) - 1
      BY <1>f, <3>2, FileIndexNat DEF VerdictInvOf
    <3> QED BY <1>q, <3>2, <3>3, <3>4
  <2>m. /\ AckMsg(Head(toR[t]).file, Head(toR[t]).off) \in Message
        /\ AckMsg(Head(toR[t]).file, Head(toR[t]).off).type = "Ack"
    <3>1. toR[t] # <<>> /\ Head(toR[t]) \in Message /\ Head(toR[t]).type = "Chunk"
      BY <1>20, <1>q DEF RecvChunk, ReceiverGets
    <3> QED BY <3>1, Payloads, MessageTypes, MessageKinds
  <2>g. toR[t] # <<>>
    BY <1>20 DEF RecvChunk, ReceiverGets
  <2>2. /\ HasKind(toS'[t], "ResumeAt") => HasKind(toS[t], "ResumeAt")
        /\ HasKind(toR'[t], "Complete") => HasKind(toR[t], "Complete")
    BY <1>f, <2>1, <2>m, KindsFrom, <2>g
  <2>3. \A i : WriterChunks(t, i)' = WriterChunks(t, i)
    BY <2>1 DEF WriterChunks
  <2>9. VerdictInvOf(t)'
    BY <1>20, <1>f, <2>1, <2>2, <2>3, <2>4 DEF RecvChunk, VerdictInvOf, Announced, Sending,
         AtChunk, Idx
  <2> QED BY <2>1, <2>9, VerdictElsewhere
<1>21. ASSUME NEW t \in Transfers, RecvChunkFails(t) PROVE VerdictInv'
  <2>1. /\ rpc'[t] = "failed"
        /\ toR'[t] = Tail(toR[t])
        /\ toS'[t] = Append(toS[t], Closing(Tail(toR[t])))
        /\ \A u \in Transfers : u # t => rpc'[u] = rpc[u] /\ toS'[u] = toS[u] /\ toR'[u] = toR[u]
        /\ UNCHANGED <<spc, cur, skip, man, completed, loaded, rok, saved>>
    BY <1>21, <1>q DEF RecvChunkFails, SetRpc, SendToS, ConsumeR, ReceiverStops, senderVars,
         storeVars
  <2>m. /\ Closing(Tail(toR[t])) \in Message /\ Closing(Tail(toR[t])).type \notin {"ResumeAt", "Complete"}
    BY MessageTypes, MessageKinds
  <2>g. toR[t] # <<>>
    BY <1>21 DEF RecvChunkFails, ReceiverGets
  <2>2. /\ HasKind(toS'[t], "ResumeAt") => HasKind(toS[t], "ResumeAt")
        /\ HasKind(toR'[t], "Complete") => HasKind(toR[t], "Complete")
    BY <1>f, <2>1, <2>m, KindsFrom, <2>g
  <2>3. \A i : WriterChunks(t, i)' = WriterChunks(t, i)
    BY <2>1 DEF WriterChunks
  <2>9. VerdictInvOf(t)'
    BY <1>21, <1>f, <2>1, <2>2, <2>3 DEF RecvChunkFails, VerdictInvOf, Announced, Sending, AtChunk,
         Idx
  <2> QED BY <2>1, <2>9, VerdictElsewhere
<1>22. ASSUME NEW t \in Transfers, RecvComplete(t) PROVE VerdictInv'
  <2>1. /\ rpc'[t] = "finalizing"
        /\ toR'[t] = Tail(toR[t])
        /\ rok'[t] = TRUE
        /\ \A u \in Transfers : u # t => rpc'[u] = rpc[u] /\ toR'[u] = toR[u] /\ rok'[u] = rok[u]
        /\ UNCHANGED <<spc, toS, cur, skip, man, completed, loaded, saved>>
    BY <1>22, <1>q DEF RecvComplete, SetRpc, ConsumeR, senderVars, storeVars
  <2>4. HasKind(toR[t], "Complete")
    BY <1>22, <1>f, KindsFrom DEF RecvComplete, ReceiverGets
  <2>g. toR[t] # <<>>
    BY <1>22 DEF RecvComplete, ReceiverGets
  <2>2. HasKind(toR'[t], "Complete") => HasKind(toR[t], "Complete")
    BY <1>f, <2>1, KindsFrom, <2>g
  <2>3. \A i : WriterChunks(t, i)' = WriterChunks(t, i)
    BY <2>1 DEF WriterChunks
  <2>9. VerdictInvOf(t)'
    BY <1>22, <1>f, <2>1, <2>2, <2>3, <2>4 DEF RecvComplete, VerdictInvOf, Announced, Sending,
         AtChunk, Idx
  <2> QED BY <2>1, <2>9, VerdictElsewhere
<1>23. ASSUME NEW t \in Transfers, Finalize(t) PROVE VerdictInv'
  <2>4. is_complete(t, rfile[t])
    BY <1>23, <1>f, PassedMeansComplete DEF Finalize, AckInv
  <2>1. /\ UNCHANGED <<spc, rpc, toS, toR, cur, skip, man, completed, loaded, saved>>
        /\ rok' = rok
    BY <1>23, <1>q, <2>4 DEF Finalize, senderVars
  <2>3. \A i : WriterChunks(t, i)' = WriterChunks(t, i)
    BY <2>1 DEF WriterChunks
  <2>9. VerdictInvOf(t)'
    BY <1>23, <1>f, <2>1, <2>3, <2>4 DEF Finalize, VerdictInvOf, Announced, Sending, AtChunk, Idx
  <2> QED BY <2>1, <2>9, VerdictElsewhere
<1>24. ASSUME NEW t \in Transfers, FinalizeFails(t) PROVE VerdictInv'
  <2>1. /\ rpc'[t] = "failed" /\ toS'[t] = Append(toS[t], Closing(toR[t]))
        /\ \A u \in Transfers : u # t => rpc'[u] = rpc[u] /\ toS'[u] = toS[u]
        /\ UNCHANGED <<spc, toR, cur, skip, man, completed, loaded, rok, saved>>
    BY <1>24, <1>q DEF FinalizeFails, SetRpc, SendToS, senderVars, storeVars
  <2>m. /\ Closing(toR[t]) \in Message /\ Closing(toR[t]).type \notin {"ResumeAt", "Complete"}
    BY MessageTypes, MessageKinds
  <2>2. HasKind(toS'[t], "ResumeAt") => HasKind(toS[t], "ResumeAt")
    BY <1>f, <2>1, <2>m, KindsFrom
  <2>3. \A i : WriterChunks(t, i)' = WriterChunks(t, i)
    BY <2>1 DEF WriterChunks
  <2>9. VerdictInvOf(t)'
    BY <1>24, <1>f, <2>1, <2>2, <2>3 DEF FinalizeFails, VerdictInvOf, Announced, Sending, AtChunk,
         Idx
  <2> QED BY <2>1, <2>9, VerdictElsewhere
<1>25. ASSUME NEW t \in Transfers, SendVerified(t) PROVE VerdictInv'
  <2>4. rok[t]
    BY <1>25, <1>f DEF SendVerified, VerdictInvOf
  <2>1. /\ rpc'[t] = "removing" /\ toS'[t] = Append(toS[t], VerifiedMsg(rok[t]))
        /\ \A u \in Transfers : u # t => rpc'[u] = rpc[u] /\ toS'[u] = toS[u]
        /\ UNCHANGED <<spc, toR, cur, skip, man, completed, loaded, rok>>
        /\ saved' = saved
    BY <1>25, <1>q, <2>4 DEF SendVerified, SetRpc, SendToS, senderVars, storeVars
  <2>m. VerifiedMsg(rok[t]) \in Message /\ VerifiedMsg(rok[t]).type \notin {"ResumeAt", "Complete"}
    BY <1>q, MessageTypes, MessageKinds
  <2>2. HasKind(toS'[t], "ResumeAt") => HasKind(toS[t], "ResumeAt")
    BY <1>f, <2>1, <2>m, KindsFrom
  <2>3. \A i : WriterChunks(t, i)' = WriterChunks(t, i)
    BY <2>1 DEF WriterChunks
  <2>9. VerdictInvOf(t)'
    BY <1>25, <1>f, <2>1, <2>2, <2>3, <2>4 DEF SendVerified, VerdictInvOf, Announced, Sending, Idx
  <2> QED BY <2>1, <2>9, VerdictElsewhere
<1>33. ASSUME NEW t \in Transfers, RemoveResumeState(t) PROVE VerdictInv'
  <2>4. rok[t]
    BY <1>33, <1>f DEF RemoveResumeState, VerdictInvOf
  <2>1. /\ rpc'[t] = "closing" /\ toS'[t] = toS[t]
        /\ \A u \in Transfers : u # t => rpc'[u] = rpc[u] /\ toS'[u] = toS[u]
        /\ UNCHANGED <<spc, toR, cur, skip, man, completed, loaded, rok>>
        /\ saved' = saved \ {IdOf[t]}
    BY <1>33, <1>q, <2>4 DEF RemoveResumeState, SetRpc, remove, senderVars
  <2>2. HasKind(toS'[t], "ResumeAt") => HasKind(toS[t], "ResumeAt")
    BY <2>1
  <2>3. \A i : WriterChunks(t, i)' = WriterChunks(t, i)
    BY <2>1 DEF WriterChunks
  <2>9. VerdictInvOf(t)'
    BY <1>33, <1>f, <2>1, <2>2, <2>3, <2>4 DEF RemoveResumeState, VerdictInvOf, Announced, Sending, Idx
  <2> QED BY <2>1, <2>9, VerdictElsewhere
<1>34. ASSUME NEW t \in Transfers, EndReceiving(t) PROVE VerdictInv'
  <2>4. rok[t]
    BY <1>34, <1>f DEF EndReceiving, VerdictInvOf
  <2>1. /\ rpc'[t] = "completed" /\ toS'[t] = Append(toS[t], Msg("FIN"))
        /\ \A u \in Transfers : u # t => rpc'[u] = rpc[u] /\ toS'[u] = toS[u]
        /\ UNCHANGED <<spc, toR, cur, skip, man, completed, loaded, rok>>
        /\ saved' = saved
    BY <1>34, <1>q, <2>4 DEF EndReceiving, SetRpc, SendToS, senderVars, storeVars
  <2>m. Msg("FIN") \in Message /\ Msg("FIN").type \notin {"ResumeAt", "Complete"}
    BY <1>q, MessageTypes, MessageKinds
  <2>2. HasKind(toS'[t], "ResumeAt") => HasKind(toS[t], "ResumeAt")
    BY <1>f, <2>1, <2>m, KindsFrom
  <2>3. \A i : WriterChunks(t, i)' = WriterChunks(t, i)
    BY <2>1 DEF WriterChunks
  <2>9. VerdictInvOf(t)'
    BY <1>34, <1>f, <2>1, <2>2, <2>3, <2>4 DEF EndReceiving, VerdictInvOf, Announced, Sending, Idx
  <2> QED BY <2>1, <2>9, VerdictElsewhere
<1>26. ASSUME NEW t \in Transfers, RecvClosed(t) PROVE VerdictInv'
  <2>1. /\ rpc'[t] = "failed"
        /\ toR'[t] = Tail(toR[t])
        /\ toS'[t] = Append(toS[t], Closing(Tail(toR[t])))
        /\ \A u \in Transfers : u # t => rpc'[u] = rpc[u] /\ toS'[u] = toS[u] /\ toR'[u] = toR[u]
        /\ UNCHANGED <<spc, cur, skip, man, completed, loaded, rok>>
        /\ saved' = saved \cup {IdOf[t]}
    BY <1>26, <1>q DEF RecvClosed, SetRpc, SendToS, ConsumeR, ReceiverStops, save, senderVars
  <2>m. /\ Closing(Tail(toR[t])) \in Message /\ Closing(Tail(toR[t])).type \notin {"ResumeAt", "Complete"}
    BY MessageTypes, MessageKinds
  <2>g. toR[t] # <<>>
    BY <1>26 DEF RecvClosed, ReceiverGets
  <2>2. /\ HasKind(toS'[t], "ResumeAt") => HasKind(toS[t], "ResumeAt")
        /\ HasKind(toR'[t], "Complete") => HasKind(toR[t], "Complete")
    BY <1>f, <2>1, <2>m, KindsFrom, <2>g
  <2>3. \A i : WriterChunks(t, i)' = WriterChunks(t, i)
    BY <2>1 DEF WriterChunks
  <2>9. VerdictInvOf(t)'
    BY <1>26, <1>f, <2>1, <2>2, <2>3 DEF RecvClosed, VerdictInvOf, Announced, Sending, AtChunk, Idx
  <2> QED BY <2>1, <2>9, VerdictElsewhere
<1>27. ASSUME NEW t \in Transfers, ReceiverRecvFails(t) PROVE VerdictInv'
  <2>1. /\ rpc'[t] = "failed"
        /\ toR'[t] = Tail(toR[t])
        /\ toS'[t] = Append(toS[t], Closing(Tail(toR[t])))
        /\ \A u \in Transfers : u # t => rpc'[u] = rpc[u] /\ toS'[u] = toS[u] /\ toR'[u] = toR[u]
        /\ UNCHANGED <<spc, cur, skip, man, completed, loaded, rok, saved>>
    BY <1>27, <1>q DEF ReceiverRecvFails, SetRpc, SendToS, ConsumeR, ReceiverStops, senderVars,
         storeVars
  <2>m. /\ Closing(Tail(toR[t])) \in Message /\ Closing(Tail(toR[t])).type \notin {"ResumeAt", "Complete"}
    BY MessageTypes, MessageKinds
  <2>g. toR[t] # <<>>
    BY <1>27 DEF ReceiverRecvFails, ReceiverGets
  <2>2. /\ HasKind(toS'[t], "ResumeAt") => HasKind(toS[t], "ResumeAt")
        /\ HasKind(toR'[t], "Complete") => HasKind(toR[t], "Complete")
    BY <1>f, <2>1, <2>m, KindsFrom, <2>g
  <2>3. \A i : WriterChunks(t, i)' = WriterChunks(t, i)
    BY <2>1 DEF WriterChunks
  <2>9. VerdictInvOf(t)'
    BY <1>27, <1>f, <2>1, <2>2, <2>3 DEF ReceiverRecvFails, VerdictInvOf, Announced, Sending,
         ReceiverWaiting, AtChunk, Idx
  <2> QED BY <2>1, <2>9, VerdictElsewhere
<1>28. ASSUME NEW t \in Transfers, ConnectFails(t) PROVE VerdictInv'
  <2>1. /\ spc'[t] = "failed"
        /\ \A u \in Transfers : u # t => spc'[u] = spc[u]
        /\ UNCHANGED <<rpc, toS, toR, cur, skip, man, completed, loaded, rok, saved>>
    BY <1>28, <1>q DEF ConnectFails, SetSpc, Fault, receiverVars, storeVars
  <2>3. \A i : WriterChunks(t, i)' = WriterChunks(t, i)
    BY <2>1 DEF WriterChunks
  <2>9. VerdictInvOf(t)'
    BY <1>28, <1>f, <2>1, <2>3 DEF ConnectFails, VerdictInvOf, Announced, Sending, AtChunk, Idx
  <2> QED BY <2>1, <2>9, VerdictElsewhere
<1>29. ASSUME NEW t \in Transfers, SenderCrash(t) PROVE VerdictInv'
  <2>k. PICK kind \in {"FIN", "RST"} : toR' = [toR EXCEPT ![t] = Append(@, Msg(kind))]
    BY <1>29 DEF SenderCrash, SendToR
  <2>1. /\ spc'[t] = "failed" /\ toR'[t] = Append(toR[t], Msg(kind))
        /\ \A u \in Transfers : u # t => spc'[u] = spc[u] /\ toR'[u] = toR[u]
        /\ UNCHANGED <<rpc, toS, cur, skip, man, completed, loaded, rok, saved>>
    BY <1>29, <1>q, <2>k DEF SenderCrash, SetSpc, SendToR, Fault, receiverVars, storeVars
  <2>m. /\ Msg(kind) \in Message /\ Msg(kind).type \notin {"ResumeAt", "Complete"}
    BY MessageTypes, MessageKinds
  <2>2. HasKind(toR'[t], "Complete") => HasKind(toR[t], "Complete")
    BY <1>f, <2>1, <2>m, KindsFrom
  <2>3. \A i : WriterChunks(t, i)' = WriterChunks(t, i)
    BY <2>1 DEF WriterChunks
  <2>9. VerdictInvOf(t)'
    BY <1>29, <1>f, <2>1, <2>2, <2>3 DEF SenderCrash, VerdictInvOf, Announced, Sending,
         SenderWaiting, SenderActive, AtChunk, Idx
  <2> QED BY <2>1, <2>9, VerdictElsewhere
<1>30. ASSUME NEW t \in Transfers, ReceiverCrash(t) PROVE VerdictInv'
  <2>k. PICK kind \in {"FIN", "RST"} : toS' = [toS EXCEPT ![t] = Append(@, Msg(kind))]
    BY <1>30 DEF ReceiverCrash, SendToS
  <2>1. /\ rpc'[t] = "failed" /\ toS'[t] = Append(toS[t], Msg(kind))
        /\ \A u \in Transfers : u # t => rpc'[u] = rpc[u] /\ toS'[u] = toS[u]
        /\ UNCHANGED <<spc, toR, cur, skip, man, completed, loaded, rok, saved>>
    BY <1>30, <1>q, <2>k DEF ReceiverCrash, SetRpc, SendToS, Fault, senderVars, storeVars
  <2>m. /\ Msg(kind) \in Message /\ Msg(kind).type \notin {"ResumeAt", "Complete"}
    BY MessageTypes, MessageKinds
  <2>2. HasKind(toS'[t], "ResumeAt") => HasKind(toS[t], "ResumeAt")
    BY <1>f, <2>1, <2>m, KindsFrom
  <2>3. \A i : WriterChunks(t, i)' = WriterChunks(t, i)
    BY <2>1 DEF WriterChunks
  <2>9. VerdictInvOf(t)'
    BY <1>30, <1>f, <2>1, <2>2, <2>3 DEF ReceiverCrash, VerdictInvOf, Announced, Sending,
         ReceiverActive, ReceiverWaiting, AtChunk, Idx
  <2> QED BY <2>1, <2>9, VerdictElsewhere
<1>32. ASSUME NEW t \in Transfers, SaveTorn(t) PROVE VerdictInv'
  <2>1. /\ rpc'[t] = "failed"
        /\ toR'[t] = Tail(toR[t])
        /\ toS'[t] = Append(toS[t], Closing(Tail(toR[t])))
        /\ \A u \in Transfers : u # t => rpc'[u] = rpc[u] /\ toS'[u] = toS[u] /\ toR'[u] = toR[u]
        /\ UNCHANGED <<spc, cur, skip, man, completed, loaded, rok>>
        /\ saved' = saved \ {IdOf[t]}
    BY <1>32, <1>q DEF SaveTorn, SetRpc, SendToS, ConsumeR, ReceiverStops, Fault, remove, senderVars
  <2>m. /\ Closing(Tail(toR[t])) \in Message /\ Closing(Tail(toR[t])).type \notin {"ResumeAt", "Complete"}
    BY MessageTypes, MessageKinds
  <2>g. toR[t] # <<>>
    BY <1>32 DEF SaveTorn, ReceiverGets
  <2>2. /\ HasKind(toS'[t], "ResumeAt") => HasKind(toS[t], "ResumeAt")
        /\ HasKind(toR'[t], "Complete") => HasKind(toR[t], "Complete")
    BY <1>f, <2>1, <2>m, KindsFrom, <2>g
  <2>3. \A i : WriterChunks(t, i)' = WriterChunks(t, i)
    BY <2>1 DEF WriterChunks
  <2>9. VerdictInvOf(t)'
    BY <1>32, <1>f, <2>1, <2>2, <2>3 DEF SaveTorn, VerdictInvOf, Announced, Sending, AtChunk, Idx
  <2> QED BY <2>1, <2>9, VerdictElsewhere
<1>31. ASSUME NEW t \in Transfers, Disconnect(t) PROVE VerdictInv'
  <2>1. /\ toR'[t] = <<Msg("RST")>> /\ toS'[t] = <<Msg("RST")>>
        /\ \A u \in Transfers : u # t => toS'[u] = toS[u] /\ toR'[u] = toR[u]
        /\ UNCHANGED <<spc, rpc, cur, skip, man, completed, loaded, rok, saved>>
    BY <1>31, <1>q DEF Disconnect, Fault, senderVars, receiverVars, storeVars
  <2>m. /\ Msg("RST") \in Message /\ Msg("RST").type \notin {"ResumeAt", "Complete"}
    BY MessageTypes, MessageKinds
  <2>h. \A kind : HasKind(<<Msg("RST")>>, kind) <=> Msg("RST").type = kind
    BY <1>f, <2>m, KindsFrom
  <2>2. /\ ~HasKind(toS'[t], "ResumeAt")
        /\ ~HasKind(toR'[t], "Complete")
    BY <2>1, <2>h, <2>m
  <2>3. \A i : WriterChunks(t, i)' = WriterChunks(t, i)
    BY <2>1 DEF WriterChunks
  <2>9. VerdictInvOf(t)'
    BY <1>31, <1>f, <2>1, <2>2, <2>3 DEF Disconnect, VerdictInvOf, Announced, Sending, SenderWaiting, SenderActive, ReceiverActive, ReceiverWaiting, AtChunk, Idx
  <2> QED BY <2>1, <2>9, VerdictElsewhere
<1>u. CASE UNCHANGED vars
  <2>1. UNCHANGED <<spc, rpc, cur, skip, man, completed, toS, toR, loaded, rok, saved>>
    BY <1>u DEF vars
  <2>2. \A t \in Transfers : \A i : WriterChunks(t, i)' = WriterChunks(t, i)
    BY <2>1 DEF WriterChunks
  <2> QED BY <2>1, <2>2 DEF VerdictInv, VerdictInvOf, Announced, Idx
<1> QED BY <1>e, <1>1, <1>2, <1>3, <1>4, <1>5, <1>6, <1>7, <1>8, <1>9, <1>10, <1>11, <1>12, <1>13, <1>14, <1>15, <1>16, <1>17, <1>18, <1>19, <1>20, <1>21, <1>22, <1>23, <1>24, <1>25, <1>26, <1>27, <1>28, <1>29, <1>30, <1>31, <1>32, <1>33, <1>34, <1>u
     DEF Next, SenderStep, ReceiverStep, FaultStep

\* handle_incoming never ends with "some files incomplete", for any number of transfers,
\* files and faults, as long as no file is above the large-file threshold, every transfer
\* has an id of its own, and no source has been edited.
THEOREM NeverIncomplete == SmallSources /\ OwnIds /\ Spec => []NoIncompleteVerdict
<1> DEFINE Conditions == SmallSources /\ OwnIds
           Inv == TypeOK /\ ProtocolInv /\ (edits = 0 => SenderKnows /\ AckInv /\ VerdictInv)
<1>1. Init => Inv
  BY TypeInit, ProtocolInit, IntactInit, AckInit, VerdictInit DEF IntactInv
<1>2. Conditions /\ Inv /\ [Next]_vars => Inv'
  <2>1. Inv /\ [Next]_vars => TypeOK' /\ ProtocolInv'
    BY TypeStep, ProtocolStep
  <2>2. Conditions /\ Inv /\ [Next]_vars /\ edits' = 0 => SenderKnows' /\ AckInv' /\ VerdictInv'
    BY EditsStay, SenderKnowsStep, AckStep, VerdictStep
  <2> QED BY <2>1, <2>2
<1>3. Inv => NoIncompleteVerdict
  BY DEF VerdictInv, VerdictInvOf, NoIncompleteVerdict
<1>4. Conditions => []Conditions
  <2>1. Conditions => Conditions'
    BY DEF SmallSources, OwnIds
  <2> QED BY <2>1, PTL
<1> QED BY <1>1, <1>2, <1>3, <1>4, PTL DEF Spec

---------------------------------------------------------------------------
(* A recorded chunk is in the partial file, or the file was delivered *)

\* Two different sources have different partial files, and a transfer that is offered again
\* under its id has the same files.
SourcesApart ==
  \A t, u \in Transfers : \A i \in Idx(t), j \in Idx(u) :
    Path(t, i) = Path(u, j) => FilesOf[t][i] = FilesOf[u][j]

SameFiles == \A t, u \in Transfers : IdOf[t] = IdOf[u] => FilesOf[t] = FilesOf[u]

\* Source s has been renamed into the download directory.
Arrived(s) == \E d \in delivered : FilesOf[d.transfer][d.file] = s

\* The partial file of s holds the bytes of chunk o.
Holds(s, o) ==
  \A b \in ChunkBytes(InitSize[s], o, ChunkSize) :
    /\ b < Len(temp[TempPath[s]])
    /\ temp[TempPath[s]][b + 1] = [src |-> s, pos |-> b, ver |-> 0]

\* A writer's partial file has its final length.
Sized(s) == Len(temp[TempPath[s]]) = InitSize[s]

BackedInvOf(t) ==
  /\ rpc[t] = "idle" => \A i \in Idx(t) : man[t][i].size = 0
  /\ \A i \in Idx(t) : HasWriter(t, i) =>
       \/ Arrived(FilesOf[t][i])
       \/ Sized(FilesOf[t][i]) /\ \A o \in completed[t][i] : Holds(FilesOf[t][i], o)
  /\ IdOf[t] \in saved => \A i \in Idx(t) : \A o \in resume[IdOf[t]][i] :
       Arrived(FilesOf[t][i]) \/ Holds(FilesOf[t][i], o)

BackedInv == \A t \in Transfers : BackedInvOf(t)

\* A step leaves the partial file of s as good as it was, or the source has arrived.
Kept(s) ==
  \/ Arrived(s)'
  \/ (Sized(s) => Sized(s)') /\ \A o : Holds(s, o) => Holds(s, o)'

\* What a step has to leave alone, or to put right, for the invariant to stay.
LEMMA BackedKept ==
  ASSUME BackedInv,
         \A u \in Transfers : rpc'[u] = "idle" => rpc[u] = "idle" /\ man'[u] = man[u],
         delivered \subseteq delivered',
         \A u \in Transfers : \A i \in Idx(u) : Kept(FilesOf[u][i]),
         \A u \in Transfers : \A i \in Idx(u) : HasWriter(u, i)' =>
            \/ /\ HasWriter(u, i)
               /\ \A o \in completed'[u][i] : \/ o \in completed[u][i]
                                              \/ Arrived(FilesOf[u][i])'
                                              \/ Holds(FilesOf[u][i], o)'
            \/ Sized(FilesOf[u][i])' /\ completed'[u][i] = {},
         \A u \in Transfers : IdOf[u] \in saved' => \A i \in Idx(u) :
            \A o \in resume'[IdOf[u]][i] :
               \/ IdOf[u] \in saved /\ o \in resume[IdOf[u]][i]
               \/ Arrived(FilesOf[u][i])'
               \/ Holds(FilesOf[u][i], o)'
  PROVE  BackedInv'
<1> SUFFICES ASSUME NEW u \in Transfers PROVE BackedInvOf(u)'
  BY DEF BackedInv
<1>1. BackedInvOf(u)
  BY DEF BackedInv
<1>2. \A s : Arrived(s) => Arrived(s)'
  BY DEF Arrived
<1>3. rpc'[u] = "idle" => \A i \in Idx(u) : man'[u][i].size = 0
  BY <1>1 DEF BackedInvOf
<1>4. ASSUME NEW i \in Idx(u), HasWriter(u, i)'
      PROVE  \/ Arrived(FilesOf[u][i])'
             \/ Sized(FilesOf[u][i])' /\ \A o \in completed'[u][i] : Holds(FilesOf[u][i], o)'
  <2>1. CASE Sized(FilesOf[u][i])' /\ completed'[u][i] = {}
    BY <2>1
  <2>2. CASE /\ HasWriter(u, i)
             /\ \A o \in completed'[u][i] : \/ o \in completed[u][i]
                                            \/ Arrived(FilesOf[u][i])'
                                            \/ Holds(FilesOf[u][i], o)'
    <3>1. \/ Arrived(FilesOf[u][i])
          \/ Sized(FilesOf[u][i]) /\ \A o \in completed[u][i] : Holds(FilesOf[u][i], o)
      BY <1>1, <2>2 DEF BackedInvOf
    <3>2. Kept(FilesOf[u][i])
      OBVIOUS
    <3> QED BY <1>2, <2>2, <3>1, <3>2 DEF Kept
  <2> QED BY <1>4, <2>1, <2>2
<1>5. ASSUME IdOf[u] \in saved', NEW i \in Idx(u), NEW o \in resume'[IdOf[u]][i]
      PROVE  Arrived(FilesOf[u][i])' \/ Holds(FilesOf[u][i], o)'
  <2>1. CASE IdOf[u] \in saved /\ o \in resume[IdOf[u]][i]
    <3>1. Arrived(FilesOf[u][i]) \/ Holds(FilesOf[u][i], o)
      BY <1>1, <2>1 DEF BackedInvOf
    <3>2. Kept(FilesOf[u][i])
      OBVIOUS
    <3> QED BY <1>2, <3>1, <3>2 DEF Kept
  <2> QED BY <1>5, <2>1
<1> QED BY <1>3, <1>4, <1>5 DEF BackedInvOf, Idx

\* A step that touches no partial file and delivers nothing keeps every source.
LEMMA StoreStays ==
  ASSUME UNCHANGED <<temp, delivered>>
  PROVE  /\ \A s : Kept(s)
         /\ \A s, o : Holds(s, o)' <=> Holds(s, o)
         /\ \A s : Arrived(s)' <=> Arrived(s)
         /\ \A s : Sized(s)' <=> Sized(s)
BY DEF Kept, Arrived, Sized, Holds

\* A step of a transfer that writes nothing and opens no writer keeps the invariant.
LEMMA BackedMoves ==
  ASSUME TypeOK, BackedInv, NEW t \in Transfers, NEW r,
         r = rpc[t] \/ r \notin {"idle", "creating", "receiving", "finalizing"},
         rpc' = [rpc EXCEPT ![t] = r], saved' \subseteq saved,
         UNCHANGED <<rfile, completed, temp, delivered, resume, man>>
  PROVE  BackedInv'
<1>1. /\ rpc'[t] = r
      /\ \A u \in Transfers : u # t => rpc'[u] = rpc[u]
  BY DEF TypeOK
<1>2. \A u \in Transfers : rpc'[u] = "idle" => rpc[u] = "idle" /\ man'[u] = man[u]
  BY <1>1
<1>3. \A u \in Transfers : \A i \in Idx(u) : HasWriter(u, i)' =>
         HasWriter(u, i) /\ completed'[u][i] = completed[u][i]
  BY <1>1 DEF HasWriter
<1>4. \A u \in Transfers : \A i \in Idx(u) : Kept(FilesOf[u][i])
  BY StoreStays
<1>5. /\ delivered \subseteq delivered'
      /\ \A u \in Transfers : IdOf[u] \in saved' => IdOf[u] \in saved
      /\ resume' = resume
  OBVIOUS
<1> QED BY <1>2, <1>3, <1>4, <1>5, BackedKept

\* A partial file whose length set_len changes to that of its source keeps its chunks.
LEMMA SetLenKeeps ==
  ASSUME NEW s \in Sources, NEW bytes \in Seq(Cell), bytes = temp[TempPath[s]],
         temp'[TempPath[s]] = set_len(bytes, InitSize[s])
  PROVE  Sized(s)' /\ \A o : Holds(s, o) => Holds(s, o)'
<1> DEFINE n == InitSize[s]
           after == set_len(bytes, n)
<1>1. n \in Nat /\ Len(bytes) \in Nat
  BY ConstantsAssumption DEF ConstantsAssumption
<1>2. Len(after) = n /\ \A k \in 1 .. n : k <= Len(bytes) => after[k] = bytes[k]
  BY <1>1 DEF set_len
<1>3. ASSUME NEW o, Holds(s, o), NEW b \in ChunkBytes(n, o, ChunkSize)
      PROVE  b < Len(after) /\ after[b + 1] = [src |-> s, pos |-> b, ver |-> 0]
  <2>1. b \in 0 .. n - 1
    BY DEF ChunkBytes
  <2>2. b < Len(bytes) /\ bytes[b + 1] = [src |-> s, pos |-> b, ver |-> 0]
    BY <1>3 DEF Holds
  <2> HIDE DEF after, n
  <2>3. b + 1 \in 1 .. n /\ b + 1 <= Len(bytes) /\ b < n
    BY <1>1, <2>1, <2>2
  <2> QED BY <1>2, <2>2, <2>3
<1>4. temp'[TempPath[s]] = after
  OBVIOUS
<1> HIDE DEF after
<1>5. Sized(s)'
  BY <1>2, <1>4 DEF Sized
<1>6. ASSUME NEW o, Holds(s, o) PROVE Holds(s, o)'
  BY <1>3, <1>4, <1>6 DEF Holds
<1> QED BY <1>5, <1>6

\* A chunk written into a partial file of full length is in it, and no other is lost.
LEMMA WriteKeeps ==
  ASSUME NEW t \in Transfers, NEW i \in Idx(t), NEW o \in Nat,
         temp[Path(t, i)] \in Seq(Cell), Sized(FilesOf[t][i]),
         temp'[Path(t, i)] = write_at(temp[Path(t, i)], o * ChunkSize, RightSpan(t, i, o))
  PROVE  /\ Sized(FilesOf[t][i])'
         /\ Holds(FilesOf[t][i], o)'
         /\ \A c : Holds(FilesOf[t][i], c) => Holds(FilesOf[t][i], c)'
<1> DEFINE s == FilesOf[t][i]
           n == SourceSize(t, i)
           before == temp[Path(t, i)]
           after == write_at(before, o * ChunkSize, RightSpan(t, i, o))
<1>1. /\ n = InitSize[s] /\ before = temp[TempPath[s]] /\ temp'[TempPath[s]] = after
      /\ Len(before) = n /\ n \in Nat
  BY FileIndexNat, ConstantsAssumption DEF SourceSize, Path, Sized, ConstantsAssumption
<1>2. /\ Len(after) = n
      /\ \A b \in ChunkBytes(n, o, ChunkSize) : after[b + 1] = RightByte(t, i, b)
      /\ \A b \in 0 .. n - 1 : before[b + 1] = RightByte(t, i, b) => after[b + 1] = RightByte(t, i, b)
  BY <1>1, WritesRight
<1>3. \A c : \A b \in ChunkBytes(n, c, ChunkSize) : b \in 0 .. n - 1
  BY DEF ChunkBytes
<1>4. \A b : RightByte(t, i, b) = [src |-> s, pos |-> b, ver |-> 0]
  BY DEF RightByte
<1> HIDE DEF n, before, after
<1>5. \A b \in 0 .. n - 1 : b < n
  BY <1>1
<1>6. Sized(s)'
  BY <1>1, <1>2 DEF Sized
<1>7. Holds(s, o)'
  BY <1>1, <1>2, <1>3, <1>4, <1>5 DEF Holds
<1>8. ASSUME NEW c, Holds(s, c) PROVE Holds(s, c)'
  <2>1. \A b \in ChunkBytes(n, c, ChunkSize) : before[b + 1] = RightByte(t, i, b)
    BY <1>1, <1>4, <1>8 DEF Holds
  <2>2. \A b \in ChunkBytes(n, c, ChunkSize) : b < n /\ after[b + 1] = RightByte(t, i, b)
    BY <1>2, <1>3, <1>5, <2>1
  <2> QED BY <1>1, <1>2, <1>4, <2>2 DEF Holds
<1> QED BY <1>6, <1>7, <1>8

LEMMA BackedInit == Init => BackedInv
<1> SUFFICES ASSUME Init, NEW t \in Transfers PROVE BackedInvOf(t)
  BY DEF BackedInv
<1>1. rpc[t] = "idle" /\ saved = {} /\ \A i \in Idx(t) : man[t][i].size = 0
  BY FileIndexNat DEF Init
<1> QED BY <1>1 DEF BackedInvOf, HasWriter

\* Every step keeps it.
LEMMA BackedStep ==
  ASSUME TypeOK, AgreementInv, SenderKnows, ChunksInFlight, BackedInv,
         SourcesApart, SameFiles, edits' = 0, [Next]_vars
  PROVE  BackedInv'
<1>q. /\ rpc \in [Transfers -> ReceiverStates] /\ rfile \in [Transfers -> Nat]
      /\ completed \in [Transfers -> [FileIndex -> SUBSET Nat]]
      /\ temp \in [Paths -> Seq(Cell)] /\ saved \subseteq Ids
      /\ resume \in [Ids -> [FileIndex -> SUBSET Nat]]
      /\ man \in [Transfers -> [FileIndex -> Stat]]
  BY DEF TypeOK
<1>s. \A u \in Transfers : \A j \in Idx(u) :
         /\ FilesOf[u][j] \in Sources /\ j \in FileIndex /\ j \in Nat
         /\ Path(u, j) \in Paths /\ Path(u, j) = TempPath[FilesOf[u][j]]
         /\ FileIndex \subseteq Nat
  BY FileIndexNat DEF Path
<1>k. ASSUME NEW p \in Paths, NEW s \in Sources, TempPath[s] # p, UNCHANGED delivered,
             NEW bytes, temp' = [temp EXCEPT ![p] = bytes]
      PROVE  Kept(s)
  <2>1. temp'[TempPath[s]] = temp[TempPath[s]]
    BY <1>k, <1>q, ConstantsAssumption DEF ConstantsAssumption
  <2> QED BY <2>1 DEF Kept, Sized, Holds
<1>m. ASSUME NEW t \in Transfers, UNCHANGED <<rpc, rfile, completed, temp, delivered, saved, resume, man>>
      PROVE  BackedInv'
  <2>1. rpc' = [rpc EXCEPT ![t] = rpc[t]]
    BY <1>m, <1>q
  <2> QED BY <1>m, <2>1, BackedMoves
<1>1. ASSUME NEW t \in Transfers, Prepare(t) PROVE BackedInv'
  <2>1. /\ rpc' = [rpc EXCEPT ![t] = "hs1"]
        /\ \A u \in Transfers : u # t => man'[u] = man[u]
        /\ UNCHANGED <<rfile, completed, temp, delivered, saved, resume>>
    BY <1>1, <1>q DEF Prepare, HandlerStarts, SetRpc, storeVars
  <2>2. /\ rpc'[t] = "hs1"
        /\ \A u \in Transfers : u # t => rpc'[u] = rpc[u]
    BY <1>q, <2>1
  <2>3. \A u \in Transfers : \A i \in Idx(u) : HasWriter(u, i)' => HasWriter(u, i)
    BY <2>1, <2>2 DEF HasWriter
  <2>4. \A u \in Transfers : rpc'[u] = "idle" => rpc[u] = "idle" /\ man'[u] = man[u]
    BY <2>1, <2>2
  <2>5. \A u \in Transfers : \A i \in Idx(u) : Kept(FilesOf[u][i])
    BY <2>1, StoreStays
  <2> QED BY <2>1, <2>3, <2>4, <2>5, BackedKept
<1>2. ASSUME NEW t \in Transfers, SenderStep(t) PROVE BackedInv'
  <2>1. UNCHANGED <<rpc, rfile, completed, temp, delivered, saved, resume, man>>
    BY <1>2 DEF SenderStep, SendRequest, RecvAccept, RecvResumeAt, RecvReject, SkipChunk,
         SendChunk, ChunkTooLong, RecvAck, SendComplete, RecvVerified, SenderRecvFails,
         receiverVars, storeVars
  <2> QED BY <1>m, <2>1
<1>3. ASSUME NEW t \in Transfers, RecvHs1(t) PROVE BackedInv'
  <2>1. /\ rpc' = [rpc EXCEPT ![t] = "hs3"] /\ saved' \subseteq saved
        /\ UNCHANGED <<rfile, completed, temp, delivered, resume, man>>
    BY <1>3 DEF RecvHs1, SetRpc, senderVars, storeVars
  <2> QED BY <2>1, BackedMoves
<1>4. ASSUME NEW t \in Transfers, RecvHs3(t) PROVE BackedInv'
  <2>1. /\ rpc' = [rpc EXCEPT ![t] = "waitRequest"] /\ saved' \subseteq saved
        /\ UNCHANGED <<rfile, completed, temp, delivered, resume, man>>
    BY <1>4 DEF RecvHs3, SetRpc, senderVars, storeVars
  <2> QED BY <2>1, BackedMoves
<1>5. ASSUME NEW t \in Transfers, RecvRequest(t) PROVE BackedInv'
  <2>1. /\ rpc' = [rpc EXCEPT ![t] = "deciding"] /\ saved' \subseteq saved
        /\ UNCHANGED <<rfile, completed, temp, delivered, resume, man>>
    BY <1>5 DEF RecvRequest, SetRpc, senderVars, storeVars
  <2> QED BY <2>1, BackedMoves
<1>6. ASSUME NEW t \in Transfers, DecideReject(t) PROVE BackedInv'
  <2>1. /\ rpc' = [rpc EXCEPT ![t] = "failed"] /\ saved' \subseteq saved
        /\ UNCHANGED <<rfile, completed, temp, delivered, resume, man>>
    BY <1>6 DEF DecideReject, SetRpc, senderVars, storeVars
  <2> QED BY <2>1, BackedMoves
<1>7. ASSUME NEW t \in Transfers, RecvChunkFails(t) PROVE BackedInv'
  <2>1. /\ rpc' = [rpc EXCEPT ![t] = "failed"] /\ saved' \subseteq saved
        /\ UNCHANGED <<rfile, completed, temp, delivered, resume, man>>
    BY <1>7 DEF RecvChunkFails, ReceiverStops, SetRpc, senderVars, storeVars
  <2> QED BY <2>1, BackedMoves
<1>8. ASSUME NEW t \in Transfers, FinalizeFails(t) PROVE BackedInv'
  <2>1. /\ rpc' = [rpc EXCEPT ![t] = "failed"] /\ saved' \subseteq saved
        /\ UNCHANGED <<rfile, completed, temp, delivered, resume, man>>
    BY <1>8 DEF FinalizeFails, SetRpc, senderVars, storeVars
  <2> QED BY <2>1, BackedMoves
<1>9. ASSUME NEW t \in Transfers, ReceiverRecvFails(t) PROVE BackedInv'
  <2>1. /\ rpc' = [rpc EXCEPT ![t] = "failed"] /\ saved' \subseteq saved
        /\ UNCHANGED <<rfile, completed, temp, delivered, resume, man>>
    BY <1>9 DEF ReceiverRecvFails, ReceiverStops, SetRpc, senderVars, storeVars
  <2> QED BY <2>1, BackedMoves
<1>10. ASSUME NEW t \in Transfers, ReceiverCrash(t) PROVE BackedInv'
  <2>1. /\ rpc' = [rpc EXCEPT ![t] = "failed"] /\ saved' \subseteq saved
        /\ UNCHANGED <<rfile, completed, temp, delivered, resume, man>>
    BY <1>10 DEF ReceiverCrash, SetRpc, senderVars, storeVars
  <2> QED BY <2>1, BackedMoves
<1>11. ASSUME NEW t \in Transfers, SaveTorn(t) PROVE BackedInv'
  <2>1. /\ rpc' = [rpc EXCEPT ![t] = "failed"] /\ saved' \subseteq saved
        /\ UNCHANGED <<rfile, completed, temp, delivered, resume, man>>
    BY <1>11 DEF SaveTorn, ReceiverStops, remove, SetRpc, senderVars
  <2> QED BY <2>1, BackedMoves
<1>20. ASSUME NEW t \in Transfers, SendVerified(t) PROVE BackedInv'
  <2> DEFINE r == IF rok[t] THEN "removing" ELSE "closing"
  <2>1. /\ rpc' = [rpc EXCEPT ![t] = r] /\ saved' \subseteq saved
        /\ UNCHANGED <<rfile, completed, temp, delivered, resume, man>>
    BY <1>20 DEF SendVerified, SetRpc, senderVars, storeVars
  <2>2. r \notin {"idle", "creating", "receiving", "finalizing"}
    OBVIOUS
  <2> HIDE DEF r
  <2> QED BY <2>1, <2>2, BackedMoves
<1>31. ASSUME NEW t \in Transfers, RemoveResumeState(t) PROVE BackedInv'
  <2> DEFINE r == "closing"
  <2>1. /\ rpc' = [rpc EXCEPT ![t] = r] /\ saved' \subseteq saved
        /\ UNCHANGED <<rfile, completed, temp, delivered, resume, man>>
    BY <1>31 DEF RemoveResumeState, remove, SetRpc, senderVars
  <2>2. r \notin {"idle", "creating", "receiving", "finalizing"}
    OBVIOUS
  <2> HIDE DEF r
  <2> QED BY <2>1, <2>2, BackedMoves
<1>32. ASSUME NEW t \in Transfers, EndReceiving(t) PROVE BackedInv'
  <2> DEFINE r == IF rok[t] THEN "completed" ELSE "incomplete"
  <2>1. /\ rpc' = [rpc EXCEPT ![t] = r] /\ saved' \subseteq saved
        /\ UNCHANGED <<rfile, completed, temp, delivered, resume, man>>
    BY <1>32 DEF EndReceiving, SetRpc, senderVars, storeVars
  <2>2. r \notin {"idle", "creating", "receiving", "finalizing"}
    OBVIOUS
  <2> HIDE DEF r
  <2> QED BY <2>1, <2>2, BackedMoves
<1>21. ASSUME NEW t \in Transfers, ConnectFails(t) \/ SenderCrash(t) \/ Disconnect(t)
       PROVE  BackedInv'
  <2>1. UNCHANGED <<rpc, rfile, completed, temp, delivered, saved, resume, man>>
    BY <1>21 DEF ConnectFails, SenderCrash, Disconnect, senderVars, receiverVars, storeVars
  <2> QED BY <1>m, <2>1
<1>22. ASSUME NEW t \in Transfers, DecideAccept(t) PROVE BackedInv'
  <2>1. /\ rpc' = [rpc EXCEPT ![t] = "creating"] /\ rfile' = [rfile EXCEPT ![t] = 1]
        /\ UNCHANGED <<completed, temp, delivered, saved, resume, man>>
    BY <1>22 DEF DecideAccept, SetRpc, senderVars, storeVars
  <2>2. /\ rpc'[t] = "creating" /\ rfile'[t] = 1
        /\ \A u \in Transfers : u # t => rpc'[u] = rpc[u] /\ rfile'[u] = rfile[u]
    BY <1>q, <2>1
  <2>3. \A i \in Idx(t) : ~(i < 1)
    BY FileIndexNat
  <2>4. \A u \in Transfers : \A i \in Idx(u) : HasWriter(u, i)' => HasWriter(u, i)
    BY <2>2, <2>3 DEF HasWriter
  <2>5. \A u \in Transfers : rpc'[u] = "idle" => rpc[u] = "idle" /\ man'[u] = man[u]
    BY <2>1, <2>2
  <2>6. \A u \in Transfers : \A i \in Idx(u) : Kept(FilesOf[u][i])
    BY <2>1, StoreStays
  <2> QED BY <2>1, <2>4, <2>5, <2>6, BackedKept
<1>23. ASSUME NEW t \in Transfers, CreateWriter(t) PROVE BackedInv'
  <2>i. PICK i \in Idx(t) : i = rfile[t]
    BY <1>23 DEF CreateWriter
  <2> DEFINE p == Path(t, i)
             s == FilesOf[t][i]
  <2>1. /\ rpc[t] = "creating" /\ rpc' = rpc
        /\ temp' = [temp EXCEPT ![p] = set_len(@, man[t][i].size)]
        /\ completed' = [completed EXCEPT ![t][i] = {}]
        /\ rfile' = [rfile EXCEPT ![t] = i + 1]
        /\ UNCHANGED <<delivered, saved, resume, man>>
    BY <1>23, <2>i DEF CreateWriter, senderVars
  <2>2. man[t][i].size = InitSize[s]
    <3>1. man[t][i] = [size |-> InitSize[s], ver |-> 0]
      BY <2>1 DEF SenderKnows, SourceSize
    <3> HIDE DEF s
    <3> QED BY <3>1
  <2>3. temp'[TempPath[s]] = set_len(temp[TempPath[s]], InitSize[s]) /\ temp[TempPath[s]] \in Seq(Cell)
    BY <1>q, <1>s, <2>1, <2>2
  <2>4. Sized(s)' /\ \A o : Holds(s, o) => Holds(s, o)'
    BY <1>s, <2>3, SetLenKeeps
  <2>5. ASSUME NEW u \in Transfers, NEW j \in Idx(u) PROVE Kept(FilesOf[u][j])
    <3>1. CASE Path(u, j) = p
      BY <2>4, <3>1 DEF SourcesApart, Kept
    <3>2. CASE Path(u, j) # p
      BY <1>k, <1>s, <2>1, <3>2
    <3> QED BY <3>1, <3>2
  <2> HIDE DEF p, s
  <2>6. ASSUME NEW u \in Transfers, NEW j \in Idx(u), HasWriter(u, j)'
        PROVE  \/ HasWriter(u, j) /\ completed'[u][j] = completed[u][j]
               \/ Sized(FilesOf[u][j])' /\ completed'[u][j] = {}
    <3>1. CASE u = t /\ j = i
      <4>1. completed'[t][i] = {}
        BY <1>q, <1>s, <2>1
      <4> QED BY <2>4, <3>1, <4>1 DEF s
    <3>2. CASE u # t \/ j # i
      <4>1. completed'[u][j] = completed[u][j]
        BY <1>q, <1>s, <2>1, <3>2
      <4>2. HasWriter(u, j)
        BY <1>q, <1>s, <2>1, <2>6, <3>2, <2>i DEF HasWriter
      <4> QED BY <4>1, <4>2
    <3> QED BY <3>1, <3>2
  <2> QED BY <2>1, <2>5, <2>6, BackedKept
<1>24. ASSUME NEW t \in Transfers, StartReceiving(t) PROVE BackedInv'
  <2>1. /\ rpc[t] = "creating" /\ rpc' = [rpc EXCEPT ![t] = "receiving"] /\ rfile[t] \notin Idx(t)
        /\ UNCHANGED <<rfile, completed, temp, delivered, saved, resume, man>>
    BY <1>24 DEF StartReceiving, SetRpc, senderVars, storeVars
  <2>2. \A j \in Idx(t) : j < rfile[t]
    <3>1. Idx(t) = 1 .. Len(FilesOf[t]) /\ Len(FilesOf[t]) \in Nat
      BY FileIndexNat, ConstantsAssumption DEF ConstantsAssumption
    <3>2. rfile[t] \in Nat /\ rfile[t] >= 1
      BY <1>q DEF AgreementInv
    <3> QED BY <2>1, <3>1, <3>2
  <2>3. /\ rpc'[t] = "receiving"
        /\ \A u \in Transfers : u # t => rpc'[u] = rpc[u]
    BY <1>q, <2>1
  <2>4. \A u \in Transfers : \A j \in Idx(u) : HasWriter(u, j)' => HasWriter(u, j)
    BY <2>1, <2>2, <2>3 DEF HasWriter
  <2>5. \A u \in Transfers : rpc'[u] = "idle" => rpc[u] = "idle" /\ man'[u] = man[u]
    BY <2>1, <2>3
  <2>6. \A u \in Transfers : \A j \in Idx(u) : Kept(FilesOf[u][j])
    BY <2>1, StoreStays
  <2> QED BY <2>1, <2>4, <2>5, <2>6, BackedKept
<1>25. ASSUME NEW t \in Transfers, RecvChunk(t) PROVE BackedInv'
  <2>i. PICK i \in Idx(t), o \in Nat :
           /\ Head(toR[t]).file = i /\ Head(toR[t]).off = o
           /\ Head(toR[t]).span = RightSpan(t, i, o)
    BY <1>25, ArrivingChunk DEF RecvChunk
  <2> DEFINE p == Path(t, i)
             s == FilesOf[t][i]
             span == RightSpan(t, i, o)
             at == o * ChunkSize
  <2>1. /\ rpc[t] = "receiving" /\ UNCHANGED <<rpc, rfile, delivered, saved, resume, man>>
        /\ temp' = [temp EXCEPT ![p] = write_at(@, at, span)]
        /\ completed' = [completed EXCEPT ![t][i] = @ \cup {o}]
    BY <1>25, <2>i DEF RecvChunk, senderVars
  <2>2. temp'[p] = write_at(temp[p], at, span) /\ temp[p] \in Seq(Cell) /\ p \in Paths
    BY <1>q, <1>s, <2>1
  <2>3. /\ completed'[t][i] = completed[t][i] \cup {o}
        /\ \A u \in Transfers : \A j \in Idx(u) : u # t \/ j # i => completed'[u][j] = completed[u][j]
    BY <1>q, <1>s, <2>1
  <2>4. Arrived(s) => Arrived(s)'
    BY <2>1 DEF Arrived
  <2>5. ~Arrived(s) => Sized(s)
    <3>1. BackedInvOf(t) /\ HasWriter(t, i)
      BY <2>1 DEF BackedInv, HasWriter
    <3> QED BY <3>1 DEF BackedInvOf
  <2>6. Sized(s) => /\ Sized(s)' /\ Holds(s, o)'
                    /\ \A c : Holds(s, c) => Holds(s, c)'
    BY <2>2, WriteKeeps
  <2>7. Kept(s) /\ (Arrived(s)' \/ Holds(s, o)')
    BY <2>4, <2>5, <2>6 DEF Kept
  <2>8. ASSUME NEW u \in Transfers, NEW j \in Idx(u) PROVE Kept(FilesOf[u][j])
    <3>1. CASE Path(u, j) = p
      BY <2>7, <3>1 DEF SourcesApart
    <3>2. CASE Path(u, j) # p
      BY <1>k, <1>s, <2>1, <2>2, <3>2
    <3> QED BY <3>1, <3>2
  <2>9. \A u \in Transfers : \A j \in Idx(u) : \A c \in completed'[u][j] :
           \/ c \in completed[u][j] \/ Arrived(FilesOf[u][j])' \/ Holds(FilesOf[u][j], c)'
    BY <2>3, <2>7
  <2>10. \A u \in Transfers : \A j \in Idx(u) : HasWriter(u, j)' => HasWriter(u, j)
    BY <2>1 DEF HasWriter
  <2> HIDE DEF p, s, span, at
  <2> QED BY <2>1, <2>8, <2>9, <2>10, BackedKept
<1>26. ASSUME NEW t \in Transfers, RecvComplete(t) PROVE BackedInv'
  <2>1. /\ rpc[t] = "receiving" /\ rpc' = [rpc EXCEPT ![t] = "finalizing"]
        /\ rfile' = [rfile EXCEPT ![t] = 1]
        /\ UNCHANGED <<completed, temp, delivered, saved, resume, man>>
    BY <1>26 DEF RecvComplete, SetRpc, senderVars, storeVars
  <2>2. /\ rpc'[t] = "finalizing"
        /\ \A u \in Transfers : u # t => rpc'[u] = rpc[u] /\ rfile'[u] = rfile[u]
    BY <1>q, <2>1
  <2>3. \A u \in Transfers : \A j \in Idx(u) : HasWriter(u, j)' => HasWriter(u, j)
    BY <2>1, <2>2 DEF HasWriter
  <2>4. \A u \in Transfers : rpc'[u] = "idle" => rpc[u] = "idle" /\ man'[u] = man[u]
    BY <2>1, <2>2
  <2>5. \A u \in Transfers : \A j \in Idx(u) : Kept(FilesOf[u][j])
    BY <2>1, StoreStays
  <2> QED BY <2>1, <2>3, <2>4, <2>5, BackedKept
<1>27. ASSUME NEW t \in Transfers, Finalize(t) PROVE BackedInv'
  <2>i. PICK i \in Idx(t) : i = rfile[t]
    BY <1>27 DEF Finalize
  <2> DEFINE p == Path(t, i)
             s == FilesOf[t][i]
             d == [transfer |-> t, file |-> i, content |-> temp[p]]
  <2>1. /\ rpc[t] = "finalizing" /\ UNCHANGED <<rpc, completed, saved, resume, man>>
        /\ rfile' = [rfile EXCEPT ![t] = i + 1]
        /\ \/ UNCHANGED <<temp, delivered>>
           \/ temp' = [temp EXCEPT ![p] = <<>>] /\ delivered' = delivered \cup {d}
    BY <1>27, <2>i DEF Finalize, senderVars
  <2>2. \A u \in Transfers : \A j \in Idx(u) : HasWriter(u, j)' => HasWriter(u, j)
    BY <1>q, <2>1 DEF HasWriter
  <2>3. ASSUME NEW u \in Transfers, NEW j \in Idx(u) PROVE Kept(FilesOf[u][j])
    <3>1. CASE UNCHANGED <<temp, delivered>>
      BY <3>1, StoreStays
    <3>2. CASE temp' = [temp EXCEPT ![p] = <<>>] /\ delivered' = delivered \cup {d}
      <4>1. CASE Path(u, j) = p
        <5>1. FilesOf[u][j] = s
          BY <4>1 DEF SourcesApart
        <5>2. d \in delivered' /\ FilesOf[d.transfer][d.file] = s
          BY <3>2
        <5> QED BY <5>1, <5>2 DEF Kept, Arrived
      <4>2. CASE Path(u, j) # p
        <5>1. temp'[TempPath[FilesOf[u][j]]] = temp[TempPath[FilesOf[u][j]]]
          BY <1>q, <1>s, <3>2, <4>2
        <5> QED BY <5>1 DEF Kept, Sized, Holds
      <4> QED BY <4>1, <4>2
    <3> QED BY <2>1, <3>1, <3>2
  <2>4. delivered \subseteq delivered'
    BY <2>1
  <2> HIDE DEF p, s, d
  <2> QED BY <2>1, <2>2, <2>3, <2>4, BackedKept
<1>28. ASSUME NEW t \in Transfers, RecvClosed(t) PROVE BackedInv'
  <2> DEFINE id == IdOf[t]
  <2>1. /\ rpc[t] = "receiving" /\ rpc' = [rpc EXCEPT ![t] = "failed"]
        /\ saved' = saved \cup {id} /\ resume' = [resume EXCEPT ![id] = completed[t]]
        /\ UNCHANGED <<rfile, completed, temp, delivered, man>>
    BY <1>28 DEF RecvClosed, ReceiverStops, SetRpc, save, senderVars
  <2>2. id \in Ids
    BY ConstantsAssumption DEF ConstantsAssumption
  <2> HIDE DEF id
  <2>3. /\ rpc'[t] = "failed" /\ resume'[id] = completed[t]
        /\ \A u \in Transfers : u # t => rpc'[u] = rpc[u]
        /\ \A x \in Ids : x # id => resume'[x] = resume[x]
    BY <1>q, <2>1, <2>2
  <2>4. \A u \in Transfers : \A j \in Idx(u) : HasWriter(u, j)' => HasWriter(u, j)
    BY <2>1, <2>3 DEF HasWriter
  <2>5. \A u \in Transfers : rpc'[u] = "idle" => rpc[u] = "idle" /\ man'[u] = man[u]
    BY <2>1, <2>3
  <2>6. \A u \in Transfers : \A j \in Idx(u) : Kept(FilesOf[u][j])
    BY <2>1, StoreStays
  <2>7. ASSUME NEW u \in Transfers, IdOf[u] \in saved', NEW j \in Idx(u),
               NEW o \in resume'[IdOf[u]][j]
        PROVE  \/ IdOf[u] \in saved /\ o \in resume[IdOf[u]][j]
               \/ Arrived(FilesOf[u][j])'
               \/ Holds(FilesOf[u][j], o)'
    <3>1. CASE IdOf[u] = id
      <4>1. FilesOf[u] = FilesOf[t] /\ Idx(u) = Idx(t)
        BY <3>1 DEF SameFiles, Idx, id
      <4>2. o \in completed[t][j]
        BY <2>3, <3>1
      <4>3. Arrived(FilesOf[t][j]) \/ Holds(FilesOf[t][j], o)
        <5>1. BackedInvOf(t) /\ HasWriter(t, j)
          BY <2>1 DEF BackedInv, HasWriter
        <5> QED BY <4>1, <4>2, <5>1 DEF BackedInvOf
      <4> QED BY <2>1, <4>1, <4>3, StoreStays
    <3>2. CASE IdOf[u] # id
      <4>1. IdOf[u] \in Ids
        BY ConstantsAssumption DEF ConstantsAssumption
      <4> QED BY <2>1, <2>3, <2>7, <3>2, <4>1
    <3> QED BY <3>1, <3>2
  <2> QED BY <2>1, <2>4, <2>5, <2>6, <2>7, BackedKept
<1>29. ASSUME NEW s \in Sources, EditSource(s) PROVE FALSE
  <2>1. edits' = edits + 1 /\ edits \in Nat
    BY <1>29, ConstantsAssumption DEF EditSource, TypeOK, ConstantsAssumption
  <2> QED BY <2>1
<1>30. CASE UNCHANGED vars
  <2>1. UNCHANGED <<rpc, rfile, completed, temp, delivered, saved, resume, man>>
    BY <1>30 DEF vars
  <2>2. \A u \in Transfers : \A j \in Idx(u) : HasWriter(u, j)' => HasWriter(u, j)
    BY <2>1 DEF HasWriter
  <2>3. \A u \in Transfers : \A j \in Idx(u) : Kept(FilesOf[u][j])
    BY <2>1, StoreStays
  <2> QED BY <2>1, <2>2, <2>3, BackedKept
<1> QED BY <1>1, <1>2, <1>3, <1>4, <1>5, <1>6, <1>7, <1>8, <1>9, <1>10, <1>11, <1>20, <1>21, <1>22,
           <1>23, <1>24, <1>25, <1>26, <1>27, <1>28, <1>29, <1>30, <1>31, <1>32
     DEF Next, ReceiverStep, FaultStep

\* What the invariant says of a resume state is what its manifest promises.
LEMMA BackedImplies == TypeOK /\ SenderKnows /\ BackedInv => ResumeBackedByTemp
<1> SUFFICES ASSUME TypeOK, SenderKnows, BackedInv, NEW t \in Transfers, IdOf[t] \in saved,
                    NEW i \in Idx(t), NEW o \in resume[IdOf[t]][i], ~Arrived(FilesOf[t][i])
             PROVE  ChunkOnDisk(t, i, o)
  BY DEF ResumeBackedByTemp, Arrived
<1> DEFINE s == FilesOf[t][i]
           n == man[t][i].size
<1>1. BackedInvOf(t)
  BY DEF BackedInv
<1>2. Holds(s, o)
  BY <1>1 DEF BackedInvOf
<1>3. n \in Nat
  BY FileIndexNat, ManifestTypes
<1>4. SUFFICES ASSUME NEW b \in ChunkBytes(n, o, ChunkSize)
               PROVE  b < Len(temp[Path(t, i)]) /\ temp[Path(t, i)][b + 1] = Promised(t, i)[b + 1]
  BY DEF ChunkOnDisk
<1>5. b \in 0 .. n - 1
  BY DEF ChunkBytes
<1>6. rpc[t] # "idle"
  <2>1. n # 0
    <3> HIDE DEF n
    <3> QED BY <1>3, <1>5
  <2> QED BY <1>1, <2>1 DEF BackedInvOf
<1>7. man[t][i] = [size |-> InitSize[s], ver |-> 0]
  BY <1>6 DEF SenderKnows, SourceSize
<1> HIDE DEF s
<1>8. n = InitSize[s] /\ man[t][i].ver = 0
  BY <1>7
<1>9. b < Len(temp[Path(t, i)]) /\ temp[Path(t, i)][b + 1] = [src |-> s, pos |-> b, ver |-> 0]
  BY <1>2, <1>4, <1>8 DEF Holds, Path, s
<1>10. Promised(t, i)[b + 1] = [src |-> s, pos |-> b, ver |-> 0]
  <2>1. b + 1 \in 1 .. n /\ (b + 1) - 1 = b
    <3> HIDE DEF n
    <3> QED BY <1>3, <1>5
  <2> QED BY <1>8, <2>1 DEF Promised, s
<1> QED BY <1>9, <1>10

\* save_resume_state never promises a sender what is not there: whatever transfers share
\* a file, crash, are cut off or are offered again, a chunk that a saved state records is in
\* the partial file, or the file has been delivered.
THEOREM ResumeAlwaysBacked ==
  SmallSources /\ SourcesApart /\ SameFiles /\ Spec => [](edits = 0 => ResumeBackedByTemp)
<1> DEFINE Circumstances == SmallSources /\ SourcesApart /\ SameFiles
           Inv == /\ TypeOK /\ AgreementInv
                  /\ edits = 0 => SenderKnows /\ ChunksInFlight /\ BackedInv
<1>1. Init => Inv
  BY TypeInit, AgreementInit, IntactInit, BackedInit DEF IntactInv
<1>2. Circumstances /\ Inv /\ [Next]_vars => Inv'
  <2>1. Inv /\ [Next]_vars => TypeOK' /\ AgreementInv'
    BY TypeStep, AgreementStep
  <2>2. Circumstances /\ Inv /\ [Next]_vars /\ edits' = 0 =>
           SenderKnows' /\ ChunksInFlight' /\ BackedInv'
    BY EditsStay, SenderKnowsStep, ChunksInFlightStep, BackedStep
  <2> QED BY <2>1, <2>2
<1>3. Inv => (edits = 0 => ResumeBackedByTemp)
  BY BackedImplies
<1>4. Circumstances => []Circumstances
  <2>1. Circumstances => Circumstances'
    BY DEF SmallSources, SourcesApart, SameFiles, Path, Idx
  <2> QED BY <2>1, PTL
<1> QED BY <1>1, <1>2, <1>3, <1>4, PTL DEF Spec

---------------------------------------------------------------------------
(* The protocol implements the documented state machine at both ends *)

\* The progress of an end is a state of the machine.
LEMMA ProgressTypes ==
  /\ \A pc \in SenderStates : SenderProgress[pc] \in Machine!States
  /\ \A pc \in ReceiverStates : ReceiverProgress[pc] \in Machine!States
BY DEF SenderProgress, ReceiverProgress, Machine!States, Machine!Running, Machine!Terminal,
       SenderStates, SenderActive, SenderWaiting, ReceiverStates, ReceiverActive, ReceiverWaiting

LEMMA ProgressAt ==
  /\ \A t \in Transfers : /\ progress[<<"sender", t>>] = SenderProgress[spc[t]]
                          /\ progress[<<"receiver", t>>] = ReceiverProgress[rpc[t]]
  /\ progress = [e \in Ends |-> progress[e]]
BY DEF progress, Ends

\* A sender that moves along the machine, or stays where it is in its terms,
\* while the receivers stay.
LEMMA SenderProgresses ==
  ASSUME TypeOK, NEW t \in Transfers, NEW pc \in SenderStates,
         SetSpc(t, pc), rpc' = rpc,
         \/ <<SenderProgress[spc[t]], SenderProgress[pc]>> \in Machine!Valid
         \/ SenderProgress[spc[t]] = SenderProgress[pc]
  PROVE  Machine!TSNext \/ progress' = progress
<1> DEFINE e == <<"sender", t>>
           to == SenderProgress[pc]
<1>1. e \in Ends /\ to \in Machine!States /\ progress[e] = SenderProgress[spc[t]]
  BY ProgressTypes, ProgressAt DEF Ends
<1>2. progress' = [progress EXCEPT ![e] = to]
  <2>1. progress' = [d \in Ends |-> IF d[1] = "sender" THEN SenderProgress[spc'[d[2]]]
                                    ELSE ReceiverProgress[rpc'[d[2]]]]
    BY DEF progress
  <2>2. spc'[t] = pc /\ \A u \in Transfers \ {t} : spc'[u] = spc[u]
    BY DEF SetSpc, TypeOK
  <2>3. ASSUME NEW d \in Ends PROVE progress'[d] = IF d = e THEN to ELSE progress[d]
    <3>1. PICK u \in Transfers : d = <<"sender", u>> \/ d = <<"receiver", u>>
      BY DEF Ends
    <3> QED BY <2>1, <2>2, <3>1 DEF progress
  <2> QED BY <2>1, <2>3 DEF progress
<1>3. CASE <<progress[e], to>> \in Machine!Valid
  BY <1>1, <1>2, <1>3 DEF Machine!TSNext, Machine!transition
<1>4. CASE progress[e] = to
  BY <1>1, <1>2, <1>4, ProgressAt
<1> QED BY <1>1, <1>3, <1>4

\* The same for a receiver.
LEMMA ReceiverProgresses ==
  ASSUME TypeOK, NEW t \in Transfers, NEW pc \in ReceiverStates,
         SetRpc(t, pc), spc' = spc,
         \/ <<ReceiverProgress[rpc[t]], ReceiverProgress[pc]>> \in Machine!Valid
         \/ ReceiverProgress[rpc[t]] = ReceiverProgress[pc]
  PROVE  Machine!TSNext \/ progress' = progress
<1> DEFINE e == <<"receiver", t>>
           to == ReceiverProgress[pc]
<1>1. e \in Ends /\ to \in Machine!States /\ progress[e] = ReceiverProgress[rpc[t]]
  BY ProgressTypes, ProgressAt DEF Ends
<1>2. progress' = [progress EXCEPT ![e] = to]
  <2>1. progress' = [d \in Ends |-> IF d[1] = "sender" THEN SenderProgress[spc'[d[2]]]
                                    ELSE ReceiverProgress[rpc'[d[2]]]]
    BY DEF progress
  <2>2. rpc'[t] = pc /\ \A u \in Transfers \ {t} : rpc'[u] = rpc[u]
    BY DEF SetRpc, TypeOK
  <2>3. ASSUME NEW d \in Ends PROVE progress'[d] = IF d = e THEN to ELSE progress[d]
    <3>1. PICK u \in Transfers : d = <<"sender", u>> \/ d = <<"receiver", u>>
      BY DEF Ends
    <3> QED BY <2>1, <2>2, <3>1 DEF progress
  <2> QED BY <2>1, <2>3 DEF progress
<1>3. CASE <<progress[e], to>> \in Machine!Valid
  BY <1>1, <1>2, <1>3 DEF Machine!TSNext, Machine!transition
<1>4. CASE progress[e] = to
  BY <1>1, <1>2, <1>4, ProgressAt
<1> QED BY <1>1, <1>3, <1>4

\* An active end may fail at any point.
LEMMA MayFail ==
  /\ \A pc \in SenderActive \cup {"idle"} : <<SenderProgress[pc], "Failed">> \in Machine!Valid
  /\ \A pc \in ReceiverActive : <<ReceiverProgress[pc], "Failed">> \in Machine!Valid
  /\ SenderProgress["failed"] = "Failed" /\ ReceiverProgress["failed"] = "Failed"
  /\ "failed" \in SenderStates /\ "failed" \in ReceiverStates
BY DEF SenderProgress, ReceiverProgress, Machine!Valid, Machine!Running,
       SenderActive, SenderWaiting, ReceiverActive, ReceiverWaiting, SenderStates, ReceiverStates

---------------------------------------------------------------------------
\* Every step of a transfer is a step of the machine at one end, or none.
LEMMA ProgressStep ==
  ASSUME TypeOK, AgreementInv, [Next]_vars
  PROVE  Machine!TSNext \/ progress' = progress
<1>1. ASSUME NEW t \in Transfers, SendRequest(t) PROVE Machine!TSNext \/ progress' = progress
  <2>1. SetSpc(t, "negotiating") /\ rpc' = rpc /\ "negotiating" \in SenderStates
    BY <1>1 DEF SendRequest, receiverVars, SenderStates, SenderActive, SenderWaiting
  <2>2. \/ <<SenderProgress[spc[t]], SenderProgress["negotiating"]>> \in Machine!Valid
        \/ SenderProgress[spc[t]] = SenderProgress["negotiating"]
    BY <1>1 DEF SendRequest, SenderProgress, Machine!Valid, Machine!Running
  <2> QED BY <2>1, <2>2, SenderProgresses
<1>2. ASSUME NEW t \in Transfers, RecvAccept(t) PROVE Machine!TSNext \/ progress' = progress
  <2>1. SetSpc(t, "sending") /\ rpc' = rpc /\ "sending" \in SenderStates
    BY <1>2 DEF RecvAccept, receiverVars, SenderStates, SenderActive, SenderWaiting
  <2>2. \/ <<SenderProgress[spc[t]], SenderProgress["sending"]>> \in Machine!Valid
        \/ SenderProgress[spc[t]] = SenderProgress["sending"]
    BY <1>2 DEF RecvAccept, SenderProgress, Machine!Valid, Machine!Running
  <2> QED BY <2>1, <2>2, SenderProgresses
<1>3. ASSUME NEW t \in Transfers, RecvResumeAt(t) PROVE Machine!TSNext \/ progress' = progress
  <2>1. SetSpc(t, "sending") /\ rpc' = rpc /\ "sending" \in SenderStates
    BY <1>3 DEF RecvResumeAt, receiverVars, SenderStates, SenderActive, SenderWaiting
  <2>2. \/ <<SenderProgress[spc[t]], SenderProgress["sending"]>> \in Machine!Valid
        \/ SenderProgress[spc[t]] = SenderProgress["sending"]
    BY <1>3 DEF RecvResumeAt, SenderProgress, Machine!Valid, Machine!Running
  <2> QED BY <2>1, <2>2, SenderProgresses
<1>4. ASSUME NEW t \in Transfers, RecvReject(t) PROVE Machine!TSNext \/ progress' = progress
  <2>1. SetSpc(t, "rejected") /\ rpc' = rpc /\ "rejected" \in SenderStates
    BY <1>4 DEF RecvReject, SenderStops, receiverVars, SenderStates, SenderActive, SenderWaiting
  <2>2. \/ <<SenderProgress[spc[t]], SenderProgress["rejected"]>> \in Machine!Valid
        \/ SenderProgress[spc[t]] = SenderProgress["rejected"]
    BY <1>4 DEF RecvReject, SenderProgress, Machine!Valid, Machine!Running
  <2> QED BY <2>1, <2>2, SenderProgresses
<1>5. ASSUME NEW t \in Transfers, SkipChunk(t) PROVE Machine!TSNext \/ progress' = progress
  BY <1>5 DEF SkipChunk, progress, senderVars, receiverVars
<1>6. ASSUME NEW t \in Transfers, SendChunk(t) PROVE Machine!TSNext \/ progress' = progress
  <2>1. SetSpc(t, "awaitAck") /\ rpc' = rpc /\ "awaitAck" \in SenderStates
    BY <1>6 DEF SendChunk, AtChunk, receiverVars, SenderStates, SenderActive, SenderWaiting
  <2>2. \/ <<SenderProgress[spc[t]], SenderProgress["awaitAck"]>> \in Machine!Valid
        \/ SenderProgress[spc[t]] = SenderProgress["awaitAck"]
    BY <1>6 DEF SendChunk, AtChunk, SenderProgress, Machine!Valid, Machine!Running
  <2> QED BY <2>1, <2>2, SenderProgresses
<1>7. ASSUME NEW t \in Transfers, ChunkTooLong(t) PROVE Machine!TSNext \/ progress' = progress
  <2>1. SetSpc(t, "failed") /\ rpc' = rpc /\ spc[t] \in SenderActive \cup {"idle"}
    BY <1>7 DEF ChunkTooLong, AtChunk, receiverVars, SenderActive, SenderWaiting
  <2> QED BY <2>1, MayFail, SenderProgresses
<1>8. ASSUME NEW t \in Transfers, RecvAck(t) PROVE Machine!TSNext \/ progress' = progress
  <2>1. SetSpc(t, "sending") /\ rpc' = rpc /\ "sending" \in SenderStates
    BY <1>8 DEF RecvAck, receiverVars, SenderStates, SenderActive, SenderWaiting
  <2>2. \/ <<SenderProgress[spc[t]], SenderProgress["sending"]>> \in Machine!Valid
        \/ SenderProgress[spc[t]] = SenderProgress["sending"]
    BY <1>8 DEF RecvAck, SenderProgress, Machine!Valid, Machine!Running
  <2> QED BY <2>1, <2>2, SenderProgresses
<1>9. ASSUME NEW t \in Transfers, SendComplete(t) PROVE Machine!TSNext \/ progress' = progress
  <2>1. SetSpc(t, "verifying") /\ rpc' = rpc /\ "verifying" \in SenderStates
    BY <1>9 DEF SendComplete, receiverVars, SenderStates, SenderActive, SenderWaiting
  <2>2. \/ <<SenderProgress[spc[t]], SenderProgress["verifying"]>> \in Machine!Valid
        \/ SenderProgress[spc[t]] = SenderProgress["verifying"]
    BY <1>9 DEF SendComplete, SenderProgress, Machine!Valid, Machine!Running
  <2> QED BY <2>1, <2>2, SenderProgresses
<1>10. ASSUME NEW t \in Transfers, RecvVerified(t) PROVE Machine!TSNext \/ progress' = progress
  <2> DEFINE pc == IF Head(toS[t]).ok THEN "completed" ELSE "failed"
  <2>1. SetSpc(t, pc) /\ rpc' = rpc /\ pc \in SenderStates
    BY <1>10 DEF RecvVerified, SenderStops, receiverVars, SenderStates
  <2>2. <<SenderProgress[spc[t]], SenderProgress[pc]>> \in Machine!Valid
    BY <1>10 DEF RecvVerified, SenderProgress, Machine!Valid, Machine!Running
  <2> QED BY <2>1, <2>2, SenderProgresses
<1>11. ASSUME NEW t \in Transfers, SenderRecvFails(t) PROVE Machine!TSNext \/ progress' = progress
  <2>1. SetSpc(t, "failed") /\ rpc' = rpc /\ spc[t] \in SenderActive \cup {"idle"}
    BY <1>11 DEF SenderRecvFails, SenderStops, receiverVars, SenderActive, SenderWaiting
  <2> QED BY <2>1, MayFail, SenderProgresses
<1>12. ASSUME NEW t \in Transfers, ConnectFails(t) PROVE Machine!TSNext \/ progress' = progress
  <2>1. SetSpc(t, "failed") /\ rpc' = rpc /\ spc[t] \in SenderActive \cup {"idle"}
    BY <1>12 DEF ConnectFails, receiverVars, SenderActive, SenderWaiting
  <2> QED BY <2>1, MayFail, SenderProgresses
<1>13. ASSUME NEW t \in Transfers, SenderCrash(t) PROVE Machine!TSNext \/ progress' = progress
  <2>1. SetSpc(t, "failed") /\ rpc' = rpc /\ spc[t] \in SenderActive \cup {"idle"}
    BY <1>13 DEF SenderCrash, receiverVars, SenderActive, SenderWaiting
  <2> QED BY <2>1, MayFail, SenderProgresses
<1>14. ASSUME NEW t \in Transfers, RecvHs1(t) PROVE Machine!TSNext \/ progress' = progress
  <2>1. SetRpc(t, "hs3") /\ spc' = spc /\ "hs3" \in ReceiverStates
    BY <1>14 DEF RecvHs1, senderVars, ReceiverStates, ReceiverActive, ReceiverWaiting
  <2>2. \/ <<ReceiverProgress[rpc[t]], ReceiverProgress["hs3"]>> \in Machine!Valid
        \/ ReceiverProgress[rpc[t]] = ReceiverProgress["hs3"]
    BY <1>14 DEF RecvHs1, ReceiverProgress, Machine!Valid, Machine!Running
  <2> QED BY <2>1, <2>2, ReceiverProgresses
<1>15. ASSUME NEW t \in Transfers, RecvHs3(t) PROVE Machine!TSNext \/ progress' = progress
  <2>1. SetRpc(t, "waitRequest") /\ spc' = spc /\ "waitRequest" \in ReceiverStates
    BY <1>15 DEF RecvHs3, senderVars, ReceiverStates, ReceiverActive, ReceiverWaiting
  <2>2. \/ <<ReceiverProgress[rpc[t]], ReceiverProgress["waitRequest"]>> \in Machine!Valid
        \/ ReceiverProgress[rpc[t]] = ReceiverProgress["waitRequest"]
    BY <1>15 DEF RecvHs3, ReceiverProgress, Machine!Valid, Machine!Running
  <2> QED BY <2>1, <2>2, ReceiverProgresses
<1>16. ASSUME NEW t \in Transfers, RecvRequest(t) PROVE Machine!TSNext \/ progress' = progress
  <2>1. SetRpc(t, "deciding") /\ spc' = spc /\ "deciding" \in ReceiverStates
    BY <1>16 DEF RecvRequest, senderVars, ReceiverStates, ReceiverActive, ReceiverWaiting
  <2>2. \/ <<ReceiverProgress[rpc[t]], ReceiverProgress["deciding"]>> \in Machine!Valid
        \/ ReceiverProgress[rpc[t]] = ReceiverProgress["deciding"]
    BY <1>16 DEF RecvRequest, ReceiverProgress, Machine!Valid, Machine!Running
  <2> QED BY <2>1, <2>2, ReceiverProgresses
<1>17. ASSUME NEW t \in Transfers, DecideReject(t) PROVE Machine!TSNext \/ progress' = progress
  <2>1. SetRpc(t, "failed") /\ spc' = spc /\ rpc[t] \in ReceiverActive
    BY <1>17 DEF DecideReject, senderVars, ReceiverActive, ReceiverWaiting
  <2> QED BY <2>1, MayFail, ReceiverProgresses
<1>18. ASSUME NEW t \in Transfers, DecideAccept(t) PROVE Machine!TSNext \/ progress' = progress
  <2>1. SetRpc(t, "creating") /\ spc' = spc /\ "creating" \in ReceiverStates
    BY <1>18 DEF DecideAccept, senderVars, ReceiverStates, ReceiverActive, ReceiverWaiting
  <2>2. \/ <<ReceiverProgress[rpc[t]], ReceiverProgress["creating"]>> \in Machine!Valid
        \/ ReceiverProgress[rpc[t]] = ReceiverProgress["creating"]
    BY <1>18 DEF DecideAccept, ReceiverProgress, Machine!Valid, Machine!Running
  <2> QED BY <2>1, <2>2, ReceiverProgresses
<1>19. ASSUME NEW t \in Transfers, CreateWriter(t) PROVE Machine!TSNext \/ progress' = progress
  BY <1>19 DEF CreateWriter, progress, senderVars, receiverVars
<1>20. ASSUME NEW t \in Transfers, StartReceiving(t) PROVE Machine!TSNext \/ progress' = progress
  <2>1. SetRpc(t, "receiving") /\ spc' = spc /\ "receiving" \in ReceiverStates
    BY <1>20 DEF StartReceiving, senderVars, ReceiverStates, ReceiverActive, ReceiverWaiting
  <2>2. \/ <<ReceiverProgress[rpc[t]], ReceiverProgress["receiving"]>> \in Machine!Valid
        \/ ReceiverProgress[rpc[t]] = ReceiverProgress["receiving"]
    BY <1>20 DEF StartReceiving, ReceiverProgress, Machine!Valid, Machine!Running
  <2> QED BY <2>1, <2>2, ReceiverProgresses
<1>21. ASSUME NEW t \in Transfers, RecvChunk(t) PROVE Machine!TSNext \/ progress' = progress
  BY <1>21 DEF RecvChunk, progress, senderVars, receiverVars
<1>22. ASSUME NEW t \in Transfers, RecvChunkFails(t) PROVE Machine!TSNext \/ progress' = progress
  <2>1. SetRpc(t, "failed") /\ spc' = spc /\ rpc[t] \in ReceiverActive
    BY <1>22 DEF RecvChunkFails, ReceiverStops, senderVars, ReceiverActive, ReceiverWaiting
  <2> QED BY <2>1, MayFail, ReceiverProgresses
<1>23. ASSUME NEW t \in Transfers, RecvComplete(t) PROVE Machine!TSNext \/ progress' = progress
  <2>1. SetRpc(t, "finalizing") /\ spc' = spc /\ "finalizing" \in ReceiverStates
    BY <1>23 DEF RecvComplete, senderVars, ReceiverStates, ReceiverActive, ReceiverWaiting
  <2>2. \/ <<ReceiverProgress[rpc[t]], ReceiverProgress["finalizing"]>> \in Machine!Valid
        \/ ReceiverProgress[rpc[t]] = ReceiverProgress["finalizing"]
    BY <1>23 DEF RecvComplete, ReceiverProgress, Machine!Valid, Machine!Running
  <2> QED BY <2>1, <2>2, ReceiverProgresses
<1>24. ASSUME NEW t \in Transfers, Finalize(t) PROVE Machine!TSNext \/ progress' = progress
  BY <1>24 DEF Finalize, progress, senderVars, receiverVars
<1>25. ASSUME NEW t \in Transfers, FinalizeFails(t) PROVE Machine!TSNext \/ progress' = progress
  <2>1. SetRpc(t, "failed") /\ spc' = spc /\ rpc[t] \in ReceiverActive
    BY <1>25 DEF FinalizeFails, senderVars, ReceiverActive, ReceiverWaiting
  <2> QED BY <2>1, MayFail, ReceiverProgresses
<1>26. ASSUME NEW t \in Transfers, SendVerified(t) PROVE Machine!TSNext \/ progress' = progress
  <2> DEFINE pc == IF rok[t] THEN "removing" ELSE "closing"
  <2>1. SetRpc(t, pc) /\ spc' = spc /\ pc \in ReceiverStates
    BY <1>26 DEF SendVerified, senderVars, ReceiverStates, ReceiverActive
  <2>2. ReceiverProgress[rpc[t]] = ReceiverProgress[pc]
    BY <1>26 DEF SendVerified, ReceiverProgress
  <2> QED BY <2>1, <2>2, ReceiverProgresses
<1>35. ASSUME NEW t \in Transfers, RemoveResumeState(t) PROVE Machine!TSNext \/ progress' = progress
  <2>1. SetRpc(t, "closing") /\ spc' = spc /\ "closing" \in ReceiverStates
    BY <1>35 DEF RemoveResumeState, senderVars, ReceiverStates, ReceiverActive
  <2>2. ReceiverProgress[rpc[t]] = ReceiverProgress["closing"]
    BY <1>35 DEF RemoveResumeState, ReceiverProgress
  <2> QED BY <2>1, <2>2, ReceiverProgresses
<1>36. ASSUME NEW t \in Transfers, EndReceiving(t) PROVE Machine!TSNext \/ progress' = progress
  <2> DEFINE pc == IF rok[t] THEN "completed" ELSE "incomplete"
  <2>1. SetRpc(t, pc) /\ spc' = spc /\ pc \in ReceiverStates
    BY <1>36 DEF EndReceiving, senderVars, ReceiverStates
  <2>2. <<ReceiverProgress[rpc[t]], ReceiverProgress[pc]>> \in Machine!Valid
    BY <1>36 DEF EndReceiving, ReceiverProgress, Machine!Valid, Machine!Running
  <2> QED BY <2>1, <2>2, ReceiverProgresses
<1>27. ASSUME NEW t \in Transfers, RecvClosed(t) PROVE Machine!TSNext \/ progress' = progress
  <2>1. SetRpc(t, "failed") /\ spc' = spc /\ rpc[t] \in ReceiverActive
    BY <1>27 DEF RecvClosed, ReceiverStops, senderVars, ReceiverActive, ReceiverWaiting
  <2> QED BY <2>1, MayFail, ReceiverProgresses
<1>28. ASSUME NEW t \in Transfers, ReceiverRecvFails(t) PROVE Machine!TSNext \/ progress' = progress
  <2>1. SetRpc(t, "failed") /\ spc' = spc /\ rpc[t] \in ReceiverActive
    BY <1>28 DEF ReceiverRecvFails, ReceiverStops, senderVars, ReceiverActive, ReceiverWaiting
  <2> QED BY <2>1, MayFail, ReceiverProgresses
<1>29. ASSUME NEW t \in Transfers, ReceiverCrash(t) PROVE Machine!TSNext \/ progress' = progress
  <2>1. SetRpc(t, "failed") /\ spc' = spc /\ rpc[t] \in ReceiverActive
    BY <1>29 DEF ReceiverCrash, senderVars, ReceiverActive, ReceiverWaiting
  <2> QED BY <2>1, MayFail, ReceiverProgresses
<1>34. ASSUME NEW t \in Transfers, SaveTorn(t) PROVE Machine!TSNext \/ progress' = progress
  <2>1. SetRpc(t, "failed") /\ spc' = spc /\ rpc[t] \in ReceiverActive
    BY <1>34 DEF SaveTorn, ReceiverStops, senderVars, ReceiverActive, ReceiverWaiting
  <2> QED BY <2>1, MayFail, ReceiverProgresses
<1>30. ASSUME NEW t \in Transfers, Prepare(t) PROVE Machine!TSNext \/ progress' = progress
  <2>1. spc' = [spc EXCEPT ![t] = "handshake"] /\ rpc' = [rpc EXCEPT ![t] = "hs1"] /\ spc[t] = "idle"
    BY <1>30 DEF Prepare, HandlerStarts, SetSpc, SetRpc
  <2>2. rpc[t] = "idle"
    BY <2>1 DEF AgreementInv
  <2> QED BY <2>1, <2>2 DEF progress, SenderProgress, ReceiverProgress, Ends, TypeOK
<1>31. ASSUME NEW t \in Transfers, Disconnect(t) PROVE Machine!TSNext \/ progress' = progress
  BY <1>31 DEF Disconnect, progress, senderVars, receiverVars
<1>32. ASSUME NEW s \in Sources, EditSource(s) PROVE Machine!TSNext \/ progress' = progress
  BY <1>32 DEF EditSource, progress, senderVars, receiverVars
<1>33. CASE UNCHANGED vars
  BY <1>33 DEF vars, senderVars, receiverVars, progress
<1> QED BY <1>1, <1>2, <1>3, <1>4, <1>5, <1>6, <1>7, <1>8, <1>9, <1>10, <1>11, <1>12, <1>13, <1>14, <1>15, <1>16, <1>17, <1>18, <1>19, <1>20, <1>21, <1>22, <1>23, <1>24, <1>25, <1>26, <1>27, <1>28, <1>29, <1>30, <1>31, <1>32, <1>33, <1>34, <1>35, <1>36
     DEF Next, SenderStep, ReceiverStep, FaultStep

\* Both ends of every transfer move along the documented state machine, for any
\* number of transfers, files, faults and edits.
THEOREM ProtocolFollowsMachine == Spec => FollowsStateMachine
<1>1. Init => Machine!TSInit /\ AgreementInv
  BY AgreementInit DEF Init, Machine!TSInit, progress, SenderProgress, ReceiverProgress, Ends
<1>2. TypeOK /\ AgreementInv /\ [Next]_vars => AgreementInv' /\ [Machine!TSNext]_progress
  BY AgreementStep, ProgressStep
<1> QED BY <1>1, <1>2, TypeCorrect, PTL DEF Spec, FollowsStateMachine, Machine!TSSpec
===========================================================================
