----------------------------- MODULE Transfer -----------------------------
(***************************************************************************)
(* The file transfer protocol of justdrop-protocol/src/transfer.rs, with   *)
(* the storage it drives (justdrop-storage: FileChunker, ChunkWriter,      *)
(* ResumeManager).                                                         *)
(*                                                                         *)
(* A transfer t is one call of SendTransfer::send_files together with the  *)
(* TCP connection it opens and the RecvTransfer::handle_incoming task that *)
(* serves this connection.  Any number of transfers run concurrently; they *)
(* meet only in the receiver's file system.  A retry is one more transfer  *)
(* of the same sources.                                                    *)
(*                                                                         *)
(* Every action is one stretch of code between two points where the task   *)
(* waits for a message or lets another task touch the file system.  The    *)
(* system calls inside write_chunk and inside finalize are one step here;  *)
(* FileStore takes them apart.                                             *)
(* A byte of a source file is the record [src, pos, ver]: the byte at      *)
(* position pos of version ver of the file src.                            *)
(***************************************************************************)
EXTENDS Chunking, FiniteSets

CONSTANTS
  Transfers,       \* calls of send_files
  Sources,         \* files on the sending devices
  FilesOf,         \* FilesOf[t]: the file_paths argument, a sequence of sources
  InitSize,        \* InitSize[s]: the size of source s before any edit
  Ids,             \* transfer ids (Uuid::new_v4 in TransferManifest::new)
  IdOf,            \* IdOf[t]: the id in the manifest of t
  Paths,           \* names of *.justdrop_partial files
  TempPath,        \* TempPath[s]: dest.with_extension("justdrop_partial")
  ChunkSize,       \* config.transfer.chunk_size
  LargeThreshold,  \* LARGE_FILE_THRESHOLD
  MaxChunkSize,    \* the 4 MiB cap of effective_chunk_size
  NoiseMax,        \* longest chunk the Noise transport encrypts (snow: 65535)
  Blank,           \* a byte of no source: zero fill or an old leftover
  Answers,         \* fates of the decision channel that may be met
  StaleLen,        \* length of a partial file left by an earlier program run
  EditSizes,       \* sizes an edit may give a source
  MaxEdits,        \* bound on edits of the sources
  MaxFaults        \* bound on the transfers that crash or lose their connection

FileIndex == UNION {DOMAIN FilesOf[t] : t \in Transfers}
Idx(t) == DOMAIN FilesOf[t]

ASSUME ConstantsAssumption ==
  /\ FilesOf \in [Transfers -> Seq(Sources)]
  /\ InitSize \in [Sources -> Nat]
  /\ IdOf \in [Transfers -> Ids]
  /\ TempPath \in [Sources -> Paths]
  /\ ChunkSize \in Nat \ {0}
  /\ LargeThreshold \in Nat /\ LargeThreshold < UsizeValues
  /\ MaxChunkSize \in Nat \ {0}
  /\ NoiseMax \in Nat
  /\ Answers \subseteq {"accept", "ask", "drop"}
  /\ StaleLen \in Nat
  /\ EditSizes \subseteq Nat
  /\ MaxEdits \in Nat
  /\ MaxFaults \in Nat

VARIABLES
  disk,       \* disk[s]: the source file now (sending device)
  spc,        \* spc[t]: where send_files stands
  man,        \* man[t][i]: the manifest entry of file i, as stat'ed and hashed
  cur,        \* cur[t]: file, chunk offset and length seen by FileChunker::open
  skip,       \* skip[t]: global numbers of the chunks not to send
  rpc,        \* rpc[t]: where handle_incoming stands
  rfile,      \* rfile[t]: index of the file being created or finalized
  rok,        \* rok[t]: all_ok of the verification loop
  loaded,     \* loaded[t]: the resume state read before the decision
  completed,  \* completed[t][i]: completed_chunks of the writer of file i
  toR, toS,   \* toR[t], toS[t]: the two directions of the connection
  partials,   \* partial files that exist (receiving device)
  temp,       \* temp[p]: content of partial file p
  delivered,  \* files renamed into the download directory
  saved,      \* ids whose resume state file exists
  resume,     \* resume[id][i]: completed chunks recorded for file i
  faulty,     \* transfers that met a fault (history)
  edits,      \* edits of the sources so far
  answer      \* answer[t]: "accept" when the program that listens accepts whatever comes,
              \* "ask" when it passes a user's decision on, "drop" when it drops its end of
              \* the decision channel (the daemon without auto_accept_all)

vars == <<disk, spc, man, cur, skip, rpc, rfile, rok, loaded, completed, toR, toS,
          partials, temp, delivered, saved, resume, faulty, edits, answer>>

senderVars == <<spc, man, cur, skip>>
receiverVars == <<rpc, rfile, rok, loaded, completed>>
storeVars == <<partials, temp, delivered, saved, resume>>
environment == <<disk, faulty, edits, answer>>

---------------------------------------------------------------------------
(* Data *)

Stat == [size : Nat, ver : Nat]
SourceByte == [src : Sources, pos : Nat, ver : Nat]
Cell == SourceByte \cup {Blank}
Span == [src : Sources, lo : Nat, len : Nat, ver : Nat]
Cursor == [file : Nat, off : Nat, len : Nat]

Msg(kind) == [type |-> kind]
ResumeAtMsg(bitmap) == [type |-> "ResumeAt", bitmap |-> bitmap]
ChunkMsg(i, o, span) == [type |-> "Chunk", file |-> i, off |-> o, span |-> span]
AckMsg(i, o) == [type |-> "Ack", file |-> i, off |-> o]
VerifiedMsg(ok) == [type |-> "Verified", ok |-> ok]

Message ==
  [type : {"Hs1", "Hs2", "Hs3", "Request", "Accept", "Reject", "Complete", "FIN", "RST"}]
    \cup [type : {"ResumeAt"}, bitmap : Seq(Byte)]
    \cup [type : {"Chunk"}, file : FileIndex, off : Nat, span : Span]
    \cup [type : {"Ack"}, file : FileIndex, off : Nat]
    \cup [type : {"Verified"}, ok : BOOLEAN]

\* ChunkWriter::new pre-allocates: a shorter file is zero-filled, what an
\* existing partial file held stays.
set_len(bytes, n) ==
  [k \in 1 .. n |-> IF k <= Len(bytes) THEN bytes[k] ELSE Blank]

\* seek + write_all of a span at byte offset at.
write_at(bytes, at, span) ==
  IF span.len = 0 THEN bytes
  ELSE [k \in 1 .. (IF Len(bytes) < at + span.len THEN at + span.len ELSE Len(bytes)) |->
          IF at < k /\ k <= at + span.len
            THEN [src |-> span.src, pos |-> span.lo + (k - 1 - at), ver |-> span.ver]
          ELSE IF k <= Len(bytes) THEN bytes[k] ELSE Blank]

---------------------------------------------------------------------------
(* What each end computes from the manifest *)

Path(t, i) == TempPath[FilesOf[t][i]]

EffectiveSize(t, i) ==
  effective_chunk_size(man[t][i].size, ChunkSize, LargeThreshold, MaxChunkSize)

\* chunk_count of the FileChunker the sender has open.
SenderChunks(t) == chunk_count(cur[t].len, EffectiveSize(t, cur[t].file))

\* total_chunks of the receiver's ChunkWriter for file i.
WriterChunks(t, i) == chunk_count(man[t][i].size, ChunkSize)

ManifestCounts(t) == [i \in Idx(t) |-> WriterChunks(t, i)]

GlobalOffset(t, i, o) == global_chunk_offset(ManifestCounts(t), i, o)

\* FileChunker::open on file i; past the last file nothing is opened.
OpenFile(t, i) ==
  [file |-> i, off |-> 0,
   len |-> IF i \in Idx(t) THEN disk[FilesOf[t][i]].size ELSE 0]

\* Mutant: the chunk loop steps over every other chunk.
NextChunk_stride(t) ==
  IF cur[t].off + 2 < SenderChunks(t)
    THEN [cur[t] EXCEPT !.off = @ + 2]
    ELSE OpenFile(t, cur[t].file + 1)

NextChunk(t) ==
  IF cur[t].off + 1 < SenderChunks(t)
    THEN [cur[t] EXCEPT !.off = @ + 1]
    ELSE OpenFile(t, cur[t].file + 1)

\* Mutant: read_chunk forgets to seek.
ReadSpan_no_seek(t) ==
  LET s    == FilesOf[t][cur[t].file]
      size == EffectiveSize(t, cur[t].file)
  IN  [src |-> s, lo |-> 0, ver |-> disk[s].ver,
       len |-> read_size(cur[t].len, cur[t].off, size)]

\* FileChunker::read_chunk: the length planned at open, cut short when the
\* file has shrunk since.
ReadSpan(t) ==
  LET s    == FilesOf[t][cur[t].file]
      size == EffectiveSize(t, cur[t].file)
      plan == read_size(cur[t].len, cur[t].off, size)
  IN  [src |-> s, lo |-> cur[t].off * size, ver |-> disk[s].ver,
       len |-> Smaller(plan, remaining(disk[s].size, cur[t].off, size))]

is_complete(t, i) == Cardinality(completed[t][i]) = WriterChunks(t, i)

---------------------------------------------------------------------------
(* The connection *)

SenderExpects(pc) ==
  CASE pc = "handshake"   -> {"Hs2"}
    [] pc = "negotiating" -> {"Accept", "ResumeAt", "Reject"}
    [] pc = "awaitAck"    -> {"Ack"}
    [] pc = "verifying"   -> {"Verified"}
    [] OTHER              -> {}

ReceiverExpects(pc) ==
  CASE pc = "hs1"         -> {"Hs1"}
    [] pc = "hs3"         -> {"Hs3"}
    [] pc = "waitRequest" -> {"Request"}
    [] pc = "receiving"   -> {"Chunk", "Complete"}
    [] OTHER              -> {}

SenderWaiting == {"handshake", "negotiating", "awaitAck", "verifying"}
SenderActive == SenderWaiting \cup {"sending"}
ReceiverWaiting == {"hs1", "hs3", "waitRequest", "receiving"}
ReceiverActive == ReceiverWaiting \cup {"deciding", "creating", "finalizing", "removing", "closing"}
SenderStates == SenderActive \cup {"idle", "completed", "rejected", "failed"}
ReceiverStates == ReceiverActive \cup {"idle", "completed", "incomplete", "failed"}

SenderGets(t, kind) == toS[t] # <<>> /\ Head(toS[t]).type = kind
ReceiverGets(t, kind) == toR[t] # <<>> /\ Head(toR[t]).type = kind

\* Dropping a socket closes it; with unread data the peer sees a reset.
Closing(unread) ==
  IF \E k \in DOMAIN unread : unread[k].type \notin {"FIN", "RST"}
    THEN Msg("RST") ELSE Msg("FIN")

SetSpc(t, pc) == spc' = [spc EXCEPT ![t] = pc]
SetRpc(t, pc) == rpc' = [rpc EXCEPT ![t] = pc]
SendToR(t, m) == toR' = [toR EXCEPT ![t] = Append(@, m)]
SendToS(t, m) == toS' = [toS EXCEPT ![t] = Append(@, m)]
ConsumeS(t) == toS' = [toS EXCEPT ![t] = Tail(@)]
ConsumeR(t) == toR' = [toR EXCEPT ![t] = Tail(@)]

\* send_files returns after reading its last message: the socket is dropped.
SenderStops(t, pc) ==
  /\ SetSpc(t, pc)
  /\ ConsumeS(t)
  /\ SendToR(t, Closing(Tail(toS[t])))

ReceiverStops(t) ==
  /\ SetRpc(t, "failed")
  /\ ConsumeR(t)
  /\ SendToS(t, Closing(Tail(toR[t])))

---------------------------------------------------------------------------
(* The sender: SendTransfer::send_files *)

Init ==
  /\ disk = [s \in Sources |-> [size |-> InitSize[s], ver |-> 0]]
  /\ spc = [t \in Transfers |-> "idle"]
  /\ man = [t \in Transfers |-> [i \in FileIndex |-> [size |-> 0, ver |-> 0]]]
  /\ cur = [t \in Transfers |-> [file |-> 1, off |-> 0, len |-> 0]]
  /\ skip = [t \in Transfers |-> {}]
  /\ rpc = [t \in Transfers |-> "idle"]
  /\ rfile = [t \in Transfers |-> 1]
  /\ rok = [t \in Transfers |-> TRUE]
  /\ loaded = [t \in Transfers |-> {}]
  /\ completed = [t \in Transfers |-> [i \in FileIndex |-> {}]]
  /\ toR = [t \in Transfers |-> <<>>]
  /\ toS = [t \in Transfers |-> <<>>]
  /\ partials \in SUBSET Paths
  /\ temp = [p \in Paths |-> IF p \in partials THEN [k \in 1 .. StaleLen |-> Blank] ELSE <<>>]
  /\ delivered = {}
  /\ saved = {}
  /\ resume = [id \in Ids |-> [i \in FileIndex |-> {}]]
  /\ faulty = {}
  /\ edits = 0
  /\ answer \in [Transfers -> Answers]

\* The listener accepts the connection and spawns handle_incoming, with the decision
\* channel that answer[t] stands for.
HandlerStarts(t) == SetRpc(t, "hs1")

\* Stat and hash every file, build the manifest, connect, send Noise message 1.
Prepare(t) ==
  /\ spc[t] = "idle"
  /\ man' = [man EXCEPT ![t] = [i \in FileIndex |->
               IF i \in Idx(t) THEN disk[FilesOf[t][i]] ELSE man[t][i]]]
  /\ SetSpc(t, "handshake")
  /\ HandlerStarts(t)
  /\ SendToR(t, Msg("Hs1"))
  /\ UNCHANGED <<cur, skip, rfile, rok, loaded, completed, toS, storeVars, environment>>

\* Noise message 3, then the transfer request with the manifest.
SendRequest(t) ==
  /\ spc[t] = "handshake"
  /\ SenderGets(t, "Hs2")
  /\ ConsumeS(t)
  /\ toR' = [toR EXCEPT ![t] = @ \o <<Msg("Hs3"), Msg("Request")>>]
  /\ SetSpc(t, "negotiating")
  /\ UNCHANGED <<man, cur, skip, receiverVars, storeVars, environment>>

RecvAccept(t) ==
  /\ spc[t] = "negotiating"
  /\ SenderGets(t, "Accept")
  /\ ConsumeS(t)
  /\ SetSpc(t, "sending")
  /\ skip' = [skip EXCEPT ![t] = {}]
  /\ cur' = [cur EXCEPT ![t] = OpenFile(t, 1)]
  /\ UNCHANGED <<man, receiverVars, toR, storeVars, environment>>

RecvResumeAt(t) ==
  /\ spc[t] = "negotiating"
  /\ SenderGets(t, "ResumeAt")
  /\ ConsumeS(t)
  /\ SetSpc(t, "sending")
  /\ skip' = [skip EXCEPT ![t] =
       decode_received_bitmap(Head(toS[t]).bitmap, total_chunks(ManifestCounts(t)))]
  /\ cur' = [cur EXCEPT ![t] = OpenFile(t, 1)]
  /\ UNCHANGED <<man, receiverVars, toR, storeVars, environment>>

RecvReject(t) ==
  /\ spc[t] = "negotiating"
  /\ SenderGets(t, "Reject")
  /\ SenderStops(t, "rejected")
  /\ UNCHANGED <<man, cur, skip, receiverVars, storeVars, environment>>

\* The chunk loop.  A chunk the receiver reported is passed over; any other
\* is read, sent, and waited for.
AtChunk(t) == spc[t] = "sending" /\ cur[t].file \in Idx(t)
Skipped(t) == GlobalOffset(t, cur[t].file, cur[t].off) \in skip[t]

SkipChunk(t) ==
  /\ AtChunk(t)
  /\ Skipped(t)
  /\ cur' = [cur EXCEPT ![t] = NextChunk(t)]
  /\ UNCHANGED <<spc, man, skip, receiverVars, toR, toS, storeVars, environment>>

\* Mutant: the first file is sent as file 0.
SendChunk_wrong_index(t) ==
  /\ AtChunk(t)
  /\ ~Skipped(t)
  /\ SendToR(t, ChunkMsg(cur[t].file - 1, cur[t].off, ReadSpan(t)))
  /\ SetSpc(t, "awaitAck")
  /\ UNCHANGED <<man, cur, skip, receiverVars, toS, storeVars, environment>>

\* Mutant: the next chunk is sent without waiting for the acknowledgement.
SendChunk_pipelined(t) ==
  /\ AtChunk(t)
  /\ ~Skipped(t)
  /\ ReadSpan(t).len <= NoiseMax
  /\ SendToR(t, ChunkMsg(cur[t].file, cur[t].off, ReadSpan(t)))
  /\ cur' = [cur EXCEPT ![t] = NextChunk(t)]
  /\ UNCHANGED <<spc, man, skip, receiverVars, toS, storeVars, environment>>

SendChunk(t) ==
  /\ AtChunk(t)
  /\ ~Skipped(t)
  /\ ReadSpan(t).len <= NoiseMax
  /\ SendToR(t, ChunkMsg(cur[t].file, cur[t].off, ReadSpan(t)))
  /\ SetSpc(t, "awaitAck")
  /\ UNCHANGED <<man, cur, skip, receiverVars, toS, storeVars, environment>>

\* NoiseSession::encrypt refuses a message above the Noise limit: codec.send
\* fails, send_files returns the error and the socket is dropped.
ChunkTooLong(t) ==
  /\ AtChunk(t)
  /\ ~Skipped(t)
  /\ ReadSpan(t).len > NoiseMax
  /\ SetSpc(t, "failed")
  /\ SendToR(t, Closing(toS[t]))
  /\ UNCHANGED <<man, cur, skip, receiverVars, toS, storeVars, environment>>

\* A ChunkAck advances the loop; a differing hash is only logged.
RecvAck(t) ==
  /\ spc[t] = "awaitAck"
  /\ SenderGets(t, "Ack")
  /\ ConsumeS(t)
  /\ SetSpc(t, "sending")
  /\ cur' = [cur EXCEPT ![t] = NextChunk(t)]
  /\ UNCHANGED <<man, skip, receiverVars, toR, storeVars, environment>>

\* Mutant: the sender does not wait for the verdict.
SendComplete_unverified(t) ==
  /\ spc[t] = "sending"
  /\ cur[t].file \notin Idx(t)
  /\ SendToR(t, Msg("Complete"))
  /\ SetSpc(t, "completed")
  /\ UNCHANGED <<man, cur, skip, receiverVars, toS, storeVars, environment>>

SendComplete(t) ==
  /\ spc[t] = "sending"
  /\ cur[t].file \notin Idx(t)
  /\ SendToR(t, Msg("Complete"))
  /\ SetSpc(t, "verifying")
  /\ UNCHANGED <<man, cur, skip, receiverVars, toS, storeVars, environment>>

\* ok emits the Completed event; not ok is an error.
RecvVerified(t) ==
  /\ spc[t] = "verifying"
  /\ SenderGets(t, "Verified")
  /\ SenderStops(t, IF Head(toS[t]).ok THEN "completed" ELSE "failed")
  /\ UNCHANGED <<man, cur, skip, receiverVars, storeVars, environment>>

\* A closed or reset connection, or a message of the wrong kind.
SenderRecvFails(t) ==
  /\ spc[t] \in SenderWaiting
  /\ toS[t] # <<>>
  /\ Head(toS[t]).type \notin SenderExpects(spc[t])
  /\ SenderStops(t, "failed")
  /\ UNCHANGED <<man, cur, skip, receiverVars, storeVars, environment>>

---------------------------------------------------------------------------
(* The receiver: RecvTransfer::handle_incoming *)

RecvHs1(t) ==
  /\ rpc[t] = "hs1"
  /\ ReceiverGets(t, "Hs1")
  /\ ConsumeR(t)
  /\ SendToS(t, Msg("Hs2"))
  /\ SetRpc(t, "hs3")
  /\ UNCHANGED <<senderVars, rfile, rok, loaded, completed, storeVars, environment>>

RecvHs3(t) ==
  /\ rpc[t] = "hs3"
  /\ ReceiverGets(t, "Hs3")
  /\ ConsumeR(t)
  /\ SetRpc(t, "waitRequest")
  /\ UNCHANGED <<senderVars, rfile, rok, loaded, completed, toS, storeVars, environment>>

\* The state files of ResumeManager.  load: none when there is no file under the id,
\* or none that parses.
load(id) == IF id \in saved THEN {resume[id]} ELSE {}

\* save, over what was there: the completed chunks of every writer.
save(t) ==
  /\ saved' = saved \cup {IdOf[t]}
  /\ resume' = [resume EXCEPT ![IdOf[t]] = completed[t]]

\* remove: without a file there is nothing to do.
remove(id) == saved' = saved \ {id}

\* The resume state is read before the user decides.
RecvRequest(t) ==
  /\ rpc[t] = "waitRequest"
  /\ ReceiverGets(t, "Request")
  /\ ConsumeR(t)
  /\ SetRpc(t, "deciding")
  /\ loaded' = [loaded EXCEPT ![t] = load(IdOf[t])]
  /\ UNCHANGED <<senderVars, rfile, rok, completed, toS, storeVars, environment>>

\* The user refuses, or the channel is closed and counts as a refusal.
DecideReject(t) ==
  /\ rpc[t] = "deciding"
  /\ answer[t] # "accept"
  /\ SetRpc(t, "failed")
  /\ toS' = [toS EXCEPT ![t] = @ \o <<Msg("Reject"), Closing(toR[t])>>]
  /\ UNCHANGED <<senderVars, rfile, rok, loaded, completed, toR, storeVars, environment>>

\* Answer with Accept, or with the bitmap of the chunks the loaded state names.
DecideAccept(t) ==
  /\ rpc[t] = "deciding"
  /\ answer[t] # "drop"
  /\ SendToS(t,
       IF loaded[t] = {} THEN Msg("Accept")
       ELSE ResumeAtMsg(encode_received_bitmap(
              UNION {{GlobalOffset(t, i, o) : o \in state[i]} : state \in loaded[t], i \in FileIndex},
              total_chunks(ManifestCounts(t)))))
  /\ SetRpc(t, "creating")
  /\ rfile' = [rfile EXCEPT ![t] = 1]
  /\ UNCHANGED <<senderVars, rok, loaded, completed, toR, storeVars, environment>>

\* ChunkWriter::new for the next file: open or create the partial file, set
\* its length, start with no completed chunk.
CreateWriter(t) ==
  /\ rpc[t] = "creating"
  /\ rfile[t] \in Idx(t)
  /\ LET p == Path(t, rfile[t])
     IN  /\ partials' = partials \cup {p}
         /\ temp' = [temp EXCEPT ![p] = set_len(@, man[t][rfile[t]].size)]
  /\ completed' = [completed EXCEPT ![t][rfile[t]] = {}]
  /\ rfile' = [rfile EXCEPT ![t] = @ + 1]
  /\ UNCHANGED <<senderVars, rpc, rok, loaded, toR, toS, delivered, saved, resume, environment>>

StartReceiving(t) ==
  /\ rpc[t] = "creating"
  /\ rfile[t] \notin Idx(t)
  /\ SetRpc(t, "receiving")
  /\ UNCHANGED <<senderVars, rfile, rok, loaded, completed, toR, toS, storeVars, environment>>

\* ChunkWriter::write_chunk can store the chunk at the head of the queue.
Writable(t) ==
  LET m == Head(toR[t])
  IN  m.off < WriterChunks(t, m.file) /\ Path(t, m.file) \in partials

\* Mutant: write_chunk does not insert the chunk into completed_chunks.
RecvChunk_unrecorded(t) ==
  /\ rpc[t] = "receiving"
  /\ ReceiverGets(t, "Chunk")
  /\ Writable(t)
  /\ LET m == Head(toR[t])
     IN  /\ temp' = [temp EXCEPT ![Path(t, m.file)] = write_at(@, m.off * ChunkSize, m.span)]
         /\ SendToS(t, AckMsg(m.file, m.off))
  /\ ConsumeR(t)
  /\ UNCHANGED <<senderVars, receiverVars, partials, delivered, saved, resume, environment>>

\* Mutant: a chunk is stored and not acknowledged.
RecvChunk_no_ack(t) ==
  /\ rpc[t] = "receiving"
  /\ ReceiverGets(t, "Chunk")
  /\ Writable(t)
  /\ LET m == Head(toR[t])
     IN  completed' = [completed EXCEPT ![t][m.file] = @ \cup {m.off}]
  /\ ConsumeR(t)
  /\ UNCHANGED <<senderVars, rpc, rfile, rok, loaded, toS, storeVars, environment>>

RecvChunk(t) ==
  /\ rpc[t] = "receiving"
  /\ ReceiverGets(t, "Chunk")
  /\ Writable(t)
  /\ LET m == Head(toR[t])
     IN  /\ temp' = [temp EXCEPT ![Path(t, m.file)] = write_at(@, m.off * ChunkSize, m.span)]
         /\ completed' = [completed EXCEPT ![t][m.file] = @ \cup {m.off}]
         /\ SendToS(t, AckMsg(m.file, m.off))
  /\ ConsumeR(t)
  /\ UNCHANGED <<senderVars, rpc, rfile, rok, loaded, partials, delivered, saved, resume, environment>>

\* write_chunk fails (offset beyond the file, or the partial file is gone):
\* handle_incoming returns without saving the resume state.
RecvChunkFails(t) ==
  /\ rpc[t] = "receiving"
  /\ ReceiverGets(t, "Chunk")
  /\ ~Writable(t)
  /\ ReceiverStops(t)
  /\ UNCHANGED <<senderVars, rfile, rok, loaded, completed, storeVars, environment>>

\* Mutant: the verification loop starts where the creation loop ended.
RecvComplete_no_reset(t) ==
  /\ rpc[t] = "receiving"
  /\ ReceiverGets(t, "Complete")
  /\ ConsumeR(t)
  /\ SetRpc(t, "finalizing")
  /\ rok' = [rok EXCEPT ![t] = TRUE]
  /\ UNCHANGED <<senderVars, rfile, loaded, completed, toS, storeVars, environment>>

RecvComplete(t) ==
  /\ rpc[t] = "receiving"
  /\ ReceiverGets(t, "Complete")
  /\ ConsumeR(t)
  /\ SetRpc(t, "finalizing")
  /\ rfile' = [rfile EXCEPT ![t] = 1]
  /\ rok' = [rok EXCEPT ![t] = TRUE]
  /\ UNCHANGED <<senderVars, loaded, completed, toS, storeVars, environment>>

\* Mutant: an incomplete file is passed over without all_ok = false.
Finalize_unflagged(t) ==
  /\ rpc[t] = "finalizing"
  /\ rfile[t] \in Idx(t)
  /\ rfile' = [rfile EXCEPT ![t] = @ + 1]
  /\ LET p == Path(t, rfile[t])
     IN  \/ /\ ~is_complete(t, rfile[t])
            /\ UNCHANGED <<partials, temp, delivered>>
         \/ /\ is_complete(t, rfile[t])
            /\ p \in partials
            /\ delivered' = delivered \cup {[transfer |-> t, file |-> rfile[t], content |-> temp[p]]}
            /\ partials' = partials \ {p}
            /\ temp' = [temp EXCEPT ![p] = <<>>]
  /\ UNCHANGED <<senderVars, rpc, rok, loaded, completed, toR, toS, saved, resume, environment>>

\* One turn of the verification loop: a complete file is renamed to a name
\* unique_path found free, an incomplete one is given up.
Finalize(t) ==
  /\ rpc[t] = "finalizing"
  /\ rfile[t] \in Idx(t)
  /\ rfile' = [rfile EXCEPT ![t] = @ + 1]
  /\ LET i == rfile[t]
         p == Path(t, i)
     IN  \/ /\ ~is_complete(t, i)
            /\ rok' = [rok EXCEPT ![t] = FALSE]
            /\ UNCHANGED <<partials, temp, delivered>>
         \/ /\ is_complete(t, i)
            /\ p \in partials
            /\ delivered' = delivered \cup {[transfer |-> t, file |-> i, content |-> temp[p]]}
            /\ partials' = partials \ {p}
            /\ temp' = [temp EXCEPT ![p] = <<>>]
            /\ UNCHANGED rok
  /\ UNCHANGED <<senderVars, rpc, loaded, completed, toR, toS, saved, resume, environment>>

\* The rename fails: the partial file is gone.  No TransferVerified is sent.
FinalizeFails(t) ==
  /\ rpc[t] = "finalizing"
  /\ rfile[t] \in Idx(t)
  /\ is_complete(t, rfile[t])
  /\ Path(t, rfile[t]) \notin partials
  /\ SetRpc(t, "failed")
  /\ SendToS(t, Closing(toR[t]))
  /\ UNCHANGED <<senderVars, rfile, rok, loaded, completed, toR, storeVars, environment>>

\* Behind the loop TransferVerified goes out: from here on the sender may be ahead
\* of the receiver.
SendVerified(t) ==
  /\ rpc[t] = "finalizing"
  /\ rfile[t] \notin Idx(t)
  /\ SendToS(t, VerifiedMsg(rok[t]))
  /\ SetRpc(t, IF rok[t] THEN "removing" ELSE "closing")
  /\ UNCHANGED <<senderVars, rfile, rok, loaded, completed, toR, storeVars, environment>>

\* The resume state of a transfer that is done goes.
RemoveResumeState(t) ==
  /\ rpc[t] = "removing"
  /\ remove(IdOf[t])
  /\ SetRpc(t, "closing")
  /\ UNCHANGED <<senderVars, rfile, rok, loaded, completed, toR, toS, partials, temp, delivered, resume,
                 environment>>

\* Completed is emitted when all is well; either way the connection is shut down and
\* Ok returned.
EndReceiving(t) ==
  /\ rpc[t] = "closing"
  /\ SendToS(t, Msg("FIN"))
  /\ SetRpc(t, IF rok[t] THEN "completed" ELSE "incomplete")
  /\ UNCHANGED <<senderVars, rfile, rok, loaded, completed, toR, storeVars, environment>>

\* The connection is closed between two messages: save_resume_state.
RecvClosed(t) ==
  /\ rpc[t] = "receiving"
  /\ ReceiverGets(t, "FIN")
  /\ ReceiverStops(t)
  /\ save(t)
  /\ UNCHANGED <<senderVars, rfile, rok, loaded, completed, partials, temp, delivered, environment>>

\* Any other end of the connection, or a message of the wrong kind: the
\* handler returns an error and saves nothing.
ReceiverRecvFails(t) ==
  /\ rpc[t] \in ReceiverWaiting
  /\ toR[t] # <<>>
  /\ Head(toR[t]).type \notin ReceiverExpects(rpc[t])
  /\ ~(rpc[t] = "receiving" /\ ReceiverGets(t, "FIN"))
  /\ ReceiverStops(t)
  /\ UNCHANGED <<senderVars, rfile, rok, loaded, completed, storeVars, environment>>

---------------------------------------------------------------------------
(* The environment *)

\* One fault brings others with it: once the peer is gone a send fails too,
\* which is one more crash of the same transfer.
Fault(t) ==
  /\ t \in faulty \/ Cardinality(faulty) < MaxFaults
  /\ faulty' = faulty \cup {t}
  /\ UNCHANGED <<disk, edits, answer>>

\* connect times out or is refused.
ConnectFails(t) ==
  /\ spc[t] = "idle"
  /\ SetSpc(t, "failed")
  /\ Fault(t)
  /\ UNCHANGED <<man, cur, skip, receiverVars, toR, toS, storeVars>>

\* The sending task ends early: the process is killed, a file cannot be opened
\* or read, or a send fails because the peer is gone.
\* The peer sees a clean close or, in the middle of a frame, an error.
SenderCrash(t) ==
  /\ spc[t] \in SenderActive
  /\ SetSpc(t, "failed")
  /\ \E kind \in {"FIN", "RST"} : SendToR(t, Msg(kind))
  /\ Fault(t)
  /\ UNCHANGED <<man, cur, skip, receiverVars, toS, storeVars>>

\* The receiving task ends early: the process is killed, the disk is full, or a
\* send fails because the peer is gone (a chunk it just wrote stays written, a
\* TransferVerified it could not send leaves the resume state in place, as does a
\* kill right behind it).  Its completed_chunks are lost.
ReceiverCrash(t) ==
  /\ rpc[t] \in ReceiverActive
  /\ SetRpc(t, "failed")
  /\ \E kind \in {"FIN", "RST"} : SendToS(t, Msg(kind))
  /\ Fault(t)
  /\ UNCHANGED <<senderVars, rfile, rok, loaded, completed, toR, storeVars>>

\* Mutant: what is left of the file passes for the whole manifest.
SaveTorn_all_chunks(t) ==
  /\ rpc[t] = "receiving"
  /\ ReceiverGets(t, "FIN")
  /\ ReceiverStops(t)
  /\ saved' = saved \cup {IdOf[t]}
  /\ resume' = [resume EXCEPT ![IdOf[t]] =
       [i \in FileIndex |-> IF i \in Idx(t) THEN 0 .. WriterChunks(t, i) - 1 ELSE {}]]
  /\ Fault(t)
  /\ UNCHANGED <<senderVars, rfile, rok, loaded, completed, partials, temp, delivered>>

\* The process is killed within save: the write that began by truncating the file
\* leaves nothing that load can read, whatever was saved before.
SaveTorn(t) ==
  /\ rpc[t] = "receiving"
  /\ ReceiverGets(t, "FIN")
  /\ ReceiverStops(t)
  /\ remove(IdOf[t])
  /\ Fault(t)
  /\ UNCHANGED <<senderVars, rfile, rok, loaded, completed, partials, temp, delivered, resume>>

\* The network drops the connection with everything in flight.
Disconnect(t) ==
  /\ spc[t] \in SenderActive \/ rpc[t] \in ReceiverActive
  /\ toR' = [toR EXCEPT ![t] = <<Msg("RST")>>]
  /\ toS' = [toS EXCEPT ![t] = <<Msg("RST")>>]
  /\ Fault(t)
  /\ UNCHANGED <<senderVars, receiverVars, storeVars>>

\* A program on the sending device rewrites a source.
EditSource(s) ==
  /\ edits < MaxEdits
  /\ edits' = edits + 1
  /\ \E n \in EditSizes : disk' = [disk EXCEPT ![s] = [size |-> n, ver |-> @.ver + 1]]
  /\ UNCHANGED <<senderVars, receiverVars, toR, toS, storeVars, faulty, answer>>

---------------------------------------------------------------------------

SenderStep(t) ==
  \/ SendRequest(t) \/ RecvAccept(t) \/ RecvResumeAt(t) \/ RecvReject(t)
  \/ SkipChunk(t) \/ SendChunk(t) \/ ChunkTooLong(t) \/ RecvAck(t)
  \/ SendComplete(t) \/ RecvVerified(t) \/ SenderRecvFails(t)

ReceiverStep(t) ==
  \/ RecvHs1(t) \/ RecvHs3(t) \/ RecvRequest(t) \/ DecideReject(t) \/ DecideAccept(t)
  \/ CreateWriter(t) \/ StartReceiving(t) \/ RecvChunk(t) \/ RecvChunkFails(t)
  \/ RecvComplete(t) \/ Finalize(t) \/ FinalizeFails(t) \/ SendVerified(t)
  \/ RemoveResumeState(t) \/ EndReceiving(t) \/ RecvClosed(t) \/ ReceiverRecvFails(t)

FaultStep(t) ==
  ConnectFails(t) \/ SenderCrash(t) \/ ReceiverCrash(t) \/ SaveTorn(t) \/ Disconnect(t)

Next ==
  \/ \E t \in Transfers : Prepare(t) \/ SenderStep(t) \/ ReceiverStep(t) \/ FaultStep(t)
  \/ \E s \in Sources : EditSource(s)

Spec == Init /\ [][Next]_vars

\* Both ends are tokio tasks that run whenever they can; starting a transfer,
\* faults and edits are up to the environment.
FairSpec ==
  /\ Spec
  /\ \A t \in Transfers : WF_vars(SenderStep(t)) /\ WF_vars(ReceiverStep(t))

---------------------------------------------------------------------------
(* Properties *)

\* Every variable keeps its type; in particular a chunk message names a file of
\* some manifest, so that writers.get_mut finds a writer.
TypeOK ==
  /\ disk \in [Sources -> Stat]
  /\ spc \in [Transfers -> SenderStates]
  /\ man \in [Transfers -> [FileIndex -> Stat]]
  /\ cur \in [Transfers -> Cursor]
  /\ skip \in [Transfers -> SUBSET Nat]
  /\ rpc \in [Transfers -> ReceiverStates]
  /\ rfile \in [Transfers -> Nat]
  /\ rok \in [Transfers -> BOOLEAN]
  /\ loaded \in [Transfers -> SUBSET [FileIndex -> SUBSET Nat]]
  /\ completed \in [Transfers -> [FileIndex -> SUBSET Nat]]
  /\ toR \in [Transfers -> Seq(Message)]
  /\ toS \in [Transfers -> Seq(Message)]
  /\ partials \subseteq Paths
  /\ temp \in [Paths -> Seq(Cell)]
  /\ delivered \subseteq [transfer : Transfers, file : FileIndex, content : Seq(Cell)]
  /\ saved \subseteq Ids
  /\ resume \in [Ids -> [FileIndex -> SUBSET Nat]]
  /\ faulty \subseteq Transfers
  /\ edits \in 0 .. MaxEdits
  /\ answer \in [Transfers -> Answers]

\* The bytes the manifest of t promises for file i.
Promised(t, i) ==
  [k \in 1 .. man[t][i].size |->
     [src |-> FilesOf[t][i], pos |-> k - 1, ver |-> man[t][i].ver]]

\* A file that finalize renames into the download directory holds exactly the
\* bytes whose size and hash the sender put in the manifest, whatever crashed,
\* was left over or was sent twice before.
DeliveredIntact ==
  \A d \in delivered : d.content = Promised(d.transfer, d.file)

Delivered(t, i) == \E d \in delivered : d.transfer = t /\ d.file = i

\* The verdict of handle_incoming is that all is well: it has reported success or
\* is on the way there, or a fault met it on this way.
Succeeds(t) ==
  \/ rpc[t] \in {"removing", "closing", "completed"} /\ rok[t]
  \/ rpc[t] = "failed" /\ t \in faulty

\* When send_files reports success, handle_incoming has renamed every file of the
\* manifest into place, and comes to report success too unless it is itself killed
\* before it can: it may be behind the sender, never of another opinion.
CompletedAgreement ==
  \A t \in Transfers : spc[t] = "completed" =>
    /\ Succeeds(t)
    /\ \A i \in Idx(t) : Delivered(t, i)

\* The two halves of the protocol never get out of step: an end that waits is
\* only ever sent what it waits for (or the end of the connection), and an
\* acknowledgement is for the very chunk the sender is at.
ProtocolAgrees ==
  \A t \in Transfers :
    /\ spc[t] \in SenderWaiting /\ toS[t] # <<>> =>
         /\ Head(toS[t]).type \in SenderExpects(spc[t]) \cup {"FIN", "RST"}
         /\ Head(toS[t]).type = "Ack" =>
              Head(toS[t]).file = cur[t].file /\ Head(toS[t]).off = cur[t].off
    /\ rpc[t] \in ReceiverWaiting /\ toR[t] # <<>> =>
         Head(toR[t]).type \in ReceiverExpects(rpc[t]) \cup {"FIN", "RST"}

\* The sender's chunk loop is never ahead of the receiver's writers: a chunk it
\* has passed was written and recorded, or the receiver said it had it.
AckedWritten ==
  \A t \in Transfers : \A i \in Idx(t) : \A o \in 0 .. WriterChunks(t, i) - 1 :
    (i < cur[t].file \/ (i = cur[t].file /\ o < cur[t].off)) =>
      o \in completed[t][i] \/ GlobalOffset(t, i, o) \in skip[t]

\* Bytes b of chunk o of file i are in the partial file.
ChunkOnDisk(t, i, o) ==
  \A b \in ChunkBytes(man[t][i].size, o, ChunkSize) :
    /\ b < Len(temp[Path(t, i)])
    /\ temp[Path(t, i)][b + 1] = Promised(t, i)[b + 1]

\* A chunk that a saved resume state records is really in the partial file,
\* unless the file has been delivered since: save_resume_state never promises
\* a sender something that is not there.
ResumeBackedByTemp ==
  \A t \in Transfers : IdOf[t] \in saved =>
    \A i \in Idx(t) : \A o \in resume[IdOf[t]][i] :
      \/ ChunkOnDisk(t, i, o)
      \/ \E d \in delivered : FilesOf[d.transfer][d.file] = FilesOf[t][i]

\* handle_incoming never ends with "some files incomplete": when the sender has
\* sent all it means to send, every writer is complete, unless a source was
\* edited.
NoIncompleteVerdict == edits = 0 => \A t \in Transfers : rpc[t] # "incomplete"

\* Both tasks of a transfer come to an end, whatever happens to the connection.
HandlersEnd ==
  \A t \in Transfers : spc[t] # "idle" ~>
    spc[t] \notin SenderActive /\ rpc[t] \notin ReceiverActive

\* A transfer that meets no fault, and whose sources are left alone, ends for its
\* sender with every file delivered where the receiving program accepts, and with
\* the rejection, not an error, where it drops its end of the decision channel.
FaultFreeCompletes ==
  \A t \in Transfers : spc[t] # "idle" ~>
    \/ spc[t] = "completed" /\ answer[t] # "drop"
    \/ spc[t] = "rejected" /\ answer[t] # "accept"
    \/ t \in faulty \/ edits > 0

\* Transfer u of the same files was interrupted and its state saved, with chunk
\* o of file i recorded.
Recorded(u, i, o) == IdOf[u] \in saved /\ o \in resume[IdOf[u]][i]

Sends(t, i, o) ==
  \E k \in DOMAIN toR[t] :
    toR[t][k].type = "Chunk" /\ toR[t][k].file = i /\ toR[t][k].off = o

\* Picking up where it left off: a chunk that is recorded before a retry of the
\* same files begins is not sent by the retry.
RetryPicksUp ==
  \A t, u \in Transfers : FilesOf[t] = FilesOf[u] =>
    \A i \in Idx(t) : \A o \in 0 .. chunk_count(InitSize[FilesOf[t][i]], ChunkSize) - 1 :
      [](spc[t] = "idle" /\ Recorded(u, i, o) => []~Sends(t, i, o))

---------------------------------------------------------------------------
(* Inductive invariants (see TransferProofs) *)

VerifiedOk(queue) ==
  \E k \in DOMAIN queue : queue[k].type = "Verified" /\ queue[k].ok

\* Why CompletedAgreement holds: a positive verdict exists only behind the loop that
\* renamed every file, and from there the receiver goes on to its own success.
AgreementInv ==
  \A t \in Transfers :
    /\ spc[t] = "idle" => rpc[t] = "idle"
    /\ rfile[t] >= 1
    /\ spc[t] = "completed" \/ VerifiedOk(toS[t]) =>
         Succeeds(t) /\ \A i \in Idx(t) : Delivered(t, i)
    /\ rpc[t] \in {"removing", "closing", "completed"} /\ rok[t] =>
         \A i \in Idx(t) : Delivered(t, i)
    /\ rpc[t] = "finalizing" /\ rok[t] =>
         \A i \in Idx(t) : i < rfile[t] => Delivered(t, i)

\* No file is above the large-file threshold.
SmallSources == \A s \in Sources : InitSize[s] <= LargeThreshold

\* The writer of file i of t exists.
HasWriter(t, i) ==
  \/ rpc[t] \in {"receiving", "finalizing"}
  \/ rpc[t] = "creating" /\ i < rfile[t]

\* ... and finalize has not come to it yet.
Writing(t, i) == HasWriter(t, i) /\ (rpc[t] = "finalizing" => rfile[t] <= i)

\* ChunkWriter::new opens a partial file under a writer that is still at work on it: a
\* writer of another source, or one whose chunks left with the file, renamed meanwhile.
Collides ==
  \E t, u \in Transfers : \E j \in Idx(u) :
    /\ CreateWriter(t)
    /\ Writing(u, j)
    /\ Path(u, j) = Path(t, rfile[t])
    /\ \/ FilesOf[u][j] # FilesOf[t][rfile[t]]
       \/ Path(u, j) \notin partials /\ completed[u][j] # {}

SourceSize(t, i) == InitSize[FilesOf[t][i]]

RightSpan(t, i, o) ==
  [src |-> FilesOf[t][i], lo |-> o * ChunkSize, ver |-> 0,
   len |-> Smaller(remaining(SourceSize(t, i), o, ChunkSize), ChunkSize)]

RightByte(t, i, b) == [src |-> FilesOf[t][i], pos |-> b, ver |-> 0]

\* The sources and what the sender knows of them.
SenderKnows ==
  /\ disk = [s \in Sources |-> [size |-> InitSize[s], ver |-> 0]]
  /\ \A t \in Transfers :
       /\ spc[t] = "idle" => rpc[t] = "idle"
       /\ rpc[t] = "idle" => toR[t] = <<>> /\ spc[t] \in {"idle", "failed"}
       /\ rpc[t] # "idle" =>
            \A i \in Idx(t) : man[t][i] = [size |-> SourceSize(t, i), ver |-> 0]
       /\ spc[t] \in {"sending", "awaitAck"} /\ cur[t].file \in Idx(t) =>
            cur[t].len = SourceSize(t, cur[t].file)

\* A chunk in flight carries the bytes of its file at its offset.
ChunksInFlight ==
  \A t \in Transfers : \A k \in DOMAIN toR[t] :
    toR[t][k].type = "Chunk" =>
      /\ toR[t][k].file \in Idx(t)
      /\ toR[t][k].span = RightSpan(t, toR[t][k].file, toR[t][k].off)

\* Writers at work on one partial file write the same source.
WritersAgree ==
  \A t, u \in Transfers : \A i \in Idx(t), j \in Idx(u) :
    Writing(t, i) /\ Writing(u, j) /\ Path(t, i) = Path(u, j) => FilesOf[t][i] = FilesOf[u][j]

\* A partial file with a writer at work has its final length, and the chunks the
\* writer has recorded hold their bytes.
WritersRight ==
  \A t \in Transfers : \A i \in Idx(t) :
    Writing(t, i) =>
      /\ completed[t][i] \subseteq 0 .. chunk_count(SourceSize(t, i), ChunkSize) - 1
      /\ Path(t, i) \in partials =>
           /\ Len(temp[Path(t, i)]) = SourceSize(t, i)
           /\ \A o \in completed[t][i] : \A b \in ChunkBytes(SourceSize(t, i), o, ChunkSize) :
                temp[Path(t, i)][b + 1] = RightByte(t, i, b)

DeliveredRight ==
  \A d \in delivered :
    /\ d.file \in Idx(d.transfer)
    /\ rpc[d.transfer] # "idle"
    /\ d.content = [k \in 1 .. SourceSize(d.transfer, d.file) |->
                      RightByte(d.transfer, d.file, k - 1)]

IntactInv == SenderKnows /\ ChunksInFlight /\ WritersAgree /\ WritersRight /\ DeliveredRight

===========================================================================
