------------------------- MODULE ResumeNegotiation -------------------------
(***************************************************************************)
(* What ResumeAt tells the sender.  The receiver holds some chunks of a    *)
(* manifest, numbers them globally, packs the numbers into a bitmap; the   *)
(* sender unpacks it and passes over the chunks it names.  Both ends do    *)
(* this with the operators of Chunking, each on its own copy of the        *)
(* manifest.                                                               *)
(***************************************************************************)
EXTENDS Chunking

CONSTANTS MaxFiles, Sizes, ChunkSizes

ASSUME NegotiationAssumption ==
  /\ MaxFiles \in Nat
  /\ Sizes \subseteq Nat
  /\ ChunkSizes \subseteq Nat \ {0}

VARIABLES
  files,       \* sizes of the files of the manifest
  chunk_size,  \* its chunk size
  held         \* held[i]: completed_chunks of the resume state of file i

nvars == <<files, chunk_size, held>>

counts == [i \in DOMAIN files |-> chunk_count(files[i], chunk_size)]

Start ==
  /\ files \in UNION {[1 .. n -> Sizes] : n \in 0 .. MaxFiles}
  /\ chunk_size \in ChunkSizes
  /\ held = [i \in DOMAIN files |-> {}]

\* One more chunk of file i is written and will be recorded.
Record(i, o) ==
  /\ o \notin held[i]
  /\ held' = [held EXCEPT ![i] = @ \cup {o}]
  /\ UNCHANGED <<files, chunk_size>>

Step == \E i \in DOMAIN files : \E o \in 0 .. counts[i] - 1 : Record(i, o)

NegotiationSpec == Start /\ [][Step]_nvars

\* The receiver's answer.
Answer ==
  encode_received_bitmap(
    UNION {{global_chunk_offset(counts, i, o) : o \in held[i]} : i \in DOMAIN files},
    total_chunks(counts))

skip_chunks == decode_received_bitmap(Answer, total_chunks(counts))

\* The sender passes over exactly the chunks the receiver holds: none is sent
\* twice and none is missed, for files of any size, empty ones included.
SkipsExactlyHeld ==
  \A i \in DOMAIN files : \A o \in 0 .. counts[i] - 1 :
    global_chunk_offset(counts, i, o) \in skip_chunks <=> o \in held[i]

\* The sum that global_chunk_offset and total_chunks compute with a loop.
LoopSum(k) ==
  LET sum[j \in 0 .. k] == IF j = 0 THEN 0 ELSE sum[j - 1] + counts[j]
  IN  sum[k]

\* The loop arrives at the number of chunks that ChunksBefore defines.
LoopCounts ==
  /\ \A i \in DOMAIN files : global_chunk_offset(counts, i, 0) = LoopSum(i - 1)
  /\ total_chunks(counts) = LoopSum(Len(files))

\* The chunks FileChunker reads tile the file: chunk o stands for as many bytes
\* as read_chunk returns, and each byte is in one chunk only.
ChunksTile ==
  \A i \in DOMAIN files :
    LET offsets == 0 .. counts[i] - 1
    IN  /\ \A o \in offsets :
             read_size(files[i], o, chunk_size)
               = Cardinality(ChunkBytes(files[i], o, chunk_size))
        /\ \A b \in 0 .. files[i] - 1 :
             Cardinality({o \in offsets : b \in ChunkBytes(files[i], o, chunk_size)}) = 1
===========================================================================
