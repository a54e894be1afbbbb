----------------------------- MODULE Chunking -----------------------------
(***************************************************************************)
(* The arithmetic both ends of a transfer rely on: how many chunks a file  *)
(* has, which bytes a chunk carries, how the chunks of all files are       *)
(* numbered globally, and how a set of received chunks travels as a        *)
(* bitmap.  Sender and receiver evaluate these operators independently and *)
(* never compare the results, so every one of them is a silent contract.   *)
(*                                                                         *)
(* Files are numbered from 1 (the code counts from 0); chunk offsets, byte *)
(* positions and global chunk numbers start at 0 as in the code.           *)
(***************************************************************************)
EXTENDS Naturals, Sequences, FiniteSets

CONSTANT UsizeValues  \* number of values of usize: 2^32 on armeabi-v7a, else 2^64

ASSUME ChunkingAssumption == UsizeValues \in Nat \ {0}

Smaller(a, b) == IF a <= b THEN a ELSE b

div_ceil(n, d) == (n + d - 1) \div d

\* FileEntry::chunk_count, FileChunker::chunk_count and ChunkWriter::new all
\* use this formula: an empty file still has one (empty) chunk.
chunk_count(size, chunk_size) ==
  IF size = 0 THEN 1 ELSE div_ceil(size, chunk_size)

\* Large files are cut into chunks of twice the configured size, capped.
effective_chunk_size(size, base, threshold, cap) ==
  IF size > threshold THEN Smaller(2 * base, cap) ELSE base

\* Mutant: the last chunk is not cut to what remains.
read_size_full(len, o, chunk_size) == chunk_size

\* Bytes of a file of length len from chunk o on (saturating_sub).
remaining(len, o, chunk_size) ==
  IF o * chunk_size >= len THEN 0 ELSE len - o * chunk_size

\* Number of bytes FileChunker::read_chunk plans to read of chunk o of a file it
\* opened with length len.  "remaining as usize" drops the high bits.
read_size(len, o, chunk_size) ==
  Smaller(remaining(len, o, chunk_size) % UsizeValues, chunk_size)

\* The bytes of a file of the given size that chunk o stands for.
ChunkBytes(size, o, chunk_size) ==
  {b \in 0 .. size - 1 : o * chunk_size <= b /\ b < (o + 1) * chunk_size}

\* The chunks of the first k files of a manifest with counts[i] chunks in file
\* i.  The code adds the counts up in a loop; the number of chunks is stated
\* here as what the loop counts.
ChunkIds(counts, k) ==
  UNION {{j} \X (0 .. counts[j] - 1) : j \in 1 .. Smaller(k, Len(counts))}

ChunksBefore(counts, k) == Cardinality(ChunkIds(counts, k))

total_chunks(counts) == ChunksBefore(counts, Len(counts))

\* Mutant: the loop adds the file's own chunks before it compares the index.
global_chunk_offset_late(counts, i, o) == ChunksBefore(counts, i) + o

\* An index that no file has falls through the loop: all files are counted.
global_chunk_offset(counts, i, o) == ChunksBefore(counts, i - 1) + o

\* A bitmap is the sequence of its bytes, a byte the set of its bits.
Byte == SUBSET (0 .. 7)

\* Mutant: the byte index is one too high.
encode_received_bitmap_shifted(completed, total) ==
  [k \in 1 .. div_ceil(total, 8) |-> {j \in 0 .. 7 : 8 * k + j \in completed}]

encode_received_bitmap(completed, total) ==
  [k \in 1 .. div_ceil(total, 8) |-> {j \in 0 .. 7 : 8 * (k - 1) + j \in completed}]

decode_received_bitmap(bitmap, total) ==
  {c \in 0 .. total - 1 :
     /\ c \div 8 < Len(bitmap)
     /\ c % 8 \in bitmap[c \div 8 + 1]}
===========================================================================
