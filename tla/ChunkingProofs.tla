-------------------------- MODULE ChunkingProofs --------------------------
(***************************************************************************)
(* Theorems about the chunk arithmetic of Chunking, for every file size,   *)
(* chunk size and shape of manifest.                                       *)
(***************************************************************************)
EXTENDS Chunking, FiniteSetTheorems, TLAPS

---------------------------------------------------------------------------
(* The chunks of one file *)

\* chunk_count is never zero: even an empty file is sent as one chunk.
LEMMA ChunkCountPositive ==
  ASSUME NEW size \in Nat, NEW cs \in Nat \ {0}
  PROVE  chunk_count(size, cs) \in Nat \ {0}
BY DEF chunk_count, div_ceil

\* Integer division as the chunk arithmetic uses it: b lies in block b \div cs
\* of length cs.
LEMMA DivBounds ==
  ASSUME NEW b \in Nat, NEW cs \in Nat \ {0}
  PROVE  /\ b \div cs \in Nat
         /\ (b \div cs) * cs <= b
         /\ b < ((b \div cs) + 1) * cs
<1>1. /\ b \div cs \in Nat
      /\ b = cs * (b \div cs) + (b % cs)
      /\ b % cs \in 0 .. cs - 1
  OBVIOUS
<1> DEFINE q == b \div cs
<1>2. q \in Nat /\ cs * q = q * cs /\ (q + 1) * cs = q * cs + cs
  BY <1>1
<1> QED BY <1>1, <1>2

\* The block of a byte below size is one of the blocks that div_ceil counts.
LEMMA DivLess ==
  ASSUME NEW size \in Nat, NEW cs \in Nat \ {0}, NEW b \in 0 .. size - 1
  PROVE  b \div cs < (size + cs - 1) \div cs
<1> DEFINE q == b \div cs
           n == (size + cs - 1) \div cs
<1>1. q \in Nat /\ q * cs <= b
  BY DivBounds
<1>2. n \in Nat /\ size + cs - 1 < (n + 1) * cs
  BY DivBounds
<1>3. SUFFICES ASSUME n <= q PROVE FALSE
  BY <1>1, <1>2
<1> HIDE DEF q, n
<1>4. (n + 1) * cs = n * cs + cs
  BY <1>2
<1>5. n * cs <= q * cs
  BY <1>1, <1>2, <1>3
<1> QED BY <1>1, <1>2, <1>4, <1>5

\* Every byte of a file is in one of its chunk_count chunks, so a writer that
\* recorded them all was sent the whole file.
LEMMA Covers ==
  ASSUME NEW size \in Nat, NEW cs \in Nat \ {0}, NEW b \in 0 .. size - 1
  PROVE  \E o \in 0 .. chunk_count(size, cs) - 1 : b \in ChunkBytes(size, o, cs)
<1>1. /\ b \div cs \in Nat
      /\ (b \div cs) * cs <= b
      /\ b < ((b \div cs) + 1) * cs
  BY DivBounds
<1>2. b \div cs < chunk_count(size, cs)
  BY DivLess DEF chunk_count, div_ceil
<1>3. chunk_count(size, cs) \in Nat
  BY ChunkCountPositive
<1>4. b \div cs \in 0 .. chunk_count(size, cs) - 1
  BY <1>1, <1>2, <1>3
<1> QED BY <1>1, <1>4 DEF ChunkBytes

---------------------------------------------------------------------------
(* The resume bitmap *)

\* What the sender decodes from ResumeAt is the set of chunks the receiver
\* encoded: encode_received_bitmap and decode_received_bitmap lose no chunk and
\* invent none, whatever the number of chunks, the partly used last byte
\* included.
THEOREM BitmapRoundTrip ==
  ASSUME NEW total \in Nat, NEW S \in SUBSET (0 .. total - 1)
  PROVE  decode_received_bitmap(encode_received_bitmap(S, total), total) = S
<1> DEFINE bm == encode_received_bitmap(S, total)
           n  == div_ceil(total, 8)
<1>1. n \in Nat
  BY DEF div_ceil
<1>2. Len(bm) = n /\ \A k \in 1 .. n : bm[k] = {j \in 0 .. 7 : 8 * (k - 1) + j \in S}
  BY <1>1 DEF encode_received_bitmap
<1>3. \A c \in 0 .. total - 1 : 
         /\ c \div 8 \in Nat /\ c % 8 \in 0 .. 7 /\ c \div 8 < n
         /\ 8 * (c \div 8) + (c % 8) = c
  BY DEF div_ceil
<1>4. \A c \in 0 .. total - 1 : c % 8 \in bm[c \div 8 + 1] <=> c \in S
  <2> TAKE c \in 0 .. total - 1
  <2>1. c \div 8 + 1 \in 1 .. n /\ (c \div 8 + 1) - 1 = c \div 8
    BY <1>1, <1>3
  <2>2. bm[c \div 8 + 1] = {j \in 0 .. 7 : 8 * ((c \div 8 + 1) - 1) + j \in S}
    BY <1>2, <2>1
  <2>3. bm[c \div 8 + 1] = {j \in 0 .. 7 : 8 * (c \div 8) + j \in S}
    BY <2>1, <2>2
  <2>4. c % 8 \in 0 .. 7 /\ 8 * (c \div 8) + (c % 8) = c
    BY <1>3
  <2> HIDE DEF bm
  <2> QED BY <2>3, <2>4
<1> HIDE DEF bm
<1>5. decode_received_bitmap(bm, total) = {c \in 0 .. total - 1 : c \in S}
  BY <1>2, <1>3, <1>4 DEF decode_received_bitmap
<1> QED BY <1>5 DEF bm

---------------------------------------------------------------------------
(* The global numbering *)

\* The chunk offsets of a file with c chunks are c offsets.
LEMMA ChunkInterval ==
  ASSUME NEW c \in Nat
  PROVE  IsFiniteSet(0 .. c - 1) /\ Cardinality(0 .. c - 1) = c
<1>1. 0 \in Int /\ c - 1 \in Int
  OBVIOUS
<1>2. /\ IsFiniteSet(0 .. c - 1)
      /\ Cardinality(0 .. c - 1) = IF 0 > c - 1 THEN 0 ELSE (c - 1) - 0 + 1
  BY <1>1, FS_Interval, Zenon
<1> QED BY <1>2

\* The chunks of one file of a manifest are as many as its offsets.
LEMMA ChunkBlock ==
  ASSUME NEW c \in Nat, NEW j
  PROVE  IsFiniteSet({j} \X (0 .. c - 1)) /\ Cardinality({j} \X (0 .. c - 1)) = c
<1>1. IsFiniteSet({j}) /\ Cardinality({j}) = 1
  BY FS_Singleton, Zenon
<1>2. IsFiniteSet(0 .. c - 1) /\ Cardinality(0 .. c - 1) = c
  BY ChunkInterval, Zenon
<1>3. /\ IsFiniteSet({j} \X (0 .. c - 1))
      /\ Cardinality({j} \X (0 .. c - 1)) = Cardinality({j}) * Cardinality(0 .. c - 1)
  BY <1>1, <1>2, FS_Product, Zenon
<1>4. Cardinality({j} \X (0 .. c - 1)) = 1 * c
  BY <1>1, <1>2, <1>3, Zenon
<1>5. 1 * c = c
  OBVIOUS
<1> QED BY <1>3, <1>4, <1>5, Zenon

\* A manifest has finitely many chunks, so that ChunksBefore is a number.
LEMMA ChunkIdsFinite ==
  ASSUME NEW counts \in Seq(Nat), NEW k \in Nat
  PROVE  /\ IsFiniteSet(ChunkIds(counts, k))
         /\ ChunksBefore(counts, k) \in Nat
<1> DEFINE n == Smaller(k, Len(counts))
           Block(j) == {j} \X (0 .. counts[j] - 1)
           Blocks == {Block(j) : j \in 1 .. n}
           f == [j \in 1 .. n |-> Block(j)]
<1>1. n \in Nat /\ n <= Len(counts)
  BY DEF Smaller
<1>2. IsFiniteSet(1 .. n)
  BY <1>1, FS_Interval
<1>3. f \in Surjection(1 .. n, Blocks)
  BY DEF Surjection
<1>4. IsFiniteSet(Blocks)
  BY <1>2, <1>3, FS_Surjection
<1>5. \A j \in 1 .. n : IsFiniteSet(Block(j))
  <2> TAKE j \in 1 .. n
  <2>1. counts[j] \in Nat
    BY <1>1
  <2> QED BY <2>1, ChunkBlock
<1>6. \A B \in Blocks : IsFiniteSet(B)
  BY <1>5
<1>7. IsFiniteSet(UNION Blocks)
  BY <1>4, <1>6, FS_UNION
<1> QED BY <1>7, FS_CardinalityType DEF ChunkIds, ChunksBefore

\* The loop of global_chunk_offset: one more file adds its own chunks.
LEMMA ChunksBeforeStep ==
  ASSUME NEW counts \in Seq(Nat), NEW i \in 1 .. Len(counts)
  PROVE  ChunksBefore(counts, i) = ChunksBefore(counts, i - 1) + counts[i]
<1> DEFINE A == ChunkIds(counts, i - 1)
           B == {i} \X (0 .. counts[i] - 1)
<1>1. counts[i] \in Nat /\ Smaller(i, Len(counts)) = i /\ Smaller(i - 1, Len(counts)) = i - 1
  BY DEF Smaller
<1>2. 1 .. i = (1 .. i - 1) \cup {i}
  OBVIOUS
<1>3. ChunkIds(counts, i) = A \cup B
  BY <1>1, <1>2 DEF ChunkIds
<1>4. A \cap B = {}
  BY <1>1 DEF ChunkIds
<1>5. IsFiniteSet(A) /\ Cardinality(A) \in Nat
  BY ChunkIdsFinite, i - 1 \in Nat DEF ChunksBefore
<1>6. IsFiniteSet(B) /\ Cardinality(B) = counts[i]
  BY <1>1, ChunkBlock, Zenon
<1>7. Cardinality(A \cup B) = Cardinality(A) + Cardinality(B) - Cardinality(A \cap B)
  BY <1>5, <1>6, FS_Union, Zenon
<1>8. Cardinality(A \cup B) = Cardinality(A) + counts[i]
  <2>1. Cardinality(A \cap B) = 0
    BY <1>4, FS_EmptySet, Zenon
  <2> HIDE DEF A, B
  <2> QED BY <1>1, <1>5, <1>6, <1>7, <2>1
<1> QED BY <1>3, <1>8 DEF ChunksBefore

\* Later files have higher chunk numbers.
LEMMA ChunksBeforeMonotonic ==
  ASSUME NEW counts \in Seq(Nat), NEW k \in Nat, NEW l \in Nat, k <= l
  PROVE  ChunksBefore(counts, k) <= ChunksBefore(counts, l)
<1>1. /\ Smaller(k, Len(counts)) \in Nat /\ Smaller(l, Len(counts)) \in Nat
      /\ Smaller(k, Len(counts)) <= Smaller(l, Len(counts))
  BY DEF Smaller
<1>2. 1 .. Smaller(k, Len(counts)) \subseteq 1 .. Smaller(l, Len(counts))
  BY <1>1
<1>3. ChunkIds(counts, k) \subseteq ChunkIds(counts, l)
  BY <1>2 DEF ChunkIds
<1> QED BY <1>3, ChunkIdsFinite, FS_Subset DEF ChunksBefore

\* global_chunk_offset numbers the chunks of a manifest without a clash: numbers lie below total_chunks, and two chunks with one
\* number are the same chunk of the same file.
THEOREM GlobalOffsetsDistinct ==
  ASSUME NEW counts \in Seq(Nat),
         NEW i \in 1 .. Len(counts), NEW o \in Nat, o < counts[i],
         NEW j \in 1 .. Len(counts), NEW p \in Nat, p < counts[j]
  PROVE  /\ global_chunk_offset(counts, i, o) \in 0 .. total_chunks(counts) - 1
         /\ global_chunk_offset(counts, i, o) = global_chunk_offset(counts, j, p)
              => i = j /\ o = p
<1> DEFINE C == [k \in Nat |-> ChunksBefore(counts, k)]
<1>1. \A k \in Nat : C[k] \in Nat
  BY ChunkIdsFinite
<1>2. \A k, l \in Nat : k <= l => C[k] <= C[l]
  BY ChunksBeforeMonotonic
<1>3. \A k \in 1 .. Len(counts) : C[k] = C[k - 1] + counts[k] /\ counts[k] \in Nat
  BY ChunksBeforeStep
<1> HIDE DEF C
<1>4. ASSUME NEW k \in 1 .. Len(counts), NEW x \in Nat, x < counts[k],
             NEW l \in Nat, k <= l
      PROVE  C[k - 1] + x < C[l]
  <2>1. C[k] = C[k - 1] + counts[k] /\ counts[k] \in Nat
    BY <1>3
  <2>2. k - 1 \in Nat /\ k \in Nat
    OBVIOUS
  <2>3. C[k - 1] \in Nat /\ C[k] \in Nat /\ C[l] \in Nat /\ C[k] <= C[l]
    BY <1>1, <1>2, <1>4, <2>2
  <2>4. \A c, n, d, e, z \in Nat : d = c + n /\ z < n /\ d <= e => c + z < e
    OBVIOUS
  <2> QED BY <1>4, <2>1, <2>3, <2>4, Zenon
<1>5. ASSUME NEW k \in 1 .. Len(counts), NEW x \in Nat, x < counts[k],
             NEW l \in 1 .. Len(counts), NEW y \in Nat, k < l
      PROVE  C[k - 1] + x # C[l - 1] + y
  <2>1. l - 1 \in Nat /\ k - 1 \in Nat /\ k <= l - 1
    BY <1>5
  <2>2. C[k - 1] + x < C[l - 1]
    BY <1>4, <1>5, <2>1
  <2>3. C[k - 1] \in Nat /\ C[l - 1] \in Nat
    BY <1>1, <2>1
  <2> QED BY <2>2, <2>3
<1>6. C[i - 1] + o < C[Len(counts)] /\ C[i - 1] + o \in Nat /\ C[Len(counts)] \in Nat
  <2>1. Len(counts) \in Nat /\ i <= Len(counts) /\ i - 1 \in Nat
    OBVIOUS
  <2>2. C[i - 1] + o < C[Len(counts)]
    BY <1>4, <2>1
  <2>3. C[i - 1] \in Nat /\ C[Len(counts)] \in Nat
    BY <1>1, <2>1
  <2> QED BY <2>2, <2>3
<1>7. C[i - 1] + o = C[j - 1] + p => i = j /\ o = p
  <2>1. i \in Nat /\ j \in Nat /\ i - 1 \in Nat /\ j - 1 \in Nat
    OBVIOUS
  <2>2. i < j \/ j < i \/ i = j
    BY <2>1
  <2>3. i < j => C[i - 1] + o # C[j - 1] + p
    BY <1>5
  <2>4. j < i => C[i - 1] + o # C[j - 1] + p
    BY <1>5
  <2>5. i = j /\ C[i - 1] + o = C[j - 1] + p => o = p
    BY <1>1, <2>1
  <2> QED BY <2>2, <2>3, <2>4, <2>5
<1>8. /\ C[i - 1] = ChunksBefore(counts, i - 1)
      /\ C[j - 1] = ChunksBefore(counts, j - 1)
      /\ C[Len(counts)] = ChunksBefore(counts, Len(counts))
  BY DEF C
<1> QED BY <1>6, <1>7, <1>8 DEF global_chunk_offset, total_chunks
===========================================================================
