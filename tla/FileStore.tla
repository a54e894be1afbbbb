----------------------------- MODULE FileStore -----------------------------
(***************************************************************************)
(* The receiver's file system under concurrent ChunkWriters                *)
(* (justdrop-storage/src/writer.rs), one system call at a time.  Transfer  *)
(* takes write_chunk and finalize as one step each; here the awaits inside *)
(* them are visible: between opening a file and writing to it, and between *)
(* finding a free name and renaming, other tasks run.                      *)
(*                                                                         *)
(* The folder maps names to inodes; a writer holds its inode while it has  *)
(* the file open, whatever name the inode has by then.  Contents are       *)
(* sequences of chunks.  Each writer here belongs to a transfer of its     *)
(* own; the writers of one transfer take turns, which only leaves fewer    *)
(* interleavings.                                                          *)
(***************************************************************************)
EXTENDS Naturals, Sequences

CONSTANTS
  Writers,     \* ChunkWriters, in the tasks of their transfers
  Contents,    \* contents of sources (of one version each)
  Content,     \* Content[w]: what the sender of w's transfer sends
  Chunks,      \* Chunks[c]: number of chunks of content c
  TempNames,   \* names of partial files
  FinalNames,  \* other names in the download folder
  Temp,        \* Temp[w]: dest_path.with_extension("justdrop_partial")
  Tries,       \* Tries[w]: dest_path and its (1), (2), ... variants
  Fallback,    \* Fallback[w]: the name with a fresh UUID
  Blank,       \* a chunk of an old file, or zeroes
  Gone,        \* no inode
  StatFails    \* whether try_exists may fail on a name that exists

Names == TempNames \cup FinalNames

\* Uuid::new_v4: no other file is ever called so.
Uuids == {Fallback[w] : w \in Writers}

\* Inodes are called after what created them: a writer, or the name an old file
\* has at the start.
Inodes == Writers \cup Names

ASSUME StoreAssumption ==
  /\ Content \in [Writers -> Contents]
  /\ Chunks \in [Contents -> Nat \ {0}]
  /\ Temp \in [Writers -> TempNames]
  /\ Tries \in [Writers -> Seq(FinalNames)]
  /\ Fallback \in [Writers -> FinalNames]
  /\ TempNames \cap FinalNames = {}
  /\ Writers \cap Names = {}
  /\ Gone \notin Inodes
  /\ StatFails \in BOOLEAN
  /\ \A w, v \in Writers : Fallback[w] = Fallback[v] => w = v
  /\ \A w \in Writers : \A k \in DOMAIN Tries[w] : Tries[w][k] \notin Uuids

VARIABLES
  dir,       \* dir[n]: the inode name n stands for, or Gone
  content,   \* content[x]: the chunks in inode x
  pc,        \* pc[w]: where the task of w stands
  handle,    \* handle[w]: the inode w has open
  chunk,     \* chunk[w]: the chunk being written
  recorded,  \* recorded[w]: completed_chunks
  try,       \* try[w]: number of the name unique_path tries next
  target     \* target[w]: the name unique_path returned

svars == <<dir, content, pc, handle, chunk, recorded, try, target>>

Chunk == [of : Contents, chunk : Nat]
Size(w) == Chunks[Content[w]]
ChunkOf(w, o) == [of |-> Content[w], chunk |-> o]
Exists(n) == dir[n] # Gone

SInit ==
  /\ \E old \in SUBSET (Names \ Uuids) : dir = [n \in Names |-> IF n \in old THEN n ELSE Gone]
  /\ content = [x \in Inodes |-> IF x \in Names THEN <<Blank>> ELSE <<>>]
  /\ pc = [w \in Writers |-> "new"]
  /\ handle = [w \in Writers |-> Gone]
  /\ chunk = [w \in Writers |-> 0]
  /\ recorded = [w \in Writers |-> {}]
  /\ try = [w \in Writers |-> 1]
  /\ target = Fallback

Goto(w, place) == pc' = [pc EXCEPT ![w] = place]

\* ChunkWriter::new opens the partial file, creating it if there is none, ...
NewOpen(w) ==
  /\ pc[w] = "new"
  /\ dir' = [dir EXCEPT ![Temp[w]] = IF @ = Gone THEN w ELSE @]
  /\ handle' = [handle EXCEPT ![w] = dir'[Temp[w]]]
  /\ Goto(w, "sizing")
  /\ UNCHANGED <<content, chunk, recorded, try, target>>

\* ... and sets the length of whatever it has open.
NewSetLen(w) ==
  /\ pc[w] = "sizing"
  /\ content' = [content EXCEPT ![handle[w]] =
       [k \in 1 .. Size(w) |-> IF k <= Len(@) THEN @[k] ELSE Blank]]
  /\ Goto(w, "receiving")
  /\ UNCHANGED <<dir, handle, chunk, recorded, try, target>>

\* Mutant: the partial file is opened without looking whether it is there.
WriteOpen_unchecked(w) ==
  /\ pc[w] = "receiving"
  /\ handle' = [handle EXCEPT ![w] = dir[Temp[w]]]
  /\ \E o \in (0 .. Size(w) - 1) \ recorded[w] : chunk' = [chunk EXCEPT ![w] = o]
  /\ Goto(w, "writing")
  /\ UNCHANGED <<dir, content, recorded, try, target>>

\* write_chunk opens the partial file by name ...
WriteOpen(w) ==
  /\ pc[w] = "receiving"
  /\ Exists(Temp[w])
  /\ handle' = [handle EXCEPT ![w] = dir[Temp[w]]]
  /\ \E o \in (0 .. Size(w) - 1) \ recorded[w] : chunk' = [chunk EXCEPT ![w] = o]
  /\ Goto(w, "writing")
  /\ UNCHANGED <<dir, content, recorded, try, target>>

\* ... which fails when another task has renamed it.
WriteOpenFails(w) ==
  /\ pc[w] = "receiving"
  /\ recorded[w] # 0 .. Size(w) - 1
  /\ ~Exists(Temp[w])
  /\ Goto(w, "failed")
  /\ UNCHANGED <<dir, content, handle, chunk, recorded, try, target>>

\* It writes the chunk into the file it opened and records it.
WriteData(w) ==
  /\ pc[w] = "writing"
  /\ LET at == chunk[w] + 1
     IN  content' = [content EXCEPT ![handle[w]] =
           [k \in 1 .. (IF Len(@) < at THEN at ELSE Len(@)) |->
              IF k = at THEN ChunkOf(w, chunk[w]) ELSE IF k <= Len(@) THEN @[k] ELSE Blank]]
  /\ recorded' = [recorded EXCEPT ![w] = @ \cup {chunk[w]}]
  /\ Goto(w, "receiving")
  /\ UNCHANGED <<dir, handle, chunk, try, target>>

\* TransferComplete: only a complete file is finalized.
StartFinalize(w) ==
  /\ pc[w] = "receiving"
  /\ recorded[w] = 0 .. Size(w) - 1
  /\ try' = [try EXCEPT ![w] = 1]
  /\ Goto(w, "probing")
  /\ UNCHANGED <<dir, content, handle, chunk, recorded, target>>

\* Mutant: the destination is taken as it is.
Probe_first(w) ==
  /\ pc[w] = "probing"
  /\ target' = [target EXCEPT ![w] = Tries[w][1]]
  /\ Goto(w, "renaming")
  /\ UNCHANGED <<dir, content, handle, chunk, recorded, try>>

\* unique_path looks at one name after the other; the first that does not
\* exist, or that cannot be looked at (unwrap_or(false)), is taken, a name with
\* a UUID when all exist.
Probe(w) ==
  LET more == try[w] \in DOMAIN Tries[w] IN
  /\ pc[w] = "probing"
  /\ \/ /\ more /\ Exists(Tries[w][try[w]])
        /\ try' = [try EXCEPT ![w] = @ + 1]
        /\ UNCHANGED <<pc, target>>
     \/ /\ more => StatFails \/ ~Exists(Tries[w][try[w]])
        /\ target' = [target EXCEPT ![w] = IF more THEN Tries[w][try[w]] ELSE Fallback[w]]
        /\ Goto(w, "renaming")
        /\ UNCHANGED try
  /\ UNCHANGED <<dir, content, handle, chunk, recorded>>

\* rename(2): the target name stands for the partial file now, whatever it
\* stood for before.
Rename(w) ==
  /\ pc[w] = "renaming"
  /\ Exists(Temp[w])
  /\ dir' = [dir EXCEPT ![target[w]] = dir[Temp[w]], ![Temp[w]] = Gone]
  /\ Goto(w, "done")
  /\ UNCHANGED <<content, handle, chunk, recorded, try, target>>

RenameFails(w) ==
  /\ pc[w] = "renaming"
  /\ ~Exists(Temp[w])
  /\ Goto(w, "failed")
  /\ UNCHANGED <<dir, content, handle, chunk, recorded, try, target>>

\* The task ends early: the process or the connection is gone, or the sender
\* sent less than everything.  The partial file stays.
GiveUp(w) ==
  /\ pc[w] \notin {"done", "failed"}
  /\ Goto(w, "failed")
  /\ UNCHANGED <<dir, content, handle, chunk, recorded, try, target>>

WriterStep(w) ==
  \/ NewOpen(w) \/ NewSetLen(w) \/ WriteOpen(w) \/ WriteOpenFails(w) \/ WriteData(w)
  \/ StartFinalize(w) \/ Probe(w) \/ Rename(w) \/ RenameFails(w) \/ GiveUp(w)

SNext == \E w \in Writers : WriterStep(w)

SSpec == SInit /\ [][SNext]_svars

---------------------------------------------------------------------------
(* Properties *)

StoreTypeOK ==
  /\ dir \in [Names -> Inodes \cup {Gone}]
  /\ content \in [Inodes -> Seq(Chunk \cup {Blank})]
  /\ pc \in [Writers -> {"new", "sizing", "receiving", "writing", "probing", "renaming",
                         "done", "failed"}]
  /\ handle \in [Writers -> Inodes \cup {Gone}]
  /\ \A w \in Writers : pc[w] \in {"sizing", "writing"} => handle[w] # Gone
  /\ chunk \in [Writers -> Nat]
  /\ recorded \in [Writers -> SUBSET Nat]
  /\ try \in [Writers -> Nat \ {0}]
  /\ target \in [Writers -> FinalNames]

\* The download folder as its user sees it.
Visible == {n \in FinalNames : dir[n] # Gone}

Folder == INSTANCE Downloads WITH
  Name   <- FinalNames,
  Whole  <- [w \in Writers |-> [k \in 1 .. Size(w) |-> ChunkOf(w, k - 1)]],
  folder <- [n \in Visible |-> content[dir[n]]],
  done   <- {w \in Writers : pc[w] = "done"}

\* The writers keep the promise of Downloads at every system call: the folder
\* only gains whole files under free names, and no file in it is replaced or
\* written to again.
ImplementsDownloads == Folder!DSpec

\* unique_path: a file that is in the folder is never replaced by another.
NeverReplaced ==
  [][\A n \in FinalNames : Exists(n) => dir'[n] = dir[n]]_svars

\* Renamed on completion: a file in the folder is not written to any more.
FrozenOnceDelivered ==
  [][\A n \in FinalNames : Exists(n) => content'[dir[n]] = content[dir[n]]]_svars

---------------------------------------------------------------------------
(* Inductive invariant (see FileStoreProofs) *)

TargetsOf(w) == {Tries[w][k] : k \in DOMAIN Tries[w]} \cup {Fallback[w]}

Busy == {"sizing", "receiving", "writing", "probing", "renaming"}

Share(w, v) == Temp[w] = Temp[v] \/ TargetsOf(w) \cap TargetsOf(v) # {}

\* Writers that share a partial file or a name to deliver under work one after
\* the other: nothing in RecvTransfer makes them wait.
SharersInTurn ==
  \A w, v \in Writers :
    w # v /\ pc[w] \in Busy /\ pc[v] \in Busy => ~Share(w, v)

\* No inode has two names, and a writer that has not opened its partial file
\* has created none.
OneNameEach ==
  /\ \A n, m \in Names : Exists(n) /\ dir[n] = dir[m] => n = m
  /\ \A w \in Writers : pc[w] = "new" => \A n \in Names : dir[n] # w

\* A working writer's partial file is there, and it is what the writer has open.
OwnTempFile ==
  \A w \in Writers :
    /\ pc[w] \in Busy => Exists(Temp[w])
    /\ pc[w] \in {"sizing", "writing"} => handle[w] = dir[Temp[w]]

\* The recorded chunks are in the partial file.
RecordedWritten ==
  \A w \in Writers :
    /\ pc[w] \in {"new", "sizing"} => recorded[w] = {}
    /\ pc[w] = "writing" => chunk[w] \in 0 .. Size(w) - 1
    /\ pc[w] \in {"probing", "renaming"} => recorded[w] = 0 .. Size(w) - 1
    /\ pc[w] \in Busy \ {"sizing"} =>
         /\ recorded[w] \subseteq 0 .. Size(w) - 1
         /\ Len(content[dir[Temp[w]]]) = Size(w)
         /\ \A o \in recorded[w] : content[dir[Temp[w]]][o + 1] = ChunkOf(w, o)

\* The name that was found free is still free.
TargetFree ==
  \A w \in Writers :
    /\ pc[w] # "done" => ~Exists(Fallback[w])
    /\ pc[w] = "renaming" => target[w] \in TargetsOf(w) /\ ~Exists(target[w])

StoreInv == StoreTypeOK /\ OneNameEach /\ OwnTempFile /\ RecordedWritten /\ TargetFree
===========================================================================
