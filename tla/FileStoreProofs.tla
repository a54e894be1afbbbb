-------------------------- MODULE FileStoreProofs --------------------------
(***************************************************************************)
(* When writers that share a name work one after the other, all of them    *)
(* keep the promise of Downloads at every system call, for any number of   *)
(* writers, files and old files, with what failed ones left behind.        *)
(***************************************************************************)
EXTENDS FileStore, TLAPS

\* The initial state satisfies the invariant.
LEMMA StoreInit == SInit => StoreInv
<1> SUFFICES ASSUME SInit PROVE StoreInv
  OBVIOUS
<1>1. PICK old \in SUBSET (Names \ Uuids) :
        dir = [n \in Names |-> IF n \in old THEN n ELSE Gone]
  BY DEF SInit
<1>2. /\ content = [x \in Inodes |-> IF x \in Names THEN <<Blank>> ELSE <<>>]
      /\ pc = [w \in Writers |-> "new"]
      /\ handle = [w \in Writers |-> Gone]
      /\ chunk = [w \in Writers |-> 0]
      /\ recorded = [w \in Writers |-> {}]
      /\ try = [w \in Writers |-> 1]
      /\ target = Fallback
  BY DEF SInit
<1>a. /\ Gone \notin Inodes /\ Writers \cap Names = {} /\ Names \subseteq Inodes
      /\ Fallback \in [Writers -> FinalNames] /\ FinalNames \subseteq Names
  BY StoreAssumption DEF StoreAssumption, Inodes, Names
<1>3. StoreTypeOK
  <2>1. dir \in [Names -> Inodes \cup {Gone}]
    BY <1>1, <1>a
  <2>2. content \in [Inodes -> Seq(Chunk \cup {Blank})]
    <3>1. <<Blank>> \in Seq(Chunk \cup {Blank}) /\ <<>> \in Seq(Chunk \cup {Blank})
      OBVIOUS
    <3> QED BY <1>2, <3>1
  <2> QED BY <1>2, <1>a, <2>1, <2>2 DEF StoreTypeOK
<1>4. OneNameEach
  <2>1. \A n \in Names : dir[n] # Gone => dir[n] = n
    BY <1>1, <1>a
  <2>2. \A n \in Names : dir[n] \in Names \cup {Gone}
    BY <1>1, <1>a
  <2>3. \A w \in Writers : w \notin Names /\ w # Gone
    BY <1>a DEF Inodes
  <2> QED BY <2>1, <2>2, <2>3 DEF OneNameEach, Exists
<1>5. OwnTempFile /\ RecordedWritten
  BY <1>2 DEF OwnTempFile, RecordedWritten, Busy
<1>6. TargetFree
  BY <1>1, <1>2, <1>a DEF TargetFree, Exists, Uuids
<1> QED BY <1>3, <1>4, <1>5, <1>6 DEF StoreInv

\* Every step keeps the types.
LEMMA StoreTypeStep ==
  ASSUME StoreTypeOK, [SNext]_svars
  PROVE  StoreTypeOK'
<1>a. /\ Gone \notin Inodes /\ Writers \subseteq Inodes /\ Names \subseteq Inodes
      /\ Temp \in [Writers -> TempNames] /\ TempNames \subseteq Names
      /\ Tries \in [Writers -> Seq(FinalNames)] /\ FinalNames \subseteq Names
      /\ Fallback \in [Writers -> FinalNames]
      /\ Content \in [Writers -> Contents]
      /\ Chunks \in [Contents -> Nat \ {0}]
  BY StoreAssumption DEF StoreAssumption, Inodes, Names
<1>t. StoreTypeOK
  OBVIOUS
<1>s. \A w \in Writers : Size(w) \in Nat \ {0}
  BY <1>a DEF Size
<1>1. CASE UNCHANGED svars
  BY <1>1, <1>t DEF svars, StoreTypeOK
<1>2. ASSUME NEW w \in Writers, WriterStep(w) PROVE StoreTypeOK'
  <2>1. CASE NewOpen(w)
    BY <1>a, <1>t, <2>1 DEF NewOpen, StoreTypeOK, Goto
  <2>2. CASE NewSetLen(w)
    <3>1. content[handle[w]] \in Seq(Chunk \cup {Blank}) /\ handle[w] \in Inodes
      BY <1>t, <2>2 DEF NewSetLen, StoreTypeOK
    <3>2. [k \in 1 .. Size(w) |-> IF k <= Len(content[handle[w]]) THEN content[handle[w]][k] ELSE Blank]
            \in Seq(Chunk \cup {Blank})
      BY <1>s, <3>1
    <3>3. content' \in [Inodes -> Seq(Chunk \cup {Blank})]
      BY <1>t, <2>2, <3>1, <3>2 DEF NewSetLen, StoreTypeOK
    <3> QED BY <1>t, <2>2, <3>3 DEF NewSetLen, StoreTypeOK, Goto
  <2>3. CASE WriteOpen(w)
    <3>1. chunk' \in [Writers -> Nat]
      BY <1>t, <1>s, <2>3 DEF WriteOpen, StoreTypeOK
    <3> QED BY <1>a, <1>t, <2>3, <3>1 DEF WriteOpen, StoreTypeOK, Goto, Exists
  <2>4. CASE WriteOpenFails(w)
    BY <1>t, <2>4 DEF WriteOpenFails, StoreTypeOK, Goto
  <2>5. CASE WriteData(w)
    <3> DEFINE old == content[handle[w]]
               new == [k \in 1 .. (IF Len(old) < chunk[w] + 1 THEN chunk[w] + 1 ELSE Len(old)) |->
                         IF k = chunk[w] + 1 THEN ChunkOf(w, chunk[w])
                         ELSE IF k <= Len(old) THEN old[k] ELSE Blank]
    <3>1. old \in Seq(Chunk \cup {Blank}) /\ handle[w] \in Inodes /\ chunk[w] \in Nat
      BY <1>t, <2>5 DEF WriteData, StoreTypeOK
    <3>2. ChunkOf(w, chunk[w]) \in Chunk
      BY <1>a, <3>1 DEF ChunkOf, Chunk
    <3>3. content' = [content EXCEPT ![handle[w]] = new]
      BY <2>5 DEF WriteData
    <3>4. new \in Seq(Chunk \cup {Blank})
      <4> HIDE DEF old
      <4> QED BY <3>1, <3>2
    <3>5. content' \in [Inodes -> Seq(Chunk \cup {Blank})]
      <4> HIDE DEF new
      <4> QED BY <1>t, <3>3, <3>4 DEF StoreTypeOK
    <3>6. recorded' \in [Writers -> SUBSET Nat]
      BY <1>t, <2>5, <3>1 DEF WriteData, StoreTypeOK
    <3> QED BY <1>t, <2>5, <3>5, <3>6 DEF WriteData, StoreTypeOK, Goto
  <2>6. CASE StartFinalize(w)
    BY <1>t, <2>6 DEF StartFinalize, StoreTypeOK, Goto
  <2>7. CASE Probe(w)
    <3>1. try[w] \in Nat \ {0} /\ try[w] + 1 \in Nat \ {0}
      BY <1>t DEF StoreTypeOK
    <3>2. try' = [try EXCEPT ![w] = try[w] + 1] \/ try' = try
      BY <2>7 DEF Probe
    <3>3. try' \in [Writers -> Nat \ {0}]
      BY <1>t, <3>1, <3>2 DEF StoreTypeOK
    <3>4. \A k \in DOMAIN Tries[w] : Tries[w][k] \in FinalNames
      BY <1>a
    <3>5. \E n \in FinalNames : target' = [target EXCEPT ![w] = n] \/ target' = target
      BY <1>a, <2>7, <3>4 DEF Probe
    <3>6. target' \in [Writers -> FinalNames]
      BY <1>t, <3>5 DEF StoreTypeOK
    <3> QED BY <1>t, <2>7, <3>3, <3>6 DEF Probe, StoreTypeOK, Goto
  <2>8. CASE Rename(w)
    <3>1. dir' \in [Names -> Inodes \cup {Gone}]
      BY <1>a, <1>t, <2>8 DEF Rename, StoreTypeOK
    <3> QED BY <1>t, <2>8, <3>1 DEF Rename, StoreTypeOK, Goto
  <2>9. CASE RenameFails(w)
    BY <1>t, <2>9 DEF RenameFails, StoreTypeOK, Goto
  <2>10. CASE GiveUp(w)
    BY <1>t, <2>10 DEF GiveUp, StoreTypeOK, Goto
  <2> QED BY <1>2, <2>1, <2>2, <2>3, <2>4, <2>5, <2>6, <2>7, <2>8, <2>9, <2>10 DEF WriterStep
<1> QED BY <1>1, <1>2 DEF SNext

---------------------------------------------------------------------------
(* Names and inodes *)

\* The constants, as the steps below use them.
LEMMA NamesFacts ==
  /\ Gone \notin Inodes /\ Writers \subseteq Inodes /\ Names \subseteq Inodes
  /\ TempNames \subseteq Names /\ FinalNames \subseteq Names
  /\ TempNames \cap FinalNames = {}
  /\ \A w \in Writers :
       /\ w # Gone
       /\ Temp[w] \in TempNames
       /\ TargetsOf(w) \subseteq FinalNames
       /\ Fallback[w] \in FinalNames
       /\ Size(w) \in Nat \ {0}
<1>1. \A w \in Writers : TargetsOf(w) \subseteq FinalNames
  <2>1. /\ Tries \in [Writers -> Seq(FinalNames)]
        /\ Fallback \in [Writers -> FinalNames]
    BY StoreAssumption DEF StoreAssumption
  <2>2. \A w \in Writers : \A k \in DOMAIN Tries[w] : Tries[w][k] \in FinalNames
    BY <2>1
  <2> QED BY <2>1, <2>2 DEF TargetsOf
<1>2. \A w \in Writers : Size(w) \in Nat \ {0}
  BY StoreAssumption DEF StoreAssumption, Size
<1> QED BY <1>1, <1>2, StoreAssumption DEF StoreAssumption, Inodes, Names

\* Creating a partial file and renaming one leave every inode one name.
LEMMA OneNameStep ==
  ASSUME StoreInv, [SNext]_svars
  PROVE  OneNameEach'
<1>t. /\ OneNameEach /\ TargetFree
      /\ dir \in [Names -> Inodes \cup {Gone}]
      /\ pc \in [Writers -> {"new", "sizing", "receiving", "writing", "probing", "renaming",
                            "done", "failed"}]
  BY DEF StoreInv, StoreTypeOK
<1>1. CASE UNCHANGED svars
  BY <1>1, <1>t DEF svars, OneNameEach, Exists
<1>2. ASSUME NEW w \in Writers, WriterStep(w) PROVE OneNameEach'
  <2>1. CASE NewOpen(w)
    <3>1. /\ pc[w] = "new" /\ pc' = [pc EXCEPT ![w] = "sizing"]
          /\ dir' = [dir EXCEPT ![Temp[w]] = IF dir[Temp[w]] = Gone THEN w ELSE dir[Temp[w]]]
      BY <2>1 DEF NewOpen, Goto
    <3>2. Temp[w] \in Names /\ w # Gone /\ \A n \in Names : dir[n] # w
      BY <1>t, <3>1, NamesFacts DEF OneNameEach
    <3>3. \A n \in Names : dir'[n] = dir[n] \/ (n = Temp[w] /\ dir[n] = Gone /\ dir'[n] = w)
      BY <1>t, <3>1, <3>2
    <3>4. \A v \in Writers : pc'[v] = "new" => pc[v] = "new" /\ v # w
      BY <1>t, <3>1
    <3> QED BY <1>t, <3>2, <3>3, <3>4 DEF OneNameEach, Exists
  <2>2. CASE Rename(w)
    <3>1. /\ pc[w] = "renaming" /\ pc' = [pc EXCEPT ![w] = "done"]
          /\ dir[Temp[w]] # Gone
          /\ dir' = [dir EXCEPT ![target[w]] = dir[Temp[w]], ![Temp[w]] = Gone]
      BY <2>2 DEF Rename, Goto, Exists
    <3>2. Temp[w] \in Names /\ target[w] \in Names /\ target[w] # Temp[w]
      BY <1>t, <3>1, NamesFacts DEF TargetFree
    <3>3. \A n \in Names :
            dir'[n] = IF n = Temp[w] THEN Gone ELSE IF n = target[w] THEN dir[Temp[w]] ELSE dir[n]
      BY <1>t, <3>1, <3>2
    <3>4. \A v \in Writers : pc'[v] = "new" => pc[v] = "new"
      BY <1>t, <3>1
    <3>5. \A v \in Writers : v # Gone
      BY NamesFacts
    <3>6. \A n, m \in Names : Exists(n)' /\ dir'[n] = dir'[m] => n = m
      BY <1>t, <3>1, <3>2, <3>3 DEF OneNameEach, Exists
    <3>7. \A v \in Writers : pc'[v] = "new" => \A n \in Names : dir'[n] # v
      BY <1>t, <3>2, <3>3, <3>4, <3>5 DEF OneNameEach
    <3> QED BY <3>6, <3>7 DEF OneNameEach
  <2>3. CASE ~NewOpen(w) /\ ~Rename(w)
    <3>1. dir' = dir
      BY <1>2, <2>3 DEF WriterStep, NewSetLen, WriteOpen, WriteOpenFails, WriteData,
                        StartFinalize, Probe, RenameFails, GiveUp
    <3>2. \A v \in Writers : pc'[v] = "new" => pc[v] = "new"
      <4>1. \E place \in {"receiving", "writing", "failed", "probing", "renaming"} :
              pc' = [pc EXCEPT ![w] = place] \/ pc' = pc
        BY <1>2, <2>3 DEF WriterStep, NewSetLen, WriteOpen, WriteOpenFails, WriteData,
                          StartFinalize, Probe, RenameFails, GiveUp, Goto
      <4> QED BY <1>t, <4>1
    <3> QED BY <1>t, <3>1, <3>2 DEF OneNameEach, Exists
  <2> QED BY <2>1, <2>2, <2>3
<1> QED BY <1>1, <1>2 DEF SNext

\* A step of w leaves the state of another writer v alone.
LEMMA OthersState ==
  ASSUME StoreTypeOK, NEW w \in Writers, WriterStep(w), NEW v \in Writers, v # w
  PROVE  /\ pc'[v] = pc[v] /\ handle'[v] = handle[v] /\ chunk'[v] = chunk[v]
         /\ recorded'[v] = recorded[v] /\ try'[v] = try[v] /\ target'[v] = target[v]
BY DEF StoreTypeOK, WriterStep, NewOpen, NewSetLen, WriteOpen, WriteOpenFails, WriteData,
       StartFinalize, Probe, Rename, RenameFails, GiveUp, Goto

\* A writer that touches a file shares no name with one at work.
LEMMA NamesApart ==
  ASSUME StoreInv, SharersInTurn, SharersInTurn', NEW w \in Writers, WriterStep(w),
         NEW v \in Writers, v # w, pc[v] \in Busy, ~GiveUp(w)
  PROVE  ~Share(w, v)
<1>1. pc'[v] = pc[v]
  BY OthersState DEF StoreInv
<1>2. CASE NewOpen(w)
  <2>1. pc'[w] = "sizing"
    BY <1>2 DEF NewOpen, Goto, StoreInv, StoreTypeOK
  <2>2. Share(w, v)' = Share(w, v)
    BY DEF Share, TargetsOf
  <2> QED BY <1>1, <2>1, <2>2 DEF SharersInTurn, Busy
<1>3. CASE ~NewOpen(w)
  <2>1. pc[w] \in Busy
    BY <1>3 DEF WriterStep, NewSetLen, WriteOpen, WriteOpenFails, WriteData, StartFinalize,
                Probe, Rename, RenameFails, Busy
  <2> QED BY <2>1 DEF SharersInTurn
<1> QED BY <1>2, <1>3

\* What a step of w leaves alone: sharing no name with another writer v at work,
\* it does not touch v's partial file.
LEMMA OthersUntouched ==
  ASSUME StoreInv, SharersInTurn, SharersInTurn', NEW w \in Writers, WriterStep(w),
         NEW v \in Writers, v # w, pc[v] \in Busy
  PROVE  /\ dir'[Temp[v]] = dir[Temp[v]]
         /\ Exists(Temp[v]) => content'[dir[Temp[v]]] = content[dir[Temp[v]]]
<1>0. CASE GiveUp(w)
  BY <1>0 DEF GiveUp
<1> SUFFICES ASSUME ~GiveUp(w)
             PROVE  /\ dir'[Temp[v]] = dir[Temp[v]]
                    /\ Exists(Temp[v]) => content'[dir[Temp[v]]] = content[dir[Temp[v]]]
  BY <1>0
<1>t. /\ OneNameEach /\ OwnTempFile /\ TargetFree /\ StoreTypeOK
  BY DEF StoreInv
<1>n. Temp[v] # Temp[w] /\ Temp[v] \in Names /\ Temp[w] \in Names /\ Temp[v] \notin FinalNames
  BY NamesFacts, NamesApart DEF Share
<1>2. dir'[Temp[v]] = dir[Temp[v]]
  <2>1. CASE NewOpen(w)
    BY <1>n, <1>t, <2>1 DEF NewOpen, StoreTypeOK
  <2>2. CASE Rename(w)
    <3>1. target[w] # Temp[v]
      BY <1>n, <1>t, <2>2, NamesFacts DEF Rename, TargetFree
    <3> QED BY <1>n, <1>t, <2>2, <3>1 DEF Rename, StoreTypeOK
  <2>3. CASE ~NewOpen(w) /\ ~Rename(w)
    BY <2>3 DEF WriterStep, NewSetLen, WriteOpen, WriteOpenFails, WriteData,
                StartFinalize, Probe, RenameFails, GiveUp
  <2> QED BY <2>1, <2>2, <2>3
<1>3. ASSUME Exists(Temp[v]) PROVE content'[dir[Temp[v]]] = content[dir[Temp[v]]]
  <2>1. CASE NewSetLen(w) \/ WriteData(w)
    <3>1. pc[w] \in {"sizing", "writing"}
      BY <2>1 DEF NewSetLen, WriteData
    <3>2. handle[w] = dir[Temp[w]] /\ Exists(Temp[w])
      BY <1>t, <3>1 DEF OwnTempFile, Busy
    <3>3. dir[Temp[w]] # dir[Temp[v]]
      BY <1>3, <1>n, <1>t, <3>2 DEF OneNameEach
    <3>4. \E bytes : content' = [content EXCEPT ![handle[w]] = bytes]
      BY <2>1 DEF NewSetLen, WriteData
    <3> QED BY <1>t, <3>2, <3>3, <3>4 DEF StoreTypeOK
  <2>2. CASE ~NewSetLen(w) /\ ~WriteData(w)
    BY <2>2 DEF WriterStep, NewOpen, WriteOpen, WriteOpenFails, StartFinalize, Probe, Rename,
                RenameFails, GiveUp
  <2> QED BY <2>1, <2>2
<1> QED BY <1>2, <1>3

\* The partial file of a working writer stays where it is.
LEMMA OwnTempStep ==
  ASSUME StoreInv, ~StatFails, SharersInTurn, SharersInTurn', [SNext]_svars
  PROVE  OwnTempFile'
<1>t. OwnTempFile /\ StoreTypeOK
  BY DEF StoreInv
<1>1. CASE UNCHANGED svars
  BY <1>1, <1>t DEF svars, OwnTempFile, Exists
<1>2. ASSUME NEW w \in Writers, WriterStep(w),
             NEW v \in Writers
      PROVE  /\ pc'[v] \in Busy => Exists(Temp[v])'
             /\ pc'[v] \in {"sizing", "writing"} => handle'[v] = dir'[Temp[v]]
  <2>1. CASE v # w
    BY <1>2, <1>t, <2>1, OthersState, OthersUntouched DEF OwnTempFile, Exists, Busy
  <2>2. CASE v = w /\ NewOpen(w)
    <3>1. Temp[w] \in Names /\ w # Gone
      BY NamesFacts
    <3> QED BY <1>t, <2>2, <3>1 DEF NewOpen, StoreTypeOK, Exists
  <2>3. CASE v = w /\ (NewSetLen(w) \/ WriteData(w) \/ StartFinalize(w) \/ Probe(w))
    <3>1. pc[w] \in Busy /\ dir' = dir /\ (pc'[w] = pc[w] \/ pc'[w] \notin {"sizing", "writing"})
      BY <1>t, <2>3 DEF NewSetLen, WriteData, StartFinalize, Probe, StoreTypeOK, Goto, Busy
    <3>2. pc[w] \notin {"sizing", "writing"} \/ pc'[w] \notin {"sizing", "writing"}
      BY <1>t, <2>3 DEF NewSetLen, WriteData, StartFinalize, Probe, StoreTypeOK, Goto
    <3> QED BY <1>t, <2>3, <3>1, <3>2 DEF OwnTempFile, Exists
  <2>4. CASE v = w /\ WriteOpen(w)
    BY <1>t, <2>4 DEF WriteOpen, StoreTypeOK, Exists, Goto
  <2>5. CASE v = w /\ (WriteOpenFails(w) \/ Rename(w) \/ RenameFails(w) \/ GiveUp(w))
    <3>1. pc'[w] \in {"failed", "done"}
      BY <1>t, <2>5 DEF WriteOpenFails, Rename, RenameFails, GiveUp, StoreTypeOK, Goto
    <3> QED BY <2>5, <3>1 DEF Busy
  <2> QED BY <1>2, <2>1, <2>2, <2>3, <2>4, <2>5 DEF WriterStep
<1> QED BY <1>1, <1>2 DEF SNext, OwnTempFile

\* unique_path's answer stays free until the rename, and so does the UUID name.
LEMMA TargetStep ==
  ASSUME StoreInv, ~StatFails, SharersInTurn, SharersInTurn', [SNext]_svars
  PROVE  TargetFree'
<1>t. TargetFree /\ StoreTypeOK
  BY DEF StoreInv
<1>1. CASE UNCHANGED svars
  BY <1>1, <1>t DEF svars, TargetFree, Exists
<1>2. ASSUME NEW w \in Writers, WriterStep(w),
             NEW v \in Writers
      PROVE  /\ pc'[v] # "done" => ~Exists(Fallback[v])'
             /\ pc'[v] = "renaming" => target'[v] \in TargetsOf(v) /\ (dir'[target'[v]] = Gone)
  <2>f. /\ \A u \in Writers : TargetsOf(u) \subseteq FinalNames /\ Fallback[u] \in TargetsOf(u)
        /\ Temp[w] \in TempNames /\ TempNames \cap FinalNames = {}
        /\ FinalNames \subseteq Names /\ TempNames \subseteq Names
    BY NamesFacts DEF TargetsOf
  <2>1. CASE v # w
    <3>1. pc'[v] = pc[v] /\ target'[v] = target[v]
      BY <1>t, <1>2, <2>1, OthersState
    <3>2. /\ dir'[Fallback[v]] = dir[Fallback[v]]
          /\ pc[v] \in Busy => \A n \in TargetsOf(v) : dir'[n] = dir[n]
      <4>1. CASE NewOpen(w)
        BY <1>t, <2>f, <4>1 DEF NewOpen, StoreTypeOK
      <4>2. CASE Rename(w)
        <5>1. target[w] \in TargetsOf(w)
          BY <1>t, <4>2 DEF Rename, TargetFree
        <5>2. target[w] # Fallback[v]
          <6>1. Fallback[w] # Fallback[v] /\ \A k \in DOMAIN Tries[w] : Tries[w][k] # Fallback[v]
            BY <2>1, StoreAssumption DEF StoreAssumption, Uuids
          <6> QED BY <5>1, <6>1 DEF TargetsOf
        <5>3. ASSUME pc[v] \in Busy PROVE target[w] \notin TargetsOf(v)
          <6>1. ~GiveUp(w)
            BY <1>t, <4>2 DEF Rename, GiveUp, Goto, StoreTypeOK
          <6> QED BY <1>2, <2>1, <5>1, <5>3, <6>1, NamesApart DEF Share
        <5> QED BY <1>t, <2>f, <4>2, <5>2, <5>3 DEF Rename, StoreTypeOK
      <4>3. CASE ~NewOpen(w) /\ ~Rename(w)
        BY <1>2, <4>3 DEF WriterStep, NewSetLen, WriteOpen, WriteOpenFails, WriteData,
                    StartFinalize, Probe, RenameFails, GiveUp
      <4> QED BY <4>1, <4>2, <4>3
    <3> QED BY <1>t, <2>f, <3>1, <3>2 DEF TargetFree, Exists, Busy
  <2>2. CASE v = w /\ NewOpen(w)
    <3>1. dir'[Fallback[w]] = dir[Fallback[w]] /\ pc[w] = "new" /\ pc'[w] = "sizing"
      BY <1>t, <2>f, <2>2 DEF NewOpen, StoreTypeOK, Goto
    <3> QED BY <1>t, <2>2, <3>1 DEF TargetFree, Exists
  <2>3. CASE v = w /\ Probe(w)
    <3>1. dir' = dir /\ pc[w] = "probing" /\ dir[Fallback[w]] = Gone
      BY <1>t, <2>3 DEF Probe, TargetFree, Exists
    <3>2. CASE try[w] \in DOMAIN Tries[w] /\ Exists(Tries[w][try[w]])
      <4>1. pc' = pc /\ target' = target
        BY <2>3, <3>2 DEF Probe
      <4> QED BY <2>3, <3>1, <4>1 DEF Exists
    <3>3. CASE ~(try[w] \in DOMAIN Tries[w] /\ Exists(Tries[w][try[w]]))
      <4>1. target'[w] = IF try[w] \in DOMAIN Tries[w] THEN Tries[w][try[w]] ELSE Fallback[w]
        BY <1>t, <2>3, <3>3 DEF Probe, StoreTypeOK
      <4>2. target'[w] \in TargetsOf(w)
        BY <4>1 DEF TargetsOf
      <4>3. dir[target'[w]] = Gone
        BY <3>1, <3>3, <4>1 DEF Exists
      <4> QED BY <2>3, <3>1, <4>2, <4>3 DEF Exists
    <3> QED BY <3>2, <3>3
  <2>4. CASE v = w /\ (NewSetLen(w) \/ WriteOpen(w) \/ WriteOpenFails(w) \/ WriteData(w)
                       \/ StartFinalize(w) \/ RenameFails(w) \/ GiveUp(w))
    <3>1. dir' = dir /\ pc[w] # "done" /\ pc'[w] # "renaming"
      BY <1>t, <2>4 DEF NewSetLen, WriteOpen, WriteOpenFails, WriteData, StartFinalize,
                        RenameFails, GiveUp, StoreTypeOK, Goto
    <3> QED BY <1>t, <2>4, <3>1 DEF TargetFree, Exists
  <2>5. CASE v = w /\ Rename(w)
    BY <1>t, <2>5 DEF Rename, StoreTypeOK, Goto
  <2> QED BY <1>2, <2>1, <2>2, <2>3, <2>4, <2>5 DEF WriterStep
<1> QED BY <1>1, <1>2 DEF SNext, TargetFree, Exists

\* The recorded chunks of a writer are in its partial file.
LEMMA RecordedStep ==
  ASSUME StoreInv, ~StatFails, SharersInTurn, SharersInTurn', [SNext]_svars
  PROVE  RecordedWritten'
<1> DEFINE Good(v) ==
      /\ pc[v] \in {"new", "sizing"} => recorded[v] = {}
      /\ pc[v] = "writing" => chunk[v] \in 0 .. Size(v) - 1
      /\ pc[v] \in {"probing", "renaming"} => recorded[v] = 0 .. Size(v) - 1
      /\ pc[v] \in Busy \ {"sizing"} =>
           /\ recorded[v] \subseteq 0 .. Size(v) - 1
           /\ Len(content[dir[Temp[v]]]) = Size(v)
           /\ \A o \in recorded[v] : content[dir[Temp[v]]][o + 1] = ChunkOf(v, o)
<1>t. RecordedWritten /\ StoreTypeOK /\ OwnTempFile
  BY DEF StoreInv
<1>g. \A v \in Writers : Good(v)
  BY <1>t DEF RecordedWritten
<1>1. CASE UNCHANGED svars
  BY <1>1, <1>t DEF svars, RecordedWritten
<1>2. ASSUME NEW w \in Writers, WriterStep(w), NEW v \in Writers
      PROVE  Good(v)'
  <2>s. Size(w) \in Nat \ {0}
    BY NamesFacts
  <2>1. CASE v # w
    <3>1. pc'[v] = pc[v] /\ recorded'[v] = recorded[v] /\ chunk'[v] = chunk[v]
      BY <1>t, <1>2, <2>1, OthersState
    <3>3. pc[v] \in Busy =>
            /\ dir'[Temp[v]] = dir[Temp[v]]
            /\ Exists(Temp[v]) => content'[dir[Temp[v]]] = content[dir[Temp[v]]]
      BY <1>2, <2>1, OthersUntouched
    <3>2. pc[v] \in Busy => Exists(Temp[v])
      BY <1>t DEF OwnTempFile
    <3> QED BY <1>g, <3>1, <3>2, <3>3
  <2>2. CASE v = w /\ NewOpen(w)
    <3>1. pc[w] = "new" /\ pc'[w] = "sizing" /\ recorded' = recorded
      BY <1>t, <2>2 DEF NewOpen, StoreTypeOK, Goto
    <3> QED BY <1>g, <2>2, <3>1
  <2>3. CASE v = w /\ NewSetLen(w)
    <3> DEFINE old == content[handle[w]]
               new == [k \in 1 .. Size(w) |-> IF k <= Len(old) THEN old[k] ELSE Blank]
    <3>1. /\ pc[w] = "sizing" /\ pc'[w] = "receiving" /\ recorded' = recorded /\ dir' = dir
          /\ content' = [content EXCEPT ![handle[w]] = new]
      BY <1>t, <2>3 DEF NewSetLen, StoreTypeOK, Goto
    <3>2. handle[w] = dir[Temp[w]] /\ handle[w] \in Inodes
      BY <1>t, <3>1 DEF OwnTempFile, StoreTypeOK
    <3>3. Len(new) = Size(w)
      BY <2>s
    <3>4. content'[dir'[Temp[w]]] = new
      <4> HIDE DEF new
      <4> QED BY <1>t, <3>1, <3>2 DEF StoreTypeOK
    <3>5. recorded'[w] = {}
      BY <1>g, <3>1
    <3>6. Len(content'[dir'[Temp[w]]]) = Size(w)
      BY <3>3, <3>4
    <3> HIDE DEF new
    <3> QED BY <2>3, <3>1, <3>5, <3>6
  <2>4. CASE v = w /\ WriteOpen(w)
    <3>1. /\ pc[w] = "receiving" /\ pc'[w] = "writing" /\ recorded' = recorded
          /\ dir' = dir /\ content' = content
          /\ chunk'[w] \in 0 .. Size(w) - 1
      BY <1>t, <2>4 DEF WriteOpen, StoreTypeOK, Goto
    <3> QED BY <1>g, <2>4, <3>1 DEF Busy
  <2>5. CASE v = w /\ WriteData(w)
    <3> DEFINE old == content[handle[w]]
               new == [k \in 1 .. (IF Len(old) < chunk[w] + 1 THEN chunk[w] + 1 ELSE Len(old)) |->
                         IF k = chunk[w] + 1 THEN ChunkOf(w, chunk[w])
                         ELSE IF k <= Len(old) THEN old[k] ELSE Blank]
    <3>1. /\ pc[w] = "writing" /\ pc'[w] = "receiving" /\ dir' = dir
          /\ recorded'[w] = recorded[w] \cup {chunk[w]}
          /\ content' = [content EXCEPT ![handle[w]] = new]
      BY <1>t, <2>5 DEF WriteData, StoreTypeOK, Goto
    <3>2. handle[w] = dir[Temp[w]] /\ handle[w] \in Inodes /\ chunk[w] \in 0 .. Size(w) - 1
      BY <1>t, <1>g, <3>1 DEF OwnTempFile, StoreTypeOK
    <3>3. /\ recorded[w] \subseteq 0 .. Size(w) - 1 /\ Len(old) = Size(w)
          /\ \A o \in recorded[w] : old[o + 1] = ChunkOf(w, o)
      BY <1>g, <3>1, <3>2 DEF Busy
    <3>4. content'[dir'[Temp[w]]] = new
      <4> HIDE DEF new
      <4> QED BY <1>t, <3>1, <3>2 DEF StoreTypeOK
    <3>5. /\ Len(new) = Size(w)
          /\ \A o \in recorded[w] \cup {chunk[w]} : new[o + 1] = ChunkOf(w, o)
      <4> HIDE DEF old
      <4> QED BY <2>s, <3>2, <3>3
    <3>6. /\ recorded'[w] \subseteq 0 .. Size(w) - 1
          /\ Len(content'[dir'[Temp[w]]]) = Size(w)
          /\ \A o \in recorded'[w] : content'[dir'[Temp[w]]][o + 1] = ChunkOf(w, o)
      <4> HIDE DEF new
      <4> QED BY <3>1, <3>2, <3>3, <3>4, <3>5
    <3> HIDE DEF new
    <3> QED BY <2>5, <3>1, <3>6
  <2>6. CASE v = w /\ (StartFinalize(w) \/ Probe(w))
    <3>1. /\ pc[w] \in {"receiving", "probing"} /\ pc'[w] \in {"probing", "renaming"}
          /\ recorded' = recorded /\ dir' = dir /\ content' = content
          /\ pc[w] = "receiving" => recorded[w] = 0 .. Size(w) - 1
      BY <1>t, <2>6 DEF StartFinalize, Probe, StoreTypeOK, Goto
    <3> QED BY <1>g, <2>6, <3>1 DEF Busy
  <2>7. CASE v = w /\ (WriteOpenFails(w) \/ Rename(w) \/ RenameFails(w) \/ GiveUp(w))
    <3>1. pc'[w] \in {"failed", "done"}
      BY <1>t, <2>7 DEF WriteOpenFails, Rename, RenameFails, GiveUp, StoreTypeOK, Goto
    <3> QED BY <2>7, <3>1 DEF Busy
  <2> QED BY <1>2, <2>1, <2>2, <2>3, <2>4, <2>5, <2>6, <2>7 DEF WriterStep
<1>3. [SNext]_svars => UNCHANGED svars \/ \E w \in Writers : WriterStep(w)
  BY DEF SNext
<1>4. ASSUME NEW w \in Writers, WriterStep(w) PROVE RecordedWritten'
  <2>1. \A v \in Writers : Good(v)'
    BY <1>2, <1>4
  <2> QED BY <2>1 DEF RecordedWritten
<1> QED BY <1>1, <1>3, <1>4

\* StoreInv is inductive.
LEMMA StoreStep ==
  ASSUME StoreInv, ~StatFails, SharersInTurn, SharersInTurn', [SNext]_svars
  PROVE  StoreInv'
<1>1. StoreTypeOK'
  BY StoreTypeStep DEF StoreInv
<1>2. OneNameEach'
  BY OneNameStep
<1>3. OwnTempFile'
  BY OwnTempStep
<1>4. RecordedWritten'
  BY RecordedStep
<1>5. TargetFree'
  BY TargetStep
<1> QED BY <1>1, <1>2, <1>3, <1>4, <1>5 DEF StoreInv

---------------------------------------------------------------------------
(* Refinement *)

\* A step maps to the delivery of a whole file under a free name, or to nothing:
\* creating, sizing and writing partial files changes nothing in the folder.
LEMMA DownloadsStep ==
  ASSUME StoreInv, ~StatFails, SharersInTurn, SharersInTurn', [SNext]_svars
  PROVE  [Folder!DNext]_(Folder!dvars)
<1> DEFINE folder == [n \in Visible |-> content[dir[n]]]
           done   == {w \in Writers : pc[w] = "done"}
           whole(w) == [k \in 1 .. Size(w) |-> ChunkOf(w, k - 1)]
<1>t. StoreTypeOK /\ OneNameEach /\ OwnTempFile /\ RecordedWritten /\ TargetFree
  BY DEF StoreInv
<1>n. /\ FinalNames \subseteq Names /\ TempNames \subseteq Names
      /\ TempNames \cap FinalNames = {}
      /\ \A w \in Writers : Temp[w] \in TempNames /\ TargetsOf(w) \subseteq FinalNames
                            /\ Size(w) \in Nat \ {0}
  BY NamesFacts
<1>1. CASE UNCHANGED svars
  BY <1>1 DEF svars, Folder!dvars, Visible
<1>2. ASSUME NEW w \in Writers, NEW free \in FinalNames, target[w] = free, Rename(w)
      PROVE  Folder!Deliver(w, free)
  <2>1. /\ pc[w] = "renaming" /\ pc' = [pc EXCEPT ![w] = "done"] /\ content' = content
        /\ dir' = [dir EXCEPT ![target[w]] = dir[Temp[w]], ![Temp[w]] = Gone]
        /\ dir[Temp[w]] # Gone
    BY <1>2 DEF Rename, Goto, Exists
  <2>2. /\ target[w] \in FinalNames /\ dir[target[w]] = Gone /\ Temp[w] \notin FinalNames
        /\ Temp[w] \in Names /\ target[w] \in Names
    BY <1>n, <1>t, <2>1 DEF TargetFree, Exists
  <2>3. w \notin done /\ done' = done \cup {w}
    BY <1>t, <2>1 DEF StoreTypeOK
  <2>4. target[w] \notin Visible
    BY <2>2 DEF Visible
  <2>5. \A n \in FinalNames : dir'[n] = IF n = target[w] THEN dir[Temp[w]] ELSE dir[n]
    BY <1>n, <1>t, <2>1, <2>2 DEF StoreTypeOK
  <2>6. Visible' = Visible \cup {target[w]}
    BY <2>1, <2>2, <2>5 DEF Visible
  <2>7. content[dir[Temp[w]]] = whole(w)
    <3>1. /\ Len(content[dir[Temp[w]]]) = Size(w)
          /\ \A o \in 0 .. Size(w) - 1 : content[dir[Temp[w]]][o + 1] = ChunkOf(w, o)
      BY <1>t, <2>1 DEF RecordedWritten, Busy
    <3>2. dir[Temp[w]] \in Inodes
      BY <1>t, <2>1, <2>2 DEF StoreTypeOK
    <3>3. content[dir[Temp[w]]] \in Seq(Chunk \cup {Blank})
      BY <1>t, <3>2 DEF StoreTypeOK
    <3>4. \A k \in 1 .. Size(w) : k - 1 \in 0 .. Size(w) - 1 /\ (k - 1) + 1 = k
      BY <1>n
    <3>5. \A k \in 1 .. Size(w) : content[dir[Temp[w]]][k] = ChunkOf(w, k - 1)
      BY <3>1, <3>4
    <3> DEFINE x == content[dir[Temp[w]]]
    <3>6. x = [k \in 1 .. Len(x) |-> x[k]]
      BY <3>3
    <3>7. x = [k \in 1 .. Size(w) |-> x[k]]
      BY <3>1, <3>6
    <3> HIDE DEF x
    <3>8. [k \in 1 .. Size(w) |-> x[k]] = [k \in 1 .. Size(w) |-> ChunkOf(w, k - 1)]
      BY <3>5 DEF x
    <3> QED BY <3>7, <3>8 DEF x
  <2>8. folder' = [n \in DOMAIN folder \cup {target[w]} |->
                     IF n = target[w] THEN whole(w) ELSE folder[n]]
    <3>1. \A n \in Visible' : content'[dir'[n]] = IF n = target[w] THEN whole(w) ELSE folder[n]
      <4> HIDE DEF whole
      <4>1. ASSUME NEW n \in Visible, n # target[w]
            PROVE  content'[dir'[n]] = content[dir[n]]
        BY <2>1, <2>5, <4>1 DEF Visible
      <4>2. content'[dir'[target[w]]] = whole(w)
        BY <2>1, <2>2, <2>5, <2>7
      <4> QED BY <2>4, <2>6, <4>1, <4>2
    <3> HIDE DEF whole
    <3> QED BY <2>6, <3>1
  <2>9. [v \in Writers |-> [k \in 1 .. Size(v) |-> ChunkOf(v, k - 1)]][w] = whole(w)
    OBVIOUS
  <2> HIDE DEF whole
  <2> QED BY <1>2, <2>3, <2>4, <2>8, <2>9 DEF Folder!Deliver
<1>3. ASSUME NEW w \in Writers, WriterStep(w), ~Rename(w)
      PROVE  UNCHANGED Folder!dvars
  <2>1. done' = done
    <3>1. \E place \in {"sizing", "receiving", "writing", "failed", "probing", "renaming"} :
            pc[w] # "done" /\ (pc' = [pc EXCEPT ![w] = place] \/ pc' = pc)
      BY <1>3 DEF WriterStep, NewOpen, NewSetLen, WriteOpen, WriteOpenFails, WriteData,
                  StartFinalize, Probe, RenameFails, GiveUp, Goto
    <3> QED BY <1>t, <3>1 DEF StoreTypeOK
  <2>2. \A n \in FinalNames : dir'[n] = dir[n]
    BY <1>n, <1>t, <1>3 DEF StoreTypeOK, WriterStep, NewOpen, NewSetLen, WriteOpen, WriteOpenFails,
         WriteData, StartFinalize, Probe, RenameFails, GiveUp
  <2>3. Visible' = Visible
    BY <2>2 DEF Visible
  <2>4. \A n \in Visible : content'[dir[n]] = content[dir[n]]
    <3>1. CASE NewSetLen(w) \/ WriteData(w)
      <4>1. pc[w] \in {"sizing", "writing"}
        BY <3>1 DEF NewSetLen, WriteData
      <4>2. handle[w] = dir[Temp[w]] /\ Exists(Temp[w])
        BY <1>t, <4>1 DEF OwnTempFile, Busy
      <4>3. \A n \in Visible : dir[n] # handle[w] /\ dir[n] \in Inodes
        BY <1>n, <1>t, <4>2 DEF OneNameEach, Visible, StoreTypeOK, Exists
      <4>4. \E bytes : content' = [content EXCEPT ![handle[w]] = bytes]
        BY <3>1 DEF NewSetLen, WriteData
      <4> QED BY <1>t, <4>3, <4>4 DEF StoreTypeOK
    <3>2. CASE ~NewSetLen(w) /\ ~WriteData(w)
      BY <1>3, <3>2 DEF WriterStep, NewOpen, WriteOpen, WriteOpenFails, StartFinalize, Probe,
                        RenameFails, GiveUp
    <3> QED BY <3>1, <3>2
  <2>5. \A n \in Visible : content'[dir'[n]] = content[dir[n]]
    BY <2>2, <2>4 DEF Visible
  <2>6. folder' = folder
    BY <2>3, <2>5
  <2> QED BY <2>1, <2>6 DEF Folder!dvars
<1>4. target \in [Writers -> FinalNames]
  BY <1>t DEF StoreTypeOK
<1>5. ASSUME NEW w \in Writers, WriterStep(w)
      PROVE  Folder!DNext \/ UNCHANGED Folder!dvars
  <2>1. CASE Rename(w)
    <3>1. PICK free \in FinalNames : target[w] = free
      BY <1>4
    <3>2. Folder!Deliver(w, free)
      BY <1>2, <2>1, <3>1
    <3> QED BY <3>2 DEF Folder!DNext
  <2>2. CASE ~Rename(w)
    <3>1. UNCHANGED Folder!dvars
      BY <1>3, <1>5, <2>2
    <3> QED BY <3>1
  <2> QED BY <2>1, <2>2
<1>6. UNCHANGED svars \/ \E w \in Writers : WriterStep(w)
  BY DEF SNext
<1> QED BY <1>1, <1>5, <1>6

\* The types of the file system and the writers hold, and a writer never sizes or
\* writes a file it has not open, whatever names the writers share
\* (ChunkWriter::new, write_chunk).
THEOREM StoreTypes == SSpec => []StoreTypeOK
<1>1. SInit => StoreTypeOK
  BY StoreInit DEF StoreInv
<1>2. StoreTypeOK /\ [SNext]_svars => StoreTypeOK'
  BY StoreTypeStep
<1> QED BY <1>1, <1>2, PTL DEF SSpec

\* ChunkWriters implement Downloads as long as those that share a name work one
\* after the other and try_exists answers: whatever else runs between their system
\* calls, and whatever earlier writers of the same names delivered or left behind,
\* the folder only gains whole files under names that were free, and no file in it
\* is replaced or written to again (new, write_chunk, finalize, unique_path).
THEOREM WritersImplementDownloads ==
  ASSUME ~StatFails
  PROVE  SSpec /\ []SharersInTurn => ImplementsDownloads
<1>1. SInit => Folder!DInit
  BY DEF SInit, Folder!DInit, Visible
<1>2. StoreInv /\ SharersInTurn /\ SharersInTurn' /\ [SNext]_svars => StoreInv'
  BY StoreStep
<1>3. StoreInv /\ SharersInTurn /\ SharersInTurn' /\ [SNext]_svars => [Folder!DNext]_(Folder!dvars)
  BY DownloadsStep
<1> QED BY StoreInit, <1>1, <1>2, <1>3, PTL DEF SSpec, ImplementsDownloads, Folder!DSpec
===========================================================================
