--------------------------- MODULE DataDirProofs ---------------------------
(***************************************************************************)
(* The data directory under any number of processes, starts, kills and     *)
(* failures: what the version promises, what a running engine can rely on, *)
(* and what is kept across restarts.                                       *)
(***************************************************************************)
EXTENDS DataDir, TLAPS

\* Places after the identity is known.
Identified == {"open", "select", "migrate", "upsert", "up"}

\* Why the version can be trusted: no process writes it before it has run, or has
\* found run, every statement.
SchemaSound ==
  /\ VersionMeansTables
  /\ \A p \in Procs :
       /\ pc[p] \in {"select", "migrate", "upsert", "up"} => "schema_version" \in tables
       /\ pc[p] = "migrate" => applied[p] < Len(V001)
       /\ \A k \in 1 .. applied[p] : V001[k] \in tables
       /\ pc[p] = "upsert" => Schema \subseteq tables
       /\ pc[p] = "up" => version = SCHEMA_VERSION
       /\ pc[p] \in Looking \cup {"off", "open", "select"} => applied[p] = 0

\* Processes hold an identity once there is one to hold.
MemorySound ==
  \A p \in Procs : pc[p] \in {"save", "write"} \cup Identified => me[p] \in Ids

\* Why the identity stays: only one process looks for it at a time, it is written
\* only when there was none, and nobody has announced one before it is on disk.
IdentitySound ==
  /\ \A p, q \in Procs : pc[p] \in Looking /\ pc[q] \in Looking => p = q
  /\ \A p \in Procs :
       /\ pc[p] = "save" => idFile = NoFile
       /\ pc[p] = "write" => idFile = Torn
       /\ pc[p] \in Identified => me[p] = idFile
  /\ IdentityKept

SchemaInv == DirTypeOK /\ SchemaSound /\ MemorySound
DirInv == SchemaInv /\ IdentitySound

---------------------------------------------------------------------------
(* Arithmetic of the migration *)

\* The migration has six statements, all of them part of the schema.
LEMMA MigrationLength ==
  /\ Len(V001) = 6 /\ DOMAIN V001 = 1 .. 6
  /\ \A k \in 1 .. 6 : V001[k] \in Schema
<1>1. Len(V001) = 6 /\ DOMAIN V001 = 1 .. 6
  BY DEF V001
<1> QED BY <1>1 DEF Schema

\* What is loaded is a configuration.
LEMMA LoadedConfig ==
  ASSUME NEW file \in ConfigFiles, NEW c \in load(file)
  PROVE  c \in Config
<1>1. DefaultConfig \in Config
  BY DEF DefaultConfig, Config
<1> QED BY <1>1, DataDirAssumption DEF load, DataDirAssumption

---------------------------------------------------------------------------
(* The invariant *)

LEMMA DirInitial == DirInit => DirInv
<1> SUFFICES ASSUME DirInit PROVE DirInv
  OBVIOUS
<1>1. DirTypeOK
  BY MigrationLength, DataDirAssumption
  DEF DataDirAssumption, DirInit, DirTypeOK, Places, Looking, SCHEMA_VERSION
<1>2. SchemaSound
  BY MigrationLength DEF DirInit, SchemaSound, VersionMeansTables, SCHEMA_VERSION, Looking
<1>3. MemorySound
  BY DEF DirInit, MemorySound, Identified
<1>4. IdentitySound
  BY DEF DirInit, IdentitySound, IdentityKept, Looking, Identified
<1> QED BY <1>1, <1>2, <1>3, <1>4 DEF DirInv, SchemaInv

\* Types are kept by every step.
LEMMA TypesStep ==
  ASSUME SchemaInv, NEW p \in Procs, DirStep(p)
  PROVE  DirTypeOK'
<1> USE MigrationLength, DataDirAssumption DEF SchemaInv, DataDirAssumption, DirTypeOK, Places, Looking, Goto, Leave,
        disk, memory, counts, SCHEMA_VERSION
<1>1. ASSUME NEW file \in ConfigFiles, Start(p, file) PROVE DirTypeOK'
  <2>1. \A c \in load(file) : c \in Config
    BY LoadedConfig
  <2> QED BY <1>1, <2>1 DEF Start
<1>2. CASE LoadIdentity(p)
  BY <1>2 DEF LoadIdentity
<1>3. CASE Generate(p)
  BY <1>3 DEF Generate, Fresh
<1>4. CASE SaveOpen(p)
  BY <1>4 DEF SaveOpen
<1>5. CASE SaveWrite(p)
  BY <1>5 DEF SaveWrite, MemorySound
<1>6. CASE Open(p)
  BY <1>6 DEF Open, Schema
<1>7. CASE ReadVersion(p)
  BY <1>7 DEF ReadVersion
<1>8. CASE Migrate(p)
  <2>1. applied[p] < Len(V001)
    BY <1>8 DEF Migrate, SchemaSound
  <2>2. applied' = [applied EXCEPT ![p] = applied[p] + 1] /\ applied'[p] = applied[p] + 1
    BY <1>8 DEF Migrate
  <2>3. applied'[p] \in 1 .. 6
    BY <2>1, <2>2
  <2>4. V001[applied'[p]] \in Schema
    BY <2>3
  <2>5. /\ tables' \subseteq Schema
        /\ idFile' = idFile /\ version' = version /\ me' = me /\ config' = config
        /\ starts' = starts /\ announced' = announced
    BY <1>8, <2>4 DEF Migrate
  <2>6. pc' \in [Procs -> Places] /\ applied' \in [Procs -> 0 .. Len(V001)]
    <3>1. applied' \in [Procs -> 0 .. Len(V001)]
      BY <2>2, <2>3
    <3>2. PICK place \in {"upsert", "migrate"} : pc' = [pc EXCEPT ![p] = place]
      BY <1>8 DEF Migrate
    <3> QED BY <3>1, <3>2
  <2> QED BY <2>5, <2>6
<1>9. CASE Upsert(p)
  BY <1>9 DEF Upsert, MemorySound, Identified
<1>10. CASE Fail(p)
  BY <1>10 DEF Fail
<1> QED BY <1>1, <1>2, <1>3, <1>4, <1>5, <1>6, <1>7, <1>8, <1>9, <1>10 DEF DirStep

\* The statements run so far, and the version, stay true to the tables.
LEMMA SchemaStep ==
  ASSUME SchemaInv, NEW p \in Procs, DirStep(p)
  PROVE  SchemaSound'
<1> USE MigrationLength DEF SchemaInv, DirTypeOK, SchemaSound, VersionMeansTables, Goto, Leave, disk, memory, counts, Looking, Places
<1>0. tables \subseteq tables'
  BY DEF DirStep, Start, LoadIdentity, Generate, SaveOpen, SaveWrite, Open, ReadVersion, Migrate, Upsert,
         Fail
<1>1. ASSUME NEW file \in ConfigFiles, Start(p, file) PROVE SchemaSound'
  BY <1>1 DEF Start
<1>2. CASE LoadIdentity(p)
  BY <1>2 DEF LoadIdentity
<1>3. CASE Generate(p)
  BY <1>3 DEF Generate
<1>4. CASE SaveOpen(p)
  BY <1>4 DEF SaveOpen
<1>5. CASE SaveWrite(p)
  BY <1>5 DEF SaveWrite
<1>6. CASE Open(p)
  BY <1>6, <1>0 DEF Open
<1>7. CASE ReadVersion(p)
  BY <1>7 DEF ReadVersion, SCHEMA_VERSION
<1>8. CASE Migrate(p)
  <2>1. applied[p] < Len(V001)
    BY <1>8 DEF Migrate
  <2>2. applied' = [applied EXCEPT ![p] = applied[p] + 1] /\ applied'[p] = applied[p] + 1
    BY <1>8 DEF Migrate
  <2>3. applied'[p] \in 1 .. 6
    BY <2>1, <2>2
  <2>4. tables' = tables \cup {V001[applied'[p]]}
    BY <1>8 DEF Migrate
  <2>5. \A q \in Procs : \A k \in 1 .. applied'[q] : V001[k] \in tables'
    <3> SUFFICES ASSUME NEW q \in Procs, NEW k \in 1 .. applied'[q] PROVE V001[k] \in tables'
      OBVIOUS
    <3>1. CASE q = p /\ k = applied'[p]
      BY <2>4, <3>1
    <3>2. CASE ~(q = p /\ k = applied'[p])
      <4>1. k \in 1 .. applied[q]
        BY <2>2, <2>3, <3>2
      <4> QED BY <4>1, <1>0
    <3> QED BY <3>1, <3>2
  <2>6. pc'[p] = "upsert" => Schema \subseteq tables'
    <3>1. pc'[p] = "upsert" => applied'[p] = 6
      BY <1>8 DEF Migrate
    <3>2. "schema_version" \in tables'
      BY <1>8, <1>0 DEF Migrate
    <3> QED BY <2>5, <3>1, <3>2 DEF Schema
  <2>7. version' = version /\ \A q \in Procs \ {p} : pc'[q] = pc[q] /\ applied'[q] = applied[q]
    BY <1>8, <2>2 DEF Migrate
  <2>8. pc[p] = "migrate" /\ pc'[p] \in {"upsert", "migrate"} /\ (pc'[p] = "migrate" => applied'[p] # 6)
    BY <1>8 DEF Migrate
  <2>9. "schema_version" \in tables' /\ (version' = SCHEMA_VERSION => Schema \subseteq tables')
    BY <1>0, <2>7, <2>8
  <2>10. ASSUME NEW q \in Procs
         PROVE  /\ pc'[q] \in {"select", "migrate", "upsert", "up"} => "schema_version" \in tables'
                /\ pc'[q] = "migrate" => applied'[q] < Len(V001)
                /\ pc'[q] = "upsert" => Schema \subseteq tables'
                /\ pc'[q] = "up" => version' = SCHEMA_VERSION
                /\ pc'[q] \in Looking \cup {"off", "open", "select"} => applied'[q] = 0
    <3>1. CASE q = p
      BY <3>1, <2>3, <2>6, <2>8, <2>9
    <3>2. CASE q # p
      BY <3>2, <1>0, <2>7, <2>9
    <3> QED BY <3>1, <3>2
  <2> QED BY <2>5, <2>9, <2>10
<1>9. CASE Upsert(p)
  BY <1>9 DEF Upsert
<1>10. CASE Fail(p)
  BY <1>10 DEF Fail
<1> QED BY <1>1, <1>2, <1>3, <1>4, <1>5, <1>6, <1>7, <1>8, <1>9, <1>10 DEF DirStep

\* What a process holds in memory stays usable.
LEMMA MemoryStep ==
  ASSUME SchemaInv, NEW p \in Procs, DirStep(p)
  PROVE  MemorySound'
<1> USE DEF SchemaInv, DirTypeOK, MemorySound, Goto, Leave, disk, memory, counts, Identified
<1>1. ASSUME NEW file \in ConfigFiles, Start(p, file) PROVE MemorySound'
  BY <1>1 DEF Start
<1>2. CASE LoadIdentity(p)
  BY <1>2 DEF LoadIdentity
<1>3. CASE Generate(p)
  BY <1>3 DEF Generate, Fresh
<1>4. CASE SaveOpen(p) \/ SaveWrite(p) \/ Open(p) \/ ReadVersion(p) \/ Migrate(p) \/ Upsert(p)
  <2>1. me' = me
    BY <1>4 DEF SaveOpen, SaveWrite, Open, ReadVersion, Migrate, Upsert
  <2>2. pc[p] \in {"save", "write"} \cup Identified /\ \A q \in Procs \ {p} : pc'[q] = pc[q]
    BY <1>4 DEF SaveOpen, SaveWrite, Open, ReadVersion, Migrate, Upsert
  <2> QED BY <2>1, <2>2
<1>5. CASE Fail(p)
  BY <1>5 DEF Fail
<1> QED BY <1>1, <1>2, <1>3, <1>4, <1>5 DEF DirStep

\* While processes do not look for the identity at the same time, it stays.
LEMMA IdentityStep ==
  ASSUME ~Overlap, SchemaInv, IdentitySound, NEW p \in Procs, DirStep(p)
  PROVE  IdentitySound'
<1> USE DataDirAssumption DEF DataDirAssumption, SchemaInv, DirTypeOK, MemorySound, IdentitySound, IdentityKept,
        Goto, Leave, disk, memory, counts, Identified, Looking
<1>1. ASSUME NEW file \in ConfigFiles, Start(p, file) PROVE IdentitySound'
  BY <1>1 DEF Start
<1>2. CASE LoadIdentity(p)
  <2>1. /\ pc[p] = "identity" /\ idFile' = idFile /\ announced' = announced
        /\ \A q \in Procs \ {p} : pc'[q] = pc[q] /\ me'[q] = me[q]
    BY <1>2 DEF LoadIdentity
  <2>2. \/ pc'[p] = "off"
        \/ pc'[p] = "open" /\ me'[p] = idFile
    BY <1>2 DEF LoadIdentity
  <2>3. \A q \in Procs : pc'[q] \in Looking => pc[q] \in Looking
    BY <2>1, <2>2
  <2>4. \A q, r \in Procs : pc'[q] \in Looking /\ pc'[r] \in Looking => q = r
    BY <2>3
  <2>5. \A q \in Procs :
          /\ pc'[q] = "save" => idFile' = NoFile
          /\ pc'[q] = "write" => idFile' = Torn
          /\ pc'[q] \in Identified => me'[q] = idFile'
    BY <2>1, <2>2
  <2> QED BY <2>1, <2>4, <2>5
<1>3. CASE Generate(p)
  BY <1>3 DEF Generate, Fresh
<1>4. CASE SaveOpen(p)
  BY <1>4 DEF SaveOpen
<1>5. CASE SaveWrite(p)
  BY <1>5 DEF SaveWrite
<1>6. CASE Open(p) \/ ReadVersion(p) \/ Migrate(p)
  <2>1. me' = me /\ idFile' = idFile /\ announced' = announced
    BY <1>6 DEF Open, ReadVersion, Migrate
  <2>2. pc[p] \in Identified /\ pc'[p] \in Identified /\ \A q \in Procs \ {p} : pc'[q] = pc[q]
    BY <1>6 DEF Open, ReadVersion, Migrate
  <2> QED BY <2>1, <2>2
<1>7. CASE Upsert(p)
  BY <1>7 DEF Upsert
<1>8. CASE Fail(p)
  BY <1>8 DEF Fail
<1> QED BY <1>1, <1>2, <1>3, <1>4, <1>5, <1>6, <1>7, <1>8 DEF DirStep

---------------------------------------------------------------------------
(* Theorems *)

LEMMA SchemaInvariant == DirSpec => []SchemaInv
<1>1. SchemaInv /\ [DirNext]_ddvars => SchemaInv'
  <2> SUFFICES ASSUME SchemaInv, [DirNext]_ddvars PROVE SchemaInv'
    OBVIOUS
  <2>1. CASE DirNext
    <3>1. PICK p \in Procs : DirStep(p)
      BY <2>1 DEF DirNext
    <3> QED BY <3>1, TypesStep, SchemaStep, MemoryStep DEF SchemaInv
  <2>2. CASE UNCHANGED ddvars
    BY <2>2 DEF ddvars, disk, memory, counts, SchemaInv, DirTypeOK, SchemaSound, VersionMeansTables, MemorySound
  <2> QED BY <2>1, <2>2
<1> QED BY DirInitial, <1>1, PTL DEF DirSpec, DirInv

\* Types are kept, and the version is only ever that of no release or of this one
\* (Database::migrate writes it, never counts it up).
THEOREM DirTypeCorrect == DirSpec => []DirTypeOK
BY SchemaInvariant, PTL DEF SchemaInv

\* Whatever was killed or failed where, and whatever ran beside it: a database of
\* the current version is complete (Database::migrate).
THEOREM MigrationComplete == DirSpec => []VersionMeansTables
BY SchemaInvariant, PTL DEF SchemaInv, SchemaSound

LEMMA IdentityInvariant == ASSUME ~Overlap PROVE DirSpec => []IdentitySound
<1>1. SchemaInv /\ IdentitySound /\ [DirNext]_ddvars => IdentitySound'
  <2>1. ASSUME SchemaInv, IdentitySound, DirNext PROVE IdentitySound'
    BY <2>1, IdentityStep DEF DirNext
  <2>2. ASSUME IdentitySound, UNCHANGED ddvars PROVE IdentitySound'
    BY <2>2 DEF ddvars, disk, memory, counts, IdentitySound, IdentityKept
  <2> QED BY <2>1, <2>2
<1> QED BY DirInitial, SchemaInvariant, <1>1, PTL DEF DirSpec, DirInv

\* Processes that do not look for the identity at the same time never change it,
\* through any number of kills and restarts (DeviceIdentity::load_or_generate).
THEOREM IdentityPermanent == ~Overlap => (DirSpec => []IdentityKept)
<1> SUFFICES ASSUME ~Overlap PROVE DirSpec => []IdentityKept
  OBVIOUS
<1>1. DirSpec => []IdentitySound
  BY IdentityInvariant
<1> QED BY <1>1, PTL DEF IdentitySound

\* A running engine works on a complete database of the current version and holds an
\* identity, for any number of processes that start, work and are killed at once
\* (Engine::new).
THEOREM RunningReady == DirSpec => []UpIsReady
<1>1. SchemaInv => UpIsReady
  <2> SUFFICES ASSUME SchemaInv, NEW p \in Procs, pc[p] = "up"
               PROVE  version = SCHEMA_VERSION /\ Schema \subseteq tables /\ me[p] \in Ids
    BY DEF UpIsReady
  <2>1. version = SCHEMA_VERSION /\ Schema \subseteq tables
    BY DEF SchemaInv, SchemaSound, VersionMeansTables
  <2>2. me[p] \in Ids
    BY DEF SchemaInv, MemorySound, Identified
  <2> QED BY <2>1, <2>2
<1> QED BY <1>1, SchemaInvariant, PTL
===========================================================================
