------------------------------ MODULE DataDir ------------------------------
(***************************************************************************)
(* Starting the engine on a data directory (JustDropEngine::new): the      *)
(* configuration is read and validated, the device identity is loaded or   *)
(* made (device_identity.json), the database is opened and brought to the  *)
(* current schema (justdrop.db), and only then does the engine announce    *)
(* itself.                                                                 *)
(*                                                                         *)
(* A step is one system call or one SQL statement.  The process may be     *)
(* killed, and a call may fail, at each of them; what is on disk stays.    *)
(* SQLite commits each statement on its own (there is no transaction       *)
(* around a migration); fs::write empties the file before it writes.       *)
(***************************************************************************)
EXTENDS Naturals, Sequences

CONSTANTS
  Procs,       \* processes that start an engine on this data directory
  Ids,         \* identities that may be generated
  ConfigFiles, \* what may be in the configuration file
  NoFile,      \* no file at the path, or no path given
  Torn,        \* a file that does not parse
  Nothing,     \* nothing in memory
  Overlap,     \* a process may start while another looks for the identity
  MaxStarts    \* bound on starts

\* The fields of Config that are validated.
Config == [listen_port : Nat, chunk_size : Nat, pipeline_depth : Nat]
DefaultConfig == [listen_port |-> 42420, chunk_size |-> 256 * 1024, pipeline_depth |-> 8]

ASSUME DataDirAssumption ==
  /\ ConfigFiles \subseteq Config \cup {NoFile, Torn}
  /\ {NoFile, Torn} \cap Config = {}
  /\ {NoFile, Torn} \cap Ids = {}
  /\ Nothing \notin Ids \cup Config
  /\ NoFile # Torn
  /\ Overlap \in BOOLEAN
  /\ MaxStarts \in Nat

SCHEMA_VERSION == 1

\* The statements of migrations/v001.sql, by what they create if it is missing.
V001 == <<"peers", "transfer_history", "resume_state",
          "idx_peers_trust", "idx_history_peer", "idx_history_status">>

Schema == {"schema_version"} \cup {V001[k] : k \in DOMAIN V001}

VARIABLES
  idFile,     \* device_identity.json: NoFile, Torn or the identity in it
  tables,     \* tables and indexes in the database
  version,    \* the version in schema_version, 0 without a row
  pc,         \* pc[p]: where a process is in Engine::new
  me,         \* me[p]: the identity it holds
  config,     \* config[p]: the configuration it holds
  applied,    \* applied[p]: statements of the migration it has run
  starts,     \* starts so far
  announced   \* identities a running engine has announced (history)

disk == <<idFile, tables, version>>
memory == <<me, config, applied>>
counts == <<starts, announced>>
ddvars == <<disk, pc, memory, counts>>

DirInit ==
  /\ idFile = NoFile
  /\ tables = {}
  /\ version = 0
  /\ pc = [p \in Procs |-> "off"]
  /\ me = [p \in Procs |-> Nothing]
  /\ config = [p \in Procs |-> Nothing]
  /\ applied = [p \in Procs |-> 0]
  /\ starts = 0
  /\ announced = {}

Goto(p, place) == pc' = [pc EXCEPT ![p] = place]

\* Engine::new returns an error, or the process ends.
Leave(p) ==
  /\ Goto(p, "off")
  /\ me' = [me EXCEPT ![p] = Nothing]
  /\ config' = [config EXCEPT ![p] = Nothing]
  /\ applied' = [applied EXCEPT ![p] = 0]

---------------------------------------------------------------------------
(* Config *)

validate(c) ==
  /\ c.listen_port # 0
  /\ c.chunk_size >= 4096
  /\ c.pipeline_depth # 0

\* Config::load: the configurations a start with this file goes on with.
load(file) ==
  IF file = NoFile THEN {DefaultConfig}
  ELSE {c \in {file} : file # Torn /\ validate(c)}

Looking == {"identity", "save", "write"}

\* JustDropEngine::new with the configuration file as the user left it.
Start(p, file) ==
  /\ pc[p] = "off"
  /\ starts < MaxStarts
  /\ Overlap \/ \A q \in Procs : pc[q] \notin Looking
  /\ starts' = starts + 1
  /\ \/ /\ load(file) = {}
        /\ UNCHANGED <<pc, memory>>
     \/ \E c \in load(file) :
          /\ config' = [config EXCEPT ![p] = c]
          /\ Goto(p, "identity")
          /\ UNCHANGED <<me, applied>>
  /\ UNCHANGED <<disk, announced>>

---------------------------------------------------------------------------
(* DeviceIdentity::load_or_generate *)

\* There is a file: the identity in it, or an error when it does not parse.
LoadIdentity(p) ==
  /\ pc[p] = "identity" /\ idFile # NoFile
  /\ \/ /\ idFile = Torn
        /\ Leave(p)
     \/ /\ idFile # Torn
        /\ me' = [me EXCEPT ![p] = idFile]
        /\ Goto(p, "open")
        /\ UNCHANGED <<config, applied>>
  /\ UNCHANGED <<disk, counts>>

\* A key pair nobody has had before.
Fresh == Ids \ (announced \cup {idFile} \cup {me[q] : q \in Procs})

\* Mutant: whether there is a file already is not looked at.
Generate_always(p) ==
  /\ pc[p] = "identity"
  /\ \E i \in Fresh : me' = [me EXCEPT ![p] = i]
  /\ Goto(p, "save")
  /\ UNCHANGED <<disk, config, applied, counts>>

\* There is none: generate.
Generate(p) ==
  /\ pc[p] = "identity" /\ idFile = NoFile
  /\ \E i \in Fresh : me' = [me EXCEPT ![p] = i]
  /\ Goto(p, "save")
  /\ UNCHANGED <<disk, config, applied, counts>>

\* save: fs::write makes an empty file ...
SaveOpen(p) ==
  /\ pc[p] = "save"
  /\ idFile' = Torn
  /\ Goto(p, "write")
  /\ UNCHANGED <<tables, version, memory, counts>>

\* ... and then writes it.
SaveWrite(p) ==
  /\ pc[p] = "write"
  /\ idFile' = me[p]
  /\ Goto(p, "open")
  /\ UNCHANGED <<tables, version, memory, counts>>

---------------------------------------------------------------------------
(* Database::open and migrate *)

Open(p) ==
  /\ pc[p] = "open"
  /\ tables' = tables \cup {"schema_version"}
  /\ Goto(p, "select")
  /\ UNCHANGED <<idFile, version, memory, counts>>

\* Mutant: a database with a peers table counts as migrated.
ReadVersion_by_table(p) ==
  /\ pc[p] = "select"
  /\ Goto(p, IF version < 1 /\ "peers" \notin tables THEN "migrate" ELSE "upsert")
  /\ UNCHANGED <<disk, memory, counts>>

\* Mutant: the version is written before the migration.
ReadVersion_stores(p) ==
  /\ pc[p] = "select"
  /\ Goto(p, IF version < 1 THEN "migrate" ELSE "upsert")
  /\ version' = SCHEMA_VERSION
  /\ UNCHANGED <<idFile, tables, memory, counts>>

ReadVersion(p) ==
  /\ pc[p] = "select"
  /\ Goto(p, IF version < 1 THEN "migrate" ELSE "upsert")
  /\ UNCHANGED <<disk, memory, counts>>

\* The next statement of the migration.
Migrate(p) ==
  /\ pc[p] = "migrate"
  /\ applied' = [applied EXCEPT ![p] = @ + 1]
  /\ tables' = tables \cup {V001[applied'[p]]}
  /\ Goto(p, IF applied'[p] = Len(V001) THEN "upsert" ELSE "migrate")
  /\ UNCHANGED <<idFile, version, me, config, counts>>

\* Mutant: the version is counted up at every start.
Upsert_counts(p) ==
  /\ pc[p] = "upsert"
  /\ version' = version + 1
  /\ Goto(p, "up")
  /\ announced' = announced \cup {me[p]}
  /\ UNCHANGED <<idFile, tables, memory, starts>>

\* The version is written and the engine is up: it announces its identity.
Upsert(p) ==
  /\ pc[p] = "upsert"
  /\ version' = SCHEMA_VERSION
  /\ Goto(p, "up")
  /\ announced' = announced \cup {me[p]}
  /\ UNCHANGED <<idFile, tables, memory, starts>>

\* A call of Engine::new fails (no space, no permission, database locked), or the
\* process is killed, there or later.
Fail(p) ==
  /\ pc[p] # "off"
  /\ Leave(p)
  /\ UNCHANGED <<disk, counts>>

DirStep(p) ==
  \/ \E file \in ConfigFiles : Start(p, file)
  \/ LoadIdentity(p) \/ Generate(p) \/ SaveOpen(p) \/ SaveWrite(p)
  \/ Open(p) \/ ReadVersion(p) \/ Migrate(p) \/ Upsert(p)
  \/ Fail(p)

DirNext == \E p \in Procs : DirStep(p)

DirSpec == DirInit /\ [][DirNext]_ddvars

---------------------------------------------------------------------------
(* Properties *)

Places == Looking \cup {"off", "open", "select", "migrate", "upsert", "up"}

\* Types; the version is that of no release or of this one.
DirTypeOK ==
  /\ idFile \in Ids \cup {NoFile, Torn}
  /\ tables \subseteq Schema
  /\ version \in {0, SCHEMA_VERSION}
  /\ pc \in [Procs -> Places]
  /\ me \in [Procs -> Ids \cup {Nothing}]
  /\ config \in [Procs -> Config \cup {Nothing}]
  /\ applied \in [Procs -> 0 .. Len(V001)]
  /\ starts \in 0 .. MaxStarts
  /\ announced \subseteq Ids

\* A database that says it is of the current version has every table and index,
\* however many starts before were cut off in the middle of the migration, and
\* whatever other process migrates it at the same time (Database::migrate).
VersionMeansTables == version = SCHEMA_VERSION => Schema \subseteq tables

\* A running engine works on a complete database of the current version and has an
\* identity to announce (Engine::new): nothing was skipped on the way, whatever was cut
\* off before, and whatever another process does to the directory meanwhile.
UpIsReady ==
  \A p \in Procs : pc[p] = "up" =>
    version = SCHEMA_VERSION /\ Schema \subseteq tables /\ me[p] \in Ids

\* An identity a running engine has announced is the one on disk for ever, so
\* every later start announces it again (DeviceIdentity: "survives app restarts").
IdentityKept == \A i \in announced : idFile = i

\* The directory can always be started on.  The code violates it: a kill within
\* save leaves a file that exists and does not parse, and load_or_generate
\* neither loads it nor replaces it.
Startable == \A p \in Procs : pc[p] = "write" \/ idFile # Torn
===========================================================================
