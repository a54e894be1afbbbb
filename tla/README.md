# JustDrop in TLA+

Specifications, model-checking configurations and proofs for JustDrop, the
local file sharing program of this repository. Paths are relative to the
repository; `transfer.rs:493` and the like name lines of
`crates/justdrop-*/src/`. `PROJECT.json` maps every definition to the lines it
stands for.

## 1. The system

| Part | State | Operations | Correct when |
|---|---|---|---|
| Transfer protocol (`justdrop-protocol/src/transfer.rs`) | per call: stage, manifest, position of the chunker, chunks to skip; per handler: stage, loaded resume state, writers | `send_files`, `handle_incoming` | success at the sender means delivered files at the receiver, which comes to success too; delivered files hold the promised bytes; both tasks end |
| Chunk arithmetic (`justdrop-core/src/types.rs`) | none | counts, effective size, global numbers | chunks tile a file; numbers are unique over a manifest |
| `FileChunker` (`justdrop-storage/src/chunker.rs`) | open file, length seen at open | `open`, `read_chunk` | a chunk is the bytes at its offset |
| `ChunkWriter` (`justdrop-storage/src/writer.rs`) | partial file, `completed_chunks` | `new`, `write_chunk`, `is_complete`, `finalize` | a chunk counted is on disk; `finalize` adds a whole file under a free name |
| `ResumeManager` (`justdrop-storage/src/resume.rs`) | one state file per transfer id | save, load, remove, bitmap | recorded chunks are in the partial file; the bitmap names exactly those |
| Transport, codec, Noise handshake and session (`justdrop-network/src/transport.rs`, `justdrop-security`) | two byte streams, read buffer, nonces | handshake, `send`, `recv`, close | whole messages in order, a clean end only between two; frames open under the nonce expected; `recv` comes back |
| Transfer state machine (`justdrop-protocol/src/state.rs`) | one state per end | `transition` | the protocol follows it |
| Data directory (`justdrop-core`: database, identity, configuration) | `justdrop.db`, `device_identity.json`, configuration file | `Engine::new`, `migrate` | a stored version means a complete schema; who is up has its tables and its identity; one identity |
| Engine (`justdrop-engine/src/engine.rs`) | peer map, sessions, running flag, trust in SQLite | discover, lose, trust, send, cancel, stop | events balance; a blocked device stays out of the map; one `Stopped`; calls return |
| Discovery (`justdrop-discovery`) | map of peers, broadcast channel | announce, withdraw, `handle_event`, lookup of a send | who is announced is listed, who is gone is not; events replay to the map; a send reaches the device asked for |
| C interface (`justdrop-ffi/src/legacy_c_abi.rs`), key file (`justdrop-security/src/keys.rs`) | `GLOBAL`, `identity_keys.json` | init, shutdown, get_peers, send_files | one engine per process; one identity per device; calls return |
| Daemon (`justdrop-daemon/src/main.rs`) | accept loop, loggers | listen, accept, send | as its parts |
| Android and macOS apps | services, view models, BLE objects, work queue | life-cycle callbacks | not yet modelled |
| UniFFI layer (`justdrop-ffi/src/lib.rs`) | none of its own | forwards to the engine | as the engine |
| BLE records, protocol v2 messages, QUIC endpoint, compression and hashing | - | - | pure or without a caller |

How they interact. The daemon (or `justdrop_init`) starts a registrar, a browser
and a listener. Every accepted connection becomes a `handle_incoming` task; every
`send_files` call opens a connection of its own. Tasks of one process share
nothing but the file system: partial files, the download folder and the resume
states. The browser runs on a blocking thread and tells others through a
broadcast channel. `Engine` is called from any thread of a platform and calls the
platform's handler back on the same thread. The C interface keeps one engine
behind a mutex.

What is hard here: two transfers of one file that share a partial file; a
connection that closes between any two messages; a process that dies between two
system calls; a retry over what an earlier attempt left; sources edited between
hashing and reading; names looked up and used later; trust read before a lock is
taken; handlers called under a lock; a channel that drops its oldest event; frames that
arrive in pieces while the handshake gives way to the session; a migration cut
off between two statements; and an engine whose parts wait for each other when
dropped. `PROJECT.json` lists
them under `hazards`, each at its line.

## 2. Modules

| Module | What it is |
|---|---|
| `Chunking` | counts, sizes, global numbers and bitmap as operators and recursive functions |
| `ResumeNegotiation` | one resumed transfer as a small state machine: the receiver's numbering against the sender's |
| `Transfer` | any number of transfers over one receiving file system; extends `Chunking` |
| `TransferStates` | the documented state machine of a transfer |
| `TransferProgress` | `Transfer` mapped to that machine, one for each end |
| `SecureChannel` | one connection byte by byte, from the handshake into the session |
| `Channel` | abstract specification of a connection as `Transfer` uses it, implemented by `SecureChannel` |
| `FileStore` | the writers of `Transfer`, one system call at a time, with inodes |
| `Downloads` | abstract specification of the download folder, implemented by `FileStore` |
| `Engine` | peer map, trust database, sessions and events under threads |
| `DataDir` | starting engines on one data directory: configuration, identity, migration |
| `Discovery` | announcements, browsing task, map of peers, broadcast channel, logger, lookup of a send |
| `NativeApi` | life cycle of the engine behind the C interface, and the key file |
| `MC*` | constants of the small instances |
| `ChunkingProofs`, `ConnectionProofs` (`SecureChannel`, `ResumeNegotiation`), `TransferProofs` (`Transfer`, `TransferProgress`), `FileStoreProofs`, `EngineProofs`, `NativeApiProofs`, `DataDirProofs`, `DiscoveryProofs` | theorems |

Definitions named `X_...` next to a definition `X` and commented `Mutant` are
versions with a plausible mistake, against which the properties are tried; no
specification uses them.

### Transfer

A transfer `t` is a call of `send_files` and the handler at the other end. An
action is one stretch of code between two waits. Sender stages (`spc`) follow
`transfer.rs:195-383`: `Prepare` builds and hashes the manifest, `SendRequest`
follows the handshake, `RecvAccept`/`RecvResumeAt`/`RecvReject` read the answer,
`SendChunk`/`SkipChunk`/`RecvAck` are the loop, then `SendComplete` and
`RecvVerified`. Receiver stages (`rpc`) follow `transfer.rs:405-627`: the
decision loads the resume state first and answers later; `CreateWriter` opens
each partial file without truncating; `RecvChunk` writes and records;
`RecvComplete` and `Finalize` rename file by file; `SendVerified`,
`RemoveResumeState` and `EndReceiving` are three steps (`transfer.rs:577-597`), so the
sender may report success first, and the receiver be killed before it does;
`RecvClosed` saves the resume state when the connection closes. A message queue per direction carries `FIN` and
`RST` too: closing with unread input resets the connection, which discards what
is under way. A byte is the record of its source, position and version, so that
a delivered file can be compared with what its manifest promised. Hashing is
abstracted by the version. `UsizeValues` is how many values `usize` has, to which
`read_chunk` cuts the length that remains of a file (`chunker.rs:85`).

`answer[t]` is what has happened to the decision channel by the time the handler
asks it: `accept` where the C interface or a daemon with `auto_accept_all` has
sent the decision ahead, `drop` where the daemon has dropped its end
(`main.rs:225`), which the handler takes for a rejection, and `ask` where a
platform decides, either way. `SaveTorn` is a crash in the middle of
`ResumeManager::save`: `fs::write` has emptied the state file, and what is left
does not parse, which `load` reports and `handle_incoming` takes for no state.

`TransferProgress` reads the state of `TransferStateMachine` off the stages of
either end. No code keeps such a machine; `FollowsStateMachine` says that the
control flow of both functions moves along it all the same.

Two kinds of input need a word. This program's sender draws a new id for every
call (`TransferManifest::new`), so the instances where two transfers have one id
describe a peer that offers a transfer again, which the receiver's `ResumeAt`
branch exists for. And faults are a crash of either end or a lost connection,
reported to both ends by the operating system: `recv` has no timeout
(`transport.rs:70`), so a peer that vanishes silently would leave it waiting.

### SecureChannel and Channel

What `Transfer` takes for queues of messages is here a connection: `Write` hands
any number of bytes of a frame to the kernel, `Read` takes any number out, and
`TakeFrame` cuts a frame off once its length is known and there. `stage` counts
the three handshake messages, which `read_raw_frame` reads with `read_exact`: no
byte more than asked for, so that the session finds its first frame whole.
`sealed` and `opened` are the nonces of a Noise session; a frame opens only under
the nonce its reader expects. A byte carries its message, its place and the
length the header gives. `TooLong` is the test of `MAX_MESSAGE_SIZE`, made as soon as
the header is there; `WriteFails` is a `write_all` that returns an error with any part of
the frame written. `Close` may come in the middle of a frame, `Cut` resets a
direction, `Vanish` stops the network without telling either end. `Channel` has
messages, a clean end only after the last one begun, and a broken end at any
time; `ImplementsChannel` is that specification over `sent`, `got`, `ended` and
`closed`.

### FileStore and Downloads

`Transfer` takes `write_chunk` and `finalize` in one step. `FileStore` takes them
apart: `NewOpen`, `NewSetLen`, `WriteOpen`, `WriteData`, `StartFinalize`, one
`Probe` per name of `unique_path`, `Rename`. A writer holds an inode; a name may
have moved on. With `StatFails` a `try_exists` may fail, which counts as a free name
(`writer.rs:252`). `Downloads` has one action: a writer adds its whole file under a
free name. `ImplementsDownloads` is that specification with `folder` mapped to
the visible names and their contents and `done` to the writers past `Rename`.
Each writer belongs to a transfer of its own. A name of a partial file is taken to be
none a delivered file can have (`TempNames` and `FinalNames` are disjoint).

### Engine

One step per lock or per event. `pc[th]` is a thread's place in a call, `seen` the
peer it carries from one lock to the next, `sesLock` and `runLock` the write locks
that outlive a step. Events about peers are delivered after the lock is released,
`TransferCancelled` and `Stopped` under it. `SetTrust` writes the database
(`set_trust`) or fails (`SetTrustFails`), then looks for a blocked peer in the map and
removes it; `late` marks the devices of reports that had passed the test of their level
before the block, or whose query failed. `Asks` is the set of events on which
the platform's handler calls `active_transfer_count`. `QueriesFail` lets a query
of the database fail, which `get_trust` counts as Unknown. `Enter` has the calls of
the UniFFI layer and of the platform's scanners; `accept_transfer` looks a session
up and changes nothing yet. `shown`, `balance`, `stops` and `late` are history.

### DataDir

`Start` reads and validates the configuration; `LoadIdentity`, `Generate`,
`SaveOpen` and `SaveWrite` are `DeviceIdentity::load_or_generate`; `Open`,
`ReadVersion`, `Migrate` (one statement of `v001.sql` each) and `Upsert` are
`Database::open`. Trust levels are the subject of `Engine`, which has both their
writing and their reading; that a statement SQLite has committed survives is not this
code's to show. SQLite commits every
statement by itself, for there is no transaction around a migration, and keeps it
through a crash (external). `Fail` is an error or a kill at any place.
Processes share the directory; `Overlap` says whether one may start while another
looks for the identity.

### Discovery

Devices announce and withdraw; the mDNS library (external) reports that in order;
`Resolved` and `Removed` are `handle_event` under the write lock; `Send` is
tokio's broadcast channel, which drops the oldest event when full; the daemon's
logger ends at the first lag. Names are token sequences because
`browser.rs:187` looks for one name in another: `HostName` is the registrar's
sanitised name with `.local`, `FullName` the instance name with the service type.
The socket address stands for what a re-announcement changes.
`SendToId` (`justdrop_send_files`) and `SendToNamed` (`run_send`) clone a peer out of
the map, the latter the first one whose host name or id contains the words given
(`Fits`, `main.rs:271`), and `Connect` goes to its address later, whoever has it by then; `sound`
notes whether the device was announced and has stayed where it was.

### NativeApi

An engine is a record owned by the thread that builds it, by `GLOBAL`, or by the
thread that drops it. `justdrop_init` is a chain of steps: `Init` looks at
`GLOBAL` and releases it, `KeyExists`/`ReadKey`/`OpenKeyFile`/`WriteKey` are
`load_or_generate` (`fs::write` truncates first), `Build` makes runtime,
registrar and browser, `Install` locks `GLOBAL` again;
`InitFails` is any of its error returns. `Take` is
`justdrop_shutdown`; `DropField` drops the fields of `GlobalState` in
`DropOrder`, with the lock held. Dropping a tokio runtime discards blocking tasks
that are queued and waits for those that run; the browsing task runs until the
mDNS daemon closes its channel (`Browsing`). `get_peers` and `send_files` are
`Ask` and `Answer`, for their effect on the engine is another module's subject.

## 3. Runs

Every run is a `.cfg` of the same name. Passing runs:

| Run | Instance | Shows |
|---|---|---|
| `ResumeNegotiation` | manifests of up to 3 files of 0, 3 or 5 bytes, chunks of 1 or 2 bytes, any set of held chunks | `ChunksTile`, `LoopCounts` (the loop's count equals the closed sum), `SkipsExactlyHeld` (the sender skips what the receiver holds, no more and no less) |
| `MCTransferReoffer` | two transfers of the same two files (3 bytes, empty) under one id, any overlap, both may fail, old partial files, torn states | `DeliveredIntact`, `CompletedAgreement`, `ProtocolAgrees`, `AckedWritten`, `ResumeBackedByTemp` |
| `MCTransferFair` | one transfer of two files, two edits, one fault, chunks too long for Noise; decision sent ahead or channel dropped | `CompletedAgreement`, `ProtocolAgrees`, `NoIncompleteVerdict`, `FollowsStateMachine`, and under fairness `HandlersEnd` and `FaultFreeCompletes` |
| `MCSecureChannel` | the handshake, two messages of the initiator and one of the responder, header of 2 bytes, bodies of 1 and 2 | `ImplementsChannel`, `FramesOpen`, and under fairness `RecvReturns` |
| `MCFileStore` | two writers of one file at once, a third of a different file of the same name before or after them (`OthersInTurn`), any old files | `ImplementsDownloads` |
| `MCEngine` | two threads, two calls each, one device, two sessions; handler asks back on peer events, queries may fail | `AnnouncedOnce`, `BlockedStaysOut`, `StaysIdentified`, `StoppedOnce`, `CallsReturn` |
| `MCDataDir` | two processes, three starts, six configuration files, kills anywhere | `VersionMeansTables`, `UpIsReady`, `IdentityKept` |
| `MCDiscovery` | three devices (one is this one, one is called `phone.local`), two addresses, five changes, a channel of two | `EventsReplay`, `AnnouncedListed`, `SendReachesNamed` |
| `MCNativeApi` | one process, a thread that starts and stops and one that asks, two kills, old key file or none | `OneEngine`, `OneIdentity` |

Bounds. Sizes 3, 2, 1 and 0 with a chunk of 2 give a full and a short chunk, an
exact multiple, a short one alone and the empty file's empty chunk; sharper
arithmetic is left to `ResumeNegotiation` (15 chunks take two bytes of bitmap)
and to the theorems. `LargeThreshold`, `MaxChunkSize` and `NoiseMax` are 1 GiB,
4 MiB and 65535 in the code; only their order relative to the sizes matters, so they are scaled down, and set above all sizes where the run is not about them.
`UsizeValues` is above them too, as 64 bits are, but for one counterexample.
`StaleLen` gives a leftover partial file one foreign byte. Two transfers are
enough for every pairwise interference in the file system; `MaxFaults` counts
transfers that fail, `MaxEdits` edits, `MaxCalls` calls of a thread, `MaxChanges`
announcements and withdrawals, `MaxKills` processes killed, `MaxStarts` starts of
an engine, `MaxSends` messages of an end. A channel of two overflows at the third
event. A header of two bytes can be cut in the middle, two frames fit into one
read, and the first session frame can follow the last handshake frame at once.
Three starts are a start cut off, one that goes on from there, and one beside it.
The addresses of announced devices differ; one may take over another's old one. Two threads show every race of two critical
sections; the theorems take any number. `CHECK_DEADLOCK FALSE` is set throughout:
tasks end, and bounded environments run out of moves.

Fairness. `FairSpec` has weak fairness of each end of each transfer: tokio tasks
that can run do run. Starting transfers, faults and edits are not fair.
`EFairSpec` and `NFairSpec` have weak fairness of a thread that is inside a call,
not of calls, and `NFairSpec` of the blocking pool taking up queued tasks. `FairCSpec` has weak fairness of a `recv` under way, which tokio polls whenever the
socket is ready; nothing else on a connection must happen, and `RecvReturns`
excepts a silent network, because `recv` has no timeout (`transport.rs:70`). The
other specifications state no fairness, since only safety is checked of them.

## 4. Where the code and its documentation differ

Three runs are counterexamples (`expect: violation`):

* `MCTransferResume` (`NoIncompleteVerdict`): a transfer resumed under its id ends
  with files called incomplete although every chunk is there. `handle_incoming`
  makes its writers with `ChunkWriter::new` (`transfer.rs:493`) and never restores
  the completed chunks, while README.md:18 promises that a transfer picks up
  where it left off.
* `MCTransferNoise` (`FaultFreeCompletes`): a chunk is one Noise message, which is
  at most 65535 bytes, but the default chunk is 256 KiB (`types.rs:17`), so files
  over 64 KiB fail without any fault.
* `MCNativeApiShutdown` (`ShutdownReturns`): `justdrop_shutdown` drops the runtime
  first, which waits for the browsing task, which waits for the registrar, the
  last field. It does not return once browsing has started, and later calls wait
  for `GLOBAL`. Declaring `_registrar` before `runtime` would do.

More configurations stay beside the modules as counterexamples one can rerun
(`tlc -config X.cfg MODULE.tla`, with `-continue` where a configuration has several
properties); each is about a statement of the code or its documentation:

| Configuration | Property violated | What happens |
|---|---|---|
| `ResumeNegotiationNarrow` (module `ResumeNegotiation`) | `ChunksTile` | `remaining as usize` (`chunker.rs:85`) drops high bits where `usize` has 32 (armeabi-v7a, README.md:94): with 4 GiB or up to a chunk more to come the chunk is read empty or short |
| `MCTransferSharedPath` | `DeliveredIntact` | `photo.jpg` and `photo.png` of one transfer share `photo.justdrop_partial` (`writer.rs:45`); the first is delivered with bytes of both, and no hash is compared at the receiver (README.md:19 promises integrity verification) |
| `MCTransferThrice` | `DeliveredIntact` | three overlapping transfers of one file: the first renames the partial file that holds the second's chunks, the third creates a new one, and the second, which has counted all its chunks, delivers that one unwritten |
| `MCTransferStale` | `DeliveredIntact` | a source edited after hashing is delivered as it is then, unverified |
| `MCTransferLarge` | `NoIncompleteVerdict` | above the large-file threshold the sender scales its chunks and the receiver does not (`types.rs:290`), so the receiver counts too few |
| `MCTransferPickUp` | `RetryPicksUp` | a retry has a new id, so it sends again what the receiver has |
| `MCFileStoreNames` | `NeverReplaced` | two writers find the same free name (`writer.rs:223`); the second rename replaces the first file (`writer.rs:250` promises a unique path) |
| `MCFileStoreFrozen` | `FrozenOnceDelivered` | a writer that opened the partial file before it was renamed writes its own, different file into the delivered one |
| `MCEngineAsk` | `CallsReturn` | a handler that asks for the transfers on `TransferCancelled` waits for the lock its own thread holds (`engine.rs:285`), against `engine.rs:31` "Events are delivered asynchronously via the registered handler." |
| `MCEngineStatements` | `BlockedHidden` | a blocked device seen over BLE, without fingerprint, is visible |
| | `BlockedIdentifiedHidden` | a device blocked between the trust lookup and the insertion (`engine.rs:109`) is inserted (`trust.rs:32`: "Device must never appear in discovery results") |
| | `TrustFromDatabase` | a report without fingerprint overwrites the trust level of an identified peer |
| | `EventsTell` | events are sent after the lock is released: lost can overtake discovered (`events.rs:4`: "the sole communication channel") |
| | `StopCancelsAll` | `send_files` does not look at the running flag |
| `MCEngineQuery` | `BlockedIdentifiedHidden` | a query that fails makes a blocked device Unknown (`db.rs:121`) |
| `MCEngineReset` | `BlockedOnlyReset` | `set_peer_trust` (`engine.rs:196`) goes from Blocked to Favorite without consulting `transition_to` (`trust.rs:22`: `Blocked` "can only transition back to `Unknown`") |
| `MCDiscoveryGone` | `GoneForgotten` | the host name of a peer ends in `.local` and is looked for in a full name that does not contain it (`browser.rs:187`), so peers that go offline stay in the map (`browser.rs:21`: "A known peer went offline.") |
| `MCDiscoveryMoved` | `SendNeverStrays` | the address of a send is looked up before the files are hashed; another device may have it by then, and the handshake compares no fingerprint with the peer picked |
| `MCNativeApiRace` | `OneEngine` | two threads both pass the test of `GLOBAL` (`legacy_c_abi.rs:78`: "Idempotent - don't double-init") |
| `MCNativeApiShared` | `OneIdentity` | two processes with one data directory both generate a key |
| `MCNativeApiTorn` | `KeyFileLoads` | a crash or a full disk between truncating and writing the key file leaves one that never parses; `justdrop_init` returns -2 from then on |
| `MCDataDirStatements` | `IdentityKept` | two processes find no identity at once, each makes its own, and the later save wins over what the first has announced |
| | `Startable` | the same truncation in `identity.rs:132`: no engine starts on the directory again |

`NoIncompleteVerdict`, `DeliveredIntact`, `ChunksTile`, `ImplementsDownloads`,
`CallsReturn`, `OneEngine`, `OneIdentity` and `IdentityKept` hold in the passing runs
because the instances there exclude these cases, each by a named constant (`IdOf`,
`TempPath`, `LargeThreshold`, `UsizeValues`, `StatFails`, `Asks`, `Hosts`, `Processes`,
`Overlap`) or, in `MCFileStore`, by the constraint `OthersInTurn`. A hazard that only
such a configuration shows has a note in `PROJECT.json` and no property.

## 5. Theorems

All proofs are checked by TLAPS for every value of the constants that satisfies
the modules' assumptions (`ChunkingAssumption`, `ConstantsAssumption`, `NegotiationAssumption`,
`ChannelAssumption`, `StoreAssumption`, `EngineAssumption`, `NativeApiAssumption`,
`DataDirAssumption`, `DiscoveryAssumption`), which TLC evaluates in every run. Every safety invariant,
action property and refinement the runs check is the subject of a theorem.

**`ChunkingProofs`.** `BitmapRoundTrip` - decoding an encoded set of chunks gives it
back; `GlobalOffsetsDistinct` - no two chunks of a manifest have one global number,
and all lie below the total. Both rest on lemmas about division and on the sums that
the recursive functions define.

**`ConnectionProofs`**, the negotiation. `SkipsExactly` - for every manifest and every
set of held chunks the sender passes over exactly those; it joins the two theorems
above. `ChunksTileFiles` - every byte of a file whose length `usize` can
hold is in exactly one chunk, as long as what `read_chunk` reads. `LoopCountsChunks` - the running sum of
`global_chunk_offset` is the number of chunks before a file. A sum over a manifest
calls for induction; it is done as well-founded minimality (the least number for which the
claim fails cannot exist), because the library's induction theorem cannot be
instantiated here.

**`ConnectionProofs`**, the connection. `FramesAlwaysOpen` and
`ConnectionImplementsChannel` - messages of any size, pieces of any size, a close, a
reset or a silent network at any byte. `ChannelInv` has three layers. `Turns` lists the
seven pairs of handshake stages the two ends can be in. `Calls` says who has a call
under way, and that the handshake has read no byte behind the frame it waits for. `Flow` looks
at the bytes to one end as one sequence: `Arriving` is its buffer and the wire,
`Coming` that and what the peer still has to write. Both are a `Stream`: frames
without a gap, numbered one after the other, from the number the end takes next
(`First`) on; the handshake message counts as 0, a sealed frame as its nonce + 1. While
nothing is lost `Coming` ends with a whole frame and its successor is the one the peer
sends next (`Due`). The invariant is asked of ends that have not closed only: a closed end's
bytes are dropped anywhere. `WholeFrame` then shows that what was gathered opens,
`Delivered` that it is the next message the peer began, and `CleanEnd` that an empty
stream behind a FIN means that none is missing.

**`TransferProofs`**, for any number of transfers, files, sizes, faults and edits:

* `CompletedAgrees` - when a sender completes, the receiver has delivered every file, and
  it has completed, is on the last steps to it, or was killed there (`Succeeds`).
  `CompletedAgreement` is not inductive: the verdict travels as a message.
  `AgreementInv` adds that a positive verdict under way implies such a receiver, and that
  while finalizing with `rok` every file before `rfile` is delivered.
* `ProtocolAlwaysAgrees` - no end is ever sent a message it does not wait for.
  `ProtocolInv` says how stages, queues and cursor fit: either neither end has
  closed (`InStep`: eleven combinations, of which one has two messages under way), or one has
  (`Parted`), and each end still running has the end of the connection next, or after
  the one message it waits for.
* `DeliveredFilesIntact` - every delivered file holds the promised bytes, with any
  number of transfers of one file at the same time, retried or offered again, over any
  leftovers. Three things are excepted: a file above the large-file threshold
  (`SmallSources`), an edited source (`edits = 0`) and a step that `Collides`:
  `ChunkWriter::new` opens a partial file under a writer that is still at work on it,
  of another source or of chunks that have been renamed away meanwhile. `IntactInv`
  follows a byte on its way: the sender's chunk length is the manifest's
  (`SenderKnows`), a chunk message has the bytes of its offset (`ChunksInFlight`),
  writers at work on one partial file write one source (`WritersAgree`), a recorded chunk
  is in the partial file while that exists (`WritersRight`), a delivered file was complete
  (`DeliveredRight`). That it does not collide is needed in both its parts
  (`MCTransferSharedPath`, `MCTransferThrice`), and so is `edits = 0` (`MCTransferStale`).
* `AckedAlwaysWritten` - what the sender has passed is written at the receiver or was
  reported by it. `AckInv` adds that every acknowledgement under way is for a written chunk.
* `NeverIncomplete` - when ids are drawn anew (`OwnIds`: `TransferManifest::new` calls
  `Uuid::new_v4`) no receiver that hears `TransferComplete` finds a file incomplete.
  `VerdictInv` adds to `AckInv` that such a transfer skips nothing and announces
  completion past the last chunk only. `MCTransferResume` shows that `OwnIds` is
  needed, `MCTransferLarge` that `SmallSources` is.
* `ResumeAlwaysBacked` - a chunk that a saved resume state records is in the partial
  file, or its file has been delivered, as long as no source was edited. Transfers may share partial files here, retry and overlap,
  but only files of one source do (`SourcesApart`), and an id that is
  offered again names the same files (`SameFiles`). `BackedInv` says so of the writers
  too. Its point is that `ChunkWriter::new` opens the partial file without truncating.
* `ProtocolFollowsMachine` - every step of `Transfer` is a valid transition of the
  state machine of one end, or none, one case per action. From `AgreementInv` it takes
  that no handler runs before its sender has started.
* `TypeCorrect` - types, on which the others rest.

**`FileStoreProofs`.** `StoreTypes`, whatever names the writers share;
`WritersImplementDownloads` - as long as writers that share a partial file or a final
name work one after the other (`SharersInTurn`) and `try_exists` answers (`~StatFails`),
`FileStore` implements `Downloads` at every system call, also over what earlier writers
of the same names delivered or left behind. `StoreInv` says that no inode has two names,
that a working writer's partial file is what it has open, that recorded chunks are in
it, and that a name found free is still free. `MCFileStoreNames` and
`MCFileStoreFrozen` show what happens when the sharers overlap.

**`EngineProofs`.** `EngineTypes`, `EventsBalance`, `BlockedAlwaysOut`,
`FingerprintsStay` (an action property) and `StopsOnce`, for any number of threads,
devices and calls, from `EngineInv`: which guard is held where, that a report about to
be inserted is not of a blocked device unless it is `late` (`LateReports`), and that one
thread at most is past the test of the running flag.

**`DiscoveryProofs`.** `DTypeCorrect`, `AnnouncedAlwaysListed` and `SendsReachNamed`, for any number of devices, names and changes, from `MapInv`: an
entry stands under its device's id and is not this device's own, a device's last report under way tells its latest
address, an entry with nothing more to come is current, and a send under way aims at a
device asked for. `EventsAlwaysReplay` - the events still in the broadcast channel,
applied to what the logger knows, give the map of peers, until the logger lags; the
applied prefix is a recursive function, and its unfolding is again by minimality.

**`DataDirProofs`.** For any number of processes, starts and kills, `DirTypeCorrect`,
`MigrationComplete` and `RunningReady`; and `IdentityPermanent` when processes do not
look for the identity at once (`~Overlap`). `SchemaSound` says
that a process which has run `k` statements of a migration finds what they create,
whatever others run; `IdentitySound` that at most one process looks for the identity,
and that who is past that holds what is on disk.

**`NativeApiProofs`.** `NativeTypes`; `OneEnginePerProcess` for one host thread per
process (`HostPerProcess`), which is how the Android service (main thread) and the macOS
app call it; `IdentityLasts` for any processes and threads, as long as no two calls of
`justdrop_init` have both found no key file and not yet written one (`SavesApart`). A
daemon and the command line, or an app and its share extension, may start in any order
and run side by side; only the first two starts of a device must not coincide. `CallInv`
ties keys and engines to a thread's place in a call; `OneEngineInv` says that `GLOBAL` is
empty while a host starts or drops an engine, so that the gap between the two critical
sections of `justdrop_init` is harmless; `OneIdentityInv` that the key being announced
is the one in the file. `MCNativeApiRace` and `MCNativeApiShared` show that both
hypotheses are needed.

Only model-checked: liveness (`HandlersEnd`, `FaultFreeCompletes`, `RecvReturns`,
`CallsReturn`), which needs fairness and `ENABLED`; and what a theorem excludes by
a hypothesis but an instance has: `ImplementsDownloads` for two writers of one file at
once (`MCFileStore`).

## 6. Not modelled, and why

Cryptography, serialisation, hashing and compression are functions of data the
properties do not tell apart. `TransferEvent`s and progress carry no control.
`Cancel` is received but sent by no code. `connect_with_retry`, `stream_chunks`,
`restore_completed`, `cleanup`, `list_pending`, `sendfile`, the QUIC endpoint,
protocol v2, `SessionKeys` and `SessionCipher`, the transfer history and
`resume_state` tables, the records of `justdrop-ble` and `TransferWorker.enqueue`
have no caller in the transfer path. The accept loop ends when its port cannot be
bound (`legacy_c_abi.rs:163`); nothing else of the engine depends on it. The views of both apps keep no state of the system. The mDNS
library, tokio's channels and pools, TCP and the file system are external and
modelled by what the code relies on.

## 7. Plan

Written first, because everything else serves it: `Chunking`,
`ResumeNegotiation`, `Transfer` with its type invariant, agreement and intact
files. Then what `Transfer` takes as one step (`FileStore` under `Downloads`,
`SecureChannel` under `Channel`), the two ways platforms hold the engine (`Engine`,
`NativeApi`), `Discovery` with the sends that start from it, the data directory
(`DataDir`) and the documented state machine (`TransferStates`). All of these
exist. Next, in this order:

1. `ImplementsDownloads` proved for two writers of one file at once.
2. `TransferContract`, an abstract transfer (offered, decided, then delivered or
   failed, per file) that `Transfer` implements, and its refinement proved.
3. The platforms: `Nearby` (BLE advertiser, scanner with its loss timeout, GATT
   server and client), `Hotspot` (Android hotspot and connector, macOS Wi-Fi) and
   `AppLifecycle` (the Android services and the macOS view model over
   `NativeApi`), each run alone and then composed.
