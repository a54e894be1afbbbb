---------------------------- MODULE NativeApi ----------------------------
(***************************************************************************)
(* The C interface of justdrop-ffi (legacy_c_abi.rs), which the Android    *)
(* service and the macOS apps call: one engine per process behind the      *)
(* mutex GLOBAL, built by justdrop_init and dropped by justdrop_shutdown,  *)
(* and the identity key file it loads or creates (keys.rs).                *)
(*                                                                         *)
(* An engine is a record that one place owns at a time: the thread that    *)
(* builds it, GLOBAL, or the thread that drops it.  Its fields are dropped *)
(* in the order they are declared, and dropping the runtime waits for the  *)
(* blocking task that reads mDNS events, which ends when the mDNS daemon   *)
(* of the registrar does, or never starts if it was still queued.          *)
(*                                                                         *)
(* What send_files and get_peers do to the engine is nothing but spawn a   *)
(* task (module Transfer) and read the peers (module Discovery): here they *)
(* are calls that need the mutex.                                          *)
(***************************************************************************)
EXTENDS Integers, FiniteSets, Sequences

CONSTANTS
  Processes,  \* processes that share a data directory
  Threads,    \* threads of theirs that call the interface
  Home,       \* Home[th]: the process of a thread
  Hosts,      \* threads that call init and shutdown
  Keys,       \* key pairs that can be generated
  NoKey, NoEngine, Nobody,
  OldFiles,   \* what the key file may be at first
  MaxCalls,   \* bound on the calls of a thread
  MaxKills    \* bound on the processes killed

File == Keys \cup {"absent", "empty", "garbled"}
Engine == [key : Keys, browser : {"queued", "running"}, mdns : BOOLEAN]
Places == {"idle", "exists", "reading", "opening", "writing", "building",
           "installing", "stopping", "dropping", "asking"}

ASSUME NativeApiAssumption ==
  /\ Home \in [Threads -> Processes]
  /\ Hosts \subseteq Threads
  /\ OldFiles \subseteq File
  /\ NoKey \notin Keys
  /\ {"absent", "empty", "garbled"} \cap Keys = {}
  /\ NoEngine \notin Engine
  /\ Nobody \notin Threads
  /\ MaxCalls \in Nat /\ MaxKills \in Nat

VARIABLES
  file,    \* identity_keys.json
  made,    \* keys generated so far
  global,  \* global[p]: GLOBAL, the engine or NoEngine
  lock,    \* lock[p]: the thread that keeps GLOBAL locked over more steps
  pc,      \* pc[th]: where a thread is in a call
  key,     \* key[th]: the key of the engine a thread is building
  fresh,   \* fresh[th]: the engine a thread has built
  old,     \* old[th]: the engine a thread is dropping
  dropped, \* dropped[th]: how many parts of it are gone
  shown,   \* the keys ever announced (history)
  calls, kills

nvars == <<file, made, global, lock, pc, key, fresh, old, dropped, shown,
           calls, kills>>
identity == <<file, made, shown>>
threads == <<key, fresh, old, dropped>>

NInit ==
  /\ file \in OldFiles
  /\ made = OldFiles \cap Keys
  /\ global = [p \in Processes |-> NoEngine]
  /\ lock = [p \in Processes |-> Nobody]
  /\ pc = [th \in Threads |-> "idle"]
  /\ key = [th \in Threads |-> NoKey]
  /\ fresh = [th \in Threads |-> NoEngine]
  /\ old = [th \in Threads |-> NoEngine]
  /\ dropped = [th \in Threads |-> 0]
  /\ shown = {}
  /\ calls = [th \in Threads |-> 0]
  /\ kills = 0

At(th, place) == pc[th] = place
Goto(th, place) == pc' = [pc EXCEPT ![th] = place]
Free(th) == lock[Home[th]] = Nobody

Call(th) ==
  /\ At(th, "idle")
  /\ calls[th] < MaxCalls
  /\ calls' = [calls EXCEPT ![th] = @ + 1]

---------------------------------------------------------------------------
(* justdrop_init *)

\* Mutant: the engine that runs already is not looked for.
Init_again(th) ==
  /\ th \in Hosts
  /\ Call(th) /\ Free(th)
  /\ Goto(th, "exists")
  /\ UNCHANGED <<identity, global, lock, threads, kills>>

\* "Idempotent": nothing to do if an engine is installed.  The mutex is
\* released at once.
Init(th) ==
  /\ th \in Hosts
  /\ Call(th) /\ Free(th)
  /\ Goto(th, IF global[Home[th]] = NoEngine THEN "exists" ELSE "idle")
  /\ UNCHANGED <<identity, global, lock, threads, kills>>

\* Mutant: a key file that is there is not used.
KeyExists_ignored(th) ==
  /\ At(th, "exists")
  /\ \E k \in Keys \ made :
       /\ made' = made \cup {k}
       /\ key' = [key EXCEPT ![th] = k]
       /\ Goto(th, "opening")
  /\ UNCHANGED <<file, shown, global, lock, fresh, old, dropped, calls, kills>>

\* load_or_generate looks for the file, and generates a key pair without it.
KeyExists(th) ==
  /\ At(th, "exists")
  /\ IF file # "absent"
     THEN Goto(th, "reading") /\ UNCHANGED <<made, key>>
     ELSE \E k \in Keys \ made :
            /\ made' = made \cup {k}
            /\ key' = [key EXCEPT ![th] = k]
            /\ Goto(th, "opening")
  /\ UNCHANGED <<file, shown, global, lock, fresh, old, dropped, calls, kills>>

\* Mutant: what was read is taken for a key.
ReadKey_unparsed(th) ==
  /\ At(th, "reading")
  /\ key' = [key EXCEPT ![th] = file] /\ Goto(th, "building")
  /\ UNCHANGED <<identity, global, lock, fresh, old, dropped, calls, kills>>

\* load_from_file: what does not parse makes init return -2.
ReadKey(th) ==
  /\ At(th, "reading")
  /\ IF file \in Keys
     THEN key' = [key EXCEPT ![th] = file] /\ Goto(th, "building")
     ELSE key' = key /\ Goto(th, "idle")
  /\ UNCHANGED <<identity, global, lock, fresh, old, dropped, calls, kills>>

\* save: fs::write creates or truncates the file ...
OpenKeyFile(th) ==
  /\ At(th, "opening")
  /\ file' = "empty"
  /\ Goto(th, "writing")
  /\ UNCHANGED <<made, shown, global, lock, threads, calls, kills>>

\* ... and then writes it ("empty" is also any part of it).  Over another writer's text it leaves that text's
\* end where it is the longer one: key files differ in length.
WriteKey(th) ==
  /\ At(th, "writing")
  /\ file' \in IF file = "empty" THEN {key[th]} ELSE {key[th], "garbled"}
  /\ Goto(th, "building")
  /\ UNCHANGED <<made, shown, global, lock, threads, calls, kills>>

\* The runtime, the mDNS registration and the browser, whose task is queued
\* on the runtime's blocking pool.
Build(th) ==
  /\ At(th, "building")
  /\ fresh' = [fresh EXCEPT ![th] =
                 [key |-> key[th], browser |-> "queued", mdns |-> TRUE]]
  /\ shown' = shown \cup {key[th]}
  /\ Goto(th, "installing")
  /\ UNCHANGED <<file, made, global, lock, key, old, dropped, calls, kills>>

\* A step of init fails (-1 to -6), before or after what it does: a write that
\* fails may have changed what another writer put there, and the engine may be on
\* the network by then (-6 follows register).  What was built is dropped, the
\* registrar, which withdraws it, before the runtime.
InitFails(th) ==
  /\ pc[th] \in {"exists", "reading", "opening", "writing", "building"}
  /\ file' \in IF At(th, "writing") /\ file # "empty" THEN {file, "garbled"} ELSE {file}
  /\ shown' \in IF At(th, "building") THEN {shown, shown \cup {key[th]}} ELSE {shown}
  /\ key' = [key EXCEPT ![th] = NoKey]
  /\ Goto(th, "idle")
  /\ UNCHANGED <<made, global, lock, fresh, old, dropped, calls, kills>>

\* The engine is stored in GLOBAL; an engine that is there is dropped first,
\* with the mutex locked.
Install(th) ==
  LET p == Home[th] IN
  /\ At(th, "installing")
  /\ Free(th)
  /\ key' = [key EXCEPT ![th] = NoKey]
  /\ IF global[p] = NoEngine
     THEN /\ global' = [global EXCEPT ![p] = fresh[th]]
          /\ fresh' = [fresh EXCEPT ![th] = NoEngine]
          /\ Goto(th, "idle")
          /\ UNCHANGED <<lock, old>>
     ELSE /\ old' = [old EXCEPT ![th] = global[p]]
          /\ global' = [global EXCEPT ![p] = NoEngine]
          /\ lock' = [lock EXCEPT ![p] = th]
          /\ Goto(th, "dropping")
          /\ UNCHANGED fresh
  /\ UNCHANGED <<identity, dropped, calls, kills>>

---------------------------------------------------------------------------
(* justdrop_shutdown, and what dropping an engine does *)

Shutdown(th) ==
  /\ th \in Hosts
  /\ Call(th)
  /\ Goto(th, "stopping")
  /\ UNCHANGED <<identity, global, lock, threads, kills>>

\* guard.take(): the engine is dropped before the guard is.
Take(th) ==
  LET p == Home[th] IN
  /\ At(th, "stopping")
  /\ Free(th)
  /\ IF global[p] = NoEngine
     THEN Goto(th, "idle") /\ UNCHANGED <<global, lock, old>>
     ELSE /\ old' = [old EXCEPT ![th] = global[p]]
          /\ global' = [global EXCEPT ![p] = NoEngine]
          /\ lock' = [lock EXCEPT ![p] = th]
          /\ Goto(th, "dropping")
  /\ UNCHANGED <<identity, key, fresh, dropped, calls, kills>>

\* The fields of GlobalState that have something to do when dropped, in the
\* order of their declaration.
DropOrder == <<"runtime", "_registrar">>

\* The blocking task of start_browsing: its loop ends when the daemon closes
\* the channel.
Browsing(e) == e.browser = "running" /\ e.mdns

\* A queued task is discarded by the runtime's shutdown, a running one is
\* waited for.
DropField(th) ==
  LET part == DropOrder[dropped[th] + 1] IN
  /\ At(th, "dropping")
  /\ dropped[th] < Len(DropOrder)
  /\ part = "runtime" => ~Browsing(old[th])
  /\ dropped' = [dropped EXCEPT ![th] = @ + 1]
  /\ old' = IF part = "_registrar" THEN [old EXCEPT ![th].mdns = FALSE] ELSE old
  /\ UNCHANGED <<identity, global, lock, pc, key, fresh, calls, kills>>

\* All fields are dropped: GLOBAL gets the new engine if there is one, and the
\* mutex is released.
Dropped(th) ==
  LET p == Home[th] IN
  /\ At(th, "dropping")
  /\ dropped[th] = Len(DropOrder)
  /\ global' = [global EXCEPT ![p] = fresh[th]]
  /\ lock' = [lock EXCEPT ![p] = Nobody]
  /\ fresh' = [fresh EXCEPT ![th] = NoEngine]
  /\ old' = [old EXCEPT ![th] = NoEngine]
  /\ dropped' = [dropped EXCEPT ![th] = 0]
  /\ Goto(th, "idle")
  /\ UNCHANGED <<identity, key, calls, kills>>

---------------------------------------------------------------------------
(* The other calls, the browsing task and the end of a process *)

\* justdrop_get_peers and justdrop_send_files are called ...
Ask(th) ==
  /\ Call(th)
  /\ Goto(th, "asking")
  /\ UNCHANGED <<identity, global, lock, threads, kills>>

\* ... and answer, whatever they find, once they have the mutex.
Answer(th) ==
  /\ At(th, "asking")
  /\ Free(th)
  /\ Goto(th, "idle")
  /\ UNCHANGED <<identity, global, lock, threads, calls, kills>>

\* A thread of the blocking pool takes the browsing task up.
BrowserStarts ==
  /\ \/ \E p \in Processes :
          /\ global[p] # NoEngine /\ global[p].browser = "queued"
          /\ global' = [global EXCEPT ![p].browser = "running"]
          /\ UNCHANGED <<fresh, old>>
     \/ \E th \in Threads :
          /\ fresh[th] # NoEngine /\ fresh[th].browser = "queued"
          /\ fresh' = [fresh EXCEPT ![th].browser = "running"]
          /\ UNCHANGED <<global, old>>
     \/ \E th \in Threads :
          /\ old[th] # NoEngine /\ dropped[th] = 0 /\ old[th].browser = "queued"
          /\ old' = [old EXCEPT ![th].browser = "running"]
          /\ UNCHANGED <<global, fresh>>
  /\ UNCHANGED <<identity, lock, pc, key, dropped, calls, kills>>

\* A process dies, the file stays.
Kill(p) ==
  LET Lose(f, none) == [th \in Threads |-> IF Home[th] = p THEN none ELSE f[th]] IN
  /\ kills < MaxKills
  /\ kills' = kills + 1
  /\ global' = [global EXCEPT ![p] = NoEngine]
  /\ lock' = [lock EXCEPT ![p] = Nobody]
  /\ pc' = Lose(pc, "idle")
  /\ key' = Lose(key, NoKey)
  /\ fresh' = Lose(fresh, NoEngine)
  /\ old' = Lose(old, NoEngine)
  /\ dropped' = Lose(dropped, 0)
  /\ UNCHANGED <<identity, calls>>

Continue(th) ==
  \/ KeyExists(th) \/ ReadKey(th) \/ OpenKeyFile(th) \/ WriteKey(th)
  \/ Build(th) \/ InitFails(th) \/ Install(th)
  \/ Take(th) \/ DropField(th) \/ Dropped(th) \/ Answer(th)

NNext ==
  \/ \E th \in Threads : Init(th) \/ Shutdown(th) \/ Ask(th) \/ Continue(th)
  \/ BrowserStarts
  \/ \E p \in Processes : Kill(p)

NSpec == NInit /\ [][NNext]_nvars

\* A thread in a call goes on, and the pool starts its tasks.
NFairSpec == NSpec /\ WF_nvars(BrowserStarts)
                   /\ \A th \in Threads : WF_nvars(Continue(th))

---------------------------------------------------------------------------
(* Properties *)

Maybe(S, none) == S \cup {none}

\* The values of the variables of legacy_c_abi.rs and of the key file.
NTypeOK ==
  /\ file \in File
  /\ made \in SUBSET Keys /\ shown \in SUBSET made
  /\ global \in [Processes -> Maybe(Engine, NoEngine)]
  /\ lock \in [Processes -> Maybe(Threads, Nobody)]
  /\ pc \in [Threads -> Places]
  /\ key \in [Threads -> Maybe(Keys, NoKey)]
  /\ fresh \in [Threads -> Maybe(Engine, NoEngine)]
  /\ old \in [Threads -> Maybe(Engine, NoEngine)]
  /\ dropped \in [Threads -> 0..Len(DropOrder)]
  /\ calls \in [Threads -> 0..MaxCalls]
  /\ kills \in 0..MaxKills

\* Who owns an engine of process p that is on the network.
Owners(p) ==
  {<<"building", th>> : th \in {t \in Threads : Home[t] = p /\ fresh[t] # NoEngine}}
    \cup {<<"dropping", th>> : th \in {t \in Threads :
                              Home[t] = p /\ old[t] # NoEngine /\ old[t].mdns}}
    \cup (IF global[p] # NoEngine THEN {<<"installed", p>>} ELSE {})

\* A process never announces two engines: init is idempotent, and shutdown
\* withdraws the one it takes before another can be installed.
OneEngine == \A p \in Processes : \A a, b \in Owners(p) : a = b

\* Over all crashes and restarts a device announces one identity: peers keep
\* their trust under the fingerprint of its key (load_or_generate).
OneIdentity == \A k, l \in shown : k = l

\* "Shut down the Rust engine": the call returns.
ShutdownReturns == \A th \in Hosts : At(th, "stopping") ~> At(th, "idle")

\* "Load existing keys from disk": a key file nobody is writing can be loaded.
KeyFileLoads ==
  (\A th \in Threads : ~At(th, "writing")) => file \in Keys \cup {"absent"}

---------------------------------------------------------------------------
(* Inductive invariants (see NativeApiProofs) *)

\* One thread of each process starts and stops engines.
HostPerProcess == \A th, ot \in Hosts : Home[th] = Home[ot] => th = ot

\* No two calls of init, of any processes, are between finding no key file and
\* having written one: load_or_generate does not exclude it.
SavesApart ==
  \A th, ot \in Threads :
    pc[th] \in {"opening", "writing"} /\ pc[ot] \in {"opening", "writing"} => th = ot

Starting == {"exists", "reading", "opening", "writing", "building", "installing"}
Dropping == {"stopping", "dropping"}

\* A key that is used was made; a thread that makes an engine has its key, and
\* has an engine to drop exactly while it drops it.  Only hosts start and stop.
CallInv ==
  /\ NTypeOK
  /\ file \in Keys => file \in made
  /\ \A th \in Threads :
       /\ key[th] # NoKey => key[th] \in made
       /\ pc[th] \in {"opening", "writing", "building"} => key[th] # NoKey
       /\ old[th] # NoEngine <=> At(th, "dropping")
       /\ pc[th] \in Starting \cup Dropping => th \in Hosts

\* While a thread starts or drops an engine, GLOBAL is empty; an engine that is
\* built is about to be installed.
OneEngineInv ==
  \A th \in Threads :
    /\ pc[th] \in Starting \cup {"dropping"} => global[Home[th]] = NoEngine
    /\ fresh[th] # NoEngine => At(th, "installing")

\* The key of an engine being made is the one in the file, or will be, whatever
\* other processes do with the file; what was announced is in the file.
OneIdentityInv ==
  /\ \A th \in Threads :
       /\ At(th, "opening") => file = "absent"
       /\ At(th, "writing") => file = "empty"
       /\ At(th, "building") => file = key[th]
  /\ \A k \in shown : k = file
============
