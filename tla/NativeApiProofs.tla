-------------------------- MODULE NativeApiProofs --------------------------
(***************************************************************************)
(* The life cycle of the engine for any number of processes, threads, keys *)
(* and crashes: types; one engine per process when one thread of it starts *)
(* and stops; one identity while no two calls of init save a key at once.  *)
(***************************************************************************)
EXTENDS NativeApi, TLAPS

\* The three parts of a state the provers need to tell apart.
LEMMA Distinct ==
  /\ NoKey \notin Keys /\ NoEngine \notin Engine /\ Nobody \notin Threads
  /\ "absent" \notin Keys /\ "empty" \notin Keys /\ "garbled" \notin Keys
  /\ Home \in [Threads -> Processes] /\ Hosts \subseteq Threads
  /\ MaxCalls \in Nat /\ MaxKills \in Nat
  /\ Len(DropOrder) = 2 /\ DropOrder[1] = "runtime" /\ DropOrder[2] = "_registrar"
BY NativeApiAssumption DEF NativeApiAssumption, DropOrder

---------------------------------------------------------------------------
(* Types *)

\* The initial state satisfies CallInv.
LEMMA CallInit == NInit => CallInv
BY NativeApiAssumption, Distinct DEF NativeApiAssumption, NInit, CallInv, NTypeOK, File, Engine, Maybe, Places,
   At, Starting, Dropping

\* init preserves CallInv.
LEMMA StartKeepsCallInv ==
  ASSUME CallInv, NEW th \in Threads,
         Init(th) \/ KeyExists(th) \/ ReadKey(th) \/ OpenKeyFile(th) \/ WriteKey(th)
           \/ Build(th) \/ InitFails(th)
  PROVE  CallInv'
<1> USE Distinct DEF CallInv, NTypeOK, Maybe, At, Goto, Starting, Dropping, threads, identity
<1>1. CASE Init(th)
  BY <1>1 DEF Init, Call, Free, Places
<1>2. CASE KeyExists(th)
  BY <1>2 DEF KeyExists, Places
<1>3. CASE ReadKey(th)
  BY <1>3 DEF ReadKey, Places
<1>4. CASE OpenKeyFile(th)
  BY <1>4 DEF OpenKeyFile, Places, File
<1>5. CASE WriteKey(th)
  <2>1. file' = key[th] \/ file' = "garbled"
    BY <1>5 DEF WriteKey
  <2> QED BY <1>5, <2>1 DEF WriteKey, Places, File
<1>6. CASE Build(th)
  <2>1. key[th] \in Keys /\ key[th] \in made
    BY <1>6 DEF Build
  <2>2. [key |-> key[th], browser |-> "queued", mdns |-> TRUE] \in Engine
    BY <2>1 DEF Engine
  <2> QED BY <1>6, <2>1, <2>2 DEF Build, Places
<1>7. CASE InitFails(th)
  <2>1. file' = file \/ file' = "garbled"
    BY <1>7 DEF InitFails
  <2>2. shown' \in SUBSET made /\ made' = made
    BY <1>7 DEF InitFails
  <2> QED BY <1>7, <2>1, <2>2 DEF InitFails, Places, File
<1> QED BY <1>1, <1>2, <1>3, <1>4, <1>5, <1>6, <1>7

\* Installing and dropping engines preserves CallInv.
LEMMA StopKeepsCallInv ==
  ASSUME CallInv, NEW th \in Threads,
         Install(th) \/ Shutdown(th) \/ Take(th) \/ DropField(th) \/ Dropped(th)
           \/ Ask(th) \/ Answer(th)
  PROVE  CallInv'
<1> USE Distinct DEF CallInv, NTypeOK, Maybe, At, Goto, Starting, Dropping, threads, identity
<1>1. CASE Install(th)
  <2> Home[th] \in Processes
    OBVIOUS
  <2>1. CASE global[Home[th]] = NoEngine
    BY <1>1, <2>1 DEF Install, Places
  <2>2. CASE global[Home[th]] # NoEngine
    BY <1>1, <2>2 DEF Install, Places
  <2> QED BY <2>1, <2>2
<1>2. CASE Shutdown(th)
  BY <1>2 DEF Shutdown, Call, Places
<1>3. CASE Take(th)
  <2> Home[th] \in Processes
    OBVIOUS
  <2>1. CASE global[Home[th]] = NoEngine
    BY <1>3, <2>1 DEF Take, Places
  <2>2. CASE global[Home[th]] # NoEngine
    BY <1>3, <2>2 DEF Take, Places
  <2> QED BY <2>1, <2>2
<1>4. CASE DropField(th)
  <2>1. old[th] \in Engine
    BY <1>4 DEF DropField
  <2>2. [old[th] EXCEPT !.mdns = FALSE] \in Engine
    BY <2>1 DEF Engine
  <2>3. dropped'[th] \in 0..2
    BY <1>4 DEF DropField
  <2>4. old' \in [Threads -> Engine \cup {NoEngine}]
        /\ \A t \in Threads : old'[t] # NoEngine <=> old[t] # NoEngine
    BY <1>4, <2>1, <2>2 DEF DropField
  <2> QED BY <1>4, <2>3, <2>4 DEF DropField
<1>5. CASE Dropped(th)
  <2> Home[th] \in Processes
    OBVIOUS
  <2> QED BY <1>5 DEF Dropped, Places
<1>6. CASE Ask(th)
  BY <1>6 DEF Ask, Call, Places
<1>7. CASE Answer(th)
  BY <1>7 DEF Answer, Places
<1> QED BY <1>1, <1>2, <1>3, <1>4, <1>5, <1>6, <1>7

\* What the pool does to an engine keeps it an engine.
LEMMA Running ==
  ASSUME NEW e \in Engine
  PROVE  [e EXCEPT !.browser = "running"] \in Engine
BY DEF Engine

\* The pool and the end of a process preserve CallInv.
LEMMA OthersKeepCallInv ==
  ASSUME CallInv, BrowserStarts \/ \E p \in Processes : Kill(p)
  PROVE  CallInv'
<1> USE Distinct DEF CallInv, NTypeOK, Maybe, At, Starting, Dropping, threads, identity
<1>1. CASE BrowserStarts
  <2>1. /\ UNCHANGED <<identity, lock, pc, key, dropped, calls, kills>>
        /\ global' \in [Processes -> Engine \cup {NoEngine}]
        /\ fresh' \in [Threads -> Engine \cup {NoEngine}]
        /\ old' \in [Threads -> Engine \cup {NoEngine}]
        /\ \A t \in Threads : old'[t] # NoEngine <=> old[t] # NoEngine
    BY <1>1, Running DEF BrowserStarts
  <2> QED BY <2>1
<1>2. ASSUME NEW p \in Processes, Kill(p) PROVE CallInv'
  <2>1. /\ pc' = [t \in Threads |-> IF Home[t] = p THEN "idle" ELSE pc[t]]
        /\ key' = [t \in Threads |-> IF Home[t] = p THEN NoKey ELSE key[t]]
        /\ fresh' = [t \in Threads |-> IF Home[t] = p THEN NoEngine ELSE fresh[t]]
        /\ old' = [t \in Threads |-> IF Home[t] = p THEN NoEngine ELSE old[t]]
        /\ dropped' = [t \in Threads |-> IF Home[t] = p THEN 0 ELSE dropped[t]]
        /\ global' \in [Processes -> Engine \cup {NoEngine}]
        /\ lock' \in [Processes -> Threads \cup {Nobody}]
        /\ kills' \in 0..MaxKills
        /\ UNCHANGED <<identity, calls>>
    BY <1>2, NativeApiAssumption DEF Kill, NativeApiAssumption
  <2> QED BY <2>1 DEF Places
<1> QED BY <1>1, <1>2
\* Every step preserves CallInv.
LEMMA CallStep == CallInv /\ [NNext]_nvars => CallInv'
<1> SUFFICES ASSUME CallInv, [NNext]_nvars PROVE CallInv'
  OBVIOUS
<1>1. CASE NNext
  BY <1>1, StartKeepsCallInv, StopKeepsCallInv, OthersKeepCallInv DEF NNext, Continue
<1>2. CASE UNCHANGED nvars
  BY <1>2 DEF nvars, CallInv, NTypeOK, At
<1> QED BY <1>1, <1>2

\* CallInv, in every state of every instance.
LEMMA CallsRight == NSpec => []CallInv
BY CallInit, CallStep, PTL DEF NSpec

\* The type invariant of the C interface and the key file.
THEOREM NativeTypes == NSpec => []NTypeOK
<1>1. CallInv => NTypeOK
  BY DEF CallInv
<1> QED BY <1>1, CallsRight, PTL

---------------------------------------------------------------------------
(* One engine per process *)

\* Init and stop of a host that is alone in its process preserve OneEngineInv.
LEMMA OneEngineStep ==
  ASSUME HostPerProcess, CallInv, OneEngineInv, [NNext]_nvars
  PROVE  OneEngineInv'
<1> USE Distinct DEF CallInv, NTypeOK, Maybe, At, Goto, OneEngineInv, Starting, Dropping,
        threads, identity
<1>1. ASSUME NEW th \in Threads,
             Init(th) \/ KeyExists(th) \/ ReadKey(th) \/ OpenKeyFile(th) \/ WriteKey(th)
      PROVE  OneEngineInv'
  BY <1>1 DEF Init, Call, KeyExists, ReadKey, OpenKeyFile, WriteKey
<1>2. ASSUME NEW th \in Threads,
             Build(th) \/ InitFails(th) \/ Shutdown(th) \/ Ask(th) \/ Answer(th)
                \/ DropField(th)
      PROVE  OneEngineInv'
  BY <1>2 DEF Build, InitFails, Shutdown, Call, Ask, Answer, DropField
<1>3. ASSUME NEW th \in Threads, Install(th) PROVE OneEngineInv'
  <2>1. Home[th] \in Processes /\ At(th, "installing") /\ global[Home[th]] = NoEngine
    BY <1>3 DEF Install
  <2>2. \A t \in Threads \ {th} :
          pc[t] \in Starting \cup {"dropping"} => Home[t] # Home[th]
    BY <2>1 DEF HostPerProcess
  <2>3. /\ global' = [global EXCEPT ![Home[th]] = fresh[th]]
        /\ fresh' = [fresh EXCEPT ![th] = NoEngine]
        /\ pc' = [pc EXCEPT ![th] = "idle"]
    BY <1>3, <2>1 DEF Install
  <2> QED BY <2>1, <2>2, <2>3
<1>4. ASSUME NEW th \in Threads, Take(th) PROVE OneEngineInv'
  <2> Home[th] \in Processes
    OBVIOUS
  <2>1. CASE global[Home[th]] = NoEngine
    BY <1>4, <2>1 DEF Take
  <2>2. CASE global[Home[th]] # NoEngine
    BY <1>4, <2>2 DEF Take
  <2> QED BY <2>1, <2>2
<1>5. ASSUME NEW th \in Threads, Dropped(th) PROVE OneEngineInv'
  <2>1. Home[th] \in Processes /\ At(th, "dropping") /\ fresh[th] = NoEngine
    BY <1>5 DEF Dropped
  <2>2. /\ global' = [global EXCEPT ![Home[th]] = NoEngine]
        /\ fresh' = [fresh EXCEPT ![th] = NoEngine]
        /\ pc' = [pc EXCEPT ![th] = "idle"]
    BY <1>5, <2>1 DEF Dropped
  <2> QED BY <2>1, <2>2
<1>6. CASE BrowserStarts
  <2>1. /\ pc' = pc
        /\ \A p \in Processes : global[p] = NoEngine => global'[p] = NoEngine
        /\ \A t \in Threads : fresh[t] = NoEngine => fresh'[t] = NoEngine
    BY <1>6 DEF BrowserStarts
  <2> QED BY <2>1
<1>7. ASSUME NEW p \in Processes, Kill(p) PROVE OneEngineInv'
  <2>1. /\ pc' = [t \in Threads |-> IF Home[t] = p THEN "idle" ELSE pc[t]]
        /\ fresh' = [t \in Threads |-> IF Home[t] = p THEN NoEngine ELSE fresh[t]]
        /\ global' = [global EXCEPT ![p] = NoEngine]
    BY <1>7 DEF Kill
  <2> QED BY <2>1
<1>8. CASE UNCHANGED nvars
  BY <1>8 DEF nvars
<1> QED BY <1>1, <1>2, <1>3, <1>4, <1>5, <1>6, <1>7, <1>8 DEF NNext, Continue

\* The owners of engines are the host at work or GLOBAL, never both.
LEMMA OneOwner ==
  ASSUME HostPerProcess, CallInv, OneEngineInv
  PROVE  OneEngine
<1> SUFFICES ASSUME NEW p \in Processes, NEW a \in Owners(p), NEW b \in Owners(p)
             PROVE  a = b
  BY DEF OneEngine
<1> DEFINE AtWork(t) == Home[t] = p /\ pc[t] \in {"installing", "dropping"}
<1>1. \A o \in Owners(p) :
        \/ \E t \in Threads : AtWork(t) /\ o = <<"building", t>> /\ At(t, "installing")
        \/ \E t \in Threads : AtWork(t) /\ o = <<"dropping", t>> /\ At(t, "dropping")
        \/ o = <<"installed", p>> /\ global[p] # NoEngine
  BY DEF Owners, CallInv, OneEngineInv, At
<1>2. \A t \in Threads : AtWork(t) => t \in Hosts /\ global[p] = NoEngine
  BY DEF CallInv, OneEngineInv, Starting, Dropping
<1>3. \A t, u \in Threads : AtWork(t) /\ AtWork(u) => t = u
  BY <1>2 DEF HostPerProcess
<1> QED BY <1>1, <1>2, <1>3 DEF At

\* If one thread of each process starts and stops the engine, as on Android and
\* macOS, a process never announces two engines: GLOBAL, checked and set in two
\* critical sections, is enough.
THEOREM OneEnginePerProcess ==
  ASSUME HostPerProcess
  PROVE  NSpec => []OneEngine
<1>1. NInit => OneEngineInv
  BY Distinct DEF NInit, OneEngineInv, At, Starting
<1>2. CallInv /\ OneEngineInv /\ [NNext]_nvars => OneEngineInv'
  BY OneEngineStep
<1>3. CallInv /\ OneEngineInv => OneEngine
  BY OneOwner
<1> QED BY <1>1, <1>2, <1>3, CallsRight, PTL DEF NSpec

---------------------------------------------------------------------------
(* One identity *)

\* The file and the keys announced agree, however many processes load the key,
\* while no two of them save one at once.
LEMMA OneIdentityStep ==
  ASSUME CallInv, SavesApart, SavesApart', OneIdentityInv, [NNext]_nvars
  PROVE  OneIdentityInv'
<1> USE Distinct DEF CallInv, NTypeOK, Maybe, At, Goto, OneIdentityInv, Starting, Dropping,
        threads, identity
<1>b. \A k \in shown : k \in Keys
  OBVIOUS
<1>1. ASSUME NEW th \in Threads, Init(th) PROVE OneIdentityInv'
  BY <1>1 DEF Init, Call
<1>2. ASSUME NEW th \in Threads, KeyExists(th) PROVE OneIdentityInv'
  BY <1>2 DEF KeyExists
<1>3. ASSUME NEW th \in Threads, ReadKey(th) PROVE OneIdentityInv'
  BY <1>3 DEF ReadKey
<1>4. ASSUME NEW th \in Threads, OpenKeyFile(th) PROVE OneIdentityInv'
  <2>1. /\ At(th, "opening") /\ file = "absent" /\ file' = "empty"
        /\ pc' = [pc EXCEPT ![th] = "writing"] /\ UNCHANGED <<made, shown, key>>
    BY <1>4 DEF OpenKeyFile
  <2>2. \A t \in Threads : ~At(t, "building") /\ ~At(t, "writing") /\ (At(t, "opening") => t = th)
    BY <2>1 DEF SavesApart
  <2> QED BY <2>1, <2>2, <1>b
<1>5. ASSUME NEW th \in Threads, WriteKey(th) PROVE OneIdentityInv'
  <2>1. /\ At(th, "writing") /\ file = "empty" /\ file' = key[th]
        /\ pc' = [pc EXCEPT ![th] = "building"] /\ UNCHANGED <<made, shown, key>>
    BY <1>5 DEF WriteKey
  <2>2. \A t \in Threads : ~At(t, "building") /\ ~At(t, "opening") /\ (At(t, "writing") => t = th)
    BY <2>1 DEF SavesApart
  <2> QED BY <2>1, <2>2, <1>b
<1>6. ASSUME NEW th \in Threads, Build(th) PROVE OneIdentityInv'
  BY <1>6 DEF Build
<1>7. ASSUME NEW th \in Threads, InitFails(th) PROVE OneIdentityInv'
  <2>1. /\ file' = file /\ pc' = [pc EXCEPT ![th] = "idle"]
        /\ key' = [key EXCEPT ![th] = NoKey]
    BY <1>7 DEF InitFails
  <2>2. \A k \in shown' : k = file
    BY <1>7 DEF InitFails
  <2> QED BY <2>1, <2>2
<1>8. ASSUME NEW th \in Threads, Shutdown(th) \/ Ask(th) \/ Answer(th) \/ DropField(th)
      PROVE  OneIdentityInv'
  BY <1>8 DEF Shutdown, Call, Ask, Answer, DropField
<1>9. ASSUME NEW th \in Threads, Install(th) PROVE OneIdentityInv'
  <2>1. /\ UNCHANGED identity /\ key' = [key EXCEPT ![th] = NoKey]
        /\ pc' = [pc EXCEPT ![th] = "idle"] \/ pc' = [pc EXCEPT ![th] = "dropping"]
    BY <1>9 DEF Install
  <2> QED BY <2>1
<1>10. ASSUME NEW th \in Threads, Take(th) \/ Dropped(th) PROVE OneIdentityInv'
  BY <1>10 DEF Take, Dropped
<1>11. CASE BrowserStarts
  BY <1>11 DEF BrowserStarts
<1>12. ASSUME NEW p \in Processes, Kill(p) PROVE OneIdentityInv'
  <2>1. /\ pc' = [t \in Threads |-> IF Home[t] = p THEN "idle" ELSE pc[t]]
        /\ key' = [t \in Threads |-> IF Home[t] = p THEN NoKey ELSE key[t]]
        /\ UNCHANGED identity
    BY <1>12 DEF Kill
  <2> QED BY <2>1
<1>13. CASE UNCHANGED nvars
  BY <1>13 DEF nvars
<1> QED BY <1>1, <1>2, <1>3, <1>4, <1>5, <1>6, <1>7, <1>8, <1>9, <1>10, <1>11, <1>12, <1>13
        DEF NNext, Continue

\* A device announces one identity for ever, for any number of processes that load
\* its key, start, stop, fail and are killed at any step, as long as no two calls of
\* init have both found no key file and not yet written one (load_or_generate).
THEOREM IdentityLasts == NSpec /\ []SavesApart => []OneIdentity
<1>1. NInit => OneIdentityInv
  BY DEF NInit, OneIdentityInv, At
<1>2. CallInv /\ SavesApart /\ SavesApart' /\ OneIdentityInv /\ [NNext]_nvars => OneIdentityInv'
  BY OneIdentityStep
<1>3. OneIdentityInv => OneIdentity
  BY DEF OneIdentityInv, OneIdentity
<1> QED BY <1>1, <1>2, <1>3, CallsRight, PTL DEF NSpec
=============================================================================
