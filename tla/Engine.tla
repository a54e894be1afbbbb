------------------------------ MODULE Engine ------------------------------
(***************************************************************************)
(* justdrop-engine: the peer map, the trust database, the transfer         *)
(* sessions and the events, under calls from any number of threads.        *)
(*                                                                         *)
(* A step is what one thread does under one lock (peers, sessions,         *)
(* running, the connection of the database) or one call of the platform's  *)
(* event handler.  Events are delivered on the calling thread: those about *)
(* peers after the lock is released, those about transfers and the end of  *)
(* the engine while the lock is held.                                      *)
(*                                                                         *)
(* The device id is the start of the fingerprint (Peer::from_mdns), so one *)
(* name stands for both.  What a peer says of itself is abstracted to      *)
(* whether its fingerprint is known; its address and name come and are     *)
(* merged with it.                                                         *)
(***************************************************************************)
EXTENDS Integers, FiniteSets

CONSTANTS
  Threads,    \* threads of the platform
  Devices,    \* device ids (and fingerprints) of other devices
  Sessions,   \* transfer ids, as many as transfers are started
  NoPeer,     \* no entry in the peer map
  Nobody,     \* no thread
  Asks,       \* events on which the platform's handler asks the engine back
  QueriesFail, \* a query of the database may fail
  MaxCalls    \* bound on the calls of a thread

Levels == {"Unknown", "Trusted", "Favorite", "Blocked"}
Peer == [full : BOOLEAN, trust : Levels]
EventKinds == {"PeerDiscovered", "PeerUpdated", "PeerLost", "TransferCancelled", "Stopped"}

ASSUME EngineAssumption ==
  /\ IsFiniteSet(Threads)
  /\ NoPeer \notin Peer
  /\ Nobody \notin Threads
  /\ Asks \subseteq EventKinds
  /\ QueriesFail \in BOOLEAN
  /\ MaxCalls \in Nat

VARIABLES
  db,        \* db[d]: trust level in the peers table
  peers,     \* peers[d]: the entry of the peer map
  sessions,  \* sessions[s]: state of the transfer session
  running,   \* the running flag
  sesLock,   \* thread that holds the write lock of sessions
  runLock,   \* thread that holds the write lock of running
  pc,        \* pc[th]: where a thread is inside a call
  dev,       \* dev[th]: the device its call is about
  seen,      \* seen[th]: its own copy of a peer
  shown,     \* shown[d]: what the last event told the platform of d
  balance,   \* balance[d]: discovered less lost events (history)
  stops,     \* Stopped events (history)
  late,      \* blocked devices of which a report that had read another level was still
             \* to be inserted when they were blocked, or read it since (history)
  calls      \* calls[th]: calls so far

evars == <<db, peers, sessions, running, sesLock, runLock, pc, dev, seen,
           shown, balance, stops, late, calls>>

locks == <<sesLock, runLock>>
platform == <<shown, balance, stops, late>>

EInit ==
  /\ db \in [Devices -> Levels]
  /\ peers = [d \in Devices |-> NoPeer]
  /\ sessions = [s \in Sessions |-> "none"]
  /\ running = TRUE
  /\ sesLock = Nobody
  /\ runLock = Nobody
  /\ pc = [th \in Threads |-> "idle"]
  /\ dev \in [Threads -> Devices]
  /\ seen = [th \in Threads |-> [full |-> FALSE, trust |-> "Unknown"]]
  /\ shown = [d \in Devices |-> NoPeer]
  /\ balance = [d \in Devices |-> 0]
  /\ stops = 0
  /\ late = {}
  /\ calls = [th \in Threads |-> 0]

Goto(th, place) == pc' = [pc EXCEPT ![th] = place]

\* A thread enters the engine.
Call(th) ==
  /\ pc[th] = "idle"
  /\ calls[th] < MaxCalls
  /\ calls' = [calls EXCEPT ![th] = @ + 1]

\* Back in the platform, or first in the handler's question.
Delivered(th, kind, then) == Goto(th, IF kind \in Asks THEN "asking" ELSE then)

---------------------------------------------------------------------------
(* Peers *)

\* get_trust: the level in the peers table; a query that fails counts as no row.
get_trust(d) == {db[d]} \cup (IF QueriesFail THEN {"Unknown"} ELSE {})

\* A report of d with fingerprint that is past the test of its level.
Admitted(d) == {th \in Threads : pc[th] = "inserting" /\ dev[th] = d /\ seen[th].full}

\* on_peer_discovered with a fingerprint (mDNS): the trust level is read from
\* the database; a blocked peer is ignored.
DiscoverKnown(th, d) ==
  /\ Call(th)
  /\ dev' = [dev EXCEPT ![th] = d]
  /\ \E level \in get_trust(d) :
       /\ seen' = [seen EXCEPT ![th] = [full |-> TRUE, trust |-> level]]
       /\ late' = IF db[d] = "Blocked" /\ level # "Blocked" THEN late \cup {d} ELSE late
       /\ Goto(th, IF level = "Blocked" THEN "idle" ELSE "inserting")
  /\ UNCHANGED <<db, peers, sessions, running, locks, shown, balance, stops>>

\* on_peer_discovered without one (a BLE advertisement).
DiscoverUnknown(th, d) ==
  /\ Call(th)
  /\ dev' = [dev EXCEPT ![th] = d]
  /\ seen' = [seen EXCEPT ![th] = [full |-> FALSE, trust |-> "Unknown"]]
  /\ Goto(th, "inserting")
  /\ UNCHANGED <<db, peers, sessions, running, locks, platform>>

\* Mutant: the new report replaces the old entry.
Merged_overwrites(old, new) == new

\* What is known of a peer already is kept where the new report is silent, but
\* the new report's trust level replaces the old one.
Merged(old, new) ==
  IF old = NoPeer THEN new ELSE [new EXCEPT !.full = @ \/ old.full]

\* Under the write lock: a new peer goes in, a known one is merged; what is
\* announced is the peer as it came.
InsertPeer(th) ==
  /\ pc[th] = "inserting"
  /\ peers' = [peers EXCEPT ![dev[th]] = Merged(@, seen[th])]
  /\ Goto(th, IF peers[dev[th]] = NoPeer THEN "discovered" ELSE "updated")
  /\ UNCHANGED <<db, sessions, running, locks, dev, seen, platform, calls>>

EmitDiscovered(th) ==
  /\ pc[th] = "discovered"
  /\ shown' = [shown EXCEPT ![dev[th]] = seen[th]]
  /\ balance' = [balance EXCEPT ![dev[th]] = @ + 1]
  /\ Delivered(th, "PeerDiscovered", "idle")
  /\ UNCHANGED <<db, peers, sessions, running, locks, dev, seen, stops, late, calls>>

EmitUpdated(th) ==
  /\ pc[th] = "updated"
  /\ shown' = [shown EXCEPT ![dev[th]] = seen[th]]
  /\ Delivered(th, "PeerUpdated", "idle")
  /\ UNCHANGED <<db, peers, sessions, running, locks, dev, seen, balance, stops, late, calls>>

\* on_peer_lost called by the platform.
PeerGone(th, d) ==
  /\ Call(th)
  /\ dev' = [dev EXCEPT ![th] = d]
  /\ Goto(th, "removing")
  /\ UNCHANGED <<db, peers, sessions, running, locks, seen, platform>>

\* Mutant: the loss is announced whether or not the peer was there.
RemovePeer_unconditional(th) ==
  /\ pc[th] = "removing"
  /\ peers' = [peers EXCEPT ![dev[th]] = NoPeer]
  /\ Goto(th, "lost")
  /\ UNCHANGED <<db, sessions, running, locks, dev, seen, platform, calls>>

\* on_peer_lost: only the thread whose remove found the peer announces it.
RemovePeer(th) ==
  /\ pc[th] = "removing"
  /\ peers' = [peers EXCEPT ![dev[th]] = NoPeer]
  /\ Goto(th, IF peers[dev[th]] = NoPeer THEN "idle" ELSE "lost")
  /\ UNCHANGED <<db, sessions, running, locks, dev, seen, platform, calls>>

EmitLost(th) ==
  /\ pc[th] = "lost"
  /\ shown' = [shown EXCEPT ![dev[th]] = NoPeer]
  /\ balance' = [balance EXCEPT ![dev[th]] = @ - 1]
  /\ Delivered(th, "PeerLost", "idle")
  /\ UNCHANGED <<db, peers, sessions, running, locks, dev, seen, stops, late, calls>>

\* Database::set_trust: the row is inserted or replaced; no level forbids another.
set_trust(d, level) == db' = [db EXCEPT ![d] = level]

\* set_peer_trust writes the database; the level of the peer in the map stays.
SetTrust(th, d, level) ==
  /\ Call(th)
  /\ dev' = [dev EXCEPT ![th] = d]
  /\ set_trust(d, level)
  /\ late' = IF level # "Blocked" THEN late
             ELSE IF Admitted(d) # {} THEN late \cup {d} ELSE late \ {d}
  /\ Goto(th, IF level = "Blocked" THEN "finding" ELSE "idle")
  /\ UNCHANGED <<peers, sessions, running, locks, seen, shown, balance, stops>>

\* The database refuses: set_peer_trust returns the error, and has changed nothing.
SetTrustFails(th, d) ==
  /\ Call(th)
  /\ QueriesFail
  /\ dev' = [dev EXCEPT ![th] = d]
  /\ Goto(th, "idle")
  /\ UNCHANGED <<db, peers, sessions, running, locks, seen, platform>>

\* Mutant: only an entry that carries the level Blocked is removed.
FindBlocked_by_level(th) ==
  /\ pc[th] = "finding"
  /\ Goto(th, IF peers[dev[th]] # NoPeer /\ peers[dev[th]].trust = "Blocked" THEN "removing" ELSE "idle")
  /\ UNCHANGED <<db, peers, sessions, running, locks, dev, seen, platform, calls>>

\* A blocked peer is looked up by its fingerprint, to be removed by its id.
FindBlocked(th) ==
  /\ pc[th] = "finding"
  /\ Goto(th, IF peers[dev[th]] # NoPeer /\ peers[dev[th]].full THEN "removing" ELSE "idle")
  /\ UNCHANGED <<db, peers, sessions, running, locks, dev, seen, platform, calls>>

---------------------------------------------------------------------------
(* Transfers and the life of the engine *)

\* Bound: no more transfers are started than there are transfer ids.
IdsLeft ==
  Cardinality({th \in Threads : pc[th] = "opening"})
    < Cardinality({s \in Sessions : sessions[s] = "none"})

\* send_files looks the peer up; it does not look at running.
SendFiles(th, d) ==
  /\ Call(th)
  /\ IdsLeft
  /\ dev' = [dev EXCEPT ![th] = d]
  /\ Goto(th, IF peers[d] = NoPeer THEN "idle" ELSE "opening")
  /\ UNCHANGED <<db, peers, sessions, running, locks, seen, platform>>

OpenSession(th) ==
  /\ pc[th] = "opening"
  /\ sesLock = Nobody
  /\ \E s \in Sessions :
       /\ sessions[s] = "none"
       /\ sessions' = [sessions EXCEPT ![s] = "Negotiating"]
  /\ Goto(th, "idle")
  /\ UNCHANGED <<db, peers, running, locks, dev, seen, platform, calls>>

\* accept_transfer looks the session up under the write lock and changes nothing of
\* it yet; without a session it is an error.
AcceptSession(th) ==
  /\ Call(th)
  /\ sesLock = Nobody
  /\ Goto(th, "idle")
  /\ UNCHANGED <<db, peers, sessions, running, locks, dev, seen, platform>>

\* cancel_transfer and reject_transfer: the session is cancelled, whatever its
\* state, and the event is delivered under the write lock.
CancelSession(th) ==
  /\ Call(th)
  /\ sesLock = Nobody
  /\ sesLock' = th
  /\ \E s \in Sessions :
       /\ sessions[s] # "none"
       /\ sessions' = [sessions EXCEPT ![s] = "Cancelled"]
  /\ Goto(th, "cancelled")
  /\ UNCHANGED <<db, peers, running, runLock, dev, seen, platform>>

EmitCancelled(th) ==
  /\ pc[th] = "cancelled"
  /\ Delivered(th, "TransferCancelled", "releasing")
  /\ UNCHANGED <<db, peers, sessions, running, locks, dev, seen, platform, calls>>

\* Mutant: running is read before the write lock is taken.
StopEngine_unlocked(th) ==
  /\ Call(th)
  /\ running
  /\ Goto(th, "stopping")
  /\ UNCHANGED <<db, peers, sessions, running, locks, dev, seen, platform>>

\* stop: the first caller finds running set and clears it.
StopEngine(th) ==
  /\ Call(th)
  /\ runLock = Nobody
  /\ running
  /\ running' = FALSE
  /\ runLock' = th
  /\ Goto(th, "stopping")
  /\ UNCHANGED <<db, peers, sessions, sesLock, dev, seen, platform>>

CancelAll(th) ==
  /\ pc[th] = "stopping"
  /\ sesLock = Nobody
  /\ sesLock' = th
  /\ sessions' = [s \in Sessions |-> IF sessions[s] = "none" THEN "none" ELSE "Cancelled"]
  /\ Goto(th, "stopped")
  /\ UNCHANGED <<db, peers, running, runLock, dev, seen, platform, calls>>

EmitStopped(th) ==
  /\ pc[th] = "stopped"
  /\ stops' = stops + 1
  /\ Delivered(th, "Stopped", "releasing")
  /\ UNCHANGED <<db, peers, sessions, running, locks, dev, seen, shown, balance, late, calls>>

\* Mutant: the guard of running outlives the call.
Release_keeps_running(th) ==
  /\ pc[th] = "releasing"
  /\ sesLock' = IF sesLock = th THEN Nobody ELSE sesLock
  /\ Goto(th, "idle")
  /\ UNCHANGED <<db, peers, sessions, running, runLock, dev, seen, platform, calls>>

\* The call returns and drops its guards.
Release(th) ==
  /\ pc[th] = "releasing"
  /\ sesLock' = IF sesLock = th THEN Nobody ELSE sesLock
  /\ runLock' = IF runLock = th THEN Nobody ELSE runLock
  /\ Goto(th, "idle")
  /\ UNCHANGED <<db, peers, sessions, running, dev, seen, platform, calls>>

\* The handler asks how many transfers are active and whether the engine runs
\* (active_transfer_count, is_running): it reads under both locks.
Answer(th) ==
  /\ pc[th] = "asking"
  /\ sesLock = Nobody
  /\ runLock = Nobody
  /\ Goto(th, "releasing")
  /\ UNCHANGED <<db, peers, sessions, running, locks, dev, seen, platform, calls>>

\* What a thread inside the engine does next.
Continue(th) ==
  \/ InsertPeer(th) \/ EmitDiscovered(th) \/ EmitUpdated(th) \/ RemovePeer(th) \/ EmitLost(th)
  \/ FindBlocked(th) \/ OpenSession(th) \/ EmitCancelled(th) \/ CancelAll(th)
  \/ EmitStopped(th) \/ Release(th) \/ Answer(th)

Enter(th) ==
  \/ \E d \in Devices : DiscoverKnown(th, d) \/ DiscoverUnknown(th, d) \/ PeerGone(th, d)
                          \/ SendFiles(th, d)
  \/ \E d \in Devices : SetTrustFails(th, d) \/ \E level \in Levels : SetTrust(th, d, level)
  \/ AcceptSession(th) \/ CancelSession(th) \/ StopEngine(th)

ENext == \E th \in Threads : Enter(th) \/ Continue(th)

ESpec == EInit /\ [][ENext]_evars

\* A thread inside the engine goes on; whether one calls is up to the platform.
EFairSpec == ESpec /\ \A th \in Threads : WF_evars(Continue(th))

---------------------------------------------------------------------------
(* Properties *)

Places == {"idle", "inserting", "discovered", "updated", "removing", "lost", "finding",
           "opening", "cancelled", "stopping", "stopped", "releasing", "asking"}

\* Types, and the guards of a call are gone when it has returned.
EngineTypeOK ==
  /\ db \in [Devices -> Levels]
  /\ peers \in [Devices -> Peer \cup {NoPeer}]
  /\ sessions \in [Sessions -> {"none", "Negotiating", "Cancelled"}]
  /\ running \in BOOLEAN
  /\ sesLock \in Threads \cup {Nobody}
  /\ runLock \in Threads \cup {Nobody}
  /\ pc \in [Threads -> Places]
  /\ dev \in [Threads -> Devices]
  /\ seen \in [Threads -> Peer]
  /\ shown \in [Devices -> Peer \cup {NoPeer}]
  /\ balance \in [Devices -> Int]
  /\ stops \in Nat
  /\ late \subseteq Devices
  /\ calls \in [Threads -> Nat]
  /\ \A th \in Threads : pc[th] = "idle" => sesLock # th /\ runLock # th

Announcing(place, d) == {th \in Threads : pc[th] = place /\ dev[th] = d}

Present(d) == IF peers[d] = NoPeer THEN 0 ELSE 1

\* Discovered and lost events balance: whatever threads discover, lose and block
\* a device at once, each entry of the peer map is announced by one discovered
\* event and its removal by one lost event.
AnnouncedOnce ==
  \A d \in Devices :
    balance[d] + Cardinality(Announcing("discovered", d))
      = Present(d) + Cardinality(Announcing("lost", d))

\* Some set_peer_trust has still to look for d, or to remove it.
BeingRemoved(d) == \E th \in Threads : dev[th] = d /\ pc[th] \in {"finding", "removing"}

\* A device that the database calls blocked is not in the map under its fingerprint,
\* unless its removal is under way: whatever reports, losses and changes of trust come
\* in on other threads, only a report that had passed the test of its level before the
\* block, or whose query failed, gets it in again.
BlockedStaysOut ==
  \A d \in Devices :
    db[d] = "Blocked" /\ peers[d] # NoPeer /\ peers[d].full => BeingRemoved(d) \/ d \in late

\* A peer that was once identified by its fingerprint stays so for as long as it is in
\* the map, whatever reports of it come in which order from which thread.
StaysIdentified ==
  [][\A d \in Devices :
       peers[d] # NoPeer /\ peers[d].full /\ peers'[d] # NoPeer => peers'[d].full]_evars

\* However many threads stop the engine, it says so once.
StoppedOnce == stops <= 1

\* Every call returns.
CallsReturn == \A th \in Threads : pc[th] # "idle" ~> pc[th] = "idle"

Quiet == \A th \in Threads : pc[th] = "idle"

\* visible_peers and peer_count leave out blocked entries (and those of invisible
\* presence).
Visible(d) == peers[d] # NoPeer /\ peers[d].trust # "Blocked"

\* A device that the database says is blocked is not among the visible peers
\* once set_peer_trust has returned.
BlockedHidden == Quiet => \A d \in Devices : db[d] = "Blocked" => ~Visible(d)

\* The same for a device that was identified by its fingerprint.
BlockedIdentifiedHidden ==
  Quiet => \A d \in Devices : db[d] = "Blocked" /\ Visible(d) => ~peers[d].full

\* TrustLevel::transition_to, the documented changes of a level: Blocked is at most
\* reset.  No code consults it.
transition_to(from, to) == from = "Blocked" => to \in {"Blocked", "Unknown"}

\* A device that is blocked is at most reset to Unknown.
BlockedOnlyReset == [][\A d \in Devices : transition_to(db[d], db'[d])]_evars

\* The trust level of an identified peer is that of the database.
TrustFromDatabase ==
  Quiet => \A d \in Devices : peers[d] # NoPeer /\ peers[d].full => peers[d].trust = db[d]

\* Events are all the platform has: with nothing under way they have told it
\* which peers there are.
EventsTell == Quiet => \A d \in Devices : shown[d] = NoPeer <=> peers[d] = NoPeer

\* With the engine stopped no transfer is active.
StopCancelsAll == Quiet /\ ~running => \A s \in Sessions : sessions[s] # "Negotiating"

---------------------------------------------------------------------------
(* Inductive invariant (see EngineProofs) *)

\* The guards a thread holds at each place.
GuardsHeld ==
  \A th \in Threads :
    /\ sesLock = th => pc[th] \in {"cancelled", "stopped", "releasing", "asking"}
    /\ runLock = th => pc[th] \in {"stopping", "stopped", "releasing", "asking"}

\* A report that is past the test of its level, of a device that is blocked, was late.
LateReports ==
  \A th \in Threads :
    pc[th] = "inserting" /\ seen[th].full /\ db[dev[th]] = "Blocked" => dev[th] \in late

Stopping == {th \in Threads : pc[th] \in {"stopping", "stopped"}}

\* One thread at most is past the test of running, and then nothing was said.
OneStops ==
  /\ running => stops = 0 /\ Stopping = {}
  /\ Stopping # {} => stops = 0
  /\ \A th, ot \in Stopping : th = ot

EngineInv ==
  /\ EngineTypeOK /\ GuardsHeld
  /\ AnnouncedOnce
  /\ BlockedStaysOut /\ LateReports
  /\ StoppedOnce /\ OneStops
===========================================================================
