--------------------------- MODULE EngineProofs ---------------------------
(***************************************************************************)
(* The engine's bookkeeping under any number of threads, devices,          *)
(* transfers and calls: events balance, the blocked stay out, one Stopped. *)
(***************************************************************************)
EXTENDS Engine, FiniteSetTheorems, TLAPS

\* Every value of the handler's questions leaves a thread at a known place.
LEMMA DeliveredAt ==
  ASSUME NEW th, NEW kind, NEW then, Delivered(th, kind, then)
  PROVE  Goto(th, "asking") \/ Goto(th, then)
BY DEF Delivered

\* The initial state satisfies the invariant.
LEMMA EngineInit == EInit => EngineInv
<1> SUFFICES ASSUME EInit PROVE EngineInv
  OBVIOUS
<1>a. Nobody \notin Threads /\ NoPeer \notin Peer /\ IsFiniteSet({})
  BY EngineAssumption, FS_EmptySet DEF EngineAssumption
<1>1. EngineTypeOK
  BY <1>a DEF EInit, EngineTypeOK, Peer, Levels, Places
<1>2. GuardsHeld
  BY <1>a DEF EInit, GuardsHeld
<1>3. AnnouncedOnce
  <2>1. \A d \in Devices : Announcing("discovered", d) = {} /\ Announcing("lost", d) = {}
    BY DEF EInit, Announcing
  <2>2. \A d \in Devices : balance[d] = 0 /\ Present(d) = 0
    BY DEF EInit, Present
  <2> QED BY <2>1, <2>2, FS_EmptySet DEF AnnouncedOnce
<1>4. BlockedStaysOut /\ LateReports
  BY DEF EInit, BlockedStaysOut, LateReports
<1>5. StoppedOnce /\ OneStops
  BY DEF EInit, StoppedOnce, OneStops, Stopping
<1> QED BY <1>1, <1>2, <1>3, <1>4, <1>5 DEF EngineInv

---------------------------------------------------------------------------
(* Types and guards *)

\* A merged entry is a peer, of the trust level of the new report.
LEMMA MergedPeer ==
  ASSUME NEW old \in Peer \cup {NoPeer}, NEW new \in Peer
  PROVE  Merged(old, new) \in Peer /\ Merged(old, new).trust = new.trust
         /\ Merged(old, new) # NoPeer
BY EngineAssumption DEF EngineAssumption, Merged, Peer

\* A call keeps the types and enters with no guard but the one it takes.
LEMMA EnterTypes ==
  ASSUME EngineTypeOK, GuardsHeld, NEW th \in Threads, Enter(th)
  PROVE  EngineTypeOK' /\ GuardsHeld'
<1>a. Nobody \notin Threads
  BY EngineAssumption DEF EngineAssumption
<1> USE <1>a
<1>1. ASSUME NEW d \in Devices, DiscoverKnown(th, d) PROVE EngineTypeOK' /\ GuardsHeld'
  <2>1. \A level \in get_trust(d) : [full |-> TRUE, trust |-> level] \in Peer
    BY DEF EngineTypeOK, Peer, Levels, get_trust
  <2> QED BY <1>1, <2>1 DEF DiscoverKnown, Call, Goto, locks, platform, EngineTypeOK, GuardsHeld, Places
<1>2. ASSUME NEW d \in Devices, DiscoverUnknown(th, d) PROVE EngineTypeOK' /\ GuardsHeld'
  <2>1. [full |-> FALSE, trust |-> "Unknown"] \in Peer
    BY DEF Peer, Levels
  <2> QED BY <1>2, <2>1 DEF DiscoverUnknown, Call, Goto, locks, platform, EngineTypeOK, GuardsHeld, Places
<1>3. ASSUME NEW d \in Devices, PeerGone(th, d) PROVE EngineTypeOK' /\ GuardsHeld'
  BY <1>3 DEF PeerGone, Call, Goto, locks, platform, EngineTypeOK, GuardsHeld, Places
<1>4. ASSUME NEW d \in Devices, SendFiles(th, d) PROVE EngineTypeOK' /\ GuardsHeld'
  BY <1>4 DEF SendFiles, Call, Goto, locks, platform, EngineTypeOK, GuardsHeld, Places
<1>5. ASSUME NEW d \in Devices, NEW level \in Levels, SetTrust(th, d, level)
      PROVE  EngineTypeOK' /\ GuardsHeld'
  BY <1>5 DEF SetTrust, set_trust, Call, Goto, locks, platform, EngineTypeOK, GuardsHeld, Places
<1>6. CASE CancelSession(th)
  BY <1>6 DEF CancelSession, Call, Goto, platform, EngineTypeOK, GuardsHeld, Places
<1>7. CASE StopEngine(th)
  <2>1. /\ pc' = [pc EXCEPT ![th] = "stopping"] /\ calls' = [calls EXCEPT ![th] = @ + 1]
        /\ pc[th] = "idle" /\ runLock' = th
        /\ UNCHANGED <<db, peers, sessions, sesLock, dev, seen, shown, balance, stops, late>>
    BY <1>7 DEF StopEngine, Call, Goto, platform
  <2>2. running' \in BOOLEAN
    BY <1>7 DEF StopEngine
  <2> QED BY <2>1, <2>2 DEF EngineTypeOK, GuardsHeld, Places
<1>8. CASE AcceptSession(th)
  BY <1>8 DEF AcceptSession, Call, Goto, locks, platform, EngineTypeOK, GuardsHeld, Places
<1>9. ASSUME NEW d \in Devices, SetTrustFails(th, d) PROVE EngineTypeOK' /\ GuardsHeld'
  BY <1>9 DEF SetTrustFails, Call, Goto, locks, platform, EngineTypeOK, GuardsHeld, Places
<1> QED BY <1>1, <1>2, <1>3, <1>4, <1>5, <1>6, <1>7, <1>8, <1>9 DEF Enter

\* So does every step of a thread inside the engine.
LEMMA ContinueTypes ==
  ASSUME EngineTypeOK, GuardsHeld, NEW th \in Threads, Continue(th)
  PROVE  EngineTypeOK' /\ GuardsHeld'
<1>a. Nobody \notin Threads
  BY EngineAssumption DEF EngineAssumption
<1> USE <1>a
<1>1. CASE InsertPeer(th)
  <2>1. Merged(peers[dev[th]], seen[th]) \in Peer
    BY MergedPeer DEF EngineTypeOK
  <2> QED BY <1>1, <2>1 DEF InsertPeer, Goto, locks, platform, EngineTypeOK, GuardsHeld, Places
<1>2. CASE EmitDiscovered(th)
  <2>1. Goto(th, "asking") \/ Goto(th, "idle")
    BY <1>2, DeliveredAt DEF EmitDiscovered
  <2> QED BY <1>2, <2>1 DEF EmitDiscovered, Goto, locks, EngineTypeOK, GuardsHeld, Places
<1>3. CASE EmitUpdated(th)
  <2>1. Goto(th, "asking") \/ Goto(th, "idle")
    BY <1>3, DeliveredAt DEF EmitUpdated
  <2> QED BY <1>3, <2>1 DEF EmitUpdated, Goto, locks, EngineTypeOK, GuardsHeld, Places
<1>4. CASE RemovePeer(th)
  BY <1>4 DEF RemovePeer, Goto, locks, platform, EngineTypeOK, GuardsHeld, Places
<1>5. CASE EmitLost(th)
  <2>1. Goto(th, "asking") \/ Goto(th, "idle")
    BY <1>5, DeliveredAt DEF EmitLost
  <2> QED BY <1>5, <2>1 DEF EmitLost, Goto, locks, EngineTypeOK, GuardsHeld, Places
<1>6. CASE FindBlocked(th)
  BY <1>6 DEF FindBlocked, Goto, locks, platform, EngineTypeOK, GuardsHeld, Places
<1>7. CASE OpenSession(th)
  BY <1>7 DEF OpenSession, Goto, locks, platform, EngineTypeOK, GuardsHeld, Places
<1>8. CASE EmitCancelled(th)
  <2>1. Goto(th, "asking") \/ Goto(th, "releasing")
    BY <1>8, DeliveredAt DEF EmitCancelled
  <2> QED BY <1>8, <2>1 DEF EmitCancelled, Goto, locks, platform, EngineTypeOK, GuardsHeld, Places
<1>9. CASE CancelAll(th)
  BY <1>9 DEF CancelAll, Goto, platform, EngineTypeOK, GuardsHeld, Places
<1>10. CASE EmitStopped(th)
  <2>1. Goto(th, "asking") \/ Goto(th, "releasing")
    BY <1>10, DeliveredAt DEF EmitStopped
  <2> QED BY <1>10, <2>1 DEF EmitStopped, Goto, locks, EngineTypeOK, GuardsHeld, Places
<1>11. CASE Release(th)
  BY <1>11 DEF Release, Goto, platform, EngineTypeOK, GuardsHeld, Places
<1>12. CASE Answer(th)
  BY <1>12 DEF Answer, Goto, locks, platform, EngineTypeOK, GuardsHeld, Places
<1> QED BY <1>1, <1>2, <1>3, <1>4, <1>5, <1>6, <1>7, <1>8, <1>9, <1>10, <1>11, <1>12 DEF Continue

---------------------------------------------------------------------------
(* Events balance *)

\* Counts one if a thread is at a place with its call about d.
AtPlace(th, place, d) == IF pc[th] = place /\ dev[th] = d THEN 1 ELSE 0

\* When one thread moves, the threads announcing d change by that thread.
LEMMA CountChange ==
  ASSUME EngineTypeOK, NEW th \in Threads, NEW q \in Places, Goto(th, q),
         dev' \in [Threads -> Devices],
         \A ot \in Threads : ot # th => dev'[ot] = dev[ot],
         NEW place \in Places, NEW d \in Devices
  PROVE  /\ Cardinality(Announcing(place, d)) \in Nat
         /\ Cardinality(Announcing(place, d))'
              = Cardinality(Announcing(place, d)) + AtPlace(th, place, d)' - AtPlace(th, place, d)
<1> DEFINE A == Announcing(place, d)
<1>1. IsFiniteSet(A) /\ Cardinality(A) \in Nat
  <2>1. A \subseteq Threads
    BY DEF Announcing
  <2> QED BY <2>1, FS_Subset, FS_CardinalityType, EngineAssumption DEF EngineAssumption
<1>2. pc' \in [Threads -> Places] /\ pc'[th] = q /\ \A ot \in Threads : ot # th => pc'[ot] = pc[ot]
  BY DEF Goto, EngineTypeOK
<1>3. \A ot \in Threads : ot # th => (ot \in A' <=> ot \in A)
  BY <1>2 DEF Announcing
<1>4. A \subseteq Threads /\ A' \subseteq Threads
  BY DEF Announcing
<1>5. CASE th \in A /\ th \in A'
  <2>1. A' = A
    BY <1>3, <1>4, <1>5
  <2>2. AtPlace(th, place, d) = 1 /\ AtPlace(th, place, d)' = 1
    BY <1>5 DEF Announcing, AtPlace
  <2> QED BY <1>1, <2>1, <2>2
<1>6. CASE th \notin A /\ th \notin A'
  <2>1. A' = A
    BY <1>3, <1>4, <1>6
  <2>2. AtPlace(th, place, d) = 0 /\ AtPlace(th, place, d)' = 0
    BY <1>6 DEF Announcing, AtPlace
  <2> QED BY <1>1, <2>1, <2>2
<1>7. CASE th \notin A /\ th \in A'
  <2>1. A' = A \cup {th}
    BY <1>3, <1>4, <1>7
  <2>2. Cardinality(A \cup {th}) = Cardinality(A) + 1
    BY <1>1, <1>7, FS_AddElement
  <2>3. AtPlace(th, place, d) = 0 /\ AtPlace(th, place, d)' = 1
    BY <1>7 DEF Announcing, AtPlace
  <2> QED BY <1>1, <2>1, <2>2, <2>3
<1>8. CASE th \in A /\ th \notin A'
  <2>1. A' = A \ {th}
    BY <1>3, <1>4, <1>8
  <2>2. Cardinality(A \ {th}) = Cardinality(A) - 1
    BY <1>1, <1>8, FS_RemoveElement
  <2>3. AtPlace(th, place, d) = 1 /\ AtPlace(th, place, d)' = 0
    BY <1>8 DEF Announcing, AtPlace
  <2> QED BY <1>1, <2>1, <2>2, <2>3
<1> QED BY <1>5, <1>6, <1>7, <1>8

\* A step between places where nothing is announced, which leaves the peers and
\* the history alone, keeps the balance.
LEMMA SilentStep ==
  ASSUME EngineTypeOK, AnnouncedOnce, NEW th \in Threads, NEW q \in Places, Goto(th, q),
         dev' \in [Threads -> Devices],
         \A ot \in Threads : ot # th => dev'[ot] = dev[ot],
         pc[th] \notin {"discovered", "lost"}, q \notin {"discovered", "lost"},
         UNCHANGED <<peers, balance>>
  PROVE  AnnouncedOnce'
<1> SUFFICES ASSUME NEW d \in Devices
             PROVE  (balance[d] + Cardinality(Announcing("discovered", d))
                       = Present(d) + Cardinality(Announcing("lost", d)))'
  BY DEF AnnouncedOnce
<1>1. pc'[th] = q
  BY DEF Goto, EngineTypeOK
<1>2. \A place \in {"discovered", "lost"} :
        AtPlace(th, place, d) = 0 /\ AtPlace(th, place, d)' = 0
  BY <1>1 DEF AtPlace
<1>3. \A place \in {"discovered", "lost"} :
        /\ Cardinality(Announcing(place, d)) \in Nat
        /\ Cardinality(Announcing(place, d))' = Cardinality(Announcing(place, d))
  <2> SUFFICES ASSUME NEW place \in {"discovered", "lost"}
               PROVE  /\ Cardinality(Announcing(place, d)) \in Nat
                      /\ Cardinality(Announcing(place, d))' = Cardinality(Announcing(place, d))
    OBVIOUS
  <2>1. place \in Places
    BY DEF Places
  <2>2. /\ Cardinality(Announcing(place, d)) \in Nat
        /\ Cardinality(Announcing(place, d))'
             = Cardinality(Announcing(place, d)) + AtPlace(th, place, d)' - AtPlace(th, place, d)
    BY <2>1, CountChange
  <2> QED BY <2>2, <1>2
<1>4. Present(d)' = Present(d) /\ balance'[d] = balance[d]
  BY DEF Present
<1>5. balance[d] + Cardinality(Announcing("discovered", d))
        = Present(d) + Cardinality(Announcing("lost", d))
  BY DEF AnnouncedOnce
<1> QED BY <1>3, <1>4, <1>5

\* The entry goes into the map with a discovered event on its way, out of it
\* with a lost event on its way, and the event makes up for it.
LEMMA AnnouncingStep ==
  ASSUME EngineTypeOK, AnnouncedOnce, NEW th \in Threads,
         InsertPeer(th) \/ EmitDiscovered(th) \/ RemovePeer(th) \/ EmitLost(th)
  PROVE  AnnouncedOnce'
<1> SUFFICES ASSUME NEW d \in Devices
             PROVE  (balance[d] + Cardinality(Announcing("discovered", d))
                       = Present(d) + Cardinality(Announcing("lost", d)))'
  BY DEF AnnouncedOnce
<1> DEFINE D == Cardinality(Announcing("discovered", d))
           L == Cardinality(Announcing("lost", d))
<1>1. PICK q \in Places : Goto(th, q)
  <2>1. CASE InsertPeer(th)
    BY <2>1 DEF InsertPeer, Places
  <2>2. CASE EmitDiscovered(th)
    BY <2>2, DeliveredAt DEF EmitDiscovered, Places
  <2>3. CASE RemovePeer(th)
    BY <2>3 DEF RemovePeer, Places
  <2>4. CASE EmitLost(th)
    BY <2>4, DeliveredAt DEF EmitLost, Places
  <2> QED BY <2>1, <2>2, <2>3, <2>4
<1>2. pc'[th] = q
  BY <1>1 DEF Goto, EngineTypeOK
<1>3. dev' = dev /\ dev' \in [Threads -> Devices]
  BY DEF InsertPeer, EmitDiscovered, RemovePeer, EmitLost, EngineTypeOK
<1>4. "discovered" \in Places /\ "lost" \in Places
  BY DEF Places
<1>5. D \in Nat /\ D' = D + AtPlace(th, "discovered", d)' - AtPlace(th, "discovered", d)
  BY <1>1, <1>3, <1>4, CountChange
<1>6. L \in Nat /\ L' = L + AtPlace(th, "lost", d)' - AtPlace(th, "lost", d)
  BY <1>1, <1>3, <1>4, CountChange
<1>7. balance[d] \in Int /\ balance[d] + D = Present(d) + L /\ Present(d) \in {0, 1}
  BY DEF AnnouncedOnce, EngineTypeOK, Present
<1>8. dev[th] \in Devices
  BY DEF EngineTypeOK
<1>9. CASE dev[th] # d
  <2>1. \A place \in {"discovered", "lost"} :
          AtPlace(th, place, d) = 0 /\ AtPlace(th, place, d)' = 0
    BY <1>3, <1>9 DEF AtPlace
  <2>2. balance'[d] = balance[d] /\ peers'[d] = peers[d]
    BY <1>8, <1>9 DEF InsertPeer, EmitDiscovered, RemovePeer, EmitLost, EngineTypeOK, platform
  <2>3. Present(d)' = Present(d)
    BY <2>2 DEF Present
  <2>4. D' = D /\ L' = L
    BY <2>1, <1>5, <1>6
  <2> HIDE DEF D, L
  <2> QED BY <2>2, <2>3, <2>4, <1>7 DEF D, L
<1>10. CASE dev[th] = d
  <2>1. CASE InsertPeer(th)
    <3>1. balance'[d] = balance[d] /\ pc[th] = "inserting"
      BY <2>1 DEF InsertPeer, platform
    <3>2. peers'[d] # NoPeer
      BY <2>1, <1>10, MergedPeer DEF InsertPeer, EngineTypeOK
    <3>3. Present(d)' = 1
      BY <3>2 DEF Present
    <3>4. pc'[th] = IF peers[d] = NoPeer THEN "discovered" ELSE "updated"
      BY <2>1, <1>10 DEF InsertPeer, Goto, EngineTypeOK
    <3>5. /\ AtPlace(th, "discovered", d) = 0 /\ AtPlace(th, "lost", d) = 0
          /\ AtPlace(th, "discovered", d)' = 1 - Present(d) /\ AtPlace(th, "lost", d)' = 0
      BY <3>1, <3>4, <1>3, <1>10 DEF AtPlace, Present
    <3>6. D' = D + 1 - Present(d) /\ L' = L
      BY <3>5, <1>5, <1>6, <1>7
    <3> HIDE DEF D, L
    <3> QED BY <3>1, <3>3, <3>6, <1>5, <1>6, <1>7 DEF D, L
  <2>2. CASE EmitDiscovered(th)
    <3>1. /\ balance'[d] = balance[d] + 1 /\ pc[th] = "discovered"
          /\ peers'[d] = peers[d] /\ pc'[th] \in {"asking", "idle"}
      <4>1. Goto(th, "asking") \/ Goto(th, "idle")
        BY <2>2, DeliveredAt DEF EmitDiscovered
      <4> QED BY <4>1, <2>2, <1>10 DEF EmitDiscovered, EngineTypeOK, Goto
    <3>2. Present(d)' = Present(d)
      BY <3>1 DEF Present
    <3>3. /\ AtPlace(th, "discovered", d) = 1 /\ AtPlace(th, "lost", d) = 0
          /\ AtPlace(th, "discovered", d)' = 0 /\ AtPlace(th, "lost", d)' = 0
      BY <3>1, <1>10 DEF AtPlace
    <3>4. D' = D - 1 /\ L' = L
      BY <3>3, <1>5, <1>6
    <3> HIDE DEF D, L
    <3> QED BY <3>1, <3>2, <3>4, <1>5, <1>6, <1>7 DEF D, L
  <2>3. CASE RemovePeer(th)
    <3>1. /\ balance'[d] = balance[d] /\ pc[th] = "removing" /\ peers'[d] = NoPeer
          /\ pc'[th] = IF peers[d] = NoPeer THEN "idle" ELSE "lost"
      BY <2>3, <1>10 DEF RemovePeer, platform, Goto, EngineTypeOK
    <3>2. Present(d)' = 0
      BY <3>1 DEF Present
    <3>3. /\ AtPlace(th, "discovered", d) = 0 /\ AtPlace(th, "lost", d) = 0
          /\ AtPlace(th, "discovered", d)' = 0 /\ AtPlace(th, "lost", d)' = Present(d)
      BY <3>1, <1>3, <1>10 DEF AtPlace, Present
    <3>4. D' = D /\ L' = L + Present(d)
      BY <3>3, <1>5, <1>6, <1>7
    <3> HIDE DEF D, L
    <3> QED BY <3>1, <3>2, <3>4, <1>5, <1>6, <1>7 DEF D, L
  <2>4. CASE EmitLost(th)
    <3>1. /\ balance'[d] = balance[d] - 1 /\ pc[th] = "lost"
          /\ peers'[d] = peers[d] /\ pc'[th] \in {"asking", "idle"}
      <4>1. Goto(th, "asking") \/ Goto(th, "idle")
        BY <2>4, DeliveredAt DEF EmitLost
      <4> QED BY <4>1, <2>4, <1>10 DEF EmitLost, EngineTypeOK, Goto
    <3>2. Present(d)' = Present(d)
      BY <3>1 DEF Present
    <3>3. /\ AtPlace(th, "discovered", d) = 0 /\ AtPlace(th, "lost", d) = 1
          /\ AtPlace(th, "discovered", d)' = 0 /\ AtPlace(th, "lost", d)' = 0
      BY <3>1, <1>10 DEF AtPlace
    <3>4. D' = D /\ L' = L - 1
      BY <3>3, <1>5, <1>6
    <3> HIDE DEF D, L
    <3> QED BY <3>1, <3>2, <3>4, <1>5, <1>6, <1>7 DEF D, L
  <2> QED BY <2>1, <2>2, <2>3, <2>4
<1> QED BY <1>9, <1>10

\* Every step keeps the balance.
LEMMA AnnouncedStep ==
  ASSUME EngineTypeOK, AnnouncedOnce, [ENext]_evars
  PROVE  AnnouncedOnce'
<1>1. CASE UNCHANGED evars
  BY <1>1 DEF evars, AnnouncedOnce, Announcing, Present
<1>2. ASSUME NEW th \in Threads, Enter(th) PROVE AnnouncedOnce'
  <2>1. PICK q \in Places : Goto(th, q) /\ q \notin {"discovered", "lost"}
    BY <1>2 DEF Enter, DiscoverKnown, DiscoverUnknown, PeerGone, SendFiles, SetTrust, SetTrustFails,
                AcceptSession, CancelSession, StopEngine, Places
  <2>2. pc[th] = "idle" /\ UNCHANGED <<peers, balance>>
    BY <1>2 DEF Enter, DiscoverKnown, DiscoverUnknown, PeerGone, SendFiles, SetTrust, SetTrustFails,
                AcceptSession, CancelSession, StopEngine, Call, platform
  <2>3. dev' = dev \/ \E d \in Devices : dev' = [dev EXCEPT ![th] = d]
    BY <1>2 DEF Enter, DiscoverKnown, DiscoverUnknown, PeerGone, SendFiles, SetTrust, SetTrustFails,
                AcceptSession, CancelSession, StopEngine
  <2>4. dev' \in [Threads -> Devices] /\ \A ot \in Threads : ot # th => dev'[ot] = dev[ot]
    BY <2>3 DEF EngineTypeOK
  <2> QED BY <2>1, <2>2, <2>4, SilentStep
<1>3. ASSUME NEW th \in Threads, Continue(th) PROVE AnnouncedOnce'
  <2>1. CASE InsertPeer(th) \/ EmitDiscovered(th) \/ RemovePeer(th) \/ EmitLost(th)
    BY <2>1, AnnouncingStep
  <2>2. CASE \/ EmitUpdated(th) \/ FindBlocked(th) \/ OpenSession(th) \/ EmitCancelled(th)
             \/ CancelAll(th) \/ EmitStopped(th) \/ Release(th) \/ Answer(th)
    <3>1. PICK q \in Places : Goto(th, q) /\ q \notin {"discovered", "lost"}
      BY <2>2 DEF EmitUpdated, FindBlocked, OpenSession, EmitCancelled, CancelAll,
                  EmitStopped, Release, Answer, Delivered, Places
    <3>2. pc[th] \notin {"discovered", "lost"} /\ UNCHANGED <<peers, balance, dev>>
      BY <2>2 DEF EmitUpdated, FindBlocked, OpenSession, EmitCancelled, CancelAll,
                  EmitStopped, Release, Answer, platform
    <3>3. dev' \in [Threads -> Devices] /\ \A ot \in Threads : dev'[ot] = dev[ot]
      BY <3>2 DEF EngineTypeOK
    <3> QED BY <3>1, <3>2, <3>3, SilentStep
  <2> QED BY <1>3, <2>1, <2>2 DEF Continue
<1> QED BY <1>1, <1>2, <1>3 DEF ENext

---------------------------------------------------------------------------
(* The blocked stay out, and one Stopped *)

\* What the entry of a device may become in a step of a thread.
EntryOf(d, th) ==
  \/ peers'[d] = peers[d]
  \/ peers'[d] = NoPeer
  \/ /\ pc[th] = "inserting" /\ dev[th] = d
     /\ peers'[d].full => seen[th].full \/ (peers[d] # NoPeer /\ peers[d].full)

\* A step of a thread inside the engine changes entries by insertion or removal.
LEMMA EntryStep ==
  ASSUME EngineTypeOK, NEW th \in Threads, Continue(th), NEW d \in Devices
  PROVE  EntryOf(d, th)
<1>1. CASE InsertPeer(th)
  <2>1. peers'[dev[th]] = Merged(peers[dev[th]], seen[th]) /\ pc[th] = "inserting"
        /\ \A e \in Devices : e # dev[th] => peers'[e] = peers[e]
    BY <1>1 DEF InsertPeer, EngineTypeOK
  <2>2. seen[th] \in Peer /\ peers[d] \in Peer \cup {NoPeer}
    BY DEF EngineTypeOK
  <2>3. Merged(peers[d], seen[th]).full => seen[th].full \/ (peers[d] # NoPeer /\ peers[d].full)
    BY <2>2 DEF Merged, Peer
  <2> QED BY <2>1, <2>3 DEF EntryOf
<1>2. CASE RemovePeer(th)
  BY <1>2 DEF RemovePeer, EntryOf, EngineTypeOK
<1>3. CASE UNCHANGED peers
  BY <1>3 DEF EntryOf
<1>4. InsertPeer(th) \/ RemovePeer(th) \/ UNCHANGED peers
  BY DEF Continue, EmitDiscovered, EmitUpdated, EmitLost, FindBlocked, OpenSession,
         EmitCancelled, CancelAll, EmitStopped, Release, Answer
<1> QED BY <1>1, <1>2, <1>3, <1>4

\* A call reads the level of a device, or writes it, and takes note of what is late.
LEMMA BlockedEnter ==
  ASSUME EngineTypeOK, BlockedStaysOut, LateReports, NEW th \in Threads, Enter(th)
  PROVE  BlockedStaysOut' /\ LateReports'
<1>0. /\ pc[th] = "idle" /\ peers' = peers
      /\ \A ot \in Threads : ot # th => pc'[ot] = pc[ot] /\ dev'[ot] = dev[ot] /\ seen'[ot] = seen[ot]
  BY DEF Enter, DiscoverKnown, DiscoverUnknown, PeerGone, SendFiles, SetTrust, SetTrustFails,
         AcceptSession, CancelSession, StopEngine, Call, Goto, EngineTypeOK
<1>1. \A d \in Devices : BeingRemoved(d) => BeingRemoved(d)'
  BY <1>0 DEF BeingRemoved
<1>2. ASSUME NEW d \in Devices, NEW level \in Levels, SetTrust(th, d, level)
      PROVE  BlockedStaysOut' /\ LateReports'
  <2>1. /\ db' = [db EXCEPT ![d] = level] /\ dev'[th] = d
        /\ late' = IF level # "Blocked" THEN late
                   ELSE IF Admitted(d) # {} THEN late \cup {d} ELSE late \ {d}
        /\ pc'[th] = IF level = "Blocked" THEN "finding" ELSE "idle"
    BY <1>2 DEF SetTrust, set_trust, Goto, EngineTypeOK
  <2>2. db'[d] = level /\ \A e \in Devices : e # d => db'[e] = db[e]
    BY <2>1 DEF EngineTypeOK
  <2>3. \A e \in Devices : e # d => (e \in late' <=> e \in late)
    BY <2>1
  <2>4. BlockedStaysOut'
    <3> SUFFICES ASSUME NEW e \in Devices, db'[e] = "Blocked", peers'[e] # NoPeer, peers'[e].full
                 PROVE  BeingRemoved(e)' \/ e \in late'
      BY DEF BlockedStaysOut
    <3>1. CASE e = d
      BY <2>1, <2>2, <3>1 DEF BeingRemoved
    <3>2. CASE e # d
      BY <1>0, <1>1, <2>2, <2>3, <3>2 DEF BlockedStaysOut
    <3> QED BY <3>1, <3>2
  <2>5. LateReports'
    <3> SUFFICES ASSUME NEW ot \in Threads, pc'[ot] = "inserting", seen'[ot].full,
                        db'[dev'[ot]] = "Blocked"
                 PROVE  dev'[ot] \in late'
      BY DEF LateReports
    <3>1. ot # th
      BY <2>1
    <3>2. pc[ot] = "inserting" /\ seen[ot].full /\ dev'[ot] = dev[ot] /\ dev[ot] \in Devices
      BY <1>0, <3>1 DEF EngineTypeOK
    <3>3. CASE dev[ot] = d
      <4>1. ot \in Admitted(d) /\ level = "Blocked"
        BY <2>2, <3>2, <3>3 DEF Admitted
      <4> QED BY <2>1, <3>2, <3>3, <4>1
    <3>4. CASE dev[ot] # d
      BY <2>2, <2>3, <3>2, <3>4 DEF LateReports
    <3> QED BY <3>3, <3>4
  <2> QED BY <2>4, <2>5
<1>3. ASSUME NEW d \in Devices, DiscoverKnown(th, d)
      PROVE  BlockedStaysOut' /\ LateReports'
  <2>1. PICK level \in get_trust(d) :
          /\ seen' = [seen EXCEPT ![th] = [full |-> TRUE, trust |-> level]]
          /\ late' = IF db[d] = "Blocked" /\ level # "Blocked" THEN late \cup {d} ELSE late
          /\ Goto(th, IF level = "Blocked" THEN "idle" ELSE "inserting")
    BY <1>3 DEF DiscoverKnown
  <2>2. /\ db' = db /\ late \subseteq late' /\ dev'[th] = d
        /\ pc'[th] = IF level = "Blocked" THEN "idle" ELSE "inserting"
    BY <1>3, <2>1 DEF DiscoverKnown, Goto, EngineTypeOK
  <2>3. pc'[th] = "inserting" /\ db[d] = "Blocked" => d \in late'
    BY <2>1, <2>2
  <2> QED BY <1>0, <1>1, <2>2, <2>3 DEF BlockedStaysOut, LateReports
<1>4. ASSUME UNCHANGED <<db, late>>, pc'[th] = "inserting" => ~seen'[th].full
      PROVE  BlockedStaysOut' /\ LateReports'
  BY <1>0, <1>1, <1>4 DEF BlockedStaysOut, LateReports
<1>5. ASSUME NEW d \in Devices, DiscoverUnknown(th, d)
      PROVE  UNCHANGED <<db, late>> /\ ~seen'[th].full
  BY <1>5 DEF DiscoverUnknown, EngineTypeOK, platform
<1>6. ASSUME NEW d \in Devices, PeerGone(th, d) \/ SendFiles(th, d) \/ SetTrustFails(th, d)
      PROVE  UNCHANGED <<db, late>> /\ pc'[th] # "inserting"
  BY <1>6 DEF PeerGone, SendFiles, SetTrustFails, Goto, EngineTypeOK, platform
<1>7. ASSUME AcceptSession(th) \/ CancelSession(th) \/ StopEngine(th)
      PROVE  UNCHANGED <<db, late>> /\ pc'[th] # "inserting"
  BY <1>7 DEF AcceptSession, CancelSession, StopEngine, Goto, EngineTypeOK, platform
<1> QED BY <1>2, <1>3, <1>4, <1>5, <1>6, <1>7 DEF Enter

\* A step inside the engine removes what is being removed, and inserts under its
\* fingerprint only what is late or was there.
LEMMA BlockedContinue ==
  ASSUME EngineTypeOK, BlockedStaysOut, LateReports, NEW th \in Threads, Continue(th)
  PROVE  BlockedStaysOut' /\ LateReports'
<1>0. /\ UNCHANGED <<db, late, dev, seen>>
      /\ \A ot \in Threads : ot # th => pc'[ot] = pc[ot]
      /\ pc'[th] # "inserting"
  BY DEF Continue, InsertPeer, EmitDiscovered, EmitUpdated, RemovePeer, EmitLost, FindBlocked,
         OpenSession, EmitCancelled, CancelAll, EmitStopped, Release, Answer, Delivered, Goto,
         platform, EngineTypeOK
<1>1. LateReports'
  BY <1>0 DEF LateReports
<1>2. BlockedStaysOut'
  <2> SUFFICES ASSUME NEW d \in Devices, db[d] = "Blocked", peers'[d] # NoPeer, peers'[d].full,
                      d \notin late
               PROVE  BeingRemoved(d)'
    BY <1>0 DEF BlockedStaysOut
  <2>1. peers[d] # NoPeer /\ peers[d].full
    <3>1. EntryOf(d, th)
      BY EntryStep
    <3>2. pc[th] = "inserting" /\ dev[th] = d => ~seen[th].full
      BY DEF LateReports
    <3> QED BY <3>1, <3>2 DEF EntryOf
  <2>2. PICK ot \in Threads : dev[ot] = d /\ pc[ot] \in {"finding", "removing"}
    BY <2>1 DEF BlockedStaysOut, BeingRemoved
  <2>3. CASE ot # th
    BY <1>0, <2>2, <2>3 DEF BeingRemoved
  <2>4. CASE ot = th
    <3>1. FindBlocked(th) \/ RemovePeer(th)
      BY <2>2, <2>4 DEF Continue, InsertPeer, EmitDiscovered, EmitUpdated, EmitLost, OpenSession,
         EmitCancelled, CancelAll, EmitStopped, Release, Answer
    <3>2. ~RemovePeer(th)
      BY <2>2, <2>4 DEF RemovePeer, EngineTypeOK
    <3>3. pc'[th] = "removing"
      BY <2>1, <2>2, <2>4, <3>1, <3>2 DEF FindBlocked, Goto, EngineTypeOK
    <3> QED BY <1>0, <2>2, <2>4, <3>3 DEF BeingRemoved
  <2> QED BY <2>3, <2>4
<1> QED BY <1>1, <1>2

\* No step lets a blocked device in but by a report that was late.
LEMMA BlockedStep ==
  ASSUME EngineTypeOK, BlockedStaysOut, LateReports, [ENext]_evars
  PROVE  BlockedStaysOut' /\ LateReports'
<1>1. CASE UNCHANGED evars
  BY <1>1 DEF evars, BlockedStaysOut, LateReports, BeingRemoved
<1> QED BY <1>1, BlockedEnter, BlockedContinue DEF ENext

\* One thread at most stops the engine.
LEMMA StopStep ==
  ASSUME EngineTypeOK, StoppedOnce, OneStops, [ENext]_evars
  PROVE  StoppedOnce' /\ OneStops'
<1> DEFINE Late == {"stopping", "stopped"}
<1>1. CASE UNCHANGED evars
  BY <1>1 DEF evars, StoppedOnce, OneStops, Stopping
<1>2. ASSUME NEW th \in Threads, StopEngine(th) PROVE StoppedOnce' /\ OneStops'
  <2>1. /\ running /\ ~running' /\ stops' = stops
        /\ pc' = [pc EXCEPT ![th] = "stopping"]
    BY <1>2 DEF StopEngine, Goto, platform
  <2>2. stops = 0 /\ Stopping = {}
    BY <2>1 DEF OneStops
  <2>3. Stopping' = {th}
    BY <2>1, <2>2 DEF Stopping, EngineTypeOK
  <2> QED BY <2>1, <2>2, <2>3 DEF StoppedOnce, OneStops
<1>3. ASSUME NEW th \in Threads, CancelAll(th) PROVE StoppedOnce' /\ OneStops'
  <2>1. /\ pc[th] = "stopping" /\ UNCHANGED <<running, stops>>
        /\ pc' = [pc EXCEPT ![th] = "stopped"]
    BY <1>3 DEF CancelAll, Goto, platform
  <2>2. Stopping' = Stopping
    BY <2>1 DEF Stopping, EngineTypeOK
  <2> QED BY <2>1, <2>2 DEF StoppedOnce, OneStops
<1>4. ASSUME NEW th \in Threads, EmitStopped(th) PROVE StoppedOnce' /\ OneStops'
  <2>1. /\ pc[th] = "stopped" /\ running' = running /\ stops' = stops + 1
        /\ Goto(th, "asking") \/ Goto(th, "releasing")
    BY <1>4, DeliveredAt DEF EmitStopped
  <2>2. th \in Stopping
    BY <2>1 DEF Stopping
  <2>3. stops = 0 /\ ~running
    BY <2>2 DEF OneStops
  <2>4. Stopping' = {}
    BY <2>1, <2>2 DEF Stopping, EngineTypeOK, OneStops, Goto
  <2> QED BY <2>1, <2>3, <2>4 DEF StoppedOnce, OneStops
<1>5. ASSUME NEW th \in Threads, UNCHANGED <<running, stops>>,
             \E q \in Places \ Late : Goto(th, q), pc[th] \notin Late
      PROVE  StoppedOnce' /\ OneStops'
  <2>1. Stopping' = Stopping
    BY <1>5 DEF Stopping, EngineTypeOK, Goto
  <2> QED BY <1>5, <2>1 DEF StoppedOnce, OneStops
<1>6. ASSUME NEW th \in Threads, Enter(th)
      PROVE  \/ StopEngine(th)
             \/ /\ UNCHANGED <<running, stops>> /\ pc[th] \notin Late
                /\ \E q \in Places \ Late : Goto(th, q)
  BY <1>6 DEF Enter, DiscoverKnown, DiscoverUnknown, PeerGone, SendFiles, SetTrust, SetTrustFails,
              AcceptSession, CancelSession, Call, platform, Places
<1>7. ASSUME NEW th \in Threads, Continue(th)
      PROVE  \/ CancelAll(th) \/ EmitStopped(th)
             \/ /\ UNCHANGED <<running, stops>> /\ pc[th] \notin Late
                /\ \E q \in Places \ Late : Goto(th, q)
  BY <1>7 DEF Continue, InsertPeer, EmitDiscovered, EmitUpdated, RemovePeer, EmitLost,
              FindBlocked, OpenSession, EmitCancelled, Release, Answer, Delivered,
              platform, Places
<1> QED BY <1>1, <1>2, <1>3, <1>4, <1>5, <1>6, <1>7 DEF ENext

---------------------------------------------------------------------------
(* Theorems *)

\* The inductive invariant holds of every reachable state.
LEMMA EngineInvariant == ESpec => []EngineInv
<1>1. EInit => EngineInv
  BY EngineInit
<1>2. EngineInv /\ [ENext]_evars => EngineInv'
  <2> SUFFICES ASSUME EngineInv, [ENext]_evars PROVE EngineInv'
    OBVIOUS
  <2>1. EngineTypeOK' /\ GuardsHeld'
    <3>1. CASE UNCHANGED evars
      BY <3>1 DEF evars, EngineInv, EngineTypeOK, GuardsHeld
    <3>2. CASE ENext
      BY <3>2, EnterTypes, ContinueTypes DEF ENext, EngineInv
    <3> QED BY <3>1, <3>2
  <2>2. AnnouncedOnce'
    BY AnnouncedStep DEF EngineInv
  <2>3. BlockedStaysOut' /\ LateReports'
    BY BlockedStep DEF EngineInv
  <2>4. StoppedOnce' /\ OneStops'
    BY StopStep DEF EngineInv
  <2> QED BY <2>1, <2>2, <2>3, <2>4 DEF EngineInv
<1> QED BY <1>1, <1>2, PTL DEF ESpec

\* on_peer_discovered and on_peer_lost, on any number of threads: the discovered
\* events for a device outnumber the lost ones by exactly its entry in the map,
\* once every event on its way has arrived.
THEOREM EventsBalance == ESpec => []AnnouncedOnce
<1>1. EngineInv => AnnouncedOnce
  BY DEF EngineInv
<1> QED BY <1>1, EngineInvariant, PTL

\* set_peer_trust, against reports and losses on any number of other threads: a blocked
\* device is in the map under its fingerprint only while it is being removed, or by a
\* report that had passed the test of its level before the block, or whose query failed.
THEOREM BlockedAlwaysOut == ESpec => []BlockedStaysOut
<1>1. EngineInv => BlockedStaysOut
  BY DEF EngineInv
<1> QED BY <1>1, EngineInvariant, PTL

\* The types of the engine hold, and a thread outside of it holds no guard.
THEOREM EngineTypes == ESpec => []EngineTypeOK
<1>1. EngineInv => EngineTypeOK
  BY DEF EngineInv
<1> QED BY <1>1, EngineInvariant, PTL

\* Only InsertPeer puts an entry over another, and it keeps what was known.
LEMMA IdentifiedStep ==
  ASSUME EngineTypeOK, [ENext]_evars, NEW d \in Devices,
         peers[d] # NoPeer, peers[d].full, peers'[d] # NoPeer
  PROVE  peers'[d].full
<1>1. CASE UNCHANGED peers
  BY <1>1
<1>2. ASSUME NEW th \in Threads, InsertPeer(th) PROVE peers'[d].full
  <2>1. CASE dev[th] = d
    <3>1. seen[th] \in Peer /\ peers[d] \in Peer
      BY DEF EngineTypeOK
    <3>2. peers'[d] = Merged(peers[d], seen[th])
      BY <1>2, <2>1 DEF InsertPeer, EngineTypeOK
    <3> QED BY <3>1, <3>2 DEF Merged, Peer
  <2>2. CASE dev[th] # d
    BY <1>2, <2>2 DEF InsertPeer, EngineTypeOK
  <2> QED BY <2>1, <2>2
<1>3. ASSUME NEW th \in Threads, RemovePeer(th) PROVE peers'[d].full
  BY <1>3 DEF RemovePeer, EngineTypeOK
<1>4. UNCHANGED peers \/ \E th \in Threads : InsertPeer(th) \/ RemovePeer(th)
  BY DEF ENext, evars, Enter, Continue, DiscoverKnown, DiscoverUnknown, PeerGone, SendFiles, SetTrust, SetTrustFails,
         AcceptSession, CancelSession, StopEngine, EmitDiscovered, EmitUpdated, EmitLost,
         FindBlocked, OpenSession, EmitCancelled, CancelAll, EmitStopped, Release, Answer
<1> QED BY <1>1, <1>2, <1>3, <1>4

\* on_peer_discovered: a report without a fingerprint never takes away the one a peer
\* in the map has.
THEOREM FingerprintsStay == ESpec => StaysIdentified
<1>1. EngineTypeOK /\ [ENext]_evars =>
        [\A d \in Devices :
           peers[d] # NoPeer /\ peers[d].full /\ peers'[d] # NoPeer => peers'[d].full]_evars
  BY IdentifiedStep
<1> QED BY <1>1, EngineTypes, PTL DEF ESpec, StaysIdentified

\* stop: whoever calls it how often, Stopped is delivered at most once.
THEOREM StopsOnce == ESpec => []StoppedOnce
<1>1. EngineInv => StoppedOnce
  BY DEF EngineInv
<1> QED BY <1>1, EngineInvariant, PTL
===========================================================================
