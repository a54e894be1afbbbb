--------------------------- MODULE DiscoveryProofs ---------------------------
(***************************************************************************)
(* Theorems about Discovery, for any number of devices, names, addresses   *)
(* and changes, and any capacity of the channel.                           *)
(***************************************************************************)
EXTENDS Discovery, WellFoundedInduction, TLAPS

---------------------------------------------------------------------------
(* Types *)

\* Reports and events have their types.
LEMMA RecordTypes ==
  /\ \A d \in Devices : Id[d] \in Ids
  /\ \A d \in Devices, a \in Addrs : [dev |-> d, addr |-> a] \in Info
  /\ \A k \in {"resolved", "removed"}, d \in Devices, a \in Addrs \cup {NoAddr} :
       [kind |-> k, dev |-> d, addr |-> a] \in Report
  /\ \A k \in {"discovered", "updated", "lost"}, i \in Ids, p \in Info \cup {NoPeer} :
       [kind |-> k, id |-> i, info |-> p] \in Event
BY DEF Ids, Info, Report, Event

\* A queue with a message more or less.
LEMMA SeqTypes ==
  ASSUME NEW S, NEW q \in Seq(S)
  PROVE  /\ Len(q) \in Nat
         /\ \A e \in S : Append(q, e) \in Seq(S) /\ Len(Append(q, e)) = Len(q) + 1
         /\ q # <<>> => Head(q) \in S /\ Tail(q) \in Seq(S) /\ Len(Tail(q)) = Len(q) - 1 /\ Len(q) > 0
OBVIOUS

\* A send keeps the channel within its capacity.
LEMMA SendTypes ==
  ASSUME NEW e \in Event, bus \in Seq(Event), Len(bus) <= Capacity,
         lagged \in BOOLEAN, logger \in BOOLEAN, Send(e)
  PROVE  bus' \in Seq(Event) /\ Len(bus') <= Capacity /\ lagged' \in BOOLEAN
<1>1. Capacity \in Nat \ {0} /\ Len(bus) \in Nat
  BY DiscoveryAssumption DEF DiscoveryAssumption
<1>2. CASE ~logger
  BY <1>2 DEF Send
<1>3. CASE logger /\ Len(bus) < Capacity
  <2>1. bus' = Append(bus, e) /\ lagged' = lagged
    BY <1>3 DEF Send
  <2> QED BY <1>1, <1>3, <2>1
<1>4. CASE logger /\ ~(Len(bus) < Capacity)
  <2>1. bus' = Append(Tail(bus), e) /\ lagged' = TRUE /\ bus # <<>>
    BY <1>1, <1>4 DEF Send
  <2>2. Tail(bus) \in Seq(Event) /\ Len(Tail(bus)) = Len(bus) - 1
    BY <2>1
  <2> QED BY <1>1, <2>1, <2>2
<1> QED BY <1>2, <1>3, <1>4

LEMMA DTypeInit == DInit => DTypeOK
<1> SUFFICES ASSUME DInit PROVE DTypeOK
  OBVIOUS
<1>1. MaxChanges \in Nat /\ Capacity \in Nat
  BY DiscoveryAssumption DEF DiscoveryAssumption
<1>2. reports \in Seq(Report) /\ bus \in Seq(Event) /\ Len(bus) <= Capacity
  BY <1>1 DEF DInit
<1>3. service \in [Devices -> Addrs \cup {NoAddr, NoPeer}]
  BY DEF DInit
<1>4. peers \in [Ids -> Info \cup {NoPeer}] /\ told \in [Ids -> Info \cup {NoPeer}]
  BY DEF DInit
<1>5. changes \in 0 .. MaxChanges
  BY <1>1 DEF DInit
<1>b. lagged \in BOOLEAN /\ logger \in BOOLEAN
  BY Zenon DEF DInit
<1>6. aim = NoPeer /\ reached = NoPeer
  BY DEF DInit
<1> QED BY <1>2, <1>3, <1>4, <1>5, <1>b, <1>6 DEF DTypeOK

\* What a send picked is of its type.
LEMMA AimTypes ==
  ASSUME DTypeOK
  PROVE  /\ \A d \in Devices : Outdate(d) =>
              aim' \in {NoPeer} \cup [wanted : SUBSET Devices, info : Info, sound : BOOLEAN]
         /\ \A i \in Ids, w \in SUBSET Devices : Pick(i, w) =>
              aim' \in {NoPeer} \cup [wanted : SUBSET Devices, info : Info, sound : BOOLEAN]
<1>1. aim \in {NoPeer} \cup [wanted : SUBSET Devices, info : Info, sound : BOOLEAN]
      /\ peers \in [Ids -> Info \cup {NoPeer}]
  BY DEF DTypeOK
<1>2. ASSUME NEW d \in Devices, Outdate(d)
      PROVE  aim' \in {NoPeer} \cup [wanted : SUBSET Devices, info : Info, sound : BOOLEAN]
  BY <1>1, <1>2 DEF Outdate
<1>3. ASSUME NEW i \in Ids, NEW w \in SUBSET Devices, Pick(i, w)
      PROVE  aim' \in {NoPeer} \cup [wanted : SUBSET Devices, info : Info, sound : BOOLEAN]
  <2>1. peers[i] \in Info
    BY <1>1, <1>3 DEF Pick
  <2> DEFINE s == service[peers[i].dev] \in Addrs /\ ~Pending(peers[i].dev)
  <2>2. aim' = [wanted |-> w, info |-> peers[i], sound |-> s] /\ s \in BOOLEAN
    BY <1>3 DEF Pick
  <2> QED BY <2>1, <2>2
<1> QED BY <1>2, <1>3

LEMMA DTypeStep == DTypeOK /\ [DNext]_dvars => DTypeOK'
<1> SUFFICES ASSUME DTypeOK, [DNext]_dvars PROVE DTypeOK'
  OBVIOUS
<1> DEFINE Aim == {NoPeer} \cup [wanted : SUBSET Devices, info : Info, sound : BOOLEAN]
<1>q. /\ service \in [Devices -> Addrs \cup {NoAddr, NoPeer}]
      /\ reports \in Seq(Report)
      /\ peers \in [Ids -> Info \cup {NoPeer}]
      /\ bus \in Seq(Event) /\ Len(bus) <= Capacity
      /\ lagged \in BOOLEAN /\ logger \in BOOLEAN
      /\ told \in [Ids -> Info \cup {NoPeer}]
      /\ aim \in Aim
      /\ reached \in {NoPeer} \cup [dev : Devices, wanted : SUBSET Devices, sound : BOOLEAN]
      /\ changes \in 0 .. MaxChanges /\ MaxChanges \in Nat
  BY DiscoveryAssumption DEF DTypeOK, DiscoveryAssumption
<1>1. ASSUME NEW d \in Devices, NEW a \in Addrs \cup {NoAddr}, Announce(d, a) PROVE DTypeOK'
  <2>1. /\ service' = [service EXCEPT ![d] = a]
        /\ reports' = Append(reports, [kind |-> "resolved", dev |-> d, addr |-> a])
        /\ changes' = changes + 1 /\ changes < MaxChanges
        /\ UNCHANGED <<peers, bus, lagged, logger, told, reached>> /\ Outdate(d)
    BY <1>1 DEF Announce, Outdate
  <2>2. [kind |-> "resolved", dev |-> d, addr |-> a] \in Report
    BY RecordTypes
  <2>3. aim' \in Aim
    BY <2>1, AimTypes
  <2>4. reports' \in Seq(Report)
    BY <1>q, <2>1, <2>2
  <2>5. service' \in [Devices -> Addrs \cup {NoAddr, NoPeer}] /\ changes' \in 0 .. MaxChanges
    BY <1>q, <2>1
  <2> QED BY <1>q, <2>1, <2>3, <2>4, <2>5 DEF DTypeOK
<1>2. ASSUME NEW d \in Devices, Withdraw(d) PROVE DTypeOK'
  <2>1. /\ service' = [service EXCEPT ![d] = NoPeer]
        /\ reports' = Append(reports, [kind |-> "removed", dev |-> d, addr |-> NoAddr])
        /\ changes' = changes + 1 /\ changes < MaxChanges
        /\ UNCHANGED <<peers, bus, lagged, logger, told, reached>> /\ Outdate(d)
    BY <1>2 DEF Withdraw, Outdate
  <2>2. [kind |-> "removed", dev |-> d, addr |-> NoAddr] \in Report
    BY RecordTypes
  <2>3. aim' \in Aim
    BY <2>1, AimTypes
  <2>4. reports' \in Seq(Report)
    BY <1>q, <2>1, <2>2
  <2>5. service' \in [Devices -> Addrs \cup {NoAddr, NoPeer}] /\ changes' \in 0 .. MaxChanges
    BY <1>q, <2>1
  <2> QED BY <1>q, <2>1, <2>3, <2>4, <2>5 DEF DTypeOK
<1>3. CASE Resolved
  <2> DEFINE r == Head(reports)
             i == Id[r.dev]
             info == [dev |-> r.dev, addr |-> r.addr]
  <2>1. /\ reports # <<>> /\ reports' = Tail(reports)
        /\ UNCHANGED <<service, logger, told, aim, reached, changes>>
    BY <1>3 DEF Resolved, sendVars
  <2>2. r \in Report /\ reports' \in Seq(Report)
    BY <1>q, <2>1
  <2>3. CASE Skips(r)
    <3>1. UNCHANGED <<peers, bus, lagged>>
      BY <1>3, <2>3 DEF Resolved
    <3> QED BY <1>q, <2>1, <2>2, <3>1 DEF DTypeOK
  <2>4. CASE ~Skips(r)
    <3>1. i \in Ids /\ info \in Info
      BY <2>2, <2>4, RecordTypes DEF Report, Skips
    <3> DEFINE e == [kind |-> IF peers[i] = NoPeer THEN "discovered" ELSE "updated",
                     id |-> i, info |-> info]
    <3>2. peers' = [peers EXCEPT ![i] = info] /\ Send(e)
      BY <1>3, <2>4 DEF Resolved
    <3>3. e \in Event
      BY <3>1, RecordTypes
    <3>4. bus' \in Seq(Event) /\ Len(bus') <= Capacity /\ lagged' \in BOOLEAN
      BY <1>q, <3>2, <3>3, SendTypes
    <3>5. peers' \in [Ids -> Info \cup {NoPeer}]
      BY <1>q, <3>1, <3>2
    <3> QED BY <1>q, <2>1, <2>2, <3>4, <3>5 DEF DTypeOK
  <2> QED BY <2>3, <2>4
<1>4. CASE Removed
  <2>1. /\ reports # <<>> /\ reports' = Tail(reports)
        /\ UNCHANGED <<service, logger, told, aim, reached, changes>>
    BY <1>4 DEF Removed, sendVars
  <2>2. reports' \in Seq(Report)
    BY <1>q, <2>1
  <2>3. CASE UNCHANGED <<peers, bus, lagged>>
    BY <1>q, <2>1, <2>2, <2>3 DEF DTypeOK
  <2>4. ASSUME NEW i \in Ids, peers' = [peers EXCEPT ![i] = NoPeer],
               Send([kind |-> "lost", id |-> i, info |-> NoPeer])
        PROVE  DTypeOK'
    <3>1. [kind |-> "lost", id |-> i, info |-> NoPeer] \in Event
      BY RecordTypes
    <3>2. bus' \in Seq(Event) /\ Len(bus') <= Capacity /\ lagged' \in BOOLEAN
      BY <1>q, <2>4, <3>1, SendTypes
    <3> QED BY <1>q, <2>1, <2>2, <2>4, <3>2 DEF DTypeOK
  <2> QED BY <1>4, <2>3, <2>4 DEF Removed, Matching
<1>5. CASE Hear
  <2>1. /\ bus # <<>> /\ bus' = Tail(bus)
        /\ told' = [told EXCEPT ![Head(bus).id] = Head(bus).info]
        /\ UNCHANGED <<service, reports, peers, lagged, logger, aim, reached, changes>>
    BY <1>5 DEF Hear, sendVars
  <2>2. Head(bus) \in Event /\ bus' \in Seq(Event) /\ Len(bus') <= Capacity
    <3>1. Capacity \in Nat
      BY DiscoveryAssumption DEF DiscoveryAssumption
    <3> QED BY <1>q, <2>1, <3>1, SeqTypes
  <2>3. told' \in [Ids -> Info \cup {NoPeer}]
    BY <1>q, <2>1, <2>2 DEF Event
  <2> QED BY <1>q, <2>1, <2>2, <2>3 DEF DTypeOK
<1>6. CASE HearLag
  <2>1. /\ bus' = <<>> /\ logger' = FALSE /\ lagged' = FALSE
        /\ UNCHANGED <<service, reports, peers, told, aim, reached, changes>>
    BY <1>6 DEF HearLag, sendVars
  <2>2. bus' \in Seq(Event) /\ Len(bus') <= Capacity
    <3>1. Capacity \in Nat
      BY DiscoveryAssumption DEF DiscoveryAssumption
    <3> QED BY <2>1, <3>1
  <2> QED BY <1>q, <2>1, <2>2 DEF DTypeOK
<1>7. ASSUME NEW i \in Ids, NEW w \in SUBSET Devices, Pick(i, w) PROVE DTypeOK'
  <2>1. UNCHANGED <<service, reports, peers, bus, lagged, logger, told, reached, changes>>
    BY <1>7 DEF Pick
  <2>2. aim' \in Aim
    BY <1>7, AimTypes
  <2> QED BY <1>q, <2>1, <2>2 DEF DTypeOK
<1>8. CASE Connect
  <2>1. /\ aim # NoPeer /\ aim' = NoPeer
        /\ UNCHANGED <<service, reports, peers, bus, lagged, logger, told, changes>>
    BY <1>8 DEF Connect
  <2>2. reached' \in {NoPeer} \cup [dev : Devices, wanted : SUBSET Devices, sound : BOOLEAN]
    BY <1>q, <1>8 DEF Connect
  <2> QED BY <1>q, <2>1, <2>2 DEF DTypeOK
<1>9. CASE UNCHANGED dvars
  BY <1>q, <1>9 DEF DTypeOK, dvars
<1> QED BY <1>1, <1>2, <1>3, <1>4, <1>5, <1>6, <1>7, <1>8, <1>9
        DEF DNext, Browse, SendToId, SendToNamed

\* Every variable of the browser keeps its type; in particular the channel never
\* holds more events than its capacity.
THEOREM DTypeCorrect == DSpec => []DTypeOK
BY DTypeInit, DTypeStep, PTL DEF DSpec

---------------------------------------------------------------------------
(* The map of peers and the network *)

\* An entry is of a device with the id it stands under.
EntriesOwned == \A i \in Ids : peers[i] # NoPeer => Id[peers[i].dev] = i

\* With its own fingerprint known, this device is not in its own map.
SelfOut == KnowsSelf => peers[Id[Self]] = NoPeer

\* An address is of one device at a time.
AddrsApart ==
  \A d, e \in Devices : service[d] \in Addrs /\ service[d] = service[e] => d = e

\* Report k is the last that is still to come about d.
LastAbout(d, k) ==
  reports[k].dev = d /\ \A j \in DOMAIN reports : j > k => reports[j].dev # d

\* Of a device that is announced, the last report says where.
LastReportTrue ==
  \A d \in Devices : \A k \in DOMAIN reports :
    service[d] \in Addrs /\ LastAbout(d, k) =>
      reports[k] = [kind |-> "resolved", dev |-> d, addr |-> service[d]]

\* An entry of a device about which nothing is still to come has its address.
EntriesCurrent ==
  \A i \in Ids : \A d \in Devices :
    peers[i] # NoPeer /\ peers[i].dev = d /\ ~Pending(d) /\ service[d] \in Addrs =>
      peers[i].addr = service[d]

\* The send under way aims at a device asked for and, as long as what it picked is
\* sound, at its address.
AimTrue ==
  aim # NoPeer =>
    /\ aim.info.dev \in aim.wanted
    /\ aim.sound => aim.info.addr \in Addrs /\ service[aim.info.dev] = aim.info.addr

MapInv ==
  /\ EntriesOwned /\ AddrsApart /\ LastReportTrue /\ SelfOut
  /\ EntriesCurrent /\ AnnouncedListed /\ AimTrue /\ SendReachesNamed

\* A report that is added is the last about its device, and no other device's.
LEMMA ReportAdded ==
  ASSUME reports \in Seq(Report), NEW r \in Report, reports' = Append(reports, r)
  PROVE  /\ \A d \in Devices : Pending(d)' <=> d = r.dev \/ Pending(d)
         /\ \A d \in Devices : \A k \in DOMAIN reports' : LastAbout(d, k)' =>
              \/ d = r.dev /\ reports'[k] = r
              \/ d # r.dev /\ k \in DOMAIN reports /\ LastAbout(d, k) /\ reports'[k] = reports[k]
<1>1. /\ Len(reports) \in Nat /\ DOMAIN reports = 1 .. Len(reports)
      /\ DOMAIN reports' = 1 .. Len(reports) + 1
      /\ \A k \in 1 .. Len(reports) : reports'[k] = reports[k]
      /\ reports'[Len(reports) + 1] = r
  OBVIOUS
<1> HIDE DEF LastAbout
<1>2. \A d \in Devices : Pending(d)' <=> d = r.dev \/ Pending(d)
  BY <1>1 DEF Pending
<1>3. ASSUME NEW d \in Devices, NEW k \in DOMAIN reports', LastAbout(d, k)'
      PROVE  \/ d = r.dev /\ reports'[k] = r
             \/ d # r.dev /\ k \in DOMAIN reports /\ LastAbout(d, k) /\ reports'[k] = reports[k]
  <2>1. reports'[k].dev = d /\ \A j \in 1 .. Len(reports) + 1 : j > k => reports'[j].dev # d
    BY <1>1, <1>3 DEF LastAbout
  <2>2. CASE k = Len(reports) + 1
    BY <1>1, <2>1, <2>2
  <2>3. CASE k \in 1 .. Len(reports)
    <3>1. Len(reports) + 1 > k /\ Len(reports) + 1 \in 1 .. Len(reports) + 1
      BY <1>1, <2>3
    <3>2. d # r.dev
      BY <1>1, <2>1, <3>1
    <3>3. LastAbout(d, k)
      BY <1>1, <2>1, <2>3 DEF LastAbout
    <3> QED BY <1>1, <2>3, <3>2, <3>3
  <2> QED BY <1>1, <2>2, <2>3
<1> QED BY <1>2, <1>3

\* The first report taken: what is last stays last, and a device that is no longer
\* pending had its last report taken.
LEMMA ReportTaken ==
  ASSUME reports \in Seq(Report), reports # <<>>, reports' = Tail(reports)
  PROVE  /\ Head(reports) \in Report /\ Head(reports) = reports[1] /\ 1 \in DOMAIN reports
         /\ \A d \in Devices : Pending(d)' => Pending(d)
         /\ \A d \in Devices : Pending(d) /\ ~Pending(d)' =>
              d = Head(reports).dev /\ LastAbout(d, 1)
         /\ \A d \in Devices : \A k \in DOMAIN reports' : LastAbout(d, k)' =>
              k + 1 \in DOMAIN reports /\ LastAbout(d, k + 1) /\ reports'[k] = reports[k + 1]
<1>1. /\ Len(reports) \in Nat \ {0} /\ DOMAIN reports = 1 .. Len(reports)
      /\ Head(reports) = reports[1] /\ Head(reports) \in Report
      /\ DOMAIN reports' = 1 .. Len(reports) - 1
      /\ \A k \in 1 .. Len(reports) - 1 : reports'[k] = reports[k + 1]
  OBVIOUS
<1>2. \A k \in 1 .. Len(reports) : k = 1 \/ (k - 1 \in 1 .. Len(reports) - 1 /\ reports'[k - 1] = reports[k])
  BY <1>1
<1>3. \A d \in Devices : Pending(d)' => Pending(d)
  BY <1>1 DEF Pending
<1>4. ASSUME NEW d \in Devices, Pending(d), ~Pending(d)'
      PROVE  d = Head(reports).dev /\ LastAbout(d, 1)
  <2>1. \A k \in 1 .. Len(reports) : k # 1 => reports[k].dev # d
    BY <1>1, <1>2, <1>4 DEF Pending
  <2>2. reports[1].dev = d
    BY <1>1, <1>4, <2>1 DEF Pending
  <2> QED BY <1>1, <2>1, <2>2 DEF LastAbout
<1>5. ASSUME NEW d \in Devices, NEW k \in DOMAIN reports', LastAbout(d, k)'
      PROVE  k + 1 \in DOMAIN reports /\ LastAbout(d, k + 1) /\ reports'[k] = reports[k + 1]
  <2>1. k \in 1 .. Len(reports) - 1 /\ k + 1 \in 1 .. Len(reports)
    BY <1>1
  <2>2. reports'[k].dev = d /\ \A j \in 1 .. Len(reports) - 1 : j > k => reports'[j].dev # d
    BY <1>1, <1>5 DEF LastAbout
  <2>3. ASSUME NEW j \in 1 .. Len(reports), j > k + 1 PROVE reports[j].dev # d
    <3>1. j - 1 \in 1 .. Len(reports) - 1 /\ j - 1 > k /\ j # 1
      BY <1>1, <2>1, <2>3
    <3> QED BY <1>2, <2>2, <3>1
  <2> QED BY <1>1, <2>1, <2>2, <2>3 DEF LastAbout
<1> QED BY <1>1, <1>3, <1>4, <1>5

---------------------------------------------------------------------------
(* A device that announces or withdraws *)

\* The service of d changes to a, and the report of it joins the queue.
LEMMA ServiceMoves ==
  ASSUME DTypeOK, MapInv, NEW d \in Devices, NEW r \in Report, r.dev = d,
         NEW a \in Addrs \cup {NoAddr, NoPeer},
         a \in Addrs => /\ r = [kind |-> "resolved", dev |-> d, addr |-> a]
                        /\ \A e \in Devices : service[e] # a,
         service' = [service EXCEPT ![d] = a], reports' = Append(reports, r),
         Outdate(d), UNCHANGED peers
  PROVE  MapInv'
<1>q. /\ service \in [Devices -> Addrs \cup {NoAddr, NoPeer}] /\ reports \in Seq(Report)
      /\ peers \in [Ids -> Info \cup {NoPeer}]
      /\ aim \in {NoPeer} \cup [wanted : SUBSET Devices, info : Info, sound : BOOLEAN]
  BY DEF DTypeOK
<1>r. /\ \A e \in Devices : Pending(e)' <=> e = d \/ Pending(e)
      /\ \A e \in Devices : \A k \in DOMAIN reports' : LastAbout(e, k)' =>
              \/ e = d /\ reports'[k] = r
              \/ e # d /\ k \in DOMAIN reports /\ LastAbout(e, k) /\ reports'[k] = reports[k]
  BY <1>q, ReportAdded
<1>s. service'[d] = a /\ \A e \in Devices : e # d => service'[e] = service[e]
  BY <1>q
<1>1. EntriesOwned'
  BY DEF MapInv, EntriesOwned
<1>2. AddrsApart'
  BY <1>s DEF MapInv, AddrsApart
<1>3. LastReportTrue'
  <2> SUFFICES ASSUME NEW e \in Devices, NEW k \in DOMAIN reports',
                      service'[e] \in Addrs, LastAbout(e, k)'
               PROVE  reports'[k] = [kind |-> "resolved", dev |-> e, addr |-> service'[e]]
    BY DEF LastReportTrue
  <2>1. CASE e = d
    BY <1>r, <1>s, <2>1
  <2>2. CASE e # d
    <3>1. k \in DOMAIN reports /\ LastAbout(e, k) /\ reports'[k] = reports[k]
      BY <1>r, <2>2
    <3> QED BY <1>s, <2>2, <3>1 DEF MapInv, LastReportTrue
  <2> QED BY <2>1, <2>2
<1>4. SelfOut'
  BY DEF MapInv, SelfOut
<1>5. EntriesCurrent'
  BY <1>r, <1>s DEF MapInv, EntriesCurrent
<1>6. AnnouncedListed'
  BY <1>r, <1>s DEF MapInv, AnnouncedListed, Listable
<1>7. AimTrue'
  <2>1. CASE aim # NoPeer /\ aim.info.dev = d
    <3>1. aim' = [aim EXCEPT !.sound = FALSE]
      BY <2>1 DEF Outdate
    <3>2. aim \in [wanted : SUBSET Devices, info : Info, sound : BOOLEAN]
      BY <1>q, <2>1
    <3>3. aim'.info = aim.info /\ aim'.wanted = aim.wanted /\ ~aim'.sound
      BY <3>1, <3>2
    <3>4. aim.info.dev \in aim.wanted
      BY <2>1 DEF MapInv, AimTrue
    <3> QED BY <3>3, <3>4 DEF AimTrue
  <2>2. CASE ~(aim # NoPeer /\ aim.info.dev = d)
    <3>1. aim' = aim
      BY <2>2, Zenon DEF Outdate
    <3>2. aim # NoPeer => aim.info.dev \in Devices /\ aim.info.dev # d
      BY <1>q, <2>2 DEF Info
    <3> QED BY <1>s, <3>1, <3>2 DEF MapInv, AimTrue
  <2> QED BY <2>1, <2>2
<1>8. SendReachesNamed'
  BY DEF MapInv, SendReachesNamed, Outdate
<1> QED BY <1>1, <1>2, <1>3, <1>4, <1>5, <1>6, <1>7, <1>8 DEF MapInv
---------------------------------------------------------------------------
(* The browsing task *)

\* A step of the task changes nothing of the network and of the send.
LEMMA MapTaken ==
  ASSUME DTypeOK, MapInv, reports # <<>>, reports' = Tail(reports),
         UNCHANGED <<service, aim, reached>>
  PROVE  /\ AddrsApart' /\ LastReportTrue' /\ AimTrue' /\ SendReachesNamed'
         /\ Head(reports) \in Report /\ Pending(Head(reports).dev)
         /\ \A e \in Devices : ~Pending(e)' /\ Pending(e) /\ service[e] \in Addrs =>
              Head(reports) = [kind |-> "resolved", dev |-> e, addr |-> service[e]]
<1>q. reports \in Seq(Report)
  BY DEF DTypeOK
<1>r. /\ Head(reports) \in Report /\ Head(reports) = reports[1] /\ 1 \in DOMAIN reports
      /\ \A d \in Devices : Pending(d) /\ ~Pending(d)' =>
              d = Head(reports).dev /\ LastAbout(d, 1)
      /\ \A d \in Devices : \A k \in DOMAIN reports' : LastAbout(d, k)' =>
              k + 1 \in DOMAIN reports /\ LastAbout(d, k + 1) /\ reports'[k] = reports[k + 1]
  BY <1>q, ReportTaken
<1>1. AddrsApart' /\ AimTrue' /\ SendReachesNamed'
  BY DEF MapInv, AddrsApart, AimTrue, SendReachesNamed
<1>2. LastReportTrue'
  <2> SUFFICES ASSUME NEW e \in Devices, NEW k \in DOMAIN reports',
                      service[e] \in Addrs, LastAbout(e, k)'
               PROVE  reports'[k] = [kind |-> "resolved", dev |-> e, addr |-> service[e]]
    BY DEF LastReportTrue
  <2>1. k + 1 \in DOMAIN reports /\ LastAbout(e, k + 1) /\ reports'[k] = reports[k + 1]
    BY <1>r
  <2> QED BY <2>1 DEF MapInv, LastReportTrue
<1>3. Pending(Head(reports).dev)
  BY <1>r DEF Pending
<1>4. ASSUME NEW e \in Devices, ~Pending(e)', Pending(e), service[e] \in Addrs
      PROVE  Head(reports) = [kind |-> "resolved", dev |-> e, addr |-> service[e]]
  BY <1>r, <1>4 DEF MapInv, LastReportTrue
<1> QED BY <1>1, <1>2, <1>3, <1>4, <1>r

LEMMA ResolvedStep == DTypeOK /\ MapInv /\ Resolved => MapInv'
<1> SUFFICES ASSUME DTypeOK, MapInv, Resolved PROVE MapInv'
  OBVIOUS
<1> DEFINE r == Head(reports)
           d == r.dev
           j == Id[d]
           info == [dev |-> d, addr |-> r.addr]
<1>0. /\ reports # <<>> /\ reports' = Tail(reports)
      /\ UNCHANGED <<service, aim, reached>>
  BY DEF Resolved, sendVars
<1>1. /\ AddrsApart' /\ LastReportTrue' /\ AimTrue' /\ SendReachesNamed'
      /\ r \in Report /\ Pending(d)
      /\ \A e \in Devices : ~Pending(e)' /\ Pending(e) /\ service[e] \in Addrs =>
              r = [kind |-> "resolved", dev |-> e, addr |-> service[e]]
  BY <1>0, MapTaken
<1>2. /\ peers \in [Ids -> Info \cup {NoPeer}] /\ d \in Devices /\ r.addr \in Addrs \cup {NoAddr}
      /\ j \in Ids /\ NoAddr \notin Addrs /\ Self \in Devices /\ Id[Self] \in Ids
      /\ NoPeer \notin Info
  BY <1>1, RecordTypes, DiscoveryAssumption DEF DTypeOK, Report, DiscoveryAssumption
<1> HIDE DEF r
<1>3. CASE Skips(r)
  <2>1. peers' = peers
    BY <1>3 DEF Resolved, r
  <2>2. EntriesOwned' /\ SelfOut'
    BY <2>1 DEF MapInv, EntriesOwned, SelfOut
  <2>3. \A e \in Devices : ~Pending(e)' /\ Pending(e) /\ service[e] \in Addrs =>
          e = d /\ KnowsSelf /\ Id[e] = Id[Self]
    BY <1>1, <1>2, <1>3 DEF Skips
  <2>4. EntriesCurrent'
    <3> SUFFICES ASSUME NEW i \in Ids, NEW e \in Devices, peers[i] # NoPeer, peers[i].dev = e,
                        ~Pending(e)', service[e] \in Addrs
                 PROVE  peers[i].addr = service[e]
      BY <1>0, <2>1 DEF EntriesCurrent
    <3>1. ~Pending(e)
      BY <2>3 DEF MapInv, EntriesOwned, SelfOut
    <3> QED BY <3>1 DEF MapInv, EntriesCurrent
  <2>5. AnnouncedListed'
    <3> SUFFICES ASSUME NEW e \in Devices, Listable(e), service[e] \in Addrs, ~Pending(e)'
                 PROVE  peers[Id[e]] = [dev |-> e, addr |-> service[e]]
      BY <1>0, <2>1 DEF AnnouncedListed, Listable
    <3>1. ~Pending(e)
      BY <2>3 DEF Listable
    <3> QED BY <3>1 DEF MapInv, AnnouncedListed
  <2> QED BY <1>1, <2>2, <2>4, <2>5 DEF MapInv
<1>4. CASE ~Skips(r)
  <2>1. peers' = [peers EXCEPT ![j] = info] /\ info.dev = d /\ info.addr = r.addr
    BY <1>4 DEF Resolved, r
  <2>2. peers'[j] = info /\ \A i \in Ids : i # j => peers'[i] = peers[i]
    BY <1>2, <2>1
  <2>3. EntriesOwned'
    BY <2>1, <2>2 DEF MapInv, EntriesOwned
  <2>4. SelfOut'
    BY <1>2, <1>4, <2>2 DEF MapInv, SelfOut, Skips
  <2>5. \A e \in Devices : ~Pending(e)' /\ service[e] \in Addrs =>
          IF e = d THEN r.addr = service[e] ELSE ~Pending(e)
    <3> TAKE e \in Devices
    <3> HAVE ~Pending(e)' /\ service[e] \in Addrs
    <3>1. CASE Pending(e)
      <4>1. r = [kind |-> "resolved", dev |-> e, addr |-> service[e]]
        BY <1>1, <3>1
      <4> QED BY <4>1
    <3>2. CASE ~Pending(e)
      BY <1>1, <3>2
    <3> QED BY <3>1, <3>2
  <2>6. EntriesCurrent'
    <3> SUFFICES ASSUME NEW i \in Ids, NEW e \in Devices, peers'[i] # NoPeer, peers'[i].dev = e,
                        ~Pending(e)', service[e] \in Addrs
                 PROVE  peers'[i].addr = service[e]
      BY <1>0 DEF EntriesCurrent
    <3>1. CASE i = j
      BY <2>1, <2>2, <2>5, <3>1
    <3>2. CASE i # j
      <4>1. e # d
        BY <2>2, <3>2 DEF MapInv, EntriesOwned
      <4> QED BY <2>2, <2>5, <3>2, <4>1 DEF MapInv, EntriesCurrent
    <3> QED BY <3>1, <3>2
  <2>7. AnnouncedListed'
    <3> SUFFICES ASSUME NEW e \in Devices, Listable(e), service[e] \in Addrs, ~Pending(e)'
                 PROVE  peers'[Id[e]] = [dev |-> e, addr |-> service[e]]
      BY <1>0 DEF AnnouncedListed, Listable
    <3>1. CASE e = d
      BY <2>1, <2>2, <2>5, <3>1
    <3>2. CASE e # d
      <4>1. Id[e] # j /\ Id[e] \in Ids
        BY <1>2, <3>2, RecordTypes DEF Listable
      <4> QED BY <2>2, <2>5, <3>2, <4>1 DEF MapInv, AnnouncedListed
    <3> QED BY <3>1, <3>2
  <2> QED BY <1>1, <2>3, <2>4, <2>6, <2>7 DEF MapInv
<1> QED BY <1>3, <1>4

LEMMA RemovedStep == DTypeOK /\ MapInv /\ Removed => MapInv'
<1> SUFFICES ASSUME DTypeOK, MapInv, Removed PROVE MapInv'
  OBVIOUS
<1> DEFINE r == Head(reports)
           d == r.dev
<1>0. /\ reports # <<>> /\ reports' = Tail(reports) /\ r.kind = "removed"
      /\ UNCHANGED <<service, aim, reached>>
  BY DEF Removed, sendVars
<1>1. /\ AddrsApart' /\ LastReportTrue' /\ AimTrue' /\ SendReachesNamed'
      /\ r \in Report /\ Pending(d)
      /\ \A e \in Devices : ~Pending(e)' /\ Pending(e) /\ service[e] \in Addrs =>
              r = [kind |-> "resolved", dev |-> e, addr |-> service[e]]
  BY <1>0, MapTaken
<1>2. /\ peers \in [Ids -> Info \cup {NoPeer}] /\ d \in Devices /\ Id[Self] \in Ids
  BY <1>1, RecordTypes, DiscoveryAssumption DEF DTypeOK, Report, DiscoveryAssumption
<1>3. \A e \in Devices : ~Pending(e)' /\ service[e] \in Addrs => e # d /\ ~Pending(e)
  <2> TAKE e \in Devices
  <2> HAVE ~Pending(e)' /\ service[e] \in Addrs
  <2>1. ~Pending(e)
    <3>1. SUFFICES ASSUME Pending(e) PROVE FALSE
      OBVIOUS
    <3>2. r = [kind |-> "resolved", dev |-> e, addr |-> service[e]]
      BY <1>1, <3>1
    <3>3. r.kind = "resolved"
      BY <3>2
    <3> QED BY <1>0, <3>3
  <2> QED BY <1>1, <2>1
<1> HIDE DEF r
\* At most one entry goes, of a device with a host name in the full name of d.
<1>4. \A i \in Ids : \/ peers'[i] = peers[i]
                     \/ peers'[i] = NoPeer /\ HasPart(FullName(d), HostName(peers[i].dev))
  <2>1. CASE UNCHANGED peers
    BY <2>1
  <2>2. ASSUME NEW m \in Matching(d), peers' = [peers EXCEPT ![m] = NoPeer]
        PROVE  \A i \in Ids : \/ peers'[i] = peers[i]
                              \/ peers'[i] = NoPeer /\ HasPart(FullName(d), HostName(peers[i].dev))
    <3>1. m \in Ids /\ HasPart(FullName(d), HostName(peers[m].dev))
      BY DEF Matching
    <3> QED BY <1>2, <2>2, <3>1
  <2> QED BY <2>1, <2>2 DEF Removed, r
<1>5. EntriesOwned'
  BY <1>4 DEF MapInv, EntriesOwned
<1>6. SelfOut'
  BY <1>2, <1>4 DEF MapInv, SelfOut
<1>7. EntriesCurrent'
  <2> SUFFICES ASSUME NEW i \in Ids, NEW e \in Devices, peers'[i] # NoPeer, peers'[i].dev = e,
                      ~Pending(e)', service[e] \in Addrs
               PROVE  peers'[i].addr = service[e]
    BY <1>0 DEF EntriesCurrent
  <2>1. peers'[i] = peers[i]
    BY <1>4
  <2> QED BY <1>3, <2>1 DEF MapInv, EntriesCurrent
<1>8. AnnouncedListed'
  <2> SUFFICES ASSUME NEW e \in Devices, Listable(e), service[e] \in Addrs, ~Pending(e)'
               PROVE  peers'[Id[e]] = [dev |-> e, addr |-> service[e]]
    BY <1>0 DEF AnnouncedListed, Listable
  <2>1. peers[Id[e]] = [dev |-> e, addr |-> service[e]] /\ d \in Devices \ {e} /\ Id[e] \in Ids
    BY <1>2, <1>3, RecordTypes DEF MapInv, AnnouncedListed
  <2>2. peers[Id[e]].dev = e
    BY <2>1
  <2>3. ~HasPart(FullName(d), HostName(peers[Id[e]].dev))
    BY <2>1, <2>2 DEF Listable
  <2> QED BY <1>4, <2>1, <2>3
<1> QED BY <1>1, <1>5, <1>6, <1>7, <1>8 DEF MapInv

---------------------------------------------------------------------------
(* The send *)

LEMMA PickStep ==
  ASSUME DTypeOK, MapInv, NEW i \in Ids, NEW w, Pick(i, w), peers[i].dev \in w
  PROVE  MapInv'
<1> DEFINE d == peers[i].dev
           s == service[d] \in Addrs /\ ~Pending(d)
<1>1. /\ aim' = [wanted |-> w, info |-> peers[i], sound |-> s]
      /\ peers[i] # NoPeer /\ UNCHANGED <<service, reports, peers, reached>>
  BY DEF Pick
<1>2. d \in Devices /\ peers[i].addr \in Addrs
  BY <1>1 DEF DTypeOK, Info
<1>3. s => service[d] = peers[i].addr
  BY <1>1, <1>2 DEF MapInv, EntriesCurrent
<1>4. /\ aim'.wanted = w /\ aim'.info = peers[i] /\ aim'.sound = s
  BY <1>1
<1>5. AimTrue'
  BY <1>1, <1>2, <1>3, <1>4 DEF AimTrue
<1> QED BY <1>1, <1>5
        DEF MapInv, EntriesOwned, AddrsApart, LastReportTrue, LastAbout, SelfOut,
            EntriesCurrent, AnnouncedListed, Listable, Pending, SendReachesNamed

LEMMA ConnectStep == DTypeOK /\ MapInv /\ Connect => MapInv'
<1> SUFFICES ASSUME DTypeOK, MapInv, Connect PROVE MapInv'
  OBVIOUS
<1>1. aim # NoPeer /\ aim' = NoPeer /\ UNCHANGED <<service, reports, peers>>
  BY DEF Connect
<1>2. SendReachesNamed'
  <2>1. CASE UNCHANGED reached
    BY <2>1 DEF MapInv, SendReachesNamed
  <2>2. ASSUME NEW d \in Devices, service[d] = aim.info.addr,
               reached' = [dev |-> d, wanted |-> aim.wanted, sound |-> aim.sound], aim.sound
        PROVE  d \in aim.wanted
    <3>1. aim.info.dev \in Devices
      BY <1>1 DEF DTypeOK, Info
    <3>2. aim.info.dev = d
      BY <1>1, <2>2, <3>1 DEF MapInv, AimTrue, AddrsApart
    <3> QED BY <1>1, <3>2 DEF MapInv, AimTrue
  <2> QED BY <2>1, <2>2 DEF Connect, SendReachesNamed
<1> QED BY <1>1, <1>2
        DEF MapInv, EntriesOwned, AddrsApart, LastReportTrue, LastAbout, SelfOut,
            EntriesCurrent, AnnouncedListed, Listable, Pending, AimTrue

---------------------------------------------------------------------------
(* The invariant *)

LEMMA MapInit == DInit => MapInv
<1> SUFFICES ASSUME DInit PROVE MapInv
  OBVIOUS
<1>1. /\ \A d \in Devices : service[d] = NoPeer
      /\ \A i \in Ids : peers[i] = NoPeer
      /\ DOMAIN reports = {} /\ aim = NoPeer /\ reached = NoPeer
  BY DEF DInit
<1>2. NoPeer \notin Addrs /\ Id[Self] \in Ids
  BY RecordTypes, DiscoveryAssumption DEF DiscoveryAssumption
<1> QED BY <1>1, <1>2
        DEF MapInv, EntriesOwned, AddrsApart, LastReportTrue, LastAbout, SelfOut,
            EntriesCurrent, AnnouncedListed, AimTrue, SendReachesNamed

LEMMA MapStep == DTypeOK /\ MapInv /\ [DNext]_dvars => MapInv'
<1> SUFFICES ASSUME DTypeOK, MapInv, [DNext]_dvars PROVE MapInv'
  OBVIOUS
<1>1. ASSUME NEW d \in Devices, NEW a \in Addrs \cup {NoAddr}, Announce(d, a) PROVE MapInv'
  <2> DEFINE r == [kind |-> "resolved", dev |-> d, addr |-> a]
  <2>1. /\ service' = [service EXCEPT ![d] = a] /\ reports' = Append(reports, r)
        /\ Outdate(d) /\ UNCHANGED peers /\ (a \in Addrs => \A e \in Devices : service[e] # a)
    BY <1>1 DEF Announce
  <2>2. r \in Report /\ r.dev = d
    BY RecordTypes
  <2> QED BY <2>1, <2>2, ServiceMoves
<1>2. ASSUME NEW d \in Devices, Withdraw(d) PROVE MapInv'
  <2> DEFINE r == [kind |-> "removed", dev |-> d, addr |-> NoAddr]
  <2>1. /\ service' = [service EXCEPT ![d] = NoPeer] /\ reports' = Append(reports, r)
        /\ Outdate(d) /\ UNCHANGED peers
    BY <1>2 DEF Withdraw
  <2>2. r \in Report /\ r.dev = d /\ NoPeer \notin Addrs
    BY RecordTypes, DiscoveryAssumption DEF DiscoveryAssumption
  <2> QED BY <2>1, <2>2, ServiceMoves
<1>3. CASE UNCHANGED <<service, reports, peers, aim, reached>>
  BY <1>3
     DEF MapInv, EntriesOwned, AddrsApart, LastReportTrue, LastAbout, SelfOut,
         EntriesCurrent, AnnouncedListed, Listable, Pending, AimTrue, SendReachesNamed
<1>4. CASE Hear \/ HearLag \/ UNCHANGED dvars
  BY <1>3, <1>4 DEF Hear, HearLag, sendVars, dvars
<1>5. ASSUME NEW i \in Ids, SendToId(i) PROVE MapInv'
  <2>1. Pick(i, {d \in Devices : Id[d] = i}) /\ peers[i] # NoPeer
    BY <1>5 DEF SendToId, Pick
  <2>2. peers[i].dev \in Devices /\ Id[peers[i].dev] = i
    BY <2>1 DEF MapInv, EntriesOwned, DTypeOK, Info
  <2> QED BY <2>1, <2>2, PickStep
<1>6. ASSUME NEW words, SendToNamed(words) PROVE MapInv'
  <2>1. PICK i \in Ids :
          /\ peers[i] # NoPeer
          /\ Fits(peers[i].dev, words)
          /\ Pick(i, {d \in Devices : Fits(d, words)})
    BY <1>6 DEF SendToNamed
  <2>2. peers[i].dev \in Devices
    BY <2>1 DEF DTypeOK, Info
  <2> QED BY <2>1, <2>2, PickStep
<1> QED BY <1>1, <1>2, <1>4, <1>5, <1>6, ResolvedStep, RemovedStep, ConnectStep DEF DNext, Browse

LEMMA MapInvariant == DSpec => []MapInv
BY MapInit, MapStep, DTypeCorrect, PTL DEF DSpec

\* A device that is announced, and about which nothing is still to be reported, is in
\* the map under its latest address, for every naming of the devices: a removal takes
\* its entry only when its host name is part of the name of the device removed.
THEOREM AnnouncedAlwaysListed == DSpec => []AnnouncedListed
BY MapInvariant, PTL DEF MapInv

\* A send whose peer stayed where the map said until the connection was made reached a
\* device that was asked for, by its id or by words of its host name or id.
THEOREM SendsReachNamed == DSpec => []SendReachesNamed
BY MapInvariant, PTL DEF MapInv
---------------------------------------------------------------------------
(* What the logger knows *)

\* Known, of any channel b and any knowledge t to start from.
KnownIn(b, t, i, k) ==
  LET about == {j \in 1 .. k : b[j].id = i}
  IN  IF about = {} THEN t[i] ELSE b[Max(about)].info

\* Event j is the last about i among the first k.
LastOf(b, i, k, j) == b[j].id = i /\ \A m \in 1 .. k : m > j => b[m].id # i

\* x is what is known of i after k events: what the last about it says.
Says(b, t, i, k, x) ==
  \/ x = t[i] /\ \A j \in 1 .. k : b[j].id # i
  \/ \E j \in 1 .. k : LastOf(b, i, k, j) /\ x = b[j].info

\* A set of positions has a last one.
LEMMA LastPosition ==
  ASSUME NEW k \in Nat, NEW S \in SUBSET (1 .. k), S # {}
  PROVE  Max(S) \in S /\ \A y \in S : Max(S) >= y
<1> DEFINE B == {k - y : y \in S}
           R == OpToRel(<, Nat)
<1>1. B # {} /\ B \subseteq Nat
  <2>1. \A y \in S : k - y \in Nat
    OBVIOUS
  <2>2. PICK y \in S : TRUE
    OBVIOUS
  <2>3. k - y \in B
    OBVIOUS
  <2> QED BY <2>1, <2>3
<1>2. IsWellFoundedOn(R, Nat)
  BY NatLessThanWellFounded, Zenon
<1>3. PICK x \in B : \A y \in B : ~(<<y, x>> \in R)
  <2> HIDE DEF R, B
  <2> QED BY <1>1, <1>2, WFMin, Zenon
<1>4. \A y \in B : ~(y < x)
  BY <1>1, <1>3 DEF OpToRel
<1>5. PICK m \in S : x = k - m
  OBVIOUS
<1>6. \A y \in S : m >= y
  BY <1>4, <1>5
<1> QED BY <1>5, <1>6 DEF Max

\* What is known is what the last event says ...
LEMMA KnownSays ==
  ASSUME NEW b, NEW t, NEW i, NEW k \in Nat
  PROVE  Says(b, t, i, k, KnownIn(b, t, i, k))
<1> DEFINE about == {j \in 1 .. k : b[j].id = i}
<1>1. CASE about = {}
  BY <1>1 DEF KnownIn, Says
<1>2. CASE about # {}
  <2>1. KnownIn(b, t, i, k) = b[Max(about)].info
    BY <1>2 DEF KnownIn
  <2>2. Max(about) \in about /\ \A y \in about : Max(about) >= y
    <3>1. about \in SUBSET (1 .. k)
      OBVIOUS
    <3> HIDE DEF about
    <3> QED BY <1>2, <3>1, LastPosition
  <2> DEFINE j == Max(about)
  <2> HIDE DEF j
  <2>3. j \in 1 .. k /\ b[j].id = i /\ \A m \in 1 .. k : b[m].id = i => j >= m
    BY <2>2 DEF j
  <2>4. LastOf(b, i, k, j)
    BY <2>3 DEF LastOf
  <2> QED BY <2>1, <2>3, <2>4 DEF Says, j
<1> QED BY <1>1, <1>2

\* ... and nothing else.
LEMMA SaysOne ==
  ASSUME NEW b, NEW t, NEW i, NEW k \in Nat, NEW x, NEW y,
         Says(b, t, i, k, x), Says(b, t, i, k, y)
  PROVE  x = y
BY DEF Says, LastOf

\* An event sent tells of its peer, and leaves what was known before it.
LEMMA KnownSent ==
  ASSUME NEW b \in Seq(Event), NEW e \in Event, NEW t, NEW i
  PROVE  /\ \A k \in 0 .. Len(b) : KnownIn(Append(b, e), t, i, k) = KnownIn(b, t, i, k)
         /\ KnownIn(Append(b, e), t, i, Len(b) + 1) =
              IF e.id = i THEN e.info ELSE KnownIn(b, t, i, Len(b))
<1> DEFINE c == Append(b, e)
           n == Len(b)
<1>1. n \in Nat /\ c[n + 1] = e /\ \A j \in 1 .. n : c[j] = b[j]
  OBVIOUS
<1> HIDE DEF c, n
<1>2. ASSUME NEW k \in 0 .. n PROVE KnownIn(c, t, i, k) = KnownIn(b, t, i, k)
  <2>1. k \in Nat /\ \A j \in 1 .. k : c[j] = b[j]
    BY <1>1
  <2>2. Says(b, t, i, k, KnownIn(b, t, i, k))
    BY <2>1, KnownSays
  <2>3. Says(c, t, i, k, KnownIn(b, t, i, k))
    BY <2>1, <2>2 DEF Says, LastOf
  <2> QED BY <2>1, <2>3, KnownSays, SaysOne
<1>3. CASE e.id = i
  <2>1. Says(c, t, i, n + 1, e.info)
    BY <1>1, <1>3 DEF Says, LastOf
  <2>2. KnownIn(c, t, i, n + 1) = e.info
    BY <1>1, <2>1, KnownSays, SaysOne
  <2> QED BY <1>2, <1>3, <2>2 DEF c, n
<1>4. CASE e.id # i
  <2>1. Says(b, t, i, n, KnownIn(b, t, i, n))
    BY <1>1, KnownSays
  <2>2. \A j \in 1 .. n + 1 : c[j].id = i => j \in 1 .. n /\ b[j].id = i
    BY <1>1, <1>4
  <2>3. Says(c, t, i, n + 1, KnownIn(b, t, i, n))
    BY <1>1, <2>1, <2>2 DEF Says, LastOf
  <2>4. KnownIn(c, t, i, n + 1) = KnownIn(b, t, i, n)
    BY <1>1, <2>3, KnownSays, SaysOne
  <2> QED BY <1>2, <1>4, <2>4 DEF c, n
<1> QED BY <1>3, <1>4

\* The event heard moves from the channel into the knowledge.
LEMMA KnownHeard ==
  ASSUME NEW b \in Seq(Event), b # <<>>, NEW t \in [Ids -> Info \cup {NoPeer}], NEW i \in Ids,
         NEW k \in 0 .. Len(b) - 1
  PROVE  KnownIn(Tail(b), [t EXCEPT ![Head(b).id] = Head(b).info], i, k) = KnownIn(b, t, i, k + 1)
<1> DEFINE c == Tail(b)
           u == [t EXCEPT ![Head(b).id] = Head(b).info]
<1>1. /\ k \in Nat /\ \A j \in 1 .. k : c[j] = b[j + 1]
      /\ Head(b) = b[1] /\ b[1] \in Event
  OBVIOUS
<1>2. u[i] = IF b[1].id = i THEN b[1].info ELSE t[i]
  BY <1>1
<1> HIDE DEF c, u
<1>3. Says(b, t, i, k + 1, KnownIn(b, t, i, k + 1))
  BY <1>1, KnownSays
<1> DEFINE x == KnownIn(b, t, i, k + 1)
<1> HIDE DEF x
<1>4. \A j \in 1 .. k + 1 : j = 1 \/ (j - 1 \in 1 .. k /\ c[j - 1] = b[j])
  BY <1>1
<1>5. ASSUME x = t[i], \A j \in 1 .. k + 1 : b[j].id # i
      PROVE  Says(c, u, i, k, x)
  <2>1. x = u[i] /\ \A j \in 1 .. k : c[j].id # i
    BY <1>1, <1>2, <1>5
  <2> QED BY <2>1 DEF Says
<1>6. ASSUME NEW j \in 1 .. k + 1, LastOf(b, i, k + 1, j), x = b[j].info
      PROVE  Says(c, u, i, k, x)
  <2>1. CASE j = 1
    <3>1. x = u[i] /\ \A m \in 1 .. k : c[m].id # i
      BY <1>1, <1>2, <1>6, <2>1 DEF LastOf
    <3> QED BY <3>1 DEF Says
  <2>2. CASE j # 1
    <3>1. j - 1 \in 1 .. k /\ c[j - 1] = b[j]
      BY <1>4, <2>2
    <3>2. \A m \in 1 .. k : m > j - 1 => c[m].id # i
      BY <1>1, <1>6 DEF LastOf
    <3>3. LastOf(c, i, k, j - 1) /\ x = c[j - 1].info
      BY <1>6, <3>1, <3>2 DEF LastOf
    <3> QED BY <3>1, <3>3 DEF Says
  <2> QED BY <2>1, <2>2
<1>7. Says(b, t, i, k + 1, x)
  BY <1>3 DEF x
<1>8. Says(c, u, i, k, x)
  BY <1>5, <1>6, <1>7 DEF Says
<1>9. KnownIn(c, u, i, k) = x
  BY <1>1, <1>8, KnownSays, SaysOne
<1> QED BY <1>9 DEF c, u, x

\* Known is KnownIn of the channel and the knowledge, before and after a step.
LEMMA KnownBoth ==
  /\ \A i, k : Known(i, k) = KnownIn(bus, told, i, k)
  /\ \A i, k : Known(i, k)' = KnownIn(bus', told', i, k)
BY DEF Known, KnownIn

---------------------------------------------------------------------------
(* The events of the channel lead to the map *)

\* EventsReplay of any channel, knowledge and map.
Replays(b, t, p) ==
  /\ \A i \in Ids : KnownIn(b, t, i, Len(b)) = p[i]
  /\ \A k \in DOMAIN b : b[k].kind = "discovered" <=> KnownIn(b, t, b[k].id, k - 1) = NoPeer

LEMMA ReplaysBoth ==
  /\ EventsReplay <=> (logger /\ ~lagged => Replays(bus, told, peers))
  /\ EventsReplay' <=> (logger' /\ ~lagged' => Replays(bus', told', peers'))
BY KnownBoth DEF EventsReplay, Replays

\* An event that tells what changed, with the kind that fits what the map had.
LEMMA ReplaysSent ==
  ASSUME NEW b \in Seq(Event), NEW t, NEW p \in [Ids -> Info \cup {NoPeer}],
         NEW e \in Event, Replays(b, t, p), e.kind = "discovered" <=> p[e.id] = NoPeer
  PROVE  Replays(Append(b, e), t, [p EXCEPT ![e.id] = e.info])
<1> DEFINE c == Append(b, e)
           n == Len(b)
           o == [p EXCEPT ![e.id] = e.info]
<1>1. /\ n \in Nat /\ Len(c) = n + 1 /\ DOMAIN c = 1 .. n + 1 /\ DOMAIN b = 1 .. n
      /\ c[n + 1] = e /\ \A j \in 1 .. n : c[j] = b[j] /\ b[j] \in Event
  OBVIOUS
<1>2. e.id \in Ids /\ \A i \in Ids : o[i] = IF e.id = i THEN e.info ELSE p[i]
  BY DEF Event
<1>3. \A i : /\ \A k \in 0 .. n : KnownIn(c, t, i, k) = KnownIn(b, t, i, k)
             /\ KnownIn(c, t, i, n + 1) = IF e.id = i THEN e.info ELSE KnownIn(b, t, i, n)
  BY KnownSent
<1> HIDE DEF c, n, o
<1>4. \A i \in Ids : KnownIn(b, t, i, n) = p[i]
  BY DEF Replays, n
<1>5. \A i \in Ids : KnownIn(c, t, i, Len(c)) = o[i]
  BY <1>1, <1>2, <1>3, <1>4
<1>6. ASSUME NEW k \in 1 .. n + 1
      PROVE  c[k].kind = "discovered" <=> KnownIn(c, t, c[k].id, k - 1) = NoPeer
  <2>1. k - 1 \in 0 .. n
    BY <1>1
  <2>2. CASE k = n + 1
    <3>1. c[k] = e /\ KnownIn(c, t, e.id, k - 1) = p[e.id]
      BY <1>1, <1>2, <1>3, <1>4, <2>1, <2>2
    <3> QED BY <3>1
  <2>3. CASE k \in 1 .. n
    <3>1. c[k] = b[k] /\ KnownIn(c, t, b[k].id, k - 1) = KnownIn(b, t, b[k].id, k - 1)
      BY <1>1, <1>3, <2>1, <2>3
    <3> QED BY <1>1, <2>3, <3>1 DEF Replays
  <2> QED BY <1>1, <2>2, <2>3
<1>7. Replays(c, t, o)
  BY <1>1, <1>5, <1>6 DEF Replays
<1> QED BY <1>7 DEF c, o

\* The event is heard.
LEMMA ReplaysHeard ==
  ASSUME NEW b \in Seq(Event), b # <<>>, NEW t \in [Ids -> Info \cup {NoPeer}], NEW p,
         Replays(b, t, p)
  PROVE  Replays(Tail(b), [t EXCEPT ![Head(b).id] = Head(b).info], p)
<1> DEFINE c == Tail(b)
           n == Len(b)
           u == [t EXCEPT ![Head(b).id] = Head(b).info]
<1>1. /\ n \in Nat \ {0} /\ Len(c) = n - 1 /\ DOMAIN c = 1 .. n - 1 /\ DOMAIN b = 1 .. n
      /\ \A j \in 1 .. n - 1 : c[j] = b[j + 1] /\ b[j + 1] \in Event
  OBVIOUS
<1>2. \A i \in Ids : \A k \in 0 .. n - 1 : KnownIn(c, u, i, k) = KnownIn(b, t, i, k + 1)
  BY KnownHeard
<1> HIDE DEF c, n, u
<1>3. \A i \in Ids : KnownIn(c, u, i, Len(c)) = p[i]
  <2>1. n - 1 \in 0 .. n - 1 /\ (n - 1) + 1 = n
    BY <1>1
  <2> QED BY <1>1, <1>2, <2>1 DEF Replays, n
<1>4. ASSUME NEW k \in 1 .. n - 1
      PROVE  c[k].kind = "discovered" <=> KnownIn(c, u, c[k].id, k - 1) = NoPeer
  <2>1. k - 1 \in 0 .. n - 1 /\ (k - 1) + 1 = k /\ k + 1 \in 1 .. n /\ (k + 1) - 1 = k
    BY <1>1
  <2>2. c[k] = b[k + 1] /\ c[k].id \in Ids
    BY <1>1 DEF Event
  <2>3. KnownIn(c, u, c[k].id, k - 1) = KnownIn(b, t, b[k + 1].id, k)
    BY <1>2, <2>1, <2>2
  <2>4. b[k + 1].kind = "discovered" <=> KnownIn(b, t, b[k + 1].id, k) = NoPeer
    BY <1>1, <2>1 DEF Replays
  <2> QED BY <2>2, <2>3, <2>4
<1>5. Replays(c, u, p)
  BY <1>1, <1>3, <1>4 DEF Replays
<1> QED BY <1>5 DEF c, u

LEMMA ReplayInit == DInit => EventsReplay
<1> SUFFICES ASSUME DInit PROVE Replays(bus, told, peers)
  BY ReplaysBoth
<1>1. bus = <<>> /\ \A i \in Ids : told[i] = NoPeer /\ peers[i] = NoPeer
  BY DEF DInit
<1>2. \A i \in Ids : Says(bus, told, i, 0, NoPeer)
  BY <1>1 DEF Says
<1>3. \A i \in Ids : KnownIn(bus, told, i, 0) = NoPeer
  BY <1>2, KnownSays, SaysOne
<1> QED BY <1>1, <1>3 DEF Replays

\* A change of the map and the event of it.
LEMMA ReplaySend ==
  ASSUME DTypeOK, EventsReplay, NEW e \in Event, Send(e),
         e.kind = "discovered" <=> peers[e.id] = NoPeer,
         peers' = [peers EXCEPT ![e.id] = e.info], UNCHANGED <<logger, told>>
  PROVE  EventsReplay'
<1>1. SUFFICES ASSUME logger, ~lagged' PROVE Replays(bus', told, peers')
  BY ReplaysBoth
<1>2. bus' = Append(bus, e) /\ lagged' = lagged
  BY <1>1 DEF Send
<1>3. Replays(bus, told, peers)
  BY <1>1, <1>2, ReplaysBoth
<1> QED BY <1>2, <1>3, ReplaysSent DEF DTypeOK

LEMMA ReplayStep == DTypeOK /\ EventsReplay /\ [DNext]_dvars => EventsReplay'
<1> SUFFICES ASSUME DTypeOK, EventsReplay, [DNext]_dvars PROVE EventsReplay'
  OBVIOUS
<1>1. CASE UNCHANGED <<peers, bus, lagged, logger, told>>
  BY <1>1, ReplaysBoth
<1>2. CASE Resolved
  <2> DEFINE r == Head(reports)
             info == [dev |-> r.dev, addr |-> r.addr]
             e == [kind |-> IF peers[Id[r.dev]] = NoPeer THEN "discovered" ELSE "updated",
                   id |-> Id[r.dev], info |-> info]
  <2>1. UNCHANGED <<logger, told>> /\ r \in Report
    BY <1>2 DEF Resolved, DTypeOK
  <2>2. CASE Skips(r)
    BY <1>1, <1>2, <2>1, <2>2 DEF Resolved
  <2>3. CASE ~Skips(r)
    <3>1. peers' = [peers EXCEPT ![Id[r.dev]] = info] /\ Send(e)
      BY <1>2, <2>3 DEF Resolved
    <3>2. r.dev \in Devices /\ r.addr \in Addrs
      BY <2>1, <2>3 DEF Report, Skips
    <3>3. e \in Event /\ (e.kind = "discovered" <=> peers[e.id] = NoPeer)
      BY <3>2, RecordTypes
    <3>4. e.id = Id[r.dev] /\ e.info = info
      OBVIOUS
    <3> HIDE DEF e, info
    <3>5. peers' = [peers EXCEPT ![e.id] = e.info]
      BY <3>1, <3>4
    <3> QED BY <2>1, <3>1, <3>3, <3>5, ReplaySend
  <2> QED BY <2>2, <2>3
<1>3. CASE Removed
  <2>1. UNCHANGED <<logger, told>>
    BY <1>3 DEF Removed
  <2>2. CASE UNCHANGED <<peers, bus, lagged>>
    BY <1>1, <2>1, <2>2
  <2>3. ASSUME NEW i \in Ids, peers[i] # NoPeer, peers' = [peers EXCEPT ![i] = NoPeer],
               Send([kind |-> "lost", id |-> i, info |-> NoPeer])
        PROVE  EventsReplay'
    <3> DEFINE e == [kind |-> "lost", id |-> i, info |-> NoPeer]
    <3>1. e \in Event /\ e.kind = "lost" /\ e.id = i /\ e.info = NoPeer /\ Send(e)
      BY <2>3, RecordTypes
    <3> HIDE DEF e
    <3>2. peers' = [peers EXCEPT ![e.id] = e.info]
      BY <2>3, <3>1
    <3> QED BY <2>1, <2>3, <3>1, <3>2, ReplaySend
  <2> QED BY <1>3, <2>2, <2>3 DEF Removed, Matching
<1>4. CASE Hear
  <2>1. /\ logger /\ ~lagged /\ bus # <<>> /\ bus' = Tail(bus)
        /\ told' = [told EXCEPT ![Head(bus).id] = Head(bus).info] /\ UNCHANGED peers
    BY <1>4 DEF Hear
  <2>2. Replays(bus, told, peers)
    BY <2>1, ReplaysBoth
  <2>3. Replays(bus', told', peers')
    BY <2>1, <2>2, ReplaysHeard DEF DTypeOK
  <2> QED BY <2>3, ReplaysBoth
<1>5. CASE HearLag
  BY <1>5, ReplaysBoth DEF HearLag
<1>6. ASSUME NEW i, NEW w, Pick(i, w) PROVE EventsReplay'
  BY <1>1, <1>6 DEF Pick
<1>7. CASE Connect \/ UNCHANGED dvars
  BY <1>1, <1>7 DEF Connect, dvars
<1>8. ASSUME NEW d, NEW a, Announce(d, a) \/ Withdraw(d) PROVE EventsReplay'
  BY <1>1, <1>8 DEF Announce, Withdraw
<1> QED BY <1>2, <1>3, <1>4, <1>5, <1>6, <1>7, <1>8 DEF DNext, Browse, SendToId, SendToNamed

\* Until the logger misses an event, the events in the channel lead, in order, from what it
\* knows to the map of peers, each of the kind that fits, for every capacity and every
\* interleaving of the task and the logger.
THEOREM EventsAlwaysReplay == DSpec => []EventsReplay
BY ReplayInit, ReplayStep, DTypeCorrect, PTL DEF DSpec
=============================================================================
