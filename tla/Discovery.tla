----------------------------- MODULE Discovery -----------------------------
(***************************************************************************)
(* The mDNS browser of one process (justdrop-discovery): devices announce  *)
(* and withdraw their service, the mDNS daemon reports that to the         *)
(* browsing task one event at a time, the task keeps the map of peers and  *)
(* sends an event for each change, and the daemon's logger receives them   *)
(* from a broadcast channel that holds only the last few.  A send picks a  *)
(* peer of the map, prepares its files, and only then connects to the      *)
(* address it picked.                                                      *)
(*                                                                         *)
(* A device name is a sequence of words and separators; host name and full *)
(* name are made of it the way the registrar and mDNS make them, because   *)
(* the browser looks for the one in the other.                             *)
(***************************************************************************)
EXTENDS Naturals, Sequences, FiniteSetsExt

CONSTANTS
  Devices,     \* devices that may announce the service, this one included
  Self,        \* this device
  KnowsSelf,   \* set_self_fingerprint was called (the C ABI does, the daemon does not)
  Name,        \* Name[d]: device_name, as a sequence of tokens
  Plain,       \* tokens that are letters and digits only
  Id,          \* Id[d]: start of the fingerprint in the TXT record, zeroes without one,
               \* as a sequence of tokens
  Asked,       \* words given to the command line's send: of a host name, or of an id
  Addrs,       \* socket addresses, each of one device at a time
  NoAddr,      \* a service without an IPv4 address
  NoPeer,      \* no entry in the map
  Capacity,    \* events the broadcast channel holds (64)
  MaxChanges   \* bound on announcements and withdrawals

Ids == {Id[d] : d \in Devices}
Info == [dev : Devices, addr : Addrs]

ASSUME DiscoveryAssumption ==
  /\ Self \in Devices
  /\ KnowsSelf \in BOOLEAN
  /\ NoAddr \notin Addrs
  /\ NoPeer \notin Info \cup Addrs \cup {NoAddr}
  /\ Capacity \in Nat \ {0}
  /\ MaxChanges \in Nat

\* get_hostname without the last dot: the name with every other character
\* replaced by a dash, in the domain local.
HostName(d) ==
  [k \in DOMAIN Name[d] |-> IF Name[d][k] \in Plain THEN Name[d][k] ELSE "-"] \o <<".", "local">>

\* The full name of the service: the name as it is, and the service type.
FullName(d) == Name[d] \o <<".", "_justdrop", ".", "_tcp", ".", "local", ".">>

\* fullname.contains(&info.name)
HasPart(full, host) ==
  \E k \in 0 .. Len(full) - Len(host) : SubSeq(full, k + 1, k + Len(host)) = host

VARIABLES
  service,   \* service[d]: address under which d is announced, NoPeer if it is not
  reports,   \* what the mDNS daemon has still to tell the browsing task
  peers,     \* the map of peers
  bus,       \* events in the broadcast channel that the logger has not received
  lagged,    \* the channel has dropped an event the logger had not received
  logger,    \* the logger runs
  told,      \* the map of peers as the logger knows it (history)
  aim,       \* the send under way: the devices asked for, the peer picked, and whether
             \* what the map said of it was and still is the truth (history)
  reached,   \* the same of the send that last got a connection, and to which device
  changes    \* announcements and withdrawals so far

sendVars == <<aim, reached>>
dvars == <<service, reports, peers, bus, lagged, logger, told, aim, reached, changes>>

DInit ==
  /\ service = [d \in Devices |-> NoPeer]
  /\ reports = <<>>
  /\ peers = [i \in Ids |-> NoPeer]
  /\ bus = <<>>
  /\ lagged = FALSE
  /\ logger = TRUE
  /\ told = [i \in Ids |-> NoPeer]
  /\ aim = NoPeer
  /\ reached = NoPeer
  /\ changes = 0

---------------------------------------------------------------------------
(* The network *)

\* What a send picked of device d is no longer true.
Outdate(d) ==
  /\ aim' = IF aim # NoPeer /\ aim.info.dev = d THEN [aim EXCEPT !.sound = FALSE] ELSE aim
  /\ UNCHANGED reached

\* register: a device announces its service, or announces it anew from another
\* address (or, for a moment, from none).
Announce(d, a) ==
  /\ changes < MaxChanges
  /\ service[d] # a
  /\ a \in Addrs => \A e \in Devices : service[e] # a
  /\ service' = [service EXCEPT ![d] = a]
  /\ reports' = Append(reports, [kind |-> "resolved", dev |-> d, addr |-> a])
  /\ changes' = changes + 1
  /\ Outdate(d)
  /\ UNCHANGED <<peers, bus, lagged, logger, told>>

\* unregister, or the announcement expires.
Withdraw(d) ==
  /\ changes < MaxChanges
  /\ service[d] # NoPeer
  /\ service' = [service EXCEPT ![d] = NoPeer]
  /\ reports' = Append(reports, [kind |-> "removed", dev |-> d, addr |-> NoAddr])
  /\ changes' = changes + 1
  /\ Outdate(d)
  /\ UNCHANGED <<peers, bus, lagged, logger, told>>

---------------------------------------------------------------------------
(* The browsing task: handle_event under the write lock of the map *)

\* Mutant: a channel without a bound.
Send_unbounded(e) == bus' = (IF logger THEN Append(bus, e) ELSE bus) /\ UNCHANGED lagged

\* broadcast::Sender::send: a full channel drops its oldest event.
Send(e) ==
  IF ~logger THEN UNCHANGED <<bus, lagged>>
  ELSE IF Len(bus) < Capacity THEN bus' = Append(bus, e) /\ UNCHANGED lagged
  ELSE bus' = Append(Tail(bus), e) /\ lagged' = TRUE

\* Services without an IPv4 address, and this device itself, are skipped.
Skips(r) == r.addr = NoAddr \/ (KnowsSelf /\ Id[r.dev] = Id[Self])

\* Mutant: the first report of a device stays.
Resolved_first_wins ==
  /\ reports # <<>> /\ Head(reports).kind = "resolved"
  /\ reports' = Tail(reports)
  /\ LET r == Head(reports)  i == Id[r.dev]  info == [dev |-> r.dev, addr |-> r.addr]
     IN  IF Skips(r) \/ peers[i] # NoPeer THEN UNCHANGED <<peers, bus, lagged>>
         ELSE peers' = [peers EXCEPT ![i] = info]
              /\ Send([kind |-> "discovered", id |-> i, info |-> info])
  /\ UNCHANGED <<service, logger, told, sendVars, changes>>

\* ServiceResolved: the peer goes into the map, over what was there.
Resolved ==
  /\ reports # <<>> /\ Head(reports).kind = "resolved"
  /\ reports' = Tail(reports)
  /\ LET r == Head(reports)  i == Id[r.dev]  info == [dev |-> r.dev, addr |-> r.addr]
     IN  IF Skips(r) THEN UNCHANGED <<peers, bus, lagged>>
         ELSE /\ peers' = [peers EXCEPT ![i] = info]
              /\ Send([kind |-> IF peers[i] = NoPeer THEN "discovered" ELSE "updated",
                       id |-> i, info |-> info])
  /\ UNCHANGED <<service, logger, told, sendVars, changes>>

\* Entries whose host name is part of the full name of a service.
Matching(d) == {i \in Ids : peers[i] # NoPeer /\ HasPart(FullName(d), HostName(peers[i].dev))}

\* Mutant: the loss is not sent.
Removed_silent ==
  /\ reports # <<>> /\ Head(reports).kind = "removed"
  /\ reports' = Tail(reports)
  /\ \/ /\ Matching(Head(reports).dev) = {}
        /\ UNCHANGED peers
     \/ \E i \in Matching(Head(reports).dev) : peers' = [peers EXCEPT ![i] = NoPeer]
  /\ UNCHANGED <<service, bus, lagged, logger, told, sendVars, changes>>

\* ServiceRemoved: the first match in the order of the hash map goes.
Removed ==
  /\ reports # <<>> /\ Head(reports).kind = "removed"
  /\ reports' = Tail(reports)
  /\ \/ /\ Matching(Head(reports).dev) = {}
        /\ UNCHANGED <<peers, bus, lagged>>
     \/ \E i \in Matching(Head(reports).dev) :
          /\ peers' = [peers EXCEPT ![i] = NoPeer]
          /\ Send([kind |-> "lost", id |-> i, info |-> NoPeer])
  /\ UNCHANGED <<service, logger, told, sendVars, changes>>

---------------------------------------------------------------------------
(* The daemon's logger *)

\* recv gives the next event ...
Hear ==
  /\ logger /\ bus # <<>> /\ ~lagged
  /\ told' = [told EXCEPT ![Head(bus).id] = Head(bus).info]
  /\ bus' = Tail(bus)
  /\ UNCHANGED <<service, reports, peers, lagged, logger, sendVars, changes>>

\* ... or the error that events were missed, at which the loop ends.
HearLag ==
  /\ logger /\ lagged
  /\ logger' = FALSE
  /\ bus' = <<>>
  /\ lagged' = FALSE
  /\ UNCHANGED <<service, reports, peers, told, sendVars, changes>>

---------------------------------------------------------------------------
(* Sending to a peer of the map *)

Pending(d) == \E k \in DOMAIN reports : reports[k].dev = d

\* The peer is cloned out of the map: its address is the one the send will use.
Pick(i, wanted) ==
  /\ aim = NoPeer
  /\ peers[i] # NoPeer
  /\ LET d == peers[i].dev
     IN  aim' = [wanted |-> wanted, info |-> peers[i],
                 sound |-> service[d] \in Addrs /\ ~Pending(d)]
  /\ UNCHANGED <<service, reports, peers, bus, lagged, logger, told, reached, changes>>

\* justdrop_send_files of the C ABI: the peer of that id, an error without one.
SendToId(i) == Pick(i, {d \in Devices : Id[d] = i})

\* p.name.contains(peer_name) || p.id.contains(peer_name): the name of a peer is the
\* host name it was resolved with.
Fits(d, words) == HasPart(HostName(d), words) \/ HasPart(Id[d], words)

\* run_send of the command line: the first peer, in the order of the hash map, that
\* fits the words given.
SendToNamed(words) ==
  \E i \in Ids :
    /\ peers[i] # NoPeer
    /\ Fits(peers[i].dev, words)
    /\ Pick(i, {d \in Devices : Fits(d, words)})

\* The files are hashed, and connect goes to the address picked: whoever has it now
\* answers, or nobody does in time.
Connect ==
  /\ aim # NoPeer
  /\ aim' = NoPeer
  /\ \/ UNCHANGED reached
     \/ \E d \in Devices :
          /\ service[d] = aim.info.addr
          /\ reached' = [dev |-> d, wanted |-> aim.wanted, sound |-> aim.sound]
  /\ UNCHANGED <<service, reports, peers, bus, lagged, logger, told, changes>>

Browse == Resolved \/ Removed

DNext ==
  \/ \E d \in Devices, a \in Addrs \cup {NoAddr} : Announce(d, a)
  \/ \E d \in Devices : Withdraw(d)
  \/ Browse
  \/ Hear \/ HearLag
  \/ \E i \in Ids : SendToId(i)
  \/ \E words \in Asked : SendToNamed(words)
  \/ Connect

DSpec == DInit /\ [][DNext]_dvars

---------------------------------------------------------------------------
(* Properties *)

Event == [kind : {"discovered", "updated", "lost"}, id : Ids, info : Info \cup {NoPeer}]
Report == [kind : {"resolved", "removed"}, dev : Devices, addr : Addrs \cup {NoAddr}]

DTypeOK ==
  /\ service \in [Devices -> Addrs \cup {NoAddr, NoPeer}]
  /\ reports \in Seq(Report)
  /\ peers \in [Ids -> Info \cup {NoPeer}]
  /\ bus \in Seq(Event) /\ Len(bus) <= Capacity
  /\ lagged \in BOOLEAN /\ logger \in BOOLEAN
  /\ told \in [Ids -> Info \cup {NoPeer}]
  /\ aim \in {NoPeer} \cup [wanted : SUBSET Devices, info : Info, sound : BOOLEAN]
  /\ reached \in {NoPeer} \cup [dev : Devices, wanted : SUBSET Devices, sound : BOOLEAN]
  /\ changes \in 0 .. MaxChanges

\* What the logger knows of i when it has received the first k events of the channel.
Known(i, k) ==
  LET about == {j \in 1 .. k : bus[j].id = i}
  IN  IF about = {} THEN told[i] ELSE bus[Max(about)].info

\* The events in the channel lead from what the logger knows to the map of peers,
\* in order: they are sent under the lock under which the map changes.  Only who is
\* not in the map is discovered, only who is in it is updated or lost.
EventsReplay ==
  logger /\ ~lagged =>
    /\ \A i \in Ids : Known(i, Len(bus)) = peers[i]
    /\ \A k \in DOMAIN bus : bus[k].kind = "discovered" <=> Known(bus[k].id, k - 1) = NoPeer

\* With an id of its own, not filtered out, and with a host name that is no part of the full
\* name of another device.
Listable(d) ==
  /\ KnowsSelf => Id[d] # Id[Self]
  /\ \A e \in Devices \ {d} : Id[e] # Id[d] /\ ~HasPart(FullName(e), HostName(d))

\* A device that is announced, and about which nothing is still to be reported, is
\* in the map under its latest address, whatever came before and whatever else
\* is removed.
AnnouncedListed ==
  \A d \in Devices :
    Listable(d) /\ service[d] \in Addrs /\ ~Pending(d) =>
      peers[Id[d]] = [dev |-> d, addr |-> service[d]]

\* A send gets through to a device that was asked for, by its id or by words of its host
\* name or id, when the device picked was announced, with nothing of it still to be reported, and stays where it was
\* until the files are ready.
SendReachesNamed ==
  reached # NoPeer /\ reached.sound => reached.dev \in reached.wanted

\* The same of a device that has moved or gone since: its address may be another's by
\* the time the files are hashed.
SendNeverStrays == reached # NoPeer => reached.dev \in reached.wanted

\* A known peer that has gone offline leaves the map.
GoneForgotten ==
  \A d \in Devices :
    service[d] = NoPeer /\ ~Pending(d) => peers[Id[d]] = NoPeer
===========================================================================
