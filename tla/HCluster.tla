------------------------------- MODULE HCluster -------------------------------
(***************************************************************************)
(* Samples/HierarchicalClustering/hcluster.c: clusters of clusters.        *)
(*                                                                         *)
(* The sink announces itself at level 0 with hop count cluster_depth.  A   *)
(* mote collects announcements for 20 s and adopts the closest; when the   *)
(* hop count it adopts is cluster_depth it becomes a cluster head itself,  *)
(* one level further down.  After a delay of its own it announces itself   *)
(* and starts to read its sensors.  Readings climb from head to head: by   *)
(* reliable unicast where best_hop is 0, over the mesh elsewhere.          *)
(*                                                                         *)
(* Handlers are atomic and timers untimed, as in TreeSetup.                *)
(***************************************************************************)
EXTENDS Naturals, Sequences, FiniteSets

CONSTANTS
  Node,               \* the motes
  Sink,               \* conn->sink, address 1.0
  rimeaddr_null,      \* the address of no mote
  Link,               \* <<n, m>> \in Link: m can hear n
  UINT_MAX,           \* largest hop count and level an unsigned int holds
  cluster_depth,      \* hops a cluster extends from its head
  MAX_RUNICAST_RETX,  \* transmissions the reliable unicast makes of a packet
  MaxReadings,        \* bound: readings the motes take together
  Idle                \* a reliable unicast channel with nothing to send

ASSUME HClusterAssumption ==
  /\ IsFiniteSet(Node)
  /\ Sink \in Node
  /\ rimeaddr_null \notin Node
  /\ Link \subseteq Node \X Node
  /\ UINT_MAX \in Nat /\ Cardinality(Node) <= UINT_MAX
  /\ cluster_depth \in 1 .. UINT_MAX - 1
  /\ MAX_RUNICAST_RETX \in Nat \ {0}
  /\ MaxReadings \in Nat

VARIABLES
  has_seen_setup,
  collecting_best,  \* collecting_best_CH, _level and _hop
  our_cluster_head, best_hop, our_level, is_CH,
  detect_ct,        \* motes whose 20 s detection timer is armed
  message_offset,   \* motes whose delay timer is armed
  setup_wait_ct,    \* the sink's initial 10 s timer is armed
  bc,               \* stubborn broadcasts being repeated
  sensing,          \* motes whose send_data_process runs
  taken,            \* readings taken so far
  mc,               \* packets in the mesh
  rc,               \* what the reliable unicast of each mote is sending
  reports,          \* what the recv callback of the sink was told
  refused,          \* readings runicast_send turned away
  lost              \* readings the radio or the mesh gave up on

adopted_vars == <<our_cluster_head, best_hop, our_level, is_CH>>

setup_vars ==
  <<has_seen_setup, collecting_best, adopted_vars, detect_ct, message_offset,
    setup_wait_ct, bc, sensing>>

data_vars == <<taken, mc, rc, reports, refused, lost>>

vars == <<setup_vars, data_vars>>

Counter == 0 .. UINT_MAX
Address == Node \cup {rimeaddr_null}
Candidate == [head : Address, level : Counter, hop : Counter]

\* setup_msg_t
SetupMsg == [source : Node, head : Address, head_level : Counter, hop_count : Counter]

(***************************************************************************)
(* The k-th reading of mote n is <<n, k>>; appended holds the addresses    *)
(* the code has written behind it in the packet.                           *)
(***************************************************************************)
Reading == Node \X (1 .. MaxReadings)
MeshPacket == [originator : Node, dst : Address, reading : Reading, appended : Seq(Node)]
Outgoing == [dst : Address, reading : Reading, appended : Seq(Node),
             transmissions : 1 .. MAX_RUNICAST_RETX]
Report == [reading : Reading, source : Node, left : Seq(Node)]

\* rc[n] = Idle tells a channel with nothing to send from one with a packet.
ASSUME IdleAssumption == Idle \notin Outgoing

SetupTypeOK ==
  /\ has_seen_setup \in [Node -> BOOLEAN]
  /\ collecting_best \in [Node -> Candidate]
  /\ our_cluster_head \in [Node -> Address]
  /\ best_hop \in [Node -> Counter]
  /\ our_level \in [Node -> Counter]
  /\ is_CH \in [Node -> BOOLEAN]
  /\ detect_ct \subseteq Node
  /\ message_offset \subseteq Node
  /\ setup_wait_ct \in BOOLEAN
  /\ bc \subseteq SetupMsg
  /\ sensing \subseteq Node

DataTypeOK ==
  /\ taken \subseteq Reading
  /\ mc \subseteq MeshPacket
  /\ rc \in [Node -> Outgoing \cup {Idle}]
  /\ reports \subseteq Report
  /\ refused \subseteq Reading
  /\ lost \subseteq Reading

TypeOK == SetupTypeOK /\ DataTypeOK

\* cluster_open on every mote.  our_level of the static conn starts at 0.
Init ==
  /\ has_seen_setup = [n \in Node |-> FALSE]
  /\ collecting_best =
       [n \in Node |-> [head |-> rimeaddr_null, level |-> UINT_MAX, hop |-> UINT_MAX]]
  /\ our_cluster_head = [n \in Node |-> rimeaddr_null]
  /\ best_hop = [n \in Node |-> UINT_MAX]
  /\ our_level = [n \in Node |-> 0]
  /\ is_CH = [n \in Node |-> FALSE]
  /\ detect_ct = {}
  /\ message_offset = {}
  /\ setup_wait_ct = TRUE
  /\ bc = {}
  /\ sensing = {}
  /\ taken = {}
  /\ mc = {}
  /\ rc = [n \in Node |-> Idle]
  /\ reports = {}
  /\ refused = {}
  /\ lost = {}

(***************************************************************************)
(* Set-up.                                                                 *)
(***************************************************************************)
Cancelled(n) == {m \in bc : m.source # n}

Stubborn(msg) == Cancelled(msg.source) \cup {msg}

OnAir(n) == \E m \in bc : m.source = n

\* CH_setup_wait_finished: the sink sends the first message.
CH_setup_wait_finished ==
  /\ setup_wait_ct
  /\ setup_wait_ct' = FALSE
  /\ bc' = Stubborn([source |-> Sink, head |-> Sink,
                     head_level |-> our_level[Sink], hop_count |-> cluster_depth])
  /\ UNCHANGED <<has_seen_setup, collecting_best, adopted_vars, detect_ct,
                 message_offset, sensing, data_vars>>

Offer(msg) == [head |-> msg.head, level |-> msg.head_level, hop |-> msg.hop_count]

Better(new, old) == new.hop < old.hop /\ new.level <= old.level

\* Mutant: has_seen_setup is tested after it was set, the timer is never armed.
HearSetup_Unarmed(n, msg) ==
  /\ <<msg.source, n>> \in Link
  /\ n # Sink
  /\ has_seen_setup' = [has_seen_setup EXCEPT ![n] = TRUE]
  /\ collecting_best' =
       [collecting_best EXCEPT ![n] =
          IF ~has_seen_setup[n] \/ Better(Offer(msg), @) THEN Offer(msg) ELSE @]
  /\ UNCHANGED <<adopted_vars, detect_ct, message_offset, setup_wait_ct, bc, sensing,
                 data_vars>>

\* recv_setup: the first message is taken as it is, a later one if it is better.
HearSetup(n, msg) ==
  /\ <<msg.source, n>> \in Link
  /\ n # Sink
  /\ has_seen_setup' = [has_seen_setup EXCEPT ![n] = TRUE]
  /\ detect_ct' = IF has_seen_setup[n] THEN detect_ct ELSE detect_ct \cup {n}
  /\ collecting_best' =
       [collecting_best EXCEPT ![n] =
          IF ~has_seen_setup[n] \/ Better(Offer(msg), @) THEN Offer(msg) ELSE @]
  /\ UNCHANGED <<adopted_vars, message_offset, setup_wait_ct, bc, sensing, data_vars>>

\* The level and the hop count of a mote that adopts the candidate best.
BecomesHead(best) == best.hop = cluster_depth

\* Mutant: a cluster head keeps the level of its own head.
NextLevel_Same(best) == best.level

NextLevel(best) ==
  IF BecomesHead(best) THEN (best.level + 1) % (UINT_MAX + 1) ELSE best.level

\* Mutant: every cluster head is taken to be a neighbour of its own head.
NextHop_AllHeads(best) == IF BecomesHead(best) THEN 0 ELSE best.hop

\* Mutant: the special case for the first layer is left out.
NextHop_NoSpecialCase(best) == best.hop

\* "Special case for first layer of CHs - always 1 hop from sink."
NextHop(best) == IF BecomesHead(best) /\ NextLevel(best) = 1 THEN 0 ELSE best.hop

\* CH_detect_finished.
CH_detect_finished(n) ==
  LET best == collecting_best[n] IN
  /\ n \in detect_ct
  /\ detect_ct' = detect_ct \ {n}
  /\ our_cluster_head' = [our_cluster_head EXCEPT ![n] = best.head]
  /\ is_CH' = [is_CH EXCEPT ![n] = BecomesHead(best)]
  /\ our_level' = [our_level EXCEPT ![n] = NextLevel(best)]
  /\ best_hop' = [best_hop EXCEPT ![n] = NextHop(best)]
  /\ message_offset' = message_offset \cup {n}
  /\ UNCHANGED <<has_seen_setup, collecting_best, setup_wait_ct, bc, sensing, data_vars>>

HeadOf(n) == IF is_CH[n] THEN n ELSE our_cluster_head[n]

\* Mutant: msg->source is left as memset cleared it.
Announcement_NoSource(n) ==
  [source     |-> rimeaddr_null,
   head       |-> HeadOf(n),
   head_level |-> our_level[n],
   hop_count  |-> IF is_CH[n] THEN 0 ELSE (best_hop[n] + 1) % (UINT_MAX + 1)]

\* Mutant: a cluster head does not restart the hop count.
Announcement_NoRestart(n) ==
  [source     |-> n,
   head       |-> HeadOf(n),
   head_level |-> our_level[n],
   hop_count  |-> (best_hop[n] + 1) % (UINT_MAX + 1)]

\* The message forward_setup sends for mote n.
Announcement(n) ==
  [source     |-> n,
   head       |-> HeadOf(n),
   head_level |-> our_level[n],
   hop_count  |-> IF is_CH[n] THEN 0 ELSE (best_hop[n] + 1) % (UINT_MAX + 1)]

\* forward_setup, when the delay is over: announce, and setup_complete.
ForwardSetup(n) ==
  /\ n \in message_offset
  /\ message_offset' = message_offset \ {n}
  /\ bc' = Stubborn(Announcement(n))
  /\ sensing' = sensing \cup {n}
  /\ UNCHANGED <<has_seen_setup, collecting_best, adopted_vars, detect_ct,
                 setup_wait_ct, data_vars>>

\* stbroadcast_cancel_void: STUBBORN_WAIT is over.
StbroadcastCancel(n) ==
  /\ OnAir(n)
  /\ bc' = Cancelled(n)
  /\ UNCHANGED <<has_seen_setup, collecting_best, adopted_vars, detect_ct,
                 message_offset, setup_wait_ct, sensing, data_vars>>

(***************************************************************************)
(* Data.  chan is the state of the runicast channels a handler finds.      *)
(* runicast_send does nothing on a channel with an unconfirmed packet, and *)
(* nobody looks at its result: the reading is gone.                        *)
(***************************************************************************)
RunicastSend(chan, n, packet) ==
  IF chan[n] = Idle
  THEN rc' = [chan EXCEPT ![n] = packet] /\ refused' = refused
  ELSE rc' = chan /\ refused' = refused \cup {packet.reading}

\* Mutant: the originator is also appended to a packet sent over the mesh.
SendUp_AlwaysAppends(chan, mesh, n, originator, reading, appended) ==
  IF best_hop[n] = 0
  THEN /\ RunicastSend(chan, n, [dst |-> our_cluster_head[n], reading |-> reading,
                                 appended |-> Append(appended, originator),
                                 transmissions |-> 1])
       /\ mc' = mesh
  ELSE /\ mc' = mesh \cup {[originator |-> n, dst |-> our_cluster_head[n],
                            reading |-> reading, appended |-> Append(appended, originator)]}
       /\ rc' = chan
       /\ refused' = refused

\* Mutant: a packet for a head out of range is not sent over the mesh.
SendUp_InRangeOnly(chan, mesh, n, originator, reading, appended) ==
  /\ IF best_hop[n] = 0
     THEN RunicastSend(chan, n, [dst |-> our_cluster_head[n], reading |-> reading,
                                 appended |-> Append(appended, originator),
                                 transmissions |-> 1])
     ELSE rc' = chan /\ refused' = refused
  /\ mc' = mesh

(***************************************************************************)
(* What cluster_send, recv_mesh and recv_runicast do with a packet at n:   *)
(* best_hop decides how it goes to our_cluster_head, and the originator is *)
(* appended only for the reliable unicast.  On the mesh n is the           *)
(* originator from here on.                                                *)
(***************************************************************************)
SendUp(chan, mesh, n, originator, reading, appended) ==
  IF best_hop[n] = 0
  THEN /\ RunicastSend(chan, n, [dst |-> our_cluster_head[n], reading |-> reading,
                                 appended |-> Append(appended, originator),
                                 transmissions |-> 1])
       /\ mc' = mesh
  ELSE /\ mc' = mesh \cup {[originator |-> n, dst |-> our_cluster_head[n],
                            reading |-> reading, appended |-> appended]}
       /\ rc' = chan
       /\ refused' = refused

NextReading(n) == <<n, Cardinality({r \in taken : r[1] = n}) + 1>>

\* send_data_process and cluster_send.
SendReading(n) ==
  /\ n \in sensing
  /\ Cardinality(taken) < MaxReadings
  /\ taken' = taken \cup {NextReading(n)}
  /\ SendUp(rc, mc, n, n, NextReading(n), <<>>)
  /\ UNCHANGED <<reports, lost, setup_vars>>

\* recv_mesh; it does not ask whether it runs on the sink.
MeshRecv(n, p) ==
  /\ p.dst = n
  /\ SendUp(rc, mc \ {p}, n, p.originator, p.reading, p.appended)
  /\ UNCHANGED <<taken, reports, lost, setup_vars>>

\* The mesh may lose a packet.
MeshLose(p) ==
  /\ mc' = mc \ {p}
  /\ lost' = lost \cup {p.reading}
  /\ UNCHANGED <<taken, rc, reports, refused, setup_vars>>

(***************************************************************************)
(* The reliable unicast: a transmission that is not acknowledged is        *)
(* repeated, up to MAX_RUNICAST_RETX.                                      *)
(***************************************************************************)
Acknowledged(n) == [rc EXCEPT ![n] = Idle]

LastTry(n) == rc[n].transmissions = MAX_RUNICAST_RETX

Unacknowledged(n) ==
  IF LastTry(n) THEN Acknowledged(n) ELSE [rc EXCEPT ![n].transmissions = @ + 1]

GivenUp(n) == IF LastTry(n) THEN {rc[n].reading} ELSE {}

\* A transmission reaches its destination, and its acknowledgement may reach n.
Heard(n, chan) ==
  /\ rc[n] # Idle
  /\ <<n, rc[n].dst>> \in Link
  /\ \/ <<rc[n].dst, n>> \in Link /\ chan = Acknowledged(n) /\ lost' = lost
     \/ chan = Unacknowledged(n) /\ lost' = lost \cup GivenUp(n)

Channels(n) == {Acknowledged(n), Unacknowledged(n)}

\* recv_runicast at the sink: the last address is the source and is cut off.
SinkReceives(n) ==
  /\ rc[n] # Idle
  /\ rc[n].dst = Sink
  /\ \E chan \in Channels(n) : Heard(n, chan) /\ rc' = chan
  /\ LET appended == rc[n].appended IN
       reports' = reports \cup
         {[reading |-> rc[n].reading,
           source  |-> appended[Len(appended)],
           left    |-> SubSeq(appended, 1, Len(appended) - 1)]}
  /\ UNCHANGED <<taken, mc, refused, setup_vars>>

\* recv_runicast at a cluster head; its seqno is ignored.
HeadReceives(n) ==
  /\ rc[n] # Idle
  /\ rc[n].dst # Sink
  /\ \E chan \in Channels(n) :
       /\ Heard(n, chan)
       /\ SendUp(chan, mc, rc[n].dst, n, rc[n].reading, rc[n].appended)
  /\ UNCHANGED <<taken, reports, setup_vars>>

\* A transmission is not received.
RunicastUnheard(n) ==
  /\ rc[n] # Idle
  /\ rc' = Unacknowledged(n)
  /\ lost' = lost \cup GivenUp(n)
  /\ UNCHANGED <<taken, mc, reports, refused, setup_vars>>

Next ==
  \/ CH_setup_wait_finished
  \/ \E n \in Node, msg \in bc : HearSetup(n, msg)
  \/ \E n \in Node : CH_detect_finished(n)
  \/ \E n \in Node : ForwardSetup(n)
  \/ \E n \in Node : StbroadcastCancel(n)
  \/ \E n \in Node : SendReading(n)
  \/ \E n \in Node, p \in mc : MeshRecv(n, p)
  \/ \E p \in mc : MeshLose(p)
  \/ \E n \in Node : SinkReceives(n)
  \/ \E n \in Node : HeadReceives(n)
  \/ \E n \in Node : RunicastUnheard(n)

Spec == Init /\ [][Next]_vars

\* Timers expire, packets do not stay in the mesh, the reliable unicast acts.
Fairness ==
  /\ WF_vars(CH_setup_wait_finished)
  /\ \A n \in Node :
       /\ WF_vars(CH_detect_finished(n))
       /\ WF_vars(ForwardSetup(n))
       /\ WF_vars(StbroadcastCancel(n))
       /\ WF_vars(SendReading(n))
       /\ WF_vars(SinkReceives(n) \/ HeadReceives(n) \/ RunicastUnheard(n))
  /\ WF_vars(\E p \in mc : MeshLose(p) \/ \E n \in Node : MeshRecv(n, p))

FairSpec == Spec /\ Fairness

(***************************************************************************)
(*                               Properties                                *)
(***************************************************************************)
\* Motes whose detection is over, and those that have announced the result.
Decided == {n \in Node : our_cluster_head[n] # rimeaddr_null}

Announced == sensing \cup (IF setup_wait_ct THEN {} ELSE {Sink})

AnnouncedHop(m) ==
  IF m = Sink THEN cluster_depth ELSE IF is_CH[m] THEN 0 ELSE best_hop[m] + 1

AnnouncedHead(m) == IF m = Sink THEN Sink ELSE HeadOf(m)

\* Following our_cluster_head climbs one level at each cluster head and ends at
\* the sink, which has level 0, whatever the order in which announcements were
\* heard: so the hierarchy has no cycle and no mote is headed by a member.
HeadsClimb ==
  \A n \in Decided : LET h == our_cluster_head[n] IN
    /\ our_level[n] = our_level[h] + (IF is_CH[n] THEN 1 ELSE 0)
    /\ IF h = Sink THEN is_CH[n] ELSE h \in sensing /\ is_CH[h]

\* A cluster is connected and no larger than cluster_depth: a mote took its head
\* from a mote it can hear that has the same head, or is it, and whose announced
\* hop count makes it a head at cluster_depth and a member below.
ClustersConnected ==
  \A n \in Decided : \E m \in Announced :
    /\ <<m, n>> \in Link
    /\ our_cluster_head[n] = AnnouncedHead(m)
    /\ AnnouncedHop(m) <= cluster_depth
    /\ is_CH[n] <=> AnnouncedHop(m) = cluster_depth
    /\ ~is_CH[n] => best_hop[n] = AnnouncedHop(m)

\* "The node is within range of its clusterhead/sink, so use runicast"
\* (hcluster.c:436, 208, 249): best_hop 0 means that n hears its head, also for
\* a cluster head, whose best_hop is set by a special case.
WithinRange ==
  \A n \in Decided : best_hop[n] = 0 => <<our_cluster_head[n], n>> \in Link

\* A packet is always on its way from a mote that has a head to that head, which
\* is ready to pass it on; recv_mesh never runs on the sink, which has no head.
PacketsClimb ==
  /\ \A p \in mc : /\ p.originator \in Decided
                   /\ p.dst = our_cluster_head[p.originator]
                   /\ p.dst \in sensing
  /\ \A n \in Node : rc[n] # Idle =>
       n \in Decided /\ rc[n].dst = our_cluster_head[n] /\ rc[n].dst \in sensing \cup {Sink}

InMesh(mesh) == {p.reading : p \in mesh}

InChannels(chan) == {chan[n].reading : n \in {m \in Node : chan[m] # Idle}}

Carried == InMesh(mc) \cup InChannels(rc)

Reported == {rep.reading : rep \in reports}

\* A reading that was taken is under way, was reported, was refused by a busy
\* runicast channel or given up by the network; nothing else is ever reported.
ReadingsAccounted ==
  taken = Carried \cup Reported \cup refused \cup lost

\* What is reported of a reading.
ReportsBounded ==
  \A rep \in reports :
    /\ Len(rep.left) <= 1
    /\ our_level[rep.reading[1]] = 1 => rep.source = rep.reading[1]

\* However many levels a packet climbs, at most two addresses are appended to it,
\* so that it fits the packet buffer; and below a head of level 1 the source
\* handed to the user is the mote that took the reading.
AddressesBounded ==
  /\ \A n \in Node : rc[n] # Idle => Len(rc[n].appended) <= 2
  /\ \A p \in mc : Len(p.appended) <= 1
  /\ ReportsBounded

(***************************************************************************)
(* The inductive invariant of set-up.  A mote decides once; what is on the *)
(* air, and what a mote has collected, is what a mote that has announced   *)
(* itself has adopted; a level is at most the number of motes that have    *)
(* decided and a hop count at most cluster_depth, so that neither wraps.   *)
(***************************************************************************)
DecidesOnce ==
  /\ Sink \notin Decided /\ ~has_seen_setup[Sink]
  /\ sensing \cup message_offset \subseteq Decided
  /\ \A n \in Decided : has_seen_setup[n]
  /\ \A n \in detect_ct : has_seen_setup[n] /\ n \notin Decided
  /\ \A n \in Node \ Decided : our_level[n] = 0 /\ ~is_CH[n]

AnnouncedOffer(m) ==
  [head |-> AnnouncedHead(m), level |-> our_level[m], hop |-> AnnouncedHop(m)]

AnnouncementsCurrent ==
  \A msg \in bc : msg.source \in Announced /\ Offer(msg) = AnnouncedOffer(msg.source)

CandidatesAnnounced ==
  \A n \in Node : has_seen_setup[n] =>
    \E m \in Announced : <<m, n>> \in Link /\ collecting_best[n] = AnnouncedOffer(m)

LevelsBelowDecided == \A n \in Decided : our_level[n] \in 1 .. Cardinality(Decided)

HopsWithinDepth ==
  \A n \in Decided :
    IF is_CH[n] THEN best_hop[n] = IF our_level[n] = 1 THEN 0 ELSE cluster_depth
    ELSE best_hop[n] < cluster_depth

SetupInv ==
  /\ SetupTypeOK
  /\ DecidesOnce
  /\ AnnouncementsCurrent
  /\ CandidatesAnnounced
  /\ LevelsBelowDecided
  /\ HopsWithinDepth
  /\ HeadsClimb
  /\ ClustersConnected
  /\ WithinRange

(***************************************************************************)
(* The inductive invariant of data.  Only motes with best_hop 0 use the    *)
(* reliable unicast and a member sends nothing but its own readings, so a  *)
(* packet that climbs by unicast to a head has one address behind it.      *)
(***************************************************************************)
ClimbsByUnicast(n, out) ==
  /\ n \in Decided /\ best_hop[n] = 0
  /\ out.dst = our_cluster_head[n] /\ out.dst \in sensing \cup {Sink}
  /\ 1 <= Len(out.appended) /\ Len(out.appended) <= 2
  /\ ~is_CH[n] => out.appended = <<n>> /\ out.reading[1] = n
  /\ our_level[out.reading[1]] = 1 => out.appended[Len(out.appended)] = out.reading[1]

ClimbsByMesh(p) ==
  /\ p.originator \in Decided
  /\ p.dst = our_cluster_head[p.originator] /\ p.dst \in sensing
  /\ Len(p.appended) <= 1
  /\ our_level[p.reading[1]] = 1 => p.originator = p.reading[1]

ChannelsClimb(chan) == \A n \in Node : chan[n] # Idle => ClimbsByUnicast(n, chan[n])

MeshClimbs(mesh) == \A p \in mesh : ClimbsByMesh(p)

TakenBySensing == \A r \in taken : r[1] \in sensing

DataInv ==
  /\ DataTypeOK
  /\ ChannelsClimb(rc)
  /\ MeshClimbs(mc)
  /\ TakenBySensing
  /\ ReadingsAccounted
  /\ ReportsBounded

Inv == SetupInv /\ DataInv

\* "The arguments are: the connection and the message source" (hcluster.h:13):
\* the source is the mote that took the reading.
SourceIsOriginator == \A rep \in reports : rep.source = rep.reading[1]

\* Whoever can hear n has heard a set-up message by the time n's is cancelled.
HeardBeforeCancel ==
  \A n \in Announced : ~OnAir(n) =>
    \A m \in Node : <<n, m>> \in Link => m = Sink \/ has_seen_setup[m]

Reachable ==
  {n \in Node : \A S \in SUBSET Node :
      (Sink \in S /\ \A l \in Link : l[1] \in S => l[2] \in S) => n \in S}

\* If stubborn broadcasts are heard before STUBBORN_WAIT ends, every mote the
\* sink can reach starts to sense; if moreover the network gives up on nothing
\* and no channel was busy when it was needed, every reading climbs to the sink.
EveryReadingArrives ==
  [](HeardBeforeCancel /\ lost = {} /\ refused = {}) =>
    <>[](/\ Reachable \ {Sink} \subseteq sensing
         /\ taken = Reported)
=============================================================================
