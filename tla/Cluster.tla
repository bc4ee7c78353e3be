------------------------------- MODULE Cluster -------------------------------
(***************************************************************************)
(* Samples/Clustering/cluster.c: one level of clusters.                    *)
(*                                                                         *)
(* A mote whose FIRST set-up message has hop count 0 (the sink's) becomes  *)
(* a cluster head at once; any other mote collects announcements for 20 s  *)
(* and joins the head named by the closest.  Afterwards every mote reads   *)
(* its sensors every 60 s: a member sends the reading to its head over the *)
(* mesh, the head sends it (and its own) to the sink by reliable unicast,  *)
(* with the originator's address appended to the packet.                   *)
(*                                                                         *)
(* Handlers are atomic and timers untimed, as in TreeSetup.                *)
(***************************************************************************)
EXTENDS Naturals, Sequences, FiniteSets

CONSTANTS
  Node,               \* the motes
  Sink,               \* conn->sink, address 1.0
  rimeaddr_null,      \* the address of no mote
  Link,               \* <<n, m>> \in Link: m can hear n
  UINT_MAX,           \* largest hop count an unsigned int holds
  MAX_RUNICAST_RETX,  \* transmissions the reliable unicast makes of a packet
  MaxReadings,        \* bound: readings a mote takes
  Idle                \* a reliable unicast channel with nothing to send

ASSUME ClusterAssumption ==
  /\ IsFiniteSet(Node)
  /\ Sink \in Node
  /\ rimeaddr_null \notin Node
  /\ Link \subseteq Node \X Node
  /\ UINT_MAX \in Nat /\ Cardinality(Node) <= UINT_MAX
  /\ MAX_RUNICAST_RETX \in Nat \ {0}
  /\ MaxReadings \in Nat

VARIABLES
  has_seen_setup, is_CH, collecting_best_CH, collecting_best_hop,
  our_cluster_head, best_hop,
  detect_ct,      \* motes whose 20 s detection timer is armed
  setup_wait_ct,  \* the sink's initial 10 s timer is armed
  bc,             \* stubborn broadcasts being repeated
  sensing,        \* motes whose send_data_process runs
  readings,       \* how often each mote has read its sensors
  mc,             \* packets in the mesh
  rc,             \* what the reliable unicast of each mote is sending
  reports,        \* what the recv callback of the sink was told
  refused,        \* readings runicast_send turned away
  lost            \* readings the radio or the mesh gave up on

setup_vars ==
  <<has_seen_setup, is_CH, collecting_best_CH, collecting_best_hop,
    our_cluster_head, best_hop, detect_ct, setup_wait_ct, bc, sensing>>

data_vars == <<readings, mc, rc, reports, refused, lost>>

vars == <<setup_vars, data_vars>>

HopCount == 0 .. UINT_MAX
Address == Node \cup {rimeaddr_null}
SetupMsg == [source : Node, head : Address, hop_count : HopCount]

(***************************************************************************)
(* The k-th reading of mote n is <<n, k>>.  appended holds the addresses   *)
(* the code has written behind the reading in the packet.                  *)
(***************************************************************************)
Reading == Node \X (1 .. MaxReadings)
MeshPacket == [originator : Node, dst : Address, reading : Reading]
Outgoing == [dst : Address, reading : Reading, appended : Seq(Node),
             transmissions : 1 .. MAX_RUNICAST_RETX]
Report == [reading : Reading, source : Node, left : Seq(Node)]

\* rc[n] = Idle tells a channel with nothing to send from one with a packet.
ASSUME IdleAssumption == Idle \notin Outgoing

SetupTypeOK ==
  /\ has_seen_setup \in [Node -> BOOLEAN]
  /\ is_CH \in [Node -> BOOLEAN]
  /\ collecting_best_CH \in [Node -> Address]
  /\ collecting_best_hop \in [Node -> HopCount]
  /\ our_cluster_head \in [Node -> Address]
  /\ best_hop \in [Node -> HopCount]
  /\ detect_ct \subseteq Node
  /\ setup_wait_ct \in BOOLEAN
  /\ bc \subseteq SetupMsg
  /\ sensing \subseteq Node

DataTypeOK ==
  /\ readings \in [Node -> 0 .. MaxReadings]
  /\ mc \subseteq MeshPacket
  /\ rc \in [Node -> Outgoing \cup {Idle}]
  /\ reports \subseteq Report
  /\ refused \subseteq Reading
  /\ lost \subseteq Reading

TypeOK == SetupTypeOK /\ DataTypeOK

\* cluster_open on every mote.
Init ==
  /\ has_seen_setup = [n \in Node |-> FALSE]
  /\ is_CH = [n \in Node |-> FALSE]
  /\ collecting_best_CH = [n \in Node |-> rimeaddr_null]
  /\ collecting_best_hop = [n \in Node |-> UINT_MAX]
  /\ our_cluster_head = [n \in Node |-> rimeaddr_null]
  /\ best_hop = [n \in Node |-> UINT_MAX]
  /\ detect_ct = {}
  /\ setup_wait_ct = TRUE
  /\ bc = {}
  /\ sensing = {}
  /\ readings = [n \in Node |-> 0]
  /\ mc = {}
  /\ rc = [n \in Node |-> Idle]
  /\ reports = {}
  /\ refused = {}
  /\ lost = {}

(***************************************************************************)
(* Set-up.                                                                 *)
(***************************************************************************)
Cancelled(n) == {m \in bc : m.source # n}

Stubborn(msg) == Cancelled(msg.source) \cup {msg}

OnAir(n) == \E m \in bc : m.source = n

\* CH_setup_wait_finished: the sink sends the first message.
CH_setup_wait_finished ==
  /\ setup_wait_ct
  /\ setup_wait_ct' = FALSE
  /\ bc' = Stubborn([source |-> Sink, head |-> rimeaddr_null, hop_count |-> 0])
  /\ UNCHANGED <<has_seen_setup, is_CH, collecting_best_CH, collecting_best_hop,
                 our_cluster_head, best_hop, detect_ct, sensing, data_vars>>

\* Mutant: msg->source is left as memset cleared it.
Announcement_NoSource(n, head, hop) ==
  [source |-> rimeaddr_null, head |-> head, hop_count |-> (hop + 1) % (UINT_MAX + 1)]

\* The message CH_detect_finished sends for mote n.
Announcement(n, head, hop) ==
  [source |-> n, head |-> head, hop_count |-> (hop + 1) % (UINT_MAX + 1)]

Hears(n, msg) == <<msg.source, n>> \in Link /\ n # Sink

(***************************************************************************)
(* recv_setup, when the first message is the sink's: the mote is a cluster *)
(* head, its own head is address 1.0, and CH_detect_finished runs at once. *)
(***************************************************************************)
BecomeHead(n, msg) ==
  /\ Hears(n, msg)
  /\ ~has_seen_setup[n]
  /\ msg.hop_count = 0
  /\ has_seen_setup' = [has_seen_setup EXCEPT ![n] = TRUE]
  /\ is_CH' = [is_CH EXCEPT ![n] = TRUE]
  /\ collecting_best_CH' = [collecting_best_CH EXCEPT ![n] = Sink]
  /\ collecting_best_hop' = [collecting_best_hop EXCEPT ![n] = 0]
  /\ our_cluster_head' = [our_cluster_head EXCEPT ![n] = Sink]
  /\ best_hop' = [best_hop EXCEPT ![n] = 0]
  /\ bc' = Stubborn(Announcement(n, n, 0))
  /\ sensing' = sensing \cup {n}
  /\ UNCHANGED <<detect_ct, setup_wait_ct, data_vars>>

\* "closer to the sink", and the mote is not a cluster head itself.
Closer(n, msg) == msg.hop_count < collecting_best_hop[n] /\ ~is_CH[n]

\* Mutant: has_seen_setup is tested after it was set, the timer is never armed.
HearSetup_Unarmed(n, msg) ==
  /\ Hears(n, msg)
  /\ has_seen_setup[n] \/ msg.hop_count # 0
  /\ has_seen_setup' = [has_seen_setup EXCEPT ![n] = TRUE]
  /\ collecting_best_CH' =
       [collecting_best_CH EXCEPT ![n] = IF Closer(n, msg) THEN msg.head ELSE @]
  /\ collecting_best_hop' =
       [collecting_best_hop EXCEPT ![n] = IF Closer(n, msg) THEN msg.hop_count ELSE @]
  /\ UNCHANGED <<is_CH, our_cluster_head, best_hop, detect_ct, setup_wait_ct, bc, sensing,
                 data_vars>>

\* Mutant: the announcing mote is taken for the head it announces.
HearSetup_SourceAsHead(n, msg) ==
  /\ Hears(n, msg)
  /\ has_seen_setup[n] \/ msg.hop_count # 0
  /\ has_seen_setup' = [has_seen_setup EXCEPT ![n] = TRUE]
  /\ detect_ct' = IF has_seen_setup[n] THEN detect_ct ELSE detect_ct \cup {n}
  /\ collecting_best_CH' =
       [collecting_best_CH EXCEPT ![n] = IF Closer(n, msg) THEN msg.source ELSE @]
  /\ collecting_best_hop' =
       [collecting_best_hop EXCEPT ![n] = IF Closer(n, msg) THEN msg.hop_count ELSE @]
  /\ UNCHANGED <<is_CH, our_cluster_head, best_hop, setup_wait_ct, bc, sensing, data_vars>>

\* recv_setup in every other case.  The candidate is replaced at any time.
HearSetup(n, msg) ==
  /\ Hears(n, msg)
  /\ has_seen_setup[n] \/ msg.hop_count # 0
  /\ has_seen_setup' = [has_seen_setup EXCEPT ![n] = TRUE]
  /\ detect_ct' = IF has_seen_setup[n] THEN detect_ct ELSE detect_ct \cup {n}
  /\ collecting_best_CH' =
       [collecting_best_CH EXCEPT ![n] = IF Closer(n, msg) THEN msg.head ELSE @]
  /\ collecting_best_hop' =
       [collecting_best_hop EXCEPT ![n] = IF Closer(n, msg) THEN msg.hop_count ELSE @]
  /\ UNCHANGED <<is_CH, our_cluster_head, best_hop, setup_wait_ct, bc, sensing, data_vars>>

\* Mutant: the test of is_CH is gone, every mote names itself as the head.
CH_detect_finished_AlwaysHead(n) ==
  /\ n \in detect_ct
  /\ detect_ct' = detect_ct \ {n}
  /\ our_cluster_head' = [our_cluster_head EXCEPT ![n] = collecting_best_CH[n]]
  /\ best_hop' = [best_hop EXCEPT ![n] = collecting_best_hop[n]]
  /\ bc' = Stubborn(Announcement(n, n, collecting_best_hop[n]))
  /\ sensing' = sensing \cup {n}
  /\ UNCHANGED <<has_seen_setup, is_CH, collecting_best_CH, collecting_best_hop,
                 setup_wait_ct, data_vars>>

\* CH_detect_finished at a member: it joins the candidate's cluster.
CH_detect_finished(n) ==
  /\ n \in detect_ct
  /\ detect_ct' = detect_ct \ {n}
  /\ our_cluster_head' = [our_cluster_head EXCEPT ![n] = collecting_best_CH[n]]
  /\ best_hop' = [best_hop EXCEPT ![n] = collecting_best_hop[n]]
  /\ bc' = Stubborn(Announcement(n, IF is_CH[n] THEN n ELSE collecting_best_CH[n],
                                 collecting_best_hop[n]))
  /\ sensing' = sensing \cup {n}
  /\ UNCHANGED <<has_seen_setup, is_CH, collecting_best_CH, collecting_best_hop,
                 setup_wait_ct, data_vars>>

\* stbroadcast_cancel_void: STUBBORN_WAIT is over.
StbroadcastCancel(n) ==
  /\ OnAir(n)
  /\ bc' = Cancelled(n)
  /\ UNCHANGED <<has_seen_setup, is_CH, collecting_best_CH, collecting_best_hop,
                 our_cluster_head, best_hop, detect_ct, setup_wait_ct, sensing, data_vars>>

(***************************************************************************)
(* Data.  runicast_send does nothing while an earlier packet is unconfirmed*)
(* and nobody looks at its result: the reading is gone.                    *)
(***************************************************************************)
RunicastSend(n, dst, reading, appended) ==
  IF rc[n] = Idle
  THEN /\ rc' = [rc EXCEPT ![n] = [dst |-> dst, reading |-> reading,
                                   appended |-> appended, transmissions |-> 1]]
       /\ refused' = refused
  ELSE rc' = rc /\ refused' = refused \cup {reading}

NextReading(n) == <<n, readings[n] + 1>>

Senses(n) ==
  /\ n \in sensing
  /\ readings[n] < MaxReadings
  /\ readings' = [readings EXCEPT ![n] = @ + 1]

\* send_data_process and cluster_send at a cluster head.
HeadSends(n) ==
  /\ Senses(n)
  /\ is_CH[n]
  /\ RunicastSend(n, Sink, NextReading(n), <<n>>)
  /\ UNCHANGED <<mc, reports, lost, setup_vars>>

\* send_data_process and cluster_send at a member.
MemberSends(n) ==
  /\ Senses(n)
  /\ ~is_CH[n]
  /\ mc' = mc \cup {[originator |-> n, dst |-> our_cluster_head[n], reading |-> NextReading(n)]}
  /\ UNCHANGED <<rc, refused, reports, lost, setup_vars>>

\* Mutant: the forwarding mote appends its own address.
MeshRecv_OwnAddress(n, p) ==
  /\ p.dst = n
  /\ mc' = mc \ {p}
  /\ RunicastSend(n, our_cluster_head[n], p.reading, <<n>>)
  /\ UNCHANGED <<readings, reports, lost, setup_vars>>

\* Mutant: the originator is appended, but runicast_send is not called.
MeshRecv_NotSent(n, p) ==
  /\ p.dst = n
  /\ mc' = mc \ {p}
  /\ UNCHANGED <<readings, rc, reports, refused, lost, setup_vars>>

\* mesh_recv: append the originator and pass the packet to our own head.
MeshRecv(n, p) ==
  /\ p.dst = n
  /\ mc' = mc \ {p}
  /\ RunicastSend(n, our_cluster_head[n], p.reading, <<p.originator>>)
  /\ UNCHANGED <<readings, reports, lost, setup_vars>>

\* The mesh may lose a packet (and always loses one sent to rimeaddr_null).
MeshLose(p) ==
  /\ mc' = mc \ {p}
  /\ lost' = lost \cup {p.reading}
  /\ UNCHANGED <<readings, rc, reports, refused, setup_vars>>

(***************************************************************************)
(* runicast_recv: the last address in the packet is taken for the source   *)
(* and cut off.  Its seqno is ignored: a retransmission is reported again. *)
(***************************************************************************)
RunicastRecv(out) ==
  reports' = reports \cup
    {[reading |-> out.reading,
      source  |-> out.appended[Len(out.appended)],
      left    |-> SubSeq(out.appended, 1, Len(out.appended) - 1)]}

\* No acknowledgement came: transmit again, or time out.
Unconfirmed(n) ==
  IF rc[n].transmissions < MAX_RUNICAST_RETX
  THEN rc' = [rc EXCEPT ![n].transmissions = @ + 1] /\ lost' = lost
  ELSE rc' = [rc EXCEPT ![n] = Idle] /\ lost' = lost \cup {rc[n].reading}

\* A transmission is received; its acknowledgement may or may not be.
RunicastHeard(n) ==
  /\ rc[n] # Idle
  /\ <<n, rc[n].dst>> \in Link
  /\ RunicastRecv(rc[n])
  /\ \/ <<rc[n].dst, n>> \in Link /\ rc' = [rc EXCEPT ![n] = Idle] /\ lost' = lost
     \/ Unconfirmed(n)
  /\ UNCHANGED <<readings, mc, refused, setup_vars>>

\* A transmission is not received.
RunicastUnheard(n) ==
  /\ rc[n] # Idle
  /\ Unconfirmed(n)
  /\ UNCHANGED <<readings, mc, refused, reports, setup_vars>>

Next ==
  \/ CH_setup_wait_finished
  \/ \E n \in Node, msg \in bc : BecomeHead(n, msg) \/ HearSetup(n, msg)
  \/ \E n \in Node : CH_detect_finished(n) \/ StbroadcastCancel(n)
  \/ \E n \in Node : HeadSends(n) \/ MemberSends(n)
  \/ \E n \in Node, p \in mc : MeshRecv(n, p)
  \/ \E p \in mc : MeshLose(p)
  \/ \E n \in Node : RunicastHeard(n) \/ RunicastUnheard(n)

Spec == Init /\ [][Next]_vars

\* Timers expire, packets do not stay in the mesh, the reliable unicast acts.
Fairness ==
  /\ WF_vars(CH_setup_wait_finished)
  /\ \A n \in Node :
       /\ WF_vars(CH_detect_finished(n))
       /\ WF_vars(StbroadcastCancel(n))
       /\ WF_vars(HeadSends(n) \/ MemberSends(n))
       /\ WF_vars(RunicastHeard(n) \/ RunicastUnheard(n))
  /\ WF_vars(\E p \in mc : MeshLose(p) \/ \E n \in Node : MeshRecv(n, p))

FairSpec == Spec /\ Fairness

(***************************************************************************)
(*                               Properties                                *)
(***************************************************************************)
Member(n) == n \in sensing /\ ~is_CH[n]

\* The head a mote of the network announces.
HeadOf(n) == IF is_CH[n] THEN n ELSE our_cluster_head[n]

\* No mote has heard the sink after it heard another mote.
SinkNeverHeardLate ==
  \A n \in Node : ~is_CH[n] => collecting_best_hop[n] # 0

\* "Non-CH nodes should look for the closest CH" (cluster.c:249): the head of a
\* member is a cluster head.
MembersHaveHeads ==
  \A n \in Node : Member(n) => our_cluster_head[n] \in Node /\ is_CH[our_cluster_head[n]]

\* It is, whatever the order of everything else and however far the member is
\* from its head, as long as no member has heard the sink: recv_setup decides
\* is_CH on the first message only.
MembersHaveHeadsInOrder == SinkNeverHeardLate => MembersHaveHeads

\* A cluster is connected: a member took its head from a mote it can hear, that
\* is one hop closer and in the same cluster; or from the sink, which has none.
MemberFollowsNeighbour ==
  \A n \in Node : Member(n) =>
    \/ \E m \in sensing : /\ <<m, n>> \in Link
                          /\ HeadOf(m) = our_cluster_head[n]
                          /\ best_hop[n] = best_hop[m] + 1
    \/ <<Sink, n>> \in Link /\ our_cluster_head[n] = rimeaddr_null /\ best_hop[n] = 0

Taken == UNION {{n} \X (1 .. readings[n]) : n \in Node}

Meshed == {p.reading : p \in mc}

InChannels == {rc[n].reading : n \in {m \in Node : rc[m] # Idle}}

Reported == {rep.reading : rep \in reports}

\* A reading that was taken is still under way, was reported, was refused by a
\* busy runicast channel or given up by the network: mesh_recv and cluster_send
\* lose none in any other way, and report none that was not taken.
ReadingsAccounted == Taken = Meshed \cup InChannels \cup Reported \cup refused \cup lost

\* The source handed to the user is the mote that took the reading, and nothing
\* but the reading is left in the packet, by either way through cluster_send.
SourceIsOriginator ==
  \A rep \in reports : rep.source = rep.reading[1] /\ rep.left = <<>>

(***************************************************************************)
(* The inductive invariant.  A mote decides once and its decision stays;   *)
(* what is on the air, and what a mote has collected from it, was decided  *)
(* by a mote that is sensing, or is the sink's; and hop counts are below   *)
(* the number of motes that have decided, so that none of them wraps.      *)
(***************************************************************************)
DecidesOnce ==
  /\ Sink \notin sensing /\ ~has_seen_setup[Sink]
  /\ \A n \in detect_ct : has_seen_setup[n] /\ n \notin sensing
  /\ \A n \in sensing : has_seen_setup[n]
  /\ \A n \in Node : is_CH[n] => n \in sensing /\ best_hop[n] = 0
  /\ \A n \in Node : ~has_seen_setup[n] => collecting_best_hop[n] = UINT_MAX

\* What mote m announces of itself.
Announced(m, head, hop) ==
  IF m = Sink THEN head = rimeaddr_null /\ hop = 0
  ELSE m \in sensing /\ head = HeadOf(m) /\ hop = best_hop[m] + 1

AnnouncementsCurrent == \A msg \in bc : Announced(msg.source, msg.head, msg.hop_count)

CandidatesAnnounced ==
  \A n \in Node : has_seen_setup[n] /\ ~is_CH[n] =>
    \E m \in Node : /\ <<m, n>> \in Link
                    /\ Announced(m, collecting_best_CH[n], collecting_best_hop[n])

HopsBelowDecided == \A n \in sensing : best_hop[n] < Cardinality(sensing)

HeadsAreHeads ==
  SinkNeverHeardLate => \A n \in sensing : HeadOf(n) \in Node /\ is_CH[HeadOf(n)]

SetupInv ==
  /\ SetupTypeOK
  /\ DecidesOnce
  /\ AnnouncementsCurrent
  /\ CandidatesAnnounced
  /\ HopsBelowDecided
  /\ HeadsAreHeads
  /\ MemberFollowsNeighbour

\* The originator goes with the reading, on the mesh and behind it in the packet.
OriginatorKept ==
  /\ \A p \in mc : p.originator = p.reading[1]
  /\ \A n \in Node : rc[n] # Idle => rc[n].appended = <<rc[n].reading[1]>>

DataInv == DataTypeOK /\ OriginatorKept /\ ReadingsAccounted /\ SourceIsOriginator

Inv == SetupInv /\ DataInv

Reachable ==
  {n \in Node : \A S \in SUBSET Node :
      (Sink \in S /\ \A l \in Link : l[1] \in S => l[2] \in S) => n \in S}

\* Whoever can hear n has heard a set-up message by the time n's is cancelled.
HeardBeforeCancel ==
  \A n \in Node :
    (IF n = Sink THEN ~setup_wait_ct ELSE n \in sensing) /\ ~OnAir(n) =>
      \A m \in Node : <<n, m>> \in Link => m = Sink \/ has_seen_setup[m]

\* If set-up messages are heard before STUBBORN_WAIT ends, the network gives up
\* on nothing, no channel was busy when it was needed and no member heard the
\* sink late, then every mote the sink can reach reads its sensors in the end
\* and every reading is reported.
EveryReadingArrives ==
  [](HeardBeforeCancel /\ lost = {} /\ refused = {} /\ SinkNeverHeardLate)
    => <>[](Reachable \ {Sink} \subseteq sensing /\ Taken \subseteq Reported)
=============================================================================
