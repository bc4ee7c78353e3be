---------------------------- MODULE Cluster_proofs ----------------------------
(***************************************************************************)
(* Proofs about Cluster, for every set of motes, every set of links, every *)
(* counter width that the network fits in and any number of readings.      *)
(***************************************************************************)
EXTENDS Cluster, FiniteSetTheorems, TLAPS

(***************************************************************************)
(* The sink never decides, so fewer motes than UINT_MAX do.                *)
(***************************************************************************)
LEMMA SensingBound ==
  ASSUME SetupTypeOK, DecidesOnce
  PROVE  /\ IsFiniteSet(sensing)
         /\ Cardinality(sensing) \in Nat
         /\ Cardinality(sensing) < UINT_MAX
<1>1. IsFiniteSet(sensing)
  BY ClusterAssumption, FS_Subset DEF SetupTypeOK
<1>2. /\ IsFiniteSet(sensing \cup {Sink})
      /\ Cardinality(sensing \cup {Sink}) = Cardinality(sensing) + 1
  BY <1>1, FS_AddElement DEF DecidesOnce
<1>3. Cardinality(sensing \cup {Sink}) <= Cardinality(Node)
  BY ClusterAssumption, FS_Subset DEF SetupTypeOK
<1>4. Cardinality(sensing) \in Nat /\ Cardinality(Node) \in Nat
  BY <1>1, ClusterAssumption, FS_CardinalityType
<1> QED
  BY <1>1, <1>2, <1>3, <1>4, ClusterAssumption

\* Whatever is announced names an address, and its hop count is a small number.
LEMMA AnnouncedBound ==
  ASSUME SetupTypeOK, DecidesOnce, HopsBelowDecided,
         NEW m, NEW head, NEW hop, Announced(m, head, hop)
  PROVE  /\ head \in Address
         /\ hop \in Nat /\ hop <= Cardinality(sensing) /\ hop < UINT_MAX
         /\ hop = 0 <=> m = Sink
<1>1. Cardinality(sensing) \in Nat /\ Cardinality(sensing) < UINT_MAX
  BY SensingBound
<1>2. CASE m = Sink
  BY <1>1, <1>2, ClusterAssumption DEF Announced, Address
<1>3. CASE m # Sink
  <2>1. m \in sensing /\ m \in Node /\ head = HeadOf(m) /\ hop = best_hop[m] + 1
    BY <1>3 DEF Announced, SetupTypeOK
  <2>2. best_hop[m] \in Nat /\ best_hop[m] < Cardinality(sensing)
    BY <2>1 DEF HopsBelowDecided, SetupTypeOK, HopCount
  <2>3. head \in Address
    BY <2>1 DEF HeadOf, SetupTypeOK, Address
  <2>4. hop \in Nat /\ hop <= Cardinality(sensing) /\ hop < UINT_MAX /\ hop # 0
    BY <1>1, <2>1, <2>2, ClusterAssumption
  <2> QED
    BY <1>3, <2>3, <2>4
<1> QED
  BY <1>2, <1>3

\* cluster_open establishes the set-up invariant.
LEMMA SetupInit == Init => SetupInv
<1> SUFFICES ASSUME Init PROVE SetupInv
  OBVIOUS
<1> USE ClusterAssumption DEF Init
<1>1. SetupTypeOK
  BY DEF SetupTypeOK, Address, HopCount, SetupMsg
<1>2. DecidesOnce /\ AnnouncementsCurrent /\ CandidatesAnnounced /\ HopsBelowDecided
  BY DEF DecidesOnce, AnnouncementsCurrent, CandidatesAnnounced, HopsBelowDecided
<1>3. HeadsAreHeads /\ MemberFollowsNeighbour
  BY DEF HeadsAreHeads, MemberFollowsNeighbour, Member
<1> QED
  BY <1>1, <1>2, <1>3 DEF SetupInv

(***************************************************************************)
(* Steps in which nobody decides keep what only speaks of decisions.       *)
(***************************************************************************)
LEMMA NobodyDecides ==
  ASSUME SetupInv, UNCHANGED <<is_CH, our_cluster_head, best_hop, sensing>>
  PROVE  /\ HopsBelowDecided' /\ MemberFollowsNeighbour'
         /\ \A n : HeadOf(n)' = HeadOf(n)
         /\ \A m, head, hop : Announced(m, head, hop)' <=> Announced(m, head, hop)
<1>1. \A n : HeadOf(n)' = HeadOf(n)
  BY DEF HeadOf
<1>2. \A m, head, hop : Announced(m, head, hop)' <=> Announced(m, head, hop)
  BY <1>1 DEF Announced
<1>3. HopsBelowDecided'
  BY DEF SetupInv, HopsBelowDecided
<1>4. MemberFollowsNeighbour'
  BY <1>1 DEF SetupInv, MemberFollowsNeighbour, Member
<1> QED
  BY <1>1, <1>2, <1>3, <1>4

\* The sink's first message keeps it.
LEMMA SetupWaitFinishedInv ==
  ASSUME SetupInv, CH_setup_wait_finished
  PROVE  SetupInv'
<1> DEFINE first == [source |-> Sink, head |-> rimeaddr_null, hop_count |-> 0]
<1> USE DEF SetupInv, CH_setup_wait_finished
<1>1. /\ HopsBelowDecided' /\ MemberFollowsNeighbour'
      /\ \A n : HeadOf(n)' = HeadOf(n)
      /\ \A m, head, hop : Announced(m, head, hop)' <=> Announced(m, head, hop)
  BY NobodyDecides
<1>2. first \in SetupMsg
  BY ClusterAssumption DEF SetupMsg, Address, HopCount
<1>3. \A m \in bc' : m \in bc \/ m = first
  BY DEF Stubborn, Cancelled
<1>4. SetupTypeOK'
  BY <1>2, <1>3 DEF SetupTypeOK
<1>5. AnnouncementsCurrent'
  BY <1>1, <1>3 DEF AnnouncementsCurrent, Announced
<1>6. DecidesOnce' /\ CandidatesAnnounced' /\ HeadsAreHeads'
  BY <1>1 DEF DecidesOnce, CandidatesAnnounced, HeadsAreHeads, SinkNeverHeardLate
<1> QED
  BY <1>1, <1>4, <1>5, <1>6

\* Cancelling a broadcast only removes a message.
LEMMA StbroadcastCancelInv ==
  ASSUME SetupInv, NEW n \in Node, StbroadcastCancel(n)
  PROVE  SetupInv'
<1> USE DEF SetupInv, StbroadcastCancel
<1>1. /\ HopsBelowDecided' /\ MemberFollowsNeighbour'
      /\ \A m : HeadOf(m)' = HeadOf(m)
      /\ \A m, head, hop : Announced(m, head, hop)' <=> Announced(m, head, hop)
  BY NobodyDecides
<1>2. bc' \subseteq bc
  BY DEF Cancelled
<1>3. SetupTypeOK'
  BY <1>2 DEF SetupTypeOK
<1>4. AnnouncementsCurrent'
  BY <1>1, <1>2 DEF AnnouncementsCurrent
<1>5. DecidesOnce' /\ CandidatesAnnounced' /\ HeadsAreHeads'
  BY <1>1 DEF DecidesOnce, CandidatesAnnounced, HeadsAreHeads, SinkNeverHeardLate
<1> QED
  BY <1>1, <1>3, <1>4, <1>5

(***************************************************************************)
(* recv_setup keeps it: the new candidate is what a neighbour announces,   *)
(* the first message beats UINT_MAX, and a member that had not heard the   *)
(* sink before may hear it now, never the other way round.                 *)
(***************************************************************************)
LEMMA HearSetupInv ==
  ASSUME SetupInv, NEW n \in Node, NEW msg \in bc, HearSetup(n, msg)
  PROVE  SetupInv'
<1> USE DEF SetupInv, HearSetup
<1>1. /\ HopsBelowDecided' /\ MemberFollowsNeighbour'
      /\ \A m : HeadOf(m)' = HeadOf(m)
      /\ \A m, head, hop : Announced(m, head, hop)' <=> Announced(m, head, hop)
  BY NobodyDecides
<1>2. msg.source \in Node /\ msg.head \in Address /\ msg.hop_count \in HopCount
  BY DEF SetupTypeOK, SetupMsg
<1>3. /\ Announced(msg.source, msg.head, msg.hop_count)
      /\ msg.hop_count \in Nat /\ msg.hop_count < UINT_MAX
  BY AnnouncedBound DEF AnnouncementsCurrent
<1>4. SetupTypeOK'
  BY <1>2 DEF SetupTypeOK
<1>5. n # Sink /\ <<msg.source, n>> \in Link
  BY DEF Hears
<1>6. DecidesOnce'
  BY <1>5 DEF DecidesOnce, SetupTypeOK
<1>7. CandidatesAnnounced'
  <2> SUFFICES ASSUME NEW k \in Node, has_seen_setup'[k], ~is_CH[k]
               PROVE  \E m \in Node :
                        /\ <<m, k>> \in Link
                        /\ Announced(m, collecting_best_CH'[k], collecting_best_hop'[k])
    BY <1>1 DEF CandidatesAnnounced
  <2>1. CASE k # n
    BY <2>1 DEF CandidatesAnnounced, SetupTypeOK
  <2>2. CASE k = n /\ Closer(n, msg)
    BY <1>2, <1>3, <1>5, <2>2 DEF SetupTypeOK
  <2>3. CASE k = n /\ ~Closer(n, msg)
    <3>1. has_seen_setup[n]
      BY <1>3, <2>3 DEF DecidesOnce, Closer
    <3> QED
      BY <2>3, <3>1 DEF CandidatesAnnounced, SetupTypeOK
  <2> QED
    BY <2>1, <2>2, <2>3
<1>8. HeadsAreHeads'
  <2>1. ASSUME NEW k \in Node, collecting_best_hop[k] = 0
        PROVE  collecting_best_hop'[k] = 0
    BY <1>3, <2>1 DEF Closer, SetupTypeOK
  <2>2. SinkNeverHeardLate' => SinkNeverHeardLate
    BY <2>1 DEF SinkNeverHeardLate
  <2> QED
    BY <1>1, <2>2 DEF HeadsAreHeads
<1>9. AnnouncementsCurrent'
  BY <1>1 DEF AnnouncementsCurrent
<1> QED
  BY <1>1, <1>4, <1>6, <1>7, <1>8, <1>9

(***************************************************************************)
(* The step with which mote n decides: what the motes that decided before  *)
(* announce stays, n announces its decision, and there is one more.        *)
(***************************************************************************)
LEMMA DecisionStep ==
  ASSUME SetupInv, NEW n \in Node, n \notin sensing, n # Sink,
         NEW head \in Address, NEW hop \in HopCount, hop <= Cardinality(sensing),
         our_cluster_head' = [our_cluster_head EXCEPT ![n] = head],
         best_hop' = [best_hop EXCEPT ![n] = hop],
         \A m \in Node \ {n} : is_CH'[m] = is_CH[m],
         sensing' = sensing \cup {n},
         NEW said \in Address, HeadOf(n)' = said,
         bc' = Stubborn(Announcement(n, said, hop))
  PROVE  /\ HopsBelowDecided'
         /\ \A m \in sensing : HeadOf(m)' = HeadOf(m) /\ best_hop'[m] = best_hop[m]
         /\ \A m, h, k : Announced(m, h, k) => Announced(m, h, k)'
         /\ bc' \subseteq SetupMsg
         /\ AnnouncementsCurrent'
<1> USE DEF SetupInv
<1>1. /\ IsFiniteSet(sensing)
      /\ Cardinality(sensing) \in Nat /\ Cardinality(sensing) < UINT_MAX
  BY SensingBound
<1>2. Cardinality(sensing') = Cardinality(sensing) + 1
  BY <1>1, FS_AddElement
<1>3. \A m \in sensing : m # n /\ m \in Node
  BY DEF SetupTypeOK
<1>4. \A m \in sensing : HeadOf(m)' = HeadOf(m) /\ best_hop'[m] = best_hop[m]
  BY <1>3 DEF HeadOf, SetupTypeOK
<1>5. best_hop'[n] = hop /\ hop \in Nat
  BY DEF SetupTypeOK, HopCount
<1>6. HopsBelowDecided'
  <2> SUFFICES ASSUME NEW m \in sensing' PROVE best_hop'[m] < Cardinality(sensing')
    BY DEF HopsBelowDecided
  <2>1. CASE m = n
    BY <1>1, <1>2, <1>5, <2>1
  <2>2. CASE m # n
    <3>1. m \in sensing /\ m \in Node /\ best_hop[m] \in Nat
      BY <1>3, <2>2 DEF SetupTypeOK, HopCount
    <3> QED
      BY <1>1, <1>2, <1>4, <3>1 DEF HopsBelowDecided
  <2> QED
    BY <2>1, <2>2
<1>7. \A m, h, k : Announced(m, h, k) => Announced(m, h, k)'
  BY <1>4 DEF Announced
<1>8. Announcement(n, said, hop) =
        [source |-> n, head |-> said, hop_count |-> hop + 1]
  BY <1>1, <1>5, ClusterAssumption DEF Announcement
<1>9. \A m \in bc' : m \in bc \/ m = Announcement(n, said, hop)
  BY DEF Stubborn, Cancelled
<1>10. bc' \subseteq SetupMsg
  BY <1>1, <1>5, <1>8, <1>9, ClusterAssumption DEF SetupTypeOK, SetupMsg, HopCount
<1>11. Announced(n, said, hop + 1)'
  BY <1>5 DEF Announced
<1>12. AnnouncementsCurrent'
  BY <1>7, <1>8, <1>9, <1>11 DEF AnnouncementsCurrent
<1> QED
  BY <1>4, <1>6, <1>7, <1>10, <1>12

\* A neighbour of the sink becomes a cluster head, at hop count 0.
LEMMA BecomeHeadInv ==
  ASSUME SetupInv, NEW n \in Node, NEW msg \in bc, BecomeHead(n, msg)
  PROVE  SetupInv'
<1> USE DEF SetupInv, BecomeHead
<1>1. n # Sink /\ n \notin sensing /\ n \notin detect_ct /\ ~has_seen_setup[n]
  BY DEF Hears, DecidesOnce
<1>2. is_CH'[n] /\ HeadOf(n)' = n /\ \A m \in Node \ {n} : is_CH'[m] = is_CH[m]
  BY DEF HeadOf, SetupTypeOK
<1>3. Sink \in Address /\ n \in Address /\ 0 \in HopCount
  BY ClusterAssumption DEF Address, HopCount
<1>4. 0 <= Cardinality(sensing)
  BY SensingBound
<1>5. /\ HopsBelowDecided'
      /\ \A m \in sensing : HeadOf(m)' = HeadOf(m) /\ best_hop'[m] = best_hop[m]
      /\ \A m, h, k : Announced(m, h, k) => Announced(m, h, k)'
      /\ bc' \subseteq SetupMsg
      /\ AnnouncementsCurrent'
  BY <1>1, <1>2, <1>3, <1>4, DecisionStep
<1>6. SetupTypeOK'
  BY <1>3, <1>5 DEF SetupTypeOK
<1>7. DecidesOnce'
  BY <1>1 DEF DecidesOnce, SetupTypeOK
<1>8. CandidatesAnnounced'
  BY <1>2, <1>5 DEF CandidatesAnnounced, SetupTypeOK
<1>9. HeadsAreHeads'
  <2> SUFFICES ASSUME SinkNeverHeardLate', NEW m \in sensing'
               PROVE  HeadOf(m)' \in Node /\ is_CH'[HeadOf(m)']
    BY DEF HeadsAreHeads
  <2>1. SinkNeverHeardLate
    <3> SUFFICES ASSUME NEW k \in Node, ~is_CH[k] PROVE collecting_best_hop[k] # 0
      BY DEF SinkNeverHeardLate
    <3>1. CASE k = n
      BY <1>1, <3>1, SensingBound DEF DecidesOnce
    <3>2. CASE k # n
      BY <1>2, <3>2 DEF SinkNeverHeardLate, SetupTypeOK
    <3> QED
      BY <3>1, <3>2
  <2>2. CASE m = n
    BY <1>2, <2>2
  <2>3. CASE m # n
    <3>1. HeadOf(m) \in Node /\ is_CH[HeadOf(m)] /\ HeadOf(m)' = HeadOf(m)
      BY <1>5, <2>1, <2>3 DEF HeadsAreHeads
    <3> QED
      BY <1>2, <3>1
  <2> QED
    BY <2>2, <2>3
<1>10. MemberFollowsNeighbour'
  <2> SUFFICES ASSUME NEW k \in Node, Member(k)'
               PROVE  \/ \E m \in sensing' : /\ <<m, k>> \in Link
                                             /\ HeadOf(m)' = our_cluster_head'[k]
                                             /\ best_hop'[k] = best_hop'[m] + 1
                      \/ /\ <<Sink, k>> \in Link
                         /\ our_cluster_head'[k] = rimeaddr_null
                         /\ best_hop'[k] = 0
    BY DEF MemberFollowsNeighbour
  <2>1. k # n /\ Member(k)
    BY <1>2 DEF Member
  <2>2. our_cluster_head'[k] = our_cluster_head[k] /\ best_hop'[k] = best_hop[k]
    BY <2>1 DEF SetupTypeOK
  <2> QED
    BY <1>5, <2>1, <2>2 DEF MemberFollowsNeighbour
<1> QED
  BY <1>5, <1>6, <1>7, <1>8, <1>9, <1>10

\* CH_detect_finished: a mote joins the cluster its candidate announced.
LEMMA DetectFinishedInv ==
  ASSUME SetupInv, NEW n \in Node, CH_detect_finished(n)
  PROVE  SetupInv'
<1> DEFINE head == collecting_best_CH[n]
           hop == collecting_best_hop[n]
<1> USE DEF SetupInv, CH_detect_finished
<1>1. n # Sink /\ n \notin sensing /\ has_seen_setup[n] /\ ~is_CH[n]
  BY DEF DecidesOnce
<1>2. PICK p \in Node : <<p, n>> \in Link /\ Announced(p, head, hop)
  BY <1>1 DEF CandidatesAnnounced
<1>3. /\ head \in Address /\ hop \in HopCount /\ hop \in Nat
      /\ hop <= Cardinality(sensing) /\ (hop = 0 <=> p = Sink)
  BY <1>2, AnnouncedBound DEF SetupTypeOK
<1>4. HeadOf(n)' = head
  BY <1>1 DEF HeadOf, SetupTypeOK
<1>5. /\ HopsBelowDecided'
      /\ \A m \in sensing : HeadOf(m)' = HeadOf(m) /\ best_hop'[m] = best_hop[m]
      /\ \A m, h, k : Announced(m, h, k) => Announced(m, h, k)'
      /\ bc' \subseteq SetupMsg
      /\ AnnouncementsCurrent'
  BY <1>1, <1>3, <1>4, DecisionStep
<1>6. SetupTypeOK'
  BY <1>3, <1>5 DEF SetupTypeOK
<1>7. DecidesOnce'
  BY <1>1 DEF DecidesOnce, SetupTypeOK
<1>8. CandidatesAnnounced'
  BY <1>5 DEF CandidatesAnnounced
<1>9. HeadsAreHeads'
  <2> SUFFICES ASSUME SinkNeverHeardLate, NEW m \in sensing'
               PROVE  HeadOf(m)' \in Node /\ is_CH[HeadOf(m)']
    BY DEF HeadsAreHeads, SinkNeverHeardLate
  <2>1. \A k \in sensing : HeadOf(k) \in Node /\ is_CH[HeadOf(k)]
    BY DEF HeadsAreHeads
  <2>2. CASE m = n
    <3>1. p # Sink
      BY <1>1, <1>3 DEF SinkNeverHeardLate
    <3> QED
      BY <1>2, <1>4, <2>1, <2>2, <3>1 DEF Announced
  <2>3. CASE m # n
    BY <1>5, <2>1, <2>3
  <2> QED
    BY <2>2, <2>3
<1>10. MemberFollowsNeighbour'
  <2> SUFFICES ASSUME NEW k \in Node, Member(k)'
               PROVE  \/ \E m \in sensing' : /\ <<m, k>> \in Link
                                             /\ HeadOf(m)' = our_cluster_head'[k]
                                             /\ best_hop'[k] = best_hop'[m] + 1
                      \/ /\ <<Sink, k>> \in Link
                         /\ our_cluster_head'[k] = rimeaddr_null
                         /\ best_hop'[k] = 0
    BY DEF MemberFollowsNeighbour
  <2>1. CASE k = n
    <3>1. our_cluster_head'[n] = head /\ best_hop'[n] = hop
      BY DEF SetupTypeOK
    <3>2. CASE p = Sink
      BY <1>2, <2>1, <3>1, <3>2 DEF Announced
    <3>3. CASE p # Sink
      <4>1. p \in sensing /\ head = HeadOf(p) /\ hop = best_hop[p] + 1
        BY <1>2, <3>3 DEF Announced
      <4> QED
        BY <1>2, <1>5, <2>1, <3>1, <4>1
    <3> QED
      BY <3>2, <3>3
  <2>2. CASE k # n
    <3>1. Member(k) /\ our_cluster_head'[k] = our_cluster_head[k] /\ best_hop'[k] = best_hop[k]
      BY <2>2 DEF Member, SetupTypeOK
    <3> QED
      BY <1>5, <3>1 DEF MemberFollowsNeighbour
  <2> QED
    BY <2>1, <2>2
<1> QED
  BY <1>5, <1>6, <1>7, <1>8, <1>9, <1>10

(***************************************************************************)
(* Set-up steps and data steps each leave the other's variables alone.     *)
(***************************************************************************)
SetupStep ==
  \/ CH_setup_wait_finished
  \/ \E n \in Node, msg \in bc : BecomeHead(n, msg) \/ HearSetup(n, msg)
  \/ \E n \in Node : CH_detect_finished(n) \/ StbroadcastCancel(n)

DataStep ==
  \/ \E n \in Node : HeadSends(n) \/ MemberSends(n)
  \/ \E n \in Node, p \in mc : MeshRecv(n, p)
  \/ \E p \in mc : MeshLose(p)
  \/ \E n \in Node : RunicastHeard(n) \/ RunicastUnheard(n)

LEMMA StepKinds ==
  [Next]_vars => \/ SetupStep /\ UNCHANGED data_vars
                 \/ DataStep /\ UNCHANGED setup_vars
                 \/ UNCHANGED vars
<1>1. SetupStep => UNCHANGED data_vars
  BY DEF SetupStep, CH_setup_wait_finished, BecomeHead, HearSetup, CH_detect_finished,
         StbroadcastCancel
<1>2. DataStep => UNCHANGED setup_vars
  BY DEF DataStep, HeadSends, MemberSends, MeshRecv, MeshLose, RunicastHeard, RunicastUnheard
<1>3. [Next]_vars => SetupStep \/ DataStep \/ UNCHANGED vars
  BY DEF Next, SetupStep, DataStep
<1> QED
  BY <1>1, <1>2, <1>3

LEMMA SetupStepInv == SetupInv /\ SetupStep => SetupInv'
  BY SetupWaitFinishedInv, BecomeHeadInv, HearSetupInv, DetectFinishedInv, StbroadcastCancelInv
     DEF SetupStep

LEMMA SetupUnchanged == SetupInv /\ UNCHANGED setup_vars => SetupInv'
<1> SUFFICES ASSUME SetupInv, UNCHANGED setup_vars PROVE SetupInv'
  OBVIOUS
<1> USE DEF SetupInv, setup_vars
<1>1. /\ HopsBelowDecided' /\ MemberFollowsNeighbour'
      /\ \A n : HeadOf(n)' = HeadOf(n)
      /\ \A m, head, hop : Announced(m, head, hop)' <=> Announced(m, head, hop)
  BY NobodyDecides
<1>2. SetupTypeOK' /\ DecidesOnce'
  BY DEF SetupTypeOK, DecidesOnce
<1>3. AnnouncementsCurrent' /\ CandidatesAnnounced' /\ HeadsAreHeads'
  BY <1>1 DEF AnnouncementsCurrent, CandidatesAnnounced, HeadsAreHeads, SinkNeverHeardLate
<1> QED
  BY <1>1, <1>2, <1>3

(***************************************************************************)
(* Data.                                                                   *)
(***************************************************************************)
LEMMA DataInit == Init => DataInv
<1> SUFFICES ASSUME Init PROVE DataInv
  OBVIOUS
<1> USE ClusterAssumption DEF Init
<1>1. DataTypeOK
  BY DEF DataTypeOK
<1>2. OriginatorKept /\ SourceIsOriginator
  BY DEF OriginatorKept, SourceIsOriginator
<1>3. Taken = {}
  BY DEF Taken
<1>4. Meshed = {} /\ InChannels = {} /\ Reported = {}
  BY DEF Meshed, InChannels, Reported
<1> QED
  BY <1>1, <1>2, <1>3, <1>4 DEF DataInv, ReadingsAccounted

\* What the channels may hold: packets with the originator behind the reading.
ChannelsOK ==
  /\ rc \in [Node -> Outgoing \cup {Idle}]
  /\ \A n \in Node : rc[n] # Idle => rc[n].appended = <<rc[n].reading[1]>>

\* runicast_send puts the reading into the channel or turns it away.
LEMMA RunicastSendKeeps ==
  ASSUME ChannelsOK, NEW n \in Node, NEW dst \in Address, NEW reading \in Reading,
         RunicastSend(n, dst, reading, <<reading[1]>>)
  PROVE  /\ ChannelsOK'
         /\ refused' \subseteq refused \cup {reading}
         /\ InChannels' \cup refused' = InChannels \cup refused \cup {reading}
<1> DEFINE packet == [dst |-> dst, reading |-> reading, appended |-> <<reading[1]>>,
                      transmissions |-> 1]
<1>1. reading[1] \in Node
  BY DEF Reading
<1>2. packet \in Outgoing
  BY <1>1, ClusterAssumption DEF Outgoing
<1>3. packet # Idle
  BY <1>2, IdleAssumption
<1>4. CASE rc[n] = Idle
  <2>1. rc' = [rc EXCEPT ![n] = packet] /\ refused' = refused
    BY <1>4 DEF RunicastSend
  <2>2. rc'[n] = packet /\ \A m \in Node \ {n} : rc'[m] = rc[m]
    BY <2>1 DEF ChannelsOK
  <2>3. ChannelsOK'
    BY <1>2, <2>1, <2>2 DEF ChannelsOK
  <2>4. InChannels' = InChannels \cup {reading}
    BY <1>3, <1>4, <2>2 DEF InChannels
  <2> QED
    BY <2>1, <2>3, <2>4
<1>5. CASE rc[n] # Idle
  BY <1>5 DEF RunicastSend, ChannelsOK, InChannels
<1> QED
  BY <1>4, <1>5

\* A packet that is not confirmed stays in the channel or is given up.
LEMMA UnconfirmedKeeps ==
  ASSUME ChannelsOK, NEW n \in Node, rc[n] # Idle, Unconfirmed(n)
  PROVE  /\ ChannelsOK'
         /\ lost' \subseteq lost \cup {rc[n].reading}
         /\ lost \subseteq lost'
         /\ InChannels' \cup lost' = InChannels \cup lost
<1>1. rc[n] \in Outgoing /\ rc[n].reading \in InChannels
  BY DEF ChannelsOK, InChannels
<1>2. CASE rc[n].transmissions < MAX_RUNICAST_RETX
  <2> DEFINE again == [rc[n] EXCEPT !.transmissions = @ + 1]
  <2>1. rc' = [rc EXCEPT ![n] = again] /\ lost' = lost
    BY <1>2 DEF Unconfirmed
  <2>2. again \in Outgoing /\ again.reading = rc[n].reading /\ again.appended = rc[n].appended
    BY <1>1, <1>2, ClusterAssumption DEF Outgoing
  <2>3. rc'[n] = again /\ again # Idle /\ \A m \in Node \ {n} : rc'[m] = rc[m]
    BY <2>1, <2>2, IdleAssumption DEF ChannelsOK
  <2>4. ChannelsOK'
    BY <2>1, <2>2, <2>3 DEF ChannelsOK
  <2>5. \A m \in Node : /\ rc'[m] # Idle <=> rc[m] # Idle
                        /\ rc[m] # Idle => rc'[m].reading = rc[m].reading
    BY <2>2, <2>3
  <2>6. InChannels' = InChannels
    BY <2>5 DEF InChannels
  <2> QED
    BY <2>1, <2>4, <2>6
<1>3. CASE ~(rc[n].transmissions < MAX_RUNICAST_RETX)
  <2>1. rc' = [rc EXCEPT ![n] = Idle] /\ lost' = lost \cup {rc[n].reading}
    BY <1>3 DEF Unconfirmed
  <2>2. rc'[n] = Idle /\ \A m \in Node \ {n} : rc'[m] = rc[m]
    BY <2>1 DEF ChannelsOK
  <2>3. ChannelsOK'
    BY <2>1, <2>2 DEF ChannelsOK
  <2>4. InChannels' \cup {rc[n].reading} = InChannels
    BY <1>1, <2>2 DEF InChannels
  <2> QED
    BY <2>1, <2>3, <2>4
<1> QED
  BY <1>2, <1>3

\* Reading the sensors adds the next reading of the mote to those taken.
LEMMA SensesTakes ==
  ASSUME DataTypeOK, SetupTypeOK, NEW n \in Node, Senses(n)
  PROVE  /\ readings' \in [Node -> 0 .. MaxReadings]
         /\ NextReading(n) \in Reading
         /\ NextReading(n)[1] = n
         /\ Taken' = Taken \cup {NextReading(n)}
<1> USE ClusterAssumption DEF Senses, DataTypeOK
<1>1. readings[n] \in Nat /\ readings[n] + 1 \in 1 .. MaxReadings
  OBVIOUS
<1>2. NextReading(n) \in Reading /\ NextReading(n)[1] = n
  BY <1>1 DEF NextReading, Reading
<1>3. readings' \in [Node -> 0 .. MaxReadings]
  BY <1>1
<1>4. readings'[n] = readings[n] + 1 /\ \A m \in Node \ {n} : readings'[m] = readings[m]
  OBVIOUS
<1>5. 1 .. (readings[n] + 1) = (1 .. readings[n]) \cup {readings[n] + 1}
  BY <1>1
<1>6. {n} \X (1 .. readings'[n]) = ({n} \X (1 .. readings[n])) \cup {NextReading(n)}
  BY <1>4, <1>5 DEF NextReading
<1>7. Taken' = Taken \cup {NextReading(n)}
  BY <1>4, <1>6 DEF Taken
<1> QED
  BY <1>2, <1>3, <1>7

LEMMA HeadSendsInv ==
  ASSUME SetupTypeOK, DataInv, NEW n \in Node, HeadSends(n)
  PROVE  DataInv'
<1> USE DEF DataInv, HeadSends
<1>1. /\ readings' \in [Node -> 0 .. MaxReadings]
      /\ NextReading(n) \in Reading
      /\ NextReading(n)[1] = n
      /\ Taken' = Taken \cup {NextReading(n)}
  BY SensesTakes
<1>2. ChannelsOK /\ Sink \in Address
  BY ClusterAssumption DEF ChannelsOK, DataTypeOK, OriginatorKept, Address
<1>3. /\ ChannelsOK'
      /\ refused' \subseteq refused \cup {NextReading(n)}
      /\ InChannels' \cup refused' = InChannels \cup refused \cup {NextReading(n)}
  BY <1>1, <1>2, RunicastSendKeeps
<1>4. DataTypeOK' /\ OriginatorKept' /\ SourceIsOriginator'
  BY <1>1, <1>3 DEF DataTypeOK, OriginatorKept, SourceIsOriginator, ChannelsOK
<1>5. Meshed' = Meshed /\ Reported' = Reported
  BY DEF Meshed, Reported
<1>6. ReadingsAccounted'
  BY <1>1, <1>3, <1>5 DEF ReadingsAccounted
<1> QED
  BY <1>4, <1>6

LEMMA MemberSendsInv ==
  ASSUME SetupTypeOK, DataInv, NEW n \in Node, MemberSends(n)
  PROVE  DataInv'
<1> DEFINE packet == [originator |-> n, dst |-> our_cluster_head[n], reading |-> NextReading(n)]
<1> USE DEF DataInv, MemberSends
<1>1. /\ readings' \in [Node -> 0 .. MaxReadings]
      /\ NextReading(n) \in Reading
      /\ NextReading(n)[1] = n
      /\ Taken' = Taken \cup {NextReading(n)}
  BY SensesTakes
<1>2. packet \in MeshPacket
  BY <1>1 DEF MeshPacket, SetupTypeOK
<1>3. DataTypeOK'
  BY <1>1, <1>2 DEF DataTypeOK
<1>4. OriginatorKept' /\ SourceIsOriginator'
  BY <1>1 DEF OriginatorKept, SourceIsOriginator
<1>5. Meshed' = Meshed \cup {NextReading(n)}
  <2>1. mc' = mc \cup {packet} /\ packet.reading = NextReading(n)
    OBVIOUS
  <2> HIDE DEF packet
  <2> QED
    BY <2>1 DEF Meshed
<1>6. InChannels' = InChannels /\ Reported' = Reported
  BY DEF InChannels, Reported
<1>7. ReadingsAccounted'
  BY <1>1, <1>5, <1>6 DEF ReadingsAccounted
<1> QED
  BY <1>3, <1>4, <1>7

LEMMA MeshRecvInv ==
  ASSUME SetupTypeOK, DataInv, NEW n \in Node, NEW p \in mc, MeshRecv(n, p)
  PROVE  DataInv'
<1> USE DEF DataInv, MeshRecv
<1>1. p.reading \in Reading /\ p.originator = p.reading[1]
  BY DEF DataTypeOK, MeshPacket, OriginatorKept
<1>2. ChannelsOK /\ our_cluster_head[n] \in Address
  BY DEF ChannelsOK, DataTypeOK, OriginatorKept, SetupTypeOK
<1>3. /\ ChannelsOK'
      /\ refused' \subseteq refused \cup {p.reading}
      /\ InChannels' \cup refused' = InChannels \cup refused \cup {p.reading}
  BY <1>1, <1>2, RunicastSendKeeps
<1>4. DataTypeOK' /\ OriginatorKept' /\ SourceIsOriginator'
  BY <1>1, <1>3 DEF DataTypeOK, OriginatorKept, SourceIsOriginator, ChannelsOK
<1>5. Meshed' \cup {p.reading} = Meshed
  BY DEF Meshed
<1>6. Taken' = Taken /\ Reported' = Reported
  BY DEF Taken, Reported
<1>7. ReadingsAccounted'
  BY <1>3, <1>5, <1>6 DEF ReadingsAccounted
<1> QED
  BY <1>4, <1>7

LEMMA MeshLoseInv ==
  ASSUME DataInv, NEW p \in mc, MeshLose(p)
  PROVE  DataInv'
<1> USE DEF DataInv, MeshLose
<1>1. DataTypeOK'
  BY DEF DataTypeOK, MeshPacket
<1>2. OriginatorKept' /\ SourceIsOriginator'
  BY DEF OriginatorKept, SourceIsOriginator
<1>3. Meshed' \cup {p.reading} = Meshed
  BY DEF Meshed
<1>4. Taken' = Taken /\ InChannels' = InChannels /\ Reported' = Reported
  BY DEF Taken, InChannels, Reported
<1>5. ReadingsAccounted'
  BY <1>3, <1>4 DEF ReadingsAccounted
<1> QED
  BY <1>1, <1>2, <1>5

\* runicast_recv: the report names the reading and its originator, nothing else.
LEMMA ReportKeeps ==
  ASSUME DataInv, NEW n \in Node, rc[n] # Idle, RunicastRecv(rc[n])
  PROVE  /\ reports' \subseteq Report /\ SourceIsOriginator'
         /\ Reported' = Reported \cup {rc[n].reading}
<1> DEFINE out == rc[n]
           rep == [reading |-> out.reading, source |-> out.reading[1], left |-> << >>]
<1>1. out.reading \in Reading /\ out.reading[1] \in Node
  BY DEF DataInv, DataTypeOK, Outgoing, Reading
<1>2. out.appended = <<out.reading[1]>>
  BY DEF DataInv, OriginatorKept
<1>3. /\ out.appended[Len(out.appended)] = out.reading[1]
      /\ SubSeq(out.appended, 1, Len(out.appended) - 1) = << >>
  BY <1>1, <1>2
<1>4. reports' = reports \cup {rep}
  BY <1>3 DEF RunicastRecv
<1>5. rep \in Report
  BY <1>1 DEF Report
<1>6. rep.reading = out.reading /\ rep.source = rep.reading[1] /\ rep.left = << >>
  OBVIOUS
<1> HIDE DEF rep
<1>7. SourceIsOriginator'
  BY <1>4, <1>6 DEF SourceIsOriginator, DataInv
<1>8. Reported' = Reported \cup {out.reading}
  BY <1>4, <1>6 DEF Reported
<1> QED
  BY <1>4, <1>5, <1>7, <1>8 DEF DataInv, DataTypeOK

LEMMA RunicastHeardInv ==
  ASSUME DataInv, NEW n \in Node, RunicastHeard(n)
  PROVE  DataInv'
<1> USE DEF DataInv, RunicastHeard
<1>1. /\ reports' \subseteq Report /\ SourceIsOriginator'
      /\ Reported' = Reported \cup {rc[n].reading}
  BY ReportKeeps
<1>2. ChannelsOK /\ rc[n].reading \in Reading /\ rc[n].reading \in InChannels
  BY DEF ChannelsOK, DataTypeOK, OriginatorKept, Outgoing, InChannels
<1>3. /\ ChannelsOK'
      /\ lost' \subseteq lost \cup {rc[n].reading}
      /\ InChannels' \cup lost' \cup {rc[n].reading} = InChannels \cup lost
  <2>1. CASE rc' = [rc EXCEPT ![n] = Idle] /\ lost' = lost
    <3>1. rc'[n] = Idle /\ \A m \in Node \ {n} : rc'[m] = rc[m]
      BY <1>2, <2>1 DEF ChannelsOK
    <3>2. ChannelsOK'
      BY <1>2, <2>1, <3>1 DEF ChannelsOK
    <3>3. InChannels' \cup {rc[n].reading} = InChannels
      BY <1>2, <3>1 DEF InChannels
    <3> QED
      BY <2>1, <3>2, <3>3
  <2>2. CASE Unconfirmed(n)
    BY <1>2, <2>2, UnconfirmedKeeps
  <2> QED
    BY <2>1, <2>2
<1>4. DataTypeOK' /\ OriginatorKept'
  BY <1>1, <1>2, <1>3 DEF DataTypeOK, OriginatorKept, ChannelsOK
<1>5. Taken' = Taken /\ Meshed' = Meshed
  BY DEF Taken, Meshed
<1>6. ReadingsAccounted'
  BY <1>1, <1>2, <1>3, <1>5 DEF ReadingsAccounted
<1> QED
  BY <1>1, <1>4, <1>6

LEMMA RunicastUnheardInv ==
  ASSUME DataInv, NEW n \in Node, RunicastUnheard(n)
  PROVE  DataInv'
<1> USE DEF DataInv, RunicastUnheard
<1>1. ChannelsOK /\ rc[n].reading \in Reading
  BY DEF ChannelsOK, DataTypeOK, OriginatorKept, Outgoing
<1>2. /\ ChannelsOK'
      /\ lost' \subseteq lost \cup {rc[n].reading}
      /\ InChannels' \cup lost' = InChannels \cup lost
  BY <1>1, UnconfirmedKeeps
<1>3. DataTypeOK' /\ OriginatorKept' /\ SourceIsOriginator'
  BY <1>1, <1>2 DEF DataTypeOK, OriginatorKept, SourceIsOriginator, ChannelsOK
<1>4. Taken' = Taken /\ Meshed' = Meshed /\ Reported' = Reported
  BY DEF Taken, Meshed, Reported
<1>5. ReadingsAccounted'
  BY <1>2, <1>4 DEF ReadingsAccounted
<1> QED
  BY <1>3, <1>5

LEMMA DataStepInv == SetupTypeOK /\ DataInv /\ DataStep => DataInv'
  BY HeadSendsInv, MemberSendsInv, MeshRecvInv, MeshLoseInv, RunicastHeardInv, RunicastUnheardInv
     DEF DataStep

LEMMA DataUnchanged == DataInv /\ UNCHANGED data_vars => DataInv'
  BY DEF DataInv, data_vars, DataTypeOK, OriginatorKept, SourceIsOriginator,
         ReadingsAccounted, Taken, Meshed, InChannels, Reported

\* The invariant is inductive.
LEMMA NextInv == Inv /\ [Next]_vars => Inv'
<1> SUFFICES ASSUME Inv, [Next]_vars PROVE Inv'
  OBVIOUS
<1> USE DEF Inv
<1>1. CASE SetupStep /\ UNCHANGED data_vars
  BY <1>1, SetupStepInv, DataUnchanged
<1>2. CASE DataStep /\ UNCHANGED setup_vars
  BY <1>2, DataStepInv, SetupUnchanged DEF SetupInv
<1>3. CASE UNCHANGED vars
  BY <1>3, SetupUnchanged, DataUnchanged DEF vars
<1> QED
  BY <1>1, <1>2, <1>3, StepKinds

(***************************************************************************)
(* The inductive invariant of one level of clusters.                       *)
(***************************************************************************)
THEOREM ClusterInvariant == Spec => []Inv
<1>1. Init => Inv
  BY SetupInit, DataInit DEF Inv
<1> QED
  BY <1>1, NextInv, PTL DEF Spec

\* Every variable keeps its type: heads are addresses, and what the channels, the
\* mesh and the reports hold is well formed.
THEOREM ClusterTypeCorrect == Spec => []TypeOK
<1>1. Inv => TypeOK
  BY DEF Inv, SetupInv, DataInv, TypeOK
<1> QED
  BY <1>1, ClusterInvariant, PTL

(***************************************************************************)
(* The sum hop + 1 (cluster.c:110) is exact: Announcement takes it modulo  *)
(* UINT_MAX + 1 as an unsigned int does, and still a mote announces one    *)
(* more than the hop count it has adopted, which is below UINT_MAX.        *)
(***************************************************************************)
HopsExact ==
  /\ \A n \in sensing : best_hop[n] < UINT_MAX
  /\ \A msg \in bc : msg.source # Sink =>
       msg.source \in sensing /\ msg.hop_count = best_hop[msg.source] + 1

\* No hop count wraps in a network of at most UINT_MAX motes, however its
\* messages are ordered; all are below the number of motes that have decided.
THEOREM HopCountsNeverWrap == Spec => [](HopsBelowDecided /\ HopsExact)
<1>1. ASSUME Inv PROVE HopsBelowDecided /\ HopsExact
  <2>1. SetupTypeOK /\ DecidesOnce /\ AnnouncementsCurrent /\ HopsBelowDecided
    BY <1>1 DEF Inv, SetupInv
  <2>2. Cardinality(sensing) \in Nat /\ Cardinality(sensing) < UINT_MAX
    BY <2>1, SensingBound
  <2>3. ASSUME NEW n \in sensing PROVE best_hop[n] < UINT_MAX
    <3>1. best_hop[n] \in Nat /\ best_hop[n] < Cardinality(sensing)
      BY <2>1 DEF SetupTypeOK, HopCount, HopsBelowDecided
    <3> QED
      BY <3>1, <2>2, ClusterAssumption
  <2>4. \A msg \in bc : msg.source # Sink =>
          msg.source \in sensing /\ msg.hop_count = best_hop[msg.source] + 1
    BY <2>1 DEF AnnouncementsCurrent, Announced
  <2> QED
    BY <2>1, <2>3, <2>4 DEF HopsExact
<1> QED
  BY <1>1, ClusterInvariant, PTL

\* A cluster is connected, in every network and for every order of messages: a
\* member's head is the head of a mote that it hears and that is one hop closer.
THEOREM ClustersAreConnected == Spec => []MemberFollowsNeighbour
<1>1. Inv => MemberFollowsNeighbour
  BY DEF Inv, SetupInv
<1> QED
  BY <1>1, ClusterInvariant, PTL

\* As long as no member has heard the sink late, the head of every member is a
\* mote that knows it is a cluster head.
THEOREM HeadsAreClusterHeads == Spec => []MembersHaveHeadsInOrder
<1>1. Inv => MembersHaveHeadsInOrder
  BY DEF Inv, SetupInv, HeadsAreHeads, MembersHaveHeadsInOrder, MembersHaveHeads, Member, HeadOf
<1> QED
  BY <1>1, ClusterInvariant, PTL

\* No reading leaves the network without a trace, and none is reported that was
\* not taken, however often packets are lost or sent again.
THEOREM NoReadingVanishes == Spec => []ReadingsAccounted
<1>1. Inv => ReadingsAccounted
  BY DEF Inv, DataInv
<1> QED
  BY <1>1, ClusterInvariant, PTL

\* The user is told the mote that took the reading, however it travelled.
THEOREM SourcesAreOriginators == Spec => []SourceIsOriginator
<1>1. Inv => SourceIsOriginator
  BY DEF Inv, DataInv
<1> QED
  BY <1>1, ClusterInvariant, PTL

(***************************************************************************)
(* A decision is final: whoever senses keeps its head, its hop count and   *)
(* whether it is a head itself, whatever it hears later.                   *)
(***************************************************************************)
DecisionFinal ==
  \A n \in sensing :
    /\ n \in sensing'
    /\ is_CH'[n] = is_CH[n]
    /\ our_cluster_head'[n] = our_cluster_head[n]
    /\ best_hop'[n] = best_hop[n]

THEOREM DecisionsAreFinal == Spec => [][DecisionFinal]_vars
<1>1. ASSUME SetupInv, SetupStep PROVE DecisionFinal
  <2> USE <1>1 DEF SetupInv
  <2>1. ASSUME NEW n \in Node, NEW msg \in bc, BecomeHead(n, msg)
        PROVE  DecisionFinal
    BY <2>1 DEF BecomeHead, DecisionFinal, DecidesOnce, SetupTypeOK
  <2>2. ASSUME NEW n \in Node, CH_detect_finished(n)
        PROVE  DecisionFinal
    BY <2>2 DEF CH_detect_finished, DecisionFinal, DecidesOnce, SetupTypeOK
  <2>3. ASSUME UNCHANGED <<is_CH, our_cluster_head, best_hop, sensing>>
        PROVE  DecisionFinal
    BY <2>3 DEF DecisionFinal
  <2> QED
    BY <2>1, <2>2, <2>3
       DEF SetupStep, CH_setup_wait_finished, HearSetup, StbroadcastCancel
<1>2. UNCHANGED setup_vars => DecisionFinal
  BY DEF setup_vars, DecisionFinal
<1>3. Inv /\ [Next]_vars => [DecisionFinal]_vars
  BY <1>1, <1>2, StepKinds DEF Inv, vars
<1> QED
  BY <1>3, ClusterInvariant, PTL DEF Spec
===============================================================================
