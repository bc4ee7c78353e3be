--------------------------- MODULE HCluster_proofs ---------------------------
(***************************************************************************)
(* Proofs about HCluster, for every set of motes, every set of links, any  *)
(* cluster_depth and every counter width that the network fits in.         *)
(***************************************************************************)
EXTENDS HCluster, FiniteSetTheorems, SequenceTheorems, TLAPS

(***************************************************************************)
(* The sink never decides, so fewer motes than UINT_MAX do.                *)
(***************************************************************************)
LEMMA DecidedBound ==
  ASSUME DecidesOnce
  PROVE  /\ IsFiniteSet(Decided)
         /\ Cardinality(Decided) \in Nat
         /\ Cardinality(Decided) < UINT_MAX
<1>1. IsFiniteSet(Decided)
  BY HClusterAssumption, FS_Subset DEF Decided
<1>2. Cardinality(Decided \cup {Sink}) = Cardinality(Decided) + 1
  BY <1>1, FS_AddElement DEF DecidesOnce
<1>3. Decided \cup {Sink} \subseteq Node
  BY HClusterAssumption DEF Decided
<1>4. Cardinality(Decided \cup {Sink}) <= Cardinality(Node)
  BY <1>3, HClusterAssumption, FS_Subset
<1>5. Cardinality(Decided) \in Nat /\ Cardinality(Node) \in Nat
  BY <1>1, HClusterAssumption, FS_CardinalityType
<1> QED
  BY <1>1, <1>2, <1>4, <1>5, HClusterAssumption

\* The types of what a mote has adopted, and what its decision says.
LEMMA DecidedFacts ==
  ASSUME SetupInv, NEW n \in Decided
  PROVE  /\ n \in Node /\ n # Sink
         /\ our_cluster_head[n] \in Node
         /\ best_hop[n] \in Nat /\ best_hop[n] <= cluster_depth
         /\ our_level[n] \in Nat /\ our_level[n] >= 1
         /\ our_level[n] <= Cardinality(Decided)
         /\ is_CH[n] \in BOOLEAN
         /\ our_cluster_head[n] = Sink => is_CH[n] /\ our_level[n] = 1 /\ best_hop[n] = 0
         /\ our_cluster_head[n] # Sink =>
              our_cluster_head[n] \in sensing /\ is_CH[our_cluster_head[n]]
<1> USE DEF SetupInv
<1>1. n \in Node /\ our_cluster_head[n] # rimeaddr_null
  BY DEF Decided
<1>2. /\ our_cluster_head[n] \in Node /\ best_hop[n] \in Nat /\ our_level[n] \in Nat
      /\ is_CH[n] \in BOOLEAN
  BY <1>1 DEF SetupTypeOK, Address, Counter
<1>3. n # Sink /\ our_level[Sink] = 0
  BY HClusterAssumption DEF DecidesOnce
<1>4. Cardinality(Decided) \in Nat
  BY DecidedBound
<1>5. our_level[n] >= 1 /\ our_level[n] <= Cardinality(Decided)
  BY <1>2, <1>4 DEF LevelsBelowDecided
<1>6. best_hop[n] <= cluster_depth
  BY <1>2, HClusterAssumption DEF HopsWithinDepth
<1>7. our_cluster_head[n] = Sink => is_CH[n] /\ our_level[n] = 1
  BY <1>2, <1>3 DEF HeadsClimb
<1>8. our_cluster_head[n] = Sink => best_hop[n] = 0
  BY <1>7 DEF HopsWithinDepth
<1>9. our_cluster_head[n] # Sink =>
        our_cluster_head[n] \in sensing /\ is_CH[our_cluster_head[n]]
  BY DEF HeadsClimb
<1> QED
  BY <1>1, <1>2, <1>3, <1>5, <1>6, <1>7, <1>8, <1>9

(***************************************************************************)
(* What an announced mote offers: a head on the level it offers, that is   *)
(* ready to pass readings on, at a hop count within the depth.             *)
(***************************************************************************)
LEMMA OfferFacts ==
  ASSUME SetupInv, NEW m \in Announced
  PROVE  /\ m \in Node
         /\ AnnouncedHead(m) \in Node
         /\ AnnouncedHop(m) \in Nat /\ AnnouncedHop(m) <= cluster_depth
         /\ our_level[m] \in Nat /\ our_level[m] <= Cardinality(Decided)
         /\ our_level[m] = 0 <=> m = Sink
         /\ our_level[AnnouncedHead(m)] = our_level[m]
         /\ AnnouncedHead(m) = Sink => m = Sink
         /\ AnnouncedHead(m) # Sink =>
              AnnouncedHead(m) \in sensing /\ is_CH[AnnouncedHead(m)]
         /\ AnnouncedHop(m) = 0 => AnnouncedHead(m) = m
<1> USE DEF SetupInv
<1>1. CASE m = Sink
  <2>1. our_level[Sink] = 0 /\ Sink \in Node
    BY HClusterAssumption DEF DecidesOnce
  <2>2. 0 <= Cardinality(Decided)
    BY DecidedBound
  <2>3. AnnouncedHead(m) = Sink /\ AnnouncedHop(m) = cluster_depth
    BY <1>1 DEF AnnouncedHead, AnnouncedHop
  <2> QED
    BY <1>1, <2>1, <2>2, <2>3, HClusterAssumption
<1>2. CASE m # Sink
  <2>1. m \in sensing /\ m \in Decided
    BY <1>2 DEF Announced, DecidesOnce
  <2>2. /\ m \in Node /\ our_cluster_head[m] \in Node
        /\ best_hop[m] \in Nat /\ best_hop[m] <= cluster_depth
        /\ our_level[m] \in Nat /\ our_level[m] >= 1
        /\ our_level[m] <= Cardinality(Decided)
        /\ our_cluster_head[m] = Sink => is_CH[m]
        /\ our_cluster_head[m] # Sink =>
              our_cluster_head[m] \in sensing /\ is_CH[our_cluster_head[m]]
    BY <2>1, DecidedFacts
  <2>3. CASE is_CH[m]
    BY <1>2, <2>1, <2>2, <2>3, HClusterAssumption DEF AnnouncedHead, AnnouncedHop, HeadOf
  <2>4. CASE ~is_CH[m]
    <3>1. AnnouncedHead(m) = our_cluster_head[m] /\ AnnouncedHop(m) = best_hop[m] + 1
      BY <1>2, <2>4 DEF AnnouncedHead, AnnouncedHop, HeadOf
    <3>2. best_hop[m] < cluster_depth
      BY <2>1, <2>4 DEF HopsWithinDepth
    <3>3. our_level[m] = our_level[our_cluster_head[m]] + 0
      BY <2>1, <2>4 DEF HeadsClimb
    <3>4. our_level[m] = our_level[our_cluster_head[m]]
      BY <2>2, <3>3 DEF SetupTypeOK, Counter
    <3>5. AnnouncedHop(m) # 0 /\ AnnouncedHop(m) \in Nat /\ AnnouncedHop(m) <= cluster_depth
      BY <2>2, <3>1, <3>2, HClusterAssumption
    <3> QED
      BY <1>2, <2>2, <2>4, <3>1, <3>4, <3>5
  <2> QED
    BY <2>3, <2>4
<1> QED
  BY <1>1, <1>2

\* cluster_open establishes the set-up invariant.
LEMMA SetupInit == Init => SetupInv
<1> SUFFICES ASSUME Init PROVE SetupInv
  OBVIOUS
<1> USE HClusterAssumption DEF Init
<1>1. SetupTypeOK
  BY DEF SetupTypeOK, Candidate, Address, Counter, SetupMsg
<1>2. Decided = {}
  BY DEF Decided
<1>3. DecidesOnce
  BY <1>2 DEF DecidesOnce
<1>4. AnnouncementsCurrent /\ CandidatesAnnounced
  BY DEF AnnouncementsCurrent, CandidatesAnnounced
<1>5. LevelsBelowDecided /\ HopsWithinDepth /\ HeadsClimb /\ ClustersConnected /\ WithinRange
  BY <1>2 DEF LevelsBelowDecided, HopsWithinDepth, HeadsClimb, ClustersConnected, WithinRange
<1> QED
  BY <1>1, <1>3, <1>4, <1>5 DEF SetupInv

(***************************************************************************)
(* Steps in which nobody decides keep what only speaks of decisions.       *)
(***************************************************************************)
LEMMA NobodyDecides ==
  ASSUME SetupInv, UNCHANGED adopted_vars, sensing \subseteq sensing',
         setup_wait_ct' => setup_wait_ct
  PROVE  /\ Decided' = Decided
         /\ Announced \subseteq Announced'
         /\ \A m : AnnouncedOffer(m)' = AnnouncedOffer(m)
         /\ LevelsBelowDecided' /\ HopsWithinDepth'
         /\ HeadsClimb' /\ ClustersConnected' /\ WithinRange'
<1> USE DEF SetupInv, adopted_vars
<1>1. Decided' = Decided
  BY DEF Decided
<1>2. Announced \subseteq Announced'
  BY DEF Announced
<1>3. \A m : AnnouncedHead(m)' = AnnouncedHead(m) /\ AnnouncedHop(m)' = AnnouncedHop(m)
  BY DEF AnnouncedHead, AnnouncedHop, HeadOf
<1>4. \A m : AnnouncedOffer(m)' = AnnouncedOffer(m)
  BY <1>3 DEF AnnouncedOffer
<1>5. LevelsBelowDecided' /\ HopsWithinDepth' /\ WithinRange'
  BY <1>1 DEF LevelsBelowDecided, HopsWithinDepth, WithinRange
<1>6. HeadsClimb'
  BY <1>1 DEF HeadsClimb
<1>7. ClustersConnected'
  BY <1>1, <1>2, <1>3 DEF ClustersConnected
<1> QED
  BY <1>1, <1>2, <1>4, <1>5, <1>6, <1>7

\* The sink's first message keeps it.
LEMMA SetupWaitFinishedInv ==
  ASSUME SetupInv, CH_setup_wait_finished
  PROVE  SetupInv'
<1> DEFINE first == [source |-> Sink, head |-> Sink,
                     head_level |-> our_level[Sink], hop_count |-> cluster_depth]
<1> USE DEF SetupInv, CH_setup_wait_finished
<1>1. /\ Decided' = Decided
      /\ Announced \subseteq Announced'
      /\ \A m : AnnouncedOffer(m)' = AnnouncedOffer(m)
      /\ LevelsBelowDecided' /\ HopsWithinDepth'
      /\ HeadsClimb' /\ ClustersConnected' /\ WithinRange'
  BY NobodyDecides
<1>2. first \in SetupMsg
  BY HClusterAssumption DEF SetupMsg, Address, Counter, SetupTypeOK
<1>3. \A m \in bc' : m \in bc \/ m = first
  BY DEF Stubborn, Cancelled
<1>4. SetupTypeOK'
  BY <1>2, <1>3 DEF SetupTypeOK, adopted_vars
<1>5. Sink \in Announced' /\ Offer(first) = AnnouncedOffer(Sink)
  BY DEF Announced, Offer, AnnouncedOffer, AnnouncedHead, AnnouncedHop
<1>6. first.source = Sink
  OBVIOUS
<1> HIDE DEF first
<1>7. AnnouncementsCurrent'
  BY <1>1, <1>3, <1>5, <1>6 DEF AnnouncementsCurrent, Offer
<1>8. DecidesOnce'
  BY <1>1 DEF DecidesOnce, adopted_vars
<1>9. CandidatesAnnounced'
  BY <1>1 DEF CandidatesAnnounced
<1> QED
  BY <1>1, <1>4, <1>7, <1>8, <1>9

\* Cancelling a broadcast only removes a message.
LEMMA StbroadcastCancelInv ==
  ASSUME SetupInv, NEW n \in Node, StbroadcastCancel(n)
  PROVE  SetupInv'
<1> USE DEF SetupInv, StbroadcastCancel
<1>1. /\ Decided' = Decided
      /\ Announced \subseteq Announced'
      /\ \A m : AnnouncedOffer(m)' = AnnouncedOffer(m)
      /\ LevelsBelowDecided' /\ HopsWithinDepth'
      /\ HeadsClimb' /\ ClustersConnected' /\ WithinRange'
  BY NobodyDecides
<1>2. bc' \subseteq bc
  BY DEF Cancelled
<1>3. SetupTypeOK'
  BY <1>2 DEF SetupTypeOK, adopted_vars
<1>4. AnnouncementsCurrent'
  BY <1>1, <1>2 DEF AnnouncementsCurrent, Offer
<1>5. DecidesOnce'
  BY <1>1 DEF DecidesOnce, adopted_vars
<1>6. CandidatesAnnounced'
  BY <1>1 DEF CandidatesAnnounced
<1> QED
  BY <1>1, <1>3, <1>4, <1>5, <1>6

\* recv_setup: the new candidate is the offer of a mote that has announced itself.
LEMMA HearSetupInv ==
  ASSUME SetupInv, NEW n \in Node, NEW msg \in bc, HearSetup(n, msg)
  PROVE  SetupInv'
<1> USE DEF SetupInv, HearSetup
<1>1. /\ Decided' = Decided
      /\ Announced \subseteq Announced'
      /\ \A m : AnnouncedOffer(m)' = AnnouncedOffer(m)
      /\ LevelsBelowDecided' /\ HopsWithinDepth'
      /\ HeadsClimb' /\ ClustersConnected' /\ WithinRange'
  BY NobodyDecides
<1>2. Offer(msg) \in Candidate
  BY DEF SetupTypeOK, SetupMsg, Candidate, Offer
<1>3. msg.source \in Announced /\ Offer(msg) = AnnouncedOffer(msg.source)
  BY DEF AnnouncementsCurrent
<1>4. SetupTypeOK'
  BY <1>2 DEF SetupTypeOK, adopted_vars
<1>5. DecidesOnce'
  BY <1>1 DEF DecidesOnce, SetupTypeOK, adopted_vars
<1>6. AnnouncementsCurrent'
  BY <1>1 DEF AnnouncementsCurrent, Offer
<1>7. CandidatesAnnounced'
  <2> SUFFICES ASSUME NEW k \in Node, has_seen_setup'[k]
               PROVE  \E m \in Announced :
                        <<m, k>> \in Link /\ collecting_best'[k] = AnnouncedOffer(m)
    BY <1>1 DEF CandidatesAnnounced
  <2>1. CASE k = n /\ collecting_best'[n] = Offer(msg)
    BY <1>3, <2>1
  <2>2. CASE k # n \/ (collecting_best'[n] = collecting_best[n] /\ has_seen_setup[n])
    BY <2>2 DEF CandidatesAnnounced, SetupTypeOK
  <2>3. collecting_best'[n] = Offer(msg)
          \/ (collecting_best'[n] = collecting_best[n] /\ has_seen_setup[n])
    BY DEF SetupTypeOK
  <2> QED
    BY <2>1, <2>2, <2>3
<1> QED
  BY <1>1, <1>4, <1>5, <1>6, <1>7

\* forward_setup announces what the mote has adopted; the hop count does not wrap.
LEMMA ForwardSetupInv ==
  ASSUME SetupInv, NEW n \in Node, ForwardSetup(n)
  PROVE  SetupInv'
<1> USE DEF SetupInv, ForwardSetup
<1>1. /\ Decided' = Decided
      /\ Announced \subseteq Announced'
      /\ \A m : AnnouncedOffer(m)' = AnnouncedOffer(m)
      /\ LevelsBelowDecided' /\ HopsWithinDepth'
      /\ HeadsClimb' /\ ClustersConnected' /\ WithinRange'
  BY NobodyDecides
<1>2. n \in Decided /\ n # Sink
  BY DEF DecidesOnce
<1>3. /\ our_cluster_head[n] \in Node
      /\ best_hop[n] \in Nat /\ best_hop[n] <= cluster_depth
  BY <1>2, DecidedFacts
<1>4. (best_hop[n] + 1) % (UINT_MAX + 1) = best_hop[n] + 1
  BY <1>3, HClusterAssumption
<1>5. Announcement(n).source = n /\ Offer(Announcement(n)) = AnnouncedOffer(n)
  BY <1>2, <1>4 DEF Announcement, Offer, AnnouncedOffer, AnnouncedHead, AnnouncedHop
<1>6. Announcement(n) \in SetupMsg
  <2>1. HeadOf(n) \in Address /\ our_level[n] \in Counter
    BY <1>3 DEF HeadOf, Address, SetupTypeOK
  <2>2. (IF is_CH[n] THEN 0 ELSE best_hop[n] + 1) \in Counter
    BY <1>3, HClusterAssumption DEF Counter
  <2> QED
    BY <1>4, <2>1, <2>2 DEF Announcement, SetupMsg
<1>7. \A m \in bc' : m \in bc \/ m = Announcement(n)
  BY DEF Stubborn, Cancelled
<1>8. SetupTypeOK'
  BY <1>6, <1>7 DEF SetupTypeOK, adopted_vars
<1>9. n \in Announced'
  BY DEF Announced
<1>10. AnnouncementsCurrent'
  BY <1>1, <1>5, <1>7, <1>9 DEF AnnouncementsCurrent, Offer
<1>11. DecidesOnce'
  BY <1>1, <1>2 DEF DecidesOnce, adopted_vars
<1>12. CandidatesAnnounced'
  BY <1>1 DEF CandidatesAnnounced
<1> QED
  BY <1>1, <1>8, <1>10, <1>11, <1>12

(***************************************************************************)
(* CH_detect_finished.  Mote n decides, by the offer of a mote it hears;   *)
(* what the motes that decided before have adopted stays.                  *)
(***************************************************************************)
LEMMA DecisionFacts ==
  ASSUME SetupInv, NEW n \in Node, CH_detect_finished(n)
  PROVE  /\ n \notin Decided /\ n # Sink
         /\ \A m \in Node \ {n} : /\ our_cluster_head'[m] = our_cluster_head[m]
                                  /\ best_hop'[m] = best_hop[m]
                                  /\ our_level'[m] = our_level[m]
                                  /\ is_CH'[m] = is_CH[m]
         /\ Decided' = Decided \cup {n}
         /\ Cardinality(Decided') = Cardinality(Decided) + 1
         /\ Announced' = Announced
         /\ \E m \in Announced :
              /\ <<m, n>> \in Link
              /\ our_cluster_head'[n] = AnnouncedHead(m)
              /\ is_CH'[n] <=> AnnouncedHop(m) = cluster_depth
              /\ our_level'[n] = our_level[m] + (IF is_CH'[n] THEN 1 ELSE 0)
              /\ best_hop'[n] = IF is_CH'[n] /\ our_level'[n] = 1 THEN 0 ELSE AnnouncedHop(m)
<1> USE DEF SetupInv, CH_detect_finished
<1>1. n \notin Decided /\ has_seen_setup[n] /\ n # Sink
  BY DEF DecidesOnce
<1>2. PICK m \in Announced : <<m, n>> \in Link /\ collecting_best[n] = AnnouncedOffer(m)
  BY <1>1 DEF CandidatesAnnounced
<1>3. /\ AnnouncedHead(m) \in Node
      /\ our_level[m] \in Nat /\ our_level[m] <= Cardinality(Decided)
  BY OfferFacts
<1>4. Cardinality(Decided) \in Nat /\ Cardinality(Decided) < UINT_MAX /\ IsFiniteSet(Decided)
  BY DecidedBound
<1>5. /\ collecting_best[n].head = AnnouncedHead(m)
      /\ collecting_best[n].level = our_level[m]
      /\ collecting_best[n].hop = AnnouncedHop(m)
  BY <1>2 DEF AnnouncedOffer
<1>6. NextLevel(collecting_best[n]) =
        our_level[m] + (IF AnnouncedHop(m) = cluster_depth THEN 1 ELSE 0)
  BY <1>3, <1>4, <1>5, HClusterAssumption DEF NextLevel, BecomesHead
<1>7. \A k \in Node \ {n} : /\ our_cluster_head'[k] = our_cluster_head[k]
                            /\ best_hop'[k] = best_hop[k]
                            /\ our_level'[k] = our_level[k]
                            /\ is_CH'[k] = is_CH[k]
  BY DEF SetupTypeOK
<1>8. /\ our_cluster_head'[n] = AnnouncedHead(m)
      /\ is_CH'[n] = (AnnouncedHop(m) = cluster_depth)
      /\ our_level'[n] = NextLevel(collecting_best[n])
      /\ best_hop'[n] = NextHop(collecting_best[n])
  BY <1>5 DEF SetupTypeOK, BecomesHead
<1>9. best_hop'[n] = IF is_CH'[n] /\ our_level'[n] = 1 THEN 0 ELSE AnnouncedHop(m)
  BY <1>5, <1>8 DEF NextHop, BecomesHead
<1>10. Decided' = Decided \cup {n}
  BY <1>3, <1>7, <1>8, HClusterAssumption DEF Decided
<1>11. Cardinality(Decided') = Cardinality(Decided) + 1
  BY <1>1, <1>4, <1>10, FS_AddElement
<1>12. Announced' = Announced
  BY DEF Announced
<1>13. our_level'[n] = our_level[m] + (IF is_CH'[n] THEN 1 ELSE 0)
  BY <1>6, <1>8
<1> QED
  BY <1>1, <1>2, <1>7, <1>8, <1>9, <1>10, <1>11, <1>12, <1>13

LEMMA DetectFinishedInv ==
  ASSUME SetupInv, NEW n \in Node, CH_detect_finished(n)
  PROVE  SetupInv'
<1> USE DEF SetupInv
<1>1. /\ n \notin Decided /\ n # Sink
      /\ Decided' = Decided \cup {n}
      /\ Cardinality(Decided') = Cardinality(Decided) + 1
      /\ Announced' = Announced
  BY DecisionFacts
<1>2. \A m \in Node \ {n} : /\ our_cluster_head'[m] = our_cluster_head[m]
                            /\ best_hop'[m] = best_hop[m]
                            /\ our_level'[m] = our_level[m]
                            /\ is_CH'[m] = is_CH[m]
  BY DecisionFacts
<1>3. PICK m \in Announced :
        /\ <<m, n>> \in Link
        /\ our_cluster_head'[n] = AnnouncedHead(m)
        /\ is_CH'[n] <=> AnnouncedHop(m) = cluster_depth
        /\ our_level'[n] = our_level[m] + (IF is_CH'[n] THEN 1 ELSE 0)
        /\ best_hop'[n] = IF is_CH'[n] /\ our_level'[n] = 1 THEN 0 ELSE AnnouncedHop(m)
  BY DecisionFacts
<1>4. /\ m \in Node
      /\ AnnouncedHead(m) \in Node
      /\ AnnouncedHop(m) \in Nat /\ AnnouncedHop(m) <= cluster_depth
      /\ our_level[m] \in Nat /\ our_level[m] <= Cardinality(Decided)
      /\ our_level[m] = 0 <=> m = Sink
      /\ our_level[AnnouncedHead(m)] = our_level[m]
      /\ AnnouncedHead(m) = Sink => m = Sink
      /\ AnnouncedHead(m) # Sink =>
           AnnouncedHead(m) \in sensing /\ is_CH[AnnouncedHead(m)]
      /\ AnnouncedHop(m) = 0 => AnnouncedHead(m) = m
  BY OfferFacts
<1>5. Cardinality(Decided) \in Nat /\ Cardinality(Decided) < UINT_MAX
  BY DecidedBound
<1>6. /\ sensing' = sensing /\ bc' = bc /\ collecting_best' = collecting_best
      /\ has_seen_setup' = has_seen_setup
      /\ detect_ct' = detect_ct \ {n} /\ message_offset' = message_offset \cup {n}
  BY DEF CH_detect_finished
<1>7. \A k \in Announced : k \in Node \ {n}
  BY <1>1, HClusterAssumption DEF Announced, DecidesOnce, Decided
<1>8. \A k \in Announced : /\ AnnouncedHead(k)' = AnnouncedHead(k)
                           /\ AnnouncedHop(k)' = AnnouncedHop(k)
                           /\ AnnouncedOffer(k)' = AnnouncedOffer(k)
  BY <1>2, <1>7 DEF AnnouncedOffer, AnnouncedHead, AnnouncedHop, HeadOf
<1>9. is_CH'[n] \in BOOLEAN
  BY DEF CH_detect_finished, SetupTypeOK, BecomesHead
<1>10. /\ our_level'[n] \in 1 .. Cardinality(Decided')
       /\ our_level'[n] \in Counter
       /\ best_hop'[n] \in Counter
  <2>1. AnnouncedHop(m) # cluster_depth => our_level[m] # 0
    BY <1>4 DEF AnnouncedHop
  <2> QED
    BY <1>1, <1>3, <1>4, <1>5, <2>1, HClusterAssumption DEF Counter
<1>11. SetupTypeOK'
  BY <1>3, <1>4, <1>6, <1>9, <1>10 DEF SetupTypeOK, CH_detect_finished, Address
<1>12. DecidesOnce'
  BY <1>1, <1>2, <1>6 DEF DecidesOnce, CH_detect_finished
<1>13. AnnouncementsCurrent' /\ CandidatesAnnounced'
  BY <1>1, <1>6, <1>8 DEF AnnouncementsCurrent, CandidatesAnnounced, Offer
<1>14. LevelsBelowDecided'
  <2> SUFFICES ASSUME NEW k \in Decided, k # n
               PROVE  our_level'[k] \in 1 .. Cardinality(Decided')
    BY <1>1, <1>10 DEF LevelsBelowDecided
  <2>1. our_level'[k] = our_level[k] /\ our_level[k] \in 1 .. Cardinality(Decided)
    BY <1>2 DEF LevelsBelowDecided, Decided
  <2> QED
    BY <1>1, <1>5, <2>1
<1>15. HopsWithinDepth'
  <2>1. ASSUME NEW k \in Decided, k # n
        PROVE  IF is_CH'[k] THEN best_hop'[k] = IF our_level'[k] = 1 THEN 0 ELSE cluster_depth
               ELSE best_hop'[k] < cluster_depth
    BY <1>2, <2>1 DEF HopsWithinDepth, Decided
  <2>2. IF is_CH'[n] THEN best_hop'[n] = IF our_level'[n] = 1 THEN 0 ELSE cluster_depth
        ELSE best_hop'[n] < cluster_depth
    BY <1>3, <1>4, HClusterAssumption
  <2> QED
    BY <1>1, <2>1, <2>2 DEF HopsWithinDepth
<1>16. HeadsClimb'
  <2> SUFFICES ASSUME NEW k \in Decided'
               PROVE  LET h == our_cluster_head'[k] IN
                        /\ our_level'[k] = our_level'[h] + (IF is_CH'[k] THEN 1 ELSE 0)
                        /\ IF h = Sink THEN is_CH'[k] ELSE h \in sensing /\ is_CH'[h]
    BY <1>6 DEF HeadsClimb
  <2>1. \A j \in sensing \cup {Sink} : j \in Node \ {n}
    BY <1>1, HClusterAssumption DEF DecidesOnce, Decided
  <2>2. CASE k = n
    <3>1. AnnouncedHead(m) \in sensing \cup {Sink}
      BY <1>4
    <3>2. /\ our_level'[AnnouncedHead(m)] = our_level[m]
          /\ is_CH'[AnnouncedHead(m)] = is_CH[AnnouncedHead(m)]
      BY <1>2, <1>4, <2>1, <3>1
    <3>3. AnnouncedHead(m) = Sink => is_CH'[n]
      BY <1>3, <1>4 DEF AnnouncedHop
    <3> QED
      BY <1>3, <1>4, <2>2, <3>2, <3>3
  <2>3. CASE k # n
    <3> DEFINE h == our_cluster_head[k]
    <3>1. k \in Decided /\ k \in Node \ {n} /\ our_cluster_head'[k] = h
      BY <1>1, <1>2, <2>3 DEF Decided
    <3>2. /\ our_level[k] = our_level[h] + (IF is_CH[k] THEN 1 ELSE 0)
          /\ IF h = Sink THEN is_CH[k] ELSE h \in sensing /\ is_CH[h]
      BY <3>1 DEF HeadsClimb
    <3>3. h \in Node \ {n}
      BY <2>1, <3>2
    <3> QED
      BY <1>2, <3>1, <3>2, <3>3
  <2> QED
    BY <2>2, <2>3
<1>17. ClustersConnected'
  <2> SUFFICES ASSUME NEW k \in Decided'
               PROVE  \E j \in Announced :
                        /\ <<j, k>> \in Link
                        /\ our_cluster_head'[k] = AnnouncedHead(j)
                        /\ AnnouncedHop(j) <= cluster_depth
                        /\ is_CH'[k] <=> AnnouncedHop(j) = cluster_depth
                        /\ ~is_CH'[k] => best_hop'[k] = AnnouncedHop(j)
    BY <1>1, <1>8 DEF ClustersConnected
  <2>1. CASE k = n
    BY <1>3, <1>4, <2>1
  <2>2. CASE k # n
    <3>1. k \in Decided /\ k \in Node \ {n}
      BY <1>1, <2>2 DEF Decided
    <3> QED
      BY <1>2, <3>1 DEF ClustersConnected
  <2> QED
    BY <2>1, <2>2
<1>18. WithinRange'
  <2> SUFFICES ASSUME NEW k \in Decided', best_hop'[k] = 0
               PROVE  <<our_cluster_head'[k], k>> \in Link
    BY DEF WithinRange
  <2>1. CASE k # n
    <3>1. k \in Decided /\ k \in Node \ {n}
      BY <1>1, <2>1 DEF Decided
    <3> QED
      BY <1>2, <3>1 DEF WithinRange
  <2>2. CASE k = n
    <3>1. CASE is_CH'[n]
      <4>1. our_level'[n] = 1
        BY <1>3, <2>2, <3>1, HClusterAssumption
      <4>2. m = Sink
        BY <1>3, <1>4, <3>1, <4>1
      <4> QED
        BY <1>3, <2>2, <4>2 DEF AnnouncedHead
    <3>2. CASE ~is_CH'[n]
      BY <1>3, <1>4, <2>2, <3>2
    <3> QED
      BY <3>1, <3>2
  <2> QED
    BY <2>1, <2>2
<1> QED
  BY <1>11, <1>12, <1>13, <1>14, <1>15, <1>16, <1>17, <1>18

(***************************************************************************)
(* Set-up steps and data steps.  A set-up step leaves the data alone and   *)
(* changes nothing of what a mote that has decided has adopted.            *)
(***************************************************************************)
SetupStep ==
  \/ CH_setup_wait_finished
  \/ \E n \in Node, msg \in bc : HearSetup(n, msg)
  \/ \E n \in Node : CH_detect_finished(n)
  \/ \E n \in Node : ForwardSetup(n)
  \/ \E n \in Node : StbroadcastCancel(n)

DataStep ==
  \/ \E n \in Node : SendReading(n)
  \/ \E n \in Node, p \in mc : MeshRecv(n, p)
  \/ \E p \in mc : MeshLose(p)
  \/ \E n \in Node : SinkReceives(n)
  \/ \E n \in Node : HeadReceives(n)
  \/ \E n \in Node : RunicastUnheard(n)

LEMMA StepKinds ==
  [Next]_vars => \/ SetupStep /\ UNCHANGED data_vars
                 \/ DataStep /\ UNCHANGED setup_vars
                 \/ UNCHANGED vars
<1>1. SetupStep => UNCHANGED data_vars
  BY DEF SetupStep, CH_setup_wait_finished, HearSetup, CH_detect_finished, ForwardSetup,
         StbroadcastCancel
<1>2. DataStep => UNCHANGED setup_vars
  BY DEF DataStep, SendReading, MeshRecv, MeshLose, SinkReceives, HeadReceives, RunicastUnheard
<1>3. [Next]_vars => SetupStep \/ DataStep \/ UNCHANGED vars
  BY DEF Next, SetupStep, DataStep
<1> QED
  BY <1>1, <1>2, <1>3

LEMMA SetupStepInv == SetupInv /\ SetupStep => SetupInv'
  BY SetupWaitFinishedInv, HearSetupInv, DetectFinishedInv, ForwardSetupInv, StbroadcastCancelInv
     DEF SetupStep

LEMMA SetupUnchanged == SetupInv /\ UNCHANGED setup_vars => SetupInv'
<1> SUFFICES ASSUME SetupInv, UNCHANGED setup_vars PROVE SetupInv'
  OBVIOUS
<1> USE DEF SetupInv, setup_vars
<1>1. /\ Decided' = Decided
      /\ Announced \subseteq Announced'
      /\ \A m : AnnouncedOffer(m)' = AnnouncedOffer(m)
      /\ LevelsBelowDecided' /\ HopsWithinDepth'
      /\ HeadsClimb' /\ ClustersConnected' /\ WithinRange'
  BY NobodyDecides
<1>2. SetupTypeOK'
  BY DEF SetupTypeOK, adopted_vars
<1>3. DecidesOnce'
  BY <1>1 DEF DecidesOnce, adopted_vars
<1>4. AnnouncementsCurrent' /\ CandidatesAnnounced'
  BY <1>1 DEF AnnouncementsCurrent, CandidatesAnnounced, Offer
<1> QED
  BY <1>1, <1>2, <1>3, <1>4

\* A decision is final: whatever a mote hears later, it keeps what it adopted.
DecisionFinal ==
  /\ Decided \subseteq Decided' /\ sensing \subseteq sensing'
  /\ \A n \in Decided :
       /\ our_cluster_head'[n] = our_cluster_head[n]
       /\ best_hop'[n] = best_hop[n]
       /\ our_level'[n] = our_level[n]
       /\ is_CH'[n] = is_CH[n]

LEMMA SetupStepFinal == SetupInv /\ SetupStep => DecisionFinal
<1> SUFFICES ASSUME SetupInv, SetupStep PROVE DecisionFinal
  OBVIOUS
<1>1. ASSUME NEW n \in Node, CH_detect_finished(n)
      PROVE  DecisionFinal
  <2>1. n \notin Decided /\ Decided' = Decided \cup {n} /\ sensing' = sensing
    BY <1>1, DecisionFacts DEF CH_detect_finished
  <2>2. \A m \in Node \ {n} : /\ our_cluster_head'[m] = our_cluster_head[m]
                              /\ best_hop'[m] = best_hop[m]
                              /\ our_level'[m] = our_level[m]
                              /\ is_CH'[m] = is_CH[m]
    BY <1>1, DecisionFacts
  <2>3. \A m \in Decided : m \in Node \ {n}
    BY <2>1 DEF Decided
  <2> QED
    BY <2>1, <2>2, <2>3 DEF DecisionFinal
<1>2. ASSUME UNCHANGED adopted_vars, sensing \subseteq sensing'
      PROVE  DecisionFinal
  BY <1>2 DEF adopted_vars, DecisionFinal, Decided
<1> QED
  BY <1>1, <1>2
     DEF SetupStep, CH_setup_wait_finished, HearSetup, ForwardSetup, StbroadcastCancel

(***************************************************************************)
(* Data.                                                                   *)
(***************************************************************************)
LEMMA DataInit == Init => DataInv
<1> SUFFICES ASSUME Init PROVE DataInv
  OBVIOUS
<1> USE HClusterAssumption DEF Init
<1>1. DataTypeOK
  BY DEF DataTypeOK
<1>2. ChannelsClimb(rc) /\ MeshClimbs(mc) /\ TakenBySensing
  BY DEF ChannelsClimb, MeshClimbs, TakenBySensing
<1>3. ReadingsAccounted
  BY DEF ReadingsAccounted, Carried, InMesh, InChannels, Reported
<1>4. ReportsBounded
  BY DEF ReportsBounded
<1> QED
  BY <1>1, <1>2, <1>3, <1>4 DEF DataInv

\* Readings under way and reported were taken, by motes that have decided.
LEMMA CarriedByDecided ==
  ASSUME SetupInv, DataInv
  PROVE  /\ \A n \in Node : rc[n] # Idle =>
              rc[n] \in Outgoing /\ rc[n].reading \in taken /\ rc[n].reading[1] \in Decided
         /\ \A p \in mc : p.reading \in taken /\ p.reading[1] \in Decided
         /\ \A rep \in reports : rep.reading \in taken /\ rep.reading[1] \in Decided
<1>1. \A r \in taken : r[1] \in Decided
  BY DEF DataInv, TakenBySensing, SetupInv, DecidesOnce
<1>2. \A n \in Node : rc[n] # Idle => rc[n] \in Outgoing /\ rc[n].reading \in InChannels(rc)
  BY DEF DataInv, DataTypeOK, InChannels
<1>3. \A p \in mc : p.reading \in InMesh(mc)
  BY DEF InMesh
<1>4. \A rep \in reports : rep.reading \in Reported
  BY DEF Reported
<1>5. InChannels(rc) \subseteq taken /\ InMesh(mc) \subseteq taken /\ Reported \subseteq taken
  BY DEF DataInv, ReadingsAccounted, Carried
<1> QED
  BY <1>1, <1>2, <1>3, <1>4, <1>5

\* A set-up step leaves every packet on its way to the head it is meant for.
LEMMA DataUnderSetup ==
  ASSUME SetupInv, DataInv, UNCHANGED data_vars, DecisionFinal
  PROVE  DataInv'
<1> USE DEF data_vars
<1>1. /\ \A n \in Node : rc[n] # Idle => rc[n].reading[1] \in Decided
      /\ \A p \in mc : p.reading[1] \in Decided
      /\ \A rep \in reports : rep.reading[1] \in Decided
  BY CarriedByDecided
<1>2. DataTypeOK'
  BY DEF DataInv, DataTypeOK
<1>3. ChannelsClimb(rc)'
  BY <1>1 DEF DataInv, ChannelsClimb, ClimbsByUnicast, DecisionFinal
<1>4. MeshClimbs(mc)'
  BY <1>1 DEF DataInv, MeshClimbs, ClimbsByMesh, DecisionFinal
<1>5. TakenBySensing'
  BY DEF DataInv, TakenBySensing, DecisionFinal
<1>6. ReadingsAccounted'
  BY DEF DataInv, ReadingsAccounted, Carried, InMesh, InChannels, Reported
<1>7. ReportsBounded'
  BY <1>1 DEF DataInv, ReportsBounded, DecisionFinal
<1> QED
  BY <1>2, <1>3, <1>4, <1>5, <1>6, <1>7 DEF DataInv

\* Channels with well-formed packets, each on its way.
ChannelsOK(chan) == chan \in [Node -> Outgoing \cup {Idle}] /\ ChannelsClimb(chan)

MeshOK(mesh) == mesh \subseteq MeshPacket /\ MeshClimbs(mesh)

(***************************************************************************)
(* What a mote may be asked to send up: a member its own reading, a head a *)
(* packet with at most one address; and a reading of level 1 by the mote   *)
(* that took it, at the latest by the head of level 1 that passes it on.   *)
(***************************************************************************)
MaySend(n, originator, reading, appended) ==
  /\ originator \in Node /\ reading \in Reading
  /\ appended \in Seq(Node) /\ Len(appended) <= 1
  /\ ~is_CH[n] => appended = << >> /\ originator = n /\ reading[1] = n
  /\ our_level[reading[1]] = 1 =>
       originator = reading[1] /\ (best_hop[n] # 0 => n = reading[1])

\* runicast_send puts a packet into the channel or turns its reading away.
LEMMA RunicastSendKeeps ==
  ASSUME NEW chan, ChannelsOK(chan), NEW n \in Node,
         NEW packet \in Outgoing, ClimbsByUnicast(n, packet), RunicastSend(chan, n, packet)
  PROVE  /\ ChannelsOK(rc')
         /\ refused' \subseteq refused \cup {packet.reading}
         /\ InChannels(rc') \cup refused' = InChannels(chan) \cup refused \cup {packet.reading}
<1>1. packet # Idle
  BY IdleAssumption
<1>2. CASE chan[n] = Idle
  <2>1. rc' = [chan EXCEPT ![n] = packet] /\ refused' = refused
    BY <1>2 DEF RunicastSend
  <2>2. rc'[n] = packet /\ \A m \in Node \ {n} : rc'[m] = chan[m]
    BY <2>1 DEF ChannelsOK
  <2>3. ChannelsOK(rc')
    BY <2>1, <2>2 DEF ChannelsOK, ChannelsClimb
  <2>4. InChannels(rc') = InChannels(chan) \cup {packet.reading}
    BY <1>1, <1>2, <2>2 DEF InChannels
  <2> QED
    BY <2>1, <2>3, <2>4
<1>3. CASE chan[n] # Idle
  BY <1>3 DEF RunicastSend
<1> QED
  BY <1>2, <1>3

\* A packet that is sent up is on its way to the head of the mote that sends it.
LEMMA SendUpKeeps ==
  ASSUME SetupInv, NEW chan, ChannelsOK(chan), NEW mesh, MeshOK(mesh), NEW n \in sensing,
         NEW originator, NEW reading, NEW appended, MaySend(n, originator, reading, appended),
         SendUp(chan, mesh, n, originator, reading, appended)
  PROVE  /\ ChannelsOK(rc') /\ MeshOK(mc')
         /\ refused' \subseteq refused \cup {reading}
         /\ InMesh(mc') \cup InChannels(rc') \cup refused' =
              InMesh(mesh) \cup InChannels(chan) \cup refused \cup {reading}
<1>1. n \in Decided
  BY DEF SetupInv, DecidesOnce
<1>2. /\ n \in Node
      /\ our_cluster_head[n] \in Node
      /\ our_cluster_head[n] = Sink => best_hop[n] = 0
      /\ our_cluster_head[n] # Sink => our_cluster_head[n] \in sensing
  BY <1>1, DecidedFacts
<1>3. CASE best_hop[n] = 0
  <2> DEFINE out == [dst |-> our_cluster_head[n], reading |-> reading,
                     appended |-> Append(appended, originator), transmissions |-> 1]
  <2>1. RunicastSend(chan, n, out) /\ mc' = mesh
    BY <1>3 DEF SendUp
  <2>2. /\ Append(appended, originator) \in Seq(Node)
        /\ Len(Append(appended, originator)) = Len(appended) + 1
        /\ Append(appended, originator)[Len(appended) + 1] = originator
        /\ Len(appended) \in Nat /\ Len(appended) <= 1
    <3>1. /\ appended \in Seq(Node) /\ originator \in Node /\ Len(appended) <= 1
      BY DEF MaySend
    <3>2. Len(appended) \in Nat
      BY <3>1, LenProperties
    <3>3. /\ Append(appended, originator) \in Seq(Node)
          /\ Len(Append(appended, originator)) = Len(appended) + 1
          /\ Append(appended, originator)[Len(appended) + 1] = originator
      BY <3>1, AppendProperties
    <3> QED
      BY <3>1, <3>2, <3>3
  <2>3. out \in Outgoing
    BY <1>2, <2>2, HClusterAssumption DEF Outgoing, Address, MaySend
  <2>4. ~is_CH[n] => Append(appended, originator) = <<n>>
    <3>1. Append(<< >>, n) = <<n>>
      OBVIOUS
    <3> QED
      BY <3>1 DEF MaySend
  <2>5. /\ out.dst = our_cluster_head[n] /\ out.reading = reading
        /\ out.appended = Append(appended, originator)
    OBVIOUS
  <2> HIDE DEF out
  <2>6. ClimbsByUnicast(n, out)
    BY <1>1, <1>2, <1>3, <2>2, <2>4, <2>5 DEF ClimbsByUnicast, MaySend
  <2> QED
    BY <1>2, <2>1, <2>3, <2>5, <2>6, RunicastSendKeeps
<1>4. CASE best_hop[n] # 0
  <2> DEFINE packet == [originator |-> n, dst |-> our_cluster_head[n],
                        reading |-> reading, appended |-> appended]
  <2>1. mc' = mesh \cup {packet} /\ rc' = chan /\ refused' = refused
    BY <1>4 DEF SendUp
  <2>2. packet \in MeshPacket
    BY <1>2 DEF MeshPacket, Address, MaySend
  <2>3. /\ packet.originator = n /\ packet.dst = our_cluster_head[n]
        /\ packet.reading = reading /\ packet.appended = appended
    OBVIOUS
  <2> HIDE DEF packet
  <2>4. ClimbsByMesh(packet)
    BY <1>1, <1>2, <1>4, <2>3 DEF ClimbsByMesh, MaySend
  <2>5. MeshOK(mc')
    BY <2>1, <2>2, <2>4 DEF MeshOK, MeshClimbs
  <2>6. InMesh(mc') = InMesh(mesh) \cup {reading}
    BY <2>1, <2>3 DEF InMesh
  <2> QED
    BY <2>1, <2>5, <2>6
<1> QED
  BY <1>3, <1>4

\* Adding the next reading: its number is in range, its mote is sensing.
LEMMA NextReadingOK ==
  ASSUME DataTypeOK, NEW n \in Node, Cardinality(taken) < MaxReadings
  PROVE  NextReading(n) \in Reading /\ NextReading(n)[1] = n
<1> DEFINE own == {r \in taken : r[1] = n}
<1>1. IsFiniteSet(Node \X (1 .. MaxReadings))
  <2>1. IsFiniteSet(1 .. MaxReadings)
    BY HClusterAssumption, FS_Interval
  <2> QED
    BY <2>1, HClusterAssumption, FS_Product
<1>2. IsFiniteSet(taken)
  BY <1>1, FS_Subset DEF DataTypeOK, Reading
<1>3. IsFiniteSet(own) /\ Cardinality(own) <= Cardinality(taken)
  BY <1>2, FS_Subset
<1>4. Cardinality(own) \in Nat /\ Cardinality(taken) \in Nat
  BY <1>2, <1>3, FS_CardinalityType
<1>5. Cardinality(own) + 1 \in 1 .. MaxReadings
  BY <1>3, <1>4, HClusterAssumption
<1>6. NextReading(n) = <<n, Cardinality(own) + 1>>
  BY DEF NextReading
<1> HIDE DEF own
<1> QED
  BY <1>5, <1>6 DEF Reading

(***************************************************************************)
(* A data step leaves heads, levels and hop counts alone, so that the      *)
(* invariant follows from the packets, the reports and the books.          *)
(***************************************************************************)
LEMMA DataFrom ==
  ASSUME UNCHANGED setup_vars,
         taken' \subseteq Reading, refused' \subseteq Reading, lost' \subseteq Reading,
         reports' \subseteq Report, ReportsBounded',
         ChannelsOK(rc'), MeshOK(mc'), TakenBySensing', ReadingsAccounted'
  PROVE  DataInv'
<1>1. DataTypeOK'
  BY DEF DataTypeOK, ChannelsOK, MeshOK
<1>2. Decided' = Decided
  BY DEF setup_vars, adopted_vars, Decided
<1>3. ChannelsClimb(rc)'
  BY <1>2 DEF ChannelsOK, ChannelsClimb, ClimbsByUnicast, setup_vars, adopted_vars
<1>4. MeshClimbs(mc)'
  BY <1>2 DEF MeshOK, MeshClimbs, ClimbsByMesh, setup_vars, adopted_vars
<1> QED
  BY <1>1, <1>3, <1>4 DEF DataInv

\* A step that reports nothing leaves what is said of the reports as it is.
LEMMA ReportsUnchanged ==
  ASSUME DataInv, UNCHANGED setup_vars, reports' = reports
  PROVE  reports' \subseteq Report /\ ReportsBounded' /\ Reported' = Reported
  BY DEF DataInv, DataTypeOK, ReportsBounded, Reported, setup_vars, adopted_vars

LEMMA SendReadingInv ==
  ASSUME SetupInv, DataInv, NEW n \in Node, SendReading(n)
  PROVE  DataInv'
<1> USE DEF DataInv, SendReading
<1>1. NextReading(n) \in Reading /\ NextReading(n)[1] = n
  BY NextReadingOK
<1>2. MaySend(n, n, NextReading(n), << >>)
  BY <1>1 DEF MaySend
<1>3. ChannelsOK(rc) /\ MeshOK(mc)
  BY DEF ChannelsOK, MeshOK, DataTypeOK
<1>4. /\ ChannelsOK(rc') /\ MeshOK(mc')
      /\ refused' \subseteq refused \cup {NextReading(n)}
      /\ InMesh(mc') \cup InChannels(rc') \cup refused' =
           InMesh(mc) \cup InChannels(rc) \cup refused \cup {NextReading(n)}
  BY <1>2, <1>3, SendUpKeeps
<1>5. reports' \subseteq Report /\ ReportsBounded' /\ Reported' = Reported
  BY ReportsUnchanged
<1>6. TakenBySensing'
  BY <1>1 DEF TakenBySensing, setup_vars
<1>7. ReadingsAccounted'
  BY <1>4, <1>5 DEF ReadingsAccounted, Carried
<1> QED
  BY <1>1, <1>4, <1>5, <1>6, <1>7, DataFrom DEF DataTypeOK

(***************************************************************************)
(* A packet in the mesh has come to a cluster head.  Had the head to pass  *)
(* it on over the mesh, it would be of level 2 or more, and so would the   *)
(* mote that sent the packet.                                              *)
(***************************************************************************)
LEMMA MeshRecvInv ==
  ASSUME SetupInv, DataInv, NEW n \in Node, NEW p \in mc, MeshRecv(n, p)
  PROVE  DataInv'
<1> USE DEF DataInv, MeshRecv
<1>1. p \in MeshPacket /\ ClimbsByMesh(p)
  BY DEF DataTypeOK, MeshClimbs
<1>2. /\ p.originator \in Decided /\ n = our_cluster_head[p.originator] /\ n \in sensing
      /\ Len(p.appended) <= 1
      /\ our_level[p.reading[1]] = 1 => p.originator = p.reading[1]
  BY <1>1 DEF ClimbsByMesh
<1>3. n \in Decided /\ n # Sink
  BY <1>2, DecidedFacts DEF SetupInv, DecidesOnce
<1>4. is_CH[n]
  BY <1>2, <1>3, DecidedFacts
<1>5. our_level[p.originator] = 1 => best_hop[n] = 0
  <2>1. our_level[p.originator] = our_level[n] + (IF is_CH[p.originator] THEN 1 ELSE 0)
    BY <1>2 DEF SetupInv, HeadsClimb
  <2>2. our_level[n] \in Nat /\ our_level[n] >= 1
    BY <1>3, DecidedFacts
  <2>3. our_level[p.originator] = 1 => our_level[n] = 1
    BY <2>1, <2>2
  <2> QED
    BY <1>3, <1>4, <2>3 DEF SetupInv, HopsWithinDepth
<1>6. MaySend(n, p.originator, p.reading, p.appended)
  BY <1>1, <1>2, <1>4, <1>5 DEF MaySend, MeshPacket
<1>7. ChannelsOK(rc) /\ MeshOK(mc \ {p})
  BY DEF ChannelsOK, MeshOK, DataTypeOK, MeshClimbs
<1>8. /\ ChannelsOK(rc') /\ MeshOK(mc')
      /\ refused' \subseteq refused \cup {p.reading}
      /\ InMesh(mc') \cup InChannels(rc') \cup refused' =
           InMesh(mc \ {p}) \cup InChannels(rc) \cup refused \cup {p.reading}
  BY <1>2, <1>6, <1>7, SendUpKeeps
<1>9. reports' \subseteq Report /\ ReportsBounded' /\ Reported' = Reported
  BY ReportsUnchanged
<1>10. InMesh(mc \ {p}) \cup {p.reading} = InMesh(mc)
  BY DEF InMesh
<1>11. ReadingsAccounted'
  BY <1>8, <1>9, <1>10 DEF ReadingsAccounted, Carried
<1>12. TakenBySensing'
  BY DEF TakenBySensing, setup_vars
<1>13. p.reading \in Reading
  BY <1>1 DEF MeshPacket
<1> QED
  BY <1>8, <1>9, <1>11, <1>12, <1>13, DataFrom DEF DataTypeOK

LEMMA MeshLoseInv ==
  ASSUME SetupInv, DataInv, NEW p \in mc, MeshLose(p)
  PROVE  DataInv'
<1> USE DEF DataInv, MeshLose
<1>1. p.reading \in Reading
  BY DEF DataTypeOK, MeshPacket
<1>2. ChannelsOK(rc') /\ MeshOK(mc')
  BY DEF ChannelsOK, MeshOK, DataTypeOK, MeshClimbs
<1>3. reports' \subseteq Report /\ ReportsBounded' /\ Reported' = Reported
  BY ReportsUnchanged
<1>4. InMesh(mc') \cup {p.reading} = InMesh(mc)
  BY DEF InMesh
<1>5. ReadingsAccounted'
  BY <1>3, <1>4 DEF ReadingsAccounted, Carried
<1>6. TakenBySensing'
  BY DEF TakenBySensing, setup_vars
<1> QED
  BY <1>1, <1>2, <1>3, <1>5, <1>6, DataFrom DEF DataTypeOK

\* An acknowledged packet leaves the channel.
LEMMA AcknowledgedKeeps ==
  ASSUME ChannelsOK(rc), NEW n \in Node, rc[n] # Idle
  PROVE  /\ ChannelsOK(Acknowledged(n))
         /\ InChannels(Acknowledged(n)) \cup {rc[n].reading} = InChannels(rc)
<1> DEFINE chan == Acknowledged(n)
<1>1. chan[n] = Idle /\ \A m \in Node \ {n} : chan[m] = rc[m]
  BY DEF Acknowledged, ChannelsOK
<1>2. chan \in [Node -> Outgoing \cup {Idle}]
  BY DEF Acknowledged, ChannelsOK
<1> HIDE DEF chan
<1>3. ChannelsOK(chan)
  BY <1>1, <1>2 DEF ChannelsOK, ChannelsClimb
<1>4. InChannels(chan) \cup {rc[n].reading} = InChannels(rc)
  BY <1>1 DEF InChannels
<1> QED
  BY <1>3, <1>4 DEF chan

\* One that is not is sent again, or given up.
LEMMA UnacknowledgedKeeps ==
  ASSUME ChannelsOK(rc), NEW n \in Node, rc[n] # Idle
  PROVE  /\ ChannelsOK(Unacknowledged(n))
         /\ InChannels(Unacknowledged(n)) \cup GivenUp(n) = InChannels(rc)
         /\ GivenUp(n) \subseteq {rc[n].reading}
<1>1. CASE LastTry(n)
  <2>1. Unacknowledged(n) = Acknowledged(n) /\ GivenUp(n) = {rc[n].reading}
    BY <1>1 DEF Unacknowledged, GivenUp
  <2> QED
    BY <2>1, AcknowledgedKeeps
<1>2. CASE ~LastTry(n)
  <2> DEFINE again == [rc[n] EXCEPT !.transmissions = @ + 1]
             chan == [rc EXCEPT ![n] = again]
  <2>1. Unacknowledged(n) = chan /\ GivenUp(n) = {}
    BY <1>2 DEF Unacknowledged, GivenUp
  <2>2. rc[n] \in Outgoing /\ ClimbsByUnicast(n, rc[n])
    BY DEF ChannelsOK, ChannelsClimb
  <2>3. /\ again \in Outgoing
        /\ again.dst = rc[n].dst /\ again.reading = rc[n].reading
        /\ again.appended = rc[n].appended
    BY <1>2, <2>2, HClusterAssumption DEF Outgoing, LastTry
  <2>4. again # Idle
    BY <2>3, IdleAssumption
  <2> HIDE DEF again
  <2>5. /\ chan \in [Node -> Outgoing \cup {Idle}]
        /\ chan[n] = again /\ \A m \in Node \ {n} : chan[m] = rc[m]
    BY <2>3 DEF ChannelsOK
  <2> HIDE DEF chan
  <2>6. ClimbsByUnicast(n, again)
    BY <2>2, <2>3 DEF ClimbsByUnicast
  <2>7. ChannelsOK(chan)
    BY <2>5, <2>6 DEF ChannelsOK, ChannelsClimb
  <2>8. \A m \in Node : /\ chan[m] # Idle <=> rc[m] # Idle
                        /\ rc[m] # Idle => chan[m].reading = rc[m].reading
    BY <2>3, <2>4, <2>5
  <2>9. InChannels(chan) = InChannels(rc)
    BY <2>8 DEF InChannels
  <2> QED
    BY <2>1, <2>7, <2>9
<1> QED
  BY <1>1, <1>2

LEMMA HeardKeeps ==
  ASSUME ChannelsOK(rc), NEW n \in Node, NEW chan, Heard(n, chan)
  PROVE  /\ ChannelsOK(chan)
         /\ lost' \subseteq lost \cup {rc[n].reading}
         /\ InChannels(chan) \cup lost' \cup {rc[n].reading} = InChannels(rc) \cup lost
<1>1. rc[n] # Idle /\ rc[n].reading \in InChannels(rc)
  BY DEF Heard, InChannels
<1>2. CASE chan = Acknowledged(n) /\ lost' = lost
  BY <1>1, <1>2, AcknowledgedKeeps
<1>3. CASE chan = Unacknowledged(n) /\ lost' = lost \cup GivenUp(n)
  BY <1>1, <1>3, UnacknowledgedKeeps
<1> QED
  BY <1>2, <1>3 DEF Heard

LEMMA RunicastUnheardInv ==
  ASSUME SetupInv, DataInv, NEW n \in Node, RunicastUnheard(n)
  PROVE  DataInv'
<1> USE DEF DataInv, RunicastUnheard
<1>1. ChannelsOK(rc) /\ rc[n].reading \in Reading
  BY DEF ChannelsOK, DataTypeOK, Outgoing
<1>2. /\ ChannelsOK(rc')
      /\ InChannels(rc') \cup GivenUp(n) = InChannels(rc)
      /\ GivenUp(n) \subseteq {rc[n].reading}
  BY <1>1, UnacknowledgedKeeps
<1>3. MeshOK(mc')
  BY DEF MeshOK, DataTypeOK
<1>4. reports' \subseteq Report /\ ReportsBounded' /\ Reported' = Reported
  BY ReportsUnchanged
<1>5. ReadingsAccounted'
  BY <1>2, <1>4 DEF ReadingsAccounted, Carried
<1>6. TakenBySensing'
  BY DEF TakenBySensing, setup_vars
<1> QED
  BY <1>1, <1>2, <1>3, <1>4, <1>5, <1>6, DataFrom DEF DataTypeOK

\* The sink reports the last address as the source and leaves at most one more.
LEMMA SinkReceivesInv ==
  ASSUME SetupInv, DataInv, NEW n \in Node, SinkReceives(n)
  PROVE  DataInv'
<1> DEFINE appended == rc[n].appended
           reading == rc[n].reading
           rep == [reading |-> reading, source |-> appended[Len(appended)],
                   left |-> SubSeq(appended, 1, Len(appended) - 1)]
<1>1. rc[n] # Idle /\ rc[n] \in Outgoing
  BY DEF SinkReceives, DataInv, DataTypeOK
<1>2. reading \in Reading /\ appended \in Seq(Node)
  BY <1>1 DEF Outgoing
<1>3. /\ 1 <= Len(appended) /\ Len(appended) <= 2
      /\ our_level[reading[1]] = 1 => appended[Len(appended)] = reading[1]
  BY <1>1 DEF DataInv, ChannelsClimb, ClimbsByUnicast
<1>4. Len(appended) \in Nat /\ appended \in [1 .. Len(appended) -> Node]
  BY <1>2, LenProperties
<1>5. appended[Len(appended)] \in Node
  BY <1>3, <1>4
<1>6. /\ SubSeq(appended, 1, Len(appended) - 1) \in Seq(Node)
      /\ Len(SubSeq(appended, 1, Len(appended) - 1)) <= 1
  <2>1. \A i \in 1 .. Len(appended) - 1 : appended[i] \in Node
    BY <1>4
  <2>2. /\ SubSeq(appended, 1, Len(appended) - 1) \in Seq(Node)
        /\ Len(SubSeq(appended, 1, Len(appended) - 1)) =
             IF 1 <= Len(appended) - 1 THEN Len(appended) - 1 - 1 + 1 ELSE 0
    BY <1>4, <2>1, SubSeqProperties
  <2> QED
    BY <1>3, <1>4, <2>2
<1>7. rep \in Report
  BY <1>2, <1>5, <1>6 DEF Report
<1>8. /\ rep.reading = reading /\ Len(rep.left) <= 1
      /\ our_level[reading[1]] = 1 => rep.source = reading[1]
  BY <1>3, <1>6
<1>9. reports' = reports \cup {rep}
  BY DEF SinkReceives
<1>10. PICK chan : Heard(n, chan) /\ rc' = chan
  BY DEF SinkReceives
<1>11. /\ mc' = mc /\ taken' = taken /\ refused' = refused
       /\ UNCHANGED setup_vars
  BY DEF SinkReceives
<1> HIDE DEF rep
<1>12. ChannelsOK(rc) /\ MeshOK(mc')
  BY <1>11 DEF ChannelsOK, MeshOK, DataInv, DataTypeOK
<1>13. /\ ChannelsOK(rc')
       /\ lost' \subseteq lost \cup {reading}
       /\ InChannels(rc') \cup lost' \cup {reading} = InChannels(rc) \cup lost
  BY <1>10, <1>12, HeardKeeps
<1>14. reports' \subseteq Report /\ ReportsBounded'
  BY <1>7, <1>8, <1>9, <1>11
     DEF DataInv, DataTypeOK, ReportsBounded, setup_vars, adopted_vars
<1>15. Reported' = Reported \cup {reading}
  BY <1>8, <1>9 DEF Reported
<1>16. ReadingsAccounted'
  BY <1>11, <1>13, <1>15 DEF DataInv, ReadingsAccounted, Carried
<1>17. TakenBySensing'
  BY <1>11 DEF DataInv, TakenBySensing, setup_vars
<1> QED
  BY <1>2, <1>11, <1>12, <1>13, <1>14, <1>16, <1>17, DataFrom DEF DataInv, DataTypeOK

(***************************************************************************)
(* A cluster head other than the sink hears by unicast only from members:  *)
(* a head that uses unicast is of level 1, and its own head is the sink.   *)
(***************************************************************************)
LEMMA HeadReceivesInv ==
  ASSUME SetupInv, DataInv, NEW n \in Node, HeadReceives(n)
  PROVE  DataInv'
<1> DEFINE h == rc[n].dst
           reading == rc[n].reading
<1>1. rc[n] # Idle /\ rc[n] \in Outgoing /\ h # Sink
  BY DEF HeadReceives, DataInv, DataTypeOK
<1>2. ClimbsByUnicast(n, rc[n])
  BY <1>1 DEF DataInv, ChannelsClimb
<1>3. /\ n \in Decided /\ best_hop[n] = 0
      /\ h = our_cluster_head[n] /\ h \in sensing
      /\ ~is_CH[n] => rc[n].appended = <<n>> /\ reading[1] = n
  BY <1>1, <1>2 DEF ClimbsByUnicast
<1>4. h \in Decided /\ is_CH[h]
  BY <1>1, <1>3, DecidedFacts DEF SetupInv, DecidesOnce
<1>5. our_level[h] \in Nat /\ our_level[h] >= 1
  BY <1>4, DecidedFacts
<1>6. our_level[n] = our_level[h] + (IF is_CH[n] THEN 1 ELSE 0)
  BY <1>3 DEF SetupInv, HeadsClimb
<1>7. ~is_CH[n]
  <2> SUFFICES ASSUME is_CH[n] PROVE FALSE
    OBVIOUS
  <2>1. our_level[n] = 1
    BY <1>3, HClusterAssumption DEF SetupInv, HopsWithinDepth
  <2> QED
    BY <1>5, <1>6, <2>1
<1>8. our_level[n] = 1 => best_hop[h] = 0
  <2>1. our_level[n] = 1 => our_level[h] = 1
    BY <1>5, <1>6, <1>7
  <2> QED
    BY <1>4, <2>1 DEF SetupInv, HopsWithinDepth
<1>9. /\ rc[n].appended = <<n>> /\ reading[1] = n /\ reading \in Reading
      /\ <<n>> \in Seq(Node) /\ Len(<<n>>) = 1
  BY <1>1, <1>3, <1>7 DEF Outgoing
<1>10. MaySend(h, n, reading, rc[n].appended)
  BY <1>4, <1>8, <1>9 DEF MaySend
<1>11. PICK chan : Heard(n, chan) /\ SendUp(chan, mc, h, n, reading, rc[n].appended)
  BY DEF HeadReceives
<1>12. /\ taken' = taken /\ reports' = reports
       /\ UNCHANGED setup_vars
  BY DEF HeadReceives
<1>13. ChannelsOK(rc) /\ MeshOK(mc)
  BY DEF ChannelsOK, MeshOK, DataInv, DataTypeOK
<1>14. /\ ChannelsOK(chan)
       /\ lost' \subseteq lost \cup {reading}
       /\ InChannels(chan) \cup lost' \cup {reading} = InChannels(rc) \cup lost
  BY <1>11, <1>13, HeardKeeps
<1>15. /\ ChannelsOK(rc') /\ MeshOK(mc')
       /\ refused' \subseteq refused \cup {reading}
       /\ InMesh(mc') \cup InChannels(rc') \cup refused' =
            InMesh(mc) \cup InChannels(chan) \cup refused \cup {reading}
  BY <1>3, <1>10, <1>11, <1>13, <1>14, SendUpKeeps
<1>16. reports' \subseteq Report /\ ReportsBounded' /\ Reported' = Reported
  BY <1>12, ReportsUnchanged
<1>17. ReadingsAccounted'
  BY <1>12, <1>14, <1>15, <1>16 DEF DataInv, ReadingsAccounted, Carried
<1>18. TakenBySensing'
  BY <1>12 DEF DataInv, TakenBySensing, setup_vars
<1> QED
  BY <1>9, <1>12, <1>14, <1>15, <1>16, <1>17, <1>18, DataFrom DEF DataInv, DataTypeOK

LEMMA DataStepInv == SetupInv /\ DataInv /\ DataStep => DataInv'
  BY SendReadingInv, MeshRecvInv, MeshLoseInv, SinkReceivesInv, HeadReceivesInv,
     RunicastUnheardInv
     DEF DataStep

\* The invariant is inductive.
LEMMA NextInv == Inv /\ [Next]_vars => Inv'
<1> SUFFICES ASSUME Inv, [Next]_vars PROVE Inv'
  OBVIOUS
<1> USE DEF Inv
<1>1. CASE SetupStep /\ UNCHANGED data_vars
  BY <1>1, SetupStepInv, SetupStepFinal, DataUnderSetup
<1>2. CASE DataStep /\ UNCHANGED setup_vars
  BY <1>2, DataStepInv, SetupUnchanged
<1>3. CASE UNCHANGED vars
  <2>1. UNCHANGED setup_vars /\ UNCHANGED data_vars
    BY <1>3 DEF vars
  <2>2. DecisionFinal
    BY <2>1 DEF setup_vars, adopted_vars, DecisionFinal, Decided
  <2> QED
    BY <2>1, <2>2, SetupUnchanged, DataUnderSetup
<1> QED
  BY <1>1, <1>2, <1>3, StepKinds

(***************************************************************************)
(* The inductive invariant of the hierarchy.                               *)
(***************************************************************************)
THEOREM HierarchyInvariant == Spec => []Inv
<1>1. Init => Inv
  BY SetupInit, DataInit DEF Inv
<1> QED
  BY <1>1, NextInv, PTL DEF Spec

\* Every variable keeps its type: heads are addresses, packets and reports are
\* well formed.
THEOREM HierarchyTypeCorrect == Spec => []TypeOK
<1>1. Inv => TypeOK
  BY DEF Inv, SetupInv, DataInv, TypeOK
<1> QED
  BY <1>1, HierarchyInvariant, PTL

(***************************************************************************)
(* The sums head_level + 1 (hcluster.c:138-140) and best_hop + 1           *)
(* (hcluster.c:109) are exact: NextLevel and Announcement take them modulo *)
(* UINT_MAX + 1 as an unsigned int does, and still a cluster head is one   *)
(* level above its own head and a member announces one hop more than it    *)
(* has adopted.                                                            *)
(***************************************************************************)
LevelsAndHopsExact ==
  /\ \A n \in Decided : our_level[n] < UINT_MAX /\ best_hop[n] < UINT_MAX
  /\ \A n \in Decided : is_CH[n] => our_level[n] = our_level[our_cluster_head[n]] + 1
  /\ \A msg \in bc : msg.source # Sink =>
       msg.hop_count = IF is_CH[msg.source] THEN 0 ELSE best_hop[msg.source] + 1

\* Neither a level nor a hop count wraps in a network of at most UINT_MAX motes
\* whose cluster_depth is below UINT_MAX: a level is at most the number of motes
\* that have decided, and a hop count at most cluster_depth.
THEOREM LevelsAndHopsNeverWrap ==
  Spec => [](LevelsBelowDecided /\ HopsWithinDepth /\ LevelsAndHopsExact)
<1>1. ASSUME Inv PROVE LevelsBelowDecided /\ HopsWithinDepth /\ LevelsAndHopsExact
  <2>1. SetupInv
    BY <1>1 DEF Inv
  <2>2. /\ LevelsBelowDecided /\ HopsWithinDepth /\ DecidesOnce
        /\ HeadsClimb /\ AnnouncementsCurrent
    BY <2>1 DEF SetupInv
  <2>3. ASSUME NEW n \in Decided
        PROVE  our_level[n] < UINT_MAX /\ best_hop[n] < UINT_MAX
    <3>1. /\ our_level[n] \in Nat /\ our_level[n] <= Cardinality(Decided)
          /\ best_hop[n] \in Nat /\ best_hop[n] <= cluster_depth
      BY <2>1, DecidedFacts
    <3>2. Cardinality(Decided) \in Nat /\ Cardinality(Decided) < UINT_MAX
      BY <2>2, DecidedBound
    <3> QED
      BY <3>1, <3>2, HClusterAssumption
  <2>4. \A n \in Decided : is_CH[n] => our_level[n] = our_level[our_cluster_head[n]] + 1
    BY <2>2 DEF HeadsClimb
  <2>5. \A msg \in bc : msg.source # Sink =>
          msg.hop_count = IF is_CH[msg.source] THEN 0 ELSE best_hop[msg.source] + 1
    BY <2>2 DEF AnnouncementsCurrent, AnnouncedOffer, AnnouncedHop, Offer
  <2> QED
    BY <2>2, <2>3, <2>4, <2>5 DEF LevelsAndHopsExact
<1> QED
  BY <1>1, HierarchyInvariant, PTL

\* Following our_cluster_head climbs one level at each cluster head up to the
\* sink, in every network, for every depth and every order of messages.
THEOREM HierarchyClimbs == Spec => []HeadsClimb
<1>1. Inv => HeadsClimb
  BY DEF Inv, SetupInv
<1> QED
  BY <1>1, HierarchyInvariant, PTL

\* A cluster is connected and no mote is further than cluster_depth from its head.
THEOREM HierarchyIsConnected == Spec => []ClustersConnected
<1>1. Inv => ClustersConnected
  BY DEF Inv, SetupInv
<1> QED
  BY <1>1, HierarchyInvariant, PTL

\* A mote that sends to its head by reliable unicast hears its head.
THEOREM UnicastIsWithinRange == Spec => []WithinRange
<1>1. Inv => WithinRange
  BY DEF Inv, SetupInv
<1> QED
  BY <1>1, HierarchyInvariant, PTL

\* Every packet is on its way to a head that can pass it on, and recv_mesh never
\* runs on the sink.
THEOREM PacketsAlwaysClimb == Spec => []PacketsClimb
<1>1. Inv => PacketsClimb
  BY DEF Inv, DataInv, PacketsClimb, ChannelsClimb, MeshClimbs, ClimbsByUnicast, ClimbsByMesh
<1> QED
  BY <1>1, HierarchyInvariant, PTL

\* No reading vanishes on its way up the hierarchy, and none is invented.
THEOREM NoReadingVanishes == Spec => []ReadingsAccounted
<1>1. Inv => ReadingsAccounted
  BY DEF Inv, DataInv
<1> QED
  BY <1>1, HierarchyInvariant, PTL

\* However many levels there are, a packet carries at most two addresses; and a
\* reading from below a head of level 1 is reported with its originator.
THEOREM AddressesStayBounded == Spec => []AddressesBounded
<1>1. Inv => AddressesBounded
  BY DEF Inv, DataInv, AddressesBounded, ChannelsClimb, MeshClimbs, ClimbsByUnicast, ClimbsByMesh
<1> QED
  BY <1>1, HierarchyInvariant, PTL

\* A mote decides once: its head, level, hop count and rank never change again.
THEOREM DecisionsAreFinal == Spec => [][DecisionFinal]_vars
<1>1. UNCHANGED setup_vars => DecisionFinal
  BY DEF setup_vars, adopted_vars, DecisionFinal, Decided
<1>2. Inv /\ [Next]_vars => [DecisionFinal]_vars
  BY <1>1, SetupStepFinal, StepKinds DEF Inv
<1> QED
  BY <1>2, HierarchyInvariant, PTL DEF Spec
===============================================================================
