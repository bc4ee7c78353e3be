--------------------------- MODULE TreeSetup_proofs ---------------------------
(***************************************************************************)
(* Proofs about the set-up wave, for every set of motes, every set of      *)
(* links and every counter width that the network fits in.                 *)
(***************************************************************************)
EXTENDS TreeSetup, FiniteSetTheorems, TLAPS

(***************************************************************************)
(* The sink never joins, so at most |Node| - 1 motes do.                   *)
(***************************************************************************)
LEMMA JoinedBound ==
  ASSUME SetupTypeOK, DetectionOnce
  PROVE  /\ IsFiniteSet(Joined)
         /\ Cardinality(Joined) \in Nat
         /\ Cardinality(Joined) < UINT_MAX
         /\ Sink \notin Joined
<1>1. Sink \notin Joined
  BY SetupAssumption DEF DetectionOnce, Joined
<1>2. IsFiniteSet(Joined)
  BY SetupAssumption, FS_Subset DEF Joined
<1>3. Cardinality(Node) \in Nat
  BY SetupAssumption, FS_CardinalityType
<1>4. IsFiniteSet(Joined \cup {Sink}) /\ Cardinality(Joined \cup {Sink}) = Cardinality(Joined) + 1
  BY <1>1, <1>2, FS_AddElement
<1>5. Joined \cup {Sink} \subseteq Node
  BY SetupAssumption DEF Joined
<1>6. Cardinality(Joined \cup {Sink}) <= Cardinality(Node)
  BY <1>5, SetupAssumption, FS_Subset
<1>7. Cardinality(Joined) \in Nat
  BY <1>2, FS_CardinalityType
<1> QED
  BY <1>1, <1>2, <1>3, <1>4, <1>6, <1>7, HopFits, SetupAssumption

(***************************************************************************)
(* The hop count below a mote of the tree is at most the number of motes   *)
(* that have joined: announcing it does not wrap, and it beats UINT_MAX.   *)
(***************************************************************************)
LEMMA BelowBound ==
  ASSUME SetupTypeOK, DetectionOnce, HopCountsDistance,
         NEW p, InTree(p)
  PROVE  /\ p \in Node
         /\ Below(p) \in Nat
         /\ Below(p) <= Cardinality(Joined)
         /\ Below(p) < UINT_MAX
         /\ p # Sink => p \in Joined
<1>1. /\ Cardinality(Joined) \in Nat
      /\ Cardinality(Joined) < UINT_MAX
  BY JoinedBound
<1>2. p \in Node
  BY SetupAssumption DEF InTree, Joined
<1>3. CASE p = Sink
  BY <1>1, <1>2, <1>3, SetupAssumption DEF Below
<1>4. CASE p # Sink
  <2>1. HasParent(p)
    BY <1>4 DEF InTree, Joined
  <2>2. best_hop[p] \in Nat /\ best_hop[p] < Cardinality(Joined)
    BY <1>2, <2>1 DEF HopCountsDistance, SetupTypeOK, HopCount
  <2> QED
    BY <1>1, <1>2, <1>4, <2>1, <2>2, SetupAssumption DEF Below, Joined
<1> QED
  BY <1>3, <1>4

\* tree_agg_open establishes the invariant.
LEMMA SetupInitInv == SetupInit => SetupInv
<1> SUFFICES ASSUME SetupInit PROVE SetupInv
  OBVIOUS
<1> USE DEF SetupInit
<1>1. SetupTypeOK
  BY SetupAssumption DEF SetupTypeOK, HopCount, Address, SetupMsg
<1>2. \A n \in Node : ~HasParent(n)
  BY DEF HasParent
<1>3. Joined = {}
  BY <1>2 DEF Joined
<1>4. NoCycle
  BY <1>3 DEF NoCycle
<1> QED
  BY <1>1, <1>2, <1>4, SetupAssumption
     DEF SetupInv, DetectionOnce, CandidatesInTree, AnnouncementsCurrent,
         HopCountsDistance, NonLeafHasChild

(***************************************************************************)
(* Steps that leave the tree alone keep what only speaks of the tree.      *)
(***************************************************************************)
LEMMA TreeUnchanged ==
  ASSUME SetupInv, UNCHANGED <<best_parent, best_hop>>
  PROVE  /\ HopCountsDistance' /\ NoCycle'
         /\ Joined' = Joined
         /\ \A p : /\ InTree(p)' <=> InTree(p)
                   /\ Below(p)' = Below(p)
                   /\ HasParent(p)' <=> HasParent(p)
<1>1. \A p : /\ InTree(p)' <=> InTree(p)
             /\ Below(p)' = Below(p)
             /\ HasParent(p)' <=> HasParent(p)
  BY DEF InTree, Joined, HasParent, Below
<1>2. Joined' = Joined
  BY <1>1 DEF Joined
<1> QED
  BY <1>1, <1>2 DEF SetupInv, HopCountsDistance, NoCycle

\* The sink's first message keeps it: no mote was announced before.
LEMMA SetupWaitFinishedInv ==
  ASSUME SetupInv, SetupWaitFinished
  PROVE  SetupInv'
<1> DEFINE msg == [source |-> Sink, parent |-> rimeaddr_null, hop_count |-> 0]
<1> USE DEF SetupInv, SetupWaitFinished
<1>1. /\ HopCountsDistance' /\ NoCycle'
      /\ \A p : /\ InTree(p)' <=> InTree(p)
                /\ Below(p)' = Below(p)
                /\ HasParent(p)' <=> HasParent(p)
  BY TreeUnchanged
<1>2. msg \in SetupMsg
  BY SetupAssumption DEF SetupMsg, Address, HopCount
<1>3. \A m \in bc' : m \in bc \/ m = msg
  BY DEF Stubborn, Cancelled
<1>4. SetupTypeOK'
  BY <1>2, <1>3 DEF SetupTypeOK
<1>5. InTree(Sink) /\ Below(Sink) = 0 /\ best_parent[Sink] = rimeaddr_null
  BY SetupAssumption DEF InTree, Joined, Below, DetectionOnce, HasParent
<1>6. AnnouncementsCurrent'
  BY <1>1, <1>3, <1>5 DEF AnnouncementsCurrent
<1>7. DetectionOnce' /\ CandidatesInTree' /\ NonLeafHasChild'
  BY <1>1 DEF DetectionOnce, CandidatesInTree, NonLeafHasChild
<1> QED
  BY <1>1, <1>4, <1>6, <1>7

\* Cancelling a broadcast only removes a message.
LEMMA StbroadcastCancelInv ==
  ASSUME SetupInv, NEW n \in Node, StbroadcastCancel(n)
  PROVE  SetupInv'
<1> USE DEF SetupInv, StbroadcastCancel
<1>1. /\ HopCountsDistance' /\ NoCycle'
      /\ \A p : /\ InTree(p)' <=> InTree(p)
                /\ Below(p)' = Below(p)
                /\ HasParent(p)' <=> HasParent(p)
  BY TreeUnchanged
<1>2. bc' \subseteq bc
  BY DEF Cancelled
<1>3. SetupTypeOK'
  BY <1>2 DEF SetupTypeOK
<1>4. AnnouncementsCurrent'
  BY <1>1, <1>2 DEF AnnouncementsCurrent
<1>5. DetectionOnce' /\ CandidatesInTree' /\ NonLeafHasChild'
  BY <1>1 DEF DetectionOnce, CandidatesInTree, NonLeafHasChild
<1> QED
  BY <1>1, <1>3, <1>4, <1>5

\* recv_setup keeps it: the new candidate is a mote of the tree.
LEMMA RecvSetupInv ==
  ASSUME SetupInv, NEW n \in Node, NEW msg \in bc, RecvSetup(n, msg)
  PROVE  SetupInv'
<1> USE DEF SetupInv, RecvSetup
<1>1. /\ HopCountsDistance' /\ NoCycle'
      /\ \A p : /\ InTree(p)' <=> InTree(p)
                /\ Below(p)' = Below(p)
                /\ HasParent(p)' <=> HasParent(p)
  BY TreeUnchanged
<1>2. msg \in SetupMsg
  BY DEF SetupTypeOK
<1>3. msg.source \in Address /\ msg.source \in Node /\ msg.hop_count \in HopCount
  BY <1>2 DEF SetupMsg, Address
<1>4. /\ InTree(msg.source)
      /\ msg.hop_count = Below(msg.source)
      /\ msg.parent = best_parent[msg.source]
  BY DEF AnnouncementsCurrent
<1>5. SetupTypeOK'
  BY <1>3 DEF SetupTypeOK, Address
<1>6. Below(msg.source) < UINT_MAX
  BY <1>3, <1>4, BelowBound
<1>7. DetectionOnce'
  <2>1. \A m \in detect_ct' : has_seen_setup'[m] /\ ~HasParent(m)
    BY DEF DetectionOnce, FirstSetup, SetupTypeOK
  <2>2. \A m \in Node : ~has_seen_setup'[m] =>
            ~HasParent(m) /\ collecting_best_hop'[m] = UINT_MAX
    BY DEF DetectionOnce, SetupTypeOK
  <2>3. ~has_seen_setup'[Sink]
    BY SetupAssumption DEF DetectionOnce, SetupTypeOK
  <2> QED
    BY <1>1, <2>1, <2>2, <2>3 DEF DetectionOnce
<1>8. CandidatesInTree'
  <2> SUFFICES ASSUME NEW m \in Node, has_seen_setup'[m]
               PROVE  /\ InTree(collecting_best_parent'[m])
                      /\ collecting_best_hop'[m] = Below(collecting_best_parent'[m])
    BY <1>1 DEF CandidatesInTree
  <2>1. CASE m # n
    BY <2>1 DEF CandidatesInTree, SetupTypeOK
  <2>2. CASE m = n /\ Closer(n, msg)
    BY <1>4, <2>2 DEF SetupTypeOK
  <2>3. CASE m = n /\ ~Closer(n, msg)
    <3>1. has_seen_setup[n]
      BY <1>4, <1>6, <2>3 DEF DetectionOnce, Closer
    <3> QED
      BY <2>3, <3>1 DEF CandidatesInTree, SetupTypeOK
  <2> QED
    BY <2>1, <2>2, <2>3
<1>9. NonLeafHasChild'
  BY <1>3, <1>4 DEF NonLeafHasChild, NamesAsParent, SetupTypeOK
<1>10. AnnouncementsCurrent'
  BY <1>1 DEF AnnouncementsCurrent
<1> QED
  BY <1>1, <1>5, <1>7, <1>8, <1>9, <1>10

(***************************************************************************)
(* A mote joins below p, its candidate.  Its hop count is new to the tree, *)
(* nobody has it as parent yet, and the tree has one more mote.            *)
(***************************************************************************)
LEMMA JoinFacts ==
  ASSUME SetupInv, NEW n \in Node, ParentDetectFinished(n)
  PROVE  LET p == collecting_best_parent[n]
         IN  /\ n # Sink /\ ~InTree(n)
             /\ p \in Node /\ InTree(p) /\ p # n
             /\ collecting_best_hop[n] = Below(p)
             /\ Below(p) \in Nat /\ Below(p) <= Cardinality(Joined)
             /\ Below(p) < UINT_MAX
             /\ Joined' = Joined \cup {n}
             /\ Cardinality(Joined') = Cardinality(Joined) + 1
             /\ \A m : InTree(m) => InTree(m)' /\ Below(m)' = Below(m)
<1> DEFINE p == collecting_best_parent[n]
<1> USE DEF SetupInv, ParentDetectFinished
<1>1. has_seen_setup[n] /\ ~HasParent(n) /\ n # Sink
  BY DEF DetectionOnce
<1>2. InTree(p) /\ collecting_best_hop[n] = Below(p) /\ p \in Address
  BY <1>1 DEF CandidatesInTree, SetupTypeOK
<1>3. ~InTree(n)
  BY <1>1 DEF InTree, Joined
<1>4. p \in Node /\ Below(p) \in Nat /\ Below(p) <= Cardinality(Joined) /\ Below(p) < UINT_MAX
  BY <1>2, BelowBound
<1>5. p # rimeaddr_null
  BY <1>4, SetupAssumption
<1>6. Joined' = Joined \cup {n}
  BY <1>5 DEF Joined, HasParent, SetupTypeOK
<1>7. Cardinality(Joined') = Cardinality(Joined) + 1
  <2>1. IsFiniteSet(Joined)
    BY JoinedBound
  <2>2. n \notin Joined
    BY <1>1 DEF Joined
  <2> QED
    BY <1>6, <2>1, <2>2, FS_AddElement
<1>8. \A m : InTree(m) => InTree(m)' /\ Below(m)' = Below(m)
  BY <1>3, <1>5 DEF InTree, Joined, HasParent, Below, SetupTypeOK
<1> QED
  BY <1>1, <1>2, <1>3, <1>4, <1>6, <1>7, <1>8

\* parent_detect_finished keeps it: one mote joins below its candidate.
LEMMA ParentDetectFinishedInv ==
  ASSUME SetupInv, NEW n \in Node, ParentDetectFinished(n)
  PROVE  SetupInv'
<1> DEFINE p == collecting_best_parent[n]
<1> USE DEF SetupInv, ParentDetectFinished
<1>1. /\ n # Sink /\ ~InTree(n)
      /\ p \in Node /\ InTree(p) /\ p # n
      /\ collecting_best_hop[n] = Below(p)
      /\ Below(p) \in Nat /\ Below(p) <= Cardinality(Joined)
      /\ Below(p) < UINT_MAX
      /\ Joined' = Joined \cup {n}
      /\ Cardinality(Joined') = Cardinality(Joined) + 1
  BY JoinFacts
<1>2. \A m : InTree(m) => InTree(m)' /\ Below(m)' = Below(m)
  BY JoinFacts
<1>3. /\ best_parent'[n] = p /\ best_hop'[n] = Below(p)
      /\ \A m \in Node \ {n} : best_parent'[m] = best_parent[m] /\ best_hop'[m] = best_hop[m]
  BY <1>1 DEF SetupTypeOK
<1>4. Announcement(n) = [source |-> n, parent |-> p, hop_count |-> Below(p) + 1]
  BY <1>1, SetupAssumption DEF Announcement
<1>5. Announcement(n) \in SetupMsg
  BY <1>1, <1>4, SetupAssumption DEF SetupMsg, Address, HopCount
<1>6. \A m \in bc' : (m \in bc /\ m.source # n) \/ m = Announcement(n)
  BY <1>4 DEF Stubborn, Cancelled
<1>7. SetupTypeOK'
  BY <1>5, <1>6 DEF SetupTypeOK
<1>8. HopCountsDistance'
  <2> DEFINE q(m) == best_parent'[m]
  <2> SUFFICES ASSUME NEW m \in Node, HasParent(m)'
               PROVE  /\ q(m) = Sink \/ q(m) \in Joined'
                      /\ best_hop'[m] = IF q(m) = Sink THEN 0 ELSE best_hop'[q(m)] + 1
                      /\ best_hop'[m] < Cardinality(Joined')
    BY DEF HopCountsDistance, InTree, Below
  <2>1. Cardinality(Joined) \in Nat
    BY JoinedBound
  <2>2. \A x : InTree(x) => /\ x = Sink \/ x \in Joined'
                            /\ Below(x) = IF x = Sink THEN 0 ELSE best_hop'[x] + 1
    BY <1>2 DEF InTree, Below
  <2>3. CASE m = n
    BY <1>1, <1>3, <2>1, <2>2, <2>3
  <2>4. CASE m # n
    <3>1. HasParent(m)
      BY <1>3, <2>4 DEF HasParent
    <3>2. /\ InTree(best_parent[m]) /\ best_hop[m] = Below(best_parent[m])
          /\ best_hop[m] < Cardinality(Joined) /\ best_hop[m] \in Nat
      BY <3>1 DEF HopCountsDistance, SetupTypeOK, HopCount
    <3> QED
      BY <1>1, <1>3, <2>1, <2>2, <2>4, <3>2
  <2> QED
    BY <2>3, <2>4
<1>9. NoCycle'
  <2> SUFFICES ASSUME NEW S \in SUBSET (Joined'), S # {}
               PROVE  \E m \in S : best_parent'[m] \notin S
    BY DEF NoCycle
  <2>1. CASE S \subseteq {n}
    BY <1>1, <1>3, <2>1
  <2>2. CASE ~(S \subseteq {n})
    <3>1. S \ {n} \in SUBSET Joined /\ S \ {n} # {}
      BY <1>1, <2>2
    <3>2. PICK m \in S \ {n} : best_parent[m] \notin S \ {n}
      BY <3>1 DEF NoCycle
    <3>3. best_parent'[m] = best_parent[m] /\ InTree(best_parent[m])
      BY <1>3, <3>1 DEF HopCountsDistance, Joined
    <3>4. best_parent[m] # n
      BY <1>1, <3>3
    <3> QED
      BY <3>2, <3>3, <3>4
  <2> QED
    BY <2>1, <2>2
<1>10. DetectionOnce'
  BY <1>1, <1>3 DEF DetectionOnce, HasParent, SetupTypeOK
<1>11. CandidatesInTree'
  BY <1>2 DEF CandidatesInTree
<1>12. AnnouncementsCurrent'
  <2> SUFFICES ASSUME NEW m \in bc'
               PROVE  /\ InTree(m.source)' /\ m.hop_count = Below(m.source)'
                      /\ m.parent = best_parent'[m.source]
    BY DEF AnnouncementsCurrent
  <2>1. CASE m = Announcement(n)
    <3>1. InTree(n)' /\ Below(n)' = Below(p) + 1
      BY <1>1, <1>3, SetupAssumption DEF InTree, Joined, HasParent, Below
    <3> QED
      BY <1>3, <1>4, <2>1, <3>1
  <2>2. CASE m \in bc /\ m.source # n
    <3>1. m.source \in Node
      BY <2>2 DEF SetupTypeOK, SetupMsg
    <3> QED
      BY <1>2, <1>3, <2>2, <3>1 DEF AnnouncementsCurrent
  <2> QED
    BY <1>6, <2>1, <2>2
<1>13. NonLeafHasChild'
  <2> SUFFICES ASSUME NEW m \in Node, ~is_leaf_node[m]
               PROVE  \E c \in Node : best_parent'[c] = m
    BY DEF NonLeafHasChild
  <2>1. PICK c \in Node : best_parent[c] = m
    BY DEF NonLeafHasChild
  <2>2. c # n
    BY <1>1, <2>1, SetupAssumption DEF InTree, Joined, HasParent
  <2> QED
    BY <1>3, <2>1, <2>2
<1> QED
  BY <1>7, <1>8, <1>9, <1>10, <1>11, <1>12, <1>13

\* The invariant is inductive.
LEMMA SetupNextInv == SetupInv /\ [SetupNext]_setup_vars => SetupInv'
<1> SUFFICES ASSUME SetupInv, [SetupNext]_setup_vars PROVE SetupInv'
  OBVIOUS
<1>1. CASE SetupWaitFinished
  BY <1>1, SetupWaitFinishedInv
<1>2. CASE \E n \in Node, msg \in bc : RecvSetup(n, msg)
  BY <1>2, RecvSetupInv
<1>3. CASE \E n \in Node : ParentDetectFinished(n)
  BY <1>3, ParentDetectFinishedInv
<1>4. CASE \E n \in Node : StbroadcastCancel(n)
  BY <1>4, StbroadcastCancelInv
<1>5. CASE UNCHANGED setup_vars
  <2> USE <1>5 DEF setup_vars, SetupInv
  <2>1. /\ HopCountsDistance' /\ NoCycle'
        /\ \A p : /\ InTree(p)' <=> InTree(p)
                  /\ Below(p)' = Below(p)
                  /\ HasParent(p)' <=> HasParent(p)
    BY TreeUnchanged
  <2> QED
    BY <2>1 DEF SetupTypeOK, DetectionOnce, CandidatesInTree, AnnouncementsCurrent,
                NonLeafHasChild
<1> QED
  BY <1>1, <1>2, <1>3, <1>4, <1>5 DEF SetupNext

(***************************************************************************)
(* The inductive invariant of the set-up wave, and with it its types.      *)
(***************************************************************************)
THEOREM SetupInvariant == SetupSpec => []SetupInv
  BY SetupInitInv, SetupNextInv, PTL DEF SetupSpec

\* The set-up state of every mote keeps its type: parents are addresses, hop
\* counts fit an unsigned int, broadcasts are well-formed messages.
THEOREM SetupTypeCorrect == SetupSpec => []SetupTypeOK
<1>1. SetupInv => SetupTypeOK
  BY DEF SetupInv
<1> QED
  BY <1>1, SetupInvariant, PTL

\* Whatever the links and the order of messages and timers, best_parent never
\* leads round in a circle.
THEOREM TreeHasNoCycle == SetupSpec => []NoCycle
<1>1. SetupInv => NoCycle
  BY DEF SetupInv
<1> QED
  BY <1>1, SetupInvariant, PTL

\* Hop counts are one more than the parent's and never wrap, in every network
\* with no more motes than an unsigned int can count.
THEOREM HopsAreDistances == SetupSpec => []HopCountsDistance
<1>1. SetupInv => HopCountsDistance
  BY DEF SetupInv
<1> QED
  BY <1>1, SetupInvariant, PTL

\* recv_setup never takes a mote without children for an inner one.
THEOREM NonLeavesHaveChildren == SetupSpec => []NonLeafHasChild
<1>1. SetupInv => NonLeafHasChild
  BY DEF SetupInv
<1> QED
  BY <1>1, SetupInvariant, PTL

(***************************************************************************)
(* Every step of the wave is a Join of RootedTree or leaves the tree as it *)
(* is.                                                                     *)
(***************************************************************************)
LEMMA StepIsJoin ==
  SetupInv /\ [SetupNext]_setup_vars => [Tree!TreeNext]_(Tree!tree_vars)
<1> SUFFICES ASSUME SetupInv, [SetupNext]_setup_vars
             PROVE  Tree!TreeNext \/ UNCHANGED <<best_parent, best_hop>>
  BY DEF Tree!tree_vars
<1>1. CASE \E n \in Node : ParentDetectFinished(n)
  <2>1. PICK n \in Node : ParentDetectFinished(n)
    BY <1>1
  <2> DEFINE p == collecting_best_parent[n]
  <2>2. /\ ~InTree(n) /\ p \in Node /\ InTree(p)
        /\ collecting_best_hop[n] = Below(p)
    BY <2>1, JoinFacts
  <2>3. Tree!Join(n, p)
    BY <2>1, <2>2 DEF Tree!Join, Tree!InTree, InTree, Joined, HasParent, Below, ParentDetectFinished
  <2> QED
    BY <2>2, <2>3 DEF Tree!TreeNext
<1>2. CASE ~ \E n \in Node : ParentDetectFinished(n)
  BY <1>2 DEF SetupNext, SetupWaitFinished, RecvSetup, StbroadcastCancel, setup_vars
<1> QED
  BY <1>1, <1>2

\* The wave implements the tree that only grows: a mote joins once, below a
\* mote that is in the tree, one hop further out, and never moves.
THEOREM SetupImplementsTree == SetupSpec => ImplementsTree
<1>1. SetupInit => Tree!TreeInit
  BY DEF SetupInit, Tree!TreeInit
<1> QED
  BY <1>1, StepIsJoin, SetupInvariant, PTL DEF SetupSpec, ImplementsTree, Tree!TreeSpec
===============================================================================
