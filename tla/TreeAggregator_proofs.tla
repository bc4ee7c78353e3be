------------------------ MODULE TreeAggregator_proofs ------------------------
(***************************************************************************)
(* Proofs about the whole tree aggregator.  The data side is a TreeSetup   *)
(* with more state, so what was proved of the wave holds of it.            *)
(***************************************************************************)
EXTENDS TreeAggregator, TreeSetup_proofs

\* A step of the aggregator is a step of the wave, or leaves it alone.
LEMMA StepIsSetupStep == [Next]_vars => [SetupNext]_setup_vars
<1> SUFFICES ASSUME [Next]_vars PROVE SetupNext \/ UNCHANGED setup_vars
  OBVIOUS
<1>1. CASE SetupStep
  BY <1>1 DEF SetupStep, SetupNext
<1>2. CASE \E n \in Node : FinishSetup(n)
  BY <1>2 DEF FinishSetup, SetupNext
<1>3. CASE \E n \in Node : SendReading(n)
  BY <1>3 DEF SendReading
<1>4. CASE \E p \in uc : SinkReceives(p)
  BY <1>4 DEF SinkReceives
<1>5. CASE \E n \in Node, p \in uc : RecvAggregate(n, p)
  BY <1>5 DEF RecvAggregate
<1>6. CASE \E n \in Node : FinishAggregateCollect(n)
  BY <1>6 DEF FinishAggregateCollect
<1>7. CASE \E p \in uc : Lose(p)
  BY <1>7 DEF Lose
<1>8. CASE UNCHANGED vars
  BY <1>8 DEF vars
<1> QED
  BY <1>1, <1>2, <1>3, <1>4, <1>5, <1>6, <1>7, <1>8 DEF Next

\* Collecting readings never disturbs the wave: the aggregator implements it.
THEOREM AggregatorImplementsSetup == Spec => SetupSpec
<1>1. Init => SetupInit
  BY DEF Init
<1> QED
  BY <1>1, StepIsSetupStep, PTL DEF Spec, SetupSpec

(***************************************************************************)
(* What a step of the wave may change of what the data side reads: motes   *)
(* join, none leaves, parents stay, and is_leaf_node is only ever cleared. *)
(***************************************************************************)
LEMMA SetupStepFacts ==
  ASSUME SetupInv, SetupStep
  PROVE  /\ UNCHANGED data_vars /\ best_parent' = best_parent /\ Joined' = Joined
         /\ \A n \in Node : is_leaf_node'[n] => is_leaf_node[n]
<1>1. UNCHANGED <<data_vars, best_parent>>
  BY DEF SetupStep, SetupWaitFinished, RecvSetup, StbroadcastCancel
<1>2. \A n \in Node : is_leaf_node'[n] => is_leaf_node[n]
  BY DEF SetupStep, SetupWaitFinished, RecvSetup, StbroadcastCancel, SetupInv, SetupTypeOK
<1>3. Joined' = Joined
  BY <1>1 DEF Joined, HasParent
<1> QED
  BY <1>1, <1>2, <1>3 DEF data_vars

\* The invariant of the data side holds at the start.
LEMMA DataInitInv == Init => DataInv
<1> SUFFICES ASSUME Init PROVE DataInv
  OBVIOUS
<1>1. SetupInv
  BY SetupInitInv DEF Init
<1>2. \A n \in Node : ~HasParent(n)
  BY DEF Init, SetupInit, HasParent
<1>3. TypeOK
  BY <1>1 DEF Init, TypeOK, SetupInv, Content
<1> QED
  BY <1>1, <1>2, <1>3
     DEF Init, DataInv, TimerGuardsCollection, SendersHaveParents, NoBlankAggregated,
         LeafKeepsSensing

\* The wave keeps it, except for the end of detection, which comes below.
LEMMA SetupStepInv ==
  ASSUME DataInv, SetupStep, SetupInv'
  PROVE  DataInv'
<1> USE DEF DataInv
<1>1. /\ UNCHANGED data_vars /\ best_parent' = best_parent /\ Joined' = Joined
      /\ \A n \in Node : is_leaf_node'[n] => is_leaf_node[n]
  BY SetupStepFacts
<1>2. TypeOK'
  BY <1>1 DEF TypeOK, SetupInv, data_vars
<1>3. SendersHaveParents'
  BY <1>1 DEF SendersHaveParents, InTree, HasParent, data_vars
<1>4. LeafKeepsSensing'
  BY <1>1 DEF LeafKeepsSensing, HasParent, data_vars
<1>5. TimerGuardsCollection' /\ NoBlankAggregated'
  BY <1>1 DEF TimerGuardsCollection, NoBlankAggregated, data_vars
<1> QED
  BY <1>2, <1>3, <1>4, <1>5

(***************************************************************************)
(* A mote that joins starts its sensing process; whoever was in the tree   *)
(* keeps its place and its parent.                                         *)
(***************************************************************************)
LEMMA FinishSetupInv ==
  ASSUME DataInv, NEW n \in Node, FinishSetup(n), SetupInv'
  PROVE  DataInv'
<1> USE DEF DataInv
<1>1. ParentDetectFinished(n) /\ ~InTree(n) /\ n # Sink /\ Joined' = Joined \cup {n}
  BY JoinFacts DEF FinishSetup
<1>2. \A m \in Node \ {n} : best_parent'[m] = best_parent[m]
  BY <1>1 DEF ParentDetectFinished, SetupInv, SetupTypeOK
<1>3. UNCHANGED <<is_leaf_node, is_collecting, aggregate_ct, data, uc, readings, received, lost>>
  BY <1>1 DEF FinishSetup, ParentDetectFinished
<1>4. sender' = [sender EXCEPT ![n] = NextWait(n)]
  BY <1>1 DEF FinishSetup
<1>5. TypeOK'
  BY <1>3, <1>4 DEF TypeOK, SetupInv, NextWait
<1>6. SendersHaveParents'
  <2>1. \A m \in Node : HasParent(m) \/ m = n => HasParent(m)'
    BY <1>1 DEF Joined
  <2>2. \A m \in Node : m \in aggregate_ct' \/ sender'[m] = "waiting" => HasParent(m)'
    BY <1>3, <1>4, <2>1 DEF SendersHaveParents, TypeOK
  <2>3. \A p \in uc : /\ InTree(p.src)' /\ p.dst = best_parent'[p.src] /\ InTree(p.dst)'
    <3> SUFFICES ASSUME NEW p \in uc
                 PROVE  InTree(p.src)' /\ p.dst = best_parent'[p.src] /\ InTree(p.dst)'
      OBVIOUS
    <3>1. /\ p.src \in Node /\ InTree(p.src)
          /\ p.dst = best_parent[p.src] /\ InTree(p.dst)
      BY DEF TypeOK, Packet, SendersHaveParents
    <3> QED
      BY <1>1, <1>2, <3>1 DEF InTree
  <2> QED
    BY <1>3, <2>2, <2>3 DEF SendersHaveParents
<1>7. LeafKeepsSensing'
  <2>1. \A m \in Node \ {n} : HasParent(m)' => HasParent(m)
    BY <1>2 DEF HasParent
  <2> QED
    BY <1>3, <1>4, <2>1 DEF LeafKeepsSensing, NextWait, TypeOK
<1>8. TimerGuardsCollection' /\ NoBlankAggregated'
  BY <1>3 DEF TimerGuardsCollection, NoBlankAggregated
<1> QED
  BY <1>5, <1>6, <1>7, <1>8

\* What is said of the tree stays true while the set-up variables stay.
LEMMA SetupVarsUnchanged ==
  ASSUME UNCHANGED setup_vars
  PROVE  /\ is_leaf_node' = is_leaf_node /\ best_parent' = best_parent
         /\ \A m : (InTree(m)' <=> InTree(m)) /\ (HasParent(m)' <=> HasParent(m))
         /\ SetupTypeOK' <=> SetupTypeOK
BY DEF setup_vars, InTree, Joined, HasParent, SetupTypeOK

\* A new reading has the type of a reading and is not blank.
LEMMA NextReadingIsReading ==
  ASSUME TypeOK, NEW n \in Node
  PROVE  NextReading(n) \in Reading /\ NextReading(n) # Blank
BY SetupAssumption DEF TypeOK, NextReading, Reading, Blank

\* The parent of a mote of the tree is in the tree.
LEMMA ParentInTree ==
  ASSUME DataInv, NEW n \in Node, HasParent(n)
  PROVE  InTree(n) /\ InTree(best_parent[n]) /\ best_parent[n] \in Address
BY DEF DataInv, SetupInv, HopCountsDistance, SetupTypeOK, InTree, Joined

\* send_data_process keeps the invariant.
LEMMA SendReadingInv ==
  ASSUME DataInv, NEW n \in Node, SendReading(n), SetupInv'
  PROVE  DataInv'
<1> DEFINE p == [src |-> n, dst |-> best_parent[n], content |-> {NextReading(n)}]
<1> USE DEF DataInv, SendReading
<1>1. /\ is_leaf_node' = is_leaf_node /\ best_parent' = best_parent
      /\ \A m : (InTree(m)' <=> InTree(m)) /\ (HasParent(m)' <=> HasParent(m))
  BY SetupVarsUnchanged
<1>2. HasParent(n)
  BY DEF SendersHaveParents
<1>3. InTree(n) /\ InTree(best_parent[n]) /\ best_parent[n] \in Address
  BY <1>2, ParentInTree
<1>4. NextReading(n) \in Reading /\ NextReading(n) # Blank
  BY NextReadingIsReading
<1>5. p \in Packet /\ uc' = uc \cup {p}
  BY <1>3, <1>4 DEF Packet, Content
<1>6. TypeOK'
  <2>1. sender' \in [Node -> {"off", "waiting", "ended"}]
    BY DEF TypeOK, NextWait
  <2>2. readings' \in [Node -> Nat]
    BY DEF TypeOK
  <2>3. uc' \subseteq Packet
    BY <1>5 DEF TypeOK
  <2> QED
    BY <2>1, <2>2, <2>3 DEF TypeOK, SetupInv
<1>7. SendersHaveParents'
  BY <1>1, <1>2, <1>3, <1>5 DEF SendersHaveParents, TypeOK
<1>8. LeafKeepsSensing'
  BY <1>1 DEF LeafKeepsSensing, NextWait, TypeOK
<1>9. TimerGuardsCollection' /\ NoBlankAggregated'
  BY <1>4, <1>5 DEF TimerGuardsCollection, NoBlankAggregated
<1> QED
  BY <1>6, <1>7, <1>8, <1>9

\* A packet that arrives at the sink, or is lost, keeps it.
LEMMA ArrivalInv ==
  ASSUME DataInv, NEW p \in uc, SinkReceives(p) \/ Lose(p), SetupInv'
  PROVE  DataInv'
<1> USE DEF DataInv
<1>1. /\ is_leaf_node' = is_leaf_node /\ best_parent' = best_parent
      /\ \A m : (InTree(m)' <=> InTree(m)) /\ (HasParent(m)' <=> HasParent(m))
  BY SetupVarsUnchanged DEF SinkReceives, Lose
<1>2. /\ uc' = uc \ {p}
      /\ UNCHANGED <<sender, is_collecting, aggregate_ct, data, readings>>
  BY DEF SinkReceives, Lose
<1>3. p.content \in Content /\ Blank \notin p.content
  BY DEF TypeOK, Packet, NoBlankAggregated
<1>4. /\ received' = received \/ received' = received \cup p.content
      /\ lost' = lost \/ lost' = lost \cup p.content
  BY DEF SinkReceives, Lose
<1>5. TypeOK'
  BY <1>2, <1>3, <1>4 DEF TypeOK, SetupInv, Content
<1>6. SendersHaveParents' /\ LeafKeepsSensing' /\ TimerGuardsCollection'
  BY <1>1, <1>2 DEF SendersHaveParents, LeafKeepsSensing, TimerGuardsCollection
<1>7. NoBlankAggregated'
  BY <1>2, <1>3, <1>4 DEF NoBlankAggregated
<1> QED
  BY <1>5, <1>6, <1>7

\* recv_aggregate keeps it: buffer, flag and timer change together.
LEMMA RecvAggregateInv ==
  ASSUME DataInv, NEW n \in Node, NEW p \in uc, RecvAggregate(n, p), SetupInv'
  PROVE  DataInv'
<1> USE DEF DataInv, RecvAggregate
<1>1. /\ is_leaf_node' = is_leaf_node /\ best_parent' = best_parent
      /\ \A m : (InTree(m)' <=> InTree(m)) /\ (HasParent(m)' <=> HasParent(m))
  BY SetupVarsUnchanged
<1>2. HasParent(n)
  BY DEF SendersHaveParents, InTree, Joined
<1>3. p.content \in Content /\ Blank \notin p.content
  BY DEF TypeOK, Packet, NoBlankAggregated
<1>4. Gathered(n, p.content) \in Content /\ Blank \notin Gathered(n, p.content)
  BY <1>3 DEF Gathered, TypeOK, Content, NoBlankAggregated
<1>5. TypeOK'
  BY <1>4 DEF TypeOK, SetupInv
<1>6. SendersHaveParents' /\ LeafKeepsSensing'
  BY <1>1, <1>2 DEF SendersHaveParents, LeafKeepsSensing
<1>7. TimerGuardsCollection'
  BY DEF TimerGuardsCollection, TypeOK
<1>8. NoBlankAggregated'
  BY <1>4 DEF NoBlankAggregated, TypeOK
<1> QED
  BY <1>5, <1>6, <1>7, <1>8

\* finish_aggregate_collect keeps it: a mote that collects has a parent.
LEMMA FinishAggregateCollectInv ==
  ASSUME DataInv, NEW n \in Node, FinishAggregateCollect(n), SetupInv'
  PROVE  DataInv'
<1> DEFINE content == data[n] \cup {NextReading(n)}
           p == [src |-> n, dst |-> best_parent[n], content |-> content]
<1> USE DEF DataInv, FinishAggregateCollect
<1>1. /\ is_leaf_node' = is_leaf_node /\ best_parent' = best_parent
      /\ \A m : (InTree(m)' <=> InTree(m)) /\ (HasParent(m)' <=> HasParent(m))
  BY SetupVarsUnchanged
<1>2. HasParent(n)
  BY DEF SendersHaveParents
<1>3. InTree(n) /\ InTree(best_parent[n]) /\ best_parent[n] \in Address
  BY <1>2, ParentInTree
<1>4. NextReading(n) \in Reading /\ NextReading(n) # Blank
  BY NextReadingIsReading
<1>5. content \in Content /\ Blank \notin content
  BY <1>4 DEF TypeOK, Content, TimerGuardsCollection, NoBlankAggregated
<1>6. p \in Packet /\ uc' = uc \cup {p}
  BY <1>3, <1>5 DEF Packet
<1>7. TypeOK'
  BY <1>6 DEF TypeOK, SetupInv, Content
<1>8. SendersHaveParents'
  BY <1>1, <1>3, <1>6 DEF SendersHaveParents
<1>9. LeafKeepsSensing'
  BY <1>1 DEF LeafKeepsSensing
<1>10. TimerGuardsCollection'
  BY DEF TimerGuardsCollection, TypeOK
<1>11. NoBlankAggregated'
  BY <1>5, <1>6 DEF NoBlankAggregated, TypeOK
<1> QED
  BY <1>7, <1>8, <1>9, <1>10, <1>11

\* The invariant is inductive.
LEMMA DataNextInv == DataInv /\ [Next]_vars => DataInv'
<1> SUFFICES ASSUME DataInv, [Next]_vars PROVE DataInv'
  OBVIOUS
<1>0. SetupInv'
  BY StepIsSetupStep, SetupNextInv DEF DataInv
<1>1. CASE SetupStep
  BY <1>0, <1>1, SetupStepInv
<1>2. CASE \E n \in Node : FinishSetup(n)
  BY <1>0, <1>2, FinishSetupInv
<1>3. CASE \E n \in Node : SendReading(n)
  BY <1>0, <1>3, SendReadingInv
<1>4. CASE \E p \in uc : SinkReceives(p) \/ Lose(p)
  BY <1>0, <1>4, ArrivalInv
<1>5. CASE \E n \in Node, p \in uc : RecvAggregate(n, p)
  BY <1>0, <1>5, RecvAggregateInv
<1>6. CASE \E n \in Node : FinishAggregateCollect(n)
  BY <1>0, <1>6, FinishAggregateCollectInv
<1>7. CASE UNCHANGED vars
  <2>1. /\ is_leaf_node' = is_leaf_node /\ best_parent' = best_parent
        /\ \A m : (InTree(m)' <=> InTree(m)) /\ (HasParent(m)' <=> HasParent(m))
    BY <1>7, SetupVarsUnchanged DEF vars
  <2> QED
    BY <1>0, <1>7, <2>1
       DEF vars, data_vars, DataInv, TypeOK, SetupInv, TimerGuardsCollection,
           SendersHaveParents, NoBlankAggregated, LeafKeepsSensing
<1> QED
  BY <1>1, <1>2, <1>3, <1>4, <1>5, <1>6, <1>7 DEF Next

\* The invariant of the whole aggregator: types, the wave, and that a collection
\* in progress has its timer, a filled buffer and a parent to send to.
THEOREM DataInvariant == Spec => []DataInv
  BY DataInitInv, DataNextInv, PTL DEF Spec

\* Every variable of the aggregator keeps its type.
THEOREM TypeCorrect == Spec => []TypeOK
<1>1. DataInv => TypeOK
  BY DEF DataInv
<1> QED
  BY <1>1, DataInvariant, PTL

\* Nothing is ever sent before its sender has a parent, or to a mote outside
\* the tree.
THEOREM NothingSentOutsideTree == Spec => []SendersHaveParents
<1>1. DataInv => SendersHaveParents
  BY DEF DataInv
<1> QED
  BY <1>1, DataInvariant, PTL

\* No aggregate contains the contents of a cleared or unwritten buffer.
THEOREM NoAggregateIsBlank == Spec => []NoBlankAggregated
<1>1. DataInv => NoBlankAggregated
  BY DEF DataInv
<1> QED
  BY <1>1, DataInvariant, PTL

\* A leaf of the tree never stops sensing.
THEOREM LeavesKeepSensing == Spec => []LeafKeepsSensing
<1>1. DataInv => LeafKeepsSensing
  BY DEF DataInv
<1> QED
  BY <1>1, DataInvariant, PTL

(***************************************************************************)
(* The accounting of readings.  Every step either moves the content of one *)
(* holder to another or adds a reading nobody has seen to one holder.      *)
(***************************************************************************)
AccountInv == ReadingsAccounted /\ CountedOnce

\* Taking a reading adds exactly one that nobody has taken before.
LEMMA TakenGrows ==
  ASSUME TypeOK, NEW n \in Node, readings' = [readings EXCEPT ![n] = @ + 1]
  PROVE  /\ Taken' = Taken \cup {NextReading(n)}
         /\ NextReading(n) \notin Taken
<1> DEFINE T(m) == {m} \X (1 .. readings[m])
<1>1. \A m \in Node : readings[m] \in Nat
  BY DEF TypeOK
<1>2. \A r : r \in Taken <=> \E m \in Node : \E k \in 1 .. readings[m] : r = <<m, k>>
  BY DEF Taken
<1>3. \A r : r \in Taken' <=> \E m \in Node : \E k \in 1 .. readings'[m] : r = <<m, k>>
  BY DEF Taken
<1>4. /\ readings'[n] = readings[n] + 1
      /\ \A m \in Node \ {n} : readings'[m] = readings[m]
  BY DEF TypeOK
<1>5. 1 .. (readings[n] + 1) = (1 .. readings[n]) \cup {readings[n] + 1}
  BY <1>1
<1>6. \A r : r \in Taken' <=> r \in Taken \/ r = NextReading(n)
  BY <1>2, <1>3, <1>4, <1>5 DEF NextReading
<1>7. NextReading(n) \notin Taken
  BY <1>1, <1>2 DEF NextReading
<1> QED
  BY <1>6, <1>7

\* Where a reading is held, spelled out.
LEMMA HeldMembers ==
  \A r : r \in Held <=> \/ \E p \in uc : r \in p.content
                        \/ \E m \in Node : r \in Stored(m)
                        \/ r \in received
                        \/ r \in lost
<1>1. \A r : r \in InPackets <=> \E p \in uc : r \in p.content
  BY DEF InPackets
<1>2. \A r : r \in InBuffers <=> \E m \in Node : r \in Stored(m)
  BY DEF InBuffers
<1> QED
  BY <1>1, <1>2 DEF Held

\* And in the next state.
LEMMA HeldMembersNext ==
  \A r : r \in Held' <=> \/ \E p \in uc' : r \in p.content
                         \/ \E m \in Node : r \in Stored(m)'
                         \/ r \in received'
                         \/ r \in lost'
<1>1. \A r : r \in InPackets' <=> \E p \in uc' : r \in p.content
  BY DEF InPackets
<1>2. \A r : r \in InBuffers' <=> \E m \in Node : r \in Stored(m)'
  BY DEF InBuffers
<1> QED
  BY <1>1, <1>2 DEF Held

\* Nothing is taken and nothing held at the start.
LEMMA AccountInit == Init => AccountInv
<1> SUFFICES ASSUME Init PROVE AccountInv
  OBVIOUS
<1>1. \A n \in Node : Stored(n) = {}
  BY DEF Init, Stored
<1>2. \A n \in Node : readings[n] = 0
  BY DEF Init
<1>3. Taken = {}
  BY <1>2 DEF Taken
<1>4. uc = {} /\ received = {} /\ lost = {}
  BY DEF Init
<1>5. Held = {}
  BY <1>1, <1>4, HeldMembers
<1> QED
  BY <1>1, <1>3, <1>4, <1>5 DEF AccountInv, ReadingsAccounted, CountedOnce

\* A reading that has just been taken goes out in a packet of its own.
LEMMA SendReadingAccount ==
  ASSUME DataInv, AccountInv, NEW n \in Node, SendReading(n)
  PROVE  AccountInv'
<1> DEFINE r == NextReading(n)
           p == [src |-> n, dst |-> best_parent[n], content |-> {r}]
<1>1. TypeOK /\ Held = Taken /\ CountedOnce
  BY DEF DataInv, AccountInv, ReadingsAccounted
<1>2. Taken' = Taken \cup {r} /\ r \notin Taken
  BY <1>1, TakenGrows DEF SendReading
<1>3. uc' = uc \cup {p} /\ p.content = {r}
  BY DEF SendReading
<1>4. /\ received' = received /\ lost' = lost
      /\ \A m : Stored(m)' = Stored(m)
  BY DEF SendReading, Stored
<1>5. /\ \A q \in uc : r \notin q.content
      /\ \A m \in Node : r \notin Stored(m)
      /\ r \notin received /\ r \notin lost
  BY <1>1, <1>2, HeldMembers
<1> HIDE DEF r, p
<1>6. \A x : x \in Held' <=> x \in Held \/ x = r
  BY <1>3, <1>4, HeldMembers, HeldMembersNext
<1>7. ReadingsAccounted'
  BY <1>1, <1>2, <1>6 DEF ReadingsAccounted
<1>8. CountedOnce'
  BY <1>1, <1>3, <1>4, <1>5 DEF CountedOnce
<1> QED
  BY <1>7, <1>8 DEF AccountInv

\* The content of a packet goes to the sink or is lost.
LEMMA ArrivalAccount ==
  ASSUME DataInv, AccountInv, NEW p \in uc, SinkReceives(p) \/ Lose(p)
  PROVE  AccountInv'
<1>1. Held = Taken /\ CountedOnce
  BY DEF AccountInv, ReadingsAccounted
<1>2. /\ uc' = uc \ {p}
      /\ \A m : Stored(m)' = Stored(m)
  BY DEF SinkReceives, Lose, Stored
<1>3. \/ received' = received \cup p.content /\ lost' = lost
      \/ received' = received /\ lost' = lost \cup p.content
  BY DEF SinkReceives, Lose
<1>4. Taken' = Taken
  BY DEF SinkReceives, Lose, Taken
<1>5. \A x : x \in Held' <=> x \in Held
  BY <1>2, <1>3, HeldMembers, HeldMembersNext
<1>6. ReadingsAccounted'
  BY <1>1, <1>4, <1>5 DEF ReadingsAccounted
<1>7. CountedOnce'
  BY <1>1, <1>2, <1>3 DEF CountedOnce
<1> QED
  BY <1>6, <1>7 DEF AccountInv

\* The content of a packet is added to what its receiver stores.
LEMMA RecvAggregateAccount ==
  ASSUME DataInv, AccountInv, NEW n \in Node, NEW p \in uc, RecvAggregate(n, p)
  PROVE  AccountInv'
<1>1. Held = Taken /\ CountedOnce
  BY DEF AccountInv, ReadingsAccounted
<1>2. /\ uc' = uc \ {p}
      /\ received' = received /\ lost' = lost
  BY DEF RecvAggregate
<1>3. /\ Stored(n)' = Stored(n) \cup p.content
      /\ \A m \in Node \ {n} : Stored(m)' = Stored(m)
  BY DEF RecvAggregate, Stored, Gathered, DataInv, TypeOK
<1>4. Taken' = Taken
  BY DEF RecvAggregate, Taken
<1>5. \A x : x \in Held' <=> x \in Held
  BY <1>2, <1>3, HeldMembers, HeldMembersNext
<1>6. ReadingsAccounted'
  BY <1>1, <1>4, <1>5 DEF ReadingsAccounted
<1>7. CountedOnce'
  BY <1>1, <1>2, <1>3 DEF CountedOnce
<1> QED
  BY <1>6, <1>7 DEF AccountInv

\* What a mote stores, with a reading of its own, goes out in one packet.
LEMMA FinishAggregateCollectAccount ==
  ASSUME DataInv, AccountInv, NEW n \in Node, FinishAggregateCollect(n)
  PROVE  AccountInv'
<1> DEFINE r == NextReading(n)
           p == [src |-> n, dst |-> best_parent[n], content |-> data[n] \cup {r}]
<1>1. TypeOK /\ Held = Taken /\ CountedOnce
  BY DEF DataInv, AccountInv, ReadingsAccounted
<1>2. Taken' = Taken \cup {r} /\ r \notin Taken
  BY <1>1, TakenGrows DEF FinishAggregateCollect
<1>3. Stored(n) = data[n]
  BY DEF FinishAggregateCollect, DataInv, TimerGuardsCollection, Stored
<1>4. uc' = uc \cup {p} /\ p.content = Stored(n) \cup {r}
  BY <1>3 DEF FinishAggregateCollect
<1>5. /\ received' = received /\ lost' = lost
      /\ Stored(n)' = {}
      /\ \A m \in Node \ {n} : Stored(m)' = Stored(m)
  BY DEF FinishAggregateCollect, Stored, DataInv, TypeOK
<1>6. /\ \A q \in uc : r \notin q.content
      /\ \A m \in Node : r \notin Stored(m)
      /\ r \notin received /\ r \notin lost
  BY <1>1, <1>2, HeldMembers
<1> HIDE DEF r, p
<1>7. \A x : x \in Held' <=> x \in Held \/ x = r
  BY <1>4, <1>5, HeldMembers, HeldMembersNext
<1>8. ReadingsAccounted'
  BY <1>1, <1>2, <1>7 DEF ReadingsAccounted
<1>9. CountedOnce'
  BY <1>1, <1>4, <1>5, <1>6 DEF CountedOnce
<1> QED
  BY <1>8, <1>9 DEF AccountInv

\* The accounting is inductive together with DataInv.
LEMMA AccountNext == DataInv /\ AccountInv /\ [Next]_vars => AccountInv'
<1> SUFFICES ASSUME DataInv, AccountInv, [Next]_vars PROVE AccountInv'
  OBVIOUS
<1>1. CASE \E n \in Node : SendReading(n)
  BY <1>1, SendReadingAccount
<1>2. CASE \E p \in uc : SinkReceives(p) \/ Lose(p)
  BY <1>2, ArrivalAccount
<1>3. CASE \E n \in Node, p \in uc : RecvAggregate(n, p)
  BY <1>3, RecvAggregateAccount
<1>4. CASE \E n \in Node : FinishAggregateCollect(n)
  BY <1>4, FinishAggregateCollectAccount
<1>5. CASE UNCHANGED <<is_collecting, data, uc, readings, received, lost>>
  <2>1. Held' = Held /\ Taken' = Taken /\ \A m : Stored(m)' = Stored(m)
    BY <1>5 DEF Held, InPackets, InBuffers, Taken, Stored
  <2> QED
    BY <1>5, <2>1 DEF AccountInv, ReadingsAccounted, CountedOnce
<1> QED
  BY <1>1, <1>2, <1>3, <1>4, <1>5 DEF Next, SetupStep, FinishSetup, vars, data_vars

\* The accounting of readings holds in every reachable state.
LEMMA AccountInvariant == Spec => []AccountInv
  BY AccountInit, AccountNext, DataInvariant, PTL DEF Spec

\* No mote ever drops a reading, however collection, sending and loss interleave.
THEOREM NoReadingDropped == Spec => []ReadingsAccounted
<1>1. AccountInv => ReadingsAccounted
  BY DEF AccountInv
<1> QED
  BY <1>1, AccountInvariant, PTL

\* No reading ever counts twice in what the sink is told.
THEOREM NoReadingCountsTwice == Spec => []CountedOnce
<1>1. AccountInv => CountedOnce
  BY DEF AccountInv
<1> QED
  BY <1>1, AccountInvariant, PTL
==============================================================================
