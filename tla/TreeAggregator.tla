--------------------------- MODULE TreeAggregator ---------------------------
(***************************************************************************)
(* Samples/TreeAggregator/tree-aggregator.c: the set-up wave of TreeSetup  *)
(* together with the collection of readings over the tree it builds.       *)
(*                                                                         *)
(* A mote that believes it is a leaf reads its sensors every 60 s and      *)
(* sends the reading to its parent.  A mote that receives data collects    *)
(* for AGGREGATION_WAIT, adds a reading of its own, and sends the          *)
(* aggregate on.  What is tracked of a message is WHICH readings went into *)
(* it: the halving arithmetic of tree_aggregate_update is abstracted to    *)
(* the set of readings that have contributed.                              *)
(***************************************************************************)
EXTENDS TreeSetup

CONSTANTS
  MaxReadings   \* bound: a mote stops sending after this many sensor readings

ASSUME BoundAssumption == MaxReadings \in Nat

VARIABLES
  sender,         \* send_data_process of each mote
  is_collecting,  \* conn->is_collecting
  aggregate_ct,   \* motes whose AGGREGATION_WAIT timer is armed
  data,           \* conn->data: the readings gathered so far
  uc,             \* unicast packets in flight
  readings,       \* how often each mote has read its sensors
  received,       \* readings passed to tree_agg_recv at the sink
  lost            \* readings the radio has lost

data_vars ==
  <<sender, is_collecting, aggregate_ct, data, uc, readings, received, lost>>

vars == <<setup_vars, data_vars>>

(***************************************************************************)
(* The k-th reading mote n takes is <<n, k>>.  Blank stands for the value  *)
(* of a buffer nobody has written a reading to: what malloc returned, or   *)
(* the zeros memset leaves.  A buffer averaged with it would be wrong.     *)
(***************************************************************************)
Reading == Node \X (Nat \ {0})
Blank == <<rimeaddr_null, 0>>
Content == SUBSET (Reading \cup {Blank})
Packet == [src : Node, dst : Address, content : Content]

NextReading(n) == <<n, readings[n] + 1>>

TypeOK ==
  /\ SetupTypeOK
  /\ sender \in [Node -> {"off", "waiting", "ended"}]
  /\ is_collecting \in [Node -> BOOLEAN]
  /\ aggregate_ct \subseteq Node
  /\ data \in [Node -> Content]
  /\ uc \subseteq Packet
  /\ readings \in [Node -> Nat]
  /\ received \subseteq Reading \cup {Blank}
  /\ lost \subseteq Reading \cup {Blank}

\* Mutant: send_data_process is autostarted instead of started by setup_complete.
Init_Autostart ==
  /\ SetupInit
  /\ sender = [n \in Node |-> IF n = Sink THEN "off" ELSE "waiting"]
  /\ is_collecting = [n \in Node |-> FALSE]
  /\ aggregate_ct = {}
  /\ data = [n \in Node |-> {Blank}]
  /\ uc = {}
  /\ readings = [n \in Node |-> 0]
  /\ received = {}
  /\ lost = {}

Init ==
  /\ SetupInit
  /\ sender = [n \in Node |-> "off"]
  /\ is_collecting = [n \in Node |-> FALSE]
  /\ aggregate_ct = {}
  /\ data = [n \in Node |-> {Blank}]
  /\ uc = {}
  /\ readings = [n \in Node |-> 0]
  /\ received = {}
  /\ lost = {}

(***************************************************************************)
(* The set-up wave.  Only parent_detect_finished touches the data side: it *)
(* calls setup_complete, which starts send_data_process synchronously, and *)
(* the process runs up to its first wait (or ends, if n is not a leaf).    *)
(***************************************************************************)
NextWait(n) == IF is_leaf_node[n] THEN "waiting" ELSE "ended"

FinishSetup(n) ==
  /\ ParentDetectFinished(n)
  /\ sender' = [sender EXCEPT ![n] = IF n # Sink THEN NextWait(n) ELSE @]
  /\ UNCHANGED <<is_collecting, aggregate_ct, data, uc, readings, received, lost>>

SetupStep ==
  /\ \/ SetupWaitFinished
     \/ \E n \in Node, msg \in bc : RecvSetup(n, msg)
     \/ \E n \in Node : StbroadcastCancel(n)
  /\ UNCHANGED data_vars

(***************************************************************************)
(* send_data_process when its 60 s timer expires: tree_agg_send, then the  *)
(* loop condition is read again.  It was last read before the wait.        *)
(***************************************************************************)
SendReading(n) ==
  /\ sender[n] = "waiting"
  /\ readings[n] < MaxReadings
  /\ readings' = [readings EXCEPT ![n] = @ + 1]
  /\ uc' = uc \cup {[src |-> n, dst |-> best_parent[n], content |-> {NextReading(n)}]}
  /\ sender' = [sender EXCEPT ![n] = NextWait(n)]
  /\ UNCHANGED <<is_collecting, aggregate_ct, data, received, lost>>
  /\ UNCHANGED setup_vars

\* A packet is only received over a link.
CanArrive(p) == <<p.src, p.dst>> \in Link

\* recv_aggregate at the sink: the packet goes up to the user.
SinkReceives(p) ==
  /\ CanArrive(p)
  /\ p.dst = Sink
  /\ uc' = uc \ {p}
  /\ received' = received \cup p.content
  /\ UNCHANGED <<sender, is_collecting, aggregate_ct, data, readings, lost>>
  /\ UNCHANGED setup_vars

\* Mutant: the packet always replaces what was gathered.
Gathered_Overwritten(n, content) == content

\* Mutant: aggregate_update is called whether or not the buffer was ever filled.
Gathered_Unchecked(n, content) == data[n] \cup content

\* recv_aggregate at another mote: aggregate_update while collecting, else the
\* packet replaces the buffer and a collection starts.
Gathered(n, content) == IF is_collecting[n] THEN data[n] \cup content ELSE content

\* Mutant: a collection is started without its timer.
RecvAggregate_Unarmed(n, p) ==
  /\ CanArrive(p)
  /\ p.dst = n
  /\ n # Sink
  /\ uc' = uc \ {p}
  /\ data' = [data EXCEPT ![n] = Gathered(n, p.content)]
  /\ is_collecting' = [is_collecting EXCEPT ![n] = TRUE]
  /\ UNCHANGED <<sender, aggregate_ct, readings, received, lost>>
  /\ UNCHANGED setup_vars

RecvAggregate(n, p) ==
  /\ CanArrive(p)
  /\ p.dst = n
  /\ n # Sink
  /\ uc' = uc \ {p}
  /\ data' = [data EXCEPT ![n] = Gathered(n, p.content)]
  /\ is_collecting' = [is_collecting EXCEPT ![n] = TRUE]
  /\ aggregate_ct' = IF is_collecting[n] THEN aggregate_ct ELSE aggregate_ct \cup {n}
  /\ UNCHANGED <<sender, readings, received, lost>>
  /\ UNCHANGED setup_vars

\* Mutant: is_collecting and the buffer are not reset.
FinishAggregateCollect_NoReset(n) ==
  /\ n \in aggregate_ct
  /\ aggregate_ct' = aggregate_ct \ {n}
  /\ readings' = [readings EXCEPT ![n] = @ + 1]
  /\ uc' = uc \cup {[src     |-> n,
                     dst     |-> best_parent[n],
                     content |-> data[n] \cup {NextReading(n)}]}
  /\ UNCHANGED <<sender, is_collecting, data, received, lost>>
  /\ UNCHANGED setup_vars

\* finish_aggregate_collect: add our own reading, send, reset.
FinishAggregateCollect(n) ==
  /\ n \in aggregate_ct
  /\ aggregate_ct' = aggregate_ct \ {n}
  /\ readings' = [readings EXCEPT ![n] = @ + 1]
  /\ uc' = uc \cup {[src     |-> n,
                     dst     |-> best_parent[n],
                     content |-> data[n] \cup {NextReading(n)}]}
  /\ is_collecting' = [is_collecting EXCEPT ![n] = FALSE]
  /\ data' = [data EXCEPT ![n] = {Blank}]
  /\ UNCHANGED <<sender, received, lost>>
  /\ UNCHANGED setup_vars

\* Best-effort unicast: the radio may lose any packet.
Lose(p) ==
  /\ uc' = uc \ {p}
  /\ lost' = lost \cup p.content
  /\ UNCHANGED <<sender, is_collecting, aggregate_ct, data, readings, received>>
  /\ UNCHANGED setup_vars

Next ==
  \/ SetupStep
  \/ \E n \in Node : FinishSetup(n)
  \/ \E n \in Node : SendReading(n)
  \/ \E p \in uc : SinkReceives(p)
  \/ \E n \in Node, p \in uc : RecvAggregate(n, p)
  \/ \E n \in Node : FinishAggregateCollect(n)
  \/ \E p \in uc : Lose(p)

Spec == Init /\ [][Next]_vars

(***************************************************************************)
(* Armed timers expire.  A packet does not stay in flight for ever: it     *)
(* arrives or it is lost.                                                  *)
(***************************************************************************)
Fairness ==
  /\ WF_vars(SetupWaitFinished /\ UNCHANGED data_vars)
  /\ \A n \in Node :
       /\ WF_vars(FinishSetup(n))
       /\ WF_vars(StbroadcastCancel(n) /\ UNCHANGED data_vars)
       /\ WF_vars(SendReading(n))
       /\ WF_vars(FinishAggregateCollect(n))
  /\ WF_vars(\E p \in uc : SinkReceives(p) \/ Lose(p) \/ \E n \in Node : RecvAggregate(n, p))

FairSpec == Spec /\ Fairness

(***************************************************************************)
(*                               Properties                                *)
(***************************************************************************)
Taken == UNION {{n} \X (1 .. readings[n]) : n \in Node}

\* What a mote holds; the buffer of a mote that is not collecting counts for
\* nothing, the next packet replaces it.
Stored(n) == IF is_collecting[n] THEN data[n] ELSE {}

InPackets == UNION {p.content : p \in uc}

InBuffers == UNION {Stored(n) : n \in Node}

Held == InPackets \cup InBuffers \cup received \cup lost

\* No reading is dropped by a mote: every one taken is in a packet, in the buffer
\* of a mote that is collecting, at the sink, or was lost by the radio.
ReadingsAccounted == Held = Taken

\* No reading counts twice: it is never in two packets, in two buffers or in two
\* of these places at once, whatever the interleaving of recv_aggregate,
\* finish_aggregate_collect and send_data_process.
CountedOnce ==
  /\ \A p, q \in uc : p # q => p.content \cap q.content = {}
  /\ \A m, n \in Node : m # n => Stored(m) \cap Stored(n) = {}
  /\ \A p \in uc, n \in Node : p.content \cap Stored(n) = {}
  /\ \A p \in uc : p.content \cap (received \cup lost) = {}
  /\ \A n \in Node : Stored(n) \cap (received \cup lost) = {}
  /\ received \cap lost = {}

\* The buffer memset by finish_aggregate_collect (or never written) is not
\* averaged into an aggregate: tree_aggregate_update is only reached with a
\* buffer that recv_aggregate has filled.
NoBlankAggregated ==
  /\ \A n \in Node : is_collecting[n] <=> Blank \notin data[n]
  /\ \A p \in uc : Blank \notin p.content
  /\ Blank \notin received

\* A mote that collects or is about to send has a parent, and every packet is
\* addressed to a mote of the tree, never to rimeaddr_null: data cannot reach a
\* mote whose own set-up has not finished.
SendersHaveParents ==
  /\ \A n \in Node : n \in aggregate_ct \/ sender[n] = "waiting" => HasParent(n)
  /\ \A p \in uc : InTree(p.src) /\ p.dst = best_parent[p.src] /\ InTree(p.dst)

\* send_data_process never ends at a mote of the tree that is a leaf.
LeafKeepsSensing ==
  \A n \in Node : HasParent(n) /\ is_leaf_node[n] => sender[n] = "waiting"

(***************************************************************************)
(* The inductive invariant behind them, on top of SetupInv.                *)
(***************************************************************************)
TimerGuardsCollection == \A n \in Node : is_collecting[n] <=> n \in aggregate_ct

DataInv ==
  /\ TypeOK
  /\ SetupInv
  /\ TimerGuardsCollection
  /\ SendersHaveParents
  /\ NoBlankAggregated
  /\ LeafKeepsSensing

\* If the radio loses nothing, every reading ever taken reaches the sink.
EveryReadingArrives == [](lost = {}) => <>[](Taken \subseteq received)

\* "Only leaf nodes send these messages" (tree-aggregator.c:472): the raw
\* readings of send_data_process come from motes that are leaves.
OnlyLeavesSend == [][\A n \in Node : SendReading(n) => is_leaf_node[n]]_vars
=============================================================================
