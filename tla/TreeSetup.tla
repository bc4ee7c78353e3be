------------------------------ MODULE TreeSetup ------------------------------
(***************************************************************************)
(* The set-up wave of Samples/TreeAggregator/tree-aggregator.c.            *)
(*                                                                         *)
(* The sink starts a wave of stubborn broadcasts.  A mote that hears its   *)
(* first set-up message arms a timer and, until the timer expires, keeps   *)
(* the sender with the lowest hop count as its candidate parent.  When the *)
(* timer expires the candidate becomes its parent and the mote announces   *)
(* itself, with its parent, in a stubborn broadcast of its own.            *)
(*                                                                         *)
(* Callbacks of a mote run one at a time (Contiki's cooperative scheduler),*)
(* so every handler is one action.  Timers are untimed: an armed timer may *)
(* expire at any moment, which covers every drift and every delay.         *)
(***************************************************************************)
EXTENDS Naturals, FiniteSets

CONSTANTS
  Node,            \* the motes
  Sink,            \* the mote whose address every conn->sink holds
  rimeaddr_null,   \* the address of no mote
  Link,            \* <<n, m>> \in Link: m can hear n
  UINT_MAX         \* largest hop count an unsigned int holds

ASSUME SetupAssumption ==
  /\ IsFiniteSet(Node)
  /\ Sink \in Node
  /\ rimeaddr_null \notin Node
  /\ Link \subseteq Node \X Node
  /\ UINT_MAX \in Nat

\* The network is small enough for the hop counter.
ASSUME HopFits == Cardinality(Node) <= UINT_MAX

VARIABLES
  has_seen_setup,          \* conn->has_seen_setup of each mote
  collecting_best_parent,  \* candidate parent while parents are detected
  collecting_best_hop,     \* hop count announced by that candidate
  best_parent,             \* the parent chosen when detection finished
  best_hop,                \* and its hop count
  is_leaf_node,            \* no mote is known to have chosen this one
  detect_ct,               \* motes whose PARENT_DETECT_WAIT timer is armed
  setup_wait_ct,           \* the sink's initial 10 s timer is armed
  bc                       \* stubborn broadcasts being repeated

setup_vars ==
  <<has_seen_setup, collecting_best_parent, collecting_best_hop, best_parent,
    best_hop, is_leaf_node, detect_ct, setup_wait_ct, bc>>

HopCount == 0 .. UINT_MAX
Address == Node \cup {rimeaddr_null}

\* setup_tree_msg_t
SetupMsg == [source : Node, parent : Address, hop_count : HopCount]

SetupTypeOK ==
  /\ has_seen_setup \in [Node -> BOOLEAN]
  /\ collecting_best_parent \in [Node -> Address]
  /\ collecting_best_hop \in [Node -> HopCount]
  /\ best_parent \in [Node -> Address]
  /\ best_hop \in [Node -> HopCount]
  /\ is_leaf_node \in [Node -> BOOLEAN]
  /\ detect_ct \subseteq Node
  /\ setup_wait_ct \in BOOLEAN
  /\ bc \subseteq SetupMsg

(***************************************************************************)
(* Rime's stubborn broadcast.  It keeps one packet per connection and      *)
(* repeats it every STUBBORN_INTERVAL until it is cancelled; sending again *)
(* replaces the packet.  Each repetition may or may not be heard.          *)
(***************************************************************************)
Cancelled(n) == {m \in bc : m.source # n}

Stubborn(msg) == Cancelled(msg.source) \cup {msg}

OnAir(n) == \E m \in bc : m.source = n

(***************************************************************************)
(* tree_agg_open on every mote.  The sink also arms its first timer.       *)
(***************************************************************************)
SetupInit ==
  /\ has_seen_setup = [n \in Node |-> FALSE]
  /\ collecting_best_parent = [n \in Node |-> rimeaddr_null]
  /\ collecting_best_hop = [n \in Node |-> UINT_MAX]
  /\ best_parent = [n \in Node |-> rimeaddr_null]
  /\ best_hop = [n \in Node |-> UINT_MAX]
  /\ is_leaf_node = [n \in Node |-> TRUE]
  /\ detect_ct = {}
  /\ setup_wait_ct = TRUE
  /\ bc = {}

\* tree_agg_setup_wait_finished: the sink sends the first message.
SetupWaitFinished ==
  /\ setup_wait_ct
  /\ setup_wait_ct' = FALSE
  /\ bc' = Stubborn([source |-> Sink, parent |-> rimeaddr_null, hop_count |-> 0])
  /\ UNCHANGED <<has_seen_setup, collecting_best_parent, collecting_best_hop,
                 best_parent, best_hop, is_leaf_node, detect_ct>>

\* Mutant: the has_seen_setup test is missing, every message arms the timer.
FirstSetup_Untested(n) == TRUE

\* Mutant: the has_seen_setup test is inverted, the timer is never armed.
FirstSetup_Inverted(n) == has_seen_setup[n]

\* What recv_setup tests: a first message, a closer candidate, a child naming n.
FirstSetup(n) == ~has_seen_setup[n]

Closer(n, msg) == msg.hop_count < collecting_best_hop[n]

\* Mutant: a child is inferred from its hop count instead of its parent field.
NamesAsParent_ByHop(n, msg) == msg.hop_count > best_hop[n]

NamesAsParent(n, msg) == msg.parent = n

\* Mutant: the last announcer heard is written straight into best_parent.
RecvSetup_Direct(n, msg) ==
  /\ <<msg.source, n>> \in Link
  /\ n # Sink
  /\ has_seen_setup' = [has_seen_setup EXCEPT ![n] = TRUE]
  /\ detect_ct' = IF FirstSetup(n) THEN detect_ct \cup {n} ELSE detect_ct
  /\ best_parent' = [best_parent EXCEPT ![n] = msg.source]
  /\ collecting_best_parent' = [collecting_best_parent EXCEPT ![n] = msg.source]
  /\ collecting_best_hop' = [collecting_best_hop EXCEPT ![n] = msg.hop_count]
  /\ UNCHANGED <<best_hop, is_leaf_node, setup_wait_ct, bc>>

(***************************************************************************)
(* recv_setup: n hears one repetition of msg.  The candidate is replaced   *)
(* whenever the message is closer, whether or not detection has finished.  *)
(***************************************************************************)
RecvSetup(n, msg) ==
  /\ <<msg.source, n>> \in Link
  /\ n # Sink
  /\ has_seen_setup' = [has_seen_setup EXCEPT ![n] = TRUE]
  /\ detect_ct' = IF FirstSetup(n) THEN detect_ct \cup {n} ELSE detect_ct
  /\ collecting_best_parent' =
       [collecting_best_parent EXCEPT ![n] = IF Closer(n, msg) THEN msg.source ELSE @]
  /\ collecting_best_hop' =
       [collecting_best_hop EXCEPT ![n] = IF Closer(n, msg) THEN msg.hop_count ELSE @]
  /\ is_leaf_node' = [is_leaf_node EXCEPT ![n] = @ /\ ~NamesAsParent(n, msg)]
  /\ UNCHANGED <<best_parent, best_hop, setup_wait_ct, bc>>

\* Mutant: the announced hop count is the candidate's, not one more.
Announcement_NoIncrement(n) ==
  [source    |-> n,
   parent    |-> collecting_best_parent[n],
   hop_count |-> collecting_best_hop[n]]

\* Mutant: msg->source is left as memset cleared it.
Announcement_NoSource(n) ==
  [source    |-> rimeaddr_null,
   parent    |-> collecting_best_parent[n],
   hop_count |-> (collecting_best_hop[n] + 1) % (UINT_MAX + 1)]

\* The message parent_detect_finished announces.
Announcement(n) ==
  [source    |-> n,
   parent    |-> collecting_best_parent[n],
   hop_count |-> (collecting_best_hop[n] + 1) % (UINT_MAX + 1)]

\* parent_detect_finished: the candidate becomes the parent and n announces itself.
ParentDetectFinished(n) ==
  /\ n \in detect_ct
  /\ detect_ct' = detect_ct \ {n}
  /\ best_parent' = [best_parent EXCEPT ![n] = collecting_best_parent[n]]
  /\ best_hop' = [best_hop EXCEPT ![n] = collecting_best_hop[n]]
  /\ bc' = Stubborn(Announcement(n))
  /\ UNCHANGED <<has_seen_setup, collecting_best_parent, collecting_best_hop,
                 is_leaf_node, setup_wait_ct>>

\* stbroadcast_cancel_void: the STUBBORN_WAIT timer armed by each send expires.
StbroadcastCancel(n) ==
  /\ OnAir(n)
  /\ bc' = Cancelled(n)
  /\ UNCHANGED <<has_seen_setup, collecting_best_parent, collecting_best_hop,
                 best_parent, best_hop, is_leaf_node, detect_ct, setup_wait_ct>>

SetupNext ==
  \/ SetupWaitFinished
  \/ \E n \in Node, msg \in bc : RecvSetup(n, msg)
  \/ \E n \in Node : ParentDetectFinished(n)
  \/ \E n \in Node : StbroadcastCancel(n)

SetupSpec == SetupInit /\ [][SetupNext]_setup_vars

\* An armed timer expires; nothing is assumed of the radio.
SetupFairness ==
  /\ WF_setup_vars(SetupWaitFinished)
  /\ \A n \in Node : WF_setup_vars(ParentDetectFinished(n))
  /\ \A n \in Node : WF_setup_vars(StbroadcastCancel(n))

SetupFairSpec == SetupSpec /\ SetupFairness

(***************************************************************************)
(*                               Properties                                *)
(***************************************************************************)
HasParent(n) == best_parent[n] # rimeaddr_null

Joined == {n \in Node : HasParent(n)}

InTree(n) == n = Sink \/ n \in Joined

\* The hop count a mote with parent p has.
Below(p) == IF p = Sink THEN 0 ELSE best_hop[p] + 1

\* Motes a wave from the sink can reach: they are in every set that holds the
\* sink and whatever its members' broadcasts are heard by.
Reachable ==
  {n \in Node : \A S \in SUBSET Node :
      (Sink \in S /\ \A l \in Link : l[1] \in S => l[2] \in S) => n \in S}

\* Following best_parent (set by parent_detect_finished, used by unicast_send)
\* leads to the sink: no non-empty set of motes with a parent is closed under
\* best_parent, whatever the order in which announcements were heard.
NoCycle ==
  \A S \in SUBSET Joined :
    S # {} => \E n \in S : best_parent[n] \notin S

\* The hop count a mote settles on is one more than its parent's (0 below the
\* sink), so it never wraps and is smaller than the number of motes in the tree.
HopCountsDistance ==
  \A n \in Node : HasParent(n) =>
    /\ InTree(best_parent[n])
    /\ best_hop[n] = Below(best_parent[n])
    /\ best_hop[n] < Cardinality(Joined)

\* recv_setup clears is_leaf_node only for a mote that really has a child:
\* an announced parent is never a stale candidate.
NonLeafHasChild ==
  \A n \in Node : ~is_leaf_node[n] => \E m \in Node : best_parent[m] = n

(***************************************************************************)
(* The inductive invariant behind them.  A candidate parent is always in   *)
(* the tree already and its recorded hop count is up to date, because a    *)
(* mote announces itself only after its own choice is final.               *)
(***************************************************************************)
DetectionOnce ==
  /\ \A n \in detect_ct : has_seen_setup[n] /\ ~HasParent(n)
  /\ \A n \in Node : ~has_seen_setup[n] =>
       ~HasParent(n) /\ collecting_best_hop[n] = UINT_MAX
  /\ ~has_seen_setup[Sink]

CandidatesInTree ==
  \A n \in Node : has_seen_setup[n] =>
    /\ InTree(collecting_best_parent[n])
    /\ collecting_best_hop[n] = Below(collecting_best_parent[n])

AnnouncementsCurrent ==
  \A m \in bc :
    /\ InTree(m.source)
    /\ m.hop_count = Below(m.source)
    /\ m.parent = best_parent[m.source]

SetupInv ==
  /\ SetupTypeOK
  /\ DetectionOnce
  /\ CandidatesInTree
  /\ AnnouncementsCurrent
  /\ HopCountsDistance
  /\ NoCycle
  /\ NonLeafHasChild

Tree == INSTANCE RootedTree
          WITH Root <- Sink, None <- rimeaddr_null, Unknown <- UINT_MAX,
               parent <- best_parent, hop <- best_hop

\* Seen through best_parent and best_hop, the wave only ever adds a mote below
\* one that is already in the tree; no mote changes its parent.
ImplementsTree == Tree!TreeSpec

\* Nobody who can hear n has still to hear a first message once n's broadcast
\* was cancelled: six repetitions were enough.
HeardBeforeCancel ==
  \A n \in Node :
    (IF n = Sink THEN ~setup_wait_ct ELSE HasParent(n)) /\ ~OnAir(n) =>
      \A m \in Node : <<n, m>> \in Link => m = Sink \/ has_seen_setup[m]

\* When every stubborn broadcast is heard before STUBBORN_WAIT ends, every mote
\* the wave can reach gets a parent and keeps one.
AllJoin == []HeardBeforeCancel => <>[](\A n \in Reachable : InTree(n))

\* The wave dies out: no announcement triggers another one for ever.
SetupTerminates == <>[](bc = {} /\ detect_ct = {} /\ ~setup_wait_ct)
=============================================================================
