-------------------------------- MODULE Hsend --------------------------------
(***************************************************************************)
(* The n-hop flood of Algorithms/hsend/Node.c: mote 2.0 asks the motes at  *)
(* most HOP_LIMIT hops away to check a predicate.  Each mote that takes a  *)
(* request passes it on, with one hop less, by a stubborn broadcast that a *)
(* timer cancels.                                                          *)
(*                                                                         *)
(* The base station, mote 1.0, never opens the broadcast channel, so that  *)
(* it takes no part here.  The mesh is opened but nothing is sent on it.   *)
(***************************************************************************)
EXTENDS Integers, Sequences, FiniteSets

CONSTANTS
  Node,          \* the motes except the base station
  Originator,    \* mote 2.0
  Link,          \* <<m, n>> \in Link: n hears what m broadcasts
  INT_RANGE,     \* number of values of an int: count++ wraps
  UINT8_RANGE,   \* number of values of a uint8_t
  None,          \* nothing is being broadcast
  MaxRequests    \* bound on the requests modelled

HOP_LIMIT == 2
FirstId == 10

Message ==
  [originator : Node, message_id : 0 .. UINT8_RANGE - 1, hop_limit : 1 .. HOP_LIMIT]

ASSUME HsendAssumption ==
  /\ IsFiniteSet(Node) /\ Originator \in Node
  /\ Link \subseteq Node \X Node
  /\ \A n \in Node : <<n, n>> \notin Link
  /\ INT_RANGE \in Nat \ {0} /\ UINT8_RANGE \in Nat /\ UINT8_RANGE > FirstId + MaxRequests
  /\ MaxRequests \in Nat
  /\ None \notin Message

VARIABLES
  message_id,           \* identifier of the next request, at the originator
  count,                \* iterations of mainProcess at the originator
  message_id_received,  \* identifier of the last request a mote took; 0 at first
  highest_hops_seen,    \* highest hop limit it took
  stbroadcast,          \* the message a mote is repeating, or None
  stop_timer,           \* motes on which stbroadcast_stop_timer is armed
  heard,                \* history: motes that heard a broadcast
  taken                 \* history: the messages each mote took, in order

vars == <<message_id, count, message_id_received, highest_hops_seen, stbroadcast, stop_timer, heard, taken>>

Init ==
  /\ message_id = FirstId
  /\ count = 0
  /\ message_id_received = [n \in Node |-> 0]
  /\ highest_hops_seen = [n \in Node |-> 0]
  /\ stbroadcast = [n \in Node |-> None]
  /\ stop_timer = {}
  /\ heard = {}
  /\ taken = [n \in Node |-> <<>>]

\* send_n_hop_predicate_check at n: the originator named is n itself, whatever the
\* argument.  A new message replaces the one that is being repeated.
SendNHopPredicateCheck(n, id, hop_limit) ==
  /\ stbroadcast' = [stbroadcast EXCEPT
       ![n] = [originator |-> n, message_id |-> id, hop_limit |-> hop_limit]]
  /\ stop_timer' = stop_timer \cup {n}

Requests == message_id - FirstId

\* An iteration of mainProcess at the originator: a request is sent when count is 0.
MainProcess ==
  /\ count' = (count + 1) % INT_RANGE
  /\ IF count = 0
     THEN /\ Requests < MaxRequests
          /\ message_id' = (message_id + 1) % UINT8_RANGE
          /\ message_id_received' = [message_id_received EXCEPT ![Originator] = message_id]
          /\ SendNHopPredicateCheck(Originator, message_id, HOP_LIMIT)
     ELSE UNCHANGED <<message_id, message_id_received, stbroadcast, stop_timer>>
  /\ UNCHANGED <<highest_hops_seen, heard, taken>>

\* Mutant: a limit that is not higher will do.
Takes_SameLimit(n, msg) ==
  msg.message_id # message_id_received[n] /\ msg.hop_limit >= highest_hops_seen[n]

Takes(n, msg) ==
  msg.message_id # message_id_received[n] /\ msg.hop_limit > highest_hops_seen[n]

\* Mutant: the last mote passes the request on, too.
PassesOn_Last(msg) == msg.hop_limit >= 1

PassesOn(msg) == msg.hop_limit > 1

\* Mutants: the hop is not counted, or counted twice.
NextLimit_Same(msg) == msg.hop_limit

NextLimit_Twice(msg) == msg.hop_limit - 2

NextLimit(msg) == msg.hop_limit - 1

\* n takes a request.
Take(n, msg) ==
  /\ message_id_received' = [message_id_received EXCEPT ![n] = msg.message_id]
  /\ highest_hops_seen' = [highest_hops_seen EXCEPT ![n] = msg.hop_limit]
  /\ taken' = [taken EXCEPT ![n] = Append(@, msg)]
  /\ IF PassesOn(msg)
     THEN SendNHopPredicateCheck(n, msg.message_id, NextLimit(msg))
     ELSE UNCHANGED <<stbroadcast, stop_timer>>

\* n hears a repetition of the broadcast of m: stbroadcast_recv.
StbroadcastRecv(m, n) ==
  /\ <<m, n>> \in Link /\ stbroadcast[m] # None
  /\ heard' = heard \cup {n}
  /\ IF Takes(n, stbroadcast[m])
     THEN Take(n, stbroadcast[m])
     ELSE UNCHANGED <<message_id_received, highest_hops_seen, taken, stbroadcast, stop_timer>>
  /\ UNCHANGED <<message_id, count>>

\* The timer of n: cancel_stbroadcast.
CancelStbroadcast(n) ==
  /\ n \in stop_timer
  /\ stop_timer' = stop_timer \ {n}
  /\ stbroadcast' = [stbroadcast EXCEPT ![n] = None]
  /\ UNCHANGED <<message_id, count, message_id_received, highest_hops_seen, heard, taken>>

Next ==
  \/ MainProcess
  \/ \E m, n \in Node : StbroadcastRecv(m, n)
  \/ \E n \in Node : CancelStbroadcast(n)

Spec == Init /\ [][Next]_vars

\* Timers expire, and mainProcess waits for one.
Fairness ==
  /\ WF_vars(MainProcess)
  /\ \A n \in Node : WF_vars(CancelStbroadcast(n))

FairSpec == Spec /\ Fairness

(***************************************************************************)
(*                               Properties                                *)
(***************************************************************************)
TypeOK ==
  /\ message_id \in 0 .. UINT8_RANGE - 1
  /\ count \in 0 .. INT_RANGE - 1
  /\ message_id_received \in [Node -> 0 .. UINT8_RANGE - 1]
  /\ highest_hops_seen \in [Node -> 0 .. HOP_LIMIT]
  /\ stbroadcast \in [Node -> Message \cup {None}]
  /\ stop_timer \in SUBSET Node
  /\ heard \in SUBSET Node
  /\ taken \in [Node -> Seq(Message)]

Took(n) == {taken[n][i] : i \in DOMAIN taken[n]}

\* The motes at most k hops from the originator, for k up to HOP_LIMIT.
Around(S) == S \cup {n \in Node : \E m \in S : <<m, n>> \in Link}

Within(k) ==
  IF k = 0 THEN {Originator}
  ELSE IF k = 1 THEN Around({Originator})
  ELSE Around(Around({Originator}))

\* The hop limit a request carries is at most what is left of HOP_LIMIT where it
\* is: nobody takes or repeats a request further away than that, by whatever way
\* it came and whatever was taken before (Node.c:111-135).
WithinHopLimit ==
  /\ \A n \in Node : \A msg \in Took(n) : n \in Within(HOP_LIMIT - msg.hop_limit + 1)
  /\ \A n \in Node : stbroadcast[n] # None =>
       n \in Within(HOP_LIMIT - stbroadcast[n].hop_limit)

\* No mote takes a request twice, although it remembers only the last
\* identifier: in whatever order repetitions of several requests are heard.
TakenOnce ==
  \A n \in Node : \A i, j \in DOMAIN taken[n] :
    taken[n][i].message_id = taken[n][j].message_id => i = j

(***************************************************************************)
(* Why the last two hold: only the originator sends requests with the full *)
(* limit, a mote takes requests with growing limits only, and remembers    *)
(* the last one.                                                           *)
(***************************************************************************)
LimitTellsSender ==
  \A n \in Node : stbroadcast[n] # None =>
    (stbroadcast[n].hop_limit = HOP_LIMIT <=> n = Originator)

FullLimitFromOriginator ==
  \A n \in Node : \A msg \in Took(n) :
    msg.hop_limit = HOP_LIMIT => <<Originator, n>> \in Link

LastTakenRemembered ==
  \A n \in Node : \A msg \in Took(n) :
    /\ msg.hop_limit <= highest_hops_seen[n]
    /\ msg.hop_limit = highest_hops_seen[n] /\ n # Originator =>
         message_id_received[n] = msg.message_id

FloodInv ==
  /\ TypeOK
  /\ LimitTellsSender
  /\ FullLimitFromOriginator
  /\ LastTakenRemembered
  /\ WithinHopLimit
  /\ TakenOnce

\* The broadcast of the first request by n is over: cancelled or replaced.
Silenced(n) ==
  /\ stbroadcast[n] = None \/ stbroadcast[n].message_id # FirstId
  /\ IF n = Originator THEN Requests > 0
     ELSE \E msg \in Took(n) : msg.message_id = FirstId /\ msg.hop_limit = HOP_LIMIT

\* Broadcasts are heard before they are over.
HeardBeforeCancel ==
  \A n \in Node : Silenced(n) => \A m \in Node : <<n, m>> \in Link => m \in heard

\* Neighbours of the originator hear its broadcast before any other.
HeardInOrder ==
  \A n \in Node : <<Originator, n>> \in Link =>
    \A msg \in Took(n) : msg.hop_limit = HOP_LIMIT

\* The first request reaches every mote within HOP_LIMIT hops, if broadcasts are
\* heard before they are cancelled and the neighbours of the originator hear it
\* first.  Without the latter it does not: a mote that takes a copy with a lower
\* hop limit refuses the original (Node.c:116) and what is behind it gets nothing.
RequestReachesAll ==
  [](HeardBeforeCancel /\ HeardInOrder) =>
    <>(\A n \in Within(HOP_LIMIT) \ {Originator} :
         \E msg \in Took(n) : msg.message_id = FirstId)
=============================================================================
