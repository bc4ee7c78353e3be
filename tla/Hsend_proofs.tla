---------------------------- MODULE Hsend_proofs ----------------------------
(***************************************************************************)
(* Proofs about the flood of hsend, for every set of motes, every set of   *)
(* links and every number of requests.                                     *)
(***************************************************************************)
EXTENDS Hsend, TLAPS

\* Hops around the originator.
LEMMA Rings ==
  /\ Within(0) = {Originator}
  /\ \A k \in 0 .. 2 : Originator \in Within(k) /\ Within(k) \subseteq Within(2)
  /\ \A n \in Node : <<Originator, n>> \in Link => n \in Within(1)
  /\ \A m \in Within(1), n \in Node : <<m, n>> \in Link => n \in Within(2)
BY HsendAssumption DEF Within, Around

\* The state every mote starts from.
LEMMA FloodInitially == Init => FloodInv
<1> SUFFICES ASSUME Init PROVE FloodInv
  OBVIOUS
<1> USE HsendAssumption DEF Init
<1>1. TypeOK
  BY DEF TypeOK, FirstId, HOP_LIMIT
<1> QED
  BY <1>1 DEF FloodInv, LimitTellsSender, FullLimitFromOriginator, LastTakenRemembered,
              WithinHopLimit, TakenOnce, Took

\* A request of the originator carries the full limit; its own memory of the last
\* request taken is overwritten, and no property needs it.
LEMMA MainProcessKeeps ==
  ASSUME FloodInv, MainProcess
  PROVE  FloodInv'
<1> USE HsendAssumption DEF FloodInv
<1>1. CASE count # 0
  <2>1. UNCHANGED <<message_id, message_id_received, highest_hops_seen, stbroadcast,
                    stop_timer, heard, taken>>
    BY <1>1 DEF MainProcess
  <2>2. count' \in 0 .. INT_RANGE - 1
    BY DEF MainProcess, TypeOK
  <2> QED
    BY <2>1, <2>2 DEF TypeOK, LimitTellsSender, FullLimitFromOriginator,
                      LastTakenRemembered, WithinHopLimit, TakenOnce, Took
<1>2. CASE count = 0
  <2> DEFINE msg == [originator |-> Originator, message_id |-> message_id, hop_limit |-> HOP_LIMIT]
  <2>1. /\ stbroadcast' = [stbroadcast EXCEPT ![Originator] = msg]
        /\ stop_timer' = stop_timer \cup {Originator}
        /\ message_id' = (message_id + 1) % UINT8_RANGE
        /\ message_id_received' = [message_id_received EXCEPT ![Originator] = message_id]
        /\ count' = (count + 1) % INT_RANGE
        /\ UNCHANGED <<highest_hops_seen, heard, taken>>
    BY <1>2 DEF MainProcess, SendNHopPredicateCheck
  <2>2. msg \in Message /\ msg # None
    BY DEF Message, TypeOK, HOP_LIMIT
  <2>3. TypeOK'
    BY <2>1, <2>2 DEF TypeOK
  <2>4. LimitTellsSender'
    BY <2>1, <2>2 DEF LimitTellsSender, TypeOK
  <2>5. FullLimitFromOriginator' /\ TakenOnce'
    <3>1. \A k \in Node : Took(k)' = Took(k)
      BY <2>1 DEF Took
    <3> QED
      BY <2>1, <3>1 DEF FullLimitFromOriginator, TakenOnce
  <2>6. LastTakenRemembered'
    <3>1. \A k \in Node : Took(k)' = Took(k)
      BY <2>1 DEF Took
    <3>2. \A k \in Node : k # Originator => message_id_received'[k] = message_id_received[k]
      BY <2>1 DEF TypeOK
    <3> QED
      BY <2>1, <3>1, <3>2 DEF LastTakenRemembered
  <2>7. WithinHopLimit'
    <3>1. Within(HOP_LIMIT - msg.hop_limit) = {Originator}
      BY Rings DEF HOP_LIMIT
    <3> QED
      BY <2>1, <3>1 DEF WithinHopLimit, TypeOK, Took
  <2> QED
    BY <2>3, <2>4, <2>5, <2>6, <2>7
<1> QED
  BY <1>1, <1>2

\* The stop timer.
LEMMA CancelStbroadcastKeeps ==
  ASSUME FloodInv, NEW n \in Node, CancelStbroadcast(n)
  PROVE  FloodInv'
<1> USE DEF FloodInv, CancelStbroadcast
<1>1. TypeOK'
  BY DEF TypeOK
<1>2. \A m \in Node : stbroadcast'[m] # None => stbroadcast'[m] = stbroadcast[m]
  BY DEF TypeOK
<1> QED
  BY <1>1, <1>2 DEF LimitTellsSender, FullLimitFromOriginator, LastTakenRemembered,
                    WithinHopLimit, TakenOnce, Took

(***************************************************************************)
(* A request that is taken carried one hop less than its sender took, and  *)
(* its limit is higher than that of any the mote took before.              *)
(***************************************************************************)
LEMMA TakeKeeps ==
  ASSUME FloodInv, NEW m \in Node, NEW n \in Node, StbroadcastRecv(m, n),
         Takes(n, stbroadcast[m])
  PROVE  FloodInv'
<1> DEFINE msg == stbroadcast[m]
<1> USE HsendAssumption DEF FloodInv, HOP_LIMIT
<1>1. /\ <<m, n>> \in Link /\ m # n
      /\ msg \in Message /\ msg # None
      /\ msg.hop_limit \in 1 .. 2 /\ msg.message_id \in 0 .. UINT8_RANGE - 1
      /\ msg.message_id # message_id_received[n]
      /\ msg.hop_limit > highest_hops_seen[n]
  BY DEF StbroadcastRecv, TypeOK, Message, Takes
<1>2. /\ message_id_received' = [message_id_received EXCEPT ![n] = msg.message_id]
      /\ highest_hops_seen' = [highest_hops_seen EXCEPT ![n] = msg.hop_limit]
      /\ taken' = [taken EXCEPT ![n] = Append(@, msg)]
      /\ heard' = heard \cup {n}
      /\ UNCHANGED <<message_id, count>>
  BY DEF StbroadcastRecv, Take
<1>3. \/ UNCHANGED <<stbroadcast, stop_timer>>
      \/ /\ msg.hop_limit = 2
         /\ stop_timer' = stop_timer \cup {n}
         /\ stbroadcast' = [stbroadcast EXCEPT ![n] =
              [originator |-> n, message_id |-> msg.message_id, hop_limit |-> 1]]
  BY <1>1 DEF StbroadcastRecv, Take, PassesOn, NextLimit, SendNHopPredicateCheck
<1>4. /\ message_id_received' \in [Node -> 0 .. UINT8_RANGE - 1]
      /\ highest_hops_seen' \in [Node -> 0 .. 2]
      /\ taken' \in [Node -> Seq(Message)]
  BY <1>1, <1>2 DEF TypeOK
<1>5. TypeOK'
  <2>1. stbroadcast' \in [Node -> Message \cup {None}] /\ stop_timer' \in SUBSET Node
    <3>1. [originator |-> n, message_id |-> msg.message_id, hop_limit |-> 1] \in Message
      BY <1>1 DEF Message
    <3> QED
      BY <1>3, <3>1 DEF TypeOK
  <2> QED
    BY <1>2, <1>4, <2>1 DEF TypeOK
<1>6. /\ Took(n)' = Took(n) \cup {msg}
       /\ \A k \in Node : k # n => Took(k)' = Took(k)
  <2>1. /\ taken'[n] = Append(taken[n], msg)
        /\ taken[n] \in Seq(Message) /\ msg \in Message
    BY <1>1, <1>2 DEF TypeOK
  <2>2. Took(n)' = Took(n) \cup {msg}
    BY <2>1 DEF Took
  <2>3. \A k \in Node : k # n => taken'[k] = taken[k]
    BY <1>2 DEF TypeOK
  <2> QED
    BY <2>2, <2>3 DEF Took
<1>7. \A k \in Node : \A r \in Took(k) : r \in Message
  BY DEF TypeOK, Took
<1>8. msg.hop_limit = 2 <=> m = Originator
  BY <1>1 DEF LimitTellsSender
<1>9. LimitTellsSender'
  <2>1. msg.hop_limit = 2 => n # Originator
    BY <1>1, <1>8
  <2> QED
    BY <1>3, <2>1 DEF LimitTellsSender, TypeOK
<1>10. FullLimitFromOriginator'
  BY <1>1, <1>8, <1>6 DEF FullLimitFromOriginator
<1>11. LastTakenRemembered'
  <2> SUFFICES ASSUME NEW k \in Node, NEW r \in Took(k)'
               PROVE  /\ r.hop_limit <= highest_hops_seen'[k]
                      /\ r.hop_limit = highest_hops_seen'[k] /\ k # Originator
                           => message_id_received'[k] = r.message_id
    BY DEF LastTakenRemembered
  <2>1. CASE k # n
    <3>1. r \in Took(k)
      BY <1>6, <2>1
    <3> QED
      BY <1>2, <2>1, <3>1 DEF TypeOK, LastTakenRemembered
  <2>2. CASE k = n /\ r = msg
    BY <1>1, <1>2, <2>2 DEF TypeOK
  <2>3. CASE k = n /\ r \in Took(n)
    <3>1. r.hop_limit \in 1 .. 2 /\ r.hop_limit <= highest_hops_seen[n]
      BY <1>7, <2>3 DEF LastTakenRemembered, Message
    <3>2. highest_hops_seen'[n] = msg.hop_limit /\ highest_hops_seen[n] \in 0 .. 2
      BY <1>2 DEF TypeOK
    <3>3. r.hop_limit < highest_hops_seen'[n]
      BY <1>1, <3>1, <3>2
    <3> QED
      BY <2>3, <3>1, <3>2, <3>3, <1>1
  <2> QED
    BY <1>6, <2>1, <2>2, <2>3
<1>12. WithinHopLimit'
  <2>1. m \in Within(2 - msg.hop_limit)
    BY <1>1 DEF WithinHopLimit
  <2>2. n \in Within(2 - msg.hop_limit + 1)
    <3>1. CASE msg.hop_limit = 2
      BY <1>1, <1>8, <3>1, Rings
    <3>2. CASE msg.hop_limit = 1
      BY <1>1, <2>1, <3>2, Rings
    <3> QED
      BY <1>1, <3>1, <3>2
  <2>3. \A k \in Node : \A r \in Took(k)' : k \in Within(2 - r.hop_limit + 1)
    BY <1>6, <2>2 DEF WithinHopLimit
  <2>4. \A k \in Node : stbroadcast'[k] # None => k \in Within(2 - stbroadcast'[k].hop_limit)
    <3>1. CASE UNCHANGED stbroadcast
      BY <3>1 DEF WithinHopLimit
    <3>2. CASE /\ msg.hop_limit = 2
               /\ stbroadcast' = [stbroadcast EXCEPT ![n] =
                    [originator |-> n, message_id |-> msg.message_id, hop_limit |-> 1]]
      <4>1. n \in Within(1)
        BY <2>2, <3>2
      <4> QED
        BY <3>2, <4>1 DEF WithinHopLimit, TypeOK
    <3> QED
      BY <1>3, <3>1, <3>2
  <2> QED
    BY <2>3, <2>4 DEF WithinHopLimit
<1>13. TakenOnce'
  <2>1. \A r \in Took(n) : r.message_id # msg.message_id
    <3> SUFFICES ASSUME NEW r \in Took(n), r.message_id = msg.message_id PROVE FALSE
      OBVIOUS
    <3>1. r.hop_limit \in 1 .. 2 /\ r.hop_limit <= highest_hops_seen[n]
          /\ highest_hops_seen[n] \in 0 .. 2
      BY <1>7 DEF TypeOK, LastTakenRemembered, Message
    <3>2. r.hop_limit = 1 /\ highest_hops_seen[n] = 1 /\ msg.hop_limit = 2
      BY <1>1, <3>1
    <3>3. n # Originator
      BY <1>1, <1>8, <3>2
    <3> QED
      BY <1>1, <3>2, <3>3 DEF LastTakenRemembered
  <2> SUFFICES ASSUME NEW k \in Node, NEW i \in DOMAIN taken'[k], NEW j \in DOMAIN taken'[k],
                      taken'[k][i].message_id = taken'[k][j].message_id
               PROVE  i = j
    BY DEF TakenOnce
  <2>2. CASE k # n
    <3>1. taken'[k] = taken[k]
      BY <1>2, <2>2 DEF TypeOK
    <3> QED
      BY <3>1 DEF TakenOnce
  <2>3. CASE k = n
    <3>1. taken'[n] = Append(taken[n], msg) /\ taken[n] \in Seq(Message)
      BY <1>2 DEF TypeOK
    <3>2. /\ DOMAIN taken[n] = 1 .. Len(taken[n]) /\ Len(taken[n]) \in Nat
          /\ DOMAIN taken'[n] = 1 .. Len(taken[n]) + 1
          /\ taken'[n][Len(taken[n]) + 1] = msg
          /\ \A l \in DOMAIN taken[n] : taken'[n][l] = taken[n][l]
      BY <1>1, <3>1
    <3>3. \A l \in DOMAIN taken[n] : taken[n][l].message_id # msg.message_id
      BY <2>1 DEF Took
    <3>4. CASE i \in DOMAIN taken[n] /\ j \in DOMAIN taken[n]
      BY <2>3, <3>2, <3>4 DEF TakenOnce
    <3>5. CASE i \notin DOMAIN taken[n] \/ j \notin DOMAIN taken[n]
      <4>1. i = Len(taken[n]) + 1 \/ j = Len(taken[n]) + 1
        BY <2>3, <3>2, <3>5
      <4>2. CASE i = Len(taken[n]) + 1 /\ j \in DOMAIN taken[n]
        BY <2>3, <3>2, <3>3, <4>2
      <4>3. CASE j = Len(taken[n]) + 1 /\ i \in DOMAIN taken[n]
        BY <2>3, <3>2, <3>3, <4>3
      <4> QED
        BY <2>3, <3>2, <4>1, <4>2, <4>3
    <3> QED
      BY <3>4, <3>5
  <2> QED
    BY <2>2, <2>3
<1> QED
  BY <1>5, <1>9, <1>10, <1>11, <1>12, <1>13

\* Every step of the flood keeps the invariant.
LEMMA FloodInductive == FloodInv /\ [Next]_vars => FloodInv'
<1> SUFFICES ASSUME FloodInv, [Next]_vars PROVE FloodInv'
  OBVIOUS
<1>1. CASE MainProcess
  BY <1>1, MainProcessKeeps
<1>2. ASSUME NEW m \in Node, NEW n \in Node, StbroadcastRecv(m, n)
      PROVE  FloodInv'
  <2>1. CASE Takes(n, stbroadcast[m])
    BY <1>2, <2>1, TakeKeeps
  <2>2. CASE ~Takes(n, stbroadcast[m])
    <3>1. /\ heard' = heard \cup {n}
          /\ UNCHANGED <<message_id, count, message_id_received, highest_hops_seen, taken,
                         stbroadcast, stop_timer>>
      BY <1>2, <2>2 DEF StbroadcastRecv
    <3>2. TypeOK'
      BY <3>1 DEF FloodInv, TypeOK
    <3>3. \A k \in Node : Took(k)' = Took(k)
      BY <3>1 DEF Took
    <3>4. /\ LimitTellsSender' /\ FullLimitFromOriginator' /\ LastTakenRemembered'
          /\ WithinHopLimit'
      BY <3>1, <3>3 DEF FloodInv, LimitTellsSender, FullLimitFromOriginator,
                        LastTakenRemembered, WithinHopLimit
    <3>5. TakenOnce'
      BY <3>1 DEF FloodInv, TakenOnce
    <3> QED
      BY <3>2, <3>4, <3>5 DEF FloodInv
  <2> QED
    BY <2>1, <2>2
<1>3. ASSUME NEW n \in Node, CancelStbroadcast(n)
      PROVE  FloodInv'
  BY <1>3, CancelStbroadcastKeeps
<1>4. CASE UNCHANGED vars
  BY <1>4 DEF vars, FloodInv, TypeOK, LimitTellsSender, FullLimitFromOriginator,
              LastTakenRemembered, WithinHopLimit, TakenOnce, Took
<1> QED
  BY <1>1, <1>2, <1>3, <1>4 DEF Next

LEMMA FloodInvariant == Spec => []FloodInv
BY FloodInitially, FloodInductive, PTL DEF Spec

\* Types of the flood's state, for every network.
THEOREM TypeCorrect == Spec => []TypeOK
<1>1. FloodInv => TypeOK
  BY DEF FloodInv
<1> QED
  BY <1>1, FloodInvariant, PTL

\* No mote takes or repeats a request further from the originator than the hop
\* limit says, in whatever order broadcasts are heard (stbroadcast_recv).
THEOREM NothingBeyondHopLimit == Spec => []WithinHopLimit
<1>1. FloodInv => WithinHopLimit
  BY DEF FloodInv
<1> QED
  BY <1>1, FloodInvariant, PTL

\* No mote takes a request twice although it remembers the last identifier only:
\* limits grow from one request taken to the next (stbroadcast_recv).
THEOREM NoRequestTakenTwice == Spec => []TakenOnce
<1>1. FloodInv => TakenOnce
  BY DEF FloodInv
<1> QED
  BY <1>1, FloodInvariant, PTL
=============================================================================
