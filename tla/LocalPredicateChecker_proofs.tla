-------------------- MODULE LocalPredicateChecker_proofs --------------------
(***************************************************************************)
(* Proofs about the one-hop check, for every set of motes and links, all   *)
(* readings and every number of duplicates and retransmissions.            *)
(***************************************************************************)
EXTENDS LocalPredicateChecker, TLAPS

LEMMA CheckInitially == Init => CheckInv
BY CheckerAssumption DEF Init, CheckInv, TypeOK, AsksOnlyWhileChecking, AnswersAreAsked,
   ReportsAreTrue

\* A message about a neighbour's reading appears only when one is evaluated.
OneHop(p) == p.type = "error" /\ p.kind = "P1(H)"

Message(p) == p.type \in {"error", "collect"} /\ p.mote \in Mote

\* A step that changes neither answers nor requests.
LEMMA QuietKeeps ==
  ASSUME CheckInv, UNCHANGED <<checking, polite, pc, rc, checks, answered, evaluated>>,
         collections' \in 0 .. MaxCollections, lost' \in SUBSET {"answer", "message"},
         \A p \in mc' \cup output' : p \in mc \cup output \/ (Message(p) /\ ~OneHop(p))
  PROVE  CheckInv'
<1> USE DEF CheckInv
<1>1. TypeOK'
  BY DEF TypeOK, Message
<1>2. AsksOnlyWhileChecking' /\ AnswersAreAsked'
  BY DEF AsksOnlyWhileChecking, AnswersAreAsked
<1>3. ReportsAreTrue'
  BY DEF ReportsAreTrue, OneHop
<1> QED
  BY <1>1, <1>2, <1>3

LEMMA CollectDataKeeps ==
  ASSUME CheckInv, NEW m \in Mote, CollectData(m)
  PROVE  CheckInv'
<1>1. PICK t \in Temperature[m], h \in Humidity[m] :
        mc' = mc \cup Failure(temperature_validator(t), ErrorMsg("P(T)", m, <<t>>))
                 \cup Failure(humidity_validator(h), ErrorMsg("P(H)", m, <<h>>))
                 \cup {CollectMsg(m, t, h, temperature_validator(t) \/ humidity_validator(h))}
  BY DEF CollectData
<1>2. \A v : Message(CollectMsg(m, t, h, v)) /\ ~OneHop(CollectMsg(m, t, h, v))
  BY DEF Message, OneHop, CollectMsg
<1>3. /\ Message(ErrorMsg("P(T)", m, <<t>>)) /\ ~OneHop(ErrorMsg("P(T)", m, <<t>>))
      /\ Message(ErrorMsg("P(H)", m, <<h>>)) /\ ~OneHop(ErrorMsg("P(H)", m, <<h>>))
  BY DEF Message, OneHop, ErrorMsg
<1>4. \A p \in mc' : p \in mc \/ (Message(p) /\ ~OneHop(p))
  BY <1>1, <1>2, <1>3 DEF Failure
<1>5. collections' \in 0 .. MaxCollections /\ lost' \in SUBSET {"answer", "message"}
  BY CheckerAssumption DEF CollectData, CheckInv, TypeOK
<1> QED
  BY <1>4, <1>5, QuietKeeps DEF CollectData

LEMMA MeshKeeps ==
  ASSUME CheckInv, NEW p \in mc, MeshRecv(p) \/ MeshLose(p)
  PROVE  CheckInv'
BY QuietKeeps DEF MeshRecv, MeshLose, CheckInv, TypeOK

LEMMA Check1HopInformationKeeps ==
  ASSUME CheckInv, NEW m \in Mote, Check1HopInformation(m)
  PROVE  CheckInv'
<1> USE CheckerAssumption DEF CheckInv, Check1HopInformation
<1>1. rc' = rc \/ rc' = [rc EXCEPT ![m] = Idle]
  OBVIOUS
<1>2. TypeOK'
  <2>1. rc' \in [Mote -> {Idle} \cup [answer : Answer, tries : 0 .. RETRANSMISSIONS]]
    BY <1>1 DEF TypeOK
  <2>2. lost' \in SUBSET {"answer", "message"}
    BY DEF TypeOK, Dropped
  <2>3. checks' \in 0 .. MaxChecks
    BY DEF TypeOK
  <2>4. polite' \in [Mote -> 0 .. MAXDUPS - 1 \cup {None}]
    BY DEF TypeOK
  <2> QED
    BY <2>1, <2>2, <2>3, <2>4 DEF TypeOK
<1>3. AsksOnlyWhileChecking'
  BY DEF AsksOnlyWhileChecking, TypeOK
<1>4. AnswersAreAsked'
  BY <1>1 DEF AnswersAreAsked, TypeOK
<1>5. ReportsAreTrue'
  BY DEF ReportsAreTrue
<1> QED
  BY <1>2, <1>3, <1>4, <1>5

LEMMA PoliteSendKeeps ==
  ASSUME CheckInv, NEW m \in Mote, PoliteSend(m)
  PROVE  CheckInv'
<1> USE CheckerAssumption DEF CheckInv, PoliteSend
<1>1. TypeOK'
  <2>1. polite' \in [Mote -> 0 .. MAXDUPS - 1 \cup {None}]
    BY DEF TypeOK
  <2>2. pc' \in SUBSET (Mote \X Checker)
    <3>1. \A n \in Checker : <<m, n>> \in Mote \X Checker
      OBVIOUS
    <3>2. \A r \in pc' : r \in pc \/ \E n \in Checker : r = <<m, n>>
      OBVIOUS
    <3>3. \A r \in pc : r \in Mote \X Checker
      BY DEF TypeOK
    <3> QED
      BY <3>1, <3>2, <3>3
  <2> QED
    BY <2>1, <2>2 DEF TypeOK
<1>2. AsksOnlyWhileChecking' /\ AnswersAreAsked'
  BY DEF AsksOnlyWhileChecking, AnswersAreAsked, TypeOK
<1>3. ReportsAreTrue'
  BY DEF ReportsAreTrue
<1> QED
  BY <1>1, <1>2, <1>3

\* An answer is accepted by a channel that is idle, or there is none.
LEMMA PcRecvKeeps ==
  ASSUME CheckInv, NEW m, NEW n, PcRecv(m, n)
  PROVE  CheckInv'
<1> USE CheckerAssumption DEF CheckInv
<1>1. <<m, n>> \in pc /\ <<m, n>> \in Link /\ m \in Mote /\ n \in Mote
  BY DEF PcRecv, TypeOK, AnswersAreAsked
<1>2. /\ pc' = pc \ {<<m, n>>} /\ Suppressed(n)
      /\ UNCHANGED <<checking, mc, output, collections, checks, evaluated, lost>>
  BY DEF PcRecv
<1>3. polite' \in [Mote -> 0 .. MAXDUPS - 1 \cup {None}]
  BY <1>1, <1>2 DEF Suppressed, TypeOK
<1>4. AsksOnlyWhileChecking'
  BY <1>1, <1>2 DEF AsksOnlyWhileChecking, Suppressed, TypeOK
<1>5. CASE UNCHANGED <<rc, answered>>
  <2>1. TypeOK'
    BY <1>2, <1>3, <1>5 DEF TypeOK
  <2>2. AnswersAreAsked' /\ ReportsAreTrue'
    BY <1>2, <1>5 DEF AnswersAreAsked, ReportsAreTrue
  <2> QED
    BY <1>4, <2>1, <2>2
<1>6. CASE \E h \in Humidity[n] : AcceptRc(n, m, h)
  <2>1. PICK h \in Humidity[n] :
          /\ rc' = [rc EXCEPT ![n] = [answer |-> <<m, n, h>>, tries |-> 0]]
          /\ answered' = answered \cup {<<m, n, h>>}
    BY <1>6 DEF AcceptRc
  <2>2. <<m, n, h>> \in Answer
    BY <1>1 DEF Answer
  <2>3. TypeOK'
    <3>1. rc' \in [Mote -> {Idle} \cup [answer : Answer, tries : 0 .. RETRANSMISSIONS]]
      <4> DEFINE Channel == {Idle} \cup [answer : Answer, tries : 0 .. RETRANSMISSIONS]
      <4>1. [answer |-> <<m, n, h>>, tries |-> 0] \in Channel
        BY <2>2
      <4>2. rc \in [Mote -> Channel]
        BY DEF TypeOK
      <4> HIDE DEF Channel
      <4>3. rc' \in [Mote -> Channel]
        BY <2>1, <4>1, <4>2
      <4> QED
        BY <4>3 DEF Channel
    <3>2. answered' \in SUBSET Answer
      BY <2>1, <2>2 DEF TypeOK
    <3>3. pc' \in SUBSET (Mote \X Checker)
      BY <1>2 DEF TypeOK
    <3> QED
      BY <1>2, <1>3, <3>1, <3>2, <3>3 DEF TypeOK
  <2>4. AnswersAreAsked'
    <3>1. \A k \in Mote : k # n => rc'[k] = rc[k]
      BY <2>1 DEF TypeOK
    <3>2. rc'[n].answer = <<m, n, h>>
      BY <1>1, <2>1 DEF TypeOK
    <3> QED
      BY <1>1, <1>2, <2>1, <3>1, <3>2 DEF AnswersAreAsked
  <2>5. ReportsAreTrue'
    BY <1>2, <2>1 DEF ReportsAreTrue
  <2> QED
    BY <1>4, <2>3, <2>4, <2>5
<1> QED
  BY <1>5, <1>6 DEF PcRecv, BusyRc

LEMMA PcMissKeeps ==
  ASSUME CheckInv, NEW m, NEW n, PcMiss(m, n)
  PROVE  CheckInv'
BY DEF PcMiss, CheckInv, TypeOK, AsksOnlyWhileChecking, AnswersAreAsked, ReportsAreTrue

\* The channel of n after a transmission: idle, or the same answer again.
LEMMA ChannelKeeps ==
  ASSUME CheckInv, NEW n \in Mote, rc[n] # Idle,
         \/ rc' = [rc EXCEPT ![n] = Idle] /\ lost' \in {lost, lost \cup Dropped(n)}
         \/ Unconfirmed(n),
         UNCHANGED <<answered, pc>>
  PROVE  /\ rc' \in [Mote -> {Idle} \cup [answer : Answer, tries : 0 .. RETRANSMISSIONS]]
         /\ lost' \in SUBSET {"answer", "message"}
         /\ AnswersAreAsked'
<1> USE CheckerAssumption DEF CheckInv
<1>1. lost' \in SUBSET {"answer", "message"}
  BY DEF TypeOK, Dropped, Unconfirmed
<1>2. CASE rc' = [rc EXCEPT ![n] = Idle]
  BY <1>1, <1>2 DEF TypeOK, AnswersAreAsked
<1>3. CASE /\ rc[n].tries < RETRANSMISSIONS
           /\ rc' = [rc EXCEPT ![n].tries = rc[n].tries + 1]
  <2>1. rc[n] \in [answer : Answer, tries : 0 .. RETRANSMISSIONS]
    BY DEF TypeOK
  <2>2. /\ \A k \in Mote : k # n => rc'[k] = rc[k]
        /\ rc'[n].answer = rc[n].answer
        /\ rc'[n] \in [answer : Answer, tries : 0 .. RETRANSMISSIONS]
        /\ rc' \in [Mote -> {Idle} \cup [answer : Answer, tries : 0 .. RETRANSMISSIONS]]
    BY <1>3, <2>1 DEF TypeOK
  <2> QED
    BY <1>1, <2>2 DEF AnswersAreAsked
<1> QED
  BY <1>2, <1>3 DEF Unconfirmed

\* A violation is reported with the readings that violate.
LEMMA ViolationIsTrue ==
  ASSUME NEW ours \in Int, NEW theirs \in Int, ~neighbour_humidity_validator(ours, theirs)
  PROVE  abs(ours - theirs) > 100
BY DEF neighbour_humidity_validator, Trunc, abs

LEMMA RunicastHeardKeeps ==
  ASSUME CheckInv, NEW n \in Mote, RunicastHeard(n)
  PROVE  CheckInv'
<1> DEFINE m == rc[n].answer[1]
<1> DEFINE h == rc[n].answer[3]
<1> USE CheckerAssumption DEF CheckInv
<1>1. /\ UNCHANGED <<checking, polite, pc, output, collections, checks, answered>>
      /\ rc[n] # Idle /\ RcRecv(m, n, h)
  BY DEF RunicastHeard
<1>2. /\ rc' \in [Mote -> {Idle} \cup [answer : Answer, tries : 0 .. RETRANSMISSIONS]]
      /\ lost' \in SUBSET {"answer", "message"}
      /\ AnswersAreAsked'
  BY <1>1, ChannelKeeps DEF RunicastHeard
<1>3. rc[n].answer \in Answer /\ rc[n].answer \in answered /\ rc[n].answer[2] = n
  BY <1>1 DEF TypeOK, AnswersAreAsked
<1>4. /\ <<m, n, h>> = rc[n].answer /\ m \in Mote /\ h \in Humidity[n]
      /\ <<m, n>> \in Link
  BY <1>3 DEF Answer, AnswersAreAsked
<1>5. PICK ours \in Humidity[m] :
        mc' = mc \cup Failure(neighbour_humidity_validator(ours, h),
                              ErrorMsg("P1(H)", m, <<n, ours, h>>))
  BY <1>1 DEF RcRecv
<1>6. evaluated' = evaluated \cup {<<m, n, h>>}
  BY <1>1 DEF RcRecv
<1> HIDE DEF m, h
<1> DEFINE msg == ErrorMsg("P1(H)", m, <<n, ours, h>>)
<1>7. /\ msg.type = "error" /\ msg.mote = m /\ msg.cause[1] = n
      /\ msg.cause[2] = ours /\ msg.cause[3] = h
  BY DEF ErrorMsg
<1>8. ours \in Int /\ h \in Int
  BY <1>4
<1> HIDE DEF msg
<1>9. mc' = mc \/ (mc' = mc \cup {msg} /\ ~neighbour_humidity_validator(ours, h))
  BY <1>5 DEF Failure, msg
<1>10. TypeOK'
  BY <1>1, <1>2, <1>3, <1>4, <1>6, <1>7, <1>9 DEF TypeOK
<1>11. AsksOnlyWhileChecking'
  BY <1>1 DEF AsksOnlyWhileChecking
<1>12. ReportsAreTrue'
  <2>1. evaluated' \subseteq answered'
    BY <1>1, <1>3, <1>4, <1>6 DEF ReportsAreTrue
  <2>2. CASE mc' = mc
    BY <1>1, <2>1, <2>2 DEF ReportsAreTrue
  <2>3. CASE mc' = mc \cup {msg} /\ ~neighbour_humidity_validator(ours, h)
    <3>1. abs(msg.cause[2] - msg.cause[3]) > 100
      BY <1>7, <1>8, <2>3, ViolationIsTrue
    <3> QED
      BY <1>1, <1>3, <1>4, <1>7, <2>1, <2>3, <3>1 DEF ReportsAreTrue
  <2> QED
    BY <1>9, <2>2, <2>3
<1> QED
  BY <1>2, <1>10, <1>11, <1>12

LEMMA RunicastUnheardKeeps ==
  ASSUME CheckInv, NEW n \in Mote, RunicastUnheard(n)
  PROVE  CheckInv'
<1>1. /\ UNCHANGED <<checking, polite, pc, mc, output, collections, checks, answered, evaluated>>
      /\ rc[n] # Idle /\ Unconfirmed(n)
  BY DEF RunicastUnheard
<1>2. /\ rc' \in [Mote -> {Idle} \cup [answer : Answer, tries : 0 .. RETRANSMISSIONS]]
      /\ lost' \in SUBSET {"answer", "message"}
      /\ AnswersAreAsked'
  BY <1>1, ChannelKeeps
<1> QED
  BY <1>1, <1>2 DEF CheckInv, TypeOK, AsksOnlyWhileChecking, ReportsAreTrue

LEMMA FinishCheckKeeps ==
  ASSUME CheckInv, NEW m \in Mote, FinishCheck(m)
  PROVE  CheckInv'
<1> USE CheckerAssumption DEF CheckInv, FinishCheck, StopSending
<1>1. TypeOK'
  <2>1. lost' \in SUBSET {"answer", "message"}
    BY DEF TypeOK, Dropped
  <2>2. rc' \in [Mote -> {Idle} \cup [answer : Answer, tries : 0 .. RETRANSMISSIONS]]
    BY DEF TypeOK
  <2> QED
    BY <2>1, <2>2 DEF TypeOK
<1>2. AsksOnlyWhileChecking' /\ AnswersAreAsked'
  BY DEF AsksOnlyWhileChecking, AnswersAreAsked, TypeOK
<1>3. ReportsAreTrue'
  BY DEF ReportsAreTrue
<1> QED
  BY <1>1, <1>2, <1>3

LEMMA CheckInductive == CheckInv /\ [Next]_vars => CheckInv'
<1> SUFFICES ASSUME CheckInv, [Next]_vars PROVE CheckInv'
  OBVIOUS
<1>1. ASSUME NEW m \in Mote, CollectData(m) \/ Check1HopInformation(m) \/ PoliteSend(m)
      PROVE  CheckInv'
  BY <1>1, CollectDataKeeps, Check1HopInformationKeeps, PoliteSendKeeps
<1>2. ASSUME NEW m \in Mote, RunicastHeard(m) \/ RunicastUnheard(m) \/ FinishCheck(m)
      PROVE  CheckInv'
  BY <1>2, RunicastHeardKeeps, RunicastUnheardKeeps, FinishCheckKeeps
<1>3. ASSUME NEW p \in mc, MeshRecv(p) \/ MeshLose(p)
      PROVE  CheckInv'
  BY <1>3, MeshKeeps
<1>4. ASSUME NEW r \in pc, PcRecv(r[1], r[2]) \/ PcMiss(r[1], r[2])
      PROVE  CheckInv'
  BY <1>4, PcRecvKeeps, PcMissKeeps
<1>5. CASE UNCHANGED vars
  BY <1>5 DEF vars, CheckInv, TypeOK, AsksOnlyWhileChecking, AnswersAreAsked, ReportsAreTrue
<1> QED
  BY <1>1, <1>2, <1>3, <1>4, <1>5 DEF Next

LEMMA CheckInvariant == Spec => []CheckInv
BY CheckInitially, CheckInductive, PTL DEF Spec

\* Types of the state of the local predicate checker.
THEOREM TypeCorrect == Spec => []TypeOK
<1>1. CheckInv => TypeOK
  BY DEF CheckInv
<1> QED
  BY <1>1, CheckInvariant, PTL

\* A request does not outlive the check that asked for it, however the checks of
\* neighbours overlap (one_hop_predicate_checker_process).
THEOREM NobodyAsksInVain == Spec => []AsksOnlyWhileChecking
<1>1. CheckInv => AsksOnlyWhileChecking
  BY DEF CheckInv
<1> QED
  BY <1>1, CheckInvariant, PTL

\* A violation that is reported was answered by a neighbour that heard the
\* request, and is one (pc_recv, rc_recv, neighbour_humidity_message).
THEOREM NoFalseReports == Spec => []ReportsAreTrue
<1>1. CheckInv => ReportsAreTrue
  BY DEF CheckInv
<1> QED
  BY <1>1, CheckInvariant, PTL
=============================================================================
