------------------------ MODULE LocalPredicateChecker ------------------------
(***************************************************************************)
(* Samples/LocalPredicateChecker.  Every 20 s a mote checks predicates on  *)
(* its own readings and sends the readings, and a message for each         *)
(* predicate that fails, over the mesh to mote 1.0.  A check of the one-   *)
(* hop neighbourhood asks the neighbours for theirs by a polite broadcast, *)
(* gets them by reliable unicast, and reports those that differ too much.  *)
(*                                                                         *)
(* Temperatures and humidities are integers, in tenths.  The texts of the  *)
(* error messages are left out: a message names its cause instead.         *)
(*                                                                         *)
(* AUTOSTART_PROCESSES leaves predicate_checker_process out; Checker is    *)
(* the set of motes on which it is started all the same, none as the code  *)
(* stands.                                                                 *)
(***************************************************************************)
EXTENDS Integers, FiniteSets

CONSTANTS
  Mote, Checker,
  Link,                    \* <<m, n>> \in Link: n hears m
  Temperature, Humidity,   \* for each mote, what its sensors may say
  MAXDUPS,                 \* identical broadcasts that suppress one
  RETRANSMISSIONS,
  Idle, None,
  MaxCollections, MaxChecks   \* bounds on the readings and checks modelled

ASSUME CheckerAssumption ==
  /\ IsFiniteSet(Mote) /\ Checker \subseteq Mote
  /\ Link \subseteq Mote \X Mote
  /\ \A m \in Mote : Temperature[m] \subseteq Int /\ Humidity[m] \subseteq Int
  /\ MAXDUPS \in Nat \ {0} /\ RETRANSMISSIONS \in Nat \ {0}
  /\ None \notin Nat
  /\ MaxCollections \in Nat /\ MaxChecks \in Nat

VARIABLES
  checking,     \* motes on which one_hop_predicate_checker_process runs: rc is open
  polite,       \* duplicates heard of the request pc is about to send, or None
  pc,           \* <<m, n>>: the request of m is about to be heard by n
  rc,           \* the answer the reliable unicast of a mote is sending, or Idle
  mc,           \* messages in the mesh
  output,       \* messages printed at mote 1.0
  collections, checks,    \* readings and checks made so far
  answered, evaluated,    \* history: <<m, n, h>>, n sent m its humidity h, m looked at it
  lost          \* history: whether an answer, whether a message was lost

vars == <<checking, polite, pc, rc, mc, output, collections, checks,
          answered, evaluated, lost>>

Init ==
  /\ checking = {} /\ polite = [m \in Mote |-> None]
  /\ pc = {} /\ rc = [m \in Mote |-> Idle]
  /\ mc = {} /\ output = {}
  /\ collections = 0 /\ checks = 0
  /\ answered = {} /\ evaluated = {} /\ lost = {}

(***************************************************************************)
(* Predicates.                                                             *)
(***************************************************************************)
temperature_validator(t) == t > 0 /\ t <= 400
humidity_validator(h) == h > 0 /\ h <= 1000

\* Conversion of a double to the int that abs() takes: tenths are cut off.
Trunc(tenths) == IF tenths >= 0 THEN tenths \div 10 ELSE -((-tenths) \div 10)

abs(n) == IF n >= 0 THEN n ELSE -n

\* Mutant: the readings need only be near each other on one side.
neighbour_humidity_validator_OneSided(ours, theirs) == Trunc(ours - theirs) <= 10

\* The difference is cut off, so that one of 10.9 passes for 10.
neighbour_humidity_validator(ours, theirs) == abs(Trunc(ours - theirs)) <= 10

ErrorMsg(kind, m, cause) == [type |-> "error", kind |-> kind, mote |-> m, cause |-> cause]

CollectMsg(m, t, h, violated) ==
  [type |-> "collect", mote |-> m, temperature |-> t, humidity |-> h, pred_violated |-> violated]

\* check_predicate: the message to send, and the result that is or-ed to violated.
Failure(holds, msg) == IF holds THEN {} ELSE {msg}

\* One round of data_collector_process at m.
CollectData(m) ==
  /\ collections < MaxCollections
  /\ collections' = collections + 1
  /\ \E t \in Temperature[m], h \in Humidity[m] :
       mc' = mc \cup Failure(temperature_validator(t), ErrorMsg("P(T)", m, <<t>>))
                \cup Failure(humidity_validator(h), ErrorMsg("P(H)", m, <<h>>))
                \cup {CollectMsg(m, t, h, temperature_validator(t) \/ humidity_validator(h))}
  /\ UNCHANGED <<checking, polite, pc, rc, output, checks, answered, evaluated, lost>>

\* The mesh brings a packet to mote 1.0, where recv prints it, or loses it.
MeshRecv(p) ==
  /\ p \in mc
  /\ mc' = mc \ {p}
  /\ output' = output \cup {p}
  /\ UNCHANGED <<checking, polite, pc, rc, collections, checks, answered, evaluated, lost>>

MeshLose(p) ==
  /\ p \in mc
  /\ mc' = mc \ {p}
  /\ lost' = lost \cup {"message"}
  /\ UNCHANGED <<checking, polite, pc, rc, output, collections, checks, answered, evaluated>>

(***************************************************************************)
(* The one-hop check.                                                      *)
(***************************************************************************)
\* The answer m was sending, if any, is given up.
Dropped(m) == IF rc[m] = Idle THEN {} ELSE {"answer"}

\* predicate_checker_process calls check_1_hop_information, which starts the
\* process unless it runs.  What becomes of an answer sent before rc was opened
\* is left open.
Check1HopInformation(m) ==
  /\ m \in Checker \ checking
  /\ checks < MaxChecks
  /\ checks' = checks + 1
  /\ checking' = checking \cup {m}
  /\ polite' = [polite EXCEPT ![m] = 0]
  /\ \/ UNCHANGED <<rc, lost>>
     \/ rc' = [rc EXCEPT ![m] = Idle] /\ lost' = lost \cup Dropped(m)
  /\ UNCHANGED <<pc, mc, output, collections, answered, evaluated>>

\* The polite interval of m ends: the request is broadcast.
PoliteSend(m) ==
  /\ polite[m] # None
  /\ polite' = [polite EXCEPT ![m] = None]
  /\ pc' = pc \cup {<<m, n>> : n \in {k \in Checker \ {m} : <<m, k>> \in Link}}
  /\ UNCHANGED <<checking, rc, mc, output, collections, checks, answered, evaluated, lost>>

\* Mutant: suppressed by one duplicate more.
Suppressed_Late(n) ==
  polite' = [polite EXCEPT ![n] =
    IF polite[n] = None \/ polite[n] = MAXDUPS THEN None ELSE polite[n] + 1]

\* A request like its own counts against the one n has yet to send.
Suppressed(n) ==
  polite' = [polite EXCEPT ![n] =
    IF polite[n] = None \/ polite[n] + 1 = MAXDUPS THEN None ELSE polite[n] + 1]

\* Mutant: a busy channel takes the new destination and keeps the old packet.
BusyRc_Redirected(n, m) ==
  /\ rc' = IF rc[n] = Idle THEN rc ELSE [rc EXCEPT ![n].answer[1] = m]
  /\ UNCHANGED answered

\* runicast_send refuses a packet while another is being sent.
BusyRc(n, m) == UNCHANGED <<rc, answered>>

AcceptRc(n, m, h) ==
  /\ rc' = [rc EXCEPT ![n] = [answer |-> <<m, n, h>>, tries |-> 0]]
  /\ answered' = answered \cup {<<m, n, h>>}

\* pc_recv at n: the answer to m goes through rc, which is open only if n is
\* checking as well.  If it is not, the network may refuse.
PcRecv(m, n) ==
  /\ <<m, n>> \in pc
  /\ pc' = pc \ {<<m, n>>}
  /\ Suppressed(n)
  /\ \/ rc[n] # Idle /\ BusyRc(n, m)
     \/ rc[n] = Idle /\ n \notin checking /\ BusyRc(n, m)
     \/ rc[n] = Idle /\ \E h \in Humidity[n] : AcceptRc(n, m, h)
  /\ UNCHANGED <<checking, mc, output, collections, checks, evaluated, lost>>

\* The request of m is not heard by n.
PcMiss(m, n) ==
  /\ <<m, n>> \in pc
  /\ pc' = pc \ {<<m, n>>}
  /\ UNCHANGED <<checking, polite, rc, mc, output, collections, checks, answered, evaluated, lost>>

\* recv at m: the predicate is evaluated on the answer of n.
RcRecv(m, n, h) ==
  /\ m \in checking
  /\ evaluated' = evaluated \cup {<<m, n, h>>}
  /\ \E ours \in Humidity[m] :
       mc' = mc \cup Failure(neighbour_humidity_validator(ours, h),
                             ErrorMsg("P1(H)", m, <<n, ours, h>>))

\* No acknowledgement: runicast sends again, and gives up after RETRANSMISSIONS.
Unconfirmed(n) ==
  IF rc[n].tries < RETRANSMISSIONS
  THEN rc' = [rc EXCEPT ![n].tries = @ + 1] /\ lost' = lost
  ELSE rc' = [rc EXCEPT ![n] = Idle] /\ lost' = lost \cup Dropped(n)

\* The transmission of n is heard, and acknowledged if n can hear that, too.
RunicastHeard(n) ==
  /\ rc[n] # Idle
  /\ <<n, rc[n].answer[1]>> \in Link
  /\ RcRecv(rc[n].answer[1], n, rc[n].answer[3])
  /\ \/ n \in checking /\ rc' = [rc EXCEPT ![n] = Idle] /\ lost' = lost
     \/ Unconfirmed(n)
  /\ UNCHANGED <<checking, polite, pc, output, collections, checks, answered>>

RunicastUnheard(n) ==
  /\ rc[n] # Idle
  /\ Unconfirmed(n)
  /\ UNCHANGED <<checking, polite, pc, mc, output, collections, checks, answered, evaluated>>

\* Mutant: the request is not cancelled.
StopSending_Not(m) == UNCHANGED polite

\* ipolite_cancel.
StopSending(m) == polite' = [polite EXCEPT ![m] = None]

\* The 60 s are over: the request is cancelled and rc closed.
FinishCheck(m) ==
  /\ m \in checking
  /\ checking' = checking \ {m}
  /\ StopSending(m)
  /\ rc' = [rc EXCEPT ![m] = Idle]
  /\ lost' = lost \cup Dropped(m)
  /\ UNCHANGED <<pc, mc, output, collections, checks, answered, evaluated>>

Next ==
  \/ \E m \in Mote :
       \/ CollectData(m) \/ Check1HopInformation(m) \/ PoliteSend(m)
       \/ RunicastHeard(m) \/ RunicastUnheard(m) \/ FinishCheck(m)
  \/ \E p \in mc : MeshRecv(p) \/ MeshLose(p)
  \/ \E r \in pc : PcRecv(r[1], r[2]) \/ PcMiss(r[1], r[2])

Spec == Init /\ [][Next]_vars

\* Timers expire, and nothing stays in the network for ever.
Fairness ==
  /\ \A m \in Mote : /\ WF_vars(FinishCheck(m))
                     /\ WF_vars(PoliteSend(m))
                     /\ WF_vars(RunicastHeard(m) \/ RunicastUnheard(m))
  /\ WF_vars(\E p \in mc : MeshRecv(p) \/ MeshLose(p))
  /\ WF_vars(\E r \in pc : PcRecv(r[1], r[2]) \/ PcMiss(r[1], r[2]))

FairSpec == Spec /\ Fairness

(***************************************************************************)
(*                               Properties                                *)
(***************************************************************************)
Answer == UNION {Mote \X {n} \X Humidity[n] : n \in Mote}

TypeOK ==
  /\ checking \subseteq Checker
  /\ polite \in [Mote -> 0 .. MAXDUPS - 1 \cup {None}]
  /\ pc \in SUBSET (Mote \X Checker)
  /\ rc \in [Mote -> {Idle} \cup [answer : Answer, tries : 0 .. RETRANSMISSIONS]]
  /\ \A p \in mc \cup output : p.type \in {"error", "collect"} /\ p.mote \in Mote
  /\ collections \in 0 .. MaxCollections /\ checks \in 0 .. MaxChecks
  /\ answered \in SUBSET Answer /\ evaluated \in SUBSET Answer /\ lost \in SUBSET {"answer", "message"}

\* Nothing is asked for by a mote that would not hear the answers: the polite
\* broadcast, which waits for a random time, does not outlive the check, though
\* checks of neighbours overlap in any way (predicate-checker.c:217-255).
AsksOnlyWhileChecking == \A m \in Mote : polite[m] # None => m \in checking

\* A one-hop violation that is reported is one: the reading was taken by a
\* neighbour that heard a request of this mote, and is more than 10 away from a
\* reading of its own, however often answers were retransmitted and however many
\* requests met at the neighbour's channel.
ReportsAreTrue ==
  /\ evaluated \subseteq answered
  /\ \A p \in mc \cup output : p.type = "error" /\ p.kind = "P1(H)" =>
       /\ <<p.mote, p.cause[1], p.cause[3]>> \in answered
       /\ <<p.mote, p.cause[1]>> \in Link
       /\ abs(p.cause[2] - p.cause[3]) > 100

\* Why it holds: an answer goes to a mote that asked, and is kept as it was given.
AnswersAreAsked ==
  /\ pc \subseteq Link
  /\ \A a \in answered : <<a[1], a[2]>> \in Link
  /\ \A n \in Mote : rc[n] # Idle => rc[n].answer \in answered /\ rc[n].answer[2] = n

CheckInv ==
  /\ TypeOK
  /\ AsksOnlyWhileChecking
  /\ AnswersAreAsked
  /\ ReportsAreTrue

\* Answers to m that would violate the predicate whatever m reads.
Certain == {a \in answered : \A ours \in Humidity[a[1]] : abs(ours - a[3]) >= 110}

\* If no answer is given up and nothing is lost in the mesh, every answer that
\* differs by 11 or more from all the mote may read is reported at mote 1.0.
ViolationsReported ==
  [](lost = {}) =>
    <>[](\A a \in Certain : \E p \in output :
           p.type = "error" /\ p.kind = "P1(H)" /\ p.mote = a[1] /\ p.cause[1] = a[2])

\* "True if a predicate was violated" (local-predicate-checker.c:59).
FlagTellsViolation ==
  \A p \in mc \cup output : p.type = "collect" =>
    (p.pred_violated <=> ~temperature_validator(p.temperature) \/ ~humidity_validator(p.humidity))
=============================================================================
