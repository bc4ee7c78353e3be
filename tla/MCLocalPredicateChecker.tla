----------------------- MODULE MCLocalPredicateChecker -----------------------
(***************************************************************************)
(* Three motes in a line, of which the outer ones hear the middle one and  *)
(* each may check its neighbours; the humidities of the first two are 10.9 *)
(* from each other.                                                        *)
(***************************************************************************)
EXTENDS LocalPredicateChecker

MCMote == 1 .. 3
MCLink == {<<1, 2>>, <<2, 1>>, <<2, 3>>, <<3, 2>>}
MCTemperature == <<{}, {}, {410}>>
MCHumidity == <<{500}, {609}, {1010}>>

\* Everything was delivered, and the bounds are reached.
Silent ==
  /\ checking = {} /\ pc = {} /\ mc = {} /\ \A m \in Mote : rc[m] = Idle
  /\ collections = MaxCollections /\ checks = MaxChecks
  /\ UNCHANGED vars

MCSpec == Init /\ [][Next \/ Silent]_vars /\ Fairness
=============================================================================
