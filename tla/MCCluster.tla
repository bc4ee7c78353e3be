------------------------------ MODULE MCCluster ------------------------------
(***************************************************************************)
(* Two motes hear the sink and each other, so that either can hear the     *)
(* other's announcement first; a third hears both.                         *)
(***************************************************************************)
EXTENDS Cluster

CONSTANTS s, a, b, c

MCNode == {s, a, b, c}

Both(m, n) == {<<m, n>>, <<n, m>>}

MCLink == Both(s, a) \cup Both(s, b) \cup Both(a, b) \cup Both(a, c) \cup Both(b, c)

(***************************************************************************)
(* With a bounded number of readings the network falls silent in the end.  *)
(***************************************************************************)
Silent ==
  /\ ~setup_wait_ct /\ detect_ct = {} /\ bc = {} /\ mc = {}
  /\ \A n \in Node : rc[n] = Idle /\ (n \in sensing => readings[n] = MaxReadings)
  /\ UNCHANGED vars

MCNext == Next \/ Silent

MCSpec == Init /\ [][MCNext]_vars /\ Fairness
=============================================================================
