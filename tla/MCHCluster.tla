----------------------------- MODULE MCHCluster -----------------------------
(***************************************************************************)
(* With cluster_depth 2, as the application passes it, a head of level 2   *)
(* is four hops from the sink: a line of six motes.  The chord <<b, d>>    *)
(* lets d hear c before, after or instead of b: d is a head of level 2, or *)
(* a member of a's cluster with e as the head.                             *)
(***************************************************************************)
EXTENDS HCluster

CONSTANTS s, a, b, c, d, e

MCNode == {s, a, b, c, d, e}

Both(m, n) == {<<m, n>>, <<n, m>>}

MCLink == Both(s, a) \cup Both(a, b) \cup Both(b, c) \cup Both(c, d) \cup Both(d, e)
            \cup Both(b, d)

(***************************************************************************)
(* With a bounded number of readings the network falls silent in the end.  *)
(***************************************************************************)
Silent ==
  /\ ~setup_wait_ct /\ detect_ct = {} /\ message_offset = {} /\ bc = {} /\ mc = {}
  /\ \A n \in Node : rc[n] = Idle
  /\ sensing = {} \/ Cardinality(taken) = MaxReadings
  /\ UNCHANGED vars

MCNext == Next \/ Silent

MCSpec == Init /\ [][MCNext]_vars /\ Fairness
=============================================================================
