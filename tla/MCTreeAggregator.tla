-------------------------- MODULE MCTreeAggregator --------------------------
(***************************************************************************)
(* A diamond: two motes hear the sink, a third hears both of them.         *)
(***************************************************************************)
EXTENDS TreeAggregator

CONSTANTS s, a, b, c

MCNode == {s, a, b, c}

Both(m, n) == {<<m, n>>, <<n, m>>}

MCLink == Both(s, a) \cup Both(s, b) \cup Both(a, c) \cup Both(b, c)

(***************************************************************************)
(* With a bounded number of readings the network falls silent in the end.  *)
(* Any other state without a successor is a deadlock.                      *)
(***************************************************************************)
Silent ==
  /\ ~setup_wait_ct
  /\ detect_ct = {} /\ bc = {} /\ aggregate_ct = {} /\ uc = {}
  /\ \A n \in Node : sender[n] = "waiting" => readings[n] >= MaxReadings
  /\ UNCHANGED vars

MCNext == Next \/ Silent

MCSpec == Init /\ [][MCNext]_vars /\ Fairness
=============================================================================
