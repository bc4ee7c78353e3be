------------------------------ MODULE MCHsend ------------------------------
(***************************************************************************)
(* Mote 2 and its neighbours 3 and 4, which hear each other; 5 is two hops *)
(* away, through 3 and 4, and 6 is three hops away.                        *)
(***************************************************************************)
EXTENDS Hsend

MCNode == 2 .. 6
Both(m, n) == {<<m, n>>, <<n, m>>}
MCLink == Both(2, 3) \cup Both(2, 4) \cup Both(3, 4) \cup Both(3, 5) \cup {<<4, 5>>} \cup Both(5, 6)

\* The requests are spent and everything is cancelled.
Silent == stop_timer = {} /\ count = 0 /\ Requests = MaxRequests /\ UNCHANGED vars

MCNext == Next \/ Silent
MCSpec == Init /\ [][MCNext]_vars /\ Fairness
=============================================================================
