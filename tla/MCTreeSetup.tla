----------------------------- MODULE MCTreeSetup -----------------------------
(***************************************************************************)
(* Five motes: two hear the sink and each other, a third hears both, and a *)
(* fourth hears the third and one of the first two (and is heard by the    *)
(* third only): two ways round, paths of unequal length, a one-way link.   *)
(***************************************************************************)
EXTENDS TreeSetup

CONSTANTS s, a, b, c, d

MCNode == {s, a, b, c, d}

Both(m, n) == {<<m, n>>, <<n, m>>}

MCLink == Both(s, a) \cup Both(s, b) \cup Both(a, b) \cup Both(a, c)
            \cup Both(b, c) \cup Both(c, d) \cup {<<b, d>>}
=============================================================================
