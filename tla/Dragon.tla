------------------------------- MODULE Dragon -------------------------------
(***************************************************************************)
(* The assembler Dragon (PredicateLanguage/Dragon/Dragon.jj): from         *)
(* instructions with labels to the bytes the virtual machine executes.     *)
(***************************************************************************)
EXTENDS Bytecode

\* Two alternatives of the token MATHLOP are written twice, in place of two others.
Accepts(i) == i[1] \notin {"IGT", "FLEQ"}

\* The argument of FPUSH is read and not emitted.
DragonSize(i) == IF i[1] = "FPUSH" THEN 1 ELSE 1 + ArgSize(i)

\* getLabelIndex: a label is the number of instructions before it.
getLabelIndex(k) == k - 1

\* The machine takes for the argument of FPUSH the bytes of the instructions that
\* follow, so that what is at an FPUSH is no instruction of the source.
Assembled(p) ==
  LET code == Placed(p, [k \in DOMAIN p |-> DragonSize(p[k])],
                     [k \in DOMAIN p |-> getLabelIndex(k)])
  IN  [code EXCEPT !.at = [o \in {q \in DOMAIN code.at : code.at[q][1] # "FPUSH"} |-> code.at[o]]]

\* What Dragon does with a source: nothing if it cannot read it.
Output(p) == IF \A k \in DOMAIN p : Accepts(p[k]) THEN {Assembled(p)} ELSE {}
=============================================================================
