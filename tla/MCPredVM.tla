------------------------------ MODULE MCPredVM ------------------------------
(***************************************************************************)
(* Every program of up to two of these instructions, alone and after the   *)
(* creation of two variables, and there of three of most of them; the      *)
(* examples of predlang.c; and a loop that the assembler made.             *)
(***************************************************************************)
EXTENDS PredVM, Dragon

MCnint == -1 .. 3
MCnfloat == 0 .. 2
Wrap(n) == ((n + 1) % 5) - 1
Truth(b) == IF b THEN 1 ELSE 0

MCFloatOf(n) == n % 3
MCIntOf(f) == f
MCIntOp(op, a, b) ==
  CASE op = "IADD" -> Wrap(a + b)
    [] op = "ISUB" -> Wrap(a - b)
    [] op \in {"IDIV1", "IDIV2"} -> IF b < 0 THEN Wrap((-a) \div (-b)) ELSE a \div b
    [] op = "INEQ" -> Truth(a # b)
    [] op = "ILT" -> Truth(a < b)
    [] OTHER -> Truth(a # 0 /\ b # 0)
MCFloatOp(op, a, b) == IF op = "FADD" THEN (a + b) % 3 ELSE (a + 2 * b) % 3
MCFloatTest(op, a, b) == Truth(a > b)

MCName == {"n1", "i", "j", "result", ""}
MCFn == [id |-> 1, slot |-> 1, temp |-> 2]
MCRecord == <<"int", "float">>
MCStringSize ==
  [s \in MCName \cup DOMAIN MCFn |->
     CASE s = "" -> 1
       [] s \in {"i", "j"} -> 2
       [] s \in {"n1", "id"} -> 3
       [] s \in {"slot", "temp"} -> 5
       [] s = "result" -> 7]
MCArray == << << <<"int", 1>>, <<"float", 2>> >>, << <<"int", 0>>, <<"float", 1>> >> >>

Instructions ==
  { <<"IPUSH", 1>>, <<"FPUSH", 1>>, <<"IPOP">>, <<"FPOP">>, <<"IFETCH", "i">>, <<"ISTORE", "i">>,
    <<"FFETCH", "j">>, <<"FSTORE", "i">>, <<"FSTORE", "j">>, <<"AFETCH", "n1">>,
    <<"ALEN", "n1">>, <<"ASUM", "n1", "temp">>,
    <<"CALL", "temp">>, <<"ICASTF">>, <<"FCASTI">>, <<"JZ", 3>>, <<"JNZ", 1>>,
    <<"IDIV2">>, <<"FGT">>, <<"NOT">>, <<"IVAR", "j">>,
    <<"HALT">> }

Short == UNION {[1 .. k -> Instructions] : k \in 0 .. 2}

\* Without those that have a like among the others.
Long ==
  [1 .. 3 -> {i \in Instructions : i[1] \notin {"ALEN", "ASUM", "FCASTI", "JNZ", "NOT", "HALT"}}]

Shift(p, n) == [k \in DOMAIN p |-> IF p[k][1] \in Jumps THEN <<p[k][1], p[k][2] + n>> ELSE p[k]]

Prefix == << <<"IVAR", "i">>, <<"FVAR", "j">>, <<"IPUSH", 0>>, <<"IPUSH", 2>> >>

\* A jump names an instruction of the program.
Linked(p) == \A k \in DOMAIN p : p[k][1] \in Jumps => p[k][2] \in DOMAIN p

\* i counts up to the length of n1.  The label of the 5th instruction, at byte 10,
\* becomes 4, which is in the argument of the second.
counting_loop ==
  << <<"IVAR", "i">>, <<"IPUSH", 0>>, <<"ISTORE", "i">>, <<"IPOP">>,
     <<"IFETCH", "i">>, <<"ALEN", "n1">>, <<"INEQ">>, <<"JZ", 14>>,
     <<"IFETCH", "i">>, <<"IINC">>, <<"ISTORE", "i">>, <<"IPOP">>, <<"JMP", 5>>,
     <<"IFETCH", "i">>, <<"HALT">> >>

MCAssembled == Output(counting_loop)

MCPrograms ==
  {Gen(p) : p \in {q \in Short : Linked(q)}}
    \cup {Gen(Prefix \o Shift(p, 4)) : p \in {q \in Short \cup Long : Linked(q)}}
    \cup {Gen(<< <<"IVAR", "">> >>)}
    \cup {Gen(example1), Gen(example_mean), Gen(for_loop)} \cup MCAssembled
=============================================================================
