------------------------------ MODULE Bytecode ------------------------------
(***************************************************************************)
(* The byte code of the predicate language: what is common to the machine  *)
(* of predlang.c, to the code generator beside it and to the assembler     *)
(* Dragon.                                                                 *)
(*                                                                         *)
(* An instruction is a tuple of its opcode and its arguments, a value a    *)
(* pair of its type and what it is worth.  The worth of a float is left    *)
(* open: no property depends on more than which value it is.               *)
(***************************************************************************)
EXTENDS Integers, Sequences

CONSTANTS
  nint,               \* int16_t
  nfloat,             \* float
  FloatOf(_),         \* (nfloat)i
  IntOf(_),           \* (nint)f
  IntOp(_, _, _),     \* a op b on integers; nbool is nint
  FloatOp(_, _, _),   \* a op b on floats
  FloatTest(_, _, _), \* a op b on floats, for a comparison
  Name,               \* names of variables
  Fn,                 \* registered functions: the field of the record each returns
  Record,             \* types of the fields of the user's data
  StringSize          \* strlen(name) + 1

IntArithmetic == {"IADD", "ISUB", "IMUL", "IDIV1", "IDIV2"}
IntComparison == {"IEQ", "INEQ", "ILT", "ILEQ", "IGT", "IGEQ"}
FloatArithmetic == {"FADD", "FSUB", "FMUL", "FDIV1", "FDIV2"}
FloatComparison == {"FEQ", "FNEQ", "FLT", "FLEQ", "FGT", "FGEQ"}
Logic == {"AND", "OR", "XOR"}
Jumps == {"JMP", "JZ", "JNZ"}

\* The operations of OPERATION_POP and the type they are made on.
OnInts == IntArithmetic \cup IntComparison \cup Logic
Operations == OnInts \cup FloatArithmetic \cup FloatComparison
OperandType(op) == IF op \in OnInts THEN "int" ELSE "float"

\* Operations are on numbers of two bytes, or on floats, but for a division by 0.
ASSUME BytecodeAssumption ==
  /\ nint \subseteq Int /\ {0, 1} \subseteq nint
  /\ \A i \in nint : FloatOf(i) \in nfloat
  /\ \A f \in nfloat : IntOf(f) \in nint
  /\ \A op \in OnInts, a, b \in nint :
       (op \in {"IDIV1", "IDIV2"} => b # 0) => IntOp(op, a, b) \in nint
  /\ \A op \in FloatArithmetic, a, b \in nfloat : FloatOp(op, a, b) \in nfloat
  /\ \A op \in FloatComparison, a, b \in nfloat : FloatTest(op, a, b) \in nint
  /\ Record \in Seq({"int", "float"}) /\ Record # <<>>
  /\ \A f \in DOMAIN Fn : Fn[f] \in DOMAIN Record
  /\ \A x \in Name \cup DOMAIN Fn : StringSize[x] \in Nat \ {0}

\* The operands of op, given the values at stack_ptr[0] and stack_ptr[1].
Operands(op, first, second) ==
  IF op \in {"IDIV2", "FDIV2"} THEN <<second, first>> ELSE <<first, second>>

\* The value OPERATION_POP pushes.
Applied(op, first, second) ==
  LET a == Operands(op, first, second)[1]
      b == Operands(op, first, second)[2]
  IN  IF op \in OnInts THEN <<"int", IntOp(op, a, b)>>
      ELSE IF op \in FloatArithmetic THEN <<"float", FloatOp(op, a, b)>>
      ELSE <<"int", FloatTest(op, a, b)>>

\* Integer division by zero is undefined.
Divides0(op, first, second) ==
  op \in {"IDIV1", "IDIV2"} /\ Operands(op, first, second)[2] = 0

\* The numbers an ASUM adds up: field f of each record, as floats.
FieldSum(records, f) ==
  LET number(v) == IF v[1] = "int" THEN FloatOf(v[2]) ELSE v[2]
      sum[k \in 0 .. Len(records)] ==
        IF k = 0 THEN FloatOf(0)
        ELSE FloatOp("FADD", sum[k - 1], number(records[k][Fn[f]]))
  IN  sum[Len(records)]

(***************************************************************************)
(* Layout of the code.                                                     *)
(***************************************************************************)
SizeOf(type) == IF type = "int" THEN 2 ELSE 4

\* The bytes of its arguments that evaluate() steps over.
ArgSize(i) ==
  CASE i[1] \in {"IPUSH"} \cup Jumps -> SizeOf("int")
    [] i[1] = "FPUSH" -> SizeOf("float")
    [] i[1] \in {"IFETCH", "ISTORE", "FFETCH", "FSTORE", "AFETCH", "ALEN", "CALL",
                 "IVAR", "FVAR"} -> StringSize[i[2]]
    [] i[1] = "ASUM" -> StringSize[i[2]] + StringSize[i[3]]
    [] OTHER -> 0

\* Where each instruction starts, and where the code ends, if they take these sizes.
Starts(sizes) ==
  LET at[k \in 1 .. Len(sizes) + 1] == IF k = 1 THEN 0 ELSE at[k - 1] + sizes[k - 1]
  IN  SubSeq(at, 1, Len(sizes) + 1)

\* Code in memory: the instruction at each offset where one starts.  Jumps name
\* the index of an instruction in p and target[k] in memory.
Placed(p, sizes, target) ==
  LET at == Starts(sizes)
      index(o) == CHOOSE k \in DOMAIN p : at[k] = o
      linked(i) == IF i[1] \in Jumps THEN <<i[1], target[i[2]]>> ELSE i
  IN  [at     |-> [o \in {at[k] : k \in DOMAIN p} |-> linked(p[index(o)])],
       length |-> at[Len(p) + 1]]

GenSizes(p) == [k \in DOMAIN p |-> 1 + ArgSize(p[k])]

\* Mutant: a label is the number of an instruction.
Gen_Indices(p) == Placed(p, GenSizes(p), [k \in DOMAIN p |-> k - 1])

\* gen_op, gen_int, gen_float, gen_string, gen_jmp and alloc_jmp: a label is
\* the distance in bytes from program_start.
Gen(p) == Placed(p, GenSizes(p), Starts(GenSizes(p)))

\* The float it compares with is 7.5 in the code; here it is any.
example1 ==
  << <<"IVAR", "result">>, <<"IPUSH", 2>>, <<"ISTORE", "result">>, <<"IPOP">>,
     <<"IPUSH", 2>>, <<"IPUSH", 3>>, <<"IADD">>, <<"IFETCH", "result">>, <<"IADD">>,
     <<"ICASTF">>, <<"FPUSH", FloatOf(3)>>, <<"FGT">>, <<"NOT">> >>

example_mean == << <<"ASUM", "n1", "id">>, <<"ALEN", "n1">>, <<"ICASTF">>, <<"FDIV2">> >>

\* The program main() runs; label1 is its 5th instruction, last its 19th.
for_loop ==
  << <<"IVAR", "i">>, <<"FPUSH", FloatOf(0)>>, <<"IPUSH", 0>>, <<"ISTORE", "i">>,
     <<"ALEN", "n1">>, <<"INEQ">>, <<"JZ", 19>>,
     <<"IFETCH", "i">>, <<"AFETCH", "n1">>, <<"CALL", "slot">>, <<"ICASTF">>,
     <<"FADD">>, <<"FPUSH", FloatOf(2)>>, <<"FDIV2">>,
     <<"IFETCH", "i">>, <<"IINC">>, <<"ISTORE", "i">>, <<"JMP", 5>>,
     <<"HALT">> >>
=============================================================================
