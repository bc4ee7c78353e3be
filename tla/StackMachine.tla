---------------------------- MODULE StackMachine ----------------------------
(***************************************************************************)
(* What the virtual machine of predlang.c promises to a program that       *)
(* respects types: a stack of values, named variables that hold values,    *)
(* and instructions that take operands from the stack and put results      *)
(* back.  There are no addresses here, and of bytes only how many are      *)
(* taken: an instruction fails if, and only if, there is no room for what  *)
(* it pushes or creates.                                                   *)
(*                                                                         *)
(* Nothing is promised to an instruction whose operands are not on the     *)
(* stack, or whose variable does not hold what it expects.                 *)
(***************************************************************************)
EXTENDS Bytecode

CONSTANTS
  STACK_SIZE,         \* bytes for the stack and the variables together
  MAXIMUM_VARIABLES

VARIABLES
  program,  \* the code, as laid out in memory
  current,  \* offset of the next instruction
  vals,     \* the stack of values, its top first
  store,    \* for each variable its elements (sequences of values) and length
  used,     \* the bytes that variables take, with those hidden by another of the same name
  created,  \* how many of them there are
  error,    \* an error was recorded
  result    \* "running", what evaluate() returned, or "lost"

avars == <<program, current, vals, store, used, created, error, result>>

Running == <<"running">>
Returned(v) == <<"value", v>>
LostTrack == <<"lost">>

instr == program.at[current]
opcode == instr[1]
arg == instr[2]
Following == current + 1 + ArgSize(instr)

Typed(values, types) ==
  /\ Len(types) <= Len(values)
  /\ \A k \in DOMAIN types : values[k][1] = types[k]

Known == arg \in DOMAIN store

\* The operands it takes from the stack.
Pops ==
  CASE opcode \in {"IPOP", "AFETCH", "ICASTF", "JZ", "JNZ", "IINC", "NOT", "ISTORE"} -> <<"int">>
    [] opcode \in {"FPOP", "FCASTI", "FSTORE"} -> <<"float">>
    [] opcode = "CALL" -> Record
    [] opcode \in Operations -> <<OperandType(opcode), OperandType(opcode)>>
    [] OTHER -> <<>>

\* The instruction finds what it needs.
Defined ==
  /\ Typed(vals, Pops)
  /\ CASE opcode = "IFETCH" -> Known /\ Typed(store[arg].elems[1], <<"int">>)
       [] opcode = "ISTORE" -> Known /\ Typed(store[arg].elems[1], <<"int">>)
       [] opcode = "FFETCH" -> Known /\ Typed(store[arg].elems[1], <<"float">>)
       [] opcode = "FSTORE" -> Known /\ Typed(store[arg].elems[1], <<"float">>)
       [] opcode = "ALEN" -> Known
       [] opcode = "ASUM" -> /\ Known /\ instr[3] \in DOMAIN Fn
                         /\ store[arg].length > 0
                         /\ \A k \in DOMAIN store[arg].elems : Typed(store[arg].elems[k], Record)
       [] opcode = "AFETCH" -> /\ Known /\ vals[1][2] + 1 \in DOMAIN store[arg].elems
                           /\ Typed(store[arg].elems[vals[1][2] + 1], Record)
       [] opcode = "CALL" -> arg \in DOMAIN Fn
       [] opcode \in Operations -> ~Divides0(opcode, vals[1][2], vals[2][2])
       [] OTHER -> TRUE

\* What it puts in their place.  An ASUM pushes the sum (predlang.c:719-745), where
\* Report/Predicates.tex:279-284 says the mean; example_mean divides by the length.
Pushes ==
  CASE opcode = "IPUSH" -> << <<"int", arg>> >>
    [] opcode = "FPUSH" -> << <<"float", arg>> >>
    [] opcode \in {"IFETCH", "FFETCH"} -> << store[arg].elems[1][1] >>
    [] opcode \in {"ISTORE", "FSTORE"} -> << vals[1] >>
    [] opcode = "AFETCH" -> store[arg].elems[vals[1][2] + 1]
    [] opcode = "ALEN" -> << <<"int", store[arg].length>> >>
    [] opcode = "ASUM" -> << <<"float", FieldSum(store[arg].elems, instr[3])>> >>
    [] opcode = "CALL" -> << vals[Fn[arg]] >>
    [] opcode = "ICASTF" -> << <<"float", FloatOf(vals[1][2])>> >>
    [] opcode = "FCASTI" -> << <<"int", IntOf(vals[1][2])>> >>
    [] opcode = "IINC" -> << <<"int", IntOp("IADD", vals[1][2], 1)>> >>
    [] opcode = "NOT" -> << <<"int", IF vals[1][2] = 0 THEN 1 ELSE 0>> >>
    [] opcode \in Operations -> << Applied(opcode, vals[1][2], vals[2][2]) >>
    [] OTHER -> <<>>

NextCurrent ==
  IF \/ opcode = "JMP"
     \/ opcode = "JZ" /\ vals[1][2] = 0
     \/ opcode = "JNZ" /\ vals[1][2] # 0
  THEN arg
  ELSE Following

Fresh(type) ==
  [elems |-> << << IF type = "int" THEN <<"int", 0>> ELSE <<"float", FloatOf(0)>> >> >>,
   length |-> 0]

NextStore ==
  CASE opcode \in {"ISTORE", "FSTORE"} -> [store EXCEPT ![arg].elems[1][1] = vals[1]]
    [] opcode \in {"IVAR", "FVAR"} /\ ~Known ->
         [n \in DOMAIN store \cup {arg} |->
            IF n = arg THEN Fresh(IF opcode = "IVAR" THEN "int" ELSE "float") ELSE store[n]]
    [] OTHER -> store

NextVals == Pushes \o SubSeq(vals, Len(Pops) + 1, Len(vals))

\* Bytes; one for what is no value.
Width(values) ==
  LET size(v) == IF v[1] \in {"int", "float"} THEN SizeOf(v[1]) ELSE 1
      w[k \in 0 .. Len(values)] == IF k = 0 THEN 0 ELSE w[k - 1] + size(values[k])
  IN  w[Len(values)]

Creates == opcode \in {"IVAR", "FVAR"}

\* Bytes of the variable it creates, name and value.
Taken ==
  IF Creates THEN StringSize[arg] + SizeOf(IF opcode = "IVAR" THEN "int" ELSE "float") ELSE 0

\* There is room for what it pushes or creates; a variable needs a name, too.
Fits ==
  /\ used + Taken + Width(NextVals) <= STACK_SIZE
  /\ Creates => created < MAXIMUM_VARIABLES /\ StringSize[arg] > 1

Fetching == result = Running /\ current \in DOMAIN program.at

Executes ==
  /\ Fetching
  /\ opcode # "HALT"
  /\ Defined
  /\ Fits
  /\ current' = NextCurrent
  /\ vals' = NextVals
  /\ store' = NextStore
  /\ used' = used + Taken
  /\ created' = IF Creates THEN created + 1 ELSE created
  /\ UNCHANGED <<program, error, result>>

\* The program stops, by HALT or at its end, with a Boolean on the stack.
AtStop ==
  /\ IF current \in DOMAIN program.at THEN opcode = "HALT" ELSE current >= program.length
  /\ Typed(vals, <<"int">>)

Stops ==
  /\ result = Running
  /\ AtStop
  /\ result' = Returned(vals[1][2])
  /\ UNCHANGED <<program, current, vals, store, used, created, error>>

\* Without room an instruction records an error, returns false and leaves the
\* variables alone.
GivesUp ==
  /\ Fetching
  /\ Defined
  /\ ~Fits
  /\ result' = Returned(0)
  /\ error' = TRUE
  /\ store' = store
  /\ UNCHANGED <<program, current>>

\* No promise.
Undefined ==
  /\ result = Running
  /\ ~AtStop
  /\ Fetching => opcode = "HALT" \/ ~Defined
  /\ UNCHANGED program

Next == Executes \/ Stops \/ GivesUp \/ Undefined
=============================================================================
