------------------------------- MODULE PredVM -------------------------------
(***************************************************************************)
(* The virtual machine of PredicateLanguage/predlang.c.  Stack and heap    *)
(* grow towards each other in one array of bytes.  The heap holds the      *)
(* registered functions, the user's array n1, the program and the          *)
(* variables the program creates.  evaluate() executes one instruction at  *)
(* a time; each is an action here.                                         *)
(*                                                                         *)
(* A byte is <<type, worth, k>>: the k-th byte of a value, or of a name.   *)
(* Reading a value where its bytes are not together may give any value.    *)
(* The registries and the program, which precede the variables in the      *)
(* heap and which no instruction writes, have no addresses here: address   *)
(* 0 is that of the name of n1, and n1 and the variables follow.           *)
(***************************************************************************)
EXTENDS Bytecode, FiniteSets

CONSTANTS
  STACK_SIZE,         \* bytes left for n1, the variables and the stack
  MAXIMUM_VARIABLES,
  ArrayName, Array,   \* the user's array: a sequence of records of values
  Programs            \* codes that main() may have put into memory

VARIABLES
  program, current,   \* the code, and the offset of the next instruction
  mem,                \* the bytes of the array `stack'
  stack_ptr, heap_ptr,
  variable_regs,      \* the registered variables
  error,              \* error # NULL
  result              \* "running", what evaluate() returned, or "lost"

vars == <<program, current, mem, stack_ptr, heap_ptr, variable_regs, error, result>>

Running == <<"running">>
Returned(v) == <<"value", v>>

\* The behaviour is undefined, or decided by bytes the program did not write.
LostTrack == <<"lost">>

Address == 0 .. STACK_SIZE - 1
Junk == <<"junk", 0, 0>>

Byte ==
  {<<"int", v, k>> : v \in nint, k \in 0 .. 1}
    \cup {<<"float", v, k>> : v \in nfloat, k \in 0 .. 3}
    \cup (UNION {{<<"name", x, k>> : k \in 0 .. StringSize[x] - 1} : x \in Name})
    \cup {Junk}

\* The bytes of a value, of a name, of a sequence of values.
Bytes(v) == [k \in 1 .. SizeOf(v[1]) |-> <<v[1], v[2], k - 1>>]

NameBytes(x) == [k \in 1 .. StringSize[x] |-> <<"name", x, k - 1>>]

Flatten(seqs) ==
  LET f[k \in 0 .. Len(seqs)] == IF k = 0 THEN <<>> ELSE f[k - 1] \o seqs[k]
  IN  f[Len(seqs)]

AllBytes(values) == Flatten([k \in DOMAIN values |-> Bytes(values[k])])

\* memcpy to address a.
Written(a, bytes) ==
  [b \in Address |-> IF b - a + 1 \in DOMAIN bytes THEN bytes[b - a + 1] ELSE mem[b]]

ReadBytes(a, size) == [k \in 1 .. size |-> mem[a + k - 1]]

Inside(a, size) == a >= 0 /\ a + size <= STACK_SIZE

\* What * (type) a may be.
ReadAs(type, a) ==
  IF mem[a][1] = type /\ ReadBytes(a, SizeOf(type)) = Bytes(<<type, mem[a][2]>>)
  THEN {mem[a][2]}
  ELSE IF type = "int" THEN nint ELSE nfloat

(***************************************************************************)
(* Variables.                                                              *)
(***************************************************************************)
\* Offset of field k in a record; data_size is the offset of the one after the last.
FieldOffset(k) ==
  LET o[n \in 1 .. k] == IF n = 1 THEN 0 ELSE o[n - 1] + SizeOf(Record[n - 1]) IN o[k]

data_size == FieldOffset(Len(Record) + 1)

variable_type_size(type) == IF type = "user" THEN data_size ELSE SizeOf(type)

\* Elements a variable has room for; length is 0 for one that is no array.
Elements(reg) == IF reg.length = 0 THEN 1 ELSE reg.length

End(reg) == reg.location + Elements(reg) * variable_type_size(reg.type)

HasName(reg, x) ==
  Inside(reg.name, StringSize[x]) /\ ReadBytes(reg.name, StringSize[x]) = NameBytes(x)

\* get_variable: the variables strcmp finds, of which it takes the first.
Matching(x) == {k \in DOMAIN variable_regs : HasName(variable_regs[k], x)}

Known(x) == Matching(x) # {}

get_variable(x) ==
  variable_regs[CHOOSE k \in Matching(x) : \A l \in Matching(x) : k <= l]

ArrayReg == [name |-> 0, location |-> StringSize[ArrayName], type |-> "user", length |-> Len(Array)]

\* The instructions that are followed by the name of a variable.
OnVariables ==
  {"IFETCH", "FFETCH", "ISTORE", "FSTORE", "AFETCH", "ALEN", "ASUM", "IVAR", "FVAR"}

IsCode(code) ==
  /\ code.length \in Nat
  /\ \A o \in DOMAIN code.at :
       /\ o \in Nat /\ o < code.length
       /\ code.at[o][1] \in Jumps => code.at[o][2] \in Nat
       /\ code.at[o][1] \in OnVariables => code.at[o][2] \in Name
       /\ code.at[o][1] = "IPUSH" => code.at[o][2] \in nint
       /\ code.at[o][1] = "FPUSH" => code.at[o][2] \in nfloat

\* create_variable and create_array refuse a name of length 0.
Unnamed(x) == StringSize[x] = 1

\* What init_pred_lang and main() are given.
ASSUME VMAssumption ==
  /\ \A code \in Programs : IsCode(code)
  /\ STACK_SIZE \in Nat /\ MAXIMUM_VARIABLES \in Nat \ {0}
  /\ ArrayName \in Name /\ ~Unnamed(ArrayName)
  /\ Array \in Seq(Seq({"int"} \X nint \cup {"float"} \X nfloat)) /\ Array # <<>>
  /\ Len(Array) \in nint
  /\ \A k \in DOMAIN Array : /\ Len(Array[k]) = Len(Record)
                             /\ \A f \in DOMAIN Record : Array[k][f][1] = Record[f]
  /\ End(ArrayReg) <= STACK_SIZE

\* init_pred_lang and main, up to the call of evaluate.
Init ==
  /\ program \in Programs
  /\ current = 0
  /\ variable_regs = <<ArrayReg>>
  /\ heap_ptr = End(ArrayReg)
  /\ stack_ptr = STACK_SIZE
  /\ mem = LET heap == NameBytes(ArrayName) \o Flatten([k \in DOMAIN Array |-> AllBytes(Array[k])])
           IN  [a \in Address |-> IF a + 1 \in DOMAIN heap THEN heap[a + 1] ELSE Junk]
  /\ error = FALSE
  /\ result = Running

(***************************************************************************)
(* Helpers of the instructions.                                            *)
(***************************************************************************)
instr == program.at[current]
arg == instr[2]
Following == current + 1 + ArgSize(instr)

Fetching(ops) ==
  result = Running /\ current \in DOMAIN program.at /\ instr[1] \in ops

\* Control goes to offset c.
Continue(c) == current' = c /\ UNCHANGED <<program, result>>

\* error = "..."; return false.
Fail == error' = TRUE /\ result' = Returned(0) /\ UNCHANGED <<program, current>>

Lose == result' = LostTrack /\ UNCHANGED <<program, current, mem, stack_ptr, heap_ptr, error>>

\* require_stack_size(size) succeeds.
Holds(size) == STACK_SIZE - stack_ptr >= size

\* Nothing changes but the error.
FailUnchanged == Fail /\ UNCHANGED <<mem, stack_ptr, heap_ptr>>

\* Mutant: the test forgets the size of what is pushed.
PopPush_Unchecked(popped, bytes) ==
  LET sp == stack_ptr + popped
      a  == sp - Len(bytes)
  IN  /\ heap_ptr' = heap_ptr
      /\ IF sp < heap_ptr
         THEN Fail /\ mem' = mem /\ stack_ptr' = sp
         ELSE Continue(Following) /\ error' = error /\ mem' = Written(a, bytes) /\ stack_ptr' = a

\* pop_stack(popped), push_stack(bytes) and the next instruction.
PopPush(popped, bytes) ==
  LET sp == stack_ptr + popped
      a  == sp - Len(bytes)
  IN  /\ heap_ptr' = heap_ptr
      /\ IF a < heap_ptr
         THEN Fail /\ mem' = mem /\ stack_ptr' = sp
         ELSE Continue(Following) /\ error' = error /\ mem' = Written(a, bytes) /\ stack_ptr' = a

\* Mutant: nothing is popped.
PopTo_Kept(popped, c) == Continue(c) /\ UNCHANGED <<mem, stack_ptr, heap_ptr, error>>

\* pop_stack(popped), then control goes to c.
PopTo(popped, c) ==
  /\ stack_ptr' = stack_ptr + popped
  /\ Continue(c)
  /\ UNCHANGED <<mem, heap_ptr, error>>

(***************************************************************************)
(* Instructions.                                                           *)
(***************************************************************************)
\* IPUSH, FPUSH.
Push ==
  /\ Fetching({"IPUSH", "FPUSH"})
  /\ PopPush(0, Bytes(<<IF instr[1] = "IPUSH" THEN "int" ELSE "float", arg>>))
  /\ UNCHANGED variable_regs

\* pop_stack tests for sizeof(nuint) bytes, and IPOP ignores that it failed.
IPop ==
  /\ Fetching({"IPOP"})
  /\ IF Holds(2)
     THEN PopTo(2, Following)
     ELSE Continue(Following) /\ error' = TRUE /\ UNCHANGED <<mem, stack_ptr, heap_ptr>>
  /\ UNCHANGED variable_regs

\* Popping 4 bytes where there are 2 or 3 takes stack_ptr out of the array.
FPop ==
  /\ Fetching({"FPOP"})
  /\ IF Holds(4) THEN PopTo(4, Following) ELSE IF Holds(2) THEN Lose ELSE FailUnchanged
  /\ UNCHANGED variable_regs

Fetch(op, type) ==
  /\ Fetching({op})
  /\ IF ~Known(arg) THEN FailUnchanged
     ELSE LET a == get_variable(arg).location
          IN  IF Inside(a, SizeOf(type))
              THEN \E v \in ReadAs(type, a) : PopPush(0, Bytes(<<type, v>>))
              ELSE Lose
  /\ UNCHANGED variable_regs

\* ISTORE, FSTORE: the type of the variable is not looked at.
Store(op, type) ==
  /\ Fetching({op})
  /\ IF ~Holds(SizeOf(type)) \/ ~Known(arg) THEN FailUnchanged
     ELSE LET a == get_variable(arg).location
          IN  IF Inside(a, SizeOf(type))
              THEN \E v \in ReadAs(type, stack_ptr) :
                     /\ mem' = Written(a, Bytes(<<type, v>>))
                     /\ Continue(Following)
                     /\ UNCHANGED <<stack_ptr, heap_ptr, error>>
              ELSE Lose
  /\ UNCHANGED variable_regs

\* AFETCH compares the index with no length, and does not test for an unknown name.
ArrayFetch ==
  /\ Fetching({"AFETCH"})
  /\ IF ~Holds(2) THEN FailUnchanged
     ELSE IF ~Known(arg) THEN Lose
     ELSE LET reg  == get_variable(arg)
              size == variable_type_size(reg.type)
          IN  \E k \in ReadAs("int", stack_ptr) :
                IF k \in 0 .. Elements(reg) - 1
                THEN PopPush(2, ReadBytes(reg.location + k * size, size))
                ELSE Lose
  /\ UNCHANGED variable_regs

ArrayLength ==
  /\ Fetching({"ALEN"})
  /\ IF Known(arg)
     THEN PopPush(0, Bytes(<<"int", get_variable(arg).length>>))
     ELSE FailUnchanged
  /\ UNCHANGED variable_regs

\* The values record k of the array reg may have.
RecordsAt(reg, k) ==
  {r \in [DOMAIN Record -> {"int", "float"} \X (nint \cup nfloat)] :
     \A f \in DOMAIN Record :
       /\ r[f][1] = Record[f]
       /\ r[f][2] \in ReadAs(Record[f], reg.location + (k - 1) * data_size + FieldOffset(f))}

ArraySum ==
  /\ Fetching({"ASUM"})
  /\ IF ~Known(arg) \/ instr[3] \notin DOMAIN Fn \/ get_variable(arg).type # "user"
     THEN FailUnchanged
     ELSE LET reg == get_variable(arg)
          IN  \E records \in {q \in [1 .. reg.length -> UNION {RecordsAt(reg, k) : k \in 1 .. reg.length}] :
                               \A k \in 1 .. reg.length : q[k] \in RecordsAt(reg, k)} :
                PopPush(0, Bytes(<<"float", FieldSum(records, instr[3])>>))
  /\ UNCHANGED variable_regs

\* call_function and CALL: the record on the stack gives way to one of its fields.
Call ==
  /\ Fetching({"CALL"})
  /\ IF ~Holds(data_size) \/ arg \notin DOMAIN Fn THEN FailUnchanged
     ELSE PopPush(data_size,
                  ReadBytes(stack_ptr + FieldOffset(Fn[arg]), SizeOf(Record[Fn[arg]])))
  /\ UNCHANGED variable_regs

\* ICASTF, FCASTI.
Cast(op, from) ==
  /\ Fetching({op})
  /\ IF Holds(SizeOf(from))
     THEN \E v \in ReadAs(from, stack_ptr) :
            PopPush(SizeOf(from),
                    Bytes(IF from = "int" THEN <<"float", FloatOf(v)>> ELSE <<"int", IntOf(v)>>))
     ELSE FailUnchanged
  /\ UNCHANGED variable_regs

Jump ==
  /\ Fetching({"JMP"})
  /\ Continue(arg)
  /\ UNCHANGED <<mem, stack_ptr, heap_ptr, error, variable_regs>>

\* JZ jumps if v is 0, JNZ if it is not.
Taken(v) == (v = 0) <=> (instr[1] = "JZ")

JumpIf ==
  /\ Fetching({"JZ", "JNZ"})
  /\ IF Holds(2)
     THEN \E v \in ReadAs("int", stack_ptr) : PopTo(2, IF Taken(v) THEN arg ELSE Following)
     ELSE FailUnchanged
  /\ UNCHANGED variable_regs

\* OPERATION_POP.
Operation ==
  /\ Fetching(Operations)
  /\ LET type == OperandType(instr[1])
         size == SizeOf(type)
     IN  IF ~Holds(2 * size) THEN FailUnchanged
         ELSE \E first \in ReadAs(type, stack_ptr), second \in ReadAs(type, stack_ptr + size) :
                IF Divides0(instr[1], first, second) THEN Lose
                ELSE PopPush(2 * size, Bytes(Applied(instr[1], first, second)))
  /\ UNCHANGED variable_regs

\* IINC, NOT: the top of the stack is changed in place.
InPlace ==
  /\ Fetching({"IINC", "NOT"})
  /\ IF Holds(2)
     THEN \E v \in ReadAs("int", stack_ptr) :
            /\ mem' = Written(stack_ptr,
                  Bytes(<<"int", IF instr[1] = "IINC" THEN IntOp("IADD", v, 1)
                                 ELSE IF v = 0 THEN 1 ELSE 0>>))
            /\ Continue(Following)
            /\ UNCHANGED <<stack_ptr, heap_ptr, error>>
     ELSE FailUnchanged
  /\ UNCHANGED variable_regs

\* Mutant: heap_alloc compares with the end of the array.
heap_alloc_Unchecked(size) == heap_ptr + size <= STACK_SIZE

\* heap_alloc(size) succeeds.
heap_alloc(size) == heap_ptr + size <= stack_ptr

\* Mutant: one variable too many.
RegistryFull_OffByOne == Len(variable_regs) > MAXIMUM_VARIABLES

RegistryFull == Len(variable_regs) = MAXIMUM_VARIABLES

\* create_variable.  When there is room for the name only, the name stays allocated.
CreateVariable(op, type) ==
  /\ Fetching({op})
  /\ LET n    == StringSize[arg]
         size == variable_type_size(type)
         zero == <<type, IF type = "int" THEN 0 ELSE FloatOf(0)>>
     IN  IF RegistryFull \/ Unnamed(arg) \/ ~heap_alloc(n)
         THEN FailUnchanged /\ UNCHANGED variable_regs
         ELSE IF ~heap_alloc(n + size)
         THEN /\ Fail
              /\ heap_ptr' = heap_ptr + n
              /\ mem' = Written(heap_ptr, NameBytes(arg))
              /\ UNCHANGED <<stack_ptr, variable_regs>>
         ELSE /\ Continue(Following)
              /\ heap_ptr' = heap_ptr + n + size
              /\ mem' = Written(heap_ptr, NameBytes(arg) \o Bytes(zero))
              /\ variable_regs' = Append(variable_regs,
                   [name |-> heap_ptr, location |-> heap_ptr + n, type |-> type, length |-> 0])
              /\ UNCHANGED <<stack_ptr, error>>

Halt ==
  /\ Fetching({"HALT"})
  /\ IF Holds(2)
     THEN /\ \E v \in ReadAs("int", stack_ptr) : result' = Returned(v)
          /\ UNCHANGED <<program, current, mem, stack_ptr, heap_ptr, error>>
     ELSE FailUnchanged
  /\ UNCHANGED variable_regs

\* The end of the program: the result is read whether it is on the stack or not.
EndOfProgram ==
  /\ result = Running
  /\ current >= program.length
  /\ IF Holds(2)
     THEN /\ \E v \in ReadAs("int", stack_ptr) : result' = Returned(v)
          /\ UNCHANGED <<program, current, mem, stack_ptr, heap_ptr, error>>
     ELSE Lose
  /\ UNCHANGED variable_regs

\* No instruction starts here: bytes of arguments would be executed.
Astray ==
  /\ result = Running
  /\ current < program.length /\ current \notin DOMAIN program.at
  /\ Lose
  /\ UNCHANGED variable_regs

Next ==
  \/ Push \/ IPop \/ FPop
  \/ Fetch("IFETCH", "int") \/ Fetch("FFETCH", "float")
  \/ Store("ISTORE", "int") \/ Store("FSTORE", "float")
  \/ ArrayFetch \/ ArrayLength \/ ArraySum \/ Call
  \/ Cast("ICASTF", "int") \/ Cast("FCASTI", "float")
  \/ Jump \/ JumpIf \/ Operation \/ InPlace
  \/ CreateVariable("IVAR", "int") \/ CreateVariable("FVAR", "float")
  \/ Halt \/ EndOfProgram \/ Astray

Spec == Init /\ [][Next]_vars

\* evaluate() is a loop that nothing else delays.
FairSpec == Spec /\ WF_vars(Next)

(***************************************************************************)
(*                               Properties                                *)
(***************************************************************************)
Variable ==
  [name : Nat, location : Nat, type : {"int", "float", "user"},
   length : {l \in nint : l >= 0}]

TypeOK ==
  /\ IsCode(program)
  /\ current \in Nat
  /\ mem \in [Address -> Byte]
  /\ stack_ptr \in Nat /\ heap_ptr \in Nat
  /\ variable_regs \in Seq(Variable)
  /\ Len(variable_regs) <= MAXIMUM_VARIABLES
  /\ error \in BOOLEAN
  /\ result \in {Running, LostTrack} \cup {Returned(v) : v \in nint}

\* Stack and heap do not overlap and stay in the array, and no two variables
\* share a byte, whatever the program pushes, pops and creates (predlang.c:64-150).
MemoryDisjoint ==
  /\ heap_ptr <= stack_ptr /\ stack_ptr <= STACK_SIZE
  /\ \A k \in DOMAIN variable_regs :
       /\ variable_regs[k].name < variable_regs[k].location
       /\ variable_regs[k].location < End(variable_regs[k])
       /\ End(variable_regs[k]) <= heap_ptr
  /\ \A k, l \in DOMAIN variable_regs :
       k < l => End(variable_regs[k]) <= variable_regs[l].name

\* It is inductive together with the types of what it is about.
MemInv ==
  /\ IsCode(program)
  /\ heap_ptr \in Nat /\ stack_ptr \in Nat
  /\ variable_regs \in Seq(Variable)
  /\ MemoryDisjoint

\* The bytes of variable k, name and value, are what they were.
Kept(k) ==
  \A a \in variable_regs[k].name .. End(variable_regs[k]) - 1 : mem'[a] = mem[a]

\* The instruction stores to variable k.
StoresTo(k) ==
  /\ Fetching({"ISTORE", "FSTORE"})
  /\ k \in Matching(arg) /\ \A l \in Matching(arg) : k <= l

\* It stores a float where there is room for less.
StoresTooMuch ==
  /\ Fetching({"FSTORE"}) /\ Known(arg)
  /\ get_variable(arg).location + SizeOf("float") > End(get_variable(arg))

\* No instruction changes a variable but a store that names it: not a push on a
\* full stack, not a store next to it, not the creation of another with the same
\* name.  The exception is FSTORE to an integer variable (predlang.c:664-677),
\* which writes over what follows the variable.
OnlyStoresChangeVariables ==
  [][~StoresTooMuch =>
       \A k \in DOMAIN variable_regs : Kept(k) \/ StoresTo(k)]_vars

(***************************************************************************)
(* The bytes from one address to another, as the values they belong to.    *)
(***************************************************************************)
Decode(from, to) ==
  LET Whole(a) == /\ mem[a][1] \in {"int", "float"}
                  /\ a + SizeOf(mem[a][1]) <= to
                  /\ ReadBytes(a, SizeOf(mem[a][1])) = Bytes(<<mem[a][1], mem[a][2]>>)
      d[a \in from .. to] ==
        IF a = to THEN <<>>
        ELSE IF Whole(a) THEN << <<mem[a][1], mem[a][2]>> >> \o d[a + SizeOf(mem[a][1])]
        ELSE << <<"junk", 0>> >> \o d[a + 1]
  IN  d[from]

ElementsOf(reg) ==
  LET size == variable_type_size(reg.type)
  IN  [k \in 1 .. Elements(reg) |->
         Decode(reg.location + (k - 1) * size, reg.location + k * size)]

\* What is on the stack, and what the variables hold.
Values == Decode(stack_ptr, STACK_SIZE)

Contents ==
  [x \in {n \in Name : Known(n)} |->
     [elems |-> ElementsOf(get_variable(x)), length |-> get_variable(x).length]]

Machine ==
  INSTANCE StackMachine
    WITH vals <- Values, store <- Contents, used <- heap_ptr, created <- Len(variable_regs)

\* To a program that respects types, the bytes behave as the values and
\* variables of StackMachine (predlang.c:572-935): operands in order, results
\* where the next instruction looks for them, variables apart from each other
\* and from the stack; an error exactly when there is no room left for what is
\* pushed or created, or no name, and a failure that leaves the variables alone.
ImplementsStackMachine == [][Machine!Next]_(Machine!avars)

\* The size is compared first.
Runs(p) == Cardinality(DOMAIN program.at) = Len(p) /\ program = Gen(p)

\* The programs beside the machine end with a result and without an error: the one
\* main() runs and the two others (predlang.c:1056-1156).
ExamplesEnd ==
  (\E p \in {example1, example_mean, for_loop} : Runs(p)) => <>(result[1] = "value" /\ ~error)

\* A program the assembler made goes where its labels are: "Jumps to a position in
\* the code relative to the start of the program" (Report/Predicates.tex:299-301).
NeverLost == result # LostTrack
=============================================================================
