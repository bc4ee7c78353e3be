# A TLA+ model of the wireless sensor network samples

The repository holds protocols for a network of sensor motes, written for
Contiki and its Rime stack, and a small predicate language meant to run on the
motes. This directory holds TLA+ specifications of the protocols, of the virtual
machine of the language and of its assembler, the TLC configurations that
model-check them, and proofs checked by TLAPS.
`PROJECT.json` maps every definition to the lines it models.

## 1. Inventory

### The parts of the system

| Part | State | Operations | Hard behaviour |
|---|---|---|---|
| **Tree aggregator** (`Samples/TreeAggregator`) | per mote: candidate and chosen parent with hop counts, `is_leaf_node`, `is_collecting`, the aggregation buffer, four timers, one stubborn broadcast | set-up wave (`recv_setup`, `parent_detect_finished`), collection (`send_data_process`, `recv_aggregate`, `finish_aggregate_collect`) | order of announcements against timers, packets against the aggregation timer, data before set-up is over, loss |
| **Clustering** (`Samples/Clustering`) | per mote: `is_CH`, candidate and chosen head with hop counts, mesh, reliable unicast | set-up; a member sends over the mesh to its head, the head by reliable unicast to the sink | role decided by the first message heard, busy channel, retransmission and duplicates, addresses appended to packets |
| **Hierarchical clustering** (`Samples/HierarchicalClustering`) | as above, with a level and a second set-up timer | set-up with levels, readings relayed from head to head by unicast or mesh | consistency of head, level and hop count; `best_hop` reused as "in range"; addresses appended at several hops |
| **Local predicate checker** (`Samples/LocalPredicateChecker`) | whether a one-hop check runs, the request waiting in the polite broadcast, one reliable unicast, the mesh | local predicates every 20 s; one-hop check with requests and answers | checks of neighbours overlap; a request may be suppressed or come too late; one channel for all answers, closed when the mote's own check ends |
| **hsend** (`Algorithms/hsend`) | last message identifier, highest hop limit seen, one stubborn broadcast and its timer | n-hop flood of a predicate | duplicates and order in a flood with cycles; a new message replaces one that is being repeated |
| **Predicate virtual machine** (`PredicateLanguage/predlang.c`) | one array of bytes with stack and heap, registered variables and functions | `evaluate` over byte code; a code generator | stack against heap, widths of operands, stores that do not look at types, jumps |
| **Dragon** (assembler) | none at run time | instructions with labels to byte code | encodings that the machine must agree with |
| **Hoppy** (compiler) | a symbol table | parses and evaluates constant expressions | – |
| Sensor converters, debug helper | none | formulas, formatting | – |
| Power and distance measurement | counters | prints what the radio hears | – |
| Scripts, report, specification | – | – | – |

The protocols share no state. All talk to Rime, and are linked against
the same converters. On one mote, all callbacks and processes run one at a time
(Contiki's scheduler is cooperative); concurrency is between motes, and between
the timers and the messages of one mote.

### What makes each part correct

* **Tree aggregator:** parents form a tree rooted at the sink in every order of
  events; hop counts are those of the tree; readings are neither dropped by a
  mote nor counted twice; nothing is averaged with an uninitialised buffer;
  nothing is sent to the null address; leaves keep sensing.
* **Clustering:** the head of a member is a head; clusters are connected; a
  reading is attributed to the mote that took it, however often it is reported
  (duplicates are not recorded).
* **Hierarchical clustering:** heads of heads lead to the sink, one level at a
  time; a cluster is no deeper than `cluster_depth`; a mote that uses the
  unicast hears its head; a packet does not grow with each level.
* **Local predicate checker:** what is reported as a violation is one, and comes
  from a neighbour that was asked; a violation is reported if no message is lost;
  nobody asks who would not hear the answer.
* **hsend:** no request goes further than its hop limit, no mote takes one twice,
  and a request reaches the motes within the limit.
* **Virtual machine:** stack and heap do not overlap, variables keep their values
  until they are stored to, and to a program that respects types the bytes behave
  as typed values and named variables; it fails exactly when there is no room.
* **Dragon:** a program does what its source says, jumps included.

`PROJECT.json` lists the hazards at the lines where they bite, with the
properties that cover each.

## 2. The modules

| Module | What it is |
|---|---|
| `RootedTree` | Abstract specification: nodes join a tree, once each, below a node already in it. |
| `TreeSetup` | The set-up wave of the tree aggregator. |
| `TreeAggregator` | EXTENDS `TreeSetup` with the collection of readings. |
| `Cluster` | One level of clusters: set-up, mesh, reliable unicast. |
| `HCluster` | Clusters of clusters. |
| `Bytecode` | Instructions, their sizes and layout in memory, arithmetic as parameters; the code generator and its examples. |
| `StackMachine` | Abstract specification: a stack of typed values and named variables, which fails when there is no room for what is pushed or created, and only then. |
| `PredVM` | `evaluate`, byte by byte, one action per instruction. |
| `Dragon` | The assembler, as operators on programs. |
| `LocalPredicateChecker` | Data collection and the one-hop check. |
| `Hsend` | The n-hop flood. |
| `MC...` | Topologies and programs for TLC; a step `Silent` that marks the states in which the network may stop. |
| `..._proofs` | The proofs about the module named. |
| `PredVM_refinement` | The proof that `PredVM` implements `StackMachine`. |

Variables carry the names of the fields of the connection structure
(`best_parent`, `is_collecting`, `our_cluster_head`, ...), as functions of the
mote. A `ctimer` or an `etimer` is the set of motes on which it is armed
(`detect_ct`, `aggregate_ct`, `message_offset`), a process the set of motes on
which it runs (`sensing`) or its control point (`sender`). Each handler is one
action, and calls made synchronously are part of it: `parent_detect_finished`
calls `setup_complete`, which starts `send_data_process`, which runs up to its
first wait, so `FinishSetup` is all of that.

In `PredVM` the array `stack` is a function from addresses to bytes. A byte says
of which value or name it is a part and which part, so that a value read where
its bytes are not together is seen to be none: such a read may give anything.
What the C standard leaves undefined (a division by zero, an access through an
unknown variable, `stack_ptr` moved past the array), and code that is no
instruction, ends in `result = LostTrack`. The registries and the program lie in
the heap below the variables in the code and are never written by an
instruction; they have no addresses in the model, so that `STACK_SIZE` counts
what is left for the array `n1`, the variables and the stack. Integers and floats
are parameters with their operations, which only need to be closed; no property
depends on arithmetic.

In `LocalPredicateChecker` temperatures and humidities are integers in tenths,
because the validator cuts off a fraction (`abs` takes an int). A message is its
cause, not its text. `predicate_checker_process` is not in `AUTOSTART_PROCESSES`
(local-predicate-checker.c:250); the constant `Checker` is the set of motes on
which it is started all the same, and with the empty set the one-hop part never
runs.

Definitions that begin with a "Mutant" comment are deliberately wrong variants;
they are part of no specification and show that each property can fail.

### The environment (not under `src/`, modelled from its use)

* **Timers are untimed**: an armed timer may expire at any moment. This covers
  drift and delay, and also orders that the constants 10 s, 15 s, 20 s, 30 s and
  60 s make unlikely; properties that hold do not depend on the constants.
* **Stubborn broadcast** repeats a message until it is cancelled; each
  repetition may be heard by any neighbour, or not. Sending again replaces it.
* **Unicast** delivers over a link or loses the packet, and does not duplicate.
* **Reliable unicast** sends a packet at most `MAX_RUNICAST_RETX` times; a
  transmission may be heard though its acknowledgement is lost, so that the
  receiver's callback may run once per transmission. A channel that is busy
  refuses a packet, and the code ignores the refusal.
* **Polite broadcast** waits for a random part of its interval, and drops its
  message if it hears enough identical ones (`MAXDUPS`) in the meantime.
* **A channel that is not open**: `pc_recv` answers over `rc` even if it is
  closed. Whether the network then takes the packet is left open (both happen in
  the model), as is what becomes of such an answer when the channel is opened.
* **Mesh** brings a packet to any mote or loses it.
* Links are a fixed relation and need not be symmetric. Motes do not crash: the
  programs keep nothing across a restart.

The data of a message is a set of readings, not numbers: what the properties ask
is which readings went into a packet, not their halved sums. The formulas of the
sensor converters are left out.

## 3. The runs

| Run | Instance | States |
|---|---|---|
| `tree_setup` | 5 motes, alternative paths, a one-way link | 17,225 |
| `tree_aggregator` | 4 motes, a diamond, one reading by each `send_data_process` | 162,841 |
| `only_leaves_send` | the same; expected violation | |
| `cluster` | 4 motes, 2 neighbours of the sink that hear each other, one reading each, 2 transmissions | 163,611 |
| `members_have_heads` | the same; expected violation | |
| `hcluster` | 6 motes, `cluster_depth` 2, two levels, one reading by any of them, 2 transmissions | 73,683 |
| `hierarchy_source` | the same; expected violation | |
| `pred_vm` | 35 bytes, 4 variables; every program of up to two of 22 instructions, alone and after a prefix that creates two variables, and there of three of 16 of them; the three examples, one program by Dragon | 53,719 |
| `assembled_jumps` | that last program; expected violation | |
| `local_predicate_checker` | 3 motes in a line, 2 checks at a time, one retransmission | 291,542 |
| `flag_tells_violation` | the same; expected violation | |
| `hsend` | 5 motes, two ways to the second hop, one mote out of range, 3 requests | 4,877 |

**tree_setup.** `NoCycle`: no set of motes is closed under `best_parent`, although
a candidate is replaced at any time and in any order. `HopCountsDistance`: a hop
count is one more than the parent's, and so never wraps. `NonLeafHasChild`:
`is_leaf_node` is not cleared by a choice that was later changed.
`ImplementsTree`: the wave refines `RootedTree` with `parent <- best_parent`,
`hop <- best_hop`. `AllJoin`: if broadcasts are heard before they are cancelled,
every mote the sink can reach joins. `SetupTerminates`: the wave dies out.
Deadlock is not checked here because set-up does end, nor in `pred_vm`, where
programs do; in the other runs it is.

**tree_aggregator.** `ReadingsAccounted` and `CountedOnce`: every reading is in
exactly one packet or buffer, at the sink or lost by the radio. They relate
packets, buffers, `is_collecting` and the timer over every interleaving of
arrivals and expiries. `NoBlankAggregated`: the buffer that is zeroed after a
collection, or never written, is not averaged into one. `SendersHaveParents`:
nothing is sent to `rimeaddr_null` though no code checks it. `EveryReadingArrives`:
if the radio loses nothing, every collection ends and its readings get to the sink.

**cluster.** `MembersHaveHeadsInOrder`: while no member has heard the sink, the
head of a member is a cluster head (see the finding below for the other case).
`MemberFollowsNeighbour`: a member has its head from a mote it hears, one hop
closer and in the same cluster. `ReadingsAccounted`: what the busy channel refuses
and what the network gives up is recorded, and nothing else is missing. `SourceIsOriginator`: one address is appended and one removed
on each way, whatever is retransmitted. `EveryReadingArrives`: if broadcasts are
heard, nothing is lost or refused and no member hears the sink late, all motes
that can be reached sense in the end, and what they take is reported.

**hcluster.** `HeadsClimb`: a head is one level below its own head, a member is on
the level of its head, and level 0 is the sink: there is no cycle.
`ClustersConnected`: clusters are connected by motes that hear each other and are
no deeper than `cluster_depth`. `WithinRange`: `best_hop = 0` really means that a
mote hears its head, for members and for heads. `PacketsClimb`: every packet is
on its way to the head of its carrier, and that head is ready; `recv_mesh`, which
does not check for the sink, never runs there. `AddressesBounded`: no more than
two addresses are ever appended, whatever the number of levels, and sources are
right on level 1. `ReadingsAccounted` and `EveryReadingArrives`, as in `cluster`.

**pred_vm.** `MemoryDisjoint`: stack, heap and variables share no byte, though
`pop_stack` tests for two bytes whatever it pops and `create_variable` may fail
half-way. `OnlyStoresChangeVariables`: a byte of a variable changes only by a
store that names it; the exception is an `FSTORE` to a variable with room for less,
which the code lets pass. `ImplementsStackMachine`: with the stack and the
variables decoded from the bytes, every step is one of `StackMachine`: operands
in the right order, results where the next instruction looks for them, and an
error exactly when what is pushed or created does not fit, the registry is full or
a variable has no name (`Fits`; a name takes its terminating 0 as well, so that
`i` has two bytes). An `ASUM` pushes the sum, as the code and `example_mean` have it
(predlang.c:719-745), where Report/Predicates.tex:279-284 says the mean; the
abstract machine follows the code. `ExamplesEnd`: the programs beside the machine, as its generator
lays them out, end with a result and no error; this needs the widths of all their
instructions and both jumps of the loop to be right.

**local_predicate_checker.** `AsksOnlyWhileChecking`: a request that waits in the
polite broadcast does not outlive its check. `ReportsAreTrue`: a reported
violation is more than 10 away from a reading of the mote that reports it and was
given, to that mote, by a neighbour that heard its request; it relates the channel
shared by all answers, requests of overlapping checks and retransmissions.
`ViolationsReported`: if no answer is given up and the mesh loses nothing, a
difference of 11 or more is reported at mote 1.0.

**hsend.** `WithinHopLimit`: a request is neither taken nor repeated further from
the originator than its limit allows. `TakenOnce`: no mote takes a request twice
although it remembers only the last identifier, and though requests with the same
limit come again and again. `RequestReachesAll`: the first
request gets to every mote within `HOP_LIMIT` hops, if broadcasts are heard before
they are cancelled and neighbours of the originator hear it before they hear a
copy (`HeardInOrder`). The latter is needed: a copy carries a lower limit, and the
mote that took it refuses to take the original, or any later request, with a
limit that is not higher (Node.c:116).

### Findings

* `only_leaves_send`: "Only leaf nodes send these messages"
  (tree-aggregator.c:472) is not so. The flag is read before the wait.
* `members_have_heads`: a neighbour of the sink that hears another mote first
  does not become a head (cluster.c:213), and then takes the null address for
  its head from the sink's own message; it announces that head to others.
* `hierarchy_source`: a reading that passes a head of level 2 is reported with
  that head as its source, because only the unicast branch appends an address.
* `assembled_jumps`: Dragon replaces a label by the number of the instruction it
  names (Dragon.jj:115-120), the machine adds the argument of a jump to the start of
  the code in bytes (predlang.c:807). The loop `counting_loop` of `MCPredVM` should
  go back to its fifth instruction, at byte 10; its `JMP` gets 4, which is in the
  argument of the `IPUSH` at byte 3. `NeverLost` is what Report/Predicates.tex:299-301 says of `JMP`.
* `flag_tells_violation`: `violated |= check_predicate(...)`
  (local-predicate-checker.c:285-286) sets the flag when a predicate holds, because
  `check_predicate` returns whether it does (predicate-checker.c:24-31). The flag's
  comment (local-predicate-checker.c:59) says "True if a predicate was violated".

### Bounds, and why they are enough

`MaxReadings` bounds the readings (per mote in `TreeAggregator` and `Cluster`, in
all in `HCluster`). Readings are not numbered in the code, so a second one from
the same mote meets the same handlers; what matters is that readings of
different motes meet in one buffer or one channel, and they do: in the diamond
two motes' readings meet in a third and an aggregating mote may collect several
times, and in `cluster` three motes contend for the channel of a head. In
`hcluster` contention is between a packet and its own retransmitted copy.
`finish_aggregate_collect` is not bounded itself: a collection needs packets, and
those come from bounded senders.
`MAX_RUNICAST_RETX` is 2 where the code has 5 and 4: one lost acknowledgement and
one time-out are all the kinds of outcome there are.
`UINT_MAX` is the number of motes, or just enough for the hop counts and levels,
so that a counter that grew too far would wrap in the model.
`pred_vm` has memory for `n1`, two variables with their names and two to four
values: small enough that two or three instructions meet each limit, on the stack
and in the heap, and the registry's with two more. The programs of two
instructions have all pairs of producer and consumer among the 22 that `MCPredVM`
lists, which stand for every kind: both widths of each group, jumps both ways,
stores to a variable of the wrong type; those of three leave out six that have a
like among the others. One program creates a variable without a name. `nint` is -1 .. 3 and `nfloat` has three values.
In `local_predicate_checker` one retransmission and one duplicate stand for the
code's 25 and 6; two checks are what it takes to overlap, and the humidities are
such that one pair differs by 10.9, which passes, one by more than 11, and one
temperature and one humidity violate the local predicates.
In `hsend` three requests show the replacement of a broadcast by the next one,
`INT_RANGE` is 2 where an int has 16 bits (how often the originator does nothing
between two requests), and identifiers do not wrap: a mote takes at most
`HOP_LIMIT` requests in its life.
Topologies are chosen so that each mote beyond the first ring has announcements
to choose from, and `hcluster` is the smallest with a member of a cluster of
level 2.

### Fairness

Weak fairness of every timer (Contiki's timers expire), of a process that waits
for one, and of a packet's fate (it does not stay in the network for ever). No
fairness is assumed of hearing anything: that a broadcast is heard, or a packet
not lost, is an antecedent of the property that needs it (`HeardBeforeCancel`,
`HeardInOrder`, `lost = {}`, `refused = {}`), and never part of the specification.
A check of the local predicate checker ends (its 60 s timer), a polite interval
ends, and a reliable unicast is heard or retried until it is given up.
`evaluate` is a loop that nothing else delays: weak fairness of its next step.

## 4. What is proved

TLAPS proves, for every finite set of motes and every link relation (and, for the
tree, every `UINT_MAX` of at least the number of motes: `SetupAssumption`,
`HopFits`):

* of the wave: its types, `NoCycle`, `HopCountsDistance`, `NonLeafHasChild`, and
  that it implements `RootedTree`;
* of the aggregator: that it implements the wave (so all of the above holds of
  it), its types, `SendersHaveParents`, `NoBlankAggregated`, `LeafKeepsSensing`,
  `ReadingsAccounted` and `CountedOnce`;
* of the local predicate checker: its types, `AsksOnlyWhileChecking` and
  `ReportsAreTrue`, for all readings;
* of the flood: its types, `WithinHopLimit` and `TakenOnce`;
* of the clustering, for every `UINT_MAX` of at least the number of motes: its
  types, `MemberFollowsNeighbour`, `MembersHaveHeadsInOrder`, `ReadingsAccounted`
  and `SourceIsOriginator`, that a decision is final, and that no hop count wraps
  (`HopCountsNeverWrap`: what is announced is exactly one more than what was adopted,
  though the model adds modulo `UINT_MAX + 1`);
* of the hierarchical clustering, for every `cluster_depth` as well: its types,
  `HeadsClimb`, `ClustersConnected`, `WithinRange`, `PacketsClimb`,
  `ReadingsAccounted` and `AddressesBounded`, that a decision is final, and that
  neither levels nor hop counts wrap (`LevelsAndHopsNeverWrap`);
* of the virtual machine, for every program, array size and user data: its types,
  `MemoryDisjoint` and `OnlyStoresChangeVariables`, and that it implements
  `StackMachine` (`ImplementsStackMachine`). `BytecodeAssumption` says that
  an operation on two-byte integers yields one (division by 0 is not assumed to
  yield anything) and one on floats a float; `VMAssumption`, that what `main()` puts
  into memory is code (`IsCode`: instructions do not overlap and have the arguments
  their opcodes call for), that the array fits and that its name is not empty (other
  names may be, and `create_variable` refuses those).

None of the wave's properties is inductive. `SetupInv` adds the reason they hold:
detection finishes once per mote (`DetectionOnce`), so a mote that announces
itself will not change; hence every message on the air tells the truth about its
sender (`AnnouncementsCurrent`), and every candidate is in the tree with the hop
count recorded (`CandidatesInTree`), however old it is. A mote thus always joins
below one that joined before. That hop counts do not wrap needs a counting
argument: `best_hop` is smaller than the number of motes that have joined, of
which the sink is not one. From `SetupInv`, each step is a `Join` or a stutter.

For the aggregator, `DataInv` adds that `is_collecting` and the timer agree
(`TimerGuardsCollection`), and that a collecting mote has a parent. A mote gets
data only from a child, a child chose it after it was announced, and it is
announced when its own parent is set. `AccountInv` is then shown inductive
relative to `DataInv`: each step moves the content of one holder to another, or
adds a reading that nobody has taken (`TakenGrows`).

For the clustering, `SetupInv` says what `TreeSetup`'s says, of heads: a mote
decides once (`DecidesOnce`), so that what is on the air and what is remembered of
it (`AnnouncementsCurrent`, `CandidatesAnnounced`) tells what the sink or a sensing
mote decided. `HopsBelowDecided` bounds `best_hop` by the number of sensing motes,
whence no hop count wraps. `HeadsAreHeads` follows a member's head to a mote that
has decided to be one, as long as no mote heard the sink late (`SinkNeverHeardLate`;
without it the run `members_have_heads` refutes it); that condition, once broken,
stays so, because the hop count of a candidate only falls. `DataInv` takes over from there: a
step of the set-up leaves all that has been decided as it was (`DecisionFinal`), so
that a packet on its way keeps its mote, its head and its origin.

For the hierarchy, `SetupInv` bounds the level a mote announces by the number of
those that have decided (`LevelsBelowDecided`) and the hop counts by
`cluster_depth` (`HopsWithinDepth`). `DataInv` says by which road a packet climbs:
by unicast from a mote with `best_hop` 0, which hears its head (`ClimbsByUnicast`),
else by the mesh (`ClimbsByMesh`), and always to the head of the mote that sends it.
A member sends nothing but its own readings, so what climbs has one address behind
it, and the next head adds at most one (`ReportsBounded`).

The checker's invariant (`CheckInv`) adds that requests travel along links only, and
that what a channel sends was answered by the mote that sends it
(`AnswersAreAsked`): a busy channel refuses, and never mixes two answers.

For the flood (`FloodInv`), `WithinHopLimit` rests on `LimitTellsSender` (only the
originator sends with the full limit) and `FullLimitFromOriginator`. `TakenOnce`
rests on `LastTakenRemembered`: a mote takes requests with growing limits, so that
one it took before could be taken again only with the full limit after it came
with the lower one, and then it is the last one taken, whose identifier is
remembered. `HsendAssumption` excludes that a mote hears itself.

For the machine, `MemInv` is `MemoryDisjoint` with types. Every instruction but a
store leaves all bytes below `heap_ptr` alone (`HeapKept`), and the variables are
there; a store writes inside of the variable that `get_variable` finds first.
`RestOK` is the rest of `TypeOK`. It depends on what the recursive functions of the
model compute (`data_size`, the offsets of fields, the bytes of a record, the sum of
an `ASUM`). No induction theorem can be used here, but a least element will do: what
holds of 0 and is passed on holds up to n, or there would be a smallest number it
fails for (`UpTo`), and a function built one value after the other exists
(`Iteration`) and is the recursive one (`IteratesOnce`). So it is proved that a record
takes two bytes or more, that its fields lie inside of it (`FieldsInside`), and that
whatever an instruction reads, in the middle of a value too, is a value it can push.

That the machine implements `StackMachine` (`PredVM_refinement`) needs to know what
bytes are decoded to. `DecodeEquation` says that decoding takes one value, or one
byte that starts none, and goes on behind it; `DecodeAlike`, that equal bytes are
decoded alike, wherever they lie; `RecordDecoded`, that the fields of a record are
where `FieldOffset` says. It also needs `HeapOK`, by which a variable can be told from
its name and keeps its shape whatever is stored to it: a number starts where its value
is, so that no name runs into the value; an array has an element, and nothing else
has a length; and the third and
fourth byte of a float variable never start a number, an `ISTORE` to it included. Then
the names, and what they stand for, change only when a variable is created
(`CreatedNames`), and a store changes the first value of the first element of the
variable it names (`StoredContents`). There is one lemma for each instruction
(`PushSimulated`, `StoreSimulated`, ...): if the operands are on the stack as values,
it is `Executes` or `GivesUp` of `StackMachine`, else `Undefined`. `StepSimulated`
puts them together. That an instruction fails exactly when there is no room is a
comparison of widths: values decoded from the stack take as many bytes as the stack
has (`WidthDecoded`), and widths add up (`WidthConcat`), so that `stack_ptr` less the
bytes pushed reaches `heap_ptr` when the abstract stack with its variables has
outgrown `STACK_SIZE`. The odd case is `AFETCH` from a float variable that an `ISTORE`
has made an integer, with records of one integer: it copies two bytes more than the
record has, which are decoded to nothing (`FloatCopied`).

Only model-checked: liveness (`AllJoin`, `SetupTerminates`, `EveryReadingArrives`,
`ViolationsReported`, `RequestReachesAll`, `ExamplesEnd`), which rests on fairness
and is outside what the prover handles.

## 5. What is not modelled

Not modelled: **Hoppy**, because it does not compile as it stands (its parser
methods throw the checked `EvaluationException` without declaring it, and some
return no value) and generates no code: there is nothing for the machine to agree
with. Of **hsend**, the functions that send on the mesh, which nothing calls,
and the base station, which takes no part; `Node.c` has an `#include ""`, which is
read as absent. Of the **local predicate checker**, the texts of its messages (one
prints a humidity from a packet buffer it has just overwritten,
local-predicate-checker.c:169), and the exit handlers of processes that nothing
stops.

Left out for good: `tree_agg_close` and `cluster_close` (no program calls them),
allocation failure in `tree_agg_open` (the mote takes no part), the sink branch of
`cluster_send` (the sink runs no sender), sensor formulas, LEDs and printing, the
power and distance measurement (prints what the radio hears), the scripts.
