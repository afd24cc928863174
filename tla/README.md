# Formal models of a dynamically scheduled HLS flow

The repository is an HLS flow that turns C into *elastic* circuits: circuits
whose parts talk through handshakes (valid, ready, data) and are scheduled at
run time. A compiler pass (`elastic-circuits`) builds the circuit as a graph, a
second tool (`Buffers`) places buffers on its channels, a third (`dot2vhdl`)
prints VHDL that instantiates a library of components (`components`). The
circuits are concurrent and nobody writes tests for all the orders in which
their tokens may move; that is what the models here are for.

Contents: [inventory](#inventory), [plan](#plan), [modules and code](#modules-and-code),
[runs](#runs), [bounds](#bounds), [fairness](#fairness), [findings](#findings),
[proofs](#proofs), [not modelled](#not-modelled), [running](#running).

## Inventory

### Component library (`src/components`)

One process per register, one clock. A *token* moves over a channel in a cycle
in which valid and ready are both high. Every producer must keep a token it
offers until it is taken; every component relies on it and must itself obey.

| component | state | operation of a clock cycle | correct if |
|---|---|---|---|
| TEHB, OEHB, elasticBuffer | valid/full bits and a word each | store, bypass or hand on a token | tokens are neither lost, duplicated nor reordered; room is used |
| elasticFifoInner, nontranspFifo, transpFIFO | ring, Head, Tail, Full, Empty | read and write, each in a process of its own | the same, at every depth and every wrap |
| fork (eager) | one bit per output | serve the outputs that are ready, remember the others | every output gets each token once |
| join, branch, merge | none; a TEHB in merge | combinational | no token is taken that is not passed on |
| mux, cntrlMerge | a TEHB or OEHB, a fork | take the input the condition names; report which predecessor ran | values that meet belong to one iteration |
| start_node, end_node | `set` and `start_internal` bits; none | admit one control token; wait for the memory | one execution, ended after its last store |
| MemCont | counter of outstanding stores; per load port an answer register and two TEHBs | arbitrate ports, answer, count, allow the exit | each port gets its own words in order; exit after the last store |
| select_op | two antitokens | fire on the condition and the selected operand, kill the other later | the n-th result is the n-th selected operand |
| selector, distributor | ordering FIFO, position in it, muxes, buffers | let the operations of a block share a unit, in order | each operation gets the results of its own operands |
| arithmetic units | none, or a pipeline with valid bits | join the operands and compute | results stay with their requests |
| load_op, store_op, LSQ ports | none | pass addresses and data on | each access is confirmed once |

Interaction is by wires: valid and data run forward, ready backward, both
combinational, all registers change at the clock edge together.

### Elastic pass (`src/elastic-circuits`)

`MyCFGPass.cpp:115-165` runs `addPhi`, `addFork`, `addBranch`, `addControl`,
`addMemoryNodesConnection`, `setMuxes` and `removeRedundantAfterElastic` on one
graph of `ENode`s (`addMemoryInterfaces`, which used MemCont and load-store
queues, is commented out at line 138). State: the lists of predecessors and
successors of every node, the live-outs of every block, and the place of an
access's acknowledgement in the list of its memory node. `addPhi` computes what
is live in each block and chains phis along the blocks, `addFork` and `addBranch`
split and steer values, `addControl` adds the network of control tokens,
`setMuxes` connects both, `PrintDot.cpp` numbers the ports. The passes are
sequential; what is hard is that each relies on positions in lists that others
change, and that the graph they leave is a concurrent program. Correct if every
port is wired once, every instruction computes in the circuit what it does in
the program, in whatever order components fire, accesses to an array keep
their order, and the circuit neither blocks nor keeps a token behind.
`SanityChecker.cpp` asserts part of this between the passes.
`OptimizeBitwidth` narrows words: what is known of a value's bits (borders,
unknown bits, known ones) flows forward until nothing changes, then what the
users need flows back once. Correct if the narrowed program returns the same.
`MemElemInfo` finds dependences between accesses, the frequency passes profile,
the DASS files are optional rewrites.

### Buffers (`src/Buffers`)

A graph of blocks and channels, and one of basic blocks whose arcs know how
often they ran. State: back arcs, the arcs' executions that are left, the CFDFCs
(cycles of basic blocks) extracted so far, the slots and transparency of every
channel. Operations, in `test.cpp:160-190`: find the back arcs, extract CFDFCs
one by one, make marked graphs of them, solve a mixed-integer program for all
channels or for each set of CFDFCs that share blocks and then for the rest,
make blocks of the annotations. Correct if every cycle gets a register, no path
is longer than the period, the throughput is the one reported, and the circuit
computes the same and does not block wherever the buffers are put.

### dot2vhdl (`src/dot2vhdl`)

A parser and a printer. It matters here for the generics it gives the selector
and for the numbers it gives ports.

### What is hard

* *Interleaving*: channels are of any speed; the outputs of a fork get ready in
  any order; loads, stores and their announcements overtake each other.
* *Ordering*: tokens of different iterations must not meet; results must go
  back to the operation they belong to; accesses must follow the program.
* *Limits*: a ring that is full or wraps, a counter that goes below zero, a
  buffer that has no room.
* *Deadlock and liveness*: cycles of forks, joins, muxes and acknowledgements;
  arbiters that prefer one side.
* *Stale state*: an answer register while its consumer stalls, list positions
  taken before another pass edits the list.

Nothing is persisted and nothing crashes and restarts. `PROJECT.json` lists
each hazard at its line.

## Plan

Order: storage elements first, because everything uses them; then steering,
then memory and sharing, then whole circuits and the pass that builds them.

1. `Handshake`, `TEHB`, `OEHB`, `elasticBuffer` against the abstract
   `StreamBuffer`; `elasticFifoInner`, `nontranspFifo`, `transpFIFO`;
   `MCStorage` puts the three buffers side by side. Done.
2. `fork` against the abstract `Broadcast`; `join`, `mux`, `cntrlMerge`; `BlockEntry` composes them. Done.
3. `MemContLoads`, `MemCont`; `select_op`; `input_selector`,
   `distributor`, `FunctionSharing`; `pipelined_op`. Done.
4. `LoopCircuit`: a whole circuit with every placement of buffers. Done.
5. `MemoryNodes`: the pass that sequences memory accesses, and its circuits. Done.
6. Proofs for every value of the constants: elastic buffer, ring, FIFOs, fork,
   select, pipelined units, shared unit, both sides of the memory controller, block
   entry, the loop circuit, buffer placement in one model with its back arcs and
   selections. Done.
7. `BitInfo`, `OptimizeBitwidth`: the pass, and the program before and after. Done.
8. `BasicBlockGraph`, `BufferPlacement`: from the graph of basic blocks to the
   buffers. Done.
9. `CircuitGenerator`, `PrintDot`: the pass from the function
   to the netlist; `ElasticCircuit` runs what it prints against the function. Done.
10. What is left, models: load and store ports; the second call of `addControl`
   that the USE_CONTROL pragma causes; the control-flow rewrites of
   `OptimizeCF.cpp`; the single-cycle integer units at a given width; the
   grouping of accesses in `MemElemInfo`.
11. What is left, proofs: the union of CFDFCs (`ComponentsAreDisjoint`), which is a
   fold over a forest; the passes of `OptimizeBitwidth`, function by function.

## Modules and code

A component of the library is a module of operators over its registers:
`valid`, `ready` and `dataOut` are its output wires as functions of its input
wires, `..._next` the processes that load registers, `Clock` its clock edge,
`Reset` its state after reset. A module that contains the component
instantiates it, so port maps read like those of the VHDL. A step of every
model of hardware is one clock cycle (`Cycle`): inputs are chosen freely, wires
follow from registers and inputs, all registers change together. In modules
that have an abstract specification, `edge` records the wires at the last edge, so that the
specification can be about ports. Words are model values, or say whose they
are: `<<p, k>>` is the k-th word of port p, which makes a lost, repeated or
exchanged word visible.

| module | code | notes |
|---|---|---|
| `Handshake` | the ports of a channel | what an edge offers, accepts, delivers |
| `StreamBuffer` | (abstract) | a queue of `Capacity` tokens that accepts when it has room and offers its oldest token; `Transparent` lets a token through at once |
| `Broadcast` | (abstract) | every output gets each token once, the input is freed with the last |
| `TEHB`, `OEHB`, `elasticBuffer` | `elastic_components.vhd:222-416` | |
| `elasticFifoInner` | `:1028-1210` | one operator per process |
| `nontranspFifo`, `transpFIFO` | `:1219-1339` | |
| `fork` | `:583-680` | eagerFork_RegisterBLock and fork |
| `join` | `:105-140` | |
| `mux`, `cntrlMerge` | `:759-813`, `:1579-1746` | |
| `BlockEntry` | `AddComp.cpp:1092-1282` | a cntrlMerge, the fork of its condition, LIVE_INS muxes; environment: one control token at a time, data in any order |
| `MemContLoads` | `MemCont.vhd:6-263, 563-656` | the arbiter serves the first requesting port with a ready successor; the RAM is external: it shows the word one cycle after read_enable, and keeps it |
| `MemCont` | `MemCont.vhd:665-832`, `Memory.cpp:71-100` | the constants of the blocks are what `updateMCConstant` sets; `counter1` has no reset, so it starts with any value; with the end_node (`elastic_components.vhd:426-501`) |
| `select_op` | `arithmetic_units.vhd:446-546` | |
| `pipelined_op` | `mul_wrapper.vhd`, `multipliers.vhd:6-48`, `delay_buffer.vhd`, the units of `arithmetic_units.vhd` with a `delay_buffer` and a core with an enable | one module, as they share one structure; a unit is a record of its lengths; the vendor's cores are external: `NUM_STAGE - 1` edges from operands to result |
| `input_selector`, `distributor`, `FunctionSharing` | `sharing_components.vhd`, `vhdl_writer.cpp:1605-1656` | the shared unit is a join and an OEHB, the smallest pipelined unit |
| `LoopCircuit` | the circuit `AddComp.cpp` builds of a loop with a store | with the branch (`elastic_components.vhd:508-575`), the start_node (`:893-959`) and a merge of one input (`:689-752`), which is a TEHB; the store and the memory node are external entities; their part is in the environment |
| `BitInfo` | `utils.cpp`, `info.cpp`, `OptimizeBitwidth.cpp:257-533, 979-1914` | a word is the set of its bits that are one; what is known of a value, and each forward and backward function |
| `OptimizeBitwidth` | `OptimizeBitwidth.cpp:34-230, 575-963, 1011-1030, 1919-2037` | one action per instruction visited; the programs before and after are run by the rules of the compiler's language |
| `BasicBlockGraph` | `DFnetlsit_BasicBlocks.cpp:163-316`, `DFnetlist_MG.cpp:7-273`, `DFnetlist_read_dot.cpp:883-1087` | one action per step of the traversal and per CFDFC extracted; any best selection may be the solver's |
| `BufferPlacement` | `DFnetlist_buffers.cpp:61-1783` without 298-418 and 1621-1686, `test.cpp:160-190` | one action per model solved; the solver returns any best solution, or any at all when its time is up |
| `MCStorage`, `MCSteering`, `MCUnits` | | benches: each EXTENDS one module and instantiates others, and a variable `dut` says which of them runs; properties of the others are stated there for their `dut`. In `MCStorage` one value of `dut` puts TEHB, OEHB, elasticBuffer and the ring side by side under the same inputs |
| `CircuitGenerator` | `AddComp.cpp`, `AddPhi.cpp`, `MyCFGPass.cpp:75-190` | one action per call of the pass; each call is a function from graph to graph that keeps the order of the lists |
| `PrintDot` | `PrintDot.cpp`, `SanityChecker.cpp` | ports of each component, edges between them, and which side of a branch is which; the assertions, as predicates of the graph |
| `ElasticCircuit` | the components the netlist names, `PrintDot.cpp:1097-1128, 1660-1693` | a channel holds one token, a step is one component that fires; next to it the program is run instruction by instruction |
| `MemoryNodes` | `Memory.cpp:145-447`, `AddComp.cpp:793-872`, `PrintDot.cpp:1164-1220` | compiling (`ConnectMemory`, `removeRedundantAfterElastic`) and then running the control edges as a token game |

`CircuitGenerator` numbers nodes in the order they enter `enode_dag`, and so are
they visited, as in the code; a node that is deleted keeps its number. Where the
code goes over a `std::map` keyed by pointers (the live-ins in `addPhi`) any order
of the blocks may come. `branchSucc1` in `PrintDot.cpp:1327` is not initialized if
a block's condition has no fork: it is `garbage`, any block or none.
`ElasticCircuit` abstracts time: it knows no clock, so what it shows holds for
every speed of the components, and the clock-accurate models of the same
components show that they behave as its steps do.

`LoopCircuit` is written as one `Cycle` whose LET follows the wires: forward for
valid and data, backward for ready. The order is possible because both back
edges are buffered, as the buffer tool makes them. A channel in `placed` has an
elasticBuffer, any other is a wire.

`MemoryNodes` keeps the order of `JustCntrlSuccs`, on which the result depends:
an acknowledgement leaves the memory node on the output numbered by the place
of its access, loads before stores, and reaches what stands there. Data is kept
only as the loads an access takes its operands from. The memory may take any
time over an access. The entities `SMC`, `smc_load_op`, `smc_store_op` and `end_node_op`, which
the printed circuits name, are not in the repository: they are modelled as
the code uses them (an access waits for its trigger and its operands; the node
acknowledges each access once, after it was performed).

## Runs

| run | shows |
|---|---|
| `Storage` | elasticBuffer is an opaque queue of two tokens; Full and Empty agree with the indices; the ring is a queue of FIFO_DEPTH tokens, nontranspFifo an opaque queue one deeper, transpFIFO a transparent queue; tokens nontranspFifo accepts are delivered. Load ports get the words of their own addresses, in order, with competing ports and stalled consumers, and all of them. The circuit exits, and only after its last store, also when stores precede their announcement |
| `Steering` | a token at the input of a fork is always owed to somebody; the fork is a broadcast; an offered token is consumed once the outputs have been ready, in any order. The live-ins of one execution of a block come from the same predecessor and iteration whatever the delays, and all pass. For each of the 128 placements of buffers in the circuit of a loop: stores in program order, one return after the last store, and no token left at the end |
| `select_op` | results are the selected operands; antitokens account for operands that lag; all selects are done |
| `Units` | in each of nineteen units, valid bits are set exactly where operands are, and results come in order; a unit whose pipeline the consumer's ready wire enables never starts if its result is squared, as the consumers wait for each other. Results of a shared unit go to the operations whose operands made them, in order. All results come |
| `MemoryNodes` | for the functions the construction is right for: no access before or after its block's turn, conflicting accesses in program order, the circuit drains |
| `OptimizeBitwidth` | every value a run computes fits the bits it is given after the forward passes, and has the bits that are said to be known; with all values cut to their sizes after both passes the program returns the same; each forward pass after the first has narrowed something for good |
| `BufferPlacement` | every cycle of the program has a back arc; each CFDFC is one cycle and each iteration of a loop is in exactly one CFDFC's executions; CFDFCs are placed together exactly if they share blocks. After instantiation every cycle of channels has a register, every path meets the period, and the throughput reported is one the cycles sustain; in one model and, for netlists in which every cycle has a delay, set by set |
| `ElasticCircuit` | the pass keeps its own assertions; the netlist has one edge per port; every instruction of the circuit computes the values it does in the program, in order; the circuit stops only when it has returned the program's value once, and holds no token then |
| `MemoryNodesOrder`, `OperandOrder`, `LoopBounds`, `BufferSets` | counterexamples, see findings; they use the modules `MCMemoryNodes`, `MCElasticCircuit`, `MCOptimizeBitwidth` and `MCBufferPlacement` with other programs |

Every property of a passing run comes with a mutant in `PROJECT.json`: a
plausible bug of the code that makes the run fail. The mutated operators stand
next to the ones they replace, marked "Mutant".

## Bounds

* Data is two or three model values, one of them also the reset word, which
  tells tokens and leftovers apart. Components do not look at the data.
* `FIFO_DEPTH = 3`: Head and Tail wrap at a number that is not a power of two,
  and the ring is full, empty and in between with every position. The proofs cover
  every depth.
* Fork: three outputs, so that some are served, some wait and some get ready
  in one cycle. The proofs cover every number.
* Block entry: two live-ins and two tokens from each predecessor: one channel
  may be two tokens ahead of the other, with the tokens of both predecessors mixed.
* Loads: two ports, three loads each: one answer in the port's output
  buffer, one in the answer register, one in the RAM.
* Stores: two blocks, run up to twice, one of them storing through both
  ports, one twice through one; 16 instead of 2^32 as the modulus, above the
  number of stores and crossed downwards by stores that come early. `plan` is any number of
  executions, also none of one block.
* `select_op`: four selects with any conditions; an antitoken is generated,
  waits, kills, and is followed by one for the other operand. The proofs cover every number.
* Pipelined units: the nineteen units with the lengths of the code, two pairs of
  operands, so that there is a gap or none between them anywhere in the
  pipeline. The proofs cover every length and number.
* Sharing: two blocks, one of two operations that runs twice; the
  ordering FIFO has two places, so it fills. At most one operand is offered to
  each mux in a cycle, of which it looks at one only, and one operation stalls. The
  proof covers every number of blocks, sharers and places.
* Loop circuit: up to three iterations, all subsets of the buffered channels. The
  proof covers every number and every set of places.
* `MemoryNodes`: all functions of up to three accesses to two arrays in two
  blocks for which `Right` holds, on a path that enters one block twice, with
  and without data dependences; memory nodes are connected in any order.
* `OptimizeBitwidth`: a machine word of 8 bits instead of 64 (`S_MAX`) and
  values of 1 to 4 bits, so that results leave the width of a value but products and
  shifts stay inside the machine word, as they do in the code below 32 bits;
  every value of every argument and of every loaded word is tried. Programs are
  all chains of two operations over an argument, a constant and a loaded value
  under two masks; casts to a larger width and back; selects; a value that is
  masked and then compared; counted loops with three starts. `Fuel` bounds the instructions a run executes; a loop of eight
  values takes fewer. Left out, because the pass is not right about them: a
  shift whose own result is masked (`backwardShl` cuts the distance as well);
  loops whose bound is a constant, see findings; and a value that is compared
  first and masked later. `backwardIterate` goes over the users from the latest,
  and one without a rule (`OptimizeBitwidth.cpp:204`: a comparison, a select, a phi,
  a return) leaves `cur_max` as the mask made it: the value is cut to the mask
  and the comparison sees the rest of it gone (`SameResult` fails).
* `BufferPlacement`: netlists of seven to ten channels (a loop through a load, also
  with a unit behind it that is slower than the period,
  two values around a loop, loops in sequence, nested loops) with latencies 0 to
  2 and delays around the period of 4, and eight graphs of basic blocks with
  every number of executions up to two. `MaxBuffers` and `MaxSlots` bound a solution to
  two channels with two slots: each netlist has a solution within them, and what
  a bigger one could add costs more in the objective. `Scale = 2`: throughputs
  are 0, 1/2 and 1. `Garbage` is what the two vectors may hold past their end.
  A block outside the sets that is slower than the period ends the rows of
  the model for the remaining channels, but what `createPathConstraints_remaining`
  returns is not looked at (`DFnetlist_buffers.cpp:733`): the rows of later blocks
  are missing, and buffers are placed all the same. The runs have a
  pipelined unit of this kind, which ends the path; a combinational one misses the
  period whatever is placed (`PathsMeetPeriod` fails) and is left out. For
  one model the proofs cover every netlist, graph and scale.
* `ElasticCircuit`: eight functions: a loop, a loop whose two phis swap, a branch
  whose sides meet, a loop behind a condition, a loop in a loop, reads of arrays
  of one and two dimensions, one with a constant index, and a function that
  returns nothing; with and without `addBuffersSimple`, and for two to four
  iterations. Arrays are read-only. Every channel has one place, the least a
  circuit may have; more room is what `LoopCircuit` varies. What the runs assume of a function:
  it returns a value an instruction computed, or nothing; every block that does
  not return has a live-out besides its branch (else `branchSucc1`
  is not initialized); indices of more than one dimension are sign-extended or
  constant (see findings); there is no branch inside a loop, because phis that
  `addPhi` adds are merges which nobody tells where control came from.

## Fairness

* The clock runs: WF of a cycle. Nothing else is assumed of a component itself,
  as a register has no choice.
* A consumer is ready again and again: WF of a cycle with nReady. It stands for
  the rest of a circuit that does not block; whole circuits are checked without
  such a help in `LoopCircuit`, where only the caller, who starts the circuit
  and takes the return, and the memory, which answers, are outside.
* Each bench asks this of the component that runs (`dut`) only.
* For pipelined units, operands come as well: WF of a cycle with all that are left.
* At a fork, each output is ready again and again, not all at once.
* For the block entry, stores and sharing the environment's choices are
  bounded: an idle cycle changes nothing, so WF of `Next` says that what is due
  is offered at last. Load ports and the operands of `select_op`
  are fair each on its own.
* In `MemoryNodes` WF of `Next` says that the pass ends, nodes of the circuit pass tokens on and the memory
  answers.

Deadlock is not checked in the runs of `MemoryNodes`, because a circuit that has returned
stops. That it does not stop earlier is `EventuallyDrained`. Nor is it in
those of `ElasticCircuit`, for the same reason; there `NeverStuck` says that a
state without a step is the right end, and as every step consumes tokens of a
program that ends, no fairness is needed. `OptimizeBitwidth` and
`BufferPlacement` are sequential and stop when they are done; that the forward
passes come to an end is stated as a bound, `Settles`.

## Findings

* **A load does not wait for an earlier store of its block**
  (`MemoryNodesOrder`). `Memory.cpp:393-415` collects the loads of an array and
  then its stores, and "check previous load/store" (`Memory.cpp:238`) looks at
  the accesses listed before. For `a[i] = x; y = a[j]` the load is first in
  the list and waits for nothing; the store waits instead.
* **The indices of an address are exchanged** (`OperandOrder`).
  `getOperandIndex` (`PrintDot.cpp:232-234`) numbers the inputs of an address
  computation by the order of its predecessors, "because operands can have
  identical values". But `InsertNode` (`AddComp.cpp:325-365`) and the phis of `addPhi`
  (`AddPhi.cpp:236-244`) take a predecessor out and put the new node at the end of
  the list. `A[i][j] - i` then reads `A[j][i]`. An index that is sign-extended
  is hidden behind the extension and keeps its place.
* **An induction variable is given the bits of its bound** (`LoopBounds`).
  `updatePHIValue` (`OptimizeBitwidth.cpp:810-866`) copies all that is known of
  the bound to an ascending variable. With a constant bound of 4 the variable
  is "known" to be 4, and it takes 0 to 3. The comment at `:796` says "All these
  rules are correct as we have chosen only special phi nodes".
* **A loop is left without a register** (`BufferSets`). The rows of the model
  take indices of variables; for channels that have a buffer of their own
  `createElasticityConstraints_sc` puts the constants 0 and 1 there
  (`DFnetlist_buffers.cpp:1286-1312`), which name the variables of the first
  channel. If that channel is given a register, another cycle counts as cut by
  it, although the comment at `:49` says that "the model also guarantees that
  every cycle is elastic". Where the cycles have delays the path rows may hide it.

`DFnetlist.h` says of the traversal that it works by "a DFS traversal from the
entry basic block"; the loop over the blocks ends before the last one, so an arc
from it is never a back arc. The compiler numbers blocks such that the last one
returns; the runs assume it.

The condition `Right` in `MCMemoryNodes` is what remains: if accesses of a block to an
array conflict, then all accesses to it are in that block, loads before stores,
and there is one load at most or one store that takes its operands from them all.
Functions outside it may fail one of the properties; nearly all small ones do.
Among them are those in which a fork of one successor is dropped
(`AddComp.cpp:853-866`): the successor goes to the end of the memory node's list,
`MemoryAckIndex` is not adjusted, and acknowledgements change places.

## Proofs

The proof system checks these for every value of the constants. What they
assume, and why the code justifies it:

* `DataAssumption`: the reset word is data, "no token" is not. `DepthAssumption`,
  `SizeAssumption`, `NAssumption`, `LoadsAssumption`, `StoresAssumption`: sizes
  are positive; the number of stores of a block at a port is a number.
* `UnitsAssumption`: the two pipelines of a unit are equally long, which TLC
  checks of every unit in the code.
* `SharingAssumption`: the blocks that share a unit are numbered from 0, as
  `dot2vhdl` numbers the selector's inputs (`vhdl_writer.cpp:3719`), and each has a
  shared operation, as it announces the index of its last one.
* `FitAssumption` (`MemCont`): a run of the program has fewer stores than the
  counter has values. The counter has 32 bits, and a circuit with 2^32
  outstanding stores would indeed take them for none.
* `CircuitAssumption`: the loop runs at least once, as its test is at its end; any
  channels may be buffered as long as both back edges are.
* `GraphAssumption`, `NetlistAssumption`: arcs and channels join blocks that exist,
  latencies and delays are numbers, and a memory is in no basic block, as the
  pass prints it (`bbID = 0`).

Two theorems about `Buffers` hold under a condition on the program:

* `Regular` (`BackArcsFound`, `SelectionsAreCycles`): every block can be reached from
  the entry and the last one leads nowhere. The code's vectors have no element for
  the last block and its loop over the blocks ends before it, so without this an
  arc from it is never a back arc; and a cycle that cannot be reached is not
  traversed. The compiler's graphs are of this kind.
* `SinksAreFast` (`WholeMeetsPeriod`): a block that only memories take values from has
  no delay. No row bounds a path that ends in a memory, so a slower one may be
  longer than the period.

Except in the benches, theorems are about the bare specification, without
fairness; they are proved of a component alone, for every number of its ports,
blocks, outputs or places. `Storage_proofs`, `Steering_proofs` and `Units_proofs`
EXTEND the benches, the first two instantiate the modules of other proofs:
`FIFOsImplement`, `LoadsAnswered`, `StoresDone`, `IterationsMeet`,
`LoopStoresInProgramOrder`, `LoopExitsOnceAndLast` and
`ResultsGoHome` say of `BenchSpec`, the
specification the runs check, what the theorems say of the components in it. A
step of the bench is a step of the component or leaves it alone (`BenchSteps`).

* `elasticFifoInner_proofs`, ring. `TypeCorrect`, and `FlagsCorrect`: not both Full
  and Empty, and the indices meet exactly when one of them holds. It is
  inductive together with the types; the proof goes by
  cases of what is written and read, after a lemma that replaces the remainder
  in `next` by a comparison. `Implements`: the words between Head and Tail are a
  `StreamBuffer`. `WriteAppends`, `ReadDrops` and `WriteWhileRead` say what the
  processes do to this sequence, also across the wrap; the count needs the flags,
  because the indices alone do not tell full from empty.
* `elasticFifoInner_proofs`, FIFOs. `NontranspImplements` needs `TEHBBehindRing`: the TEHB
  holds a token only while the ring is full, so the queue is the ring followed by
  the TEHB and no room goes unused. `TranspImplements` goes by cases of
  `mux_sel`: a token that is handed on past the empty ring is not written.
* `Storage_proofs`, elastic buffer. `EBufTypeCorrect`; `EBufOrderKept`: the TEHB is
  full only while the OEHB is. `EBufImplements`: with that invariant the sequence of
  stored words is `<<oehb, tehb>>`, oldest first, and each cycle, by cases of which
  registers are full, is a cycle of `StreamBuffer`. Without the invariant a
  token could sit in the TEHB unseen, which the abstract queue forbids.
* `Storage_proofs`, loads. `CycleOfPort` reduces the wires of a cycle to what one
  port sees of it. `LoadsInOrder` is the invariant: a load that left the circuit
  is in the register of its address, at the output of the RAM or in the answer
  register, or in the register of its datum, in this order, and none is
  missing. The hard part is the answer: the RAM's output belongs to the port
  selected a cycle ago and to no other (`sel_prev`), and to be kept when its
  consumer stalls. `PortsGetOwnAnswers` follows.
* `MemCont_proofs`. The invariant of `CountsStores` says what the counter is: stores
  announced minus stores written, modulo its range if writes are ahead; that
  its copy is up to date, but for the value before the first announcement, as it has
  no reset; and that neither count exceeds the program's. The last and
  `FitAssumption` make zero mean that none is outstanding, hence
  `ExitsAfterLastStore`. The announced number is a sum over blocks and the written
  one over ports; that the totals agree (`SumSwap`), and that a sum changes by what
  its terms change, are lemmas about the fold the sums are defined by. They are
  proved by well-founded induction over the subsets of a finite set.
* `BlockEntry_proofs`. The invariant `EntryInv`: cntrlMerge holds the last control token
  while somebody waits for it; each mux has taken one token per condition it
  took, from the predecessor the condition named, and has handed on all of them
  but the one it may hold. `CycleOfMerge` and `CycleOfMux` reduce the wires of a cycle,
  which lead through cntrlMerge, two forks and the muxes and back, to these
  terms. `PairsIterations` follows.
* `Steering_proofs`, fork. `AlwaysSomeoneWaits`: no state has served all outputs and kept the
  token. `Implements`: the refinement of `Broadcast` needs in addition
  `PartlyServed`: when an output has been served and others not, the token is still
  offered and not accepted, so the next cycle offers the same one.
* `Steering_proofs`, loop circuit. The circuit keeps the program's order and returns
  once, after the last store, whichever channels have a buffer. The invariant `LoopInv`
  names the registers once for all subsets: `tok(c)` is what channel c holds, and
  nothing if it is a wire. Its parts: `Shallow`, only the second half of a
  buffer is ever used, as no token catches up with the one before it; `Offered`
  and `Waiting`, a fork that has served an output still has its token offered, and
  what waits for what; `Balanced`, the tokens counted along two ways through the circuit
  agree up to those held in between; `Limits`, how often each place is passed in
  one execution; `Numbered`, the words are the numbers of the iterations. None of
  them is inductive alone: that a word has the right number needs that no token
  overtakes, which needs the counts, which need that forks keep their offers.
  `RoomFollows`: no token meets another. `CycleMoves` follows the wires of a cycle
  to the registers, for all subsets at once; `CountsAdvance` says what it does to
  the counts.
* `BufferPlacement_proofs`, rows. `WholeInv`: once all channels were placed in one model,
  the annotations are those of a solution that meets the rows (`Solved`), and so are
  the blocks made of them. `Ranked`: the potentials of the elasticity rows
  grow along every channel without a register, so no cycle lacks one
  (`RanksCutCycles`, `WholeCutsCycles`). `Timed`: those of the path rows are arrival
  times, and by induction over its length (`PathsFit`) a path fits into what is left of
  the period where it starts (`WholeMeetsPeriod`). Neither uses that the solution is
  the best one: they also hold if the solver's time is up. Set by set they fail, as
  `BufferSets` shows.
* `BufferPlacement_proofs`, throughput. `RateInv`: the rates reported for the marked
  graphs have times at the entry and exit of each block (`Flows`) that its
  channels' rows keep apart (`TokenRowsSay`, `UnitRowsSay`). Around a cycle the
  differences of the times add up to nothing (`RoundTrip`), while each row bounds its
  difference from below by tokens, registers, latency and slots, which `SumsRespect`
  adds up; `RatesAreSustained` follows. `SumsExist` says that the fold which adds
  up a function does so in any order.
* `BufferPlacement_proofs`, control flow. `DfsInv` says what holds in the middle of the
  traversal: times are handed out in order (`Timely`), a block that is finished
  has only successors that were found before it or are finished earlier
  (`Ordered`), and what the stack of blocks and that of kids list (`Listed`). At the end the
  finishing times fall along every arc that is no back arc, so these make no
  cycle (`BackArcsFound`). `CFDFCInv`: a selection balances and has one back arc; as
  every cycle has one (`LeavesAreKept`), it is a single cycle (`SelectionsAreCycles`),
  although no row says that it is connected.
* `select_op_proofs`. `CycleEffect` reduces the equations of a cycle to what it
  does: fire or not, and which operands are consumed, now or by an antitoken.
  `AlwaysAligned` is inductive with the types, and `AlwaysSelectsInOrder`
  follows from it: an operand is consumed at most one early and one late.
* `Units_proofs`, pipelined units. `CycleMoves` reduces the wires of a cycle to what it
  does: move both pipelines or stop both. `AlwaysAligned` is inductive with the
  types; `AlwaysInOrder` needs `InFlight`: the operands in the pipeline are those
  taken and not handed over, the oldest nearest to the end. `NeverStarts` needs
  that the squared unit is empty.
* `Units_proofs`, shared unit. `ResultsGoHome` needs three invariants. `SelectorInv`: the
  ring holds announcements and the place in the current one is inside it, so the
  selector offers the same operation until it is accepted (`SelectorCycle`).
  `ForkInv`: the fork still owes that operation to a mux or to the buffer of
  conditions, and keeps its announcement in the ring while it does. `DataInv` counts:
  what each mux took of a sharer is what the distributor took, and what is in the
  unit or the mux; and the
  left operands, the right ones and the conditions in flight agree up to what the
  fork still owes. `SharedCycle` reduces the wires of a cycle, which lead through
  selector, fork, muxes, joins, buffers and distributor and back, to these terms.
  `Places` and `OpsMove` solve the counts by cases: what the mux
  holds, what the unit holds and which condition comes next are one operation.

Only model-checked:

* all liveness properties, as fairness and ENABLED are beyond the proof system;
* `MemoryNodes`, `CircuitGenerator`, `ElasticCircuit` and `OptimizeBitwidth`: what they
  promise is about the circuit or program that a chain of recursive definitions makes of
  an input program, and what such a definition computes for every input needs an
  induction over the input. `ElasticCircuit` moreover has a RECURSIVE operator,
  for which the proof system has no SMT backend;
* the second half of `LoopsCovered`, that all executions are covered: it is not true of
  every graph, as in a loop with two entries a cycle may have two back arcs, and no
  selection has; for the others it needs that a flow is a sum of cycles;
* `ComponentsAreDisjoint`, a fold over the forest of sets;
* the placement set by set, for which the properties hold of some netlists only.

## Not modelled

* Arithmetic units whose core has a handshake of its own (`sinf_op`, `cosf_op`,
  `exp2f_op`, `log2f_op`, `log10f_op`, `powf_op`, `trunc_op` and the other
  roundings) or no enable (`fminf_op`, `fmaxf_op`): the cores are vendor IP that is not in the repository.
* Load-store queues: generated by a tool that is not in the repository. `load_op`, `store_op`: not
  emitted together with memory nodes.
* A return in a block with accesses, and accesses in the entry block: the pass
  dereferences a null pointer for the first (`Memory.cpp:426`) and makes a
  join without inputs for the second (`:224`), so `ProgramsAssumption` excludes them.
* The sensitivity lists of the VHDL: the models take the synthesised meaning.
  The process at `sharing_components.vhd:95` would simulate otherwise.
* In the elastic pass: calls, the DASS rewrites and their pragmas, the second
  `addControl` of USE_CONTROL, names and attributes in the netlist. Stores and
  memory nodes are in `MemoryNodes`, not in `CircuitGenerator`. The range-for of
  `setPhiPredecessors` that appends to its own vector (`AddPhi.cpp:174`) is
  modelled as the traversal that is meant.
* In `OptimizeBitwidth`: getelementptr and calls, of which nothing is learnt, and
  nested loops.
* In `Buffers`: netlists without basic blocks (`addElasticBuffers`,
  `extractMarkedGraphs`, an earlier interface), load-store queues, port delays
  (added to the block's), and the inside of the solver: it returns a solution
  that is best, or when its time is up any.
* Parsing, printing, reports and profiling: pure I/O.

## Running

    tlc -config MCSteering.cfg MCSteering
    tlc -config MCBufferSets.cfg MCBufferPlacement
    tlapm Steering_proofs.tla

Each passing run has a module `MC<run>` and a configuration of the same name,
except `select_op`, which is a closed specification itself; the
runs that show a finding use another run's module (`MCMemoryNodes`,
`MCElasticCircuit`, `MCOptimizeBitwidth`, `MCBufferPlacement`). The longest,
`Storage`, `Steering`, `Units` and `ElasticCircuit`, take about two minutes with
two workers.
