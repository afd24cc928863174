------------------------------- MODULE MemCont -------------------------------
(***************************************************************************)
(* The store side of the memory controller with the exit of the circuit:    *)
(* STORE_COUNT ports, each behind an mc_store_op; the write arbiter; the    *)
(* counter of outstanding stores, which every basic block increments by its *)
(* own number of stores; and the end_node that waits for it to be zero.     *)
(*                                                                          *)
(* The program runs block b plan[b] times.  A block announces its stores    *)
(* with its control token; their addresses and data come through the data   *)
(* path, before or after.  The return token is not offered before the last  *)
(* block is announced, but may come in the same cycle.                      *)
(***************************************************************************)
EXTENDS Naturals, Functions

CONSTANTS
  STORE_COUNT,   \* store ports
  BB_COUNT,      \* basic blocks with stores
  Stores,        \* Stores[b][p]: stores an execution of block b sends to port p
  COUNTER_MOD,   \* the counter wraps there, at 2^32 in the code
  MaxRuns        \* bound: executions of each block

Ports  == 0 .. STORE_COUNT - 1
Blocks == 0 .. BB_COUNT - 1

StoresAssumption ==
  /\ STORE_COUNT \in Nat \ {0} /\ BB_COUNT \in Nat \ {0}
  /\ COUNTER_MOD \in Nat \ {0} /\ MaxRuns \in Nat \ {0}
  /\ Stores \in [Blocks -> [Ports -> Nat]]

VARIABLES
  plan,        \* plan[b]: executions of block b in this run of the program
  announced,   \* announced[b]: those whose control token came
  issued,      \* issued[p]: stores port p has written to the memory
  counter,     \* the variable of process Counter
  counter1,    \* its registered copy, not reset
  exited       \* the end_node was valid at the last edge

vars == <<plan, announced, issued, counter, counter1, exited>>

\* io_bb_stCountArray: the constant block b sends with its control token.
stCount(b) == SumFunction(Stores[b])

\* No run of the program has as many stores as the counter has values.
FitAssumption == SumFunction([b \in Blocks |-> MaxRuns * stCount(b)]) < COUNTER_MOD

\* Stores the program sends to port p.
due(p) == SumFunction([b \in Blocks |-> plan[b] * Stores[b][p]])

Init ==
  /\ plan \in [Blocks -> 0 .. MaxRuns] /\ \E b \in Blocks : plan[b] > 0
  /\ announced = [b \in Blocks |-> 0]
  /\ issued = [p \in Ports |-> 0]
  /\ counter = 0
  /\ counter1 \in 0 .. COUNTER_MOD - 1
  /\ exited = FALSE

\* mc_store_op: joins an address and a datum; the port is valid with both.
join_valid(address, data) == address /\ data

\* The memory takes the first port that has both, one in a cycle.
write_priority(p, req) == req[p] /\ \A q \in Ports : q < p => ~req[q]

\* Mutant: a block that announces counts as a single store.
counted_One(bbpValid) == SumFunction([b \in Blocks |-> IF b \in bbpValid THEN 1 ELSE 0])
counted(bbpValid) ==
  SumFunction([b \in Blocks |-> IF b \in bbpValid THEN stCount(b) ELSE 0])

\* Process Counter: modular, so a store may come before its announcement.
Counter(bbpValid, storeEnable) ==
  (counter + counted(bbpValid) + (IF storeEnable THEN COUNTER_MOD - 1 ELSE 0))
    % COUNTER_MOD

\* Mutant: the announcements of this very cycle are not looked at.
io_Empty_Valid_NoBB(bbpValid) == counter1 = 0
io_Empty_Valid(bbpValid) == counter1 = 0 /\ bbpValid = {}

\* end_node, with one return point and one memory controller: joins a return
\* token with the memory's empty wire.
end_node_valid(pValid, eValid) == pValid /\ eValid

AllAnnounced == announced = plan

\* bbpValid: the blocks that announce; address, data: the ports with a valid
\* address and a valid datum; return: a return token is offered; the caller
\* accepts it or not.
Cycle(bbpValid, address, data, return) ==
  LET request == [p \in Ports |-> join_valid(p \in address, p \in data)]
      grant   == {p \in Ports : write_priority(p, request)}
      io_storeEnable == grant # {}
      counted_next == Counter(bbpValid, io_storeEnable)
  IN  /\ announced' = [b \in Blocks |-> IF b \in bbpValid THEN announced[b] + 1
                                                          ELSE announced[b]]
      /\ return => announced' = plan
      /\ issued' = [p \in Ports |-> IF p \in grant THEN issued[p] + 1
                                                   ELSE issued[p]]
      /\ counter' = counted_next
      /\ counter1' = counted_next
      /\ exited' = end_node_valid(return, io_Empty_Valid(bbpValid))
      /\ UNCHANGED plan

Pending == {p \in Ports : issued[p] < due(p)}

Next ==
  \E bbpValid \in SUBSET {b \in Blocks : announced[b] < plan[b]},
     address \in SUBSET Pending, data \in SUBSET Pending, return \in BOOLEAN :
    Cycle(bbpValid, address, data, return)

Spec == Init /\ [][Next]_vars

\* The clock runs, and the circuit keeps offering what is due.
FairSpec == Spec /\ WF_vars(Next)
------------------------------------------------------------------------------
\* The circuit exits only when the program's last store is in the memory,
\* although stores of a block may overtake its announcement and the return
\* token may come with the last announcement.
ExitAfterLastStore == exited => \A p \in Ports : issued[p] = due(p)

\* The circuit exits.
EventuallyExits == <>exited
==============================================================================
