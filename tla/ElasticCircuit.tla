---------------------------- MODULE ElasticCircuit ----------------------------
(***************************************************************************)
(* From a function to the circuit that computes it.  The elastic pass      *)
(* builds its graph and prints the netlist; the netlist then runs.  An     *)
(* edge is a channel that holds at most one token, and an operation takes  *)
(* any number of steps.                                                    *)
(***************************************************************************)
EXTENDS PrintDot, Integers

VARIABLES
  arguments,
  reference,    \* what the program computes of them
  to,           \* for each output of a node, the input it leads to
  channel,      \* for each input of a node, its token or none
  sent,         \* for each fork, the outputs that have their copy
  chosen,       \* for each control merge, the input it took
  results,      \* for each instruction, the values it computed
  returned      \* what the end node got

runVars == <<arguments, reference, to, channel, sent, chosen, results, returned>>
vars == <<genVars, runVars>>
------------------------------------------------------------------------------
\* What the program computes.

\* A read-only array.
Array(address) == 2 * address + 1

\* A two-dimensional index becomes one: as many factors as dimensions follow.
getelementptr_op(indices, dims) ==
  LET dimsFrom(i) == Fold(LAMBDA d, e : d * e, 1, SubSeq(dims, i, Len(dims)))
  IN  FoldDomain(LAMBDA s, i : s + indices[i] * dimsFrom(i), 0, indices)
compute(inst, v) ==
  CASE inst.op = "add" -> v[1] + v[2]
    [] inst.op = "sub" -> v[1] - v[2]
    [] inst.op = "mul" -> v[1] * v[2]
    [] inst.op = "icmp" -> IF v[1] < v[2] THEN 1 ELSE 0
    [] inst.op = "load" -> Array(v[1])
    [] OTHER -> v[1]

Meaning(inst, v) ==
  IF inst.op = "getelementptr" THEN getelementptr_op(Tail(v), inst.dims) ELSE compute(inst, v)
Ended == 0
Control == 0        \* the token of the control network
\* One instruction after the other; the phis of a block read what the values
\* were when the block was entered.
Machine == [block |-> 1, last |-> Ended, seen |-> [k \in Insts |-> <<>>],
            value |-> <<>>]
ValueOf(seen, v) ==
  CASE v[1] = "inst" -> IF seen[v[2]] = <<>> THEN 0 ELSE Last(seen[v[2]])
    [] v[1] = "arg" -> arguments[v[2]]
    [] OTHER -> v[2]
Visit(m) ==
  LET inBlock == Ascending({k \in Insts : program.insts[k].bb = m.block})
      do(seen, k) ==
        LET inst == program.insts[k]
            read(i) == ValueOf(IF inst.op = "phi" THEN m.seen ELSE seen, inst.operands[i])
        IN  IF inst.op = "phi"
            THEN [seen EXCEPT ![k] = Append(@, read(SelectInSeq(inst.from, LAMBDA b : b = m.last)))]
            ELSE [seen EXCEPT ![k] = Append(@, IF inst.operands = <<>> THEN Control
                                               ELSE Meaning(inst, [i \in DOMAIN inst.operands |-> read(i)]))]
      seen == Fold(do, m.seen, inBlock)
      last == Last(seen[Last(inBlock)])
      succ == program.succ[m.block]
  IN  [block |-> IF succ = <<>> THEN Ended ELSE IF Len(succ) = 1 \/ last # 0 THEN succ[1] ELSE succ[2],
       last |-> m.block, seen |-> seen, value |-> last]
RECURSIVE Interpret(_)
Interpret(m) == IF m.block = Ended THEN m ELSE Interpret(Visit(m))
------------------------------------------------------------------------------
\* Channels, named by the input they lead to.  A source is always valid and a
\* sink always ready, so neither has a channel; the value of a constant behind a
\* source is a token that stays.

Empty == <<>>
Stays(token) == Len(token) = 2
IsSourced(u) == g[u].type = "Cst_" /\ "Source_" \in PredTypes(u)
Valid(u, k) == channel[u][k] # Empty
Value(u, k) == Head(channel[u][k])
LeadsToSink(port) == g[port[1]].type = "Sink_"
IsReady(u, k) == ~LeadsToSink(to[u][k]) => channel[to[u][k][1]][to[u][k][2]] = Empty

\* u joins its inputs ins and puts v on its output k.
Took(u, ins) ==
  [channel EXCEPT ![u] = [k \in DOMAIN @ |-> IF k \in ins /\ ~Stays(@[k]) THEN Empty ELSE @[k]]]
Put(channels, port, v) ==
  IF LeadsToSink(port) THEN channels ELSE [channels EXCEPT ![port[1]][port[2]] = <<v>>]
Pass(u, ins, k, v) == IsReady(u, k) /\ channel' = Put(Took(u, ins), to[u][k], v)
------------------------------------------------------------------------------
\* The netlist is printed; the start node and the arguments have a token.

Printed == {u \in Nodes : ~skipNodePrint(u)}
FirstToken(u) ==
  CASE g[u].type = "Start_" -> <<Control>>
    [] g[u].type = "Argument_" -> <<arguments[g[u].val[2]]>>
    [] IsSourced(u) -> <<g[u].val[2], "stays">>
    [] OTHER -> Empty
printDot ==
  /\ pass = "printDot" /\ pass' = "run"
  /\ \E garbage \in Blocks \cup {Nowhere} :
       LET netlist == printDataflowEdges(garbage)
           from(u, k) == CHOOSE e \in netlist : e.src = u /\ e.from = k
           into(u, k) == CHOOSE e \in netlist : e.dst = u /\ e.to = k
           ports(u, P(_)) == IF u \in Printed THEN P(u) ELSE {}
           inputs(u) == IF g[u].type = "Sink_" THEN {} ELSE ports(u, getNodeDotInputs)
       IN  /\ to' = [u \in DOMAIN g |-> [k \in ports(u, getNodeDotOutputs) |->
                                            <<from(u, k).dst, from(u, k).to>>]]
           /\ channel' = [u \in DOMAIN g |-> [k \in inputs(u) |->
                                                 FirstToken(into(u, k).src)]]
  /\ sent' = [u \in DOMAIN g |-> {}] /\ chosen' = [u \in DOMAIN g |-> 0]
  /\ UNCHANGED <<program, enode_dag, Live_out, arguments, reference, results, returned>>
------------------------------------------------------------------------------
\* The components.

note(u, v) == results' = IF g[u].val[1] # "inst" THEN results
                         ELSE [results EXCEPT ![g[u].val[2]] = Append(@, v)]

operate(u) ==
  LET n == Len(g[u].CntrlPreds)
      in(i) == IF opcode(g, u) = "load" THEN 2 ELSE i
      ins == {in(i) : i \in 1 .. n}
      v == [i \in 1 .. n |-> Value(u, in(i))]
      dims == [i \in 1 .. Len(g[u].JustCntrlPreds) |-> Value(u, n + i)]
      result == IF opcode(g, u) = "getelementptr" THEN getelementptr_op(v, dims)
                ELSE compute(program.insts[g[u].val[2]], v)
  IN  /\ g[u].type = "Inst_" /\ opcode(g, u) # "ret"
      /\ \A i \in ins : Valid(u, i)
      /\ Pass(u, ins, 1, result) /\ note(u, result)
      /\ UNCHANGED <<sent, chosen, returned>>

\* A return, a buffer, an LLVM branch and a constant hand their token on.
wire(u) ==
  /\ \/ g[u].type \in {"Buffer_", "Branch_", "Cst_"}
     \/ g[u].type = "Inst_" /\ opcode(g, u) = "ret"
  /\ u \in Printed /\ Valid(u, 1) /\ ~IsSourced(u)
  /\ Pass(u, {1}, 1, CASE g[u].type = "Cst_" -> g[u].val[2]
                       [] g[u].type = "Branch_" -> 1
                       [] OTHER -> Value(u, 1))
  /\ UNCHANGED <<sent, chosen, results, returned>>

\* Each output of a fork has its copy when it is ready; the input goes with the
\* last.
fork(u, k) ==
  LET all == sent[u] \cup {k} = getNodeDotOutputs(u)
  IN  /\ g[u].type \in {"Fork_", "Fork_c"} /\ k \notin sent[u] /\ Valid(u, 1)
      /\ Pass(u, IF all THEN {1} ELSE {}, k, Value(u, 1))
      /\ sent' = [sent EXCEPT ![u] = IF all THEN {} ELSE @ \cup {k}]
      /\ UNCHANGED <<chosen, results, returned>>

branch(u) ==
  /\ g[u].type \in {"Branch_n", "Branch_c"} /\ Valid(u, 1) /\ Valid(u, 2)
  /\ Pass(u, {1, 2}, IF Value(u, 2) # 0 THEN 1 ELSE 2, Value(u, 1))
  /\ UNCHANGED <<sent, chosen, results, returned>>

merge(u, k) ==
  /\ g[u].type \in Phis \cup {"Phi_c"} /\ ~g[u].isMux /\ ~g[u].isCntrlMg /\ Valid(u, k)
  /\ Pass(u, {k}, 1, Value(u, k))
  /\ IF g[u].type = "Phi_" THEN note(u, Value(u, k)) ELSE UNCHANGED results
  /\ UNCHANGED <<sent, chosen, returned>>

mux(u) ==
  /\ g[u].type = "Phi_" /\ g[u].isMux /\ Valid(u, 1)
  /\ LET k == Value(u, 1) + 2
     IN  Valid(u, k) /\ Pass(u, {1, k}, 1, Value(u, k)) /\ note(u, Value(u, k))
  /\ UNCHANGED <<sent, chosen, returned>>

\* A control merge takes a token, and its two outputs give it on and tell where
\* it came from.
cntrlMergeTake(u, k) ==
  /\ g[u].type = "Phi_c" /\ g[u].isCntrlMg /\ chosen[u] = 0 /\ Valid(u, k)
  /\ channel' = Took(u, {k})
  /\ chosen' = [chosen EXCEPT ![u] = k]
  /\ UNCHANGED <<sent, results, returned>>
cntrlMergeGive(u, k) ==
  /\ g[u].type = "Phi_c" /\ g[u].isCntrlMg /\ chosen[u] # 0 /\ k \notin sent[u]
  /\ Pass(u, {}, k, IF k = 1 THEN Control ELSE chosen[u] - 1)
  /\ sent' = [sent EXCEPT ![u] = IF @ = {} THEN {k} ELSE {}]
  /\ chosen' = [chosen EXCEPT ![u] = IF sent[u] = {} THEN @ ELSE 0]
  /\ UNCHANGED <<results, returned>>

end_node(u, k) ==
  /\ g[u].type = "End_" /\ Valid(u, k)
  /\ channel' = Took(u, {k})
  /\ returned' = Append(returned, Value(u, k))
  /\ UNCHANGED <<sent, chosen, results>>

Component(u) ==
  \/ operate(u) \/ wire(u) \/ branch(u) \/ mux(u)
  \/ \E k \in DOMAIN to[u] : fork(u, k) \/ cntrlMergeGive(u, k)
  \/ \E k \in DOMAIN channel[u] : merge(u, k) \/ cntrlMergeTake(u, k) \/ end_node(u, k)
run ==
  /\ pass = "run"
  /\ \E u \in DOMAIN channel : Component(u)
  /\ UNCHANGED <<genVars, arguments, reference, to>>
------------------------------------------------------------------------------
Init ==
  /\ GenInit
  /\ arguments \in program.inputs
  /\ reference = Interpret(Machine)
  /\ to = <<>> /\ channel = <<>> /\ sent = <<>> /\ chosen = <<>>
  /\ results = [k \in Insts |-> <<>>] /\ returned = <<>>
construct == GenNext /\ UNCHANGED runVars
Next == construct \/ printDot \/ run
Spec == Init /\ [][Next]_vars
------------------------------------------------------------------------------
\* What the pass asserts between its calls holds: before forks are put in, each
\* phi has one value from each block that leads to its own; before branches,
\* nothing reaches further than the next block; before control, branches alone
\* cross blocks; and the finished graph has the neighbours it should.
SanityHolds ==
  /\ pass = "addFork" => phiSanityCheck
  /\ pass = "addBranch" => forkSanityCheck
  /\ pass = "addControl" => branchSanityCheck
  /\ pass = "printDot" => sanityCheckVanilla

\* The netlist wires every port of every component once, and no port that is not
\* there: the numbers come from lists that ten calls have edited, separately
\* for the two ends of an edge, and must not depend on a variable that the
\* printer leaves uninitialized.
OneEdgePerPort(netlist) ==
  /\ \A u \in Printed :
       /\ \A k \in getNodeDotInputs(u) : Cardinality({e \in netlist : e.dst = u /\ e.to = k}) = 1
       /\ \A k \in getNodeDotOutputs(u) : Cardinality({e \in netlist : e.src = u /\ e.from = k}) = 1
  /\ \A e \in netlist :
       /\ {e.src, e.dst} \subseteq Printed
       /\ e.from \in getNodeDotOutputs(e.src) /\ e.to \in getNodeDotInputs(e.dst)
PortsConnected ==
  pass = "printDot" =>
    \A garbage \in Blocks \cup {Nowhere} : OneEdgePerPort(printDataflowEdges(garbage))

\* The k-th result of an instruction of the circuit is what it is in the program,
\* for all orders in which the components fire: operands, iterations, and the
\* inputs of phis are never mixed up.
ResultsMatch == \A k \in Insts : IsPrefix(results[k], reference.seen[k])

\* The circuit stops only when it has returned once, with the value of the
\* program, and holds no token any more.
NeverStuck ==
  pass = "run" => ENABLED run \/ /\ returned = <<reference.value>>
                                 /\ \A u \in DOMAIN channel : \A k \in DOMAIN channel[u] :
                                      channel[u][k] = Empty \/ Stays(channel[u][k])
==============================================================================
