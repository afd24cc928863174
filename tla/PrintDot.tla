------------------------------ MODULE PrintDot ------------------------------
(***************************************************************************)
(* The netlist the elastic pass writes: the ports of every component and   *)
(* the edges between them.  An edge leads from an output of its source to  *)
(* an input of its destination; both are numbered from 1.                  *)
(***************************************************************************)
EXTENDS CircuitGenerator

g == enode_dag
Nodes == DOMAIN g \ OfType(g, {"deleted"})
Operands(u) == program.insts[g[u].val[2]].operands
indexOf(s, x) == SelectInSeq(s, LAMBDA y : y = x)

\* A conditional LLVM branch is a wire; an unconditional one is a constant.
skipNodePrint(u) ==
  \/ g[u].type = "Argument_" /\ g[u].CntrlSuccs = <<>>
  \/ g[u].type = "Branch_" /\ Len(g[u].JustCntrlPreds) # 1
------------------------------------------------------------------------------
\* Ports.

\* A load's first input comes from the memory.
getNodeDotInputs(u) ==
  CASE g[u].type \in {"Branch_", "Fork_", "Fork_c", "Buffer_", "Cst_", "Sink_"} -> {1}
    [] g[u].type \in {"Branch_n", "Branch_c"} -> {1, 2}
    [] g[u].type \in {"Inst_", "Phi_", "Phi_n", "Phi_c", "End_"} ->
         IF opcode(g, u) = "load" /\ g[u].type = "Inst_" THEN {2}
         ELSE 1 .. Len(g[u].CntrlPreds) + Len(g[u].JustCntrlPreds)
    [] OTHER -> {}
getNodeDotOutputs(u) ==
  CASE g[u].type \in {"Branch_n", "Branch_c"} -> {1, 2}
    [] g[u].type \in {"Fork_", "Fork_c", "Inst_"} -> 1 .. outDegree(g, u)
    [] g[u].type = "Phi_c" -> IF g[u].isCntrlMg THEN {1, 2} ELSE {1}
    [] g[u].type \in {"Sink_", "End_"} -> {}
    [] OTHER -> {1}
------------------------------------------------------------------------------
\* Edges.

Edge(u, from, v, to) == [src |-> u, from |-> from, dst |-> v, to |-> to]

\* The input of an operation a value goes to is found by comparing the value
\* with the operands of the instruction; an address computation may have equal
\* operands, so there the predecessors are counted.
\* Mutant: the predecessors are counted for every operation.
getOperandIndex_Counted(u, v) ==
  IF opcode(g, v) = "load" THEN 2 ELSE indexOf(g[v].CntrlPreds, u)
getOperandIndex(u, v) ==
  LET operands == SubSeq(Operands(v), 1, Len(g[v].CntrlPreds))
  IN  CASE opcode(g, v) = "load" -> 2
        [] opcode(g, v) = "getelementptr" -> indexOf(g[v].CntrlPreds, u)
        [] g[u].type = "Cst_" /\ Len(operands) >= 2 /\ operands[1] = operands[2] ->
             indexOf(g[v].CntrlPreds, u)
        [] OTHER -> Max({1, indexOf(operands, g[u].val)})

FromBranch(u) ==
  g[u].type = "Branch_" \/ (g[u].type = "Fork_" /\ g[Head(g[u].CntrlPreds)].type = "Branch_")
FromCntrlMerge(u) ==
  g[u].isCntrlMg \/ (g[u].type = "Fork_" /\ g[Head(g[u].CntrlPreds)].isCntrlMg)

\* The input of v that the k-th successor v of u leads to.
input(u, k) ==
  LET v == g[u].CntrlSuccs[k]
      past == Cardinality({j \in 1 .. k - 1 : g[u].CntrlSuccs[j] = v})
  IN  CASE FromBranch(u) -> IF Len(g[v].CntrlPreds) = 1 THEN 1 ELSE 2
        [] FromCntrlMerge(u) -> 1
        [] g[v].type = "Inst_" -> IF past > 0 THEN past + 1 ELSE getOperandIndex(u, v)
        [] g[v].type = "Branch_n" -> 1
        [] g[v].type = "End_" -> Len(g[v].JustCntrlPreds) + indexOf(g[v].CntrlPreds, u)
        [] OTHER -> indexOf(g[v].CntrlPreds, u)

\* Past an LLVM branch, to what it conditions.
redundantBranch(u, k, br) ==
  (IF g[br].CntrlSuccs = <<>> THEN {} ELSE {Edge(u, k, Head(g[br].CntrlSuccs), 1)})
  \cup (IF g[br].JustCntrlSuccs = <<>> THEN {} ELSE {Edge(u, k, Head(g[br].JustCntrlSuccs), 2)})

dataEdges(u, k) ==
  LET v == g[u].CntrlSuccs[k]
  IN  IF g[v].type = "Branch_" THEN redundantBranch(u, k, v)
      ELSE IF g[u].type = "Branch_" /\ g[v].type = "Fork_"
      THEN IF skipNodePrint(u) THEN {} ELSE {Edge(u, 1, v, 1)}
      ELSE {Edge(u, IF g[u].isCntrlMg THEN 2 ELSE k, v, input(u, k))}

controlEdges(u, k) ==
  LET v == g[u].JustCntrlSuccs[k]
      from == IF g[u].isCntrlMg THEN 1 ELSE Len(g[u].CntrlSuccs) + k
      to == CASE g[u].type = "Cst_" ->
                   Len(g[v].CntrlPreds) + indexOf(g[v].JustCntrlPreds, u)
              [] g[u].type \in {"Fork_", "Branch_"} -> 2
              [] OTHER -> 1
  IN  IF g[v].type = "End_" THEN {Edge(u, from, v, indexOf(g[v].JustCntrlPreds, u))}
      ELSE IF (g[v].BB = g[u].BB \/ g[v].type = "Sink_") /\ ~skipNodePrint(u)
      THEN {Edge(u, from, v, to)} ELSE {}

\* Which side of a branch leads to a block.  The successor for the condition
\* false is noted when the fork of the branch condition is met; if the block
\* has none, the variable is not initialized.
isUnconditional(br) == Operands(br) = <<>>
noted(b) == {br \in OfType(g, {"Branch_"}) \cap InBlock(g, b) :
               \E v \in ToSet(g[br].CntrlSuccs) : g[v].type = "Fork_"}
hasCstBr(u) ==
  \E p \in ToSet(g[u].CntrlPreds) :
    FromBranch(p) /\ isUnconditional(IF g[p].type = "Branch_" THEN p ELSE Head(g[p].CntrlPreds))
\* Mutant: a sink is on the second side.
side_SinkLast(u, v, garbage) ==
  LET branchSucc1 == IF \E br \in noted(g[u].BB) : ~isUnconditional(br)
                     THEN program.succ[g[u].BB][2] ELSE garbage
  IN  IF g[v].type = "Sink_" THEN 2 ELSE IF g[v].BB = branchSucc1 THEN 2 ELSE 1
side(u, v, garbage) ==
  LET b == g[u].BB
      unconditional == \E br \in noted(b) : isUnconditional(br)
      branchSucc1 == IF \E br \in noted(b) : ~isUnconditional(br)
                     THEN program.succ[b][2] ELSE garbage
      others == SelectSeq(g[u].CntrlSuccs, LAMBDA s : s # v)
  IN  IF unconditional \/ hasCstBr(u) THEN IF g[v].type = "Sink_" THEN 2 ELSE 1
      ELSE IF g[v].type # "Sink_" THEN IF g[v].BB = branchSucc1 THEN 2 ELSE 1
      ELSE IF g[u].type = "Branch_n"
      THEN IF g[Head(others)].BB = branchSucc1 THEN 1 ELSE 2
      ELSE IF g[v].BB = branchSucc1 THEN 1 ELSE 2

\* A mux counts its condition first, though it is the last predecessor.
branchEdges(u, garbage) ==
  {Edge(u, side(u, v, garbage), v,
        IF ~g[v].isMux THEN indexOf(g[v].CntrlPreds, u)
        ELSE IF indexOf(g[v].CntrlPreds, u) = Len(g[v].CntrlPreds) THEN 1
        ELSE indexOf(g[v].CntrlPreds, u) + 1) : v \in ToSet(g[u].CntrlSuccs)}
branchCEdges(u, garbage) ==
  {Edge(u, side(u, v, garbage), v, indexOf(g[v].JustCntrlPreds, u)) :
     v \in ToSet(g[u].JustCntrlSuccs)}

\* Nodes that are in no block have no edges of their own.
printDataflowEdges(garbage) ==
  UNION {CASE g[u].type = "Branch_n" -> branchEdges(u, garbage)
           [] g[u].type = "Branch_c" -> branchCEdges(u, garbage)
           [] OTHER -> UNION {dataEdges(u, k) : k \in DOMAIN g[u].CntrlSuccs}
                       \cup UNION {controlEdges(u, k) : k \in DOMAIN g[u].JustCntrlSuccs}
         : u \in {w \in Nodes : g[w].BB # Nowhere}}
------------------------------------------------------------------------------
\* What the pass asserts of the graph between its calls (SanityChecker.cpp).
\* An assertion that fails stops the pass.

Block(u) == g[u].BB
SuccTypes(u) == {g[v].type : v \in ToSet(g[u].CntrlSuccs)}
PredTypes(u) == {g[v].type : v \in ToSet(g[u].CntrlPreds)}
JustSuccTypes(u) == {g[v].type : v \in ToSet(g[u].JustCntrlSuccs)}
JustPredTypes(u) == {g[v].type : v \in ToSet(g[u].JustCntrlPreds)}
FromEveryPred(preds, b) == ToSet(BBPreds(b)) \subseteq {Block(v) : v \in ToSet(preds)}

\* A phi merges one value from each block that leads to its own.
phiSanityCheck ==
  /\ \A u \in OfType(g, Phis) :
       g[u].isMux \/ /\ Len(g[u].CntrlPreds) = Len(BBPreds(Block(u)))
                     /\ FromEveryPred(g[u].CntrlPreds, Block(u))
                     /\ g[u].CntrlSuccs # <<>>
  /\ \A u \in OfType(g, {"Phi_c"}) :
       g[u].isCntrlMg \/ /\ Len(g[u].JustCntrlPreds) = Len(BBPreds(Block(u)))
                         /\ g[u].JustCntrlSuccs # <<>>

\* A fork stays in its block or leads to the next.
forkSanityCheck ==
  \A u \in OfType(g, {"Fork_"}) :
    /\ Len(g[u].CntrlPreds) = 1 /\ g[u].CntrlSuccs # <<>>
    /\ Block(Head(g[u].CntrlPreds)) = Block(u)
    /\ \A v \in ToSet(g[u].CntrlSuccs) :
         Block(v) \in {Block(u)} \cup ToSet(BBSuccs(Block(u)))

\* Nothing but a branch leaves a block, and a branch leads to phis.
branchSanityCheck ==
  /\ \A u \in OfType(g, {"Branch_n"}) :
       /\ Len(g[u].CntrlPreds) = 2 /\ g[u].CntrlSuccs # <<>>
       /\ \A v \in ToSet(g[u].CntrlPreds) : Block(v) = Block(u)
       /\ \A v \in ToSet(g[u].CntrlSuccs) \ OfType(g, {"Sink_"}) :
            /\ Contains(BBSuccs(Block(u)), Block(v))
            /\ g[v].type \in Phis \cup {"Buffer_"}
  /\ \A u \in OfType(g, Phis) :
       Len(g[u].CntrlSuccs) = 1 /\ Block(Head(g[u].CntrlSuccs)) = Block(u)

instructionSanityCheck ==
  \A u \in OfType(g, {"Inst_"}) :
    CASE opcode(g, u) \in {"add", "sub", "mul", "icmp"} -> Len(g[u].CntrlPreds) = 2
      [] opcode(g, u) = "ret" -> TRUE
      [] OTHER -> g[u].CntrlPreds # <<>> /\ g[u].CntrlSuccs # <<>>

\* Who may stand next to whom in the finished graph.
Stage == {"Phi_", "Phi_n", "Phi_c", "Fork_", "Fork_c", "Inst_", "Argument_",
          "Branch_", "Branch_n", "Branch_c"}
VanillaNeighbours(u) ==
  CASE g[u].type = "Argument_" ->
         Len(g[u].CntrlSuccs) <= 1 /\ SuccTypes(u) \subseteq {"Branch_n", "Inst_", "Fork_", "Buffer_"}
    [] g[u].type = "Cst_" ->
         /\ Len(g[u].CntrlPreds) = 1 \/ Len(g[u].JustCntrlPreds) = 1
         /\ Len(g[u].CntrlSuccs) = 1 \/ Len(g[u].JustCntrlSuccs) = 1
    [] g[u].type = "Branch_" ->
         /\ Len(g[u].CntrlPreds) <= 1
         /\ IF Len(g[u].CntrlSuccs) = 1 THEN SuccTypes(u) \subseteq {"Branch_n", "Fork_", "Buffer_"}
            ELSE Len(g[u].JustCntrlSuccs) = 1 =>
                   JustSuccTypes(u) \subseteq {"Phi_c", "Buffer_", "Branch_c"}
    [] g[u].type = "Buffer_" ->
         /\ Len(g[u].CntrlPreds) = 1 \/ Len(g[u].JustCntrlPreds) = 1
         /\ PredTypes(u) \cup JustPredTypes(u) \subseteq Stage
         /\ Len(g[u].CntrlSuccs) = 1 \/ Len(g[u].JustCntrlSuccs) = 1
         /\ SuccTypes(u) \cup JustSuccTypes(u) \subseteq Stage \cup {"Sink_"}
    [] g[u].type \in Phis ->
         /\ Len(g[u].CntrlSuccs) = 1
         /\ PredTypes(u) \subseteq {"Branch_n", "Cst_", "Buffer_", "Fork_", "Phi_c"}
    [] g[u].type = "Phi_c" ->
         /\ Len(g[u].JustCntrlSuccs) = 1
         /\ JustSuccTypes(u) \subseteq {"Fork_c", "Buffer_", "Branch_c", "End_", "Sink_", "Inst_"}
         /\ JustPredTypes(u) \subseteq {"Branch_c", "Buffer_"}
    [] OTHER -> TRUE
SteeringNeighbours(u) ==
  CASE g[u].type = "Fork_" ->
         /\ Len(g[u].CntrlPreds) = 1
         /\ PredTypes(u) \subseteq {"Buffer_", "Inst_", "Branch_", "Argument_", "Phi_", "Phi_n",
                                    "Phi_c", "Cst_"}
         /\ outDegree(g, u) > 1
         /\ SuccTypes(u) \subseteq {"Branch_n", "Inst_", "Buffer_", "Phi_", "Phi_n", "Branch_"}
    [] g[u].type = "Fork_c" ->
         /\ Len(g[u].JustCntrlPreds) = 1
         /\ JustPredTypes(u) \subseteq {"Phi_c", "Start_", "Buffer_"}
         /\ g[u].JustCntrlSuccs # <<>>
         /\ JustSuccTypes(u) \subseteq {"Branch_c", "Branch_", "Buffer_", "Cst_", "Sink_", "Inst_"}
    [] g[u].type = "Branch_n" ->
         /\ Len(g[u].CntrlSuccs) \in 1 .. 2 /\ Len(g[u].CntrlPreds) = 2
         /\ SuccTypes(u) \subseteq {"Phi_n", "Phi_", "Buffer_", "Sink_"}
    [] g[u].type = "Branch_c" ->
         /\ Len(g[u].JustCntrlSuccs) \in 1 .. 2 /\ Len(g[u].JustCntrlPreds) = 2
         /\ JustSuccTypes(u) \subseteq {"Phi_c", "Buffer_", "Sink_"}
    [] OTHER -> TRUE
sanityCheckVanilla ==
  /\ phiSanityCheck /\ forkSanityCheck /\ branchSanityCheck /\ instructionSanityCheck
  /\ \A u \in DOMAIN g : VanillaNeighbours(u) /\ SteeringNeighbours(u)
==============================================================================
