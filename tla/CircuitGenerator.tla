--------------------------- MODULE CircuitGenerator ---------------------------
(***************************************************************************)
(* The elastic pass: a function in SSA form becomes a graph of elastic     *)
(* components.  One action per call of MyCFGPass::compileAndProduceDOTFile. *)
(* Nodes are numbered in the order they come into enode_dag, and a node    *)
(* that is deleted keeps its number.  The order of a node's lists of       *)
(* predecessors and successors is kept: ports are numbered by it.          *)
(*                                                                         *)
(* Not here: memory nodes and triggers of accesses (MemoryNodes), calls,   *)
(* and the optimizations that are off by default.                          *)
(***************************************************************************)
EXTENDS Naturals, FiniteSets, FiniteSetsExt, SequencesExt

CONSTANT Programs   \* bound: the functions compiled, each a record of
                    \*   args   the number of its arguments, inputs the
                    \*          values they are tried with
                    \*   succ   the successors of each block; of two, the
                    \*          first is taken if the condition is true
                    \*   insts  its instructions, block by block: op, bb,
                    \*          operands, and for a phi the block each comes
                    \*          from, for an address the dimensions

\* Blocks are in an order in which definitions come before uses (phis aside),
\* every value is used, and no block has twice the same successor.  What else
\* the runs assume of a program is in the README, under Bounds.
ASSUME ProgramsAssumption ==
  \A p \in Programs :
    /\ \A b \in DOMAIN p.succ : Len(p.succ[b]) = Cardinality(ToSet(p.succ[b]))
    /\ \A k \in DOMAIN p.insts : \A i \in DOMAIN p.insts[k].operands :
         LET v == p.insts[k].operands[i]
         IN  v[1] = "inst" /\ p.insts[k].op # "phi" => v[2] < k
    /\ \A k \in DOMAIN p.insts :
         p.insts[k].op \notin {"br", "ret"} =>
           \E l \in DOMAIN p.insts : Contains(p.insts[l].operands, <<"inst", k>>)

VARIABLES
  program,
  pass,         \* the call that comes next
  enode_dag,    \* the nodes
  Live_out      \* for each block, the nodes whose value leaves it

genVars == <<program, pass, enode_dag, Live_out>>

Fold(op(_, _), base, s) ==
  LET f[n \in 0 .. Len(s)] ==
        IF n = 0 THEN base ELSE CHOOSE r \in {op(x, s[n]) : x \in {f[n - 1]}} : TRUE
  IN  f[Len(s)]
FoldDomain(op(_, _), base, s) == Fold(op, base, [i \in DOMAIN s |-> i])
Ascending(S) == SelectSeq([i \in 1 .. Max({0} \cup S) |-> i], LAMBDA i : i \in S)
Blocks == DOMAIN program.succ
Insts == DOMAIN program.insts
\* The successors and predecessors of a BBNode, in the order of the blocks.
BBSuccs(b) == Ascending(ToSet(program.succ[b]))
BBPreds(b) == Ascending({a \in Blocks : Contains(program.succ[a], b)})
------------------------------------------------------------------------------
\* Graphs.

None == <<"none", 0>>
ENode(type, bb, val) ==
  [type |-> type, BB |-> bb, val |-> val, is_live_out |-> FALSE,
   isMux |-> FALSE, isCntrlMg |-> FALSE,
   CntrlPreds |-> <<>>, CntrlSuccs |-> <<>>,
   JustCntrlPreds |-> <<>>, JustCntrlSuccs |-> <<>>]
Nowhere == 0        \* the block of a node that is in none

OfType(g, T) == {u \in DOMAIN g : g[u].type \in T}
InBlock(g, b) == {u \in DOMAIN g : g[u].BB = b}
Each(op(_, _), g, S) == Fold(op, g, Ascending(S))
Phis == {"Phi_", "Phi_n"}

connect(g, u, v) ==
  [g EXCEPT ![u].CntrlSuccs = Append(@, v), ![v].CntrlPreds = Append(@, u)]
disconnect(g, u, v) ==
  [g EXCEPT ![u].CntrlSuccs = RemoveFirst(@, v), ![v].CntrlPreds = RemoveFirst(@, u)]
connectC(g, u, v) ==
  [g EXCEPT ![u].JustCntrlSuccs = Append(@, v), ![v].JustCntrlPreds = Append(@, u)]
delete(g, u) == [g EXCEPT ![u] = ENode("deleted", Nowhere, None)]

\* A graph together with the live-outs.
markLiveOut(net, u) ==
  [net EXCEPT !.g[u].is_live_out = TRUE,
              !.out[net.g[u].BB] = IF Contains(@, u) THEN @ ELSE Append(@, u)]
------------------------------------------------------------------------------
\* From the instructions to the graph.

opcode(g, u) == IF g[u].val[1] = "inst" THEN program.insts[g[u].val[2]].op ELSE "none"
typeOf(op) == CASE op = "br" -> "Branch_" [] op = "phi" -> "Phi_" [] OTHER -> "Inst_"
definition(g, v) ==
  CHOOSE u \in OfType(g, {"Inst_", "Phi_", "Branch_", "Argument_"}) : g[u].val = v

\* An instruction's constants come before it; those of a phi are placed in the
\* block they come from.
addInstruction(g, k) ==
  LET inst == program.insts[k]
      IsCst(i) == inst.operands[i][1] = "cst"
      csts == SelectSeq([i \in DOMAIN inst.operands |-> i], IsCst)
      place(i) == IF inst.op = "phi" THEN inst.from[i] ELSE inst.bb
      nodes == [n \in DOMAIN csts |->
                  [ENode("Cst_", place(csts[n]), inst.operands[csts[n]])
                     EXCEPT !.is_live_out = inst.op = "phi"]]
      me == Len(g) + Len(csts) + 1
  IN  FoldDomain(
        LAMBDA h, i :
          IF IsCst(i) THEN connect(h, Len(g) + SelectInSeq(csts, LAMBDA j : j = i), me)
          ELSE IF inst.op = "phi" THEN h
          ELSE connect(h, definition(h, inst.operands[i]), me),
        g \o nodes \o <<ENode(typeOf(inst.op), inst.bb, <<"inst", k>>)>>,
        inst.operands)
builtDag ==
  FoldDomain(addInstruction,
                 [j \in 1 .. program.args |-> ENode("Argument_", 1, <<"arg", j>>)],
                 program.insts)

\* Phis are connected to the values they merge, in the order of the nodes.
fixedDag ==
  Each(LAMBDA g, phi :
         Each(LAMBDA h, u :
                Fold(LAMBDA i, v : IF v = g[u].val THEN connect(i, u, phi) ELSE i,
                         h, program.insts[g[phi].val[2]].operands),
              g, OfType(g, {"Phi_", "Inst_", "Branch_", "Argument_"})),
       enode_dag, OfType(enode_dag, {"Phi_"}))

liveNet ==
  Each(LAMBDA net, u :
         Fold(LAMBDA n, p : IF n.g[p].BB # n.g[u].BB \/ n.g[u].type = "Phi_"
                                THEN markLiveOut(n, p) ELSE n,
                  IF net.g[u].type = "Branch_" \/ (net.g[u].type = "Cst_" /\ net.g[u].is_live_out)
                  THEN markLiveOut(net, u) ELSE net,
                  net.g[u].CntrlPreds),
       [g |-> enode_dag, out |-> Live_out], DOMAIN enode_dag)
------------------------------------------------------------------------------
\* removeRedundantBeforeElastic: the array of an address computation is no
\* operand, and one that has one operand left is nothing but that operand; a
\* sign extension before it goes as well.
allOut(g, u, v) == [g EXCEPT ![u].CntrlSuccs = Remove(@, v), ![v].CntrlPreds = Remove(@, u)]

withoutBases(g) ==
  Each(LAMBDA h, u : LET base == program.insts[h[u].val[2]].operands[1]
                     IN  IF opcode(h, u) # "getelementptr" THEN h
                         ELSE allOut(h, definition(h, base), u),
       g, OfType(g, {"Inst_"}))

IsWire(g, u) ==
  LET lone(v) == opcode(g, v) = "getelementptr" /\ Len(g[v].CntrlPreds) = 1
  IN  g[u].type = "Inst_"
      /\ (lone(u) \/ (opcode(g, u) = "sext" /\ lone(Head(g[u].CntrlSuccs))))

withoutWire(net, u) ==
  LET p == Head(net.g[u].CntrlPreds)
      bridged == Fold(LAMBDA g, s : connect(allOut(g, u, s), p, s),
                          allOut(net.g, p, u), net.g[u].CntrlSuccs)
  IN  [g |-> delete(bridged, u),
       out |-> [b \in DOMAIN net.out |-> Remove(net.out[b], u)]]

\* An argument nothing uses any more goes too.
lightenedNet ==
  LET g == withoutBases(enode_dag)
      wires == {u \in DOMAIN g : IsWire(g, u)}
      idle == {u \in OfType(g, {"Argument_"}) : g[u].CntrlSuccs = <<>>}
      net == Each(withoutWire, [g |-> g, out |-> Live_out], wires)
  IN  [g |-> Each(delete, net.g, idle),
       out |-> [b \in Blocks |-> SelectSeq(net.out[b], LAMBDA u : u \notin idle)]]

\* setGetelementPtrConsts: an address computation that stays gets the
\* dimensions of its array.
dimensionedDag ==
  Each(LAMBDA g, u :
         IF opcode(g, u) # "getelementptr" THEN g ELSE
         Fold(LAMBDA h, d : connectC(Append(h, ENode("Cst_", h[u].BB, <<"cst", d>>)),
                                         Len(h) + 1, u),
                  g, program.insts[g[u].val[2]].dims),
       enode_dag, OfType(enode_dag, {"Inst_"}))
------------------------------------------------------------------------------
\* addPhi: a value that lives in a block it is not defined in gets a phi there.

\* An operand of a phi is used at the end of the block it comes from: a dummy
\* node stands there for the time of the liveness analysis.
incoming(g, phi, i) ==
  LET inst == program.insts[g[phi].val[2]]
      Is(p) == IF g[p].type = "Cst_" THEN g[p].BB = inst.from[i]
               ELSE g[p].val = inst.operands[i]
  IN  g[phi].CntrlPreds[SelectLastInSeq(g[phi].CntrlPreds, Is)]
withDummies(dag) ==
  Each(LAMBDA g, phi :
         LET inst == program.insts[g[phi].val[2]]
             dummies == FoldDomain(
               LAMBDA h, i :
                 Append([h EXCEPT ![incoming(h, phi, i)].CntrlSuccs =
                                     Append(RemoveFirst(@, phi), Len(h) + 1)],
                        [ENode("dummy_", inst.from[i], None) EXCEPT
                           !.CntrlPreds = <<incoming(h, phi, i)>>, !.CntrlSuccs = <<phi>>]),
               g, inst.operands)
         IN  [dummies EXCEPT ![phi].CntrlPreds =
                [i \in DOMAIN inst.operands |-> Len(g) + i]],
       dag, OfType(dag, {"Phi_"}))

opUnion(v1, v2) == v1 \o SelectSeq(v2, LAMBDA x : ~Contains(v1, x))
getBBUses(g, b) ==
  LET uses(u) == IF g[u].type = "Phi_" THEN <<>>
                 ELSE SelectSeq(g[u].CntrlPreds, LAMBDA p : g[p].BB # b)
  IN  Each(LAMBDA s, u : Fold(LAMBDA t, p : opUnion(t, <<p>>), s, uses(u)),
           <<>>, InBlock(g, b))
\* One round over the blocks; a block more than there are is enough of them.
livenessRound(g, liveins) ==
  FoldDomain(
    LAMBDA l, b :
      LET liveOuts == Fold(LAMBDA s, a : opUnion(s, l[a]), <<>>, BBSuccs(b))
          tmp == opUnion(getBBUses(g, b), SelectSeq(liveOuts, LAMBDA u : g[u].BB # b))
      IN  IF Len(tmp) > Len(l[b]) THEN [l EXCEPT ![b] = tmp] ELSE l,
    liveins, program.succ)
livenesAnalysis(g) ==
  Fold(LAMBDA l, n : livenessRound(g, l), [b \in Blocks |-> <<>>],
           <<0>> \o [b \in Blocks |-> b])

\* The phis, for the blocks in the order in which a map keeps them, and each
\* one's value as its only predecessor.
withPhis(g, liveins, order) ==
  Fold(LAMBDA h, b :
             Fold(LAMBDA i, u : connect(Append(i, ENode("Phi_n", b, i[u].val)), u, Len(i) + 1),
                      h, liveins[b]),
           g, order)
Orig(g, phi) == Head(g[phi].CntrlPreds)
\* Uses in the phi's block take it instead.
throughPhi(g, phi) ==
  LET orig == Orig(g, phi)
      again(u) == SelectSeq(g[u].CntrlPreds, LAMBDA p : p = orig)
  IN  Each(LAMBDA h, u : Fold(LAMBDA i, p : connect(disconnect(i, p, u), phi, u), h, again(u)),
           g, InBlock(g, g[phi].BB) \ {phi})
\* Phis of one value are chained along the blocks.
chained(g, phi, phis) ==
  Fold(LAMBDA h, b :
             IF b = h[Orig(h, phi)].BB THEN h ELSE
             Each(LAMBDA i, q : IF Orig(i, q) = Orig(i, phi) THEN connect(i, q, phi) ELSE i,
                  h, {q \in phis : h[q].BB = b}),
           g, BBPreds(g[phi].BB))
\* What still goes across blocks otherwise than to a phi of the next goes.
\* Mutant: a phi of any block may be reached.
withinReach_AnyPhi(g, u) ==
  LET stays(v) == g[v].type \in Phis \/ g[v].BB = g[u].BB
  IN  Fold(LAMBDA h, v : IF stays(v) THEN h ELSE disconnect(h, u, v),
               g, g[u].CntrlSuccs)
withinReach(g, u) ==
  LET stays(v) == IF g[v].type \in Phis THEN Contains(BBSuccs(g[u].BB), g[v].BB)
                  ELSE g[v].BB = g[u].BB
  IN  Fold(LAMBDA h, v : IF stays(v) THEN h ELSE disconnect(h, u, v),
               g, g[u].CntrlSuccs)
withoutDummy(g, d) ==
  LET p == Head(g[d].CntrlPreds)
      s == Head(g[d].CntrlSuccs)
  IN  delete(connect(disconnect(disconnect(g, p, d), d, s), p, s), d)
setPhiLiveOuts(net) ==
  Each(LAMBDA n, phi :
         IF \E s \in ToSet(n.g[phi].CntrlSuccs) :
              n.g[s].BB # n.g[phi].BB \/ n.g[s].type \in Phis
         THEN markLiveOut(n, phi) ELSE n,
       net, OfType(net.g, Phis))

phiNet(order) ==
  LET dummies == withDummies(enode_dag)
      placed == withPhis(dummies, livenesAnalysis(dummies), order)
      phis == DOMAIN placed \ DOMAIN dummies
      local == Each(throughPhi, placed, phis)
      linked == Each(LAMBDA g, phi : chained(g, phi, phis), local, phis)
      cut == Each(withinReach, linked, DOMAIN linked \ OfType(linked, {"deleted"}))
  IN  setPhiLiveOuts([g |-> Each(withoutDummy, cut, OfType(cut, {"dummy_"})),
                      out |-> Live_out])
------------------------------------------------------------------------------
\* A node is put between u and its successors.
InsertNode(g, u, after) ==
  LET moved == Fold(LAMBDA h, s : connect(disconnect(h, u, s), after, s),
                        g, g[u].CntrlSuccs)
  IN  connect(moved, u, after)

forkedNet ==
  Each(LAMBDA net, u :
         IF Len(net.g[u].CntrlSuccs) <= 1 THEN net ELSE
         LET fork == Len(net.g) + 1
             node == [ENode("Fork_", net.g[u].BB, net.g[u].val) EXCEPT
                        !.is_live_out = net.g[u].is_live_out]
             forked == InsertNode(Append(net.g, node), u, fork)
         IN  IF ~node.is_live_out THEN [net EXCEPT !.g = forked] ELSE
             [g |-> [forked EXCEPT ![u].is_live_out = FALSE],
              out |-> [net.out EXCEPT ![node.BB] = Append(RemoveFirst(@, u), fork)]],
       [g |-> enode_dag, out |-> Live_out], DOMAIN enode_dag)

\* The branches a live-out needs: as many as its phis in one successor.  Each
\* leads to one phi in each successor that has one left.
phisIn(g, u, s) == SelectSeq(g[u].CntrlSuccs, LAMBDA v : g[v].BB = s /\ g[v].type \in Phis)
InsertBranch(net, u, b) ==
  LET branch == Len(net.g) + 1
      steer(g, s) == IF phisIn(g, u, s) = <<>> THEN g ELSE
                     connect(disconnect(g, u, Head(phisIn(g, u, s))),
                             branch, Head(phisIn(g, u, s)))
      node == [ENode("Branch_n", b, net.g[u].val) EXCEPT !.is_live_out = TRUE]
  IN  [g |-> connect(Fold(steer, Append(net.g, node), BBSuccs(b)), u, branch),
       out |-> [net.out EXCEPT ![b] = <<branch>> \o @]]
InsertBranchNew(net, u, b) ==
  LET branch_count == Max({0} \cup {Len(phisIn(net.g, u, s)) : s \in ToSet(BBSuccs(b))})
  IN  Fold(LAMBDA n, i : InsertBranch(n, u, b), net, [i \in 1 .. branch_count |-> i])

\* Every live-out of a block gets branches, and they the block's condition.
branchedBlock(net, b) ==
  LET values == SelectSeq(net.out[b], LAMBDA u : net.g[u].type # "Branch_")
      steered == Fold(LAMBDA n, u : LET m == InsertBranchNew(n, u, b)
                                        IN  [g |-> [m.g EXCEPT ![u].is_live_out = FALSE],
                                             out |-> [m.out EXCEPT ![b] = RemoveFirst(@, u)]],
                          net, values)
      branches == SelectSeq(steered.out[b], LAMBDA u : steered.g[u].type # "Branch_")
      Br == SelectSeq(steered.out[b], LAMBDA u : steered.g[u].type = "Branch_")
      fork == ENode("Fork_", b, None)
      g == Fold(LAMBDA h, v : connect(h, Last(Br), v), steered.g, branches)
  IN  [steered EXCEPT !.g = IF Len(branches) > 1
                            THEN InsertNode(Append(g, fork), Last(Br), Len(g) + 1) ELSE g]
branchedNet ==
  FoldDomain(branchedBlock, [g |-> enode_dag, out |-> Live_out], program.succ)
------------------------------------------------------------------------------
\* addControl: the control network.

the(g, T, b) == CHOOSE u \in OfType(g, T) : g[u].BB = b
llvmBr(g, b) == the(g, {"Branch_"}, b)
\* Constants a branch or a memory access waits for are triggered by control.
IsTriggered(g, u) ==
  /\ g[u].type = "Cst_" /\ g[u].CntrlSuccs # <<>>
  /\ LET s == Head(g[u].CntrlSuccs)
     IN  g[s].type \in {"Branch_n", "Branch_"}
         \/ (g[s].type = "Inst_" /\ opcode(g, s) \in {"getelementptr", "load", "store"})

\* The branch condition is forked for the control branch, unless no value waits
\* for it.
withConditionFork(g, b) ==
  LET br == llvmBr(g, b)
      s == Head(g[br].CntrlSuccs)
  IN  IF g[br].CntrlSuccs = <<>> \/ g[s].type = "Fork_" THEN g
      ELSE InsertNode(Append(g, ENode("Fork_", b, g[br].val)), br, Len(g) + 1)
controlBranch(g, b, forkC) ==
  LET branchC == Len(g) + 1
      h == withConditionFork(connectC(Append(g, ENode("Branch_c", b, None)), forkC, branchC), b)
      br == llvmBr(h, b)
      cond == IF h[br].CntrlSuccs = <<>> THEN br ELSE Head(h[br].CntrlSuccs)
      i == connectC(h, cond, branchC)
  IN  IF i[br].CntrlPreds = <<>> THEN connectC(i, forkC, br) ELSE i
\* Mutant: no sink takes the control token.
controlReturn_NoSink(g, b, forkC, end) ==
  LET ret == CHOOSE u \in InBlock(g, b) : opcode(g, u) = "ret" /\ g[u].type = "Inst_"
  IN  IF g[ret].CntrlPreds = <<>>
      THEN connectC(connectC(g, forkC, ret), ret, end)
      ELSE connect(g, ret, end)
controlReturn(g, b, forkC, end) ==
  LET ret == CHOOSE u \in InBlock(g, b) : opcode(g, u) = "ret" /\ g[u].type = "Inst_"
  IN  IF g[ret].CntrlPreds = <<>>
      THEN connectC(connectC(g, forkC, ret), ret, end)
      ELSE connect(connectC(Append(g, ENode("Sink_", Nowhere, None)), forkC, Len(g) + 1),
                   ret, end)
controlledBlock(g, b, end) ==
  LET entry == ENode(IF b = 1 THEN "Start_" ELSE "Phi_c", b, None)
      forkC == Len(g) + 2
      h == connectC(g \o <<entry, ENode("Fork_c", b, None)>>, Len(g) + 1, forkC)
      i == Each(LAMBDA j, u : IF IsTriggered(j, u) THEN connectC(j, forkC, u) ELSE j,
                h, InBlock(h, b))
  IN  IF program.succ[b] # <<>> THEN controlBranch(i, b, forkC)
      ELSE controlReturn(i, b, forkC, end)
controlledDag ==
  LET end == Len(enode_dag) + 1
      g == FoldDomain(LAMBDA h, b : controlledBlock(h, b, end),
                          Append(enode_dag, ENode("End_", Nowhere, None)), program.succ)
      next(h, b) == Fold(LAMBDA i, s : connectC(i, the(i, {"Branch_c"}, b),
                                                    the(i, {"Phi_c", "Start_"}, s)),
                             h, BBSuccs(b))
  IN  FoldDomain(next, g, program.succ)
------------------------------------------------------------------------------
\* What is left open is closed: the side of a branch nothing needs ends in a
\* sink, and a constant nothing triggers has a source.
sunkDag ==
  Each(LAMBDA g, u :
         LET sunk == Append(g, ENode("Sink_", Nowhere, None))
         IN  IF g[u].type = "Branch_n" /\ Len(g[u].CntrlSuccs) < 2
             THEN connect(sunk, u, Len(sunk))
             ELSE IF g[u].type = "Branch_c" /\ Len(g[u].JustCntrlSuccs) < 2
             THEN connectC(sunk, u, Len(sunk)) ELSE g,
       enode_dag, DOMAIN enode_dag)

IsFree(g, u) ==
  \/ /\ g[u].CntrlSuccs # <<>> /\ g[u].JustCntrlPreds = <<>>
     /\ g[Head(g[u].CntrlSuccs)].type \notin {"Branch_n", "Branch_"}
  \/ /\ g[u].JustCntrlSuccs # <<>>
     /\ opcode(g, Head(g[u].JustCntrlSuccs)) = "getelementptr"
sourcedDag ==
  Each(LAMBDA g, u : IF ~IsFree(g, u) THEN g
                     ELSE connect(Append(g, ENode("Source_", g[u].BB, None)), Len(g) + 1, u),
       enode_dag, OfType(enode_dag, {"Cst_"}))

\* addBuffersSimple: a buffer behind every phi that merges.
bufferedDag ==
  Each(LAMBDA g, u :
         LET b == Len(g) + 1
             place == IF g[u].is_live_out THEN Nowhere ELSE g[u].BB
             h == Append(g, ENode("Buffer_", place, g[u].val))
             s == Head(g[u].CntrlSuccs)
             c == Head(g[u].JustCntrlSuccs)
         IN  IF g[u].type = "Phi_c" /\ Len(g[u].JustCntrlPreds) > 1
             THEN connectC(connectC([h EXCEPT ![u].JustCntrlSuccs = RemoveFirst(@, c),
                                              ![c].JustCntrlPreds = RemoveFirst(@, u)],
                                    u, b), b, c)
             ELSE IF Len(g[u].CntrlPreds) > 1
             THEN connect(connect(disconnect(h, u, s), u, b), b, s) ELSE g,
       enode_dag, OfType(enode_dag, Phis \cup {"Phi_c"}))

\* The control phi of a block with phis of the program tells them which way
\* control came.
muxedDag ==
  Each(LAMBDA g, c :
         LET phis == OfType(g, {"Phi_"}) \cap InBlock(g, g[c].BB)
             fork == Len(g) + 1
             h == Append(g, ENode("Fork_", g[c].BB, None))
         IN  IF Len(g[c].JustCntrlPreds) <= 1 \/ phis = {} THEN g
             ELSE connect(Each(LAMBDA i, phi : connect([i EXCEPT ![phi].isMux = TRUE], fork, phi),
                               [h EXCEPT ![c].isCntrlMg = TRUE], phis), c, fork),
       enode_dag, OfType(enode_dag, {"Phi_c"}))

\* removeRedundantAfterElastic: forks of one successor and unread constants.
outDegree(g, u) == Len(g[u].CntrlSuccs) + Len(g[u].JustCntrlSuccs)
withoutFork(g, u) ==
  IF g[u].type = "Fork_"
  THEN LET p == Head(g[u].CntrlPreds)
           s == Head(g[u].CntrlSuccs)
       IN  delete(connect(allOut(allOut(g, p, u), u, s), p, s), u)
  ELSE LET p == Head(g[u].JustCntrlPreds)
           s == Head(g[u].JustCntrlSuccs)
       IN  delete([g EXCEPT ![p].JustCntrlSuccs = Append(Remove(@, u), s),
                            ![s].JustCntrlPreds = Append(Remove(@, u), p)], u)
cleanedDag ==
  LET forks == {u \in OfType(enode_dag, {"Fork_", "Fork_c"}) : outDegree(enode_dag, u) = 1}
      unread == {u \in OfType(enode_dag, {"Cst_"}) : outDegree(enode_dag, u) = 0}
  IN  Each(delete, Each(withoutFork, enode_dag, forks), unread)
------------------------------------------------------------------------------
\* The calls, in order.

Run(call, following, net) ==
  /\ pass = call /\ pass' = following
  /\ enode_dag' = net.g /\ Live_out' = net.out
  /\ UNCHANGED program
Dag(g) == [g |-> g, out |-> Live_out]

buildDagEnodes == Run("buildDagEnodes", "fixBuildDagEnodes", Dag(builtDag))
fixBuildDagEnodes == Run("fixBuildDagEnodes", "formLiveBBnodes", Dag(fixedDag))
formLiveBBnodes == Run("formLiveBBnodes", "removeRedundantBeforeElastic", liveNet)
removeRedundantBeforeElastic ==
  Run("removeRedundantBeforeElastic", "setGetelementPtrConsts", lightenedNet)
setGetelementPtrConsts == Run("setGetelementPtrConsts", "addPhi", Dag(dimensionedDag))
\* The map of live-ins is ordered by the addresses of the blocks.
addPhi ==
  \E order \in SetToSeqs({b \in Blocks : b > 1}) : Run("addPhi", "addFork", phiNet(order))
addFork == Run("addFork", "addBranch", forkedNet)
addBranch == Run("addBranch", "addControl", branchedNet)
addControl == Run("addControl", "addSink", Dag(controlledDag))
addSink == Run("addSink", "addSource", Dag(sunkDag))
addSource == \E next \in {"addBuffersSimple", "setMuxes"} : Run("addSource", next, Dag(sourcedDag))
addBuffersSimple == Run("addBuffersSimple", "setMuxes", Dag(bufferedDag))
setMuxes == Run("setMuxes", "removeRedundantAfterElastic", Dag(muxedDag))
removeRedundantAfterElastic == Run("removeRedundantAfterElastic", "printDot", Dag(cleanedDag))

GenInit ==
  /\ program \in Programs /\ pass = "buildDagEnodes"
  /\ enode_dag = <<>> /\ Live_out = [b \in Blocks |-> <<>>]

GenNext ==
  \/ buildDagEnodes \/ fixBuildDagEnodes \/ formLiveBBnodes
  \/ removeRedundantBeforeElastic \/ setGetelementPtrConsts
  \/ addPhi \/ addFork \/ addBranch \/ addControl \/ addSink \/ addSource
  \/ addBuffersSimple \/ setMuxes \/ removeRedundantAfterElastic
==============================================================================
