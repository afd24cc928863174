----------------------------- MODULE MemoryNodes -----------------------------
(***************************************************************************)
(* How the elastic pass makes the loads and stores of a function keep the   *)
(* order of its control flow, and what the circuit then does.               *)
(*                                                                          *)
(* addMemoryNodesConnection gives every array a memory node with one        *)
(* acknowledgement output per access.  In each block a join holds the       *)
(* control token back before the control branch until the accesses of the   *)
(* block are acknowledged; each access is triggered by the control fork of  *)
(* its block and by acknowledgements.  removeRedundantAfterElastic then     *)
(* drops forks of one successor.  The dot writer numbers the outputs of a   *)
(* memory node by their place in JustCntrlSuccs, so what an acknowledgement *)
(* reaches depends on the order the two passes leave that list in.          *)
(*                                                                          *)
(* The circuit is played as a token game on the control edges.  Of the data *)
(* path it keeps which loads an access takes its operands from.  The memory *)
(* takes any time; its entity is not in the repository.                     *)
(***************************************************************************)
EXTENDS Naturals, FiniteSets, SequencesExt

CONSTANT Programs   \* bound: the functions compiled, each a record of
                    \*   accesses  its loads and stores, in program order, each
                    \*             with its block, its array and the earlier
                    \*             loads of the block its operands come from
                    \*   path      the blocks an execution enters, in order

\* A load or a store of the entry block, or of a returning one, is beyond the
\* pass: the former gets no control trigger, the latter has no control branch.
ASSUME ProgramsAssumption ==
  \A p \in Programs : \A i \in DOMAIN p.accesses :
    /\ p.accesses[i].op \in {"load", "store"}
    /\ \A j \in p.accesses[i].uses :
         /\ j \in 1 .. i - 1
         /\ p.accesses[j].bb = p.accesses[i].bb /\ p.accesses[j].op = "load"
    /\ p.accesses[i].bb \in ToSet(p.path) \ {Head(p.path), Last(p.path)}

VARIABLES
  program,
  left,             \* arrays whose memory node is still to be connected
  JustCntrlSuccs,   \* the control successors of each node, in order
  MemoryAckIndex,   \* the place of an access's fork in them, 0 if it has none
  step,             \* place of the control token in the path, 0 while compiling
  entered,          \* the control fork of that block has passed its token on
  tokens,           \* tokens waiting on each control edge
  pending,          \* accesses performed and not yet acknowledged
  done              \* times each access was performed

graph == <<left, JustCntrlSuccs, MemoryAckIndex>>
vars == <<program, graph, step, entered, tokens, pending, done>>

Accesses == DOMAIN program.accesses
BB(i) == program.accesses[i].bb
IsLoad(i) == program.accesses[i].op = "load"
Base(i) == program.accesses[i].base
Bases(p) == {p.accesses[i].base : i \in DOMAIN p.accesses}

\* The nodes of the control network.
forkC(b) == <<"forkC", b>>
branchC(b) == <<"branchC", b>>
sync(b) == <<"join", b>>            \* before the control branch of a block
MC(m) == <<"MC", m>>
ack(i) == <<"ack", i>>              \* the fork of an acknowledgement
trigger(i) == <<"trigger", i>>      \* the join before an access
inst(i) == <<"inst", i>>
ret == <<"ret", 0>>
IsJoin(n) == n[1] \in {"join", "trigger"}

\* The accesses of one memory node: the loads first, then the stores.
MemInstCollect(m) ==
  LET ofBase == SelectSeq([k \in 1 .. Len(program.accesses) |-> k],
                          LAMBDA i : Base(i) = m)
  IN  SelectSeq(ofBase, IsLoad) \o SelectSeq(ofBase, LAMBDA i : ~IsLoad(i))
------------------------------------------------------------------------------
\* addMemoryNodesConnection.  A net is the pair of the two graph variables
\* while one memory node is being connected.

Edge(net, u, v) == [net EXCEPT !.succs[u] = Append(@, v)]

\* The fork of i's acknowledgement gets one more successor, and is made first
\* if there is none.
mergeOrInsertMemoryAck(net, i, succ) ==
  LET mem == MC(Base(i))
      index == net.index[i]
  IN  IF index = 0
      THEN [Edge(Edge(net, mem, ack(i)), ack(i), succ) EXCEPT
              !.index[i] = Len(net.succs[mem]) + 1]
      ELSE Edge(net, net.succs[mem][index], succ)

\* Mutant: the join is not connected to the branch.
insertBetween_NoBranch(net, b) ==
  IF branchC(b) \notin ToSet(net.succs[forkC(b)]) THEN net ELSE
  [net EXCEPT !.succs[forkC(b)] = ReplaceAll(@, branchC(b), sync(b))]

\* A join between the control fork and the control branch of block b, unless
\* an access handled before has put it there.
insertBetween(net, b) ==
  IF branchC(b) \notin ToSet(net.succs[forkC(b)]) THEN net ELSE
  Edge([net EXCEPT !.succs[forkC(b)] = ReplaceAll(@, branchC(b), sync(b))],
       sync(b), branchC(b))

\* Mutant: the join is there, the acknowledgement is not connected to it.
syncAccess_JoinOnly(net, i) == insertBetween(net, BB(i))

syncAccess(net, i) ==
  mergeOrInsertMemoryAck(insertBetween(net, BB(i)), i, sync(BB(i)))

\* Mutant: only stores wait.
previous_SkipsLoads(i) ==
  LET insts == MemInstCollect(Base(i))
  IN  SelectSeq(SubSeq(insts, 1, SelectInSeq(insts, LAMBDA j : j = i) - 1),
                LAMBDA j : BB(j) = BB(i) /\ ~IsLoad(i) /\ ~IsLoad(j))

\* "check previous load/store": the accesses of the node listed before i that
\* are in its block and are not a load like i.
previous(i) ==
  LET insts == MemInstCollect(Base(i))
  IN  SelectSeq(SubSeq(insts, 1, SelectInSeq(insts, LAMBDA j : j = i) - 1),
                LAMBDA j : BB(j) = BB(i) /\ ~(IsLoad(i) /\ IsLoad(j)))

\* For each of them the trigger gets an acknowledgement: the code passes the
\* access itself to mergeOrInsertMemoryAck, not the previous one.
setLoadOrStoreTriggerInput(net, i) ==
  IF previous(i) = <<>> THEN Edge(net, forkC(BB(i)), inst(i)) ELSE
  LET control == Edge(net, forkC(BB(i)), trigger(i))
      acked == FoldLeft(LAMBDA n, j : mergeOrInsertMemoryAck(n, i, trigger(i)),
                        control, previous(i))
  IN  Edge(acked, trigger(i), inst(i))

connected(net, m) ==
  FoldLeft(setLoadOrStoreTriggerInput,
           FoldLeft(syncAccess, net, MemInstCollect(m)), MemInstCollect(m))

\* One turn of the loop over MemInstCollect, which a map from pointers orders
\* in any way.
ConnectMemory(m) ==
  LET net == connected([succs |-> JustCntrlSuccs, index |-> MemoryAckIndex], m)
  IN  /\ step = 0 /\ m \in left
      /\ left' = left \ {m}
      /\ JustCntrlSuccs' = net.succs
      /\ MemoryAckIndex' = net.index
      /\ UNCHANGED <<program, step, entered, tokens, pending, done>>
------------------------------------------------------------------------------
\* removeRedundantAfterElastic, as far as it touches these nodes.  It also
\* drops a control fork of one successor, which changes no behaviour.

\* An edge that repeats the one before it goes, if it leads to a join.
withoutRepeats(s) ==
  FoldLeft(LAMBDA r, n : IF r # <<>> /\ Last(r) = n /\ IsJoin(n) THEN r
                         ELSE Append(r, n), <<>>, s)

\* The forks to drop are chosen before their repeated edges go.
single(i) == Len(JustCntrlSuccs[ack(i)]) = 1

\* The memory node loses the fork and gets its successor as its last.
withoutFork(succs, i) ==
  IF ~single(i) THEN succs ELSE
  [succs EXCEPT ![MC(Base(i))] = Append(Remove(@, ack(i)), Head(succs[ack(i)])),
                ![ack(i)] = <<>>]

Edges(succs) == UNION {{<<u, k>> : k \in DOMAIN succs[u]} : u \in DOMAIN succs}

removeRedundantAfterElastic ==
  LET deduped == [n \in DOMAIN JustCntrlSuccs |->
                    IF n[1] = "ack" THEN withoutRepeats(JustCntrlSuccs[n])
                                    ELSE JustCntrlSuccs[n]]
      insts(m) == MemInstCollect(m)
      final == FoldLeft(LAMBDA s, m : FoldLeft(withoutFork, s, insts(m)),
                        deduped, SetToSeq(Bases(program)))
  IN  /\ step = 0 /\ left = {}
      /\ JustCntrlSuccs' = final
      /\ step' = 1
      /\ tokens' = [e \in Edges(final) |-> 0]
      /\ UNCHANGED <<program, left, MemoryAckIndex, entered, pending, done>>
------------------------------------------------------------------------------
\* The circuit.

path == program.path
at == path[step]
returned == step > Len(path)

Out(u) == {e \in DOMAIN tokens : e[1] = u}
Into(v) == {e \in DOMAIN tokens : JustCntrlSuccs[e[1]][e[2]] = v}

Takes(ins, outs) == [e \in DOMAIN tokens |-> tokens[e] + (IF e \in outs THEN 1 ELSE 0)
                                                       - (IF e \in ins THEN 1 ELSE 0)]
Waits(v) == Into(v) # {} /\ \A e \in Into(v) : tokens[e] > 0

\* The control token has come to the block: its fork spreads it.
Enter ==
  /\ step > 0 /\ ~returned /\ ~entered
  /\ tokens' = Takes({}, Out(forkC(at)))
  /\ entered' = TRUE
  /\ UNCHANGED <<program, graph, step, pending, done>>

\* A join with all its inputs, or a fork with its only one, passes a token on.
Fire(u) ==
  /\ Waits(u)
  /\ tokens' = Takes(Into(u), Out(u))
  /\ UNCHANGED <<program, graph, step, entered, pending, done>>

\* A triggered access that has its operands reads or writes the memory.
Perform(i) ==
  /\ Waits(inst(i))
  /\ \A j \in program.accesses[i].uses : done[j] > done[i]
  /\ tokens' = Takes(Into(inst(i)), {})
  /\ pending' = [pending EXCEPT ![i] = @ + 1]
  /\ done' = [done EXCEPT ![i] = @ + 1]
  /\ UNCHANGED <<program, graph, step, entered>>

\* The memory node acknowledges it, on the output whose number is the place of
\* the access in MemInstCollect; an output nothing is connected to is open.
Acknowledge(i) ==
  /\ pending[i] > 0
  /\ pending' = [pending EXCEPT ![i] = @ - 1]
  /\ tokens' = Takes({}, {e \in Out(MC(Base(i))) :
                            MemInstCollect(Base(i))[e[2]] = i})
  /\ UNCHANGED <<program, graph, step, entered, done>>

\* The control branch sends the token to the next block.
BranchControl ==
  /\ step > 0 /\ ~returned /\ Waits(branchC(at))
  /\ tokens' = Takes(Into(branchC(at)), {})
  /\ step' = step + 1 /\ entered' = FALSE
  /\ UNCHANGED <<program, graph, pending, done>>

Return ==
  /\ step = Len(path) /\ Waits(ret)
  /\ tokens' = Takes(Into(ret), {})
  /\ step' = step + 1
  /\ UNCHANGED <<program, graph, entered, pending, done>>

Circuit ==
  \/ Enter
  \/ \E u \in DOMAIN JustCntrlSuccs : IsJoin(u) /\ Fire(u)
  \/ \E i \in Accesses : Fire(ack(i))
  \/ \E i \in Accesses : Perform(i)
  \/ \E i \in Accesses : Acknowledge(i)
  \/ BranchControl
  \/ Return

\* The net addControl leaves: each block's control fork leads to its branch,
\* the last one's to the return.
Init ==
  /\ program \in Programs
  /\ left = Bases(program)
  /\ JustCntrlSuccs =
       LET nodes == {forkC(b) : b \in ToSet(path)} \cup {sync(b) : b \in ToSet(path)}
                    \cup {MC(m) : m \in Bases(program)}
                    \cup {ack(i) : i \in Accesses} \cup {trigger(i) : i \in Accesses}
       IN  [n \in nodes |-> IF n[1] # "forkC" THEN <<>>
                            ELSE IF n[2] = Last(path) THEN <<ret>>
                            ELSE <<branchC(n[2])>>]
  /\ MemoryAckIndex = [i \in Accesses |-> 0]
  /\ step = 0 /\ entered = FALSE
  /\ tokens = <<>>
  /\ pending = [i \in Accesses |-> 0] /\ done = [i \in Accesses |-> 0]

Next ==
  \/ \E m \in left : ConnectMemory(m)
  \/ removeRedundantAfterElastic
  \/ Circuit

Spec == Init /\ [][Next]_vars

\* The pass ends, the circuit is clocked, and the memory answers.
FairSpec == Spec /\ WF_vars(Next)
------------------------------------------------------------------------------
\* A block is left only after its accesses were performed for this execution
\* of it, and no access runs ahead of the control token: its count is that of
\* the executions left, plus one at most for the one the token is in.
AccessesFollowControl ==
  step > 0 => \A i \in Accesses :
    LET past == Cardinality({k \in 1 .. step - 1 : k <= Len(path) /\ path[k] = BB(i)})
    IN  done[i] \in past .. (IF entered /\ ~returned /\ at = BB(i) THEN past + 1 ELSE past)

\* Two accesses to an array, in one block and not both loads, are performed in
\* the order of the program.
ProgramOrder ==
  \A i, j \in Accesses :
    i < j /\ BB(i) = BB(j) /\ Base(i) = Base(j) /\ ~(IsLoad(i) /\ IsLoad(j))
      => done[j] <= done[i]

\* The execution comes to its end, and leaves no token behind.
Drained == step = Len(path) + 1 /\ \A e \in DOMAIN tokens : tokens[e] = 0

EventuallyDrained == <>[]Drained
==============================================================================
