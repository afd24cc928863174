--------------------------- MODULE BufferPlacement ---------------------------
(***************************************************************************)
(* Placement of elastic buffers, after DFnetlist_buffers.cpp: on all       *)
(* channels at once (addElasticBuffersBB) or on the channels of each set   *)
(* of CFDFCs that share blocks and then on the rest (addElasticBuffersBB_sc, *)
(* program.set).  A solution of the mixed-integer program is chosen among  *)
(* those that satisfy its rows; the real variables are potentials, and     *)
(* every row that bounds the difference of two of them is an edge          *)
(* <<u, v, w>>, for v >= u + w, so that the rows can be met exactly if     *)
(* no cycle of edges has a positive weight.                                *)
(*                                                                         *)
(* Each channel has the ports <<c, "out">> at its source and <<c, "in">>   *)
(* at its destination.  Port delays are part of the block's delay, and     *)
(* netlists have no load-store queue.                                      *)
(***************************************************************************)
EXTENDS BasicBlockGraph

CONSTANTS Period, BufferDelay,
          Scale,       \* throughputs are multiples of 1 / Scale
          MaxBuffers,  \* channels a solution may put a register or slots on
          MaxSlots     \* slots of a channel

\* Blocks may take cycles of the clock (lat) or time in one (delay), and take new
\* operands every ii cycles; a memory belongs to no basic block.
ASSUME NetlistAssumption ==
  /\ Period \in Nat /\ BufferDelay \in Nat /\ Scale \in Nat \ {0}
  /\ \A p \in Programs :
       /\ p.blocks \in Seq([type : STRING, bb : 0 .. p.n, lat : Nat, delay : Nat,
                            ii : Nat \ {0}])
       /\ \A b \in DOMAIN p.blocks : p.blocks[b].type = "MC" => p.blocks[b].bb = 0
       /\ p.channels \in Seq((DOMAIN p.blocks) \X (DOMAIN p.blocks))

\* buffer: what each channel is annotated with; throughput: of each CFDFC that
\* was optimized; mg: the next set of CFDFCs to place; inserted: the blocks that
\* were made of the annotations.
VARIABLES buffer, throughput, mg, error, inserted
vars == <<bbgVars, phase, buffer, throughput, mg, error, inserted>>

Channels == DOMAIN program.channels
Blocks == DOMAIN program.blocks
SrcBlock(c) == program.channels[c][1]
DstBlock(c) == program.channels[c][2]
Type(b) == program.blocks[b].type
BBof(b) == program.blocks[b].bb
Latency(b) == program.blocks[b].lat
Delay(b) == program.blocks[b].delay

\* Channels between basic blocks leave a branch for a merge; the others stay in
\* their block.  Memories are in block 0.
isInnerChannel(c) ==
  /\ ~(Type(SrcBlock(c)) = "BRANCH" /\ Type(DstBlock(c)) \in {"MUX", "MERGE", "CNTRL_MG"})
  /\ BBof(SrcBlock(c)) # 0 /\ BBof(DstBlock(c)) # 0
WellFormed ==
  \A c \in Channels :
    \/ {BBof(SrcBlock(c)), BBof(DstBlock(c))} \cap {0} # {}
    \/ (isInnerChannel(c) /\ BBof(SrcBlock(c)) = BBof(DstBlock(c)))
    \/ /\ ~isInnerChannel(c)
       /\ \E a \in Arcs : Src(a) = BBof(SrcBlock(c)) /\ Dst(a) = BBof(DstBlock(c))
\* Blocks are numbered in the order of the program text.
isBackEdge(c) == Type(SrcBlock(c)) = "BRANCH" /\ BBof(SrcBlock(c)) >= BBof(DstBlock(c))

\* The marked graph of a set of arcs: the channels that stay in its blocks and
\* those that follow its arcs.
getMGfromCFDFC(A) ==
  {c \in Channels :
     LET s == BBof(SrcBlock(c))
         d == BBof(DstBlock(c))
     IN  /\ {s, d} \subseteq BBsOf(A)
         /\ isInnerChannel(c) \/ \E a \in A : Src(a) = s /\ Dst(a) = d}
BlocksOf(cs) == {SrcBlock(c) : c \in cs} \cup {DstBlock(c) : c \in cs}
channels_in_MGs == UNION {getMGfromCFDFC(CFDFC[i]) : i \in DOMAIN CFDFC}
blocks_in_MGs == BlocksOf(channels_in_MGs)

toMemory(c) == "MC" \in {Type(SrcBlock(c)), Type(DstBlock(c))}
isLoad(b) == Type(b) = "LOAD"
channels_in_MC_LSQ ==
  {c \in Channels : toMemory(c) /\ (isLoad(SrcBlock(c)) \/ isLoad(DstBlock(c)))}

\* Muxes and merges of several inputs have a buffer of their own.
Inputs(b) == {c \in Channels : DstBlock(c) = b}
hasOwnBuffer(c) ==
  \/ Type(SrcBlock(c)) = "MUX"
  \/ Type(SrcBlock(c)) = "MERGE" /\ Cardinality(Inputs(SrcBlock(c))) > 1

Clear(n) == [slots |-> n, transparent |-> TRUE]
NoBuffer == Clear(0)
Opaque(n) == [slots |-> n, transparent |-> FALSE]
------------------------------------------------------------------------------
\* A set of rows can be met if raising the potentials from 0 leads to some that
\* meet it, within as many rounds as there are potentials and while Zero is 0.
Zero == <<0, "zero">>
Potentials(rows) == {Zero} \cup {r[1] : r \in rows} \cup {r[2] : r \in rows}
Meets(x, rows) ==
  /\ x \in [Potentials(rows) -> Int] /\ x[Zero] = 0
  /\ \A r \in rows : x[r[2]] >= x[r[1]] + r[3]
Satisfiable(rows) ==
  LET nodes == Potentials(rows)
      into == [v \in nodes |-> {r \in rows : r[2] = v}]
      raised[k \in 0 .. Cardinality(nodes)] ==
        IF k = 0 THEN [v \in nodes |-> 0]
        ELSE LET x == raised[k - 1]
             IN  IF Meets(x, rows) \/ x[Zero] # 0 THEN x
                 ELSE [v \in nodes |-> Max({x[v]} \cup {x[r[1]] + r[3] : r \in into[v]})]
  IN  Meets(raised[Cardinality(nodes)], rows)

\* The ports a model has variables for: all, or those of a marked graph and of
\* the border blocks next to it; Joints are the paths through a block.
Out(c) == <<c, "out">>
In(c) == <<c, "in">>
Whole == [chans |-> Channels, ins |-> Channels, outs |-> Channels]
channels_in_borders ==
  {c \in Channels : /\ BBof(SrcBlock(c)) # 0 /\ BBof(DstBlock(c)) # 0
                    /\ (SrcBlock(c) \in blocks_in_MGs) # (DstBlock(c) \in blocks_in_MGs)}
Around(cs) ==
  LET into == {c \in channels_in_borders : DstBlock(c) \in BlocksOf(cs)}
      outOf == {c \in channels_in_borders : SrcBlock(c) \in BlocksOf(cs)}
  IN  [chans |-> cs \cup into \cup outOf, ins |-> cs \cup outOf, outs |-> cs \cup into]
Joints(scope) ==
  {j \in scope.ins \X scope.outs : DstBlock(j[1]) = SrcBlock(j[2])}

\* No path between registers is longer than the period; cut says which channels
\* have a register.
ChannelRows(scope, cut) ==
  UNION {{<<Out(c), Zero, -Period>>, <<In(c), Zero, -Period>>,
          <<Out(c), In(c), IF cut[c] THEN -2 * Period ELSE 0>>,
          <<Zero, In(c), BufferDelay>>} : c \in {d \in scope.chans : ~toMemory(d)}}
BlockRows(scope, bs) ==
  {<<In(j[1]), Out(j[2]), Delay(SrcBlock(j[2]))>> :
     j \in {k \in Joints(scope) : /\ SrcBlock(k[2]) \in bs
                                  /\ Latency(SrcBlock(k[2])) = 0}}
  \cup {<<Out(c), Zero, 0>> :
          c \in {d \in scope.outs : SrcBlock(d) \in bs /\ Latency(SrcBlock(d)) > 0}}
  \cup {<<In(c), Zero, -Period>> :
          c \in {d \in scope.ins : DstBlock(d) \in bs /\ Latency(DstBlock(d)) > 0}}
PathRows(scope, cut) == ChannelRows(scope, cut) \cup BlockRows(scope, Blocks)
createPathConstraints(scope, cut) == Satisfiable(PathRows(scope, cut))
\* A block that is slower than the period ends the placement.
Slow(scope, b) ==
  \/ /\ Latency(b) = 0 /\ Delay(b) + BufferDelay > Period
     /\ \E j \in Joints(scope) : SrcBlock(j[2]) = b
  \/ /\ Latency(b) > 0 /\ Delay(b) > Period
     /\ \E c \in scope.ins \cup scope.outs : b \in {SrcBlock(c), DstBlock(c)}
TooSlow(scope) == \E b \in Blocks : Slow(scope, b)
\* For the remaining channels such a block only ends the rows: those of the blocks
\* before it are written, and nobody looks at what is returned.
createPathConstraints_remaining(cut) ==
  LET written == {b \in Blocks : \A d \in 1 .. b : ~Slow(Whole, d)}
  IN  Satisfiable(ChannelRows(Whole, cut) \cup BlockRows(Whole, written))

\* Every cycle has a register: a path may not return to where it started, as
\* each block adds one and only a register takes off more than all blocks add.
big_constant == Cardinality(Blocks) + 1
\* Mutant: a block adds nothing.
ElasticRows_NoUnitDelay(scope, cut) ==
  {<<Out(c), In(c), IF cut[c] THEN -big_constant ELSE 0>> :
     c \in {d \in scope.chans : ~toMemory(d)}}
  \cup {<<In(j[1]), Out(j[2]), 0>> : j \in Joints(scope)}
ElasticRows(scope, cut) ==
  {<<Out(c), In(c), IF cut[c] THEN -big_constant ELSE 0>> :
     c \in {d \in scope.chans : ~toMemory(d)}}
  \cup {<<In(j[1]), Out(j[2]), 1>> : j \in Joints(scope)}
createElasticityConstraints(scope, cut) == Satisfiable(ElasticRows(scope, cut))

\* Tokens move between the blocks of a marked graph at the rate th: a channel
\* holds th + flop - 1 to slots + 1 - th - flop of them, and not more than its
\* slots; a pipelined unit holds th * latency to latency / ii.  The inputs of a
\* select that are rarely chosen are left out.
Enter(b) == <<b, "enter">>
Leave(b) == IF Latency(b) > 0 THEN <<b, "leave">> ELSE Enter(b)
\* Mutant: a register takes no time.
TokenRows_NoFlop(c, th, flop, slots) ==
  LET token == IF isBackEdge(c) THEN Scale ELSE 0
      s == Leave(SrcBlock(c))
      d == Enter(DstBlock(c))
  IN  {<<s, d, Max({0, th - Scale}) - token>>, <<d, s, token - Scale * slots>>}
TokenRows(c, th, flop, slots) ==
  LET token == IF isBackEdge(c) THEN Scale ELSE 0
      s == Leave(SrcBlock(c))
      d == Enter(DstBlock(c))
      least == Max({0, th + Scale * (flop - 1)})
      most == Min({Scale * slots, Scale * (slots + 1 - flop) - th})
  IN  {<<s, d, least - token>>, <<d, s, token - most>>}
createThroughputConstraints(cs, th, flop, slots) ==
  Satisfiable(
    (UNION {TokenRows(c, th, flop[c], slots[c]) : c \in cs \ program.rare})
    \cup
    (UNION {{<<Enter(b), Leave(b), th * Latency(b)>>,
             <<Leave(b), Enter(b), -((Scale * Latency(b)) \div program.blocks[b].ii)>>} :
              b \in {d \in BlocksOf(cs) : Latency(d) > 0}}))
------------------------------------------------------------------------------
\* A placement on cs: the channels with a register and the slots of each.
Placements(cs, registers) ==
  UNION {UNION {{[flop |-> [c \in cs |-> IF c \in F THEN 1 ELSE 0],
                  slots |-> [c \in cs |-> IF c \in S THEN n[c] ELSE 0]] :
                   n \in [S -> 1 .. MaxSlots]} :
                S \in {T \in SUBSET cs : Cardinality(T \cup F) <= MaxBuffers}} :
         F \in registers}
FewChannels(cs) == {F \in SUBSET cs : Cardinality(F) <= MaxBuffers}

\* The registers of the channels a model has variables for, and those there are.
Cuts(scope, cs, F) ==
  [c \in scope.chans |-> IF c \in cs THEN c \in F ELSE ~buffer[c].transparent]
\* For the channels with a buffer of their own, the model of a set of CFDFCs
\* gives variables 0 and 1 for the constants 0 and 1, in the rows of elasticity:
\* the register and the slots of the first channel.
AsFirst(cs, c) == program.set /\ c \in cs /\ hasOwnBuffer(c)
ElasticCuts(scope, cs, F) ==
  [c \in scope.chans |-> Cuts(scope, cs, F)[IF AsFirst(cs, c) THEN Min(cs) ELSE c]]
Registers(scope, cs) ==
  {F \in FewChannels(cs) :
     /\ createPathConstraints(scope, Cuts(scope, cs, F))
     /\ createElasticityConstraints(scope, ElasticCuts(scope, cs, F))}
SlotRows(cs, p) ==
  \A c \in cs : LET k == IF AsFirst(cs, c) THEN Min(cs) ELSE c
                IN  toMemory(c) \/ p.slots[k] >= p.flop[k]

\* A solution: a placement and a rate for each marked graph that it allows.
Rates(i, p) ==
  {th \in 0 .. Scale :
     createThroughputConstraints(getMGfromCFDFC(CFDFC[i]), th, p.flop, p.slots)}
Feasible(scope, cs, mgs) ==
  UNION {LET rates == [i \in mgs |-> Rates(i, p)]
         IN  {[rate |-> th, flop |-> p.flop, slots |-> p.slots] :
                th \in {f \in [mgs -> 0 .. Scale] : \A i \in mgs : f[i] \in rates[i]}} :
           p \in {q \in Placements(cs, Registers(scope, cs)) : SlotRows(cs, q)}}

\* Throughput, weighted by the executions and the size of the marked graphs,
\* comes first; then few buffers, and few slots.
Weight(i) == CFDFCfreq[i] * Cardinality(getMGfromCFDFC(CFDFC[i]))
Value(mgs, p) ==
  1000 * MapThenSumSet(LAMBDA i : Weight(i) * p.rate[i], mgs)
    - MapThenSumSet(LAMBDA c : IF p.slots[c] > 0 THEN 10 + p.slots[c] ELSE 0,
                    DOMAIN p.slots)
\* The solver returns the best, or any if the time was up.
Solutions(scope, cs, mgs) ==
  LET valued == {<<Value(mgs, p), p>> : p \in Feasible(scope, cs, mgs)}
      best == Max({v[1] : v \in valued})
  IN  {v[2] : v \in {w \in valued : program.timeout \/ w[1] = best}}
Annotated(p, c) == IF p.flop[c] = 1 THEN Opaque(p.slots[c]) ELSE Clear(p.slots[c])
Annotate(p) ==
  [c \in Channels |-> IF c \in DOMAIN p.slots \ channels_in_MC_LSQ /\ p.slots[c] > 0
                      THEN Annotated(p, c) ELSE buffer[c]]
FirstOf(mgs) == IF program.first THEN {Min(mgs)} ELSE mgs
------------------------------------------------------------------------------
Init ==
  /\ BBGInit /\ WellFormed
  /\ buffer = [c \in Channels |-> NoBuffer]
  /\ throughput = << >> /\ mg = 1 /\ error = FALSE
  /\ inserted = [c \in Channels |-> NoBuffer]

ControlFlow ==
  /\ Visit \/ calculateBackArcs \/ extractMarkedGraphBB
  /\ UNCHANGED <<buffer, throughput, mg, error, inserted>>

\* Nothing to optimize: no buffer is placed.
NoCoverage ==
  /\ extracted /\ CFDFC = <<>>
  /\ phase' = "failed"
  /\ UNCHANGED <<bbgVars, buffer, throughput, mg, error, inserted>>

Fail == phase' = "failed" /\ error' = TRUE
        /\ UNCHANGED <<bbgVars, buffer, throughput, mg, inserted>>

\* All channels in one model.
addElasticBuffersBB ==
  /\ extracted /\ CFDFC # <<>> /\ ~program.set
  /\ LET mgs == FirstOf(DOMAIN CFDFC)
         found == IF TooSlow(Whole) THEN {} ELSE Solutions(Whole, Channels, mgs)
     IN  \/ found = {} /\ Fail
         \/ /\ \E p \in found : buffer' = Annotate(p) /\ throughput' = p.rate
            /\ phase' = "instantiate"
            /\ UNCHANGED <<bbgVars, mg, error, inserted>>

\* Channels with one end in a marked graph get a register.
addBorderBuffers ==
  /\ extracted /\ CFDFC # <<>> /\ program.set
  /\ buffer' = [c \in Channels |->
                  IF hasOwnBuffer(c) THEN Clear(1)
                  ELSE IF c \in channels_in_borders THEN Opaque(1) ELSE buffer[c]]
  /\ phase' = "sets"
  /\ UNCHANGED <<bbgVars, throughput, mg, error, inserted>>

\* One model for each set of CFDFCs, and one for the remaining channels.
MG_disjoint(I) == getMGfromCFDFC(UNION {CFDFC[i] : i \in I})
addElasticBuffersBB_sc ==
  /\ phase = "sets" /\ mg <= Len(calculateDisjointCFDFCs)
  /\ LET comp == calculateDisjointCFDFCs[mg]
         cs == MG_disjoint(comp)
         mgs == FirstOf(comp)
         found == IF TooSlow(Around(cs)) THEN {} ELSE Solutions(Around(cs), cs, mgs)
     IN  \/ found = {} /\ Fail
         \/ /\ \E p \in found : /\ buffer' = Annotate(p)
                               /\ throughput' = p.rate @@ throughput
            /\ mg' = mg + 1
            /\ UNCHANGED <<bbgVars, phase, error, inserted>>

Remaining == Channels \ (channels_in_MGs \cup channels_in_borders)
\* The fewest registers.  There is an error without a solution, or if a block is
\* too slow, but what was placed stays.
createMilpVars_remaining ==
  /\ phase = "sets" /\ mg > Len(calculateDisjointCFDFCs)
  /\ LET found == {F \in FewChannels(Remaining) :
                     /\ createPathConstraints_remaining(Cuts(Whole, Remaining, F))
                     /\ createElasticityConstraints(Whole, Cuts(Whole, Remaining, F))}
         fewest == {F \in found : program.timeout
                      \/ \A G \in found : Cardinality(F) <= Cardinality(G)}
     IN  /\ error' = (found = {} \/ TooSlow(Whole))
         /\ \/ found = {} /\ UNCHANGED buffer
            \/ \E F \in fewest :
                 buffer' = [c \in Channels |-> IF c \in F \ channels_in_MC_LSQ
                                               THEN Opaque(1) ELSE buffer[c]]
  /\ phase' = "instantiate"
  /\ UNCHANGED <<bbgVars, throughput, mg, inserted>>

\* The blocks made of the annotations: a channel with a buffer of its own gets
\* one if the annotation was changed, with a slot less of two.
\* Mutant: also an opaque annotation of one slot is what the channel has.
Instance_OwnIsEnough(c) ==
  IF buffer[c].slots = 0 \/ (hasOwnBuffer(c) /\ buffer[c].slots = 1)
  THEN NoBuffer
  ELSE IF hasOwnBuffer(c) /\ buffer[c].slots = 2 THEN [buffer[c] EXCEPT !.slots = 1]
  ELSE buffer[c]
Instance(c) ==
  IF \/ buffer[c].slots = 0
     \/ hasOwnBuffer(c) /\ buffer[c] = Clear(1)
  THEN NoBuffer
  ELSE IF hasOwnBuffer(c) /\ buffer[c].slots = 2 THEN [buffer[c] EXCEPT !.slots = 1]
  ELSE buffer[c]
instantiateElasticBuffers ==
  /\ phase = "instantiate"
  /\ inserted' = [c \in Channels |-> Instance(c)]
  /\ phase' = "done"
  /\ UNCHANGED <<bbgVars, buffer, throughput, mg, error>>

Next == \/ ControlFlow \/ NoCoverage \/ addElasticBuffersBB \/ addBorderBuffers
        \/ addElasticBuffersBB_sc \/ createMilpVars_remaining
        \/ instantiateElasticBuffers
Spec == Init /\ [][Next]_vars
------------------------------------------------------------------------------
\* Every cycle of channels has an opaque buffer, "the model also guarantees that
\* every cycle is elastic".  Without one the handshake signals of the cycle
\* depend on themselves.
Transparent == {c \in Channels : ~toMemory(c) /\ inserted[c].transparent}
EveryCycleIsElastic ==
  phase = "done" =>
    \A c \in Transparent : ~Leads(Transparent, SrcBlock, DstBlock, DstBlock(c), SrcBlock(c))

\* The delays of paths that start at a channel: of a channel alone, and of those
\* one channel longer than the paths R.  A path goes through blocks and
\* transparent buffers.
after(R, b) == {t[2] : t \in {u \in R : u[1] \in Transparent /\ SrcBlock(u[1]) = b}}
Longer(R) ==
  {<<c, IF Latency(DstBlock(c)) > 0 THEN 0
        ELSE Delay(DstBlock(c)) + Max({0} \cup after(R, DstBlock(c)))>> : c \in Channels}
longest[k \in 0 .. Cardinality(Channels)] ==
  IF k = 0 THEN {<<c, 0>> : c \in Channels} ELSE Longer(longest[k - 1])

\* No path from a register to the next is longer than the period, "no
\* combinational path is longer than the period".
PathsMeetPeriod ==
  phase = "done" =>
    \A t \in longest[Cardinality(Channels)] :
      ~toMemory(t[1]) => BufferDelay + t[2] <= Period

\* The throughput that was reported for a marked graph is one its cycles can
\* sustain: the tokens that run on a cycle cover the cycles of the clock its
\* registers and pipelined units take, and have slots to be in.
Cycles(cs) ==
  {S \in SUBSET cs \ {{}} :
     \A c \in S : /\ Cardinality({d \in S : SrcBlock(d) = DstBlock(c)}) = 1
                  /\ Cardinality({d \in S : DstBlock(d) = SrcBlock(c)}) = 1}
ThroughputIsSustained ==
  phase = "done" =>
    \A i \in DOMAIN throughput : \A S \in Cycles(getMGfromCFDFC(CFDFC[i]) \ program.rare) :
      LET tokens == Cardinality({c \in S : isBackEdge(c)})
          latency == SumFunction([c \in S |-> Latency(DstBlock(c))])
          registers == {c \in S : ~buffer[c].transparent}
          slots == SumFunction([c \in S |-> buffer[c].slots])
      IN  /\ throughput[i] * (Cardinality(registers) + latency) <= Scale * tokens
          /\ throughput[i] * Cardinality(registers)
               <= Scale * (slots + latency - tokens)
==============================================================================
