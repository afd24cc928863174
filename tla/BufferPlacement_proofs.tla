------------------------ MODULE BufferPlacement_proofs ------------------------
(***************************************************************************)
(* Placement of all channels in one model, for every netlist: every cycle  *)
(* of channels has a register, no path between registers is longer than    *)
(* the period, and the cycles of the marked graphs sustain the throughput  *)
(* that is reported.  And the control flow the placement starts from: the  *)
(* back arcs cut every cycle of blocks, and every selection of arcs is one *)
(* cycle.                                                                  *)
(***************************************************************************)
EXTENDS BufferPlacement, SequenceTheorems, FiniteSetTheorems, WellFoundedInduction, TLAPS

\* What the rows of a model say, of netlist p with a register on the channels F:
\* channels without a register have numbers that grow along every path,
src(p, c) == p.channels[c][1]
dst(p, c) == p.channels[c][2]
memory(p, c) == "MC" \in {p.blocks[src(p, c)].type, p.blocks[dst(p, c)].type}
chans(p) == {c \in DOMAIN p.channels : ~memory(p, c)}
Ranked(p, F) ==
  \E rank \in [chans(p) -> Int] :
    \A c \in chans(p), d \in chans(p) \ F : dst(p, c) = src(p, d) => rank[c] < rank[d]

\* and arrival times that are within the period and respect the delays.
Timed(p, F) ==
  \E time \in [chans(p) -> Int] :
    /\ \A c \in chans(p) : BufferDelay <= time[c] /\ time[c] <= Period
    /\ \A c \in chans(p), d \in chans(p) \ F :
         dst(p, c) = src(p, d) /\ p.blocks[src(p, d)].lat = 0
           => time[c] + p.blocks[src(p, d)].delay <= time[d]
    /\ \A c \in chans(p), d \in chans(p) :
         dst(p, c) = src(p, d) /\ p.blocks[src(p, d)].lat = 0
           => time[c] + p.blocks[src(p, d)].delay <= Period

\* A netlist has the parts it should have.
LEMMA NetlistTypes ==
  ASSUME NEW p \in Programs
  PROVE  /\ \A b \in DOMAIN p.blocks :
              p.blocks[b].lat \in Nat /\ p.blocks[b].delay \in Nat
              /\ p.blocks[b].ii \in Nat \ {0} /\ p.blocks[b].bb \in 0 .. p.n
         /\ \A c \in DOMAIN p.channels :
              src(p, c) \in DOMAIN p.blocks /\ dst(p, c) \in DOMAIN p.blocks
<1> DEFINE Block == [type : STRING, bb : 0 .. p.n, lat : Nat, delay : Nat,
                     ii : Nat \ {0}]
<1>1. p.blocks \in Seq(Block)
      BY NetlistAssumption
<1>2. p.channels \in Seq((DOMAIN p.blocks) \X (DOMAIN p.blocks))
      BY NetlistAssumption
<1>3. ASSUME NEW b \in DOMAIN p.blocks
      PROVE  p.blocks[b] \in Block
  <2> HIDE DEF Block
  <2>1. DOMAIN p.blocks = 1 .. Len(p.blocks)
        BY <1>1, LenProperties
  <2> QED BY <1>1, <2>1, ElementOfSeq
<1>4. ASSUME NEW c \in DOMAIN p.channels
      PROVE  p.channels[c] \in (DOMAIN p.blocks) \X (DOMAIN p.blocks)
      BY <1>2, ElementOfSeq, LenProperties
<1> QED BY <1>3, <1>4 DEF src, dst

\* A set of rows that can be met is met by some potentials.
LEMMA PotentialsMeet ==
  ASSUME NEW rows, Satisfiable(rows)
  PROVE  \E x \in [Potentials(rows) -> Int] :
           x[Zero] = 0 /\ \A r \in rows : x[r[2]] >= x[r[1]] + r[3]
BY DEF Satisfiable, Meets

registers(F) == [c \in Channels |-> c \in F]

LEMMA ElasticityRanks ==
  ASSUME program \in Programs, NEW F \in SUBSET Channels,
         createElasticityConstraints(Whole, registers(F))
  PROVE  Ranked(program, F)
<1> DEFINE rows == ElasticRows(Whole, registers(F))
           p == program
<1>1. PICK x \in [Potentials(rows) -> Int] :
        x[Zero] = 0 /\ \A r \in rows : x[r[2]] >= x[r[1]] + r[3]
      BY PotentialsMeet DEF createElasticityConstraints
<1>2. ASSUME NEW c \in chans(p)
      PROVE  <<Out(c), In(c), IF c \in F THEN -big_constant ELSE 0>> \in rows
      BY DEF ElasticRows, chans, Whole, Channels, memory, toMemory, src, dst, SrcBlock,
         DstBlock, Type, registers
<1>3. ASSUME NEW c \in chans(p), NEW d \in chans(p), dst(p, c) = src(p, d)
      PROVE  <<In(c), Out(d), 1>> \in rows
  <2>1. <<c, d>> \in Joints(Whole)
        BY <1>3 DEF Joints, Whole, chans, Channels, src, dst, SrcBlock, DstBlock
  <2>2. <<c, d>>[1] = c /\ <<c, d>>[2] = d
        OBVIOUS
  <2> QED BY <2>1, <2>2 DEF ElasticRows
<1>4. \A c \in chans(p) : Out(c) \in Potentials(rows) /\ In(c) \in Potentials(rows)
  <2> TAKE c \in chans(p)
  <2> DEFINE r == <<Out(c), In(c), IF c \in F THEN -big_constant ELSE 0>>
  <2>1. r \in rows /\ r[1] = Out(c) /\ r[2] = In(c)
        BY <1>2
  <2> HIDE DEF r, rows
  <2> QED BY <2>1 DEF Potentials
<1> DEFINE rank == [c \in chans(p) |-> x[In(c)]]
<1>5. rank \in [chans(p) -> Int]
      BY <1>4
<1>6. ASSUME NEW c \in chans(p), NEW d \in chans(p) \ F, dst(p, c) = src(p, d)
      PROVE  rank[c] < rank[d]
  <2> HIDE DEF rows
  <2>1. <<In(c), Out(d), 1>> \in rows /\ <<Out(d), In(d), 0>> \in rows
        BY <1>2, <1>3, <1>6
  <2>2. x[Out(d)] >= x[In(c)] + 1 /\ x[In(d)] >= x[Out(d)] + 0
        BY <2>1, <1>1
  <2>3. x[Out(d)] \in Int /\ x[In(c)] \in Int /\ x[In(d)] \in Int
        BY <1>4
  <2> QED BY <2>2, <2>3
<1> QED BY <1>5, <1>6 DEF Ranked

LEMMA PathTimes ==
  ASSUME program \in Programs, NEW F \in SUBSET Channels,
         createPathConstraints(Whole, registers(F))
  PROVE  Timed(program, F)
<1> DEFINE rows == PathRows(Whole, registers(F))
           p == program
<1>1. PICK x \in [Potentials(rows) -> Int] :
        x[Zero] = 0 /\ \A r \in rows : x[r[2]] >= x[r[1]] + r[3]
      BY PotentialsMeet DEF createPathConstraints
<1>2. ASSUME NEW c \in chans(p)
      PROVE  /\ <<In(c), Zero, -Period>> \in rows /\ <<Zero, In(c), BufferDelay>> \in rows
             /\ <<Out(c), In(c), IF c \in F THEN -2 * Period ELSE 0>> \in rows
             /\ <<Out(c), Zero, -Period>> \in rows
  <2> DEFINE own == {<<Out(c), Zero, -Period>>, <<In(c), Zero, -Period>>,
                     <<Out(c), In(c), IF registers(F)[c] THEN -2 * Period ELSE 0>>,
                     <<Zero, In(c), BufferDelay>>}
  <2>1. c \in {d \in Whole.chans : ~toMemory(d)}
        BY DEF chans, Whole, Channels, memory, toMemory, src, dst, SrcBlock, DstBlock, Type
  <2>2. own \subseteq rows
    <3>1. own \subseteq ChannelRows(Whole, registers(F))
          BY <2>1 DEF ChannelRows
    <3> QED BY <3>1 DEF PathRows
  <2>3. registers(F)[c] = (c \in F)
        BY <2>1 DEF registers, Whole
  <2> HIDE DEF rows
  <2> QED BY <2>2, <2>3
<1>3. ASSUME NEW c \in chans(p), NEW d \in chans(p), dst(p, c) = src(p, d),
             p.blocks[src(p, d)].lat = 0
      PROVE  <<In(c), Out(d), p.blocks[src(p, d)].delay>> \in rows
  <2>1. SrcBlock(d) \in Blocks
        BY NetlistTypes DEF chans, Blocks, SrcBlock, src
  <2>2. <<c, d>> \in {k \in Joints(Whole) : /\ SrcBlock(k[2]) \in Blocks
                                           /\ Latency(SrcBlock(k[2])) = 0}
        BY <1>3, <2>1 DEF Joints, Whole, chans, Channels, src, dst, SrcBlock, DstBlock, Latency
  <2>3. <<c, d>>[1] = c /\ <<c, d>>[2] = d /\ Delay(SrcBlock(d)) = p.blocks[src(p, d)].delay
        BY DEF Delay, SrcBlock, src
  <2>4. <<In(c), Out(d), p.blocks[src(p, d)].delay>> \in BlockRows(Whole, Blocks)
        BY <2>2, <2>3 DEF BlockRows
  <2> QED BY <2>4 DEF PathRows
<1>4. \A c \in chans(p) : Out(c) \in Potentials(rows) /\ In(c) \in Potentials(rows)
  <2> TAKE c \in chans(p)
  <2> DEFINE r == <<Out(c), In(c), IF c \in F THEN -2 * Period ELSE 0>>
  <2>1. r \in rows /\ r[1] = Out(c) /\ r[2] = In(c)
        BY <1>2
  <2> HIDE DEF r, rows
  <2> QED BY <2>1 DEF Potentials
<1> DEFINE time == [c \in chans(p) |-> x[In(c)]]
<1> HIDE DEF rows
<1>5. time \in [chans(p) -> Int]
      BY <1>4
<1>6. ASSUME NEW c \in chans(p)
      PROVE  BufferDelay <= time[c] /\ time[c] <= Period
  <2>1. x[Zero] >= x[In(c)] + (-Period) /\ x[In(c)] >= x[Zero] + BufferDelay
        BY <1>1, <1>2
  <2>2. x[Zero] = 0 /\ x[In(c)] \in Int /\ time[c] = x[In(c)]
        BY <1>1, <1>4
  <2> QED BY <2>1, <2>2, NetlistAssumption
<1>7. ASSUME NEW c \in chans(p), NEW d \in chans(p) \ F, dst(p, c) = src(p, d),
             p.blocks[src(p, d)].lat = 0
      PROVE  time[c] + p.blocks[src(p, d)].delay <= time[d]
  <2> DEFINE w == p.blocks[src(p, d)].delay
  <2>1. <<In(c), Out(d), w>> \in rows /\ <<Out(d), In(d), 0>> \in rows
        BY <1>2, <1>3, <1>7
  <2>2. x[Out(d)] >= x[In(c)] + w /\ x[In(d)] >= x[Out(d)] + 0
        BY <2>1, <1>1
  <2>3. x[Out(d)] \in Int /\ x[In(c)] \in Int /\ x[In(d)] \in Int /\ w \in Nat
    <3>1. src(p, d) \in DOMAIN p.blocks
          BY NetlistTypes DEF chans
    <3> QED BY <1>4, <3>1, NetlistTypes
  <2>4. time[c] = x[In(c)] /\ time[d] = x[In(d)]
        OBVIOUS
  <2> HIDE DEF w, time
  <2> QED BY <2>2, <2>3, <2>4 DEF w
<1>8. ASSUME NEW c \in chans(p), NEW d \in chans(p), dst(p, c) = src(p, d),
             p.blocks[src(p, d)].lat = 0
      PROVE  time[c] + p.blocks[src(p, d)].delay <= Period
  <2> DEFINE w == p.blocks[src(p, d)].delay
  <2>1. <<In(c), Out(d), w>> \in rows /\ <<Out(d), Zero, -Period>> \in rows
        BY <1>2, <1>3, <1>8
  <2>2. x[Out(d)] >= x[In(c)] + w /\ x[Zero] >= x[Out(d)] + (-Period)
        BY <2>1, <1>1
  <2>3. x[Out(d)] \in Int /\ x[In(c)] \in Int /\ x[Zero] = 0 /\ w \in Nat
    <3>1. src(p, d) \in DOMAIN p.blocks
          BY NetlistTypes DEF chans
    <3> QED BY <1>1, <1>4, <3>1, NetlistTypes
  <2>4. time[c] = x[In(c)] /\ Period \in Nat
        BY NetlistAssumption
  <2> HIDE DEF w, time
  <2> QED BY <2>2, <2>3, <2>4 DEF w
<1> QED BY <1>5, <1>6, <1>7, <1>8 DEF Timed
------------------------------------------------------------------------------
\* What the annotations of netlist p are, F being the channels the model put a
\* register on and n their slots: memories of loads are left out.
toLoad(p, c) == memory(p, c) /\ "LOAD" \in {p.blocks[src(p, c)].type, p.blocks[dst(p, c)].type}
Annotations(p, F, n) ==
  [c \in DOMAIN p.channels |->
     IF toLoad(p, c) \/ n[c] = 0 THEN NoBuffer
     ELSE IF c \in F THEN Opaque(n[c]) ELSE Clear(n[c])]

\* The model that was solved, once all channels were placed in one.
Solved(p, b) ==
  \E F \in SUBSET (DOMAIN p.channels), n \in [DOMAIN p.channels -> Nat] :
    /\ Ranked(p, F) /\ Timed(p, F)
    /\ \A c \in chans(p) \cap F : n[c] > 0
    /\ b = Annotations(p, F, n)

\* With program.set off, the annotations are those of one model, and the blocks
\* are made of them.
WholeInv ==
  /\ program \in Programs
  /\ phase \in {"dfs", "extract"} => buffer = [c \in Channels |-> NoBuffer]
  /\ phase = "sets" => program.set
  /\ ~program.set /\ phase \in {"instantiate", "done"} => Solved(program, buffer)
  /\ ~program.set /\ phase = "done" =>
       \A c \in DOMAIN program.channels : inserted[c].transparent = buffer[c].transparent

\* A solution is a set of registers and slots that meet the rows.
LEMMA SolutionPlaces ==
  ASSUME program \in Programs, ~program.set, NEW mgs,
         NEW p \in Solutions(Whole, Channels, mgs)
  PROVE  \E F \in SUBSET Channels, n \in [Channels -> Nat] :
           /\ createPathConstraints(Whole, registers(F))
           /\ createElasticityConstraints(Whole, registers(F))
           /\ p.slots = n
           /\ \A c \in Channels : p.flop[c] = IF c \in F THEN 1 ELSE 0
           /\ \A c \in chans(program) \cap F : n[c] > 0
<1>1. p \in Feasible(Whole, Channels, mgs)
  <2> DEFINE valued == {<<Value(mgs, s), s>> : s \in Feasible(Whole, Channels, mgs)}
  <2>1. PICK v \in valued : p = v[2]
        BY DEF Solutions
  <2>2. PICK s \in Feasible(Whole, Channels, mgs) : v = <<Value(mgs, s), s>>
        BY <2>1
  <2> QED BY <2>1, <2>2
<1>2. PICK q \in Placements(Channels, Registers(Whole, Channels)) :
        SlotRows(Channels, q) /\ p.flop = q.flop /\ p.slots = q.slots
      BY <1>1 DEF Feasible
<1> DEFINE placed(F, S, m) == [flop |-> [c \in Channels |-> IF c \in F THEN 1 ELSE 0],
                               slots |-> [c \in Channels |-> IF c \in S THEN m[c] ELSE 0]]
           ofSlots(F, S) == {placed(F, S, m) : m \in [S -> 1 .. MaxSlots]}
           ofRegisters(F) ==
             UNION {ofSlots(F, S) :
               S \in {T \in SUBSET Channels : Cardinality(T \cup F) <= MaxBuffers}}
<1>3. PICK F \in Registers(Whole, Channels), S \in SUBSET Channels :
        q \in ofSlots(F, S)
  <2>1. Placements(Channels, Registers(Whole, Channels))
          = UNION {ofRegisters(F) : F \in Registers(Whole, Channels)}
        BY DEF Placements
  <2> HIDE DEF ofRegisters
  <2>2. PICK F \in Registers(Whole, Channels) : q \in ofRegisters(F)
        BY <2>1
  <2> USE DEF ofRegisters
  <2> HIDE DEF ofSlots
  <2>3. \E S \in SUBSET Channels : q \in ofSlots(F, S)
        BY <2>2
  <2> QED BY <2>3
<1>4. PICK m \in [S -> 1 .. MaxSlots] : q = placed(F, S, m)
      BY <1>3
<1>5. F \in SUBSET Channels
      BY DEF Registers, FewChannels
<1>6. /\ Cuts(Whole, Channels, F) = registers(F)
      /\ ElasticCuts(Whole, Channels, F) = registers(F)
      BY <1>5 DEF Cuts, ElasticCuts, AsFirst, Whole, registers
<1>7. /\ createPathConstraints(Whole, registers(F))
      /\ createElasticityConstraints(Whole, registers(F))
      BY <1>6 DEF Registers
<1>8. q.slots \in [Channels -> Nat]
      BY <1>4
<1>9. \A c \in chans(program) \cap F : q.slots[c] > 0
  <2> TAKE c \in chans(program) \cap F
  <2>1. c \in Channels /\ ~toMemory(c)
        BY DEF chans, Channels, memory, toMemory, src, dst, SrcBlock, DstBlock, Type
  <2>2. q.slots[c] >= q.flop[c]
        BY <1>2, <2>1 DEF SlotRows, AsFirst
  <2>3. q.flop[c] = 1
        BY <1>4, <2>1
  <2> QED BY <2>1, <2>2, <2>3, <1>8
<1> QED BY <1>2, <1>4, <1>5, <1>7, <1>8, <1>9

LEMMA OneModelSolves ==
  ASSUME WholeInv, addElasticBuffersBB, phase' = "instantiate"
  PROVE  Solved(program, buffer')
<1>1. program \in Programs /\ ~program.set /\ phase = "extract"
      BY DEF WholeInv, addElasticBuffersBB, extracted
<1>2. PICK mgs : \E p \in Solutions(Whole, Channels, mgs) : buffer' = Annotate(p)
      BY DEF addElasticBuffersBB, Fail
<1> PICK p \in Solutions(Whole, Channels, mgs) : buffer' = Annotate(p)
    BY <1>2
<1>3. PICK F \in SUBSET Channels, n \in [Channels -> Nat] :
        /\ createPathConstraints(Whole, registers(F))
        /\ createElasticityConstraints(Whole, registers(F))
        /\ p.slots = n
        /\ \A c \in Channels : p.flop[c] = IF c \in F THEN 1 ELSE 0
        /\ \A c \in chans(program) \cap F : n[c] > 0
      BY <1>1, SolutionPlaces
<1>4. Annotate(p) = Annotations(program, F, n)
  <2>1. \A c \in Channels : c \in channels_in_MC_LSQ <=> toLoad(program, c)
        BY DEF channels_in_MC_LSQ, toLoad, memory, src, dst, toMemory, isLoad, Type, SrcBlock,
           DstBlock
  <2>2. \A c \in Channels : buffer[c] = NoBuffer
        BY <1>1 DEF WholeInv
  <2>3. DOMAIN p.slots = Channels /\ \A c \in Channels : n[c] \in Nat
        BY <1>3
  <2>4. ASSUME NEW c \in Channels
        PROVE  Annotate(p)[c] = Annotations(program, F, n)[c]
    <3>1. p.flop[c] = 1 <=> c \in F
          BY <1>3
    <3> QED BY <1>3, <2>1, <2>2, <2>3, <3>1 DEF Annotate, Annotated, Annotations, Channels
  <2> QED BY <2>4 DEF Annotate, Annotations, Channels
<1>5. Ranked(program, F) /\ Timed(program, F)
      BY <1>1, <1>3, ElasticityRanks, PathTimes
<1> QED BY <1>3, <1>4, <1>5 DEF Solved, Channels

LEMMA WholeInitInv == Init => WholeInv
BY DEF Init, BBGInit, WholeInv

LEMMA WholeNextInv == WholeInv /\ [Next]_vars => WholeInv'
<1> SUFFICES ASSUME WholeInv, [Next]_vars PROVE WholeInv'
    OBVIOUS
<1> USE DEF WholeInv
<1>1. CASE ControlFlow
      BY <1>1 DEF ControlFlow, Visit, calculateBackArcs, extractMarkedGraphBB, Channels
<1>2. CASE NoCoverage
      BY <1>2 DEF NoCoverage, bbgVars
<1>3. CASE addElasticBuffersBB
  <2>1. CASE phase' = "instantiate"
    <3>1. Solved(program, buffer')
          BY <1>3, <2>1, OneModelSolves
    <3> QED BY <1>3, <2>1, <3>1 DEF addElasticBuffersBB, Fail, bbgVars
  <2>2. CASE phase' # "instantiate"
        BY <1>3, <2>2 DEF addElasticBuffersBB, Fail, bbgVars
  <2> QED BY <2>1, <2>2
<1>4. CASE addBorderBuffers
      BY <1>4 DEF addBorderBuffers, bbgVars
<1>5. CASE addElasticBuffersBB_sc
      BY <1>5 DEF addElasticBuffersBB_sc, Fail, bbgVars
<1>6. CASE createMilpVars_remaining
      BY <1>6 DEF createMilpVars_remaining, bbgVars
<1>7. CASE instantiateElasticBuffers
  <2>1. ASSUME ~program.set, NEW c \in Channels
        PROVE  Instance(c).transparent = buffer[c].transparent
    <3>1. PICK F \in SUBSET Channels, n \in [Channels -> Nat] :
            buffer = Annotations(program, F, n)
          BY <1>7, <2>1 DEF instantiateElasticBuffers, Solved, Channels
    <3>2. buffer[c] \in {NoBuffer, Opaque(n[c]), Clear(n[c])}
          BY <3>1 DEF Annotations, Channels
    <3>3. buffer[c].slots = 0 => buffer[c] = NoBuffer
          BY <3>1 DEF Annotations, Channels, Opaque, Clear
    <3>4. PICK k \in Nat, t \in BOOLEAN : buffer[c] = [slots |-> k, transparent |-> t]
          BY <3>2 DEF NoBuffer, Opaque, Clear
    <3>6. CASE buffer[c].slots = 0
          BY <3>3, <3>6 DEF Instance, NoBuffer, Clear
    <3>7. CASE hasOwnBuffer(c) /\ k = 1 /\ t
          BY <3>4, <3>7 DEF Instance, NoBuffer, Clear
    <3>8. CASE buffer[c].slots # 0 /\ ~(hasOwnBuffer(c) /\ k = 1 /\ t)
      <4>1. ~(hasOwnBuffer(c) /\ buffer[c] = Clear(1))
            BY <3>4, <3>8 DEF Clear
      <4>2. Instance(c) \in {buffer[c], [buffer[c] EXCEPT !.slots = 1]}
            BY <3>8, <4>1 DEF Instance
      <4> QED BY <3>4, <4>2
    <3> QED BY <3>6, <3>7, <3>8
  <2> QED BY <1>7, <2>1 DEF instantiateElasticBuffers, bbgVars, Channels
<1>8. CASE UNCHANGED vars
      BY <1>8 DEF vars, bbgVars, Channels
<1> QED BY <1>1, <1>2, <1>3, <1>4, <1>5, <1>6, <1>7, <1>8 DEF Next

LEMMA AlwaysWholeInv == Spec => []WholeInv
BY WholeInitInv, WholeNextInv, PTL DEF Spec
------------------------------------------------------------------------------
\* The transparent channels are those the model put no register on.
LEMMA TransparentChannels ==
  ASSUME WholeInv, ~program.set, phase = "done"
  PROVE  \E F \in SUBSET Channels :
           /\ Ranked(program, F) /\ Timed(program, F)
           /\ Transparent = chans(program) \ F
<1>1. PICK F \in SUBSET Channels, n \in [Channels -> Nat] :
        /\ Ranked(program, F) /\ Timed(program, F)
        /\ \A c \in chans(program) \cap F : n[c] > 0
        /\ buffer = Annotations(program, F, n)
      BY DEF WholeInv, Solved, Channels
<1>2. ASSUME NEW c \in chans(program)
      PROVE  inserted[c].transparent <=> c \notin F
  <2>1. c \in Channels /\ ~toLoad(program, c) /\ inserted[c].transparent = buffer[c].transparent
        BY DEF WholeInv, chans, toLoad, Channels
  <2>2. n[c] \in Nat /\ (c \in F => n[c] > 0)
        BY <1>1, <2>1
  <2>3. c \in F => buffer[c] = Opaque(n[c])
        BY <1>1, <2>1, <2>2 DEF Annotations, Channels
  <2>4. c \notin F => buffer[c].transparent
        BY <1>1, <2>1 DEF Annotations, NoBuffer, Clear, Channels
  <2> QED BY <2>1, <2>3, <2>4 DEF Opaque
<1>3. Transparent = {c \in chans(program) : inserted[c].transparent}
      BY DEF Transparent, chans, Channels, memory, toMemory, src, dst, SrcBlock, DstBlock, Type
<1> QED BY <1>1, <1>2, <1>3

\* A path of channels without a register does not come back to where it started.
LEMMA RanksCutCycles ==
  ASSUME NEW F, Ranked(program, F), Transparent = chans(program) \ F, NEW c \in Transparent
  PROVE  ~Leads(Transparent, SrcBlock, DstBlock, DstBlock(c), SrcBlock(c))
<1> DEFINE p == program
           T == Transparent
<1>1. PICK rank \in [chans(p) -> Int] :
        \A d \in chans(p), e \in chans(p) \ F : dst(p, d) = src(p, e) => rank[d] < rank[e]
      BY DEF Ranked
<1>2. \A d \in Channels : SrcBlock(d) = src(p, d) /\ DstBlock(d) = dst(p, d)
      BY DEF SrcBlock, DstBlock, src, dst
<1>3. T \subseteq Channels /\ T = chans(p) \ F
      BY DEF Transparent
<1> DEFINE later == {d \in T : rank[c] < rank[d]}
           R == {DstBlock(c)} \cup {DstBlock(d) : d \in later}
<1>4. R \in SUBSET ({DstBlock(c)} \cup {DstBlock(e) : e \in T})
      OBVIOUS
<1>5. ASSUME NEW d \in {c} \cup later, NEW e \in T, SrcBlock(e) = DstBlock(d)
      PROVE  e \in later
  <2>1. rank[d] < rank[e]
        BY <1>1, <1>2, <1>3, <1>5
  <2>2. rank[c] \in Int /\ rank[d] \in Int /\ rank[e] \in Int
        BY <1>3, <1>1
  <2> QED BY <2>1, <2>2
<1>6. \A e \in T : SrcBlock(e) \in R => DstBlock(e) \in R
  <2> TAKE e \in T
  <2> HAVE SrcBlock(e) \in R
  <2>1. PICK d \in {c} \cup later : SrcBlock(e) = DstBlock(d)
        OBVIOUS
  <2> QED BY <2>1, <1>5
<1>7. SrcBlock(c) \notin R
  <2> SUFFICES ASSUME SrcBlock(c) \in R PROVE FALSE
      OBVIOUS
  <2>1. PICK d \in {c} \cup later : SrcBlock(c) = DstBlock(d)
        OBVIOUS
  <2>2. c \in later
        BY <2>1, <1>5
  <2> QED BY <2>2, <1>1, <1>3
<1> HIDE DEF R, T
<1> QED BY <1>4, <1>6, <1>7 DEF Leads, T, R

\* If all channels are placed in one model, every cycle of channels gets a
\* register, whatever the netlist and whatever feasible solution is returned: the
\* ranks the rows ask for grow along channels without one.
THEOREM WholeCutsCycles == Spec => [](~program.set => EveryCycleIsElastic)
<1>1. WholeInv => (~program.set => EveryCycleIsElastic)
  <2> SUFFICES ASSUME WholeInv, ~program.set, phase = "done", NEW c \in Transparent
               PROVE  ~Leads(Transparent, SrcBlock, DstBlock, DstBlock(c), SrcBlock(c))
      BY DEF EveryCycleIsElastic
  <2>1. PICK F : Ranked(program, F) /\ Transparent = chans(program) \ F
        BY TransparentChannels
  <2> QED BY <2>1, RanksCutCycles
<1> QED BY <1>1, AlwaysWholeInv, PTL
------------------------------------------------------------------------------
\* Induction over the numbers.
LEMMA NatSetInduction ==
  ASSUME NEW S, 0 \in S, \A k \in Nat : k \in S => k + 1 \in S
  PROVE  Nat \subseteq S
<1> SUFFICES ASSUME Nat \ S # {} PROVE FALSE
    OBVIOUS
<1>1. IsWellFoundedOn({e \in Nat \X Nat : e[1] < e[2]}, Nat)
      BY NatLessThanWellFounded DEF OpToRel
<1>2. PICK k \in Nat \ S : \A j \in Nat \ S : <<j, k>> \notin {e \in Nat \X Nat : e[1] < e[2]}
      BY <1>1, WFMin
<1>3. k # 0
      OBVIOUS
<1>4. k - 1 \in Nat /\ k - 1 < k /\ (k - 1) + 1 = k
      BY <1>3
<1>5. k - 1 \in S
      BY <1>2, <1>4
<1> QED BY <1>4, <1>5

\* A set of numbers up to a bound has a largest one.
LEMMA LargestIs ==
  ASSUME NEW b \in Nat, NEW T \in SUBSET (0 .. b), T # {}
  PROVE  \E x \in T : \A y \in T : x >= y
<1> DEFINE S == {b - x : x \in T}
<1>1. S \subseteq Nat /\ S # {}
  <2>1. \A x \in T : b - x \in Nat
        OBVIOUS
  <2>2. PICK x : x \in T
        OBVIOUS
  <2>3. b - x \in S
        BY <2>2
  <2> QED BY <2>1, <2>3
<1>2. IsWellFoundedOn({e \in Nat \X Nat : e[1] < e[2]}, Nat)
      BY NatLessThanWellFounded DEF OpToRel
<1>3. PICK m \in S : \A j \in S : <<j, m>> \notin {e \in Nat \X Nat : e[1] < e[2]}
  <2> HIDE DEF S
  <2> QED BY <1>1, <1>2, WFMin
<1>4. PICK x \in T : m = b - x
      OBVIOUS
<1>5. \A y \in T : x >= y
  <2> TAKE y \in T
  <2>1. b - y \in S /\ b - y \in Nat /\ m \in Nat
        OBVIOUS
  <2>2. ~(b - y < m)
        BY <2>1, <1>3
  <2> QED BY <1>4, <2>2
<1> QED BY <1>5

LEMMA LargestOf ==
  ASSUME NEW b \in Nat, NEW T \in SUBSET (0 .. b), T # {}
  PROVE  Max(T) \in T
BY LargestIs DEF Max

\* The function of the lengths of paths exists.
LEMMA LongestIs ==
  ASSUME IsFiniteSet(Channels)
  PROVE  \A k \in 0 .. Cardinality(Channels) :
           longest[k] = IF k = 0 THEN {<<c, 0>> : c \in Channels} ELSE Longer(longest[k - 1])
<1> DEFINE one == {<<c, 0>> : c \in Channels}
           rec(f, m) == [k \in 0 .. m |-> IF k = 0 THEN one ELSE Longer(f[k - 1])]
           S == {m \in Nat : \E f : f = rec(f, m)}
<1> HIDE DEF one
<1>1. 0 \in S
  <2> DEFINE f == [k \in 0 .. 0 |-> one]
  <2>1. f = rec(f, 0)
        OBVIOUS
  <2> QED BY <2>1
<1>2. ASSUME NEW m \in Nat, m \in S
      PROVE  m + 1 \in S
  <2>1. PICK f : f = rec(f, m)
        BY <1>2
  <2> DEFINE g == [k \in 0 .. m + 1 |-> IF k = 0 THEN one ELSE Longer(f[k - 1])]
  <2>2. \A k \in 0 .. m : g[k] = f[k]
    <3> TAKE k \in 0 .. m
    <3>1. f[k] = rec(f, m)[k]
          BY <2>1
    <3>2. rec(f, m)[k] = IF k = 0 THEN one ELSE Longer(f[k - 1])
          OBVIOUS
    <3>3. k \in 0 .. m + 1
          OBVIOUS
    <3> QED BY <3>1, <3>2, <3>3
  <2>3. \A k \in 0 .. m + 1 : k # 0 => k - 1 \in 0 .. m
        OBVIOUS
  <2>4. \A k \in 0 .. m + 1 : k # 0 => g[k - 1] = f[k - 1]
    <3> HIDE DEF g
    <3> QED BY <2>2, <2>3
  <2>5. g = rec(g, m + 1)
        BY <2>4
  <2>6. \E h : h = rec(h, m + 1)
    <3> HIDE DEF g, rec
    <3> QED BY <2>5
  <2> QED BY <2>6
<1>3. Cardinality(Channels) \in S
  <2>1. Nat \subseteq S
    <3> HIDE DEF S
    <3> QED BY <1>1, <1>2, NatSetInduction
  <2> QED BY <2>1, FS_CardinalityType
<1>4. \E f : f = rec(f, Cardinality(Channels))
      BY <1>3
<1>5. longest = CHOOSE f : f = rec(f, Cardinality(Channels))
      BY DEF longest, one
<1>6. longest = rec(longest, Cardinality(Channels))
      BY <1>4, <1>5
<1> QED BY <1>6 DEF one

\* Blocks that nothing but memories takes values from have no delay: no row of
\* the model has the end of such a path.
SinksAreFast(p) ==
  \A b \in DOMAIN p.blocks :
    p.blocks[b].delay = 0 \/ \E d \in chans(p) : src(p, d) = b

\* What is left of the period when a path starts is enough for the path.
LEMMA PathsFit ==
  ASSUME program \in Programs, SinksAreFast(program),
         NEW F, Timed(program, F), Transparent = chans(program) \ F,
         IsFiniteSet(Channels)
  PROVE  \A t \in longest[Cardinality(Channels)] :
           t[1] \in chans(program) => BufferDelay + t[2] <= Period
<1> DEFINE p == program
           n == Cardinality(Channels)
<1>1. PICK time \in [chans(p) -> Int] :
        /\ \A c \in chans(p) : BufferDelay <= time[c] /\ time[c] <= Period
        /\ \A c \in chans(p), d \in chans(p) \ F :
             dst(p, c) = src(p, d) /\ p.blocks[src(p, d)].lat = 0
               => time[c] + p.blocks[src(p, d)].delay <= time[d]
        /\ \A c \in chans(p), d \in chans(p) :
             dst(p, c) = src(p, d) /\ p.blocks[src(p, d)].lat = 0
               => time[c] + p.blocks[src(p, d)].delay <= Period
      BY DEF Timed
<1>2. /\ Period \in Nat /\ BufferDelay \in Nat
      /\ \A c \in Channels :
           /\ SrcBlock(c) = src(p, c) /\ DstBlock(c) = dst(p, c)
           /\ dst(p, c) \in DOMAIN p.blocks
      /\ \A b \in DOMAIN p.blocks :
           /\ Latency(b) = p.blocks[b].lat /\ Latency(b) \in Nat
           /\ Delay(b) = p.blocks[b].delay /\ Delay(b) \in Nat
      BY NetlistTypes, NetlistAssumption
      DEF SrcBlock, DstBlock, src, dst, Latency, Delay, Channels
<1>3. chans(p) \subseteq Channels
      BY DEF chans, Channels
<1> DEFINE fits(R) == \A u \in R : /\ u[1] \in Channels /\ u[2] \in Nat
                                   /\ u[1] \in chans(p) => time[u[1]] + u[2] <= Period
           S == {k \in Nat : k \in 0 .. n => fits(longest[k])}
<1>4. 0 \in S
  <2>1. 0 \in 0 .. n => longest[0] = {<<c, 0>> : c \in Channels}
        BY LongestIs
  <2>2. \A c \in chans(p) : time[c] + 0 <= Period
        BY <1>1, <1>2
  <2> QED BY <2>1, <2>2
<1>5. ASSUME NEW R, fits(R)
      PROVE  fits(Longer(R))
  <2> DEFINE next(c) == IF Latency(DstBlock(c)) > 0 THEN 0
                        ELSE Delay(DstBlock(c)) + Max({0} \cup after(R, DstBlock(c)))
  <2> SUFFICES ASSUME NEW c \in Channels
               PROVE  next(c) \in Nat /\ (c \in chans(p) => time[c] + next(c) <= Period)
    <3>1. Longer(R) = {<<c_1, next(c_1)>> : c_1 \in Channels}
          BY DEF Longer
    <3> HIDE DEF next
    <3> QED BY <3>1
  <2> DEFINE b == DstBlock(c)
             A == {0} \cup after(R, b)
             m == Max(A)
  <2>1. b \in DOMAIN p.blocks /\ Latency(b) \in Nat /\ Delay(b) \in Nat /\ b = dst(p, c)
        BY <1>2
  <2>2. ASSUME NEW a \in after(R, b)
        PROVE  \E d \in chans(p) \ F : /\ src(p, d) = b /\ time[d] + a <= Period /\ a \in Nat
                                        /\ BufferDelay <= time[d] /\ time[d] \in Int
    <3>1. PICK u \in R : u[1] \in Transparent /\ SrcBlock(u[1]) = b /\ a = u[2]
          BY DEF after
    <3>2. u[1] \in chans(p) \ F /\ u[1] \in Channels
          BY <3>1, <1>3
    <3>3. u[2] \in Nat /\ time[u[1]] + u[2] <= Period
          BY <1>5, <3>2
    <3>4. BufferDelay <= time[u[1]] /\ time[u[1]] \in Int /\ src(p, u[1]) = b
          BY <3>1, <3>2, <1>1, <1>2
    <3> QED BY <3>1, <3>2, <3>3, <3>4
  <2>3. m \in A
    <3>1. A \in SUBSET (0 .. Period)
      <4>1. \A a \in after(R, b) : a \in 0 .. Period
        <5> TAKE a \in after(R, b)
        <5>1. PICK d \in chans(p) \ F : /\ time[d] + a <= Period /\ a \in Nat
                                          /\ BufferDelay <= time[d] /\ time[d] \in Int
              BY <2>2
        <5> QED BY <5>1, <1>2
      <4> QED BY <4>1, <1>2
    <3> HIDE DEF A
    <3>2. A # {}
          BY DEF A
    <3> QED BY <3>1, <3>2, <1>2, LargestOf
  <2>4. m \in Nat
        BY <2>2, <2>3
  <2>5. CASE Latency(b) > 0
        BY <2>5, <1>1, <1>2
  <2>6. CASE Latency(b) = 0 /\ c \notin chans(p)
        BY <2>1, <2>4, <2>6
  <2>7. CASE Latency(b) = 0 /\ c \in chans(p)
    <3>1. next(c) = Delay(b) + m /\ time[c] \in Int
          BY <2>7
    <3>2. CASE m \in after(R, b)
      <4>1. PICK d \in chans(p) \ F :
              src(p, d) = b /\ time[d] + m <= Period /\ time[d] \in Int
            BY <2>2, <3>2
      <4>2. time[c] + Delay(b) <= time[d]
            BY <1>1, <1>2, <2>1, <2>7, <4>1
      <4> HIDE DEF m, b
      <4> QED BY <3>1, <2>1, <2>4, <4>1, <4>2, <1>2
    <3>3. CASE m = 0
      <4>1. time[c] + Delay(b) <= Period
        <5>1. CASE Delay(b) = 0
              BY <5>1, <1>1, <1>2, <2>7
        <5>2. CASE Delay(b) # 0
          <6>1. PICK d \in chans(p) : src(p, d) = b
                BY <5>2, <1>2, <2>1 DEF SinksAreFast
          <6> QED BY <6>1, <1>1, <1>2, <2>1, <2>7
        <5> QED BY <5>1, <5>2
      <4> HIDE DEF m, b
      <4> QED BY <3>1, <3>3, <2>1, <4>1, <1>2
    <3> QED BY <2>3, <3>2, <3>3
  <2> QED BY <2>1, <2>5, <2>6, <2>7
<1>6. ASSUME NEW k \in Nat, k \in S
      PROVE  k + 1 \in S
  <2> SUFFICES ASSUME k + 1 \in 0 .. n PROVE fits(longest[k + 1])
      OBVIOUS
  <2>1. n \in Nat
        BY FS_CardinalityType
  <2>2. k \in 0 .. n /\ k + 1 # 0 /\ (k + 1) - 1 = k
        BY <2>1
  <2>3. longest[k + 1] = Longer(longest[k])
        BY <2>2, LongestIs
  <2>4. fits(longest[k])
        BY <1>6, <2>2
  <2> HIDE DEF fits
  <2> QED BY <2>3, <2>4, <1>5
<1>7. n \in S
  <2>1. Nat \subseteq S
    <3> HIDE DEF S
    <3> QED BY <1>4, <1>6, NatSetInduction
  <2> HIDE DEF S, n
  <2> QED BY <2>1, FS_CardinalityType DEF n
<1>8. n \in 0 .. n
      BY FS_CardinalityType
<1>9. fits(longest[n])
      BY <1>7, <1>8
<1> QED
  <2> SUFFICES ASSUME NEW t \in longest[n], t[1] \in chans(p)
               PROVE  BufferDelay + t[2] <= Period
      OBVIOUS
  <2>1. \A u \in longest[n] : u[2] \in Nat /\ (u[1] \in chans(p) => time[u[1]] + u[2] <= Period)
        BY <1>9
  <2>4. t[2] \in Nat /\ time[t[1]] + t[2] <= Period /\ time[t[1]] \in Int
        BY <2>1
  <2>2. BufferDelay <= time[t[1]]
        BY <1>1
  <2> QED BY <2>2, <2>4, <1>2

\* If all channels are placed in one model, no path between registers is longer
\* than the period, whatever the netlist and whatever feasible solution is
\* returned: the times the rows ask for are times at which values arrive.
THEOREM WholeMeetsPeriod ==
  Spec => [](~program.set /\ SinksAreFast(program) => PathsMeetPeriod)
<1>1. WholeInv => (~program.set /\ SinksAreFast(program) => PathsMeetPeriod)
  <2> SUFFICES ASSUME WholeInv, ~program.set, SinksAreFast(program), phase = "done",
                      NEW t \in longest[Cardinality(Channels)], ~toMemory(t[1])
               PROVE  BufferDelay + t[2] <= Period
      BY DEF PathsMeetPeriod
  <2>1. PICK F : Timed(program, F) /\ Transparent = chans(program) \ F
        BY TransparentChannels
  <2>2. program \in Programs
        BY DEF WholeInv
  <2>3. IsFiniteSet(Channels)
    <3>1. program.channels \in Seq((DOMAIN program.blocks) \X (DOMAIN program.blocks))
          BY <2>2, NetlistAssumption
    <3>2. DOMAIN program.channels = 1 .. Len(program.channels) /\ Len(program.channels) \in Nat
          BY <3>1, LenProperties
    <3> QED BY <3>2, FS_Interval DEF Channels
  <2>4. t[1] \in Channels
    <3>1. longest[Cardinality(Channels)] = IF Cardinality(Channels) = 0
            THEN {<<c, 0>> : c \in Channels} ELSE Longer(longest[Cardinality(Channels) - 1])
      <4>1. Cardinality(Channels) \in 0 .. Cardinality(Channels)
            BY <2>3, FS_CardinalityType
      <4> QED BY <4>1, <2>3, LongestIs
    <3>2. PICK c \in Channels : \E d : t = <<c, d>>
      <4>1. CASE longest[Cardinality(Channels)] = {<<c, 0>> : c \in Channels}
            BY <4>1
      <4>2. CASE longest[Cardinality(Channels)] = Longer(longest[Cardinality(Channels) - 1])
            BY <4>2 DEF Longer
      <4> QED BY <3>1, <4>1, <4>2
    <3> QED BY <3>2
  <2>5. t[1] \in chans(program)
        BY <2>4 DEF chans, Channels, memory, toMemory, src, dst, SrcBlock, DstBlock, Type
  <2> QED BY <2>1, <2>2, <2>3, <2>5, PathsFit
<1> QED BY <1>1, AlwaysWholeInv, PTL
------------------------------------------------------------------------------
\* The traversal of the graph of basic blocks, of program p in state d.  Of the
\* last block, whose elements are past the end of the vectors, nothing is said.
Inner(p) == 1 .. p.n - 1
DfsType(p) == [S : Seq(1 .. p.n), pre : [1 .. p.n -> Int], time : Nat,
               post : [1 .. p.n -> Int], listKids : Seq(0 .. p.n)]

\* Blocks are on S between their two times, later ones on top.
Timely(p, d) ==
  /\ d.time > 0
  /\ \A b \in Inner(p) : /\ 0 <= d.pre[b] /\ d.pre[b] < d.time
                         /\ 0 <= d.post[b] /\ d.post[b] < d.time
                         /\ d.pre[b] = 0 => d.post[b] = 0
                         /\ d.pre[b] > 0 /\ d.post[b] = 0 => \E i \in DOMAIN d.S : d.S[i] = b
  /\ \A i \in DOMAIN d.S : /\ 0 < d.pre[d.S[i]] /\ d.pre[d.S[i]] < d.time
                           /\ d.S[i] < p.n => d.post[d.S[i]] = 0
  /\ \A i, j \in DOMAIN d.S : i < j => d.pre[d.S[i]] > d.pre[d.S[j]]

\* Of a block that is finished, so is every successor that was found later.
Ordered(p, d) ==
  \A a \in DOMAIN p.arcs :
    LET u == p.arcs[a].src
        v == p.arcs[a].dst
    IN  u < p.n /\ v < p.n /\ d.post[u] > 0 =>
          d.pre[v] > 0 /\ (d.pre[v] > d.pre[u] => d.post[v] > 0 /\ d.post[v] < d.post[u])

\* The kids of each block on S end at a mark; those that were not found yet are
\* above it.
Marks(p, d, e) ==
  /\ \A i, j \in DOMAIN d.S : i < j => e[i] < e[j]
  /\ \A k \in DOMAIN d.listKids :
       d.listKids[k] = NoKid <=> \E i \in DOMAIN d.S : e[i] = k
  /\ \A i \in DOMAIN d.S : \A a \in DOMAIN p.arcs :
       p.arcs[a].src = d.S[i] /\ d.pre[p.arcs[a].dst] = 0 =>
         \E k \in 1 .. e[i] : d.listKids[k] = p.arcs[a].dst
Listed(p, d) ==
  /\ \A k \in DOMAIN d.listKids :
       d.listKids[k] # NoKid => d.pre[d.listKids[k]] >= 0
  /\ \E e \in [DOMAIN d.S -> DOMAIN d.listKids] : Marks(p, d, e)

BackArcs(p, d) ==
  {a \in DOMAIN p.arcs :
     LET u == p.arcs[a].src
         v == p.arcs[a].dst
     IN  u < p.n /\ d.pre[u] # 0 /\ d.pre[v] <= d.pre[u] /\ d.post[v] >= d.post[u]}
DfsInv ==
  /\ program \in Programs
  /\ entryBB \in BB /\ dfs \in DfsType(program) /\ dfs.pre[entryBB] > 0
  /\ Timely(program, dfs) /\ Ordered(program, dfs) /\ Listed(program, dfs)
  /\ phase # "dfs" => dfs.S = <<>> /\ back = BackArcs(program, dfs)

\* Sets of positions are finite.
LEMMA SmallSets ==
  ASSUME NEW b \in Nat
  PROVE  \A A \in SUBSET (1 .. b) : IsFiniteSet(A) /\ Cardinality(A) \in Nat
<1> TAKE A \in SUBSET (1 .. b)
<1>1. 1 \in Int /\ b \in Int
      OBVIOUS
<1>2. IsFiniteSet(1 .. b)
      BY <1>1, FS_Interval
<1>3. IsFiniteSet(A)
      BY <1>2, FS_Subset
<1> QED BY <1>3, FS_CardinalityType

\* Numbers can be put in descending order.
LEMMA DescendingExists ==
  ASSUME NEW b \in Nat
  PROVE  \A A \in SUBSET (1 .. b) : \E s \in [1 .. Cardinality(A) -> A] : Descends(s, A)
<1> DEFINE has(A) == \E s \in [1 .. Cardinality(A) -> A] : Descends(s, A)
           S == {k \in Nat : \A A \in SUBSET (1 .. b) : Cardinality(A) = k => has(A)}
<1>1. \A A \in SUBSET (1 .. b) : IsFiniteSet(A) /\ Cardinality(A) \in Nat
      BY SmallSets
<1>2. 0 \in S
  <2> SUFFICES ASSUME NEW A \in SUBSET (1 .. b), Cardinality(A) = 0 PROVE has(A)
      OBVIOUS
  <2>1. A = {}
        BY <1>1, FS_EmptySet
  <2> DEFINE s == [i \in 1 .. Cardinality(A) |-> i]
  <2>2. s \in [1 .. Cardinality(A) -> A]
        OBVIOUS
  <2>3. Descends(s, A)
        BY <2>1 DEF Descends
  <2> QED BY <2>2, <2>3
<1>3. ASSUME NEW k \in Nat, k \in S
      PROVE  k + 1 \in S
  <2> SUFFICES ASSUME NEW A \in SUBSET (1 .. b), Cardinality(A) = k + 1 PROVE has(A)
      OBVIOUS
  <2> DEFINE m == Max(A)
             B == A \ {m}
  <2>1. m \in A
    <3>1. A # {}
          BY FS_EmptySet
    <3>2. A \in SUBSET (0 .. b)
          OBVIOUS
    <3> QED BY <3>1, <3>2, LargestOf
  <2>2. \A a \in B : m > a
    <3>1. \E x \in A : \A y \in A : x >= y
      <4>1. A # {} /\ A \in SUBSET (0 .. b)
            BY <2>1
      <4> QED BY <4>1, LargestIs
    <3>2. m \in A /\ \A y \in A : m >= y
          BY <3>1 DEF Max
    <3> HIDE DEF m
    <3> QED BY <3>2
  <2>3. B \in SUBSET (1 .. b) /\ Cardinality(B) = k
    <3> HIDE DEF m
    <3> QED BY <2>1, <1>1, FS_RemoveElement
  <2>4. PICK s \in [1 .. k -> B] : Descends(s, B)
        BY <1>3, <2>3
  <2> DEFINE t == [i \in 1 .. k + 1 |-> IF i = 1 THEN m ELSE s[i - 1]]
  <2> HIDE DEF m
  <2>5. \A i \in 1 .. k + 1 : i # 1 => i - 1 \in 1 .. k
        OBVIOUS
  <2>6. t \in [1 .. k + 1 -> A]
        BY <2>1, <2>4, <2>5
  <2>7. ASSUME NEW a \in A
        PROVE  \E i \in DOMAIN t : t[i] = a
    <3>1. CASE a = m
          BY <3>1
    <3>2. CASE a # m
      <4>1. PICK i \in 1 .. k : s[i] = a
            BY <2>4, <3>2 DEF Descends
      <4>2. i + 1 \in 1 .. k + 1 /\ i + 1 # 1 /\ (i + 1) - 1 = i
            OBVIOUS
      <4>3. t[i + 1] = a
            BY <4>1, <4>2
      <4> QED BY <4>2, <4>3
    <3> QED BY <3>1, <3>2
  <2>8. ASSUME NEW i \in DOMAIN t, NEW j \in DOMAIN t, i < j
        PROVE  t[i] > t[j]
    <3>1. j \in 1 .. k + 1 /\ j # 1 /\ i \in 1 .. k + 1
          BY <2>8
    <3>2. t[j] = s[j - 1] /\ j - 1 \in 1 .. k
          BY <3>1, <2>5
    <3>3. CASE i = 1
      <4>1. s[j - 1] \in B
            BY <2>4, <3>2
      <4>2. m > s[j - 1]
            BY <2>2, <4>1
      <4> QED BY <3>1, <3>2, <3>3, <4>2
    <3>4. CASE i # 1
      <4>1. t[i] = s[i - 1] /\ i - 1 \in 1 .. k
            BY <3>1, <3>4, <2>5
      <4>2. i - 1 < j - 1
            BY <2>8, <3>1
      <4>3. s[i - 1] > s[j - 1]
            BY <2>4, <3>2, <4>1, <4>2 DEF Descends
      <4> QED BY <3>2, <4>1, <4>3
    <3> QED BY <3>3, <3>4
  <2>9. Descends(t, A)
        BY <2>7, <2>8 DEF Descends
  <2> QED BY <2>6, <2>9
<1>4. Nat \subseteq S
  <2> HIDE DEF S
  <2> QED BY <1>2, <1>3, NatSetInduction
<1> QED BY <1>1, <1>4

\* The arcs lead between blocks.
LEMMA ArcEnds ==
  ASSUME program \in Programs
  PROVE  /\ program.n \in Nat \ {0} /\ BB = 1 .. program.n
         /\ Arcs = 1 .. Len(program.arcs) /\ Len(program.arcs) \in Nat
         /\ \A a \in Arcs : Dst(a) \in BB /\ Src(a) \in BB
<1>1. /\ program.arcs \in Seq([src : 1 .. program.n, dst : 1 .. program.n, freq : Nat])
      /\ program.n \in Nat \ {0}
      BY GraphAssumption
<1>2. Arcs = 1 .. Len(program.arcs) /\ Len(program.arcs) \in Nat
      BY <1>1, LenProperties DEF Arcs
<1>3. \A a \in Arcs : Dst(a) \in BB /\ Src(a) \in BB
  <2> TAKE a \in Arcs
  <2>1. program.arcs[a] \in [src : 1 .. program.n, dst : 1 .. program.n, freq : Nat]
        BY <1>1, <1>2, ElementOfSeq
  <2> QED BY <2>1 DEF Dst, Src, BB
<1> QED BY <1>1, <1>2, <1>3 DEF BB

\* The blocks pushed are the successors that were not found yet, and a mark.
LEMMA KidsAre ==
  ASSUME program \in Programs, NEW bb \in BB, NEW pre \in [BB -> Int]
  PROVE  \E m \in Nat \ {0} :
           /\ Kids(bb, pre) \in [1 .. m -> 0 .. program.n]
           /\ Kids(bb, pre) \in Seq(0 .. program.n) /\ Len(Kids(bb, pre)) = m
           /\ Kids(bb, pre)[m] = NoKid
           /\ \A k \in 1 .. m - 1 : /\ Kids(bb, pre)[k] \in BB
                                    /\ pre[Kids(bb, pre)[k]] = 0
           /\ \A a \in Arcs : Src(a) = bb /\ pre[Dst(a)] = 0 =>
                \E k \in 1 .. m - 1 : Kids(bb, pre)[k] = Dst(a)
<1> DEFINE A == {a \in successors(bb) : pre[Dst(a)] = 0}
           s == Descending(A)
           kids == [i \in DOMAIN s |-> Dst(s[i])]
           c == Cardinality(A)
<1>1. program.n \in Nat \ {0}
      BY ArcEnds
<1>2. Arcs = 1 .. Len(program.arcs) /\ Len(program.arcs) \in Nat
      BY ArcEnds
<1>3. \A a \in Arcs : Dst(a) \in BB /\ Src(a) \in BB
      BY ArcEnds
<1>4. A \in SUBSET (1 .. Len(program.arcs))
      BY <1>2 DEF successors
<1>5. c \in Nat
  <2> HIDE DEF A
  <2> QED BY <1>2, <1>4, SmallSets
<1>6. s \in [1 .. c -> A] /\ Descends(s, A)
  <2>1. \E t \in [1 .. c -> A] : Descends(t, A)
        BY <1>2, <1>4, DescendingExists
  <2> HIDE DEF A
  <2> QED BY <2>1 DEF Descending
<1> HIDE DEF s
<1>7. kids \in [1 .. c -> BB] /\ \A k \in 1 .. c : pre[kids[k]] = 0
      BY <1>3, <1>4, <1>6, <1>2
<1>8. Kids(bb, pre) = kids \o <<NoKid>>
      BY DEF Kids, s
<1>9. /\ kids \in Seq(0 .. program.n) /\ Len(kids) = c
      /\ <<NoKid>> \in Seq(0 .. program.n) /\ Len(<<NoKid>>) = 1 /\ <<NoKid>>[1] = NoKid
  <2>1. kids \in [1 .. c -> 0 .. program.n]
        BY <1>1, <1>7 DEF BB
  <2> HIDE DEF kids
  <2>2. kids \in Seq(0 .. program.n)
    <3> HIDE DEF c
    <3> QED BY <1>5, <2>1, SeqDef
  <2>4. Len(kids) = c
    <3> HIDE DEF c
    <3> QED BY <1>5, <2>1, <2>2, LenProperties
  <2>3. NoKid \in 0 .. program.n
        BY <1>1 DEF NoKid
  <2> QED BY <2>2, <2>3, <2>4
<1> DEFINE ks == Kids(bb, pre)
<1>10. /\ ks \in Seq(0 .. program.n) /\ Len(ks) = c + 1 /\ ks[c + 1] = NoKid
       /\ \A k \in 1 .. c : ks[k] = kids[k]
  <2> DEFINE one == <<NoKid>>
  <2>1. kids \in Seq(0 .. program.n) /\ one \in Seq(0 .. program.n) /\ ks = kids \o one
        BY <1>8, <1>9
  <2>2. Len(kids) = c /\ Len(one) = 1 /\ one[1] = NoKid
        BY <1>9
  <2> HIDE DEF kids, one, ks, c
  <2>6. /\ kids \o one \in Seq(0 .. program.n) /\ Len(kids \o one) = Len(kids) + Len(one)
        /\ \A k \in 1 .. Len(kids) + Len(one) :
             (kids \o one)[k] = IF k <= Len(kids) THEN kids[k] ELSE one[k - Len(kids)]
        BY <2>1, ConcatProperties
  <2>3. /\ ks \in Seq(0 .. program.n) /\ Len(ks) = c + 1
        /\ \A k \in 1 .. c + 1 : ks[k] = IF k <= c THEN kids[k] ELSE one[k - c]
        BY <2>1, <2>2, <2>6
  <2>4. \A k \in 1 .. c : k \in 1 .. c + 1 /\ k <= c
        BY <1>5
  <2>5. c + 1 \in 1 .. c + 1 /\ ~(c + 1 <= c) /\ (c + 1) - c = 1
        BY <1>5
  <2> QED BY <2>2, <2>3, <2>4, <2>5
<1>11. ks \in [1 .. c + 1 -> 0 .. program.n]
  <2> HIDE DEF ks
  <2> QED BY <1>5, <1>10, LenProperties, ElementOfSeq
<1>12. ASSUME NEW a \in Arcs, Src(a) = bb, pre[Dst(a)] = 0
       PROVE  \E k \in 1 .. c : ks[k] = Dst(a)
  <2>1. a \in A
        BY <1>12 DEF successors
  <2>2. PICK k \in 1 .. c : s[k] = a
        BY <2>1, <1>6 DEF Descends
  <2> QED BY <2>2, <1>6, <1>10
<1>13. c + 1 \in Nat \ {0} /\ (c + 1) - 1 = c
       BY <1>5
<1>14. /\ ks \in [1 .. c + 1 -> 0 .. program.n]
       /\ ks \in Seq(0 .. program.n) /\ Len(ks) = c + 1
       /\ ks[c + 1] = NoKid
       /\ \A k \in 1 .. (c + 1) - 1 : ks[k] \in BB /\ pre[ks[k]] = 0
       /\ \A a \in Arcs : Src(a) = bb /\ pre[Dst(a)] = 0 =>
            \E k \in 1 .. (c + 1) - 1 : ks[k] = Dst(a)
  <2> HIDE DEF kids, c
  <2>1. \A k \in 1 .. c : ks[k] \in BB /\ pre[ks[k]] = 0
        BY <1>7, <1>10
  <2> QED BY <2>1, <1>10, <1>11, <1>12, <1>13
<1> QED BY <1>13, <1>14

\* What a turn of the traversal keeps.
Traversal(d) ==
  /\ d \in DfsType(program) /\ Timely(program, d) /\ Ordered(program, d)
  /\ Listed(program, d)

\* While a block waits, the next kid is the mark of the block on top exactly if
\* it is a mark.
LEMMA TopMark ==
  ASSUME program \in Programs, NEW d, Traversal(d), d.S # <<>>
  PROVE  \E e \in [DOMAIN d.S -> DOMAIN d.listKids] :
           /\ Marks(program, d, e)
           /\ 1 \in DOMAIN d.S /\ 1 \in DOMAIN d.listKids
           /\ d.listKids[1] = NoKid <=> e[1] = 1
           /\ d.listKids[1] = NoKid => \A i \in DOMAIN d.S : i # 1 => e[i] > 1
           /\ d.listKids[1] # NoKid => \A i \in DOMAIN d.S : e[i] > 1
<1>1. /\ d.S \in Seq(1 .. program.n) /\ d.listKids \in Seq(0 .. program.n)
      BY DEF Traversal, DfsType
<1>2. /\ DOMAIN d.S = 1 .. Len(d.S) /\ Len(d.S) \in Nat \ {0}
      /\ DOMAIN d.listKids = 1 .. Len(d.listKids) /\ Len(d.listKids) \in Nat
      BY <1>1, LenProperties, EmptySeq
<1>3. PICK e \in [DOMAIN d.S -> DOMAIN d.listKids] : Marks(program, d, e)
      BY DEF Traversal, Listed
<1>4. 1 \in DOMAIN d.S
      BY <1>2
<1>5. e[1] \in DOMAIN d.listKids
      BY <1>3, <1>4
<1>6. 1 \in DOMAIN d.listKids
      BY <1>2, <1>5
<1>7. \A i \in DOMAIN d.S : i # 1 => e[1] < e[i]
  <2>1. \A i \in DOMAIN d.S : i # 1 => 1 < i
        BY <1>2
  <2> QED BY <2>1, <1>3, <1>4 DEF Marks
<1>8. d.listKids[1] = NoKid <=> \E i \in DOMAIN d.S : e[i] = 1
      BY <1>3, <1>6 DEF Marks
<1>9. \A i \in DOMAIN d.S : e[i] \in 1 .. Len(d.listKids)
      BY <1>2, <1>3
<1>10. e[1] = 1 <=> \E i \in DOMAIN d.S : e[i] = 1
  <2>1. ASSUME NEW i \in DOMAIN d.S, e[i] = 1
        PROVE  e[1] = 1
    <3>1. e[1] \in 1 .. Len(d.listKids) /\ e[1] \in Int
          BY <1>9, <1>4
    <3>2. i # 1 => e[1] < 1
          BY <1>7, <2>1
    <3> QED BY <3>1, <3>2, <2>1
  <2> QED BY <2>1, <1>4
<1>11. d.listKids[1] = NoKid => \A i \in DOMAIN d.S : i # 1 => e[i] > 1
       BY <1>4, <1>7, <1>8, <1>9, <1>10
<1>12. d.listKids[1] # NoKid => \A i \in DOMAIN d.S : e[i] > 1
       BY <1>8, <1>9
<1> QED BY <1>3, <1>4, <1>6, <1>8, <1>10, <1>11, <1>12

\* The rest of a list that has a first element.
LEMMA TailIs ==
  ASSUME NEW T, NEW s \in Seq(T), 1 \in DOMAIN s
  PROVE  /\ Tail(s) \in Seq(T) /\ Len(Tail(s)) = Len(s) - 1
         /\ DOMAIN Tail(s) = 1 .. Len(s) - 1
         /\ \A i \in 1 .. Len(s) - 1 :
              i + 1 \in DOMAIN s /\ Tail(s)[i] = s[i + 1] /\ s[i + 1] \in T
<1>1. s # <<>> /\ DOMAIN s = 1 .. Len(s) /\ Len(s) \in Nat
      BY LenProperties, EmptySeq
<1>2. /\ Tail(s) \in Seq(T) /\ Len(Tail(s)) = Len(s) - 1
      /\ \A i \in 1 .. Len(Tail(s)) : Tail(s)[i] = s[i + 1]
      BY <1>1, HeadTailProperties
<1>3. DOMAIN Tail(s) = 1 .. Len(s) - 1
      BY <1>2, LenProperties
<1>4. \A i \in 1 .. Len(s) - 1 : i + 1 \in 1 .. Len(s)
      BY <1>1
<1>5. \A i \in 1 .. Len(s) : s[i] \in T
      BY ElementOfSeq
<1> QED BY <1>1, <1>2, <1>3, <1>4, <1>5

\* Finishing the block on top, whose kids are all visited.
LEMMA FinishStep ==
  ASSUME program \in Programs, NEW d, Traversal(d), d.S # <<>>, d.listKids[1] = NoKid
  PROVE  Traversal(Finish(d))
<1> DEFINE u == d.S[1]
           f == Finish(d)
<1>1. PICK e \in [DOMAIN d.S -> DOMAIN d.listKids] :
         /\ Marks(program, d, e)
         /\ 1 \in DOMAIN d.S /\ 1 \in DOMAIN d.listKids
         /\ e[1] = 1
         /\ \A i \in DOMAIN d.S : i # 1 => e[i] > 1
      BY TopMark
<1>2. /\ d.S \in Seq(1 .. program.n) /\ d.listKids \in Seq(0 .. program.n)
      /\ d.pre \in [1 .. program.n -> Int] /\ d.post \in [1 .. program.n -> Int]
      /\ d.time \in Nat
      BY DEF Traversal, DfsType
<1>3. f = [S |-> Tail(d.S), pre |-> d.pre, time |-> d.time + 1,
           post |-> [d.post EXCEPT ![u] = d.time], listKids |-> Tail(d.listKids)]
  <2>1. d = [S |-> d.S, pre |-> d.pre, time |-> d.time, post |-> d.post,
             listKids |-> d.listKids]
        BY DEF Traversal, DfsType
  <2> DEFINE S == d.S
             pre == d.pre
             time == d.time
             post == d.post
             kids == d.listKids
  <2>2. d = [S |-> S, pre |-> pre, time |-> time, post |-> post, listKids |-> kids]
        BY <2>1
  <2>3. f = [d EXCEPT !.S = Tail(S), !.listKids = Tail(kids), !.time = time + 1,
                      !.post = [post EXCEPT ![u] = time]]
        BY DEF Finish
  <2> HIDE DEF f, S, pre, time, post, kids, u
  <2>4. f = [S |-> Tail(S), pre |-> pre, time |-> time + 1,
             post |-> [post EXCEPT ![u] = time], listKids |-> Tail(kids)]
        BY <2>2, <2>3
  <2> QED BY <2>4 DEF S, pre, time, post, kids
<1>4. /\ Tail(d.S) \in Seq(1 .. program.n) /\ DOMAIN Tail(d.S) = 1 .. Len(d.S) - 1
      /\ \A i \in 1 .. Len(d.S) - 1 : i + 1 \in DOMAIN d.S /\ Tail(d.S)[i] = d.S[i + 1]
      BY <1>1, <1>2, TailIs
<1>5. /\ Tail(d.listKids) \in Seq(0 .. program.n)
      /\ DOMAIN Tail(d.listKids) = 1 .. Len(d.listKids) - 1
      /\ \A k \in 1 .. Len(d.listKids) - 1 :
           k + 1 \in DOMAIN d.listKids /\ Tail(d.listKids)[k] = d.listKids[k + 1]
      BY <1>1, <1>2, TailIs
<1>6. /\ DOMAIN d.S = 1 .. Len(d.S) /\ Len(d.S) \in Nat
      /\ DOMAIN d.listKids = 1 .. Len(d.listKids) /\ Len(d.listKids) \in Nat
      BY <1>2, LenProperties
<1>7. u \in 1 .. program.n /\ program.n \in Nat
      BY <1>1, <1>2, <1>6, ElementOfSeq, ArcEnds
<1>8. f \in DfsType(program)
  <2>1. [d.post EXCEPT ![u] = d.time] \in [1 .. program.n -> Int]
        BY <1>2, <1>7
  <2> QED BY <1>2, <1>3, <1>4, <1>5, <2>1 DEF DfsType
<1> HIDE DEF u
<1>9. /\ f.S = Tail(d.S) /\ f.pre = d.pre /\ f.time = d.time + 1
      /\ f.listKids = Tail(d.listKids)
      /\ f.post[u] = d.time
      /\ \A b \in 1 .. program.n : b # u => f.post[b] = d.post[b]
      BY <1>2, <1>3, <1>7
<1> HIDE DEF f
<1>10. /\ 0 < d.pre[u] /\ u < program.n => d.post[u] = 0
       /\ \A i \in DOMAIN d.S : i # 1 => d.S[i] # u
       /\ \A i \in DOMAIN d.S : d.pre[u] >= d.pre[d.S[i]]
  <2>1. \A i \in DOMAIN d.S : d.S[i] \in 1 .. program.n
        BY <1>2, <1>6, ElementOfSeq
  <2>2. \A i \in DOMAIN d.S : i # 1 => d.pre[u] > d.pre[d.S[i]]
    <3>1. \A i \in DOMAIN d.S : i # 1 => 1 < i
          BY <1>6
    <3> QED BY <3>1, <1>1 DEF Traversal, Timely, u
  <2>3. \A i \in DOMAIN d.S : d.pre[d.S[i]] \in Int
        BY <2>1, <1>2
  <2>4. 0 < d.pre[u] /\ u < program.n => d.post[u] = 0
        BY <1>1 DEF Traversal, Timely, u
  <2>5. d.pre[u] \in Int
        BY <1>2, <1>7
  <2>6. \A i \in DOMAIN d.S : i # 1 => d.S[i] # u
        BY <2>2, <2>5
  <2>7. \A i \in DOMAIN d.S : d.pre[u] >= d.pre[d.S[i]]
    <3> TAKE i \in DOMAIN d.S
    <3>1. CASE i = 1
          BY <3>1, <2>5 DEF u
    <3>2. CASE i # 1
          BY <3>2, <2>2, <2>3, <2>5
    <3> QED BY <3>1, <3>2
  <2> QED BY <2>4, <2>6, <2>7
<1>11. 0 < d.pre[u]
       BY <1>1 DEF Traversal, Timely, u
<1>12. Timely(program, f)
  <2>1. ASSUME NEW b \in Inner(program)
        PROVE  /\ 0 <= f.pre[b] /\ f.pre[b] < f.time
               /\ 0 <= f.post[b] /\ f.post[b] < f.time
               /\ f.pre[b] = 0 => f.post[b] = 0
               /\ f.pre[b] > 0 /\ f.post[b] = 0 => \E i \in DOMAIN f.S : f.S[i] = b
    <3>1. /\ 0 <= d.pre[b] /\ d.pre[b] < d.time
          /\ 0 <= d.post[b] /\ d.post[b] < d.time
          /\ d.pre[b] = 0 => d.post[b] = 0
          /\ d.pre[b] > 0 /\ d.post[b] = 0 => \E i \in DOMAIN d.S : d.S[i] = b
          /\ d.time > 0
          BY DEF Traversal, Timely
    <3>2. b \in 1 .. program.n
          BY <1>7 DEF Inner
    <3>3. d.pre[b] \in Int /\ d.post[b] \in Int
          BY <3>2, <1>2
    <3>4. CASE b = u
          BY <3>1, <3>3, <3>4, <1>2, <1>9, <1>11
    <3>5. CASE b # u
      <4>1. f.post[b] = d.post[b]
            BY <3>2, <3>5, <1>9
      <4>2. ASSUME d.pre[b] > 0, d.post[b] = 0
            PROVE  \E i \in DOMAIN f.S : f.S[i] = b
        <5>1. PICK i \in DOMAIN d.S : d.S[i] = b
              BY <3>1, <4>2
        <5>2. i # 1
              BY <5>1, <3>5 DEF u
        <5>3. i - 1 \in 1 .. Len(d.S) - 1 /\ (i - 1) + 1 = i
              BY <5>2, <1>6
        <5> QED BY <5>1, <5>3, <1>4, <1>9
      <4> QED BY <3>1, <3>3, <4>1, <4>2, <1>2, <1>9
    <3> QED BY <3>4, <3>5
  <2>2. ASSUME NEW i \in DOMAIN f.S
        PROVE  /\ 0 < f.pre[f.S[i]] /\ f.pre[f.S[i]] < f.time
               /\ f.S[i] < program.n => f.post[f.S[i]] = 0
    <3>1. i + 1 \in DOMAIN d.S /\ f.S[i] = d.S[i + 1] /\ i + 1 # 1
          BY <1>4, <1>6, <1>9
    <3>2. d.S[i + 1] \in 1 .. program.n /\ d.S[i + 1] # u
          BY <3>1, <1>2, <1>6, <1>10, ElementOfSeq
    <3>3. /\ 0 < d.pre[d.S[i + 1]] /\ d.pre[d.S[i + 1]] < d.time
          /\ d.S[i + 1] < program.n => d.post[d.S[i + 1]] = 0
          BY <3>1 DEF Traversal, Timely
    <3>4. d.pre[d.S[i + 1]] \in Int
          BY <3>2, <1>2
    <3>5. f.post[d.S[i + 1]] = d.post[d.S[i + 1]]
          BY <3>2, <1>9
    <3>6. f.pre[d.S[i + 1]] = d.pre[d.S[i + 1]] /\ f.time = d.time + 1
          BY <1>9
    <3> HIDE DEF u
    <3> QED BY <3>1, <3>3, <3>4, <3>5, <3>6, <1>2
  <2>3. ASSUME NEW i \in DOMAIN f.S, NEW j \in DOMAIN f.S, i < j
        PROVE  f.pre[f.S[i]] > f.pre[f.S[j]]
    <3>1. /\ i + 1 \in DOMAIN d.S /\ f.S[i] = d.S[i + 1]
          /\ j + 1 \in DOMAIN d.S /\ f.S[j] = d.S[j + 1]
          /\ i + 1 < j + 1
          BY <2>3, <1>4, <1>6, <1>9
    <3> QED BY <3>1, <1>9 DEF Traversal, Timely
  <2>4. f.time > 0
        BY <1>2, <1>9
  <2> QED BY <2>1, <2>2, <2>3, <2>4 DEF Timely
<1>13. Ordered(program, f)
  <2> SUFFICES ASSUME NEW a \in Arcs, Src(a) < program.n, Dst(a) < program.n,
                      f.post[Src(a)] > 0
               PROVE  /\ f.pre[Dst(a)] > 0
                      /\ f.pre[Dst(a)] > f.pre[Src(a)] =>
                           f.post[Dst(a)] > 0 /\ f.post[Dst(a)] < f.post[Src(a)]
      BY DEF Ordered, Arcs, Src, Dst
  <2> DEFINE v == Dst(a)
             w == Src(a)
  <2>1. v \in Inner(program) /\ w \in Inner(program) /\ v \in 1 .. program.n /\ w \in 1 .. program.n
        BY ArcEnds DEF Inner
  <2>2. /\ d.pre[v] \in Int /\ d.pre[w] \in Int /\ d.post[v] \in Int /\ d.post[w] \in Int
        /\ d.pre[u] \in Int
        BY <2>1, <1>2, <1>7
  <2>3. CASE w = u
    <3>1. d.pre[v] # 0
      <4> SUFFICES ASSUME d.pre[v] = 0 PROVE FALSE
          OBVIOUS
      <4>1. program.arcs[a].src = d.S[1] /\ d.pre[program.arcs[a].dst] = 0
            BY <2>3 DEF u, Src, Dst
      <4>2. PICK k \in 1 .. e[1] : d.listKids[k] = v
            BY <4>1, <1>1 DEF Marks, Arcs, Dst
      <4>3. v = NoKid
            BY <4>2, <1>1
      <4> QED BY <4>3, <2>1 DEF NoKid
    <3>2. /\ 0 <= d.pre[v] /\ 0 <= d.post[v] /\ d.post[v] < d.time
          /\ d.pre[v] > 0 /\ d.post[v] = 0 => \E i \in DOMAIN d.S : d.S[i] = v
          BY <2>1 DEF Traversal, Timely
    <3>3. ASSUME d.pre[v] > d.pre[u]
          PROVE  d.post[v] > 0 /\ v # u
      <4>1. ~ \E i \in DOMAIN d.S : d.S[i] = v
        <5> SUFFICES ASSUME NEW i \in DOMAIN d.S, d.S[i] = v PROVE FALSE
            OBVIOUS
        <5>1. d.pre[u] >= d.pre[v]
              BY <1>10
        <5> QED BY <5>1, <3>3, <2>2
      <4> QED BY <4>1, <3>1, <3>2, <3>3, <2>2
    <3>4. f.pre[v] = d.pre[v] /\ f.pre[w] = d.pre[u] /\ f.post[w] = d.time
          BY <2>3, <1>9
    <3>5. v # u => f.post[v] = d.post[v]
          BY <2>1, <1>9
    <3> QED BY <3>1, <3>2, <3>3, <3>4, <3>5, <2>2
  <2>4. CASE w # u
    <3>1. f.post[w] = d.post[w]
          BY <2>1, <2>4, <1>9
    <3>2. /\ d.pre[v] > 0
          /\ d.pre[v] > d.pre[w] => d.post[v] > 0 /\ d.post[v] < d.post[w]
          BY <3>1 DEF Traversal, Ordered, Arcs, Src, Dst
    <3>3. v = u => ~(d.pre[v] > d.pre[w])
      <4>1. v = u => d.post[v] = 0
            BY <1>10, <1>11
      <4> QED BY <4>1, <3>2
    <3>4. v # u => f.post[v] = d.post[v]
          BY <2>1, <1>9
    <3> QED BY <3>1, <3>2, <3>3, <3>4, <1>9
  <2> QED BY <2>3, <2>4
<1>14. Listed(program, f)
  <2>1. ASSUME NEW k \in DOMAIN f.listKids, f.listKids[k] # NoKid
        PROVE  f.pre[f.listKids[k]] >= 0
    <3>1. k + 1 \in DOMAIN d.listKids /\ f.listKids[k] = d.listKids[k + 1]
          BY <1>5, <1>9
    <3> QED BY <2>1, <3>1, <1>9 DEF Traversal, Listed
  <2> DEFINE g == [i \in DOMAIN f.S |-> e[i + 1] - 1]
  <2>2. \A i \in DOMAIN f.S : /\ i + 1 \in DOMAIN d.S /\ f.S[i] = d.S[i + 1]
                              /\ e[i + 1] \in 2 .. Len(d.listKids)
    <3> TAKE i \in DOMAIN f.S
    <3>1. i + 1 \in DOMAIN d.S /\ f.S[i] = d.S[i + 1] /\ i + 1 # 1
          BY <1>4, <1>6, <1>9
    <3>2. e[i + 1] \in 1 .. Len(d.listKids) /\ e[i + 1] > 1
          BY <3>1, <1>1, <1>6
    <3> QED BY <3>1, <3>2
  <2>3. g \in [DOMAIN f.S -> DOMAIN f.listKids]
    <3>1. \A i \in DOMAIN f.S : e[i + 1] - 1 \in 1 .. Len(d.listKids) - 1
          BY <2>2, <1>6
    <3> QED BY <3>1, <1>5, <1>9
  <2>4. ASSUME NEW i \in DOMAIN f.S, NEW j \in DOMAIN f.S, i < j
        PROVE  g[i] < g[j]
    <3>1. i + 1 < j + 1 /\ i + 1 \in DOMAIN d.S /\ j + 1 \in DOMAIN d.S
          BY <2>2, <2>4, <1>4, <1>9
    <3>2. e[i + 1] < e[j + 1]
          BY <3>1, <1>1 DEF Marks
    <3> QED BY <3>2, <2>2
  <2>5. ASSUME NEW k \in DOMAIN f.listKids
        PROVE  f.listKids[k] = NoKid <=> \E i \in DOMAIN f.S : g[i] = k
    <3>1. /\ k + 1 \in DOMAIN d.listKids /\ f.listKids[k] = d.listKids[k + 1]
          /\ k \in 1 .. Len(d.listKids) - 1
          BY <1>5, <1>9
    <3>2. f.listKids[k] = NoKid <=> \E i \in DOMAIN d.S : e[i] = k + 1
          BY <3>1, <1>1 DEF Marks
    <3>3. ASSUME NEW i \in DOMAIN d.S, e[i] = k + 1
          PROVE  \E j \in DOMAIN f.S : g[j] = k
      <4>1. i # 1
            BY <3>1, <3>3, <1>1, <1>6
      <4>2. i - 1 \in DOMAIN f.S /\ (i - 1) + 1 = i
            BY <4>1, <1>4, <1>6, <1>9
      <4>3. g[i - 1] = k
            BY <4>2, <3>1, <3>3, <1>6
      <4> QED BY <4>2, <4>3
    <3>4. ASSUME NEW j \in DOMAIN f.S, g[j] = k
          PROVE  \E i \in DOMAIN d.S : e[i] = k + 1
      <4>1. j + 1 \in DOMAIN d.S /\ e[j + 1] \in Int /\ e[j + 1] - 1 = k
            BY <3>4, <2>2
      <4> QED BY <4>1, <3>1
    <3> QED BY <3>2, <3>3, <3>4
  <2>6. ASSUME NEW i \in DOMAIN f.S, NEW a \in DOMAIN program.arcs,
               program.arcs[a].src = f.S[i], f.pre[program.arcs[a].dst] = 0
        PROVE  \E k \in 1 .. g[i] : f.listKids[k] = program.arcs[a].dst
    <3>1. PICK k \in 1 .. e[i + 1] : d.listKids[k] = program.arcs[a].dst
          BY <2>2, <2>6, <1>1, <1>9 DEF Marks
    <3>2. k # 1
      <4>1. Dst(a) \in 1 .. program.n
            BY ArcEnds DEF Arcs
      <4> QED BY <4>1, <3>1 DEF Dst, NoKid
    <3>3. k - 1 \in 1 .. g[i] /\ k - 1 \in 1 .. Len(d.listKids) - 1 /\ (k - 1) + 1 = k
          BY <3>1, <3>2, <2>2, <1>6, SMTT(30)
    <3>4. f.listKids[k - 1] = program.arcs[a].dst
          BY <3>1, <3>3, <1>5, <1>9
    <3> QED BY <3>3, <3>4
  <2>7. Marks(program, f, g)
    <3> HIDE DEF g
    <3> QED BY <2>4, <2>5, <2>6 DEF Marks
  <2> QED BY <2>1, <2>3, <2>7 DEF Listed
<1> QED BY <1>8, <1>12, <1>13, <1>14 DEF Traversal, f

\* Passing over a kid that was found while it waited.
Skip(d) == [d EXCEPT !.listKids = Tail(@)]
LEMMA SkipStep ==
  ASSUME program \in Programs, NEW d, Traversal(d), d.S # <<>>,
         d.listKids[1] # NoKid, d.pre[d.listKids[1]] > 0
  PROVE  Traversal(Skip(d))
<1> DEFINE f == Skip(d)
<1>1. PICK e \in [DOMAIN d.S -> DOMAIN d.listKids] :
         /\ Marks(program, d, e)
         /\ 1 \in DOMAIN d.S /\ 1 \in DOMAIN d.listKids
         /\ \A i \in DOMAIN d.S : e[i] > 1
      BY TopMark
<1>2. /\ d.listKids \in Seq(0 .. program.n) /\ d.S \in Seq(1 .. program.n)
      /\ d.pre \in [1 .. program.n -> Int]
      BY DEF Traversal, DfsType
<1>3. f = [S |-> d.S, pre |-> d.pre, time |-> d.time, post |-> d.post,
           listKids |-> Tail(d.listKids)]
  <2>1. d = [S |-> d.S, pre |-> d.pre, time |-> d.time, post |-> d.post,
             listKids |-> d.listKids]
        BY DEF Traversal, DfsType
  <2> DEFINE S == d.S
             pre == d.pre
             time == d.time
             post == d.post
             kids == d.listKids
  <2>2. d = [S |-> S, pre |-> pre, time |-> time, post |-> post, listKids |-> kids]
        BY <2>1
  <2>3. f = [d EXCEPT !.listKids = Tail(kids)]
        BY DEF Skip
  <2> HIDE DEF f, S, pre, time, post, kids
  <2>4. f = [S |-> S, pre |-> pre, time |-> time, post |-> post, listKids |-> Tail(kids)]
        BY <2>2, <2>3
  <2> QED BY <2>4 DEF S, pre, time, post, kids
<1>4. /\ Tail(d.listKids) \in Seq(0 .. program.n)
      /\ DOMAIN Tail(d.listKids) = 1 .. Len(d.listKids) - 1
      /\ \A k \in 1 .. Len(d.listKids) - 1 :
           k + 1 \in DOMAIN d.listKids /\ Tail(d.listKids)[k] = d.listKids[k + 1]
      BY <1>1, <1>2, TailIs
<1>5. DOMAIN d.listKids = 1 .. Len(d.listKids) /\ Len(d.listKids) \in Nat
      /\ DOMAIN d.S = 1 .. Len(d.S) /\ Len(d.S) \in Nat
      BY <1>2, LenProperties
<1>6. f \in DfsType(program)
      BY <1>3, <1>4 DEF Traversal, DfsType
<1>7. /\ f.S = d.S /\ f.pre = d.pre /\ f.time = d.time /\ f.post = d.post
      /\ f.listKids = Tail(d.listKids)
      BY <1>3
<1> HIDE DEF f
<1>8. Timely(program, f)
      BY <1>7 DEF Traversal, Timely
<1>9. Ordered(program, f)
      BY <1>7 DEF Traversal, Ordered
<1>10. Listed(program, f)
  <2>1. ASSUME NEW k \in DOMAIN f.listKids, f.listKids[k] # NoKid
        PROVE  f.pre[f.listKids[k]] >= 0
    <3>1. k + 1 \in DOMAIN d.listKids /\ f.listKids[k] = d.listKids[k + 1]
          BY <1>4, <1>7
    <3> QED BY <2>1, <3>1, <1>7 DEF Traversal, Listed
  <2> DEFINE g == [i \in DOMAIN f.S |-> e[i] - 1]
  <2>2. \A i \in DOMAIN f.S : e[i] \in 2 .. Len(d.listKids)
    <3> TAKE i \in DOMAIN f.S
    <3>1. e[i] \in 1 .. Len(d.listKids) /\ e[i] > 1
          BY <1>1, <1>5, <1>7
    <3> QED BY <3>1
  <2>3. g \in [DOMAIN f.S -> DOMAIN f.listKids]
    <3>1. \A i \in DOMAIN f.S : e[i] - 1 \in 1 .. Len(d.listKids) - 1
          BY <2>2, <1>5
    <3> QED BY <3>1, <1>4, <1>7
  <2>4. ASSUME NEW i \in DOMAIN f.S, NEW j \in DOMAIN f.S, i < j
        PROVE  g[i] < g[j]
    <3>1. e[i] < e[j]
          BY <2>4, <1>1, <1>7 DEF Marks
    <3> QED BY <3>1, <2>2
  <2>5. ASSUME NEW k \in DOMAIN f.listKids
        PROVE  f.listKids[k] = NoKid <=> \E i \in DOMAIN f.S : g[i] = k
    <3>1. /\ k + 1 \in DOMAIN d.listKids /\ f.listKids[k] = d.listKids[k + 1]
          /\ k \in 1 .. Len(d.listKids) - 1
          BY <1>4, <1>7
    <3>2. f.listKids[k] = NoKid <=> \E i \in DOMAIN d.S : e[i] = k + 1
          BY <3>1, <1>1 DEF Marks
    <3>3. \A i \in DOMAIN d.S : g[i] = k <=> e[i] = k + 1
          BY <2>2, <3>1, <1>7
    <3> HIDE DEF g
    <3> QED BY <3>2, <3>3, <1>7
  <2>6. ASSUME NEW i \in DOMAIN f.S, NEW a \in DOMAIN program.arcs,
               program.arcs[a].src = f.S[i], f.pre[program.arcs[a].dst] = 0
        PROVE  \E k \in 1 .. g[i] : f.listKids[k] = program.arcs[a].dst
    <3>1. PICK k \in 1 .. e[i] : d.listKids[k] = program.arcs[a].dst
          BY <2>6, <1>1, <1>7 DEF Marks
    <3>2. k # 1
          BY <3>1, <2>6, <1>7
    <3>3. k - 1 \in 1 .. g[i] /\ k - 1 \in 1 .. Len(d.listKids) - 1 /\ (k - 1) + 1 = k
          BY <3>1, <3>2, <2>2, <1>5
    <3>4. f.listKids[k - 1] = program.arcs[a].dst
          BY <3>1, <3>3, <1>4, <1>7
    <3> QED BY <3>3, <3>4
  <2>7. Marks(program, f, g)
    <3> HIDE DEF g
    <3> QED BY <2>4, <2>5, <2>6 DEF Marks
  <2> QED BY <2>1, <2>3, <2>7 DEF Listed
<1> QED BY <1>6, <1>8, <1>9, <1>10 DEF Traversal, f

\* A list in front of a list.
LEMMA AppendedAre ==
  ASSUME NEW T, NEW s \in Seq(T), NEW t \in Seq(T)
  PROVE  /\ s \o t \in Seq(T) /\ DOMAIN (s \o t) = 1 .. Len(s) + Len(t)
         /\ Len(s) \in Nat /\ Len(t) \in Nat
         /\ DOMAIN s = 1 .. Len(s) /\ DOMAIN t = 1 .. Len(t)
         /\ \A i \in 1 .. Len(s) : (s \o t)[i] = s[i]
         /\ \A i \in 1 .. Len(t) : (s \o t)[Len(s) + i] = t[i]
<1>1. /\ s \o t \in Seq(T) /\ Len(s \o t) = Len(s) + Len(t)
      /\ \A i \in 1 .. Len(s) + Len(t) :
           (s \o t)[i] = IF i <= Len(s) THEN s[i] ELSE t[i - Len(s)]
      BY ConcatProperties
<1>2. /\ Len(s) \in Nat /\ Len(t) \in Nat
      /\ DOMAIN s = 1 .. Len(s) /\ DOMAIN t = 1 .. Len(t)
      BY LenProperties
<1>3. DOMAIN (s \o t) = 1 .. Len(s) + Len(t)
      BY <1>1, LenProperties
<1>4. ASSUME NEW i \in 1 .. Len(s)
      PROVE  (s \o t)[i] = s[i]
  <2>1. i \in 1 .. Len(s) + Len(t) /\ i <= Len(s)
        BY <1>2
  <2> QED BY <2>1, <1>1
<1>5. ASSUME NEW i \in 1 .. Len(t)
      PROVE  (s \o t)[Len(s) + i] = t[i]
  <2>1. /\ Len(s) + i \in 1 .. Len(s) + Len(t) /\ ~(Len(s) + i <= Len(s))
        /\ (Len(s) + i) - Len(s) = i
        BY <1>2
  <2> QED BY <2>1, <1>1
<1> QED BY <1>1, <1>2, <1>3, <1>4, <1>5

\* Visiting a kid that was not found yet.
LEMMA DiscoverStep ==
  ASSUME program \in Programs, NEW d, Traversal(d), d.S # <<>>,
         d.listKids[1] # NoKid, ~(d.pre[d.listKids[1]] > 0)
  PROVE  Traversal(Discover(d, d.listKids[1]))
<1> DEFINE kid == d.listKids[1]
           f == Discover(d, kid)
           pre == [d.pre EXCEPT ![kid] = d.time]
           new == Kids(kid, pre)
           L == Len(d.listKids)
<1>1. PICK e \in [DOMAIN d.S -> DOMAIN d.listKids] :
         /\ Marks(program, d, e)
         /\ 1 \in DOMAIN d.S /\ 1 \in DOMAIN d.listKids
         /\ \A i \in DOMAIN d.S : e[i] > 1
      BY TopMark
<1>2. /\ d.S \in Seq(1 .. program.n) /\ d.listKids \in Seq(0 .. program.n)
      /\ d.pre \in [1 .. program.n -> Int] /\ d.post \in [1 .. program.n -> Int]
      /\ d.time \in Nat
      BY DEF Traversal, DfsType
<1>3. /\ DOMAIN d.S = 1 .. Len(d.S) /\ Len(d.S) \in Nat
      /\ DOMAIN d.listKids = 1 .. L /\ L \in Nat
      /\ program.n \in Nat \ {0} /\ BB = 1 .. program.n
      BY <1>2, LenProperties, ArcEnds
<1>4. kid \in 1 .. program.n
  <2>1. kid \in 0 .. program.n
        BY <1>1, <1>2, <1>3, ElementOfSeq
  <2> QED BY <2>1, <1>3 DEF NoKid
<1>5. d.pre[kid] = 0
  <2>1. d.pre[kid] \in Int /\ d.pre[kid] >= 0
        BY <1>1, <1>2, <1>4 DEF Traversal, Listed
  <2> QED BY <2>1
<1>6. f = [S |-> <<kid>> \o d.S, pre |-> pre, time |-> d.time + 1, post |-> d.post,
           listKids |-> new \o Tail(d.listKids)]
  <2>1. d = [S |-> d.S, pre |-> d.pre, time |-> d.time, post |-> d.post,
             listKids |-> d.listKids]
        BY DEF Traversal, DfsType
  <2> DEFINE S == d.S
             time == d.time
             post == d.post
             kids == d.listKids
             old == d.pre
  <2>2. d = [S |-> S, pre |-> old, time |-> time, post |-> post, listKids |-> kids]
        BY <2>1
  <2>3. f = [d EXCEPT !.S = <<kid>> \o S, !.pre = pre, !.time = time + 1,
                      !.listKids = new \o Tail(kids)]
        BY DEF Discover
  <2> HIDE DEF f, S, pre, time, post, kids, kid, new, old
  <2>4. f = [S |-> <<kid>> \o S, pre |-> pre, time |-> time + 1, post |-> post,
             listKids |-> new \o Tail(kids)]
        BY <2>2, <2>3
  <2> QED BY <2>4 DEF S, time, post, kids
<1>7. pre \in [BB -> Int]
      BY <1>2, <1>3, <1>4
<1>8. PICK m \in Nat \ {0} :
         /\ new \in Seq(0 .. program.n) /\ Len(new) = m
         /\ new[m] = NoKid
         /\ \A k \in 1 .. m - 1 : new[k] \in BB /\ pre[new[k]] = 0
         /\ \A a \in Arcs : Src(a) = kid /\ pre[Dst(a)] = 0 =>
              \E k \in 1 .. m - 1 : new[k] = Dst(a)
  <2> HIDE DEF pre
  <2>1. kid \in BB
        BY <1>3, <1>4
  <2> HIDE DEF kid
  <2> QED BY <2>1, <1>7, KidsAre
<1>9. /\ pre[kid] = d.time
      /\ \A b \in 1 .. program.n : b # kid => pre[b] = d.pre[b]
      BY <1>2, <1>4
<1>10. /\ Tail(d.listKids) \in Seq(0 .. program.n) /\ Len(Tail(d.listKids)) = L - 1
       /\ \A k \in 1 .. L - 1 :
            k + 1 \in DOMAIN d.listKids /\ Tail(d.listKids)[k] = d.listKids[k + 1]
  <2> DEFINE s == d.listKids
  <2>1. s \in Seq(0 .. program.n) /\ 1 \in DOMAIN s /\ L = Len(s)
        BY <1>1, <1>2
  <2> HIDE DEF kid, f, pre, new, L, s
  <2>2. /\ Tail(s) \in Seq(0 .. program.n) /\ Len(Tail(s)) = Len(s) - 1
        /\ \A k \in 1 .. Len(s) - 1 : k + 1 \in DOMAIN s /\ Tail(s)[k] = s[k + 1]
        BY <2>1, TailIs
  <2> QED BY <2>1, <2>2 DEF s
<1>11. <<kid>> \in Seq(1 .. program.n) /\ Len(<<kid>>) = 1 /\ <<kid>>[1] = kid
  <2> HIDE DEF kid
  <2> QED BY <1>4
<1> HIDE DEF pre, new, kid, f, L
<1>12. /\ f.S = <<kid>> \o d.S /\ f.pre = pre /\ f.time = d.time + 1
       /\ f.post = d.post /\ f.listKids = new \o Tail(d.listKids)
       BY <1>6
<1>13. /\ f.S \in Seq(1 .. program.n) /\ DOMAIN f.S = 1 .. 1 + Len(d.S)
       /\ f.S[1] = kid /\ \A i \in 1 .. Len(d.S) : f.S[1 + i] = d.S[i]
  <2>1. 1 \in 1 .. Len(<<kid>>)
        BY <1>11
  <2> QED BY <2>1, <1>2, <1>11, <1>12, AppendedAre
<1>14. /\ f.listKids \in Seq(0 .. program.n) /\ DOMAIN f.listKids = 1 .. m + (L - 1)
       /\ \A k \in 1 .. m : f.listKids[k] = new[k]
       /\ \A k \in 1 .. L - 1 : f.listKids[m + k] = d.listKids[k + 1]
       BY <1>8, <1>10, <1>12, AppendedAre
<1>15. f \in DfsType(program)
  <2>1. d.time + 1 \in Nat
        BY <1>2
  <2>2. pre \in [1 .. program.n -> Int]
        BY <1>3, <1>7
  <2> QED BY <2>1, <2>2, <1>2, <1>6, <1>12, <1>13, <1>14 DEF DfsType
\* The blocks on S are the new one and those that were on it, which were found.
<1>16. \A i \in DOMAIN f.S : /\ i = 1 => f.S[i] = kid
                             /\ i # 1 => /\ i - 1 \in DOMAIN d.S /\ f.S[i] = d.S[i - 1]
                                         /\ d.S[i - 1] \in 1 .. program.n
                                         /\ d.pre[d.S[i - 1]] > 0
                                         /\ d.pre[d.S[i - 1]] < d.time
                                         /\ d.S[i - 1] # kid
  <2> TAKE i \in DOMAIN f.S
  <2>1. i # 1 => i - 1 \in 1 .. Len(d.S) /\ 1 + (i - 1) = i
    <3> DEFINE n == Len(d.S)
    <3>1. n \in Nat
          BY <1>3
    <3>2. i \in 1 .. 1 + n
          BY <1>13
    <3> HIDE DEF n
    <3>3. i # 1 => i - 1 \in 1 .. n /\ 1 + (i - 1) = i
          BY <3>1, <3>2
    <3> QED BY <3>3 DEF n
  <2>2. i # 1 => d.pre[d.S[i - 1]] > 0 /\ d.pre[d.S[i - 1]] < d.time
        BY <2>1, <1>3, SMTT(30) DEF Traversal, Timely
  <2>3. i # 1 => d.S[i - 1] \in 1 .. program.n
        BY <2>1, <1>2, ElementOfSeq
  <2>4. i # 1 => d.S[i - 1] # kid
        BY <2>2, <1>5
  <2> QED BY <2>1, <2>2, <2>3, <2>4, <1>3, <1>13
<1>17. d.time > 0
       BY DEF Traversal, Timely
<1>18. kid < program.n => d.post[kid] = 0
  <2>1. kid < program.n => kid \in Inner(program)
        BY <1>3, <1>4 DEF Inner
  <2> QED BY <2>1, <1>5 DEF Traversal, Timely
<1>19. Timely(program, f)
  <2>1. ASSUME NEW b \in Inner(program)
        PROVE  /\ 0 <= f.pre[b] /\ f.pre[b] < f.time
               /\ 0 <= f.post[b] /\ f.post[b] < f.time
               /\ f.pre[b] = 0 => f.post[b] = 0
               /\ f.pre[b] > 0 /\ f.post[b] = 0 => \E i \in DOMAIN f.S : f.S[i] = b
    <3>1. /\ 0 <= d.pre[b] /\ d.pre[b] < d.time
          /\ 0 <= d.post[b] /\ d.post[b] < d.time
          /\ d.pre[b] = 0 => d.post[b] = 0
          /\ d.pre[b] > 0 /\ d.post[b] = 0 => \E i \in DOMAIN d.S : d.S[i] = b
          BY DEF Traversal, Timely
    <3>2. b \in 1 .. program.n
          BY <1>3 DEF Inner
    <3>3. d.pre[b] \in Int /\ d.post[b] \in Int
          BY <3>2, <1>2
    <3>4. CASE b = kid
      <4>1. 1 \in DOMAIN f.S
            BY <1>3, <1>13
      <4>2. f.pre[b] = d.time /\ f.S[1] = b
            BY <3>4, <1>9, <1>12, <1>13
      <4>3. f.time = d.time + 1 /\ f.post[b] = d.post[b]
            BY <1>12
      <4>4. \E i \in DOMAIN f.S : f.S[i] = b
            BY <4>1, <4>2
      <4>5. d.time \in Nat /\ d.time > 0
            BY <1>2, <1>17
      <4>6. d.time # 0 /\ 0 <= d.time /\ d.time < d.time + 1 /\ d.post[b] < d.time + 1
            BY <3>1, <3>3, <4>5
      <4> QED BY <3>1, <4>2, <4>3, <4>4, <4>6
    <3>5. CASE b # kid
      <4>1. f.pre[b] = d.pre[b]
            BY <3>2, <3>5, <1>9, <1>12
      <4>2. ASSUME d.pre[b] > 0, d.post[b] = 0
            PROVE  \E i \in DOMAIN f.S : f.S[i] = b
        <5>1. PICK i \in 1 .. Len(d.S) : d.S[i] = b
              BY <3>1, <4>2, <1>3
        <5>2. 1 + i \in DOMAIN f.S
              BY <1>3, <1>13
        <5> QED BY <5>1, <5>2, <1>13
      <4> QED BY <3>1, <3>3, <4>1, <4>2, <1>2, <1>12
    <3> QED BY <3>4, <3>5
  <2>2. ASSUME NEW i \in DOMAIN f.S
        PROVE  /\ 0 < f.pre[f.S[i]] /\ f.pre[f.S[i]] < f.time
               /\ f.S[i] < program.n => f.post[f.S[i]] = 0
    <3>1. CASE i = 1
          BY <3>1, <1>2, <1>9, <1>12, <1>16, <1>17, <1>18
    <3>2. CASE i # 1
      <4>1. f.pre[f.S[i]] = d.pre[d.S[i - 1]] /\ f.S[i] = d.S[i - 1]
            BY <3>2, <1>9, <1>12, <1>16
      <4>2. d.pre[d.S[i - 1]] \in Int
            BY <3>2, <1>2, <1>16
      <4>3. d.S[i - 1] < program.n => d.post[d.S[i - 1]] = 0
            BY <3>2, <1>16 DEF Traversal, Timely
      <4>4. d.pre[d.S[i - 1]] > 0 /\ d.pre[d.S[i - 1]] < d.time
            BY <3>2, <1>16
      <4> QED BY <4>1, <4>2, <4>3, <4>4, <1>2, <1>12
    <3> QED BY <3>1, <3>2
  <2>3. ASSUME NEW i \in DOMAIN f.S, NEW j \in DOMAIN f.S, i < j
        PROVE  f.pre[f.S[i]] > f.pre[f.S[j]]
    <3>1. i \in 1 .. 1 + Len(d.S) /\ j \in 1 .. 1 + Len(d.S) /\ j # 1
          BY <2>3, <1>3, <1>13
    <3>2. /\ j - 1 \in DOMAIN d.S /\ f.S[j] = d.S[j - 1] /\ f.pre[f.S[j]] = d.pre[d.S[j - 1]]
          /\ d.pre[d.S[j - 1]] < d.time /\ d.pre[d.S[j - 1]] \in Int
          BY <3>1, <1>2, <1>9, <1>12, <1>16
    <3>3. CASE i = 1
      <4>1. f.pre[f.S[i]] = d.time
            BY <3>3, <1>9, <1>12, <1>16
      <4> QED BY <3>2, <4>1, <1>2
    <3>4. CASE i # 1
      <4>1. i - 1 \in DOMAIN d.S /\ f.pre[f.S[i]] = d.pre[d.S[i - 1]]
            BY <3>4, <1>9, <1>12, <1>16
      <4>2. i - 1 < j - 1
            BY <2>3, <3>1
      <4>3. d.pre[d.S[i - 1]] > d.pre[d.S[j - 1]]
            BY <3>2, <4>1, <4>2 DEF Traversal, Timely
      <4> QED BY <3>2, <4>1, <4>3
    <3> QED BY <3>3, <3>4
  <2>4. f.time > 0
        BY <1>2, <1>12
  <2> QED BY <2>1, <2>2, <2>3, <2>4 DEF Timely
<1>20. Ordered(program, f)
  <2> SUFFICES ASSUME NEW a \in Arcs, Src(a) < program.n, Dst(a) < program.n,
                      f.post[Src(a)] > 0
               PROVE  /\ f.pre[Dst(a)] > 0
                      /\ f.pre[Dst(a)] > f.pre[Src(a)] =>
                           f.post[Dst(a)] > 0 /\ f.post[Dst(a)] < f.post[Src(a)]
      BY DEF Ordered, Arcs, Src, Dst
  <2> DEFINE v == Dst(a)
             w == Src(a)
  <2>1. v \in 1 .. program.n /\ w \in 1 .. program.n
        BY ArcEnds
  <2>2. /\ d.pre[v] > 0
        /\ d.pre[v] > d.pre[w] => d.post[v] > 0 /\ d.post[v] < d.post[w]
        BY <1>12 DEF Traversal, Ordered, Arcs, Src, Dst
  <2>3. v # kid
        BY <2>2, <1>5
  <2>4. w # kid
    <3>1. w = kid => d.post[w] = 0
          BY <1>18
    <3> QED BY <3>1, <1>12
  <2>5. f.pre[v] = d.pre[v] /\ f.pre[w] = d.pre[w]
        BY <2>1, <2>3, <2>4, <1>9, <1>12
  <2> QED BY <2>2, <2>5, <1>12
<1>21. Listed(program, f)
  <2>0. ASSUME NEW k \in DOMAIN f.listKids
        PROVE  \/ k \in 1 .. m /\ f.listKids[k] = new[k]
               \/ /\ k \notin 1 .. m /\ k - m \in 1 .. L - 1 /\ m + (k - m) = k
                  /\ (k - m) + 1 \in DOMAIN d.listKids
                  /\ f.listKids[k] = d.listKids[(k - m) + 1]
    <3>1. L \in Nat
          BY <1>3 DEF L
    <3>2. k \in 1 .. m \/ (k \notin 1 .. m /\ k - m \in 1 .. L - 1 /\ m + (k - m) = k)
          BY <3>1, <1>8, <1>14
    <3> QED BY <3>2, <1>10, <1>14
  <2>1. ASSUME NEW k \in DOMAIN f.listKids, f.listKids[k] # NoKid
        PROVE  f.pre[f.listKids[k]] >= 0
    <3>1. CASE k \in 1 .. m /\ f.listKids[k] = new[k]
      <4>1. k # m
            BY <2>1, <3>1, <1>8
      <4>2. k \in 1 .. m - 1
            BY <3>1, <4>1, <1>8
      <4> QED BY <3>1, <4>2, <1>8, <1>12
    <3>2. CASE (k - m) + 1 \in DOMAIN d.listKids /\ f.listKids[k] = d.listKids[(k - m) + 1]
      <4> DEFINE b == d.listKids[(k - m) + 1]
      <4>1. b \in 0 .. program.n /\ b # NoKid
            BY <2>1, <3>2, <1>2, <1>3, ElementOfSeq
      <4>2. b \in 1 .. program.n
            BY <4>1, <1>3 DEF NoKid
      <4>3. d.pre[b] >= 0
            BY <3>2, <4>1 DEF Traversal, Listed
      <4>4. b = f.listKids[k]
            BY <3>2
      <4> HIDE DEF b
      <4>5. pre[b] >= 0
            BY <4>2, <4>3, <1>2, <1>9
      <4> QED BY <4>4, <4>5, <1>12
    <3> QED BY <3>1, <3>2, <2>0
  <2> DEFINE g == [i \in DOMAIN f.S |-> IF i = 1 THEN m ELSE m + (e[i - 1] - 1)]
  <2>2. \A i \in DOMAIN f.S : i # 1 => /\ e[i - 1] \in 2 .. L
                                       /\ g[i] = m + (e[i - 1] - 1)
    <3> TAKE i \in DOMAIN f.S
    <3>1. i # 1 => i - 1 \in DOMAIN d.S
          BY <1>16
    <3>2. i # 1 => e[i - 1] \in 1 .. L /\ e[i - 1] > 1
          BY <3>1, <1>1, <1>3 DEF L
    <3>3. L \in Nat
          BY <1>3 DEF L
    <3> QED BY <3>2, <3>3
  <2>3. L \in Nat /\ 1 \in DOMAIN f.S /\ g[1] = m /\ 1 \in 1 .. L
    <3>1. 1 \in DOMAIN f.S
          BY <1>3, <1>13
    <3> QED BY <3>1, <1>1, <1>3 DEF L
  <2>4. g \in [DOMAIN f.S -> DOMAIN f.listKids]
    <3>1. ASSUME NEW i \in DOMAIN f.S
          PROVE  g[i] \in 1 .. m + (L - 1)
      <4>1. CASE i = 1
            BY <4>1, <2>3, <1>8
      <4>2. CASE i # 1
        <5>1. e[i - 1] \in 2 .. L /\ g[i] = m + (e[i - 1] - 1)
              BY <4>2, <2>2
        <5> HIDE DEF g
        <5> QED BY <5>1, <2>3, <1>8
      <4> QED BY <4>1, <4>2
    <3> QED BY <3>1, <1>14
  <2>5. ASSUME NEW i \in DOMAIN f.S, NEW j \in DOMAIN f.S, i < j
        PROVE  g[i] < g[j]
    <3>0. i \in 1 .. 1 + Len(d.S) /\ j \in 1 .. 1 + Len(d.S) /\ Len(d.S) \in Nat
          BY <1>3, <1>13
    <3>1. j # 1 /\ i \in Nat /\ j \in Nat /\ (i # 1 => i - 1 < j - 1)
          BY <3>0, <2>5
    <3>2. CASE i = 1
      <4>1. g[i] = m /\ e[j - 1] \in 2 .. L /\ g[j] = m + (e[j - 1] - 1)
            BY <3>1, <3>2, <2>2, <2>3
      <4> HIDE DEF g
      <4> QED BY <4>1, <2>3, <1>8
    <3>3. CASE i # 1
      <4>1. i - 1 \in DOMAIN d.S /\ j - 1 \in DOMAIN d.S
            BY <3>1, <3>3, <1>16
      <4>2. e[i - 1] < e[j - 1]
            BY <3>1, <3>3, <4>1, <1>1 DEF Marks
      <4>3. /\ g[i] = m + (e[i - 1] - 1) /\ g[j] = m + (e[j - 1] - 1)
            /\ e[i - 1] \in 2 .. L /\ e[j - 1] \in 2 .. L
            BY <3>1, <3>3, <2>2
      <4> HIDE DEF g
      <4> QED BY <4>2, <4>3, <2>3, <1>8
    <3> QED BY <3>2, <3>3
  <2>6. ASSUME NEW k \in DOMAIN f.listKids
        PROVE  f.listKids[k] = NoKid <=> \E i \in DOMAIN f.S : g[i] = k
    <3>1. CASE k \in 1 .. m /\ f.listKids[k] = new[k]
      <4>1. f.listKids[k] = NoKid <=> k = m
        <5>1. k # m => k \in 1 .. m - 1
              BY <3>1, <1>8
        <5> QED BY <3>1, <5>1, <1>3, <1>8 DEF NoKid
      <4>2. \A i \in DOMAIN f.S : g[i] = k <=> i = 1 /\ k = m
        <5> TAKE i \in DOMAIN f.S
        <5>1. i # 1 => g[i] > m
          <6> HIDE DEF g
          <6> QED BY <2>2, <2>3, <1>8
        <5> HIDE DEF g
        <5> QED BY <3>1, <5>1, <2>3, <1>8
      <4> HIDE DEF g
      <4> QED BY <4>1, <4>2, <2>3
    <3>2. CASE /\ k \notin 1 .. m /\ k - m \in 1 .. L - 1 /\ m + (k - m) = k
               /\ (k - m) + 1 \in DOMAIN d.listKids
               /\ f.listKids[k] = d.listKids[(k - m) + 1]
      <4>1. f.listKids[k] = NoKid <=> \E i \in DOMAIN d.S : e[i] = (k - m) + 1
            BY <3>2, <1>1 DEF Marks
      <4>2. ASSUME NEW i \in DOMAIN d.S, e[i] = (k - m) + 1
            PROVE  \E j \in DOMAIN f.S : g[j] = k
        <5>0. i \in 1 .. Len(d.S) /\ Len(d.S) \in Nat
              BY <1>3
        <5>1. 1 + i \in 1 .. 1 + Len(d.S) /\ 1 + i # 1 /\ (1 + i) - 1 = i
              BY <5>0
        <5>4. 1 + i \in DOMAIN f.S
              BY <5>1, <1>13
        <5>2. g[1 + i] = m + (e[i] - 1) /\ e[i] \in 2 .. L
              BY <5>1, <5>4, <2>2
        <5>3. e[i] - 1 = k - m
              BY <3>2, <4>2, <5>2, <2>3
        <5> HIDE DEF g
        <5> QED BY <3>2, <5>4, <5>2, <5>3
      <4>3. ASSUME NEW j \in DOMAIN f.S, g[j] = k
            PROVE  \E i \in DOMAIN d.S : e[i] = (k - m) + 1
        <5>1. j # 1
          <6>1. m \in 1 .. m
                BY <1>8
          <6> HIDE DEF g
          <6> QED BY <3>2, <4>3, <2>3, <6>1
        <5>2. j - 1 \in DOMAIN d.S /\ e[j - 1] \in 2 .. L /\ k = m + (e[j - 1] - 1)
              BY <4>3, <5>1, <2>2, <1>16
        <5>3. e[j - 1] = (k - m) + 1
              BY <5>2, <1>8, <2>3
        <5> QED BY <5>2, <5>3
      <4> QED BY <4>1, <4>2, <4>3
    <3> QED BY <3>1, <3>2, <2>0
  <2>7. ASSUME NEW i \in DOMAIN f.S, NEW a \in DOMAIN program.arcs,
               program.arcs[a].src = f.S[i], f.pre[program.arcs[a].dst] = 0
        PROVE  \E k \in 1 .. g[i] : f.listKids[k] = program.arcs[a].dst
    <3>1. a \in Arcs /\ Dst(a) = program.arcs[a].dst /\ Src(a) = program.arcs[a].src
          BY DEF Arcs, Dst, Src
    <3>2. Dst(a) \in 1 .. program.n /\ pre[Dst(a)] = 0
          BY <2>7, <3>1, <1>12, ArcEnds
    <3>3. CASE i = 1
      <4>1. Src(a) = kid
            BY <2>7, <3>1, <3>3, <1>16
      <4>2. PICK k \in 1 .. m - 1 : new[k] = Dst(a)
            BY <3>1, <3>2, <4>1, <1>8
      <4>3. k \in 1 .. m
            BY <1>8
      <4> QED BY <3>1, <3>3, <4>2, <4>3, <2>3, <1>14
    <3>4. CASE i # 1
      <4>1. i - 1 \in DOMAIN d.S /\ f.S[i] = d.S[i - 1]
            BY <3>4, <1>16
      <4>2. Dst(a) # kid
            BY <3>2, <1>2, <1>9, <1>17
      <4>3. d.pre[Dst(a)] = 0
            BY <3>2, <4>2, <1>9
      <4>4. PICK k \in 1 .. e[i - 1] : d.listKids[k] = Dst(a)
            BY <2>7, <3>1, <4>1, <4>3, <1>1 DEF Marks
      <4>5. k # 1
            BY <4>2, <4>4 DEF kid
      <4>6. e[i - 1] \in 2 .. L /\ g[i] = m + (e[i - 1] - 1)
            BY <3>4, <2>2
      <4>7. /\ k - 1 \in 1 .. L - 1 /\ (k - 1) + 1 = k
            /\ m + (k - 1) \in 1 .. m + (e[i - 1] - 1)
            BY <4>4, <4>5, <4>6, <2>3, <1>8
      <4>8. f.listKids[m + (k - 1)] = Dst(a)
            BY <4>4, <4>7, <1>14
      <4> HIDE DEF g
      <4> QED BY <3>1, <4>6, <4>7, <4>8
    <3> QED BY <3>3, <3>4
  <2>8. Marks(program, f, g)
    <3> HIDE DEF g
    <3> QED BY <2>5, <2>6, <2>7 DEF Marks
  <2> QED BY <2>1, <2>4, <2>8 DEF Listed
<1> QED BY <1>15, <1>19, <1>20, <1>21 DEF Traversal, f, kid

\* The traversal starts well: the entry is on S.
LEMMA EntryIs ==
  ASSUME determineEntryExitBlock
  PROVE  entryBB \in BB
<1> DEFINE E == {bb \in BB : predecessors(bb) = {}}
<1>1. Cardinality(E) = 1
      BY DEF determineEntryExitBlock
<1>2. E # {}
  <2>1. E = {} => Cardinality(E) = 0
        BY FS_EmptySet
  <2> QED BY <1>1, <2>1
<1> QED BY <1>2 DEF entryBB

LEMMA DfsInitInv == Init => DfsInv
<1> SUFFICES ASSUME Init PROVE DfsInv
    OBVIOUS
<1>1. program \in Programs /\ determineEntryExitBlock /\ phase = "dfs"
      BY DEF Init, BBGInit
<1>2. program.n \in Nat \ {0} /\ BB = 1 .. program.n
      BY <1>1, ArcEnds
<1>3. entryBB \in BB
      BY <1>1, EntryIs
<1> DEFINE start(g) == [[bb \in BB |-> IF bb = program.n THEN g[1] ELSE 0]
                          EXCEPT ![entryBB] = 1]
           rest(g) == [bb \in BB |-> IF bb = program.n THEN g[2] ELSE 0]
<1>4. PICK g \in Garbage :
        dfs = [S |-> <<entryBB>>, pre |-> start(g), time |-> 2, post |-> rest(g),
               listKids |-> Kids(entryBB, start(g))]
      BY DEF Init, BBGInit
<1> DEFINE pre == start(g)
           post == rest(g)
           kids == Kids(entryBB, pre)
<1>5. g[1] \in Int /\ g[2] \in Int
      BY GraphAssumption
<1>6. /\ pre \in [BB -> Int] /\ post \in [BB -> Int] /\ pre[entryBB] = 1
      /\ \A b \in BB : b # program.n => post[b] = 0 /\ (b = entryBB \/ pre[b] = 0)
      BY <1>3, <1>5
<1>7. dfs = [S |-> <<entryBB>>, pre |-> pre, time |-> 2, post |-> post, listKids |-> kids]
      BY <1>4
<1> HIDE DEF pre, post
<1>8. PICK m \in Nat \ {0} :
         /\ kids \in Seq(0 .. program.n) /\ Len(kids) = m
         /\ kids[m] = NoKid
         /\ \A k \in 1 .. m - 1 : kids[k] \in BB /\ pre[kids[k]] = 0
         /\ \A a \in Arcs : Src(a) = entryBB /\ pre[Dst(a)] = 0 =>
              \E k \in 1 .. m - 1 : kids[k] = Dst(a)
      BY <1>1, <1>3, <1>6, KidsAre
<1> HIDE DEF kids
<1>9. /\ <<entryBB>> \in Seq(BB) /\ DOMAIN <<entryBB>> = {1} /\ <<entryBB>>[1] = entryBB
      /\ <<entryBB>> # <<>>
  <2> DEFINE b == entryBB
  <2>1. b \in BB
        BY <1>3
  <2> HIDE DEF b
  <2>2. <<b>> \in Seq(BB) /\ DOMAIN <<b>> = {1} /\ <<b>>[1] = b /\ <<b>> # <<>>
        BY <2>1
  <2> QED BY <2>2 DEF b
<1>10. DOMAIN kids = 1 .. m
       BY <1>8, LenProperties
<1>11. /\ dfs.S = <<entryBB>> /\ dfs.pre = pre /\ dfs.time = 2 /\ dfs.post = post
       /\ dfs.listKids = kids
       BY <1>7
<1>12. dfs \in DfsType(program)
       BY <1>2, <1>6, <1>7, <1>8, <1>9 DEF DfsType
<1>13. Timely(program, dfs)
  <2>1. ASSUME NEW b \in Inner(program)
        PROVE  /\ 0 <= dfs.pre[b] /\ dfs.pre[b] < dfs.time
               /\ 0 <= dfs.post[b] /\ dfs.post[b] < dfs.time
               /\ dfs.pre[b] = 0 => dfs.post[b] = 0
               /\ dfs.pre[b] > 0 /\ dfs.post[b] = 0 => \E i \in DOMAIN dfs.S : dfs.S[i] = b
    <3>1. b \in BB /\ b # program.n
          BY <1>2 DEF Inner
    <3>2. dfs.post[b] = 0 /\ (b = entryBB \/ dfs.pre[b] = 0)
          BY <3>1, <1>6, <1>11
    <3>3. 1 \in DOMAIN dfs.S /\ dfs.S[1] = entryBB
          BY <1>9, <1>11
    <3> QED BY <3>2, <3>3, <1>6, <1>11
  <2>2. \A i \in DOMAIN dfs.S : i = 1 /\ dfs.S[i] = entryBB
        BY <1>9, <1>11
  <2>3. entryBB < program.n => dfs.post[entryBB] = 0
        BY <1>2, <1>3, <1>6, <1>11
  <2> QED BY <2>1, <2>2, <2>3, <1>6, <1>11 DEF Timely
<1>14. Ordered(program, dfs)
  <2>1. ASSUME NEW a \in Arcs, Src(a) < program.n
        PROVE  ~(dfs.post[Src(a)] > 0)
    <3>1. Src(a) \in BB
          BY <1>1, ArcEnds
    <3>2. Src(a) # program.n
          BY <2>1, <1>2
    <3> QED BY <3>1, <3>2, <1>6, <1>11
  <2> QED BY <2>1 DEF Ordered, Arcs, Src
<1>15. Listed(program, dfs)
  <2> DEFINE e == [i \in DOMAIN dfs.S |-> m]
  <2>1. e \in [DOMAIN dfs.S -> DOMAIN dfs.listKids]
        BY <1>8, <1>10, <1>11
  <2>2. \A k \in DOMAIN dfs.listKids :
          /\ k = m => dfs.listKids[k] = NoKid
          /\ k # m => k \in 1 .. m - 1 /\ dfs.listKids[k] \in BB /\ pre[dfs.listKids[k]] = 0
    <3> TAKE k \in DOMAIN dfs.listKids
    <3>1. k # m => k \in 1 .. m - 1
          BY <1>8, <1>10, <1>11
    <3> QED BY <3>1, <1>8, <1>11
  <2>3. \A k \in DOMAIN dfs.listKids : dfs.listKids[k] # NoKid => dfs.pre[dfs.listKids[k]] >= 0
        BY <2>2, <1>11
  <2>4. \A i \in DOMAIN dfs.S : i = 1 /\ dfs.S[i] = entryBB /\ e[i] = m
        BY <1>9, <1>11
  <2>5. 1 \in DOMAIN dfs.S
        BY <1>9, <1>11
  <2>6. \A k \in DOMAIN dfs.listKids :
          dfs.listKids[k] = NoKid <=> \E i \in DOMAIN dfs.S : e[i] = k
    <3> TAKE k \in DOMAIN dfs.listKids
    <3>1. dfs.listKids[k] = NoKid <=> k = m
          BY <2>2, <1>2 DEF NoKid
    <3> HIDE DEF e
    <3> QED BY <3>1, <2>4, <2>5
  <2>7. ASSUME NEW i \in DOMAIN dfs.S, NEW a \in DOMAIN program.arcs,
               program.arcs[a].src = dfs.S[i], dfs.pre[program.arcs[a].dst] = 0
        PROVE  \E k \in 1 .. e[i] : dfs.listKids[k] = program.arcs[a].dst
    <3>1. a \in Arcs /\ Src(a) = entryBB /\ pre[Dst(a)] = 0
          BY <2>4, <2>7, <1>11 DEF Arcs, Src, Dst
    <3>2. PICK k \in 1 .. m - 1 : kids[k] = Dst(a)
          BY <3>1, <1>8
    <3>3. k \in 1 .. m
          BY <1>8
    <3> HIDE DEF e
    <3> QED BY <3>2, <3>3, <2>4, <1>11 DEF Dst
  <2>8. Marks(program, dfs, e)
    <3>1. \A i, j \in DOMAIN dfs.S : i < j => e[i] < e[j]
          BY <2>4
    <3> HIDE DEF e
    <3> QED BY <3>1, <2>6, <2>7 DEF Marks
  <2> QED BY <2>1, <2>3, <2>8 DEF Listed
<1> QED BY <1>1, <1>3, <1>6, <1>11, <1>12, <1>13, <1>14, <1>15 DEF DfsInv

LEMMA DfsNextInv == DfsInv /\ [Next]_vars => DfsInv'
<1> SUFFICES ASSUME DfsInv, [Next]_vars PROVE DfsInv'
    OBVIOUS
<1>1. CASE Visit
  <2>1. /\ phase = "dfs" /\ dfs.S # <<>> /\ phase' = phase /\ program' = program
        BY <1>1 DEF Visit
  <2>2. program \in Programs /\ Traversal(dfs) /\ entryBB \in BB /\ dfs.pre[entryBB] > 0
        BY DEF DfsInv, Traversal
  <2> DEFINE kid == dfs.listKids[1]
  <2>3. dfs' = IF kid = NoKid THEN Finish(dfs)
               ELSE IF dfs.pre[kid] > 0 THEN Skip(dfs)
               ELSE Discover(dfs, kid)
        BY <1>1 DEF Visit, Skip
  <2>4. entryBB' = entryBB /\ BB' = BB
        BY <2>1 DEF entryBB, BB, predecessors, Arcs, Dst
  <2>5. Traversal(dfs') /\ dfs'.pre[entryBB] > 0
    <3>0. /\ dfs.pre \in [BB -> Int] /\ dfs.time \in Nat /\ dfs.time > 0
          BY <2>2 DEF Traversal, DfsType, BB, Timely
    <3>1. CASE kid = NoKid
      <4>1. Traversal(Finish(dfs))
            BY <2>1, <2>2, <3>1, FinishStep
      <4>2. Finish(dfs).pre = dfs.pre
            BY <2>2 DEF Finish, Traversal, DfsType
      <4> QED BY <2>2, <2>3, <3>1, <4>1, <4>2
    <3>2. CASE kid # NoKid /\ dfs.pre[kid] > 0
      <4>1. Traversal(Skip(dfs))
            BY <2>1, <2>2, <3>2, SkipStep
      <4>2. Skip(dfs).pre = dfs.pre
            BY <2>2 DEF Skip, Traversal, DfsType
      <4> QED BY <2>2, <2>3, <3>2, <4>1, <4>2
    <3>3. CASE kid # NoKid /\ ~(dfs.pre[kid] > 0)
      <4>1. Traversal(Discover(dfs, kid))
            BY <2>1, <2>2, <3>3, DiscoverStep
      <4>2. Discover(dfs, kid).pre = [dfs.pre EXCEPT ![kid] = dfs.time]
            BY <2>2 DEF Discover, Traversal, DfsType
      <4>3. dfs' = Discover(dfs, kid)
            BY <2>3, <3>3
      <4> HIDE DEF kid
      <4>4. [dfs.pre EXCEPT ![kid] = dfs.time][entryBB] > 0
            BY <2>2, <3>0
      <4> QED BY <4>1, <4>2, <4>3, <4>4
    <3> QED BY <3>1, <3>2, <3>3
  <2> QED BY <2>1, <2>2, <2>4, <2>5 DEF DfsInv, Traversal
<1>2. CASE calculateBackArcs
  <2>1. /\ phase = "dfs" /\ dfs.S = <<>> /\ phase' = "extract" /\ program' = program
        /\ dfs' = dfs /\ back' = BackArcs(program, dfs)
        BY <1>2 DEF calculateBackArcs, BackArcs, Arcs, Src, Dst, IsBack
  <2>2. entryBB' = entryBB /\ BB' = BB
        BY <2>1 DEF entryBB, BB, predecessors, Arcs, Dst
  <2> QED BY <2>1, <2>2 DEF DfsInv
<1>3. CASE /\ UNCHANGED <<program, dfs, back>>
           /\ phase' = "dfs" => phase = "dfs"
           /\ phase = "dfs" => phase' = "dfs"
  <2>2. entryBB' = entryBB /\ BB' = BB
        BY <1>3 DEF entryBB, BB, predecessors, Arcs, Dst
  <2> QED BY <1>3, <2>2 DEF DfsInv
<1>4. \/ Visit \/ calculateBackArcs
      \/ /\ UNCHANGED <<program, dfs, back>>
         /\ phase' = "dfs" => phase = "dfs"
         /\ phase = "dfs" => phase' = "dfs"
  <2>1. CASE ControlFlow
        BY <2>1 DEF ControlFlow, extractMarkedGraphBB
  <2>2. CASE NoCoverage
        BY <2>2 DEF NoCoverage, extracted, bbgVars
  <2>3. CASE addElasticBuffersBB
        BY <2>3 DEF addElasticBuffersBB, extracted, Fail, bbgVars
  <2>4. CASE addBorderBuffers
        BY <2>4 DEF addBorderBuffers, extracted, bbgVars
  <2>5. CASE addElasticBuffersBB_sc
        BY <2>5 DEF addElasticBuffersBB_sc, Fail, bbgVars
  <2>6. CASE createMilpVars_remaining
        BY <2>6 DEF createMilpVars_remaining, bbgVars
  <2>7. CASE instantiateElasticBuffers
        BY <2>7 DEF instantiateElasticBuffers, bbgVars
  <2>8. CASE UNCHANGED vars
        BY <2>8 DEF vars, bbgVars
  <2> QED BY <2>1, <2>2, <2>3, <2>4, <2>5, <2>6, <2>7, <2>8 DEF Next
<1> QED BY <1>1, <1>2, <1>3, <1>4

LEMMA AlwaysDfsInv == Spec => []DfsInv
BY DfsInitInv, DfsNextInv, PTL DEF Spec

\* A graph as a compiled function has: every block can be reached from the entry,
\* and the last one leads nowhere.
Regular ==
  /\ \A a \in Arcs : Src(a) # program.n
  /\ \A bb \in BB : Reaches(Arcs, entryBB, bb)

\* Times grow smaller along arcs that are no back arcs.
LEMMA TimesFall ==
  ASSUME DfsInv, Regular, phase # "dfs", NEW a \in Arcs \ back
  PROVE  /\ Src(a) \in Inner(program)
         /\ Dst(a) = program.n \/ (Dst(a) \in Inner(program)
                                   /\ dfs.post[Dst(a)] < dfs.post[Src(a)])
<1> DEFINE R == {b \in BB : b = program.n \/ dfs.pre[b] > 0}
<1>1. /\ program \in Programs /\ program.n \in Nat \ {0} /\ BB = 1 .. program.n
      /\ Src(a) \in BB /\ Dst(a) \in BB /\ Src(a) # program.n
      /\ entryBB \in BB /\ dfs.pre[entryBB] > 0
      BY ArcEnds DEF DfsInv, Regular
<1>2. ASSUME NEW b \in Inner(program), dfs.pre[b] > 0
      PROVE  dfs.post[b] > 0
  <2>1. /\ 0 <= dfs.post[b]
        /\ dfs.post[b] = 0 => \E i \in DOMAIN dfs.S : dfs.S[i] = b
        BY <1>2 DEF DfsInv, Timely
  <2>2. DOMAIN dfs.S = {}
    <3>1. dfs.S = <<>>
          BY DEF DfsInv
    <3>2. DOMAIN <<>> = {}
          OBVIOUS
    <3> QED BY <3>1, <3>2
  <2>3. dfs.post[b] \in Int
    <3>1. b \in 1 .. program.n
          BY <1>1 DEF Inner
    <3>2. dfs.post \in [1 .. program.n -> Int]
          BY DEF DfsInv, DfsType
    <3> QED BY <3>1, <3>2
  <2> QED BY <2>1, <2>2, <2>3
<1>3. ASSUME NEW c \in Arcs, Src(c) \in R
      PROVE  Dst(c) \in R
  <2>1. Src(c) \in BB /\ Dst(c) \in BB /\ Src(c) # program.n
        BY <1>1, ArcEnds DEF Regular
  <2>2. Src(c) \in Inner(program)
        BY <1>1, <2>1 DEF Inner
  <2>3. dfs.post[Src(c)] > 0
        BY <1>2, <1>3, <2>1, <2>2
  <2>4. Dst(c) < program.n => dfs.pre[Dst(c)] > 0
        BY <1>1, <2>1, <2>2, <2>3 DEF DfsInv, Ordered, Inner, Arcs, Src, Dst
  <2> QED BY <1>1, <2>1, <2>4
<1>4. \A b \in BB : b \in R
  <2> TAKE b \in BB
  <2> DEFINE Q == R \cap ({entryBB} \cup {Dst(c) : c \in Arcs})
  <2>1. Reaches(Arcs, entryBB, b)
        BY DEF Regular
  <2>2. entryBB \in Q /\ \A c \in Arcs : Src(c) \in Q => Dst(c) \in Q
        BY <1>1, <1>3
  <2>3. Q \in SUBSET ({entryBB} \cup {Dst(c) : c \in Arcs})
        OBVIOUS
  <2>4. b \in Q
    <3> HIDE DEF Q
    <3> QED BY <2>1, <2>2, <2>3 DEF Reaches, Leads
  <2> QED BY <2>4
<1>5. Src(a) \in Inner(program)
      BY <1>1 DEF Inner
<1>6. CASE Dst(a) # program.n
  <2>1. Dst(a) \in Inner(program)
        BY <1>1, <1>6 DEF Inner
  <2>2. dfs.pre[Src(a)] > 0 /\ dfs.post[Src(a)] > 0
        BY <1>1, <1>2, <1>4, <1>5
  <2>3. dfs.pre[Dst(a)] > dfs.pre[Src(a)] => dfs.post[Dst(a)] < dfs.post[Src(a)]
        BY <1>1, <1>5, <2>1, <2>2 DEF DfsInv, Ordered, Inner, Arcs, Src, Dst
  <2>4. /\ dfs.pre[Dst(a)] \in Int /\ dfs.pre[Src(a)] \in Int
        /\ dfs.post[Dst(a)] \in Int /\ dfs.post[Src(a)] \in Int
        BY <1>1 DEF DfsInv, DfsType
  <2>5. ~(dfs.pre[Dst(a)] <= dfs.pre[Src(a)] /\ dfs.post[Dst(a)] >= dfs.post[Src(a)])
    <3>1. Src(a) < program.n /\ dfs.pre[Src(a)] # 0
          BY <1>1, <1>5, <2>2 DEF Inner
    <3> QED BY <3>1 DEF DfsInv, BackArcs, Arcs, Src, Dst
  <2> QED BY <1>5, <2>1, <2>3, <2>4, <2>5
<1> QED BY <1>5, <1>6

\* Every cycle of the graph of basic blocks has one of the arcs that
\* calculateBackArcs finds, whatever is past the end of its vectors, when every
\* block can be reached and the last one leads nowhere.
THEOREM BackArcsFound == Spec => [](Regular => BackArcsCutCycles)
<1>1. DfsInv => (Regular => BackArcsCutCycles)
  <2> SUFFICES ASSUME DfsInv, Regular, phase = "extract", NEW a \in Arcs \ back,
                      OnCycle(Arcs \ back, a)
               PROVE  FALSE
      BY DEF BackArcsCutCycles
  <2> DEFINE as == Arcs \ back
             low(b) == b = program.n
                       \/ (Dst(a) # program.n /\ dfs.post[b] <= dfs.post[Dst(a)])
             Q == {b \in {Dst(a)} \cup {Dst(c) : c \in as} : low(b)}
  <2>1. /\ program \in Programs /\ program.n \in Nat \ {0} /\ BB = 1 .. program.n
        /\ \A c \in Arcs : Src(c) \in BB /\ Dst(c) \in BB
        /\ \A b \in BB : dfs.post[b] \in Int
        BY ArcEnds DEF DfsInv, DfsType
  <2>2. Dst(a) \in Q
        BY <2>1
  <2>3. ASSUME NEW c \in as, Src(c) \in Q
        PROVE  Dst(c) \in Q
    <3>1. /\ Src(c) \in Inner(program)
          /\ Dst(c) = program.n \/ (Dst(c) \in Inner(program)
                                    /\ dfs.post[Dst(c)] < dfs.post[Src(c)])
          BY TimesFall
    <3>2. Src(c) # program.n
          BY <3>1, <2>1 DEF Inner
    <3>3. Dst(a) # program.n /\ dfs.post[Src(c)] <= dfs.post[Dst(a)]
          BY <3>2, <2>3
    <3>4. /\ dfs.post[Src(c)] \in Int /\ dfs.post[Dst(a)] \in Int
          /\ dfs.post[Dst(c)] \in Int
          BY <2>1
    <3>5. low(Dst(c))
          BY <3>1, <3>3, <3>4
    <3> HIDE DEF low
    <3> QED BY <3>5
  <2>4. Src(a) \in Q
    <3>1. Q \in SUBSET ({Dst(a)} \cup {Dst(c) : c \in as})
          OBVIOUS
    <3> HIDE DEF Q
    <3> QED BY <2>2, <2>3, <3>1 DEF OnCycle, Reaches, Leads
  <2>5. /\ Src(a) \in Inner(program)
        /\ Dst(a) = program.n \/ (Dst(a) \in Inner(program)
                                  /\ dfs.post[Dst(a)] < dfs.post[Src(a)])
        BY TimesFall
  <2>6. Src(a) # program.n
        BY <2>1, <2>5 DEF Inner
  <2>7. Dst(a) # program.n /\ dfs.post[Src(a)] <= dfs.post[Dst(a)]
        BY <2>4, <2>6
  <2> QED BY <2>1, <2>5, <2>7
<1>2. [](DfsInv) => [](Regular => BackArcsCutCycles)
      BY <1>1, PTL
<1> QED BY <1>2, AlwaysDfsInv, PTL
------------------------------------------------------------------------------
\* What a selection of arcs is: each block is entered and left once or not at
\* all, and one of the arcs is a back arc.
Cyclic(A) == A \subseteq Arcs /\ A # {} /\ Balanced(A) /\ Cardinality(A \cap back) = 1
CFDFCInv ==
  /\ DfsInv
  /\ CFDFC \in Seq(SUBSET Arcs)
  /\ phase = "dfs" => CFDFC = <<>>
  /\ Regular => \A i \in DOMAIN CFDFC : Cyclic(CFDFC[i])

\* The blocks of a selection have one arc that leaves and one that enters them.
LEMMA OneEachWay ==
  ASSUME program \in Programs, NEW A \in SUBSET Arcs, Balanced(A), NEW b \in BBsOf(A)
  PROVE  /\ b \in BB
         /\ \E a \in A : Src(a) = b
         /\ \E a \in A : Dst(a) = b
<1> DEFINE in == A \cap predecessors(b)
           out == A \cap successors(b)
<1>1. b \in BB
      BY ArcEnds DEF BBsOf
<1>2. Cardinality(in) = Cardinality(out)
      BY <1>1 DEF Balanced
<1>3. IsFiniteSet(in) /\ IsFiniteSet(out)
  <2>1. \A Q \in SUBSET (1 .. Len(program.arcs)) : IsFiniteSet(Q)
        BY SmallSets, ArcEnds
  <2>2. in \in SUBSET (1 .. Len(program.arcs)) /\ out \in SUBSET (1 .. Len(program.arcs))
        BY ArcEnds
  <2> QED BY <2>1, <2>2
<1>4. in = {} <=> out = {}
  <2> HIDE DEF in, out
  <2>1. in = {} <=> Cardinality(in) = 0
        BY <1>3, FS_EmptySet
  <2>2. out = {} <=> Cardinality(out) = 0
        BY <1>3, FS_EmptySet
  <2> QED BY <2>1, <2>2, <1>2
<1>5. in # {} \/ out # {}
  <2>1. PICK a \in A : Src(a) = b \/ Dst(a) = b
        BY DEF BBsOf
  <2> QED BY <2>1 DEF predecessors, successors
<1>6. in # {} /\ out # {}
      BY <1>4, <1>5
<1> QED BY <1>1, <1>6 DEF predecessors, successors

\* In a set of blocks that each lead to another of the set there is a back arc,
\* as the times of the blocks would grow smaller for ever; the same holds for a
\* set of blocks that are each led to from the set.
LEMMA BackArcWithin ==
  ASSUME DfsInv, Regular, phase # "dfs", NEW A \in SUBSET Arcs,
         NEW R \in SUBSET BB, R # {},
         \/ \A b \in R : \E a \in A : Src(a) = b /\ Dst(a) \in R /\ Dst(a) # program.n
         \/ \A b \in R : \E a \in A : Dst(a) = b /\ Src(a) \in R /\ Dst(a) # program.n
  PROVE  \E a \in A \cap back : Src(a) \in R /\ Dst(a) \in R
<1> SUFFICES ASSUME \A a \in A \cap back : ~(Src(a) \in R /\ Dst(a) \in R) PROVE FALSE
    OBVIOUS
<1>1. /\ program \in Programs /\ program.n \in Nat \ {0} /\ BB = 1 .. program.n
      /\ dfs.time \in Nat
      BY ArcEnds DEF DfsInv, DfsType
<1>2. ASSUME NEW a \in A, Src(a) \in R, Dst(a) \in R, Dst(a) # program.n
      PROVE  /\ Src(a) \in Inner(program) /\ Dst(a) \in Inner(program)
             /\ dfs.post[Dst(a)] < dfs.post[Src(a)]
      BY <1>2, TimesFall
<1>3. \A b \in Inner(program) : dfs.post[b] \in 0 .. dfs.time
  <2> TAKE b \in Inner(program)
  <2>1. dfs.post[b] \in Int
    <3>1. b \in 1 .. program.n
          BY <1>1 DEF Inner
    <3>2. dfs.post \in [1 .. program.n -> Int]
          BY DEF DfsInv, DfsType
    <3> QED BY <3>1, <3>2
  <2>2. 0 <= dfs.post[b] /\ dfs.post[b] < dfs.time
        BY DEF DfsInv, Timely
  <2> QED BY <2>1, <2>2, <1>1
<1>4. \A b \in R : b \in Inner(program)
      BY <1>2
<1> DEFINE T == {dfs.post[b] : b \in R}
           U == {dfs.time - dfs.post[b] : b \in R}
<1>5. T \in SUBSET (0 .. dfs.time) /\ T # {} /\ U \in SUBSET (0 .. dfs.time) /\ U # {}
  <2>1. ASSUME NEW b \in R
        PROVE  dfs.post[b] \in 0 .. dfs.time /\ dfs.time - dfs.post[b] \in 0 .. dfs.time
    <3>1. dfs.post[b] \in 0 .. dfs.time
          BY <1>3, <1>4
    <3> QED BY <3>1, <1>1
  <2>2. PICK b \in R : TRUE
        OBVIOUS
  <2>3. dfs.post[b] \in T /\ dfs.time - dfs.post[b] \in U
        OBVIOUS
  <2>4. T \subseteq 0 .. dfs.time
        BY <2>1
  <2>5. U \subseteq 0 .. dfs.time
        BY <2>1
  <2> QED BY <2>3, <2>4, <2>5
<1>6. PICK first \in R : \A b \in R : dfs.post[first] >= dfs.post[b]
  <2>1. \E x \in T : \A y \in T : x >= y
    <3> HIDE DEF T
    <3> QED BY <1>1, <1>5, LargestIs
  <2> QED BY <2>1
<1>7. PICK last \in R : \A b \in R : dfs.post[last] <= dfs.post[b]
  <2>1. \E x \in U : \A y \in U : x >= y
    <3> HIDE DEF U
    <3> QED BY <1>1, <1>5, LargestIs
  <2>2. PICK c \in R : \A b \in R : dfs.time - dfs.post[c] >= dfs.time - dfs.post[b]
        BY <2>1
  <2>3. \A b \in R : dfs.post[b] \in Int
        BY <1>3, <1>4
  <2>4. \A b \in R : dfs.post[c] <= dfs.post[b]
        BY <2>2, <2>3, <1>1
  <2> QED BY <2>4
<1>8. \A b \in R : dfs.post[b] \in Int
      BY <1>3, <1>4
<1>9. CASE \A b \in R : \E a \in A : Src(a) = b /\ Dst(a) \in R /\ Dst(a) # program.n
  <2>1. PICK a \in A : Src(a) = last /\ Dst(a) \in R /\ Dst(a) # program.n
        BY <1>9
  <2>2. dfs.post[Dst(a)] < dfs.post[last] /\ dfs.post[last] <= dfs.post[Dst(a)]
        BY <2>1, <1>2, <1>7
  <2> QED BY <2>1, <2>2, <1>8
<1>10. CASE \A b \in R : \E a \in A : Dst(a) = b /\ Src(a) \in R /\ Dst(a) # program.n
  <2>1. PICK a \in A : Dst(a) = first /\ Src(a) \in R /\ Dst(a) # program.n
        BY <1>10
  <2>2. dfs.post[first] < dfs.post[Src(a)] /\ dfs.post[first] >= dfs.post[Src(a)]
        BY <2>1, <1>2, <1>6
  <2> QED BY <2>1, <2>2, <1>8
<1> QED BY <1>9, <1>10

\* So a selection that is not empty has a back arc: where two ends of its arcs
\* are in a set that its arcs do not leave, there is one within the set.
LEMMA LeavesAreKept ==
  ASSUME DfsInv, Regular, phase # "dfs", NEW A \in SUBSET Arcs, Balanced(A),
         NEW R \in SUBSET BBsOf(A), R # {},
         \/ \A a \in A : Src(a) \in R => Dst(a) \in R
         \/ \A a \in A : Dst(a) \in R => Src(a) \in R
  PROVE  \E a \in A \cap back : Src(a) \in R /\ Dst(a) \in R
<1>1. program \in Programs
      BY DEF DfsInv
<1>2. R \in SUBSET BB
      BY <1>1, OneEachWay
<1>3. \A a \in A : Dst(a) # program.n
  <2> TAKE a \in A
  <2>1. Dst(a) \in BBsOf(A)
        BY DEF BBsOf
  <2>2. PICK c \in A : Src(c) = Dst(a)
        BY <1>1, <2>1, OneEachWay
  <2> QED BY <2>2 DEF Regular
<1>4. CASE \A a \in A : Src(a) \in R => Dst(a) \in R
  <2>1. \A b \in R : \E a \in A : Src(a) = b /\ Dst(a) \in R /\ Dst(a) # program.n
        BY <1>1, <1>3, <1>4, OneEachWay
  <2> QED BY <1>2, <2>1, BackArcWithin
<1>5. CASE \A a \in A : Dst(a) \in R => Src(a) \in R
  <2>1. \A b \in R : \E a \in A : Dst(a) = b /\ Src(a) \in R /\ Dst(a) # program.n
        BY <1>1, <1>3, <1>5, OneEachWay
  <2> QED BY <1>2, <2>1, BackArcWithin
<1> QED BY <1>4, <1>5

\* A selection is one cycle: a second one would have a back arc of its own.
LEMMA OneCycle ==
  ASSUME DfsInv, Regular, phase # "dfs", NEW A, Cyclic(A),
         NEW u \in BBsOf(A), NEW v \in BBsOf(A)
  PROVE  Reaches(A, u, v)
<1> SUFFICES ASSUME NEW R \in SUBSET ({u} \cup {Dst(a) : a \in A}), u \in R,
                    \A a \in A : Src(a) \in R => Dst(a) \in R,
                    v \notin R
             PROVE  FALSE
    BY DEF Reaches, Leads
<1> DEFINE C == BBsOf(A) \ R
<1>1. A \in SUBSET Arcs /\ Balanced(A) /\ Cardinality(A \cap back) = 1
      BY DEF Cyclic
<1>2. R \in SUBSET BBsOf(A) /\ R # {}
      BY DEF BBsOf
<1>3. PICK a \in A \cap back : Src(a) \in R /\ Dst(a) \in R
      BY <1>1, <1>2, LeavesAreKept
<1>4. \A c \in A : Dst(c) \in C => Src(c) \in C
      BY DEF BBsOf
<1>5. PICK d \in A \cap back : Src(d) \in C /\ Dst(d) \in C
  <2>1. C \in SUBSET BBsOf(A) /\ C # {}
        OBVIOUS
  <2> HIDE DEF C
  <2> QED BY <1>1, <1>4, <2>1, LeavesAreKept
<1>6. a # d
      BY <1>3, <1>5
<1>7. IsFiniteSet(A \cap back)
  <2>1. A \cap back \in SUBSET (1 .. Len(program.arcs)) /\ Len(program.arcs) \in Nat
        BY <1>1, ArcEnds DEF DfsInv
  <2> QED BY <2>1, SmallSets
<1>8. PICK x : A \cap back = {x}
      BY <1>1, <1>7, FS_Singleton
<1> QED BY <1>3, <1>5, <1>6, <1>8

LEMMA CFDFCInitInv == Init => CFDFCInv
<1> SUFFICES ASSUME Init PROVE CFDFCInv
    OBVIOUS
<1>1. DfsInv
      BY DfsInitInv
<1>2. CFDFC = <<>> /\ <<>> \in Seq(SUBSET Arcs)
      BY EmptySeq DEF Init, BBGInit
<1>3. DOMAIN <<>> = {}
      OBVIOUS
<1> QED BY <1>1, <1>2, <1>3 DEF CFDFCInv

\* The best selection balances; it has a back arc, as it is not empty.
LEMMA BestIsCyclic ==
  ASSUME DfsInv, Regular, phase # "dfs", NEW A \in Best \ {{}}
  PROVE  Cyclic(A)
<1>1. A \in SUBSET Arcs /\ Balanced(A) /\ OneMG(A) /\ A \subseteq Left /\ A # {}
      BY DEF Best, Selections, Left
<1>2. \E a \in A : a \in back
  <2>1. BBsOf(A) # {}
        BY <1>1 DEF BBsOf
  <2>2. \A a \in A : Dst(a) \in BBsOf(A)
        BY DEF BBsOf
  <2>3. BBsOf(A) \in SUBSET BBsOf(A)
        OBVIOUS
  <2> QED BY <1>1, <2>1, <2>2, <2>3, LeavesAreKept
<1>3. Cardinality(A \cap back) = 1
      BY <1>1, <1>2 DEF OneMG
<1> QED BY <1>1, <1>3 DEF Cyclic

LEMMA CFDFCNextInv == CFDFCInv /\ [Next]_vars => CFDFCInv'
<1> SUFFICES ASSUME CFDFCInv, [Next]_vars PROVE CFDFCInv'
    OBVIOUS
<1>1. DfsInv /\ DfsInv'
      BY DfsNextInv DEF CFDFCInv
<1>2. CASE extractMarkedGraphBB
  <2>1. /\ UNCHANGED <<program, dfs, back, phase>> /\ phase = "extract"
        BY <1>2 DEF extractMarkedGraphBB
  <2>2. PICK A \in Best \ {{}} : CFDFC' = Append(CFDFC, A)
        BY <1>2 DEF extractMarkedGraphBB
  <2>3. A \in SUBSET Arcs
        BY DEF Best, Selections, Left
  <2>4. /\ CFDFC' \in Seq(SUBSET Arcs) /\ DOMAIN CFDFC = 1 .. Len(CFDFC)
        /\ Len(CFDFC) \in Nat
        /\ DOMAIN CFDFC' = 1 .. Len(CFDFC) + 1
        /\ \A i \in 1 .. Len(CFDFC) + 1 :
             CFDFC'[i] = IF i <= Len(CFDFC) THEN CFDFC[i] ELSE A
    <3>1. CFDFC \in Seq(SUBSET Arcs)
          BY DEF CFDFCInv
    <3> QED BY <2>2, <2>3, <3>1, AppendProperties, LenProperties
  <2>5. ASSUME Regular, NEW i \in DOMAIN CFDFC'
        PROVE  Cyclic(CFDFC'[i])
    <3>1. i \in DOMAIN CFDFC => Cyclic(CFDFC[i])
          BY <2>5 DEF CFDFCInv
    <3>2. Cyclic(A)
          BY <1>1, <2>1, <2>5, BestIsCyclic
    <3>3. i <= Len(CFDFC) => i \in DOMAIN CFDFC
          BY <2>4
    <3> QED BY <2>4, <3>1, <3>2, <3>3
  <2>6. Arcs' = Arcs /\ (Regular' <=> Regular)
        BY <2>1 DEF Regular, Arcs, Src, BB, entryBB, predecessors, Dst, Reaches, Leads
  <2>7. \A S : Cyclic(S) => Cyclic(S)'
        BY <2>1 DEF Cyclic, Arcs, Balanced, predecessors, successors, BB, Src, Dst
  <2> QED BY <1>1, <2>1, <2>4, <2>5, <2>6, <2>7 DEF CFDFCInv
<1>3. CASE phase = "dfs" /\ program' = program /\ CFDFC' = CFDFC
  <2>1. CFDFC' = <<>> /\ <<>> \in Seq(SUBSET Arcs')
        BY <1>3, EmptySeq DEF CFDFCInv
  <2>2. DOMAIN <<>> = {}
        OBVIOUS
  <2> QED BY <1>1, <2>1, <2>2 DEF CFDFCInv
<1>4. CASE UNCHANGED <<program, dfs, back, CFDFC>> /\ (phase' = "dfs" <=> phase = "dfs")
  <2>1. Arcs' = Arcs /\ (Regular' <=> Regular)
        BY <1>4 DEF Regular, Arcs, Src, BB, entryBB, predecessors, Dst, Reaches, Leads
  <2>2. \A S : Cyclic(S) => Cyclic(S)'
        BY <1>4 DEF Cyclic, Arcs, Balanced, predecessors, successors, BB, Src, Dst
  <2> QED BY <1>1, <1>4, <2>1, <2>2 DEF CFDFCInv
<1>5. \/ extractMarkedGraphBB
      \/ phase = "dfs" /\ program' = program /\ CFDFC' = CFDFC
      \/ UNCHANGED <<program, dfs, back, CFDFC>> /\ (phase' = "dfs" <=> phase = "dfs")
  <2>1. CASE ControlFlow
        BY <2>1 DEF ControlFlow, Visit, calculateBackArcs
  <2>2. CASE NoCoverage
        BY <2>2 DEF NoCoverage, extracted, bbgVars
  <2>3. CASE addElasticBuffersBB
        BY <2>3 DEF addElasticBuffersBB, extracted, Fail, bbgVars
  <2>4. CASE addBorderBuffers
        BY <2>4 DEF addBorderBuffers, extracted, bbgVars
  <2>5. CASE addElasticBuffersBB_sc
        BY <2>5 DEF addElasticBuffersBB_sc, Fail, bbgVars
  <2>6. CASE createMilpVars_remaining
        BY <2>6 DEF createMilpVars_remaining, bbgVars
  <2>7. CASE instantiateElasticBuffers
        BY <2>7 DEF instantiateElasticBuffers, bbgVars
  <2>8. CASE UNCHANGED vars
        BY <2>8 DEF vars, bbgVars
  <2> QED BY <2>1, <2>2, <2>3, <2>4, <2>5, <2>6, <2>7, <2>8 DEF Next
<1> QED BY <1>2, <1>3, <1>4, <1>5

LEMMA AlwaysCFDFCInv == Spec => []CFDFCInv
BY CFDFCInitInv, CFDFCNextInv, PTL DEF Spec

\* The sets of arcs that are optimized together as marked graphs are cycles, each
\* one, although the rows that select them only ask that blocks are entered as
\* often as they are left and that one arc is a back arc.
THEOREM SelectionsAreCycles == Spec => [](Regular => CFDFCsAreCycles)
<1>1. CFDFCInv => (Regular => CFDFCsAreCycles)
  <2> SUFFICES ASSUME CFDFCInv, Regular, NEW i \in DOMAIN CFDFC,
                      NEW u \in BBsOf(CFDFC[i]), NEW v \in BBsOf(CFDFC[i])
               PROVE  Reaches(CFDFC[i], u, v)
      BY DEF CFDFCsAreCycles
  <2>1. phase # "dfs"
    <3>1. DOMAIN <<>> = {}
          OBVIOUS
    <3> QED BY <3>1 DEF CFDFCInv
  <2>2. DfsInv /\ Cyclic(CFDFC[i])
        BY DEF CFDFCInv
  <2> QED BY <2>1, <2>2, OneCycle
<1> QED BY <1>1, AlwaysCFDFCInv, PTL
------------------------------------------------------------------------------
\* Induction over the subsets of a finite set.
LEMMA SubsetInduction ==
  ASSUME NEW S, IsFiniteSet(S), NEW Q,
         \A s \in SUBSET S : (\A x \in s : s \ {x} \in Q) => s \in Q
  PROVE  S \in Q
<1> DEFINE K == {k \in Nat : \A s \in SUBSET S : Cardinality(s) = k => s \in Q}
<1>1. \A s \in SUBSET S : IsFiniteSet(s) /\ Cardinality(s) \in Nat
      BY FS_Subset, FS_CardinalityType
<1>2. 0 \in K
  <2> SUFFICES ASSUME NEW s \in SUBSET S, Cardinality(s) = 0 PROVE s \in Q
      OBVIOUS
  <2>1. s = {}
        BY <1>1, FS_EmptySet
  <2> QED BY <2>1
<1>3. ASSUME NEW k \in Nat, k \in K
      PROVE  k + 1 \in K
  <2> SUFFICES ASSUME NEW s \in SUBSET S, Cardinality(s) = k + 1 PROVE s \in Q
      OBVIOUS
  <2>1. ASSUME NEW x \in s
        PROVE  s \ {x} \in Q
    <3>1. Cardinality(s \ {x}) = Cardinality(s) - 1
          BY <1>1, FS_RemoveElement
    <3>2. Cardinality(s \ {x}) = k
          BY <3>1
    <3> QED BY <3>2, <1>3
  <2> QED BY <2>1
<1>4. Nat \subseteq K
  <2> HIDE DEF K
  <2> QED BY <1>2, <1>3, NatSetInduction
<1> QED BY <1>1, <1>4

\* The sum of a function is that of its parts: sum gives it for each subset of the
\* domain, whichever element is taken out first.
Sums(f, sum) ==
  /\ sum \in [SUBSET (DOMAIN f) -> Int] /\ sum[{}] = 0
  /\ \A s \in SUBSET (DOMAIN f) : \A x \in s : sum[s] = f[x] + sum[s \ {x}]
LEMMA SumsExist ==
  ASSUME NEW S, IsFiniteSet(S), NEW f \in [S -> Int]
  PROVE  \E sum : Sums(f, sum) /\ SumFunction(f) = sum[S]
<1> DEFINE any(s) == CHOOSE x \in s : TRUE
           Small(m) == {s \in SUBSET S : Cardinality(s) <= m}
           rec(g, m) == [s \in Small(m) |-> IF s = {} THEN 0
                                            ELSE f[any(s)] + g[s \ {any(s)}]]
           K == {m \in Nat : \E g : g = rec(g, m)}
<1>1. \A s \in SUBSET S : IsFiniteSet(s) /\ Cardinality(s) \in Nat
      BY FS_Subset, FS_CardinalityType
<1>2. \A s \in SUBSET S : s # {} => any(s) \in s
      OBVIOUS
<1>3. \A s \in SUBSET S : s # {} => s \ {any(s)} \in SUBSET S
                                    /\ Cardinality(s \ {any(s)}) = Cardinality(s) - 1
      BY <1>1, <1>2, FS_RemoveElement
<1> HIDE DEF any
<1>4. 0 \in K
  <2> DEFINE g == [s \in Small(0) |-> 0]
  <2>1. \A s \in Small(0) : s = {}
    <3> TAKE s \in Small(0)
    <3>1. Cardinality(s) = 0
          BY <1>1
    <3> QED BY <1>1, <3>1, FS_EmptySet
  <2>2. g = rec(g, 0)
        BY <2>1
  <2> HIDE DEF g, rec
  <2> QED BY <2>2
<1>5. ASSUME NEW m \in Nat, m \in K
      PROVE  m + 1 \in K
  <2>1. PICK g : g = rec(g, m)
        BY <1>5
  <2> DEFINE h == [s \in Small(m + 1) |-> IF s = {} THEN 0
                                          ELSE f[any(s)] + g[s \ {any(s)}]]
  <2>2. \A s \in Small(m) : h[s] = g[s]
    <3> TAKE s \in Small(m)
    <3>1. s \in Small(m + 1)
          BY <1>1
    <3>2. g[s] = rec(g, m)[s]
          BY <2>1
    <3>3. rec(g, m)[s] = IF s = {} THEN 0 ELSE f[any(s)] + g[s \ {any(s)}]
          OBVIOUS
    <3> QED BY <3>1, <3>2, <3>3
  <2>3. \A s \in Small(m + 1) : s # {} => s \ {any(s)} \in Small(m)
    <3> TAKE s \in Small(m + 1)
    <3>1. s # {} => s \ {any(s)} \in SUBSET S
                    /\ Cardinality(s \ {any(s)}) = Cardinality(s) - 1
          BY <1>3
    <3>2. Cardinality(s) \in Nat /\ Cardinality(s) <= m + 1
          BY <1>1
    <3> QED BY <3>1, <3>2
  <2>4. \A s \in Small(m + 1) : s # {} => h[s \ {any(s)}] = g[s \ {any(s)}]
    <3> HIDE DEF h, Small
    <3> QED BY <2>2, <2>3
  <2>5. h = rec(h, m + 1)
        BY <2>4
  <2>6. \E g1 : g1 = rec(g1, m + 1)
    <3> HIDE DEF h, rec
    <3> QED BY <2>5
  <2> HIDE DEF rec
  <2> QED BY <2>6
<1>6. \E g : g = rec(g, Cardinality(S))
  <2>1. Nat \subseteq K
    <3> HIDE DEF K
    <3> QED BY <1>4, <1>5, NatSetInduction
  <2> QED BY <2>1, <1>1
<1>7. Small(Cardinality(S)) = SUBSET S
  <2> SUFFICES ASSUME NEW s \in SUBSET S PROVE Cardinality(s) <= Cardinality(S)
      OBVIOUS
  <2> QED BY FS_Subset
<1> DEFINE all(g) == [s \in SUBSET S |-> IF s = {} THEN 0
                                        ELSE f[any(s)] + g[s \ {any(s)}]]
           sum == CHOOSE g : g = all(g)
<1>8. sum = all(sum)
  <2>1. \E g : g = all(g)
        BY <1>6, <1>7
  <2> HIDE DEF all
  <2> QED BY <2>1
<1>9. SumFunction(f) = sum[S]
      BY DEF SumFunction, SumFunctionOnSet, FoldFunctionOnSet, MapThenFoldSet, any
<1> HIDE DEF sum
<1>10. /\ DOMAIN sum = SUBSET S /\ sum[{}] = 0
       /\ \A s \in SUBSET S : s # {} => sum[s] = f[any(s)] + sum[s \ {any(s)}]
  <2>1. /\ DOMAIN all(sum) = SUBSET S
        /\ \A s \in SUBSET S : all(sum)[s] = IF s = {} THEN 0
                                            ELSE f[any(s)] + sum[s \ {any(s)}]
        OBVIOUS
  <2> HIDE DEF all
  <2> QED BY <1>8, <2>1
<1> DEFINE ok(s) == /\ sum[s] \in Int
                    /\ \A x \in s : sum[s] = f[x] + sum[s \ {x}]
           Q == {s \in SUBSET S : \A t \in SUBSET s : ok(t)}
<1>11. ASSUME NEW s \in SUBSET S, \A x \in s : s \ {x} \in Q
       PROVE  s \in Q
  <2>1. \A x \in s : ok(s \ {x})
        BY <1>11
  <2>2. ASSUME NEW t \in SUBSET s, t # s
        PROVE  ok(t)
    <3>1. PICK x \in s : t \in SUBSET (s \ {x})
          BY <2>2
    <3>2. s \ {x} \in Q
          BY <1>11
    <3> HIDE DEF ok
    <3> QED BY <3>1, <3>2
  <2>3. CASE s = {}
    <3>1. ok({}) /\ SUBSET s = {{}}
          BY <2>3, <1>10
    <3> HIDE DEF ok
    <3> QED BY <3>1
  <2>4. CASE s # {}
    <3> DEFINE c == any(s)
    <3>1. c \in s /\ sum[s] = f[c] + sum[s \ {c}] /\ f[c] \in Int
          BY <2>4, <1>2, <1>10
    <3> HIDE DEF c
    <3>2. sum[s \ {c}] \in Int
          BY <2>1, <3>1
    <3>3. ASSUME NEW x \in s
          PROVE  sum[s] = f[x] + sum[s \ {x}]
      <4>1. CASE x = c
            BY <4>1, <3>1
      <4>2. CASE x # c
        <5>1. sum[s \ {c}] = f[x] + sum[(s \ {c}) \ {x}]
              BY <4>2, <3>1, <2>1
        <5>2. sum[s \ {x}] = f[c] + sum[(s \ {x}) \ {c}]
              BY <4>2, <3>1, <2>1
        <5>3. (s \ {c}) \ {x} = (s \ {x}) \ {c} /\ (s \ {c}) \ {x} \in SUBSET s
              OBVIOUS
        <5>4. sum[(s \ {c}) \ {x}] \in Int
          <6>1. (s \ {c}) \ {x} # s
                BY <3>1
          <6> QED BY <5>3, <6>1, <2>2
        <5>5. f[x] \in Int
              OBVIOUS
        <5> DEFINE a == sum[(s \ {c}) \ {x}]
        <5>6. /\ a \in Int /\ sum[s] = f[c] + (f[x] + a) /\ sum[s \ {x}] = f[c] + a
              BY <5>1, <5>2, <5>3, <5>4, <3>1
        <5> HIDE DEF a
        <5> QED BY <5>5, <5>6, <3>1
      <4> QED BY <4>1, <4>2
    <3>4. sum[s] \in Int
          BY <3>1, <3>2
    <3>5. ok(s)
          BY <3>3, <3>4
    <3> HIDE DEF ok
    <3> QED BY <3>5, <2>2
  <2> QED BY <2>3, <2>4
<1>12. S \in Q
  <2> HIDE DEF Q
  <2> QED BY <1>11, SubsetInduction
<1>13. Sums(f, sum)
  <2>1. \A s \in SUBSET S : ok(s)
    <3> HIDE DEF ok
    <3> QED BY <1>12
  <2>2. sum = [s \in SUBSET S |-> sum[s]]
        BY <1>8
  <2> QED BY <2>1, <2>2, <1>10 DEF Sums
<1> QED BY <1>9, <1>13

\* What is gained around a cycle that has a next element for each is nothing.
LEMMA RoundTrip ==
  ASSUME NEW S, IsFiniteSet(S), NEW next \in [S -> S],
         \A c, d \in S : next[c] = next[d] => c = d,
         \A d \in S : \E c \in S : next[c] = d,
         NEW down \in [S -> Int], NEW up \in [S -> Int],
         \A c \in S : down[c] = up[next[c]],
         NEW D, Sums(down, D), NEW U, Sums(up, U)
  PROVE  D[S] = U[S] /\ D[S] \in Int
<1> DEFINE to(s) == {next[c] : c \in s}
           Q == {s \in SUBSET S : D[s] = U[to(s)]}
<1>1. ASSUME NEW s \in SUBSET S, \A x \in s : s \ {x} \in Q
      PROVE  s \in Q
  <2>1. CASE s = {}
    <3>1. to(s) = {}
          BY <2>1
    <3> QED BY <2>1, <3>1 DEF Sums
  <2>2. CASE s # {}
    <3>1. PICK x \in s : TRUE
          BY <2>2
    <3>2. D[s] = down[x] + D[s \ {x}]
          BY <3>1 DEF Sums
    <3>3. D[s \ {x}] = U[to(s \ {x})]
          BY <1>1
    <3>4. to(s) \in SUBSET S /\ next[x] \in to(s) /\ to(s) \ {next[x]} = to(s \ {x})
          BY <3>1
    <3> HIDE DEF to
    <3>5. U[to(s)] = up[next[x]] + U[to(s) \ {next[x]}]
          BY <3>4 DEF Sums
    <3> QED BY <3>1, <3>2, <3>3, <3>4, <3>5
  <2> QED BY <2>1, <2>2
<1>2. S \in Q
  <2> HIDE DEF Q
  <2> QED BY <1>1, SubsetInduction
<1>3. to(S) = S
      OBVIOUS
<1>4. D[S] \in Int
      BY DEF Sums
<1> HIDE DEF to
<1> QED BY <1>2, <1>3, <1>4

\* Sums respect what holds for each element: where down - up is at least what is
\* gained in R and T and by v and w,
AtLeast(S, down, up, v, w, R, T, h, k, p, q) ==
  /\ IsFiniteSet(S)
  /\ down \in [S -> Int] /\ up \in [S -> Int] /\ v \in [S -> Int] /\ w \in [S -> Int]
  /\ R \in SUBSET S /\ T \in SUBSET S
  /\ h \in Int /\ k \in Int /\ p \in Int /\ q \in Int
  /\ \A c \in S : down[c] - up[c] >= (IF c \in R THEN h ELSE 0) + (IF c \in T THEN k ELSE 0)
                                     + p * v[c] + q * w[c]
LEMMA SumsRespect ==
  ASSUME NEW S, NEW down, NEW up, NEW v, NEW w, NEW R, NEW T, NEW h, NEW k, NEW p, NEW q,
         AtLeast(S, down, up, v, w, R, T, h, k, p, q),
         NEW D, Sums(down, D), NEW U, Sums(up, U), NEW V, Sums(v, V), NEW W, Sums(w, W)
  PROVE  D[S] - U[S] >= h * Cardinality(R) + k * Cardinality(T) + p * V[S] + q * W[S]
<1> USE DEF AtLeast
<1> DEFINE n(X, s) == Cardinality(X \cap s)
           most(s) == h * n(R, s) + k * n(T, s) + p * V[s] + q * W[s]
           Q == {s \in SUBSET S : D[s] - U[s] >= most(s)}
<1>1. ASSUME NEW X \in SUBSET S, NEW s \in SUBSET S
      PROVE  /\ n(X, s) \in Nat
             /\ \A x \in s : n(X, s) = n(X, s \ {x}) + (IF x \in X THEN 1 ELSE 0)
  <2>1. \A Y \in SUBSET S : IsFiniteSet(Y) /\ Cardinality(Y) \in Nat
        BY FS_Subset, FS_CardinalityType
  <2>2. X \cap s \in SUBSET S
        OBVIOUS
  <2>3. ASSUME NEW x \in s
        PROVE  n(X, s) = n(X, s \ {x}) + (IF x \in X THEN 1 ELSE 0)
    <3>1. CASE x \in X
      <4>1. x \in X \cap s /\ (X \cap s) \ {x} = X \cap (s \ {x})
            BY <3>1
      <4>2. Cardinality((X \cap s) \ {x}) = Cardinality(X \cap s) - 1
            BY <4>1, <2>1, <2>2, FS_RemoveElement
      <4>3. Cardinality(X \cap s) \in Nat
            BY <2>1, <2>2
      <4>4. n(X, s) = Cardinality(X \cap s) /\ n(X, s \ {x}) = Cardinality(X \cap s) - 1
            BY <4>1, <4>2
      <4> HIDE DEF n
      <4> QED BY <3>1, <4>3, <4>4
    <3>2. CASE x \notin X
      <4>1. X \cap s = X \cap (s \ {x})
            BY <3>2
      <4>2. Cardinality(X \cap s) \in Nat
            BY <2>1, <2>2
      <4>3. n(X, s) = Cardinality(X \cap s) /\ n(X, s \ {x}) = Cardinality(X \cap s)
            BY <4>1
      <4> HIDE DEF n
      <4> QED BY <3>2, <4>2, <4>3
    <3> QED BY <3>1, <3>2
  <2> QED BY <2>1, <2>2, <2>3
<1> HIDE DEF n
<1>2. \A a, b, c \in Int : a * (b + c) = a * b + a * c /\ a * b \in Int /\ a * 1 = a /\ a * 0 = 0
      OBVIOUS
<1>3. ASSUME NEW s \in SUBSET S, \A x \in s : s \ {x} \in Q
      PROVE  s \in Q
  <2>1. CASE s = {}
    <3>1. n(R, {}) = 0 /\ n(T, {}) = 0
      <4>1. R \cap {} = {} /\ T \cap {} = {}
            OBVIOUS
      <4> QED BY <4>1, FS_EmptySet DEF n
    <3>2. D[{}] = 0 /\ U[{}] = 0 /\ V[{}] = 0 /\ W[{}] = 0
          BY DEF Sums
    <3> QED BY <2>1, <3>1, <3>2, <1>2
  <2>2. CASE s # {}
    <3>1. PICK x \in s : TRUE
          BY <2>2
    <3> DEFINE o == s \ {x}
               r == IF x \in R THEN 1 ELSE 0
               t == IF x \in T THEN 1 ELSE 0
    <3>2. /\ D[s] = down[x] + D[o] /\ U[s] = up[x] + U[o]
          /\ V[s] = v[x] + V[o] /\ W[s] = w[x] + W[o]
          /\ D[o] \in Int /\ U[o] \in Int /\ V[o] \in Int /\ W[o] \in Int
          BY <3>1 DEF Sums
    <3>3. /\ n(R, s) = n(R, o) + r /\ n(T, s) = n(T, o) + t
          /\ n(R, o) \in Nat /\ n(T, o) \in Nat
          BY <3>1, <1>1
    <3>4. D[o] - U[o] >= h * n(R, o) + k * n(T, o) + p * V[o] + q * W[o]
          BY <3>1, <1>3
    <3>5. down[x] - up[x] >= h * r + k * t + p * v[x] + q * w[x]
      <4>1. down[x] - up[x] >= (IF x \in R THEN h ELSE 0) + (IF x \in T THEN k ELSE 0)
                                 + p * v[x] + q * w[x]
            BY <3>1
      <4>2. h * r = (IF x \in R THEN h ELSE 0) /\ k * t = (IF x \in T THEN k ELSE 0)
            BY <1>2
      <4> HIDE DEF r, t
      <4> QED BY <4>1, <4>2
    <3>6. /\ down[x] \in Int /\ up[x] \in Int /\ v[x] \in Int /\ w[x] \in Int
          /\ r \in Int /\ t \in Int
          BY <3>1
    <3> HIDE DEF o, r, t
    <3>7. /\ h * n(R, s) = h * n(R, o) + h * r /\ h * n(R, o) \in Int /\ h * r \in Int
          /\ k * n(T, s) = k * n(T, o) + k * t /\ k * n(T, o) \in Int /\ k * t \in Int
          /\ p * V[s] = p * V[o] + p * v[x] /\ p * V[o] \in Int /\ p * v[x] \in Int
          /\ q * W[s] = q * W[o] + q * w[x] /\ q * W[o] \in Int /\ q * w[x] \in Int
      <4>1. \A a, b, c, d \in Int : d = b + c => /\ a * d = a * b + a * c
                                                 /\ a * b \in Int /\ a * c \in Int
            BY <1>2
      <4>2. n(R, o) \in Int /\ n(T, o) \in Int /\ n(R, s) \in Int /\ n(T, s) \in Int
            BY <3>3, <3>6
      <4>3. V[s] = V[o] + v[x] /\ W[s] = W[o] + w[x] /\ V[s] \in Int /\ W[s] \in Int
            BY <3>2, <3>6
      <4>4. h * n(R, s) = h * n(R, o) + h * r /\ h * n(R, o) \in Int /\ h * r \in Int
            BY <4>1, <4>2, <3>3, <3>6
      <4>5. k * n(T, s) = k * n(T, o) + k * t /\ k * n(T, o) \in Int /\ k * t \in Int
            BY <4>1, <4>2, <3>3, <3>6
      <4>6. p * V[s] = p * V[o] + p * v[x] /\ p * V[o] \in Int /\ p * v[x] \in Int
            BY <4>1, <4>3, <3>2, <3>6
      <4>7. q * W[s] = q * W[o] + q * w[x] /\ q * W[o] \in Int /\ q * w[x] \in Int
            BY <4>1, <4>3, <3>2, <3>6
      <4> QED BY <4>4, <4>5, <4>6, <4>7
    <3> DEFINE a1 == h * n(R, o)
               a2 == k * n(T, o)
               a3 == p * V[o]
               a4 == q * W[o]
               b1 == h * r
               b2 == k * t
               b3 == p * v[x]
               b4 == q * w[x]
    <3>8. /\ a1 \in Int /\ a2 \in Int /\ a3 \in Int /\ a4 \in Int
          /\ b1 \in Int /\ b2 \in Int /\ b3 \in Int /\ b4 \in Int
          /\ D[o] - U[o] >= a1 + a2 + a3 + a4
          /\ down[x] - up[x] >= b1 + b2 + b3 + b4
          /\ most(s) = (a1 + b1) + (a2 + b2) + (a3 + b3) + (a4 + b4)
          BY <3>4, <3>5, <3>7
    <3> HIDE DEF a1, a2, a3, a4, b1, b2, b3, b4, most
    <3>9. D[s] - U[s] >= most(s)
          BY <3>2, <3>6, <3>8
    <3> QED BY <3>9
  <2> QED BY <2>1, <2>2
<1>4. S \in Q
  <2> HIDE DEF Q
  <2> QED BY <1>3, SubsetInduction
<1>5. R \cap S = R /\ T \cap S = T
      OBVIOUS
<1> QED BY <1>4, <1>5 DEF n
------------------------------------------------------------------------------
\* Tokens can be at the entry and the exit of each block of the channels cs at
\* times that are as far apart as rate th asks for: no sooner than registers and
\* units allow, and no later than slots do.
registered(b, c) == IF ~b[c].transparent THEN 1 ELSE 0
onBack(c) == IF isBackEdge(c) THEN Scale ELSE 0
Apart(c, th, b, e, l) ==
  /\ e[DstBlock(c)] - l[SrcBlock(c)] >= th * registered(b, c) - onBack(c)
  /\ l[SrcBlock(c)] - e[DstBlock(c)]
       >= th * registered(b, c) + onBack(c) - Scale * b[c].slots
  /\ l[DstBlock(c)] - e[DstBlock(c)] >= th * Latency(DstBlock(c))
  /\ e[DstBlock(c)] - l[DstBlock(c)] >= -(Scale * Latency(DstBlock(c)))
Flows(cs, th, b) ==
  \E e, l \in [Blocks -> Int] : \A c \in cs \ program.rare : Apart(c, th, b, e, l)

\* In one model, the rates that are reported are such rates.
RateInv ==
  /\ CFDFCInv /\ WholeInv
  /\ ~program.set /\ phase \in {"instantiate", "done"} =>
       \A i \in DOMAIN throughput :
         /\ throughput[i] \in Nat
         /\ \A c \in getMGfromCFDFC(CFDFC[i]) : buffer[c].slots \in Nat
         /\ Flows(getMGfromCFDFC(CFDFC[i]), throughput[i], buffer)

LEMMA MaxMinOf ==
  ASSUME NEW a \in Int, NEW b \in Int
  PROVE  /\ Max({a, b}) \in Int /\ Max({a, b}) >= a /\ Max({a, b}) >= b
         /\ Min({a, b}) \in Int /\ Min({a, b}) <= a /\ Min({a, b}) <= b
<1>1. \E x \in {a, b} : \A y \in {a, b} : x >= y
      OBVIOUS
<1>2. \E x \in {a, b} : \A y \in {a, b} : x <= y
      OBVIOUS
<1>3. Max({a, b}) \in {a, b} /\ \A y \in {a, b} : Max({a, b}) >= y
      BY <1>1 DEF Max
<1>4. Min({a, b}) \in {a, b} /\ \A y \in {a, b} : Min({a, b}) <= y
      BY <1>2 DEF Min
<1> QED BY <1>3, <1>4

\* The rows of a channel.
LEMMA TokenRowsSay ==
  ASSUME NEW c, NEW th \in Nat, NEW flop \in {0, 1}, NEW slots \in Nat,
         NEW x, x[Leave(SrcBlock(c))] \in Int, x[Enter(DstBlock(c))] \in Int,
         \A r \in TokenRows(c, th, flop, slots) : x[r[2]] >= x[r[1]] + r[3]
  PROVE  /\ x[Enter(DstBlock(c))] - x[Leave(SrcBlock(c))] >= th * flop - onBack(c)
         /\ x[Leave(SrcBlock(c))] - x[Enter(DstBlock(c))]
              >= th * flop + onBack(c) - Scale * slots
<1> DEFINE s == Leave(SrcBlock(c))
           d == Enter(DstBlock(c))
           least == Max({0, th + Scale * (flop - 1)})
           most == Min({Scale * slots, Scale * (slots + 1 - flop) - th})
<1>1. <<s, d, least - onBack(c)>> \in TokenRows(c, th, flop, slots)
      BY DEF TokenRows, onBack
<1>2. <<d, s, onBack(c) - most>> \in TokenRows(c, th, flop, slots)
      BY DEF TokenRows, onBack
<1>3. Scale \in Nat /\ onBack(c) \in Nat
      BY NetlistAssumption DEF onBack
<1>4. /\ th + Scale * (flop - 1) \in Int /\ Scale * slots \in Int
      /\ Scale * (slots + 1 - flop) - th \in Int
  <2>1. flop - 1 \in Int /\ slots + 1 - flop \in Int
        OBVIOUS
  <2>2. Scale * (flop - 1) \in Int /\ Scale * (slots + 1 - flop) \in Int /\ Scale * slots \in Int
    <3>1. \A a, b \in Int : a * b \in Int
          OBVIOUS
    <3> QED BY <2>1, <3>1, <1>3
  <2> QED BY <2>2
<1>5. least \in Int /\ least >= 0 /\ least >= th + Scale * (flop - 1)
  <2> DEFINE v == th + Scale * (flop - 1)
  <2>1. v \in Int /\ 0 \in Int
        BY <1>4
  <2> HIDE DEF v
  <2>2. Max({0, v}) \in Int /\ Max({0, v}) >= 0 /\ Max({0, v}) >= v
        BY <2>1, MaxMinOf
  <2>3. least = Max({0, v})
        BY DEF v
  <2> HIDE DEF least
  <2>4. least \in Int /\ least >= 0 /\ least >= v
        BY <2>2, <2>3
  <2> QED BY <2>4 DEF v
<1>6. most \in Int /\ most <= Scale * slots /\ most <= Scale * (slots + 1 - flop) - th
      BY <1>4, MaxMinOf
<1>7. x[d] >= x[s] + (least - onBack(c))
  <2> DEFINE r == <<s, d, least - onBack(c)>>
  <2>1. r \in TokenRows(c, th, flop, slots) /\ r[1] = s /\ r[2] = d /\ r[3] = least - onBack(c)
        BY <1>1
  <2> HIDE DEF r, s, d, least
  <2> QED BY <2>1
<1>8. x[s] >= x[d] + (onBack(c) - most)
  <2> DEFINE r == <<d, s, onBack(c) - most>>
  <2>1. r \in TokenRows(c, th, flop, slots) /\ r[1] = d /\ r[2] = s /\ r[3] = onBack(c) - most
        BY <1>2
  <2> HIDE DEF r, s, d, most
  <2> QED BY <2>1
<1>9. th * flop \in Int /\ least >= th * flop /\ most <= Scale * slots - th * flop
  <2>1. CASE flop = 0
    <3>1. th * flop = 0
          BY <2>1
    <3> HIDE DEF least, most
    <3> QED BY <3>1, <1>4, <1>5, <1>6
  <2>2. CASE flop = 1
    <3>1. /\ th * flop = th /\ Scale * (flop - 1) = 0
          /\ Scale * (slots + 1 - flop) = Scale * slots
          BY <2>2, <1>3
    <3> HIDE DEF least, most
    <3> QED BY <3>1, <1>4, <1>5, <1>6
  <2> QED BY <2>1, <2>2
<1> HIDE DEF least, most, s, d
<1>10. x[s] \in Int /\ x[d] \in Int
       BY DEF s, d
<1>11. x[d] - x[s] >= th * flop - onBack(c) /\ x[s] - x[d] >= th * flop + onBack(c) - Scale * slots
  <2> DEFINE m == th * flop
             k == Scale * slots
  <2>1. m \in Int /\ k \in Int /\ least >= m /\ most <= k - m
        BY <1>4, <1>9
  <2> HIDE DEF m, k
  <2>2. x[d] - x[s] >= m - onBack(c) /\ x[s] - x[d] >= m + onBack(c) - k
        BY <2>1, <1>3, <1>5, <1>6, <1>7, <1>8, <1>10
  <2> QED BY <2>2 DEF m, k
<1> QED BY <1>11 DEF s, d

\* The rows of a unit that takes cycles of the clock.
LEMMA UnitRowsSay ==
  ASSUME program \in Programs, NEW b \in Blocks, Latency(b) > 0, NEW th \in Nat, NEW x,
         x[Leave(b)] \in Int, x[Enter(b)] \in Int,
         x[Leave(b)] >= x[Enter(b)] + th * Latency(b),
         x[Enter(b)] >= x[Leave(b)] + -((Scale * Latency(b)) \div program.blocks[b].ii)
  PROVE  /\ x[Leave(b)] - x[Enter(b)] >= th * Latency(b)
         /\ x[Enter(b)] - x[Leave(b)] >= -(Scale * Latency(b))
<1>1. Latency(b) \in Nat /\ program.blocks[b].ii \in Nat \ {0} /\ Scale \in Nat
      BY NetlistTypes, NetlistAssumption DEF Latency, Blocks
<1> DEFINE p == Scale * Latency(b)
           m == th * Latency(b)
           i == program.blocks[b].ii
<1>2. p \in Nat /\ m \in Nat
      BY <1>1
<1>3. p \div i \in Int /\ p \div i <= p
  <2> HIDE DEF p, i
  <2>1. i \in Nat /\ i >= 1
        BY <1>1 DEF i
  <2> QED BY <2>1, <1>2
<1>4. x[Leave(b)] >= x[Enter(b)] + m /\ x[Enter(b)] >= x[Leave(b)] + -(p \div i)
      OBVIOUS
<1> HIDE DEF p, m, i
<1>5. x[Leave(b)] - x[Enter(b)] >= m /\ x[Enter(b)] - x[Leave(b)] >= -p
      BY <1>2, <1>3, <1>4
<1> QED BY <1>5 DEF p, m

\* What the rows for throughput say about the channels they are for, if flop and
\* slots are what is annotated.
LEMMA RowsFlow ==
  ASSUME program \in Programs, NEW cs \in SUBSET Channels, NEW th \in Nat,
         NEW flop, NEW slots, NEW bf,
         \A c \in cs : flop[c] = registered(bf, c) /\ slots[c] = bf[c].slots /\ slots[c] \in Nat,
         createThroughputConstraints(cs, th, flop, slots)
  PROVE  Flows(cs, th, bf)
<1> DEFINE ofChannels == UNION {TokenRows(c, th, flop[c], slots[c]) : c \in cs \ program.rare}
           ofUnit(b) == {<<Enter(b), Leave(b), th * Latency(b)>>,
                         <<Leave(b), Enter(b),
                           -((Scale * Latency(b)) \div program.blocks[b].ii)>>}
           ofUnits == UNION {ofUnit(b) : b \in {d \in BlocksOf(cs) : Latency(d) > 0}}
           rows == ofChannels \cup ofUnits
<1>1. PICK x \in [Potentials(rows) -> Int] :
        x[Zero] = 0 /\ \A r \in rows : x[r[2]] >= x[r[1]] + r[3]
  <2>1. Satisfiable(rows)
        BY DEF createThroughputConstraints
  <2> HIDE DEF rows
  <2> QED BY <2>1, PotentialsMeet
<1>2. \A r \in rows : x[r[1]] \in Int /\ x[r[2]] \in Int
  <2> HIDE DEF rows
  <2> QED BY <1>1 DEF Potentials
<1> DEFINE at(b) == IF Enter(b) \in DOMAIN x THEN x[Enter(b)] ELSE 0
           e == [b \in Blocks |-> at(b)]
           l == [b \in Blocks |-> IF Latency(b) > 0
                                  THEN IF Leave(b) \in DOMAIN x THEN x[Leave(b)] ELSE 0
                                  ELSE at(b)]
<1>3. e \in [Blocks -> Int] /\ l \in [Blocks -> Int]
      BY <1>1
<1>4. ASSUME NEW c \in cs \ program.rare
      PROVE  /\ e[DstBlock(c)] - l[SrcBlock(c)] >= th * registered(bf, c) - onBack(c)
             /\ l[SrcBlock(c)] - e[DstBlock(c)]
                  >= th * registered(bf, c) + onBack(c) - Scale * bf[c].slots
             /\ l[DstBlock(c)] - e[DstBlock(c)] >= th * Latency(DstBlock(c))
             /\ e[DstBlock(c)] - l[DstBlock(c)] >= -(Scale * Latency(DstBlock(c)))
  <2>1. SrcBlock(c) \in Blocks /\ DstBlock(c) \in Blocks /\ Scale \in Nat
        BY NetlistTypes, NetlistAssumption DEF Channels, SrcBlock, DstBlock, Blocks, src, dst
  <2>2. \A r \in TokenRows(c, th, flop[c], slots[c]) : r \in rows
        OBVIOUS
  <2>3. /\ Leave(SrcBlock(c)) \in DOMAIN x /\ Enter(DstBlock(c)) \in DOMAIN x
    <3>1. PICK k : <<Leave(SrcBlock(c)), Enter(DstBlock(c)), k>> \in rows
      <4>1. \E k : <<Leave(SrcBlock(c)), Enter(DstBlock(c)), k>>
                     \in TokenRows(c, th, flop[c], slots[c])
            BY DEF TokenRows
      <4> HIDE DEF rows
      <4> QED BY <4>1, <2>2
    <3> DEFINE r == <<Leave(SrcBlock(c)), Enter(DstBlock(c)), k>>
    <3>2. r \in rows /\ r[1] = Leave(SrcBlock(c)) /\ r[2] = Enter(DstBlock(c))
          BY <3>1
    <3> HIDE DEF r, rows
    <3> QED BY <3>2, <1>1 DEF Potentials
  <2>4. e[DstBlock(c)] = x[Enter(DstBlock(c))]
        BY <2>1, <2>3
  <2>5. l[SrcBlock(c)] = x[Leave(SrcBlock(c))]
        BY <2>1, <2>3 DEF Leave
  <2>6. /\ x[Enter(DstBlock(c))] - x[Leave(SrcBlock(c))] >= th * flop[c] - onBack(c)
        /\ x[Leave(SrcBlock(c))] - x[Enter(DstBlock(c))]
             >= th * flop[c] + onBack(c) - Scale * slots[c]
    <3>1. flop[c] \in {0, 1} /\ slots[c] \in Nat
          BY DEF registered
    <3>2. \A r \in TokenRows(c, th, flop[c], slots[c]) : x[r[2]] >= x[r[1]] + r[3]
      <4> HIDE DEF rows
      <4> QED BY <2>2, <1>1
    <3>3. x[Leave(SrcBlock(c))] \in Int /\ x[Enter(DstBlock(c))] \in Int
          BY <2>3, <1>1
    <3> HIDE DEF rows
    <3> QED BY <3>1, <3>2, <3>3, TokenRowsSay
  <2> DEFINE b == DstBlock(c)
  <2>7. /\ l[b] - e[b] >= th * Latency(b)
        /\ e[b] - l[b] >= -(Scale * Latency(b))
    <3>1. Latency(b) \in Nat
          BY <2>1, NetlistTypes DEF Latency, Blocks
    <3>2. CASE Latency(b) = 0
      <4>1. l[b] = e[b] /\ e[b] \in Int
            BY <2>1, <1>3, <3>2
      <4>2. th * Latency(b) = 0 /\ Scale * Latency(b) = 0
            BY <2>1, <3>2
      <4> HIDE DEF e, l, b
      <4> QED BY <4>1, <4>2
    <3>3. CASE Latency(b) > 0
      <4>1. ofUnit(b) \subseteq rows
        <5>1. b \in {d \in BlocksOf(cs) : Latency(d) > 0}
              BY <3>3 DEF BlocksOf
        <5> HIDE DEF ofUnit, b, ofChannels
        <5> QED BY <5>1
      <4> DEFINE r == <<Enter(b), Leave(b), th * Latency(b)>>
                 q == <<Leave(b), Enter(b), -((Scale * Latency(b)) \div program.blocks[b].ii)>>
      <4>2. /\ r \in rows /\ r[1] = Enter(b) /\ r[2] = Leave(b) /\ r[3] = th * Latency(b)
            /\ q \in rows /\ q[1] = Leave(b) /\ q[2] = Enter(b)
            /\ q[3] = -((Scale * Latency(b)) \div program.blocks[b].ii)
        <5> HIDE DEF rows
        <5> QED BY <4>1
      <4> HIDE DEF r, q, rows
      <4>3. /\ x[Leave(b)] \in Int /\ x[Enter(b)] \in Int
            /\ x[Leave(b)] >= x[Enter(b)] + th * Latency(b)
            /\ x[Enter(b)] >= x[Leave(b)] + -((Scale * Latency(b)) \div program.blocks[b].ii)
            /\ Leave(b) \in DOMAIN x
        <5>1. Leave(b) \in Potentials(rows)
              BY <4>2 DEF Potentials
        <5> QED BY <4>2, <5>1, <1>1, <1>2
      <4>4. l[b] = x[Leave(b)] /\ e[b] = x[Enter(b)]
            BY <4>3, <2>1, <2>4, <3>3
      <4> HIDE DEF e, l
      <4> QED BY <4>3, <4>4, <3>3, <2>1, UnitRowsSay
    <3> QED BY <3>1, <3>2, <3>3
  <2> HIDE DEF e, l
  <2> QED BY <2>4, <2>5, <2>6, <2>7
<1> HIDE DEF e, l
<1> QED BY <1>3, <1>4 DEF Flows, Apart
------------------------------------------------------------------------------
\* On every cycle of the channels, what tokens gain and lose at registers, units
\* and back edges adds up to nothing.
LEMMA CyclesSustain ==
  ASSUME program \in Programs, NEW cs \in SUBSET Channels, NEW th \in Nat, NEW bf,
         \A c \in cs : bf[c].slots \in Nat, Flows(cs, th, bf),
         NEW S \in Cycles(cs \ program.rare),
         NEW regs, regs = {c \in S : ~bf[c].transparent},
         NEW backs, backs = {c \in S : isBackEdge(c)}
  PROVE  LET latency == SumFunction([c \in S |-> Latency(DstBlock(c))])
             slots == SumFunction([c \in S |-> bf[c].slots])
         IN  /\ th * (Cardinality(regs) + latency) <= Scale * Cardinality(backs)
             /\ th * Cardinality(regs)
                  <= Scale * (slots + latency - Cardinality(backs))
<1>1. /\ S \in SUBSET cs /\ S \cap program.rare = {}
      /\ \A c \in S : /\ Cardinality({d \in S : SrcBlock(d) = DstBlock(c)}) = 1
                      /\ Cardinality({d \in S : DstBlock(d) = SrcBlock(c)}) = 1
      BY DEF Cycles
<1>2. IsFiniteSet(S) /\ \A X \in SUBSET S : IsFiniteSet(X) /\ Cardinality(X) \in Nat
  <2>1. IsFiniteSet(Channels)
    <3>1. program.channels \in Seq((DOMAIN program.blocks) \X (DOMAIN program.blocks))
          BY NetlistAssumption
    <3>2. Channels = 1 .. Len(program.channels) /\ Len(program.channels) \in Nat
          BY <3>1, LenProperties DEF Channels
    <3> QED BY <3>2, SmallSets
  <2> QED BY <2>1, <1>1, FS_Subset, FS_CardinalityType
<1>3. PICK e \in [Blocks -> Int], l \in [Blocks -> Int] : \A c \in cs \ program.rare :
        /\ e[DstBlock(c)] - l[SrcBlock(c)] >= th * registered(bf, c) - onBack(c)
        /\ l[SrcBlock(c)] - e[DstBlock(c)]
             >= th * registered(bf, c) + onBack(c) - Scale * bf[c].slots
        /\ l[DstBlock(c)] - e[DstBlock(c)] >= th * Latency(DstBlock(c))
        /\ e[DstBlock(c)] - l[DstBlock(c)] >= -(Scale * Latency(DstBlock(c)))
      BY DEF Flows, Apart
<1>4. \A c \in S : /\ SrcBlock(c) \in Blocks /\ DstBlock(c) \in Blocks
                   /\ Latency(DstBlock(c)) \in Nat /\ bf[c].slots \in Nat
  <2> TAKE c \in S
  <2>1. c \in cs /\ c \in Channels
        BY <1>1
  <2>2. SrcBlock(c) \in Blocks /\ DstBlock(c) \in Blocks
        BY <2>1, NetlistTypes DEF Channels, SrcBlock, DstBlock, Blocks, src, dst
  <2> QED BY <2>1, <2>2, NetlistTypes DEF Latency, Blocks
<1> DEFINE next == [c \in S |-> CHOOSE d \in S : SrcBlock(d) = DstBlock(c)]
           down == [c \in S |-> l[DstBlock(c)]]
           up == [c \in S |-> l[SrcBlock(c)]]
           lat == [c \in S |-> Latency(DstBlock(c))]
           sl == [c \in S |-> bf[c].slots]
<1>5. ASSUME NEW c \in S, NEW d \in S, NEW x \in S,
             \/ DstBlock(c) = SrcBlock(x) /\ DstBlock(d) = SrcBlock(x)
             \/ SrcBlock(c) = DstBlock(x) /\ SrcBlock(d) = DstBlock(x)
      PROVE  c = d
  <2> DEFINE in == {y \in S : DstBlock(y) = SrcBlock(x)}
             out == {y \in S : SrcBlock(y) = DstBlock(x)}
  <2>1. /\ in \in SUBSET S /\ out \in SUBSET S /\ Cardinality(in) = 1 /\ Cardinality(out) = 1
        /\ {c, d} \subseteq in \/ {c, d} \subseteq out
        BY <1>1, <1>5
  <2> HIDE DEF in, out
  <2>2. (\E y : in = {y}) /\ (\E y : out = {y})
        BY <2>1, <1>2, FS_Singleton
  <2> QED BY <2>1, <2>2
<1>6. ASSUME NEW c \in S
      PROVE  /\ \E d \in S : SrcBlock(d) = DstBlock(c)
             /\ \E d \in S : DstBlock(d) = SrcBlock(c)
  <2> DEFINE in == {y \in S : DstBlock(y) = SrcBlock(c)}
             out == {y \in S : SrcBlock(y) = DstBlock(c)}
  <2>1. in # {} /\ out # {}
    <3>1. Cardinality(in) = 1 /\ Cardinality(out) = 1
          BY <1>1
    <3>2. IsFiniteSet(in) /\ IsFiniteSet(out)
          BY <1>2
    <3> HIDE DEF in, out
    <3> QED BY <3>1, <3>2, FS_EmptySet
  <2> QED BY <2>1
<1>7. \A c \in S : next[c] \in S /\ SrcBlock(next[c]) = DstBlock(c)
      BY <1>6
<1>8. next \in [S -> S]
      BY <1>7
<1>9. down \in [S -> Int] /\ up \in [S -> Int] /\ lat \in [S -> Int] /\ sl \in [S -> Int]
      BY <1>4, <1>3
<1>10. \A c \in S : down[c] = up[next[c]]
       BY <1>7
<1> HIDE DEF next
<1>11. \A c, d \in S : next[c] = next[d] => c = d
       BY <1>5, <1>7
<1>12. \A d \in S : \E c \in S : next[c] = d
  <2> TAKE d \in S
  <2>1. PICK c \in S : DstBlock(c) = SrcBlock(d)
        BY <1>6
  <2>2. next[c] = d
        BY <2>1, <1>5, <1>7
  <2> QED BY <2>2
<1>13. ASSUME NEW c \in S
       PROVE  /\ down[c] - up[c] >= (IF c \in regs THEN th ELSE 0)
                                     + (IF c \in backs THEN -Scale ELSE 0)
                                     + th * lat[c] + 0 * sl[c]
              /\ up[c] - down[c] >= (IF c \in regs THEN th ELSE 0)
                                     + (IF c \in backs THEN Scale ELSE 0)
                                     + (-Scale) * lat[c] + (-Scale) * sl[c]
  <2> DEFINE s == SrcBlock(c)
             d == DstBlock(c)
             r == IF c \in regs THEN th ELSE 0
             t == IF c \in backs THEN Scale ELSE 0
             m == Scale * lat[c]
             k == Scale * sl[c]
             h == th * lat[c]
  <2>1. c \in cs \ program.rare /\ Scale \in Nat
        BY <1>1, NetlistAssumption
  <2>2. /\ th * registered(bf, c) = r /\ onBack(c) = t
        BY DEF registered, onBack
  <2>3. /\ e[d] - l[s] >= r - t
        /\ l[s] - e[d] >= r + t - k
        /\ l[d] - e[d] >= h
        /\ e[d] - l[d] >= -m
        BY <1>3, <2>1, <2>2
  <2>4. /\ e[d] \in Int /\ l[d] \in Int /\ l[s] \in Int
        /\ lat[c] \in Nat /\ sl[c] \in Nat
        /\ down[c] = l[d] /\ up[c] = l[s]
        BY <1>3, <1>4
  <2>5. r \in Int /\ t \in Int /\ m \in Int /\ k \in Int /\ h \in Int
        BY <2>1, <2>4
  <2>6. /\ (-Scale) * lat[c] = -m /\ (-Scale) * sl[c] = -k /\ 0 * sl[c] = 0
        /\ (IF c \in backs THEN -Scale ELSE 0) = -t
        BY <2>1, <2>4
  <2> HIDE DEF s, d, r, t, m, k, h, down, up, lat, sl
  <2>7. down[c] - up[c] >= r + (-t) + h + 0 /\ up[c] - down[c] >= r + t + (-m) + (-k)
        BY <2>3, <2>4, <2>5
  <2>8. down[c] - up[c] >= r + (-t) + h + 0 * sl[c]
        BY <2>6, <2>7
  <2> QED BY <2>6, <2>7, <2>8 DEF r, t, h
<1> HIDE DEF down, up, lat, sl
<1>14. PICK D : Sums(down, D)
       BY <1>2, <1>9, SumsExist
<1>15. PICK U : Sums(up, U)
       BY <1>2, <1>9, SumsExist
<1>16. PICK V : Sums(lat, V) /\ SumFunction(lat) = V[S]
       BY <1>2, <1>9, SumsExist
<1>17. PICK W : Sums(sl, W) /\ SumFunction(sl) = W[S]
       BY <1>2, <1>9, SumsExist
<1>18. D[S] = U[S] /\ D[S] \in Int
       BY <1>2, <1>8, <1>9, <1>10, <1>11, <1>12, <1>14, <1>15, RoundTrip
<1>19. V[S] \in Int /\ W[S] \in Int
       BY <1>9, <1>16, <1>17 DEF Sums
<1>20. Scale \in Int /\ -Scale \in Int /\ 0 \in Int /\ th \in Int
       BY NetlistAssumption
<1>21. regs \in SUBSET S /\ backs \in SUBSET S
       OBVIOUS
<1> DEFINE x == Cardinality(regs)
           y == Cardinality(backs)
<1>22. D[S] - U[S] >= th * x + (-Scale) * y + th * V[S] + 0 * W[S]
  <2>1. AtLeast(S, down, up, lat, sl, regs, backs, th, -Scale, th, 0)
        BY <1>2, <1>9, <1>13, <1>20, <1>21 DEF AtLeast
  <2> QED BY <2>1, <1>14, <1>15, <1>16, <1>17, SumsRespect
<1>23. U[S] - D[S] >= th * x + Scale * y + (-Scale) * V[S] + (-Scale) * W[S]
  <2>1. AtLeast(S, up, down, lat, sl, regs, backs, th, Scale, -Scale, -Scale)
        BY <1>2, <1>9, <1>13, <1>20, <1>21 DEF AtLeast
  <2> QED BY <2>1, <1>14, <1>15, <1>16, <1>17, SumsRespect
<1>24. x \in Nat /\ y \in Nat
       BY <1>2, <1>21
<1> HIDE DEF x, y
<1>25. th * (x + V[S]) <= Scale * y /\ th * x <= Scale * (W[S] + V[S] - y)
  <2> DEFINE vs == V[S]
             ws == W[S]
  <2>1. vs \in Int /\ ws \in Int
        BY <1>19
  <2>2. /\ 0 >= th * x + (-Scale) * y + th * vs + 0 * ws
        /\ 0 >= th * x + Scale * y + (-Scale) * vs + (-Scale) * ws
        BY <1>18, <1>22, <1>23
  <2> HIDE DEF vs, ws
  <2>3. /\ th * (x + vs) = th * x + th * vs /\ (-Scale) * y = -(Scale * y) /\ 0 * ws = 0
        /\ Scale * (ws + vs - y) = Scale * ws + Scale * vs - Scale * y
        /\ (-Scale) * vs = -(Scale * vs) /\ (-Scale) * ws = -(Scale * ws)
        BY <2>1, <1>20, <1>24
  <2>4. th * x \in Int /\ th * vs \in Int /\ Scale * y \in Int /\ Scale * vs \in Int
        /\ Scale * ws \in Int
        BY <2>1, <1>20, <1>24
  <2> DEFINE a == th * x
             b == th * vs
             c == Scale * y
             d == Scale * vs
             f == Scale * ws
  <2>5. /\ 0 >= a + (-c) + b + 0 /\ 0 >= a + c + (-d) + (-f)
        /\ a \in Int /\ b \in Int /\ c \in Int /\ d \in Int /\ f \in Int
        BY <2>2, <2>3, <2>4
  <2> HIDE DEF a, b, c, d, f
  <2>6. a + b <= c /\ a <= f + d - c
        BY <2>5
  <2> QED BY <2>3, <2>6 DEF a, b, c, d, f, vs, ws
<1> QED BY <1>16, <1>17, <1>25 DEF lat, sl, x, y

\* A solution has rates that meet the rows.
LEMMA SolutionRates ==
  ASSUME NEW mgs, NEW p \in Solutions(Whole, Channels, mgs)
  PROVE  /\ p.rate \in [mgs -> 0 .. Scale]
         /\ \A i \in mgs : createThroughputConstraints(getMGfromCFDFC(CFDFC[i]),
                                                       p.rate[i], p.flop, p.slots)
<1>1. p \in Feasible(Whole, Channels, mgs)
  <2> DEFINE valued == {<<Value(mgs, s), s>> : s \in Feasible(Whole, Channels, mgs)}
  <2>1. PICK v \in valued : p = v[2]
        BY DEF Solutions
  <2>2. PICK s \in Feasible(Whole, Channels, mgs) : v = <<Value(mgs, s), s>>
        BY <2>1
  <2> QED BY <2>1, <2>2
<1>2. PICK q \in Placements(Channels, Registers(Whole, Channels)) :
        LET rates == [i \in mgs |-> Rates(i, q)]
        IN  p \in {[rate |-> th, flop |-> q.flop, slots |-> q.slots] :
                     th \in {f \in [mgs -> 0 .. Scale] : \A i \in mgs : f[i] \in rates[i]}}
      BY <1>1 DEF Feasible
<1>3. PICK th \in [mgs -> 0 .. Scale] :
        /\ \A i \in mgs : th[i] \in Rates(i, q)
        /\ p = [rate |-> th, flop |-> q.flop, slots |-> q.slots]
      BY <1>2
<1>4. p.rate = th /\ p.flop = q.flop /\ p.slots = q.slots
      BY <1>3
<1>5. \A i \in mgs : createThroughputConstraints(getMGfromCFDFC(CFDFC[i]), th[i],
                                                 q.flop, q.slots)
      BY <1>3 DEF Rates
<1> QED BY <1>3, <1>4, <1>5

\* The channels of a marked graph join blocks of the program, no memories.
LEMMA MarkedGraphChannels ==
  ASSUME CFDFCInv, NEW i \in DOMAIN CFDFC, NEW c \in getMGfromCFDFC(CFDFC[i])
  PROVE  c \in Channels /\ ~toMemory(c)
<1>1. program \in Programs /\ CFDFC \in Seq(SUBSET Arcs)
      BY DEF CFDFCInv, DfsInv
<1>2. CFDFC[i] \in SUBSET Arcs
      BY <1>1, ElementOfSeq, LenProperties
<1>3. c \in Channels /\ BBof(SrcBlock(c)) \in BBsOf(CFDFC[i])
      /\ BBof(DstBlock(c)) \in BBsOf(CFDFC[i])
      BY DEF getMGfromCFDFC
<1>4. 0 \notin BBsOf(CFDFC[i])
  <2>1. \A a \in Arcs : Src(a) \in BB /\ Dst(a) \in BB
        BY <1>1, ArcEnds
  <2>2. 0 \notin BB
        BY DEF BB
  <2> QED BY <1>2, <2>1, <2>2 DEF BBsOf
<1>5. SrcBlock(c) \in Blocks /\ DstBlock(c) \in Blocks
      BY <1>1, <1>3, NetlistTypes DEF Channels, SrcBlock, DstBlock, Blocks, src, dst
<1>6. \A b \in Blocks : Type(b) = "MC" => BBof(b) = 0
      BY <1>1, NetlistAssumption DEF Blocks, Type, BBof
<1> QED BY <1>3, <1>4, <1>5, <1>6 DEF toMemory

\* What one model reports are rates at which tokens can move.
LEMMA OneModelFlows ==
  ASSUME CFDFCInv, WholeInv, addElasticBuffersBB, phase' = "instantiate"
  PROVE  \A i \in DOMAIN throughput' :
           /\ i \in DOMAIN CFDFC /\ throughput'[i] \in Nat
           /\ \A c \in getMGfromCFDFC(CFDFC[i]) : buffer'[c].slots \in Nat
           /\ Flows(getMGfromCFDFC(CFDFC[i]), throughput'[i], buffer')
<1>1. program \in Programs /\ ~program.set /\ phase = "extract" /\ CFDFC # <<>>
      BY DEF WholeInv, addElasticBuffersBB, extracted
<1> DEFINE mgs == FirstOf(DOMAIN CFDFC)
<1>2. \E p \in Solutions(Whole, Channels, mgs) :
        buffer' = Annotate(p) /\ throughput' = p.rate
      BY DEF addElasticBuffersBB, Fail
<1>3. mgs \subseteq DOMAIN CFDFC
  <2>1. DOMAIN CFDFC = 1 .. Len(CFDFC) /\ 1 \in 1 .. Len(CFDFC)
    <3>1. CFDFC \in Seq(SUBSET Arcs)
          BY DEF CFDFCInv
    <3> QED BY <1>1, <3>1, LenProperties, EmptySeq
  <2>2. Min(1 .. Len(CFDFC)) \in 1 .. Len(CFDFC)
    <3>1. \A y \in 1 .. Len(CFDFC) : 1 <= y
          OBVIOUS
    <3> QED BY <2>1, <3>1 DEF Min
  <2> QED BY <2>1, <2>2 DEF FirstOf
<1> HIDE DEF mgs
<1> PICK p \in Solutions(Whole, Channels, mgs) : buffer' = Annotate(p) /\ throughput' = p.rate
    BY <1>2
<1>4. PICK F \in SUBSET Channels, n \in [Channels -> Nat] :
        /\ createPathConstraints(Whole, registers(F))
        /\ createElasticityConstraints(Whole, registers(F))
        /\ p.slots = n
        /\ \A c \in Channels : p.flop[c] = IF c \in F THEN 1 ELSE 0
        /\ \A c \in chans(program) \cap F : n[c] > 0
      BY <1>1, SolutionPlaces
<1>5. /\ p.rate \in [mgs -> 0 .. Scale]
      /\ \A i \in mgs : createThroughputConstraints(getMGfromCFDFC(CFDFC[i]), p.rate[i],
                                                    p.flop, p.slots)
      BY SolutionRates
<1>6. \A c \in Channels : buffer[c] = NoBuffer
      BY <1>1 DEF WholeInv
<1>7. ASSUME NEW i \in DOMAIN throughput'
      PROVE  /\ i \in DOMAIN CFDFC /\ throughput'[i] \in Nat
             /\ \A c \in getMGfromCFDFC(CFDFC[i]) : buffer'[c].slots \in Nat
             /\ Flows(getMGfromCFDFC(CFDFC[i]), throughput'[i], buffer')
  <2> DEFINE cs == getMGfromCFDFC(CFDFC[i])
             th == p.rate[i]
             bf == Annotate(p)
  <2>1. i \in mgs /\ i \in DOMAIN CFDFC
        BY <1>3, <1>5
  <2>2. th \in Nat
    <3>1. th \in 0 .. Scale
          BY <1>5, <2>1
    <3> QED BY <3>1
  <2>3. ASSUME NEW c \in cs
        PROVE  /\ c \in Channels /\ p.flop[c] = registered(bf, c)
               /\ p.slots[c] = bf[c].slots /\ p.slots[c] \in Nat
    <3>1. c \in Channels /\ ~toMemory(c)
          BY <2>1, MarkedGraphChannels
    <3>2. c \notin channels_in_MC_LSQ /\ c \in chans(program)
          BY <3>1 DEF channels_in_MC_LSQ, chans, Channels, memory, toMemory, src, dst,
             SrcBlock, DstBlock, Type
    <3>3. bf[c] = IF n[c] > 0 THEN Annotated(p, c) ELSE NoBuffer
          BY <1>4, <1>6, <3>1, <3>2 DEF Annotate
    <3>4. n[c] \in Nat /\ p.slots[c] = n[c] /\ (c \in F => n[c] > 0)
          /\ p.flop[c] = IF c \in F THEN 1 ELSE 0
          BY <1>4, <3>1, <3>2
    <3>5. bf[c] = IF c \in F THEN Opaque(n[c]) ELSE Clear(n[c])
      <4> DEFINE k == n[c]
      <4>1. CASE c \in F
            BY <4>1, <3>3, <3>4 DEF Annotated
      <4>2. CASE c \notin F /\ k > 0
            BY <4>2, <3>3, <3>4 DEF Annotated
      <4>3. CASE c \notin F /\ ~(k > 0)
        <5>1. k = 0 /\ bf[c] = NoBuffer
              BY <4>3, <3>3, <3>4
        <5> QED BY <4>3, <5>1 DEF NoBuffer
      <4> QED BY <4>1, <4>2, <4>3
    <3> HIDE DEF bf
    <3> QED BY <3>1, <3>4, <3>5 DEF registered, Opaque, Clear
  <2>4. createThroughputConstraints(cs, th, p.flop, p.slots)
        BY <1>5, <2>1
  <2>5. cs \in SUBSET Channels
        BY <2>3
  <2> HIDE DEF cs, th, bf
  <2>6. Flows(cs, th, bf)
        BY <1>1, <2>2, <2>3, <2>4, <2>5, RowsFlow
  <2> QED BY <2>1, <2>2, <2>3, <2>6 DEF cs, th, bf
<1> QED BY <1>7

LEMMA RateInitInv == Init => RateInv
<1> SUFFICES ASSUME Init PROVE RateInv
    OBVIOUS
<1>1. CFDFCInv /\ WholeInv
      BY CFDFCInitInv, WholeInitInv
<1>2. phase = "dfs"
      BY DEF Init, BBGInit
<1> QED BY <1>1, <1>2 DEF RateInv

\* Which channels are in a marked graph and what their rows say depends on the
\* program alone, which does not change.
LEMMA GraphsStay ==
  ASSUME program' = program, NEW A
  PROVE  getMGfromCFDFC(A)' = getMGfromCFDFC(A)
BY SMTT(60) DEF getMGfromCFDFC, BBsOf, isInnerChannel, Channels, SrcBlock, DstBlock, Type,
   BBof, Src, Dst

LEMMA FlowsStay ==
  ASSUME program' = program, NEW cs, NEW th, NEW bf, Flows(cs, th, bf)
  PROVE  Flows(cs, th, bf)'
<1>1. PICK e, l \in [Blocks -> Int] :
        \A c \in cs \ program.rare : Apart(c, th, bf, e, l)
      BY DEF Flows
<1>2. Blocks' = Blocks
      BY DEF Blocks
<1>3. ASSUME NEW c, Apart(c, th, bf, e, l)
      PROVE  Apart(c, th, bf, e, l)'
      BY <1>3 DEF Apart, SrcBlock, DstBlock, registered, onBack, isBackEdge, Type, BBof, Latency
<1> QED BY <1>1, <1>2, <1>3 DEF Flows

LEMMA RateNextInv == RateInv /\ [Next]_vars => RateInv'
<1> SUFFICES ASSUME RateInv, [Next]_vars PROVE RateInv'
    OBVIOUS
<1> DEFINE ok(i) == /\ throughput[i] \in Nat
                    /\ \A c \in getMGfromCFDFC(CFDFC[i]) : buffer[c].slots \in Nat
                    /\ Flows(getMGfromCFDFC(CFDFC[i]), throughput[i], buffer)
           Ok == \A i \in DOMAIN throughput : ok(i)
<1>1. CFDFCInv /\ WholeInv /\ CFDFCInv' /\ WholeInv'
      BY CFDFCNextInv, WholeNextInv DEF RateInv
<1>2. CASE ~(~program.set /\ phase \in {"instantiate", "done"})'
      BY <1>1, <1>2 DEF RateInv
<1>3. CASE addElasticBuffersBB /\ phase' = "instantiate"
  <2>1. \A i \in DOMAIN throughput' :
           /\ throughput'[i] \in Nat
           /\ \A c \in getMGfromCFDFC(CFDFC[i]) : buffer'[c].slots \in Nat
           /\ Flows(getMGfromCFDFC(CFDFC[i]), throughput'[i], buffer')
        BY <1>1, <1>3, OneModelFlows
  <2>2. program' = program /\ CFDFC' = CFDFC
        BY <1>3, <1>1 DEF addElasticBuffersBB, Fail, bbgVars, extracted
  <2>3. \A A : getMGfromCFDFC(A)' = getMGfromCFDFC(A)
        BY <2>2, GraphsStay
  <2>4. \A cs, th, bf : Flows(cs, th, bf) => Flows(cs, th, bf)'
        BY <2>2, FlowsStay
  <2>5. Ok'
        BY <2>1, <2>2, <2>3, <2>4
  <2> QED BY <1>1, <2>5 DEF RateInv
<1>4. CASE /\ UNCHANGED <<program, CFDFC, throughput, buffer>>
           /\ ~program.set /\ phase \in {"instantiate", "done"}
  <2>1. Ok
        BY <1>4 DEF RateInv
  <2>2. \A A : getMGfromCFDFC(A)' = getMGfromCFDFC(A)
        BY <1>4, GraphsStay
  <2>3. \A cs, th, bf : Flows(cs, th, bf) => Flows(cs, th, bf)'
        BY <1>4, FlowsStay
  <2>4. Ok'
        BY <1>4, <2>1, <2>2, <2>3
  <2> QED BY <1>1, <2>4 DEF RateInv
<1>5. \/ ~(~program.set /\ phase \in {"instantiate", "done"})'
      \/ addElasticBuffersBB /\ phase' = "instantiate"
      \/ /\ UNCHANGED <<program, CFDFC, throughput, buffer>>
         /\ ~program.set /\ phase \in {"instantiate", "done"}
  <2>1. CASE ControlFlow
        BY <2>1, <1>1 DEF ControlFlow, Visit, calculateBackArcs, extractMarkedGraphBB
  <2>2. CASE NoCoverage
        BY <2>2 DEF NoCoverage
  <2>3. CASE addElasticBuffersBB
        BY <2>3 DEF addElasticBuffersBB, Fail
  <2>4. CASE addBorderBuffers
        BY <2>4 DEF addBorderBuffers, bbgVars
  <2>5. CASE addElasticBuffersBB_sc
        BY <2>5 DEF addElasticBuffersBB_sc, Fail, bbgVars
  <2>6. CASE createMilpVars_remaining
        BY <2>6, <1>1 DEF createMilpVars_remaining, bbgVars, WholeInv
  <2>7. CASE instantiateElasticBuffers
        BY <2>7 DEF instantiateElasticBuffers, bbgVars
  <2>8. CASE UNCHANGED vars
        BY <2>8 DEF vars, bbgVars
  <2> QED BY <2>1, <2>2, <2>3, <2>4, <2>5, <2>6, <2>7, <2>8 DEF Next
<1> QED BY <1>2, <1>3, <1>4, <1>5

LEMMA AlwaysRateInv == Spec => []RateInv
BY RateInitInv, RateNextInv, PTL DEF Spec

\* If all channels are placed in one model, the throughput it reports for a
\* marked graph is one that every cycle of it can sustain, with the tokens that
\* run on the cycle and the slots there are for them.
THEOREM RatesAreSustained == Spec => [](~program.set => ThroughputIsSustained)
<1>1. RateInv => (~program.set => ThroughputIsSustained)
  <2> SUFFICES ASSUME RateInv, ~program.set, phase = "done", NEW i \in DOMAIN throughput,
                      NEW S \in Cycles(getMGfromCFDFC(CFDFC[i]) \ program.rare)
               PROVE  LET tokens == Cardinality({c \in S : isBackEdge(c)})
                          latency == SumFunction([c \in S |-> Latency(DstBlock(c))])
                          regs == {c \in S : ~buffer[c].transparent}
                          slots == SumFunction([c \in S |-> buffer[c].slots])
                      IN  /\ throughput[i] * (Cardinality(regs) + latency) <= Scale * tokens
                          /\ throughput[i] * Cardinality(regs)
                               <= Scale * (slots + latency - tokens)
      BY DEF ThroughputIsSustained
  <2>1. /\ program \in Programs /\ getMGfromCFDFC(CFDFC[i]) \in SUBSET Channels
        /\ throughput[i] \in Nat
        /\ \A c \in getMGfromCFDFC(CFDFC[i]) : buffer[c].slots \in Nat
        /\ Flows(getMGfromCFDFC(CFDFC[i]), throughput[i], buffer)
        BY DEF RateInv, WholeInv, getMGfromCFDFC
  <2> QED BY <2>1, CyclesSustain
<1> QED BY <1>1, AlwaysRateInv, PTL
==============================================================================
