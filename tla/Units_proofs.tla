----------------------------- MODULE Units_proofs -----------------------------
(***************************************************************************)
(* Pipelined units: data and valid bits stay together, and results come in  *)
(* order, for every unit in which the two pipelines are equally long and    *)
(* every pace of producers and consumer.                                    *)
(*                                                                          *)
(* The shared unit: each sharer gets the results of its own operands, for   *)
(* every number of sharers, every order of them in the blocks, every pace   *)
(* and every length of the selector's FIFO.                                 *)
(***************************************************************************)
EXTENDS MCUnits, SequenceTheorems, WellFoundedInduction, TLAPS

\* The registers have their types; the fork never remembers a copy, as the
\* join takes both copies in one cycle.
Typed ==
  /\ unit \in Units /\ squared \in BOOLEAN
  /\ p \in [Stages -> Nat]
  /\ regs \in [Bits -> BOOLEAN]
  /\ valid_reg \in BOOLEAN /\ (valid_reg => unit.oehb)
  /\ fork_reg = [i \in 0 .. 1 |-> TRUE]
  /\ asked \in Nat
  /\ results \in Seq(Nat)

\* The numbers UnitsAssumption gives for the unit of the circuit.
LEMMA UnitSizes ==
  ASSUME unit \in Units
  PROVE  /\ unit.inputs \in {1, 2} /\ unit.latency \in Nat /\ unit.oehb \in BOOLEAN
         /\ unit.SIZE \in Nat \ {0}
         /\ unit.oehb => unit.latency = unit.SIZE + 1
         /\ ~unit.oehb => unit.latency = unit.SIZE
BY UnitsAssumption DEF Matched

\* A cycle either moves both pipelines by one place or stops them both, and
\* in it a result is handed over exactly if one is there and they move.  A
\* squared unit without an OEHB does not move before it has a result.
Move(ce, all) ==
  /\ p' = IF ce THEN [s \in Stages |-> IF s = 1 THEN IF all THEN asked + 1 ELSE 0
                                      ELSE p[s - 1]]
          ELSE p
  /\ regs' = IF ce THEN [i \in Bits |-> IF i = 0 THEN all ELSE regs[i - 1]] ELSE regs
  /\ valid_reg' = (unit.oehb /\ IF ce THEN regs[unit.SIZE - 1] ELSE valid_reg)
  /\ fork_reg' = fork_reg
  /\ asked' = IF ce /\ all THEN asked + 1 ELSE asked
  /\ results' = IF ce /\ valid THEN Append(results, dataOut) ELSE results
  /\ UNCHANGED <<unit, squared>>
  /\ squared /\ ~unit.oehb /\ ~valid => ~ce

\* The wires of a cycle, followed to their effect.
LEMMA CycleMoves ==
  ASSUME Typed, NEW offered \in SUBSET Operands, NEW accept \in BOOLEAN,
         Cycle(offered, accept)
  PROVE  \E ce, all \in BOOLEAN : Move(ce, all)
<1> DEFINE pValid == [i \in Operands |-> i \in offered]
           all == operands!valid(pValid)
           copies == [i \in 0 .. 1 |-> fork_result!valid(i, valid)]
           copiesReady == [i \in 0 .. 1 |-> square!ready(i, copies, accept)]
           nReady == IF squared THEN fork_result!ready(copiesReady) ELSE accept
           given == (IF squared THEN square!valid(copies) ELSE valid) /\ accept
           ce == enable(nReady)
           takes == \A i \in Operands :
                      i \in offered /\ operands!ready(i, pValid, ce)
<1>1. /\ unit.SIZE - 1 \in Bits /\ valid \in BOOLEAN
      /\ regs[unit.SIZE - 1] \in BOOLEAN
      BY UnitSizes DEF Typed, Bits, valid
<1>2. all \in BOOLEAN /\ (all = \A i \in Operands : i \in offered)
      BY UnitSizes DEF operands!valid, Operands, Typed
<1>3. \A i \in 0 .. 1 : copies[i] = valid
      BY <1>1 DEF fork_result!valid, Typed
<1>4. \A i \in 0 .. 1 : copiesReady[i] = (accept /\ valid)
      BY <1>1, <1>3 DEF square!ready
<1>5. fork_result!ready(copiesReady) = (accept /\ valid)
  <2>1. \A i \in 0 .. 1 : fork_reg[i] = TRUE
        BY DEF Typed
  <2> HIDE DEF copiesReady
  <2> QED BY <1>1, <1>4, <2>1 DEF fork_result!ready, fork_result!forkStop,
             fork_result!block_stop, fork_result!Outputs
<1>6. square!valid(copies) = valid
  <2> HIDE DEF copies
  <2>1. 0 \in 0 .. 1 /\ 2 - 1 = 1
        OBVIOUS
  <2> QED BY <1>1, <1>3, <2>1 DEF square!valid
<1>7. nReady = (accept /\ (squared => valid))
      BY <1>1, <1>5 DEF Typed
<1>8. given = (accept /\ valid)
      BY <1>1, <1>6 DEF Typed
<1>9. ce = IF unit.oehb THEN ~valid_reg \/ nReady ELSE nReady
      BY DEF enable, oehb!ready
<1> HIDE DEF copies, copiesReady, nReady, given, ce, all, takes
<1>10. ce \in BOOLEAN
      BY <1>1, <1>7, <1>9, UnitSizes DEF Typed
<1>11. given = (ce /\ valid)
      BY <1>1, <1>7, <1>8, <1>9, UnitSizes DEF Typed, valid
<1>12. takes = (ce /\ all)
  <2>1. \E i \in Operands : TRUE
        BY UnitSizes DEF Operands, Typed
  <2>2. \A i \in Operands : pValid[i] = (i \in offered)
        OBVIOUS
  <2>3. \A i \in Operands : operands!ready(i, pValid, ce)
          <=> ce /\ \A j \in Operands : j # i => j \in offered
        BY <2>2 DEF operands!ready, Operands
  <2> QED BY <1>2, <1>10, <2>1, <2>3 DEF takes
<1>13. /\ p' = core(IF all THEN asked + 1 ELSE 0, ce)
       /\ regs' = delay_buffer(all, ce)
       /\ valid_reg' = IF unit.oehb
                       THEN oehb!valid_next(regs[unit.SIZE - 1], nReady) ELSE FALSE
       /\ fork_reg' = [i \in 0 .. 1 |-> IF squared
                         THEN fork_result!reg_in(i, valid, copiesReady) ELSE TRUE]
       /\ asked' = IF takes THEN asked + 1 ELSE asked
       /\ results' = IF given THEN Append(results, dataOut) ELSE results
       /\ UNCHANGED <<unit, squared>>
      BY DEF Cycle, pValid, all, copies, copiesReady, nReady, given, ce, takes
<1>14. valid_reg' = (unit.oehb /\ IF ce THEN regs[unit.SIZE - 1] ELSE valid_reg)
      BY <1>1, <1>7, <1>9, <1>13, UnitSizes DEF oehb!valid_next, oehb!ready, Typed
<1>15. fork_reg' = fork_reg
  <2>1. \A i \in 0 .. 1 : fork_result!reg_in(i, valid, copiesReady) = TRUE
    <3>1. \A i \in 0 .. 1 : fork_reg[i] = TRUE
          BY DEF Typed
    <3> QED BY <1>1, <1>4, <3>1 DEF fork_result!reg_in, fork_result!block_stop,
               fork_result!forkStop, fork_result!Outputs
  <2> QED BY <1>13, <2>1 DEF Typed
<1>16. squared /\ ~unit.oehb /\ ~valid => ~ce
      BY <1>7, <1>9
<1>17. p' = IF ce THEN [s \in Stages |-> IF s = 1
                          THEN IF all THEN asked + 1 ELSE 0
                          ELSE p[s - 1]] ELSE p
      BY <1>10, <1>13 DEF core
<1>18. regs' = IF ce THEN [i \in Bits |-> IF i = 0 THEN all ELSE regs[i - 1]]
               ELSE regs
      BY <1>10, <1>13 DEF delay_buffer
<1>19. Move(ce, all)
      BY <1>11, <1>12, <1>13, <1>14, <1>15, <1>16, <1>17, <1>18 DEF Move
<1> QED BY <1>2, <1>10, <1>19

\* Every step is a move, a stuttering step one that stops the pipelines.
LEMMA NextMoves ==
  ASSUME Typed, [Next]_vars
  PROVE  \E ce, all \in BOOLEAN : Move(ce, all)
<1>1. CASE UNCHANGED vars
  <2>1. Move(FALSE, FALSE)
        BY <1>1 DEF Move, vars, Typed
  <2> QED BY <2>1
<1>2. ASSUME NEW offered \in SUBSET Operands, NEW accept \in BOOLEAN,
             Cycle(offered, accept)
      PROVE  \E ce, all \in BOOLEAN : Move(ce, all)
      BY <1>2, CycleMoves
<1> QED BY <1>1, <1>2 DEF Next, Offers


\* The registers start with values of their types.
LEMMA InitTyped == Init => Typed
<1> SUFFICES ASSUME Init PROVE Typed
    OBVIOUS
<1>1. p \in [Stages -> Nat] /\ regs \in [Bits -> BOOLEAN]
      BY DEF Init
<1>2. results \in Seq(Nat)
      BY DEF Init
<1> QED BY <1>1, <1>2 DEF Init, Typed

\* A clock edge keeps every register in its type.
LEMMA NextTyped == Typed /\ [Next]_vars => Typed'
<1> SUFFICES ASSUME Typed, [Next]_vars PROVE Typed'
    OBVIOUS
<1> PICK ce \in BOOLEAN, all \in BOOLEAN : Move(ce, all)
    BY NextMoves
<1>1. /\ unit' = unit /\ squared' = squared /\ fork_reg' = fork_reg
      /\ Stages' = Stages /\ Bits' = Bits
      BY DEF Move, Stages, Bits
<1>2. p' \in [Stages -> Nat]
  <2>1. \A s \in Stages : s # 1 => s - 1 \in Stages
        BY UnitSizes DEF Stages, Typed
  <2> QED BY <2>1 DEF Typed, Move
<1>3. regs' \in [Bits -> BOOLEAN]
  <2>1. \A i \in Bits : i # 0 => i - 1 \in Bits
        BY UnitSizes DEF Bits, Typed
  <2> QED BY <2>1 DEF Typed, Move
<1>4. valid_reg' \in BOOLEAN /\ (valid_reg' => unit.oehb)
  <2>1. regs[unit.SIZE - 1] \in BOOLEAN /\ unit.oehb \in BOOLEAN
        BY UnitSizes DEF Typed, Bits
  <2> QED BY <2>1 DEF Typed, Move
<1>5. asked' \in Nat
      BY DEF Typed, Move
<1>6. results' \in Seq(Nat)
  <2>1. dataOut \in Nat
        BY UnitSizes DEF dataOut, Stages, Typed
  <2> QED BY <2>1, AppendProperties DEF Typed, Move
<1> QED BY <1>1, <1>2, <1>3, <1>4, <1>5, <1>6 DEF Typed, Move

\* Every register of a unit has its type, and the fork's stay set.
THEOREM AlwaysTyped == Spec => []Typed
BY InitTyped, NextTyped, PTL DEF Spec
------------------------------------------------------------------------------
\* What the valid bit of a stage is after the pipelines moved.
LEMMA HeldNext ==
  ASSUME Typed, NEW all \in BOOLEAN, NEW s \in Stages, Move(TRUE, all)
  PROVE  Held(s)' = IF s = 1 THEN all ELSE Held(s - 1)
<1>1. CASE s <= unit.SIZE
  <2>1. s - 1 \in Bits /\ (s = 1 <=> s - 1 = 0) /\ s - 1 <= unit.SIZE
        BY <1>1, UnitSizes DEF Stages, Bits, Typed
  <2>2. regs'[s - 1] = IF s = 1 THEN all ELSE regs[s - 1 - 1]
        BY <2>1 DEF Move
  <2> QED BY <1>1, <2>1, <2>2 DEF Held, Move
<1>2. CASE ~(s <= unit.SIZE)
  <2>1. unit.oehb /\ s = unit.SIZE + 1 /\ s # 1 /\ s - 1 = unit.SIZE
        BY <1>2, UnitSizes DEF Stages, Typed
  <2>2. unit.SIZE <= unit.SIZE /\ regs[unit.SIZE - 1] \in BOOLEAN
        BY UnitSizes DEF Bits, Typed
  <2>3. valid_reg' = regs[unit.SIZE - 1] /\ unit' = unit
        BY <2>1, <2>2 DEF Move
  <2> QED BY <1>2, <2>1, <2>2, <2>3 DEF Held
<1> QED BY <1>1, <1>2

\* A cycle moves data and valid bits alike.
LEMMA NextAligned == Typed /\ ResultsAligned /\ [Next]_vars => ResultsAligned'
<1> SUFFICES ASSUME Typed, ResultsAligned, [Next]_vars PROVE ResultsAligned'
    OBVIOUS
<1> PICK ce \in BOOLEAN, all \in BOOLEAN : Move(ce, all)
    BY NextMoves
<1>1. Stages' = Stages
      BY DEF Move, Stages
<1>2. CASE ce
  <2>1. \A s \in Stages : Held(s)' = IF s = 1 THEN all ELSE Held(s - 1)
        BY <1>2, HeldNext
  <2>2. \A s \in Stages : s # 1 => s - 1 \in Stages
        BY UnitSizes DEF Stages, Typed
  <2>3. \A s \in Stages :
          p'[s] = IF s = 1 THEN IF all THEN asked + 1 ELSE 0 ELSE p[s - 1]
        BY <1>2 DEF Move
  <2>4. asked + 1 # 0
        BY DEF Typed
  <2> QED BY <1>1, <2>1, <2>2, <2>3, <2>4 DEF ResultsAligned
<1>3. CASE ~ce
  <2>1. regs' = regs /\ p' = p /\ valid_reg' = valid_reg /\ unit' = unit
        BY <1>3 DEF Typed, Move
  <2> QED BY <1>1, <2>1 DEF ResultsAligned, Held
<1> QED BY <1>2, <1>3

\* In every state, a stage's valid bit is set exactly if its operands were
\* taken, however often the pipelines have stalled.
THEOREM AlwaysAligned == Spec => []ResultsAligned
<1>1. Init => ResultsAligned
  <2> SUFFICES ASSUME Init PROVE ResultsAligned
      OBVIOUS
  <2>1. \A s \in Stages : s <= unit.SIZE => s - 1 \in Bits
        BY UnitSizes DEF Init, Stages, Bits
  <2> QED BY <2>1 DEF Init, ResultsAligned, Held
<1> QED BY <1>1, NextAligned, AlwaysTyped, PTL DEF Spec
------------------------------------------------------------------------------
\* The operands taken and not handed over are those in the pipeline, the
\* oldest nearest to its end.
InFlight ==
  /\ \A s \in Stages : p[s] # 0 => p[s] \in Len(results) + 1 .. asked
  /\ \A k \in Len(results) + 1 .. asked : \E s \in Stages : p[s] = k
  /\ \A s, t \in Stages : s < t /\ p[s] # 0 /\ p[t] # 0 => p[s] > p[t]
  /\ Len(results) <= asked
  /\ ResultsInOrder

\* The result at the output is the oldest one in the pipeline.
LEMMA OutputIsOldest ==
  ASSUME Typed, ResultsAligned, InFlight
  PROVE  /\ unit.latency \in Stages
         /\ valid <=> p[unit.latency] # 0
         /\ valid => dataOut = Len(results) + 1
<1>1. unit.latency \in Stages /\ \A s \in Stages : s # unit.latency => s < unit.latency
      BY UnitSizes DEF Stages, Typed
<1>2. valid = Held(unit.latency)
      BY UnitSizes DEF Held, valid, Typed
<1>3. valid <=> p[unit.latency] # 0
      BY <1>1, <1>2 DEF ResultsAligned
<1>4. ASSUME valid PROVE dataOut = Len(results) + 1
  <2>1. p[unit.latency] \in Len(results) + 1 .. asked
        BY <1>1, <1>3, <1>4 DEF InFlight
  <2>2. Len(results) \in Nat /\ Len(results) + 1 \in Len(results) + 1 .. asked
        BY <2>1 DEF Typed
  <2>3. PICK s \in Stages : p[s] = Len(results) + 1
        BY <2>2 DEF InFlight
  <2>4. p[s] # 0 /\ p[s] \in Nat /\ p[unit.latency] \in Nat
        BY <1>1, <2>2, <2>3 DEF Typed
  <2>5. s = unit.latency
        BY <1>1, <1>3, <1>4, <2>1, <2>2, <2>3, <2>4 DEF InFlight
  <2> QED BY <2>3, <2>5 DEF dataOut
<1> QED BY <1>1, <1>3, <1>4

\* Moving the pipelines keeps the operands in flight in order.
LEMMA MoveInFlight ==
  ASSUME Typed, ResultsAligned, InFlight, NEW all \in BOOLEAN, Move(TRUE, all)
  PROVE  InFlight'
<1> DEFINE n == Len(results)
           L == unit.latency
<1>1. /\ n \in Nat /\ asked \in Nat /\ n <= asked /\ L \in Stages
      /\ \A s \in Stages : p[s] \in Nat
      BY OutputIsOldest DEF InFlight, Typed
<1>2. /\ results' = IF valid THEN Append(results, n + 1) ELSE results
      /\ Len(results') = IF valid THEN n + 1 ELSE n
  <2>1. n + 1 \in Nat
        BY <1>1
  <2> HIDE DEF n
  <2>2. results' = IF valid THEN Append(results, n + 1) ELSE results
        BY OutputIsOldest DEF Move, n
  <2>3. Len(Append(results, n + 1)) = n + 1
        BY <2>1, AppendProperties DEF Typed, n
  <2> QED BY <2>2, <2>3 DEF n
<1>3. asked' = (IF all THEN asked + 1 ELSE asked) /\ Stages' = Stages
      BY DEF Move, Stages
<1>4. /\ valid => p[L] = n + 1 /\ n + 1 <= asked
      /\ ~valid => p[L] = 0
      BY <1>1, OutputIsOldest DEF InFlight, dataOut
<1>5. \A s \in Stages :
        /\ p'[s] = IF s = 1 THEN IF all THEN asked + 1 ELSE 0 ELSE p[s - 1]
        /\ s # 1 => s - 1 \in Stages /\ s - 1 < L
      BY UnitSizes DEF Move, Stages, Typed
<1>6. /\ \A s, t \in Stages : s < t => t # 1
      /\ \A s \in Stages : s # L => \E t \in Stages : t # 1 /\ t - 1 = s
  <2>1. ASSUME NEW s \in Stages, s # L PROVE \E t \in Stages : t # 1 /\ t - 1 = s
    <3>1. s + 1 \in Stages /\ s + 1 # 1 /\ (s + 1) - 1 = s
          BY <2>1, UnitSizes DEF Stages, Typed
    <3> QED BY <3>1
  <2> QED BY <2>1 DEF Stages
<1> HIDE DEF n, L
<1>7. ASSUME NEW s \in Stages, p'[s] # 0
      PROVE  p'[s] \in Len(results') + 1 .. asked'
  <2>1. CASE s = 1
        BY <1>1, <1>2, <1>3, <1>4, <1>5, <1>7, <2>1
  <2>2. CASE s # 1
    <3>1. p'[s] = p[s - 1] /\ s - 1 \in Stages /\ s - 1 < L
          BY <1>5, <2>2
    <3>2. p[s - 1] \in n + 1 .. asked
          BY <3>1, <1>7 DEF InFlight, n
    <3>3. valid => p[s - 1] > p[L]
          BY <1>1, <1>4, <1>7, <3>1 DEF InFlight
    <3> QED BY <1>1, <1>2, <1>3, <1>4, <3>1, <3>2, <3>3
  <2> QED BY <2>1, <2>2
<1>8. ASSUME NEW k \in Len(results') + 1 .. asked'
      PROVE  \E s \in Stages : p'[s] = k
  <2>1. CASE k = asked + 1
    <3>1. all
          BY <1>1, <1>3, <2>1
    <3>2. 1 \in Stages
          BY UnitSizes DEF Stages, Typed
    <3> QED BY <1>5, <2>1, <3>1, <3>2
  <2>2. CASE k # asked + 1
    <3>1. k \in n + 1 .. asked
          BY <1>1, <1>2, <1>3, <2>2
    <3>2. PICK s \in Stages : p[s] = k
          BY <3>1 DEF InFlight, n
    <3>3. s # L
          BY <1>1, <1>2, <1>4, <3>1, <3>2
    <3>4. PICK t \in Stages : t # 1 /\ t - 1 = s
          BY <1>6, <3>3
    <3>5. p'[t] = p[t - 1]
          BY <1>5, <3>4
    <3> QED BY <3>2, <3>4, <3>5
  <2> QED BY <2>1, <2>2
<1>9. ASSUME NEW s \in Stages, NEW t \in Stages, s < t, p'[s] # 0, p'[t] # 0
      PROVE  p'[s] > p'[t]
  <2>1. t # 1 /\ p'[t] = p[t - 1] /\ t - 1 \in Stages
        BY <1>5, <1>6, <1>9
  <2>2. CASE s = 1
    <3>1. p'[s] = asked + 1
          BY <1>5, <1>9, <2>2
    <3>2. p[t - 1] \in n + 1 .. asked
          BY <1>9, <2>1 DEF InFlight, n
    <3> QED BY <1>1, <2>1, <3>1, <3>2
  <2>3. CASE s # 1
    <3>1. p'[s] = p[s - 1] /\ s - 1 \in Stages /\ s - 1 < t - 1
          BY <1>5, <1>9, <2>3 DEF Stages
    <3> QED BY <1>9, <2>1, <3>1 DEF InFlight
  <2> QED BY <2>2, <2>3
<1>10. Len(results') <= asked'
      BY <1>1, <1>2, <1>3, <1>4
<1>11. ResultsInOrder'
  <2>1. \A k \in 1 .. n : results[k] = k
        BY DEF InFlight, ResultsInOrder, Typed, n
  <2>2. CASE ~valid
        BY <1>2, <2>1, <2>2 DEF ResultsInOrder, Typed, n
  <2>3. CASE valid
    <3>1. results' = Append(results, n + 1) /\ n + 1 \in Nat
          BY <1>1, <1>2, <2>3
    <3>2. /\ results' \in Seq(Nat)
          /\ \A k \in 1 .. n + 1 : results'[k] = IF k <= n THEN results[k] ELSE n + 1
          BY <3>1, AppendProperties DEF Typed, n
    <3>3. DOMAIN results' = 1 .. n + 1
          BY <1>2, <2>3, <3>2
    <3> QED BY <1>1, <2>1, <3>2, <3>3 DEF ResultsInOrder
  <2> QED BY <2>2, <2>3
<1> QED BY <1>3, <1>7, <1>8, <1>9, <1>10, <1>11 DEF InFlight

\* A step keeps the operands in flight in order.
LEMMA NextInFlight ==
  Typed /\ ResultsAligned /\ InFlight /\ [Next]_vars => InFlight'
<1> SUFFICES ASSUME Typed, ResultsAligned, InFlight, [Next]_vars PROVE InFlight'
    OBVIOUS
<1> PICK ce \in BOOLEAN, all \in BOOLEAN : Move(ce, all)
    BY NextMoves
<1>1. CASE ce
      BY <1>1, MoveInFlight
<1>2. CASE ~ce
  <2>1. p' = p /\ asked' = asked /\ results' = results /\ Stages' = Stages
        BY <1>2 DEF Move, Stages
  <2> QED BY <2>1 DEF InFlight, ResultsInOrder
<1> QED BY <1>1, <1>2

\* The k-th result is that of the k-th operands, in every unit whose two
\* pipelines are equally long.
THEOREM AlwaysInOrder == Spec => []ResultsInOrder
<1>1. Init => InFlight
  <2> SUFFICES ASSUME Init PROVE InFlight
      OBVIOUS
  <2>1. Len(results) = 0 /\ DOMAIN results = {} /\ asked = 0
        BY DEF Init
  <2>2. Len(results) + 1 .. asked = {}
        BY <2>1
  <2>3. \A s \in Stages : p[s] = 0
        BY DEF Init
  <2> QED BY <2>1, <2>2, <2>3 DEF InFlight, ResultsInOrder
<1>2. InFlight => ResultsInOrder
      BY DEF InFlight
<1> QED BY <1>1, <1>2, NextInFlight, AlwaysTyped, AlwaysAligned, PTL DEF Spec
------------------------------------------------------------------------------
\* A squared unit without an OEHB is empty: no bit is set and no operand was
\* taken.
NotStarted == squared /\ ~unit.oehb => asked = 0 /\ \A i \in Bits : ~regs[i]

\* It stays empty: without a result its consumers do not enable it.
LEMMA NextNotStarted == Typed /\ NotStarted /\ [Next]_vars => NotStarted'
<1> SUFFICES ASSUME Typed, NotStarted, [Next]_vars PROVE NotStarted'
    OBVIOUS
<1> PICK ce \in BOOLEAN, all \in BOOLEAN : Move(ce, all)
    BY NextMoves
<1>1. Bits' = Bits /\ unit' = unit /\ squared' = squared
      BY DEF Bits, Move
<1>2. CASE squared /\ ~unit.oehb
  <2>1. ~valid
        BY <1>2, UnitSizes DEF NotStarted, valid, Bits, Typed
  <2>2. regs' = regs /\ asked' = asked
        BY <1>2, <2>1 DEF Move
  <2> QED BY <1>1, <2>2 DEF NotStarted
<1> QED BY <1>1, <1>2 DEF NotStarted

\* For every pace of producers and consumer, a unit without an OEHB whose
\* result is squared never takes an operand.
THEOREM NeverStarts == Spec => []SquareStuck
<1>1. Init => NotStarted
      BY DEF Init, NotStarted
<1>2. NotStarted => SquareStuck
      BY DEF NotStarted, SquareStuck
<1> QED BY <1>1, <1>2, NextNotStarted, AlwaysTyped, PTL DEF Spec

------------------------------------------------------------------------------
\* What the announcements in the selector may be: those of the blocks, or the
\* word its registers are reset to.
Infos ==
  {sharing!input_select!bbInfo(b) : b \in sharing!Blocks}
    \cup {sharing!input_select!NoInfo}

\* The selector's current operation, if an announcement is in its ring.
Current == Ordering[Memory[Head_][1]][reg_current_index + 1]

ring == INSTANCE elasticFifoInner_proofs
  WITH Data <- Infos, Zero <- sharing!input_select!NoInfo,
       NoToken <- <<>>, edge <- <<>>

\* An announcement names a block and the place of the last of its operations.
LEMMA InfoNames ==
  ASSUME NEW info \in Infos
  PROVE  /\ info[1] \in sharing!Blocks
         /\ info[2] \in 0 .. Len(Ordering[info[1]]) - 1
         /\ info # <<>>
<1>1. \A b \in sharing!Blocks : Len(Ordering[b]) \in Nat \ {0}
      BY BenchAssumption, EmptySeq, LenProperties DEF sharing!SharingAssumption
<1>2. CASE info = <<0, 0>>
      BY <1>1, <1>2, BenchAssumption DEF sharing!SharingAssumption
<1>3. CASE \E b \in sharing!Blocks : info = <<b, Len(Ordering[b]) - 1>>
      BY <1>1, <1>3
<1> QED BY <1>2, <1>3 DEF Infos, sharing!input_select!bbInfo,
           sharing!input_select!NoInfo

\* So each of its places holds one of the sharers.
LEMMA PlacesHoldSharers ==
  ASSUME NEW info \in Infos, NEW n \in Nat, n <= info[2]
  PROVE  Ordering[info[1]][n + 1] \in sharing!Sharers
<1>1. Ordering[info[1]] \in Seq(sharing!Sharers)
      BY InfoNames, BenchAssumption DEF sharing!SharingAssumption
<1>2. n + 1 \in 1 .. Len(Ordering[info[1]])
      BY <1>1, InfoNames, LenProperties
<1> QED BY <1>1, <1>2, ElementOfSeq

\* merge_one_hot takes one of the announcements that are there.
LEMMA OneIsChosen ==
  ASSUME NEW bbPValid \in SUBSET sharing!Blocks
  PROVE  sharing!input_select!chosen(bbPValid) \in Infos
<1>1. CASE bbPValid = {}
      BY <1>1 DEF sharing!input_select!chosen, Infos
<1>2. CASE bbPValid # {}
  <2>1. bbPValid \subseteq Nat
        BY BenchAssumption DEF sharing!SharingAssumption
  <2>2. PICK b \in bbPValid :
               \A c \in bbPValid : <<c, b>> \notin {e \in Nat \X Nat : e[1] < e[2]}
    <3>1. IsWellFoundedOn({e \in Nat \X Nat : e[1] < e[2]}, Nat)
          BY NatLessThanWellFounded DEF OpToRel
    <3> QED BY <1>2, <2>1, <3>1, WFMin
  <2>3. ASSUME NEW c \in bbPValid PROVE b <= c
    <3>1. b \in Nat /\ c \in Nat
          BY <2>1
    <3>2. c < b => <<c, b>> \in {e \in Nat \X Nat : e[1] < e[2]}
          BY <3>1
    <3> QED BY <2>2, <3>1, <3>2
  <2>4. \E d \in bbPValid : \A c \in bbPValid : d <= c
        BY <2>3
  <2>5. (CHOOSE d \in bbPValid : \A c \in bbPValid : d <= c) \in bbPValid
        BY <2>4
  <2> QED BY <1>2, <2>5 DEF sharing!input_select!chosen, Infos
<1> QED BY <1>1, <1>2

\* The selector: its registers have their types, its ring holds
\* announcements, and the place in the current one is inside it.  The fork of its
\* output still owes the current operation to somebody, and if it gave it to
\* somebody, its announcement is in the ring.
SelectorInv ==
  /\ Memory \in [0 .. FIFO_DEPTH - 1 -> Infos]
  /\ Head_ \in 0 .. FIFO_DEPTH - 1 /\ Tail_ \in 0 .. FIFO_DEPTH - 1
  /\ Full \in BOOLEAN /\ Empty \in BOOLEAN
  /\ Head_ = Tail_ <=> Full \/ Empty
  /\ ~(Full /\ Empty)
  /\ tehb_full \in BOOLEAN /\ tehb_data \in Infos
  /\ reg_current_index \in Nat
  /\ Empty => reg_current_index = 0
  /\ ~Empty => reg_current_index <= Memory[Head_][2]
ForkInv ==
  /\ sel_fork \in [0 .. 2 -> BOOLEAN]
  /\ \E i \in 0 .. 2 : sel_fork[i]
  /\ (\E i \in 0 .. 2 : ~sel_fork[i]) => ~Empty

\* What a cycle is to the selector: it offers an operation, which stays the
\* same until it is accepted.
LEMMA SelectorCycle ==
  ASSUME SelectorInv, NEW bbPValid \in SUBSET sharing!Blocks, NEW nReady \in BOOLEAN,
         sharing!input_select!Clock(bbPValid, nReady)
  PROVE  LET v == sharing!input_select!valid(bbPValid)
             c == sharing!input_select!dataOut(bbPValid)
         IN  /\ SelectorInv'
             /\ v \in BOOLEAN
             /\ v => c \in sharing!Sharers
             /\ ~Empty => v /\ c = Current
             /\ v /\ ~nReady => ~Empty' /\ Current' = c
<1> DEFINE v == sharing!input_select!valid(bbPValid)
           c == sharing!input_select!dataOut(bbPValid)
           info == IF Empty THEN IF tehb_full THEN tehb_data
                                              ELSE sharing!input_select!chosen(bbPValid)
                   ELSE Memory[Head_]
           last == reg_current_index = info[2]
           pop == v /\ nReady /\ last
           write == sharing!input_select!merged_valid(bbPValid) /\ (~pop \/ ~Empty)
           data == sharing!input_select!merged_data(bbPValid)
<1>1. /\ v \in BOOLEAN /\ info \in Infos /\ data \in Infos
      /\ pop \in BOOLEAN /\ write \in BOOLEAN
      BY OneIsChosen DEF SelectorInv, sharing!input_select!valid,
         sharing!input_select!merged_valid, sharing!input_select!merged_data,
         sharing!input_select!tehb1!valid, sharing!input_select!tehb1!dataOut,
         sharing!input_select!fifo_comp!valid,
         sharing!input_select!fifo_comp!fifo!valid
<1>2. /\ ~Empty => v
      /\ v /\ Empty => sharing!input_select!merged_valid(bbPValid) /\ data = info
      BY DEF SelectorInv, sharing!input_select!valid,
         sharing!input_select!merged_valid, sharing!input_select!merged_data,
         sharing!input_select!tehb1!valid, sharing!input_select!tehb1!dataOut,
         sharing!input_select!fifo_comp!valid,
         sharing!input_select!fifo_comp!fifo!valid
<1>3. sharing!input_select!info(bbPValid) = info
      BY DEF sharing!input_select!info, sharing!input_select!fifo_comp!dataOut,
         sharing!input_select!fifo_comp!mux_sel,
         sharing!input_select!fifo_comp!fifo!valid,
         sharing!input_select!fifo_comp!fifo!dataOut,
         sharing!input_select!merged_data, sharing!input_select!tehb1!dataOut,
         SelectorInv
<1>4. sharing!input_select!ordering_traversed(bbPValid, nReady) = pop
      BY <1>3 DEF sharing!input_select!ordering_traversed,
         sharing!input_select!last_index_reached
<1>5. /\ tehb_full' \in BOOLEAN /\ tehb_data' \in Infos
      /\ sharing!input_select!fifo_comp!fifo!Clock(write, data, pop)
      /\ reg_current_index' = IF pop THEN 0
                              ELSE IF v /\ nReady THEN reg_current_index + 1
                              ELSE reg_current_index
  <2>1. tehb_full' \in BOOLEAN /\ tehb_data' \in Infos
        BY OneIsChosen DEF SelectorInv, sharing!input_select!Clock,
           sharing!input_select!tehb1!Clock, sharing!input_select!tehb1!full_next,
           sharing!input_select!tehb1!data_next, sharing!input_select!tehb1!valid
  <2>2. sharing!input_select!fifo_comp!fifo!Clock(write, data, pop)
        BY <1>4 DEF sharing!input_select!Clock, sharing!input_select!fifo_comp!Clock,
           sharing!input_select!fifo_comp!fifo_pvalid,
           sharing!input_select!fifo_comp!fifo!valid
  <2>3. reg_current_index' = IF pop THEN 0
                             ELSE IF v /\ nReady THEN reg_current_index + 1
                             ELSE reg_current_index
        BY <1>3, <1>4 DEF sharing!input_select!Clock,
           sharing!input_select!index_next, sharing!input_select!last_index_reached
  <2> QED BY <2>1, <2>2, <2>3
<1>6. /\ Memory' = IF write /\ (~Full \/ pop) THEN [Memory EXCEPT ![Tail_] = data]
                                              ELSE Memory
      /\ Head_' = IF pop /\ ~Empty THEN ring!next(Head_) ELSE Head_
      /\ Empty' = ((Empty /\ ~(write /\ (~Full \/ pop) /\ ~(pop /\ ~Empty)))
                   \/ ((pop /\ ~Empty) /\ ~(write /\ (~Full \/ pop))
                        /\ ring!next(Head_) = Tail_))
      BY <1>5 DEF sharing!input_select!fifo_comp!fifo!Clock,
         sharing!input_select!fifo_comp!fifo!fifo_proc,
         sharing!input_select!fifo_comp!fifo!HeadUpdate_proc,
         sharing!input_select!fifo_comp!fifo!EmptyUpdate_proc,
         sharing!input_select!fifo_comp!fifo!WriteEn,
         sharing!input_select!fifo_comp!fifo!ReadEn,
         sharing!input_select!fifo_comp!fifo!next, ring!next
<1>7. ring!RegsOK'
  <2>1. ring!RegsOK
        BY DEF SelectorInv, ring!RegsOK, ring!Slot, ring!FlagsAgree
  <2>2. ring!Clock(write, data, pop)
        BY <1>5 DEF sharing!input_select!fifo_comp!fifo!Clock, ring!Clock,
           sharing!input_select!fifo_comp!fifo!fifo_proc, ring!fifo_proc,
           sharing!input_select!fifo_comp!fifo!HeadUpdate_proc, ring!HeadUpdate_proc,
           sharing!input_select!fifo_comp!fifo!TailUpdate_proc, ring!TailUpdate_proc,
           sharing!input_select!fifo_comp!fifo!FullUpdate_proc, ring!FullUpdate_proc,
           sharing!input_select!fifo_comp!fifo!EmptyUpdate_proc,
           ring!EmptyUpdate_proc, sharing!input_select!fifo_comp!fifo!WriteEn,
           sharing!input_select!fifo_comp!fifo!ReadEn,
           sharing!input_select!fifo_comp!fifo!next, ring!WriteEn, ring!ReadEn,
           ring!next
  <2>3. sharing!input_select!NoInfo \in Infos /\ <<>> \notin Infos
        BY InfoNames DEF Infos
  <2>4. FIFO_DEPTH \in Nat \ {0}
        BY BenchAssumption DEF sharing!SharingAssumption
  <2> QED BY <1>1, <2>1, <2>2, <2>3, <2>4, ring!ClockKeepsRegs
<1>8. reg_current_index \in Nat /\ info[2] \in Nat
      /\ reg_current_index <= info[2]
      /\ c = Ordering[info[1]][reg_current_index + 1]
      BY <1>1, <1>3, InfoNames DEF SelectorInv, sharing!input_select!dataOut
<1>9. v /\ ~pop => ~Empty' /\ Memory'[Head_'] = info
  <2> SUFFICES ASSUME v, ~pop
               PROVE  ~Empty' /\ Memory'[Head_'] = info
      OBVIOUS
  <2>1. CASE Empty
        BY <2>1, <1>2, <1>6 DEF SelectorInv
  <2>2. CASE ~Empty
        BY <2>2, <1>6 DEF SelectorInv
  <2> QED BY <2>1, <2>2
<1>10. /\ reg_current_index' \in Nat
       /\ Empty' => reg_current_index' = 0
       /\ ~Empty' => reg_current_index' <= Memory'[Head_'][2]
  <2>1. CASE pop
        BY <2>1, <1>5, <1>7, InfoNames DEF ring!RegsOK, ring!Slot
  <2>2. CASE ~pop /\ v
        BY <2>2, <1>5, <1>8, <1>9
  <2>3. CASE ~v
    <3>1. Empty /\ reg_current_index' = 0
          BY <2>3, <1>2, <1>5 DEF SelectorInv
    <3>2. ~Empty' => Memory'[Head_'] \in Infos
          BY <1>7 DEF ring!RegsOK, ring!Slot
    <3> QED BY <3>1, <3>2, InfoNames
  <2> QED BY <1>1, <2>1, <2>2, <2>3
<1>11. SelectorInv'
       BY <1>5, <1>7, <1>10 DEF SelectorInv, ring!RegsOK, ring!Slot, ring!FlagsAgree
<1>12. v => c \in sharing!Sharers
       BY <1>1, <1>8, PlacesHoldSharers
<1>13. ~Empty => v /\ c = Current
       BY <1>2, <1>8 DEF Current
<1>14. v /\ ~nReady => ~Empty' /\ Current' = c
       BY <1>5, <1>8, <1>9 DEF Current
<1> QED BY <1>1, <1>11, <1>12, <1>13, <1>14

\* What a cycle does to the operands, the unit, the results and the fork, given
\* the operation the selector offers, v of c, and whether its left and right
\* operand are offered, l and r.
UnitReady == cond_valid /\ ~dist_full[cond_data]
Fires(l, r) ==
  (l \/ left_full) /\ (r \/ right_full) /\ (unit_valid => UnitReady)
Delivers == unit_valid /\ UnitReady
TakesCond(v) == v /\ sel_fork[2] /\ (cond_valid => Delivers)
Gets(v, l, r) ==
  [i \in 0 .. 2 |-> CASE i = 0 -> l /\ ~left_full
                      [] i = 1 -> r /\ ~right_full
                      [] i = 2 -> TakesCond(v)]
Owes(v, l, r) == \E i \in 0 .. 2 : sel_fork[i] /\ ~Gets(v, l, r)[i]

\* <<Full, data, count>> of a mux after the cycle.
OperandMoves(l, full, data, count, c, fires) ==
  <<(l \/ full) /\ ~fires,
    IF l /\ ~full /\ ~fires THEN <<c, count[c] + 1>> ELSE data,
    [s \in sharing!Sharers |-> IF l /\ ~full /\ s = c THEN count[s] + 1
                                                      ELSE count[s]]>>
UnitMoves(v, c, l, r) ==
  /\ unit_valid' = (Fires(l, r) \/ (unit_valid /\ ~UnitReady))
  /\ unit_data' =
       IF Fires(l, r)
       THEN <<IF left_full THEN left_data ELSE <<c, lefts[c] + 1>>,
              IF right_full THEN right_data ELSE <<c, rights[c] + 1>>>>
       ELSE unit_data
  /\ cond_valid' = ((v /\ sel_fork[2]) \/ (cond_valid /\ ~Delivers))
  /\ cond_data' = IF TakesCond(v) THEN c ELSE cond_data
ResultMoves(accept) ==
  LET sends(s) == unit_valid /\ cond_valid /\ cond_data = s
  IN  /\ dist_full' = [s \in sharing!Sharers |->
                        (sends(s) \/ dist_full[s]) /\ s \notin accept]
      /\ dist_data' = [s \in sharing!Sharers |->
                        IF ~dist_full[s] /\ sends(s) /\ s \notin accept
                        THEN unit_data ELSE dist_data[s]]
      /\ shared_results' = [s \in sharing!Sharers |->
                      IF s \in accept /\ (sends(s) \/ dist_full[s])
                      THEN Append(shared_results[s],
                                  IF dist_full[s] THEN dist_data[s] ELSE unit_data)
                      ELSE shared_results[s]]
ForkMoves(v, l, r) ==
  sel_fork' = [i \in 0 .. 2 |->
                v /\ Owes(v, l, r) => sel_fork[i] /\ ~Gets(v, l, r)[i]]
Moves(v, c, l, r, accept) ==
  /\ <<left_full', left_data', lefts'>>
       = OperandMoves(l, left_full, left_data, lefts, c, Fires(l, r))
  /\ <<right_full', right_data', rights'>>
       = OperandMoves(r, right_full, right_data, rights, c, Fires(l, r))
  /\ UnitMoves(v, c, l, r) /\ ResultMoves(accept) /\ ForkMoves(v, l, r)

DataTypes ==
  /\ left_full \in BOOLEAN /\ right_full \in BOOLEAN
  /\ unit_valid \in BOOLEAN /\ cond_valid \in BOOLEAN
  /\ cond_data \in sharing!Sharers
  /\ dist_full \in [sharing!Sharers -> BOOLEAN]
  /\ lefts \in [sharing!Sharers -> Nat] /\ rights \in [sharing!Sharers -> Nat]
  /\ \A s \in sharing!Sharers : Len(shared_results[s]) \in Nat

\* A cycle, its wires followed to their effect: the operation c is offered, v, and
\* an operation some output of the fork is still owed stays on offer.
LEMMA SharedCycle ==
  ASSUME SelectorInv, ForkInv, DataTypes,
         NEW bbPValid \in SUBSET sharing!Blocks, NEW left \in SUBSET sharing!Sharers,
         NEW right \in SUBSET sharing!Sharers, NEW accept \in SUBSET sharing!Sharers,
         sharing!Cycle(bbPValid, left, right, accept)
  PROVE  \E v, l, r, c :
           /\ v \in BOOLEAN /\ l \in BOOLEAN /\ r \in BOOLEAN
           /\ v => c \in sharing!Sharers
           /\ l => v /\ sel_fork[0]
           /\ r => v /\ sel_fork[1]
           /\ ~Empty => v /\ c = Current
           /\ Moves(v, c, l, r, accept)
           /\ v /\ Owes(v, l, r) => ~Empty' /\ Current' = c
           /\ SelectorInv'
<1> DEFINE c == sharing!input_select!dataOut(bbPValid)
           v == sharing!input_select!valid(bbPValid)
           pLeft  == [i \in 0 .. SHARERS |->
                       IF i = 0 THEN sharing!select_fork!valid(0, v) ELSE i - 1 \in left]
           pRight == [i \in 0 .. SHARERS |->
                       IF i = 0 THEN sharing!select_fork!valid(1, v) ELSE i - 1 \in right]
           inLeft  == [s \in sharing!Sharers |-> IF s \in left THEN <<s, lefts[s] + 1>>
                                                       ELSE sharing!NoWord]
           inRight == [s \in sharing!Sharers |-> IF s \in right THEN <<s, rights[s] + 1>>
                                                        ELSE sharing!NoWord]
           leftValid  == sharing!left_mux!valid(c, pLeft)
           rightValid == sharing!right_mux!valid(c, pRight)
           unitReady == sharing!dist!ready(cond_data, cond_valid)
           condReady == sharing!dist!ready(cond_data, unit_valid)
           joinReady == sharing!unit!ready(unitReady)
           forkReady == [i \in 0 .. 2 |->
                          CASE i = 0 -> sharing!left_mux!readyCondition(c, pLeft)
                            [] i = 1 -> sharing!right_mux!readyCondition(c, pRight)
                            [] i = 2 -> sharing!cond_buffer!ready(condReady)]
           accepts == [s \in sharing!Sharers |-> s \in accept]
           l == v /\ sel_fork[0] /\ c \in left
           r == v /\ sel_fork[1] /\ c \in right
<1>1. /\ sharing!input_select!Clock(bbPValid, sharing!select_fork!ready(forkReady))
      /\ sharing!select_fork!Clock(v, forkReady)
      /\ sharing!left_mux!Clock(c, pLeft, inLeft, joinReady /\ rightValid)
      /\ sharing!right_mux!Clock(c, pRight, inRight, joinReady /\ leftValid)
      /\ sharing!unit!Clock(leftValid /\ rightValid,
                     <<sharing!left_mux!dataOut(c, pLeft, inLeft),
                       sharing!right_mux!dataOut(c, pRight, inRight)>>, unitReady)
      /\ sharing!cond_buffer!Clock(sharing!select_fork!valid(2, v), c, condReady)
      /\ sharing!dist!Clock(cond_data, unit_data, unit_valid, cond_valid, accepts)
      BY DEF sharing!Cycle
<1>2. /\ lefts' = [s \in sharing!Sharers |->
           IF s \in left /\ sharing!left_mux!readyData(s, c, pLeft)
           THEN lefts[s] + 1 ELSE lefts[s]]
      /\ rights' = [s \in sharing!Sharers |->
           IF s \in right /\ sharing!right_mux!readyData(s, c, pRight)
           THEN rights[s] + 1 ELSE rights[s]]
      /\ shared_results' = [s \in sharing!Sharers |->
           IF s \in accept /\ sharing!dist!valid(s, cond_data, unit_valid, cond_valid)
           THEN Append(shared_results[s], sharing!dist!dataOut(s, unit_data))
           ELSE shared_results[s]]
      BY DEF sharing!Cycle
<1>3. sharing!select_fork!ready(forkReady) \in BOOLEAN
      BY DEF sharing!select_fork!ready, sharing!select_fork!forkStop
<1>4. /\ SelectorInv'
      /\ v \in BOOLEAN
      /\ v => c \in sharing!Sharers
      /\ ~Empty => v /\ c = Current
      /\ v /\ ~sharing!select_fork!ready(forkReady) => ~Empty' /\ Current' = c
      BY <1>1, <1>3, SelectorCycle
<1>5. SHARERS \in Nat /\ sharing!Sharers = 0 .. SHARERS - 1
      BY BenchAssumption DEF sharing!SharingAssumption, sharing!Sharers
<1>6. /\ sharing!left_mux!tmp_valid_out(c, pLeft) = l
      /\ sharing!right_mux!tmp_valid_out(c, pRight) = r
      /\ l \in BOOLEAN /\ r \in BOOLEAN
  <2>1. pLeft[0] = (v /\ sel_fork[0]) /\ pRight[0] = (v /\ sel_fork[1])
        BY <1>4, <1>5 DEF sharing!select_fork!valid, ForkInv
  <2>2. \A s \in sharing!Sharers :
          pLeft[s + 1] = (s \in left) /\ pRight[s + 1] = (s \in right)
        BY <1>5
  <2>3. SHARERS + 1 - 2 = SHARERS - 1
        BY <1>5
  <2> HIDE DEF pLeft, pRight
  <2>4. /\ sharing!left_mux!tmp_valid_out(c, pLeft)
             = \E s \in sharing!Sharers : c = s /\ pLeft[0] /\ pLeft[s + 1]
        /\ sharing!right_mux!tmp_valid_out(c, pRight)
             = \E s \in sharing!Sharers : c = s /\ pRight[0] /\ pRight[s + 1]
        BY <1>5, <2>3 DEF sharing!left_mux!tmp_valid_out,
           sharing!right_mux!tmp_valid_out, sharing!left_mux!Chosen,
           sharing!right_mux!Chosen, sharing!left_mux!Predecessors,
           sharing!right_mux!Predecessors
  <2> QED BY <1>4, <2>1, <2>2, <2>4 DEF ForkInv
<1>7. /\ leftValid = (l \/ left_full) /\ rightValid = (r \/ right_full)
      /\ unitReady = UnitReady
      /\ condReady = (unit_valid /\ ~dist_full[cond_data])
      /\ joinReady = (unit_valid => UnitReady)
      /\ (leftValid /\ rightValid /\ joinReady) = Fires(l, r)
      BY <1>6 DEF sharing!left_mux!valid, sharing!right_mux!valid,
         sharing!left_mux!tehb1!valid, sharing!right_mux!tehb1!valid,
         sharing!dist!ready, sharing!dist!branchReady, sharing!dist!buff!ready,
         sharing!unit!ready, UnitReady, Fires, DataTypes
<1>8. l => inLeft[c] = <<c, lefts[c] + 1>>
      BY <1>4
<1>9. r => inRight[c] = <<c, rights[c] + 1>>
      BY <1>4
<1>10. <<left_full', left_data', lefts'>>
         = OperandMoves(l, left_full, left_data, lefts, c, Fires(l, r))
  <2>1. left_full' = ((l \/ left_full) /\ ~Fires(l, r))
        BY <1>1, <1>6, <1>7 DEF sharing!left_mux!Clock, sharing!left_mux!full_next,
           sharing!left_mux!tehb1!full_next, sharing!left_mux!tehb1!valid, DataTypes
  <2>2. left_data' = IF l /\ ~left_full /\ ~Fires(l, r) THEN <<c, lefts[c] + 1>>
                                                       ELSE left_data
        BY <1>1, <1>6, <1>7, <1>8 DEF sharing!left_mux!Clock,
           sharing!left_mux!data_next, sharing!left_mux!tehb1!data_next,
           sharing!left_mux!tehb1!reg_en, sharing!left_mux!tehb1!ready,
           sharing!left_mux!tmp_data_out, DataTypes
  <2>3. ASSUME NEW s \in sharing!Sharers
        PROVE  (s \in left /\ sharing!left_mux!readyData(s, c, pLeft))
                 = (l /\ ~left_full /\ s = c)
    <3>1. pLeft[s + 1] = (s \in left) /\ pLeft[0] = (v /\ sel_fork[0])
          BY <1>4, <1>5 DEF sharing!select_fork!valid, ForkInv
    <3> QED BY <1>4, <3>1 DEF sharing!left_mux!readyData, sharing!left_mux!Chosen,
            sharing!left_mux!tehb1!ready, DataTypes, ForkInv
  <2>4. lefts' = [s \in sharing!Sharers |-> IF l /\ ~left_full /\ s = c THEN lefts[s] + 1
                                                               ELSE lefts[s]]
        BY <1>2, <2>3
  <2> QED BY <2>1, <2>2, <2>4 DEF OperandMoves
<1>11. <<right_full', right_data', rights'>>
         = OperandMoves(r, right_full, right_data, rights, c, Fires(l, r))
  <2>1. right_full' = ((r \/ right_full) /\ ~Fires(l, r))
        BY <1>1, <1>6, <1>7 DEF sharing!right_mux!Clock, sharing!right_mux!full_next,
           sharing!right_mux!tehb1!full_next, sharing!right_mux!tehb1!valid,
           DataTypes
  <2>2. right_data' = IF r /\ ~right_full /\ ~Fires(l, r) THEN <<c, rights[c] + 1>>
                                                         ELSE right_data
        BY <1>1, <1>6, <1>7, <1>9 DEF sharing!right_mux!Clock,
           sharing!right_mux!data_next, sharing!right_mux!tehb1!data_next,
           sharing!right_mux!tehb1!reg_en, sharing!right_mux!tehb1!ready,
           sharing!right_mux!tmp_data_out, DataTypes
  <2>3. ASSUME NEW s \in sharing!Sharers
        PROVE  (s \in right /\ sharing!right_mux!readyData(s, c, pRight))
                 = (r /\ ~right_full /\ s = c)
    <3>1. pRight[s + 1] = (s \in right) /\ pRight[0] = (v /\ sel_fork[1])
          BY <1>4, <1>5 DEF sharing!select_fork!valid, ForkInv
    <3> QED BY <1>4, <3>1 DEF sharing!right_mux!readyData, sharing!right_mux!Chosen,
            sharing!right_mux!tehb1!ready, DataTypes, ForkInv
  <2>4. rights' = [s \in sharing!Sharers |-> IF r /\ ~right_full /\ s = c THEN rights[s] + 1
                                                                 ELSE rights[s]]
        BY <1>2, <2>3
  <2> QED BY <2>1, <2>2, <2>4 DEF OperandMoves
<1>12. sharing!left_mux!dataOut(c, pLeft, inLeft)
          = IF left_full THEN left_data
            ELSE IF l THEN inLeft[c] ELSE inLeft[0]
  <2> HIDE DEF l, pLeft, inLeft, c
  <2> QED BY <1>6 DEF sharing!left_mux!dataOut, sharing!left_mux!tehb1!dataOut,
             sharing!left_mux!tmp_data_out
<1>13. sharing!right_mux!dataOut(c, pRight, inRight)
          = IF right_full THEN right_data
            ELSE IF r THEN inRight[c] ELSE inRight[0]
  <2> HIDE DEF r, pRight, inRight, c
  <2> QED BY <1>6 DEF sharing!right_mux!dataOut, sharing!right_mux!tehb1!dataOut,
             sharing!right_mux!tmp_data_out
<1>14. UnitMoves(v, c, l, r)
  <2>1. unit_valid' = (Fires(l, r) \/ (unit_valid /\ ~UnitReady))
        BY <1>1, <1>7 DEF sharing!unit!Clock, sharing!unit!valid_next, UnitReady,
           DataTypes
  <2>2. unit_data' =
          IF Fires(l, r)
          THEN <<IF left_full THEN left_data ELSE <<c, lefts[c] + 1>>,
                 IF right_full THEN right_data ELSE <<c, rights[c] + 1>>>>
          ELSE unit_data
        BY <1>1, <1>7, <1>8, <1>9, <1>12, <1>13 DEF sharing!unit!Clock,
           sharing!unit!data_next, sharing!unit!reg_en, Fires
  <2>3. cond_valid' = ((v /\ sel_fork[2]) \/ (cond_valid /\ ~Delivers))
        BY <1>1, <1>4, <1>7 DEF sharing!cond_buffer!Clock,
           sharing!cond_buffer!valid_next, sharing!cond_buffer!ready,
           sharing!select_fork!valid, Delivers, UnitReady, DataTypes, ForkInv
  <2>4. cond_data' = IF TakesCond(v) THEN c ELSE cond_data
        BY <1>1, <1>4, <1>7 DEF sharing!cond_buffer!Clock,
           sharing!cond_buffer!data_next, sharing!cond_buffer!reg_en,
           sharing!cond_buffer!ready, sharing!select_fork!valid, TakesCond, Delivers,
           UnitReady, DataTypes, ForkInv
  <2> QED BY <2>1, <2>2, <2>3, <2>4 DEF UnitMoves
<1>15. ResultMoves(accept)
  <2> DEFINE sends(s) == unit_valid /\ cond_valid /\ cond_data = s
  <2>1. \A s : /\ sharing!dist!branchValid(s, cond_data, unit_valid, cond_valid)
                    = sends(s)
               /\ sharing!dist!dataOut(s, unit_data)
                    = IF dist_full[s] THEN dist_data[s] ELSE unit_data
        BY DEF sharing!dist!branchValid, sharing!dist!dataOut,
           sharing!dist!buff!dataOut
  <2>2. \A s \in sharing!Sharers : sharing!dist!valid(s, cond_data, unit_valid, cond_valid)
                             = (sends(s) \/ dist_full[s])
        BY <2>1 DEF sharing!dist!valid, sharing!dist!buff!valid
  <2>3. dist_full' = [s \in sharing!Sharers |->
                       (sends(s) \/ dist_full[s]) /\ s \notin accept]
        BY <1>1, <2>1 DEF sharing!dist!Clock, sharing!dist!Outputs,
           sharing!dist!buff!full_next, sharing!dist!buff!valid, sharing!Sharers
  <2>4. dist_data' = [s \in sharing!Sharers |->
                       IF ~dist_full[s] /\ sends(s) /\ s \notin accept
                       THEN unit_data ELSE dist_data[s]]
        BY <1>1, <2>1 DEF sharing!dist!Clock, sharing!dist!Outputs,
           sharing!dist!buff!data_next, sharing!dist!buff!reg_en,
           sharing!dist!buff!ready, sharing!Sharers
  <2> QED BY <1>2, <2>1, <2>2, <2>3, <2>4 DEF ResultMoves
<1>16. ASSUME v
       PROVE  \A i \in 0 .. 2 : (~forkReady[i] /\ sel_fork[i])
                                 = (sel_fork[i] /\ ~Gets(v, l, r)[i])
  <2>1. sel_fork[0] => forkReady[0] = Gets(v, l, r)[0]
        BY <1>5, <1>6, <1>16 DEF sharing!left_mux!readyCondition,
           sharing!left_mux!tehb1!ready, Gets, sharing!select_fork!valid, ForkInv,
           DataTypes
  <2>2. sel_fork[1] => forkReady[1] = Gets(v, l, r)[1]
        BY <1>5, <1>6, <1>16 DEF sharing!right_mux!readyCondition,
           sharing!right_mux!tehb1!ready, Gets, sharing!select_fork!valid, ForkInv,
           DataTypes
  <2>3. sel_fork[2] => forkReady[2] = Gets(v, l, r)[2]
    <3>1. forkReady[2] = (cond_valid => unit_valid /\ ~dist_full[cond_data])
      <4>1. forkReady[2] = sharing!cond_buffer!ready(condReady)
            OBVIOUS
      <4> HIDE DEF forkReady, condReady
      <4> QED BY <1>7, <4>1 DEF sharing!cond_buffer!ready, DataTypes
    <3>2. Gets(v, l, r)[2] = TakesCond(v)
          BY DEF Gets
    <3> HIDE DEF forkReady, v
    <3> QED BY <1>16, <3>1, <3>2 DEF TakesCond, Delivers, UnitReady, ForkInv,
               DataTypes
  <2>4. \A i \in 0 .. 2 : i = 0 \/ i = 1 \/ i = 2
        OBVIOUS
  <2> HIDE DEF forkReady, v
  <2> QED BY <2>1, <2>2, <2>3, <2>4 DEF ForkInv
<1>17. v => sharing!select_fork!forkStop(forkReady) = Owes(v, l, r)
  <2>1. sharing!select_fork!Outputs = 0 .. 2
        BY DEF sharing!select_fork!Outputs
  <2> HIDE DEF forkReady, v, l, r
  <2> QED BY <1>16, <2>1 DEF sharing!select_fork!forkStop,
             sharing!select_fork!block_stop, Owes
<1>18. ForkMoves(v, l, r)
  <2> HIDE DEF forkReady, v, l, r
  <2> QED BY <1>1, <1>4, <1>16, <1>17 DEF sharing!select_fork!Clock,
             sharing!select_fork!reg_in, sharing!select_fork!block_stop,
             sharing!select_fork!Outputs, ForkMoves
<1>19. Moves(v, c, l, r, accept)
       BY <1>10, <1>11, <1>14, <1>15, <1>18 DEF Moves
<1>20. v /\ Owes(v, l, r) => ~Empty' /\ Current' = c
       BY <1>4, <1>17 DEF sharing!select_fork!ready
<1> HIDE DEF v, c
<1> QED BY <1>4, <1>6, <1>19, <1>20

------------------------------------------------------------------------------
\* Where the operations that were begun are: conditions, operands and results
\* in flight belong together.
bit(P) == IF P THEN 1 ELSE 0
\* The k-th result of s: of its own k-th operands.
Own(s, k) == <<<<s, k>>, <<s, k>>>>
OwnWords == {Own(s, k) : s \in sharing!Sharers, k \in Nat}

\* Results the distributor took for s.
Done(s) == Len(shared_results[s]) + bit(dist_full[s])

\* The operation whose result the unit holds, and the one whose operand waits
\* in the mux that output i of the fork serves.
UnitOp == IF cond_valid THEN cond_data ELSE Current
MuxOp(i) == IF sel_fork[i] THEN cond_data ELSE Current

ResultsInv ==
  /\ shared_results \in [sharing!Sharers -> Seq(OwnWords)]
  /\ dist_full \in [sharing!Sharers -> BOOLEAN]
  /\ \A s \in sharing!Sharers :
       dist_full[s] => dist_data[s] = Own(s, Len(shared_results[s]) + 1)
  /\ \A s \in sharing!Sharers :
       \A k \in DOMAIN shared_results[s] : shared_results[s][k] = Own(s, k)
UnitInv ==
  /\ unit_valid \in BOOLEAN /\ cond_valid \in BOOLEAN /\ cond_data \in sharing!Sharers
  /\ sel_fork[2] \/ (cond_valid /\ cond_data = Current)
  /\ unit_valid => unit_data = Own(UnitOp, Done(UnitOp) + 1)
\* Output i of the fork serves a mux that took count[s] operands of s.
OperandInv(i, full, data, count) ==
  /\ full \in BOOLEAN /\ count \in [sharing!Sharers -> Nat]
  /\ bit(~sel_fork[i]) + bit(cond_valid)
       = bit(~sel_fork[2]) + bit(unit_valid) + bit(full)
  /\ full => data = <<MuxOp(i), count[MuxOp(i)]>>
  /\ \A s \in sharing!Sharers :
       count[s] = Done(s) + bit(unit_valid /\ UnitOp = s) + bit(full /\ MuxOp(i) = s)
DataInv ==
  /\ ResultsInv /\ UnitInv
  /\ OperandInv(0, left_full, left_data, lefts)
  /\ OperandInv(1, right_full, right_data, rights)

\* The invariant types the registers the wires depend on.
LEMMA DataHasTypes == DataInv => DataTypes
BY DEF DataInv, ResultsInv, UnitInv, OperandInv, DataTypes

\* A cycle as the lemmas below see it.
Step(v, c, l, r, accept) ==
  /\ v => c \in sharing!Sharers
  /\ l => v /\ sel_fork[0]
  /\ r => v /\ sel_fork[1]
  /\ ~Empty => v /\ c = Current
  /\ Moves(v, c, l, r, accept)
  /\ v /\ Owes(v, l, r) => ~Empty' /\ Current' = c

\* The fork after it: the outputs still owed the operation, or all of them.
LEMMA ForkAfter ==
  ASSUME ForkInv, DataInv, NEW v \in BOOLEAN, NEW l \in BOOLEAN, NEW r \in BOOLEAN,
         NEW c, NEW accept, Step(v, c, l, r, accept)
  PROVE  /\ ForkInv'
         /\ sel_fork[0] \in BOOLEAN /\ sel_fork[1] \in BOOLEAN
         /\ sel_fork[2] \in BOOLEAN
         /\ ~sel_fork[0] \/ ~sel_fork[1] \/ ~sel_fork[2] => v /\ c = Current
         /\ v /\ ~Owes(v, l, r) =>
              /\ sel_fork[0] => l /\ ~left_full
              /\ sel_fork[1] => r /\ ~right_full
              /\ sel_fork[2] => TakesCond(v)
         /\ sel_fork'[0] = (v /\ Owes(v, l, r) => sel_fork[0] /\ ~(l /\ ~left_full))
         /\ sel_fork'[1] = (v /\ Owes(v, l, r) => sel_fork[1] /\ ~(r /\ ~right_full))
         /\ sel_fork'[2] = (v /\ Owes(v, l, r) => sel_fork[2] /\ ~TakesCond(v))
<1> DEFINE g == Gets(v, l, r)
           stays == v /\ Owes(v, l, r)
<1>1. /\ g[0] = (l /\ ~left_full) /\ g[1] = (r /\ ~right_full) /\ g[2] = TakesCond(v)
      BY DEF Gets
<1>2. /\ sel_fork[0] \in BOOLEAN /\ sel_fork[1] \in BOOLEAN /\ sel_fork[2] \in BOOLEAN
      /\ ~sel_fork[0] \/ ~sel_fork[1] \/ ~sel_fork[2] => v /\ c = Current
      BY DEF ForkInv, Step
<1>3. Owes(v, l, r) = \/ sel_fork[0] /\ ~(l /\ ~left_full)
                      \/ sel_fork[1] /\ ~(r /\ ~right_full)
                      \/ sel_fork[2] /\ ~TakesCond(v)
  <2>1. \A i \in 0 .. 2 : i = 0 \/ i = 1 \/ i = 2
        OBVIOUS
  <2>2. Owes(v, l, r) = \/ sel_fork[0] /\ ~g[0]
                        \/ sel_fork[1] /\ ~g[1]
                        \/ sel_fork[2] /\ ~g[2]
    <3> HIDE DEF g
    <3> QED BY <2>1 DEF Owes, g
  <2> HIDE DEF g
  <2> QED BY <1>1, <2>2
<1>4. /\ sel_fork' \in [0 .. 2 -> BOOLEAN]
      /\ sel_fork'[0] = (stays => sel_fork[0] /\ ~(l /\ ~left_full))
      /\ sel_fork'[1] = (stays => sel_fork[1] /\ ~(r /\ ~right_full))
      /\ sel_fork'[2] = (stays => sel_fork[2] /\ ~TakesCond(v))
  <2>1. sel_fork' = [i \in 0 .. 2 |-> stays => sel_fork[i] /\ ~g[i]]
        BY DEF Step, Moves, ForkMoves
  <2> HIDE DEF g, stays
  <2>2. /\ sel_fork' \in [0 .. 2 -> BOOLEAN]
        /\ sel_fork'[0] = (stays => sel_fork[0] /\ ~g[0])
        /\ sel_fork'[1] = (stays => sel_fork[1] /\ ~g[1])
        /\ sel_fork'[2] = (stays => sel_fork[2] /\ ~g[2])
        BY <2>1
  <2> QED BY <1>1, <2>2
<1>5. ForkInv'
  <2>1. \E i \in 0 .. 2 : sel_fork'[i]
    <3>1. sel_fork'[0] \/ sel_fork'[1] \/ sel_fork'[2]
          BY <1>3, <1>4
    <3> QED BY <3>1
  <2>2. (\E i \in 0 .. 2 : ~sel_fork'[i]) => ~Empty'
    <3>1. ASSUME ~stays, NEW i \in 0 .. 2
          PROVE  sel_fork'[i]
          BY <3>1, <1>4
    <3> QED BY <3>1 DEF Step
  <2> QED BY <1>4, <2>1, <2>2 DEF ForkInv
<1> QED BY <1>2, <1>3, <1>4, <1>5

\* The distributor counts what it takes from the unit.
LEMMA DoneAfter ==
  ASSUME ForkInv, DataInv, NEW v \in BOOLEAN, NEW l \in BOOLEAN, NEW r \in BOOLEAN,
         NEW c, NEW accept, Step(v, c, l, r, accept)
  PROVE  /\ ResultsInv'
         /\ \A s \in sharing!Sharers : Done(s) \in Nat
         /\ \A s \in sharing!Sharers :
              Done(s)' = Done(s) + bit(Delivers /\ cond_data = s)
         /\ dist_full[cond_data] \in BOOLEAN
<1> DEFINE sends(s) == unit_valid /\ cond_valid /\ cond_data = s
           word(s) == IF dist_full[s] THEN dist_data[s] ELSE unit_data
           gives(s) == s \in accept /\ (sends(s) \/ dist_full[s])
<1>1. /\ dist_full' = [s \in sharing!Sharers |->
                        (sends(s) \/ dist_full[s]) /\ s \notin accept]
      /\ dist_data' = [s \in sharing!Sharers |->
                        IF ~dist_full[s] /\ sends(s) /\ s \notin accept
                        THEN unit_data ELSE dist_data[s]]
      /\ shared_results' = [s \in sharing!Sharers |->
                             IF gives(s) THEN Append(shared_results[s], word(s))
                                                    ELSE shared_results[s]]
      BY DEF Step, Moves, ResultMoves
<1>2. \A s \in sharing!Sharers : Len(shared_results[s]) \in Nat /\ Done(s) \in Nat
                         /\ dist_full[s] \in BOOLEAN
      BY LenProperties DEF DataInv, ResultsInv, Done, bit
<1>3. ASSUME NEW s \in sharing!Sharers, sends(s), ~dist_full[s]
      PROVE  unit_data = Own(s, Len(shared_results[s]) + 1)
  <2>1. UnitOp = s /\ Done(s) = Len(shared_results[s])
        BY <1>2, <1>3 DEF UnitOp, Done, bit
  <2> QED BY <1>3, <2>1 DEF DataInv, UnitInv
<1>4. ASSUME NEW s \in sharing!Sharers, gives(s)
      PROVE  word(s) = Own(s, Len(shared_results[s]) + 1)
      BY <1>3, <1>4 DEF DataInv, ResultsInv
<1>5. ASSUME NEW s \in sharing!Sharers
      PROVE  /\ shared_results'[s] \in Seq(OwnWords)
             /\ Len(shared_results'[s]) = Len(shared_results[s]) + bit(gives(s))
             /\ \A k \in DOMAIN shared_results'[s] : shared_results'[s][k] = Own(s, k)
             /\ dist_full'[s] => dist_data'[s] = Own(s, Len(shared_results'[s]) + 1)
  <2>1. shared_results[s] \in Seq(OwnWords)
        BY DEF DataInv, ResultsInv
  <2>2. \A k \in DOMAIN shared_results[s] : shared_results[s][k] = Own(s, k)
        BY DEF DataInv, ResultsInv
  <2>3. CASE gives(s)
    <3>1. shared_results'[s]
            = Append(shared_results[s], Own(s, Len(shared_results[s]) + 1))
          BY <1>1, <1>4, <2>3
    <3>2. Own(s, Len(shared_results[s]) + 1) \in OwnWords
          BY <1>2 DEF OwnWords
    <3>3. ~dist_full'[s]
          BY <1>1, <2>3
    <3> HIDE DEF gives
    <3>4. /\ shared_results'[s] \in Seq(OwnWords)
          /\ Len(shared_results'[s]) = Len(shared_results[s]) + 1
          /\ \A k \in DOMAIN shared_results'[s] : shared_results'[s][k] = Own(s, k)
          BY <2>1, <2>2, <3>1, <3>2, AppendProperties, LenProperties
    <3> QED BY <2>3, <3>3, <3>4 DEF bit
  <2>4. CASE ~gives(s)
    <3>1. shared_results'[s] = shared_results[s]
          BY <1>1, <2>4
    <3>2. dist_full'[s] => dist_data'[s] = Own(s, Len(shared_results[s]) + 1)
          BY <1>1, <1>3, <2>4 DEF DataInv, ResultsInv
    <3> HIDE DEF gives
    <3> QED BY <1>2, <2>1, <2>2, <2>4, <3>1, <3>2 DEF bit
  <2> QED BY <2>3, <2>4
<1>6. ASSUME NEW s \in sharing!Sharers
      PROVE  Done(s)' = Done(s) + bit(Delivers /\ cond_data = s)
  <2>1. Done(s)' = Len(shared_results[s]) + bit(gives(s)) + bit(dist_full'[s])
        BY <1>5 DEF Done, bit
  <2>2. dist_full'[s] = ((sends(s) \/ dist_full[s]) /\ s \notin accept)
        BY <1>1
  <2>3. (Delivers /\ cond_data = s) = (sends(s) /\ ~dist_full[s])
        BY DEF Delivers, UnitReady
  <2>4. CASE dist_full[s] /\ s \in accept
    <3>1. gives(s) /\ ~dist_full'[s] /\ ~(Delivers /\ cond_data = s)
          BY <2>2, <2>3, <2>4
    <3> HIDE DEF gives
    <3>2. /\ bit(gives(s)) = 1 /\ bit(dist_full'[s]) = 0
          /\ bit(Delivers /\ cond_data = s) = 0 /\ bit(dist_full[s]) = 1
          BY <2>4, <3>1 DEF bit
    <3> QED BY <1>2, <2>1, <3>2 DEF Done
  <2>5. CASE dist_full[s] /\ s \notin accept
    <3>1. ~gives(s) /\ dist_full'[s] /\ ~(Delivers /\ cond_data = s)
          BY <2>2, <2>3, <2>5
    <3> HIDE DEF gives
    <3>2. /\ bit(gives(s)) = 0 /\ bit(dist_full'[s]) = 1
          /\ bit(Delivers /\ cond_data = s) = 0 /\ bit(dist_full[s]) = 1
          BY <2>5, <3>1 DEF bit
    <3> QED BY <1>2, <2>1, <3>2 DEF Done
  <2>6. CASE ~dist_full[s] /\ sends(s) /\ s \in accept
    <3>1. gives(s) /\ ~dist_full'[s] /\ (Delivers /\ cond_data = s)
          BY <2>2, <2>3, <2>6
    <3> HIDE DEF gives
    <3>2. /\ bit(gives(s)) = 1 /\ bit(dist_full'[s]) = 0
          /\ bit(Delivers /\ cond_data = s) = 1 /\ bit(dist_full[s]) = 0
          BY <2>6, <3>1 DEF bit
    <3> QED BY <1>2, <2>1, <3>2 DEF Done
  <2>7. CASE ~dist_full[s] /\ sends(s) /\ s \notin accept
    <3>1. ~gives(s) /\ dist_full'[s] /\ (Delivers /\ cond_data = s)
          BY <2>2, <2>3, <2>7
    <3> HIDE DEF gives
    <3>2. /\ bit(gives(s)) = 0 /\ bit(dist_full'[s]) = 1
          /\ bit(Delivers /\ cond_data = s) = 1 /\ bit(dist_full[s]) = 0
          BY <2>7, <3>1 DEF bit
    <3> QED BY <1>2, <2>1, <3>2 DEF Done
  <2>8. CASE ~dist_full[s] /\ ~sends(s)
    <3>1. ~gives(s) /\ ~dist_full'[s] /\ ~(Delivers /\ cond_data = s)
          BY <2>2, <2>3, <2>8
    <3> HIDE DEF gives
    <3>2. /\ bit(gives(s)) = 0 /\ bit(dist_full'[s]) = 0
          /\ bit(Delivers /\ cond_data = s) = 0 /\ bit(dist_full[s]) = 0
          BY <2>8, <3>1 DEF bit
    <3> QED BY <1>2, <2>1, <3>2 DEF Done
  <2> QED BY <2>4, <2>5, <2>6, <2>7, <2>8
<1>7. ResultsInv'
  <2>1. shared_results' \in [sharing!Sharers -> Seq(OwnWords)]
        BY <1>1, <1>5
  <2>2. dist_full' \in [sharing!Sharers -> BOOLEAN]
        BY <1>1, <1>2
  <2> QED BY <1>5, <2>1, <2>2 DEF ResultsInv
<1> QED BY <1>2, <1>6, <1>7 DEF DataInv, UnitInv

\* Where the operations in flight are, said by cases: output i of the fork
\* served its mux, output 2 the buffer of conditions.
LEMMA Places ==
  ASSUME ForkInv, DataInv
  PROVE  /\ unit_valid \in BOOLEAN /\ cond_valid \in BOOLEAN
         /\ left_full \in BOOLEAN /\ right_full \in BOOLEAN
         /\ sel_fork[0] \in BOOLEAN /\ sel_fork[1] \in BOOLEAN
         /\ sel_fork[2] \in BOOLEAN
         /\ ~sel_fork[2] => cond_valid /\ ~unit_valid /\ cond_data = Current
         /\ cond_valid /\ ~unit_valid /\ sel_fork[2] =>
              left_full /\ right_full /\ sel_fork[0] /\ sel_fork[1]
         /\ unit_valid /\ ~cond_valid =>
              ~left_full /\ ~right_full /\ ~sel_fork[0] /\ ~sel_fork[1]
         /\ ~sel_fork[2] \/ cond_valid = unit_valid =>
              left_full = ~sel_fork[0] /\ right_full = ~sel_fork[1]
<1>1. /\ unit_valid \in BOOLEAN /\ cond_valid \in BOOLEAN
      /\ left_full \in BOOLEAN /\ right_full \in BOOLEAN
      /\ sel_fork[0] \in BOOLEAN /\ sel_fork[1] \in BOOLEAN /\ sel_fork[2] \in BOOLEAN
      /\ sel_fork[0] \/ sel_fork[1] \/ sel_fork[2]
      /\ sel_fork[2] \/ (cond_valid /\ cond_data = Current)
      BY DEF ForkInv, DataInv, UnitInv, OperandInv
<1>2. /\ (IF sel_fork[0] THEN 0 ELSE 1) + (IF cond_valid THEN 1 ELSE 0)
           = (IF sel_fork[2] THEN 0 ELSE 1) + (IF unit_valid THEN 1 ELSE 0)
              + (IF left_full THEN 1 ELSE 0)
      /\ (IF sel_fork[1] THEN 0 ELSE 1) + (IF cond_valid THEN 1 ELSE 0)
           = (IF sel_fork[2] THEN 0 ELSE 1) + (IF unit_valid THEN 1 ELSE 0)
              + (IF right_full THEN 1 ELSE 0)
      BY DEF DataInv, OperandInv, bit
<1> QED BY <1>1, <1>2

\* The operation whose operands go into the unit next.
NextOp(c) == IF cond_valid /\ ~unit_valid THEN cond_data ELSE c

\* How a cycle moves operations from one place to the next.
LEMMA OpsMove ==
  ASSUME ForkInv, DataInv, NEW v \in BOOLEAN, NEW l \in BOOLEAN, NEW r \in BOOLEAN,
         NEW c, NEW accept, Step(v, c, l, r, accept)
  PROVE  /\ unit_valid' = (Fires(l, r) \/ (unit_valid /\ ~Delivers))
         /\ unit_valid /\ Fires(l, r) => Delivers
         /\ Delivers => unit_valid /\ UnitOp = cond_data
         /\ Fires(l, r) => UnitOp' = NextOp(c)
         /\ unit_valid /\ ~Delivers => UnitOp' = UnitOp
         /\ Fires(l, r) => IF left_full THEN MuxOp(0) = NextOp(c)
                                        ELSE l /\ NextOp(c) = c
         /\ Fires(l, r) => IF right_full THEN MuxOp(1) = NextOp(c)
                                         ELSE r /\ NextOp(c) = c
         /\ left_full /\ ~Fires(l, r) => MuxOp(0)' = MuxOp(0)
         /\ right_full /\ ~Fires(l, r) => MuxOp(1)' = MuxOp(1)
         /\ l /\ ~left_full /\ ~Fires(l, r) => MuxOp(0)' = c
         /\ r /\ ~right_full /\ ~Fires(l, r) => MuxOp(1)' = c
         /\ cond_data' \in sharing!Sharers /\ cond_valid' \in BOOLEAN
         /\ sel_fork'[2] \/ (cond_valid' /\ cond_data' = Current')
         /\ bit(~sel_fork'[0]) + bit(cond_valid')
              = bit(~sel_fork'[2]) + bit(unit_valid')
                  + bit((l \/ left_full) /\ ~Fires(l, r))
         /\ bit(~sel_fork'[1]) + bit(cond_valid')
              = bit(~sel_fork'[2]) + bit(unit_valid')
                  + bit((r \/ right_full) /\ ~Fires(l, r))
<1> DEFINE free == ~dist_full[cond_data]
           stays == v /\ Owes(v, l, r)
           F == Fires(l, r)
           D == Delivers
           T == TakesCond(v)
           s0 == sel_fork[0]
           s1 == sel_fork[1]
           s2 == sel_fork[2]
           t0 == sel_fork'[0]
           t1 == sel_fork'[1]
           t2 == sel_fork'[2]
<1>1. /\ unit_valid \in BOOLEAN /\ cond_valid \in BOOLEAN
      /\ left_full \in BOOLEAN /\ right_full \in BOOLEAN
      /\ s0 \in BOOLEAN /\ s1 \in BOOLEAN /\ s2 \in BOOLEAN
      /\ free \in BOOLEAN /\ stays \in BOOLEAN
      /\ F \in BOOLEAN /\ D \in BOOLEAN /\ T \in BOOLEAN
      BY Places, DoneAfter DEF Fires, Delivers, TakesCond, UnitReady, Owes
<1>2. /\ unit_valid' = (F \/ (unit_valid /\ ~D))
      /\ cond_valid' = ((v /\ s2) \/ (cond_valid /\ ~D))
      /\ cond_data' = IF T THEN c ELSE cond_data
      BY DEF Step, Moves, UnitMoves, Delivers
<1>3. /\ D = (unit_valid /\ cond_valid /\ free)
      /\ T = (v /\ s2 /\ (cond_valid => D))
      /\ F = ((l \/ left_full) /\ (r \/ right_full) /\ (unit_valid => D))
      BY <1>1 DEF UnitReady, Delivers, TakesCond, Fires
<1>4. /\ ~s0 \/ ~s1 \/ ~s2 => v /\ c = Current
      /\ v /\ ~stays => /\ s0 => l /\ ~left_full
                        /\ s1 => r /\ ~right_full
                        /\ s2 => T
      /\ t0 = (stays => s0 /\ ~(l /\ ~left_full))
      /\ t1 = (stays => s1 /\ ~(r /\ ~right_full))
      /\ t2 = (stays => s2 /\ ~T)
      /\ stays => v
      BY ForkAfter
<1>5. /\ stays => Current' = c
      /\ v => c \in sharing!Sharers
      /\ l => v /\ s0
      /\ r => v /\ s1
      /\ cond_data \in sharing!Sharers
      BY DEF Step, DataInv, UnitInv
<1>6. /\ ~s2 => cond_valid /\ ~unit_valid /\ cond_data = Current
      /\ cond_valid /\ ~unit_valid /\ s2 => left_full /\ right_full /\ s0 /\ s1
      /\ unit_valid /\ ~cond_valid => ~left_full /\ ~right_full /\ ~s0 /\ ~s1
      /\ ~s2 \/ cond_valid = unit_valid => left_full = ~s0 /\ right_full = ~s1
      /\ s0 \/ s1 \/ s2
  <2>1. s0 \/ s1 \/ s2
        BY DEF ForkInv
  <2> QED BY <2>1, Places
<1>7. /\ UnitOp = IF cond_valid THEN cond_data ELSE Current
      /\ UnitOp' = IF cond_valid' THEN cond_data' ELSE Current'
      /\ MuxOp(0) = IF s0 THEN cond_data ELSE Current
      /\ MuxOp(1) = IF s1 THEN cond_data ELSE Current
      /\ MuxOp(0)' = IF t0 THEN cond_data' ELSE Current'
      /\ MuxOp(1)' = IF t1 THEN cond_data' ELSE Current'
      BY DEF UnitOp, MuxOp
<1> HIDE DEF free, stays, F, D, T, s0, s1, s2, t0, t1, t2
<1>8. /\ unit_valid /\ F => D
      /\ D => unit_valid /\ UnitOp = cond_data
      BY <1>1, <1>3, <1>7
<1>9. F => UnitOp' = NextOp(c)
      BY <1>1, <1>2, <1>3, <1>4, <1>5, <1>6, <1>7 DEF NextOp
<1>10. unit_valid /\ ~D => UnitOp' = UnitOp
      BY <1>1, <1>2, <1>3, <1>4, <1>5, <1>6, <1>7
<1>11. /\ F => IF left_full THEN MuxOp(0) = NextOp(c) ELSE l /\ NextOp(c) = c
       /\ F => IF right_full THEN MuxOp(1) = NextOp(c) ELSE r /\ NextOp(c) = c
      BY <1>1, <1>3, <1>4, <1>5, <1>6, <1>7 DEF NextOp
<1>12. /\ left_full /\ ~F => MuxOp(0)' = MuxOp(0)
       /\ l /\ ~left_full /\ ~F => MuxOp(0)' = c
      BY <1>1, <1>2, <1>3, <1>4, <1>5, <1>6, <1>7
<1>13. /\ right_full /\ ~F => MuxOp(1)' = MuxOp(1)
       /\ r /\ ~right_full /\ ~F => MuxOp(1)' = c
      BY <1>1, <1>2, <1>3, <1>4, <1>5, <1>6, <1>7
<1>14. /\ cond_data' \in sharing!Sharers /\ cond_valid' \in BOOLEAN
       /\ t2 \/ (cond_valid' /\ cond_data' = Current')
      BY <1>1, <1>2, <1>3, <1>4, <1>5, <1>6
<1>15. (IF t0 THEN 0 ELSE 1) + (IF cond_valid' THEN 1 ELSE 0)
         = (IF t2 THEN 0 ELSE 1) + (IF unit_valid' THEN 1 ELSE 0)
            + (IF (l \/ left_full) /\ ~F THEN 1 ELSE 0)
      BY <1>1, <1>2, <1>3, <1>4, <1>5, <1>6
<1>16. (IF t1 THEN 0 ELSE 1) + (IF cond_valid' THEN 1 ELSE 0)
         = (IF t2 THEN 0 ELSE 1) + (IF unit_valid' THEN 1 ELSE 0)
            + (IF (r \/ right_full) /\ ~F THEN 1 ELSE 0)
      BY <1>1, <1>2, <1>3, <1>4, <1>5, <1>6
<1> QED BY <1>2, <1>8, <1>9, <1>10, <1>11, <1>12, <1>13, <1>14, <1>15, <1>16
        DEF F, D, T, t0, t1, t2, bit

\* The left operands after a cycle.
LEMMA LeftAfter ==
  ASSUME ForkInv, DataInv, NEW v \in BOOLEAN, NEW l \in BOOLEAN, NEW r \in BOOLEAN,
         NEW c, NEW accept, Step(v, c, l, r, accept)
  PROVE  OperandInv(0, left_full, left_data, lefts)'
<1> DEFINE F == Fires(l, r)
           takes == l /\ ~left_full
           op == NextOp(c)
<1>1. /\ left_full' = ((l \/ left_full) /\ ~F)
      /\ left_data' = IF takes /\ ~F THEN <<c, lefts[c] + 1>> ELSE left_data
      /\ lefts' = [s \in sharing!Sharers |-> IF takes /\ s = c THEN lefts[s] + 1
                                                              ELSE lefts[s]]
      BY DEF Step, Moves, OperandMoves
<1>2. /\ left_full \in BOOLEAN /\ lefts \in [sharing!Sharers -> Nat]
      /\ left_full => left_data = <<MuxOp(0), lefts[MuxOp(0)]>>
      /\ \A s \in sharing!Sharers :
           lefts[s] = Done(s) + bit(unit_valid /\ UnitOp = s)
                        + bit(left_full /\ MuxOp(0) = s)
      BY DEF DataInv, OperandInv
<1>3. /\ unit_valid \in BOOLEAN /\ F \in BOOLEAN /\ takes \in BOOLEAN
      /\ Delivers \in BOOLEAN /\ (l => c \in sharing!Sharers)
      BY Places, <1>2 DEF Fires, Delivers, UnitReady, Step
<1>4. /\ unit_valid' = (F \/ (unit_valid /\ ~Delivers))
      /\ unit_valid /\ F => Delivers
      /\ Delivers => unit_valid /\ UnitOp = cond_data
      /\ F => UnitOp' = op
      /\ unit_valid /\ ~Delivers => UnitOp' = UnitOp
      /\ F => IF left_full THEN MuxOp(0) = op ELSE l /\ op = c
      /\ left_full /\ ~F => MuxOp(0)' = MuxOp(0)
      /\ l /\ ~left_full /\ ~F => MuxOp(0)' = c
      BY OpsMove
<1>5. \A s \in sharing!Sharers : /\ Done(s) \in Nat
                          /\ Done(s)' = Done(s) + bit(Delivers /\ cond_data = s)
      BY DoneAfter
<1> HIDE DEF F, op
<1>6. left_full' \in BOOLEAN /\ lefts' \in [sharing!Sharers -> Nat]
      BY <1>1, <1>2, <1>3
<1>7. left_full' => left_data' = <<MuxOp(0)', lefts'[MuxOp(0)']>>
  <2>1. CASE takes
    <3>1. c \in sharing!Sharers
          BY <2>1, <1>3
    <3>2. lefts'[c] = lefts[c] + 1
          BY <2>1, <3>1, <1>1
    <3>3. left_full' => left_data' = <<c, lefts[c] + 1>> /\ MuxOp(0)' = c
          BY <2>1, <1>1, <1>3, <1>4
    <3> QED BY <3>2, <3>3
  <2>2. CASE ~takes
    <3>1. lefts' = lefts
          BY <2>2, <1>1, <1>2
    <3> QED BY <2>2, <3>1, <1>1, <1>2, <1>3, <1>4
  <2> QED BY <2>1, <2>2
<1>8. ASSUME NEW s \in sharing!Sharers
      PROVE  lefts'[s] = Done(s)' + bit(unit_valid' /\ UnitOp' = s)
                           + bit(left_full' /\ MuxOp(0)' = s)
  <2>1. lefts'[s] = lefts[s] + (IF takes /\ s = c THEN 1 ELSE 0)
        BY <1>1, <1>2
  <2>2. lefts[s] = Done(s) + (IF unit_valid /\ UnitOp = s THEN 1 ELSE 0)
                        + (IF left_full /\ MuxOp(0) = s THEN 1 ELSE 0)
        BY <1>2 DEF bit
  <2>3. Done(s)' = Done(s) + (IF Delivers /\ cond_data = s THEN 1 ELSE 0)
        BY <1>5 DEF bit
  <2>4. Done(s) \in Nat
        BY <1>5
  <2>5. lefts'[s] = Done(s)' + (IF unit_valid' /\ UnitOp' = s THEN 1 ELSE 0)
                             + (IF left_full' /\ MuxOp(0)' = s THEN 1 ELSE 0)
    <3>1. CASE F
      <4>1. (unit_valid /\ UnitOp = s) = (Delivers /\ cond_data = s)
            BY <3>1, <1>3, <1>4
      <4>2. unit_valid' /\ UnitOp' = op /\ ~left_full'
            BY <3>1, <1>1, <1>4
      <4>3. lefts'[s] = Done(s) + (IF Delivers /\ cond_data = s THEN 1 ELSE 0)
                           + (IF op = s THEN 1 ELSE 0)
        <5>1. CASE left_full
              BY <5>1, <3>1, <1>4, <2>1, <2>2, <2>4, <4>1
        <5>2. CASE ~left_full
              BY <5>2, <3>1, <1>4, <2>1, <2>2, <2>4, <4>1
        <5> QED BY <5>1, <5>2, <1>2
      <4> QED BY <2>3, <2>4, <4>2, <4>3
    <3>2. CASE ~F
          BY <3>2, <1>1, <1>2, <1>3, <1>4, <2>1, <2>2, <2>3, <2>4
    <3> QED BY <3>1, <3>2, <1>3
  <2> QED BY <2>5 DEF bit
<1>9. bit(~sel_fork'[0]) + bit(cond_valid')
        = bit(~sel_fork'[2]) + bit(unit_valid') + bit(left_full')
      BY <1>1, OpsMove DEF F
<1> QED BY <1>6, <1>7, <1>8, <1>9 DEF OperandInv

\* The right operands after a cycle.
LEMMA RightAfter ==
  ASSUME ForkInv, DataInv, NEW v \in BOOLEAN, NEW l \in BOOLEAN, NEW r \in BOOLEAN,
         NEW c, NEW accept, Step(v, c, l, r, accept)
  PROVE  OperandInv(1, right_full, right_data, rights)'
<1> DEFINE F == Fires(l, r)
           takes == r /\ ~right_full
           op == NextOp(c)
<1>1. /\ right_full' = ((r \/ right_full) /\ ~F)
      /\ right_data' = IF takes /\ ~F THEN <<c, rights[c] + 1>> ELSE right_data
      /\ rights' = [s \in sharing!Sharers |-> IF takes /\ s = c THEN rights[s] + 1
                                                               ELSE rights[s]]
      BY DEF Step, Moves, OperandMoves
<1>2. /\ right_full \in BOOLEAN /\ rights \in [sharing!Sharers -> Nat]
      /\ right_full => right_data = <<MuxOp(1), rights[MuxOp(1)]>>
      /\ \A s \in sharing!Sharers :
           rights[s] = Done(s) + bit(unit_valid /\ UnitOp = s)
                        + bit(right_full /\ MuxOp(1) = s)
      BY DEF DataInv, OperandInv
<1>3. /\ unit_valid \in BOOLEAN /\ F \in BOOLEAN /\ takes \in BOOLEAN
      /\ Delivers \in BOOLEAN /\ (r => c \in sharing!Sharers)
      BY Places, <1>2 DEF Fires, Delivers, UnitReady, Step
<1>4. /\ unit_valid' = (F \/ (unit_valid /\ ~Delivers))
      /\ unit_valid /\ F => Delivers
      /\ Delivers => unit_valid /\ UnitOp = cond_data
      /\ F => UnitOp' = op
      /\ unit_valid /\ ~Delivers => UnitOp' = UnitOp
      /\ F => IF right_full THEN MuxOp(1) = op ELSE r /\ op = c
      /\ right_full /\ ~F => MuxOp(1)' = MuxOp(1)
      /\ r /\ ~right_full /\ ~F => MuxOp(1)' = c
      BY OpsMove
<1>5. \A s \in sharing!Sharers : /\ Done(s) \in Nat
                          /\ Done(s)' = Done(s) + bit(Delivers /\ cond_data = s)
      BY DoneAfter
<1> HIDE DEF F, op
<1>6. right_full' \in BOOLEAN /\ rights' \in [sharing!Sharers -> Nat]
      BY <1>1, <1>2, <1>3
<1>7. right_full' => right_data' = <<MuxOp(1)', rights'[MuxOp(1)']>>
  <2>1. CASE takes
    <3>1. c \in sharing!Sharers
          BY <2>1, <1>3
    <3>2. rights'[c] = rights[c] + 1
          BY <2>1, <3>1, <1>1
    <3>3. right_full' => right_data' = <<c, rights[c] + 1>> /\ MuxOp(1)' = c
          BY <2>1, <1>1, <1>3, <1>4
    <3> QED BY <3>2, <3>3
  <2>2. CASE ~takes
    <3>1. rights' = rights
          BY <2>2, <1>1, <1>2
    <3> QED BY <2>2, <3>1, <1>1, <1>2, <1>3, <1>4
  <2> QED BY <2>1, <2>2
<1>8. ASSUME NEW s \in sharing!Sharers
      PROVE  rights'[s] = Done(s)' + bit(unit_valid' /\ UnitOp' = s)
                           + bit(right_full' /\ MuxOp(1)' = s)
  <2>1. rights'[s] = rights[s] + (IF takes /\ s = c THEN 1 ELSE 0)
        BY <1>1, <1>2
  <2>2. rights[s] = Done(s) + (IF unit_valid /\ UnitOp = s THEN 1 ELSE 0)
                        + (IF right_full /\ MuxOp(1) = s THEN 1 ELSE 0)
        BY <1>2 DEF bit
  <2>3. Done(s)' = Done(s) + (IF Delivers /\ cond_data = s THEN 1 ELSE 0)
        BY <1>5 DEF bit
  <2>4. Done(s) \in Nat
        BY <1>5
  <2>5. rights'[s] = Done(s)' + (IF unit_valid' /\ UnitOp' = s THEN 1 ELSE 0)
                             + (IF right_full' /\ MuxOp(1)' = s THEN 1 ELSE 0)
    <3>1. CASE F
      <4>1. (unit_valid /\ UnitOp = s) = (Delivers /\ cond_data = s)
            BY <3>1, <1>3, <1>4
      <4>2. unit_valid' /\ UnitOp' = op /\ ~right_full'
            BY <3>1, <1>1, <1>4
      <4>3. rights'[s] = Done(s) + (IF Delivers /\ cond_data = s THEN 1 ELSE 0)
                           + (IF op = s THEN 1 ELSE 0)
        <5>1. CASE right_full
              BY <5>1, <3>1, <1>4, <2>1, <2>2, <2>4, <4>1
        <5>2. CASE ~right_full
              BY <5>2, <3>1, <1>4, <2>1, <2>2, <2>4, <4>1
        <5> QED BY <5>1, <5>2, <1>2
      <4> QED BY <2>3, <2>4, <4>2, <4>3
    <3>2. CASE ~F
          BY <3>2, <1>1, <1>2, <1>3, <1>4, <2>1, <2>2, <2>3, <2>4
    <3> QED BY <3>1, <3>2, <1>3
  <2> QED BY <2>5 DEF bit
<1>9. bit(~sel_fork'[1]) + bit(cond_valid')
        = bit(~sel_fork'[2]) + bit(unit_valid') + bit(right_full')
      BY <1>1, OpsMove DEF F
<1> QED BY <1>6, <1>7, <1>8, <1>9 DEF OperandInv

\* The operands that meet in the unit are the next ones of one operation.
LEMMA UnitAfter ==
  ASSUME ForkInv, DataInv, NEW v \in BOOLEAN, NEW l \in BOOLEAN, NEW r \in BOOLEAN,
         NEW c, NEW accept, Step(v, c, l, r, accept)
  PROVE  UnitInv'
<1> PICK op : op = NextOp(c)
    OBVIOUS
<1>1. /\ unit_valid' = (Fires(l, r) \/ (unit_valid /\ ~Delivers))
      /\ unit_valid /\ Fires(l, r) => Delivers
      /\ Delivers => unit_valid /\ UnitOp = cond_data
      /\ Fires(l, r) => UnitOp' = op
      /\ unit_valid /\ ~Delivers => UnitOp' = UnitOp
      /\ cond_data' \in sharing!Sharers /\ cond_valid' \in BOOLEAN
      /\ sel_fork'[2] \/ (cond_valid' /\ cond_data' = Current')
      /\ Fires(l, r) => IF left_full THEN MuxOp(0) = op ELSE l /\ op = c
      /\ Fires(l, r) => IF right_full THEN MuxOp(1) = op ELSE r /\ op = c
      BY OpsMove
<1>2. /\ \A s \in sharing!Sharers : Done(s) \in Nat
      /\ \A s \in sharing!Sharers :
           Done(s)' = Done(s) + bit(Delivers /\ cond_data = s)
      BY DoneAfter
<1>3. /\ unit_valid \in BOOLEAN /\ left_full \in BOOLEAN /\ right_full \in BOOLEAN
      /\ Fires(l, r) \in BOOLEAN
      /\ cond_data \in sharing!Sharers /\ (v => c \in sharing!Sharers) /\ (l => v)
      /\ ~sel_fork[0] => v /\ c = Current
      BY Places, ForkAfter DEF Fires, UnitReady, DataInv, UnitInv, Step
<1>4. /\ unit_valid => unit_data = Own(UnitOp, Done(UnitOp) + 1)
      /\ left_full => left_data = <<MuxOp(0), lefts[MuxOp(0)]>>
      /\ right_full => right_data = <<MuxOp(1), rights[MuxOp(1)]>>
      /\ \A s \in sharing!Sharers :
           /\ lefts[s] = Done(s) + bit(unit_valid /\ UnitOp = s)
                           + bit(left_full /\ MuxOp(0) = s)
           /\ rights[s] = Done(s) + bit(unit_valid /\ UnitOp = s)
                            + bit(right_full /\ MuxOp(1) = s)
      BY DEF DataInv, UnitInv, OperandInv
<1>5. unit_data' = IF Fires(l, r)
                   THEN <<IF left_full THEN left_data ELSE <<c, lefts[c] + 1>>,
                          IF right_full THEN right_data ELSE <<c, rights[c] + 1>>>>
                   ELSE unit_data
      BY DEF Step, Moves, UnitMoves
<1>6. CASE Fires(l, r)
  <2>1. op \in sharing!Sharers
        BY <1>3, <1>6, Places DEF NextOp, Fires
  <2>2. /\ Done(op)' = Done(op) + (IF Delivers /\ cond_data = op THEN 1 ELSE 0)
        /\ Done(op) \in Nat
        /\ lefts[op] = Done(op) + (IF unit_valid /\ UnitOp = op THEN 1 ELSE 0)
                          + (IF left_full /\ MuxOp(0) = op THEN 1 ELSE 0)
        /\ rights[op] = Done(op) + (IF unit_valid /\ UnitOp = op THEN 1 ELSE 0)
                           + (IF right_full /\ MuxOp(1) = op THEN 1 ELSE 0)
        BY <1>2, <1>4, <2>1 DEF bit
  <2>3. (IF left_full THEN left_data ELSE <<c, lefts[c] + 1>>) = <<op, Done(op)' + 1>>
        BY <1>1, <1>3, <1>4, <1>6, <2>2
  <2>4. (IF right_full THEN right_data ELSE <<c, rights[c] + 1>>) = <<op, Done(op)' + 1>>
        BY <1>1, <1>3, <1>4, <1>6, <2>2
  <2>5. UnitOp' = op
        BY <1>1, <1>6
  <2>6. unit_data' = Own(op, Done(op)' + 1)
        BY <1>5, <1>6, <2>3, <2>4 DEF Own
  <2>7. Done(op)' = Len(shared_results'[op]) + bit(dist_full'[op])
        BY DEF Done
  <2> QED BY <1>1, <2>5, <2>6, <2>7 DEF UnitInv, Done
<1>7. CASE ~Fires(l, r)
  <2> SUFFICES ASSUME unit_valid'
               PROVE  unit_data' = Own(UnitOp, Done(UnitOp) + 1)'
      BY <1>1, <1>7 DEF UnitInv
  <2>1. unit_valid /\ ~Delivers /\ UnitOp' = UnitOp
        BY <1>1, <1>7
  <2>2. UnitOp \in sharing!Sharers
        BY <1>3, <2>1, Places DEF UnitOp
  <2> PICK o \in sharing!Sharers : o = UnitOp
      BY <2>2
  <2>3. Done(o)' = Done(o)
    <3>1. Done(o) \in Nat /\ bit(Delivers /\ cond_data = o) = 0
          BY <1>2, <2>1 DEF bit
    <3> QED BY <1>2, <3>1
  <2>4. Own(UnitOp, Done(UnitOp) + 1)' = Own(o, Done(o)' + 1)
        BY <2>1 DEF Own, Done
  <2> QED BY <1>4, <1>5, <1>7, <2>1, <2>3, <2>4
<1> QED BY <1>6, <1>7

\* After reset nothing is in flight.
LEMMA SharingInit == sharing!Init => SelectorInv /\ ForkInv /\ DataInv
<1> SUFFICES ASSUME sharing!Init PROVE SelectorInv /\ ForkInv /\ DataInv
    OBVIOUS
<1>1. FIFO_DEPTH \in Nat \ {0} /\ 0 \in sharing!Sharers
  <2>1. <<0, 0>> \in Infos
        BY DEF Infos, sharing!input_select!NoInfo
  <2>2. Ordering[0][1] \in sharing!Sharers
    <3>1. 0 <= <<0, 0>>[2] /\ <<0, 0>>[1] = 0
          OBVIOUS
    <3> QED BY <2>1, <3>1, PlacesHoldSharers
  <2> QED BY <2>2, BenchAssumption DEF sharing!SharingAssumption, sharing!Sharers
<1>2. SelectorInv
  <2>1. /\ Memory = [i \in 0 .. FIFO_DEPTH - 1 |-> <<0, 0>>]
        /\ Head_ = 0 /\ Tail_ = 0 /\ Full = FALSE /\ Empty = TRUE
        /\ tehb_full = FALSE /\ tehb_data = <<0, 0>> /\ reg_current_index = 0
        BY DEF sharing!Init, sharing!input_select!Reset,
           sharing!input_select!tehb1!Reset, sharing!input_select!NoInfo
  <2>2. <<0, 0>> \in Infos /\ 0 \in 0 .. FIFO_DEPTH - 1
        BY <1>1 DEF Infos, sharing!input_select!NoInfo
  <2>3. Memory \in [0 .. FIFO_DEPTH - 1 -> Infos]
        BY <2>1, <2>2
  <2> QED BY <2>1, <2>2, <2>3 DEF SelectorInv
<1>3. ForkInv
      BY DEF sharing!Init, ForkInv, sharing!select_fork!Reset,
         sharing!select_fork!Outputs, sharing!input_select!Reset
<1>4. sel_fork[0] /\ sel_fork[1] /\ sel_fork[2]
      BY DEF sharing!Init, sharing!select_fork!Reset, sharing!select_fork!Outputs
<1>5. /\ ~left_full /\ ~right_full /\ ~unit_valid /\ ~cond_valid /\ cond_data = 0
      /\ left_full \in BOOLEAN /\ right_full \in BOOLEAN
      /\ unit_valid \in BOOLEAN /\ cond_valid \in BOOLEAN
      BY DEF sharing!Init, sharing!left_mux!Reset, sharing!right_mux!Reset,
         sharing!left_mux!tehb1!Reset, sharing!right_mux!tehb1!Reset,
         sharing!unit!Reset, sharing!cond_buffer!Reset
<1>6. /\ lefts = [s \in sharing!Sharers |-> 0]
      /\ rights = [s \in sharing!Sharers |-> 0]
      /\ shared_results = [s \in sharing!Sharers |-> <<>>]
      /\ dist_full = [s \in sharing!Sharers |-> FALSE]
      BY DEF sharing!Init, sharing!dist!Reset, sharing!dist!Outputs, sharing!Sharers
<1>7. \A s \in sharing!Sharers :
        Len(shared_results[s]) = 0 /\ ~dist_full[s] /\ Done(s) = 0
      BY <1>6, EmptySeq DEF Done, bit
<1>8. ResultsInv
  <2>1. <<>> \in Seq(OwnWords) /\ DOMAIN <<>> = {}
        OBVIOUS
  <2> QED BY <1>6, <1>7, <2>1 DEF ResultsInv
<1>9. UnitInv
      BY <1>1, <1>4, <1>5 DEF UnitInv
<1>10. /\ OperandInv(0, left_full, left_data, lefts)
       /\ OperandInv(1, right_full, right_data, rights)
  <2>1. /\ bit(~sel_fork[0]) = 0 /\ bit(~sel_fork[1]) = 0 /\ bit(~sel_fork[2]) = 0
        /\ bit(cond_valid) = 0 /\ bit(unit_valid) = 0
        /\ bit(left_full) = 0 /\ bit(right_full) = 0
        BY <1>4, <1>5 DEF bit
  <2>2. \A P : /\ bit(unit_valid /\ P) = 0
               /\ bit(left_full /\ P) = 0 /\ bit(right_full /\ P) = 0
        BY <1>5 DEF bit
  <2> QED BY <1>5, <1>6, <1>7, <2>1, <2>2 DEF OperandInv
<1> QED BY <1>2, <1>3, <1>8, <1>9, <1>10 DEF DataInv

\* A cycle of the clock keeps the invariant.
LEMMA SharingNext ==
  SelectorInv /\ ForkInv /\ DataInv /\ [sharing!Next]_(sharing!vars)
    => SelectorInv' /\ ForkInv' /\ DataInv'
<1> SUFFICES ASSUME SelectorInv, ForkInv, DataInv, [sharing!Next]_(sharing!vars)
             PROVE  SelectorInv' /\ ForkInv' /\ DataInv'
    OBVIOUS
<1>1. CASE sharing!Next
  <2>1. PICK bbPValid \in SUBSET sharing!Blocks, left \in SUBSET sharing!Sharers,
             right \in SUBSET sharing!Sharers, accept \in SUBSET sharing!Sharers :
               sharing!Cycle(bbPValid, left, right, accept)
    <3>1. ASSUME NEW S \in SUBSET sharing!Sharers
          PROVE  sharing!AtMostOne(S) \subseteq SUBSET sharing!Sharers
          BY DEF sharing!AtMostOne
    <3>2. PICK bbPValid \in SUBSET {b \in sharing!Blocks : ran[b] < Runs[b]},
               left \in sharing!AtMostOne({s \in sharing!Sharers :
                                            lefts[s] < sharing!uses(s)}),
               right \in sharing!AtMostOne({s \in sharing!Sharers :
                                             rights[s] < sharing!uses(s)}),
               stalled \in sharing!AtMostOne(sharing!Sharers) :
                 sharing!Cycle(bbPValid, left, right, sharing!Sharers \ stalled)
          BY <1>1 DEF sharing!Next
    <3>3. /\ bbPValid \in SUBSET sharing!Blocks /\ left \in SUBSET sharing!Sharers
          /\ right \in SUBSET sharing!Sharers
          BY <3>1
    <3>4. sharing!Sharers \ stalled \in SUBSET sharing!Sharers
          OBVIOUS
    <3> QED BY <3>2, <3>3, <3>4
  <2>2. PICK v, l, r, c :
               /\ v \in BOOLEAN /\ l \in BOOLEAN /\ r \in BOOLEAN
               /\ SelectorInv' /\ Step(v, c, l, r, accept)
        BY <2>1, SharedCycle, DataHasTypes DEF Step
  <2>3. ForkInv' /\ ResultsInv'
        BY <2>2, ForkAfter, DoneAfter
  <2>4. UnitInv' /\ OperandInv(0, left_full, left_data, lefts)'
                 /\ OperandInv(1, right_full, right_data, rights)'
        BY <2>2, UnitAfter, LeftAfter, RightAfter
  <2> QED BY <2>2, <2>3, <2>4 DEF DataInv
<1>2. CASE UNCHANGED sharing!vars
  <2> USE <1>2 DEF sharing!vars, sharing!selector_regs, sharing!unit_regs
  <2>1. SelectorInv'
        BY DEF SelectorInv
  <2>2. ForkInv'
        BY DEF ForkInv
  <2>3. DataInv'
        BY DEF DataInv, ResultsInv, UnitInv, OperandInv, UnitOp, MuxOp, Done,
           Current, bit
  <2> QED BY <2>1, <2>2, <2>3
<1> QED BY <1>1, <1>2

\* So the operation whose result the distributor sends, the operands the unit
\* joined and the sharer that takes it are one, whatever the order and pace in
\* which operands, conditions and results come.
THEOREM ResultsGoHome == BenchSpec => []OwnResults
<1> DEFINE Inv == SelectorInv /\ ForkInv /\ DataInv
<1>1. BenchInit => Inv
      BY SharingInit DEF BenchInit
<1>2. Inv /\ [BenchNext]_benchVars => Inv'
  <2>1. [BenchNext]_benchVars => [sharing!Next]_(sharing!vars)
        BY DEF BenchNext, benchVars, OnlyUnit, OnlySharing, sharingVars, sharing!vars,
           sharing!selector_regs, sharing!unit_regs
  <2> QED BY <2>1, SharingNext
<1>3. Inv => OwnResults
      BY DEF DataInv, ResultsInv, Own, OwnResults, sharing!OwnResults
<1> QED BY <1>1, <1>2, <1>3, PTL DEF BenchSpec
==============================================================================
