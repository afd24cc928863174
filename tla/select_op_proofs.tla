--------------------------- MODULE select_op_proofs ---------------------------
(***************************************************************************)
(* The antitokens of select_op keep its operands aligned, for every number  *)
(* of selects and every pace of the producers and the consumer.             *)
(***************************************************************************)
EXTENDS select_op, TLAPS

Tokens == (1 .. 2) \X Nat

\* The registers, the count of consumed tokens and the results have their
\* types.
Typed ==
  /\ conditions \in [1 .. N -> BOOLEAN]
  /\ reg_out0 \in BOOLEAN /\ reg_out1 \in BOOLEAN
  /\ consumed \in [Inputs -> Nat]
  /\ results \in Seq(Tokens)

\* The select fires when its result is valid and taken.
fires(c, pValid, accept) == validInternal(c, pValid) /\ accept

\* What a cycle does to the registers, in terms of the select that fires.
LEMMA CycleEffect ==
  ASSUME Typed, NEW offered \in SUBSET {i \in Inputs : consumed[i] < N},
         NEW accept \in BOOLEAN, Cycle(offered, accept)
  PROVE  \E c, fire \in BOOLEAN :
           /\ fire => /\ ~reg_out0 /\ ~reg_out1
                      /\ consumed[0] < N /\ c = conditions[consumed[0] + 1]
           /\ results' = IF fire
                         THEN Append(results, IF c THEN <<1, consumed[1] + 1>>
                                                   ELSE <<2, consumed[2] + 1>>)
                         ELSE results
           /\ consumed' = [i \in Inputs |->
                IF i \in offered /\ (\/ fire
                                     \/ i = 1 /\ reg_out0
                                     \/ i = 2 /\ reg_out1)
                THEN consumed[i] + 1 ELSE consumed[i]]
           /\ fire => 0 \in offered
           /\ reg_out0' = (1 \notin offered /\ (fire \/ reg_out0))
           /\ reg_out1' = (2 \notin offered /\ (fire \/ reg_out1))
           /\ conditions' = conditions
<1> DEFINE pValid == [i \in Inputs |-> i \in offered]
           c == 0 \in offered /\ conditions[consumed[0] + 1]
           data == [i \in 1 .. 2 |-> IF i \in offered THEN <<i, consumed[i] + 1>>
                                                         ELSE <<i, 0>>]
           fire == fires(c, pValid, accept)
           taken == {i \in offered : ready(i, c, pValid, accept)}
<1>1. \A i \in Inputs : pValid[i] = (i \in offered)
      OBVIOUS
<1>2. 0 \in Inputs /\ 1 \in Inputs /\ 2 \in Inputs
      BY DEF Inputs
<1>3. 0 \in offered => consumed[0] < N /\ consumed[0] + 1 \in 1 .. N
      BY <1>2, NAssumption DEF Typed
<1>4. c \in BOOLEAN
      BY <1>3 DEF Typed
<1>5. fire \in BOOLEAN
      BY <1>1, <1>2, <1>4 DEF fires, validInternal, ee
<1>6. fire => 0 \in offered /\ ~reg_out0 /\ ~reg_out1
      BY <1>1, <1>2 DEF fires, validInternal, ee, stop_valid
<1>7. /\ kill(1, c, pValid, accept) = ((1 \notin offered /\ fire) \/ reg_out0)
      /\ kill(2, c, pValid, accept) = ((2 \notin offered /\ fire) \/ reg_out1)
      BY <1>1, <1>2 DEF kill, generates, fires, Typed
<1>8. reg_out0' = (1 \notin offered /\ (fire \/ reg_out0))
  <2>1. reg_out0' = reg_in(1, c, pValid, accept)
        BY DEF Cycle
  <2> HIDE DEF fire, c, pValid
  <2> QED BY <2>1, <1>1, <1>2, <1>5, <1>7 DEF reg_in, Typed
<1>9. reg_out1' = (2 \notin offered /\ (fire \/ reg_out1))
  <2>1. reg_out1' = reg_in(2, c, pValid, accept)
        BY DEF Cycle
  <2> HIDE DEF fire, c, pValid
  <2> QED BY <2>1, <1>1, <1>2, <1>5, <1>7 DEF reg_in, Typed
<1>10. \A i \in Inputs : i \in taken <=>
         i \in offered /\ (fire \/ (i = 1 /\ reg_out0) \/ (i = 2 /\ reg_out1))
  <2>1. \A i \in offered : ready(i, c, pValid, accept)
          <=> (fire \/ (i # 0 /\ kill(i, c, pValid, accept)))
        BY <1>1 DEF ready, fires
  <2>2. \A i \in Inputs : i # 0 => i \in {1, 2}
        BY DEF Inputs
  <2> HIDE DEF fire, c, pValid
  <2> QED BY <2>1, <2>2, <1>7 DEF Typed
<1>11. consumed' = [i \in Inputs |->
         IF i \in offered /\ (fire \/ (i = 1 /\ reg_out0) \/ (i = 2 /\ reg_out1))
         THEN consumed[i] + 1 ELSE consumed[i]]
  <2>1. consumed' = [i \in Inputs |-> IF i \in taken THEN consumed[i] + 1
                                                     ELSE consumed[i]]
        BY DEF Cycle
  <2> HIDE DEF fire, taken
  <2> QED BY <2>1, <1>10
<1>12. results' = IF fire
                  THEN Append(results, IF c THEN <<1, consumed[1] + 1>>
                                            ELSE <<2, consumed[2] + 1>>)
                  ELSE results
  <2>1. results' = IF fire THEN Append(results, dataOut(c, data)) ELSE results
        BY DEF Cycle, fires
  <2>2. /\ 1 \in offered => data[1] = <<1, consumed[1] + 1>>
        /\ 2 \in offered => data[2] = <<2, consumed[2] + 1>>
        OBVIOUS
  <2>3. fire => IF c THEN 1 \in offered ELSE 2 \in offered
        BY <1>1, <1>2 DEF fires, validInternal, ee
  <2> HIDE DEF fire, c, data
  <2> QED BY <2>1, <2>2, <2>3 DEF dataOut
<1>13. conditions' = conditions
      BY DEF Cycle
<1>14. fire => c = conditions[consumed[0] + 1]
      BY <1>6, <1>3 DEF Typed
<1> HIDE DEF fire, c
<1> QED BY <1>3, <1>4, <1>5, <1>6, <1>8, <1>9, <1>11, <1>12, <1>13, <1>14

\* The reset state is typed.
LEMMA InitTyped == Init => Typed
<1> SUFFICES ASSUME Init PROVE Typed
    OBVIOUS
<1>1. consumed \in [Inputs -> Nat]
      BY DEF Init
<1>2. results \in Seq(Tokens)
      BY DEF Init
<1>3. conditions \in [1 .. N -> BOOLEAN]
      BY DEF Init
<1>4. reg_out0 \in BOOLEAN /\ reg_out1 \in BOOLEAN
      BY DEF Init
<1> QED BY <1>1, <1>2, <1>3, <1>4 DEF Typed

\* A clock edge keeps the types.
LEMMA NextTyped == Typed /\ [Next]_vars => Typed'
<1> SUFFICES ASSUME Typed, [Next]_vars PROVE Typed'
    OBVIOUS
<1>1. CASE UNCHANGED vars
      BY <1>1 DEF vars, Typed
<1>2. ASSUME NEW offered \in SUBSET {i \in Inputs : consumed[i] < N},
             NEW accept \in BOOLEAN, Cycle(offered, accept)
      PROVE Typed'
  <2>1. consumed[1] \in Nat /\ consumed[2] \in Nat
        BY DEF Typed, Inputs
  <2>2. <<1, consumed[1] + 1>> \in Tokens /\ <<2, consumed[2] + 1>> \in Tokens
        BY <2>1 DEF Tokens
  <2>3. PICK c \in BOOLEAN, fire \in BOOLEAN :
           /\ results' = IF fire
                         THEN Append(results, IF c THEN <<1, consumed[1] + 1>>
                                                   ELSE <<2, consumed[2] + 1>>)
                         ELSE results
           /\ consumed' = [i \in Inputs |->
                IF i \in offered /\ (\/ fire
                                     \/ i = 1 /\ reg_out0
                                     \/ i = 2 /\ reg_out1)
                THEN consumed[i] + 1 ELSE consumed[i]]
           /\ reg_out0' = (1 \notin offered /\ (fire \/ reg_out0))
           /\ reg_out1' = (2 \notin offered /\ (fire \/ reg_out1))
           /\ conditions' = conditions
        BY <1>2, CycleEffect
  <2>4. results' \in Seq(Tokens)
        BY <2>2, <2>3 DEF Typed
  <2>5. consumed' \in [Inputs -> Nat]
        BY <2>3 DEF Typed
  <2>6. reg_out0' \in BOOLEAN /\ reg_out1' \in BOOLEAN
        BY <2>3
  <2>7. conditions' \in [1 .. N -> BOOLEAN]
        BY <2>3 DEF Typed
  <2> QED BY <2>4, <2>5, <2>6, <2>7 DEF Typed
<1> QED BY <1>1, <1>2 DEF Next

\* Every register of a select always has its type.
THEOREM AlwaysTyped == Spec => []Typed
BY InitTyped, NextTyped, PTL DEF Spec

\* A clock edge keeps the operands aligned: one case per select that fires.
LEMMA NextAligned == Typed /\ OperandsAligned /\ [Next]_vars => OperandsAligned'
<1> SUFFICES ASSUME Typed, OperandsAligned, [Next]_vars PROVE OperandsAligned'
    OBVIOUS
<1>1. CASE UNCHANGED vars
      BY <1>1 DEF vars, OperandsAligned
<1>2. ASSUME NEW offered \in SUBSET {i \in Inputs : consumed[i] < N},
             NEW accept \in BOOLEAN, Cycle(offered, accept)
      PROVE OperandsAligned'
  <2>1. PICK c \in BOOLEAN, fire \in BOOLEAN :
           /\ fire => 0 \in offered /\ ~reg_out0 /\ ~reg_out1
           /\ results' = IF fire
                         THEN Append(results, IF c THEN <<1, consumed[1] + 1>>
                                                   ELSE <<2, consumed[2] + 1>>)
                         ELSE results
           /\ consumed' = [i \in Inputs |->
                IF i \in offered /\ (\/ fire
                                     \/ i = 1 /\ reg_out0
                                     \/ i = 2 /\ reg_out1)
                THEN consumed[i] + 1 ELSE consumed[i]]
           /\ reg_out0' = (1 \notin offered /\ (fire \/ reg_out0))
           /\ reg_out1' = (2 \notin offered /\ (fire \/ reg_out1))
        BY <1>2, CycleEffect
  <2>2. Len(results') = Len(results) + (IF fire THEN 1 ELSE 0) /\ Len(results) \in Nat
    <3>1. consumed[1] \in Nat /\ consumed[2] \in Nat
          BY DEF Typed, Inputs
    <3>2. <<1, consumed[1] + 1>> \in Tokens /\ <<2, consumed[2] + 1>> \in Tokens
          BY <3>1 DEF Tokens
    <3> QED BY <2>1, <3>2 DEF Typed
  <2>3. /\ consumed'[0] = IF fire THEN consumed[0] + 1 ELSE consumed[0]
        /\ consumed'[1] = IF 1 \in offered /\ (fire \/ reg_out0)
                          THEN consumed[1] + 1 ELSE consumed[1]
        /\ consumed'[2] = IF 2 \in offered /\ (fire \/ reg_out1)
                          THEN consumed[2] + 1 ELSE consumed[2]
        BY <2>1 DEF Inputs
  <2>4. consumed \in [Inputs -> Nat] /\ reg_out0 \in BOOLEAN /\ reg_out1 \in BOOLEAN
        BY DEF Typed
  <2>5. consumed[0] \in Nat /\ consumed[1] \in Nat /\ consumed[2] \in Nat
        BY <2>4 DEF Inputs
  <2> QED BY <2>1, <2>2, <2>3, <2>4, <2>5 DEF OperandsAligned
<1> QED BY <1>1, <1>2 DEF Next

\* Each operand has been consumed once per select, but for those an antitoken
\* still waits for: no antitoken is lost, and none kills two operands.
THEOREM AlwaysAligned == Spec => []OperandsAligned
<1>1. Init => OperandsAligned
      BY DEF Init, OperandsAligned, Inputs
<1> QED BY <1>1, NextAligned, AlwaysTyped, PTL DEF Spec

\* A clock edge adds, at most, the result of the next select.
LEMMA NextSelectsInOrder ==
  Typed /\ OperandsAligned /\ SelectsInOrder /\ [Next]_vars => SelectsInOrder'
<1> SUFFICES ASSUME Typed, OperandsAligned, SelectsInOrder, [Next]_vars
             PROVE SelectsInOrder'
    OBVIOUS
<1>1. CASE UNCHANGED vars
      BY <1>1 DEF vars, SelectsInOrder
<1>2. ASSUME NEW offered \in SUBSET {i \in Inputs : consumed[i] < N},
             NEW accept \in BOOLEAN, Cycle(offered, accept)
      PROVE SelectsInOrder'
  <2>1. PICK c \in BOOLEAN, fire \in BOOLEAN :
           /\ fire => ~reg_out0 /\ ~reg_out1 /\ c = conditions[consumed[0] + 1]
           /\ results' = IF fire
                         THEN Append(results, IF c THEN <<1, consumed[1] + 1>>
                                                   ELSE <<2, consumed[2] + 1>>)
                         ELSE results
           /\ conditions' = conditions
        BY <1>2, CycleEffect
  <2>2. CASE ~fire
        BY <2>1, <2>2 DEF SelectsInOrder
  <2>3. CASE fire
    <3> DEFINE k == Len(results) + 1
               e == IF c THEN <<1, k>> ELSE <<2, k>>
    <3>1. consumed[0] \in Nat /\ consumed[1] \in Nat /\ consumed[2] \in Nat
          BY DEF Typed, Inputs
    <3>2. consumed[0] + 1 = k /\ consumed[1] + 1 = k /\ consumed[2] + 1 = k
          BY <2>1, <2>3, <3>1 DEF OperandsAligned
    <3>3. results' = Append(results, e) /\ c = conditions'[k]
          BY <2>1, <2>3, <3>2
    <3>4. e \in Tokens /\ results \in Seq(Tokens) /\ k \in Nat
          BY <3>1, <3>2 DEF Tokens, Typed
    <3>5. /\ Len(results') = k
          /\ results'[k] = e
          /\ \A j \in 1 .. k - 1 : results'[j] = results[j]
          /\ DOMAIN results' = 1 .. k /\ DOMAIN results = 1 .. k - 1
          BY <3>3, <3>4
    <3> HIDE DEF k
    <3>6. ASSUME NEW j \in 1 .. k
          PROVE  results'[j] = IF conditions'[j] THEN <<1, j>> ELSE <<2, j>>
      <4>1. CASE j = k
            BY <4>1, <3>3, <3>5
      <4>2. CASE j \in 1 .. k - 1
            BY <4>2, <3>5, <2>1 DEF SelectsInOrder
      <4> QED BY <4>1, <4>2, <3>4
    <3> QED BY <3>5, <3>6 DEF SelectsInOrder
  <2> QED BY <2>2, <2>3
<1> QED BY <1>1, <1>2 DEF Next

\* The k-th result of a select is the k-th operand that the k-th condition
\* names, however early or late the operands come.
THEOREM AlwaysSelectsInOrder == Spec => []SelectsInOrder
<1>1. Init => SelectsInOrder
      BY DEF Init, SelectsInOrder
<1> QED BY <1>1, NextSelectsInOrder, AlwaysTyped, AlwaysAligned, PTL DEF Spec
==============================================================================
