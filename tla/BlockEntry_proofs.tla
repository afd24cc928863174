-------------------------- MODULE BlockEntry_proofs --------------------------
(***************************************************************************)
(* The values that meet at the entry of a block belong to one iteration,    *)
(* for every number of live-in values and of iterations.                    *)
(***************************************************************************)
EXTENDS BlockEntry, SequenceTheorems, FiniteSetTheorems, TLAPS

Words == Sides \X Nat

\* Every register has its type.
RegsOK ==
  /\ cm_full \in BOOLEAN /\ cm_index \in Sides /\ cm_fork \in [Sides -> BOOLEAN]
  /\ cond_fork \in [Values -> BOOLEAN]
  /\ mux_full \in [Values -> BOOLEAN] /\ mux_data \in [Values -> Words]
  /\ order \in Seq(Sides)
  /\ taken \in [Values -> [Sides -> Nat]] /\ passed \in [Values -> Seq(Words)]

\* The cntrlMerge holds the last control token while one of its two consumers
\* waits for it, and otherwise all wait for the next.
MergeHoldsLast ==
  /\ cm_full => Len(order) > 0 /\ cm_index = order[Len(order)]
  /\ ~cm_full => \A i \in Sides : cm_fork[i]
  /\ ~(cm_full /\ cm_fork[1]) => \A v \in Values : cond_fork[v]

\* Mux v waits for the condition the cntrlMerge holds; the conditions it took.
waits(v) == cm_full /\ cm_fork[1] /\ cond_fork[v]
conds(v) == IF waits(v) THEN Len(order) - 1 ELSE Len(order)

\* Each mux took one token for each condition it took, from the predecessor
\* that condition named, and handed them on in this order, or holds the last.
InStep(v) ==
  /\ conds(v) = Len(passed[v]) + (IF mux_full[v] THEN 1 ELSE 0)
  /\ \A k \in DOMAIN passed[v] : passed[v][k] = Expected(k)
  /\ mux_full[v] => mux_data[v] = Expected(conds(v))
  /\ \A s \in Sides : taken[v][s] = among(s, conds(v))

EntryInv == RegsOK /\ MergeHoldsLast /\ \A v \in Values : InStep(v)
------------------------------------------------------------------------------
count(seq, s, k) == Cardinality({i \in 1 .. k : seq[i] = s})

\* Counting the tokens of a predecessor one control token further.
LEMMA CountNext ==
  ASSUME NEW seq, NEW s, NEW k \in Nat
  PROVE  /\ count(seq, s, 0) = 0 /\ count(seq, s, k) \in Nat
         /\ count(seq, s, k + 1) = count(seq, s, k) + (IF seq[k + 1] = s THEN 1 ELSE 0)
<1> DEFINE here(n) == {i \in 1 .. n : seq[i] = s}
<1>1. IsFiniteSet(here(k))
  <2>1. IsFiniteSet(1 .. k) /\ here(k) \in SUBSET (1 .. k)
        BY FS_Interval
  <2> HIDE DEF here
  <2> QED BY <2>1, FS_Subset
<1>2. here(0) = {}
      OBVIOUS
<1>3. here(k + 1) = IF seq[k + 1] = s THEN here(k) \cup {k + 1} ELSE here(k)
      OBVIOUS
<1>4. k + 1 \notin here(k)
      OBVIOUS
<1> HIDE DEF here
<1>5. /\ count(seq, s, 0) = Cardinality(here(0)) /\ count(seq, s, k) = Cardinality(here(k))
      /\ count(seq, s, k + 1) = Cardinality(here(k + 1))
      BY DEF count, here
<1>6. Cardinality(here(k)) \in Nat
      BY <1>1, FS_CardinalityType
<1>7. Cardinality(here(k) \cup {k + 1}) = Cardinality(here(k)) + 1
      BY <1>1, <1>4, FS_AddElement
<1>8. Cardinality({}) = 0
      BY FS_EmptySet
<1> QED BY <1>2, <1>3, <1>5, <1>6, <1>7, <1>8

\* What came before does not depend on what comes later.
LEMMA AmongKept ==
  ASSUME order \in Seq(Sides), NEW s, NEW k \in 0 .. Len(order), NEW t \in Sides,
         order' = order \/ order' = Append(order, t)
  PROVE  /\ among(s, k)' = among(s, k)
         /\ k > 0 => Expected(k)' = Expected(k)
<1>1. \A i \in 1 .. k : order'[i] = order[i]
      OBVIOUS
<1>2. \A r : {i \in 1 .. k : order'[i] = r} = {i \in 1 .. k : order[i] = r}
      BY <1>1
<1>3. \A r : Cardinality({i \in 1 .. k : order'[i] = r}) = Cardinality({i \in 1 .. k : order[i] = r})
      BY <1>2
<1>4. \A r : among(r, k)' = among(r, k)
      BY <1>3 DEF among
<1>5. ASSUME k > 0 PROVE Expected(k)' = Expected(k)
  <2>1. order'[k] = order[k]
        BY <1>1, <1>5
  <2>2. Cardinality({i \in 1 .. k : order'[i] = order[k]}) = among(order[k], k)
        BY <1>3 DEF among
  <2> QED BY <2>1, <2>2 DEF Expected, among
<1> QED BY <1>4, <1>5

------------------------------------------------------------------------------
\* The wires of a cycle, as Cycle defines them.
valid_of(control) == [s \in Sides |-> s \in control]
cond_of(control) == phi_C!condition(valid_of(control))
\* The cntrlMerge has a control token, and it offers its condition.
has(control) == cm_full \/ control # {}
condValid_of(control) == cm_fork[1] /\ has(control)
muxValid_of(control, offers) ==
  [v \in Values |-> [i \in 0 .. 2 |->
     IF i = 0 THEN fork_cond!valid(v, condValid_of(control)) ELSE i - 1 \in offers[v]]]
token_of(offers) ==
  [v \in Values |-> [s \in Sides |->
     IF s \in offers[v] THEN <<s, taken[v][s] + 1>> ELSE <<0, 0>>]]

\* Mux v finds the token its condition names.
finds(v, control, offers) ==
  condValid_of(control) /\ cond_fork[v] /\ cond_of(control) \in offers[v]

\* Mux v still waits for the condition after this cycle.
left(v, control, offers) ==
  condValid_of(control) /\ cond_fork[v] /\ ~(finds(v, control, offers) /\ ~mux_full[v])
someLeft(control, offers) == \E v \in Values : left(v, control, offers)

\* The wires of the cntrlMerge.
LEMMA MergeWires ==
  ASSUME RegsOK, MergeHoldsLast, NEW control \in {{}, {0}, {1}}
  PROVE  /\ phi_C!phi_valid(valid_of(control)) <=> control # {}
         /\ phi_C!valid(1, valid_of(control)) <=> condValid_of(control)
         /\ control # {} => control = {phi_C!index(valid_of(control))}
         /\ cond_of(control) = IF cm_full THEN cm_index ELSE phi_C!index(valid_of(control))
         /\ phi_C!index(valid_of(control)) \in Sides
<1> DEFINE pV == valid_of(control)
<1>1. (pV[0] <=> 0 \in control) /\ (pV[1] <=> 1 \in control)
  <2>1. 0 \in Sides /\ 1 \in Sides
        BY DEF Sides
  <2>2. pV[0] = (0 \in control) /\ pV[1] = (1 \in control)
        BY <2>1, Zenon DEF valid_of
  <2> QED BY <2>2
<1>2. phi_C!phi_valid(pV) <=> pV[0] \/ pV[1]
      BY DEF phi_C!phi_valid
<1>3. phi_C!index(pV) = IF pV[0] THEN 0 ELSE 1
      BY DEF phi_C!index
<1>4. phi_C!valid(1, pV) <=> cm_fork[1] /\ (phi_C!phi_valid(pV) \/ cm_full)
      BY DEF phi_C!valid, phi_C!fork_C1!valid, phi_C!oehb1!valid
<1>5. phi_C!condition(pV) = IF cm_full THEN cm_index ELSE phi_C!index(pV)
      BY DEF phi_C!condition, phi_C!oehb1!dataOut
<1> HIDE DEF pV
<1> QED BY <1>1, <1>2, <1>3, <1>4, <1>5 DEF pV, condValid_of, has, cond_of, Sides

\* The wires of mux v.
LEMMA MuxWires ==
  ASSUME RegsOK, MergeHoldsLast, NEW control \in {{}, {0}, {1}},
         NEW offers \in [Values -> SUBSET Sides], NEW v \in Values
  PROVE  LET cond == cond_of(control)
             pV   == muxValid_of(control, offers)[v]
             f    == finds(v, control, offers)
         IN  /\ phi(v)!tmp_valid_out(cond, pV) <=> f
             /\ phi(v)!readyCondition(cond, pV)
                  <=> ~(condValid_of(control) /\ cond_fork[v]) \/ (f /\ ~mux_full[v])
             /\ \A s \in offers[v] : phi(v)!readyData(s, cond, pV)
                                       <=> f /\ ~mux_full[v] /\ cond = s
             /\ f => phi(v)!tmp_data_out(cond, pV, token_of(offers)[v])
                       = <<cond, taken[v][cond] + 1>>
<1> DEFINE cond == cond_of(control)
           pV   == muxValid_of(control, offers)[v]
           f    == finds(v, control, offers)
           pC   == condValid_of(control) /\ cond_fork[v]
<1>1. cond \in Sides
      BY MergeWires DEF RegsOK
<1>2. (pV[0] <=> pC) /\ \A s \in Sides : pV[s + 1] <=> s \in offers[v]
  <2>1. 0 \in 0 .. 2 /\ \A s \in Sides : s + 1 \in 0 .. 2 /\ s + 1 # 0 /\ (s + 1) - 1 = s
        BY DEF Sides
  <2>2. pV = [i \in 0 .. 2 |-> IF i = 0 THEN fork_cond!valid(v, condValid_of(control))
                                        ELSE i - 1 \in offers[v]]
        BY DEF muxValid_of
  <2>3. pV[0] = fork_cond!valid(v, condValid_of(control))
        BY <2>1, <2>2, Zenon
  <2>4. fork_cond!valid(v, condValid_of(control)) <=> pC
        BY DEF fork_cond!valid
  <2>5. ASSUME NEW s \in Sides PROVE pV[s + 1] <=> s \in offers[v]
    <3>1. pV[s + 1] = ((s + 1) - 1 \in offers[v])
          BY <2>1, <2>2, Zenon
    <3> QED BY <2>1, <3>1
  <2> QED BY <2>3, <2>4, <2>5
<1>3. phi(v)!Predecessors = Sides
      BY DEF phi!Predecessors, Sides
<1>4. \A s \in Sides : phi(v)!Chosen(s, cond, pV) <=> cond = s /\ pC /\ s \in offers[v]
      BY <1>2 DEF phi!Chosen
<1>5. f <=> pC /\ cond \in offers[v]
      BY DEF finds
<1> HIDE DEF cond, pV, f, pC
<1>6. phi(v)!tmp_valid_out(cond, pV) <=> f
      BY <1>1, <1>3, <1>4, <1>5 DEF phi!tmp_valid_out
<1>7. phi(v)!readyCondition(cond, pV) <=> ~pC \/ (f /\ ~mux_full[v])
      BY <1>2, <1>6 DEF phi!readyCondition, phi!tehb1!ready
<1>8. ASSUME NEW s \in offers[v]
      PROVE  phi(v)!readyData(s, cond, pV) <=> f /\ ~mux_full[v] /\ cond = s
  <2>1. s \in Sides
        OBVIOUS
  <2>2. phi(v)!readyData(s, cond, pV) <=> phi(v)!Chosen(s, cond, pV) /\ ~mux_full[v]
        BY <1>2, <2>1 DEF phi!readyData, phi!tehb1!ready
  <2> QED BY <1>4, <1>5, <2>1, <2>2
<1>9. ASSUME f PROVE phi(v)!tmp_data_out(cond, pV, token_of(offers)[v])
                       = <<cond, taken[v][cond] + 1>>
  <2>1. cond \in offers[v]
        BY <1>5, <1>9
  <2>2. token_of(offers)[v][cond] = <<cond, taken[v][cond] + 1>>
        BY <1>1, <2>1 DEF token_of
  <2> QED BY <1>6, <1>9, <2>2 DEF phi!tmp_data_out
<1> QED BY <1>6, <1>7, <1>8, <1>9 DEF cond, pV, f, pC

\* What a cycle does to the registers of the cntrlMerge and of the fork of its
\* condition.
LEMMA CycleOfMerge ==
  ASSUME RegsOK, MergeHoldsLast, NEW control \in {{}, {0}, {1}},
         NEW offers \in [Values -> SUBSET Sides],
         NEW acceptControl \in BOOLEAN, NEW accept \in [Values -> BOOLEAN],
         Cycle(control, offers, acceptControl, accept)
  PROVE  LET more == has(control) /\ ((cm_fork[0] /\ ~acceptControl)
                                        \/ someLeft(control, offers))
         IN  /\ cm_full' \in BOOLEAN /\ (cm_full' <=> more)
             /\ cm_index' = IF ~cm_full /\ control # {} /\ more
                            THEN phi_C!index(valid_of(control)) ELSE cm_index
             /\ cm_fork' \in [Sides -> BOOLEAN]
             /\ ~more => cm_fork'[0] /\ cm_fork'[1]
             /\ more => (cm_fork'[1] <=> someLeft(control, offers))
             /\ cond_fork' \in [Values -> BOOLEAN]
             /\ \A v \in Values : cond_fork'[v] <=>
                  left(v, control, offers) \/ ~someLeft(control, offers)
<1> DEFINE pV == valid_of(control)
           cond == cond_of(control)
           condValid == phi_C!valid(1, pV)
           mV == [v \in Values |->
                   [i \in 0 .. 2 |-> IF i = 0 THEN fork_cond!valid(v, condValid)
                                              ELSE i - 1 \in offers[v]]]
           condReady == [v \in Values |-> phi(v)!readyCondition(cond, mV[v])]
           cmReady == [i \in 0 .. 1 |-> IF i = 0 THEN acceptControl
                                                 ELSE fork_cond!ready(condReady)]
           lefts == someLeft(control, offers)
<1>1. phi_C!Clock(pV, cmReady) /\ fork_cond!Clock(condValid, condReady)
      BY DEF Cycle, valid_of, cond_of
<1>2. condValid <=> condValid_of(control)
      BY MergeWires
<1>3. \A v \in Values : fork_cond!block_stop(v, condReady) <=> left(v, control, offers)
  <2> SUFFICES ASSUME NEW v \in Values
               PROVE  fork_cond!block_stop(v, condReady) <=> left(v, control, offers)
      OBVIOUS
  <2>1. mV[v] = muxValid_of(control, offers)[v]
        BY <1>2 DEF muxValid_of, fork_cond!valid
  <2>2. condReady[v] = phi(v)!readyCondition(cond, mV[v])
        BY Zenon
  <2>3. phi(v)!readyCondition(cond, muxValid_of(control, offers)[v])
          <=> ~(condValid_of(control) /\ cond_fork[v])
                \/ (finds(v, control, offers) /\ ~mux_full[v])
        BY MuxWires
  <2> HIDE DEF mV, condReady
  <2> QED BY <2>1, <2>2, <2>3 DEF fork_cond!block_stop, left
<1>4. fork_cond!Outputs = Values /\ phi_C!fork_C1!Outputs = Sides
      BY DEF fork_cond!Outputs, Values, phi_C!fork_C1!Outputs, Sides
<1>5. fork_cond!forkStop(condReady) <=> lefts
      BY <1>3, <1>4 DEF fork_cond!forkStop, someLeft
<1>6. lefts => condValid_of(control)
      BY DEF someLeft, left
<1>7. cond_fork' \in [Values -> BOOLEAN] /\ \A v \in Values : cond_fork'[v] <=>
                                             left(v, control, offers) \/ ~lefts
  <2>1. cond_fork' = [v \in Values |-> fork_cond!reg_in(v, condValid, condReady)]
        BY <1>1, <1>4 DEF fork_cond!Clock
  <2>2. \A v \in Values : fork_cond!reg_in(v, condValid, condReady)
                            <=> left(v, control, offers) \/ ~lefts
        BY <1>2, <1>3, <1>5, <1>6 DEF fork_cond!reg_in
  <2>3. \A v \in Values : fork_cond!reg_in(v, condValid, condReady) \in BOOLEAN
        BY DEF fork_cond!reg_in
  <2> HIDE DEF condValid, condReady, lefts
  <2> QED BY <2>1, <2>2, <2>3
<1>8. cmReady[0] = acceptControl /\ (cmReady[1] <=> ~lefts)
  <2>1. 0 \in 0 .. 1 /\ 1 \in 0 .. 1 /\ 1 # 0
        OBVIOUS
  <2>2. cmReady[0] = acceptControl /\ cmReady[1] = fork_cond!ready(condReady)
        BY <2>1, Zenon
  <2> QED BY <2>2, <1>5 DEF fork_cond!ready
<1> DEFINE stop == (cm_fork[0] /\ ~acceptControl) \/ lefts
<1> HIDE DEF pV, cond, condValid, condReady, cmReady
<1>9. \A i \in Sides : phi_C!fork_C1!block_stop(i, cmReady)
                         <=> IF i = 0 THEN cm_fork[0] /\ ~acceptControl ELSE lefts
      BY <1>6, <1>8 DEF phi_C!fork_C1!block_stop, condValid_of, Sides
<1>10. phi_C!fork_C1!forkStop(cmReady) <=> stop
      BY <1>4, <1>9 DEF phi_C!fork_C1!forkStop, Sides
<1>11. phi_C!oehb1!valid(phi_C!phi_valid(pV)) <=> has(control)
      BY MergeWires DEF phi_C!oehb1!valid, has, pV
<1>12. /\ cm_full' \in BOOLEAN /\ (cm_full' <=> has(control) /\ stop)
       /\ cm_index' = IF ~cm_full /\ control # {} /\ has(control) /\ stop
                      THEN phi_C!index(pV) ELSE cm_index
  <2>1. /\ cm_full' = phi_C!oehb1!full_next(phi_C!phi_valid(pV), phi_C!fork_C1!ready(cmReady))
        /\ cm_index' = phi_C!oehb1!data_next(phi_C!phi_valid(pV), phi_C!index(pV),
                                             phi_C!fork_C1!ready(cmReady))
        BY <1>1 DEF phi_C!Clock, phi_C!oehb1!Clock
  <2>2. phi_C!fork_C1!ready(cmReady) <=> ~stop
        BY <1>10 DEF phi_C!fork_C1!ready
  <2>3. phi_C!phi_valid(pV) <=> control # {}
        BY MergeWires DEF pV
  <2> HIDE DEF stop
  <2> QED BY <1>11, <2>1, <2>2, <2>3
          DEF phi_C!oehb1!full_next, phi_C!oehb1!data_next, phi_C!oehb1!reg_en, phi_C!oehb1!ready,
              has
<1>13. cm_fork' \in [Sides -> BOOLEAN]
       /\ \A i \in Sides : cm_fork'[i] <=>
            (IF i = 0 THEN cm_fork[0] /\ ~acceptControl ELSE lefts) \/ ~(has(control) /\ stop)
  <2>1. cm_fork' = [i \in Sides |-> phi_C!fork_C1!reg_in(i, phi_C!oehb1!valid(phi_C!phi_valid(pV)),
                                                         cmReady)]
        BY <1>1, <1>4 DEF phi_C!Clock, phi_C!fork_C1!Clock
  <2>2. \A i \in Sides : phi_C!fork_C1!reg_in(i, phi_C!oehb1!valid(phi_C!phi_valid(pV)), cmReady)
                           <=> phi_C!fork_C1!block_stop(i, cmReady) \/ ~(has(control) /\ stop)
        BY <1>10, <1>11 DEF phi_C!fork_C1!reg_in
  <2>3. \A i \in Sides :
          phi_C!fork_C1!reg_in(i, phi_C!oehb1!valid(phi_C!phi_valid(pV)), cmReady) \in BOOLEAN
        BY DEF phi_C!fork_C1!reg_in
  <2> HIDE DEF stop, lefts
  <2> QED BY <1>9, <2>1, <2>2, <2>3
<1> QED BY <1>7, <1>12, <1>13 DEF pV, Sides

\* What a cycle does to mux v and to the tokens it takes and hands on.
MuxMoves(v, control, offers, accept) ==
  LET cond  == cond_of(control)
      f     == finds(v, control, offers)
      token == IF mux_full[v] THEN mux_data[v] ELSE <<cond, taken[v][cond] + 1>>
  IN  /\ mux_full'[v] \in BOOLEAN /\ (mux_full'[v] <=> (f \/ mux_full[v]) /\ ~accept[v])
      /\ mux_data'[v] = IF f /\ ~mux_full[v] /\ ~accept[v] THEN token ELSE mux_data[v]
      /\ passed'[v] = IF (f \/ mux_full[v]) /\ accept[v]
                      THEN Append(passed[v], token) ELSE passed[v]
      /\ \A s \in Sides : taken'[v][s] =
           IF f /\ ~mux_full[v] /\ cond = s THEN taken[v][s] + 1 ELSE taken[v][s]

LEMMA CycleOfMux ==
  ASSUME RegsOK, MergeHoldsLast, NEW control \in {{}, {0}, {1}},
         NEW offers \in [Values -> SUBSET Sides],
         NEW acceptControl \in BOOLEAN, NEW accept \in [Values -> BOOLEAN],
         Cycle(control, offers, acceptControl, accept), NEW v \in Values
  PROVE  MuxMoves(v, control, offers, accept)
<1> DEFINE pV == valid_of(control)
           cond == cond_of(control)
           condValid == phi_C!valid(1, pV)
           mV == [w \in Values |->
                   [i \in 0 .. 2 |-> IF i = 0 THEN fork_cond!valid(w, condValid)
                                              ELSE i - 1 \in offers[w]]]
           f == finds(v, control, offers)
           passes(w) == phi(w)!valid(cond, mV[w]) /\ accept[w]
           word(w) == phi(w)!dataOut(cond, mV[w], token_of(offers)[w])
           takes(w, s) == s \in offers[w] /\ phi(w)!readyData(s, cond, mV[w])
<1>1. /\ mux_full' = [w \in Values |-> phi(w)!full_next(cond, mV[w], accept[w])]
      /\ mux_data' = [w \in Values |->
                        phi(w)!data_next(cond, mV[w], token_of(offers)[w], accept[w])]
      /\ taken' = [w \in Values |-> [s \in Sides |->
                     taken[w][s] + (IF takes(w, s) THEN 1 ELSE 0)]]
      /\ passed' = [w \in Values |-> IF passes(w) THEN Append(passed[w], word(w)) ELSE passed[w]]
      BY DEF Cycle, valid_of, cond_of, token_of
<1>2. mV[v] = muxValid_of(control, offers)[v]
  <2>1. condValid <=> condValid_of(control)
        BY MergeWires
  <2> QED BY <2>1 DEF muxValid_of, fork_cond!valid
<1>3. /\ phi(v)!tmp_valid_out(cond, mV[v]) <=> f
      /\ \A s \in offers[v] : phi(v)!readyData(s, cond, mV[v]) <=> f /\ ~mux_full[v] /\ cond = s
      /\ f => phi(v)!tmp_data_out(cond, mV[v], token_of(offers)[v]) = <<cond, taken[v][cond] + 1>>
      BY <1>2, MuxWires
<1>4. f => cond \in offers[v]
      BY DEF finds
<1> HIDE DEF mV, cond, f
<1>5. /\ mux_full'[v] = phi(v)!full_next(cond, mV[v], accept[v])
      /\ mux_data'[v] = phi(v)!data_next(cond, mV[v], token_of(offers)[v], accept[v])
      /\ passed'[v] = IF passes(v) THEN Append(passed[v], word(v)) ELSE passed[v]
      /\ \A s \in Sides : taken'[v][s] = taken[v][s] + (IF takes(v, s) THEN 1 ELSE 0)
  <2> HIDE DEF passes, word, takes
  <2> QED BY <1>1
<1>6. passes(v) <=> (f \/ mux_full[v]) /\ accept[v]
      BY <1>3 DEF phi!valid, phi!tehb1!valid
<1>7. f \/ mux_full[v] => word(v) = IF mux_full[v] THEN mux_data[v]
                                                   ELSE <<cond, taken[v][cond] + 1>>
      BY <1>3 DEF phi!dataOut, phi!tehb1!dataOut
<1>8. \A s \in Sides : takes(v, s) <=> f /\ ~mux_full[v] /\ cond = s
      BY <1>3, <1>4
<1>9. phi(v)!full_next(cond, mV[v], accept[v]) <=> (f \/ mux_full[v]) /\ ~accept[v]
      BY <1>3 DEF phi!full_next, phi!tehb1!full_next, phi!tehb1!valid
<1>10. phi(v)!full_next(cond, mV[v], accept[v]) \in BOOLEAN
      BY DEF phi!full_next, phi!tehb1!full_next, phi!tehb1!valid
<1>11. phi(v)!data_next(cond, mV[v], token_of(offers)[v], accept[v])
         = IF f /\ ~mux_full[v] /\ ~accept[v] THEN <<cond, taken[v][cond] + 1>> ELSE mux_data[v]
      BY <1>3 DEF phi!data_next, phi!tehb1!data_next, phi!tehb1!reg_en, phi!tehb1!ready
<1>12. \A s \in Sides : taken[v][s] \in Nat
      BY DEF RegsOK
<1> HIDE DEF passes, takes, word
<1> QED BY <1>5, <1>6, <1>7, <1>8, <1>9, <1>10, <1>11, <1>12 DEF MuxMoves, cond, f

------------------------------------------------------------------------------
\* The condition is the predecessor of the last control token that came.
LEMMA CycleOfOrder ==
  ASSUME RegsOK, MergeHoldsLast, NEW control \in {{}, {0}, {1}},
         NEW offers \in [Values -> SUBSET Sides],
         NEW acceptControl \in BOOLEAN, NEW accept \in [Values -> BOOLEAN],
         Cycle(control, offers, acceptControl, accept)
  PROVE  /\ order' = IF ~cm_full /\ control # {}
                     THEN Append(order, phi_C!index(valid_of(control))) ELSE order
         /\ order' \in Seq(Sides)
         /\ Len(order') = Len(order) + (IF ~cm_full /\ control # {} THEN 1 ELSE 0)
         /\ has(control) => Len(order') > 0 /\ order'[Len(order')] = cond_of(control)
<1> DEFINE i == phi_C!index(valid_of(control))
<1>1. i \in Sides /\ (control # {} => control = {i})
      BY MergeWires
<1>2. order' = IF ~cm_full /\ control # {} THEN Append(order, CHOOSE s \in control : TRUE)
                                           ELSE order
      BY DEF Cycle, phi_C!ready, phi_C!oehb1!ready
<1> HIDE DEF i
<1>3. order' = IF ~cm_full /\ control # {} THEN Append(order, i) ELSE order
      BY <1>1, <1>2
<1>4. order \in Seq(Sides) /\ cond_of(control) = IF cm_full THEN cm_index ELSE i
      BY MergeWires DEF RegsOK, i
<1> QED BY <1>1, <1>3, <1>4 DEF MergeHoldsLast, has, i

\* The registers and the history keep their types.
LEMMA CycleRegsOK ==
  ASSUME RegsOK, MergeHoldsLast, NEW control \in {{}, {0}, {1}},
         NEW offers \in [Values -> SUBSET Sides],
         NEW acceptControl \in BOOLEAN, NEW accept \in [Values -> BOOLEAN],
         Cycle(control, offers, acceptControl, accept)
  PROVE  RegsOK'
<1>1. cm_full' \in BOOLEAN /\ cm_index' \in Sides /\ cm_fork' \in [Sides -> BOOLEAN]
      /\ cond_fork' \in [Values -> BOOLEAN]
  <2>1. phi_C!index(valid_of(control)) \in Sides /\ cm_index \in Sides
        BY MergeWires DEF RegsOK
  <2>2. cm_index' \in {phi_C!index(valid_of(control)), cm_index}
        BY CycleOfMerge
  <2>3. cm_full' \in BOOLEAN /\ cm_fork' \in [Sides -> BOOLEAN]
        /\ cond_fork' \in [Values -> BOOLEAN]
        BY CycleOfMerge
  <2> QED BY <2>1, <2>2, <2>3
<1>2. /\ DOMAIN mux_full' = Values /\ mux_full' = [v \in Values |-> mux_full'[v]]
      /\ mux_data' = [v \in Values |-> mux_data'[v]]
      /\ passed' = [v \in Values |-> passed'[v]]
      /\ taken' = [v \in Values |-> [s \in Sides |-> taken'[v][s]]]
      BY DEF Cycle
<1>3. ASSUME NEW v \in Values
      PROVE  /\ mux_full'[v] \in BOOLEAN /\ mux_data'[v] \in Words
             /\ passed'[v] \in Seq(Words)
             /\ \A s \in Sides : taken'[v][s] \in Nat
  <2> DEFINE cond == cond_of(control)
             token == IF mux_full[v] THEN mux_data[v] ELSE <<cond, taken[v][cond] + 1>>
  <2>1. cond \in Sides
        BY MergeWires DEF RegsOK
  <2>2. /\ token \in Words /\ mux_data[v] \in Words /\ passed[v] \in Seq(Words)
        /\ \A s \in Sides : taken[v][s] \in Nat
        BY <2>1 DEF RegsOK, Words
  <2> DEFINE f == finds(v, control, offers)
  <2>3. /\ mux_full'[v] \in BOOLEAN
        /\ mux_data'[v] = IF f /\ ~mux_full[v] /\ ~accept[v] THEN token ELSE mux_data[v]
        /\ passed'[v] = IF (f \/ mux_full[v]) /\ accept[v]
                        THEN Append(passed[v], token) ELSE passed[v]
        /\ \A s \in Sides : taken'[v][s] =
             IF f /\ ~mux_full[v] /\ cond = s THEN taken[v][s] + 1 ELSE taken[v][s]
    <3>1. MuxMoves(v, control, offers, accept)
          BY CycleOfMux
    <3> QED BY <3>1 DEF MuxMoves
  <2> HIDE DEF token, f, cond
  <2>4. Append(passed[v], token) \in Seq(Words)
        BY <2>2
  <2> QED BY <2>2, <2>3, <2>4
<1>4. order' \in Seq(Sides)
      BY CycleOfOrder
<1> QED BY <1>1, <1>2, <1>3, <1>4 DEF RegsOK

\* The cntrlMerge goes on holding the last control token while it is waited for.
LEMMA CycleHoldsLast ==
  ASSUME RegsOK, MergeHoldsLast, NEW control \in {{}, {0}, {1}},
         NEW offers \in [Values -> SUBSET Sides],
         NEW acceptControl \in BOOLEAN, NEW accept \in [Values -> BOOLEAN],
         Cycle(control, offers, acceptControl, accept)
  PROVE  MergeHoldsLast'
<1> DEFINE lefts == someLeft(control, offers)
           more == has(control) /\ ((cm_fork[0] /\ ~acceptControl) \/ lefts)
<1>1. /\ cm_full' <=> more
      /\ cm_index' = IF ~cm_full /\ control # {} /\ more
                     THEN phi_C!index(valid_of(control)) ELSE cm_index
      /\ ~more => cm_fork'[0] /\ cm_fork'[1]
      /\ more => (cm_fork'[1] <=> lefts)
      /\ \A v \in Values : cond_fork'[v] <=> left(v, control, offers) \/ ~lefts
      BY CycleOfMerge
<1>2. lefts => more
      BY DEF someLeft, left, condValid_of
<1>3. cm_full' => cm_index' = cond_of(control) /\ has(control)
      BY <1>1, MergeWires DEF has
<1>4. cm_full' => Len(order') > 0 /\ cm_index' = order'[Len(order')]
  <2>1. has(control) => Len(order') > 0 /\ order'[Len(order')] = cond_of(control)
        BY CycleOfOrder
  <2> QED BY <1>3, <2>1
<1> HIDE DEF lefts, more
<1>5. ~cm_full' => \A i \in Sides : cm_fork'[i]
      BY <1>1 DEF Sides
<1>6. ~(cm_full' /\ cm_fork'[1]) => \A v \in Values : cond_fork'[v]
      BY <1>1, <1>2
<1> QED BY <1>4, <1>5, <1>6 DEF MergeHoldsLast

\* Each mux stays in step with the conditions.
LEMMA CycleInStep ==
  ASSUME RegsOK, MergeHoldsLast, NEW control \in {{}, {0}, {1}},
         NEW offers \in [Values -> SUBSET Sides],
         NEW acceptControl \in BOOLEAN, NEW accept \in [Values -> BOOLEAN],
         Cycle(control, offers, acceptControl, accept), NEW v \in Values, InStep(v)
  PROVE  InStep(v)'
<1> DEFINE n == Len(order)
           d == conds(v)
           cond == cond_of(control)
           f == finds(v, control, offers)
           took == f /\ ~mux_full[v]
           token == IF mux_full[v] THEN mux_data[v] ELSE <<cond, taken[v][cond] + 1>>
           open == condValid_of(control) /\ cond_fork[v]
<1>0. /\ n \in Nat /\ order \in Seq(Sides) /\ order' \in Seq(Sides)
      /\ Len(order') = n + (IF ~cm_full /\ control # {} THEN 1 ELSE 0)
      /\ has(control) => Len(order') > 0 /\ order'[Len(order')] = cond
  <2>1. /\ order' \in Seq(Sides)
        /\ Len(order') = Len(order) + (IF ~cm_full /\ control # {} THEN 1 ELSE 0)
        /\ has(control) => Len(order') > 0 /\ order'[Len(order')] = cond_of(control)
        BY CycleOfOrder
  <2>2. order \in Seq(Sides) /\ Len(order) \in Nat
        BY DEF RegsOK
  <2> QED BY <2>1, <2>2
<1>1. d = IF open THEN Len(order') - 1 ELSE Len(order')
      BY <1>0 DEF conds, waits, condValid_of, has, MergeHoldsLast, Sides
<1>2. conds(v)' = IF left(v, control, offers) THEN Len(order') - 1 ELSE Len(order')
  <2> DEFINE lefts == someLeft(control, offers)
             more == has(control) /\ ((cm_fork[0] /\ ~acceptControl) \/ lefts)
  <2>1. /\ cm_full' <=> more
        /\ more => (cm_fork'[1] <=> lefts)
        /\ cond_fork'[v] <=> left(v, control, offers) \/ ~lefts
        BY CycleOfMerge
  <2>2. left(v, control, offers) => lefts /\ more
        BY DEF someLeft, left, condValid_of
  <2> HIDE DEF lefts, more
  <2>3. waits(v)' <=> left(v, control, offers)
        BY <2>1, <2>2 DEF waits
  <2> QED BY <2>3 DEF conds
<1>3. conds(v)' = d + (IF took THEN 1 ELSE 0)
  <2>1. left(v, control, offers) <=> open /\ ~took
        BY DEF left
  <2>2. took => open
        BY DEF finds
  <2>3. Len(order') \in Nat
        BY <1>0
  <2> DEFINE m == Len(order')
             l == left(v, control, offers)
  <2> HIDE DEF d, took, open, m, l
  <2>4. d = (IF open THEN m - 1 ELSE m) /\ m \in Nat
        BY <1>1, <2>3 DEF m
  <2>5. conds(v)' = IF l THEN m - 1 ELSE m
        BY <1>2 DEF m, l
  <2>6. (l <=> open /\ ~took) /\ (took => open)
        BY <2>1, <2>2 DEF l
  <2> QED BY <2>4, <2>5, <2>6
<1>4. d \in 0 .. n
      BY <1>0 DEF conds, waits, MergeHoldsLast
<1> PICK e \in Nat : e = d
    BY <1>0, <1>4
<1> PICK g \in Nat : g = conds(v)'
    BY <1>3, <1>4
<1>5. ASSUME NEW k \in 0 .. e
      PROVE  (\A s \in Sides : among(s, k)' = among(s, k)) /\ (k > 0 => Expected(k)' = Expected(k))
  <2>1. k \in 0 .. Len(order)
        BY <1>0, <1>4
  <2>2. PICK t \in Sides : order' = order \/ order' = Append(order, t)
    <3>1. phi_C!index(valid_of(control)) \in Sides
          BY MergeWires
    <3>2. order' = IF ~cm_full /\ control # {}
                   THEN Append(order, phi_C!index(valid_of(control))) ELSE order
          BY CycleOfOrder
    <3> QED BY <3>1, <3>2
  <2>3. \A s \in Sides : among(s, k)' = among(s, k)
        BY <1>0, <2>1, <2>2, AmongKept
  <2>4. k > 0 => Expected(k)' = Expected(k)
        BY <1>0, <2>1, <2>2, AmongKept
  <2> QED BY <2>3, <2>4
<1>6. took => cond \in Sides /\ order'[e + 1] = cond /\ g = e + 1
  <2>1. took => open /\ has(control)
        BY DEF finds, condValid_of
  <2>2. cond \in Sides
        BY MergeWires DEF RegsOK
  <2>3. g = e + (IF took THEN 1 ELSE 0)
        BY <1>3
  <2> HIDE DEF d, took, open
  <2> QED BY <1>0, <1>1, <2>1, <2>2, <2>3
<1>7. ASSUME took, NEW s \in Sides
      PROVE  among(s, g)' = among(s, e) + (IF cond = s THEN 1 ELSE 0)
  <2>1. count(order', s, e + 1) = count(order', s, e) + (IF order'[e + 1] = s THEN 1 ELSE 0)
        BY CountNext
  <2>2. count(order', s, e) = among(s, e)' /\ among(s, e)' = among(s, e)
        BY <1>5 DEF count, among
  <2>3. count(order', s, e + 1) = among(s, g)'
        BY <1>6, <1>7 DEF count, among
  <2> QED BY <1>6, <1>7, <2>1, <2>2, <2>3
<1>8. /\ e = Len(passed[v]) + (IF mux_full[v] THEN 1 ELSE 0)
      /\ \A k \in DOMAIN passed[v] : passed[v][k] = Expected(k)
      /\ mux_full[v] => mux_data[v] = Expected(e)
      /\ \A s \in Sides : taken[v][s] = among(s, e)
      BY DEF InStep
<1>9. MuxMoves(v, control, offers, accept)
      BY CycleOfMux
<1>10. took \/ g = e
  <2>1. g = e + (IF took THEN 1 ELSE 0) /\ e \in Nat
        BY <1>0, <1>3
  <2> QED BY <2>1
<1>11. \A s \in Sides : taken'[v][s] = among(s, g)'
  <2> SUFFICES ASSUME NEW s \in Sides PROVE taken'[v][s] = among(s, g)'
      OBVIOUS
  <2>1. taken[v][s] = among(s, e) /\ taken[v][s] \in Nat
        BY <1>8 DEF RegsOK
  <2>2. CASE took
        BY <1>7, <1>9, <2>1, <2>2 DEF MuxMoves
  <2>3. CASE ~took
    <3>1. taken'[v][s] = taken[v][s]
          BY <1>9, <2>3 DEF MuxMoves
    <3>2. among(s, g)' = among(s, e)
          BY <1>5, <1>10, <2>3
    <3> QED BY <2>1, <3>1, <3>2
  <2> QED BY <2>2, <2>3
<1> PICK c \in Sides : took => c = cond
    BY <1>6 DEF Sides
<1>12. ASSUME took PROVE token = Expected(g)' /\ g = Len(passed[v]) + 1
  <2>1. c = cond /\ g = e + 1 /\ order'[g] = c /\ ~mux_full[v]
        BY <1>6, <1>12
  <2>2. among(c, g)' = among(c, e) + 1
        BY <1>7, <1>12, <2>1
  <2>3. token = <<c, among(c, e) + 1>>
        BY <1>8, <2>1
  <2>4. Expected(g)' = <<order'[g], count(order', order'[g], g)>>
        BY DEF Expected, among, count
  <2>5. among(c, g)' = count(order', c, g)
        BY DEF among, count
  <2> QED BY <1>8, <2>1, <2>2, <2>3, <2>4, <2>5
<1>13. ASSUME mux_full[v] PROVE token = Expected(g)' /\ g = Len(passed[v]) + 1
  <2>1. g = e /\ e > 0
        BY <1>8, <1>10, <1>13 DEF RegsOK
  <2>2. Expected(g)' = Expected(e)
        BY <1>0, <1>5, <2>1
  <2> QED BY <1>8, <1>13, <2>1, <2>2
<1>14. f \/ mux_full[v] => token = Expected(g)' /\ g = Len(passed[v]) + 1
      BY <1>12, <1>13
<1>15. ~(f \/ mux_full[v]) => g = Len(passed[v])
      BY <1>8, <1>10 DEF RegsOK
<1>16. \A k \in DOMAIN passed[v] : passed[v][k] = Expected(k)'
  <2> SUFFICES ASSUME NEW k \in DOMAIN passed[v] PROVE passed[v][k] = Expected(k)'
      OBVIOUS
  <2>1. k \in 0 .. e /\ k > 0
        BY <1>8 DEF RegsOK
  <2> QED BY <1>5, <1>8, <2>1
<1>17. /\ mux_full'[v] \in BOOLEAN /\ (mux_full'[v] <=> (f \/ mux_full[v]) /\ ~accept[v])
       /\ mux_data'[v] = IF f /\ ~mux_full[v] /\ ~accept[v] THEN token ELSE mux_data[v]
       /\ passed'[v] = IF (f \/ mux_full[v]) /\ accept[v]
                       THEN Append(passed[v], token) ELSE passed[v]
       /\ mux_full[v] => token = mux_data[v]
      BY <1>9 DEF MuxMoves
<1> DEFINE old == passed[v]
           new == passed'[v]
<1>18. old \in Seq(Words) /\ Len(old) \in Nat
      BY DEF RegsOK
<1> HIDE DEF f, token, took, old, new
<1>19. \A x : /\ Len(Append(old, x)) = Len(old) + 1
              /\ DOMAIN Append(old, x) = 1 .. Len(old) + 1
              /\ \A k \in DOMAIN old : Append(old, x)[k] = old[k]
              /\ Append(old, x)[Len(old) + 1] = x
      BY <1>18
<1>20. g = Len(new) + (IF mux_full'[v] THEN 1 ELSE 0)
  <2> DEFINE h == f \/ mux_full[v]
  <2>1. (mux_full'[v] <=> h /\ ~accept[v])
        /\ new = IF h /\ accept[v] THEN Append(old, token) ELSE old
        BY <1>17 DEF old, new
  <2>2. g = IF h THEN Len(old) + 1 ELSE Len(old)
        BY <1>14, <1>15 DEF old
  <2> HIDE DEF h
  <2>3. CASE h /\ accept[v]
        BY <1>18, <1>19, <2>1, <2>2, <2>3
  <2>4. CASE h /\ ~accept[v]
    <3>1. mux_full'[v] = TRUE /\ new = old
          BY <1>17, <2>1, <2>4
    <3> QED BY <1>18, <2>2, <2>4, <3>1
  <2>5. CASE ~h
    <3>1. mux_full'[v] = FALSE /\ new = old
          BY <1>17, <2>1, <2>5
    <3> QED BY <1>18, <2>2, <2>5, <3>1
  <2> QED BY <2>3, <2>4, <2>5
<1>21. \A k \in DOMAIN new : new[k] = Expected(k)'
  <2>1. CASE (f \/ mux_full[v]) /\ accept[v]
    <3>1. new = Append(old, token)
          BY <1>17, <2>1 DEF old, new
    <3> SUFFICES ASSUME NEW k \in DOMAIN new PROVE new[k] = Expected(k)'
        OBVIOUS
    <3>2. CASE k \in DOMAIN old
          BY <1>16, <1>19, <3>1, <3>2 DEF old
    <3>3. CASE k \notin DOMAIN old
      <4>1. k = g
            BY <1>14, <1>18, <1>19, <2>1, <3>1, <3>3 DEF old
      <4>2. new[g] = token
            BY <1>14, <1>19, <2>1, <3>1 DEF old
      <4> QED BY <1>14, <2>1, <4>1, <4>2
    <3> QED BY <3>2, <3>3
  <2>2. CASE ~((f \/ mux_full[v]) /\ accept[v])
        BY <1>16, <1>17, <2>2 DEF new
  <2> QED BY <2>1, <2>2
<1>22. mux_full'[v] => mux_data'[v] = Expected(g)'
      BY <1>14, <1>17
<1> QED BY <1>11, <1>20, <1>21, <1>22 DEF InStep, Expected, among, new

------------------------------------------------------------------------------
LEMMA InitInv == Init => EntryInv
<1> SUFFICES ASSUME Init PROVE EntryInv
    OBVIOUS
<1>1. /\ cm_full = FALSE /\ cm_index = 0 /\ cm_fork = [i \in Sides |-> TRUE]
      /\ cond_fork = [v \in Values |-> TRUE]
      BY DEF Init, phi_C!Reset, phi_C!oehb1!Reset, phi_C!fork_C1!Reset, phi_C!fork_C1!Outputs,
             fork_cond!Reset, fork_cond!Outputs, Sides, Values
<1>2. /\ mux_full = [v \in Values |-> FALSE] /\ mux_data = [v \in Values |-> <<0, 0>>]
      /\ order = <<>> /\ taken = [v \in Values |-> [s \in Sides |-> 0]]
      /\ passed = [v \in Values |-> <<>>]
      BY DEF Init
<1>3. RegsOK
  <2>1. 0 \in Sides /\ <<0, 0>> \in Words /\ <<>> \in Seq(Sides) /\ <<>> \in Seq(Words)
        BY DEF Words, Sides
  <2> QED BY <1>1, <1>2, <2>1 DEF RegsOK
<1>4. MergeHoldsLast
      BY <1>1 DEF MergeHoldsLast
<1>5. ASSUME NEW v \in Values PROVE InStep(v)
  <2>1. conds(v) = 0
        BY <1>1, <1>2 DEF conds, waits
  <2>2. \A s \in Sides : among(s, 0) = 0
        BY CountNext DEF among, count
  <2> QED BY <1>2, <2>1, <2>2 DEF InStep
<1> QED BY <1>3, <1>4, <1>5 DEF EntryInv

LEMMA NextInv == EntryInv /\ [Next]_vars => EntryInv'
<1> SUFFICES ASSUME EntryInv, [Next]_vars PROVE EntryInv'
    OBVIOUS
<1>1. CASE UNCHANGED vars
  <2>1. /\ cm_full' = cm_full /\ cm_index' = cm_index /\ cm_fork' = cm_fork
        /\ cond_fork' = cond_fork /\ mux_full' = mux_full /\ mux_data' = mux_data
        /\ order' = order /\ taken' = taken /\ passed' = passed
        BY <1>1 DEF vars, circuit
  <2>2. RegsOK'
        BY <2>1 DEF EntryInv, RegsOK
  <2>3. MergeHoldsLast'
        BY <2>1 DEF EntryInv, MergeHoldsLast
  <2>4. ASSUME NEW v \in Values PROVE InStep(v)'
    <3>1. InStep(v)
          BY DEF EntryInv
    <3>2. conds(v)' = conds(v)
          BY <2>1 DEF conds, waits
    <3> QED BY <2>1, <3>1, <3>2 DEF InStep, Expected, among
  <2> QED BY <2>2, <2>3, <2>4 DEF EntryInv
<1>2. ASSUME NEW control \in ControlOffers, NEW offers \in [Values -> SUBSET Sides],
             NEW acceptControl \in BOOLEAN, NEW accept \in [Values -> BOOLEAN],
             Cycle(control, offers, acceptControl, accept)
      PROVE  EntryInv'
  <2>1. control \in {{}, {0}, {1}}
        BY DEF ControlOffers, Sides
  <2>2. RegsOK /\ MergeHoldsLast /\ \A v \in Values : InStep(v)
        BY DEF EntryInv
  <2>3. RegsOK' /\ MergeHoldsLast'
        BY <1>2, <2>1, <2>2, CycleRegsOK, CycleHoldsLast
  <2>4. \A v \in Values : InStep(v)'
        BY <1>2, <2>1, <2>2, CycleInStep
  <2> QED BY <2>3, <2>4 DEF EntryInv
<1> QED BY <1>1, <1>2 DEF Next

\* The cntrlMerge, the fork of its condition and the muxes stay in step: each mux
\* has taken its tokens in the order in which control came, and at most the last
\* of them waits in a register.
THEOREM StaysInStep == Spec => []EntryInv
BY InitInv, NextInv, PTL DEF Spec

\* The values that meet in a block belong to one iteration: the k-th token of
\* every live-in is the one of the predecessor whose control token came k-th,
\* however the channels are delayed.
THEOREM PairsIterations == Spec => []SameIteration
<1>1. EntryInv => SameIteration
  <2> SUFFICES ASSUME EntryInv, NEW v \in Values, NEW k \in DOMAIN passed[v]
               PROVE  k <= Len(order) /\ passed[v][k] = Expected(k)
      BY DEF SameIteration
  <2>1. passed[v] \in Seq(Words) /\ Len(order) \in Nat
        BY DEF EntryInv, RegsOK
  <2>2. InStep(v)
        BY DEF EntryInv
  <2>3. conds(v) = Len(passed[v]) + (IF mux_full[v] THEN 1 ELSE 0)
        BY <2>2 DEF InStep
  <2>4. k \in 1 .. Len(passed[v]) /\ passed[v][k] = Expected(k)
        BY <2>1, <2>2 DEF InStep
  <2>5. Len(passed[v]) <= conds(v) /\ conds(v) <= Len(order) /\ conds(v) \in Int
    <3>1. Len(passed[v]) \in Nat
          BY <2>1
    <3>2. conds(v) = Len(order) \/ conds(v) = Len(order) - 1
          BY DEF conds
    <3> DEFINE m == Len(passed[v])
               n == Len(order)
               d == conds(v)
    <3>3. d = m \/ d = m + 1
      <4>1. CASE mux_full[v]
            BY <2>3, <4>1
      <4>2. CASE ~mux_full[v]
        <5>1. d = m + 0
              BY <2>3, <4>2
        <5> QED BY <3>1, <5>1
      <4> QED BY <4>1, <4>2
    <3>4. m \in Nat /\ n \in Nat /\ (d = n \/ d = n - 1)
          BY <2>1, <3>1, <3>2
    <3> HIDE DEF m, n, d
    <3>5. m <= d /\ d <= n /\ d \in Int
          BY <3>3, <3>4
    <3> QED BY <3>5 DEF m, n, d
  <2> QED BY <2>1, <2>4, <2>5
<1> QED BY <1>1, StaysInStep, PTL
=============================================================================
