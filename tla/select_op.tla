------------------------------ MODULE select_op ------------------------------
(***************************************************************************)
(* entity select_op with its antitokens: an early-evaluation select.  It    *)
(* fires as soon as the condition and the operand it names are valid, and   *)
(* leaves an antitoken on the other operand's input, which kills that       *)
(* operand when it arrives; until then the select is stopped.               *)
(*                                                                          *)
(* Input 0 is the condition, 1 the true and 2 the false operand.  The k-th  *)
(* token of operand i is <<i, k>>, and <<i, 0>> what its wires carry when   *)
(* they offer none.  Producers are persistent.                              *)
(***************************************************************************)
EXTENDS Naturals, Sequences

CONSTANT N   \* bound: selects performed

ASSUME NAssumption == N \in Nat \ {0}

Inputs == 0 .. 2

VARIABLES
  conditions,           \* the conditions of the N selects
  reg_out0, reg_out1,   \* antitokens waiting for operands 1 and 2
  consumed,             \* consumed[i]: tokens taken from input i
  waiting,              \* inputs whose token was offered and refused
  offer,                \* what the output offered at the last edge, or <<>>
  nReady,               \* whether it was taken
  results               \* the tokens handed on

vars == <<conditions, reg_out0, reg_out1, consumed, waiting, offer, nReady,
          results>>

Init ==
  /\ conditions \in [1 .. N -> BOOLEAN]
  /\ reg_out0 = FALSE /\ reg_out1 = FALSE
  /\ consumed = [i \in Inputs |-> 0]
  /\ waiting = {}
  /\ offer = <<>> /\ nReady = FALSE
  /\ results = <<>>

\* Mutant: fires on any operand.
ee_AnyOperand(c, pValid) == pValid[0] /\ (pValid[1] \/ pValid[2])
\* The condition and the operand it names are valid.
ee(c, pValid) == pValid[0] /\ IF c THEN pValid[1] ELSE pValid[2]

stop_valid == reg_out0 \/ reg_out1

validInternal(c, pValid) == ee(c, pValid) /\ ~stop_valid

\* The select fires without operand i: an antitoken for it is generated.
generates(i, c, pValid, accept) ==
  ~pValid[i] /\ validInternal(c, pValid) /\ accept

\* kill0 is for operand 1, kill1 for operand 2.
kill(i, c, pValid, accept) ==
  generates(i, c, pValid, accept) \/ (IF i = 1 THEN reg_out0 ELSE reg_out1)

\* An antitoken waits for as long as its operand does not come.
\* Mutant: it never goes away.
reg_in_Stuck(i, c, pValid, accept) == kill(i, c, pValid, accept)
reg_in(i, c, pValid, accept) == ~pValid[i] /\ kill(i, c, pValid, accept)

\* Mutant: an antitoken does not consume the operand it kills.
ready_NoKill(i, c, pValid, accept) ==
  ~pValid[i] \/ (validInternal(c, pValid) /\ accept)
ready(i, c, pValid, accept) ==
  \/ ~pValid[i]
  \/ validInternal(c, pValid) /\ accept
  \/ i # 0 /\ kill(i, c, pValid, accept)

dataOut(c, dataIn) == IF c THEN dataIn[1] ELSE dataIn[2]

Cycle(offered, accept) ==
  LET pValid == [i \in Inputs |-> i \in offered]
      c == 0 \in offered /\ conditions[consumed[0] + 1]
      data == [i \in 1 .. 2 |-> IF i \in offered THEN <<i, consumed[i] + 1>>
                                                    ELSE <<i, 0>>]
      taken == {i \in offered : ready(i, c, pValid, accept)}
      valid == validInternal(c, pValid)
  IN  /\ reg_out0' = reg_in(1, c, pValid, accept)
      /\ reg_out1' = reg_in(2, c, pValid, accept)
      /\ consumed' = [i \in Inputs |->
                       IF i \in taken THEN consumed[i] + 1 ELSE consumed[i]]
      /\ waiting' = offered \ taken
      /\ offer' = IF valid THEN dataOut(c, data) ELSE <<>>
      /\ nReady' = accept
      /\ results' = IF valid /\ accept THEN Append(results, dataOut(c, data))
                                       ELSE results
      /\ UNCHANGED conditions

Next ==
  \E offered \in SUBSET {i \in Inputs : consumed[i] < N}, accept \in BOOLEAN :
    waiting \subseteq offered /\ Cycle(offered, accept)

Spec == Init /\ [][Next]_vars

\* The clock runs, every producer delivers, the consumer gets ready.
Fairness ==
  /\ \A i \in Inputs :
       WF_vars(\E offered \in SUBSET {j \in Inputs : consumed[j] < N},
                  accept \in BOOLEAN :
                 waiting \cup {i} \subseteq offered /\ Cycle(offered, accept))
  /\ WF_vars(\E offered \in SUBSET {j \in Inputs : consumed[j] < N} :
               waiting \subseteq offered /\ Cycle(offered, TRUE))

FairSpec == Spec /\ Fairness
------------------------------------------------------------------------------
\* The k-th result is the k-th operand the k-th condition names: an antitoken
\* kills the operand of its own select and never one of a later select.
SelectsInOrder ==
  \A k \in DOMAIN results :
    results[k] = IF conditions[k] THEN <<1, k>> ELSE <<2, k>>

\* An operand is ahead of the results only by the one it offers early, and
\* behind them only by the one its antitoken waits for.
OperandsAligned ==
  /\ consumed[0] = Len(results)
  /\ consumed[1] + (IF reg_out0 THEN 1 ELSE 0) = Len(results)
  /\ consumed[2] + (IF reg_out1 THEN 1 ELSE 0) = Len(results)

\* All selects are performed, and all operands consumed.
EventuallyAllSelected == <>(Len(results) = N /\ consumed[1] = N /\ consumed[2] = N)
==============================================================================
