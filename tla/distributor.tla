----------------------------- MODULE distributor -----------------------------
(***************************************************************************)
(* entity distributor: a branchGen, which sends a word to the output its    *)
(* condition names, and a TEHB on each output.  A cell.                     *)
(***************************************************************************)
EXTENDS Naturals

CONSTANTS OUTPUTS, Zero

VARIABLES full_reg, data_reg    \* per output

Outputs == 0 .. OUTPUTS - 1

buff(I) == INSTANCE TEHB WITH full_reg <- full_reg[I], data_reg <- data_reg[I]

Reset == /\ full_reg = [I \in Outputs |-> FALSE]
         /\ data_reg = [I \in Outputs |-> Zero]

branchReady(condition) == buff(condition)!ready

\* The join of branchGen: each input is ready when the other is valid.
ready(condition, otherValid) == branchReady(condition) /\ otherValid

\* Mutant: the word goes to every output.
branchValid_All(I, condition, dataValid, condValid) == dataValid /\ condValid
branchValid(I, condition, dataValid, condValid) ==
  dataValid /\ condValid /\ condition = I

valid(I, condition, dataValid, condValid) ==
  buff(I)!valid(branchValid(I, condition, dataValid, condValid))

dataOut(I, dataIn) == buff(I)!dataOut(dataIn)

Clock(condition, dataIn, dataValid, condValid, nReady) ==
  /\ full_reg' = [I \in Outputs |->
       buff(I)!full_next(branchValid(I, condition, dataValid, condValid),
                         nReady[I])]
  /\ data_reg' = [I \in Outputs |->
       buff(I)!data_next(branchValid(I, condition, dataValid, condValid),
                         dataIn, nReady[I])]
==============================================================================
