--------------------------------- MODULE mux ---------------------------------
(***************************************************************************)
(* entity mux: the data merge at the entry of a basic block.  Input 0 is    *)
(* the condition, input I+1 the data of predecessor I; the token it names   *)
(* leaves through a TEHB.  A cell.                                          *)
(***************************************************************************)
EXTENDS Naturals

CONSTANTS Zero, INPUTS   \* INPUTS counts the condition too
VARIABLES full_reg, data_reg

tehb1 == INSTANCE TEHB

Reset == tehb1!Reset

Predecessors == 0 .. INPUTS - 2

\* The condition names predecessor I, and both tokens are there.
Chosen(I, cond, pValid) == cond = I /\ pValid[0] /\ pValid[I + 1]

tmp_valid_out(cond, pValid) ==
  \E I \in Predecessors : Chosen(I, cond, pValid)

tmp_data_out(cond, pValid, dataIn) ==
  IF tmp_valid_out(cond, pValid) THEN dataIn[cond] ELSE dataIn[0]

\* Mutant: an input is consumed without regard to the condition.
readyData_AnyInput(I, cond, pValid) == tehb1!ready
readyData(I, cond, pValid) ==
  (Chosen(I, cond, pValid) /\ tehb1!ready) \/ ~pValid[I + 1]

readyCondition(cond, pValid) ==
  ~pValid[0] \/ (tmp_valid_out(cond, pValid) /\ tehb1!ready)

valid(cond, pValid) == tehb1!valid(tmp_valid_out(cond, pValid))

dataOut(cond, pValid, dataIn) ==
  tehb1!dataOut(tmp_data_out(cond, pValid, dataIn))

full_next(cond, pValid, nReady) ==
  tehb1!full_next(tmp_valid_out(cond, pValid), nReady)

data_next(cond, pValid, dataIn, nReady) ==
  tehb1!data_next(tmp_valid_out(cond, pValid),
                  tmp_data_out(cond, pValid, dataIn), nReady)

Clock(cond, pValid, dataIn, nReady) ==
  /\ full_reg' = full_next(cond, pValid, nReady)
  /\ data_reg' = data_next(cond, pValid, dataIn, nReady)
==============================================================================
