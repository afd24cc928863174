-------------------------------- MODULE TEHB --------------------------------
(***************************************************************************)
(* Transparent elastic half buffer: one register that catches the token the *)
(* consumer refuses.  A cell: its registers, its output wires as functions  *)
(* of its input wires, and what a rising edge stores.                       *)
(***************************************************************************)
CONSTANT Zero
VARIABLES full_reg, data_reg

Reset == full_reg = FALSE /\ data_reg = Zero

valid(pValid) == pValid \/ full_reg
ready == ~full_reg
dataOut(dataIn) == IF full_reg THEN data_reg ELSE dataIn
reg_en(pValid, nReady) == ready /\ pValid /\ ~nReady

\* What the registers hold after the edge; a bank of buffers uses these.
\* Mutant: forgets the token it holds when the producer pauses.
full_next_Forgets(pValid, nReady) == pValid /\ ~nReady
full_next(pValid, nReady) == valid(pValid) /\ ~nReady
data_next(pValid, dataIn, nReady) ==
  IF reg_en(pValid, nReady) THEN dataIn ELSE data_reg

Clock(pValid, dataIn, nReady) ==
  /\ full_reg' = full_next(pValid, nReady)
  /\ data_reg' = data_next(pValid, dataIn, nReady)
==============================================================================
