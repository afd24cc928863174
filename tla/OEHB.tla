-------------------------------- MODULE OEHB --------------------------------
(***************************************************************************)
(* Opaque elastic half buffer: a register between producer and consumer     *)
(* that accepts a new token while it hands over the old one.  A cell.       *)
(***************************************************************************)
CONSTANT Zero
VARIABLES valid_reg, data_reg   \* valid_reg drives validArray(0)

Reset == valid_reg = FALSE /\ data_reg = Zero

ready(nReady) == ~valid_reg \/ nReady
reg_en(pValid, nReady) == ready(nReady) /\ pValid

valid_next(pValid, nReady) == pValid \/ ~ready(nReady)

data_next(pValid, dataIn, nReady) ==
  IF reg_en(pValid, nReady) THEN dataIn ELSE data_reg

Clock(pValid, dataIn, nReady) ==
  /\ valid_reg' = valid_next(pValid, nReady)
  /\ data_reg' = data_next(pValid, dataIn, nReady)
==============================================================================
