----------------------------- MODULE cntrlMerge -----------------------------
(***************************************************************************)
(* entity cntrlMerge: merges the control tokens of two predecessor blocks   *)
(* and tells, through condition, which of them sent the token.  It is a     *)
(* merge_notehb, a TEHB that carries the index, and a two-way fork whose    *)
(* output 0 is the control token and output 1 the condition.  A cell.       *)
(***************************************************************************)
EXTENDS Naturals

VARIABLES full_reg, index_reg, fork_reg

oehb1 == INSTANCE TEHB WITH Zero <- 0, data_reg <- index_reg

\* A control token carries no word, hence the placeholders.
fork_C1 == INSTANCE fork WITH SIZE <- 2, reg_value <- fork_reg, edge <- <<>>,
                              Data <- {0}, Zero <- 0, NoToken <- 1

Reset == oehb1!Reset /\ fork_C1!Reset

\* phi_C1, a merge_notehb: valid when some input is, the same ready for all.
phi_valid(pValid) == \E i \in 0 .. 1 : pValid[i]

index(pValid) == IF pValid[0] THEN 0 ELSE 1

\* readyArray(0) and readyArray(1) are the same wire.
ready == oehb1!ready

\* output 0 is the control token, output 1 the condition
valid(i, pValid) == fork_C1!valid(i, oehb1!valid(phi_valid(pValid)))

condition(pValid) == oehb1!dataOut(index(pValid))

Clock(pValid, nReady) ==
  /\ oehb1!Clock(phi_valid(pValid), index(pValid), fork_C1!ready(nReady))
  /\ fork_C1!Clock(oehb1!valid(phi_valid(pValid)), nReady)
==============================================================================
