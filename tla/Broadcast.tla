------------------------------ MODULE Broadcast ------------------------------
(***************************************************************************)
(* What a fork promises: each output receives every input token exactly     *)
(* once, as soon as it is ready for it, and the input token is consumed in  *)
(* the cycle that serves the last output.                                   *)
(***************************************************************************)
EXTENDS Handshake

CONSTANT Outputs

VARIABLES
  pending,   \* the outputs that have not had the current token yet
  edge       \* in, ready, and per output out and nReady

Cycle(in, nReady) ==
  LET served == {i \in pending : nReady[i]}
      done   == pending = served
  IN  \* a token that some outputs have had stays the current one
      /\ pending # Outputs => in = edge.in
      /\ pending' = IF in = NoToken THEN pending
                    ELSE IF done THEN Outputs ELSE pending \ served
      /\ edge' = [in |-> in, ready |-> done,
                  out |-> [i \in Outputs |-> IF i \in pending THEN in
                                                              ELSE NoToken],
                  nReady |-> nReady]

Init ==
  /\ pending = Outputs
  /\ edge = [in |-> NoToken, ready |-> FALSE,
             out |-> [i \in Outputs |-> NoToken],
             nReady |-> [i \in Outputs |-> FALSE]]

Next == \E in \in Token, nReady \in [Outputs -> BOOLEAN] : Cycle(in, nReady)

Spec == Init /\ [][Next]_<<pending, edge>>
==============================================================================
