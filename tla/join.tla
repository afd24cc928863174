--------------------------------- MODULE join ---------------------------------
(***************************************************************************)
(* entity join: a token leaves when every input has one; an input is taken  *)
(* when all the others are there and the consumer is ready.  Combinational. *)
(***************************************************************************)
EXTENDS Naturals

CONSTANT SIZE

valid(pValid) == \A i \in 0 .. SIZE - 1 : pValid[i]

\* Mutant: an input is taken whenever the consumer is ready.
ready_Alone(i, pValid, nReady) == nReady
ready(i, pValid, nReady) ==
  nReady /\ \A j \in 0 .. SIZE - 1 : j # i => pValid[j]
==============================================================================
