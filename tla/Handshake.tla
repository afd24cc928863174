------------------------------ MODULE Handshake ------------------------------
(***************************************************************************)
(* The valid/ready handshake every entity of components/ speaks.  A channel *)
(* carries a token at a rising clock edge exactly when its valid and ready  *)
(* wires are both '1'; one step of a specification is one rising edge.      *)
(* Data words are abstract: the circuits modelled here only route them.     *)
(***************************************************************************)
CONSTANTS
  Data,     \* the words a data wire can carry
  Zero,     \* (others => '0'), what a data register holds after reset
  NoToken   \* no token on a channel

ASSUME DataAssumption == Zero \in Data /\ NoToken \notin Data

Token == Data \cup {NoToken}

\* What a channel offers, given its valid and data wires.
Offer(valid, data) == IF valid THEN data ELSE NoToken

\* The handshake wires of a one-input, one-output component at the last
\* rising edge, as an observer of its ports samples them.
EdgeType == [in : Token, ready : BOOLEAN, out : Token, nReady : BOOLEAN]

Idle == [in |-> NoToken, ready |-> FALSE, out |-> NoToken, nReady |-> FALSE]

Accepted(edge)  == edge.in # NoToken /\ edge.ready
Delivered(edge) == edge.out # NoToken /\ edge.nReady
==============================================================================
