-------------------------------- MODULE fork --------------------------------
(***************************************************************************)
(* entity fork, eager architecture: one eagerFork_RegisterBLock per output; *)
(* the input is stopped until every output has had the token.               *)
(***************************************************************************)
EXTENDS Handshake, Naturals

CONSTANT SIZE

ASSUME SizeAssumption == SIZE \in Nat \ {0}

VARIABLES
  reg_value,   \* reg_value[i]: output i still waits for the current token
  edge         \* in, ready, and per output out and nReady

vars == <<reg_value, edge>>

Outputs == 0 .. SIZE - 1

Reset == reg_value = [i \in Outputs |-> TRUE]

valid(i, pValid) == reg_value[i] /\ pValid

\* Block i stops the input: it waits and its consumer is not ready.
\* Mutant: also when it has had the token, as in a lazy fork.
block_stop_Lazy(i, nReady) == ~nReady[i]
block_stop(i, nReady) == ~nReady[i] /\ reg_value[i]

forkStop(nReady) == \E i \in Outputs : block_stop(i, nReady)

ready(nReady) == ~forkStop(nReady)

\* Mutant: the blocks do not rearm when the token is consumed.
reg_in_NoRearm(i, pValid, nReady) == block_stop(i, nReady) \/ ~pValid
\* Mutant: a block that is not served forgets that it waits.
reg_in_Forgets(i, pValid, nReady) == ~(pValid /\ forkStop(nReady))
reg_in(i, pValid, nReady) ==
  block_stop(i, nReady) \/ ~(pValid /\ forkStop(nReady))

Clock(pValid, nReady) ==
  reg_value' = [i \in Outputs |-> reg_in(i, pValid, nReady)]

Init ==
  /\ Reset
  /\ edge = [in |-> NoToken, ready |-> FALSE,
             out |-> [i \in Outputs |-> NoToken],
             nReady |-> [i \in Outputs |-> FALSE]]

\* The producer keeps offering a token until the fork accepts it.
Persistent(offer) ==
  edge.in # NoToken /\ ~edge.ready => offer = edge.in

Cycle(pValid, dataIn, nReady) ==
  /\ Persistent(Offer(pValid, dataIn))
  /\ Clock(pValid, nReady)
  /\ edge' = [in |-> Offer(pValid, dataIn), ready |-> ready(nReady),
              out |-> [i \in Outputs |-> Offer(valid(i, pValid), dataIn)],
              nReady |-> nReady]

Next == \E pValid \in BOOLEAN, dataIn \in Data,
           nReady \in [Outputs -> BOOLEAN] : Cycle(pValid, dataIn, nReady)

Spec == Init /\ [][Next]_vars

\* Each consumer is ready again and again, at times of its own.
Serves(i) == \E pValid \in BOOLEAN, dataIn \in Data,
                nReady \in [Outputs -> BOOLEAN] :
               nReady[i] /\ Cycle(pValid, dataIn, nReady)

Fairness == WF_vars(Next) /\ \A i \in Outputs : WF_vars(Serves(i))

FairSpec == Spec /\ Fairness
------------------------------------------------------------------------------
\* Every register and every observed wire has its type.
TypeOK ==
  /\ reg_value \in [Outputs -> BOOLEAN]
  /\ edge \in [in : Token, ready : BOOLEAN, out : [Outputs -> Token],
               nReady : [Outputs -> BOOLEAN]]

\* Some output always waits: the input is never held by a fork that has
\* already served everybody.
SomeoneWaits == \E i \in Outputs : reg_value[i]

broadcast == INSTANCE Broadcast
               WITH pending <- {i \in Outputs : reg_value[i]}

\* Under a persistent producer every output gets every token exactly once,
\* whatever the order in which the consumers become ready.
IsBroadcast == broadcast!Spec

\* Consumers that are never ready in the same cycle do not block the fork:
\* an offered token is eventually consumed.
EventuallyConsumed == edge.in # NoToken ~> edge.in # NoToken /\ edge.ready
==============================================================================
