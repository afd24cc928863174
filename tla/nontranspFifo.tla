---------------------------- MODULE nontranspFifo ----------------------------
(***************************************************************************)
(* entity nontranspFifo: a TEHB feeding an elasticFifoInner, so that ready  *)
(* does not depend on the consumer.                                         *)
(***************************************************************************)
EXTENDS Handshake, Naturals, Sequences

CONSTANT FIFO_DEPTH

VARIABLES tehb_full, tehb_data, Memory, Head_, Tail_, Full, Empty, edge

regs == <<tehb_full, tehb_data, Memory, Head_, Tail_, Full, Empty>>
vars == <<regs, edge>>

tehb == INSTANCE TEHB WITH full_reg <- tehb_full, data_reg <- tehb_data
fifo == INSTANCE elasticFifoInner

Clock(pValid, dataIn, nReady) ==
  /\ tehb!Clock(pValid, dataIn, fifo!ready(nReady))
  /\ fifo!Clock(tehb!valid(pValid), tehb!dataOut(dataIn), nReady)

Init == tehb!Reset /\ fifo!Reset /\ edge = Idle

Cycle(pValid, dataIn, nReady) ==
  /\ Clock(pValid, dataIn, nReady)
  /\ edge' = [in  |-> Offer(pValid, dataIn), ready  |-> tehb!ready,
              out |-> Offer(fifo!valid, fifo!dataOut), nReady |-> nReady]

Next == \E pValid, nReady \in BOOLEAN, dataIn \in Data :
          Cycle(pValid, dataIn, nReady)

Spec == Init /\ [][Next]_vars

Fairness == WF_vars(\E pValid \in BOOLEAN, dataIn \in Data :
                      Cycle(pValid, dataIn, TRUE))

FairSpec == Spec /\ Fairness
------------------------------------------------------------------------------
contents == fifo!contents \o (IF tehb_full THEN <<tehb_data>> ELSE <<>>)

stream == INSTANCE StreamBuffer
            WITH Capacity <- FIFO_DEPTH + 1, Transparent <- FALSE,
                 q <- contents

\* The fifo is an opaque queue one token deeper than its ring.
IsStreamBuffer == stream!Spec

\* A token accepted at the input port reaches the consumer.
EventuallyDelivered ==
  \A t \in Data : (Accepted(edge) /\ edge.in = t)
                    ~> (Delivered(edge) /\ edge.out = t)
==============================================================================
