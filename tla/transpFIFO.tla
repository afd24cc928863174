----------------------------- MODULE transpFIFO -----------------------------
(***************************************************************************)
(* entity transpFIFO: an elasticFifoInner with a bypass.  A token that finds *)
(* the ring empty goes straight to a ready consumer and is not stored.      *)
(***************************************************************************)
EXTENDS Handshake, Naturals, Sequences

CONSTANT FIFO_DEPTH

VARIABLES Memory, Head_, Tail_, Full, Empty, edge

regs == <<Memory, Head_, Tail_, Full, Empty>>
vars == <<regs, edge>>

fifo == INSTANCE elasticFifoInner

mux_sel == fifo!valid
dataOut(dataIn) == IF mux_sel THEN fifo!dataOut ELSE dataIn
valid(pValid) == pValid \/ fifo!valid
ready(nReady) == fifo!ready(nReady) \/ nReady

\* Mutant: a token that bypasses the ring is stored as well.
fifo_pvalid_AlsoBypassed(pValid, nReady) == pValid
fifo_pvalid(pValid, nReady) == pValid /\ (~nReady \/ fifo!valid)

Reset == fifo!Reset

Clock(pValid, dataIn, nReady) ==
  fifo!Clock(fifo_pvalid(pValid, nReady), dataIn, nReady)

Init == Reset /\ edge = Idle

Cycle(pValid, dataIn, nReady) ==
  /\ Clock(pValid, dataIn, nReady)
  /\ edge' = [in  |-> Offer(pValid, dataIn), ready  |-> ready(nReady),
              out |-> Offer(valid(pValid), dataOut(dataIn)),
              nReady |-> nReady]

Next == \E pValid, nReady \in BOOLEAN, dataIn \in Data :
          Cycle(pValid, dataIn, nReady)

Spec == Init /\ [][Next]_vars
------------------------------------------------------------------------------
stream == INSTANCE StreamBuffer
            WITH Capacity <- FIFO_DEPTH, Transparent <- TRUE,
                 q <- fifo!contents

\* The fifo is a transparent queue of FIFO_DEPTH tokens: a bypassed token is
\* not stored as well, and none overtakes a stored one.
IsStreamBuffer == stream!Spec
==============================================================================
