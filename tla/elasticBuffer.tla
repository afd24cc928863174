---------------------------- MODULE elasticBuffer ----------------------------
(***************************************************************************)
(* entity elasticBuffer: a TEHB feeding an OEHB.  The pair breaks both the  *)
(* valid and the ready path and stores two tokens.                          *)
(***************************************************************************)
EXTENDS Handshake, Naturals, Sequences

VARIABLES
  tehb_full, tehb_data,    \* registers of tehb1
  oehb_valid, oehb_data,   \* registers of oehb1
  edge                     \* observed ports

regs == <<tehb_full, tehb_data, oehb_valid, oehb_data>>
vars == <<tehb_full, tehb_data, oehb_valid, oehb_data, edge>>

tehb1 == INSTANCE TEHB WITH full_reg <- tehb_full, data_reg <- tehb_data
oehb1 == INSTANCE OEHB WITH valid_reg <- oehb_valid, data_reg <- oehb_data

valid == oehb_valid
ready == tehb1!ready
dataOut == oehb_data

Reset == tehb1!Reset /\ oehb1!Reset

\* The port maps: each half buffer sees the other's wires.
Clock(pValid, dataIn, nReady) ==
  /\ tehb1!Clock(pValid, dataIn, oehb1!ready(nReady))
  /\ oehb1!Clock(tehb1!valid(pValid), tehb1!dataOut(dataIn), nReady)

Init == Reset /\ edge = Idle

Cycle(pValid, dataIn, nReady) ==
  /\ Clock(pValid, dataIn, nReady)
  /\ edge' = [in  |-> Offer(pValid, dataIn), ready  |-> ready,
              out |-> Offer(valid, dataOut), nReady |-> nReady]

Next == \E pValid, nReady \in BOOLEAN, dataIn \in Data :
          Cycle(pValid, dataIn, nReady)

Spec == Init /\ [][Next]_vars
------------------------------------------------------------------------------
\* Every register and every observed wire has its type.
TypeOK ==
  /\ tehb_full \in BOOLEAN /\ tehb_data \in Data
  /\ oehb_valid \in BOOLEAN /\ oehb_data \in Data
  /\ edge \in EdgeType

\* The TEHB only ever holds a token behind one in the OEHB: otherwise the
\* buffer would refuse a token, or offer none, while it has room or a token.
OEHBFirst == tehb_full => oehb_valid

\* The stored tokens, oldest first.
contents == (IF oehb_valid THEN <<oehb_data>> ELSE <<>>)
            \o (IF tehb_full THEN <<tehb_data>> ELSE <<>>)

stream == INSTANCE StreamBuffer
            WITH Capacity <- 2, Transparent <- FALSE, q <- contents

\* The buffer is an opaque queue of two tokens: port maps and enables neither
\* lose, duplicate nor reorder a token, and it never refuses one needlessly.
IsElasticQueue == stream!Spec
==============================================================================
