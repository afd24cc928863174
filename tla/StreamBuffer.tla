---------------------------- MODULE StreamBuffer ----------------------------
(***************************************************************************)
(* What every storage element of the library promises: a queue of at most   *)
(* Capacity tokens that accepts whenever it has room, offers its oldest     *)
(* token whenever it has one, and neither loses, duplicates, reorders nor   *)
(* invents a token.  A transparent buffer may also offer the token that is  *)
(* just arriving.  Only the choice to accept into a full buffer that is     *)
(* being emptied is left to the implementation.                             *)
(***************************************************************************)
EXTENDS Handshake, Naturals, Sequences

CONSTANTS
  Capacity,      \* a positive number
  Transparent    \* a BOOLEAN

VARIABLES q, edge

vars == <<q, edge>>

Arriving(in) == IF in = NoToken THEN <<>> ELSE <<in>>

\* The tokens the output port can see during a cycle.
Visible(in) == IF Transparent THEN q \o Arriving(in) ELSE q

Front(s) == IF s = <<>> THEN NoToken ELSE Head(s)

Init == q = <<>> /\ edge = Idle

Cycle(in, ready, nReady) ==
  LET out    == Front(Visible(in))
      filled == IF ready THEN q \o Arriving(in) ELSE q
  IN  /\ Len(q) < Capacity => ready
      /\ q' = IF out # NoToken /\ nReady THEN Tail(filled) ELSE filled
      /\ Len(q') <= Capacity
      /\ edge' = [in |-> in, ready |-> ready, out |-> out, nReady |-> nReady]

Next == \E in \in Token, ready, nReady \in BOOLEAN : Cycle(in, ready, nReady)

Spec == Init /\ [][Next]_vars
==============================================================================
