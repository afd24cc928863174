-------------------------- MODULE elasticFifoInner --------------------------
(***************************************************************************)
(* entity elasticFifoInner: a ring buffer of FIFO_DEPTH words with separate *)
(* Empty and Full flags.  When Full it accepts a token in the very cycle it *)
(* hands one over.  Its memory is not reset.                                *)
(***************************************************************************)
EXTENDS Handshake, Naturals, Sequences

CONSTANT FIFO_DEPTH

ASSUME DepthAssumption == FIFO_DEPTH \in Nat \ {0}

VARIABLES Memory, Head_, Tail_, Full, Empty, edge

vars == <<Memory, Head_, Tail_, Full, Empty, edge>>

Slot == 0 .. FIFO_DEPTH - 1

\* Mutant: the index does not wrap.
next_NoWrap(i) == i + 1
next(i) == (i + 1) % FIFO_DEPTH

ready(nReady) == ~Full \/ nReady
valid == ~Empty
dataOut == Memory[Head_]

ReadEn(nReady) == nReady /\ ~Empty

\* Mutant: a full ring does not write the token it accepts while it is read.
WriteEn_NotFull(pValid, nReady) == pValid /\ ~Full
WriteEn(pValid, nReady) == pValid /\ (~Full \/ nReady)

\* Reset leaves the words of the memory undefined.
Reset ==
  /\ Memory \in [Slot -> Data]
  /\ Head_ = 0 /\ Tail_ = 0
  /\ Full = FALSE /\ Empty = TRUE

fifo_proc(write, dataIn) ==
  Memory' = IF write THEN [Memory EXCEPT ![Tail_] = dataIn] ELSE Memory

TailUpdate_proc(write) == Tail_' = IF write THEN next(Tail_) ELSE Tail_

HeadUpdate_proc(read) == Head_' = IF read THEN next(Head_) ELSE Head_

\* Mutant: does not look at the read of the same cycle.
FullUpdate_proc_IgnoresRead(write, read) ==
  Full' = \/ Full /\ ~(read /\ ~write)
          \/ write /\ next(Tail_) = Head_
FullUpdate_proc(write, read) ==
  Full' = \/ Full /\ ~(read /\ ~write)
          \/ write /\ ~read /\ next(Tail_) = Head_

\* Mutant: does not look at the write of the same cycle.
EmptyUpdate_proc_IgnoresWrite(write, read) ==
  Empty' = \/ Empty /\ ~(write /\ ~read)
           \/ read /\ next(Head_) = Tail_
EmptyUpdate_proc(write, read) ==
  Empty' = \/ Empty /\ ~(write /\ ~read)
           \/ read /\ ~write /\ next(Head_) = Tail_

Clock(pValid, dataIn, nReady) ==
  LET write == WriteEn(pValid, nReady)
      read  == ReadEn(nReady)
  IN  /\ fifo_proc(write, dataIn)
      /\ TailUpdate_proc(write)
      /\ HeadUpdate_proc(read)
      /\ FullUpdate_proc(write, read)
      /\ EmptyUpdate_proc(write, read)

Init == Reset /\ edge = Idle

Cycle(pValid, dataIn, nReady) ==
  /\ Clock(pValid, dataIn, nReady)
  /\ edge' = [in  |-> Offer(pValid, dataIn), ready  |-> ready(nReady),
              out |-> Offer(valid, dataOut), nReady |-> nReady]

Next == \E pValid, nReady \in BOOLEAN, dataIn \in Data :
          Cycle(pValid, dataIn, nReady)

Spec == Init /\ [][Next]_vars
------------------------------------------------------------------------------
\* Every register and every observed wire has its type; the indices stay
\* inside the memory.
TypeOK ==
  /\ Memory \in [Slot -> Data]
  /\ Head_ \in Slot /\ Tail_ \in Slot
  /\ Full \in BOOLEAN /\ Empty \in BOOLEAN
  /\ edge \in EdgeType

\* How far the writer is ahead of the reader, by the flags and the indices.
count == CASE Full  -> FIFO_DEPTH
           [] Empty -> 0
           [] OTHER -> IF Tail_ > Head_ THEN Tail_ - Head_
                                        ELSE FIFO_DEPTH - Head_ + Tail_

\* The flags tell the two meanings of Head = Tail apart: exactly when the
\* indices meet, one of them is set, and never both.
FlagsAgree == /\ (Head_ = Tail_) <=> (Full \/ Empty)
              /\ ~(Full /\ Empty)

\* The stored tokens, oldest first.
contents == [i \in 1 .. count |-> Memory[(Head_ + i - 1) % FIFO_DEPTH]]

stream == INSTANCE StreamBuffer
            WITH Capacity <- FIFO_DEPTH, Transparent <- FALSE, q <- contents

\* The ring is an opaque queue of FIFO_DEPTH tokens, also while the indices
\* wrap and while a full ring is written and read in the same cycle.
IsStreamBuffer == stream!Spec
==============================================================================
