--------------------------- MODULE input_selector ---------------------------
(***************************************************************************)
(* entity input_selector: takes the basic blocks' announcements one by one  *)
(* (merge_one_hot), queues them (bypassFIFO), and for each emits, in the    *)
(* order fixed for that block, the shared operations it contains.  A cell.  *)
(***************************************************************************)
EXTENDS Naturals, Sequences

CONSTANTS
  Ordering,     \* Ordering[b]: block b's shared operations, in program order
  FIFO_DEPTH    \* 128 in the code

VARIABLES
  tehb_full, tehb_data,                 \* tehb1 of the merge
  Memory, Head_, Tail_, Full, Empty,    \* fifo_comp
  reg_current_index

Blocks == DOMAIN Ordering

\* A block announces <<its id, the index of its last operation>>.
bbInfo(b) == <<b, Len(Ordering[b]) - 1>>
NoInfo == <<0, 0>>

tehb1 == INSTANCE TEHB
  WITH full_reg <- tehb_full, data_reg <- tehb_data, Zero <- NoInfo
fifo_comp == INSTANCE transpFIFO
  WITH Data <- {bbInfo(b) : b \in Blocks} \cup {NoInfo}, Zero <- NoInfo,
       NoToken <- <<>>, edge <- <<>>

Reset == /\ tehb1!Reset /\ reg_current_index = 0
         /\ Memory = [i \in 0 .. FIFO_DEPTH - 1 |-> NoInfo]
         /\ Head_ = 0 /\ Tail_ = 0 /\ Full = FALSE /\ Empty = TRUE

\* merge_one_hot: the lowest valid input wins, and only it is ready.
chosen(bbPValid) ==
  IF bbPValid = {} THEN NoInfo
  ELSE bbInfo(CHOOSE b \in bbPValid : \A c \in bbPValid : b <= c)

bbInfoReady(b, bbPValid) == tehb1!ready /\ \A c \in bbPValid : b <= c

merged_valid(bbPValid) == tehb1!valid(bbPValid # {})
merged_data(bbPValid) == tehb1!dataOut(chosen(bbPValid))

\* What bypassFIFO offers; its own forwarding repeats that of transpFIFO.
valid(bbPValid) == fifo_comp!valid(merged_valid(bbPValid))
info(bbPValid) == fifo_comp!dataOut(merged_data(bbPValid))
dataOut(bbPValid) == Ordering[info(bbPValid)[1]][reg_current_index + 1]

last_index_reached(bbPValid) == reg_current_index = info(bbPValid)[2]

\* The announcement is popped with the last operation of its block.
ordering_traversed(bbPValid, nReady) ==
  valid(bbPValid) /\ nReady /\ last_index_reached(bbPValid)

index_next(bbPValid, nReady) ==
  CASE ordering_traversed(bbPValid, nReady) -> 0
    [] valid(bbPValid) /\ nReady /\ ~last_index_reached(bbPValid)
         -> reg_current_index + 1
    [] OTHER -> reg_current_index

Clock(bbPValid, nReady) ==
  LET pop == ordering_traversed(bbPValid, nReady)
  IN  /\ tehb1!Clock(bbPValid # {}, chosen(bbPValid), fifo_comp!ready(pop))
      /\ fifo_comp!Clock(merged_valid(bbPValid), merged_data(bbPValid), pop)
      /\ reg_current_index' = index_next(bbPValid, nReady)
==============================================================================
