---------------------------- MODULE MemContLoads ----------------------------
(***************************************************************************)
(* The load side of the memory controller: LOAD_COUNT ports, each behind an *)
(* mc_load_op (a TEHB for its addresses and one for its data), the          *)
(* read_memory_arbiter, and the external synchronous RAM, which answers one *)
(* cycle after read_enable.                                                 *)
(*                                                                          *)
(* The k-th load of port p is <<p, k>>, both as an address and as the word  *)
(* at that address: the RAM is read only here and its words are distinct.   *)
(***************************************************************************)
EXTENDS Naturals, Sequences

CONSTANTS
  LOAD_COUNT,
  MaxLoads      \* bound: loads per port

LoadsAssumption ==
  LOAD_COUNT \in Nat \ {0} /\ MaxLoads \in Nat \ {0}

VARIABLES
  addr_full, addr_data,   \* Buffer_1 of each mc_load_op
  data_full, data_data,   \* Buffer_2 of each mc_load_op
  valid, sel_prev,        \* registers of read_data_signals
  out_reg,
  read_data,              \* the output register of the RAM
  asked,                  \* asked[p]: loads port p accepted from the circuit
  answered                \* answered[p]: the words it handed back, in order

vars == <<addr_full, addr_data, data_full, data_data, valid, sel_prev,
          out_reg, read_data, asked, answered>>

Ports == 0 .. LOAD_COUNT - 1
Nothing == <<LOAD_COUNT, 0>>    \* no load's word

Buffer_1(p) == INSTANCE TEHB
  WITH full_reg <- addr_full[p], data_reg <- addr_data[p], Zero <- Nothing
Buffer_2(p) == INSTANCE TEHB
  WITH full_reg <- data_full[p], data_reg <- data_data[p], Zero <- Nothing

Init ==
  /\ addr_full = [p \in Ports |-> FALSE]
  /\ addr_data = [p \in Ports |-> Nothing]
  /\ data_full = [p \in Ports |-> FALSE]
  /\ data_data = [p \in Ports |-> Nothing]
  /\ valid = [p \in Ports |-> FALSE]
  /\ sel_prev = [p \in Ports |-> FALSE]
  /\ out_reg = [p \in Ports |-> Nothing]
  /\ read_data = Nothing
  /\ asked = [p \in Ports |-> 0]
  /\ answered = [p \in Ports |-> <<>>]

\* read_priority: of the ports that ask and whose consumer can take the answer,
\* the first.
requests(p, req, data_ready) == req[p] /\ data_ready[p]
read_priority(p, req, data_ready) ==
  /\ requests(p, req, data_ready)
  /\ \A q \in Ports : q < p => ~requests(q, req, data_ready)

\* read_data_signals: the word of a port granted in the last cycle is on the
\* output of the RAM, an older one in the port's register.
out_data(p) == IF sel_prev[p] THEN read_data ELSE out_reg[p]

valid_next(p, sel, nReady) == sel[p] \/ (valid[p] /\ ~nReady[p])

\* Mutant: the register follows the RAM in every cycle.
out_reg_next_Follows(p) == read_data
out_reg_next(p) == IF sel_prev[p] THEN read_data ELSE out_reg[p]

\* The address of the last granted port drives the RAM.
read_address_mux(sel, address) ==
  address[CHOOSE p \in Ports : sel[p] /\ \A r \in Ports : sel[r] => r <= p]

\* The external RAM: a word per address, shown from the next edge on, and
\* kept while read_enable is low.
ram(sel, address) ==
  IF \E p \in Ports : sel[p] THEN read_address_mux(sel, address)
                             ELSE read_data

\* One cycle: the ports in offers have an address, those in accept a
\* consumer ready for the answer.
Cycle(offers, accept) ==
  LET dataIn  == [p \in Ports |-> IF p \in offers THEN <<p, asked[p] + 1>>
                                                  ELSE Nothing]
      address == [p \in Ports |-> Buffer_1(p)!dataOut(dataIn[p])]
      request == [p \in Ports |-> Buffer_1(p)!valid(p \in offers)]
      room    == [p \in Ports |-> Buffer_2(p)!ready]
      sel     == [p \in Ports |-> read_priority(p, request, room)]
      granted == [p \in Ports |-> room[p] /\ sel[p]]
  IN  /\ addr_full' = [p \in Ports |->
                        Buffer_1(p)!full_next(p \in offers, granted[p])]
      /\ addr_data' = [p \in Ports |->
                        Buffer_1(p)!data_next(p \in offers, dataIn[p], granted[p])]
      /\ data_full' = [p \in Ports |->
                        Buffer_2(p)!full_next(valid[p], p \in accept)]
      /\ data_data' = [p \in Ports |->
                        Buffer_2(p)!data_next(valid[p], out_data(p), p \in accept)]
      /\ sel_prev' = sel
      /\ valid' = [p \in Ports |-> valid_next(p, sel, room)]
      /\ out_reg' = [p \in Ports |-> out_reg_next(p)]
      /\ read_data' = ram(sel, address)
      /\ asked' = [p \in Ports |->
                    IF p \in offers /\ Buffer_1(p)!ready THEN asked[p] + 1
                                                         ELSE asked[p]]
      /\ answered' = [p \in Ports |->
                       IF p \in accept /\ Buffer_2(p)!valid(valid[p])
                       THEN Append(answered[p], Buffer_2(p)!dataOut(out_data(p)))
                       ELSE answered[p]]

Next ==
  \E offers \in SUBSET {p \in Ports : asked[p] < MaxLoads},
     accept \in SUBSET Ports : Cycle(offers, accept)

Spec == Init /\ [][Next]_vars

\* The clock runs; every port keeps asking and every consumer gets ready.
Accepts(p) == \E offers \in SUBSET {r \in Ports : asked[r] < MaxLoads},
                 accept \in SUBSET Ports : p \in accept /\ Cycle(offers, accept)
Asks(p) == \E offers \in SUBSET {r \in Ports : asked[r] < MaxLoads},
              accept \in SUBSET Ports : p \in offers /\ Cycle(offers, accept)

Fairness == \A p \in Ports : WF_vars(Accepts(p)) /\ WF_vars(Asks(p))

FairSpec == Spec /\ Fairness
------------------------------------------------------------------------------
\* Every port gets the words of its own addresses, in the order it asked:
\* the shared RAM output never reaches the wrong port, and an answer refused
\* by the circuit is neither overwritten by a later one nor repeated.
AnswersInOrder ==
  \A p \in Ports : \A k \in DOMAIN answered[p] : answered[p][k] = <<p, k>>

\* Every port gets all its answers, although lower ports go first.
Answered == \A p \in Ports : Len(answered[p]) = MaxLoads
EventuallyAnswered == <>Answered
==============================================================================
