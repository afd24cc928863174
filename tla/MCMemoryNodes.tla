---------------------------- MODULE MCMemoryNodes ----------------------------
EXTENDS MemoryNodes, TLC

\* Up to three accesses, to two arrays, in the two inner blocks of a loop; each
\* takes its operands from all earlier loads of its block, or none does.
Access == [bb : {2, 3}, op : {"load", "store"}, base : {"a", "b"}]
Loads(s, i) == {j \in 1 .. i - 1 : s[j].bb = s[i].bb /\ s[j].op = "load"}
Function(s, chained) ==
  [accesses |-> [i \in DOMAIN s |->
     s[i] @@ [uses |-> IF chained THEN Loads(s, i) ELSE {}]],
   path |-> <<1, 2, 3, 2, 4>>]

Conflict(x, y) == x.base = y.base /\ x.bb = y.bb
                  /\ (x.op = "store" \/ y.op = "store")

\* The functions the pass is right for: if two accesses of one block to an
\* array conflict, all accesses to the array are in that block, its loads come
\* before its stores, and there is one load at most, or one store that takes
\* its operands from them all.
Right(s) ==
  \A i, j \in DOMAIN s : i < j /\ Conflict(s[i], s[j]) =>
    LET same == {k \in DOMAIN s : s[k].base = s[i].base}
        loads == {k \in same : s[k].op = "load"}
    IN  /\ \A k \in same : s[k].bb = s[i].bb
        /\ \A k \in loads, l \in same \ loads : k < l
        /\ \/ Cardinality(loads) <= 1
           \/ \E l \in same : same = loads \cup {l} /\ loads \subseteq s[l].uses

MCPrograms ==
  {p \in {Function(s, c) : s \in {t \in BoundedSeq(Access, 3) :
                                    t = <<>> \/ t[1].base = "a"},
                           c \in BOOLEAN} : Right(p.accesses)}

\* a[i] = x; y = a[j]; in the body of a loop.
OrderPrograms ==
  {[accesses |-> <<[bb |-> 2, op |-> "store", base |-> "a", uses |-> {}],
                   [bb |-> 2, op |-> "load", base |-> "a", uses |-> {}]>>,
    path |-> <<1, 2, 2, 3>>]}
==============================================================================
