-------------------------- MODULE MCBufferPlacement --------------------------
(***************************************************************************)
(* Instances of BufferPlacement: a loop through a pipelined load, two      *)
(* values that go around a loop, loops one after the other, in one another *)
(* and sharing a block; with and without delays.                           *)
(***************************************************************************)
EXTENDS BufferPlacement

Arc(s, d, f) == [src |-> s, dst |-> d, freq |-> f]
Block(t, bb, lat, delay) == [type |-> t, bb |-> bb, lat |-> lat, delay |-> delay, ii |-> 1]

With(p, set, first, timeout) ==
  [set |-> set, first |-> first, timeout |-> timeout, rare |-> {}] @@ p

\* A value goes around BB2 through a multiplexer or merge, a load and a branch.
Loop(n, merge, lat, delay) ==
  [n |-> 3, arcs |-> <<Arc(1, 2, 1), Arc(2, 2, n), Arc(2, 3, 1)>>,
   blocks |-> <<Block("ENTRY", 1, 0, 0), Block("BRANCH", 1, 0, 0), Block(merge, 2, 0, delay),
                Block("LOAD", 2, lat, 2), Block("BRANCH", 2, 0, 1), Block("MC", 0, 0, 0),
                Block("MERGE", 3, 0, 0)>>,
   channels |-> <<<<1, 2>>, <<2, 3>>, <<3, 4>>, <<4, 5>>, <<5, 3>>, <<5, 7>>,
                  <<4, 6>>, <<6, 4>>>>]

\* The loop is followed by a pipelined unit that is slower than the period.
SlowAfterLoop ==
  LET p == Loop(3, "MUX", 0, 1)
  IN  [p EXCEPT !.blocks = @ \o <<Block("OPERATOR", 3, 1, Period + 1),
                                 Block("OPERATOR", 3, 0, 1)>>,
                !.channels = @ \o <<<<7, 8>>, <<8, 9>>>>]

\* Two values go around BB2, the second through a pipelined unit and into the
\* first, whose path is short.
TwoPaths(lat) ==
  [n |-> 3, arcs |-> <<Arc(1, 2, 1), Arc(2, 2, 2), Arc(2, 3, 1)>>,
   blocks |-> <<Block("BRANCH", 1, 0, 0), Block("MUX", 2, 0, 1), Block("FORK", 2, 0, 0),
                Block("OPERATOR", 2, lat, 2), Block("OPERATOR", 2, 0, 1),
                Block("BRANCH", 2, 0, 0), Block("MERGE", 3, 0, 0)>>,
   channels |-> <<<<1, 2>>, <<2, 3>>, <<3, 4>>, <<3, 5>>, <<4, 5>>, <<5, 6>>, <<6, 2>>,
                  <<6, 7>>>>]

\* A loop after a loop: two sets of CFDFCs.
Sequence(delay) ==
  [n |-> 5, arcs |-> <<Arc(1, 2, 1), Arc(2, 2, 2), Arc(2, 3, 1), Arc(3, 4, 1), Arc(4, 4, 3),
                       Arc(4, 5, 1)>>,
   blocks |-> <<Block("BRANCH", 1, 0, 0), Block("MUX", 2, 0, delay), Block("BRANCH", 2, 0, 2),
                Block("MERGE", 3, 0, 1), Block("BRANCH", 3, 0, delay), Block("MUX", 4, 0, delay),
                Block("BRANCH", 4, 0, 2), Block("MERGE", 5, 0, 0)>>,
   channels |-> <<<<1, 2>>, <<2, 3>>, <<3, 2>>, <<3, 4>>, <<4, 5>>, <<5, 6>>, <<6, 7>>,
                  <<7, 6>>, <<7, 8>>>>]

\* A loop in a loop, the control path alone; the first channel is the back edge
\* of the inner loop.
Nested(delay) ==
  [n |-> 5, arcs |-> <<Arc(1, 2, 1), Arc(2, 3, 2), Arc(3, 3, 3), Arc(3, 4, 2), Arc(4, 2, 1),
                       Arc(4, 5, 1)>>,
   blocks |-> <<Block("BRANCH", 1, 0, 0), Block("MUX", 2, 0, delay), Block("BRANCH", 2, 0, 0),
                Block("MUX", 3, 0, delay), Block("BRANCH", 3, 0, 0), Block("MERGE", 4, 0, 0),
                Block("BRANCH", 4, 0, 0), Block("MERGE", 5, 0, 0)>>,
   channels |-> <<<<5, 4>>, <<4, 5>>, <<1, 2>>, <<2, 3>>, <<3, 4>>, <<5, 6>>, <<6, 7>>, <<7, 2>>,
                  <<7, 8>>>>]

Netlists == {Loop(3, "MUX", l, d) : l \in {0, 2}, d \in {0, 1}}
            \cup {Loop(3, "MERGE", 1, 1), Loop(0, "MUX", 1, 0)}
            \cup {TwoPaths(l) : l \in {0, 1, 2}}
            \cup {Sequence(d) : d \in {0, 1}} \cup {Nested(d) : d \in {0, 1}}
\* Nothing; and what makes the last block look older or younger than others.
MCGarbage == {<<0, 0>>, <<1, 99>>, <<99, 1>>}

\* Graphs of basic blocks without a netlist, that end in a block nothing
\* leaves, with every number of executions up to 2.
Graphs ==
  {<<<<1, 2>>, <<2, 2>>, <<2, 3>>>>,
   <<<<1, 2>>, <<2, 3>>, <<3, 2>>, <<3, 4>>>>,
   <<<<1, 2>>, <<2, 3>>, <<3, 2>>, <<3, 3>>, <<3, 4>>>>,
   <<<<1, 2>>, <<2, 2>>, <<2, 3>>, <<3, 3>>, <<3, 4>>>>,
   <<<<1, 2>>, <<2, 2>>, <<2, 3>>, <<3, 2>>, <<3, 4>>>>,
   <<<<1, 2>>, <<2, 3>>, <<2, 4>>, <<3, 2>>, <<4, 2>>, <<4, 5>>>>,
   <<<<1, 2>>, <<2, 3>>, <<3, 4>>, <<3, 3>>, <<4, 2>>, <<4, 5>>>>,
   <<<<1, 2>>, <<2, 3>>, <<2, 4>>, <<3, 2>>, <<3, 5>>, <<4, 2>>, <<4, 4>>>>}
Executions(g) == {f \in [DOMAIN g -> 0 .. 2] : f[1] = 1}
Only(g, f) ==
  [n |-> Max({g[i][2] : i \in DOMAIN g}),
   arcs |-> [i \in DOMAIN g |-> Arc(g[i][1], g[i][2], f[i])],
   blocks |-> <<>>, channels |-> <<>>]
IfInLoop == <<<<1, 2>>, <<2, 3>>, <<2, 4>>, <<3, 5>>, <<4, 5>>, <<5, 2>>, <<5, 6>>>>
GraphsOnly == UNION {{Only(g, f) : f \in Executions(g)} : g \in Graphs}
              \cup {Only(IfInLoop, <<1, 2, 2, 2, 2, 3, 1>>), Only(IfInLoop, <<1, 3, 1, 3, 1, 3, 1>>)}
\* The last block is the body of a loop.
LatchLast ==
  {With(Only(<<<<1, 3>>, <<3, 3>>, <<3, 2>>>>, <<1, 2, 1>>), FALSE, FALSE, FALSE)}

\* All channels in one model, also when only the first CFDFC counts and when
\* the time is up; and sets of CFDFCs, the default, for the netlists in which
\* every cycle has a delay.
GoodOptions ==
  {With(p, FALSE, FALSE, FALSE) : p \in Netlists \cup GraphsOnly}
  \cup {With(p, FALSE, TRUE, FALSE) : p \in {TwoPaths(1), Sequence(1), Nested(1)}}
  \cup {With(Loop(3, "MUX", 0, 1), FALSE, FALSE, TRUE)}
  \cup {With(Loop(3, "MUX", 0, Period + 1), s, FALSE, FALSE) : s \in BOOLEAN}
  \cup {With(SlowAfterLoop, s, FALSE, FALSE) : s \in BOOLEAN}
  \cup {With(p, TRUE, FALSE, FALSE) : p \in Netlists \ {Nested(0)}}
\* Sets of CFDFCs, with the throughput of the first one of each; and without
\* delays.
UnbufferedOptions ==
  {With(Nested(1), TRUE, TRUE, FALSE), With(Nested(0), TRUE, FALSE, FALSE)}
==============================================================================
