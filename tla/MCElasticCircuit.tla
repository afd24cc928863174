--------------------------- MODULE MCElasticCircuit ---------------------------
(***************************************************************************)
(* Functions in SSA form, as the compiler hands them to the pass.          *)
(***************************************************************************)
EXTENDS ElasticCircuit

Arg(j) == <<"arg", j>>
Inst(k) == <<"inst", k>>
Cst(c) == <<"cst", c>>
I(op, bb, operands) == [op |-> op, bb |-> bb, operands |-> operands, from |-> <<>>, dims |-> <<>>]
Phi(bb, operands, from) == [op |-> "phi", bb |-> bb, operands |-> operands, from |-> from, dims |-> <<>>]
Gep(bb, operands, dims) == [op |-> "getelementptr", bb |-> bb, operands |-> operands,
                            from |-> <<>>, dims |-> dims]

\* i = 0; do i += x; while (i < 3); return i
Loop == [args |-> 1, inputs |-> {<<2>>}, succ |-> <<<<2>>, <<2, 3>>, <<>>>>,
         insts |-> <<
           I("br", 1, <<>>),
           Phi(2, <<Cst(0), Inst(3)>>, <<1, 2>>),
           I("add", 2, <<Inst(2), Arg(1)>>),
           I("icmp", 2, <<Inst(3), Cst(3)>>),
           I("br", 2, <<Inst(4)>>),
           I("ret", 3, <<Inst(3)>>)>>]
\* a = 0, b = 1; while (a < b) swap; return b
Swap == [args |-> 0, inputs |-> {<<>>}, succ |-> <<<<2>>, <<2, 3>>, <<>>>>,
         insts |-> <<
           I("br", 1, <<>>),
           Phi(2, <<Cst(0), Inst(3)>>, <<1, 2>>),
           Phi(2, <<Cst(1), Inst(2)>>, <<1, 2>>),
           I("icmp", 2, <<Inst(2), Inst(3)>>),
           I("br", 2, <<Inst(4)>>),
           I("ret", 3, <<Inst(3)>>)>>]
\* y = x < 1 ? x + 1 : 5; return y - x
Diamond == [args |-> 1, inputs |-> {<<0>>, <<1>>}, succ |-> <<<<2, 3>>, <<4>>, <<4>>, <<>>>>,
            insts |-> <<
              I("icmp", 1, <<Arg(1), Cst(1)>>),
              I("br", 1, <<Inst(1)>>),
              I("add", 2, <<Arg(1), Cst(1)>>),
              I("br", 2, <<>>),
              I("br", 3, <<>>),
              Phi(4, <<Cst(5), Inst(3)>>, <<3, 2>>),
              I("sub", 4, <<Inst(6), Arg(1)>>),
              I("ret", 4, <<Inst(7)>>)>>]
\* return A[i][j] - B[i]
Arrays == [args |-> 4, inputs |-> {<<0, 0, 1, 2>>}, succ |-> <<<<>>>>,
           insts |-> <<
             I("sext", 1, <<Arg(3)>>),
             I("sext", 1, <<Arg(4)>>),
             Gep(1, <<Arg(1), Inst(1), Inst(2)>>, <<3>>),
             I("load", 1, <<Inst(3)>>),
             I("sext", 1, <<Arg(3)>>),
             Gep(1, <<Arg(2), Inst(5)>>, <<>>),
             I("load", 1, <<Inst(6)>>),
             I("sub", 1, <<Inst(4), Inst(7)>>),
             I("ret", 1, <<Inst(8)>>)>>]
\* i = x; if (x < 2) do i += 2; while (i < 3); return i
Guarded == [args |-> 1, inputs |-> {<<0>>, <<3>>}, succ |-> <<<<2, 3>>, <<2, 3>>, <<>>>>,
            insts |-> <<
              I("icmp", 1, <<Arg(1), Cst(2)>>),
              I("br", 1, <<Inst(1)>>),
              Phi(2, <<Arg(1), Inst(4)>>, <<1, 2>>),
              I("add", 2, <<Inst(3), Cst(2)>>),
              I("icmp", 2, <<Inst(4), Cst(3)>>),
              I("br", 2, <<Inst(5)>>),
              Phi(3, <<Inst(4), Arg(1)>>, <<2, 1>>),
              I("ret", 3, <<Inst(7)>>)>>]
\* i = 0; do { j = i; do j += 2; while (j < 3); i = j - i } while (3 < i); return i
Nested == [args |-> 0, inputs |-> {<<>>}, succ |-> <<<<2>>, <<3>>, <<3, 4>>, <<2, 5>>, <<>>>>,
           insts |-> <<
             I("br", 1, <<>>),
             Phi(2, <<Cst(0), Inst(8)>>, <<1, 4>>),
             I("br", 2, <<>>),
             Phi(3, <<Inst(2), Inst(5)>>, <<2, 3>>),
             I("add", 3, <<Inst(4), Cst(2)>>),
             I("icmp", 3, <<Inst(5), Cst(3)>>),
             I("br", 3, <<Inst(6)>>),
             I("sub", 4, <<Inst(5), Inst(2)>>),
             I("icmp", 4, <<Cst(3), Inst(8)>>),
             I("br", 4, <<Inst(9)>>),
             I("ret", 5, <<Inst(8)>>)>>]
\* return A[1][j]
ConstIndex == [args |-> 2, inputs |-> {<<0, 2>>}, succ |-> <<<<>>>>,
               insts |-> <<
                 I("sext", 1, <<Arg(2)>>),
                 Gep(1, <<Arg(1), Cst(1), Inst(1)>>, <<3>>),
                 I("load", 1, <<Inst(2)>>),
                 I("ret", 1, <<Inst(3)>>)>>]
\* i = 0; do i += 2; while (i < x); returns nothing
Void == [args |-> 1, inputs |-> {<<3>>}, succ |-> <<<<2>>, <<2, 3>>, <<>>>>,
         insts |-> <<
           I("br", 1, <<>>),
           Phi(2, <<Cst(0), Inst(3)>>, <<1, 2>>),
           I("add", 2, <<Inst(2), Cst(2)>>),
           I("icmp", 2, <<Inst(3), Arg(1)>>),
           I("br", 2, <<Inst(4)>>),
           I("ret", 3, <<>>)>>]

MCPrograms == {Loop, Swap, Diamond, Guarded, Nested, Arrays, ConstIndex, Void}

\* return A[i][j] - i, of indices that need no extension
LongIndex == [args |-> 3, inputs |-> {<<0, 1, 2>>}, succ |-> <<<<>>>>,
              insts |-> <<
                Gep(1, <<Arg(1), Arg(2), Arg(3)>>, <<3>>),
                I("load", 1, <<Inst(1)>>),
                I("sub", 1, <<Inst(2), Arg(2)>>),
                I("ret", 1, <<Inst(3)>>)>>]
LongIndices == {LongIndex}
==============================================================================
