-------------------------- MODULE MCOptimizeBitwidth --------------------------
\* Instances for OptimizeBitwidth: two operations in a row whose result is
\* masked, a chain of casts, a choice, a value used twice, and a counted loop.
EXTENDS OptimizeBitwidth

Value(op, width, args) == [op |-> op, width |-> width, args |-> args]
Argument(width) == Value("arg", width, <<>>)
Number(width, n) == [op |-> "const", width |-> width, args |-> <<>>, number |-> n]

\* An argument, a constant and a loaded value of one width; the result masked.
Masked(n, first, second, mask) ==
  <<Argument(3), Number(3, n), Value("load", 3, <<1>>), first, second,
    Value("and", 3, <<5, mask>>), Value("ret", 3, <<6>>)>>

Straight(values) == [values |-> values, loop |-> <<>>]

Chains(ops, lasts) ==
  {Straight(Masked(n, Value(o1, 3, a), Value(o2, 3, b), m)) :
     n \in {1, 6}, o1 \in ops, o2 \in lasts, a \in {<<1, 2>>, <<3, 1>>},
     b \in {<<4, 3>>, <<4, 2>>, <<1, 4>>}, m \in {2, 4}}

Casts ==
  {Straight(<<Argument(3), Number(4, 5), Value("load", 3, <<1>>), Value(c1, 4, <<3>>),
              Value(o, 4, <<4, 2>>), Value("trunc", 2, <<5>>), Value(c2, 4, <<6>>),
              Value("ret", 4, <<7>>)>>) :
     o \in {"add", "sub", "mul", "and", "or", "xor"}, c1 \in {"zext", "sext"}, c2 \in {"zext", "sext"}}

Selections ==
  {Straight(<<Argument(3), Number(3, n), Value("load", 3, <<1>>), Value(o, 3, <<3, 2>>),
              Value("icmp", 1, <<3, 1>>), Value("select", 3, <<5, 4, 2>>), Value("ret", 3, <<6>>)>>) :
     n \in {1, 3, 6}, o \in {"and", "add", "urem", "lshr"}}

\* A value that is masked and compared, masked first: the comparison, which has
\* no rule of its own, is the user that is looked at first.
MaskedThenCompared ==
  {Straight(<<Argument(3), Number(3, n), Value("load", 3, <<1>>), Value(o, 3, <<3, 1>>),
              Value("and", 3, <<4, 2>>), Value("icmp", 1, <<4, 1>>),
              Value("select", 3, <<6, 5, 1>>), Value("ret", 3, <<7>>)>>) :
     o \in {"and", "or", "xor", "add", "sub", "mul"}, n \in {1, 3, 6}}

\* for (i = start; ...; i++) x = i op load, until i reaches bound.
CountedLoops(bounds, os) ==
  {[values |-> <<bound, Number(3, start), Number(3, 1), Value("load", 3, <<1>>),
                 Value("phi", 3, <<2, 7>>), Value(o, 3, <<5, 4>>), Value("add", 3, <<5, 3>>),
                 Value("icmp", 1, <<7, 1>>), Value("ret", 3, <<6>>)>>,
    loop |-> <<5, 8>>] : bound \in bounds, start \in {0, 1, 2}, o \in os}

Exact == {"add", "sub", "mul", "and", "or", "xor", "udiv", "urem", "sdiv", "srem"}
Shifts == {"shl", "lshr", "ashr"}

\* Programs the pass is right about: the result of a shift is used by another
\* operation first, a loop is bounded by a value that is not constant, and no
\* user without a rule is looked at after one that narrows.
RightPrograms ==
  Chains(Exact \cup Shifts, Exact) \cup Casts \cup Selections \cup MaskedThenCompared
    \cup CountedLoops({Argument(3)}, {"and", "or", "add", "xor", "sub", "mul"})

\* Loops bounded by a constant.
ConstantBounds == CountedLoops({Number(3, 4), Number(3, 5)}, {"and", "add"})
==============================================================================
