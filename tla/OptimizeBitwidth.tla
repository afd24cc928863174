--------------------------- MODULE OptimizeBitwidth ---------------------------
(***************************************************************************)
(* The pass OptimizeBitwidth: forward over the instructions until nothing   *)
(* changes, then backward once.  What it is for: getSize, the number of     *)
(* bits a value is given in the circuit.                                    *)
(*                                                                          *)
(* A program is a sequence of values, arguments and constants first; with   *)
(* the first and last instruction of its loop, or none.  The condition that *)
(* stays in the loop is the value before loop.last.  Its phi nodes name the *)
(* value from outside and the one from the latch, in the order given by     *)
(* latch.                                                                   *)
(***************************************************************************)
EXTENDS BitInfo

CONSTANTS Programs, Fuel   \* bound: instructions executed by a loop

VARIABLES program, bit_info, loop_map, at, run_again, phase,
          rounds   \* history: forward passes begun

vars == <<program, bit_info, loop_map, at, run_again, phase, rounds>>

Values == DOMAIN program.values
Op(v) == program.values[v].op
Arg(v, k) == program.values[v].args[k]
Width(v) == program.values[v].width
IsInstruction(v) == Op(v) \notin {"arg", "const"}
Begin == Min({v \in Values : IsInstruction(v)})
End == Len(program.values)
Free == {"arg", "load"}
Operands(v) == IF IsInstruction(v) THEN program.values[v].args ELSE <<>>

createBitInfo(v) ==
  IF Op(v) = "const" THEN Constant(Width(v), program.values[v].number)
  ELSE Unknown(Width(v))

getSize(info, v) == info[v].left + 1
------------------------------------------------------------------------------
\* Loops: whose phi is an induction variable, and of which kind.

\* 1: the value goes up, 0: down, 2: neither is seen.
checkBinary(v, phi) ==
  LET mine == \E k \in DOMAIN Operands(v) : Arg(v, k) = phi
      step == Arg(v, 2)
      negative == /\ Arg(v, 1) = phi /\ Op(step) = "const"
                  /\ program.values[step].number >= 2 ^ (Width(step) - 1)
  IN  CASE mine /\ Op(v) \in {"add", "mul", "shl"} -> IF negative THEN 0 ELSE 1
        [] mine /\ Op(v) \in {"sub", "udiv", "sdiv", "urem", "srem", "lshr"} -> 0
        [] OTHER -> 2

\* The condition that leaves the loop compares the phi, or one of its inputs,
\* or such an input cast.
checkCompareCondition(phi, cmp) ==
  LET left == Arg(cmp, 1)
      inputs == {Arg(phi, 1), Arg(phi, 2)}
      cast == Op(left) \in {"trunc", "zext", "sext"} /\ Arg(left, 1) \in inputs
  IN  CASE left = phi -> IF checkBinary(Arg(phi, 2), phi) # 2
                         THEN checkBinary(Arg(phi, 2), phi)
                         ELSE checkBinary(Arg(phi, 1), phi)
        [] left # phi /\ left \in inputs -> checkBinary(left, phi)
        [] left # phi /\ left \notin inputs /\ cast -> checkBinary(Arg(left, 1), phi)
        [] OTHER -> 2

InLoop(v) == program.loop # <<>> /\ v \in program.loop[1] .. program.loop[2]
Phis == {v \in Values : Op(v) = "phi" /\ InLoop(v)}
Inductive == {v \in Phis : checkCompareCondition(v, program.loop[2]) # 2}

\* order: 0 if the second input comes from the loop.
processLoop ==
  [v \in Inductive |->
     [cmp |-> program.loop[2], pattern |-> checkCompareCondition(v, program.loop[2]),
      order |-> IF InLoop(Arg(v, 2)) THEN 0 ELSE 1]]

checkSanityCondition(pattern, bound, start) ==
  IF pattern = 1 THEN bound.left >= start.left ELSE bound.left <= start.left

\* An ascending variable is like its bound, a descending one like its start.
updatePHIValue(info, loops, phi) ==
  LET l == loops[phi]
      bound == info[Arg(l.cmp, 2)]
      start == info[Arg(phi, l.order + 1)]
      negative == l.pattern = 0 /\ bound.left = bound.bitwidth - 1
  IN  IF negative \/ ~checkSanityCondition(l.pattern, bound, start)
      THEN createUndefined(info[phi])
      ELSE Assign(info[phi], IF l.pattern = 1 THEN bound ELSE start)

forwardPHI(v) ==
  IF v \in DOMAIN loop_map THEN updatePHIValue(bit_info, loop_map, v)
  ELSE FoldLeft(LAMBDA m, k : setMax(m, bit_info[Arg(v, k + 1)]),
                Assign(bit_info[v], bit_info[Arg(v, 1)]), [k \in 1 .. Len(Operands(v)) - 1 |-> k])
------------------------------------------------------------------------------
forward(v) ==
  LET c == bit_info[v]
      x == bit_info[Arg(v, 1)]
      y == bit_info[Arg(v, 2)]
      o == Op(v)
  IN  CASE o = "add" -> forwardAdd(c, x, y, FALSE)
        [] o = "and" -> forwardAnd(c, x, y)
        [] o = "or" -> forwardOr(c, x, y)
        [] o = "shl" -> forwardShl(c, x, y)
        [] o = "lshr" -> forwardLShr(c, x, y)
        [] o = "ashr" -> forwardAShr(c, x, y)
        [] o = "zext" -> forwardZExt(c, x)
        [] o = "sext" -> forwardSExt(c, x)
        [] o = "sub" -> forwardSub(c, x, y)
        [] o = "phi" -> forwardPHI(v)
        [] o = "select" -> forwardSelect(c, y, bit_info[Arg(v, 3)])
        [] o = "udiv" -> forwardUDiv(c, x, y)
        [] o = "sdiv" -> forwardSDiv(c, x, y)
        [] o = "srem" -> forwardSRem(c, x, y)
        [] o = "urem" -> forwardURem(c, x, y)
        [] o = "trunc" -> forwardTrunc(c, x)
        [] o = "mul" -> forwardMul(c, x, y)
        [] o = "xor" -> forwardXor(c, x, y)
        [] OTHER -> c

\* Mutant: a border that stays is a change.
changed_Any(v, after) == Op(v) \notin {"sub", "xor"} /\ after.left <= bit_info[v].left
\* A change is a lower left border; sub counts it twice and loses it, xor
\* falls into the default.
changed(v, after) == Op(v) \notin {"sub", "xor"} /\ after.left < bit_info[v].left

\* The users of v, the latest first; one that uses v twice appears twice.
Users(v) ==
  LET uses == {<<u, k>> \in Values \X (1 .. 3) : k \in DOMAIN Operands(u) /\ Arg(u, k) = v}
  IN  [n \in 1 .. Cardinality(uses) |->
         SetToSortSeq(uses, LAMBDA a, b : a[1] > b[1] \/ (a[1] = b[1] /\ a[2] > b[2]))[n][1]]

Other(u, v) == IF Arg(u, 1) = v THEN Arg(u, 2) ELSE Arg(u, 1)

\* What user u needs of v; m is what the users before it need.
needs(m, v, u) ==
  LET i == bit_info[v]
      r == bit_info[u]
      o == Op(u)
  IN  CASE o \in {"sdiv", "udiv", "srem", "urem"} -> backwardRedirect(m, i)
        [] o \in {"trunc", "and", "or"} -> backwardRedirect(m, r)
        [] o \in {"add", "sub"} -> backwardAdd(m, i, r)
        [] o = "lshr" -> IF Arg(u, 2) = v THEN m
                         ELSE backwardShr(m, r, i, bit_info[Arg(u, 2)])
        [] o = "xor" -> backwardXor(m, i, r, Op(Other(u, v)) # "const"
                                             /\ Len(Users(Other(u, v))) = 1)
        [] o = "mul" -> backwardMul(m, i, bit_info[Other(u, v)])
        [] o = "shl" -> backwardShl(m, r, bit_info[Arg(u, 2)])
        [] o \in {"sext", "zext"} -> backwardExt(m, i, r)
        [] OTHER -> m

backward(v) ==
  LET i == bit_info[v]
      start == Assign([i EXCEPT !.bitwidth = S_MAX], i)
      users == Users(v)
      step(m, u) ==
        LET n == needs(m.max, v, u)
            max == IF m.first THEN n ELSE setMax(n, m.max)
        IN  [max |-> max, first |-> FALSE]
  IN  IF Op(v) = "load" \/ users = <<>> THEN i
      ELSE setMin(i, FoldLeft(step, [max |-> start, first |-> TRUE], users).max)
------------------------------------------------------------------------------
Init ==
  /\ program \in Programs
  /\ loop_map = processLoop
  /\ LET created == [v \in Values |-> createBitInfo(v)]
     IN  bit_info = [v \in Values |-> IF v \in DOMAIN loop_map
                                      THEN updatePHIValue(created, loop_map, v)
                                      ELSE created[v]]
  /\ at = Begin /\ run_again = FALSE /\ phase = "forward" /\ rounds = 1

forwardIterate ==
  /\ phase = "forward" /\ at <= End
  /\ bit_info' = [bit_info EXCEPT ![at] = forward(at)]
  /\ run_again' = (run_again \/ changed(at, forward(at)))
  /\ at' = at + 1
  /\ UNCHANGED <<program, loop_map, phase, rounds>>

NewCycle ==
  /\ phase = "forward" /\ at > End
  /\ run_again' = FALSE
  /\ at' = IF run_again THEN Begin ELSE End
  /\ phase' = IF run_again THEN "forward" ELSE "backward"
  /\ rounds' = IF run_again THEN rounds + 1 ELSE rounds
  /\ UNCHANGED <<program, bit_info, loop_map>>

\* The first instruction is not visited.
backwardIterate ==
  /\ phase = "backward" /\ at > Begin
  /\ bit_info' = [bit_info EXCEPT ![at] = backward(at)]
  /\ at' = at - 1
  /\ UNCHANGED <<program, loop_map, run_again, phase, rounds>>

Finish ==
  /\ phase = "backward" /\ at = Begin
  /\ phase' = "done"
  /\ UNCHANGED <<program, bit_info, loop_map, at, run_again, rounds>>

Next == forwardIterate \/ NewCycle \/ backwardIterate \/ Finish

Spec == Init /\ [][Next]_vars
------------------------------------------------------------------------------
\* The program as it runs, by the language reference.

Signed(n, w) == IF n >= 2 ^ (w - 1) THEN n - 2 ^ w ELSE n
Abs(n) == IF n < 0 THEN -n ELSE n
Sign(n) == IF n < 0 THEN -1 ELSE 1

\* The result is not defined: a division by zero, a shift by the width.
Undefined(v, x, y) ==
  \/ Op(v) \in {"udiv", "sdiv", "urem", "srem"} /\ y = 0
  \/ Op(v) \in {"sdiv", "srem"} /\ Signed(x, Width(v)) = -(2 ^ (Width(v) - 1))
     /\ Signed(y, Width(v)) = -1
  \/ Op(v) \in {"shl", "lshr", "ashr"} /\ y >= Width(v)

Apply(v, x, y, z) ==
  LET w == Width(v)
      wx == Width(Arg(v, 1))
      sx == Signed(x, wx)
      sy == Signed(y, wx)
      wrap(n) == ((n % 2 ^ w) + 2 ^ w) % 2 ^ w
      o == Op(v)
  IN  CASE o = "add" -> wrap(x + y)
        [] o = "sub" -> wrap(x - y)
        [] o = "mul" -> wrap(x * y)
        [] o = "udiv" -> x \div y
        [] o = "urem" -> x % y
        [] o = "sdiv" -> wrap(Sign(sx) * Sign(sy) * (Abs(sx) \div Abs(sy)))
        [] o = "srem" -> wrap(Sign(sx) * (Abs(sx) % Abs(sy)))
        [] o = "shl" -> wrap(x * 2 ^ y)
        [] o = "lshr" -> x \div 2 ^ y
        [] o = "ashr" -> wrap(sx \div 2 ^ y)
        [] o = "and" -> Num(Word(x) \cap Word(y))
        [] o = "or" -> Num(Word(x) \cup Word(y))
        [] o = "xor" -> Num(xor(Word(x), Word(y)))
        [] o \in {"zext", "trunc"} -> wrap(x)
        [] o = "sext" -> wrap(sx)
        [] o = "icmp" -> IF x < y THEN 1 ELSE 0
        [] o = "select" -> IF x = 1 THEN y ELSE z
        [] o = "load" -> x
        [] OTHER -> x

\* All values a run computes when each is cut to its size.  A run that does
\* something undefined ends there.
Runs(size, inputs) ==
  LET cut(v, n) == n % 2 ^ size[v]
      start == [v \in Values |-> CASE Op(v) = "const" -> cut(v, program.values[v].number)
                                   [] Op(v) \in Free -> cut(v, inputs[v])
                                   [] OTHER -> 0]
      operand(s, v, k) ==
        IF Op(v) = "load" THEN inputs[v]
        ELSE IF k > Len(Operands(v)) THEN 0
        ELSE IF Op(v) # "phi" THEN s.env[Arg(v, k)]
        ELSE LET inside == s.round > 0
                 from == CHOOSE j \in 1 .. 2 : InLoop(Arg(v, j)) = inside
             IN  s.env[Arg(v, from)]
      step(s, n) ==
        IF s.pc > End THEN s
        ELSE LET v == s.pc
                 x == operand(s, v, 1)
                 y == operand(s, v, 2)
                 result == cut(v, Apply(v, x, y, operand(s, v, 3)))
                 back == program.loop # <<>> /\ v = program.loop[2] /\ result = 1
             IN  IF Undefined(v, x, y) THEN [s EXCEPT !.pc = End + 1, !.defined = FALSE]
                 ELSE [s EXCEPT !.env[v] = result, !.seen = @ \cup {<<v, result>>},
                                !.pc = IF back THEN program.loop[1] ELSE v + 1,
                                !.round = IF back THEN @ + 1 ELSE @]
  IN  FoldLeft(step, [env |-> start, seen |-> {}, pc |-> Begin, round |-> 0, defined |-> TRUE],
               [n \in 1 .. (IF program.loop = <<>> THEN End - Begin + 1 ELSE Fuel) |-> n])

Inputs == {f \in [{v \in Values : Op(v) \in Free} -> 0 .. 2 ^ Max({Width(v) : v \in Values}) - 1] :
             \A v \in DOMAIN f : f[v] < 2 ^ Width(v)}
FullSize == [v \in Values |-> Width(v)]
------------------------------------------------------------------------------
\* After the forward passes, every value any run computes fits the bits it is
\* given, and has the bits that are said to be known.
ForwardFits ==
  phase = "backward" /\ at = End =>
    \A inputs \in Inputs : \A s \in Runs(FullSize, inputs).seen :
      /\ s[2] < 2 ^ getSize(bit_info, s[1])
      /\ \A b \in 0 .. bit_info[s[1]].left \ bit_info[s[1]].unknown :
           b \in Word(s[2]) <=> b \in bit_info[s[1]].value

\* With all values cut to their sizes after both passes, the program returns
\* what it returns without the optimization.
SameResult ==
  phase = "done" =>
    \A inputs \in Inputs :
      LET full == Runs(FullSize, inputs)
          cut == Runs([v \in Values |-> getSize(bit_info, v)], inputs)
      IN  full.defined => cut.defined /\ cut.env[End] = full.env[End]

\* The forward passes settle: each one more than the first has narrowed some
\* value for good, so that there are at most as many as there are bits.
Settles ==
  phase = "forward" =>
    rounds <= 1 + MapThenSumSet(LAMBDA v : Width(v) - getSize(bit_info, v), Values)
==============================================================================
