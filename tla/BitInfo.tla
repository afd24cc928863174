------------------------------- MODULE BitInfo -------------------------------
(***************************************************************************)
(* What OptimizeBitwidth knows about a value (class Info), and how it       *)
(* learns it from the operands (the forward functions) and from a user      *)
(* (the backward functions).  A word is the set of its bits that are one.   *)
(* m_extend_point is left out: nothing depends on it.  A shift by S_MAX or  *)
(* more is by its remainder, as on the machines the pass runs on.           *)
(***************************************************************************)
EXTENDS Naturals, Integers, FiniteSetsExt, SequencesExt

CONSTANT S_MAX   \* bits of uintmax_t

ASSUME S_MAXAssumption == S_MAX \in Nat \ {0}

Words == SUBSET (0 .. S_MAX - 1)
Num(w) == MapThenSumSet(LAMBDA i : 2 ^ i, w)
Word(n) == {i \in 0 .. S_MAX - 1 : (n \div 2 ^ i) % 2 = 1}

get(w, i) == (i % S_MAX) \in w
complement(w) == (0 .. S_MAX - 1) \ w
shl(w, k) == {i + k : i \in w} \cap (0 .. S_MAX - 1)
shr(w, k) == {i - k : i \in w} \cap Nat
xor(v, w) == (v \ w) \cup (w \ v)

Least(a, b) == IF a <= b THEN a ELSE b
Most(a, b) == IF a <= b THEN b ELSE a
Minus(a, b) == IF a >= b THEN a - b ELSE 0

\* A value of which nothing is known but its type.
Unknown(width) ==
  [bitwidth |-> width, left |-> width - 1, right |-> 0,
   unknown |-> 0 .. width - 1, value |-> {}]

Constant(width, n) ==
  LET w == Word(n)
  IN  [bitwidth |-> width, left |-> IF w = {} THEN 0 ELSE Max(w),
       right |-> IF w = {} THEN 0 ELSE Min(w), unknown |-> {}, value |-> w]

\* Info::operator=: everything but the bit width.
Assign(to, from) == [from EXCEPT !.bitwidth = to.bitwidth]

setOneDyn(x, from, to) == [x EXCEPT !.unknown = @ \cup from .. to]
setZeroDyn(x, from, to) == [x EXCEPT !.unknown = @ \ (from .. to)]
setOne(x, from, to) == [x EXCEPT !.value = @ \cup from .. to]
setZero(x, from, to) == [x EXCEPT !.value = @ \ (from .. to)]
Dynamic(x) == setOneDyn([x EXCEPT !.value = {}], x.right, x.left)

Informative(x) == {i \in 0 .. x.left : get(x.value \cup x.unknown, i)}
\* Mutant: the search starts below the leftmost bit.
updateLeft_Below(x) ==
  [x EXCEPT !.left = IF Informative(x) \ {x.left} = {} THEN 0
                     ELSE Max(Informative(x) \ {x.left})]
updateLeft(x) ==
  [x EXCEPT !.left = IF Informative(x) = {} THEN 0 ELSE Max(Informative(x))]
updateRight(x) ==
  [x EXCEPT !.right = IF Informative(x) = {} THEN 0 ELSE Min(Informative(x))]
updateBorders(x) == updateRight(updateLeft(x))

\* Only bits between the borders may be unknown.
correctDyn(x) ==
  [x EXCEPT !.unknown = @ \ ((x.left + 1 .. x.bitwidth - 1) \cup (0 .. x.right - 1))]

minPossibleVal(x) == Num(x.value)
maxPossibleVal(x) == Num(x.value \cup (x.unknown \cap (x.right .. x.left)))
findRightDyn(x) ==
  LET u == {i \in 0 .. x.left - 1 : get(x.unknown, i)} IN IF u = {} THEN 0 ELSE Min(u)

\* The bits from left down to right become unknown: none, unless left is 0.
createUndefined(x) ==
  LET y == [x EXCEPT !.value = {}, !.left = x.bitwidth - 1, !.right = 0]
  IN  setOneDyn(y, y.left, y.right)

Differing(x, y) == x.unknown \cup y.unknown \cup xor(x.value, y.value)
ClearOutside(x) ==
  LET clear(z, from, to) == setZero(setZeroDyn(z, from, to), from, to)
  IN  clear(clear(x, x.left + 1, x.bitwidth - 1), 0, x.right - 1)

setMax(x, y) ==
  ClearOutside(
    [bitwidth |-> Most(x.bitwidth, y.bitwidth), left |-> Most(x.left, y.left),
     right |-> Least(x.right, y.right),
     unknown |-> Differing(x, y), value |-> x.value \cap y.value])

setMin(x, y) ==
  LET left == Least(x.left, y.left)
  IN ClearOutside(
    [bitwidth |-> Least(x.bitwidth, y.bitwidth), left |-> left,
     right |-> Least(left, Most(x.right, y.right)),
     unknown |-> Differing(x, y), value |-> x.value \cap y.value])
------------------------------------------------------------------------------
\* Forward: what is learnt of c, the result, from its operands x and y.

forwardMul(c, x, y) ==
  LET rightmost == Least(findRightDyn(x), findRightDyn(y))
      r == [c EXCEPT !.left = Least(c.bitwidth - 1, x.left + y.left + 1),
                     !.right = Most(x.right, y.right),
                     !.value = Word(Num(x.value) * Num(y.value))]
  IN  correctDyn(setOneDyn(setZero(r, rightmost + 1, c.bitwidth - 1),
                           rightmost + 1, c.bitwidth - 1))

forwardSelect(c, x, y) ==
  correctDyn(updateBorders(
    [c EXCEPT !.left = Most(x.left, y.left), !.right = Least(x.right, y.right),
              !.unknown = Differing(x, y), !.value = x.value \ Differing(x, y)]))

\* One position of an addition; carry: the carry into it is known.
addBit(x, y, s, i) ==
  LET someOne == get(x.value \cup y.value, i)
      someUnknown == get(x.unknown \cup y.unknown, i)
      out == IF s.carry
             THEN IF get(s.value, i)
                  THEN IF someOne /\ someUnknown THEN "one" ELSE "unknown"
                  ELSE IF ~get(xor(x.value, y.value), i) /\ get(xor(x.unknown, y.unknown), i)
                       THEN "zero" ELSE "unknown"
             ELSE IF get(x.value \cap y.value, i) THEN "one" ELSE "unknown"
  IN  IF s.carry /\ ~someUnknown
      THEN [s EXCEPT !.value = Word(Num(@) + Num(x.value \cap {i})
                                              + Num(y.value \cap {i})),
                     !.unknown = @ \ {i}]
      ELSE [carry |-> out # "unknown", unknown |-> s.unknown \cup {i},
            value |-> (CASE out = "one" -> s.value \cup {i + 1}
                         [] out = "zero" -> s.value \ {i + 1}
                         [] OTHER -> s.value) \ {i}]

sumLeft(c, x, y) == Least(Most(x.left, y.left) + 1, c.bitwidth - 1)

forwardAdd(c, x, y, isSubtraction) ==
  LET left == sumLeft(c, x, y)
      sum == FoldLeft(LAMBDA s, i : addBit(x, y, s, i - 1),
                      [carry |-> TRUE, unknown |-> c.unknown,
                       value |-> IF isSubtraction THEN {0} ELSE {}],
                      [i \in 1 .. left + 1 |-> i])
  IN  correctDyn(updateBorders(
        [c EXCEPT !.left = left, !.right = Least(x.right, y.right),
                  !.bitwidth = Most(x.bitwidth, y.bitwidth),
                  !.value = sum.value, !.unknown = sum.unknown]))

\* Subtraction adds the complement and one.
negated(c, y) ==
  LET zeros == {i \in 0 .. c.bitwidth - 1 : ~get(y.value, i)}
  IN  [bitwidth |-> y.bitwidth, unknown |-> y.unknown,
       value |-> complement(y.value \cup y.unknown),
       left |-> IF zeros = {} THEN 0 ELSE Max(zeros),
       right |-> IF zeros = {} THEN 0 ELSE Min(zeros)]
forwardSub(c, x, y) == forwardAdd(c, x, negated(c, y), TRUE)

\* The logarithm of the least divisor; of zero it is minus infinity, which
\* the conversion to unsigned makes zero.
divisorShift(y) == IF y.value = {} THEN 0 ELSE Max(y.value)

forwardSDiv(c, x, y) ==
  LET shift == divisorShift(y)
      negative == \E z \in {x, y} : z.left = z.bitwidth - 1
      r == [c EXCEPT !.right = 0,
              !.left = IF negative THEN c.bitwidth - 1 ELSE Minus(x.left, shift)]
  IN  correctDyn(Dynamic(r))

forwardUDiv(c, x, y) ==
  LET shift == divisorShift(y)
      r == [c EXCEPT !.left = Minus(x.left, shift), !.right = 0]
      known == x.unknown \cup y.unknown = {}
      s == IF known
           THEN updateBorders([r EXCEPT !.unknown = {},
                   !.value = Word(Num(x.value) \div Num(y.value))])
           ELSE Dynamic(r)
  IN  correctDyn(s)

forwardSRem(c, x, y) ==
  LET negative == x.left = x.bitwidth - 1
  IN  correctDyn(Dynamic(
        [c EXCEPT !.right = 0,
           !.left = IF negative THEN c.bitwidth - 1 ELSE y.left]))

forwardURem(c, x, y) ==
  IF x.unknown \cup y.unknown = {}
  THEN correctDyn(updateBorders([c EXCEPT !.unknown = {},
                    !.value = Word(Num(x.value) % Num(y.value))]))
  ELSE correctDyn(Dynamic([c EXCEPT !.left = y.left, !.right = 0]))
------------------------------------------------------------------------------
\* The least and the greatest shift.
shifts(y) ==
  IF y.unknown = {}
  THEN [min |-> minPossibleVal(y) % 256, max |-> minPossibleVal(y) % 256]
  ELSE [min |-> minPossibleVal(y) % 256, max |-> Least(maxPossibleVal(y), S_MAX)]

\* The shift may be negative or exceed the word.
badShift(c, y) ==
  \/ y.left = y.bitwidth - 1
  \/ get(y.unknown, y.bitwidth - 1)
  \/ shifts(y).max >= c.bitwidth

\* No further than to the end of the word.
boundedShifts(x, y) ==
  [min |-> Least(x.left + 1, shifts(y).min), max |-> Least(x.left + 1, shifts(y).max)]

\* An unknown shift that may be zero.
anyShift(c, x, max) ==
  setOneDyn([c EXCEPT !.value = {}, !.left = x.left],
            Minus(c.right, max), Least(x.bitwidth - 1, x.left))

\* All bits a range of shifts may move.
shiftRange(r, s) == IF s.min = s.max THEN r ELSE Dynamic(r)
exactShift(r, s) == correctDyn(IF s.min = s.max THEN updateBorders(r) ELSE r)

forwardLShr(c, x, y) ==
  LET s == boundedShifts(x, y)
      r == [c EXCEPT !.right = Minus(x.right, s.max), !.left = Minus(x.left, s.min)]
      moved == [r EXCEPT !.value = shr(x.value, s.min), !.unknown = shr(x.unknown, s.min)]
      cut == setZeroDyn(setZero(moved, r.left + 1, r.bitwidth - 1), r.left + 1, r.bitwidth - 1)
  IN  IF badShift(c, y) THEN createUndefined(c)
      ELSE exactShift(IF s.min > 0 THEN shiftRange(cut, s) ELSE anyShift(r, x, s.max), s)

\* The sign is shifted in: a one, an unknown bit, or zero.
forwardAShr(c, x, y) ==
  LET s == boundedShifts(x, y)
      sign == x.bitwidth - 1
      r == [c EXCEPT !.right = Minus(x.right, s.max)]
      moved == [r EXCEPT !.value = shr(x.value, s.min), !.unknown = shr(x.unknown, s.min)]
      first == c.bitwidth - s.min - 1
      last == c.bitwidth - 1
      signed ==
        IF get(x.value, sign) THEN [setOne(moved, first, last) EXCEPT !.left = last]
        ELSE IF get(x.unknown, sign)
        THEN [setOneDyn(setZero(moved, first, last), first, last) EXCEPT !.left = last]
        ELSE LET left == Minus(x.left, s.min)
             IN  setZeroDyn(setZero([moved EXCEPT !.left = left], left + 1, last), left + 1, last)
  IN  IF badShift(c, y) THEN createUndefined(c)
      ELSE exactShift(IF s.min > 0 THEN shiftRange(signed, s) ELSE anyShift(r, x, s.max), s)

forwardShl(c, x, y) ==
  LET s == shifts(y)
      left == Least(c.bitwidth - 1, x.left + s.max)
      r == IF y.unknown # {}
           THEN Dynamic([c EXCEPT !.left = left, !.right = x.right])
           ELSE updateBorders(
                  [c EXCEPT !.left = left, !.right = Least(x.right + s.min, c.bitwidth - 1),
                            !.value = shl(x.value, s.min), !.unknown = shl(x.unknown, s.min)])
  IN  IF badShift(c, y) \/ x.right + s.max > c.bitwidth - 1 THEN createUndefined(c)
      ELSE correctDyn(r)

forwardZExt(c, x) == updateBorders(Assign(c, x))

forwardSExt(c, x) ==
  LET r == Assign(c, x)
      sign == x.bitwidth - 1
      top == c.bitwidth - 1
      extended ==
        IF x.left # sign THEN r
        ELSE IF get(x.unknown, sign)
        THEN [setZero(setOneDyn(r, sign + 1, top), sign + 1, top) EXCEPT !.left = top]
        ELSE [setOne(setZeroDyn(r, sign + 1, top), sign + 1, top) EXCEPT !.left = top]
  IN  correctDyn(updateBorders(extended))

forwardAnd(c, x, y) ==
  LET value == x.value \cap y.value
  IN  correctDyn(updateBorders(
        [c EXCEPT !.left = Least(x.left, y.left), !.right = Most(x.right, y.right),
                  !.value = value,
                  !.unknown = ((x.unknown \cup x.value) \cap (y.unknown \cup y.value)) \ value]))

\* The bits of c itself stay.
forwardOr(c, x, y) ==
  LET value == c.value \cup x.value \cup y.value
  IN  correctDyn(updateBorders(
        [c EXCEPT !.left = Most(x.left, y.left), !.right = Least(x.right, y.right),
                  !.value = value, !.unknown = (x.unknown \cup y.unknown) \ value]))

forwardTrunc(c, x) ==
  LET left == Least(c.bitwidth - 1, x.left)
      r == [c EXCEPT !.left = left, !.right = Least(left, x.right),
              !.value = x.value \ (left + 1 .. x.bitwidth - 1),
              !.unknown = x.unknown \ (left + 1 .. x.bitwidth - 1)]
  IN  correctDyn(updateBorders(r))

forwardXor(c, x, y) ==
  LET unknown == x.unknown \cup y.unknown
  IN  [c EXCEPT !.left = Most(x.left, y.left), !.right = Least(x.right, y.right),
                !.unknown = unknown, !.value = xor(x.value, y.value) \ unknown]
------------------------------------------------------------------------------
\* Backward: what a user needs of the operand i.  m is what the users seen so
\* far need, u the info of the user, x and y those of its operands.

backwardRedirect(m, from) == Assign(m, from)

backwardExt(m, i, u) ==
  LET r == [m EXCEPT !.left = i.left, !.right = Least(u.right, i.left), !.value = {},
                     !.unknown = {}]
  IN  setOneDyn(r, r.left, r.right)

backwardShl(m, u, y) ==
  LET s == shifts(y)
      r == [m EXCEPT !.right = Minus(u.right, s.max), !.left = Minus(u.left, s.min)]
  IN  correctDyn(
        IF y.unknown = {}
        THEN [r EXCEPT !.value = shr(u.value, s.min), !.unknown = shr(u.unknown, s.min)]
        ELSE setOneDyn([r EXCEPT !.value = {}], r.right, r.left))

\* Nothing changes when the operand is the shift.
backwardShr(m, u, x, y) ==
  LET s == shifts(y)
      left == Most(u.left + s.max, u.bitwidth - 1) % 256
      within == u.right + s.min <= u.bitwidth - 1
      r == IF y.unknown # {}
           THEN LET w == setOneDyn(m, m.right, m.bitwidth - 1)
                IN  Dynamic([w EXCEPT !.right = IF within THEN x.right + s.min ELSE 0,
                                      !.left = IF within THEN u.left ELSE 0])
           ELSE updateBorders(
                  [m EXCEPT !.left = left,
                     !.right = IF x.right + s.min <= m.bitwidth - 1 THEN x.right + s.min ELSE 0,
                     !.value = shl(x.value, s.min), !.unknown = shl(x.unknown, s.min)])
  IN  correctDyn(r)

\* Bits are dropped only if the other operand has no other use.
backwardXor(m, i, u, otherHasOneUse) ==
  IF otherHasOneUse
  THEN correctDyn([m EXCEPT !.left = u.left, !.right = u.right])
  ELSE Assign(m, i)

\* The top bits meet zeros of the other operand, and leave the word.
backwardMul(m, i, other) ==
  LET r == Assign(m, i)
      cut == correctDyn([r EXCEPT !.left = (@ + 256 - other.right) % 256])
  IN  IF other.right = 0 THEN r ELSE setZero(cut, cut.left + 1, cut.bitwidth - 1)

\* Mutant: one bit less than the sum has.
backwardAdd_Short(m, i, u) == [Assign(m, i) EXCEPT !.left = Least(@, Minus(u.left, 1))]
backwardAdd(m, i, u) ==
  LET r == Assign(m, i)
      cut == [r EXCEPT !.left = u.left]
  IN  IF r.left <= u.left THEN r
      ELSE setZeroDyn(setZero(cut, cut.left + 1, cut.bitwidth - 1),
                      cut.left + 1, cut.bitwidth - 1)
==============================================================================
