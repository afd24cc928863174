--------------------------- MODULE MemCont_proofs ---------------------------
(***************************************************************************)
(* The counter of outstanding stores, for every number of ports, of blocks  *)
(* and of stores: the circuit exits after its last store.                   *)
(*                                                                          *)
(* First that SumFunctionOnSet of the community modules is the sum, and what *)
(* follows.  The induction is over sets of sets, so that no theorem with an *)
(* operator parameter is needed.                                            *)
(***************************************************************************)
EXTENDS MemCont, FiniteSets, FiniteSetTheorems, WellFoundedInduction, TLAPS

\* Induction over the subsets of a finite set.
LEMMA SubsetInduction ==
  ASSUME NEW S, IsFiniteSet(S), NEW C,
         \A T \in SUBSET S : (\A U \in SUBSET T : U # T => U \in C) => T \in C
  PROVE  \A T \in SUBSET S : T \in C
<1> SUFFICES ASSUME \E T \in SUBSET S : T \notin C PROVE FALSE
    OBVIOUS
<1> DEFINE others == {T \in SUBSET S : T \notin C}
           less   == StrictSubsetOrdering(S)
<1>1. IsWellFoundedOn(less, SUBSET S)
  <2>1. IsWellFoundedOn(less, FiniteSubsetsOf(S))
        BY FS_StrictSubsetOrderingWellFounded
  <2>2. FiniteSubsetsOf(S) = SUBSET S
        BY FS_FiniteSubsetsOfFinite
  <2> QED BY <2>1, <2>2
<1>2. others \subseteq SUBSET S /\ others # {}
      OBVIOUS
<1>3. PICK T \in others : \A U \in others : <<U, T>> \notin less
  <2> HIDE DEF others, less
  <2> QED BY <1>1, <1>2, WFMin
<1>4. \A U \in SUBSET T : U # T => U \in C
  <2> SUFFICES ASSUME NEW U \in SUBSET T, U # T, U \notin C PROVE FALSE
      OBVIOUS
  <2>1. U \in others /\ T \in SUBSET S
        OBVIOUS
  <2>2. <<U, T>> \in less
        BY <2>1 DEF StrictSubsetOrdering
  <2> QED BY <2>1, <2>2, <1>3
<1> QED BY <1>4

------------------------------------------------------------------------------
picked(s) == CHOOSE x \in s : TRUE

\* One step of the recursion by which a sum is defined, given the sums of the
\* smaller sets, and the function the recursion defines.
SumStep(fun, g, s) == IF s = {} THEN 0 ELSE fun[picked(s)] + g[s \ {picked(s)}]
Solves(fun, g, S) == g = [s \in SUBSET S |-> SumStep(fun, g, s)]
sums(fun, S) == CHOOSE g : Solves(fun, g, S)

LEMMA SumOfDefinition ==
  ASSUME NEW fun, NEW S
  PROVE  SumFunctionOnSet(fun, S) = sums(fun, S)[S]
BY DEF SumFunctionOnSet, FoldFunctionOnSet, MapThenFoldSet, SumStep, picked, sums,
   Solves

\* There is at most one function that obeys the recursion.
LEMMA SumsUnique ==
  ASSUME NEW fun, NEW S, IsFiniteSet(S), NEW g, NEW h,
         Solves(fun, g, S), Solves(fun, h, S)
  PROVE  g = h
<1> DEFINE equal == {T \in SUBSET S : g[T] = h[T]}
<1>1. ASSUME NEW T \in SUBSET S, \A U \in SUBSET T : U # T => U \in equal
      PROVE  T \in equal
  <2>1. g[T] = SumStep(fun, g, T) /\ h[T] = SumStep(fun, h, T)
        BY DEF Solves
  <2>2. CASE T = {}
        BY <2>1, <2>2 DEF SumStep
  <2>3. CASE T # {}
    <3>1. picked(T) \in T
          BY <2>3 DEF picked
    <3>2. T \ {picked(T)} \in equal
          BY <3>1, <1>1
    <3> QED BY <2>1, <2>3, <3>2 DEF SumStep
  <2> QED BY <2>2, <2>3
<1>2. \A T \in SUBSET S : T \in equal
  <2> HIDE DEF equal
  <2> QED BY <1>1, SubsetInduction
<1> QED BY <1>2 DEF Solves

\* The sum over a set is the picked value plus the sum over the rest.
LEMMA SumRecursion ==
  ASSUME NEW fun, NEW S, IsFiniteSet(S)
  PROVE  SumFunctionOnSet(fun, S) =
           IF S = {} THEN 0
           ELSE fun[picked(S)] + SumFunctionOnSet(fun, S \ {picked(S)})
<1> DEFINE v == [T \in SUBSET S |-> sums(fun, T)[T]]
           solved == {T \in SUBSET S : v[T] = SumStep(fun, v, T)}
<1>1. ASSUME NEW T \in SUBSET S, \A U \in SUBSET T : U # T => U \in solved
      PROVE  T \in solved
  <2> DEFINE g == [s \in SUBSET T |-> IF s = T THEN SumStep(fun, v, T) ELSE v[s]]
  <2>1. ASSUME NEW s \in SUBSET T
        PROVE  SumStep(fun, g, s) = g[s]
    <3>1. SumStep(fun, g, s) = SumStep(fun, v, s)
      <4>1. CASE s = {}
            BY <4>1 DEF SumStep
      <4>2. CASE s # {}
        <5>1. picked(s) \in s
              BY <4>2 DEF picked
        <5>2. s \ {picked(s)} \in SUBSET T /\ s \ {picked(s)} # T
              BY <5>1
        <5> HIDE DEF v
        <5>3. g[s \ {picked(s)}] = v[s \ {picked(s)}]
              BY <5>2
        <5> HIDE DEF g
        <5> QED BY <4>2, <5>3 DEF SumStep
      <4> QED BY <4>1, <4>2
    <3>2. s # T => v[s] = SumStep(fun, v, s)
          BY <1>1
    <3> HIDE DEF v
    <3> QED BY <3>1, <3>2
  <2>2. Solves(fun, g, T)
    <3>1. DOMAIN g = SUBSET T /\ g = [s \in SUBSET T |-> g[s]]
          OBVIOUS
    <3> HIDE DEF g
    <3> QED BY <2>1, <3>1 DEF Solves
  <2> HIDE DEF g
  <2>3. Solves(fun, sums(fun, T), T)
        BY <2>2 DEF sums
  <2>4. IsFiniteSet(T)
        BY FS_Subset
  <2>5. sums(fun, T) = g
        BY <2>2, <2>3, <2>4, SumsUnique
  <2>6. sums(fun, T)[T] = SumStep(fun, v, T)
        BY <2>5 DEF g
  <2> QED BY <2>6
<1>2. \A T \in SUBSET S : T \in solved
  <2> HIDE DEF solved
  <2> QED BY <1>1, SubsetInduction
<1>3. v[S] = SumStep(fun, v, S)
      BY <1>2
<1>4. \A T \in SUBSET S : v[T] = SumFunctionOnSet(fun, T)
      BY SumOfDefinition
<1> HIDE DEF v
<1> QED BY <1>3, <1>4 DEF SumStep
------------------------------------------------------------------------------
LEMMA SumEmpty == ASSUME NEW fun PROVE SumFunctionOnSet(fun, {}) = 0
BY SumRecursion, FS_EmptySet

\* A sum of naturals is a natural.
LEMMA SumNat ==
  ASSUME NEW S, IsFiniteSet(S), NEW fun, \A x \in S : fun[x] \in Nat
  PROVE  SumFunctionOnSet(fun, S) \in Nat
<1> DEFINE good == {T \in SUBSET S : SumFunctionOnSet(fun, T) \in Nat}
<1>1. ASSUME NEW T \in SUBSET S, \A U \in SUBSET T : U # T => U \in good
      PROVE  T \in good
  <2>1. CASE T = {}
        BY <2>1, SumEmpty
  <2>2. CASE T # {}
    <3>1. picked(T) \in T
          BY <2>2 DEF picked
    <3>2. T \ {picked(T)} \in good
          BY <3>1, <1>1
    <3>3. SumFunctionOnSet(fun, T)
            = fun[picked(T)] + SumFunctionOnSet(fun, T \ {picked(T)})
          BY <2>2, FS_Subset, SumRecursion
    <3> QED BY <3>1, <3>2, <3>3
  <2> QED BY <2>1, <2>2
<1>2. \A T \in SUBSET S : T \in good
  <2> HIDE DEF good
  <2> QED BY <1>1, SubsetInduction
<1> QED BY <1>2

\* Any value may be taken out of a sum first.
LEMMA SumRemove ==
  ASSUME NEW S, IsFiniteSet(S), NEW fun, \A x \in S : fun[x] \in Nat, NEW x \in S
  PROVE  SumFunctionOnSet(fun, S) = fun[x] + SumFunctionOnSet(fun, S \ {x})
<1> DEFINE sum(T) == SumFunctionOnSet(fun, T)
           good == {T \in SUBSET S : \A y \in T : sum(T) = fun[y] + sum(T \ {y})}
<1>1. \A T \in SUBSET S : sum(T) \in Nat
      BY SumNat, FS_Subset
<1>2. ASSUME NEW T \in SUBSET S, \A U \in SUBSET T : U # T => U \in good
      PROVE  T \in good
  <2> SUFFICES ASSUME NEW y \in T PROVE sum(T) = fun[y] + sum(T \ {y})
      OBVIOUS
  <2> DEFINE c == picked(T)
  <2>1. c \in T
        BY DEF picked
  <2>2. sum(T) = fun[c] + sum(T \ {c})
        BY <2>1, FS_Subset, SumRecursion
  <2>3. CASE y = c
        BY <2>2, <2>3
  <2>4. CASE y # c
    <3> HIDE DEF c, sum
    <3>1. T \ {c} \in good /\ T \ {y} \in good /\ y \in T \ {c} /\ c \in T \ {y}
          BY <2>1, <2>4, <1>2
    <3>2. sum(T \ {c}) = fun[y] + sum((T \ {c}) \ {y})
          BY <3>1
    <3>3. sum(T \ {y}) = fun[c] + sum((T \ {y}) \ {c})
          BY <3>1
    <3>4. (T \ {c}) \ {y} = (T \ {y}) \ {c}
          OBVIOUS
    <3>5. /\ fun[c] \in Nat /\ fun[y] \in Nat /\ sum((T \ {c}) \ {y}) \in Nat
          BY <2>1, <1>1
    <3> QED BY <2>2, <3>2, <3>3, <3>4, <3>5
  <2> QED BY <2>3, <2>4
<1>3. \A T \in SUBSET S : T \in good
  <2> HIDE DEF good
  <2> QED BY <1>2, SubsetInduction
<1>4. S \in good
      BY <1>3
<1> QED BY <1>4

\* The sum of sums.
LEMMA SumOfTwo ==
  ASSUME NEW S, IsFiniteSet(S), NEW f, NEW g, NEW h,
         \A x \in S : f[x] \in Nat /\ g[x] \in Nat /\ h[x] = f[x] + g[x]
  PROVE  SumFunctionOnSet(h, S) = SumFunctionOnSet(f, S) + SumFunctionOnSet(g, S)
<1> DEFINE good == {T \in SUBSET S : SumFunctionOnSet(h, T)
                      = SumFunctionOnSet(f, T) + SumFunctionOnSet(g, T)}
<1>1. \A T \in SUBSET S : SumFunctionOnSet(f, T) \in Nat /\ SumFunctionOnSet(g, T) \in Nat
      BY SumNat, FS_Subset
<1>2. ASSUME NEW T \in SUBSET S, \A U \in SUBSET T : U # T => U \in good
      PROVE  T \in good
  <2>1. CASE T = {}
        BY <2>1, SumEmpty
  <2>2. CASE T # {}
    <3> DEFINE c == picked(T)
               R == T \ {c}
    <3>1. c \in T
          BY <2>2 DEF picked
    <3>2. R \in good /\ R \in SUBSET S
          BY <3>1, <1>2
    <3>3. /\ SumFunctionOnSet(f, T) = f[c] + SumFunctionOnSet(f, R)
          /\ SumFunctionOnSet(g, T) = g[c] + SumFunctionOnSet(g, R)
          /\ SumFunctionOnSet(h, T) = h[c] + SumFunctionOnSet(h, R)
          BY <2>2, FS_Subset, SumRecursion
    <3>4. f[c] \in Nat /\ g[c] \in Nat /\ h[c] = f[c] + g[c]
          BY <3>1
    <3> HIDE DEF c, R
    <3> QED BY <3>2, <3>3, <3>4, <1>1
  <2> QED BY <2>1, <2>2
<1>3. \A T \in SUBSET S : T \in good
  <2> HIDE DEF good
  <2> QED BY <1>2, SubsetInduction
<1> QED BY <1>3

\* A multiple of a sum.
LEMMA SumScaled ==
  ASSUME NEW S, IsFiniteSet(S), NEW f, NEW h, NEW k \in Nat,
         \A x \in S : f[x] \in Nat /\ h[x] = k * f[x]
  PROVE  SumFunctionOnSet(h, S) = k * SumFunctionOnSet(f, S)
<1> DEFINE good == {T \in SUBSET S : SumFunctionOnSet(h, T) = k * SumFunctionOnSet(f, T)}
<1>1. \A T \in SUBSET S : SumFunctionOnSet(f, T) \in Nat
      BY SumNat, FS_Subset
<1>2. ASSUME NEW T \in SUBSET S, \A U \in SUBSET T : U # T => U \in good
      PROVE  T \in good
  <2>1. CASE T = {}
        BY <2>1, SumEmpty
  <2>2. CASE T # {}
    <3> DEFINE c == picked(T)
               R == T \ {c}
    <3>1. c \in T
          BY <2>2 DEF picked
    <3>2. R \in good /\ R \in SUBSET S
          BY <3>1, <1>2
    <3>3. /\ SumFunctionOnSet(f, T) = f[c] + SumFunctionOnSet(f, R)
          /\ SumFunctionOnSet(h, T) = h[c] + SumFunctionOnSet(h, R)
          BY <2>2, FS_Subset, SumRecursion
    <3>4. f[c] \in Nat /\ h[c] = k * f[c]
          BY <3>1
    <3> HIDE DEF c, R
    <3> QED BY <3>2, <3>3, <3>4, <1>1
  <2> QED BY <2>1, <2>2
<1>3. \A T \in SUBSET S : T \in good
  <2> HIDE DEF good
  <2> QED BY <1>2, SubsetInduction
<1> QED BY <1>3

\* Equal values have equal sums.
LEMMA SumSame ==
  ASSUME NEW S, IsFiniteSet(S), NEW f, NEW h, \A x \in S : f[x] \in Nat /\ h[x] = f[x]
  PROVE  SumFunctionOnSet(h, S) = SumFunctionOnSet(f, S)
<1>1. \A x \in S : f[x] \in Nat /\ h[x] = 1 * f[x]
      OBVIOUS
<1>2. SumFunctionOnSet(h, S) = 1 * SumFunctionOnSet(f, S)
      BY <1>1, SumScaled
<1>3. SumFunctionOnSet(f, S) \in Nat
      BY SumNat
<1> QED BY <1>2, <1>3

\* Values that are at most others have a sum at most theirs, and the same sum
\* only if they are the same.
LEMMA SumBounded ==
  ASSUME NEW S, IsFiniteSet(S), NEW f, NEW g,
         \A x \in S : f[x] \in Nat /\ g[x] \in Nat /\ f[x] <= g[x]
  PROVE  /\ SumFunctionOnSet(f, S) <= SumFunctionOnSet(g, S)
         /\ SumFunctionOnSet(f, S) = SumFunctionOnSet(g, S)
              => \A x \in S : f[x] = g[x]
<1> DEFINE good == {T \in SUBSET S :
                      /\ SumFunctionOnSet(f, T) <= SumFunctionOnSet(g, T)
                      /\ SumFunctionOnSet(f, T) = SumFunctionOnSet(g, T)
                           => \A x \in T : f[x] = g[x]}
<1>1. \A T \in SUBSET S : SumFunctionOnSet(f, T) \in Nat /\ SumFunctionOnSet(g, T) \in Nat
      BY SumNat, FS_Subset
<1>2. ASSUME NEW T \in SUBSET S, \A U \in SUBSET T : U # T => U \in good
      PROVE  T \in good
  <2>1. CASE T = {}
        BY <2>1, SumEmpty
  <2>2. CASE T # {}
    <3> DEFINE c == picked(T)
               R == T \ {c}
    <3>1. c \in T
          BY <2>2 DEF picked
    <3>2. R \in good /\ R \in SUBSET S /\ T = R \cup {c}
          BY <3>1, <1>2
    <3>3. /\ SumFunctionOnSet(f, T) = f[c] + SumFunctionOnSet(f, R)
          /\ SumFunctionOnSet(g, T) = g[c] + SumFunctionOnSet(g, R)
          BY <2>2, FS_Subset, SumRecursion
    <3>4. f[c] \in Nat /\ g[c] \in Nat /\ f[c] <= g[c]
          BY <3>1
    <3> HIDE DEF c, R
    <3> QED BY <3>2, <3>3, <3>4, <1>1
  <2> QED BY <2>1, <2>2
<1>3. \A T \in SUBSET S : T \in good
  <2> HIDE DEF good
  <2> QED BY <1>2, SubsetInduction
<1> QED BY <1>3

\* The order in which a table is summed does not matter.
LEMMA SumSwap ==
  ASSUME NEW S, IsFiniteSet(S), NEW R, IsFiniteSet(R), NEW m,
         \A x \in S : \A y \in R : m[x][y] \in Nat,
         NEW rows, \A x \in S : rows[x] = SumFunctionOnSet(m[x], R),
         NEW columns,
         columns = [y \in R |-> SumFunctionOnSet([x \in S |-> m[x][y]], S)]
  PROVE  SumFunctionOnSet(rows, S) = SumFunctionOnSet(columns, R)
<1> DEFINE column(T) == [y \in R |-> SumFunctionOnSet([x \in S |-> m[x][y]], T)]
           good == {T \in SUBSET S :
                      SumFunctionOnSet(rows, T) = SumFunctionOnSet(column(T), R)}
<1>1. \A T \in SUBSET S : \A y \in R : column(T)[y] \in Nat
  <2> SUFFICES ASSUME NEW T \in SUBSET S, NEW y \in R PROVE column(T)[y] \in Nat
      OBVIOUS
  <2> DEFINE col == [x \in S |-> m[x][y]]
  <2>1. IsFiniteSet(T) /\ \A x \in T : col[x] \in Nat
        BY FS_Subset
  <2> HIDE DEF col
  <2>2. SumFunctionOnSet(col, T) \in Nat
        BY <2>1, SumNat
  <2> QED BY <2>2 DEF col
<1>2. ASSUME NEW T \in SUBSET S, \A U \in SUBSET T : U # T => U \in good
      PROVE  T \in good
  <2>1. IsFiniteSet(T)
        BY FS_Subset
  <2>2. CASE T = {}
    <3>1. SumFunctionOnSet(rows, T) = 0
          BY <2>2, SumEmpty
    <3>2. \A y \in R : column(T)[y] \in Nat /\ column(T)[y] = 0 * column(T)[y]
          BY <2>2, SumEmpty
    <3> HIDE DEF column
    <3>3. SumFunctionOnSet(column(T), R) = 0 * SumFunctionOnSet(column(T), R)
          BY <3>2, SumScaled
    <3>4. SumFunctionOnSet(column(T), R) \in Nat
          BY <3>2, SumNat
    <3> QED BY <3>1, <3>3, <3>4
  <2>3. CASE T # {}
    <3> DEFINE c == picked(T)
               rest == T \ {c}
    <3>1. c \in T
          BY <2>3 DEF picked
    <3>2. rest \in good /\ rest \in SUBSET S
          BY <3>1, <1>2
    <3>3. SumFunctionOnSet(rows, T) = SumFunctionOnSet(m[c], R) + SumFunctionOnSet(rows, rest)
      <4>1. rows[c] = SumFunctionOnSet(m[c], R)
            BY <3>1
      <4> QED BY <2>1, <2>3, <4>1, SumRecursion
    <3>4. \A y \in R : column(T)[y] = m[c][y] + column(rest)[y]
      <4> SUFFICES ASSUME NEW y \in R PROVE column(T)[y] = m[c][y] + column(rest)[y]
          OBVIOUS
      <4> DEFINE col == [x \in S |-> m[x][y]]
      <4>1. col[c] = m[c][y]
            BY <3>1
      <4> HIDE DEF col
      <4>2. SumFunctionOnSet(col, T) = col[c] + SumFunctionOnSet(col, rest)
            BY <2>1, <2>3, SumRecursion
      <4> QED BY <4>1, <4>2 DEF col
    <3>5. \A y \in R : m[c][y] \in Nat /\ column(rest)[y] \in Nat
          BY <3>1, <3>2, <1>1
    <3> HIDE DEF column, c, rest
    <3>6. SumFunctionOnSet(column(T), R)
            = SumFunctionOnSet(m[c], R) + SumFunctionOnSet(column(rest), R)
          BY <3>4, <3>5, SumOfTwo
    <3> QED BY <3>2, <3>3, <3>6
  <2> QED BY <2>2, <2>3
<1>3. \A T \in SUBSET S : T \in good
  <2> HIDE DEF good
  <2> QED BY <1>2, SubsetInduction
<1> QED BY <1>3
------------------------------------------------------------------------------
\* Stores announced so far, stores written so far, and stores of the program.
announcedStores == SumFunction([b \in Blocks |-> announced[b] * stCount(b)])
writtenStores   == SumFunction(issued)
plannedStores   == SumFunction([b \in Blocks |-> plan[b] * stCount(b)])

\* Every register has its type, and no block runs and no port writes more often
\* than the program says.
InBounds ==
  /\ plan \in [Blocks -> 0 .. MaxRuns] /\ \E b \in Blocks : plan[b] > 0
  /\ announced \in [Blocks -> Nat] /\ \A b \in Blocks : announced[b] <= plan[b]
  /\ issued \in [Ports -> Nat] /\ \A p \in Ports : issued[p] <= due(p)

\* The counter is the number of announced stores that are not yet written, or,
\* when writes are ahead of their announcements, that negative number modulo
\* COUNTER_MOD; its copy is stale before the first announcement only.
Counts ==
  /\ counter = IF writtenStores <= announcedStores
               THEN announcedStores - writtenStores
               ELSE COUNTER_MOD + announcedStores - writtenStores
  /\ counter1 \in 0 .. COUNTER_MOD - 1
  /\ counter1 = counter \/ \A b \in Blocks : announced[b] = 0

\* Neither announcements nor writes exceed the stores of the program; the writes
\* reach them only when every port has written all its stores.  These sums stay
\* below the values of the counter.
SumsInBounds ==
  /\ announcedStores \in Nat /\ writtenStores \in Nat /\ plannedStores \in Nat
  /\ announcedStores <= plannedStores /\ writtenStores <= plannedStores
  /\ plannedStores < COUNTER_MOD
  /\ announced = plan => announcedStores = plannedStores
  /\ writtenStores = plannedStores => \A p \in Ports : issued[p] = due(p)

StoresInv == InBounds /\ Counts /\ ExitAfterLastStore
------------------------------------------------------------------------------
LEMMA Finite == ASSUME StoresAssumption PROVE IsFiniteSet(Ports) /\ IsFiniteSet(Blocks)
BY FS_Interval DEF StoresAssumption, Ports, Blocks

\* The constant of a block is the sum of its stores over the ports.
LEMMA ConstantIsSum ==
  ASSUME StoresAssumption, NEW b \in Blocks
  PROVE  stCount(b) = SumFunctionOnSet(Stores[b], Ports) /\ stCount(b) \in Nat
<1>1. stCount(b) = SumFunctionOnSet(Stores[b], Ports)
      BY DEF stCount, SumFunction, StoresAssumption
<1>2. \A p \in Ports : Stores[b][p] \in Nat
      BY DEF StoresAssumption
<1> QED BY <1>1, <1>2, Finite, SumNat

\* Block by block or port by port, the program has the same stores.
LEMMA StoresOfProgram ==
  ASSUME StoresAssumption, plan \in [Blocks -> 0 .. MaxRuns]
  PROVE  /\ plannedStores = SumFunctionOnSet([p \in Ports |-> due(p)], Ports)
         /\ \A p \in Ports : due(p) \in Nat
<1> DEFINE m == [b \in Blocks |-> [p \in Ports |-> plan[b] * Stores[b][p]]]
           col(p) == [b \in Blocks |-> m[b][p]]
<1>1. \A b \in Blocks : \A p \in Ports : m[b][p] \in Nat /\ m[b][p] = plan[b] * Stores[b][p]
      BY DEF StoresAssumption
<1>2. \A b \in Blocks : SumFunctionOnSet(m[b], Ports) = plan[b] * stCount(b)
  <2> SUFFICES ASSUME NEW b \in Blocks
               PROVE  SumFunctionOnSet(m[b], Ports) = plan[b] * stCount(b)
      OBVIOUS
  <2> DEFINE row == m[b]
  <2>1. \A p \in Ports : Stores[b][p] \in Nat /\ row[p] = plan[b] * Stores[b][p]
        BY DEF StoresAssumption
  <2>2. plan[b] \in Nat
        BY DEF StoresAssumption
  <2> HIDE DEF row
  <2>3. SumFunctionOnSet(row, Ports) = plan[b] * SumFunctionOnSet(Stores[b], Ports)
        BY <2>1, <2>2, Finite, SumScaled
  <2> QED BY <2>3, ConstantIsSum DEF row
<1>3. \A p \in Ports : due(p) = SumFunctionOnSet(col(p), Blocks)
  <2> SUFFICES ASSUME NEW p \in Ports PROVE due(p) = SumFunctionOnSet(col(p), Blocks)
      OBVIOUS
  <2>1. [b \in Blocks |-> plan[b] * Stores[b][p]] = col(p)
        OBVIOUS
  <2> QED BY <2>1 DEF due, SumFunction
<1>4. \A p \in Ports : SumFunctionOnSet(col(p), Blocks) \in Nat
  <2> SUFFICES ASSUME NEW p \in Ports PROVE SumFunctionOnSet(col(p), Blocks) \in Nat
      OBVIOUS
  <2>1. \A b \in Blocks : col(p)[b] \in Nat
        BY <1>1
  <2> HIDE DEF col
  <2> QED BY <2>1, Finite, SumNat
<1> DEFINE rows == [b \in Blocks |-> plan[b] * stCount(b)]
           columns == [p \in Ports |-> due(p)]
<1>5. columns = [p \in Ports |-> SumFunctionOnSet([b \in Blocks |-> m[b][p]], Blocks)]
  <2> HIDE DEF m
  <2> QED BY <1>3
<1>6. \A b \in Blocks : rows[b] = SumFunctionOnSet(m[b], Ports)
  <2> HIDE DEF m
  <2> QED BY <1>2
<1>7. SumFunctionOnSet(rows, Blocks) = SumFunctionOnSet(columns, Ports)
  <2> HIDE DEF m, rows, columns, col
  <2> QED BY <1>1, <1>5, <1>6, Finite, SumSwap
<1> QED BY <1>3, <1>4, <1>7 DEF plannedStores, SumFunction

\* The program never has COUNTER_MOD stores.
LEMMA StoresFit ==
  ASSUME StoresAssumption, FitAssumption, InBounds
  PROVE  plannedStores < COUNTER_MOD
<1> DEFINE d == [b \in Blocks |-> plan[b] * stCount(b)]
           most == [b \in Blocks |-> MaxRuns * stCount(b)]
<1>1. ASSUME NEW b \in Blocks
      PROVE  d[b] \in Nat /\ most[b] \in Nat /\ d[b] <= most[b]
  <2>1. plan[b] \in Nat /\ MaxRuns \in Nat /\ plan[b] <= MaxRuns /\ stCount(b) \in Nat
        BY ConstantIsSum DEF InBounds, StoresAssumption
  <2>2. \A x, y, k \in Nat : x <= y => x * k \in Nat /\ y * k \in Nat /\ x * k <= y * k
        OBVIOUS
  <2> QED BY <2>1, <2>2
<1>2. plannedStores = SumFunctionOnSet(d, Blocks) /\ SumFunctionOnSet(most, Blocks) < COUNTER_MOD
      BY DEF plannedStores, SumFunction, FitAssumption
<1> HIDE DEF d, most
<1>3. /\ SumFunctionOnSet(d, Blocks) <= SumFunctionOnSet(most, Blocks)
      /\ SumFunctionOnSet(d, Blocks) \in Nat /\ SumFunctionOnSet(most, Blocks) \in Nat
      BY <1>1, Finite, SumBounded, SumNat
<1> QED BY <1>2, <1>3 DEF StoresAssumption

LEMMA StoresBounded == StoresAssumption /\ FitAssumption /\ InBounds => SumsInBounds
<1> SUFFICES ASSUME StoresAssumption, FitAssumption, InBounds PROVE SumsInBounds
    OBVIOUS
<1> DEFINE a == [b \in Blocks |-> announced[b] * stCount(b)]
           d == [b \in Blocks |-> plan[b] * stCount(b)]
           e == [p \in Ports |-> due(p)]
<1>1. ASSUME NEW b \in Blocks
      PROVE  a[b] \in Nat /\ d[b] \in Nat /\ a[b] <= d[b]
  <2>1. /\ announced[b] \in Nat /\ plan[b] \in Nat /\ announced[b] <= plan[b]
        /\ stCount(b) \in Nat
        BY ConstantIsSum DEF InBounds, StoresAssumption
  <2>2. \A x, y, k \in Nat : x <= y => x * k \in Nat /\ y * k \in Nat /\ x * k <= y * k
        OBVIOUS
  <2> QED BY <2>1, <2>2
<1>2. \A p \in Ports : issued[p] \in Nat /\ e[p] \in Nat /\ issued[p] <= e[p]
      BY StoresOfProgram DEF InBounds
<1>3. /\ announcedStores = SumFunctionOnSet(a, Blocks)
      /\ plannedStores = SumFunctionOnSet(d, Blocks)
      /\ plannedStores = SumFunctionOnSet(e, Ports)
      /\ writtenStores = SumFunctionOnSet(issued, Ports)
      BY StoresOfProgram DEF InBounds, announcedStores, plannedStores, writtenStores, SumFunction
<1>4. announced = plan => a = d
      OBVIOUS
<1>5. (\A p \in Ports : issued[p] = e[p]) => \A p \in Ports : issued[p] = due(p)
      OBVIOUS
<1> HIDE DEF a, d, e
<1>6. /\ SumFunctionOnSet(a, Blocks) <= SumFunctionOnSet(d, Blocks)
      /\ SumFunctionOnSet(a, Blocks) \in Nat /\ SumFunctionOnSet(d, Blocks) \in Nat
      BY <1>1, Finite, SumBounded, SumNat
<1>7. /\ SumFunctionOnSet(issued, Ports) <= SumFunctionOnSet(e, Ports)
      /\ SumFunctionOnSet(issued, Ports) \in Nat
      /\ SumFunctionOnSet(issued, Ports) = SumFunctionOnSet(e, Ports)
           => \A p \in Ports : issued[p] = e[p]
      BY <1>2, Finite, SumBounded, SumNat
<1> QED BY <1>3, <1>4, <1>5, <1>6, <1>7, StoresFit DEF SumsInBounds
------------------------------------------------------------------------------
\* The remainder of a number below three times the modulus.
LEMMA Wraps ==
  ASSUME NEW M \in Nat \ {0}, NEW z \in 0 .. M - 1
  PROVE  z % M = z /\ (z + M) % M = z /\ (z + M + M) % M = z
OBVIOUS

\* One step of the counter, when the announced stores a grow by c and the
\* written stores w by g, at most one.
LEMMA CounterStep ==
  ASSUME NEW M \in Nat \ {0}, NEW a \in Nat, NEW w \in Nat, NEW c \in Nat, NEW g \in 0 .. 1,
         a + c < M, w + g < M, NEW x, x = IF w <= a THEN a - w ELSE M + a - w
  PROVE  (x + c + (IF g = 1 THEN M - 1 ELSE 0)) % M
           = IF w + g <= a + c THEN a + c - (w + g) ELSE M + (a + c) - (w + g)
<1> DEFINE y == IF w + g <= a + c THEN a + c - (w + g) ELSE M + (a + c) - (w + g)
           s == x + c + (IF g = 1 THEN M - 1 ELSE 0)
<1>1. y \in 0 .. M - 1
      OBVIOUS
<1>2. s = y \/ s = y + M \/ s = y + M + M
      OBVIOUS
<1> HIDE DEF y, s
<1>3. s % M = y
      BY <1>1, <1>2, Wraps
<1> QED BY <1>3 DEF y, s

\* What the blocks announce in a cycle is what the counter adds.
LEMMA Announces ==
  ASSUME StoresAssumption, InBounds, NEW bbpValid,
         announced' = [b \in Blocks |-> IF b \in bbpValid THEN announced[b] + 1
                                                          ELSE announced[b]]
  PROVE  /\ counted(bbpValid) \in Nat
         /\ announcedStores' = announcedStores + counted(bbpValid)
<1> DEFINE f == [b \in Blocks |-> announced[b] * stCount(b)]
           g == [b \in Blocks |-> IF b \in bbpValid THEN stCount(b) ELSE 0]
           h == [b \in Blocks |-> announced'[b] * stCount(b)]
<1>1. ASSUME NEW b \in Blocks
      PROVE  f[b] \in Nat /\ g[b] \in Nat /\ h[b] = f[b] + g[b]
  <2>1. announced[b] \in Nat /\ stCount(b) \in Nat
        BY ConstantIsSum DEF InBounds
  <2>2. \A n, k \in Nat : n * k \in Nat /\ (n + 1) * k = n * k + k
        OBVIOUS
  <2>3. announced'[b] = IF b \in bbpValid THEN announced[b] + 1 ELSE announced[b]
        OBVIOUS
  <2> QED BY <2>1, <2>2, <2>3
<1>2. /\ announcedStores = SumFunctionOnSet(f, Blocks)
      /\ counted(bbpValid) = SumFunctionOnSet(g, Blocks)
      /\ announcedStores' = SumFunctionOnSet(h, Blocks)
      BY DEF announcedStores, counted, SumFunction, stCount
<1> HIDE DEF f, g, h
<1> QED BY <1>1, <1>2, Finite, SumOfTwo, SumNat

\* The memory takes at most one store in a cycle.
LEMMA Writes ==
  ASSUME StoresAssumption, InBounds, NEW request,
         NEW grant, grant = {p \in Ports : write_priority(p, request)},
         issued' = [p \in Ports |-> IF p \in grant THEN issued[p] + 1 ELSE issued[p]]
  PROVE  writtenStores' = writtenStores + (IF grant # {} THEN 1 ELSE 0)
<1>1. /\ writtenStores = SumFunctionOnSet(issued, Ports)
      /\ writtenStores' = SumFunctionOnSet(issued', Ports)
      BY DEF writtenStores, SumFunction, InBounds
<1>2. \A p \in Ports : issued[p] \in Nat /\ issued'[p] \in Nat
      BY DEF InBounds
<1>3. CASE grant = {}
  <2>1. issued' = issued
        BY <1>3 DEF InBounds
  <2>2. writtenStores \in Nat
        BY <1>1, <1>2, Finite, SumNat
  <2> QED BY <1>1, <1>3, <2>1, <2>2
<1>4. CASE grant # {}
  <2>1. PICK p \in Ports : p \in grant
        BY <1>4
  <2>2. ASSUME NEW q \in Ports, q # p PROVE q \notin grant
        BY <2>1, <2>2 DEF write_priority, Ports
  <2>3. issued'[p] = issued[p] + 1 /\ \A q \in Ports \ {p} : issued'[q] = issued[q]
        BY <2>1, <2>2
  <2>4. SumFunctionOnSet(issued, Ports) = issued[p] + SumFunctionOnSet(issued, Ports \ {p})
        BY <1>2, <2>1, Finite, SumRemove
  <2> DEFINE next_issued == issued'
  <2>5. \A q \in Ports : next_issued[q] \in Nat
        BY <1>2
  <2>6. \A q \in Ports \ {p} : issued[q] \in Nat /\ next_issued[q] = issued[q]
        BY <1>2, <2>3
  <2>7. IsFiniteSet(Ports \ {p})
        BY Finite, FS_Subset
  <2> HIDE DEF next_issued
  <2>8. SumFunctionOnSet(next_issued, Ports)
          = next_issued[p] + SumFunctionOnSet(next_issued, Ports \ {p})
        BY <2>1, <2>5, Finite, SumRemove
  <2>9. SumFunctionOnSet(next_issued, Ports \ {p}) = SumFunctionOnSet(issued, Ports \ {p})
        BY <2>6, <2>7, SumSame
  <2>10. SumFunctionOnSet(issued, Ports \ {p}) \in Nat
        BY <2>6, <2>7, SumNat
  <2> QED BY <1>1, <1>2, <1>4, <2>1, <2>3, <2>4, <2>8, <2>9, <2>10 DEF next_issued
<1> QED BY <1>3, <1>4

------------------------------------------------------------------------------
LEMMA InitInv == ASSUME StoresAssumption, Init PROVE StoresInv
<1>1. \A p \in Ports : due(p) \in Nat
      BY StoresOfProgram DEF Init
<1>2. InBounds
      BY <1>1 DEF InBounds, Init, StoresAssumption
<1> DEFINE a == [b \in Blocks |-> announced[b] * stCount(b)]
           zeroB == [b \in Blocks |-> 0]
<1>3. announcedStores = SumFunctionOnSet(a, Blocks) /\ writtenStores = SumFunctionOnSet(issued, Ports)
      BY DEF announcedStores, writtenStores, SumFunction, Init
<1>4. \A b \in Blocks : a[b] \in Nat /\ a[b] = 0 * a[b]
  <2>1. \A b \in Blocks : announced[b] = 0 /\ stCount(b) \in Nat
        BY ConstantIsSum DEF Init
  <2>2. \A k \in Nat : 0 * k = 0
        OBVIOUS
  <2> QED BY <2>1, <2>2
<1>5. \A p \in Ports : issued[p] \in Nat /\ issued[p] = 0 * issued[p]
      BY DEF Init
<1> HIDE DEF a
<1>6. SumFunctionOnSet(a, Blocks) = 0 * SumFunctionOnSet(a, Blocks)
      BY <1>4, Finite, SumScaled
<1>7. SumFunctionOnSet(issued, Ports) = 0 * SumFunctionOnSet(issued, Ports)
      BY <1>5, Finite, SumScaled
<1>8. SumFunctionOnSet(a, Blocks) \in Nat /\ SumFunctionOnSet(issued, Ports) \in Nat
      BY <1>4, <1>5, Finite, SumNat
<1>9. announcedStores = 0 /\ writtenStores = 0
      BY <1>3, <1>6, <1>7, <1>8
<1> QED BY <1>2, <1>9 DEF StoresInv, Counts, ExitAfterLastStore, Init

LEMMA CycleInBounds ==
  ASSUME StoresAssumption, InBounds,
         NEW bbpValid \in SUBSET {b \in Blocks : announced[b] < plan[b]},
         NEW address \in SUBSET Pending, NEW data \in SUBSET Pending, NEW return \in BOOLEAN,
         Cycle(bbpValid, address, data, return)
  PROVE  InBounds'
<1>1. \A p \in Ports : due(p)' = due(p)
      BY DEF due, Cycle
<1>2. \A p \in Ports : due(p) \in Nat
      BY StoresOfProgram DEF InBounds
<1> DEFINE request == [p \in Ports |-> join_valid(p \in address, p \in data)]
           grant   == {p \in Ports : write_priority(p, request)}
<1>3. \A p \in grant : p \in Ports /\ issued[p] < due(p)
      BY DEF write_priority, join_valid, Pending
<1>4. issued' = [p \in Ports |-> IF p \in grant THEN issued[p] + 1 ELSE issued[p]]
      BY DEF Cycle
<1> HIDE DEF grant
<1>5. issued' \in [Ports -> Nat] /\ \A p \in Ports : issued'[p] <= due(p)'
      BY <1>1, <1>2, <1>3, <1>4 DEF InBounds
<1>6. /\ announced' \in [Blocks -> Nat] /\ \A b \in Blocks : announced'[b] <= plan'[b]
      /\ plan' = plan
      BY DEF Cycle, InBounds, StoresAssumption
<1> QED BY <1>5, <1>6 DEF InBounds

LEMMA CycleKeepsInv ==
  ASSUME StoresAssumption, FitAssumption, StoresInv,
         NEW bbpValid \in SUBSET {b \in Blocks : announced[b] < plan[b]},
         NEW address \in SUBSET Pending, NEW data \in SUBSET Pending, NEW return \in BOOLEAN,
         Cycle(bbpValid, address, data, return)
  PROVE  StoresInv'
<1> DEFINE request == [p \in Ports |-> join_valid(p \in address, p \in data)]
           grant   == {p \in Ports : write_priority(p, request)}
           g == IF grant # {} THEN 1 ELSE 0
           c == counted(bbpValid)
<1>1. InBounds'
      BY CycleInBounds DEF StoresInv
<1>2. SumsInBounds
      BY StoresBounded DEF StoresInv
<1>3. SumsInBounds'
  <2>1. StoresAssumption' /\ FitAssumption'
        BY DEF StoresAssumption, FitAssumption
  <2> QED BY <1>1, <2>1, StoresBounded, PTL
<1>4. /\ announcedStores' = announcedStores + c /\ c \in Nat
      /\ writtenStores' = writtenStores + g
  <2>1. /\ announced' = [b \in Blocks |-> IF b \in bbpValid THEN announced[b] + 1
                                                            ELSE announced[b]]
        /\ issued' = [p \in Ports |-> IF p \in grant THEN issued[p] + 1 ELSE issued[p]]
        BY DEF Cycle
  <2> HIDE DEF request
  <2> QED BY <2>1, Announces, Writes DEF StoresInv
<1>5. /\ counter' = (counter + c + (IF grant # {} THEN COUNTER_MOD - 1 ELSE 0)) % COUNTER_MOD
      /\ counter1' = counter'
      BY DEF Cycle, Counter
<1>6. exited' => bbpValid = {} /\ counter1 = 0 /\ announced' = plan
  <2>1. /\ exited' = end_node_valid(return, io_Empty_Valid(bbpValid))
        /\ return => announced' = plan
        BY DEF Cycle
  <2> QED BY <2>1 DEF end_node_valid, io_Empty_Valid
<1> HIDE DEF request, grant, c
<1>7. Counts'
  <2> DEFINE y == IF writtenStores' <= announcedStores'
                  THEN announcedStores' - writtenStores'
                  ELSE COUNTER_MOD + announcedStores' - writtenStores'
  <2>1. /\ announcedStores \in Nat /\ writtenStores \in Nat /\ COUNTER_MOD \in Nat \ {0}
        /\ announcedStores + c < COUNTER_MOD /\ writtenStores + g < COUNTER_MOD
        /\ counter = IF writtenStores <= announcedStores
                     THEN announcedStores - writtenStores
                     ELSE COUNTER_MOD + announcedStores - writtenStores
        BY <1>2, <1>3, <1>4 DEF SumsInBounds, StoresInv, Counts, StoresAssumption
  <2>2. counter' = (counter + c + (IF g = 1 THEN COUNTER_MOD - 1 ELSE 0)) % COUNTER_MOD
        BY <1>5
  <2>3. g \in 0 .. 1 /\ c \in Nat
        BY <1>4
  <2> HIDE DEF g
  <2>4. counter' = IF writtenStores + g <= announcedStores + c
                   THEN announcedStores + c - (writtenStores + g)
                   ELSE COUNTER_MOD + (announcedStores + c) - (writtenStores + g)
        BY <2>1, <2>2, <2>3, CounterStep
  <2>5. counter' = y
        BY <1>4, <2>1, <2>3, <2>4
  <2>6. y \in 0 .. COUNTER_MOD - 1
        BY <1>4, <2>1, <2>3
  <2> QED BY <1>5, <2>6, <2>5 DEF Counts
<1>8. ExitAfterLastStore'
  <2> SUFFICES ASSUME exited' PROVE \A p \in Ports : issued'[p] = due(p)'
      BY DEF ExitAfterLastStore
  <2>1. announced' = plan' /\ plan' = plan /\ announced = announced' /\ counter1 = 0
    <3>1. /\ plan' = plan
          /\ announced' = [b \in Blocks |-> IF b \in bbpValid THEN announced[b] + 1
                                                              ELSE announced[b]]
          BY DEF Cycle
    <3> QED BY <1>6, <3>1 DEF StoresInv, InBounds
  <2>2. counter = 0
        BY <2>1 DEF StoresInv, InBounds, Counts
  <2>3. announcedStores = plannedStores /\ writtenStores = announcedStores
        BY <1>2, <2>1, <2>2 DEF StoresInv, Counts, SumsInBounds
  <2>4. announcedStores' = announcedStores
        BY <2>1 DEF announcedStores, stCount
  <2>5. plannedStores' = plannedStores
        BY <2>1 DEF plannedStores, stCount
  <2>6. writtenStores' = plannedStores'
        BY <1>2, <1>3, <1>4, <2>3, <2>5 DEF SumsInBounds
  <2> QED BY <2>6, <1>3 DEF SumsInBounds
<1> QED BY <1>1, <1>7, <1>8 DEF StoresInv

LEMMA NextKeepsInv ==
  ASSUME StoresAssumption, FitAssumption, StoresInv, [Next]_vars PROVE StoresInv'
<1>1. CASE UNCHANGED vars
  <2>1. plan' = plan /\ announced' = announced /\ issued' = issued /\ counter' = counter
        BY <1>1 DEF vars
  <2>2. announcedStores' = announcedStores /\ writtenStores' = writtenStores
        BY <2>1 DEF announcedStores, writtenStores, stCount
  <2>3. \A p \in Ports : due(p)' = due(p)
        BY <2>1 DEF due
  <2>4. counter1' = counter1 /\ exited' = exited
        BY <1>1 DEF vars
  <2> QED BY <2>1, <2>2, <2>3, <2>4
          DEF StoresInv, InBounds, Counts, ExitAfterLastStore
<1>2. CASE Next
      BY <1>2, CycleKeepsInv DEF Next
<1> QED BY <1>1, <1>2

\* Process Counter counts right: at every edge it is the number of stores that
\* are announced and not written, also while writes overtake announcements.
THEOREM CountsStores ==
  ASSUME StoresAssumption, FitAssumption
  PROVE  Spec => []StoresInv
<1>1. Init => StoresInv
      BY InitInv
<1>2. StoresInv /\ [Next]_vars => StoresInv'
      BY NextKeepsInv
<1> QED BY <1>1, <1>2, PTL DEF Spec

\* The end_node lets the circuit exit only when its last store is in the memory,
\* although stores overtake their announcements and the return token may come
\* with the last of these.
THEOREM ExitsAfterLastStore ==
  ASSUME StoresAssumption, FitAssumption
  PROVE  Spec => []ExitAfterLastStore
<1>1. StoresInv => ExitAfterLastStore
      BY DEF StoresInv
<1> QED BY <1>1, CountsStores, PTL
=============================================================================
