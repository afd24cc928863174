--------------------------- MODULE BasicBlockGraph ---------------------------
(***************************************************************************)
(* The control-flow part of the buffer optimizer: the back arcs of the     *)
(* graph of basic blocks and the extraction of CFDFCs (sets of arcs that   *)
(* run together and become marked graphs), after DFnetlsit_BasicBlocks.cpp *)
(* and DFnetlist_MG.cpp.  Basic blocks are numbered from 1 and arcs in the *)
(* order the file lists them; an arc has the number of times it ran.       *)
(*                                                                         *)
(* The two vectors of the traversal have an element for each number below  *)
(* n, so the block with number n is read and written past their end: its   *)
(* elements start with a pair in Garbage, and the loop over the blocks, which *)
(* stops at n - 1, never looks at the arcs that leave it.                  *)
(***************************************************************************)
EXTENDS Integers, FiniteSets, SequencesExt, FiniteSetsExt, Functions

CONSTANTS Programs,    \* set of [n, arcs : Seq([src, dst, freq]), ...]
          Garbage      \* what the memory after the two vectors may hold

ASSUME GraphAssumption ==
  /\ Garbage \subseteq Int \X Int
  /\ \A p \in Programs :
       /\ p.n \in Nat \ {0}
       /\ p.arcs \in Seq([src : 1 .. p.n, dst : 1 .. p.n, freq : Nat])

VARIABLES program, phase, dfs, back, freq, CFDFC, CFDFCfreq

bbgVars == <<program, dfs, back, freq, CFDFC, CFDFCfreq>>

BB == 1 .. program.n
Arcs == DOMAIN program.arcs
Src(a) == program.arcs[a].src
Dst(a) == program.arcs[a].dst
successors(bb) == {a \in Arcs : Src(a) = bb}
predecessors(bb) == {a \in Arcs : Dst(a) = bb}
------------------------------------------------------------------------------
\* The reader asserts that one block is entered from nowhere, that some block
\* leads nowhere, and that any other is left as often as it is entered.
Ran(as) == MapThenSumSet(LAMBDA a : program.arcs[a].freq, as)
determineEntryExitBlock ==
  /\ Cardinality({bb \in BB : predecessors(bb) = {}}) = 1
  /\ \E bb \in BB : successors(bb) = {}
setAllBBFrequencies ==
  \A bb \in BB : predecessors(bb) # {} /\ successors(bb) # {}
                   => Ran(predecessors(bb)) = Ran(successors(bb))
entryBB == CHOOSE bb \in BB : predecessors(bb) = {}

\* The blocks a traversal step at bb pushes; the last one is on top.
NoKid == 0
Descends(s, as) ==
  /\ \A a \in as : \E i \in DOMAIN s : s[i] = a
  /\ \A i, j \in DOMAIN s : i < j => s[i] > s[j]
Descending(as) == CHOOSE s \in [1 .. Cardinality(as) -> as] : Descends(s, as)
Kids(bb, pre) ==
  LET pushed == Descending({a \in successors(bb) : pre[Dst(a)] = 0})
  IN  [i \in DOMAIN pushed |-> Dst(pushed[i])] \o <<NoKid>>

BBGInit ==
  /\ program \in Programs
  /\ determineEntryExitBlock /\ setAllBBFrequencies
  /\ phase = "dfs"
  /\ \E g \in Garbage :
       LET pre == [[bb \in BB |-> IF bb = program.n THEN g[1] ELSE 0]
                     EXCEPT ![entryBB] = 1]
       IN  dfs = [S |-> <<entryBB>>, pre |-> pre, time |-> 2,
                  post |-> [bb \in BB |-> IF bb = program.n THEN g[2] ELSE 0],
                  listKids |-> Kids(entryBB, pre)]
  /\ back = {}
  /\ freq = [a \in Arcs |-> IF Ran(Arcs) > 0 THEN program.arcs[a].freq ELSE 1]
  /\ CFDFC = <<>> /\ CFDFCfreq = <<>>

\* One turn of the traversal: the block on top of S is finished, or the next
\* kid is visited, unless it was while it waited.
Finish(d) == [d EXCEPT !.S = Tail(@), !.listKids = Tail(@), !.time = @ + 1,
                       !.post[d.S[1]] = d.time]
Discover(d, kid) ==
  LET pre == [d.pre EXCEPT ![kid] = d.time]
  IN  [d EXCEPT !.S = <<kid>> \o @, !.pre = pre, !.time = @ + 1,
                !.listKids = Kids(kid, pre) \o Tail(@)]
Visit ==
  /\ phase = "dfs" /\ dfs.S # <<>>
  /\ LET kid == dfs.listKids[1]
     IN  dfs' = IF kid = NoKid THEN Finish(dfs)
                ELSE IF dfs.pre[kid] > 0 THEN [dfs EXCEPT !.listKids = Tail(@)]
                ELSE Discover(dfs, kid)
  /\ UNCHANGED <<program, phase, back, freq, CFDFC, CFDFCfreq>>

\* Mutant: an arc from a block to itself is no back arc.
IsBack_Proper(u, v) == dfs.pre[v] < dfs.pre[u] /\ dfs.post[v] >= dfs.post[u]
IsBack(u, v) == dfs.pre[v] <= dfs.pre[u] /\ dfs.post[v] >= dfs.post[u]
calculateBackArcs ==
  /\ phase = "dfs" /\ dfs.S = <<>>
  /\ back' = {a \in Arcs : /\ Src(a) < program.n /\ dfs.pre[Src(a)] # 0
                           /\ IsBack(Src(a), Dst(a))}
  /\ phase' = "extract"
  /\ UNCHANGED <<program, dfs, freq, CFDFC, CFDFCfreq>>
------------------------------------------------------------------------------
\* The rows of the model that selects a CFDFC, over the arcs with executions
\* left: a block is entered and left by as many selected arcs, one or none, and
\* one back arc is selected.  A row without a term is not written to the file
\* of the solver, so once no back arc is left it does not bind.
Left == {a \in Arcs : freq[a] > 0}
Balanced(A) ==
  \A bb \in BB : /\ Cardinality(A \cap predecessors(bb)) <= 1
                 /\ Cardinality(A \cap predecessors(bb))
                      = Cardinality(A \cap successors(bb))
OneMG(A) == back \cap Left = {} \/ Cardinality(A \cap back) = 1
Selections == {A \in SUBSET Left : Balanced(A) /\ OneMG(A)}
MinFreq(A) == Min({freq[a] : a \in A})
Objective(A) == IF A = {} THEN 0 ELSE MinFreq(A) * Cardinality(A)

\* The best selection is stored and its executions are used up; the loop ends
\* when there is none, or when all executions are covered.
covered_freq ==
  MapThenSumSet(LAMBDA i : CFDFCfreq[i] * Cardinality(CFDFC[i]), DOMAIN CFDFC)
total_freq == IF Ran(Arcs) > 0 THEN Ran(Arcs) ELSE Cardinality(Arcs)
Best == {A \in Selections : \A B \in Selections : Objective(A) >= Objective(B)}
\* Mutant: a selected arc has no executions left.
Used_Whole(A) == [a \in Arcs |-> IF a \in A THEN 0 ELSE freq[a]]
Used(A) == [a \in Arcs |-> IF a \in A THEN freq[a] - MinFreq(A) ELSE freq[a]]
extractMarkedGraphBB ==
  /\ phase = "extract" /\ covered_freq < total_freq
  /\ \E A \in Best \ {{}} :
       /\ freq' = Used(A)
       /\ CFDFC' = Append(CFDFC, A) /\ CFDFCfreq' = Append(CFDFCfreq, MinFreq(A))
  /\ UNCHANGED <<program, phase, dfs, back>>
extracted == phase = "extract" /\ (covered_freq >= total_freq \/ Best \subseteq {{}})
------------------------------------------------------------------------------
\* The disjoint sets of CFDFCs: a forest with ranks, joined for each ordered
\* pair that has a block in common.
BBsOf(A) == {Src(a) : a \in A} \cup {Dst(a) : a \in A}
findCFDFC(f, i) == LET up[k \in DOMAIN f.parent] ==
                         IF f.parent[k] = k THEN k ELSE up[f.parent[k]]
                   IN  up[i]
unionCFDFC(f, x, y) ==
  LET a == findCFDFC(f, x)
      b == findCFDFC(f, y)
      xset == IF f.rank[a] < f.rank[b] THEN b ELSE a
      yset == IF xset = a THEN b ELSE a
  IN  IF a = b THEN f
      ELSE [parent |-> [f.parent EXCEPT ![yset] = xset],
            rank |-> IF f.rank[xset] = f.rank[yset]
                     THEN [f.rank EXCEPT ![xset] = @ + 1] ELSE f.rank]
\* Mutant: only common arcs count.
haveCommonBasicBlock_Arc(A, B) == A \cap B # {}
haveCommonBasicBlock(A, B) == BBsOf(A) \cap BBsOf(B) # {}
Pairs == LET n == Len(CFDFC)
         IN  [k \in 1 .. n * n |-> <<((k - 1) \div n) + 1, ((k - 1) % n) + 1>>]
Forest ==
  FoldLeft(LAMBDA f, p : IF p[1] # p[2] /\ haveCommonBasicBlock(CFDFC[p[1]], CFDFC[p[2]])
                         THEN unionCFDFC(f, p[1], p[2]) ELSE f,
           [parent |-> [i \in DOMAIN CFDFC |-> i], rank |-> [i \in DOMAIN CFDFC |-> 0]],
           Pairs)

\* The components in the order of their representatives, as sets of CFDFCs.
calculateDisjointCFDFCs ==
  LET f == Forest
      DSU == [i \in DOMAIN CFDFC |-> findCFDFC(f, i)]
  IN  [k \in 1 .. Cardinality(Range(DSU)) |->
         {i \in DOMAIN CFDFC : DSU[i] = SetToSortSeq(Range(DSU), <)[k]}]
------------------------------------------------------------------------------
\* Whether edges es, from from(e) to to(e), lead from u to v: every set that has u
\* and is not left by an edge has v.
Leads(es, from(_), to(_), u, v) ==
  \A R \in SUBSET ({u} \cup {to(e) : e \in es}) :
    u \in R /\ (\A e \in es : from(e) \in R => to(e) \in R) => v \in R
Reaches(as, u, v) == Leads(as, Src, Dst, u, v)
OnCycle(as, a) == Reaches(as, Dst(a), Src(a))

\* Every cycle of the graph has a back arc.  Hazard: the elements of the last
\* block are outside the vectors of the traversal.
BackArcsCutCycles ==
  phase = "extract" => \A a \in Arcs \ back : ~OnCycle(Arcs \ back, a)

\* A CFDFC is one cycle: its arcs lead from each of its blocks to any other,
\* although the rows only say that the arcs balance and that one is a back arc.
CFDFCsAreCycles ==
  \A i \in DOMAIN CFDFC : \A u, v \in BBsOf(CFDFC[i]) : Reaches(CFDFC[i], u, v)

\* And when extraction ends, every execution of a loop's back arc is accounted
\* for by the CFDFCs that contain it: no iteration of a loop is left out of the
\* throughput that is optimized, and none is counted twice.
LoopsCovered ==
  /\ CFDFCsAreCycles
  /\ extracted => \A a \in {b \in back : OnCycle(Arcs, b)} :
       program.arcs[a].freq =
         MapThenSumSet(LAMBDA i : CFDFCfreq[i], {i \in DOMAIN CFDFC : a \in CFDFC[i]})

\* CFDFCs are optimized together exactly if they share blocks, directly or
\* through others; so no channel is placed twice.
ComponentsAreDisjoint ==
  extracted =>
    LET comps == calculateDisjointCFDFCs
        BBsOfAll(I) == UNION {BBsOf(CFDFC[i]) : i \in I}
    IN  /\ UNION Range(comps) = DOMAIN CFDFC
        /\ \A j, k \in DOMAIN comps :
             j # k => BBsOfAll(comps[j]) \cap BBsOfAll(comps[k]) = {}
        /\ \A k \in DOMAIN comps : \A I \in SUBSET comps[k] \ {{}, comps[k]} :
             BBsOfAll(I) \cap BBsOfAll(comps[k] \ I) # {}
==============================================================================
