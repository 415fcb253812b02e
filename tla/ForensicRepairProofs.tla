------------------------- MODULE ForensicRepairProofs -------------------------
(***************************************************************************)
(* The forensic planner and the multi-header commit, for every disk, every *)
(* damage and every size of node table, layouts and slots.                 *)
(*                                                                         *)
(* Part one, the planner.  Its loops are folds; a fold is turned into a    *)
(* chain of states (Chain), along which a stage of the scan is followed.   *)
(* A table is filled only with what the grid or an earlier node leads to   *)
(* (Origin) and overflows only with something more to add (Spilled), so a  *)
(* scan stays in every set that is closed under the links it follows, and  *)
(* if such a set fits the table, the scan finds all there is (Confined).   *)
(*                                                                         *)
(* Part two, the commit.  FInv ties the handler under way to what is on    *)
(* the drive and on the memory card: the image is whole before the first   *)
(* write, a committed patch is durable, and once the master is written     *)
(* only the master is left of the plan.  KinInv and CoverInv compare the   *)
(* disk with the one other menus alone would have made: it differs only in *)
(* links and checksums, and where it differs a whole file holds the old    *)
(* links.  Of the planner the commit relies on PlanChanges: the patches of *)
(* a plan change the headers they are for.                                 *)
(***************************************************************************)
EXTENDS ForensicRepair, TLAPS, FiniteSetTheorems, SequenceTheorems,
        WellFoundedInduction

-----------------------------------------------------------------------------
(* Part one: the planner.  Sets of numbers and their order.                *)

\* A set of natural numbers has a least element.
LEMMA Least ==
  ASSUME NEW T \in SUBSET Nat, T # {}
  PROVE  \E x \in T : \A y \in T : x <= y
<1> DEFINE R == OpToRel(<, Nat)
<1>1. IsWellFoundedOn(R, Nat) BY NatLessThanWellFounded
<1>2. \A x, y \in Nat : y < x => <<y, x>> \in R BY DEF OpToRel
<1> HIDE DEF R
<1>3. PICK x \in T : \A y \in T : ~ (<<y, x>> \in R) BY <1>1, WFMin
<1>4. \A y \in T : ~(y < x) BY <1>2, <1>3, Zenon
<1>5. \A y \in T : x <= y BY <1>4
<1> QED BY <1>5

\* Min picks it.
LEMMA MinMember ==
  ASSUME NEW T \in SUBSET Nat, T # {}
  PROVE  Min(T) \in T
BY Least DEF Min

\* Every entry of a sorted set is one of its members: by least counterexample, the
\* i-th entry exists because the least of the members above the one before it has
\* exactly one more below.
LEMMA SortedMember ==
  ASSUME NEW S \in SUBSET Nat, IsFiniteSet(S), NEW i \in 1..Cardinality(S)
  PROVE  /\ sort_by_lba(S)[i] \in S
         /\ Cardinality({y \in S : y < sort_by_lba(S)[i]}) = i - 1
<1> DEFINE below(x) == {y \in S : y < x}
           T == {n \in Nat : n < Cardinality(S) /\ ~\E x \in S : Cardinality(below(x)) = n}
<1>1. Cardinality(S) \in Nat BY FS_CardinalityType
<1>2. \A x \in S : IsFiniteSet(below(x)) BY FS_Subset
<1>3. T = {}
  <2> SUFFICES ASSUME T # {} PROVE FALSE
    OBVIOUS
  <2>1. T \in SUBSET Nat OBVIOUS
  <2>2. PICK n \in T : \A m \in T : n <= m
    <3> HIDE DEF T
    <3> QED BY <2>1, Least
  <2>3. n \in Nat /\ n < Cardinality(S) /\ ~\E x \in S : Cardinality(below(x)) = n
    OBVIOUS
  <2>4. CASE n = 0
    <3>1. S # {} BY <1>1, <2>3, <2>4, FS_EmptySet
    <3>2. PICK x \in S : \A y \in S : x <= y BY <3>1, Least
    <3>3. \A y \in S : ~(y < x) BY <3>2
    <3>4. below(x) = {} BY <3>3
    <3>5. Cardinality(below(x)) = 0 BY <3>4, FS_EmptySet
    <3> QED BY <2>3, <2>4, <3>5
  <2>5. CASE n > 0
    <3>1. n - 1 \in Nat /\ n - 1 < Cardinality(S) /\ ~(n <= n - 1)
      BY <1>1, <2>3, <2>5
    <3>2. PICK x \in S : Cardinality(below(x)) = n - 1 BY <2>2, <3>1
    <3> DEFINE above == {y \in S : y > x}
    <3>3. x \notin below(x) /\ IsFiniteSet(below(x)) BY <1>2
    <3>4. Cardinality(below(x) \cup {x}) = n
      <4>1. Cardinality(below(x) \cup {x}) = Cardinality(below(x)) + 1
        <5> HIDE DEF below
        <5> QED BY <3>3, FS_AddElement
      <4> HIDE DEF below
      <4> QED BY <2>3, <3>2, <4>1
    <3>5. above # {}
      <4> SUFFICES ASSUME above = {} PROVE FALSE
        OBVIOUS
      <4>1. \A y \in S : y < x \/ y = x \/ y > x OBVIOUS
      <4>2. \A y \in S : ~(y > x) OBVIOUS
      <4>3. S = below(x) \cup {x} BY <4>1, <4>2, Zenon
      <4> HIDE DEF below
      <4> QED BY <1>1, <2>3, <3>4, <4>3
    <3>6. PICK z \in above : \A y \in above : z <= y
      <4>1. above \in SUBSET Nat OBVIOUS
      <4> HIDE DEF above
      <4> QED BY <3>5, <4>1, Least
    <3>7. below(z) = below(x) \cup {x}
      <4>1. \A y \in S : y < z <=> y < x \/ y = x
        <5> SUFFICES ASSUME NEW y \in S PROVE y < z <=> y < x \/ y = x
          OBVIOUS
        <5>1. z \in Nat /\ x \in Nat /\ y \in Nat /\ z > x OBVIOUS
        <5>2. y > x => z <= y BY <3>6
        <5> QED BY <5>1, <5>2
      <4> QED BY <4>1, Zenon
    <3>8. z \in S OBVIOUS
    <3> HIDE DEF below
    <3> QED BY <2>3, <3>4, <3>7, <3>8
  <2> QED BY <2>3, <2>4, <2>5
<1>4. i - 1 \in Nat /\ i - 1 < Cardinality(S) BY <1>1
<1>5. \E x \in S : Cardinality(below(x)) = i - 1 BY <1>3, <1>4
<1>6. sort_by_lba(S)[i] = CHOOSE x \in S : Cardinality(below(x)) = i - 1
  BY DEF sort_by_lba
<1> QED BY <1>5, <1>6

-----------------------------------------------------------------------------
(* Folds.  The five loops of the planner are cases of one operator, so     *)
(* that one argument serves them all: the fold satisfies its equation, and *)
(* along a sequence it is a chain of states.                               *)

\* One turn of the loop k with the argument a, from r on the element x.
Loop(k, a, r, x) ==
    CASE k = "grid" -> grid_sample(a, r, x)
      [] k = "follow" -> follow_reference(a, r, x)
      [] k = "chase" -> visit_node(a, r, x)
      [] k = "forward" -> extend_forward(a, r)
      [] k = "reverse" -> extend_reverse(a, r)

\* One turn for the indices s of seq, given g for fewer indices.
Turn(k, a, first, seq, g, s) ==
    IF s = {} THEN first ELSE Loop(k, a, g[s \ {Max(s)}], seq[Max(s)])

\* g is what the fold computes for the sets of at most n of the indices S.
Turns(k, a, first, seq, S, n, g) ==
    \A s \in SUBSET S : Cardinality(s) <= n => g[s] = Turn(k, a, first, seq, g, s)

\* g is what it computes for all sets of the first n indices.
Solves(k, a, first, seq, n, g) ==
    g = [s \in SUBSET (1..n) |-> Turn(k, a, first, seq, g, s)]

\* F[i] is the state after i turns.
Chain(k, a, first, seq, n, F) ==
    F[0] = first /\ \A i \in 1..n : F[i] = Loop(k, a, F[i - 1], seq[i])

\* A set of indices has a greatest element, and Max picks it.
LEMMA MaxMember ==
  ASSUME NEW n \in Nat, NEW T \in SUBSET (1..n), T # {}
  PROVE  Max(T) \in T /\ \A y \in T : y <= Max(T)
<1> DEFINE U == {n - x : x \in T}
<1>0. \A x \in T : n - x \in Nat OBVIOUS
<1>1. U \in SUBSET Nat /\ U # {} BY <1>0
<1>2. PICK u \in U : \A v \in U : u <= v
  <2> HIDE DEF U
  <2> QED BY <1>1, Least
<1>3. PICK x \in T : u = n - x BY <1>2
<1>4. \A y \in T : y <= x
  <2> TAKE y \in T
  <2>1. n - y \in U OBVIOUS
  <2> QED BY <1>2, <1>3, <2>1
<1>5. \E z \in T : \A y \in T : z >= y BY <1>4
<1>6. Max(T) \in T /\ \A y \in T : Max(T) >= y BY <1>5 DEF Max
<1> QED BY <1>6

\* A set of indices without the greatest is smaller.
LEMMA FewerIndices ==
  ASSUME NEW n \in Nat, NEW s \in SUBSET (1..n), s # {}
  PROVE  /\ Max(s) \in s /\ s \ {Max(s)} \in SUBSET (1..n)
         /\ Cardinality(s) \in Nat \ {0}
         /\ Cardinality(s \ {Max(s)}) = Cardinality(s) - 1
<1>1. Max(s) \in s BY MaxMember
<1>2. IsFiniteSet(s)
  <2>1. IsFiniteSet(1..n) BY FS_Interval
  <2> QED BY <2>1, FS_Subset
<1>3. Cardinality(s) \in Nat /\ Cardinality(s) # 0 BY <1>2, FS_CardinalityType, FS_EmptySet
<1>4. Cardinality(s \ {Max(s)}) = Cardinality(s) - 1 BY <1>1, <1>2, FS_RemoveElement
<1> QED BY <1>1, <1>3, <1>4

\* The fold's equation has a solution for sets of any size: the one for m extends
\* the one for m - 1.
LEMMA TurnsExist ==
  ASSUME NEW k, NEW a, NEW first, NEW seq, NEW n \in Nat, NEW c \in Nat
  PROVE  \E g : DOMAIN g = SUBSET (1..n) /\ Turns(k, a, first, seq, 1..n, c, g)
<1> DEFINE S == 1..n
           Solved(m) == \E g : DOMAIN g = SUBSET S /\ Turns(k, a, first, seq, S, m, g)
           Bad == {m \in Nat : ~Solved(m)}
<1> SUFFICES ASSUME Bad # {} PROVE FALSE
  OBVIOUS
<1>1. PICK m \in Bad : \A l \in Bad : m <= l
  <2>1. Bad \in SUBSET Nat OBVIOUS
  <2> HIDE DEF Bad
  <2> QED BY <2>1, Least
<1>2. m # 0
  <2> SUFFICES ASSUME m = 0 PROVE FALSE
    OBVIOUS
  <2> DEFINE g == [s \in SUBSET S |-> first]
  <2>1. ASSUME NEW s \in SUBSET S, Cardinality(s) <= 0
        PROVE  g[s] = Turn(k, a, first, seq, g, s)
    <3>1. s = {}
      <4> SUFFICES ASSUME s # {} PROVE FALSE
        OBVIOUS
      <4>1. Cardinality(s) \in Nat \ {0} BY FewerIndices
      <4> QED BY <2>1, <4>1
    <3> QED BY <3>1 DEF Turn
  <2>2. DOMAIN g = SUBSET S /\ Turns(k, a, first, seq, S, 0, g) BY <2>1 DEF Turns
  <2>3. Solved(0)
    <3> HIDE DEF g
    <3> QED BY <2>2
  <2> QED BY <1>1, <2>3
<1>3. m - 1 \in Nat /\ m - 1 \notin Bad
  <2>1. m \in Nat BY <1>1
  <2> HIDE DEF Bad
  <2>2. m - 1 \in Bad => m <= m - 1 BY <1>1
  <2> QED BY <1>2, <2>1, <2>2
<1>4. PICK g : DOMAIN g = SUBSET S /\ Turns(k, a, first, seq, S, m - 1, g) BY <1>3
<1> DEFINE h == [s \in SUBSET S |-> IF Cardinality(s) <= m - 1 THEN g[s]
                                    ELSE Turn(k, a, first, seq, g, s)]
<1>5. ASSUME NEW s \in SUBSET S, Cardinality(s) <= m
      PROVE  h[s] = Turn(k, a, first, seq, h, s)
  <2>1. h[s] = Turn(k, a, first, seq, g, s)
    <3>1. CASE Cardinality(s) <= m - 1 BY <1>4, <3>1 DEF Turns
    <3>2. CASE ~(Cardinality(s) <= m - 1) BY <3>2
    <3> QED BY <3>1, <3>2
  <2>2. CASE s = {} BY <2>1, <2>2 DEF Turn
  <2>3. CASE s # {}
    <3> DEFINE t == s \ {Max(s)}
    <3>1. /\ t \in SUBSET S /\ Cardinality(s) \in Nat
          /\ Cardinality(t) = Cardinality(s) - 1
      BY <2>3, FewerIndices
    <3>2. Cardinality(t) <= m - 1 BY <1>3, <1>5, <3>1
    <3>3. h[t] = g[t] BY <3>1, <3>2
    <3> HIDE DEF h
    <3> QED BY <2>1, <2>3, <3>3 DEF Turn
  <2> QED BY <2>2, <2>3
<1>6. DOMAIN h = SUBSET S /\ Turns(k, a, first, seq, S, m, h) BY <1>5 DEF Turns
<1>7. Solved(m)
  <2> HIDE DEF h
  <2> QED BY <1>6
<1> QED BY <1>1, <1>7

\* So it has one for all sets of indices.
LEMMA LoopExists ==
  ASSUME NEW k, NEW a, NEW first, NEW seq, NEW n \in Nat
  PROVE  \E g : Solves(k, a, first, seq, n, g)
<1> DEFINE S == 1..n
<1>1. IsFiniteSet(S) /\ Cardinality(S) \in Nat BY FS_Interval, FS_CardinalityType
<1>2. PICK g : DOMAIN g = SUBSET S /\ Turns(k, a, first, seq, S, Cardinality(S), g)
  BY <1>1, TurnsExist
<1>3. \A s \in SUBSET S : Cardinality(s) <= Cardinality(S) BY <1>1, FS_Subset
<1>4. \A s \in SUBSET S : g[s] = Turn(k, a, first, seq, g, s) BY <1>2, <1>3 DEF Turns
<1> DEFINE h == [s \in SUBSET S |-> g[s]]
<1>5. \A s \in SUBSET S : Turn(k, a, first, seq, h, s) = Turn(k, a, first, seq, g, s)
  <2> TAKE s \in SUBSET S
  <2>1. CASE s = {} BY <2>1 DEF Turn
  <2>2. CASE s # {}
    <3>1. s \ {Max(s)} \in SUBSET S OBVIOUS
    <3>2. h[s \ {Max(s)}] = g[s \ {Max(s)}] BY <3>1
    <3> QED BY <2>2, <3>2 DEF Turn
  <2> QED BY <2>1, <2>2
<1>6. \A s \in SUBSET S : h[s] = Turn(k, a, first, seq, h, s) BY <1>4, <1>5
<1> HIDE DEF h
<1>7. h = [s \in SUBSET S |-> h[s]] BY DEF h
<1>8. Solves(k, a, first, seq, n, h) BY <1>6, <1>7 DEF Solves
<1> QED BY <1>8

\* Along the sequence a solution is a chain.
LEMMA LoopChain ==
  ASSUME NEW k, NEW a, NEW first, NEW seq, NEW n \in Nat, NEW g,
         Solves(k, a, first, seq, n, g)
  PROVE  \E F : Chain(k, a, first, seq, n, F) /\ F[n] = g[1..n]
<1> DEFINE e == [s \in SUBSET (1..n) |-> Turn(k, a, first, seq, g, s)]
           F == [i \in 0..n |-> g[1..i]]
<1>1. \A s \in SUBSET (1..n) : g[s] = Turn(k, a, first, seq, g, s)
  <2> TAKE s \in SUBSET (1..n)
  <2>1. e[s] = Turn(k, a, first, seq, g, s) OBVIOUS
  <2>2. g = e BY DEF Solves
  <2> HIDE DEF e
  <2> QED BY <2>1, <2>2
<1>2. F[0] = first
  <2>1. 1..0 = {} /\ {} \in SUBSET (1..n) OBVIOUS
  <2>2. g[{}] = first BY <1>1, <2>1 DEF Turn
  <2> QED BY <2>1, <2>2
<1>3. ASSUME NEW i \in 1..n PROVE F[i] = Loop(k, a, F[i - 1], seq[i])
  <2>1. 1..i \in SUBSET (1..n) /\ 1..i # {} OBVIOUS
  <2>2. Max(1..i) = i
    <3>1. Max(1..i) \in 1..i /\ \A y \in 1..i : y <= Max(1..i) BY <2>1, MaxMember
    <3>2. i \in 1..i OBVIOUS
    <3> QED BY <3>1, <3>2
  <2>3. (1..i) \ {i} = 1..(i - 1) OBVIOUS
  <2>4. g[1..i] = Loop(k, a, g[1..(i - 1)], seq[i]) BY <1>1, <2>1, <2>2, <2>3 DEF Turn
  <2>5. F[i] = g[1..i] /\ F[i - 1] = g[1..(i - 1)] OBVIOUS
  <2> HIDE DEF F
  <2> QED BY <2>4, <2>5
<1>4. F[n] = g[1..n] OBVIOUS
<1> HIDE DEF F
<1>5. Chain(k, a, first, seq, n, F) BY <1>2, <1>3 DEF Chain
<1> QED BY <1>4, <1>5

\* The coarse pass.
LEMMA GridLoop ==
  ASSUME NEW d, Samples \in Nat
  PROVE  \E F : /\ Chain("grid", d, EmptyResult, [i \in 1..Samples |-> i], Samples, F)
                /\ F[Samples] = GridPass(d)
<1> DEFINE n == Samples
           seq == [i \in 1..n |-> i]
           step(g, s) == IF s = {} THEN EmptyResult ELSE grid_sample(d, g[s \ {Max(s)}], seq[Max(s)])
           Equation(g) == g = [s \in SUBSET (1..n) |-> step(g, s)]
<1>1. GridPass(d) = (CHOOSE g : Equation(g))[1..n]
  BY DEF GridPass, FoldLeft, MapThenFoldSet
<1>2. \A g, s : Turn("grid", d, EmptyResult, seq, g, s) = step(g, s)
  BY DEF Turn, Loop
<1>3. \A g : Equation(g) <=> Solves("grid", d, EmptyResult, seq, n, g)
  <2> HIDE DEF step, seq
  <2> QED BY <1>2 DEF Solves
<1>4. \E g : Solves("grid", d, EmptyResult, seq, n, g)
  <2> HIDE DEF n, seq
  <2> QED BY LoopExists DEF n
<1>5. PICK g : Equation(g) /\ GridPass(d) = g[1..n]
  <2> HIDE DEF Equation
  <2> QED BY <1>1, <1>3, <1>4
<1>6. Solves("grid", d, EmptyResult, seq, n, g) BY <1>3, <1>5
<1>7. PICK F : Chain("grid", d, EmptyResult, seq, n, F) /\ F[n] = g[1..n]
  <2> HIDE DEF n, seq
  <2> QED BY <1>6, LoopChain DEF n
<1> QED BY <1>5, <1>7

\* The references of one header.
LEMMA FollowLoop ==
  ASSUME NEW d, NEW r, NEW seq, NEW l \in Nat, DOMAIN seq = 1..l
  PROVE  \E F : /\ Chain("follow", d, r, seq, l, F)
                /\ F[l] = follow_all(d, r, seq)
<1> DEFINE n == l
           step(g, s) == IF s = {} THEN r ELSE follow_reference(d, g[s \ {Max(s)}], seq[Max(s)])
           Equation(g) == g = [s \in SUBSET (1..n) |-> step(g, s)]
<1>1. follow_all(d, r, seq) = (CHOOSE g : Equation(g))[1..n]
  BY DEF follow_all, FoldLeft, MapThenFoldSet
<1>2. \A g, s : Turn("follow", d, r, seq, g, s) = step(g, s)
  BY DEF Turn, Loop
<1>3. \A g : Equation(g) <=> Solves("follow", d, r, seq, n, g)
  <2> HIDE DEF step
  <2> QED BY <1>2 DEF Solves
<1>4. \E g : Solves("follow", d, r, seq, n, g)
  <2> HIDE DEF n
  <2> QED BY LoopExists DEF n
<1>5. PICK g : Equation(g) /\ follow_all(d, r, seq) = g[1..n]
  <2> HIDE DEF Equation
  <2> QED BY <1>1, <1>3, <1>4
<1>6. Solves("follow", d, r, seq, n, g) BY <1>3, <1>5
<1>7. PICK F : Chain("follow", d, r, seq, n, F) /\ F[n] = g[1..n]
  <2> HIDE DEF n
  <2> QED BY <1>6, LoopChain DEF n
<1> QED BY <1>5, <1>7

\* The chase through the node table.
LEMMA ChaseLoop ==
  ASSUME NEW d, NEW r
  PROVE  \E F : /\ Chain("chase", d, r, [i \in 1..MaxNodes |-> i], MaxNodes, F)
                /\ F[MaxNodes] = chase_references(d, r)
<1> DEFINE n == MaxNodes
           seq == [i \in 1..n |-> i]
           step(g, s) == IF s = {} THEN r ELSE visit_node(d, g[s \ {Max(s)}], seq[Max(s)])
           Equation(g) == g = [s \in SUBSET (1..n) |-> step(g, s)]
<1>1. chase_references(d, r) = (CHOOSE g : Equation(g))[1..n]
  BY DEF chase_references, FoldLeft, MapThenFoldSet
<1>2. \A g, s : Turn("chase", d, r, seq, g, s) = step(g, s)
  BY DEF Turn, Loop
<1>3. \A g : Equation(g) <=> Solves("chase", d, r, seq, n, g)
  <2> HIDE DEF step, seq
  <2> QED BY <1>2 DEF Solves
<1>4. \E g : Solves("chase", d, r, seq, n, g)
  <2> HIDE DEF n, seq
  <2> QED BY LoopExists, ForensicConstants DEF n
<1>5. PICK g : Equation(g) /\ chase_references(d, r) = g[1..n]
  <2> HIDE DEF Equation
  <2> QED BY <1>1, <1>3, <1>4
<1>6. Solves("chase", d, r, seq, n, g) BY <1>3, <1>5
<1>7. PICK F : Chain("chase", d, r, seq, n, F) /\ F[n] = g[1..n]
  <2> HIDE DEF n, seq
  <2> QED BY <1>6, LoopChain, ForensicConstants DEF n
<1> QED BY <1>5, <1>7

\* The walk along next.
LEMMA ForwardLoop ==
  ASSUME NEW r, 0 \in Lbas(r)
  PROVE  \E F : /\ Chain("forward", r, <<0>>, [i \in 1..(MaxNodes - 1) |-> i], MaxNodes - 1, F)
                /\ F[MaxNodes - 1] = build_forward_map(r)
<1> DEFINE n == MaxNodes - 1
           seq == [i \in 1..n |-> i]
           step(g, s) == IF s = {} THEN <<0>> ELSE extend_forward(r, g[s \ {Max(s)}])
           Equation(g) == g = [s \in SUBSET (1..n) |-> step(g, s)]
<1>0. n \in Nat BY ForensicConstants
<1>1. build_forward_map(r) = (CHOOSE g : Equation(g))[1..n]
  BY DEF build_forward_map, FoldLeft, MapThenFoldSet
<1>2. \A g, s : Turn("forward", r, <<0>>, seq, g, s) = step(g, s)
  BY DEF Turn, Loop
<1>3. \A g : Equation(g) <=> Solves("forward", r, <<0>>, seq, n, g)
  <2> HIDE DEF step, seq
  <2> QED BY <1>2 DEF Solves
<1>4. \E g : Solves("forward", r, <<0>>, seq, n, g)
  <2> HIDE DEF n, seq
  <2> QED BY <1>0, LoopExists
<1>5. PICK g : Equation(g) /\ build_forward_map(r) = g[1..n]
  <2> HIDE DEF Equation
  <2> QED BY <1>1, <1>3, <1>4
<1>6. Solves("forward", r, <<0>>, seq, n, g) BY <1>3, <1>5
<1>7. PICK F : Chain("forward", r, <<0>>, seq, n, F) /\ F[n] = g[1..n]
  <2> HIDE DEF n, seq
  <2> QED BY <1>0, <1>6, LoopChain
<1> QED BY <1>5, <1>7

\* The walk along prev.
LEMMA ReverseLoop ==
  ASSUME NEW r
  PROVE  \E F : /\ Chain("reverse", r, [order |-> <<>>, current |-> ReverseTail(r)],
                        [i \in 1..(MaxNodes - 1) |-> i], MaxNodes - 1, F)
                /\ F[MaxNodes - 1] = ReverseWalk(r)
<1> DEFINE W0 == [order |-> <<>>, current |-> ReverseTail(r)]
           n == MaxNodes - 1
           seq == [i \in 1..n |-> i]
           step(g, s) == IF s = {} THEN W0 ELSE extend_reverse(r, g[s \ {Max(s)}])
           Equation(g) == g = [s \in SUBSET (1..n) |-> step(g, s)]
<1>0. n \in Nat BY ForensicConstants
<1>1. ReverseWalk(r) = (CHOOSE g : Equation(g))[1..n]
  BY DEF ReverseWalk, FoldLeft, MapThenFoldSet
<1>2. \A g, s : Turn("reverse", r, W0, seq, g, s) = step(g, s)
  BY DEF Turn, Loop
<1>3. \A g : Equation(g) <=> Solves("reverse", r, W0, seq, n, g)
  <2> HIDE DEF step, seq
  <2> QED BY <1>2 DEF Solves
<1>4. \E g : Solves("reverse", r, W0, seq, n, g)
  <2> HIDE DEF n, seq, W0
  <2> QED BY <1>0, LoopExists
<1>5. PICK g : Equation(g) /\ ReverseWalk(r) = g[1..n]
  <2> HIDE DEF Equation
  <2> QED BY <1>1, <1>3, <1>4
<1>6. Solves("reverse", r, W0, seq, n, g) BY <1>3, <1>5
<1>7. PICK F : Chain("reverse", r, W0, seq, n, F) /\ F[n] = g[1..n]
  <2> HIDE DEF n, seq, W0
  <2> QED BY <1>0, <1>6, LoopChain
<1> QED BY <1>5, <1>7

-----------------------------------------------------------------------------
(* What a header is worth at its place, whatever led to it.                *)

\* Its evidence,
Full(h, lba) == Evidence(h, lba, "REFERENCED") \ {"REFERENCED"}

\* and the confidence that goes with it.
Conf(h, lba) == inspect_header(h, lba, "REFERENCED").confidence

\* The two ways to a header.
Sources == {"GRID", "REFERENCED"}

\* The table takes it from this source.
Accepts(d, lba, source) ==
    /\ lba \in Nat /\ lba < Total /\ Total - lba >= 2
    /\ Read(d, lba) # Unreadable
    /\ source = "GRID" => Read(d, lba).magic \/ Read(d, lba).start = lba
    /\ \/ Conf(Read(d, lba), lba) >= 30
       \/ lba = 0 /\ Conf(Read(d, lba), lba) >= 20

\* Every sector pair holds a header or cannot be read.
Headers(d) == \A lba \in DOMAIN d : d[lba] \in Header \cup {Unreadable}

\* No list of evidence is worth more than the others: a score is bounded, and the
\* three pieces a repair asks for are worth 60.
LEMMA Scores ==
  ASSUME NEW ev
  PROVE  /\ Score(ev) \in Nat /\ Score(ev) <= 100
         /\ clamp_confidence(Score(ev)) = Score(ev)
         /\ {"MAGIC", "SELF_START", "LENGTH"} \subseteq ev => Score(ev) >= 60
<1> DEFINE p(e, n) == IF e \in ev THEN n ELSE 0
<1>1. Score(ev) = p("MAGIC", 25) + p("SELF_START", 20) + p("CHECKSUM", 20)
        + p("LENGTH", 15) + p("NSUB", 5) + p("TYPE", 5) + p("ID", 10)
  BY DEF Score
<1>2. \A e : \A n \in Nat : p(e, n) \in {0, n} /\ (e \in ev => p(e, n) = n)
  OBVIOUS
<1>3. /\ p("MAGIC", 25) \in {0, 25} /\ p("SELF_START", 20) \in {0, 20}
      /\ p("CHECKSUM", 20) \in {0, 20} /\ p("LENGTH", 15) \in {0, 15}
      /\ p("NSUB", 5) \in {0, 5} /\ p("TYPE", 5) \in {0, 5} /\ p("ID", 10) \in {0, 10}
  OBVIOUS
<1>4. /\ "MAGIC" \in ev => p("MAGIC", 25) = 25
      /\ "SELF_START" \in ev => p("SELF_START", 20) = 20
      /\ "LENGTH" \in ev => p("LENGTH", 15) = 15
  OBVIOUS
<1> HIDE DEF p
<1>5. Score(ev) \in Nat /\ Score(ev) <= 100 BY <1>1, <1>3
<1>6. {"MAGIC", "SELF_START", "LENGTH"} \subseteq ev => Score(ev) >= 60
  BY <1>1, <1>3, <1>4
<1>7. clamp_confidence(Score(ev)) = Score(ev) BY <1>5 DEF clamp_confidence
<1> QED BY <1>5, <1>6, <1>7

\* Which evidence a header has, in terms of its fields.
LEMMA FullEvidence ==
  ASSUME NEW h, NEW lba
  PROVE  /\ "MAGIC" \in Full(h, lba) <=> h.magic
         /\ "SELF_START" \in Full(h, lba) <=> h.start = lba
         /\ "LENGTH" \in Full(h, lba) <=>
               h.length # 0 /\ h.start < Total /\ h.start + h.length <= Total
         /\ "CHECKSUM" \in Full(h, lba) <=> h.sum = apa_checksum(h)
         /\ "NSUB" \in Full(h, lba) <=> Len(h.subs) <= MaxSubs
         /\ "TYPE" \in Full(h, lba) <=> type_plausible(h.type)
         /\ "ID" \in Full(h, lba) <=> id_plausible(h.id)
         /\ Sources \cap Full(h, lba) = {}
<1> HIDE DEF apa_checksum, type_plausible, id_plausible
<1> QED BY DEF Full, Evidence, Sources

\* The verdict does not depend on the source, but for the anchor a sample needs.
LEMMA SameVerdict ==
  ASSUME NEW h, NEW lba, NEW source \in Sources
  PROVE  LET seen == inspect_header(h, lba, source)
         IN  \/ /\ source = "GRID" /\ ~(h.magic \/ h.start = lba)
                /\ seen.confidence = 0
             \/ /\ source = "GRID" => h.magic \/ h.start = lba
                /\ seen.evidence = Full(h, lba) \cup {source}
                /\ seen.confidence = Conf(h, lba)
<1> DEFINE full == Full(h, lba)
           seen == inspect_header(h, lba, source)
<1>1. CASE source = "GRID" /\ ~(h.magic \/ h.start = lba)
  <2>1. Evidence(h, lba, source) = {source} BY <1>1 DEF Evidence
  <2>2. seen.confidence = 0 BY <1>1, <2>1 DEF inspect_header
  <2> QED BY <1>1, <2>2
<1>2. CASE source = "GRID" => h.magic \/ h.start = lba
  <2>1. Evidence(h, lba, source) = full \cup {source}
    BY <1>2, Zenon DEF Evidence, Full, Sources
  <2>2. Evidence(h, lba, "REFERENCED") = full \cup {"REFERENCED"}
    BY Zenon DEF Evidence, Full
  <2>3. source = "GRID" => full \cap {"MAGIC", "SELF_START"} # {}
    BY <1>2, FullEvidence
  <2>4. Score(full \cup {source}) = Score(full \cup {"REFERENCED"})
    BY DEF Score, Sources
  <2>5. (full \cup {source}) \cap {"MAGIC", "LENGTH", "ID"} = full \cap {"MAGIC", "LENGTH", "ID"}
    BY DEF Sources
  <2>6. (full \cup {"REFERENCED"}) \cap {"MAGIC", "LENGTH", "ID"} = full \cap {"MAGIC", "LENGTH", "ID"}
    OBVIOUS
  <2> HIDE DEF full
  <2>7. seen.confidence = IF full \cap {"MAGIC", "LENGTH", "ID"} = {} THEN 0
                          ELSE clamp_confidence(Score(full \cup {"REFERENCED"}))
    BY <2>1, <2>3, <2>4, <2>5 DEF inspect_header
  <2>8. Conf(h, lba) = IF full \cap {"MAGIC", "LENGTH", "ID"} = {} THEN 0
                       ELSE clamp_confidence(Score(full \cup {"REFERENCED"}))
    BY <2>2, <2>6 DEF inspect_header, Conf
  <2>9. seen.evidence = full \cup {source} BY <2>1 DEF inspect_header
  <2> QED BY <1>2, <2>7, <2>8, <2>9 DEF full
<1> QED BY <1>1, <1>2

\* Confidences.
LEMMA Confidences ==
  ASSUME NEW h, NEW lba
  PROVE  /\ Conf(h, lba) \in Nat /\ Conf(h, lba) <= 100
         /\ {"MAGIC", "SELF_START", "LENGTH"} \subseteq Full(h, lba) => Conf(h, lba) >= 60
         /\ {"MAGIC", "LENGTH", "ID"} \cap Full(h, lba) = {} => Conf(h, lba) = 0
<1> DEFINE ev == Evidence(h, lba, "REFERENCED")
<1>1. ev = Full(h, lba) \cup {"REFERENCED"} BY Zenon DEF Full, Evidence
<1>2. Conf(h, lba) = IF ev \cap {"MAGIC", "LENGTH", "ID"} = {} THEN 0
                     ELSE clamp_confidence(Score(ev))
  BY DEF Conf, inspect_header
<1> HIDE DEF ev
<1>3. /\ Score(ev) \in Nat /\ Score(ev) <= 100
      /\ clamp_confidence(Score(ev)) = Score(ev)
      /\ {"MAGIC", "SELF_START", "LENGTH"} \subseteq ev => Score(ev) >= 60
  BY Scores
<1> QED BY <1>1, <1>2, <1>3

-----------------------------------------------------------------------------
(* The node table.                                                         *)

\* Everything a node can show.
Marks == {"GRID", "REFERENCED", "MAGIC", "SELF_START", "CHECKSUM", "LENGTH", "NSUB",
          "TYPE", "ID"}

Node == [lba : Nat, header : Header, evidence : SUBSET Marks, confidence : Nat]

\* n says of its LBA what d stores there.
NodeOK(d, n) ==
    /\ n \in Node
    /\ n.header = Read(d, n.lba) /\ n.header # Unreadable
    /\ n.evidence \ Sources = Full(n.header, n.lba)
    /\ n.confidence = Conf(n.header, n.lba)

\* A table filled from d: one node for an LBA, its header as d has it.
Table(d, r) ==
    /\ r \in [nodes : Seq(Node), unreadable : Nat, truncated : BOOLEAN,
              dormant : {{}}, maps : {<<>>}]
    /\ \A i \in DOMAIN r.nodes : NodeOK(d, r.nodes[i])
    /\ \A i, j \in DOMAIN r.nodes : r.nodes[i].lba = r.nodes[j].lba => i = j
    /\ Len(r.nodes) <= MaxNodes

\* t came from r by further reads.
Grows(r, t) ==
    /\ Len(r.nodes) <= Len(t.nodes)
    /\ \A i \in 1..Len(r.nodes) : t.nodes[i].lba = r.nodes[i].lba
    /\ r.truncated => t.truncated

\* Growing is transitive.
LEMMA GrowsTransitive ==
  ASSUME NEW r, NEW s, NEW t, Grows(r, s), Grows(s, t),
         Len(r.nodes) \in Nat, Len(s.nodes) \in Nat, Len(t.nodes) \in Nat
  PROVE  Grows(r, t)
BY DEF Grows

\* What a table says of the node at an LBA.
LEMMA TableFacts ==
  ASSUME NEW d, NEW r, Table(d, r)
  PROVE  /\ Len(r.nodes) \in Nat /\ DOMAIN r.nodes = 1..Len(r.nodes)
         /\ Lbas(r) \in SUBSET Nat
         /\ \A lba \in Lbas(r) : /\ find_node(r, lba) \in DOMAIN r.nodes
                                 /\ r.nodes[find_node(r, lba)].lba = lba
                                 /\ NodeAt(r, lba).header = Read(d, lba)
                                 /\ NodeAt(r, lba).header # Unreadable
                                 /\ NodeAt(r, lba).header \in Header
                                 /\ NodeAt(r, lba).evidence \ Sources = Full(Read(d, lba), lba)
                                 /\ NodeAt(r, lba).confidence = Conf(Read(d, lba), lba)
<1>1. r.nodes \in Seq(Node) BY DEF Table
<1>2. Len(r.nodes) \in Nat /\ DOMAIN r.nodes = 1..Len(r.nodes) BY <1>1
<1>3. \A i \in DOMAIN r.nodes : NodeOK(d, r.nodes[i]) BY DEF Table
<1>4. \A i \in DOMAIN r.nodes : r.nodes[i].lba \in Nat /\ r.nodes[i].header \in Header
  BY <1>3 DEF NodeOK, Node
<1>5. Lbas(r) \in SUBSET Nat BY <1>4 DEF Lbas
<1>6. ASSUME NEW lba \in Lbas(r)
      PROVE  find_node(r, lba) \in DOMAIN r.nodes /\ r.nodes[find_node(r, lba)].lba = lba
  BY DEF Lbas, find_node
<1>7. \A lba \in Lbas(r) : /\ NodeAt(r, lba).header = Read(d, lba)
                           /\ NodeAt(r, lba).header # Unreadable
                           /\ NodeAt(r, lba).header \in Header
                           /\ NodeAt(r, lba).evidence \ Sources = Full(Read(d, lba), lba)
                           /\ NodeAt(r, lba).confidence = Conf(Read(d, lba), lba)
  BY <1>3, <1>4, <1>6 DEF NodeAt, NodeOK
<1> QED BY <1>2, <1>5, <1>6, <1>7

\* What can be read is a header.
LEMMA HeaderRead ==
  ASSUME NEW d, Headers(d), NEW lba, Read(d, lba) # Unreadable
  PROVE  Read(d, lba) \in Header
<1>1. <<>> \in Seq(Nat) OBVIOUS
<1>2. Blank \in Header BY <1>1 DEF Blank, Header
<1> QED BY <1>2 DEF Headers, Read

\* Evidence is a set of marks.
LEMMA FullMarks == ASSUME NEW h, NEW lba PROVE Full(h, lba) \in SUBSET Marks
BY DEF Full, Evidence, Marks

\* The node of an LBA looks at it from one source more.
LEMMA EvidenceAdded ==
  ASSUME NEW d, NEW r, Table(d, r), NEW lba \in Lbas(r), NEW source \in Sources
  PROVE  LET t == AddEvidence(r, lba, source)
         IN  /\ Table(d, t) /\ t.truncated = r.truncated /\ Len(t.nodes) = Len(r.nodes)
             /\ \A i \in 1..Len(r.nodes) : t.nodes[i].lba = r.nodes[i].lba
<1> DEFINE f == find_node(r, lba)
           n == r.nodes[f]
           m == [n EXCEPT !.evidence = @ \cup {source}]
           ns == [r.nodes EXCEPT ![f] = m]
           t == [r EXCEPT !.nodes = ns]
<1>1. f \in DOMAIN r.nodes /\ Len(r.nodes) \in Nat /\ DOMAIN r.nodes = 1..Len(r.nodes)
  BY TableFacts
<1>2. NodeOK(d, n) BY <1>1 DEF Table
<1>3. source \in Marks BY DEF Sources, Marks
<1>4. NodeOK(d, m) /\ m.lba = n.lba
  <2>1. n \in Node BY <1>2 DEF NodeOK
  <2>2. m \in Node /\ m.lba = n.lba /\ m.header = n.header /\ m.confidence = n.confidence
        /\ m.evidence = n.evidence \cup {source}
    BY <1>3, <2>1 DEF Node
  <2>3. m.evidence \ Sources = n.evidence \ Sources BY <2>2
  <2> HIDE DEF m, n
  <2> QED BY <1>2, <2>2, <2>3 DEF NodeOK
<1>5. AddEvidence(r, lba, source) = t BY DEF AddEvidence
<1> HIDE DEF f, n, m
<1>6. r.nodes \in Seq(Node) /\ m \in Node BY <1>4 DEF Table, NodeOK
<1>7. ns \in Seq(Node) /\ Len(ns) = Len(r.nodes) /\ DOMAIN ns = DOMAIN r.nodes
  BY <1>1, <1>6
<1>8. \A i \in DOMAIN r.nodes : ns[i] = IF i = f THEN m ELSE r.nodes[i] BY <1>6
<1>9. \A i \in DOMAIN r.nodes : ns[i].lba = r.nodes[i].lba /\ NodeOK(d, ns[i])
  BY <1>4, <1>8 DEF n, Table
<1> HIDE DEF ns
<1>10. /\ t.nodes = ns /\ t.truncated = r.truncated
       /\ t \in [nodes : Seq(Node), unreadable : Nat, truncated : BOOLEAN,
                 dormant : {{}}, maps : {<<>>}]
  BY <1>7 DEF Table
<1> HIDE DEF t
<1>11. Table(d, t) BY <1>7, <1>9, <1>10 DEF Table
<1> QED BY <1>1, <1>5, <1>7, <1>9, <1>10, <1>11

\* A new node goes to the end.
LEMMA NodeAppended ==
  ASSUME NEW d, NEW r, Table(d, r), NEW n, NodeOK(d, n), n.lba \notin Lbas(r),
         Len(r.nodes) < MaxNodes
  PROVE  LET t == [r EXCEPT !.nodes = Append(@, n)]
         IN  /\ Table(d, t) /\ t.truncated = r.truncated
             /\ Len(t.nodes) = Len(r.nodes) + 1 /\ t.nodes[Len(t.nodes)].lba = n.lba
             /\ \A i \in 1..Len(r.nodes) : t.nodes[i].lba = r.nodes[i].lba
<1> DEFINE ns == Append(r.nodes, n)
           t == [r EXCEPT !.nodes = ns]
<1>1. Len(r.nodes) \in Nat /\ DOMAIN r.nodes = 1..Len(r.nodes) /\ MaxNodes \in Nat
  BY TableFacts, ForensicConstants
<1>2. r.nodes \in Seq(Node) /\ n \in Node BY DEF Table, NodeOK
<1>3. /\ ns \in Seq(Node) /\ Len(ns) = Len(r.nodes) + 1
      /\ \A i \in 1..Len(r.nodes) : ns[i] = r.nodes[i]
      /\ ns[Len(r.nodes) + 1] = n
  BY <1>2
<1> HIDE DEF ns
<1>4. /\ t.nodes = ns /\ t.truncated = r.truncated
      /\ t \in [nodes : Seq(Node), unreadable : Nat, truncated : BOOLEAN,
                dormant : {{}}, maps : {<<>>}]
  BY <1>3 DEF Table
<1>5. DOMAIN ns = 1..(Len(r.nodes) + 1) BY <1>3
<1>6. \A i \in DOMAIN ns : NodeOK(d, ns[i])
  <2> TAKE i \in DOMAIN ns
  <2>1. i \in 1..Len(r.nodes) \/ i = Len(r.nodes) + 1 BY <1>1, <1>5
  <2> QED BY <1>1, <1>3, <2>1 DEF Table
<1>7. \A i \in 1..Len(r.nodes) : r.nodes[i].lba # n.lba BY <1>1 DEF Lbas
<1>8. \A i, j \in DOMAIN ns : ns[i].lba = ns[j].lba => i = j
  <2> TAKE i, j \in DOMAIN ns
  <2>1. i \in 1..Len(r.nodes) \/ i = Len(r.nodes) + 1 BY <1>1, <1>5
  <2>2. j \in 1..Len(r.nodes) \/ j = Len(r.nodes) + 1 BY <1>1, <1>5
  <2>3. \A a, b \in 1..Len(r.nodes) : r.nodes[a].lba = r.nodes[b].lba => a = b
    BY <1>1 DEF Table
  <2> QED BY <1>3, <1>7, <2>1, <2>2, <2>3
<1>9. Len(ns) <= MaxNodes BY <1>1, <1>3
<1> HIDE DEF t
<1>10. Table(d, t) BY <1>4, <1>6, <1>8, <1>9 DEF Table
<1> QED BY <1>1, <1>3, <1>4, <1>10 DEF t, ns

\* What one read does to the table.
Added(d, r, lba, source, t) ==
    /\ Table(d, t) /\ Grows(r, t)
    /\ \/ Len(t.nodes) = Len(r.nodes)
       \/ /\ Len(t.nodes) = Len(r.nodes) + 1
          /\ t.nodes[Len(t.nodes)].lba = lba /\ Accepts(d, lba, source)
    /\ Accepts(d, lba, source) => lba \in Lbas(t) \/ t.truncated
    /\ t.truncated /\ ~r.truncated =>
          /\ Len(r.nodes) = MaxNodes /\ lba \notin Lbas(r)
          /\ Accepts(d, lba, source) /\ t.nodes = r.nodes

\* add_candidate does this.
LEMMA CandidateAdded ==
  ASSUME NEW d, Headers(d), NEW r, Table(d, r), NEW lba \in Nat, NEW source \in Sources
  PROVE  Added(d, r, lba, source, add_candidate(d, r, lba, source))
<1> DEFINE t == add_candidate(d, r, lba, source)
           h == Read(d, lba)
           seen == inspect_header(h, lba, source)
<1>0. Len(r.nodes) \in Nat /\ DOMAIN r.nodes = 1..Len(r.nodes) /\ MaxNodes \in Nat /\ Total \in Nat
  BY TableFacts, ForensicConstants
<1> SUFFICES Added(d, r, lba, source, t)
  OBVIOUS
<1>1. CASE lba >= Total \/ Total - lba < 2
  <2>1. t = r BY <1>1 DEF add_candidate
  <2>2. ~Accepts(d, lba, source) BY <1>0, <1>1 DEF Accepts
  <2> HIDE DEF t
  <2> QED BY <1>0, <2>1, <2>2 DEF Grows, Added
<1>2. CASE ~(lba >= Total \/ Total - lba < 2) /\ lba \in Lbas(r)
  <2>1. t = AddEvidence(r, lba, source) BY <1>2 DEF add_candidate
  <2>2. /\ Table(d, t) /\ t.truncated = r.truncated /\ Len(t.nodes) = Len(r.nodes)
        /\ \A i \in 1..Len(r.nodes) : t.nodes[i].lba = r.nodes[i].lba
    BY <1>2, <2>1, EvidenceAdded
  <2> HIDE DEF t
  <2>3. DOMAIN t.nodes = 1..Len(r.nodes) BY <2>2, TableFacts
  <2>4. lba \in Lbas(t) BY <1>0, <1>2, <2>2, <2>3 DEF Lbas
  <2> QED BY <1>0, <2>2, <2>4 DEF Grows, Added
<1>3. CASE ~(lba >= Total \/ Total - lba < 2) /\ lba \notin Lbas(r) /\ h = Unreadable
  <2>1. t = [r EXCEPT !.unreadable = @ + 1] BY <1>3 DEF add_candidate
  <2>2. Table(d, t) /\ t.nodes = r.nodes /\ t.truncated = r.truncated BY <2>1 DEF Table
  <2>3. ~Accepts(d, lba, source) BY <1>3 DEF Accepts
  <2> HIDE DEF t
  <2> QED BY <1>0, <2>2, <2>3 DEF Grows, Added
<1>4. CASE ~(lba >= Total \/ Total - lba < 2) /\ lba \notin Lbas(r) /\ h # Unreadable
  <2>1. /\ Conf(h, lba) \in Nat
        /\ \/ /\ source = "GRID" /\ ~(h.magic \/ h.start = lba)
              /\ seen.confidence = 0
           \/ /\ source = "GRID" => h.magic \/ h.start = lba
              /\ seen.evidence = Full(h, lba) \cup {source}
              /\ seen.confidence = Conf(h, lba)
    BY SameVerdict, Confidences
  <2> DEFINE weak == seen.confidence < 30 /\ ~(lba = 0 /\ seen.confidence >= 20)
             n == [lba |-> lba, header |-> h, evidence |-> seen.evidence,
                   confidence |-> seen.confidence]
  <2> HIDE DEF seen
  <2>2. weak <=> ~Accepts(d, lba, source) BY <1>0, <1>4, <2>1 DEF Accepts
  <2>3. t = IF weak THEN r ELSE IF Len(r.nodes) >= MaxNodes
                THEN [r EXCEPT !.truncated = TRUE]
                ELSE [r EXCEPT !.nodes = Append(@, n)]
    BY <1>4 DEF add_candidate, seen
  <2> HIDE DEF t
  <2>4. CASE weak
    <3>1. t = r BY <2>3, <2>4
    <3> QED BY <1>0, <2>2, <2>4, <3>1 DEF Grows, Added
  <2>5. CASE ~weak /\ Len(r.nodes) >= MaxNodes
    <3>1. t = [r EXCEPT !.truncated = TRUE] BY <2>3, <2>5
    <3>2. Table(d, t) /\ t.nodes = r.nodes /\ t.truncated BY <3>1 DEF Table
    <3>3. Len(r.nodes) = MaxNodes BY <1>0, <2>5 DEF Table
    <3> QED BY <1>0, <1>4, <2>2, <2>5, <3>2, <3>3 DEF Grows, Added
  <2>6. CASE ~weak /\ ~(Len(r.nodes) >= MaxNodes)
    <3>1. /\ seen.evidence = Full(h, lba) \cup {source} /\ seen.confidence = Conf(h, lba)
      BY <2>1, <2>6
    <3>2. n \in Node
      BY <1>4, <2>1, <3>1, HeaderRead, FullMarks DEF Node, Sources, Marks
    <3>3. NodeOK(d, n) /\ n.lba = lba
      <4>1. (Full(h, lba) \cup {source}) \ Sources = Full(h, lba) BY FullEvidence
      <4> QED BY <1>4, <3>1, <3>2, <4>1 DEF NodeOK
    <3> HIDE DEF n, weak
    <3>4. t = [r EXCEPT !.nodes = Append(@, n)] BY <2>3, <2>6
    <3>5. n.lba \notin Lbas(r) /\ Len(r.nodes) < MaxNodes BY <1>0, <1>4, <2>6, <3>3
    <3>6. /\ Table(d, t) /\ t.truncated = r.truncated
          /\ Len(t.nodes) = Len(r.nodes) + 1 /\ t.nodes[Len(t.nodes)].lba = n.lba
          /\ \A i \in 1..Len(r.nodes) : t.nodes[i].lba = r.nodes[i].lba
      BY <3>3, <3>4, <3>5, NodeAppended
    <3>7. Len(t.nodes) \in DOMAIN t.nodes BY <1>0, <3>6, TableFacts
    <3>8. lba \in Lbas(t) BY <3>3, <3>6, <3>7 DEF Lbas
    <3> QED BY <1>0, <2>2, <2>6, <3>3, <3>6, <3>8 DEF Grows, Added
  <2> QED BY <2>4, <2>5, <2>6
<1> QED BY <1>1, <1>2, <1>3, <1>4

-----------------------------------------------------------------------------
(* Discovery: the table holds only what the grid and the links lead to,    *)
(* and unless it overflowed, all of it.                                    *)

\* x is sampled by the coarse pass.
OnGrid(x) == \E i \in 1..Samples : x = (i - 1) * ScanStep

\* The header at lba is followed,
Cand(d, lba) ==
    /\ Conf(Read(d, lba), lba) >= 50
    /\ {"MAGIC", "LENGTH"} \subseteq Full(Read(d, lba), lba)

\* to these places.
Refs(d, lba) ==
    LET h == Read(d, lba)
    IN  {h.next, h.prev, h.main}
        \cup (IF Len(h.subs) <= MaxSubs /\ Conf(h, lba) >= 60
              THEN {h.subs[i] : i \in DOMAIN h.subs} ELSE {})

\* x is found on the grid.
Seed(d, x) == OnGrid(x) /\ Accepts(d, x, "GRID")

\* x is found from the header at y.
Names(d, y, x) ==
    Cand(d, y) /\ x \in Refs(d, y) /\ x # 0 /\ Accepts(d, x, "REFERENCED")

\* Grid or table lead to x.
Reached(d, r, x) == Seed(d, x) \/ \E y \in Lbas(r) : Names(d, y, x)

\* Every node was led to by the grid or by an earlier one.
Origin(d, r) ==
    \A i \in 1..Len(r.nodes) :
        \/ Seed(d, r.nodes[i].lba)
        \/ \E j \in 1..(i - 1) : Names(d, r.nodes[j].lba, r.nodes[i].lba)

\* A table that overflowed is full, and there was something more.
Spilled(d, r) ==
    r.truncated => Len(r.nodes) = MaxNodes /\ \E x : x \notin Lbas(r) /\ Reached(d, r, x)

\* What every stage of a scan keeps.
Found(d, r) == Table(d, r) /\ Origin(d, r) /\ Spilled(d, r)

\* Everything the header at y names is in the table.
Done(d, r, y) == \A x : Names(d, y, x) => x \in Lbas(r)

\* Everything grid and table lead to is in the table.
Complete(d, r) ==
    /\ \A x : Seed(d, x) => x \in Lbas(r)
    /\ \A y \in Lbas(r) : Done(d, r, y)

\* Induction along a loop of n turns.
LEMMA UpTo ==
  ASSUME NEW n \in Nat, NEW G, 0 \in G, \A i \in 1..n : i - 1 \in G => i \in G
  PROVE  \A i \in 0..n : i \in G
<1> DEFINE Bad == {i \in 0..n : i \notin G}
<1> SUFFICES ASSUME Bad # {} PROVE FALSE
  OBVIOUS
<1>1. Bad \in SUBSET Nat OBVIOUS
<1>2. PICK i \in Bad : \A j \in Bad : i <= j
  <2> HIDE DEF Bad
  <2> QED BY <1>1, Least
<1>3. i \in 1..n /\ i - 1 \in 0..n /\ i \notin G BY <1>2
<1>4. i - 1 \notin Bad
  <2> HIDE DEF Bad
  <2> QED BY <1>2, <1>3
<1> QED BY <1>3, <1>4

\* A table that grew has the LBAs it had; without a new node it has no others.
LEMMA GrownLbas ==
  ASSUME NEW d, NEW r, NEW t, Table(d, r), Table(d, t), Grows(r, t)
  PROVE  Lbas(r) \subseteq Lbas(t) /\ (Len(t.nodes) = Len(r.nodes) => Lbas(t) = Lbas(r))
<1>1. /\ DOMAIN r.nodes = 1..Len(r.nodes) /\ DOMAIN t.nodes = 1..Len(t.nodes)
      /\ Len(r.nodes) \in Nat /\ Len(t.nodes) \in Nat
  BY TableFacts
<1> QED BY <1>1 DEF Grows, Lbas

\* A read of something the grid or a node leads to.
LEMMA ReadStep ==
  ASSUME NEW d, Headers(d), NEW r, Found(d, r), NEW lba \in Nat, NEW source \in Sources,
         Accepts(d, lba, source) => Reached(d, r, lba)
  PROVE  LET t == add_candidate(d, r, lba, source)
         IN  /\ Found(d, t) /\ Grows(r, t)
             /\ Accepts(d, lba, source) => lba \in Lbas(t) \/ t.truncated
<1> DEFINE t0 == add_candidate(d, r, lba, source)
<1>1. PICK t : t = t0 OBVIOUS
<1>2. Added(d, r, lba, source, t) BY <1>1, CandidateAdded DEF Found
<1>3. Table(d, r) /\ Table(d, t) /\ Grows(r, t) BY <1>2 DEF Found, Added
<1>4. /\ DOMAIN r.nodes = 1..Len(r.nodes) /\ DOMAIN t.nodes = 1..Len(t.nodes)
      /\ Len(r.nodes) \in Nat /\ Len(t.nodes) \in Nat /\ MaxNodes \in Nat
  BY <1>3, TableFacts, ForensicConstants
<1>5. Lbas(r) \subseteq Lbas(t) /\ (Len(t.nodes) = Len(r.nodes) => Lbas(t) = Lbas(r))
  BY <1>3, GrownLbas
<1>6. Origin(d, t)
  <2> SUFFICES ASSUME NEW i \in 1..Len(t.nodes)
               PROVE  \/ Seed(d, t.nodes[i].lba)
                      \/ \E j \in 1..(i - 1) : Names(d, t.nodes[j].lba, t.nodes[i].lba)
    BY DEF Origin
  <2>1. CASE i \in 1..Len(r.nodes)
    <3>1. \A j \in 1..i : t.nodes[j].lba = r.nodes[j].lba BY <1>3, <1>4, <2>1 DEF Grows
    <3>2. \/ Seed(d, r.nodes[i].lba)
          \/ \E j \in 1..(i - 1) : Names(d, r.nodes[j].lba, r.nodes[i].lba)
      BY <2>1 DEF Found, Origin
    <3>3. i \in 1..i /\ \A j \in 1..(i - 1) : j \in 1..i BY <1>4
    <3> QED BY <3>1, <3>2, <3>3
  <2>2. CASE i \notin 1..Len(r.nodes)
    <3>1. i = Len(r.nodes) + 1 /\ t.nodes[i].lba = lba /\ Accepts(d, lba, source)
      BY <1>2, <1>4, <2>2 DEF Added
    <3>2. Seed(d, lba) \/ \E y \in Lbas(r) : Names(d, y, lba) BY <3>1 DEF Reached
    <3>3. \A y \in Lbas(r) : \E j \in 1..(i - 1) : t.nodes[j].lba = y
      BY <1>3, <1>4, <3>1 DEF Lbas, Grows
    <3> QED BY <3>1, <3>2, <3>3
  <2> QED BY <2>1, <2>2
<1>7. Spilled(d, t)
  <2> SUFFICES ASSUME t.truncated
               PROVE  Len(t.nodes) = MaxNodes /\ \E x : x \notin Lbas(t) /\ Reached(d, t, x)
    BY DEF Spilled
  <2>1. CASE r.truncated
    <3>1. Len(r.nodes) = MaxNodes /\ \E x : x \notin Lbas(r) /\ Reached(d, r, x)
      BY <2>1 DEF Found, Spilled
    <3>2. Len(t.nodes) = Len(r.nodes) BY <1>3, <1>4, <3>1 DEF Table, Grows
    <3> QED BY <1>5, <3>1, <3>2 DEF Reached
  <2>2. CASE ~r.truncated
    <3>1. /\ Len(r.nodes) = MaxNodes /\ lba \notin Lbas(r)
          /\ Accepts(d, lba, source) /\ t.nodes = r.nodes
      BY <1>2, <2>2 DEF Added
    <3>2. Lbas(t) = Lbas(r) BY <1>5, <3>1
    <3> QED BY <3>1, <3>2 DEF Reached
  <2> QED BY <2>1, <2>2
<1>8. Found(d, t) BY <1>3, <1>6, <1>7 DEF Found
<1>9. Accepts(d, lba, source) => lba \in Lbas(t) \/ t.truncated BY <1>2 DEF Added
<1> QED BY <1>1, <1>3, <1>8, <1>9

\* What the references of one node add.
LEMMA FollowStep ==
  ASSUME NEW d, Headers(d), NEW r, Found(d, r), NEW y \in Lbas(r), Cand(d, y),
         NEW l \in Nat, NEW seq, DOMAIN seq = 1..l,
         \A i \in 1..l : seq[i] \in Nat /\ seq[i] \in Refs(d, y)
  PROVE  LET t == follow_all(d, r, seq)
         IN  /\ Found(d, t) /\ Grows(r, t)
             /\ ~t.truncated => \A i \in 1..l : Names(d, y, seq[i]) => seq[i] \in Lbas(t)
<1>0. PICK F : Chain("follow", d, r, seq, l, F) /\ F[l] = follow_all(d, r, seq)
  BY FollowLoop
<1>1. /\ F[0] = r /\ F[l] = follow_all(d, r, seq)
      /\ \A i \in 1..l : F[i] = follow_reference(d, F[i - 1], seq[i])
  BY <1>0 DEF Chain, Loop
<1> DEFINE P(i) == /\ Found(d, F[i]) /\ Grows(r, F[i])
                   /\ ~F[i].truncated =>
                         \A k \in 1..i : Names(d, y, seq[k]) => seq[k] \in Lbas(F[i])
           G == {i \in 0..l : P(i)}
<1>2. Len(r.nodes) \in Nat BY TableFacts DEF Found
<1>3. P(0) BY <1>1, <1>2 DEF Grows
<1>4. ASSUME NEW i \in 1..l, P(i - 1) PROVE P(i)
  <2> DEFINE x == seq[i]
  <2>0. PICK s, t : s = F[i - 1] /\ t = F[i] OBVIOUS
  <2>1. t = follow_reference(d, s, x) BY <1>1, <2>0
  <2>2. /\ Found(d, s) /\ Grows(r, s)
        /\ ~s.truncated => \A k \in 1..(i - 1) : Names(d, y, seq[k]) => seq[k] \in Lbas(s)
    BY <1>4, <2>0
  <2>3. x \in Nat /\ x \in Refs(d, y) OBVIOUS
  <2>4. Table(d, r) /\ Table(d, s) /\ Total \in Nat BY <2>2, ForensicConstants DEF Found
  <2>5. y \in Lbas(s) BY <2>2, <2>4, GrownLbas
  <2>6. Found(d, t) /\ Grows(s, t) /\ (Names(d, y, x) => x \in Lbas(t) \/ t.truncated)
    <3>1. CASE x = 0 \/ x >= Total
      <4>1. t = s BY <2>1, <3>1 DEF follow_reference
      <4>2. ~Names(d, y, x) BY <2>3, <2>4, <3>1 DEF Names, Accepts
      <4>3. Len(s.nodes) \in Nat BY <2>4, TableFacts
      <4> QED BY <2>2, <4>1, <4>2, <4>3 DEF Grows
    <3>2. CASE ~(x = 0 \/ x >= Total)
      <4>1. t = add_candidate(d, s, x, "REFERENCED") BY <2>1, <3>2 DEF follow_reference
      <4>2. Accepts(d, x, "REFERENCED") => Names(d, y, x) BY <2>3, <3>2 DEF Names
      <4>3. Accepts(d, x, "REFERENCED") => Reached(d, s, x) BY <2>5, <4>2 DEF Reached
      <4>4. "REFERENCED" \in Sources BY DEF Sources
      <4>5. /\ Found(d, t) /\ Grows(s, t)
            /\ Accepts(d, x, "REFERENCED") => x \in Lbas(t) \/ t.truncated
        BY <2>2, <2>3, <4>1, <4>3, <4>4, ReadStep
      <4> QED BY <4>5 DEF Names
    <3> QED BY <3>1, <3>2
  <2>7. Table(d, t) BY <2>6 DEF Found
  <2>8. Grows(r, t)
    <3>1. Len(r.nodes) \in Nat /\ Len(s.nodes) \in Nat /\ Len(t.nodes) \in Nat
      BY <2>4, <2>7, TableFacts
    <3> QED BY <2>2, <2>6, <3>1, GrowsTransitive
  <2>9. Lbas(s) \subseteq Lbas(t) /\ (s.truncated => t.truncated)
    BY <2>4, <2>6, <2>7, GrownLbas DEF Grows
  <2>10. ASSUME ~t.truncated, NEW k \in 1..i, Names(d, y, seq[k]) PROVE seq[k] \in Lbas(t)
    <3>1. k \in 1..(i - 1) \/ k = i OBVIOUS
    <3> QED BY <2>2, <2>6, <2>9, <2>10, <3>1
  <2> QED BY <2>0, <2>6, <2>8, <2>10
<1>5. 0 \in G /\ \A i \in 1..l : i - 1 \in G => i \in G
  <2>1. \A i \in 1..l : P(i - 1) => P(i) BY <1>4
  <2>2. 0 \in 0..l /\ \A i \in 1..l : i \in 0..l OBVIOUS
  <2> HIDE DEF P
  <2> QED BY <1>3, <2>1, <2>2
<1>6. l \in G
  <2> HIDE DEF G
  <2>1. l \in 0..l OBVIOUS
  <2> QED BY <1>5, <2>1, UpTo
<1>7. P(l) BY <1>6
<1> QED BY <1>1, <1>7

\* seq lists what the node n of r refers to.
Viewed(d, r, n, seq) ==
    /\ n.lba \in Lbas(r) /\ (referenced_node_candidate(n) <=> Cand(d, n.lba))
    /\ Len(seq) \in Nat /\ DOMAIN seq = 1..Len(seq)
    /\ \A k \in 1..Len(seq) : seq[k] \in Nat /\ seq[k] \in Refs(d, n.lba)
    /\ \A x \in Refs(d, n.lba) : \E k \in 1..Len(seq) : seq[k] = x

\* The table's view of a node is the one of its header.
LEMMA NodeView ==
  ASSUME NEW d, Headers(d), NEW r, Table(d, r), NEW i \in 1..Len(r.nodes)
  PROVE  Viewed(d, r, r.nodes[i], references(r.nodes[i]))
<1> DEFINE n == r.nodes[i]
           h == n.header
           subs == IF Len(h.subs) <= MaxSubs /\ n.confidence >= 60 THEN h.subs ELSE <<>>
           three == <<h.next, h.prev, h.main>>
           seq == references(n)
<1>1. i \in DOMAIN r.nodes BY TableFacts
<1>2. NodeOK(d, n) BY <1>1 DEF Table
<1>3. /\ h \in Header /\ h = Read(d, n.lba)
      /\ n.evidence \ Sources = Full(h, n.lba) /\ n.confidence = Conf(h, n.lba)
  BY <1>2 DEF NodeOK, Node
<1>4. n.lba \in Lbas(r) BY <1>1 DEF Lbas
<1>5. referenced_node_candidate(n) <=> Cand(d, n.lba)
  BY <1>3 DEF referenced_node_candidate, Cand, Sources
<1>6. h.subs \in Seq(Nat) /\ h.next \in Nat /\ h.prev \in Nat /\ h.main \in Nat
  BY <1>3 DEF Header
<1>7. seq = three \o subs BY DEF references
<1>8. Refs(d, n.lba) = {h.next, h.prev, h.main} \cup {subs[k] : k \in DOMAIN subs}
  BY <1>3 DEF Refs
<1>9. subs \in Seq(Nat) /\ three \in Seq(Nat) /\ Len(three) = 3 BY <1>6
<1>10. three[1] = h.next /\ three[2] = h.prev /\ three[3] = h.main OBVIOUS
<1> HIDE DEF three, subs, seq, n
<1>11. /\ Len(subs) \in Nat /\ DOMAIN subs = 1..Len(subs)
       /\ \A k \in 1..Len(subs) : subs[k] \in Nat
  BY <1>9
<1>12. /\ seq \in Seq(Nat) /\ Len(seq) = 3 + Len(subs)
       /\ \A k \in 1..3 : seq[k] = three[k]
       /\ \A k \in 4..Len(seq) : seq[k] = subs[k - 3]
  <2>1. seq \in Seq(Nat) /\ Len(seq) = Len(three) + Len(subs) BY <1>7, <1>9, ConcatProperties
  <2>2. Len(seq) = Len(three) + Len(subs) BY <2>1
  <2>3. \A k \in 1..(Len(three) + Len(subs)) :
           seq[k] = IF k <= Len(three) THEN three[k] ELSE subs[k - Len(three)]
    BY <1>7, <1>9, ConcatProperties, Zenon
  <2>4. \A k \in 1..3 : k \in 1..(Len(three) + Len(subs)) /\ k <= Len(three) BY <1>9, <1>11
  <2>5. \A k \in 4..Len(seq) : k \in 1..(Len(three) + Len(subs)) /\ ~(k <= Len(three))
    BY <1>9, <1>11, <2>2
  <2> QED BY <1>9, <2>1, <2>2, <2>3, <2>4, <2>5
<1>13. /\ Len(seq) \in Nat /\ DOMAIN seq = 1..Len(seq)
       /\ \A k \in 1..Len(seq) : seq[k] \in Nat
  BY <1>12
<1>14. \A k \in 1..Len(seq) : seq[k] \in Refs(d, n.lba)
  <2> TAKE k \in 1..Len(seq)
  <2>1. k = 1 \/ k = 2 \/ k = 3 \/ (k \in 4..Len(seq) /\ k - 3 \in 1..Len(subs))
    BY <1>11, <1>12
  <2>2. seq[1] = h.next /\ seq[2] = h.prev /\ seq[3] = h.main BY <1>10, <1>12
  <2> QED BY <1>8, <1>11, <1>12, <2>1, <2>2
<1>15. \A x \in Refs(d, n.lba) : \E k \in 1..Len(seq) : seq[k] = x
  <2> TAKE x \in Refs(d, n.lba)
  <2>1. x \in {h.next, h.prev, h.main} \/ \E k \in 1..Len(subs) : x = subs[k]
    BY <1>8, <1>11
  <2>2. seq[1] = h.next /\ seq[2] = h.prev /\ seq[3] = h.main BY <1>10, <1>12
  <2>3. {1, 2, 3} \subseteq 1..Len(seq) BY <1>11, <1>12
  <2>4. \A k \in 1..Len(subs) : k + 3 \in 1..Len(seq) /\ seq[k + 3] = subs[k]
    <3> TAKE k \in 1..Len(subs)
    <3>1. PICK j : j = k + 3 OBVIOUS
    <3>2. j \in 4..Len(seq) /\ j \in 1..Len(seq) /\ j - 3 = k BY <1>11, <1>12, <3>1
    <3>3. seq[j] = subs[j - 3] BY <1>12, <3>2
    <3> QED BY <3>1, <3>2, <3>3
  <2> QED BY <2>1, <2>2, <2>3, <2>4
<1> QED BY <1>4, <1>5, <1>13, <1>14, <1>15 DEF n, seq, Viewed

\* A visit adds all a node names, and past the end of the table does nothing.
LEMMA VisitStep ==
  ASSUME NEW d, Headers(d), NEW r, Found(d, r), NEW c \in Nat \ {0}
  PROVE  LET t == visit_node(d, r, c)
         IN  /\ Found(d, t) /\ Grows(r, t)
             /\ c > Len(r.nodes) => t = r
             /\ ~t.truncated /\ c <= Len(r.nodes) => Done(d, t, r.nodes[c].lba)
<1> DEFINE t0 == visit_node(d, r, c)
           n == r.nodes[c]
           seq == references(n)
<1>1. PICK t : t = t0 OBVIOUS
<1>2. Table(d, r) /\ Len(r.nodes) \in Nat BY TableFacts DEF Found
<1>3. CASE c > Len(r.nodes) \/ r.truncated
  <2>1. t = r BY <1>1, <1>3 DEF visit_node
  <2> QED BY <1>1, <1>2, <1>3, <2>1 DEF Grows
<1>4. CASE ~(c > Len(r.nodes) \/ r.truncated)
  <2>1. c \in 1..Len(r.nodes) BY <1>2, <1>4
  <2>2. /\ n.lba \in Lbas(r) /\ (referenced_node_candidate(n) <=> Cand(d, n.lba))
        /\ Len(seq) \in Nat /\ DOMAIN seq = 1..Len(seq)
        /\ \A k \in 1..Len(seq) : seq[k] \in Nat /\ seq[k] \in Refs(d, n.lba)
        /\ \A x \in Refs(d, n.lba) : \E k \in 1..Len(seq) : seq[k] = x
    <3>1. Viewed(d, r, n, seq) BY <1>2, <2>1, NodeView
    <3> QED BY <3>1 DEF Viewed
  <2>3. CASE ~referenced_node_candidate(n)
    <3>1. t = r BY <1>1, <1>4, <2>3 DEF visit_node
    <3>2. Done(d, t, n.lba) BY <2>2, <2>3 DEF Done, Names
    <3> QED BY <1>1, <1>2, <1>4, <3>1, <3>2 DEF Grows
  <2>4. CASE referenced_node_candidate(n)
    <3>1. t = follow_all(d, r, seq) BY <1>1, <1>4, <2>4 DEF visit_node
    <3> HIDE DEF n, seq
    <3>2. /\ Found(d, t) /\ Grows(r, t)
          /\ ~t.truncated =>
                \A i \in 1..Len(seq) : Names(d, n.lba, seq[i]) => seq[i] \in Lbas(t)
      BY <2>2, <2>4, <3>1, FollowStep
    <3>3. ~t.truncated => Done(d, t, n.lba)
      <4> SUFFICES ASSUME ~t.truncated, NEW x, Names(d, n.lba, x) PROVE x \in Lbas(t)
        BY DEF Done
      <4>1. x \in Refs(d, n.lba) BY DEF Names
      <4> QED BY <2>2, <3>2, <4>1
    <3> QED BY <1>1, <1>4, <3>2, <3>3 DEF n
  <2> QED BY <2>3, <2>4
<1> QED BY <1>3, <1>4

\* The chase through the table.
LEMMA ChaseStep ==
  ASSUME NEW d, Headers(d), NEW r, Found(d, r)
  PROVE  LET t == chase_references(d, r)
         IN  /\ Found(d, t) /\ Grows(r, t)
             /\ ~t.truncated => \A y \in Lbas(t) : Done(d, t, y)
<1>0. PICK F : /\ Chain("chase", d, r, [i \in 1..MaxNodes |-> i], MaxNodes, F)
               /\ F[MaxNodes] = chase_references(d, r)
  BY ChaseLoop
<1>1. /\ F[0] = r /\ F[MaxNodes] = chase_references(d, r)
      /\ \A i \in 1..MaxNodes : F[i] = visit_node(d, F[i - 1], i)
  BY <1>0 DEF Chain, Loop
<1>2. Len(r.nodes) \in Nat /\ MaxNodes \in Nat BY TableFacts, ForensicConstants DEF Found
<1> DEFINE P(i) == /\ Found(d, F[i]) /\ Grows(r, F[i])
                   /\ ~F[i].truncated =>
                         \A c \in 1..i : c <= Len(F[i].nodes) => Done(d, F[i], F[i].nodes[c].lba)
           G == {i \in 0..MaxNodes : P(i)}
<1>3. P(0) BY <1>1, <1>2 DEF Grows
<1>4. ASSUME NEW i \in 1..MaxNodes, P(i - 1) PROVE P(i)
  <2>0. PICK s, t : s = F[i - 1] /\ t = F[i] OBVIOUS
  <2>1. t = visit_node(d, s, i) BY <1>1, <2>0
  <2>2. /\ Found(d, s) /\ Grows(r, s)
        /\ ~s.truncated =>
              \A c \in 1..(i - 1) : c <= Len(s.nodes) => Done(d, s, s.nodes[c].lba)
    BY <1>4, <2>0
  <2>3. /\ Found(d, t) /\ Grows(s, t)
        /\ i > Len(s.nodes) => t = s
        /\ ~t.truncated /\ i <= Len(s.nodes) => Done(d, t, s.nodes[i].lba)
    BY <1>2, <2>1, <2>2, VisitStep
  <2>4. Table(d, r) /\ Table(d, s) /\ Table(d, t) BY <2>2, <2>3 DEF Found
  <2>5. Len(r.nodes) \in Nat /\ Len(s.nodes) \in Nat /\ Len(t.nodes) \in Nat
    BY <2>4, TableFacts
  <2>6. Grows(r, t) BY <2>2, <2>3, <2>5, GrowsTransitive
  <2>7. Lbas(s) \subseteq Lbas(t) /\ (s.truncated => t.truncated)
    BY <2>3, <2>4, GrownLbas DEF Grows
  <2>8. ASSUME ~t.truncated, NEW c \in 1..i, c <= Len(t.nodes)
        PROVE  Done(d, t, t.nodes[c].lba)
    <3>1. CASE i > Len(s.nodes)
      <4>1. t = s /\ c \in 1..(i - 1) BY <1>2, <2>3, <2>5, <2>8, <3>1
      <4> QED BY <2>2, <2>8, <4>1
    <3>2. CASE ~(i > Len(s.nodes))
      <4>1. c \in 1..Len(s.nodes) BY <1>2, <2>5, <3>2
      <4>2. t.nodes[c].lba = s.nodes[c].lba BY <2>3, <4>1 DEF Grows
      <4>3. c = i \/ c \in 1..(i - 1) BY <1>2
      <4>4. CASE c = i BY <2>3, <2>5, <2>8, <3>2, <4>2, <4>4
      <4>5. CASE c \in 1..(i - 1)
        <5>1. Done(d, s, s.nodes[c].lba) BY <2>2, <2>5, <2>7, <2>8, <4>1, <4>5
        <5> QED BY <2>7, <4>2, <5>1 DEF Done
      <4> QED BY <4>3, <4>4, <4>5
    <3> QED BY <3>1, <3>2
  <2> QED BY <2>0, <2>3, <2>6, <2>8
<1>5. 0 \in G /\ \A i \in 1..MaxNodes : i - 1 \in G => i \in G
  <2>1. \A i \in 1..MaxNodes : P(i - 1) => P(i) BY <1>4
  <2>2. 0 \in 0..MaxNodes /\ \A i \in 1..MaxNodes : i \in 0..MaxNodes BY <1>2
  <2> HIDE DEF P
  <2> QED BY <1>3, <2>1, <2>2
<1>6. MaxNodes \in G
  <2> HIDE DEF G
  <2>1. MaxNodes \in 0..MaxNodes BY <1>2
  <2> QED BY <1>2, <1>5, <2>1, UpTo
<1>7. PICK t : t = F[MaxNodes] OBVIOUS
<1>8. /\ Found(d, t) /\ Grows(r, t)
      /\ ~t.truncated => \A c \in 1..MaxNodes : c <= Len(t.nodes) => Done(d, t, t.nodes[c].lba)
  BY <1>6, <1>7
<1>9. ASSUME ~t.truncated, NEW y \in Lbas(t) PROVE Done(d, t, y)
  <2>1. /\ DOMAIN t.nodes = 1..Len(t.nodes) /\ Len(t.nodes) \in Nat
        /\ Len(t.nodes) <= MaxNodes
    BY <1>8, TableFacts DEF Found, Table
  <2>2. PICK c \in 1..Len(t.nodes) : t.nodes[c].lba = y BY <2>1 DEF Lbas
  <2>3. c \in 1..MaxNodes /\ c <= Len(t.nodes) BY <1>2, <2>1
  <2> QED BY <1>8, <1>9, <2>2, <2>3
<1> QED BY <1>1, <1>7, <1>8, <1>9

\* The grid: samples below the end of the drive, all of them.
LEMMA GridSamples ==
  /\ Samples \in Nat
  /\ \A i \in 1..Samples : (i - 1) * ScanStep \in Nat
  /\ \A x \in Nat : x < Total /\ x % ScanStep = 0 => OnGrid(x)
<1>1. ScanStep \in Nat \ {0} /\ Total \in Nat \ {0} BY ForensicConstants
<1> DEFINE a == Total + ScanStep - 1
<1>2. a \in Nat BY <1>1
<1>3. a \div ScanStep \in Nat /\ a < ScanStep * ((a \div ScanStep) + 1) BY <1>1, <1>2
<1>4. Samples = a \div ScanStep BY DEF Samples
<1>5. Samples \in Nat BY <1>3, <1>4
<1>6. \A i \in 1..Samples : (i - 1) * ScanStep \in Nat
  <2> TAKE i \in 1..Samples
  <2>1. i - 1 \in Nat BY <1>5
  <2> QED BY <1>1, <2>1
<1>7. ASSUME NEW x \in Nat, x < Total, x % ScanStep = 0 PROVE OnGrid(x)
  <2> DEFINE q == x \div ScanStep
  <2>1. q \in Nat /\ x = ScanStep * q BY <1>1, <1>7
  <2> HIDE DEF q, a
  <2>2. x + ScanStep <= a BY <1>1, <1>7 DEF a
  <2>3. x + ScanStep = ScanStep * (q + 1) BY <1>1, <2>1
  <2>4. ScanStep * (q + 1) < ScanStep * (Samples + 1)
    <3>1. a < ScanStep * (Samples + 1) BY <1>3, <1>4
    <3>2. ScanStep * (Samples + 1) \in Nat /\ ScanStep * (q + 1) \in Nat BY <1>1, <1>5, <2>1
    <3> QED BY <1>2, <2>2, <2>3, <3>1, <3>2
  <2>5. q + 1 < Samples + 1
    <3>1. \A u, v \in Nat : ScanStep * u < ScanStep * v => u < v BY <1>1
    <3>2. q + 1 \in Nat /\ Samples + 1 \in Nat BY <1>5, <2>1
    <3> QED BY <2>4, <3>1, <3>2
  <2>6. q + 1 \in 1..Samples /\ x = ((q + 1) - 1) * ScanStep
    <3>1. q + 1 \in 1..Samples BY <1>5, <2>1, <2>5
    <3>2. (q + 1) - 1 = q BY <2>1
    <3>3. ScanStep * q = q * ScanStep BY <1>1, <2>1
    <3> QED BY <2>1, <3>1, <3>2, <3>3
  <2> QED BY <2>6 DEF OnGrid
<1> QED BY <1>5, <1>6, <1>7

\* The coarse pass.
LEMMA GridStep ==
  ASSUME NEW d, Headers(d)
  PROVE  LET t == GridPass(d)
         IN  Found(d, t) /\ (~t.truncated => \A x : Seed(d, x) => x \in Lbas(t))
<1>0. PICK F : /\ Chain("grid", d, EmptyResult, [i \in 1..Samples |-> i], Samples, F)
               /\ F[Samples] = GridPass(d)
  BY GridLoop, GridSamples
<1>1. /\ F[0] = EmptyResult /\ F[Samples] = GridPass(d)
      /\ \A i \in 1..Samples : F[i] = grid_sample(d, F[i - 1], i)
  BY <1>0 DEF Chain, Loop
<1>2. Samples \in Nat BY GridSamples
<1> DEFINE at(i) == (i - 1) * ScanStep
           P(i) == /\ Found(d, F[i])
                   /\ ~F[i].truncated =>
                         \A c \in 1..i : Accepts(d, at(c), "GRID") => at(c) \in Lbas(F[i])
           G == {i \in 0..Samples : P(i)}
<1>3. P(0)
  <2>1. <<>> \in Seq(Node) /\ Len(<<>>) = 0 /\ DOMAIN <<>> = {} OBVIOUS
  <2>2. EmptyResult \in [nodes : Seq(Node), unreadable : Nat, truncated : BOOLEAN,
                         dormant : {{}}, maps : {<<>>}]
    BY <2>1 DEF EmptyResult
  <2>3. EmptyResult.nodes = <<>> /\ EmptyResult.truncated = FALSE BY DEF EmptyResult
  <2>4. Table(d, EmptyResult) BY <2>1, <2>2, <2>3, ForensicConstants DEF Table
  <2>5. Origin(d, EmptyResult) /\ Spilled(d, EmptyResult)
    BY <2>1, <2>3 DEF Origin, Spilled
  <2> QED BY <1>1, <2>4, <2>5 DEF Found
<1>4. ASSUME NEW i \in 1..Samples, P(i - 1) PROVE P(i)
  <2>0. PICK s, t : s = F[i - 1] /\ t = F[i] OBVIOUS
  <2>1. t = grid_sample(d, s, i) BY <1>1, <2>0
  <2>2. /\ Found(d, s)
        /\ ~s.truncated =>
              \A c \in 1..(i - 1) : Accepts(d, at(c), "GRID") => at(c) \in Lbas(s)
    BY <1>4, <2>0
  <2>3. CASE i > 1 /\ s.truncated
    <3>1. t = s BY <2>1, <2>3 DEF grid_sample
    <3> QED BY <2>0, <2>2, <2>3, <3>1
  <2>4. CASE ~(i > 1 /\ s.truncated)
    <3>1. t = add_candidate(d, s, at(i), "GRID") BY <2>1, <2>4 DEF grid_sample
    <3>2. at(i) \in Nat BY GridSamples
    <3>3. Accepts(d, at(i), "GRID") => Reached(d, s, at(i)) BY DEF Reached, Seed, OnGrid
    <3>4. "GRID" \in Sources BY DEF Sources
    <3> HIDE DEF at
    <3>5. /\ Found(d, t) /\ Grows(s, t)
          /\ Accepts(d, at(i), "GRID") => at(i) \in Lbas(t) \/ t.truncated
      BY <2>2, <3>1, <3>2, <3>3, <3>4, ReadStep
    <3>6. Lbas(s) \subseteq Lbas(t) /\ (s.truncated => t.truncated)
      BY <2>2, <3>5, GrownLbas DEF Grows, Found
    <3>7. ASSUME ~t.truncated, NEW c \in 1..i, Accepts(d, at(c), "GRID")
          PROVE  at(c) \in Lbas(t)
      <4>1. c \in 1..(i - 1) \/ c = i BY <1>2
      <4> QED BY <2>2, <3>5, <3>6, <3>7, <4>1
    <3> QED BY <2>0, <3>5, <3>7
  <2> QED BY <2>3, <2>4
<1>5. 0 \in G /\ \A i \in 1..Samples : i - 1 \in G => i \in G
  <2>1. \A i \in 1..Samples : P(i - 1) => P(i) BY <1>4
  <2>2. 0 \in 0..Samples /\ \A i \in 1..Samples : i \in 0..Samples BY <1>2
  <2> HIDE DEF P
  <2> QED BY <1>3, <2>1, <2>2
<1>6. Samples \in G
  <2> HIDE DEF G
  <2>1. Samples \in 0..Samples BY <1>2
  <2> QED BY <1>2, <1>5, <2>1, UpTo
<1>7. PICK t : t = F[Samples] OBVIOUS
<1>8. /\ Found(d, t)
      /\ ~t.truncated => \A c \in 1..Samples : Accepts(d, at(c), "GRID") => at(c) \in Lbas(t)
  BY <1>6, <1>7
<1>9. ~t.truncated => \A x : Seed(d, x) => x \in Lbas(t) BY <1>8 DEF Seed, OnGrid
<1> QED BY <1>1, <1>7, <1>8, <1>9

\* What a scan found: nothing but what grid and links lead to, and unless it ran out
\* of slots all of it.
LEMMA Discovery ==
  ASSUME NEW d, Headers(d)
  PROVE  LET t == chase_references(d, GridPass(d))
         IN  Found(d, t) /\ (~t.truncated => Complete(d, t))
<1>1. PICK r, t : r = GridPass(d) /\ t = chase_references(d, r) OBVIOUS
<1>2. Found(d, r) /\ (~r.truncated => \A x : Seed(d, x) => x \in Lbas(r))
  BY <1>1, GridStep
<1>3. /\ Found(d, t) /\ Grows(r, t)
      /\ ~t.truncated => \A y \in Lbas(t) : Done(d, t, y)
  BY <1>1, <1>2, ChaseStep
<1>4. Lbas(r) \subseteq Lbas(t) /\ (r.truncated => t.truncated)
  BY <1>2, <1>3, GrownLbas DEF Grows, Found
<1>5. ~t.truncated => Complete(d, t) BY <1>2, <1>3, <1>4 DEF Complete
<1> QED BY <1>1, <1>3, <1>5

-----------------------------------------------------------------------------
(* Sorting: sort_by_lba lists its set without repetition, in order.        *)

\* A smaller member has fewer below it.
LEMMA Ranks ==
  ASSUME NEW S \in SUBSET Nat, IsFiniteSet(S), NEW x \in S, NEW y \in S
  PROVE  /\ Cardinality({z \in S : z < x}) \in Nat
         /\ Cardinality({z \in S : z < x}) < Cardinality(S)
         /\ x < y => Cardinality({z \in S : z < x}) < Cardinality({z \in S : z < y})
<1> DEFINE below(a) == {z \in S : z < a}
<1>1. IsFiniteSet(below(x)) /\ IsFiniteSet(below(y)) BY FS_Subset
<1>2. /\ Cardinality(below(x)) \in Nat /\ Cardinality(below(y)) \in Nat
      /\ Cardinality(S) \in Nat
  BY <1>1, FS_CardinalityType
<1>3. x \notin below(x) OBVIOUS
<1>4. /\ IsFiniteSet(below(x) \cup {x})
      /\ Cardinality(below(x) \cup {x}) = Cardinality(below(x)) + 1
  <2> HIDE DEF below
  <2> QED BY <1>1, <1>3, FS_AddElement
<1>5. below(x) \cup {x} \in SUBSET S OBVIOUS
<1>6. x < y => below(x) \cup {x} \in SUBSET below(y)
  <2> SUFFICES ASSUME x < y, NEW z \in below(x) \cup {x} PROVE z \in below(y)
    OBVIOUS
  <2>1. z \in S /\ (z < x \/ z = x) OBVIOUS
  <2>2. z \in Nat /\ x \in Nat /\ y \in Nat BY <2>1
  <2>3. z < y BY <2>1, <2>2
  <2> QED BY <2>1, <2>3
<1> HIDE DEF below
<1>7. Cardinality(below(x) \cup {x}) <= Cardinality(S) BY <1>5, FS_Subset
<1>8. x < y => Cardinality(below(x) \cup {x}) <= Cardinality(below(y))
  BY <1>1, <1>6, FS_Subset
<1>9. /\ Cardinality(below(x)) \in Nat /\ Cardinality(below(x)) < Cardinality(S)
      /\ x < y => Cardinality(below(x)) < Cardinality(below(y))
  BY <1>2, <1>4, <1>7, <1>8
<1> QED BY <1>9 DEF below

\* Every member is listed, once, and the list increases.
LEMMA SortedOnto ==
  ASSUME NEW S \in SUBSET Nat, IsFiniteSet(S)
  PROVE  LET s == sort_by_lba(S)
         IN  /\ Cardinality(S) \in Nat /\ s \in Seq(S) /\ Len(s) = Cardinality(S)
             /\ DOMAIN s = 1..Cardinality(S)
             /\ \A x \in S : \E i \in 1..Len(s) : s[i] = x
             /\ \A i, j \in 1..Len(s) : i < j => s[i] < s[j]
             /\ \A i, j \in 1..Len(s) : s[i] = s[j] => i = j
<1> DEFINE n == Cardinality(S)
           below(a) == {z \in S : z < a}
<1>0. PICK s : s = sort_by_lba(S) OBVIOUS
<1>1. n \in Nat BY FS_CardinalityType
<1>2. \A i \in 1..n : s[i] \in S /\ Cardinality(below(s[i])) = i - 1
  BY <1>0, SortedMember
<1>3. DOMAIN s = 1..n /\ s \in [1..n -> S]
  <2> DEFINE e(i) == CHOOSE x \in S : Cardinality({y \in S : y < x}) = i - 1
  <2>1. s = [i \in 1..n |-> e(i)] BY <1>0 DEF sort_by_lba
  <2> HIDE DEF e, n, below
  <2>2. DOMAIN s = 1..n /\ \A i \in 1..n : s[i] = e(i) BY <2>1
  <2>3. \A i \in 1..n : e(i) \in S BY <1>2, <2>2
  <2> QED BY <2>1, <2>2, <2>3
<1>4. s \in Seq(S) /\ Len(s) = n
  <2> HIDE DEF n
  <2> QED BY <1>1, <1>3
<1>5. \A x, y \in S : /\ Cardinality(below(x)) \in Nat /\ Cardinality(below(x)) < n
                      /\ x < y => Cardinality(below(x)) < Cardinality(below(y))
  BY Ranks
<1> HIDE DEF n, below
<1>6. \A x, y \in S : Cardinality(below(x)) = Cardinality(below(y)) => x = y
  <2> TAKE x, y \in S
  <2>1. x < y \/ x = y \/ y < x OBVIOUS
  <2> QED BY <1>5, <2>1
<1>7. \A x \in S : \E i \in 1..n : s[i] = x
  <2> TAKE x \in S
  <2> DEFINE i == Cardinality(below(x)) + 1
  <2>1. i \in 1..n /\ i - 1 = Cardinality(below(x)) BY <1>1, <1>5
  <2>2. s[i] = x BY <1>2, <1>6, <2>1
  <2> QED BY <2>1, <2>2
<1>8. ASSUME NEW i \in 1..n, NEW j \in 1..n, i < j PROVE s[i] < s[j]
  <2>1. s[i] \in S /\ s[j] \in S BY <1>2
  <2>2. Cardinality(below(s[i])) = i - 1 /\ Cardinality(below(s[j])) = j - 1 BY <1>2
  <2>3. s[i] < s[j] \/ s[i] = s[j] \/ s[j] < s[i]
    <3>1. \A a, b \in Nat : a < b \/ a = b \/ b < a OBVIOUS
    <3>2. s[i] \in Nat /\ s[j] \in Nat BY <2>1
    <3> QED BY <3>1, <3>2, Zenon
  <2>4. s[j] < s[i] => j - 1 < i - 1 BY <1>5, <2>1, <2>2
  <2> QED BY <1>1, <1>8, <2>2, <2>3, <2>4
<1>9. \A i, j \in 1..n : s[i] = s[j] => i = j
  <2> TAKE i, j \in 1..n
  <2>1. s[i] = s[j] => i - 1 = j - 1 BY <1>2
  <2> QED BY <1>1, <2>1
<1> QED BY <1>0, <1>1, <1>3, <1>4, <1>7, <1>8, <1>9 DEF n
-----------------------------------------------------------------------------
(* What a scan and a plan are made of.                                     *)

\* The table a scan of d ends with.
Pool(d) == chase_references(d, GridPass(d))

\* Classifying and filing maps leaves the table alone.
LEMMA ScanNodes ==
  ASSUME NEW d, Headers(d)
  PROVE  LET s == apa_forensic_scan(d)
         IN  /\ s.nodes = Pool(d).nodes /\ s.truncated = Pool(d).truncated
             /\ Lbas(s) = Lbas(Pool(d)) /\ \A x : NodeAt(s, x) = NodeAt(Pool(d), x)
<1> DEFINE t == Pool(d)
           forward == build_forward_map(t)
           r0 == classify_dormant_free_remnants(t, forward)
           r1 == add_map_if_unique(r0, evaluate_map(r0, "FORWARD", forward))
           r2 == add_map_if_unique(r1, evaluate_map(r0, "REVERSE", build_reverse_map(r0)))
           r3 == add_map_if_unique(r2, evaluate_map(r0, "GEOMETRY", build_geometry_map(r0)))
<1>1. apa_forensic_scan(d) = r3 BY DEF apa_forensic_scan, Pool
<1>2. \A r, m : add_map_if_unique(r, m).nodes = r.nodes
                /\ add_map_if_unique(r, m).truncated = r.truncated
  BY DEF add_map_if_unique
<1>3. r0.nodes = t.nodes /\ r0.truncated = t.truncated
  BY DEF classify_dormant_free_remnants
<1> HIDE DEF t, r0, r1, r2
<1>4. r3.nodes = r2.nodes /\ r3.truncated = r2.truncated BY <1>2
<1>5. r2.nodes = r1.nodes /\ r2.truncated = r1.truncated BY <1>2 DEF r2
<1>6. r1.nodes = r0.nodes /\ r1.truncated = r0.truncated BY <1>2 DEF r1
<1> HIDE DEF r3
<1>7. r3.nodes = t.nodes /\ r3.truncated = t.truncated BY <1>3, <1>4, <1>5, <1>6
<1>8. Lbas(r3) = Lbas(t) BY <1>7 DEF Lbas
<1>9. \A x : NodeAt(r3, x) = NodeAt(t, x) BY <1>7 DEF NodeAt, find_node
<1> QED BY <1>1, <1>7, <1>8, <1>9 DEF t

\* The states of the planner: scan and plan come from the disk.
PInv ==
    /\ orig \in Layouts /\ DOMAIN disk = DOMAIN orig /\ Headers(disk)
    /\ scan = EmptyResult \/ scan = apa_forensic_scan(disk)
    /\ \/ plan = NoPlan
       \/ \E m \in DOMAIN scan.maps : plan = apa_forensic_build_repair_plan(scan, m)

\* Every step keeps them so.
LEMMA PlannerInvariance == PlannerSpec => []PInv
<1>1. ASSUME PlannerInit PROVE PInv
  <2>1. PICK a, b \in DOMAIN orig : \E g \in Damage(orig[a]), h \in Damage(orig[b]) :
           disk = [orig EXCEPT ![a] = g, ![b] = h]
    BY <1>1 DEF PlannerInit, DamagedFrom
  <2>2. PICK g \in Damage(orig[a]), h \in Damage(orig[b]) :
           disk = [orig EXCEPT ![a] = g, ![b] = h]
    BY <2>1
  <2>3. orig \in Layouts BY <1>1 DEF PlannerInit
  <2>4. /\ \A lba \in DOMAIN orig : orig[lba] \in Header
        /\ g \in Header \cup {Unreadable} /\ h \in Header \cup {Unreadable}
    BY <2>3, LayoutAssumption DEF Healthy, Sound
  <2>5. DOMAIN disk = DOMAIN orig BY <2>2
  <2>6. Headers(disk) BY <2>2, <2>4, <2>5 DEF Headers
  <2> QED BY <1>1, <2>3, <2>5, <2>6 DEF PlannerInit, PInv
<1>2. ASSUME PInv, [PlannerNext]_forensicVars PROVE PInv'
  <2>1. CASE Scan
    <3>1. DOMAIN EmptyResult.maps = {} BY DEF EmptyResult
    <3>2. plan = NoPlan BY <1>2, <2>1, <3>1 DEF PInv, Scan
    <3> QED BY <1>2, <2>1, <3>2 DEF PInv, Scan, Headers
  <2>2. CASE BuildPlan
    <3>1. /\ disk' = disk /\ orig' = orig /\ scan' = scan
          /\ \E m \in DOMAIN scan.maps : plan' = apa_forensic_build_repair_plan(scan, m)
      BY <2>2 DEF BuildPlan
    <3> QED BY <1>2, <3>1 DEF PInv, Headers
  <2>3. CASE UNCHANGED forensicVars BY <1>2, <2>3 DEF PInv, Headers, forensicVars
  <2> QED BY <1>2, <2>1, <2>2, <2>3 DEF PlannerNext
<1> QED BY <1>1, <1>2, PTL DEF PlannerSpec

\* A plan with patches comes from a scan of the disk that did not overflow.
LEMMA PlanScan ==
  ASSUME PInv, plan.patches # <<>>
  PROVE  /\ scan = apa_forensic_scan(disk) /\ ~scan.truncated
         /\ \E m \in DOMAIN scan.maps : /\ scan.maps[m].repairable
                                        /\ plan = apa_forensic_build_repair_plan(scan, m)
<1>1. plan # NoPlan BY DEF NoPlan
<1>2. PICK m \in DOMAIN scan.maps : plan = apa_forensic_build_repair_plan(scan, m)
  BY <1>1 DEF PInv
<1>3. scan # EmptyResult
  <2>1. DOMAIN EmptyResult.maps = {} BY DEF EmptyResult
  <2> QED BY <1>2, <2>1
<1>4. scan = apa_forensic_scan(disk) BY <1>3 DEF PInv
<1>5. ASSUME scan.truncated \/ ~scan.maps[m].repairable PROVE FALSE
  <2>1. plan = [NoPlan EXCEPT !.map = m] BY <1>2, <1>5 DEF apa_forensic_build_repair_plan
  <2>2. plan.patches = <<>> BY <2>1 DEF NoPlan
  <2> QED BY <2>2
<1> QED BY <1>2, <1>4, <1>5

\* The evidence of a sound header, whatever its id and type.
Sure == {"MAGIC", "SELF_START", "CHECKSUM", "LENGTH", "NSUB"}

\* A sound header is taken from the grid and from a reference, and is followed.
LEMMA SoundHeader ==
  ASSUME NEW d, NEW lba \in DOMAIN d, Sound(d[lba], lba), lba \in Nat
  PROVE  /\ Read(d, lba) = d[lba] /\ lba < Total /\ Conf(d[lba], lba) >= 60
         /\ Sure \subseteq Full(d[lba], lba)
         /\ \A source \in Sources : Accepts(d, lba, source)
         /\ Cand(d, lba)
<1> DEFINE h == d[lba]
<1>1. Read(d, lba) = h BY DEF Read
<1>2. /\ h \in Header /\ h.magic /\ h.start = lba /\ h.length >= 2
      /\ h.start + h.length <= Total /\ Len(h.subs) <= MaxSubs
      /\ h.sum = apa_checksum(h)
  BY DEF Sound
<1>3. h.length \in Nat /\ h # Unreadable BY <1>2, UnreadableAssumption DEF Header
<1> HIDE DEF h
<1>4. Total \in Nat /\ lba < Total /\ Total - lba >= 2 BY <1>2, <1>3, ForensicConstants
<1>5. /\ "MAGIC" \in Full(h, lba) /\ "SELF_START" \in Full(h, lba)
      /\ "CHECKSUM" \in Full(h, lba) /\ "LENGTH" \in Full(h, lba) /\ "NSUB" \in Full(h, lba)
  BY <1>2, <1>3, <1>4, FullEvidence
<1>6. Sure \subseteq Full(h, lba) BY <1>5 DEF Sure
<1>7. Conf(h, lba) >= 60 /\ Conf(h, lba) \in Nat BY <1>5, Confidences
<1>8. \A source \in Sources : Accepts(d, lba, source)
  BY <1>1, <1>2, <1>3, <1>4, <1>7 DEF Accepts
<1>9. Cand(d, lba) BY <1>1, <1>5, <1>7 DEF Cand
<1> QED BY <1>1, <1>4, <1>6, <1>7, <1>8, <1>9 DEF h

\* No part of the chain that hangs together is left out of a scan a ring is written
\* from: a scan that did not run out of slots holds every intact header on the grid
\* and every intact neighbour of an intact header it holds.
THEOREM ChainComplete == PlannerSpec => []NoPartOfTheChainCutOff
<1>1. PInv => NoPartOfTheChainCutOff
  <2> SUFFICES ASSUME PInv, plan.patches # <<>>,
                      NEW lba \in DOMAIN orig, disk[lba] = orig[lba],
                      \/ lba % ScanStep = 0
                      \/ \E o \in DOMAIN orig : /\ disk[o] = orig[o] /\ o \in Lbas(scan)
                                                /\ lba \in {disk[o].next, disk[o].prev}
               PROVE  lba \in Lbas(scan)
    BY DEF NoPartOfTheChainCutOff
  <2>1. scan = apa_forensic_scan(disk) /\ ~scan.truncated BY PlanScan
  <2>2. Headers(disk) /\ DOMAIN disk = DOMAIN orig /\ orig \in Layouts BY DEF PInv
  <2> DEFINE t == Pool(disk)
  <2>3. ~t.truncated /\ Lbas(scan) = Lbas(t) BY <2>1, <2>2, ScanNodes
  <2>4. Complete(disk, t) BY <2>2, <2>3, Discovery DEF Pool
  <2>5. /\ \A o \in DOMAIN orig : Sound(orig[o], o)
        /\ DOMAIN orig \subseteq 0..(Total - 1)
    BY <2>2, LayoutAssumption DEF Healthy
  <2>6. \A o \in DOMAIN orig : o \in Nat BY <2>5, ForensicConstants
  <2>7. /\ lba < Total /\ Accepts(disk, lba, "GRID") /\ Accepts(disk, lba, "REFERENCED")
    BY <2>2, <2>5, <2>6, SoundHeader DEF Sources
  <2>8. CASE lba % ScanStep = 0
    <3>1. OnGrid(lba) BY <2>6, <2>7, <2>8, GridSamples
    <3> QED BY <2>3, <2>4, <2>7, <3>1 DEF Seed, Complete
  <2>9. CASE lba % ScanStep # 0
    <3>1. PICK o \in DOMAIN orig : /\ disk[o] = orig[o] /\ o \in Lbas(scan)
                                   /\ lba \in {disk[o].next, disk[o].prev}
      BY <2>9
    <3>2. lba # 0
      <4>1. 0 % ScanStep = 0 BY ForensicConstants
      <4> QED BY <2>9, <4>1
    <3>3. Cand(disk, o) /\ Read(disk, o) = disk[o] BY <2>2, <2>5, <2>6, <3>1, SoundHeader
    <3>4. lba \in Refs(disk, o) BY <3>1, <3>3 DEF Refs
    <3>5. Names(disk, o, lba) BY <2>7, <3>2, <3>3, <3>4 DEF Names
    <3> QED BY <2>3, <2>4, <3>1, <3>5 DEF Complete, Done
  <2> QED BY <2>8, <2>9
<1> QED BY <1>1, PlannerInvariance, PTL
-----------------------------------------------------------------------------
(* The orders the three methods list.                                      *)

\* What the methods need of a table: few LBAs, each with a header.
Pooled(r) ==
    /\ Lbas(r) \in SUBSET Nat /\ IsFiniteSet(Lbas(r)) /\ Cardinality(Lbas(r)) <= MaxNodes
    /\ \A x \in Lbas(r) : NodeAt(r, x).header \in Header

\* A table has as many LBAs as nodes.
LEMMA TableCardinality ==
  ASSUME NEW d, NEW r, Table(d, r)
  PROVE  Cardinality(Lbas(r)) = Len(r.nodes) /\ Pooled(r)
<1> DEFINE n == Len(r.nodes)
           f == [i \in 1..n |-> r.nodes[i].lba]
<1>1. n \in Nat /\ DOMAIN r.nodes = 1..n /\ Lbas(r) \in SUBSET Nat BY TableFacts
<1>2. \A i, j \in 1..n : r.nodes[i].lba = r.nodes[j].lba => i = j BY <1>1 DEF Table
<1>3. Lbas(r) = {r.nodes[i].lba : i \in 1..n} BY <1>1 DEF Lbas
<1> HIDE DEF n
<1>4. f \in [1..n -> Lbas(r)] BY <1>3
<1>5. \A i, j \in 1..n : f[i] = f[j] => i = j BY <1>2
<1>6. \A x \in Lbas(r) : \E i \in 1..n : f[i] = x BY <1>3
<1> HIDE DEF f
<1>7. f \in Bijection(1..n, Lbas(r))
  BY <1>4, <1>5, <1>6 DEF Bijection, Injection, Surjection, IsInjective
<1>8. ExistsBijection(1..n, Lbas(r)) BY <1>7 DEF ExistsBijection
<1>9. IsFiniteSet(1..n) /\ Cardinality(1..n) = n BY <1>1, FS_Interval
<1>10. IsFiniteSet(Lbas(r)) /\ Cardinality(Lbas(r)) = n BY <1>8, <1>9, FS_Bijection
<1>11. n <= MaxNodes BY DEF Table, n
<1>12. \A x \in Lbas(r) : NodeAt(r, x).header \in Header BY TableFacts
<1> QED BY <1>1, <1>10, <1>11, <1>12 DEF Pooled, n

\* The headers outside ex that name lba in this link.
Pointing(r, ex, lba, link) ==
    {c \in Lbas(r) \ ex : /\ NodeAt(r, c).confidence >= 55
                          /\ NodeAt(r, c).header[link] = lba}

\* A candidate is the only header that fits.
LEMMA LinkCandidate ==
  ASSUME NEW r, Pooled(r), NEW ex, NEW lba, NEW link
  PROVE  LET c == unique_link_candidate(r, ex, lba, link)
         IN  \/ Pointing(r, ex, lba, link) = {c}
             \/ c = None /\ ~\E x : Pointing(r, ex, lba, link) = {x}
<1> DEFINE found == Pointing(r, ex, lba, link)
<1>1. unique_link_candidate(r, ex, lba, link) =
         IF Cardinality(found) = 1 THEN CHOOSE c \in found : TRUE ELSE None
  BY DEF unique_link_candidate, Pointing
<1>2. found \in SUBSET Lbas(r) /\ IsFiniteSet(Lbas(r)) BY DEF Pointing, Pooled
<1>3. IsFiniteSet(found) BY <1>2, FS_Subset
<1>4. Cardinality(found) = 1 <=> \E x : found = {x} BY <1>3, FS_Singleton
<1> HIDE DEF found
<1>5. ASSUME NEW x, found = {x} PROVE (CHOOSE c \in found : TRUE) = x BY <1>5
<1> QED BY <1>1, <1>4, <1>5 DEF found

\* A list of headers, each once.
Listed(r, o) ==
    /\ o \in Seq(Lbas(r)) /\ Len(o) \in Nat /\ DOMAIN o = 1..Len(o)
    /\ \A i, j \in 1..Len(o) : o[i] = o[j] => i = j

\* One header more.
LEMMA ListAppended ==
  ASSUME NEW r, NEW o, Listed(r, o), NEW x \in Lbas(r), x \notin Range(o)
  PROVE  LET t == Append(o, x)
         IN  /\ Listed(r, t) /\ Len(t) = Len(o) + 1 /\ t[Len(t)] = x /\ Last(t) = x
             /\ \A i \in 1..Len(o) : t[i] = o[i]
             /\ Range(t) = Range(o) \cup {x}
<1> DEFINE K == Lbas(r)
<1>1. PICK t : t = Append(o, x) OBVIOUS
<1>2. o \in Seq(K) /\ Len(o) \in Nat /\ DOMAIN o = 1..Len(o) BY DEF Listed
<1>3. /\ t \in Seq(K) /\ Len(t) = Len(o) + 1 /\ t[Len(o) + 1] = x
      /\ \A i \in 1..Len(o) : t[i] = o[i]
  BY <1>1, <1>2
<1>4. DOMAIN t = 1..(Len(o) + 1) BY <1>3
<1>5. \A i \in DOMAIN t : i \in 1..Len(o) \/ i = Len(o) + 1 BY <1>2, <1>4
<1>6. 1..Len(o) \subseteq DOMAIN t /\ Len(o) + 1 \in DOMAIN t BY <1>2, <1>4
<1>7. \A i \in 1..Len(o) : o[i] # x BY <1>2 DEF Range
<1>8. \A i, j \in DOMAIN t : t[i] = t[j] => i = j
  <2> TAKE i, j \in DOMAIN t
  <2>1. \A a, b \in 1..Len(o) : o[a] = o[b] => a = b BY DEF Listed
  <2> QED BY <1>3, <1>5, <1>7, <2>1
<1>9. Listed(r, t) BY <1>2, <1>3, <1>4, <1>8 DEF Listed
<1>10. Range(t) = Range(o) \cup {x} BY <1>2, <1>3, <1>4, <1>5, <1>6 DEF Range
<1>11. Last(t) = x BY <1>3 DEF Last
<1> QED BY <1>1, <1>3, <1>9, <1>10, <1>11

\* The walk along next never takes a header twice.
LEMMA ForwardNew ==
  ASSUME NEW r, Pooled(r), NEW o
  PROVE  ForwardStep(r, o) = None \/ ForwardStep(r, o) \in Lbas(r) \ Range(o)
<1> DEFINE current == Last(o)
           next == NodeAt(r, current).header.next
           other == unique_link_candidate(r, Range(o), current, "prev")
<1>1. other = None \/ other \in Pointing(r, Range(o), current, "prev") BY LinkCandidate
<1>2. other = None \/ other \in Lbas(r) \ Range(o) BY <1>1 DEF Pointing
<1> HIDE DEF other
<1>3. ForwardStep(r, o) \in {None, other}
      \/ (ForwardStep(r, o) = next /\ next \in Lbas(r) \ Range(o))
  BY DEF ForwardStep, other
<1> QED BY <1>2, <1>3

\* The forward map: each header once, the master first.
LEMMA ForwardOrder ==
  ASSUME NEW r, Pooled(r), 0 \in Lbas(r)
  PROVE  LET o == build_forward_map(r)
         IN  Listed(r, o) /\ Len(o) \in 1..MaxNodes /\ o[1] = 0
<1> DEFINE n == MaxNodes - 1
<1>0. PICK F : /\ Chain("forward", r, <<0>>, [i \in 1..n |-> i], n, F)
               /\ F[n] = build_forward_map(r)
  BY ForwardLoop
<1>1. /\ F[0] = <<0>> /\ F[n] = build_forward_map(r)
      /\ \A i \in 1..n : F[i] = extend_forward(r, F[i - 1])
  BY <1>0 DEF Chain, Loop
<1>2. n \in Nat /\ MaxNodes \in Nat BY ForensicConstants
<1> HIDE DEF n
<1> DEFINE P(i) == Listed(r, F[i]) /\ Len(F[i]) \in 1..(i + 1) /\ F[i][1] = 0
           G == {i \in 0..n : P(i)}
<1>3. P(0)
  <2>1. /\ <<0>> \in Seq(Lbas(r)) /\ Len(<<0>>) = 1 /\ DOMAIN <<0>> = 1..1 /\ <<0>>[1] = 0
    OBVIOUS
  <2> QED BY <1>1, <2>1 DEF Listed
<1>4. ASSUME NEW i \in 1..n, P(i - 1) PROVE P(i)
  <2>0. PICK s, t : s = F[i - 1] /\ t = F[i] OBVIOUS
  <2>1. t = extend_forward(r, s) BY <1>1, <2>0
  <2>2. Listed(r, s) /\ Len(s) \in 1..i /\ s[1] = 0 BY <1>2, <1>4, <2>0
  <2>3. CASE ForwardStep(r, s) = None
    <3>1. t = s BY <2>1, <2>3 DEF extend_forward
    <3> QED BY <1>2, <2>0, <2>2, <3>1
  <2>4. CASE ForwardStep(r, s) # None
    <3> DEFINE x == ForwardStep(r, s)
    <3>1. x \in Lbas(r) \ Range(s) BY <2>4, ForwardNew
    <3>2. t = Append(s, x) BY <2>1, <2>4 DEF extend_forward
    <3> HIDE DEF x
    <3>3. /\ Listed(r, t) /\ Len(t) = Len(s) + 1 /\ \A k \in 1..Len(s) : t[k] = s[k]
      BY <2>2, <3>1, <3>2, ListAppended
    <3> QED BY <1>2, <2>0, <2>2, <3>3
  <2> QED BY <2>3, <2>4
<1>5. 0 \in G /\ \A i \in 1..n : i - 1 \in G => i \in G
  <2>1. \A i \in 1..n : P(i - 1) => P(i) BY <1>4
  <2>2. 0 \in 0..n /\ \A i \in 1..n : i \in 0..n BY <1>2
  <2> HIDE DEF P
  <2> QED BY <1>3, <2>1, <2>2
<1>6. n \in G
  <2> HIDE DEF G
  <2>1. n \in 0..n BY <1>2
  <2> QED BY <1>2, <1>5, <2>1, UpTo
<1>7. P(n) /\ n + 1 = MaxNodes BY <1>2, <1>6 DEF n
<1> QED BY <1>1, <1>7

\* The geometry map.
LEMMA GeometryOrder ==
  ASSUME NEW r, Pooled(r)
  PROVE  LET o == build_geometry_map(r)
         IN  Listed(r, o) /\ Len(o) \in 0..MaxNodes
<1> DEFINE S == {lba \in Lbas(r) \ r.dormant :
                   \/ lba = 0
                   \/ /\ NodeAt(r, lba).confidence >= 50
                      /\ {"SELF_START", "LENGTH"} \subseteq NodeAt(r, lba).evidence}
<1>1. build_geometry_map(r) = sort_by_lba(S) BY DEF build_geometry_map
<1>2. S \in SUBSET Lbas(r) OBVIOUS
<1> HIDE DEF S
<1>3. S \in SUBSET Nat /\ IsFiniteSet(S) /\ Cardinality(S) <= Cardinality(Lbas(r))
  BY <1>2, FS_Subset DEF Pooled
<1>4. Cardinality(Lbas(r)) \in Nat /\ Cardinality(Lbas(r)) <= MaxNodes /\ MaxNodes \in Nat
  BY FS_CardinalityType, ForensicConstants DEF Pooled
<1>5. PICK s : s = sort_by_lba(S) OBVIOUS
<1>6. /\ Cardinality(S) \in Nat /\ s \in Seq(S) /\ Len(s) = Cardinality(S)
      /\ DOMAIN s = 1..Cardinality(S)
      /\ \A i, j \in 1..Len(s) : s[i] = s[j] => i = j
  BY <1>3, <1>5, SortedOnto
<1>7. s \in Seq(Lbas(r)) BY <1>2, <1>6
<1> QED BY <1>1, <1>3, <1>4, <1>5, <1>6, <1>7 DEF Listed
\* A state of the walk along prev: headers once each, the first one the tail; the
\* master, once taken, is the last, and it was taken for naming the one before it.
Walking(r, w) ==
    /\ Listed(r, w.order)
    /\ w.current = None \/ w.current \in Lbas(r)
    /\ w.order = <<>> => w.current = ReverseTail(r)
    /\ Len(w.order) > 0 => w.order[1] = ReverseTail(r)
    /\ \A i \in 1..Len(w.order) :
          w.order[i] = 0 =>
              /\ i = Len(w.order)
              /\ w.current = None \/ w.current \in Range(w.order)
              /\ Len(w.order) > 1 => NodeAt(r, 0).header.next = w.order[Len(w.order) - 1]
    /\ w.current = 0 /\ Len(w.order) > 0 /\ 0 \notin Range(w.order) =>
          NodeAt(r, 0).header.next = w.order[Len(w.order)]

\* Behind the master the walk finds nothing new: whatever led it to the tail leads it
\* there again.
LEMMA MasterEndsWalk ==
  ASSUME NEW r, Pooled(r), NEW o, o # <<>>, ReverseTail(r) \in Range(o),
         ReverseTail(r) \in Lbas(r), Last(o) = 0
  PROVE  ReverseStep(r, o) = None \/ ReverseStep(r, o) \in Range(o)
<1> DEFINE prev == NodeAt(r, 0).header.prev
           first == unique_link_candidate(r, {}, 0, "next")
           other == unique_link_candidate(r, Range(o), 0, "next")
<1>1. ReverseTail(r) = IF prev # 0 /\ prev \in Lbas(r) THEN prev ELSE first
  BY DEF ReverseTail
<1>2. ReverseStep(r, o) = IF prev = 0 THEN None ELSE IF prev \in Lbas(r) THEN prev ELSE other
  BY DEF ReverseStep
<1>3. \/ Pointing(r, {}, 0, "next") = {first}
      \/ first = None /\ ~\E x : Pointing(r, {}, 0, "next") = {x}
  BY LinkCandidate
<1>4. \/ Pointing(r, Range(o), 0, "next") = {other}
      \/ other = None /\ ~\E x : Pointing(r, Range(o), 0, "next") = {x}
  BY LinkCandidate
<1> HIDE DEF first, other, prev
<1>5. ASSUME ReverseTail(r) = first, other # None PROVE FALSE
  <2>1. first # None
    <3>1. None \notin Nat BY DEF None
    <3> QED BY <1>5, <3>1 DEF Pooled
  <2>2. Pointing(r, {}, 0, "next") = {first} BY <1>3, <2>1
  <2>3. Pointing(r, Range(o), 0, "next") = {other} BY <1>4, <1>5
  <2>4. other \in Pointing(r, {}, 0, "next") /\ other \notin Range(o)
    BY <2>3 DEF Pointing
  <2>5. other = first BY <2>2, <2>4
  <2> QED BY <1>5, <2>4, <2>5
<1> QED BY <1>1, <1>2, <1>5

\* The walk along prev.
LEMMA ReverseOrder ==
  ASSUME NEW r, Pooled(r), 0 \in Lbas(r)
  PROVE  Walking(r, ReverseWalk(r)) /\ Len(ReverseWalk(r).order) \in 0..(MaxNodes - 1)
<1> DEFINE n == MaxNodes - 1
           W0 == [order |-> <<>>, current |-> ReverseTail(r)]
<1>0. PICK F : /\ Chain("reverse", r, W0, [i \in 1..n |-> i], n, F)
               /\ F[n] = ReverseWalk(r)
  BY ReverseLoop
<1>1. /\ F[0] = W0 /\ F[n] = ReverseWalk(r)
      /\ \A i \in 1..n : F[i] = extend_reverse(r, F[i - 1])
  BY <1>0 DEF Chain, Loop
<1>2. n \in Nat /\ MaxNodes \in Nat BY ForensicConstants
<1> HIDE DEF n
<1> DEFINE P(i) == Walking(r, F[i]) /\ Len(F[i].order) \in 0..i
           G == {i \in 0..n : P(i)}
<1>a. None # 0 /\ None \notin Lbas(r)
  <2>1. None \notin Nat BY DEF None
  <2> QED BY <2>1 DEF Pooled
<1>3. P(0)
  <2>1. /\ <<>> \in Seq(Lbas(r)) /\ Len(<<>>) = 0 /\ DOMAIN <<>> = 1..0
    OBVIOUS
  <2>2. W0.order = <<>> /\ W0.current = ReverseTail(r) OBVIOUS
  <2>3. ReverseTail(r) = None \/ ReverseTail(r) \in Lbas(r)
    <3> DEFINE first == unique_link_candidate(r, {}, 0, "next")
    <3>1. first = None \/ first \in Pointing(r, {}, 0, "next") BY LinkCandidate
    <3>2. first = None \/ first \in Lbas(r) BY <3>1 DEF Pointing
    <3> HIDE DEF first
    <3> QED BY <3>2 DEF ReverseTail, first
  <2> HIDE DEF W0
  <2>4. Listed(r, <<>>) BY <2>1 DEF Listed
  <2>5. Walking(r, W0) BY <2>1, <2>2, <2>3, <2>4 DEF Walking
  <2> QED BY <1>1, <2>1, <2>2, <2>5
<1>4. ASSUME NEW i \in 1..n, P(i - 1) PROVE P(i)
  <2>0. PICK w, v : w = F[i - 1] /\ v = F[i] OBVIOUS
  <2>1. v = extend_reverse(r, w) BY <1>1, <2>0
  <2>2. Walking(r, w) /\ Len(w.order) \in 0..(i - 1) BY <1>4, <2>0
  <2>3. CASE w.current = None \/ w.current \in Range(w.order)
    <3>1. v = w BY <2>1, <2>3 DEF extend_reverse
    <3> QED BY <1>2, <2>0, <2>2, <3>1
  <2>4. CASE ~(w.current = None \/ w.current \in Range(w.order))
    <3>0. PICK o, c : o = Append(w.order, w.current) /\ c = ReverseStep(r, o) OBVIOUS
    <3>1. v = [order |-> o, current |-> c] BY <2>1, <2>4, <3>0 DEF extend_reverse
    <3>2. v.order = o /\ v.current = c BY <3>1
    <3>3. Listed(r, w.order) /\ w.current \in Lbas(r) /\ w.current \notin Range(w.order)
      BY <2>2, <2>4 DEF Walking
    <3>4. /\ Listed(r, o) /\ Len(o) = Len(w.order) + 1 /\ o[Len(o)] = w.current
          /\ Last(o) = w.current /\ \A k \in 1..Len(w.order) : o[k] = w.order[k]
          /\ Range(o) = Range(w.order) \cup {w.current}
      BY <3>0, <3>3, ListAppended
    <3>5. Len(w.order) \in Nat /\ DOMAIN w.order = 1..Len(w.order) BY <3>3 DEF Listed
    <3>6. 0 \notin Range(w.order)
      <4> SUFFICES ASSUME 0 \in Range(w.order) PROVE FALSE
        OBVIOUS
      <4>1. PICK k \in 1..Len(w.order) : w.order[k] = 0 BY <3>5 DEF Range
      <4> QED BY <2>2, <2>4, <4>1 DEF Walking
    <3>7. o[1] = ReverseTail(r)
      <4>1. CASE w.order = <<>> BY <2>2, <3>4, <4>1 DEF Walking
      <4>2. CASE w.order # <<>>
        <5>1. Len(w.order) > 0
          <6>1. w.order \in Seq(Lbas(r)) BY <3>3 DEF Listed
          <6> QED BY <4>2, <6>1
        <5> QED BY <2>2, <3>4, <3>5, <5>1 DEF Walking
      <4> QED BY <4>1, <4>2
    <3>8. o # <<>> /\ 1 \in DOMAIN o /\ DOMAIN o = 1..Len(o)
      BY <3>4, <3>5 DEF Listed
    <3>9. ReverseTail(r) \in Range(o) /\ ReverseTail(r) \in Lbas(r)
      <4>1. o \in Seq(Lbas(r)) BY <3>4 DEF Listed
      <4>2. o[1] \in Lbas(r) BY <3>8, <4>1
      <4> QED BY <3>7, <3>8, <4>2 DEF Range
    <3>10. w.current = 0 => c = None \/ c \in Range(o)
      BY <3>0, <3>4, <3>8, <3>9, MasterEndsWalk
    <3> DEFINE prev == NodeAt(r, Last(o)).header.prev
               other == unique_link_candidate(r, Range(o), Last(o), "next")
    <3>11. c = IF prev = 0 THEN None ELSE IF prev \in Lbas(r) THEN prev ELSE other
      BY <3>0 DEF ReverseStep
    <3>12. \/ Pointing(r, Range(o), Last(o), "next") = {other}
           \/ other = None
      BY LinkCandidate
    <3> HIDE DEF prev, other
    <3>13. other = None \/ (other \in Lbas(r) /\ NodeAt(r, other).header.next = Last(o))
      BY <3>12 DEF Pointing
    <3>14. c = None \/ c \in Lbas(r) BY <3>11, <3>13
    <3>15. c = 0 => NodeAt(r, 0).header.next = w.current BY <1>a, <3>4, <3>11, <3>13
    <3>16. \A k \in 1..Len(o) : o[k] = 0 => k = Len(o) /\ w.current = 0
      <4> TAKE k \in 1..Len(o)
      <4>1. k \in 1..Len(w.order) \/ k = Len(o) BY <3>4, <3>5
      <4>2. k \in 1..Len(w.order) => o[k] # 0 BY <3>4, <3>5, <3>6 DEF Range
      <4> QED BY <3>4, <4>1, <4>2
    <3>17. w.current = 0 /\ Len(o) > 1 => NodeAt(r, 0).header.next = o[Len(o) - 1]
      <4> SUFFICES ASSUME w.current = 0, Len(o) > 1
                   PROVE  NodeAt(r, 0).header.next = o[Len(o) - 1]
        OBVIOUS
      <4>1. Len(w.order) > 0 /\ Len(o) - 1 = Len(w.order) BY <3>4, <3>5
      <4>2. NodeAt(r, 0).header.next = w.order[Len(w.order)]
        BY <2>2, <3>6, <4>1 DEF Walking
      <4>3. Len(w.order) \in 1..Len(w.order) BY <3>5, <4>1
      <4> QED BY <3>4, <4>1, <4>2, <4>3
    <3>18. Walking(r, v)
      BY <3>2, <3>4, <3>7, <3>8, <3>10, <3>14, <3>15, <3>16, <3>17 DEF Walking
    <3>19. Len(v.order) \in 0..i BY <1>2, <2>2, <3>2, <3>4, <3>5
    <3> QED BY <2>0, <3>18, <3>19
  <2> QED BY <2>3, <2>4
<1>5. 0 \in G /\ \A i \in 1..n : i - 1 \in G => i \in G
  <2>1. \A i \in 1..n : P(i - 1) => P(i) BY <1>4
  <2>2. 0 \in 0..n /\ \A i \in 1..n : i \in 0..n BY <1>2
  <2> HIDE DEF P
  <2> QED BY <1>3, <2>1, <2>2
<1>6. n \in G
  <2> HIDE DEF G
  <2>1. n \in 0..n BY <1>2
  <2> QED BY <1>2, <1>5, <2>1, UpTo
<1>7. P(n) BY <1>6
<1> QED BY <1>1, <1>7 DEF n

\* The reverse map: the master in front of what the walk found, the tail last.
LEMMA ReverseList ==
  ASSUME NEW r, Pooled(r), 0 \in Lbas(r)
  PROVE  LET o == build_reverse_map(r)
             w == ReverseWalk(r).order
         IN  /\ o \in Seq(Lbas(r)) /\ Len(o) = Len(w) + 1 /\ o[1] = 0
             /\ \A i \in 1..Len(w) : o[i + 1] = w[Len(w) + 1 - i]
<1> DEFINE K == Lbas(r)
<1>1. PICK o, w : o = build_reverse_map(r) /\ w = ReverseWalk(r).order OBVIOUS
<1>2. o = <<0>> \o Reverse(w) BY <1>1 DEF build_reverse_map
<1>3. w \in Seq(K) /\ Len(w) \in Nat /\ DOMAIN w = 1..Len(w)
  BY <1>1, ReverseOrder DEF Walking, Listed
<1> DEFINE v == Reverse(w)
<1>4. v = [i \in 1..Len(w) |-> w[(Len(w) - i) + 1]] BY DEF Reverse
<1> HIDE DEF v
<1>5. v \in Seq(K) /\ Len(v) = Len(w)
  <2>1. \A i \in 1..Len(w) : (Len(w) - i) + 1 \in 1..Len(w) BY <1>3
  <2>2. \A i \in 1..Len(w) : w[(Len(w) - i) + 1] \in K BY <1>3, <2>1
  <2> QED BY <1>3, <1>4, <2>2
<1>6. <<0>> \in Seq(K) /\ Len(<<0>>) = 1 /\ <<0>>[1] = 0 OBVIOUS
<1> DEFINE one == <<0>>
<1> HIDE DEF K
<1>7. /\ o \in Seq(K) /\ Len(o) = 1 + Len(w)
      /\ \A i \in 1..(1 + Len(w)) : o[i] = IF i <= 1 THEN one[i] ELSE v[i - 1]
  <2>1. one \in Seq(K) /\ Len(one) = 1 /\ o = one \o v BY <1>2, <1>6 DEF v
  <2> HIDE DEF one
  <2>2. o \in Seq(K) /\ Len(o) = Len(one) + Len(v) BY <1>5, <2>1, ConcatProperties
  <2>3. \A i \in 1..(Len(one) + Len(v)) :
           o[i] = IF i <= Len(one) THEN one[i] ELSE v[i - Len(one)]
    <3>1. one \in Seq(K) /\ v \in Seq(K) BY <1>5, <2>1
    <3>2. \A i \in 1..(Len(one) + Len(v)) :
             (one \o v)[i] = IF i <= Len(one) THEN one[i] ELSE v[i - Len(one)]
      BY <3>1, ConcatProperties, Zenon
    <3> QED BY <2>1, <3>2, Zenon
  <2> QED BY <1>5, <2>1, <2>2, <2>3
<1>8. o[1] = 0 BY <1>3, <1>6, <1>7
<1>9. \A i \in 1..Len(w) : o[i + 1] = w[Len(w) + 1 - i]
  <2> TAKE i \in 1..Len(w)
  <2>1. i + 1 \in 1..(1 + Len(w)) /\ ~(i + 1 <= 1) /\ (i + 1) - 1 = i
        /\ (Len(w) - i) + 1 = Len(w) + 1 - i
    BY <1>3
  <2>2. o[i + 1] = v[i] BY <1>7, <2>1
  <2> QED BY <1>4, <2>1, <2>2
<1> QED BY <1>1, <1>3, <1>7, <1>8, <1>9 DEF K

\* Each header once, but for the master, which may come twice at the front.
LEMMA ReverseShape ==
  ASSUME NEW r, Pooled(r), 0 \in Lbas(r)
  PROVE  LET o == build_reverse_map(r)
         IN  /\ Len(o) \in 1..MaxNodes /\ o[1] = 0
             /\ \/ Listed(r, o)
                \/ /\ Listed(r, <<0>>) /\ o = <<0, 0>>
                   /\ ReverseTail(r) = 0 /\ MaxNodes >= 2
                \/ /\ Len(o) >= 3 /\ o[2] = 0 /\ o[3] \in Lbas(r) \ {0}
                   /\ NodeAt(r, 0).header.next = o[3]
<1>1. PICK o, w : o = build_reverse_map(r) /\ w = ReverseWalk(r).order OBVIOUS
<1> DEFINE n == Len(w)
<1>2. /\ o \in Seq(Lbas(r)) /\ Len(o) = n + 1 /\ o[1] = 0
      /\ \A i \in 1..n : o[i + 1] = w[n + 1 - i]
  BY <1>1, ReverseList
<1>3. Walking(r, ReverseWalk(r)) /\ n \in 0..(MaxNodes - 1) BY <1>1, ReverseOrder
<1>4. /\ w \in Seq(Lbas(r)) /\ n \in Nat /\ DOMAIN w = 1..n
      /\ \A i, j \in 1..n : w[i] = w[j] => i = j
      /\ n > 0 => w[1] = ReverseTail(r)
      /\ \A i \in 1..n : w[i] = 0 => i = n /\ (n > 1 => NodeAt(r, 0).header.next = w[n - 1])
  <2>1. PICK k : k = ReverseWalk(r) OBVIOUS
  <2>2. Walking(r, k) /\ w = k.order BY <1>1, <1>3, <2>1
  <2>3. Listed(r, w) BY <2>2 DEF Walking
  <2>4. /\ n > 0 => w[1] = ReverseTail(r)
        /\ \A i \in 1..n : w[i] = 0 => i = n /\ (n > 1 => NodeAt(r, 0).header.next = w[n - 1])
    BY <2>2, Zenon DEF Walking
  <2>5. /\ w \in Seq(Lbas(r)) /\ n \in Nat /\ DOMAIN w = 1..n
        /\ \A i, j \in 1..n : w[i] = w[j] => i = j
    BY <2>3 DEF Listed
  <2> QED BY <2>4, <2>5
<1>5. MaxNodes \in Nat /\ DOMAIN o = 1..(n + 1)
  <2>1. MaxNodes \in Nat BY ForensicConstants
  <2>2. DOMAIN o = 1..Len(o) BY <1>2
  <2> HIDE DEF n
  <2> QED BY <1>2, <2>1, <2>2
<1> HIDE DEF n
<1>6. \A i \in 1..(n + 1) : i = 1 \/ (i - 1 \in 1..n /\ n + 2 - i \in 1..n
                                       /\ o[i] = w[n + 2 - i])
  <2> TAKE i \in 1..(n + 1)
  <2>1. i # 1 => i - 1 \in 1..n /\ n + 2 - i \in 1..n /\ (i - 1) + 1 = i
                 /\ n + 1 - (i - 1) = n + 2 - i
    BY <1>4
  <2>2. i # 1 => o[(i - 1) + 1] = w[n + 1 - (i - 1)] BY <1>2, <2>1
  <2> QED BY <2>1, <2>2
<1>7. Len(o) \in 1..MaxNodes BY <1>2, <1>3, <1>5
<1>8. CASE \A i \in 1..n : w[i] # 0
  <2>1. \A i, j \in 1..(n + 1) : o[i] = o[j] => i = j
    <3> TAKE i, j \in 1..(n + 1)
    <3>1. i # 1 => o[i] # 0 BY <1>6, <1>8
    <3>2. j # 1 => o[j] # 0 BY <1>6, <1>8
    <3>3. i # 1 /\ j # 1 /\ o[i] = o[j] => n + 2 - i = n + 2 - j BY <1>4, <1>6
    <3> QED BY <1>2, <1>4, <3>1, <3>2, <3>3
  <2>2. Listed(r, o) BY <1>2, <1>4, <1>5, <2>1 DEF Listed
  <2> QED BY <1>1, <1>2, <1>7, <2>2
<1>9. CASE \E i \in 1..n : w[i] = 0
  <2>1. n > 0 /\ w[n] = 0 /\ (n > 1 => NodeAt(r, 0).header.next = w[n - 1])
    BY <1>4, <1>9
  <2>2. o[2] = 0
    <3>1. 2 \in 1..(n + 1) /\ n + 2 - 2 = n BY <1>4, <2>1
    <3>2. o[2] = w[n + 2 - 2] BY <1>6, <3>1
    <3> QED BY <2>1, <3>1, <3>2
  <2>3. CASE n = 1
    <3>1. ReverseTail(r) = 0 /\ MaxNodes >= 2 BY <1>3, <1>4, <1>5, <2>1, <2>3
    <3>2. o = <<0, 0>>
      <4>1. PICK two : two = <<0, 0>> OBVIOUS
      <4>2. two \in Seq(Lbas(r)) /\ Len(two) = 2 /\ two[1] = 0 /\ two[2] = 0 BY <4>1
      <4>3. Len(o) = 2 BY <1>2, <2>3
      <4>4. \A i \in 1..Len(o) : o[i] = two[i]
        <5>1. \A i \in 1..Len(o) : i = 1 \/ i = 2 BY <4>3
        <5> QED BY <1>2, <2>2, <4>2, <5>1
      <4>5. o = two BY <1>2, <4>2, <4>3, <4>4, SeqEqual
      <4> QED BY <4>1, <4>5
    <3>3. Listed(r, <<0>>)
      <4>1. <<0>> \in Seq(Lbas(r)) /\ Len(<<0>>) = 1 /\ DOMAIN <<0>> = 1..1 OBVIOUS
      <4> QED BY <4>1 DEF Listed
    <3> QED BY <1>1, <1>2, <1>7, <3>1, <3>2, <3>3
  <2>4. CASE n > 1
    <3>1. 3 \in 1..(n + 1) /\ n + 2 - 3 = n - 1 /\ n - 1 \in 1..n /\ n - 1 # n
      BY <1>4, <2>4
    <3>2. o[3] = w[n - 1] BY <1>6, <3>1
    <3>3. w[n - 1] \in Lbas(r) BY <1>4, <3>1
    <3>4. w[n - 1] # 0 BY <1>4, <3>1
    <3>5. Len(o) >= 3 BY <1>2, <1>4, <2>4
    <3> QED BY <1>1, <1>2, <1>7, <2>1, <2>2, <2>4, <3>2, <3>3, <3>4, <3>5
  <2> QED BY <1>4, <2>1, <2>3, <2>4
<1> QED BY <1>8, <1>9
-----------------------------------------------------------------------------
(* Maps, plans and what writing a plan does to the disk.                   *)

\* The table the maps are built from.
Filed(d) == classify_dormant_free_remnants(Pool(d), build_forward_map(Pool(d)))

\* It has the nodes of the scan's table.
LEMMA FiledTable ==
  ASSUME NEW d, Headers(d)
  PROVE  LET r == Filed(d)
             t == Pool(d)
         IN  /\ Lbas(r) = Lbas(t) /\ \A x : NodeAt(r, x) = NodeAt(t, x)
             /\ r.truncated = t.truncated /\ r.maps = <<>> /\ "maps" \in DOMAIN r
             /\ Pooled(r) /\ Pooled(t) /\ Found(d, t) /\ Table(d, t)
<1> DEFINE r0 == Filed(d)
           t0 == Pool(d)
<1>1. Found(d, t0) BY Discovery DEF Pool
<1>2. Table(d, t0) /\ Pooled(t0) BY <1>1, TableCardinality DEF Found
<1>3. PICK r, t : r = r0 /\ t = t0 OBVIOUS
<1>4. /\ r.nodes = t.nodes /\ r.truncated = t.truncated /\ r.maps = t.maps
      /\ DOMAIN r = DOMAIN t
  BY <1>3 DEF Filed, classify_dormant_free_remnants
<1>5. t.maps = <<>> /\ "maps" \in DOMAIN t BY <1>2, <1>3 DEF Table
<1>6. Lbas(r) = Lbas(t) BY <1>4 DEF Lbas
<1>7. \A x : NodeAt(r, x) = NodeAt(t, x) BY <1>4 DEF NodeAt, find_node
<1>8. Pooled(r) BY <1>2, <1>3, <1>6, <1>7 DEF Pooled
<1> QED BY <1>1, <1>2, <1>3, <1>4, <1>5, <1>6, <1>7, <1>8

\* A map of this order is on file.
OnFile(r, o) == \E k \in DOMAIN r.maps : r.maps[k].order = o

\* Filing a map keeps the ones on file, and puts its order on file.
LEMMA MapFiled ==
  ASSUME NEW M, NEW r, "maps" \in DOMAIN r, r.maps \in Seq(M), NEW map \in M
  PROVE  LET t == add_map_if_unique(r, map)
         IN  /\ "maps" \in DOMAIN t /\ t.maps \in Seq(M)
             /\ \A o : OnFile(r, o) => OnFile(t, o)
             /\ map.order # <<>> => OnFile(t, map.order)
<1>1. PICK t : t = add_map_if_unique(r, map) OBVIOUS
<1>2. CASE map.order = <<>> \/ OnFile(r, map.order)
  <2>1. t = r BY <1>1, <1>2 DEF add_map_if_unique, OnFile
  <2> QED BY <1>1, <1>2, <2>1
<1>3. CASE ~(map.order = <<>> \/ OnFile(r, map.order))
  <2>1. t = [r EXCEPT !.maps = Append(r.maps, map)]
    BY <1>1, <1>3 DEF add_map_if_unique, OnFile
  <2>2. "maps" \in DOMAIN t /\ t.maps = Append(r.maps, map) BY <2>1
  <2>3. /\ t.maps \in Seq(M) /\ Len(r.maps) \in Nat /\ DOMAIN r.maps = 1..Len(r.maps)
        /\ DOMAIN t.maps = 1..(Len(r.maps) + 1)
        /\ \A k \in 1..Len(r.maps) : t.maps[k] = r.maps[k]
        /\ t.maps[Len(r.maps) + 1] = map
    BY <2>2
  <2>4. /\ 1..Len(r.maps) \subseteq DOMAIN t.maps /\ Len(r.maps) + 1 \in DOMAIN t.maps
    BY <2>3
  <2> QED BY <1>1, <2>2, <2>3, <2>4 DEF OnFile
<1> QED BY <1>2, <1>3

\* What a scan offers: maps of the three orders, and the first two if they list
\* anything.
Orders(d) == {build_forward_map(Pool(d)), build_reverse_map(Filed(d)),
              build_geometry_map(Filed(d))}

\* The maps of these orders.
Offered(d) == {evaluate_map(Filed(d), k, o) : k \in {"FORWARD", "REVERSE", "GEOMETRY"},
                                              o \in Orders(d)}

\* The maps of a scan.
LEMMA ScanMaps ==
  ASSUME NEW d, Headers(d)
  PROVE  LET s == apa_forensic_scan(d)
         IN  /\ s.maps \in Seq(Offered(d))
             /\ build_forward_map(Pool(d)) # <<>> => OnFile(s, build_forward_map(Pool(d)))
             /\ build_reverse_map(Filed(d)) # <<>> => OnFile(s, build_reverse_map(Filed(d)))
<1> DEFINE r0 == Filed(d)
           fwd == build_forward_map(Pool(d))
           rev == build_reverse_map(r0)
           geo == build_geometry_map(r0)
           M == Offered(d)
           mf == evaluate_map(r0, "FORWARD", fwd)
           mr == evaluate_map(r0, "REVERSE", rev)
           mg == evaluate_map(r0, "GEOMETRY", geo)
           r1 == add_map_if_unique(r0, mf)
           r2 == add_map_if_unique(r1, mr)
           r3 == add_map_if_unique(r2, mg)
<1>1. apa_forensic_scan(d) = r3 BY DEF apa_forensic_scan, Filed, Pool
<1>2. mf \in M /\ mr \in M /\ mg \in M BY DEF Offered, Orders
<1>3. mf.order = fwd /\ mr.order = rev BY DEF evaluate_map
<1>4. "maps" \in DOMAIN r0 /\ r0.maps \in Seq(M)
  <2>1. r0.maps = <<>> /\ "maps" \in DOMAIN r0 BY FiledTable
  <2> HIDE DEF r0, M
  <2> QED BY <2>1
<1> HIDE DEF r0, fwd, rev, M, mf, mr, mg
<1>5. /\ "maps" \in DOMAIN r1 /\ r1.maps \in Seq(M)
      /\ fwd # <<>> => OnFile(r1, fwd)
  BY <1>2, <1>3, <1>4, MapFiled
<1> HIDE DEF r1
<1>6. /\ "maps" \in DOMAIN r2 /\ r2.maps \in Seq(M)
      /\ fwd # <<>> => OnFile(r2, fwd)
      /\ rev # <<>> => OnFile(r2, rev)
  BY <1>2, <1>3, <1>5, MapFiled
<1> HIDE DEF r2
<1>7. /\ r3.maps \in Seq(M)
      /\ fwd # <<>> => OnFile(r3, fwd)
      /\ rev # <<>> => OnFile(r3, rev)
  BY <1>2, <1>6, MapFiled
<1> QED BY <1>1, <1>7 DEF fwd, rev, r0, M

\* What a map says.
LEMMA MapFacts ==
  ASSUME NEW r, NEW k, NEW o
  PROVE  LET m == evaluate_map(r, k, o)
         IN  /\ m.order = o
             /\ m.repairable =>
                   /\ ~r.truncated /\ Len(o) >= 2 /\ o[1] = 0
                   /\ \A i \in DOMAIN o :
                         {"MAGIC", "SELF_START", "LENGTH"} \subseteq NodeAt(r, o[i]).evidence
                   /\ \A i \in DOMAIN o : \A f \in {"prev", "next"} :
                         LET h == NodeAt(r, o[i]).header
                         IN  h[f] # Desired(o)[i][f] => h[f] = 0 \/ h[f] \notin Lbas(r)
<1> DEFINE node(i) == NodeAt(r, o[i])
           wrong == {w \in (DOMAIN o) \X {"prev", "next"} :
                       node(w[1]).header[w[2]] # Desired(o)[w[1]][w[2]]}
           conflicts == {w \in wrong : LET target == node(w[1]).header[w[2]]
                                       IN  target # 0 /\ target \in Lbas(r)}
           m == evaluate_map(r, k, o)
<1>1. m.order = o BY DEF evaluate_map
<1>2. m.repairable =>
         /\ ~r.truncated /\ Len(o) >= 2 /\ o[1] = 0 /\ conflicts = {}
         /\ \A i \in DOMAIN o : {"MAGIC", "SELF_START", "LENGTH"} \subseteq node(i).evidence
  BY Zenon DEF evaluate_map
<1>3. ASSUME conflicts = {}, NEW i \in DOMAIN o, NEW f \in {"prev", "next"},
             node(i).header[f] # Desired(o)[i][f]
      PROVE  node(i).header[f] = 0 \/ node(i).header[f] \notin Lbas(r)
  <2>1. <<i, f>> \in (DOMAIN o) \X {"prev", "next"} OBVIOUS
  <2>2. <<i, f>>[1] = i /\ <<i, f>>[2] = f OBVIOUS
  <2>3. <<i, f>> \in wrong BY <1>3, <2>1, <2>2
  <2>4. <<i, f>> \notin conflicts BY <1>3
  <2> HIDE DEF wrong
  <2> QED BY <2>2, <2>3, <2>4
<1> QED BY <1>1, <1>2, <1>3

\* The links l of the i-th header of a ring o.
RingLinks(o, i, l) ==
    /\ l = [prev |-> l.prev, next |-> l.next]
    /\ i < Len(o) => l.next = o[i + 1] /\ i + 1 \in 1..Len(o)
    /\ i = Len(o) => l.next = 0
    /\ i = 1 /\ Len(o) > 1 => l.prev = o[Len(o)] /\ Len(o) \in 1..Len(o)
    /\ i = 1 /\ Len(o) = 1 => l.prev = 0
    /\ i = 2 => l.prev = 0
    /\ i > 2 => l.prev = o[i - 1] /\ i - 1 \in 1..Len(o)

\* Desired gives every header of o the links of a ring.
LEMMA DesiredLinks ==
  ASSUME NEW o, Len(o) \in Nat, NEW i \in 1..Len(o)
  PROVE  DOMAIN Desired(o) = 1..Len(o) /\ RingLinks(o, i, Desired(o)[i])
<1>1. PICK n : n = Len(o) OBVIOUS
<1>2. Desired(o) =
        [k \in 1..n |-> [prev |-> IF k = 1 THEN (IF n > 1 THEN o[n] ELSE 0)
                                  ELSE IF k = 2 THEN 0 ELSE o[k - 1],
                         next |-> IF k < n THEN o[k + 1] ELSE 0]]
  BY <1>1 DEF Desired
<1>3. n \in Nat /\ i \in 1..n BY <1>1
<1>4. DOMAIN Desired(o) = 1..n
  BY <1>2
<1>5. /\ Desired(o)[i].prev = IF i = 1 THEN (IF n > 1 THEN o[n] ELSE 0)
                              ELSE IF i = 2 THEN 0 ELSE o[i - 1]
      /\ Desired(o)[i].next = IF i < n THEN o[i + 1] ELSE 0
      /\ Desired(o)[i] = [prev |-> Desired(o)[i].prev, next |-> Desired(o)[i].next]
  BY <1>2, <1>3
<1> QED BY <1>1, <1>3, <1>4, <1>5 DEF RingLinks

\* They lead to members of the ring, or nowhere.
LEMMA LinksInRing ==
  ASSUME NEW K \in SUBSET Nat, NEW o \in Seq(K), NEW i \in 1..Len(o)
  PROVE  /\ Desired(o)[i].prev \in Range(o) \cup {0}
         /\ Desired(o)[i].next \in Range(o) \cup {0}
<1>1. Len(o) \in Nat /\ DOMAIN o = 1..Len(o) OBVIOUS
<1>2. \A k \in 1..Len(o) : o[k] \in Range(o) BY <1>1 DEF Range
<1>3. PICK n, l : n = Len(o) /\ l = Desired(o)[i] OBVIOUS
<1>4. /\ i < n => l.next = o[i + 1] /\ i + 1 \in 1..n
      /\ i = n => l.next = 0
      /\ i = 1 /\ n > 1 => l.prev = o[n] /\ n \in 1..n
      /\ i = 1 /\ n = 1 => l.prev = 0
      /\ i = 2 => l.prev = 0
      /\ i > 2 => l.prev = o[i - 1] /\ i - 1 \in 1..n
  <2>1. RingLinks(o, i, l) BY <1>1, <1>3, DesiredLinks
  <2> QED BY <1>3, <2>1 DEF RingLinks
<1>5. n \in Nat /\ i \in 1..n BY <1>1, <1>3
<1>6. (i = 1 \/ i = 2 \/ i > 2) /\ (i = n \/ i < n) /\ (n = 1 \/ n > 1) BY <1>5
<1>7. l.prev \in Range(o) \cup {0} BY <1>2, <1>3, <1>4, <1>6
<1>8. l.next \in Range(o) \cup {0} BY <1>2, <1>3, <1>4, <1>6
<1> QED BY <1>3, <1>7, <1>8

\* The i-th header of o has the links of the ring.
Fine(r, o, i) == Relinked(NodeAt(r, o[i]).header, Desired(o)[i]) = NodeAt(r, o[i]).header

\* The patches of p are for the headers of o whose links are not those of the ring.
PatchesFor(r, o, p) ==
    /\ \A k \in DOMAIN p.patches : \E i \in DOMAIN o :
          p.patches[k].lba = o[i] /\ p.patches[k].links = Desired(o)[i]
    /\ (\A i \in DOMAIN o : Fine(r, o, i)) => p.patches = <<>>
    /\ p.patches # <<>> => \A i \in DOMAIN o :
          ~Fine(r, o, i) => \E k \in DOMAIN p.patches : p.patches[k].lba = o[i]

\* A plan with the map o has a patch for exactly the headers whose links are not
\* those of the ring.
LEMMA PlanPatches ==
  ASSUME NEW r, NEW m, NEW o, r.maps[m].order = o, Len(o) \in 0..MaxNodes,
         DOMAIN o = 1..Len(o)
  PROVE  PatchesFor(r, o, apa_forensic_build_repair_plan(r, m))
<1> DEFINE p == apa_forensic_build_repair_plan(r, m)
           fine(i) == Fine(r, o, i)
           position == {i \in 1..MaxNodes : i \in DOMAIN o /\ ~fine(i)}
           patchOf(i) ==
               [lba |-> o[i], links |-> Desired(o)[i],
                corroborated |->
                    patch_checksum_corroborated(NodeAt(r, o[i]).header, Desired(o)[i])]
           list == sort_by_lba(position)
           patches == [k \in DOMAIN list |-> patchOf(list[k])]
<1>1. p.patches \in {<<>>, patches}
  <2>1. position = {i \in 1..MaxNodes :
                      /\ i \in DOMAIN r.maps[m].order
                      /\ LET h == NodeAt(r, r.maps[m].order[i]).header
                         IN  Relinked(h, Desired(r.maps[m].order)[i]) # h}
    BY DEF Fine
  <2> QED BY <2>1 DEF apa_forensic_build_repair_plan, NoPlan
<1> HIDE DEF fine
<1>2. MaxNodes \in Nat /\ Len(o) \in Nat BY ForensicConstants
<1>3. position \in SUBSET Nat /\ position \in SUBSET (1..MaxNodes) BY <1>2
<1>4. position = {i \in DOMAIN o : ~fine(i)} BY <1>2
<1> HIDE DEF position
<1>5. IsFiniteSet(position)
  <2>1. IsFiniteSet(1..MaxNodes) BY <1>2, FS_Interval
  <2> QED BY <1>3, <2>1, FS_Subset
<1>6. /\ Cardinality(position) \in Nat /\ list \in Seq(position)
      /\ DOMAIN list = 1..Cardinality(position) /\ Len(list) = Cardinality(position)
      /\ \A i \in position : \E k \in 1..Len(list) : list[k] = i
  BY <1>3, <1>5, SortedOnto
<1> HIDE DEF list, patchOf
<1>7. \A k \in DOMAIN list : list[k] \in position BY <1>6
<1>8. DOMAIN patches = DOMAIN list /\ \A k \in DOMAIN list : patches[k] = patchOf(list[k])
  OBVIOUS
<1>9. position = {} => patches = <<>>
  <2> SUFFICES ASSUME position = {} PROVE patches = <<>>
    OBVIOUS
  <2>1. Cardinality(position) = 0 BY FS_EmptySet
  <2>2. DOMAIN list = {} BY <1>6, <2>1
  <2> QED BY <2>2
<1> HIDE DEF patches
<1>10. \A i : patchOf(i).lba = o[i] /\ patchOf(i).links = Desired(o)[i] BY DEF patchOf
<1>11. \A k \in DOMAIN patches : \E i \in DOMAIN o :
          patches[k].lba = o[i] /\ patches[k].links = Desired(o)[i]
  BY <1>4, <1>7, <1>8, <1>10
<1>12. \A i \in DOMAIN o : ~fine(i) => \E k \in DOMAIN patches : patches[k].lba = o[i]
  <2> SUFFICES ASSUME NEW i \in DOMAIN o, ~fine(i)
               PROVE  \E k \in DOMAIN patches : patches[k].lba = o[i]
    OBVIOUS
  <2>1. i \in position BY <1>4
  <2>2. PICK k \in DOMAIN list : list[k] = i BY <1>6, <2>1
  <2> QED BY <1>8, <1>10, <2>2
<1>13. DOMAIN <<>> = {} OBVIOUS
<1>14. (\A i \in DOMAIN o : fine(i)) => p.patches = <<>> BY <1>1, <1>4, <1>9
<1> QED BY <1>1, <1>11, <1>12, <1>13, <1>14 DEF fine, PatchesFor

\* Where two positions have the same header they ask for the same links.
Consistent(o) == \A i, j \in DOMAIN o : o[i] = o[j] => Desired(o)[i] = Desired(o)[j]

\* Links and checksum apart, and the words no rule reads.
SameBut(g, h) ==
    /\ g.magic = h.magic /\ g.id = h.id /\ g.start = h.start /\ g.length = h.length
    /\ g.type = h.type /\ g.subs = h.subs /\ g.main = h.main

\* On the disk d the headers of o are the ones the table r has.
Stored(d, r, o) ==
    \A i \in DOMAIN o : /\ o[i] \in DOMAIN d /\ d[o[i]] \in Header
                        /\ NodeAt(r, o[i]).header = d[o[i]]

\* The disk g is d with the ring o written.
Repaired(d, o, g) ==
    /\ DOMAIN g = DOMAIN d
    /\ \A x \in DOMAIN d : x \notin Range(o) => g[x] = d[x]
    /\ \A i \in DOMAIN o : /\ g[o[i]] \in Header /\ SameBut(g[o[i]], d[o[i]])
                           /\ LinksOf(g[o[i]]) = Desired(o)[i]

\* Links and a new checksum are all that changes.
LEMMA HeaderRelinked ==
  ASSUME NEW h \in Header, NEW l, l = [prev |-> l.prev, next |-> l.next],
         l.prev \in Nat, l.next \in Nat
  PROVE  LET g == [Relinked(h, l) EXCEPT !.sum = apa_checksum(Relinked(h, l))]
         IN  /\ g \in Header /\ SameBut(g, h) /\ LinksOf(g) = l
             /\ Relinked(h, l) = h <=> LinksOf(h) = l
<1> DEFINE k == Relinked(h, l)
           c == apa_checksum(k)
           g == [k EXCEPT !.sum = c]
<1>1. /\ k \in Header /\ k.next = l.next /\ k.prev = l.prev /\ SameBut(k, h)
      /\ k.start = h.start /\ k.length = h.length /\ k.main = h.main /\ k.rest = h.rest
  BY DEF Header, Relinked, SameBut
<1>2. c \in Nat
  <2>1. /\ k.next \in Nat /\ k.prev \in Nat /\ k.start \in Nat /\ k.length \in Nat
        /\ k.main \in Nat /\ k.rest \in Nat
    BY <1>1 DEF Header
  <2> HIDE DEF k
  <2> QED BY <2>1, ForensicConstants DEF apa_checksum
<1>3. k = h <=> h.next = l.next /\ h.prev = l.prev
  BY DEF Header, Relinked
<1> HIDE DEF k, c
<1>4. g \in Header /\ SameBut(g, h) /\ g.next = l.next /\ g.prev = l.prev
  BY <1>1, <1>2 DEF Header, SameBut
<1> HIDE DEF g
<1>5. LinksOf(g) = l /\ (LinksOf(h) = l <=> h.next = l.next /\ h.prev = l.prev)
  <2>1. \A x : LinksOf(x) = [next |-> x.next, prev |-> x.prev] BY DEF LinksOf
  <2>2. LinksOf(g) = [prev |-> l.prev, next |-> l.next] BY <1>4, <2>1
  <2>3. LinksOf(h) = [prev |-> h.prev, next |-> h.next] BY <2>1
  <2> QED BY <2>2, <2>3
<1> QED BY <1>3, <1>4, <1>5 DEF g, k, c

\* Writing a plan.
LEMMA AppliedRing ==
  ASSUME NEW d, NEW r, NEW m, NEW o, r.maps[m].order = o, Len(o) \in 0..MaxNodes,
         DOMAIN o = 1..Len(o), o \in Seq(Nat), Stored(d, r, o), Consistent(o),
         apa_forensic_build_repair_plan(r, m).patches # <<>>
  PROVE  Repaired(d, o, Applied(d, r, apa_forensic_build_repair_plan(r, m)))
<1>0. PICK p : p = apa_forensic_build_repair_plan(r, m) OBVIOUS
<1>1. /\ \A k \in DOMAIN p.patches : \E i \in DOMAIN o :
            p.patches[k].lba = o[i] /\ p.patches[k].links = Desired(o)[i]
      /\ \A i \in DOMAIN o :
            ~Fine(r, o, i) => \E k \in DOMAIN p.patches : p.patches[k].lba = o[i]
  <2>1. PatchesFor(r, o, p) /\ p.patches # <<>> BY <1>0, PlanPatches
  <2> QED BY <2>1 DEF PatchesFor
<1> DEFINE hit(x) == \E k \in DOMAIN p.patches : p.patches[k].lba = x
           patch(x) == CHOOSE q \in Range(p.patches) : q.lba = x
<1>2. PICK g : g = Applied(d, r, p) OBVIOUS
<1>3. /\ DOMAIN g = DOMAIN d
      /\ \A x \in DOMAIN d :
            g[x] = IF hit(x) THEN apa_forensic_build_patched_header(r, patch(x)) ELSE d[x]
  BY <1>2 DEF Applied
<1>4. ASSUME NEW x, hit(x)
      PROVE  /\ patch(x).lba = x
             /\ \E i \in DOMAIN o : x = o[i] /\ patch(x).links = Desired(o)[i]
  <2>1. \E q \in Range(p.patches) : q.lba = x BY <1>4 DEF Range
  <2>2. patch(x) \in Range(p.patches) /\ patch(x).lba = x BY <2>1
  <2> HIDE DEF patch
  <2>3. PICK k \in DOMAIN p.patches : patch(x) = p.patches[k] BY <2>2 DEF Range
  <2>4. PICK i \in DOMAIN o : p.patches[k].lba = o[i] /\ p.patches[k].links = Desired(o)[i]
    BY <1>1
  <2> QED BY <2>2, <2>3, <2>4
<1> HIDE DEF patch
<1>5. ASSUME NEW x \in DOMAIN d, x \notin Range(o) PROVE g[x] = d[x]
  <2>1. ~hit(x)
    <3> SUFFICES ASSUME hit(x) PROVE FALSE
      OBVIOUS
    <3>1. \E i \in DOMAIN o : x = o[i] BY <1>4
    <3> HIDE DEF hit
    <3> QED BY <1>5, <3>1 DEF Range
  <2> QED BY <1>3, <2>1
<1>6. ASSUME NEW i \in DOMAIN o
      PROVE  /\ g[o[i]] \in Header /\ SameBut(g[o[i]], d[o[i]])
             /\ LinksOf(g[o[i]]) = Desired(o)[i]
  <2>1. PICK h, l : h = d[o[i]] /\ l = Desired(o)[i] OBVIOUS
  <2>2. o[i] \in DOMAIN d /\ h \in Header /\ NodeAt(r, o[i]).header = h
    BY <2>1 DEF Stored
  <2>3. l = [prev |-> l.prev, next |-> l.next]
    <3>1. i \in 1..Len(o) /\ Len(o) \in Nat OBVIOUS
    <3>2. RingLinks(o, i, l) BY <2>1, <3>1, DesiredLinks
    <3> QED BY <3>2 DEF RingLinks
  <2>4. l.prev \in Nat /\ l.next \in Nat
    <3>1. l.prev \in Range(o) \cup {0} /\ l.next \in Range(o) \cup {0}
      BY <2>1, LinksInRing
    <3>2. Range(o) \subseteq Nat BY DEF Range
    <3> QED BY <3>1, <3>2
  <2> DEFINE w == [Relinked(h, l) EXCEPT !.sum = apa_checksum(Relinked(h, l))]
  <2>5. /\ w \in Header /\ SameBut(w, h) /\ LinksOf(w) = l
        /\ Relinked(h, l) = h <=> LinksOf(h) = l
    BY <2>2, <2>3, <2>4, HeaderRelinked
  <2>6. CASE hit(o[i])
    <3>1. g[o[i]] = apa_forensic_build_patched_header(r, patch(o[i]))
      BY <1>3, <2>2, <2>6
    <3>2. patch(o[i]).lba = o[i] /\ patch(o[i]).links = l
      <4>1. PICK j \in DOMAIN o : o[i] = o[j] /\ patch(o[i]).links = Desired(o)[j]
        BY <1>4, <2>6
      <4>2. Desired(o)[j] = l BY <2>1, <4>1 DEF Consistent
      <4> QED BY <1>4, <2>6, <4>1, <4>2
    <3>3. g[o[i]] = w
      BY <2>2, <3>1, <3>2 DEF apa_forensic_build_patched_header
    <3> QED BY <2>1, <2>5, <3>3
  <2>7. CASE ~hit(o[i])
    <3>1. g[o[i]] = h BY <1>3, <2>1, <2>2, <2>7
    <3>2. Fine(r, o, i) BY <1>1, <2>7
    <3>3. LinksOf(h) = l BY <2>1, <2>2, <2>5, <3>2 DEF Fine
    <3> QED BY <2>1, <2>2, <3>1, <3>3 DEF SameBut
  <2> QED BY <2>6, <2>7
<1>7. Repaired(d, o, g) BY <1>3, <1>5, <1>6 DEF Repaired
<1> QED BY <1>0, <1>2, <1>7
-----------------------------------------------------------------------------
(* The scan of the repaired disk.                                          *)

\* What a repair asks of every header of the ring.
Anchored(h, x) == {"MAGIC", "SELF_START", "LENGTH"} \subseteq Full(h, x)

\* New links do not make a header less of one.
LEMMA SameEvidence ==
  ASSUME NEW h, NEW g, NEW x, SameBut(g, h), Anchored(h, x)
  PROVE  Anchored(g, x) /\ Conf(g, x) >= 60
<1>1. Anchored(g, x)
  <2>1. /\ h.magic /\ h.start = x /\ h.length # 0 /\ h.start < Total
        /\ h.start + h.length <= Total
    BY FullEvidence DEF Anchored
  <2>2. /\ g.magic /\ g.start = x /\ g.length # 0 /\ g.start < Total
        /\ g.start + g.length <= Total
    BY <2>1 DEF SameBut
  <2>3. "MAGIC" \in Full(g, x) /\ "SELF_START" \in Full(g, x) /\ "LENGTH" \in Full(g, x)
    BY <2>2, FullEvidence
  <2> QED BY <2>3 DEF Anchored
<1> QED BY <1>1, Confidences DEF Anchored

\* What is in the table was taken by it.
LEMMA KnownAccepted ==
  ASSUME NEW d, NEW t, Found(d, t), NEW x \in Lbas(t)
  PROVE  x \in Nat /\ x < Total /\ Total - x >= 2
<1>1. Table(d, t) /\ Origin(d, t) BY DEF Found
<1>2. DOMAIN t.nodes = 1..Len(t.nodes) BY <1>1, TableFacts
<1>3. PICK i \in 1..Len(t.nodes) : t.nodes[i].lba = x BY <1>2 DEF Lbas
<1>4. Accepts(d, x, "GRID") \/ Accepts(d, x, "REFERENCED")
  BY <1>1, <1>3 DEF Origin, Seed, Names
<1> QED BY <1>4 DEF Accepts

\* What the repair leaves of a ring of anchored headers.
RingWritten(d, t, o, g) ==
    /\ Found(d, t) /\ Complete(d, t)
    /\ o \in Seq(Lbas(t)) /\ Repaired(d, o, g)
    /\ \A i \in 1..Len(o) : o[i] \in DOMAIN d /\ Anchored(d[o[i]], o[i])

\* The headers of the ring are found and followed as before.
LEMMA RingHeaders ==
  ASSUME NEW d, NEW t, NEW o, NEW g, RingWritten(d, t, o, g), NEW i \in 1..Len(o)
  PROVE  /\ o[i] \in Lbas(t) /\ Read(d, o[i]) = d[o[i]] /\ Read(g, o[i]) = g[o[i]]
         /\ SameBut(g[o[i]], d[o[i]]) /\ LinksOf(g[o[i]]) = Desired(o)[i]
         /\ Conf(d[o[i]], o[i]) >= 60 /\ Conf(g[o[i]], o[i]) >= 60
         /\ Cand(d, o[i]) /\ Cand(g, o[i])
         /\ \A source \in Sources : Accepts(g, o[i], source)
<1> DEFINE x == o[i]
<1>1. /\ Found(d, t) /\ o \in Seq(Lbas(t)) /\ Repaired(d, o, g)
      /\ x \in DOMAIN d /\ Anchored(d[x], x)
  BY DEF RingWritten
<1>2. i \in DOMAIN o /\ x \in Lbas(t) BY <1>1
<1> HIDE DEF x
<1>3. /\ DOMAIN g = DOMAIN d /\ g[x] \in Header /\ SameBut(g[x], d[x])
      /\ LinksOf(g[x]) = Desired(o)[i]
  BY <1>1, <1>2 DEF Repaired, x
<1>4. Read(d, x) = d[x] /\ Read(g, x) = g[x] BY <1>1, <1>3 DEF Read
<1>5. Anchored(g[x], x) /\ Conf(g[x], x) >= 60 BY <1>1, <1>3, SameEvidence
<1>6. Conf(d[x], x) >= 60 /\ Conf(d[x], x) \in Nat /\ Conf(g[x], x) \in Nat
  BY <1>1, Confidences DEF Anchored
<1>7. Cand(d, x) /\ Cand(g, x) BY <1>1, <1>4, <1>5, <1>6 DEF Cand, Anchored
<1>8. x \in Nat /\ x < Total /\ Total - x >= 2 BY <1>1, <1>2, KnownAccepted
<1>9. g[x] # Unreadable /\ g[x].magic
  BY <1>3, <1>5, UnreadableAssumption, FullEvidence DEF Anchored
<1>10. \A source \in Sources : Accepts(g, x, source)
  BY <1>4, <1>5, <1>6, <1>8, <1>9 DEF Accepts
<1> QED BY <1>2, <1>3, <1>4, <1>5, <1>6, <1>7, <1>10 DEF x

\* Nothing leads out of what was known.
LEMMA RescanClosed ==
  ASSUME NEW d, Headers(d), NEW t, NEW o, NEW g, RingWritten(d, t, o, g)
  PROVE  /\ \A x : Seed(g, x) => x \in Lbas(t)
         /\ \A y \in Lbas(t) : \A x : Names(g, y, x) => x \in Lbas(t)
<1> DEFINE K == Lbas(t)
<1>1. Found(d, t) /\ Complete(d, t) /\ o \in Seq(K) /\ Repaired(d, o, g)
  BY DEF RingWritten
<1>2. DOMAIN o = 1..Len(o) /\ Range(o) \subseteq K BY <1>1 DEF Range
<1>3. \A x : x \notin Range(o) => Read(g, x) = Read(d, x) BY <1>1 DEF Repaired, Read
<1>4. \A x, source : x \notin Range(o) /\ Accepts(g, x, source) => Accepts(d, x, source)
  BY <1>3 DEF Accepts
<1>5. ASSUME NEW x, Seed(g, x) PROVE x \in K
  <2>1. CASE x \in Range(o) BY <1>2, <2>1
  <2>2. CASE x \notin Range(o)
    <3>1. Seed(d, x) BY <1>4, <1>5, <2>2 DEF Seed
    <3> QED BY <1>1, <3>1 DEF Complete
  <2> QED BY <2>1, <2>2
<1>6. ASSUME NEW y \in K, NEW x, Names(g, y, x) PROVE x \in K
  <2>1. CASE x \in Range(o) BY <1>2, <2>1
  <2>2. CASE x \notin Range(o)
    <3>1. Accepts(d, x, "REFERENCED") /\ x # 0 /\ Cand(g, y) /\ x \in Refs(g, y)
      BY <1>4, <1>6, <2>2 DEF Names
    <3>2. Cand(d, y) /\ x \in Refs(d, y)
      <4>1. CASE y \notin Range(o) BY <1>3, <3>1, <4>1 DEF Cand, Refs
      <4>2. CASE y \in Range(o)
        <5>1. PICK i \in 1..Len(o) : y = o[i] BY <1>2, <4>2 DEF Range
        <5>2. /\ Read(d, y) = d[y] /\ Read(g, y) = g[y] /\ Cand(d, y)
              /\ SameBut(g[y], d[y]) /\ LinksOf(g[y]) = Desired(o)[i]
              /\ Conf(d[y], y) >= 60 /\ Conf(g[y], y) >= 60
          BY <5>1, RingHeaders
        <5>3. g[y].next = Desired(o)[i].next /\ g[y].prev = Desired(o)[i].prev
          <6>1. LinksOf(g[y]).next = g[y].next /\ LinksOf(g[y]).prev = g[y].prev
            BY DEF LinksOf
          <6> QED BY <5>2, <6>1
        <5>4. g[y].next \in Range(o) \cup {0} /\ g[y].prev \in Range(o) \cup {0}
          <6>1. K \in SUBSET Nat BY <1>1, TableFacts DEF Found
          <6> HIDE DEF K
          <6> QED BY <1>1, <5>3, <6>1, LinksInRing
        <5>5. x # g[y].next /\ x # g[y].prev BY <2>2, <3>1, <5>4
        <5>6. x = g[y].main
              \/ (Len(g[y].subs) <= MaxSubs /\ x \in {g[y].subs[k] : k \in DOMAIN g[y].subs})
          BY <3>1, <5>2, <5>5 DEF Refs
        <5>7. g[y].main = d[y].main /\ g[y].subs = d[y].subs BY <5>2 DEF SameBut
        <5>8. x \in Refs(d, y) BY <5>2, <5>6, <5>7 DEF Refs
        <5> QED BY <5>2, <5>8
      <4> QED BY <4>1, <4>2
    <3>3. Names(d, y, x) BY <3>1, <3>2 DEF Names
    <3> QED BY <1>1, <3>3 DEF Complete, Done
  <2> QED BY <2>1, <2>2
<1> QED BY <1>5, <1>6

\* K holds whatever the grid finds and whatever its members name.
Closed(d, K) ==
    /\ \A x : Seed(d, x) => x \in K
    /\ \A y \in K : \A x : Names(d, y, x) => x \in K

\* A scan does not leave a closed set, and if the table can hold the set it finds all
\* there is.
LEMMA Confined ==
  ASSUME NEW g, Headers(g), NEW K, IsFiniteSet(K), Cardinality(K) <= MaxNodes, Closed(g, K)
  PROVE  Lbas(Pool(g)) \subseteq K /\ ~Pool(g).truncated /\ Complete(g, Pool(g))
<1>1. PICK u : u = Pool(g) OBVIOUS
<1>2. Found(g, u) /\ (~u.truncated => Complete(g, u)) BY <1>1, Discovery DEF Pool
<1>3. /\ \A x : Seed(g, x) => x \in K
      /\ \A y \in K : \A x : Names(g, y, x) => x \in K
  BY DEF Closed
<1>4. Table(g, u) /\ Origin(g, u) /\ Spilled(g, u) BY <1>2 DEF Found
<1>5. DOMAIN u.nodes = 1..Len(u.nodes) /\ Len(u.nodes) \in Nat BY <1>4, TableFacts
<1>6. \A i \in 1..Len(u.nodes) : u.nodes[i].lba \in K
  <2> DEFINE Bad == {i \in 1..Len(u.nodes) : u.nodes[i].lba \notin K}
  <2> SUFFICES ASSUME Bad # {} PROVE FALSE
    OBVIOUS
  <2>1. Bad \in SUBSET Nat OBVIOUS
  <2>2. PICK i \in Bad : \A j \in Bad : i <= j
    <3> HIDE DEF Bad
    <3> QED BY <2>1, Least
  <2>3. i \in 1..Len(u.nodes) /\ u.nodes[i].lba \notin K OBVIOUS
  <2>4. \A j \in 1..(i - 1) : j \notin Bad /\ j \in 1..Len(u.nodes)
    <3> TAKE j \in 1..(i - 1)
    <3>1. j \in 1..Len(u.nodes) /\ ~(i <= j) BY <1>5, <2>3
    <3> HIDE DEF Bad
    <3> QED BY <2>2, <3>1
  <2>5. \A j \in 1..(i - 1) : u.nodes[j].lba \in K BY <2>4
  <2> QED BY <1>3, <1>4, <2>3, <2>5 DEF Origin
<1>7. Lbas(u) \subseteq K BY <1>5, <1>6 DEF Lbas
<1>8. ~u.truncated
  <2> SUFFICES ASSUME u.truncated PROVE FALSE
    OBVIOUS
  <2>1. PICK x : Len(u.nodes) = MaxNodes /\ x \notin Lbas(u) /\ Reached(g, u, x)
    BY <1>4 DEF Spilled
  <2>2. x \in K BY <1>3, <1>7, <2>1 DEF Reached
  <2>3. IsFiniteSet(Lbas(u)) /\ Cardinality(Lbas(u)) = MaxNodes
    BY <1>4, <2>1, TableCardinality DEF Pooled
  <2>4. Cardinality(Lbas(u) \cup {x}) = MaxNodes + 1 BY <2>1, <2>3, FS_AddElement
  <2>5. Lbas(u) \cup {x} \in SUBSET K BY <1>7, <2>2
  <2>6. Cardinality(Lbas(u) \cup {x}) <= Cardinality(K) BY <2>5, FS_Subset
  <2>7. Cardinality(K) \in Nat /\ MaxNodes \in Nat
    BY FS_CardinalityType, ForensicConstants
  <2> QED BY <2>4, <2>6, <2>7
<1> QED BY <1>1, <1>2, <1>7, <1>8

\* So the new table holds nothing new, does not overflow and is complete.
LEMMA Rescan ==
  ASSUME NEW d, Headers(d), NEW t, NEW o, NEW g, Headers(g), RingWritten(d, t, o, g)
  PROVE  /\ Lbas(Pool(g)) \subseteq Lbas(t) /\ ~Pool(g).truncated
         /\ Complete(g, Pool(g))
<1>1. Closed(g, Lbas(t)) BY RescanClosed DEF Closed
<1>2. Table(d, t) BY DEF RingWritten, Found
<1>3. IsFiniteSet(Lbas(t)) /\ Cardinality(Lbas(t)) <= MaxNodes
  BY <1>2, TableCardinality DEF Pooled
<1> QED BY <1>1, <1>3, Confined

\* On g the headers of o, each once and the master first, are read, followed and
\* linked as a ring.
RingOn(g, o) ==
    /\ Len(o) \in Nat \ {0} /\ o[1] = 0
    /\ \A i, j \in 1..Len(o) : o[i] = o[j] => i = j
    /\ \A i \in 1..Len(o) :
          /\ Read(g, o[i]) = g[o[i]] /\ LinksOf(g[o[i]]) = Desired(o)[i]
          /\ Cand(g, o[i]) /\ \A source \in Sources : Accepts(g, o[i], source)

\* A complete table has such a ring.
LEMMA RingReached ==
  ASSUME NEW g, NEW u, Complete(g, u), NEW o, RingOn(g, o)
  PROVE  \A i \in 1..Len(o) : o[i] \in Lbas(u)
<1> DEFINE K == Lbas(u)
           n == Len(o)
<1>1. n \in Nat \ {0} /\ o[1] = 0 /\ \A i, j \in 1..n : o[i] = o[j] => i = j
  BY DEF RingOn
<1>2. \A i \in 1..n :
         /\ Read(g, o[i]) = g[o[i]] /\ LinksOf(g[o[i]]) = Desired(o)[i]
         /\ Cand(g, o[i]) /\ \A source \in Sources : Accepts(g, o[i], source)
  BY DEF RingOn
<1> HIDE DEF K, n
<1>3. o[1] \in K
  <2>1. Accepts(g, 0, "GRID")
    <3>1. 1 \in 1..n BY <1>1
    <3> QED BY <1>1, <1>2, <3>1 DEF Sources
  <2>2. OnGrid(0)
    <3>1. 0 < Total /\ 0 % ScanStep = 0 BY ForensicConstants
    <3> QED BY <3>1, GridSamples
  <2> QED BY <1>1, <2>1, <2>2 DEF Complete, Seed, K
<1>4. ASSUME NEW i \in 2..n, o[i - 1] \in K PROVE o[i] \in K
  <2>1. i \in 1..n /\ i - 1 \in 1..n /\ i - 1 < n /\ (i - 1) + 1 = i BY <1>1, <1>4
  <2>2. /\ Cand(g, o[i - 1]) /\ Read(g, o[i - 1]) = g[o[i - 1]]
        /\ LinksOf(g[o[i - 1]]) = Desired(o)[i - 1]
    BY <1>2, <2>1
  <2>3. Desired(o)[i - 1].next = o[i]
    <3>1. PICK l, j : l = Desired(o)[j] /\ j = i - 1 OBVIOUS
    <3>2. Len(o) \in Nat /\ j \in 1..Len(o) /\ j < Len(o) /\ j + 1 = i
      BY <1>1, <2>1, <3>1 DEF n
    <3>3. RingLinks(o, j, l) BY <3>1, <3>2, DesiredLinks
    <3>4. j < Len(o) => l.next = o[j + 1] BY <3>3 DEF RingLinks
    <3> QED BY <3>1, <3>2, <3>4
  <2>4. g[o[i - 1]].next = o[i]
    <3>1. LinksOf(g[o[i - 1]]).next = g[o[i - 1]].next BY DEF LinksOf
    <3> QED BY <2>2, <2>3, <3>1
  <2>5. o[i] \in Refs(g, o[i - 1]) BY <2>2, <2>4 DEF Refs
  <2>6. o[i] # 0
    <3>1. 1 \in 1..n /\ i # 1 BY <1>1, <1>4
    <3> QED BY <1>1, <2>1, <3>1
  <2>7. Accepts(g, o[i], "REFERENCED") BY <1>2, <2>1 DEF Sources
  <2>8. Names(g, o[i - 1], o[i]) BY <2>2, <2>5, <2>6, <2>7 DEF Names
  <2> QED BY <1>4, <2>8 DEF Complete, Done, K
<1> DEFINE G == {i \in 0..n : i = 0 \/ o[i] \in K}
<1>5. 0 \in G BY <1>1
<1>6. \A i \in 1..n : i - 1 \in G => i \in G
  <2> SUFFICES ASSUME NEW i \in 1..n, i - 1 \in G PROVE i \in G
    OBVIOUS
  <2>1. i = 1 \/ (i \in 2..n /\ i - 1 # 0) BY <1>1
  <2>2. o[i] \in K BY <1>3, <1>4, <2>1
  <2>3. i \in 0..n BY <1>1
  <2> QED BY <2>2, <2>3
<1> HIDE DEF G
<1>7. \A i \in 0..n : i \in G BY <1>1, <1>5, <1>6, UpTo
<1>8. \A i \in 1..n : i \in 0..n /\ i # 0 BY <1>1
<1>9. \A i \in 1..n : o[i] \in K BY <1>7, <1>8 DEF G
<1> QED BY <1>9 DEF K, n

\* A ring that begins at the master is found whole.
LEMMA RingFound ==
  ASSUME NEW d, Headers(d), NEW t, NEW o, NEW g, Headers(g), RingWritten(d, t, o, g),
         o[1] = 0, Len(o) >= 1
  PROVE  /\ 0 \in Lbas(Pool(g))
         /\ Listed(t, o) => \A i \in 1..Len(o) : o[i] \in Lbas(Pool(g))
<1>1. Complete(g, Pool(g)) BY Rescan
<1>2. Len(o) \in Nat /\ DOMAIN o = 1..Len(o) BY DEF RingWritten
<1>3. 0 \in Lbas(Pool(g))
  <2>1. Accepts(g, 0, "GRID")
    <3>1. 1 \in 1..Len(o) BY <1>2
    <3> QED BY <3>1, RingHeaders DEF Sources
  <2>2. OnGrid(0)
    <3>1. 0 < Total /\ 0 % ScanStep = 0 BY ForensicConstants
    <3> QED BY <3>1, GridSamples
  <2> QED BY <1>1, <2>1, <2>2 DEF Complete, Seed
<1>4. ASSUME Listed(t, o) PROVE RingOn(g, o)
  <2>1. \A i, j \in 1..Len(o) : o[i] = o[j] => i = j BY <1>4 DEF Listed
  <2>2. \A i \in 1..Len(o) :
           /\ Read(g, o[i]) = g[o[i]] /\ LinksOf(g[o[i]]) = Desired(o)[i]
           /\ Cand(g, o[i]) /\ \A source \in Sources : Accepts(g, o[i], source)
    BY RingHeaders
  <2>3. Len(o) \in Nat \ {0} BY <1>2
  <2> QED BY <2>1, <2>2, <2>3 DEF RingOn
<1> QED BY <1>1, <1>3, <1>4, RingReached

\* Where the links run through o, the forward map is o.
LEMMA ForwardFollows ==
  ASSUME NEW r, Pooled(r), NEW o, Listed(r, o), o[1] = 0, Len(o) \in 2..MaxNodes,
         \A i \in 1..Len(o) : NodeAt(r, o[i]).header.next = Desired(o)[i].next
  PROVE  build_forward_map(r) = o
<1> DEFINE m == MaxNodes - 1
           n == Len(o)
<1>1. /\ o \in Seq(Lbas(r)) /\ n \in Nat /\ DOMAIN o = 1..n /\ 1 \in 1..n /\ n \in 1..n
      /\ \A i, j \in 1..n : o[i] = o[j] => i = j
      /\ m \in Nat /\ n >= 2 /\ n <= m + 1
  BY ForensicConstants DEF Listed
<1>2. \A i \in 1..n : o[i] \in Lbas(r) BY <1>1
<1>3. 0 \in Lbas(r) BY <1>1, <1>2
<1>4. PICK F : /\ Chain("forward", r, <<0>>, [i \in 1..m |-> i], m, F)
               /\ F[m] = build_forward_map(r)
  BY <1>3, ForwardLoop
<1>5. /\ F[0] = <<0>> /\ F[m] = build_forward_map(r)
      /\ \A i \in 1..m : F[i] = extend_forward(r, F[i - 1])
  BY <1>4 DEF Chain, Loop
<1>6. /\ \A i \in 1..n : i < n => NodeAt(r, o[i]).header.next = o[i + 1]
      /\ NodeAt(r, o[n]).header.next = 0
  <2>1. ASSUME NEW i \in 1..n
        PROVE  /\ i < n => NodeAt(r, o[i]).header.next = o[i + 1]
               /\ i = n => NodeAt(r, o[i]).header.next = 0
    <3>1. PICK l : l = Desired(o)[i] OBVIOUS
    <3>2. (i < n => l.next = o[i + 1]) /\ (i = n => l.next = 0)
      <4>1. RingLinks(o, i, l) BY <1>1, <3>1, DesiredLinks
      <4> QED BY <4>1 DEF RingLinks
    <3>3. NodeAt(r, o[i]).header.next = l.next BY <3>1
    <3> QED BY <3>2, <3>3
  <2>2. n \in 1..n BY <1>1
  <2> QED BY <2>1, <2>2
<1> HIDE DEF m, n
<1> DEFINE P(i) == /\ F[i] \in Seq(Lbas(r)) /\ Len(F[i]) = IF i < n THEN i + 1 ELSE n
                   /\ \A k \in 1..Len(F[i]) : F[i][k] = o[k]
           G == {i \in 0..m : P(i)}
<1>7. P(0)
  <2>1. <<0>> \in Seq(Lbas(r)) /\ Len(<<0>>) = 1 /\ <<0>>[1] = 0 BY <1>3
  <2>2. 0 < n /\ 1..1 = {1} BY <1>1
  <2>3. PICK s : s = <<0>> OBVIOUS
  <2>4. s \in Seq(Lbas(r)) /\ Len(s) = 1 /\ s[1] = o[1] BY <2>1, <2>3
  <2> QED BY <1>5, <2>2, <2>3, <2>4
<1>8. ASSUME NEW i \in 1..m, P(i - 1) PROVE P(i)
  <2>0. PICK s, t : s = F[i - 1] /\ t = F[i] OBVIOUS
  <2>1. t = extend_forward(r, s) BY <1>5, <2>0
  <2>2. PICK l : l = Len(s) OBVIOUS
  <2>3. /\ s \in Seq(Lbas(r)) /\ l = (IF i - 1 < n THEN (i - 1) + 1 ELSE n)
        /\ \A k \in 1..l : s[k] = o[k]
    BY <1>8, <2>0, <2>2
  <2>4. l \in 1..n /\ l \in Nat /\ i \in Nat /\ l = (IF i <= n THEN i ELSE n)
    BY <1>1, <2>3
  <2>5. Last(s) = o[l]
    <3>1. l \in 1..l BY <2>4
    <3> QED BY <2>2, <2>3, <3>1 DEF Last
  <2>6. Range(s) = {o[k] : k \in 1..l}
    <3>0. s \in Seq(Lbas(r)) BY <2>3
    <3>1. DOMAIN s = 1..l BY <2>2, <3>0
    <3> QED BY <2>3, <3>1 DEF Range
  <2>7. CASE l < n
    <3>1. l + 1 \in 1..n /\ i <= n /\ l = i BY <1>1, <2>4, <2>7
    <3>2. NodeAt(r, Last(s)).header.next = o[l + 1] BY <1>6, <2>4, <2>5, <2>7
    <3>3. o[l + 1] # 0
      <4>1. l + 1 # 1 BY <2>4
      <4> QED BY <1>1, <3>1, <4>1
    <3>4. o[l + 1] \in Lbas(r) \ Range(s)
      <4>1. \A k \in 1..l : k \in 1..n /\ k # l + 1 BY <1>1, <2>4
      <4>2. \A k \in 1..l : o[k] # o[l + 1] BY <1>1, <3>1, <4>1
      <4> QED BY <1>2, <2>6, <3>1, <4>2
    <3>5. ForwardStep(r, s) = o[l + 1] BY <3>2, <3>3, <3>4 DEF ForwardStep
    <3>6. o[l + 1] # None
      <4>1. o[l + 1] \in Nat BY <1>2, <3>1 DEF Pooled
      <4> QED BY <4>1 DEF None
    <3>7. t = Append(s, o[l + 1]) BY <2>1, <3>5, <3>6 DEF extend_forward
    <3>8. /\ t \in Seq(Lbas(r)) /\ Len(t) = l + 1 /\ t[l + 1] = o[l + 1]
          /\ \A k \in 1..l : t[k] = s[k]
      <4>1. PICK x : x = o[l + 1] OBVIOUS
      <4>2. s \in Seq(Lbas(r)) /\ x \in Lbas(r) /\ t = Append(s, x) BY <2>3, <3>4, <3>7, <4>1
      <4>3. /\ t \in Seq(Lbas(r)) /\ Len(t) = Len(s) + 1 /\ t[Len(s) + 1] = x
            /\ \A k \in 1..Len(s) : t[k] = s[k]
        BY <4>2
      <4> QED BY <2>2, <4>1, <4>3
    <3>9. \A k \in 1..Len(t) : k \in 1..l \/ k = l + 1 BY <2>4, <3>8
    <3>10. \A k \in 1..Len(t) : t[k] = o[k] BY <2>3, <3>8, <3>9
    <3>11. Len(t) = IF i < n THEN i + 1 ELSE n BY <2>7, <3>1, <3>8
    <3> QED BY <2>0, <3>8, <3>10, <3>11
  <2>8. CASE l = n
    <3>1. NodeAt(r, Last(s)).header.next = 0 BY <1>6, <2>5, <2>8
    <3>2. Last(s) # 0
      <4>1. n # 1 /\ o[n] # o[1] BY <1>1
      <4> QED BY <2>5, <2>8, <4>1
    <3>3. ForwardStep(r, s) = None BY <3>1, <3>2 DEF ForwardStep
    <3>4. t = s BY <2>1, <3>3 DEF extend_forward
    <3>5. ~(i < n) BY <1>1, <2>4, <2>8
    <3>6. Len(t) = IF i < n THEN i + 1 ELSE n BY <2>2, <2>8, <3>4, <3>5
    <3> QED BY <2>0, <2>2, <2>3, <3>4, <3>6
  <2> QED BY <1>1, <2>4, <2>7, <2>8
<1>9. 0 \in G /\ \A i \in 1..m : i - 1 \in G => i \in G
  <2>1. \A i \in 1..m : P(i - 1) => P(i) BY <1>8
  <2>2. 0 \in 0..m /\ \A i \in 1..m : i \in 0..m BY <1>1
  <2> HIDE DEF P
  <2> QED BY <1>7, <2>1, <2>2
<1>10. m \in G
  <2> HIDE DEF G
  <2>1. m \in 0..m BY <1>1
  <2> QED BY <1>1, <1>9, <2>1, UpTo
<1>11. PICK s : s = F[m] OBVIOUS
<1>12. /\ s \in Seq(Lbas(r)) /\ Len(s) = IF m < n THEN m + 1 ELSE n
       /\ \A k \in 1..Len(s) : s[k] = o[k]
  <2>1. P(m) BY <1>10
  <2> QED BY <1>11, <2>1
<1>13. Len(s) = Len(o)
  <2>1. Len(s) = n BY <1>1, <1>12
  <2> QED BY <2>1 DEF n
<1>14. s = o BY <1>1, <1>12, <1>13, SeqEqual
<1> QED BY <1>5, <1>11, <1>14
\* A master alone in both links and named by none else: the reverse map lists it twice.
LEMMA ReverseAlone ==
  ASSUME NEW r, Pooled(r), 0 \in Lbas(r), MaxNodes >= 2,
         NodeAt(r, 0).header.prev = 0, ReverseTail(r) = 0
  PROVE  build_reverse_map(r) = <<0, 0>>
<1> DEFINE n == MaxNodes - 1
           W0 == [order |-> <<>>, current |-> ReverseTail(r)]
           W1 == [order |-> <<0>>, current |-> None]
<1>0. PICK F : /\ Chain("reverse", r, W0, [i \in 1..n |-> i], n, F)
               /\ F[n] = ReverseWalk(r)
  BY ReverseLoop
<1>1. /\ F[0] = W0 /\ F[n] = ReverseWalk(r)
      /\ \A i \in 1..n : F[i] = extend_reverse(r, F[i - 1])
  BY <1>0 DEF Chain, Loop
<1>2. n \in Nat /\ n >= 1 BY ForensicConstants
<1> HIDE DEF n
<1>3. F[1] = W1
  <2>1. F[1] = extend_reverse(r, W0) BY <1>1, <1>2
  <2>2. W0.order = <<>> /\ W0.current = 0 OBVIOUS
  <2>3. 0 \notin Range(<<>>) /\ 0 # None BY DEF Range, None
  <2>4. PICK o : o = Append(<<>>, 0) OBVIOUS
  <2>5. o = <<0>> BY <2>4
  <2>6. F[1] = [order |-> o, current |-> ReverseStep(r, o)]
    BY <2>1, <2>2, <2>3, <2>4 DEF extend_reverse
  <2>7. Last(o) = 0 BY <2>5 DEF Last
  <2>8. ReverseStep(r, o) = None BY <2>7 DEF ReverseStep
  <2> QED BY <2>5, <2>6, <2>8
<1>4. extend_reverse(r, W1) = W1 BY DEF extend_reverse
<1> HIDE DEF W1
<1> DEFINE G == {i \in 0..n : i = 0 \/ F[i] = W1}
<1>5. \A i \in 1..n : i - 1 \in G => i \in G
  <2> SUFFICES ASSUME NEW i \in 1..n, i - 1 \in G PROVE F[i] = W1
    BY <1>2
  <2>1. CASE i = 1 BY <1>3, <2>1
  <2>2. CASE i # 1
    <3>1. F[i - 1] = W1 BY <1>2, <2>2
    <3> QED BY <1>1, <1>4, <3>1
  <2> QED BY <2>1, <2>2
<1>6. F[n] = W1
  <2>1. 0 \in G BY <1>2
  <2> HIDE DEF G
  <2>2. n \in 0..n BY <1>2
  <2>3. n \in G BY <1>2, <1>5, <2>1, <2>2, UpTo
  <2> QED BY <1>2, <2>3 DEF G
<1>7. PICK o, w : o = build_reverse_map(r) /\ w = ReverseWalk(r).order OBVIOUS
<1>8. w = <<0>>
  <2>1. ReverseWalk(r) = W1 BY <1>1, <1>6
  <2>2. W1.order = <<0>> BY DEF W1
  <2> QED BY <1>7, <2>1, <2>2
<1>9. Len(w) = 1 /\ w[1] = 0 BY <1>8
<1>10. /\ o \in Seq(Lbas(r)) /\ Len(o) = Len(w) + 1 /\ o[1] = 0
       /\ \A i \in 1..Len(w) : o[i + 1] = w[Len(w) + 1 - i]
  BY <1>7, ReverseList
<1>11. Len(o) = 2 /\ o[2] = 0
  <2>1. 1 \in 1..Len(w) /\ Len(w) + 1 - 1 = 1 BY <1>9
  <2>2. o[1 + 1] = w[Len(w) + 1 - 1] BY <1>10, <2>1
  <2> QED BY <1>9, <1>10, <2>1, <2>2
<1>12. PICK two : two = <<0, 0>> OBVIOUS
<1>13. two \in Seq(Lbas(r)) /\ Len(two) = 2 /\ two[1] = 0 /\ two[2] = 0 BY <1>12
<1>14. \A i \in 1..Len(o) : o[i] = two[i]
  <2>1. \A i \in 1..Len(o) : i = 1 \/ i = 2 BY <1>11
  <2> QED BY <1>10, <1>11, <1>13, <2>1
<1>15. o = two BY <1>10, <1>11, <1>13, <1>14, SeqEqual
<1> QED BY <1>7, <1>12, <1>15

\* The ring a plan is built for: each header once, or the master alone, twice.
LEMMA PlannedOrder ==
  ASSUME NEW d, Headers(d), NEW m \in DOMAIN apa_forensic_scan(d).maps,
         apa_forensic_scan(d).maps[m].repairable
  PROVE  LET t == Pool(d)
             o == apa_forensic_scan(d).maps[m].order
         IN  /\ o \in Seq(Lbas(t)) /\ Len(o) \in 2..MaxNodes /\ o[1] = 0 /\ ~t.truncated
             /\ \A i \in 1..Len(o) : o[i] \in DOMAIN d /\ Anchored(d[o[i]], o[i])
             /\ Stored(d, apa_forensic_scan(d), o)
             /\ \/ Listed(t, o)
                \/ o = <<0, 0>> /\ ReverseTail(Filed(d)) = 0
<1>0. PICK s, t, r, o : /\ s = apa_forensic_scan(d) /\ t = Pool(d) /\ r = Filed(d)
                        /\ o = s.maps[m].order
  OBVIOUS
<1>1. s.maps \in Seq(Offered(d)) BY <1>0, ScanMaps
<1>2. s.maps[m] \in Offered(d) BY <1>0, <1>1
<1>3. PICK k \in {"FORWARD", "REVERSE", "GEOMETRY"}, q \in Orders(d) :
         s.maps[m] = evaluate_map(r, k, q)
  BY <1>0, <1>2 DEF Offered
<1>4. q = o BY <1>0, <1>3, MapFacts
<1>5. /\ ~r.truncated /\ Len(o) >= 2 /\ o[1] = 0
      /\ \A i \in DOMAIN o : {"MAGIC", "SELF_START", "LENGTH"} \subseteq NodeAt(r, o[i]).evidence
      /\ \A i \in DOMAIN o : \A f \in {"prev", "next"} :
            NodeAt(r, o[i]).header[f] # Desired(o)[i][f] =>
               NodeAt(r, o[i]).header[f] = 0 \/ NodeAt(r, o[i]).header[f] \notin Lbas(r)
  <2>1. PICK e : e = evaluate_map(r, k, q) OBVIOUS
  <2>2. e.repairable BY <1>0, <1>3, <2>1
  <2> QED BY <1>4, <2>1, <2>2, MapFacts
<1>6. /\ Lbas(r) = Lbas(t) /\ \A x : NodeAt(r, x) = NodeAt(t, x)
      /\ r.truncated = t.truncated /\ Pooled(r) /\ Pooled(t) /\ Table(d, t) /\ Found(d, t)
  BY <1>0, FiledTable
<1>7. \A x : NodeAt(s, x) = NodeAt(t, x) BY <1>0, ScanNodes
<1>8. o \in {build_forward_map(t), build_reverse_map(r), build_geometry_map(r)}
  BY <1>0, <1>3, <1>4 DEF Orders
<1>9. \A p : Listed(r, p) => Listed(t, p) BY <1>6 DEF Listed
<1>10. 0 \in Lbas(t)
  <2> SUFFICES ASSUME 0 \notin Lbas(t) PROVE FALSE
    OBVIOUS
  <2>1. CASE o \in {build_forward_map(t), build_reverse_map(r)}
    <3>1. o = <<>> BY <1>6, <2>1 DEF build_forward_map, build_reverse_map
    <3> QED BY <1>5, <3>1
  <2>2. CASE o = build_geometry_map(r)
    <3>1. Listed(t, o) BY <1>6, <1>9, <2>2, GeometryOrder
    <3>2. o \in Seq(Lbas(t)) /\ Len(o) \in Nat BY <3>1 DEF Listed
    <3>3. 1 \in 1..Len(o) BY <1>5, <3>2
    <3>4. o[1] \in Lbas(t) BY <3>2, <3>3
    <3> QED BY <1>5, <3>4
  <2> QED BY <1>8, <2>1, <2>2
<1>11. /\ o \in Seq(Lbas(t)) /\ Len(o) \in 0..MaxNodes
       /\ \/ Listed(t, o)
          \/ o = <<0, 0>> /\ ReverseTail(r) = 0
  <2>1. CASE o = build_forward_map(t)
    <3>1. Listed(t, o) /\ Len(o) \in 1..MaxNodes BY <1>6, <1>10, <2>1, ForwardOrder
    <3> QED BY <3>1 DEF Listed
  <2>2. CASE o = build_geometry_map(r)
    <3>1. Listed(t, o) /\ Len(o) \in 0..MaxNodes BY <1>6, <1>9, <2>2, GeometryOrder
    <3> QED BY <3>1 DEF Listed
  <2>3. CASE o = build_reverse_map(r)
    <3>1. o \in Seq(Lbas(t)) BY <1>6, <1>10, <2>3, ReverseList
    <3>2. /\ Len(o) \in 1..MaxNodes
          /\ \/ Listed(r, o)
             \/ o = <<0, 0>> /\ ReverseTail(r) = 0
             \/ /\ Len(o) >= 3 /\ o[2] = 0 /\ o[3] \in Lbas(r) \ {0}
                /\ NodeAt(r, 0).header.next = o[3]
      BY <1>6, <1>10, <2>3, ReverseShape
    <3>3. ASSUME Len(o) >= 3, o[2] = 0, o[3] \in Lbas(r) \ {0},
                 NodeAt(r, 0).header.next = o[3]
          PROVE  FALSE
      <4>1. PICK l : l = Desired(o)[1] OBVIOUS
      <4>2. Len(o) \in Nat /\ 1 \in 1..Len(o) /\ 1 < Len(o) /\ DOMAIN o = 1..Len(o)
        BY <3>1, <3>2, <3>3
      <4>3. l.next = o[1 + 1]
        <5>1. RingLinks(o, 1, l) BY <4>1, <4>2, DesiredLinks
        <5> QED BY <4>2, <5>1 DEF RingLinks
      <4>4. l.next = 0 BY <3>3, <4>3
      <4>5. NodeAt(r, o[1]).header["next"] # Desired(o)[1]["next"]
        BY <1>5, <3>3, <4>1, <4>4
      <4>6. \/ NodeAt(r, o[1]).header["next"] = 0
            \/ NodeAt(r, o[1]).header["next"] \notin Lbas(r)
        BY <1>5, <4>2, <4>5
      <4> QED BY <1>5, <3>3, <4>6
    <3> QED BY <1>9, <3>1, <3>2, <3>3
  <2> QED BY <1>8, <2>1, <2>2, <2>3
<1>12. DOMAIN o = 1..Len(o) /\ \A i \in 1..Len(o) : o[i] \in Lbas(t) BY <1>11
<1>13. ASSUME NEW i \in 1..Len(o)
       PROVE  /\ o[i] \in DOMAIN d /\ d[o[i]] \in Header /\ NodeAt(s, o[i]).header = d[o[i]]
              /\ Anchored(d[o[i]], o[i])
  <2>1. /\ NodeAt(t, o[i]).header = Read(d, o[i]) /\ NodeAt(t, o[i]).header \in Header
        /\ NodeAt(t, o[i]).evidence \ Sources = Full(Read(d, o[i]), o[i])
    BY <1>6, <1>12, TableFacts
  <2>2. {"MAGIC", "SELF_START", "LENGTH"} \subseteq NodeAt(t, o[i]).evidence
    BY <1>5, <1>6, <1>12
  <2>3. Anchored(Read(d, o[i]), o[i]) BY <2>1, <2>2 DEF Anchored, Sources
  <2>4. Read(d, o[i]).magic BY <2>3, FullEvidence DEF Anchored
  <2>5. o[i] \in DOMAIN d
    <3> SUFFICES ASSUME o[i] \notin DOMAIN d PROVE FALSE
      OBVIOUS
    <3>1. Read(d, o[i]) = Blank BY DEF Read
    <3> QED BY <2>4, <3>1 DEF Blank
  <2>6. Read(d, o[i]) = d[o[i]] BY <2>5 DEF Read
  <2> QED BY <1>7, <2>1, <2>3, <2>5, <2>6
<1>14. Stored(d, s, o) BY <1>12, <1>13 DEF Stored
<1>15. Len(o) \in 2..MaxNodes BY <1>5, <1>11, ForensicConstants
<1> QED BY <1>0, <1>5, <1>6, <1>11, <1>13, <1>14, <1>15

\* A repaired disk is scanned to the same ring again, and its headers have its links.
LEMMA SameRing ==
  ASSUME NEW d, Headers(d), NEW m \in DOMAIN apa_forensic_scan(d).maps,
         apa_forensic_scan(d).maps[m].repairable,
         NEW o, o = apa_forensic_scan(d).maps[m].order,
         NEW g, Headers(g), Repaired(d, o, g)
  PROVE  /\ OnFile(apa_forensic_scan(g), o)
         /\ \A i \in 1..Len(o) : /\ NodeAt(apa_forensic_scan(g), o[i]).header = g[o[i]]
                                 /\ LinksOf(g[o[i]]) = Desired(o)[i]
<1>0. PICK t, u, r, v : t = Pool(d) /\ u = Pool(g) /\ r = Filed(d) /\ v = Filed(g)
  OBVIOUS
<1>1. /\ o \in Seq(Lbas(t)) /\ Len(o) \in 2..MaxNodes /\ o[1] = 0 /\ ~t.truncated
      /\ \A i \in 1..Len(o) : o[i] \in DOMAIN d /\ Anchored(d[o[i]], o[i])
      /\ Listed(t, o) \/ (o = <<0, 0>> /\ ReverseTail(r) = 0)
  BY <1>0, PlannedOrder
<1>2. /\ Found(d, t) /\ Table(d, t) /\ Lbas(r) = Lbas(t) /\ Pooled(r)
      /\ \A x : NodeAt(r, x) = NodeAt(t, x)
  BY <1>0, FiledTable
<1>3. /\ Table(g, u) /\ Pooled(u) /\ Lbas(v) = Lbas(u) /\ Pooled(v)
      /\ \A x : NodeAt(v, x) = NodeAt(u, x)
  BY <1>0, FiledTable
<1>4. RingWritten(d, t, o, g)
  <2>1. Complete(d, t) BY <1>0, <1>1, Discovery DEF Pool
  <2> QED BY <1>1, <1>2, <2>1 DEF RingWritten
<1>5. Lbas(u) \subseteq Lbas(t) BY <1>0, <1>4, Rescan
<1>6. 0 \in Lbas(u) /\ (Listed(t, o) => \A i \in 1..Len(o) : o[i] \in Lbas(u))
  BY <1>0, <1>1, <1>4, RingFound
<1>7. \A i \in 1..Len(o) :
         /\ Read(g, o[i]) = g[o[i]] /\ LinksOf(g[o[i]]) = Desired(o)[i]
         /\ Conf(g[o[i]], o[i]) >= 60
  BY <1>4, RingHeaders
<1>8. \A x \in Lbas(u) : NodeAt(u, x).header = Read(g, x)
                         /\ NodeAt(u, x).confidence = Conf(Read(g, x), x)
  BY <1>3, TableFacts
<1>9. \A i \in 1..Len(o) : o[i] \in Lbas(u)
  <2>1. CASE Listed(t, o) BY <1>6, <2>1
  <2>2. CASE o = <<0, 0>>
    <3>1. \A i \in 1..2 : <<0, 0>>[i] = 0 OBVIOUS
    <3>2. Len(o) = 2 /\ \A i \in 1..2 : o[i] = 0 BY <2>2, <3>1
    <3> QED BY <1>6, <3>2
  <2> QED BY <1>1, <2>1, <2>2
<1>10. \A i \in 1..Len(o) : /\ NodeAt(u, o[i]).header = g[o[i]]
                            /\ NodeAt(u, o[i]).confidence >= 60
  BY <1>7, <1>8, <1>9
<1>11. \A i \in 1..Len(o) : NodeAt(apa_forensic_scan(g), o[i]).header = g[o[i]]
  BY <1>0, <1>10, ScanNodes
<1>12. \A i \in 1..Len(o) : /\ g[o[i]].next = Desired(o)[i].next
                            /\ g[o[i]].prev = Desired(o)[i].prev
  <2> TAKE i \in 1..Len(o)
  <2>1. LinksOf(g[o[i]]).next = g[o[i]].next /\ LinksOf(g[o[i]]).prev = g[o[i]].prev
    BY DEF LinksOf
  <2> QED BY <1>7, <2>1
<1>13. CASE Listed(t, o)
  <2>1. Listed(u, o)
    <3>1. Len(o) \in Nat /\ DOMAIN o = 1..Len(o) /\ \A i, j \in 1..Len(o) : o[i] = o[j] => i = j
      BY <1>13 DEF Listed
    <3>2. o \in Seq(Lbas(u))
      <4>1. o \in [1..Len(o) -> Lbas(u)] BY <1>1, <1>9, <3>1
      <4> QED BY <3>1, <4>1
    <3> QED BY <3>1, <3>2 DEF Listed
  <2>2. \A i \in 1..Len(o) : NodeAt(u, o[i]).header.next = Desired(o)[i].next
    BY <1>10, <1>12
  <2>3. build_forward_map(u) = o BY <1>1, <1>3, <2>1, <2>2, ForwardFollows
  <2>4. o # <<>>
    <3>1. Len(<<>>) = 0 OBVIOUS
    <3> QED BY <1>1, <3>1
  <2>5. OnFile(apa_forensic_scan(g), o) BY <1>0, <2>3, <2>4, ScanMaps
  <2> QED BY <1>7, <1>11, <2>5
<1>14. CASE o = <<0, 0>> /\ ReverseTail(r) = 0
  <2>1. Len(o) = 2 /\ o[1] = 0 /\ o[2] = 0 BY <1>14
  <2>2. Desired(o)[1].next = 0 /\ Desired(o)[1].prev = 0
    <3>1. PICK l : l = Desired(o)[1] OBVIOUS
    <3>2. 1 \in 1..Len(o) /\ Len(o) \in Nat /\ 1 < Len(o) /\ Len(o) > 1 BY <2>1
    <3>3. l.next = o[1 + 1] /\ l.prev = o[Len(o)]
      <4>1. RingLinks(o, 1, l) BY <3>1, <3>2, DesiredLinks
      <4> QED BY <3>2, <4>1 DEF RingLinks
    <3> QED BY <2>1, <3>1, <3>3
  <2>3. /\ NodeAt(u, 0).header.next = 0 /\ NodeAt(u, 0).header.prev = 0
        /\ NodeAt(u, 0).confidence >= 60
    <3>1. 1 \in 1..Len(o) BY <2>1
    <3> QED BY <1>10, <1>12, <2>1, <2>2, <3>1
  <2>4. Pointing(r, {}, 0, "next") = {0}
    <3> DEFINE prev == NodeAt(r, 0).header.prev
               first == unique_link_candidate(r, {}, 0, "next")
    <3>1. 0 = IF prev # 0 /\ prev \in Lbas(r) THEN prev ELSE first
      BY <1>14 DEF ReverseTail
    <3>2. \/ Pointing(r, {}, 0, "next") = {first}
          \/ first = None
      BY <1>2, LinkCandidate
    <3> HIDE DEF prev, first
    <3>3. first = 0 BY <3>1
    <3> QED BY <3>2, <3>3 DEF None
  <2>5. Pointing(v, {}, 0, "next") = {0}
    <3>1. ASSUME NEW c \in Pointing(v, {}, 0, "next") PROVE c = 0
      <4> SUFFICES ASSUME c # 0 PROVE FALSE
        OBVIOUS
      <4>1. /\ c \in Lbas(u) /\ NodeAt(u, c).confidence >= 55
            /\ NodeAt(u, c).header["next"] = 0
        BY <1>3, <3>1 DEF Pointing
      <4>2. c \notin Range(o)
        <5>1. DOMAIN o = 1..2 BY <2>1, <1>1
        <5>2. \A i \in 1..2 : o[i] = 0 BY <2>1
        <5> QED BY <5>1, <5>2 DEF Range
      <4>3. Read(g, c) = Read(d, c) BY <4>2 DEF Repaired, Read
      <4>4. NodeAt(u, c).header = Read(g, c) /\ NodeAt(u, c).confidence = Conf(Read(g, c), c)
        BY <1>8, <4>1
      <4>5. c \in Lbas(t) BY <1>5, <4>1
      <4>6. NodeAt(t, c).header = Read(d, c) /\ NodeAt(t, c).confidence = Conf(Read(d, c), c)
        BY <1>2, <4>5, TableFacts
      <4>7. c \in Pointing(r, {}, 0, "next")
        BY <1>2, <4>1, <4>3, <4>4, <4>5, <4>6 DEF Pointing
      <4> QED BY <2>4, <4>7
    <3>2. 0 \in Pointing(v, {}, 0, "next")
      <4>1. NodeAt(v, 0).confidence >= 55
        <5>1. \A a \in Nat : a >= 60 => a >= 55 OBVIOUS
        <5>2. NodeAt(u, 0).confidence \in Nat BY <1>6, <1>8, Confidences
        <5> QED BY <1>3, <2>3, <5>1, <5>2
      <4> QED BY <1>3, <1>6, <2>3, <4>1 DEF Pointing
    <3> QED BY <3>1, <3>2
  <2>6. ReverseTail(v) = 0
    <3> DEFINE first == unique_link_candidate(v, {}, 0, "next")
    <3>1. \/ Pointing(v, {}, 0, "next") = {first}
          \/ first = None /\ ~\E x : Pointing(v, {}, 0, "next") = {x}
      BY <1>3, LinkCandidate
    <3>2. ReverseTail(v) = first BY <1>3, <2>3 DEF ReverseTail
    <3> HIDE DEF first
    <3> QED BY <2>5, <3>1, <3>2
  <2>7. build_reverse_map(v) = o
    <3>1. MaxNodes >= 2 BY <1>1, <2>1, ForensicConstants
    <3>2. 0 \in Lbas(v) /\ NodeAt(v, 0).header.prev = 0 BY <1>3, <1>6, <2>3
    <3> QED BY <1>3, <1>14, <2>6, <3>1, <3>2, ReverseAlone
  <2>8. o # <<>>
    <3>1. Len(<<>>) = 0 OBVIOUS
    <3> QED BY <1>1, <3>1
  <2>9. OnFile(apa_forensic_scan(g), o) BY <1>0, <2>7, <2>8, ScanMaps
  <2> QED BY <1>7, <1>11, <2>9
<1> QED BY <1>1, <1>13, <1>14

\* Writing any plan the screen lets through ends the matter: the headers of the ring
\* keep the evidence that led to them, nothing leads further than before, so the
\* table cannot overflow, and the walk along the links just written lists the ring.
THEOREM Converges == PlannerSpec => []PlanConverges
<1>1. PInv => PlanConverges
  <2> SUFFICES ASSUME PInv, plan.manual_allowed PROVE PlanConverges
    BY DEF PlanConverges
  <2>1. plan.patches # <<>>
    <3> SUFFICES ASSUME plan.patches = <<>> PROVE FALSE
      OBVIOUS
    <3>1. CASE plan = NoPlan BY <3>1 DEF NoPlan
    <3>2. ASSUME NEW m \in DOMAIN scan.maps,
                 plan = apa_forensic_build_repair_plan(scan, m)
          PROVE  FALSE
      <4>1. plan.manual_allowed = FALSE
        BY <3>2, Zenon DEF apa_forensic_build_repair_plan, NoPlan
      <4> QED BY <4>1
    <3> QED BY <3>1, <3>2 DEF PInv
  <2>2. scan = apa_forensic_scan(disk) /\ Headers(disk) BY <2>1, PlanScan DEF PInv
  <2>3. PICK m \in DOMAIN scan.maps : /\ scan.maps[m].repairable
                                      /\ plan = apa_forensic_build_repair_plan(scan, m)
    BY <2>1, PlanScan
  <2>4. PICK o : o = scan.maps[m].order OBVIOUS
  <2>5. /\ o \in Seq(Lbas(Pool(disk))) /\ Len(o) \in 2..MaxNodes
        /\ Stored(disk, scan, o) /\ (Listed(Pool(disk), o) \/ o = <<0, 0>>)
    BY <2>2, <2>3, <2>4, PlannedOrder
  <2>6. o \in Seq(Nat) /\ DOMAIN o = 1..Len(o) /\ Len(o) \in 0..MaxNodes
    <3>1. Lbas(Pool(disk)) \in SUBSET Nat BY <2>2, FiledTable, TableFacts
    <3>2. DOMAIN o = 1..Len(o) /\ Len(o) \in 0..MaxNodes BY <2>5, ForensicConstants
    <3> QED BY <2>5, <3>1, <3>2
  <2>7. Consistent(o)
    <3>1. CASE Listed(Pool(disk), o) BY <2>6, <3>1 DEF Listed, Consistent
    <3>2. CASE o = <<0, 0>>
      <4>1. Len(o) = 2 /\ o[1] = 0 /\ o[2] = 0 BY <3>2
      <4>2. Desired(o)[1] = Desired(o)[2] BY <4>1 DEF Desired
      <4>3. \A i \in DOMAIN o : i = 1 \/ i = 2 BY <2>6, <4>1
      <4> QED BY <4>2, <4>3 DEF Consistent
    <3> QED BY <2>5, <3>1, <3>2
  <2>8. PICK g : g = Applied(disk, scan, plan) OBVIOUS
  <2>9. Repaired(disk, o, g) BY <2>1, <2>3, <2>4, <2>5, <2>6, <2>7, <2>8, AppliedRing
  <2>10. Headers(g)
    <3> SUFFICES ASSUME NEW x \in DOMAIN g PROVE g[x] \in Header \cup {Unreadable}
      BY DEF Headers
    <3>1. x \in DOMAIN disk BY <2>9 DEF Repaired
    <3>2. CASE x \in Range(o)
      <4>1. PICK i \in DOMAIN o : x = o[i] BY <3>2 DEF Range
      <4> QED BY <2>9, <4>1 DEF Repaired
    <3>3. CASE x \notin Range(o) BY <2>2, <2>9, <3>1, <3>3 DEF Repaired, Headers
    <3> QED BY <3>2, <3>3
  <2>11. PICK again : again = apa_forensic_scan(g) OBVIOUS
  <2>12. /\ OnFile(again, o)
         /\ \A i \in 1..Len(o) : /\ NodeAt(again, o[i]).header = g[o[i]]
                                 /\ LinksOf(g[o[i]]) = Desired(o)[i]
    BY <2>2, <2>3, <2>4, <2>9, <2>10, <2>11, SameRing
  <2>13. PICK n \in DOMAIN again.maps : again.maps[n].order = o BY <2>12 DEF OnFile
  <2>14. \A i \in DOMAIN o : Fine(again, o, i)
    <3> TAKE i \in DOMAIN o
    <3>1. PICK h, l : h = g[o[i]] /\ l = Desired(o)[i] OBVIOUS
    <3>2. h \in Header /\ LinksOf(h) = l /\ NodeAt(again, o[i]).header = h
      BY <2>6, <2>9, <2>12, <3>1 DEF Repaired
    <3>3. h.next = l.next /\ h.prev = l.prev BY <3>2 DEF LinksOf
    <3>4. Relinked(h, l) = h BY <3>2, <3>3 DEF Relinked, Header
    <3> QED BY <3>1, <3>2, <3>4 DEF Fine
  <2>15. apa_forensic_build_repair_plan(again, n).patches = <<>>
    BY <2>6, <2>13, <2>14, PlanPatches DEF PatchesFor
  <2>16. plan.map = m
    <3>1. apa_forensic_build_repair_plan(scan, m).map = m
      BY DEF apa_forensic_build_repair_plan, NoPlan
    <3> QED BY <2>3, <3>1
  <2> QED BY <2>4, <2>8, <2>11, <2>13, <2>15, <2>16 DEF PlanConverges
<1> QED BY <1>1, PlannerInvariance, PTL

-----------------------------------------------------------------------------
(* The scan of an undamaged disk.                                          *)

\* Where the links run through o, the reverse map is o.
LEMMA ReverseFollows ==
  ASSUME NEW r, Pooled(r), NEW o, Listed(r, o), o[1] = 0, Len(o) \in 2..MaxNodes,
         \A i \in 1..Len(o) : NodeAt(r, o[i]).header.prev = Desired(o)[i].prev
  PROVE  build_reverse_map(r) = o
<1> DEFINE m == MaxNodes - 1
           n == Len(o)
           W0 == [order |-> <<>>, current |-> ReverseTail(r)]
<1>1. /\ o \in Seq(Lbas(r)) /\ n \in Nat /\ DOMAIN o = 1..n /\ 1 \in 1..n /\ n \in 1..n
      /\ \A i, j \in 1..n : o[i] = o[j] => i = j
      /\ m \in Nat /\ n >= 2 /\ n - 1 <= m
  BY ForensicConstants DEF Listed
<1>2. \A i \in 1..n : o[i] \in Lbas(r) /\ o[i] \in Nat BY <1>1 DEF Pooled
<1>3. 0 \in Lbas(r) BY <1>1, <1>2
<1>4. PICK F : /\ Chain("reverse", r, W0, [i \in 1..m |-> i], m, F)
               /\ F[m] = ReverseWalk(r)
  BY ReverseLoop
<1>5. /\ F[0] = W0 /\ F[m] = ReverseWalk(r)
      /\ \A i \in 1..m : F[i] = extend_reverse(r, F[i - 1])
  BY <1>4 DEF Chain, Loop
<1>6. \A i \in 1..n : /\ i = 1 => NodeAt(r, o[i]).header.prev = o[n]
                      /\ i = 2 => NodeAt(r, o[i]).header.prev = 0
                      /\ i > 2 => NodeAt(r, o[i]).header.prev = o[i - 1]
  <2> TAKE i \in 1..n
  <2>1. PICK l : l = Desired(o)[i] OBVIOUS
  <2>2. (i = 1 => l.prev = o[n]) /\ (i = 2 => l.prev = 0) /\ (i > 2 => l.prev = o[i - 1])
    <3>1. i \in 1..Len(o) /\ Len(o) \in Nat /\ Len(o) > 1 BY <1>1
    <3>2. /\ i = 1 /\ Len(o) > 1 => l.prev = o[Len(o)]
          /\ i = 2 => l.prev = 0
          /\ i > 2 => l.prev = o[i - 1]
      <4>1. RingLinks(o, i, l) BY <2>1, <3>1, DesiredLinks
      <4> QED BY <4>1 DEF RingLinks
    <3> QED BY <3>1, <3>2
  <2>3. NodeAt(r, o[i]).header.prev = l.prev BY <2>1
  <2> QED BY <2>2, <2>3
<1>7. \A i \in 2..n : o[i] # 0
  <2> TAKE i \in 2..n
  <2>1. i \in 1..n /\ i # 1 BY <1>1
  <2> QED BY <1>1, <2>1
<1>8. ReverseTail(r) = o[n]
  <2>1. NodeAt(r, 0).header.prev = o[n] BY <1>1, <1>6
  <2>2. o[n] # 0 /\ o[n] \in Lbas(r)
    <3>1. n \in 2..n BY <1>1
    <3> QED BY <1>1, <1>2, <1>7, <3>1
  <2> QED BY <2>1, <2>2 DEF ReverseTail
<1> HIDE DEF m, n
<1> DEFINE P(i) == /\ F[i].order \in Seq(Lbas(r))
                   /\ Len(F[i].order) = IF i < n - 1 THEN i ELSE n - 1
                   /\ \A k \in 1..Len(F[i].order) : F[i].order[k] = o[n + 1 - k]
                   /\ F[i].current = IF i < n - 1 THEN o[n - i] ELSE None
           G == {i \in 0..m : P(i)}
<1>9. P(0)
  <2>1. F[0].order = <<>> /\ F[0].current = o[n] BY <1>5, <1>8
  <2>2. 0 < n - 1 /\ n - 0 = n BY <1>1
  <2>3. PICK s : s = <<>> OBVIOUS
  <2>4. s \in Seq(Lbas(r)) /\ Len(s) = 0 /\ 1..0 = {} BY <2>3
  <2>5. F[0].order = s BY <2>1, <2>3
  <2> QED BY <2>1, <2>2, <2>4, <2>5
<1>10. ASSUME NEW i \in 1..m, P(i - 1) PROVE P(i)
  <2>0. PICK w, v, s, t : w = F[i - 1] /\ v = F[i] /\ s = w.order /\ t = v.order OBVIOUS
  <2>1. v = extend_reverse(r, w) BY <1>5, <2>0
  <2>2. PICK l : l = Len(s) OBVIOUS
  <2>3. /\ s \in Seq(Lbas(r)) /\ l = (IF i - 1 < n - 1 THEN i - 1 ELSE n - 1)
        /\ \A k \in 1..l : s[k] = o[n + 1 - k]
        /\ w.current = IF i - 1 < n - 1 THEN o[n - (i - 1)] ELSE None
    BY <1>10, <2>0, <2>2
  <2>4. i \in Nat /\ l \in Nat BY <1>1, <2>3
  <2>5. CASE i - 1 < n - 1
    <3> DEFINE j == n + 1 - i
    <3>1. j \in 2..n /\ j \in 1..n /\ n - (i - 1) = j /\ l = i - 1 BY <1>1, <2>3, <2>4, <2>5
    <3>2. PICK x : x = o[j] OBVIOUS
    <3>3. w.current = x /\ x \in Lbas(r) /\ x \in Nat /\ x # None
      BY <1>2, <2>3, <2>5, <3>1, <3>2 DEF None
    <3>4. x \notin Range(s)
      <4>0. s \in Seq(Lbas(r)) BY <2>3
      <4>1. DOMAIN s = 1..l BY <2>2, <4>0
      <4>2. \A k \in 1..l : n + 1 - k \in 1..n /\ n + 1 - k # j BY <1>1, <2>4, <3>1
      <4>3. \A k \in 1..l : s[k] # x BY <1>1, <2>3, <3>1, <3>2, <4>2
      <4> QED BY <4>1, <4>3 DEF Range
    <3>5. t = Append(s, x) /\ v.current = ReverseStep(r, t)
      BY <2>0, <2>1, <3>3, <3>4 DEF extend_reverse
    <3>6. /\ t \in Seq(Lbas(r)) /\ Len(t) = l + 1 /\ t[l + 1] = x
          /\ \A k \in 1..l : t[k] = s[k]
      <4>1. /\ t \in Seq(Lbas(r)) /\ Len(t) = Len(s) + 1 /\ t[Len(s) + 1] = x
            /\ \A k \in 1..Len(s) : t[k] = s[k]
        BY <2>3, <3>3, <3>5
      <4> QED BY <2>2, <4>1
    <3>7. Len(t) = i /\ (i < n - 1 \/ i = n - 1) BY <1>1, <2>4, <2>5, <3>1, <3>6
    <3>8. \A k \in 1..Len(t) : t[k] = o[n + 1 - k]
      <4>1. \A k \in 1..Len(t) : k \in 1..l \/ k = l + 1 BY <2>4, <3>6
      <4>2. n + 1 - (l + 1) = j BY <1>1, <3>1
      <4> QED BY <2>3, <3>2, <3>6, <4>1, <4>2
    <3>9. Last(t) = x BY <3>6, <3>7, <3>1 DEF Last
    <3>10. v.current = IF i < n - 1 THEN o[n - i] ELSE None
      <4>1. CASE i < n - 1
        <5>1. j > 2 /\ j - 1 \in 2..n /\ j - 1 \in 1..n /\ j - 1 = n - i
          BY <1>1, <2>4, <3>1, <4>1
        <5>2. NodeAt(r, x).header.prev = o[n - i] BY <1>6, <3>1, <3>2, <5>1
        <5>3. o[n - i] # 0 /\ o[n - i] \in Lbas(r) BY <1>2, <1>7, <5>1
        <5>4. ReverseStep(r, t) = o[n - i] BY <3>9, <5>2, <5>3 DEF ReverseStep
        <5> QED BY <3>5, <4>1, <5>4
      <4>2. CASE i = n - 1
        <5>1. j = 2 /\ ~(i < n - 1) BY <1>1, <2>4, <4>2
        <5>2. NodeAt(r, x).header.prev = 0 BY <1>6, <3>1, <3>2, <5>1
        <5>3. ReverseStep(r, t) = None BY <3>9, <5>2 DEF ReverseStep
        <5> QED BY <3>5, <5>1, <5>3
      <4> QED BY <3>7, <4>1, <4>2
    <3>11. Len(t) = IF i < n - 1 THEN i ELSE n - 1 BY <3>7
    <3> QED BY <2>0, <3>6, <3>8, <3>10, <3>11
  <2>6. CASE ~(i - 1 < n - 1)
    <3>1. v = w BY <2>1, <2>3, <2>6 DEF extend_reverse
    <3>2. ~(i < n - 1) BY <1>1, <2>4, <2>6
    <3>3. t = s BY <2>0, <3>1
    <3>4. Len(t) = IF i < n - 1 THEN i ELSE n - 1 BY <2>2, <2>3, <2>6, <3>2, <3>3
    <3>5. v.current = IF i < n - 1 THEN o[n - i] ELSE None BY <2>3, <2>6, <3>1, <3>2
    <3> QED BY <2>0, <2>2, <2>3, <3>3, <3>4, <3>5
  <2> QED BY <2>5, <2>6
<1>11. 0 \in G /\ \A i \in 1..m : i - 1 \in G => i \in G
  <2>1. \A i \in 1..m : P(i - 1) => P(i) BY <1>10
  <2>2. 0 \in 0..m /\ \A i \in 1..m : i \in 0..m BY <1>1
  <2> HIDE DEF P
  <2> QED BY <1>9, <2>1, <2>2
<1>12. m \in G
  <2> HIDE DEF G
  <2>1. m \in 0..m BY <1>1
  <2> QED BY <1>1, <1>11, <2>1, UpTo
<1>13. PICK s : s = F[m].order OBVIOUS
<1>14. Len(s) = n - 1 /\ \A k \in 1..Len(s) : s[k] = o[n + 1 - k]
  <2>1. P(m) BY <1>12
  <2>2. ~(m < n - 1) BY <1>1
  <2> QED BY <1>13, <2>1, <2>2
<1>15. PICK z : z = build_reverse_map(r) OBVIOUS
<1>16. /\ z \in Seq(Lbas(r)) /\ Len(z) = Len(s) + 1 /\ z[1] = 0
       /\ \A i \in 1..Len(s) : z[i + 1] = s[Len(s) + 1 - i]
  BY <1>3, <1>5, <1>13, <1>15, ReverseList
<1>17. Len(z) = Len(o)
  <2>1. Len(z) = n BY <1>1, <1>14, <1>16
  <2> QED BY <2>1 DEF n
<1>18. \A i \in 1..Len(z) : z[i] = o[i]
  <2> TAKE i \in 1..Len(z)
  <2>1. CASE i = 1 BY <1>16, <2>1
  <2>2. CASE i # 1
    <3> DEFINE p == i - 1
               q == n - p
    <3>1. Len(z) = n BY <1>17 DEF n
    <3>2. /\ p \in 1..Len(s) /\ p + 1 = i /\ q \in 1..Len(s) /\ Len(s) + 1 - p = q
          /\ n + 1 - q = i
      BY <1>1, <1>14, <2>2, <3>1
    <3>3. z[p + 1] = s[Len(s) + 1 - p] BY <1>16, <3>2
    <3>4. s[q] = o[n + 1 - q] BY <1>14, <3>2
    <3> QED BY <3>2, <3>3, <3>4
  <2> QED BY <2>1, <2>2
<1>19. z = o BY <1>1, <1>16, <1>17, <1>18, SeqEqual
<1> QED BY <1>15, <1>19

\* Facts about a formatted disk in which o lists the partitions.
Formatted(d, o) ==
    /\ Headers(d) /\ DOMAIN d \in SUBSET Nat /\ IsFiniteSet(DOMAIN d)
    /\ \A x \in DOMAIN d : Sound(d[x], x)
    /\ RingOf(d) \in SUBSET DOMAIN d /\ IsFiniteSet(RingOf(d)) /\ o = sort_by_lba(RingOf(d))
    /\ Len(o) = Cardinality(RingOf(d)) /\ Len(o) \in Nat /\ Len(o) >= 2 /\ o[1] = 0
    /\ DOMAIN o = 1..Len(o) /\ o \in Seq(RingOf(d)) /\ Range(o) = RingOf(d)
    /\ \A i, j \in 1..Len(o) : i < j => o[i] < o[j]
    /\ \A i, j \in 1..Len(o) : o[i] = o[j] => i = j
    /\ \A i \in 1..Len(o) : o[i] \in DOMAIN d /\ LinksOf(d[o[i]]) = Desired(o)[i]

\* The master is the first partition.
LEMMA HealthyRing ==
  ASSUME NEW d, Healthy(d)
  PROVE  Formatted(d, sort_by_lba(RingOf(d)))
<1> DEFINE R == RingOf(d)
<1>1. PICK o : o = sort_by_lba(RingOf(d)) OBVIOUS
<1>2. /\ 0 \in DOMAIN d /\ DOMAIN d \subseteq 0..(Total - 1)
      /\ \A x \in DOMAIN d : Sound(d[x], x)
      /\ Cardinality(R) >= 2
      /\ \A i \in DOMAIN o : LinksOf(d[o[i]]) = Desired(o)[i]
  BY <1>1 DEF Healthy
<1>3. DOMAIN d \in SUBSET Nat /\ IsFiniteSet(DOMAIN d)
  <2>1. 0..(Total - 1) \in SUBSET Nat /\ IsFiniteSet(0..(Total - 1))
    <3>1. Total - 1 \in Int /\ 0 \in Int BY ForensicConstants
    <3>2. IsFiniteSet(0..(Total - 1)) BY <3>1, FS_Interval
    <3>3. 0..(Total - 1) \in SUBSET Nat BY <3>1
    <3> QED BY <3>2, <3>3
  <2> QED BY <1>2, <2>1, FS_Subset
<1>4. R \in SUBSET DOMAIN d /\ 0 \in R BY <1>2 DEF RingOf
<1>5. R \in SUBSET Nat /\ IsFiniteSet(R) BY <1>3, <1>4, FS_Subset
<1>6. Headers(d) BY <1>2 DEF Headers, Sound
<1> HIDE DEF R
<1>7. /\ Cardinality(R) \in Nat /\ o \in Seq(R) /\ Len(o) = Cardinality(R)
      /\ DOMAIN o = 1..Cardinality(R)
      /\ \A x \in R : \E i \in 1..Len(o) : o[i] = x
      /\ \A i, j \in 1..Len(o) : i < j => o[i] < o[j]
      /\ \A i, j \in 1..Len(o) : o[i] = o[j] => i = j
  BY <1>1, <1>5, SortedOnto DEF R
<1>8. \A i \in 1..Len(o) : o[i] \in R BY <1>7
<1>9. Range(o) = R BY <1>7, <1>8 DEF Range
<1>10. o[1] = 0
  <2>1. PICK i \in 1..Len(o) : o[i] = 0 BY <1>4, <1>7
  <2>2. CASE i = 1 BY <2>1, <2>2
  <2>3. CASE i # 1
    <3>1. 1 \in 1..Len(o) /\ 1 < i BY <1>7, <2>3
    <3>2. o[1] < 0 BY <1>7, <2>1, <3>1
    <3>3. o[1] \in Nat BY <1>5, <1>8, <3>1
    <3> QED BY <3>2, <3>3
  <2> QED BY <2>2, <2>3
<1>11. \A i \in 1..Len(o) : o[i] \in DOMAIN d /\ LinksOf(d[o[i]]) = Desired(o)[i]
  BY <1>2, <1>4, <1>7, <1>8
<1>12. Len(o) \in Nat /\ Len(o) >= 2 BY <1>2, <1>7
<1> QED BY <1>1, <1>2, <1>3, <1>4, <1>5, <1>6, <1>7, <1>9, <1>10, <1>11, <1>12
        DEF Formatted, R

\* Where nothing is stored there is nothing to find.
LEMMA BlankIgnored ==
  ASSUME NEW d, 0 \in DOMAIN d, NEW x, x \notin DOMAIN d, NEW source
  PROVE  ~Accepts(d, x, source)
<1>1. Read(d, x) = Blank BY DEF Read
<1>2. ~Blank.magic /\ Blank.length = 0 /\ ~id_plausible(Blank.id)
  BY DEF Blank, id_plausible
<1>3. {"MAGIC", "LENGTH", "ID"} \cap Full(Blank, x) = {} BY <1>2, FullEvidence
<1>4. Conf(Blank, x) = 0 BY <1>3, Confidences
<1>5. x # 0 OBVIOUS
<1> QED BY <1>1, <1>4, <1>5 DEF Accepts

\* The table of a formatted disk that fits: its partitions, and of the remnants some.
LEMMA HealthyPool ==
  ASSUME NEW d, Healthy(d), Cardinality(DOMAIN d) <= MaxNodes, NEW o, Formatted(d, o)
  PROVE  LET u == Pool(d)
         IN  /\ Lbas(u) \subseteq DOMAIN d /\ ~u.truncated /\ RingOf(d) \subseteq Lbas(u)
             /\ \A x \in Lbas(u) : /\ NodeAt(u, x).header = d[x]
                                   /\ NodeAt(u, x).confidence \in Nat
                                   /\ NodeAt(u, x).confidence >= 60
                                   /\ NodeAt(u, x).evidence \ Sources = Full(d[x], x)
                                   /\ Sure \subseteq NodeAt(u, x).evidence
<1>1. PICK u : u = Pool(d) OBVIOUS
<1>2. /\ Headers(d) /\ DOMAIN d \in SUBSET Nat /\ IsFiniteSet(DOMAIN d)
      /\ \A x \in DOMAIN d : Sound(d[x], x)
  BY DEF Formatted
<1>3. 0 \in DOMAIN d BY DEF Healthy
<1>4. Closed(d, DOMAIN d)
  <2>1. \A x, source : Accepts(d, x, source) => x \in DOMAIN d BY <1>3, BlankIgnored
  <2> QED BY <2>1 DEF Closed, Seed, Names
<1>5. Lbas(u) \subseteq DOMAIN d /\ ~u.truncated /\ Complete(d, u)
  BY <1>1, <1>2, <1>4, Confined
<1>6. RingOn(d, o)
  <2>1. /\ Len(o) \in Nat /\ Len(o) >= 2 /\ o[1] = 0
        /\ \A i, j \in 1..Len(o) : o[i] = o[j] => i = j
        /\ \A i \in 1..Len(o) : o[i] \in DOMAIN d /\ LinksOf(d[o[i]]) = Desired(o)[i]
    BY DEF Formatted
  <2>2. Len(o) \in Nat \ {0} BY <2>1
  <2>3. \A x \in DOMAIN d : /\ Read(d, x) = d[x] /\ Cand(d, x)
                            /\ \A source \in Sources : Accepts(d, x, source)
    BY <1>2, SoundHeader
  <2> QED BY <2>1, <2>2, <2>3 DEF RingOn
<1>7. \A i \in 1..Len(o) : o[i] \in Lbas(u) BY <1>5, <1>6, RingReached
<1>8. RingOf(d) \subseteq Lbas(u)
  <2>1. Range(o) = RingOf(d) /\ DOMAIN o = 1..Len(o) BY DEF Formatted
  <2> QED BY <1>7, <2>1 DEF Range
<1>9. ASSUME NEW x \in Lbas(u)
      PROVE  /\ NodeAt(u, x).header = d[x]
             /\ NodeAt(u, x).confidence \in Nat /\ NodeAt(u, x).confidence >= 60
             /\ NodeAt(u, x).evidence \ Sources = Full(d[x], x)
             /\ Sure \subseteq NodeAt(u, x).evidence
  <2>1. Table(d, u) BY <1>1, <1>2, FiledTable
  <2>2. /\ NodeAt(u, x).header = Read(d, x) /\ NodeAt(u, x).confidence = Conf(Read(d, x), x)
        /\ NodeAt(u, x).evidence \ Sources = Full(Read(d, x), x)
    BY <2>1, TableFacts
  <2>3. x \in DOMAIN d /\ x \in Nat /\ Sound(d[x], x) BY <1>2, <1>5
  <2>4. Read(d, x) = d[x] /\ Conf(d[x], x) >= 60 /\ Sure \subseteq Full(d[x], x)
    BY <2>3, SoundHeader
  <2>5. Conf(d[x], x) \in Nat BY Confidences
  <2> QED BY <2>2, <2>4, <2>5
<1> QED BY <1>1, <1>5, <1>8, <1>9

\* The three methods list the ring, and only its headers count.
LEMMA HealthyOrders ==
  ASSUME NEW d, Healthy(d), Cardinality(DOMAIN d) <= MaxNodes, NEW o, Formatted(d, o)
  PROVE  /\ build_forward_map(Pool(d)) = o
         /\ build_reverse_map(Filed(d)) = o
         /\ build_geometry_map(Filed(d)) = o
         /\ Lbas(Filed(d)) \ Filed(d).dormant = RingOf(d)
<1>1. PICK u, r : u = Pool(d) /\ r = Filed(d) OBVIOUS
<1>2. /\ Lbas(u) \subseteq DOMAIN d /\ RingOf(d) \subseteq Lbas(u)
      /\ \A x \in Lbas(u) : /\ NodeAt(u, x).header = d[x]
                            /\ NodeAt(u, x).confidence \in Nat
                            /\ NodeAt(u, x).confidence >= 60
                            /\ NodeAt(u, x).evidence \ Sources = Full(d[x], x)
                            /\ Sure \subseteq NodeAt(u, x).evidence
  BY <1>1, HealthyPool
<1>3. /\ Headers(d) /\ DOMAIN d \in SUBSET Nat /\ IsFiniteSet(DOMAIN d)
      /\ \A x \in DOMAIN d : Sound(d[x], x)
      /\ IsFiniteSet(RingOf(d)) /\ o = sort_by_lba(RingOf(d))
      /\ Len(o) = Cardinality(RingOf(d)) /\ Len(o) \in Nat /\ Len(o) >= 2 /\ o[1] = 0
      /\ DOMAIN o = 1..Len(o) /\ o \in Seq(RingOf(d)) /\ Range(o) = RingOf(d)
      /\ \A i, j \in 1..Len(o) : o[i] = o[j] => i = j
      /\ \A i \in 1..Len(o) : o[i] \in DOMAIN d /\ LinksOf(d[o[i]]) = Desired(o)[i]
  BY DEF Formatted
<1>4. /\ Lbas(r) = Lbas(u) /\ \A x : NodeAt(r, x) = NodeAt(u, x)
      /\ Pooled(r) /\ Pooled(u)
  BY <1>1, <1>3, FiledTable
<1>5. Len(o) \in 2..MaxNodes
  <2>1. Cardinality(RingOf(d)) <= Cardinality(DOMAIN d)
    <3>1. RingOf(d) \in SUBSET DOMAIN d BY <1>2
    <3> QED BY <1>3, <3>1, FS_Subset
  <2>2. Cardinality(DOMAIN d) \in Nat /\ MaxNodes \in Nat
    BY <1>3, FS_CardinalityType, ForensicConstants
  <2> QED BY <1>3, <2>1, <2>2
<1>6. Listed(u, o) /\ Listed(r, o)
  <2>1. o \in Seq(Lbas(u))
    <3>1. \A i \in 1..Len(o) : o[i] \in Lbas(u) BY <1>2, <1>3
    <3>2. o \in [1..Len(o) -> Lbas(u)] BY <1>3, <3>1
    <3> QED BY <1>3, <3>2
  <2> QED BY <1>3, <1>4, <2>1 DEF Listed
<1>7. \A i \in 1..Len(o) : /\ NodeAt(u, o[i]).header.next = Desired(o)[i].next
                           /\ NodeAt(u, o[i]).header.prev = Desired(o)[i].prev
  <2> TAKE i \in 1..Len(o)
  <2>1. o[i] \in Lbas(u) BY <1>2, <1>3
  <2>2. NodeAt(u, o[i]).header = d[o[i]] BY <1>2, <2>1
  <2>3. LinksOf(d[o[i]]).next = d[o[i]].next /\ LinksOf(d[o[i]]).prev = d[o[i]].prev
    BY DEF LinksOf
  <2>4. LinksOf(d[o[i]]) = Desired(o)[i] BY <1>3
  <2> QED BY <2>2, <2>3, <2>4
<1>8. build_forward_map(u) = o BY <1>3, <1>4, <1>5, <1>6, <1>7, ForwardFollows
<1>9. build_reverse_map(r) = o
  <2>1. \A i \in 1..Len(o) : NodeAt(r, o[i]).header.prev = Desired(o)[i].prev
    BY <1>4, <1>7
  <2> QED BY <1>3, <1>4, <1>5, <1>6, <2>1, ReverseFollows
<1>10. r.dormant = Lbas(u) \ RingOf(d)
  <2>1. r = [u EXCEPT !.dormant =
                {lba \in Lbas(u) \ Range(o) :
                    /\ canonical_empty_node(NodeAt(u, lba))
                    /\ \E c \in Range(o) :
                          /\ canonical_empty_node(NodeAt(u, c))
                          /\ NodeAt(u, lba).header.start > NodeAt(u, c).header.start
                          /\ End(NodeAt(u, lba)) <= End(NodeAt(u, c))}]
    BY <1>1, <1>8 DEF Filed, classify_dormant_free_remnants
  <2>2. "dormant" \in DOMAIN u
    <3>1. Table(d, u) BY <1>1, <1>3, FiledTable
    <3> QED BY <3>1 DEF Table
  <2>3. r.dormant = {lba \in Lbas(u) \ Range(o) :
                        /\ canonical_empty_node(NodeAt(u, lba))
                        /\ \E c \in Range(o) :
                              /\ canonical_empty_node(NodeAt(u, c))
                              /\ NodeAt(u, lba).header.start > NodeAt(u, c).header.start
                              /\ End(NodeAt(u, lba)) <= End(NodeAt(u, c))}
    BY <2>1, <2>2
  <2>4. ASSUME NEW x \in Lbas(u), IsFree(d[x]) PROVE canonical_empty_node(NodeAt(u, x))
    <3>1. /\ NodeAt(u, x).header = d[x] /\ Sure \subseteq NodeAt(u, x).evidence
          /\ NodeAt(u, x).evidence \ Sources = Full(d[x], x) /\ Sound(d[x], x)
      BY <1>2, <1>3
    <3>2. d[x].length # 0 /\ d[x].sum = apa_checksum(d[x])
      <4>1. d[x].length >= 2 /\ d[x].length \in Nat BY <3>1 DEF Sound, Header
      <4> QED BY <3>1, <4>1 DEF Sound
    <3>3. {"MAGIC", "SELF_START", "CHECKSUM", "LENGTH", "TYPE", "ID"}
             \subseteq NodeAt(u, x).evidence
      <4>1. type_plausible(d[x].type) /\ id_plausible(d[x].id)
        BY <2>4 DEF IsFree, type_plausible, id_plausible
      <4>2. "TYPE" \in Full(d[x], x) /\ "ID" \in Full(d[x], x) BY <4>1, FullEvidence
      <4> QED BY <3>1, <4>2 DEF Sure
    <3> QED BY <2>4, <3>1, <3>2, <3>3 DEF canonical_empty_node, IsFree
  <2>5. ASSUME NEW x \in Lbas(u) \ RingOf(d)
        PROVE  /\ canonical_empty_node(NodeAt(u, x))
               /\ \E c \in RingOf(d) :
                     /\ canonical_empty_node(NodeAt(u, c))
                     /\ NodeAt(u, x).header.start > NodeAt(u, c).header.start
                     /\ End(NodeAt(u, x)) <= End(NodeAt(u, c))
    <3>1. x \in DOMAIN d \ RingOf(d) BY <1>2
    <3>2. PICK c \in RingOf(d) : /\ IsFree(d[x]) /\ IsFree(d[c]) /\ c < x
                                 /\ x + d[x].length <= c + d[c].length
      BY <3>1 DEF Healthy
    <3>3. c \in Lbas(u) /\ c \in DOMAIN d BY <1>2
    <3>4. canonical_empty_node(NodeAt(u, x)) /\ canonical_empty_node(NodeAt(u, c))
      BY <2>4, <3>2, <3>3
    <3>5. NodeAt(u, x).header = d[x] /\ NodeAt(u, c).header = d[c] BY <1>2, <3>3
    <3>6. d[x].start = x /\ d[c].start = c BY <1>3, <3>1, <3>3 DEF Sound
    <3>7. x > c
      <4>1. x \in Nat /\ c \in Nat BY <1>3, <3>1, <3>3
      <4> QED BY <3>2, <4>1
    <3> QED BY <3>2, <3>4, <3>5, <3>6, <3>7 DEF End
  <2> QED BY <1>3, <2>3, <2>5
<1>11. Lbas(r) \ r.dormant = RingOf(d) BY <1>2, <1>4, <1>10
<1>12. build_geometry_map(r) = o
  <2>1. \A x \in RingOf(d) : /\ NodeAt(r, x).confidence >= 50
                             /\ {"SELF_START", "LENGTH"} \subseteq NodeAt(r, x).evidence
    <3> TAKE x \in RingOf(d)
    <3>1. /\ NodeAt(u, x).confidence \in Nat /\ NodeAt(u, x).confidence >= 60
          /\ Sure \subseteq NodeAt(u, x).evidence
      BY <1>2
    <3>2. NodeAt(u, x).confidence >= 50 BY <3>1
    <3>3. {"SELF_START", "LENGTH"} \subseteq Sure BY DEF Sure
    <3> QED BY <1>4, <3>1, <3>2, <3>3
  <2>2. {lba \in Lbas(r) \ r.dormant :
           \/ lba = 0
           \/ /\ NodeAt(r, lba).confidence >= 50
              /\ {"SELF_START", "LENGTH"} \subseteq NodeAt(r, lba).evidence} = RingOf(d)
    BY <1>11, <2>1
  <2> QED BY <1>3, <2>2 DEF build_geometry_map
<1> QED BY <1>1, <1>8, <1>9, <1>11, <1>12

\* The links of o are those of a ring, its headers are strong and in order, and no
\* other header counts.
Faultless(r, o) ==
    /\ ~r.truncated /\ o \in Seq(Nat) /\ o # <<>>
    /\ \A i \in 1..Len(o) : /\ NodeAt(r, o[i]).header.next = Desired(o)[i].next
                            /\ NodeAt(r, o[i]).header.prev = Desired(o)[i].prev
                            /\ NodeAt(r, o[i]).confidence \in Nat
                            /\ NodeAt(r, o[i]).confidence >= 60
    /\ \A i \in 2..(Len(o) - 1) :
          ~(End(NodeAt(r, o[i])) > NodeAt(r, o[i + 1]).header.start)
    /\ Lbas(r) \ r.dormant = Range(o) /\ Cardinality(Range(o)) = Len(o)

\* Nothing is held against such a map.
LEMMA FullConfidence ==
  ASSUME NEW r, NEW k, NEW o, Faultless(r, o)
  PROVE  evaluate_map(r, k, o).confidence = 100
<1> DEFINE node(i) == NodeAt(r, o[i])
           wrong == {w \in (DOMAIN o) \X {"prev", "next"} :
                       node(w[1]).header[w[2]] # Desired(o)[w[1]][w[2]]}
           conflicts == {w \in wrong : LET target == node(w[1]).header[w[2]]
                                       IN  target # 0 /\ target \in Lbas(r)}
           overlaps == {i \in 2..(Len(o) - 1) : End(node(i)) > node(i + 1).header.start}
           weak == {i \in DOMAIN o : node(i).confidence < 60}
           high == {lba \in Lbas(r) \ r.dormant : NodeAt(r, lba).confidence >= 60}
           missing == Cardinality(high) - Len(o)
           score == 100 - 15 * Cardinality(conflicts) - 30 * Cardinality(overlaps)
                    - 2 * Cardinality(wrong) - 4 * Cardinality(weak)
                    - (IF missing > 0 THEN 5 * missing ELSE 0)
                    - (IF r.truncated THEN 10 ELSE 0)
<1>0. /\ ~r.truncated /\ o \in Seq(Nat) /\ o # <<>>
      /\ \A i \in 1..Len(o) : /\ NodeAt(r, o[i]).header.next = Desired(o)[i].next
                              /\ NodeAt(r, o[i]).header.prev = Desired(o)[i].prev
                              /\ NodeAt(r, o[i]).confidence \in Nat
                              /\ NodeAt(r, o[i]).confidence >= 60
      /\ \A i \in 2..(Len(o) - 1) :
            ~(End(NodeAt(r, o[i])) > NodeAt(r, o[i + 1]).header.start)
      /\ Lbas(r) \ r.dormant = Range(o) /\ Cardinality(Range(o)) = Len(o)
  BY DEF Faultless
<1>1. DOMAIN o = 1..Len(o) /\ Len(o) \in Nat BY <1>0
<1>2. wrong = {}
  <2> SUFFICES ASSUME NEW w \in wrong PROVE FALSE
    OBVIOUS
  <2>1. w \in (DOMAIN o) \X {"prev", "next"} OBVIOUS
  <2>2. PICK i \in DOMAIN o, f \in {"prev", "next"} : w = <<i, f>> BY <2>1
  <2>3. w[1] = i /\ w[2] = f BY <2>2
  <2>4. node(i).header[f] # Desired(o)[i][f] BY <2>3
  <2> QED BY <1>0, <1>1, <2>4
<1>3. conflicts = {} BY <1>2
<1>4. overlaps = {} BY <1>0
<1>5. weak = {} BY <1>0, <1>1
<1>6. high = Range(o)
  <2>1. ASSUME NEW x \in Range(o) PROVE NodeAt(r, x).confidence >= 60
    <3>1. PICK i \in DOMAIN o : x = o[i] BY DEF Range
    <3>2. NodeAt(r, x).confidence >= 60 BY <1>0, <1>1, <3>1
    <3> QED BY <3>2
  <2> QED BY <1>0, <2>1
<1>7. missing = 0
  <2> HIDE DEF high
  <2>1. Cardinality(high) = Len(o) BY <1>0, <1>6
  <2> QED BY <1>1, <2>1
<1>8. evaluate_map(r, k, o).confidence =
         IF o = <<>> THEN 0 ELSE clamp_confidence(score)
  BY Zenon DEF evaluate_map
<1> HIDE DEF wrong, conflicts, overlaps, weak, high, missing
<1>9. score = 100
  <2>1. Cardinality({}) = 0 BY FS_EmptySet
  <2> QED BY <1>0, <1>2, <1>3, <1>4, <1>5, <1>7, <2>1
<1> HIDE DEF score
<1> QED BY <1>0, <1>8, <1>9 DEF clamp_confidence

\* The second map of an order adds nothing.
LEMMA OneOrder ==
  ASSUME NEW r, r.maps = <<>>, "maps" \in DOMAIN r, NEW a, NEW b, NEW c,
         a.order # <<>>, b.order = a.order, c.order = a.order
  PROVE  LET s == add_map_if_unique(add_map_if_unique(add_map_if_unique(r, a), b), c)
         IN  s.maps = <<a>> /\ s.maps[1] = a
<1>1. PICK t : t = add_map_if_unique(r, a) OBVIOUS
<1>2. DOMAIN r.maps = {} /\ r.maps = <<>> OBVIOUS
<1>3. t = [r EXCEPT !.maps = Append(r.maps, a)] BY <1>1, <1>2 DEF add_map_if_unique
<1>4. t.maps = <<a>> BY <1>2, <1>3
<1>5. PICK l : l = <<a>> OBVIOUS
<1>6. t.maps = l /\ l[1] = a /\ 1 \in DOMAIN l BY <1>4, <1>5
<1>7. \E i \in DOMAIN t.maps : t.maps[i].order = a.order BY <1>6
<1>8. add_map_if_unique(t, b) = t BY <1>7 DEF add_map_if_unique
<1>9. add_map_if_unique(t, c) = t BY <1>7 DEF add_map_if_unique
<1> QED BY <1>1, <1>4, <1>5, <1>6, <1>8, <1>9

\* A formatted disk that fits: one map, of full confidence, with nothing to correct.
LEMMA HealthyScan ==
  ASSUME NEW d, Healthy(d), Cardinality(DOMAIN d) <= MaxNodes
  PROVE  LET s == apa_forensic_scan(d)
         IN  /\ Len(s.maps) = 1 /\ DOMAIN s.maps = {1}
             /\ Range(s.maps[1].order) = RingOf(d) /\ s.maps[1].confidence = 100
             /\ apa_forensic_build_repair_plan(s, 1).patches = <<>>
<1>1. PICK o, u, r, s : /\ o = sort_by_lba(RingOf(d)) /\ u = Pool(d) /\ r = Filed(d)
                        /\ s = apa_forensic_scan(d)
  OBVIOUS
<1>2. Formatted(d, o) BY <1>1, HealthyRing
<1>3. /\ Headers(d) /\ DOMAIN d \in SUBSET Nat /\ IsFiniteSet(DOMAIN d)
      /\ \A x \in DOMAIN d : Sound(d[x], x)
      /\ RingOf(d) \in SUBSET DOMAIN d
      /\ Len(o) = Cardinality(RingOf(d)) /\ Len(o) \in Nat /\ Len(o) >= 2
      /\ DOMAIN o = 1..Len(o) /\ o \in Seq(RingOf(d)) /\ Range(o) = RingOf(d)
      /\ \A i, j \in 1..Len(o) : i < j => o[i] < o[j]
      /\ \A i \in 1..Len(o) : o[i] \in DOMAIN d /\ LinksOf(d[o[i]]) = Desired(o)[i]
  BY <1>2 DEF Formatted
<1>4. /\ Lbas(u) \subseteq DOMAIN d /\ ~u.truncated /\ RingOf(d) \subseteq Lbas(u)
      /\ \A x \in Lbas(u) : /\ NodeAt(u, x).header = d[x]
                            /\ NodeAt(u, x).confidence \in Nat
                            /\ NodeAt(u, x).confidence >= 60
  BY <1>1, <1>2, HealthyPool
<1>5. /\ build_forward_map(u) = o /\ build_reverse_map(r) = o
      /\ build_geometry_map(r) = o /\ Lbas(r) \ r.dormant = RingOf(d)
  BY <1>1, <1>2, HealthyOrders
<1>6. /\ \A x : NodeAt(r, x) = NodeAt(u, x) /\ r.truncated = u.truncated
      /\ r.maps = <<>> /\ "maps" \in DOMAIN r
  BY <1>1, <1>3, FiledTable
<1>7. \A i \in 1..Len(o) : o[i] \in RingOf(d) /\ o[i] \in Lbas(u) /\ o[i] \in Nat
  BY <1>3, <1>4
<1>8. \A i \in 1..Len(o) : /\ NodeAt(r, o[i]).header = d[o[i]]
                           /\ NodeAt(r, o[i]).confidence \in Nat
                           /\ NodeAt(r, o[i]).confidence >= 60
  BY <1>4, <1>6, <1>7
<1>9. \A i \in 1..Len(o) : /\ d[o[i]].next = Desired(o)[i].next
                           /\ d[o[i]].prev = Desired(o)[i].prev
  <2> TAKE i \in 1..Len(o)
  <2>1. LinksOf(d[o[i]]).next = d[o[i]].next /\ LinksOf(d[o[i]]).prev = d[o[i]].prev
    BY DEF LinksOf
  <2>2. LinksOf(d[o[i]]) = Desired(o)[i] BY <1>3
  <2> QED BY <2>1, <2>2
<1>10. o # <<>>
  <2>1. Len(<<>>) = 0 OBVIOUS
  <2> QED BY <1>3, <2>1
<1>11. \A i \in 2..(Len(o) - 1) :
          ~(End(NodeAt(r, o[i])) > NodeAt(r, o[i + 1]).header.start)
  <2> TAKE i \in 2..(Len(o) - 1)
  <2>1. i \in 1..Len(o) /\ i + 1 \in 1..Len(o) /\ i < i + 1 BY <1>3
  <2>2. PICK a, b : a = o[i] /\ b = o[i + 1] OBVIOUS
  <2>3. /\ a \in RingOf(d) /\ b \in RingOf(d) /\ a < b /\ a \in Nat /\ b \in Nat
        /\ a \in DOMAIN d /\ b \in DOMAIN d
        /\ NodeAt(r, a).header = d[a] /\ NodeAt(r, b).header = d[b]
    BY <1>3, <1>7, <1>8, <2>1, <2>2
  <2>4. a + d[a].length <= b BY <2>3 DEF Healthy
  <2>5. d[a].start = a /\ d[b].start = b /\ d[a].length \in Nat
    BY <1>3, <2>3 DEF Sound, Header
  <2>6. End(NodeAt(r, a)) = a + d[a].length BY <2>3, <2>5 DEF End
  <2>7. ~(a + d[a].length > b) BY <2>3, <2>4, <2>5
  <2> QED BY <2>2, <2>3, <2>5, <2>6, <2>7
<1>12. o \in Seq(Nat)
  <2>1. RingOf(d) \in SUBSET Nat BY <1>3
  <2> QED BY <1>3, <2>1
<1>13. PICK a : a = evaluate_map(r, "FORWARD", o) OBVIOUS
<1>14. a.confidence = 100
  <2>1. \A i \in 1..Len(o) : /\ NodeAt(r, o[i]).header.next = Desired(o)[i].next
                             /\ NodeAt(r, o[i]).header.prev = Desired(o)[i].prev
                             /\ NodeAt(r, o[i]).confidence \in Nat
                             /\ NodeAt(r, o[i]).confidence >= 60
    BY <1>8, <1>9
  <2>2. ~r.truncated BY <1>4, <1>6
  <2>3. Lbas(r) \ r.dormant = Range(o) /\ Cardinality(Range(o)) = Len(o) BY <1>3, <1>5
  <2>4. Faultless(r, o) BY <1>10, <1>11, <1>12, <2>1, <2>2, <2>3 DEF Faultless
  <2> QED BY <1>13, <2>4, FullConfidence
<1>15. s.maps = <<a>> /\ s.maps[1] = a
  <2>1. PICK b, c : /\ b = evaluate_map(r, "REVERSE", o)
                    /\ c = evaluate_map(r, "GEOMETRY", o)
    OBVIOUS
  <2>2. a.order = o /\ b.order = o /\ c.order = o BY <1>13, <2>1, MapFacts
  <2>3. s = add_map_if_unique(add_map_if_unique(add_map_if_unique(r, a), b), c)
    BY <1>1, <1>5, <1>13, <2>1 DEF apa_forensic_scan, Filed, Pool
  <2> QED BY <1>6, <1>10, <2>2, <2>3, OneOrder
<1>16. Len(s.maps) = 1 /\ DOMAIN s.maps = {1}
  <2>1. PICK l : l = <<a>> OBVIOUS
  <2>2. Len(l) = 1 /\ DOMAIN l = {1} BY <2>1
  <2> QED BY <1>15, <2>1, <2>2
<1>17. s.maps[1].order = o BY <1>13, <1>15, MapFacts
<1>18. \A i \in DOMAIN o : Fine(s, o, i)
  <2> TAKE i \in DOMAIN o
  <2>1. PICK h, l : h = d[o[i]] /\ l = Desired(o)[i] OBVIOUS
  <2>2. NodeAt(s, o[i]) = NodeAt(u, o[i]) BY <1>1, <1>3, ScanNodes
  <2>3. NodeAt(s, o[i]).header = h BY <1>3, <1>4, <1>7, <2>1, <2>2
  <2>4. h \in Header /\ h.next = l.next /\ h.prev = l.prev BY <1>3, <1>9, <2>1 DEF Sound
  <2>5. Relinked(h, l) = h BY <2>4 DEF Relinked, Header
  <2> QED BY <2>1, <2>3, <2>5 DEF Fine
<1>19. apa_forensic_build_repair_plan(s, 1).patches = <<>>
  <2>1. Len(o) \in 0..MaxNodes
    <3>1. Cardinality(RingOf(d)) <= Cardinality(DOMAIN d) BY <1>3, FS_Subset
    <3>2. Cardinality(DOMAIN d) \in Nat /\ MaxNodes \in Nat
      BY <1>3, FS_CardinalityType, ForensicConstants
    <3> QED BY <1>3, <3>1, <3>2
  <2>2. PatchesFor(s, o, apa_forensic_build_repair_plan(s, 1))
    BY <1>3, <1>17, <2>1, PlanPatches
  <2> QED BY <1>18, <2>2 DEF PatchesFor
<1> QED BY <1>1, <1>3, <1>14, <1>15, <1>16, <1>17, <1>19

\* On a healthy disk that fits the node table, sub-partitions without an id included,
\* the three methods of apa_forensic_scan agree on the ring with full confidence and
\* nothing is offered: what a formatted disk stores is closed
\* under the links the scan follows, so no slot is missing, and both walks and the
\* sorting list the same partitions, the remnants inside free space apart.
THEOREM HealthyLeftAlone == PlannerSpec => []HealthyUntouched
<1>1. PInv => HealthyUntouched
  <2> SUFFICES ASSUME PInv, disk = orig, Cardinality(DOMAIN orig) <= MaxNodes,
                      scan # EmptyResult
               PROVE  /\ Len(scan.maps) = 1 /\ Range(scan.maps[1].order) = OrigRing
                      /\ scan.maps[1].confidence = 100 /\ plan.patches = <<>>
    BY DEF HealthyUntouched
  <2>1. Healthy(orig) BY LayoutAssumption DEF PInv
  <2>2. scan = apa_forensic_scan(orig) BY DEF PInv
  <2>3. /\ Len(scan.maps) = 1 /\ DOMAIN scan.maps = {1}
        /\ Range(scan.maps[1].order) = RingOf(orig) /\ scan.maps[1].confidence = 100
        /\ apa_forensic_build_repair_plan(scan, 1).patches = <<>>
    BY <2>1, <2>2, HealthyScan
  <2>4. plan.patches = <<>>
    <3>1. CASE plan = NoPlan BY <3>1 DEF NoPlan
    <3>2. CASE \E m \in DOMAIN scan.maps : plan = apa_forensic_build_repair_plan(scan, m)
      BY <2>3, <3>2
    <3> QED BY <3>1, <3>2 DEF PInv
  <2> QED BY <2>3, <2>4 DEF OrigRing
<1> QED BY <1>1, PlannerInvariance, PTL

-----------------------------------------------------------------------------
(* Part two: the commit.                                                   *)

Patched(r, q) == apa_forensic_build_patched_header(r, q)

Source(r, q) == NodeAt(r, q.lba).header

\* A header without links and checksum.
Unlinked(h) == [h EXCEPT !.next = 0, !.prev = 0, !.sum = 0]

Changes(r, q) == Relinked(Source(r, q), q.links) # Source(r, q)

PlanOf(r, p) ==
    /\ DOMAIN p.patches \subseteq Nat
    /\ p.patches # <<>> => DOMAIN p.patches # {}
    /\ \A k \in DOMAIN p.patches : Changes(r, p.patches[k])

-----------------------------------------------------------------------------
(* The invariant.                                                          *)

Planning == {"plan", "snapshot", "authorize"}
Writing == {"write", "flush", "readback", "final"}

\* Nothing comes into being or vanishes: sectors, slots, fields of the history.
Shape ==
    /\ TypeOK
    /\ DOMAIN base = DOMAIN orig /\ DOMAIN slots = 1..Slots
    /\ 0 \in DOMAIN base => DOMAIN base[0] = DOMAIN Blank
    /\ goal.master \in BOOLEAN
    /\ goal = [order |-> goal.order, lbas |-> goal.lbas, disk |-> goal.disk,
               master |-> goal.master]

\* A plan on screen is one of the cached scan, and no patch is done before the write.
Planned ==
    /\ pc \in Planning \cup Writing => PlanOf(scan, plan) /\ plan.patches # <<>>
    /\ pc \notin Writing \cup {"restart"} => committed = {}

\* The file being written is a torn one; behind it the image is in a slot.
Imaged ==
    /\ pc = "snapshot" => slot \in 1..Slots /\ slots[slot] = Torn
    /\ pc \in {"authorize"} \cup Writing =>
          \E s \in 1..Slots : slots[s] = build_snapshot_image(scan, plan)

\* The header in hand is on the drive, and flushed before it is read back.
InHand ==
    /\ pc \in {"flush", "readback"} => Current.lba \in DOMAIN disk
    /\ pc = "readback" => platter = disk

\* A patch that counts as committed is on the platter.
Durable ==
    pc \in Writing =>
        \A k \in committed :
            /\ plan.patches[k].lba \in DOMAIN disk
            /\ disk[plan.patches[k].lba] = Patched(scan, plan.patches[k])
            /\ platter[plan.patches[k].lba] = Patched(scan, plan.patches[k])

\* The goal is the plan's, and once the master is written only it can be left.
Aimed ==
    pc \in Writing =>
        /\ \A lba \in goal.lbas : \E k \in DOMAIN plan.patches :
              plan.patches[k].lba = lba /\ goal.disk[lba] = Patched(scan, plan.patches[k])
        /\ goal.master => \A k \in Remaining : plan.patches[k].lba = 0

\* Behind the write of the master every interior header of the ring is in place.
Ring ==
    goal.master =>
        \A lba \in goal.lbas \ {0} :
            /\ lba \in DOMAIN disk
            /\ LinksOf(disk[lba]) = LinksOf(goal.disk[lba])
            /\ LinksOf(platter[lba]) = LinksOf(goal.disk[lba])

FInv == Shape /\ Planned /\ Imaged /\ InHand /\ Durable /\ Aimed /\ Ring

\* Links and checksum apart, d is the disk without repairs.
Kin(d, b) ==
    \A lba \in DOMAIN d : d[lba] # b[lba] => Unlinked(d[lba]) = Unlinked(b[lba])

\* Where d was repaired, a whole file has the links from before.
Covered(d, b, files) ==
    \A lba \in DOMAIN d :
        d[lba] # b[lba] =>
            \E s \in 1..Slots :
                /\ files[s].file = "whole" /\ lba \in DOMAIN files[s].headers
                /\ LinksOf(files[s].headers[lba]) = LinksOf(b[lba])

KinInv == Kin(disk, base) /\ Kin(platter, base)

CoverInv == Covered(disk, base, slots) /\ Covered(platter, base, slots)

-----------------------------------------------------------------------------
(* Lemmas about plans.                                                     *)

\* Links and checksum apart, a patched header is the one the scan read.
LEMMA PatchedUnlinked ==
  ASSUME NEW r, NEW q
  PROVE  Unlinked(Patched(r, q)) = Unlinked(Source(r, q))
BY DEF Unlinked, Patched, Source, apa_forensic_build_patched_header, Relinked

\* A patch that changes a link makes another header.
LEMMA PatchedDiffers ==
  ASSUME NEW r, NEW q, Changes(r, q)
  PROVE  Patched(r, q) # Source(r, q)
BY DEF Changes, Patched, Source, apa_forensic_build_patched_header, Relinked

\* Every patch of a plan changes the header it is for.
LEMMA PlanChanges ==
  ASSUME NEW r, NEW m
  PROVE  PlanOf(r, apa_forensic_build_repair_plan(r, m))
<1> DEFINE p == apa_forensic_build_repair_plan(r, m)
           map == r.maps[m]
           position == {i \in 1..MaxNodes :
                           /\ i \in DOMAIN map.order
                           /\ LET h == NodeAt(r, map.order[i]).header
                              IN  Relinked(h, Desired(map.order)[i]) # h}
           patchOf(i) ==
               [lba |-> map.order[i], links |-> Desired(map.order)[i],
                corroborated |->
                    patch_checksum_corroborated(NodeAt(r, map.order[i]).header,
                                                Desired(map.order)[i])]
           list == sort_by_lba(position)
           patches == [k \in DOMAIN list |-> patchOf(list[k])]
<1>1. p.patches \in {<<>>, patches}
  BY DEF apa_forensic_build_repair_plan, NoPlan
<1>2. position \in SUBSET Nat /\ position \in SUBSET (1..MaxNodes)
  BY ForensicConstants
<1>3. IsFiniteSet(position) /\ Cardinality(position) \in Nat
  <2>1. IsFiniteSet(1..MaxNodes) BY ForensicConstants, FS_Interval
  <2> HIDE DEF position
  <2> QED BY <1>2, <2>1, FS_Subset, FS_CardinalityType
<1>4. DOMAIN list = 1..Cardinality(position) BY DEF sort_by_lba
<1>5. \A k \in DOMAIN list : list[k] \in position
  <2> HIDE DEF position
  <2> QED BY <1>2, <1>3, <1>4, SortedMember
<1>6. \A k \in DOMAIN list : Changes(r, patchOf(list[k]))
  <2> HIDE DEF list
  <2> QED BY <1>5 DEF Changes, Source
<1>7. CASE p.patches = <<>>
  <2>1. DOMAIN p.patches = {} BY <1>7
  <2>2. PlanOf(r, p)
    <3> HIDE DEF p
    <3> QED BY <1>7, <2>1 DEF PlanOf
  <2> QED BY <2>2
<1>8. CASE p.patches = patches /\ patches # <<>>
  <2>1. DOMAIN patches = DOMAIN list OBVIOUS
  <2>2. patches # <<>> => DOMAIN patches # {}
    <3>1. ASSUME DOMAIN list = {} PROVE patches = <<>>
      <4> HIDE DEF list, position, patchOf
      <4> QED BY <3>1
    <3> HIDE DEF list, position, patchOf
    <3> QED BY <2>1, <3>1
  <2>3. DOMAIN patches \subseteq Nat
    <3> HIDE DEF list, position
    <3> QED BY <1>3, <1>4, <2>1
  <2>4. \A k \in DOMAIN patches : Changes(r, patches[k])
    <3> HIDE DEF list, position, patchOf
    <3> QED BY <1>6
  <2>5. PlanOf(r, p)
    <3> HIDE DEF patches, p
    <3> QED BY <1>8, <2>2, <2>3, <2>4 DEF PlanOf
  <2> QED BY <2>5
<1> QED BY <1>1, <1>7, <1>8

-----------------------------------------------------------------------------
(* Initial states and steps.                                               *)

\* The patch to write next is one that is left, and the master only when no other is.
LEMMA NextPosition ==
  ASSUME FInv, pc \in {"write", "flush", "readback"}
  PROVE  /\ Position \in Remaining
         /\ Current.lba = 0 => \A k \in Remaining : plan.patches[k].lba = 0
<1> DEFINE interior == {k \in Remaining : plan.patches[k].lba # 0}
           S == IF interior # {} THEN interior ELSE Remaining
<1>1. Remaining # {} BY DEF FInv, Shape, TypeOK
<1>2. DOMAIN plan.patches \subseteq Nat BY DEF FInv, Planned, PlanOf, Writing
<1>3. S \in SUBSET Nat /\ S # {} BY <1>1, <1>2 DEF Remaining
<1>4. Position = Min(S) BY DEF Position
<1>5. Position \in S
  <2> HIDE DEF S
  <2> QED BY <1>3, <1>4, MinMember
<1> QED BY <1>5 DEF Current

\* The writer replaces a header there is, unchanged since the scan: a header read
\* where there is none has no magic, and the last gate turns it away.
LEMMA WriteHeader ==
  ASSUME write_one
  PROVE  /\ Current.lba \in DOMAIN disk /\ disk[Current.lba] = Source(scan, Current)
         /\ DOMAIN disk' = DOMAIN disk /\ disk'[Current.lba] = Patched(scan, Current)
         /\ \A lba \in DOMAIN disk \ {Current.lba} : disk'[lba] = disk[lba]
<1> DEFINE l == Current.lba
<1>1. /\ Read(disk, l) = Source(scan, Current) /\ patch_header_is_safe(Current)
      /\ disk' = [disk EXCEPT ![l] = Patched(scan, Current)]
  BY DEF write_one, Source, Patched
<1>2. l \in DOMAIN disk
  <2> SUFFICES ASSUME l \notin DOMAIN disk PROVE FALSE
    OBVIOUS
  <2>1. Source(scan, Current) = Blank BY <1>1 DEF Read
  <2>2. Patched(scan, Current).magic = Blank.magic
    BY <2>1 DEF Patched, Source, apa_forensic_build_patched_header, Relinked, Blank
  <2>3. Patched(scan, Current).magic BY <1>1 DEF patch_header_is_safe, Patched
  <2> QED BY <2>2, <2>3 DEF Blank
<1>3. disk[l] = Source(scan, Current) BY <1>1, <1>2 DEF Read
<1> QED BY <1>1, <1>2, <1>3

\* A session begins in the invariant.
LEMMA InitInvariant == Init => FInv /\ KinInv /\ CoverInv
<1> SUFFICES ASSUME Init PROVE FInv /\ KinInv /\ CoverInv
  OBVIOUS
<1>1. PICK a, b \in DOMAIN orig : \E g \in Damage(orig[a]), h \in Damage(orig[b]) :
         disk = [orig EXCEPT ![a] = g, ![b] = h]
  BY DEF Init, PlannerInit, DamagedFrom
<1>2. PICK g \in Damage(orig[a]), h \in Damage(orig[b]) :
         disk = [orig EXCEPT ![a] = g, ![b] = h]
  BY <1>1
<1>3. DOMAIN disk = DOMAIN orig BY <1>2
<1>4. 0 \in DOMAIN orig => disk[0] \in {orig[0], g, h} BY <1>2
<1>5. disk[0] # Unreadable BY DEF Init, is_standard_apa_header
<1>6. /\ \A lba \in DOMAIN orig : DOMAIN orig[lba] = DOMAIN Blank
      /\ g = Unreadable \/ DOMAIN g = DOMAIN Blank
      /\ h = Unreadable \/ DOMAIN h = DOMAIN Blank
  <2>1. \A header \in Header : DOMAIN header = DOMAIN Blank BY DEF Header, Blank
  <2>2. orig \in Layouts BY DEF Init, PlannerInit
  <2>3. \A lba \in DOMAIN orig : orig[lba] \in Header
    BY <2>2, LayoutAssumption DEF Healthy, Sound
  <2>4. g \in Header \cup {Unreadable} /\ h \in Header \cup {Unreadable}
    BY <2>2, LayoutAssumption
  <2> QED BY <2>1, <2>3, <2>4
<1>7. 0 \in DOMAIN orig => DOMAIN disk[0] = DOMAIN Blank BY <1>4, <1>5, <1>6
<1>8. Shape
  BY <1>3, <1>7, RepairConstants DEF Init, PlannerInit, Shape, TypeOK, NoGoal
<1>9. KinInv /\ CoverInv BY DEF Init, KinInv, CoverInv, Kin, Covered
<1> QED BY <1>8, <1>9 DEF Init, FInv, Planned, Imaged, InHand, Durable, Aimed, Ring,
                         Planning, Writing, NoGoal

\* Every step keeps the invariant.
LEMMA StepInvariant == FInv /\ [Next]_vars => FInv'
<1> SUFFICES ASSUME FInv, [Next]_vars PROVE FInv'
  OBVIOUS
<1> USE DEF Planning, Writing
<1>1. CASE main
  BY <1>1
      DEF FInv, Shape, TypeOK, Planned, Imaged, InHand, Durable, Aimed, Ring, Current,
          Position, Remaining, main
<1>2. CASE run_scan
  BY <1>2
      DEF FInv, Shape, TypeOK, Planned, Imaged, InHand, Durable, Aimed, Ring, Current,
          Position, Remaining, run_scan
<1>3. CASE set_osd_pointer
  <2>1. PICK r : LET written(h) == [h EXCEPT !.rest = r,
                                       !.sum = apa_checksum([h EXCEPT !.rest = r])]
                IN  /\ disk' = [disk EXCEPT ![0] = written(@)]
                    /\ base' = [base EXCEPT ![0] = written(@)]
    BY <1>3 DEF set_osd_pointer
  <2>2. DOMAIN disk' = DOMAIN disk /\ DOMAIN base' = DOMAIN base
        /\ \A lba \in DOMAIN disk \ {0} : disk'[lba] = disk[lba]
    BY <2>1
  <2>3. 0 \in DOMAIN base => DOMAIN base'[0] = DOMAIN base[0] BY <2>1
  <2>4. /\ pc = "menu" /\ platter' = disk'
        /\ UNCHANGED <<orig, scan, plan, slots, pc, slot, committed, goal>>
    BY <1>3 DEF set_osd_pointer
  <2>5. Shape' BY <2>2, <2>3, <2>4 DEF FInv, Shape, TypeOK, Remaining
  <2>6. Ring' BY <2>2, <2>4 DEF FInv, Ring
  <2> QED BY <2>4, <2>5, <2>6 DEF FInv, Planned, Imaged, InHand, Durable, Aimed
<1>4. CASE repair_plan_screen
  <2>1. PlanOf(scan, plan') /\ plan'.patches # <<>>
    BY <1>4, PlanChanges DEF repair_plan_screen
  <2>2. committed = {} BY <1>4 DEF FInv, Planned, repair_plan_screen
  <2> QED BY <1>4, <2>1, <2>2
      DEF FInv, Shape, TypeOK, Planned, Imaged, InHand, Durable, Aimed, Ring, Current,
          Position, Remaining, repair_plan_screen
<1>5. CASE leave_plan
  <2>1. committed = {} BY <1>5 DEF FInv, Planned, leave_plan
  <2> QED BY <1>5, <2>1
      DEF FInv, Shape, TypeOK, Planned, Imaged, InHand, Durable, Aimed, Ring, Current,
          Position, Remaining, leave_plan
<1>6. CASE snapshot_no_slot
  <2>1. committed = {} BY <1>6 DEF FInv, Planned, snapshot_no_slot
  <2> QED BY <1>6, <2>1
      DEF FInv, Shape, TypeOK, Planned, Imaged, InHand, Durable, Aimed, Ring, Current,
          Position, Remaining, snapshot_no_slot
<1>7. CASE snapshot_reuse
  <2>1. \E s \in 1..Slots : slots[s] = build_snapshot_image(scan, plan)
    BY <1>7 DEF snapshot_reuse, ChosenSlots
  <2> QED BY <1>7, <2>1
      DEF FInv, Shape, TypeOK, Planned, Imaged, InHand, Durable, Aimed, Ring, Current,
          Position, Remaining, snapshot_reuse
<1>8. CASE snapshot_write
  <2>1. PICK s \in 1..Slots : slot' = s /\ slots' = [slots EXCEPT ![s] = Torn]
    BY <1>8 DEF snapshot_write, ChosenSlots
  <2>2. DOMAIN slots = 1..Slots BY DEF FInv, Shape
  <2>3. DOMAIN slots' = 1..Slots /\ slots'[slot'] = Torn /\ slot' \in 0..Slots
    BY <2>1, <2>2, RepairConstants
  <2> QED BY <1>8, <2>1, <2>3
      DEF FInv, Shape, TypeOK, Planned, Imaged, InHand, Durable, Aimed, Ring, Current,
          Position, Remaining, snapshot_write
<1>9. CASE snapshot_verify
  <2>1. committed = {} /\ slot \in 1..Slots /\ DOMAIN slots = 1..Slots /\ 0 \in 0..Slots
    BY <1>9, RepairConstants DEF FInv, Shape, Planned, Imaged, snapshot_verify
  <2>2. CASE pc' = "authorize"
    <3>1. slots' = [slots EXCEPT ![slot] = build_snapshot_image(scan, plan)] /\ plan' = plan
      BY <1>9, <2>2 DEF snapshot_verify
    <3>2. DOMAIN slots' = 1..Slots /\ slots'[slot] = build_snapshot_image(scan, plan)
      BY <2>1, <3>1
    <3> QED BY <1>9, <2>1, <2>2, <3>1, <3>2
      DEF FInv, Shape, TypeOK, Planned, Imaged, InHand, Durable, Aimed, Ring, Current,
          Position, Remaining, snapshot_verify
  <2>3. CASE pc' = "menu"
    BY <1>9, <2>1, <2>3
      DEF FInv, Shape, TypeOK, Planned, Imaged, InHand, Durable, Aimed, Ring, Current,
          Position, Remaining, snapshot_verify
  <2> QED BY <1>9, <2>2, <2>3 DEF snapshot_verify
<1>10. CASE authorize
  <2>1. PlanOf(scan, plan) /\ DOMAIN plan.patches # {}
    BY <1>10 DEF FInv, Planned, PlanOf, authorize
  <2>2. \A lba \in goal'.lbas : \E k \in DOMAIN plan.patches :
           plan.patches[k].lba = lba /\ goal'.disk[lba] = Patched(scan, plan.patches[k])
    <3> SUFFICES ASSUME NEW lba \in goal'.lbas
                 PROVE  \E k \in DOMAIN plan.patches :
                           /\ plan.patches[k].lba = lba
                           /\ goal'.disk[lba] = Patched(scan, plan.patches[k])
      OBVIOUS
    <3> DEFINE q == CHOOSE q \in Range(plan.patches) : q.lba = lba
    <3>1. lba \in Touched(plan) /\ goal'.disk[lba] = Patched(scan, q)
      BY <1>10 DEF authorize, Patched
    <3>2. \E c \in Range(plan.patches) : c.lba = lba BY <3>1 DEF Touched, Range
    <3>3. q \in Range(plan.patches) /\ q.lba = lba BY <3>2
    <3> HIDE DEF q
    <3> QED BY <3>1, <3>3 DEF Range
  <2>3. goal'.master = FALSE
        /\ goal' = [order |-> goal'.order, lbas |-> goal'.lbas, disk |-> goal'.disk,
                    master |-> goal'.master]
    BY <1>10 DEF authorize
  <2>4. /\ pc' = "write" /\ committed' = {}
        /\ UNCHANGED <<disk, orig, scan, plan, platter, slots, slot, base>>
    BY <1>10 DEF authorize
  <2>5. Shape'
    <3>1. TypeOK' BY <2>1, <2>4 DEF FInv, Shape, TypeOK, Remaining
    <3> QED BY <2>3, <2>4, <3>1 DEF FInv, Shape
  <2>6. Aimed' /\ Ring' BY <2>2, <2>3, <2>4 DEF Aimed, Ring
  <2>7. Planned' /\ Imaged'
    BY <1>10, <2>1, <2>4 DEF FInv, Planned, Imaged, authorize
  <2> QED BY <2>4, <2>5, <2>6, <2>7 DEF FInv, InHand, Durable
<1>11. CASE source_changed
  BY <1>11
      DEF FInv, Shape, TypeOK, Planned, Imaged, InHand, Durable, Aimed, Ring, Current,
          Position, Remaining, source_changed
<1>12. CASE write_one
  <2> DEFINE l == Current.lba
  <2>1. /\ Position \in Remaining /\ pc = "write"
        /\ l = 0 => \A k \in Remaining : plan.patches[k].lba = 0
    BY <1>12, NextPosition DEF write_one
  <2>2. /\ goal' = [goal EXCEPT !.master = @ \/ l = 0] /\ pc' = "flush"
        /\ UNCHANGED <<orig, scan, plan, platter, slots, slot, committed, base>>
    BY <1>12 DEF write_one
  <2>3. l \in DOMAIN disk BY <1>12, WriteHeader
  <2>4. disk[l] = Source(scan, Current) BY <1>12, WriteHeader
  <2>5. UNCHANGED <<Current, Position, Remaining>>
    BY <2>2 DEF Current, Position, Remaining
  <2>6. /\ DOMAIN disk' = DOMAIN disk /\ disk'[l] = Patched(scan, Current)
        /\ \A lba \in DOMAIN disk \ {l} : disk'[lba] = disk[lba]
    BY <1>12, WriteHeader
  <2>7. ASSUME NEW k \in committed PROVE plan.patches[k].lba # l
    <3>1. k \in DOMAIN plan.patches BY DEF FInv, Shape, TypeOK
    <3>2. Changes(scan, plan.patches[k]) BY <2>1, <3>1 DEF FInv, Planned, PlanOf
    <3>3. disk[plan.patches[k].lba] = Patched(scan, plan.patches[k])
      BY <2>1 DEF FInv, Durable
    <3>4. Patched(scan, plan.patches[k]) # Source(scan, plan.patches[k])
      BY <3>2, PatchedDiffers
    <3>5. plan.patches[k].lba = l => Source(scan, plan.patches[k]) = Source(scan, Current)
      BY DEF Source
    <3> QED BY <2>4, <3>3, <3>4, <3>5
  <2>8. /\ goal'.lbas = goal.lbas /\ goal'.disk = goal.disk
        /\ goal'.master = (goal.master \/ l = 0)
        /\ goal' = [order |-> goal'.order, lbas |-> goal'.lbas, disk |-> goal'.disk,
                    master |-> goal'.master]
    BY <2>2 DEF FInv, Shape
  <2>9. Shape' BY <2>1, <2>2, <2>5, <2>6, <2>8 DEF FInv, Shape, TypeOK
  <2>10. Durable' /\ InHand'
    BY <2>1, <2>2, <2>3, <2>5, <2>6, <2>7 DEF FInv, Durable, InHand
  <2>11. ASSUME goal'.master PROVE \A k \in Remaining : plan.patches[k].lba = 0
    BY <2>1, <2>8, <2>11 DEF FInv, Aimed
  <2>12. Aimed' BY <2>1, <2>2, <2>5, <2>8, <2>11 DEF FInv, Aimed
  <2>13. ASSUME goal'.master, NEW lba \in goal.lbas \ {0}
         PROVE  /\ lba \in DOMAIN disk' /\ LinksOf(disk'[lba]) = LinksOf(goal.disk[lba])
                /\ LinksOf(platter[lba]) = LinksOf(goal.disk[lba])
    <3>1. PICK k \in DOMAIN plan.patches :
             plan.patches[k].lba = lba /\ goal.disk[lba] = Patched(scan, plan.patches[k])
      BY <2>1 DEF FInv, Aimed
    <3>2. k \in committed BY <2>11, <2>13, <3>1 DEF Remaining
    <3>3. /\ lba \in DOMAIN disk /\ disk[lba] = goal.disk[lba]
          /\ platter[lba] = goal.disk[lba]
      BY <2>1, <3>1, <3>2 DEF FInv, Durable
    <3>4. lba # l BY <2>7, <3>1, <3>2
    <3> QED BY <2>6, <3>3, <3>4
  <2>14. Ring' BY <2>2, <2>8, <2>13 DEF Ring
  <2>15. Planned' /\ Imaged' BY <2>1, <2>2 DEF FInv, Planned, Imaged
  <2> QED BY <2>9, <2>10, <2>12, <2>14, <2>15 DEF FInv
<1>13. CASE io_failure
  BY <1>13
      DEF FInv, Shape, TypeOK, Planned, Imaged, InHand, Durable, Aimed, Ring, Current,
          Position, Remaining, io_failure
<1>14. CASE flush
  BY <1>14
      DEF FInv, Shape, TypeOK, Planned, Imaged, InHand, Durable, Aimed, Ring, Current,
          Position, Remaining, flush
<1>15. CASE readback
  <2> DEFINE l == Current.lba
  <2>1. Position \in Remaining /\ pc = "readback" BY <1>15, NextPosition DEF readback
  <2>2. UNCHANGED <<disk, orig, scan, plan, platter, slots, slot, base, goal>>
    BY <1>15 DEF readback
  <2>3. CASE pc' = "restart" /\ UNCHANGED committed
    BY <1>15, <2>1, <2>2, <2>3
      DEF FInv, Shape, TypeOK, Planned, Imaged, InHand, Durable, Aimed, Ring, Current,
          Position, Remaining
  <2>4. CASE /\ Read(disk, l) = Patched(scan, Current)
             /\ committed' = committed \cup {Position}
             /\ pc' = IF committed' = DOMAIN plan.patches THEN "final" ELSE "write"
    <3>1. l \in DOMAIN disk /\ platter = disk BY <2>1 DEF FInv, InHand
    <3>2. disk[l] = Patched(scan, Current) /\ Current = plan.patches[Position]
      BY <2>4, <3>1 DEF Read, Current
    <3>3. Position \in DOMAIN plan.patches /\ committed \subseteq DOMAIN plan.patches
      BY <2>1 DEF FInv, Shape, TypeOK, Remaining
    <3>4. committed' \subseteq DOMAIN plan.patches /\ pc' \in {"write", "final"}
      BY <2>4, <3>3
    <3>5. pc' = "write" => Remaining' # {} BY <2>2, <2>4, <3>4 DEF Remaining
    <3>6. Shape' BY <2>1, <2>2, <2>4, <3>4, <3>5 DEF FInv, Shape, TypeOK
    <3>7. Durable' BY <2>1, <2>2, <2>4, <3>1, <3>2, <3>4 DEF FInv, Durable
    <3>8. Remaining' \subseteq Remaining BY <2>2, <2>4 DEF Remaining
    <3>9. Aimed' BY <2>1, <2>2, <3>4, <3>8 DEF FInv, Aimed
    <3>10. Planned' /\ Imaged' /\ InHand' /\ Ring'
      BY <2>1, <2>2, <3>4 DEF FInv, Planned, Imaged, InHand, Ring
    <3> QED BY <3>6, <3>7, <3>9, <3>10 DEF FInv
  <2> QED BY <1>15, <2>3, <2>4 DEF readback, Patched
<1>16. CASE verify_final
  BY <1>16
      DEF FInv, Shape, TypeOK, Planned, Imaged, InHand, Durable, Aimed, Ring, Current,
          Position, Remaining, verify_final
<1>17. CASE restart_to_browser
  BY <1>17, RepairConstants
      DEF FInv, Shape, TypeOK, Planned, Imaged, InHand, Durable, Aimed, Ring, Current,
          Position, Remaining, restart_to_browser, Forget, NoPlan
<1>18. CASE PowerLoss
  <2>1. PICK lost : disk' = [lba \in DOMAIN disk |->
                                IF lba \in lost THEN platter[lba] ELSE disk[lba]]
    BY <1>18 DEF PowerLoss
  <2>2. /\ DOMAIN disk' = DOMAIN disk /\ platter' = disk'
        /\ \A lba \in DOMAIN disk : disk'[lba] \in {disk[lba], platter[lba]}
    BY <1>18, <2>1 DEF PowerLoss
  <2>3. /\ pc' = "boot" /\ slot' = 0 /\ committed' = {}
        /\ UNCHANGED <<orig, slots, base, goal>>
    BY <1>18 DEF PowerLoss, Forget
  <2>4. Shape' BY <2>2, <2>3, RepairConstants DEF FInv, Shape, TypeOK
  <2>5. Ring' BY <2>2, <2>3 DEF FInv, Ring
  <2> QED BY <2>3, <2>4, <2>5 DEF FInv, Planned, Imaged, InHand, Durable, Aimed
<1>19. CASE UNCHANGED vars
  BY <1>19
      DEF FInv, Shape, TypeOK, Planned, Imaged, InHand, Durable, Aimed, Ring, Current,
          Position, Remaining, vars
<1> QED
  BY <1>1, <1>2, <1>3, <1>4, <1>5, <1>6, <1>7, <1>8, <1>9, <1>10, <1>11, <1>12, <1>13, <1>14, <1>15, <1>16, <1>17, <1>18, <1>19
      DEF Next

-----------------------------------------------------------------------------
(* What the steps do to the headers and to the files.                      *)

\* The steps that change a header, the platter or the history of other menus.
LEMMA OtherSteps ==
  ASSUME [Next]_vars
  PROVE  \/ set_osd_pointer \/ write_one \/ flush \/ PowerLoss
         \/ UNCHANGED <<disk, platter, base>>
BY DEF Next, vars, main, run_scan, repair_plan_screen, leave_plan, snapshot_no_slot,
       snapshot_reuse, snapshot_write, snapshot_verify, authorize, source_changed,
       io_failure, readback, verify_final, restart_to_browser

\* The boot pointer's step on the master, and on nothing else.
LEMMA PointerStep ==
  ASSUME FInv, set_osd_pointer
  PROVE  /\ DOMAIN disk' = DOMAIN disk /\ platter' = disk' /\ UNCHANGED slots
         /\ \A lba \in DOMAIN disk \ {0} : disk'[lba] = disk[lba] /\ base'[lba] = base[lba]
         /\ 0 \in DOMAIN disk =>
               /\ Unlinked(disk[0]) = Unlinked(base[0]) => Unlinked(disk'[0]) = Unlinked(base'[0])
               /\ disk[0] = base[0] => disk'[0] = base'[0]
               /\ LinksOf(base'[0]) = LinksOf(base[0])
<1> DEFINE cs(h, r) == apa_checksum([h EXCEPT !.rest = r])
<1>1. PICK r : LET written(h) == [h EXCEPT !.rest = r,
                                     !.sum = apa_checksum([h EXCEPT !.rest = r])]
               IN  /\ disk' = [disk EXCEPT ![0] = written(@)]
                   /\ base' = [base EXCEPT ![0] = written(@)]
  BY DEF set_osd_pointer
<1>2. DOMAIN base = DOMAIN disk /\ (0 \in DOMAIN disk => DOMAIN base[0] = DOMAIN Blank)
  BY DEF FInv, Shape, TypeOK
<1>3. /\ disk' = [disk EXCEPT ![0] = [disk[0] EXCEPT !.rest = r, !.sum = cs(disk[0], r)]]
      /\ base' = [base EXCEPT ![0] = [base[0] EXCEPT !.rest = r, !.sum = cs(base[0], r)]]
  BY <1>1
<1> HIDE DEF cs
<1>4. \A lba \in DOMAIN disk \ {0} : disk'[lba] = disk[lba] /\ base'[lba] = base[lba]
  BY <1>2, <1>3
<1>5. ASSUME 0 \in DOMAIN disk
      PROVE  /\ disk'[0] = [disk[0] EXCEPT !.rest = r, !.sum = cs(disk[0], r)]
             /\ base'[0] = [base[0] EXCEPT !.rest = r, !.sum = cs(base[0], r)]
  BY <1>2, <1>3, <1>5
<1>6. ASSUME 0 \in DOMAIN disk PROVE LinksOf(base'[0]) = LinksOf(base[0])
  BY <1>2, <1>5, <1>6 DEF LinksOf, Blank
<1>7. DOMAIN disk' = DOMAIN disk /\ platter' = disk' /\ UNCHANGED slots
  BY <1>3 DEF set_osd_pointer
<1>8. ASSUME 0 \in DOMAIN disk, Unlinked(disk[0]) = Unlinked(base[0])
      PROVE  Unlinked(disk'[0]) = Unlinked(base'[0])
  <2>1. Unlinked([disk[0] EXCEPT !.rest = r, !.sum = cs(disk[0], r)])
          = Unlinked([base[0] EXCEPT !.rest = r, !.sum = cs(base[0], r)])
    BY <1>8 DEF Unlinked
  <2> QED BY <1>5, <1>8, <2>1, Zenon
<1>9. ASSUME 0 \in DOMAIN disk, disk[0] = base[0] PROVE disk'[0] = base'[0]
  BY <1>5, <1>9, Zenon
<1> QED BY <1>4, <1>6, <1>7, <1>8, <1>9

\* No step changes more of a header than links and checksum, on the disk without
\* repairs and on the repaired one alike.
LEMMA KinStep == FInv /\ KinInv /\ [Next]_vars => KinInv'
<1> SUFFICES ASSUME FInv, KinInv, [Next]_vars PROVE KinInv'
  OBVIOUS
<1>1. CASE set_osd_pointer
  BY <1>1, PointerStep DEF KinInv, Kin
<1>2. CASE write_one
  <2> DEFINE l == Current.lba
  <2>1. UNCHANGED <<platter, base>> BY <1>2 DEF write_one
  <2>2. Unlinked(disk'[l]) = Unlinked(disk[l]) BY <1>2, WriteHeader, PatchedUnlinked
  <2>3. Kin(disk', base)
    <3> SUFFICES ASSUME NEW lba \in DOMAIN disk, disk'[lba] # base[lba]
                 PROVE  Unlinked(disk'[lba]) = Unlinked(base[lba])
      BY <1>2, WriteHeader DEF Kin
    <3>1. CASE lba = l
      BY <2>2, <3>1 DEF KinInv, Kin
    <3>2. CASE lba # l
      BY <1>2, <3>2, WriteHeader DEF KinInv, Kin
    <3> QED BY <3>1, <3>2
  <2> QED BY <2>1, <2>3 DEF KinInv
<1>3. CASE flush
  BY <1>3 DEF KinInv, flush
<1>4. CASE PowerLoss
  <2>1. /\ DOMAIN disk' = DOMAIN disk /\ DOMAIN platter = DOMAIN disk
        /\ \A lba \in DOMAIN disk : disk'[lba] \in {disk[lba], platter[lba]}
        /\ platter' = disk' /\ base' = base
    BY <1>4 DEF PowerLoss, FInv, Shape, TypeOK
  <2> QED BY <2>1 DEF KinInv, Kin
<1>5. CASE UNCHANGED <<disk, platter, base>>
  BY <1>5 DEF KinInv
<1> QED BY <1>1, <1>2, <1>3, <1>4, <1>5, OtherSteps

\* When the status of a file can be read, no whole HDDMETA file is touched again.
LEMMA FilesKept ==
  ASSUME StatMayFail = FALSE, FInv, [Next]_vars
  PROVE  \A s \in 1..Slots : slots[s].file = "whole" => slots'[s] = slots[s]
<1>1. CASE snapshot_write
  <2>1. PICK s \in ChosenSlots :
           /\ slots[s] # build_snapshot_image(scan, plan)
           /\ slots' = [slots EXCEPT ![s] = Torn]
    BY <1>1 DEF snapshot_write
  <2>2. s \in 1..Slots /\ slots[s] = Absent BY <2>1 DEF ChosenSlots, SeenFree
  <2>3. DOMAIN slots = 1..Slots BY DEF FInv, Shape
  <2>4. slots[s].file # "whole" BY <2>2 DEF Absent
  <2> QED BY <2>1, <2>2, <2>3, <2>4
<1>2. CASE snapshot_verify
  <2>1. slot \in 1..Slots /\ slots[slot] = Torn /\ DOMAIN slots = 1..Slots
    BY <1>2 DEF FInv, Shape, Imaged, snapshot_verify
  <2>2. slots[slot].file # "whole" BY <2>1 DEF Torn
  <2> QED BY <1>2, <2>1, <2>2 DEF snapshot_verify
<1>3. snapshot_write \/ snapshot_verify \/ UNCHANGED slots
  BY DEF Next, vars, main, run_scan, set_osd_pointer, repair_plan_screen, leave_plan,
         snapshot_no_slot, snapshot_reuse, authorize, source_changed, write_one,
         io_failure, flush, readback, verify_final, restart_to_browser, PowerLoss
<1> QED BY <1>1, <1>2, <1>3

\* What the files covered they cover still.
LEMMA StillCovered ==
  ASSUME NEW d, NEW b, Covered(d, b, slots),
         \A s \in 1..Slots : slots[s].file = "whole" => slots'[s] = slots[s]
  PROVE  Covered(d, b, slots')
<1> SUFFICES ASSUME NEW lba \in DOMAIN d, d[lba] # b[lba]
             PROVE  \E s \in 1..Slots :
                       /\ slots'[s].file = "whole" /\ lba \in DOMAIN slots'[s].headers
                       /\ LinksOf(slots'[s].headers[lba]) = LinksOf(b[lba])
  BY DEF Covered
<1>1. PICK s \in 1..Slots :
         /\ slots[s].file = "whole" /\ lba \in DOMAIN slots[s].headers
         /\ LinksOf(slots[s].headers[lba]) = LinksOf(b[lba])
  BY DEF Covered
<1>2. slots'[s] = slots[s] BY <1>1
<1> QED BY <1>1, <1>2

\* The image in a slot covers the header about to be written.
LEMMA ImageCovers ==
  ASSUME FInv, write_one
  PROVE  \E s \in 1..Slots :
            /\ slots[s].file = "whole" /\ Current.lba \in DOMAIN slots[s].headers
            /\ slots[s].headers[Current.lba] = disk[Current.lba]
<1>1. pc = "write" BY DEF write_one
<1>2. PICK s \in 1..Slots : slots[s] = build_snapshot_image(scan, plan)
  BY <1>1 DEF FInv, Imaged, Writing
<1>3. Current.lba \in Touched(plan)
  BY <1>1, NextPosition DEF Current, Touched, Remaining
<1>4. /\ slots[s].file = "whole" /\ Current.lba \in DOMAIN slots[s].headers
      /\ slots[s].headers[Current.lba] = Source(scan, Current)
  BY <1>2, <1>3 DEF build_snapshot_image, Image, Source
<1> QED BY <1>4, WriteHeader

\* Every step leaves each repaired header covered.
LEMMA CoverStep ==
  ASSUME StatMayFail = FALSE, FInv, CoverInv, [Next]_vars
  PROVE  CoverInv'
<1>1. \A s \in 1..Slots : slots[s].file = "whole" => slots'[s] = slots[s] BY FilesKept
<1>2. Covered(disk, base, slots') /\ Covered(platter, base, slots')
  BY <1>1, StillCovered DEF CoverInv
<1>3. CASE set_osd_pointer
  <2>1. Covered(disk', base', slots')
    <3> SUFFICES ASSUME NEW lba \in DOMAIN disk, disk'[lba] # base'[lba]
                 PROVE  \E s \in 1..Slots :
                           /\ slots'[s].file = "whole" /\ lba \in DOMAIN slots'[s].headers
                           /\ LinksOf(slots'[s].headers[lba]) = LinksOf(base'[lba])
      BY <1>3, PointerStep DEF Covered
    <3>1. disk[lba] # base[lba] /\ LinksOf(base'[lba]) = LinksOf(base[lba])
      BY <1>3, PointerStep
    <3> QED BY <1>2, <3>1 DEF Covered
  <2> QED BY <1>3, <2>1, PointerStep DEF CoverInv
<1>4. CASE write_one
  <2>1. UNCHANGED <<platter, base, slots>> BY <1>4 DEF write_one
  <2>2. Covered(disk', base, slots)
    <3> SUFFICES ASSUME NEW lba \in DOMAIN disk, disk'[lba] # base[lba]
                 PROVE  \E s \in 1..Slots :
                           /\ slots[s].file = "whole" /\ lba \in DOMAIN slots[s].headers
                           /\ LinksOf(slots[s].headers[lba]) = LinksOf(base[lba])
      BY <1>4, WriteHeader DEF Covered
    <3>1. CASE disk[lba] # base[lba]
      BY <3>1 DEF CoverInv, Covered
    <3>2. CASE disk[lba] = base[lba]
      <4>1. lba = Current.lba BY <1>4, <3>2, WriteHeader
      <4> QED BY <1>4, <3>2, <4>1, ImageCovers
    <3> QED BY <3>1, <3>2
  <2> QED BY <2>1, <2>2 DEF CoverInv
<1>5. CASE flush
  BY <1>5 DEF CoverInv, flush
<1>6. CASE PowerLoss
  <2>1. /\ DOMAIN disk' = DOMAIN disk /\ DOMAIN platter = DOMAIN disk
        /\ \A lba \in DOMAIN disk : disk'[lba] \in {disk[lba], platter[lba]}
        /\ platter' = disk' /\ UNCHANGED <<base, slots>>
    BY <1>6 DEF PowerLoss, FInv, Shape, TypeOK
  <2>2. Covered(disk', base, slots)
    <3> SUFFICES ASSUME NEW lba \in DOMAIN disk, disk'[lba] # base[lba]
                 PROVE  \E s \in 1..Slots :
                           /\ slots[s].file = "whole" /\ lba \in DOMAIN slots[s].headers
                           /\ LinksOf(slots[s].headers[lba]) = LinksOf(base[lba])
      BY <2>1 DEF Covered
    <3>1. disk[lba] # base[lba] \/ platter[lba] # base[lba] BY <2>1
    <3> QED BY <2>1, <3>1 DEF CoverInv, Covered
  <2> QED BY <2>1, <2>2 DEF CoverInv
<1>7. CASE UNCHANGED <<disk, platter, base>>
  BY <1>2, <1>7 DEF CoverInv
<1> QED BY <1>3, <1>4, <1>5, <1>6, <1>7, OtherSteps

-----------------------------------------------------------------------------
(* The theorems.                                                           *)

\* The invariant, over every session, restart and power loss.
THEOREM Invariance == Spec => []FInv
<1>1. Init => FInv BY InitInvariant
<1> QED BY <1>1, StepInvariant, PTL DEF Spec

\* Selections stay among the patches and slots there are, and the writer always has
\* a patch in hand.
THEOREM TypeCorrect == Spec => []TypeOK
<1>1. FInv => TypeOK BY DEF FInv, Shape
<1> QED BY Invariance, <1>1, PTL

\* hdd_forensic_repair_apply_verified writes LBA 0 last: once it is written, every
\* interior header of the ring is on the platter and stays there, through failed
\* calls, restarts, power losses and boot pointers set later.
THEOREM MasterIsLast == Spec => []MasterLast
<1>1. FInv => MasterLast BY DEF FInv, Ring, MasterLast
<1> QED BY Invariance, <1>1, PTL

\* The source-stability check of write_one: a commit from an old scan changes links
\* and checksum and nothing another menu wrote meanwhile.
THEOREM ForeignKept == Spec => []NoForeignChangeLost
<1>1. Init => KinInv BY InitInvariant
<1>2. KinInv => NoForeignChangeLost BY DEF KinInv, Kin, NoForeignChangeLost, Unlinked
<1> QED BY Invariance, <1>1, <1>2, KinStep, PTL DEF Spec

\* When the status of a file can be read, forensic_snapshot_save never overwrites a
\* whole HDDMETA file; with a status that may fail it does.
THEOREM FilesStay ==
  ASSUME StatMayFail = FALSE
  PROVE  Spec => SnapshotsKept
<1>1. FInv /\ [Next]_vars =>
         [\A s \in 1..Slots : slots[s].file = "whole" => slots'[s] = slots[s]]_vars
  BY FilesKept
<1> QED BY Invariance, <1>1, PTL DEF Spec, SnapshotsKept

\* When the status of a file can be read, the links a header had before the program
\* first changed it are in a whole HDDMETA file, through any number of interrupted
\* and repeated repairs.
THEOREM Covers ==
  ASSUME StatMayFail = FALSE
  PROVE  Spec => []SnapshotCoversWrites
<1>1. Init => CoverInv BY InitInvariant
<1>2. FInv /\ CoverInv /\ [Next]_vars => CoverInv' BY CoverStep
<1>3. CoverInv => SnapshotCoversWrites BY DEF CoverInv, Covered, SnapshotCoversWrites
<1> QED BY Invariance, <1>1, <1>2, <1>3, PTL DEF Spec
=============================================================================
