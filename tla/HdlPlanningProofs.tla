-------------------------- MODULE HdlPlanningProofs -------------------------
(***************************************************************************)
(* Catalogue and planning.                                                 *)
(*                                                                         *)
(* The walk of the APA chain meets no header twice and reports the chain   *)
(* exactly, for a drive and a node limit of any size and whatever its      *)
(* headers hold.                                                           *)
(*                                                                         *)
(* The partition plan of an image is a tiling of it, and stream, status    *)
(* line and metadata follow that tiling to the same sectors, for any image *)
(* and any sizes, limits and places.                                       *)
(*                                                                         *)
(* The two specifications are independent; what they share is the theory   *)
(* of sums that comes first.                                               *)
(***************************************************************************)
EXTENDS ApaCatalog, HdlPlan, TLAPS, FiniteSetTheorems, WellFoundedInduction

-----------------------------------------------------------------------------
(* Sums over finite sets.  SumFunctionOnSet picks the elements in some     *)
(* order; the lemmas show that the order does not matter, by a least       *)
(* counterexample.                                                         *)

\* A set of natural numbers has a least element.
LEMMA Least ==
  ASSUME NEW T \in SUBSET Nat, T # {}
  PROVE  \E x \in T : \A y \in T : x <= y
<1> DEFINE R == OpToRel(<, Nat)
<1>1. IsWellFoundedOn(R, Nat) BY NatLessThanWellFounded
<1>2. \A x, y \in Nat : y < x => <<y, x>> \in R BY DEF OpToRel
<1> HIDE DEF R
<1>3. PICK x \in T : \A y \in T : ~ (<<y, x>> \in R) BY <1>1, WFMin
<1>4. \A y \in T : ~(y < x) BY <1>2, <1>3, Zenon
<1>5. \A y \in T : x <= y BY <1>4
<1> QED BY <1>5

Pick(s) == CHOOSE x \in s : TRUE

\* What the fold computes for s, given g for smaller sets.
Turn(d, g, s) == IF s = {} THEN 0 ELSE d[Pick(s)] + g[s \ {Pick(s)}]

\* g is what the fold computes for the subsets of S with at most n elements.
Folds(d, S, n, g) ==
    \A s \in SUBSET S : Cardinality(s) <= n => g[s] = Turn(d, g, s)

\* A set without the element picked is smaller.
LEMMA PickSmaller ==
  ASSUME NEW S, IsFiniteSet(S), NEW s \in SUBSET S, NEW x \in s
  PROVE  /\ IsFiniteSet(s) /\ s \ {x} \in SUBSET S
         /\ Cardinality(s) \in Nat \ {0} /\ Cardinality(s \ {x}) = Cardinality(s) - 1
<1>1. IsFiniteSet(s) BY FS_Subset
<1>2. Cardinality(s) \in Nat /\ Cardinality(s) # 0 BY <1>1, FS_CardinalityType, FS_EmptySet
<1>3. Cardinality(s \ {x}) = Cardinality(s) - 1 BY <1>1, FS_RemoveElement
<1> QED BY <1>1, <1>2, <1>3

\* Such a g exists for every n: the one for n extends the one for n - 1.
LEMMA FoldExists ==
  ASSUME NEW d, NEW S, IsFiniteSet(S), NEW n \in Nat
  PROVE  \E g : DOMAIN g = SUBSET S /\ Folds(d, S, n, g)
<1> DEFINE Bad == {m \in Nat : ~ \E g : DOMAIN g = SUBSET S /\ Folds(d, S, m, g)}
<1> SUFFICES ASSUME Bad # {} PROVE FALSE
  OBVIOUS
<1>1. PICK m \in Bad : \A k \in Bad : m <= k
  <2>1. Bad \in SUBSET Nat OBVIOUS
  <2> HIDE DEF Bad
  <2> QED BY <2>1, Least
<1>2. m # 0
  <2> SUFFICES ASSUME m = 0 PROVE FALSE
    OBVIOUS
  <2> DEFINE g == [s \in SUBSET S |-> 0]
  <2>1. ASSUME NEW s \in SUBSET S, Cardinality(s) <= 0 PROVE g[s] = Turn(d, g, s)
    <3>1. s = {}
      <4> SUFFICES ASSUME NEW x \in s PROVE FALSE
        OBVIOUS
      <4>1. Cardinality(s) \in Nat \ {0} BY PickSmaller
      <4> QED BY <2>1, <4>1
    <3> QED BY <3>1 DEF Turn
  <2>2. DOMAIN g = SUBSET S /\ Folds(d, S, 0, g) BY <2>1 DEF Folds
  <2> HIDE DEF g
  <2> QED BY <2>2
<1>3. m - 1 \in Nat /\ m - 1 \notin Bad
  <2>1. m \in Nat BY <1>1
  <2> HIDE DEF Bad
  <2>2. m - 1 \in Bad => m <= m - 1 BY <1>1
  <2> QED BY <1>2, <2>1, <2>2
<1>4. PICK g : DOMAIN g = SUBSET S /\ Folds(d, S, m - 1, g) BY <1>3
<1> DEFINE h == [s \in SUBSET S |-> IF Cardinality(s) <= m - 1 THEN g[s] ELSE Turn(d, g, s)]
<1>5. ASSUME NEW s \in SUBSET S, Cardinality(s) <= m PROVE h[s] = Turn(d, h, s)
  <2>1. h[s] = Turn(d, g, s)
    <3>1. CASE Cardinality(s) <= m - 1 BY <1>4, <3>1 DEF Folds
    <3>2. CASE ~(Cardinality(s) <= m - 1) BY <3>2
    <3> QED BY <3>1, <3>2
  <2>2. CASE s = {} BY <2>1, <2>2 DEF Turn
  <2>3. CASE s # {}
    <3>1. Pick(s) \in s BY <2>3 DEF Pick
    <3>2. /\ s \ {Pick(s)} \in SUBSET S /\ Cardinality(s) \in Nat
          /\ Cardinality(s \ {Pick(s)}) = Cardinality(s) - 1
      BY <3>1, PickSmaller
    <3>3. Cardinality(s \ {Pick(s)}) <= m - 1 BY <1>3, <1>5, <3>2
    <3>4. h[s \ {Pick(s)}] = g[s \ {Pick(s)}] BY <3>2, <3>3
    <3> QED BY <2>1, <2>3, <3>4 DEF Turn
  <2> QED BY <2>2, <2>3
<1>6. DOMAIN h = SUBSET S /\ Folds(d, S, m, h) BY <1>5 DEF Folds
<1> HIDE DEF h
<1> QED BY <1>1, <1>6

\* The sum over a finite set is what such a g has there.
LEMMA SumIsFold ==
  ASSUME NEW d, NEW S, IsFiniteSet(S)
  PROVE  \E g : /\ \A s \in SUBSET S : g[s] = Turn(d, g, s)
                /\ SumFunctionOnSet(d, S) = g[S]
<1> DEFINE Equation(g) == g = [s \in SUBSET S |-> Turn(d, g, s)]
<1>1. SumFunctionOnSet(d, S) = (CHOOSE g : Equation(g))[S]
  BY DEF SumFunctionOnSet, FoldFunctionOnSet, MapThenFoldSet, Turn, Pick
<1>2. \E g : Equation(g)
  <2>1. Cardinality(S) \in Nat BY FS_CardinalityType
  <2>2. PICK g : DOMAIN g = SUBSET S /\ Folds(d, S, Cardinality(S), g)
    BY <2>1, FoldExists
  <2>3. \A s \in SUBSET S : Cardinality(s) <= Cardinality(S) BY FS_Subset
  <2>4. \A s \in SUBSET S : g[s] = Turn(d, g, s) BY <2>2, <2>3 DEF Folds
  <2> DEFINE h == [s \in SUBSET S |-> g[s]]
  <2>5. \A s \in SUBSET S : Turn(d, h, s) = Turn(d, g, s)
    BY DEF Turn, Pick
  <2>6. h = [s \in SUBSET S |-> Turn(d, h, s)]
    <3>1. \A s \in SUBSET S : h[s] = Turn(d, h, s) BY <2>4, <2>5
    <3> HIDE DEF h
    <3>2. h = [s \in SUBSET S |-> h[s]] BY DEF h
    <3> QED BY <3>1, <3>2
  <2> HIDE DEF h
  <2> QED BY <2>6
<1>3. Equation(CHOOSE g : Equation(g))
  <2> HIDE DEF Equation
  <2> QED BY <1>2
<1> DEFINE c == CHOOSE g : Equation(g)
<1>4. c = [s \in SUBSET S |-> Turn(d, c, s)] BY <1>3
<1>5. SumFunctionOnSet(d, S) = c[S] BY <1>1
<1> HIDE DEF c
<1>6. \A s \in SUBSET S : c[s] = Turn(d, c, s)
  <2> TAKE s \in SUBSET S
  <2> DEFINE e == [t \in SUBSET S |-> Turn(d, c, t)]
  <2>1. e[s] = Turn(d, c, s) OBVIOUS
  <2>2. c = e BY <1>4
  <2> HIDE DEF e
  <2> QED BY <2>1, <2>2
<1> QED BY <1>5, <1>6

\* The fold does not depend on which element goes first.
LEMMA AnyFirst ==
  ASSUME NEW d, NEW S, IsFiniteSet(S), \A l \in S : d[l] \in Nat,
         NEW g, \A s \in SUBSET S : g[s] = Turn(d, g, s),
         NEW T \in SUBSET S
  PROVE  g[T] \in Nat /\ \A x \in T : g[T] = d[x] + g[T \ {x}]
<1> DEFINE Good(s) == g[s] \in Nat /\ \A x \in s : g[s] = d[x] + g[s \ {x}]
           Bad == {m \in Nat : \E s \in SUBSET S : Cardinality(s) = m /\ ~Good(s)}
<1>0. \A s \in SUBSET S : Cardinality(s) \in Nat BY FS_Subset, FS_CardinalityType
<1> SUFFICES ASSUME ~Good(T) PROVE FALSE
  OBVIOUS
<1>1. PICK m \in Bad : \A k \in Bad : m <= k
  <2>1. Bad \in SUBSET Nat OBVIOUS
  <2>2. Cardinality(T) \in Bad BY <1>0
  <2> HIDE DEF Bad
  <2> QED BY <2>1, <2>2, Least
<1>2. PICK s \in SUBSET S : Cardinality(s) = m /\ ~Good(s) BY <1>1
<1>3. \A t \in SUBSET S : Cardinality(t) < m => Good(t)
  <2> SUFFICES ASSUME NEW t \in SUBSET S, Cardinality(t) < m, ~Good(t) PROVE FALSE
    OBVIOUS
  <2>1. Cardinality(t) \in Bad BY <1>0
  <2>2. Cardinality(t) \in Nat /\ m \in Nat BY <1>0, <1>1
  <2> HIDE DEF Bad, Good
  <2> QED BY <1>1, <2>1, <2>2
<1>4. Good({})
  <2>1. {} \in SUBSET S OBVIOUS
  <2>2. g[{}] = Turn(d, g, {}) BY <2>1
  <2> QED BY <2>2 DEF Turn
<1>5. s # {} BY <1>2, <1>4
<1> DEFINE y == Pick(s)
<1>6. y \in s /\ g[s] = d[y] + g[s \ {y}] BY <1>5 DEF Turn, Pick
<1> HIDE DEF y
<1>7. \A x \in s : s \ {x} \in SUBSET S /\ Good(s \ {x})
  <2> SUFFICES ASSUME NEW x \in s PROVE s \ {x} \in SUBSET S /\ Good(s \ {x})
    OBVIOUS
  <2>1. s \ {x} \in SUBSET S /\ Cardinality(s \ {x}) < m
    BY <1>2, PickSmaller
  <2> QED BY <1>3, <2>1
<1>8. g[s] \in Nat
  <2>1. Good(s \ {y}) BY <1>6, <1>7
  <2>2. g[s \ {y}] \in Nat BY <2>1
  <2>3. d[y] \in Nat BY <1>6
  <2> QED BY <1>6, <2>2, <2>3
<1>9. ASSUME NEW x \in s PROVE g[s] = d[x] + g[s \ {x}]
  <2>1. CASE x = y BY <1>6, <2>1
  <2>2. CASE x # y
    <3> DEFINE r == (s \ {y}) \ {x}
    <3>1. r = (s \ {x}) \ {y} OBVIOUS
    <3>2. g[s \ {y}] = d[x] + g[r] BY <1>6, <1>7, <2>2
    <3>3. g[s \ {x}] = d[y] + g[r]
      <4>1. Good(s \ {x}) /\ y \in s \ {x} BY <1>6, <1>7, <2>2
      <4>2. g[s \ {x}] = d[y] + g[(s \ {x}) \ {y}] BY <4>1
      <4> QED BY <3>1, <4>2
    <3>4. r \in SUBSET S /\ g[r] \in Nat
      <4>1. r \in SUBSET S OBVIOUS
      <4>2. Cardinality(s \ {y}) = m - 1 /\ m \in Nat BY <1>2, <1>6, PickSmaller
      <4>3. Cardinality(r) = (m - 1) - 1
        <5>1. x \in s \ {y} /\ s \ {y} \in SUBSET S BY <2>2
        <5> QED BY <4>2, <5>1, PickSmaller
      <4> QED BY <1>3, <4>1, <4>2, <4>3
    <3>5. d[x] \in Nat /\ d[y] \in Nat BY <1>6
    <3> QED BY <1>6, <3>2, <3>3, <3>4, <3>5
  <2> QED BY <2>1, <2>2
<1> QED BY <1>2, <1>8, <1>9

\* Two folds agree where their lengths do.
LEMMA FoldsAgree ==
  ASSUME NEW S, IsFiniteSet(S), NEW d, NEW e, NEW g, NEW h,
         \A l \in S : d[l] = e[l],
         \A s \in SUBSET S : g[s] = Turn(d, g, s),
         \A s \in SUBSET S : h[s] = Turn(e, h, s)
  PROVE  g[S] = h[S]
<1> DEFINE Bad == {m \in Nat : \E s \in SUBSET S : Cardinality(s) = m /\ g[s] # h[s]}
<1>0. \A s \in SUBSET S : Cardinality(s) \in Nat BY FS_Subset, FS_CardinalityType
<1> SUFFICES ASSUME g[S] # h[S] PROVE FALSE
  OBVIOUS
<1>1. PICK m \in Bad : \A k \in Bad : m <= k
  <2>1. Bad \in SUBSET Nat OBVIOUS
  <2>2. Cardinality(S) \in Bad BY <1>0
  <2> HIDE DEF Bad
  <2> QED BY <2>1, <2>2, Least
<1>2. PICK s \in SUBSET S : Cardinality(s) = m /\ g[s] # h[s] BY <1>1
<1>3. \A t \in SUBSET S : Cardinality(t) < m => g[t] = h[t]
  <2> SUFFICES ASSUME NEW t \in SUBSET S, Cardinality(t) < m, g[t] # h[t] PROVE FALSE
    OBVIOUS
  <2>1. Cardinality(t) \in Bad BY <1>0
  <2>2. Cardinality(t) \in Nat /\ m \in Nat BY <1>0, <1>1
  <2> HIDE DEF Bad
  <2> QED BY <1>1, <2>1, <2>2
<1>4. s # {} BY <1>2 DEF Turn
<1>5. Pick(s) \in s BY <1>4 DEF Pick
<1>6. s \ {Pick(s)} \in SUBSET S /\ Cardinality(s \ {Pick(s)}) < m
  BY <1>2, <1>5, PickSmaller
<1>7. g[s \ {Pick(s)}] = h[s \ {Pick(s)}] BY <1>3, <1>6
<1>8. d[Pick(s)] = e[Pick(s)] BY <1>5
<1> QED BY <1>2, <1>4, <1>7, <1>8 DEF Turn

\* Nothing adds up to nothing.
LEMMA SumEmpty == ASSUME NEW d PROVE SumFunctionOnSet(d, {}) = 0
<1>1. PICK g : (\A s \in SUBSET {} : g[s] = Turn(d, g, s)) /\ SumFunctionOnSet(d, {}) = g[{}]
  BY SumIsFold, FS_EmptySet
<1> QED BY <1>1 DEF Turn

\* A header read elsewhere does not change the sum over the chain so far.
LEMMA SumSame ==
  ASSUME NEW S, IsFiniteSet(S), NEW d, NEW e, \A l \in S : d[l] = e[l]
  PROVE  SumFunctionOnSet(e, S) = SumFunctionOnSet(d, S)
<1>1. PICK g : (\A s \in SUBSET S : g[s] = Turn(d, g, s)) /\ SumFunctionOnSet(d, S) = g[S]
  BY SumIsFold
<1>2. PICK h : (\A s \in SUBSET S : h[s] = Turn(e, h, s)) /\ SumFunctionOnSet(e, S) = h[S]
  BY SumIsFold
<1> QED BY <1>1, <1>2, FoldsAgree

\* One header more adds its length.
LEMMA SumMore ==
  ASSUME NEW S, IsFiniteSet(S), NEW d, NEW x, x \notin S,
         \A l \in S \cup {x} : d[l] \in Nat
  PROVE  SumFunctionOnSet(d, S \cup {x}) = SumFunctionOnSet(d, S) + d[x]
<1> DEFINE R == S \cup {x}
<1>1. IsFiniteSet(R) /\ R \ {x} = S /\ S \in SUBSET R BY FS_AddElement
<1>2. PICK g : (\A s \in SUBSET S : g[s] = Turn(d, g, s)) /\ SumFunctionOnSet(d, S) = g[S]
  BY SumIsFold
<1>3. PICK h : (\A s \in SUBSET R : h[s] = Turn(d, h, s)) /\ SumFunctionOnSet(d, R) = h[R]
  BY <1>1, SumIsFold
<1>4. h[R] = d[x] + h[R \ {x}] /\ h[S] \in Nat
  <2>1. x \in R /\ R \in SUBSET R /\ \A l \in R : d[l] \in Nat OBVIOUS
  <2> HIDE DEF R
  <2>2. \A z \in R : h[R] = d[z] + h[R \ {z}]
    BY <1>1, <1>3, <2>1, AnyFirst
  <2>3. h[S] \in Nat BY <1>1, <1>3, <2>1, AnyFirst
  <2> QED BY <2>1, <2>2, <2>3
<1>5. g[S] = h[S]
  <2>1. \A s \in SUBSET S : h[s] = Turn(d, h, s) BY <1>1, <1>3
  <2> QED BY <1>2, <2>1, FoldsAgree
<1>6. d[x] \in Nat OBVIOUS
<1>7. SumFunctionOnSet(d, R) = d[x] + h[S] BY <1>1, <1>3, <1>4
<1> HIDE DEF R
<1>8. SumFunctionOnSet(d, R) = SumFunctionOnSet(d, S) + d[x] BY <1>2, <1>4, <1>5, <1>6, <1>7
<1> QED BY <1>8 DEF R

-----------------------------------------------------------------------------
(* Least and greatest elements, and multiples of the block size.           *)

\* Min is the least element.
LEMMA MinOf ==
  ASSUME NEW S \in SUBSET Nat, S # {}
  PROVE  Min(S) \in S /\ \A y \in S : Min(S) <= y
BY Least DEF Min

\* A finite set of numbers has a greatest element, and Max is it.
LEMMA MaxOf ==
  ASSUME NEW S \in SUBSET Nat, S # {}, IsFiniteSet(S)
  PROVE  Max(S) \in S /\ \A y \in S : y <= Max(S)
<1> DEFINE Good(s) == s = {} \/ \E x \in s : \A y \in s : y <= x
           Bad == {m \in Nat : \E s \in SUBSET S : Cardinality(s) = m /\ ~Good(s)}
<1>0. \A s \in SUBSET S : Cardinality(s) \in Nat BY FS_Subset, FS_CardinalityType
<1>1. Good(S)
  <2> SUFFICES ASSUME ~Good(S) PROVE FALSE
    OBVIOUS
  <2>1. PICK m \in Bad : \A k \in Bad : m <= k
    <3>1. Bad \in SUBSET Nat OBVIOUS
    <3>2. Cardinality(S) \in Bad BY <1>0
    <3> HIDE DEF Bad
    <3> QED BY <3>1, <3>2, Least
  <2>2. PICK s \in SUBSET S : Cardinality(s) = m /\ ~Good(s) BY <2>1
  <2>3. PICK z \in s : TRUE BY <2>2
  <2>4. s \ {z} \in SUBSET S /\ Cardinality(s \ {z}) < m
    <3> HIDE DEF Good
    <3>1. /\ s \ {z} \in SUBSET S /\ Cardinality(s) \in Nat \ {0}
          /\ Cardinality(s \ {z}) = Cardinality(s) - 1
      BY <2>3, PickSmaller
    <3> QED BY <2>2, <3>1
  <2>5. Good(s \ {z})
    <3> SUFFICES ASSUME ~Good(s \ {z}) PROVE FALSE
      OBVIOUS
    <3>1. Cardinality(s \ {z}) \in Bad BY <1>0, <2>4
    <3>2. Cardinality(s \ {z}) \in Nat /\ m \in Nat BY <1>0, <2>1, <2>4
    <3> HIDE DEF Bad, Good
    <3> QED BY <2>1, <2>4, <3>1, <3>2
  <2>6. CASE s \ {z} = {}
    <3>1. s = {z} /\ z \in Nat BY <2>3, <2>6
    <3> QED BY <2>2, <3>1
  <2>7. CASE s \ {z} # {}
    <3>1. PICK x \in s \ {z} : \A y \in s \ {z} : y <= x BY <2>5, <2>7
    <3>2. x \in Nat /\ z \in Nat /\ s \in SUBSET Nat BY <2>3
    <3>3. CASE x <= z
      <4>1. \A y \in s : y <= z BY <3>1, <3>2, <3>3
      <4> QED BY <2>2, <2>3, <4>1
    <3>4. CASE z <= x
      <4>1. \A y \in s : y <= x BY <3>1, <3>2, <3>4
      <4> QED BY <2>2, <3>1, <4>1
    <3> QED BY <3>2, <3>3, <3>4
  <2> QED BY <2>6, <2>7
<1>2. \E x \in S : \A y \in S : x >= y BY <1>1
<1> QED BY <1>2 DEF Max

\* The smaller of two.
LEMMA MinTwo ==
  ASSUME NEW a \in Nat, NEW b \in Nat
  PROVE  Min({a, b}) = IF a <= b THEN a ELSE b
<1>1. Min({a, b}) \in {a, b} /\ Min({a, b}) <= a /\ Min({a, b}) <= b
  BY {a, b} \in SUBSET Nat, MinOf
<1> QED BY <1>1

\* A multiple of B is B times its quotient.
LEMMA DivExact ==
  ASSUME NEW B \in Nat \ {0}, NEW a \in Nat, a % B = 0
  PROVE  a \div B \in Nat /\ a = B * (a \div B)
OBVIOUS

\* A product is a multiple.
LEMMA ModTimes == ASSUME NEW B \in Nat \ {0}, NEW a \in Nat PROVE (B * a) % B = 0
OBVIOUS

\* Multiplication by B keeps the order.
LEMMA TimesLess ==
  ASSUME NEW B \in Nat \ {0}, NEW a \in Nat, NEW b \in Nat, B * a < B * b
  PROVE  a < b
OBVIOUS

\* ... and distributes.
LEMMA TimesMinus ==
  ASSUME NEW B \in Nat \ {0}, NEW a \in Int, NEW b \in Int
  PROVE  B * (a - b) = B * a - B * b /\ B * (a + b) = B * a + B * b
OBVIOUS

\* The difference of two multiples is one, and so is the sum.
LEMMA ModMinus ==
  ASSUME NEW B \in Nat \ {0}, NEW a \in Nat, NEW b \in Nat, a % B = 0, b % B = 0
  PROVE  (b <= a => (a - b) % B = 0) /\ (a + b) % B = 0
<1> DEFINE x == a \div B
           y == b \div B
<1>1. x \in Nat /\ y \in Nat /\ a = B * x /\ b = B * y BY DivExact
<1> HIDE DEF x, y
<1>2. a - b = B * (x - y) /\ a + b = B * (x + y) BY <1>1, TimesMinus
<1>3. (a + b) % B = 0 BY <1>1, <1>2, ModTimes
<1>4. ASSUME b <= a PROVE (a - b) % B = 0
  <2>1. ~(B * x < B * y) BY <1>1, <1>4
  <2>2. ~(x < y)
    <3> SUFFICES ASSUME x < y PROVE B * x < B * y
      BY <2>1
    <3> QED BY <1>1
  <2>3. x - y \in Nat BY <1>1, <2>2
  <2> QED BY <1>2, <2>3, ModTimes
<1> QED BY <1>3, <1>4

-----------------------------------------------------------------------------
(* The walk of the chain.                                                  *)

\* What the comparisons of the walk establish: every header passed points back at
\* the one passed before it, the first at the master, and stays as it was read.
BackLinked ==
    /\ visited \in Seq(Nat \ {0}) /\ current \in Nat
    /\ \A lba \in DOMAIN disk : disk[lba] \in Header
    /\ previous = IF visited = <<>> THEN 0 ELSE visited[Len(visited)]
    /\ \A i \in 1..Len(visited) :
          /\ visited[i] \in DOMAIN disk
          /\ disk[visited[i]].prev = IF i = 1 THEN 0 ELSE visited[i - 1]

WalkInv == BackLinked /\ VisitedOnce

\* Before the first header there is nothing to compare.
LEMMA InitEstablishes == ScanInit => WalkInv
  <1> SUFFICES ASSUME ScanInit PROVE WalkInv
    OBVIOUS
  <1>1. Total \in Nat
    BY CatalogConstants
  <1> QED
    BY <1>1 DEF ScanInit, WalkInv, BackLinked, VisitedOnce

\* A header met a second time holds one back link, so the header passed just before
\* it is the same both times: already met twice, or the master, which is no header
\* of the walk.
LEMMA NotMetBefore ==
  ASSUME WalkInv, current # 0, NEW h \in Readable, Accepted(h)
  PROVE  \A i \in 1..Len(visited) : visited[i] # current
  <1> USE DEF WalkInv
  <1>1. h.prev = previous /\ Len(visited) \in Nat
    BY DEF Accepted, BackLinked
  <1>2. current \in DOMAIN disk => h = disk[current]
    BY DEF Readable
  <1> SUFFICES ASSUME NEW i \in 1..Len(visited), visited[i] = current PROVE FALSE
    OBVIOUS
  <1>3. disk[current].prev = visited[Len(visited)]
    BY <1>1, <1>2 DEF BackLinked
  <1>4. CASE i = 1
    <2>1. disk[current].prev = 0
      BY <1>4 DEF BackLinked
    <2> QED
      BY <2>1, <1>3, <1>1 DEF BackLinked
  <1>5. CASE i # 1
    <2>1. i - 1 \in 1..Len(visited) /\ visited[i - 1] = visited[Len(visited)]
      <3>1. disk[visited[i]].prev = visited[i - 1]
        BY <1>5 DEF BackLinked
      <3>2. i - 1 \in 1..Len(visited)
        BY <1>5, <1>1
      <3> QED
        BY <3>1, <3>2, <1>3
    <2>2. i - 1 = Len(visited)
      BY <2>1, <1>1 DEF VisitedOnce, BackLinked
    <2> QED
      BY <2>2, <1>1
  <1> QED
    BY <1>4, <1>5

\* A step passes one header, which was not passed before.
LEMMA StepPreserves == WalkInv /\ scan_step => WalkInv'
  <1> SUFFICES ASSUME WalkInv, scan_step PROVE WalkInv'
    OBVIOUS
  <1> USE DEF WalkInv
  <1>1. PICK h \in Readable :
          /\ Accepted(h)
          /\ disk' = [lba \in DOMAIN disk \cup {current} |->
                          IF lba = current THEN h ELSE disk[lba]]
          /\ current' = h.next
    BY DEF scan_step
  <1>2. /\ h.prev = previous /\ current # 0 /\ previous' = current
        /\ visited' = Append(visited, current)
    BY <1>1 DEF scan_step, Accepted
  <1>3. h \in Header /\ h.next \in Nat
    <2>1. h \in Header
      BY <1>1 DEF Readable, BackLinked
    <2> QED
      BY <2>1, CatalogConstants DEF Header
  <1>4. current \in DOMAIN disk => h = disk[current]
    BY <1>1 DEF Readable
  <1>5. /\ DOMAIN disk' = DOMAIN disk \cup {current} /\ disk'[current] = h
        /\ \A lba \in DOMAIN disk : disk'[lba] = disk[lba]
    BY <1>1, <1>4
  <1>6. /\ Len(visited') = Len(visited) + 1 /\ Len(visited) \in Nat
        /\ \A i \in 1..Len(visited) : visited'[i] = visited[i]
        /\ visited'[Len(visited) + 1] = current
        /\ visited' \in Seq(Nat \ {0})
    BY <1>2 DEF BackLinked
  <1>7. BackLinked'
    <2>1. previous' = IF visited' = <<>> THEN 0 ELSE visited'[Len(visited')]
      BY <1>2, <1>6
    <2>2. visited # <<>> => Len(visited) \in 1..Len(visited)
      BY <1>6 DEF BackLinked
    <2>3. ASSUME NEW i \in 1..Len(visited')
          PROVE  /\ visited'[i] \in DOMAIN disk'
                 /\ disk'[visited'[i]].prev = IF i = 1 THEN 0 ELSE visited'[i - 1]
      <3>1. CASE i \in 1..Len(visited)
        <4>1. /\ visited'[i] = visited[i] /\ visited[i] \in DOMAIN disk
              /\ disk[visited[i]].prev = IF i = 1 THEN 0 ELSE visited[i - 1]
          BY <3>1, <1>6 DEF BackLinked
        <4>2. i # 1 => visited'[i - 1] = visited[i - 1]
          BY <3>1, <1>6
        <4>3. disk'[visited[i]] = disk[visited[i]] /\ visited[i] \in DOMAIN disk'
          BY <4>1, <1>5
        <4> QED
          BY <4>1, <4>2, <4>3
      <3>2. CASE i = Len(visited) + 1
        <4>1. visited'[i] = current /\ disk'[visited'[i]].prev = previous
          BY <3>2, <1>2, <1>5, <1>6
        <4>2. previous = IF i = 1 THEN 0 ELSE visited'[i - 1]
          BY <3>2, <2>2, <1>6 DEF BackLinked
        <4> QED
          BY <4>1, <4>2, <1>5
      <3> QED
        BY <3>1, <3>2, <1>6
    <2>4. \A lba \in DOMAIN disk' : disk'[lba] \in Header
      BY <1>3, <1>5 DEF BackLinked
    <2> QED
      BY <2>1, <2>3, <2>4, <1>1, <1>3, <1>6 DEF BackLinked
  <1>8. \A i \in 1..Len(visited) : visited[i] # current
    BY <1>1, <1>2, NotMetBefore
  <1>9. VisitedOnce'
    <2>1. DOMAIN visited = 1..Len(visited) /\ DOMAIN visited' = 1..(Len(visited) + 1)
      BY <1>6 DEF BackLinked
    <2> SUFFICES ASSUME NEW i \in 1..(Len(visited) + 1), NEW j \in 1..(Len(visited) + 1),
                        visited'[i] = visited'[j]
                 PROVE  i = j
      BY <2>1 DEF VisitedOnce
    <2>2. CASE i \in 1..Len(visited) /\ j \in 1..Len(visited)
      BY <2>1, <2>2, <1>6 DEF VisitedOnce
    <2>3. CASE i \notin 1..Len(visited) \/ j \notin 1..Len(visited)
      <3>1. i = Len(visited) + 1 \/ j = Len(visited) + 1
        BY <2>3, <1>6
      <3>2. \A k \in 1..Len(visited) : visited'[k] # visited'[Len(visited) + 1]
        BY <1>6, <1>8
      <3> QED
        BY <3>1, <3>2, <1>6
    <2> QED
      BY <2>2, <2>3
  <1> QED
    BY <1>7, <1>9

\* Every step of the walk keeps the invariant.
LEMMA NextPreserves == WalkInv /\ [ScanNext]_scan_vars => WalkInv'
  <1> SUFFICES ASSUME WalkInv, [ScanNext]_scan_vars PROVE WalkInv'
    OBVIOUS
  <1>1. CASE scan_step
    BY <1>1, StepPreserves
  <1>2. CASE scan_refuse \/ scan_finish \/ UNCHANGED scan_vars
    BY <1>2 DEF scan_refuse, scan_finish, scan_vars, WalkInv, BackLinked, VisitedOnce
  <1> QED
    BY <1>1, <1>2 DEF ScanNext

\* The comparison of the back link in scan_apa_catalog_for_target is enough: on no
\* disk does the walk pass a header twice.
THEOREM WalkVisitsOnce == ScanSpec => []VisitedOnce
  <1>1. WalkInv => VisitedOnce
    BY DEF WalkInv
  <1> QED
    BY InitEstablishes, NextPreserves, <1>1, PTL DEF ScanSpec

-----------------------------------------------------------------------------
(* What the walk reports.                                                  *)

Chain == {visited[i] : i \in DOMAIN visited}

OfType(t) == {l \in Chain : disk[l].type = t}

LengthOf == [l \in Chain |-> disk[l].length]

\* At every turn the numbers are those of the headers passed so far.
Exact ==
    /\ IsFiniteSet(Chain)
    /\ free_sectors = SumFunctionOnSet(LengthOf, OfType("free"))
    /\ games \in Seq(Nat) /\ {games[i] : i \in DOMAIN games} = OfType("main")
    /\ Len(games) = Cardinality(OfType("main"))
    /\ found <=> \E l \in Chain : disk[l].type # "free" /\ disk[l].target

\* Before the first header there is nothing to report.
LEMMA InitExact == ScanInit => Exact
<1> SUFFICES ASSUME ScanInit PROVE Exact
  OBVIOUS
<1>1. Chain = {} /\ games = <<>> /\ free_sectors = 0 /\ found = FALSE BY DEF ScanInit, Chain
<1>2. OfType("free") = {} /\ OfType("main") = {} BY <1>1 DEF OfType
<1>3. IsFiniteSet({}) /\ Cardinality({}) = 0 BY FS_EmptySet
<1>4. free_sectors = SumFunctionOnSet(LengthOf, OfType("free")) BY <1>1, <1>2, SumEmpty
<1>5. games \in Seq(Nat) /\ {games[i] : i \in DOMAIN games} = {} /\ Len(games) = 0 BY <1>1
<1>6. ~ \E l \in Chain : disk[l].type # "free" /\ disk[l].target BY <1>1
<1> QED BY <1>1, <1>2, <1>3, <1>4, <1>5, <1>6 DEF Exact

\* One header more is one more in the chain and in the class it belongs to.
LEMMA StepExact == WalkInv /\ Exact /\ scan_step => Exact'
<1> SUFFICES ASSUME WalkInv, Exact, scan_step PROVE Exact'
  OBVIOUS
<1>1. PICK h \in Readable :
         /\ Accepted(h)
         /\ disk' = [lba \in DOMAIN disk \cup {current} |->
                         IF lba = current THEN h ELSE disk[lba]]
         /\ IF h.type = "free" THEN free_sectors' = free_sectors + h.length
                               ELSE free_sectors' = free_sectors
         /\ found' = (found \/ TargetHere(h))
         /\ games' = (IF h.type = "main" THEN Append(games, current) ELSE games)
  BY DEF scan_step
<1>2. current # 0 /\ visited' = Append(visited, current) BY DEF scan_step
<1>3. /\ visited \in Seq(Nat \ {0}) /\ current \in Nat
      /\ \A lba \in DOMAIN disk : disk[lba] \in Header
      /\ \A i \in 1..Len(visited) : visited[i] \in DOMAIN disk
      /\ DOMAIN visited = 1..Len(visited) /\ Len(visited) \in Nat
  BY DEF WalkInv, BackLinked
<1>4. current \notin Chain BY <1>1, <1>2, <1>3, NotMetBefore DEF Chain
<1>5. Chain' = Chain \cup {current}
  <2>1. /\ DOMAIN visited' = 1..(Len(visited) + 1)
        /\ \A i \in 1..Len(visited) : visited'[i] = visited[i]
        /\ visited'[Len(visited) + 1] = current
    BY <1>2, <1>3
  <2>2. 1..(Len(visited) + 1) = 1..Len(visited) \cup {Len(visited) + 1} BY <1>3
  <2> QED BY <1>3, <2>1, <2>2 DEF Chain
<1>6. \A l \in Chain : l \in DOMAIN disk /\ disk'[l] = disk[l]
  BY <1>1, <1>3, <1>4 DEF Chain
<1>7. disk'[current] = h BY <1>1
<1>8. h \in Header /\ h.length \in Nat
  <2>1. h \in Header BY <1>1, <1>3 DEF Readable
  <2> QED BY <2>1, CatalogConstants DEF Header
<1>9. \A l \in Chain : disk[l].length \in Nat BY <1>3, <1>6, CatalogConstants DEF Header
<1>10. ASSUME NEW t
       PROVE  /\ OfType(t)' = IF h.type = t THEN OfType(t) \cup {current} ELSE OfType(t)
              /\ IsFiniteSet(OfType(t)) /\ current \notin OfType(t)
  <2>1. OfType(t)' = IF h.type = t THEN OfType(t) \cup {current} ELSE OfType(t)
    BY <1>5, <1>6, <1>7 DEF OfType
  <2>2. IsFiniteSet(OfType(t)) BY FS_Subset DEF OfType, Exact
  <2>3. current \notin OfType(t) BY <1>4 DEF OfType
  <2> QED BY <2>1, <2>2, <2>3
<1>11. IsFiniteSet(Chain') BY <1>5, FS_AddElement DEF Exact
<1>12. free_sectors' = SumFunctionOnSet(LengthOf', OfType("free")')
  <2> DEFINE F == OfType("free")
  <2>1. \A l \in F : l \in Chain BY DEF OfType
  <2> HIDE DEF F
  <2>2. IsFiniteSet(F) /\ current \notin F BY <1>10 DEF F
  <2>3. SumFunctionOnSet(LengthOf', F) = SumFunctionOnSet(LengthOf, F)
    <3>1. \A l \in F : LengthOf[l] = LengthOf'[l] BY <1>5, <1>6, <2>1 DEF LengthOf
    <3> QED BY <2>2, <3>1, SumSame
  <2>4. free_sectors = SumFunctionOnSet(LengthOf, F) BY DEF Exact, F
  <2>5. CASE h.type = "free"
    <3>1. /\ \A l \in F \cup {current} : LengthOf'[l] \in Nat
          /\ LengthOf'[current] = h.length
      BY <1>5, <1>6, <1>7, <1>8, <1>9, <2>1 DEF LengthOf
    <3>2. SumFunctionOnSet(LengthOf', F \cup {current})
          = SumFunctionOnSet(LengthOf', F) + LengthOf'[current]
      BY <2>2, <3>1, SumMore
    <3>3. OfType("free")' = F \cup {current} BY <1>10, <2>5 DEF F
    <3> QED BY <1>1, <2>3, <2>4, <2>5, <3>1, <3>2, <3>3
  <2>6. CASE h.type # "free"
    <3>1. OfType("free")' = F BY <1>10, <2>6 DEF F
    <3> QED BY <1>1, <2>3, <2>4, <2>6, <3>1
  <2> QED BY <2>5, <2>6
<1>13. /\ games' \in Seq(Nat) /\ {games'[i] : i \in DOMAIN games'} = OfType("main")'
       /\ Len(games') = Cardinality(OfType("main")')
  <2> DEFINE M == OfType("main")
  <2> HIDE DEF M
  <2>1. games \in Seq(Nat) /\ {games[i] : i \in DOMAIN games} = M /\ Len(games) = Cardinality(M)
    BY DEF Exact, M
  <2>2. IsFiniteSet(M) /\ current \notin M BY <1>10 DEF M
  <2>3. CASE h.type = "main"
    <3>1. games' = Append(games, current) /\ OfType("main")' = M \cup {current}
      BY <1>1, <1>10, <2>3 DEF M
    <3>2. /\ Len(games) \in Nat /\ DOMAIN games = 1..Len(games)
          /\ games' \in Seq(Nat) /\ Len(games') = Len(games) + 1
          /\ DOMAIN games' = 1..(Len(games) + 1)
          /\ \A i \in 1..Len(games) : games'[i] = games[i]
          /\ games'[Len(games) + 1] = current
      BY <1>3, <2>1, <3>1
    <3>3. 1..(Len(games) + 1) = 1..Len(games) \cup {Len(games) + 1} BY <3>2
    <3>4. {games'[i] : i \in DOMAIN games'} = M \cup {current}
      BY <2>1, <3>2, <3>3
    <3>5. Cardinality(M \cup {current}) = Cardinality(M) + 1 BY <2>2, FS_AddElement
    <3> QED BY <2>1, <3>1, <3>2, <3>4, <3>5
  <2>4. CASE h.type # "main"
    <3>1. games' = games /\ OfType("main")' = M BY <1>1, <1>10, <2>4 DEF M
    <3> QED BY <2>1, <3>1
  <2> QED BY <2>3, <2>4
<1>14. found' <=> \E l \in Chain' : disk'[l].type # "free" /\ disk'[l].target
  BY <1>1, <1>5, <1>6, <1>7 DEF Exact, TargetHere
<1> QED BY <1>11, <1>12, <1>13, <1>14 DEF Exact

\* For a drive and a chain of any length: free space, list of games and the answer
\* to the search are those of the chain scan_apa_catalog_for_target walked.
THEOREM CatalogIsExact == ScanSpec => []CatalogExact
<1>1. ScanInit => WalkInv /\ Exact BY InitEstablishes, InitExact
<1>2. WalkInv /\ Exact /\ [ScanNext]_scan_vars => Exact'
  <2> SUFFICES ASSUME WalkInv, Exact, [ScanNext]_scan_vars PROVE Exact'
    OBVIOUS
  <2>1. CASE scan_step BY <2>1, StepExact
  <2>2. CASE scan_refuse \/ scan_finish \/ UNCHANGED scan_vars
    <3>1. UNCHANGED <<disk, visited, free_sectors, games, found>>
      BY <2>2 DEF scan_refuse, scan_finish, scan_vars
    <3>2. Chain' = Chain BY <3>1 DEF Chain
    <3>3. OfType("free")' = OfType("free") /\ OfType("main")' = OfType("main")
      BY <3>1, <3>2 DEF OfType
    <3>4. LengthOf' = LengthOf BY <3>1, <3>2 DEF LengthOf
    <3>5. free_sectors' = SumFunctionOnSet(LengthOf', OfType("free")') BY <3>1, <3>2, <3>3, <3>4 DEF Exact
    <3>6. found' <=> \E l \in Chain' : disk'[l].type # "free" /\ disk'[l].target
      BY <3>1, <3>2 DEF Exact
    <3>7. /\ games' \in Seq(Nat) /\ {games'[i] : i \in DOMAIN games'} = OfType("main")'
          /\ Len(games') = Cardinality(OfType("main")')
      BY <3>1, <3>3 DEF Exact
    <3>8. IsFiniteSet(Chain') BY <3>2 DEF Exact
    <3> QED BY <3>5, <3>6, <3>7, <3>8 DEF Exact
  <2> QED BY <2>1, <2>2 DEF ScanNext
<1>3. Exact => CatalogExact BY DEF Exact, CatalogExact, Chain, OfType, LengthOf
<1> QED BY <1>1, <1>2, <1>3, NextPreserves, PTL DEF ScanSpec

-----------------------------------------------------------------------------
(* The plan.                                                               *)

Slice == [allocation : Sizes, offset : Nat, payload : Nat]

Capacities == [i \in DOMAIN slices |-> Capacity(i)]

\* The end of a part in the image, and whether image sector q falls in it.
End(i) == slices[i].offset + slices[i].payload

Holds(i, q) == slices[i].offset <= q /\ q < End(i)

PlanTypes ==
    /\ pc \in {"probe", "plan", "slice", "create", "copy", "installed", "refused"}
    /\ title \in Titles /\ (pc \notin {"probe", "refused"} => title # "blank")
    /\ image \in Nat /\ maximum \in Nat /\ remaining \in Nat
    /\ slices \in Seq(Slice)

\* The parts lie one behind the other in the image, aligned and without gaps; all
\* but the last are full; both sums the code forms agree with the stored offsets.
Tiled ==
    /\ image # 0 /\ image % Block = 0 /\ remaining % Block = 0 /\ remaining <= image
    /\ Len(slices) <= MaxPartitions
    /\ \A i \in 1..Len(slices) :
          /\ slices[i].payload # 0 /\ slices[i].payload <= Capacity(i)
          /\ slices[i].offset % Block = 0 /\ slices[i].payload % Block = 0
          /\ slices[i].offset = SumFunctionOnSet(Capacities, 1..(i - 1))
          /\ slices[i].offset = SumFunctionOnSet(Payloads, 1..(i - 1))
          /\ End(i) <= Planned
          /\ (i < Len(slices) \/ remaining # 0) => slices[i].payload = Capacity(i)
    /\ \A i, j \in 1..Len(slices) : i < j => End(i) <= slices[j].offset
    /\ \A q \in Nat : q < Planned => \E i \in 1..Len(slices) : Holds(i, q)
    /\ SumFunctionOnSet(Payloads, 1..Len(slices)) = Planned

PlanInv ==
    /\ PlanTypes /\ PlanWithinMaximum
    /\ pc \in {"slice", "create", "copy", "installed"} => Tiled
    /\ pc \in {"create", "copy", "installed"} => remaining = 0

\* The size chosen for a part is one ps2hdd makes and within the limit, or 0.
LEMMA ChoosesAllowed ==
  ASSUME NEW required \in Nat, NEW limit \in Nat
  PROVE  \/ choose_allocation(required, limit) = 0
         \/ /\ choose_allocation(required, limit) \in Sizes
            /\ choose_allocation(required, limit) <= limit
<1> DEFINE allowed == {s \in Sizes : s <= limit}
           enough == {s \in allowed : s >= required}
<1>1. allowed \in SUBSET Nat /\ enough \in SUBSET Nat BY PlanConstants
<1>2. IsFiniteSet(allowed) BY PlanConstants, FS_Subset
<1>3. enough # {} => Min(enough) \in allowed BY <1>1, MinOf
<1>4. allowed # {} => Max(allowed) \in allowed BY <1>1, <1>2, MaxOf
<1> QED BY <1>3, <1>4 DEF choose_allocation

\* The first parts of a longer plan have the same capacity and payload.
LEMMA SumsKept ==
  ASSUME slices \in Seq(Slice), NEW new \in Slice, slices' = Append(slices, new),
         NEW i \in 0..Len(slices)
  PROVE  /\ SumFunctionOnSet(Capacities', 1..i) = SumFunctionOnSet(Capacities, 1..i)
         /\ SumFunctionOnSet(Payloads', 1..i) = SumFunctionOnSet(Payloads, 1..i)
<1>1. /\ DOMAIN slices = 1..Len(slices) /\ DOMAIN slices' = 1..(Len(slices) + 1)
      /\ Len(slices) \in Nat /\ \A j \in 1..Len(slices) : slices'[j] = slices[j]
  OBVIOUS
<1>2. \A j \in 1..i : Capacities'[j] = Capacities[j] /\ Payloads'[j] = Payloads[j]
  BY <1>1 DEF Capacities, Capacity, Payloads
<1>3. IsFiniteSet(1..i) BY FS_Interval
<1> QED BY <1>2, <1>3, SumSame

\* The sum over one part more.
LEMMA SumNext ==
  ASSUME NEW f, NEW n \in Nat, \A j \in 1..(n + 1) : f[j] \in Nat
  PROVE  SumFunctionOnSet(f, 1..(n + 1)) = SumFunctionOnSet(f, 1..n) + f[n + 1]
<1>1. 1..(n + 1) = 1..n \cup {n + 1} /\ n + 1 \notin 1..n OBVIOUS
<1>2. IsFiniteSet(1..n) BY FS_Interval
<1>3. \A j \in 1..n \cup {n + 1} : f[j] \in Nat BY <1>1
<1>4. SumFunctionOnSet(f, 1..n \cup {n + 1}) = SumFunctionOnSet(f, 1..n) + f[n + 1]
  <2> DEFINE S == 1..n
             x == n + 1
  <2> HIDE DEF S, x
  <2>1. x \notin S /\ IsFiniteSet(S) /\ \A j \in S \cup {x} : f[j] \in Nat
    BY <1>1, <1>2, <1>3 DEF S, x
  <2>2. SumFunctionOnSet(f, S \cup {x}) = SumFunctionOnSet(f, S) + f[x] BY <2>1, SumMore
  <2> QED BY <2>2 DEF S, x
<1> QED BY <1>1, <1>4

\* The constants, as the steps below need them.
LEMMA Sized ==
  /\ Block \in Nat \ {0} /\ MainSkip \in Nat /\ SubSkip \in Nat
  /\ \A i : Skip(i) \in Nat /\ Skip(i) % Block = 0 /\ Skip(i) # 0
  /\ \A s \in Sizes, i \in Nat : s \in Nat /\ s - Skip(i) \in Nat \ {0} /\ (s - Skip(i)) % Block = 0
<1>1. Block \in Nat \ {0} /\ MainSkip \in Nat \ {0} /\ SubSkip \in Nat \ {0} BY PlanConstants
<1>2. \A i : Skip(i) \in {MainSkip, SubSkip} BY DEF Skip
<1>3. \A s \in Sizes \cup {MainSkip, SubSkip} : s % Block = 0 BY PlanConstants
<1>4. \A s \in Sizes : s \in Nat /\ MainSkip < s /\ SubSkip < s BY PlanConstants
<1>5. ASSUME NEW s \in Sizes, NEW k \in {MainSkip, SubSkip}
      PROVE  s - k \in Nat \ {0} /\ (s - k) % Block = 0
  <2>1. s \in Nat /\ k \in Nat /\ k < s /\ s % Block = 0 /\ k % Block = 0 BY <1>1, <1>3, <1>4, <1>5
  <2>2. k <= s => (s - k) % Block = 0 BY <1>1, <2>1, ModMinus
  <2> QED BY <2>1, <2>2
<1> QED BY <1>1, <1>2, <1>3, <1>4, <1>5

\* One slice more: it begins where the plan ended, which is what both sums give
\* because every slice before it is full.
LEMMA SliceTiles == PlanInv /\ plan_slice => PlanInv'
<1> SUFFICES ASSUME PlanInv, plan_slice PROVE PlanInv'
  OBVIOUS
<1> PICK n \in Nat : n = Len(slices)
  BY DEF PlanInv, PlanTypes
<1> DEFINE a == choose_allocation(remaining + Skip(n + 1), maximum)
           p == Min({remaining, a - Skip(n + 1)})
           new == [allocation |-> a, offset |-> Planned, payload |-> p]
<1>0. /\ pc = "slice" /\ remaining \in Nat \ {0} /\ image \in Nat /\ maximum \in Nat
      /\ slices \in Seq(Slice) /\ n = Len(slices) /\ Tiled /\ PlanWithinMaximum
      /\ DOMAIN slices = 1..n
  BY DEF plan_slice, PlanInv, PlanTypes
<1>1. UNCHANGED <<image, title, maximum>> BY DEF plan_slice
<1>2. CASE pc' = "refused" /\ UNCHANGED <<slices, remaining>>
  BY <1>1, <1>2 DEF PlanInv, PlanTypes, PlanWithinMaximum
<1>3. CASE /\ n < MaxPartitions /\ a # 0
           /\ slices' = Append(slices, new) /\ remaining' = remaining - p /\ UNCHANGED pc
  <2>1. a \in Sizes /\ a <= maximum
    <3>1. remaining + Skip(n + 1) \in Nat BY <1>0, Sized
    <3> QED BY <1>0, <1>3, <3>1, ChoosesAllowed
  <2>2. a \in Nat /\ a - Skip(n + 1) \in Nat \ {0} /\ (a - Skip(n + 1)) % Block = 0
    BY <1>0, <2>1, Sized
  <2>3. p = IF remaining <= a - Skip(n + 1) THEN remaining ELSE a - Skip(n + 1)
    BY <1>0, <2>2, MinTwo
  <2> HIDE DEF a, p
  <2>4. /\ p \in Nat \ {0} /\ p <= remaining /\ p <= a - Skip(n + 1)
        /\ p # remaining => p = a - Skip(n + 1)
    BY <1>0, <2>2, <2>3
  <2>5. Planned \in Nat /\ Planned = image - remaining /\ Planned' = Planned + p
    BY <1>0, <1>1, <1>3, <2>4 DEF Tiled, Planned
  <2>6. p % Block = 0 /\ Planned % Block = 0 /\ remaining' % Block = 0
    <3>1. p % Block = 0 BY <1>0, <2>2, <2>3 DEF Tiled
    <3>2. (image - remaining) % Block = 0
      <4>1. remaining <= image /\ image % Block = 0 /\ remaining % Block = 0 BY <1>0 DEF Tiled
      <4>2. remaining <= image => (image - remaining) % Block = 0 BY <1>0, <4>1, Sized, ModMinus
      <4> QED BY <4>1, <4>2
    <3>3. (remaining - p) % Block = 0
      <4>1. remaining % Block = 0 BY <1>0 DEF Tiled
      <4>2. p <= remaining => (remaining - p) % Block = 0 BY <1>0, <2>4, <3>1, <4>1, Sized, ModMinus
      <4> QED BY <2>4, <4>2
    <3> QED BY <1>3, <2>5, <3>1, <3>2, <3>3
  <2>7. new \in Slice BY <2>1, <2>4, <2>5 DEF Slice
  <2>8. /\ slices' \in Seq(Slice) /\ Len(slices') = n + 1 /\ DOMAIN slices' = 1..(n + 1)
        /\ \A i \in 1..n : slices'[i] = slices[i]
        /\ slices'[n + 1] = new
    BY <1>0, <1>3, <2>7
  <2>9. new.allocation = a /\ new.offset = Planned /\ new.payload = p OBVIOUS
  <2>10. n + 1 <= MaxPartitions BY <1>0, <1>3, PlanConstants
  <2> HIDE DEF new
  <2>11. /\ Capacity(n + 1)' = a - Skip(n + 1) /\ End(n + 1)' = Planned'
         /\ \A i \in 1..n : Capacity(i)' = Capacity(i) /\ End(i)' = End(i)
    BY <1>0, <2>5, <2>8, <2>9 DEF Capacity, End, Skip
  <2>12. /\ \A i \in 0..n : /\ SumFunctionOnSet(Capacities', 1..i) = SumFunctionOnSet(Capacities, 1..i)
                            /\ SumFunctionOnSet(Payloads', 1..i) = SumFunctionOnSet(Payloads, 1..i)
    BY <1>0, <1>3, <2>7, SumsKept
  <2>13. SumFunctionOnSet(Payloads, 1..n) = Planned BY <1>0 DEF Tiled
  <2>14. SumFunctionOnSet(Capacities, 1..n) = Planned
    <3>1. \A i \in 1..n : Capacities[i] = Payloads[i]
      BY <1>0 DEF Tiled, Capacities, Payloads
    <3>2. IsFiniteSet(1..n) BY <1>0, FS_Interval
    <3> QED BY <2>13, <3>1, <3>2, SumSame
  <2>15. SumFunctionOnSet(Payloads', 1..(n + 1)) = Planned'
    <3>0. \A i \in 1..(n + 1) : slices'[i] \in Slice BY <2>8
    <3>1. \A i \in 1..(n + 1) : Payloads'[i] \in Nat BY <2>8, <3>0 DEF Payloads, Slice
    <3>2. SumFunctionOnSet(Payloads', 1..(n + 1)) = SumFunctionOnSet(Payloads', 1..n) + Payloads'[n + 1]
      BY <1>0, <3>1, SumNext
    <3>3. Payloads'[n + 1] = p BY <1>0, <2>8, <2>9 DEF Payloads
    <3> QED BY <1>0, <2>5, <2>12, <2>13, <3>2, <3>3
  <2>16. Tiled'
    <3>1. /\ image' # 0 /\ image' % Block = 0 /\ remaining' % Block = 0 /\ remaining' <= image'
          /\ Len(slices') <= MaxPartitions
      BY <1>0, <1>1, <1>3, <2>4, <2>6, <2>8, <2>10 DEF Tiled
    <3>2. ASSUME NEW i \in 1..n
          PROVE  /\ slices'[i].payload # 0 /\ slices'[i].payload <= Capacity(i)'
                 /\ slices'[i].offset % Block = 0 /\ slices'[i].payload % Block = 0
                 /\ slices'[i].offset = SumFunctionOnSet(Capacities', 1..(i - 1))
                 /\ slices'[i].offset = SumFunctionOnSet(Payloads', 1..(i - 1))
                 /\ End(i)' <= Planned /\ End(i)' \in Nat
                 /\ slices'[i].payload = Capacity(i)'
      <4>1. i - 1 \in 0..n /\ slices[i] \in Slice BY <1>0
      <4>2. End(i) \in Nat BY <4>1 DEF End, Slice
      <4> QED BY <1>0, <2>8, <2>11, <2>12, <4>1, <4>2 DEF Tiled
    <3>3. \A i \in 1..(n + 1) :
            /\ slices'[i].payload # 0 /\ slices'[i].payload <= Capacity(i)'
            /\ slices'[i].offset % Block = 0 /\ slices'[i].payload % Block = 0
            /\ slices'[i].offset = SumFunctionOnSet(Capacities', 1..(i - 1))
            /\ slices'[i].offset = SumFunctionOnSet(Payloads', 1..(i - 1))
            /\ End(i)' <= Planned'
            /\ (i < n + 1 \/ remaining' # 0) => slices'[i].payload = Capacity(i)'
      <4> TAKE i \in 1..(n + 1)
      <4>1. CASE i \in 1..n BY <2>4, <2>5, <3>2, <4>1
      <4>2. CASE i = n + 1
        <5>1. i - 1 = n /\ n \in 0..n BY <1>0, <4>2
        <5>2. Planned' <= Planned' BY <2>4, <2>5
        <5>3. remaining' # 0 => p = Capacity(n + 1)' BY <1>0, <1>3, <2>4, <2>11
        <5> QED BY <1>0, <2>4, <2>6, <2>8, <2>9, <2>11, <2>12, <2>13, <2>14, <4>2, <5>1, <5>2, <5>3
      <4> QED BY <1>0, <4>1, <4>2
    <3>4. \A i, j \in 1..(n + 1) : i < j => End(i)' <= slices'[j].offset
      <4> SUFFICES ASSUME NEW i \in 1..(n + 1), NEW j \in 1..(n + 1), i < j
                   PROVE  End(i)' <= slices'[j].offset
        OBVIOUS
      <4>1. i \in 1..n BY <1>0
      <4>2. CASE j \in 1..n
        <5>1. slices'[j] = slices[j] /\ End(i)' = End(i) BY <2>8, <2>11, <4>1, <4>2
        <5> QED BY <1>0, <4>1, <4>2, <5>1 DEF Tiled
      <4>3. CASE j = n + 1 BY <2>8, <2>9, <3>2, <4>1, <4>3
      <4> QED BY <1>0, <4>2, <4>3
    <3>5. \A q \in Nat : q < Planned' => \E i \in 1..(n + 1) : Holds(i, q)'
      <4> SUFFICES ASSUME NEW q \in Nat, q < Planned' PROVE \E i \in 1..(n + 1) : Holds(i, q)'
        OBVIOUS
      <4>1. CASE q < Planned
        <5>1. PICK i \in 1..n : Holds(i, q) BY <1>0, <4>1 DEF Tiled
        <5>2. Holds(i, q)' BY <2>8, <2>11, <5>1 DEF Holds
        <5> QED BY <1>0, <5>1, <5>2
      <4>2. CASE Planned <= q
        <5>1. Holds(n + 1, q)' BY <2>8, <2>9, <2>11, <4>2 DEF Holds
        <5> QED BY <1>0, <5>1
      <4> QED BY <2>5, <4>1, <4>2
    <3> QED BY <2>8, <2>15, <3>1, <3>3, <3>4, <3>5 DEF Tiled
  <2>17. PlanWithinMaximum'
    BY <1>0, <1>1, <2>1, <2>8, <2>9 DEF PlanWithinMaximum
  <2>18. PlanTypes' BY <1>0, <1>1, <1>3, <2>4, <2>8 DEF PlanInv, PlanTypes
  <2> QED BY <1>0, <1>3, <2>16, <2>17, <2>18 DEF PlanInv
<1>4. MaxPartitions \in Nat BY PlanConstants
<1>5. n >= MaxPartitions \/ n < MaxPartitions BY <1>4
<1> QED BY <1>0, <1>2, <1>3, <1>5 DEF plan_slice

\* The plan begins with nothing planned.
LEMMA BeginTiles == PlanInv /\ plan_begin => PlanInv'
<1> SUFFICES ASSUME PlanInv, plan_begin PROVE PlanInv'
  OBVIOUS
<1>0. /\ image \in Nat /\ maximum \in Nat /\ remaining \in Nat /\ title \in Titles
      /\ title # "blank"
  BY DEF PlanInv, PlanTypes, plan_begin
<1>1. slices' = <<>> /\ UNCHANGED <<image, title>> BY DEF plan_begin
<1>2. slices' \in Seq(Slice) /\ Len(slices') = 0 /\ DOMAIN slices' = {} BY <1>1
<1>3. PlanWithinMaximum' BY <1>2 DEF PlanWithinMaximum
<1>4. CASE pc' = "refused" /\ UNCHANGED <<remaining, maximum>>
  <2>1. PlanTypes' BY <1>0, <1>1, <1>2, <1>4 DEF PlanTypes
  <2> QED BY <1>3, <1>4, <2>1 DEF PlanInv
<1>5. CASE /\ image # 0 /\ image % Block = 0 /\ pc' = "slice" /\ remaining' = image
           /\ maximum' = Min({maximum, Max(Sizes)})
  <2>1. maximum' \in Nat
    <3>1. Max(Sizes) \in Nat BY PlanConstants, MaxOf
    <3> QED BY <1>0, <1>5, <3>1, MinTwo
  <2>2. PlanTypes' BY <1>0, <1>1, <1>2, <1>5, <2>1 DEF PlanTypes
  <2>3. Planned' = 0 BY <1>0, <1>1, <1>5 DEF Planned
  <2>4. SumFunctionOnSet(Payloads', 1..Len(slices')) = Planned'
    <3>1. 1..Len(slices') = {} BY <1>2
    <3> QED BY <2>3, <3>1, SumEmpty
  <2>5. 0 <= MaxPartitions BY PlanConstants
  <2>6. Tiled' BY <1>0, <1>1, <1>2, <1>5, <2>3, <2>4, <2>5 DEF Tiled
  <2> QED BY <1>3, <1>5, <2>2, <2>6 DEF PlanInv
<1> QED BY <1>4, <1>5 DEF plan_begin

\* What the other steps leave of the plan.
LEMMA PlanKept ==
  ASSUME PlanInv, UNCHANGED <<image, maximum, slices, remaining>>
  PROVE  /\ PlanWithinMaximum' /\ (Tiled => Tiled')
         /\ slices' \in Seq(Slice) /\ {image', maximum', remaining'} \subseteq Nat
<1>1. Capacities' = Capacities /\ Payloads' = Payloads /\ Planned' = Planned
  BY DEF Capacities, Capacity, Payloads, Planned, Skip
<1>2. \A i : Capacity(i)' = Capacity(i) /\ End(i)' = End(i) BY DEF Capacity, End, Skip
<1>3. \A i, q : Holds(i, q)' <=> Holds(i, q) BY <1>2 DEF Holds
<1>4. Tiled => Tiled' BY <1>1, <1>2, <1>3 DEF Tiled
<1> QED BY <1>4 DEF PlanInv, PlanTypes, PlanWithinMaximum

\* A plan that is accepted is one hdl_metadata_build accepts.
LEMMA TiledBuilds ==
  ASSUME PlanInv, pc = "copy", starts \in [DOMAIN slices -> Places]
  PROVE  SlicesSound /\ copy_metadata_text(title)
<1>1. Tiled /\ remaining = 0 /\ slices \in Seq(Slice) /\ image \in Nat /\ title # "blank"
  BY DEF PlanInv, PlanTypes
<1>2. DOMAIN slices = 1..Len(slices) /\ Len(slices) \in Nat BY <1>1
<1>3. slices # <<>>
  <2> SUFFICES ASSUME slices = <<>> PROVE FALSE
    OBVIOUS
  <2>1. Len(slices) = 0 /\ Planned = image /\ image # 0 /\ 0 < Planned
    BY <1>1 DEF Tiled, Planned
  <2>2. \E i \in 1..Len(slices) : Holds(i, 0) BY <1>1, <2>1 DEF Tiled
  <2> QED BY <2>1, <2>2
<1>4. SumFunction(Payloads) = image
  <2>1. DOMAIN Payloads = 1..Len(slices) BY <1>2 DEF Payloads
  <2>2. SumFunctionOnSet(Payloads, 1..Len(slices)) = image BY <1>1 DEF Tiled, Planned
  <2> QED BY <2>1, <2>2 DEF SumFunction
<1>5. ASSUME NEW i \in DOMAIN slices
      PROVE  /\ slices[i].allocation > Skip(i)
             /\ starts[i] + Skip(i) <= LbaLimit
  <2>0. i \in 1..Len(slices) /\ slices[i] \in Slice BY <1>1, <1>2
  <2>1. i \in Nat /\ slices[i].allocation \in Sizes /\ starts[i] \in Places
    BY <1>2, <2>0 DEF Slice
  <2>2. Skip(i) \in Nat /\ slices[i].allocation \in Nat /\ slices[i].allocation - Skip(i) \in Nat \ {0}
    BY <2>1, Sized
  <2>3. /\ starts[i] \in Nat /\ LbaLimit \in Nat /\ starts[i] + slices[i].allocation <= LbaLimit
    BY <2>1, PlanConstants
  <2> QED BY <2>2, <2>3
<1> QED BY <1>1, <1>2, <1>3, <1>4, <1>5 DEF Tiled, SlicesSound, Capacity, copy_metadata_text

\* Every step keeps the plan.  The metadata block is built from starts, which the
\* other invariant describes.
LEMMA PlanStep ==
  ASSUME PlanInv, [Next]_vars, pc = "copy" => starts \in [DOMAIN slices -> Places]
  PROVE  PlanInv'
<1>1. CASE plan_begin BY <1>1, BeginTiles
<1>2. CASE plan_slice BY <1>2, SliceTiles
<1>3. CASE hdl_iso_probe
  <2>1. UNCHANGED <<image, maximum, slices, remaining>> /\ pc' \in {"plan", "refused"}
    BY <1>3 DEF hdl_iso_probe
  <2>2. title' \in Titles /\ (pc' = "plan" => title' # "blank")
    BY <1>3 DEF hdl_iso_probe, PlanInv, PlanTypes, Titles
  <2>3. PlanTypes' BY <2>1, <2>2, PlanKept DEF PlanTypes
  <2> QED BY <2>1, <2>3, PlanKept DEF PlanInv
<1>4. CASE plan_end \/ create_partitions
  <2>1. UNCHANGED <<image, maximum, slices, remaining, title>>
    BY <1>4 DEF plan_end, create_partitions
  <2>2. \/ pc' = "refused"
        \/ pc = "slice" /\ remaining = 0 /\ pc' = "create"
        \/ pc = "create" /\ pc' = "copy"
    BY <1>4 DEF plan_end, create_partitions
  <2>3. PlanTypes' BY <2>1, <2>2, PlanKept DEF PlanInv, PlanTypes
  <2> QED BY <2>1, <2>2, <2>3, PlanKept DEF PlanInv
<1>5. CASE copy_payload \/ stream_transfer \/ UNCHANGED vars
  <2>1. UNCHANGED <<pc, image, maximum, slices, remaining, title>>
    BY <1>5 DEF copy_payload, stream_transfer, vars
  <2>2. PlanTypes' BY <2>1, PlanKept DEF PlanInv, PlanTypes
  <2> QED BY <2>1, <2>2, PlanKept DEF PlanInv
<1>6. CASE hdl_metadata_build
  <2>1. UNCHANGED <<image, maximum, slices, remaining, title>> /\ pc = "copy"
    BY <1>6 DEF hdl_metadata_build
  <2>2. pc' = "installed"
    BY <1>6, <2>1, TiledBuilds DEF hdl_metadata_build
  <2>3. PlanTypes' BY <2>1, <2>2, PlanKept DEF PlanInv, PlanTypes
  <2> QED BY <2>1, <2>2, <2>3, PlanKept DEF PlanInv
<1> QED BY <1>1, <1>2, <1>3, <1>4, <1>5, <1>6 DEF Next

-----------------------------------------------------------------------------
(* The copy.                                                               *)

\* Where sector q of the image belongs.
At(i, q) == starts[i] + Skip(i) + q - slices[i].offset

\* What was transferred is where it belongs, and nothing else was written.
Copying ==
    /\ starts \in [DOMAIN slices -> Places]
    /\ \A i, j \in DOMAIN slices :
          i # j => Extent(i, starts[i]) \cap Extent(j, starts[j]) = {}
    /\ offset \in Nat /\ left \in Nat
    /\ offset + left <= image /\ (left # 0 => begun <= offset)
    /\ \A i \in DOMAIN slices : \A q \in Nat :
          Holds(i, q) /\ q < offset => At(i, q) \in DOMAIN content /\ content[At(i, q)] = q
    /\ \A lba \in DOMAIN content : \E i \in DOMAIN slices : \E q \in Nat :
          Holds(i, q) /\ q < offset /\ lba = At(i, q)
    /\ reported # <<0, 0>> => \E i \in DOMAIN slices : \E q \in Nat :
          Holds(i, q) /\ q < offset /\ reported = <<q, At(i, q)>>

CopyInv ==
    /\ begun \in Nat
    /\ IF pc \in {"copy", "installed"} THEN Copying
       ELSE content = <<>> /\ reported = <<0, 0>>
    /\ pc = "installed" =>
          /\ offset = image
          /\ metadata.entries = [i \in DOMAIN slices |-> Entry(i)]

\* The types of a part.
LEMMA SliceTypes ==
  ASSUME slices \in Seq(Slice), NEW i \in DOMAIN slices
  PROVE  /\ i \in Nat \ {0} /\ i <= Len(slices) /\ Len(slices) \in Nat
         /\ DOMAIN slices = 1..Len(slices)
         /\ slices[i].allocation \in Sizes /\ slices[i].allocation \in Nat
         /\ slices[i].offset \in Nat /\ slices[i].payload \in Nat /\ End(i) \in Nat
         /\ Skip(i) \in Nat /\ Capacity(i) \in Nat
         /\ slices[i].allocation = Capacity(i) + Skip(i)
<1>1. slices[i] \in Slice /\ i \in 1..Len(slices) /\ Len(slices) \in Nat /\ DOMAIN slices = 1..Len(slices)
  OBVIOUS
<1>2. /\ slices[i].allocation \in Sizes /\ slices[i].offset \in Nat /\ slices[i].payload \in Nat
  BY <1>1 DEF Slice
<1>3. i \in Nat /\ Skip(i) \in Nat /\ slices[i].allocation \in Nat
      /\ slices[i].allocation - Skip(i) \in Nat
  <2>1. i \in Nat BY <1>1
  <2>2. Skip(i) \in Nat BY Sized, Zenon
  <2>3. PICK s \in Sizes : s = slices[i].allocation BY <1>2
  <2>4. s \in Nat /\ s - Skip(i) \in Nat \ {0} BY <2>1, Sized
  <2> QED BY <2>1, <2>2, <2>3, <2>4
<1> QED BY <1>1, <1>2, <1>3 DEF End, Capacity

\* A sector of the image falls in one part only.
LEMMA OneHolder ==
  ASSUME slices \in Seq(Slice), Tiled, NEW q \in Nat,
         NEW i \in DOMAIN slices, NEW j \in DOMAIN slices, Holds(i, q), Holds(j, q)
  PROVE  i = j
<1>1. i \in 1..Len(slices) /\ j \in 1..Len(slices) /\ i \in Nat /\ j \in Nat BY SliceTypes
<1>2. /\ slices[i].offset \in Nat /\ slices[j].offset \in Nat /\ End(i) \in Nat /\ End(j) \in Nat
  BY SliceTypes
<1>3. ~(i < j) BY <1>1, <1>2 DEF Tiled, Holds
<1>4. ~(j < i) BY <1>1, <1>2 DEF Tiled, Holds
<1> QED BY <1>1, <1>3, <1>4

\* The stream finds the part the plan meant, from the lengths alone.
LEMMA Locate ==
  ASSUME slices \in Seq(Slice), Tiled, NEW q \in Nat, NEW i \in DOMAIN slices, Holds(i, q)
  PROVE  locate_position(q) = [part |-> i, sector |-> Skip(i) + q - slices[i].offset,
                               available |-> slices[i].offset + Capacity(i) - q]
<1> DEFINE n == Len(slices)
           M == {j \in DOMAIN slices : q < Before(j + 1)}
<1>1. /\ n \in Nat /\ DOMAIN slices = 1..n /\ i \in 1..n
      /\ \A j \in 1..n : /\ slices[j].offset \in Nat /\ End(j) \in Nat
                         /\ slices[j].payload \in Nat /\ Capacity(j) \in Nat
  BY SliceTypes
<1>2. \A j : Before(j) = SumFunctionOnSet(Capacities, 1..(j - 1)) BY DEF Before, Capacities
<1>3. \A j \in 1..n : Before(j) = slices[j].offset BY <1>1, <1>2 DEF Tiled
<1>4. Before(i + 1) = slices[i].offset + Capacity(i)
  <2>1. i - 1 \in Nat /\ (i - 1) + 1 = i /\ (i + 1) - 1 = i BY <1>1
  <2>2. \A j \in 1..i : Capacities[j] \in Nat /\ Capacities[i] = Capacity(i) BY <1>1 DEF Capacities
  <2>3. SumFunctionOnSet(Capacities, 1..((i - 1) + 1))
          = SumFunctionOnSet(Capacities, 1..(i - 1)) + Capacities[(i - 1) + 1]
    <3> DEFINE k == i - 1
    <3> HIDE DEF k
    <3>1. k \in Nat /\ \A j \in 1..(k + 1) : Capacities[j] \in Nat BY <2>1, <2>2 DEF k
    <3>2. SumFunctionOnSet(Capacities, 1..(k + 1))
            = SumFunctionOnSet(Capacities, 1..k) + Capacities[k + 1]
      BY <3>1, SumNext
    <3> QED BY <3>2 DEF k
  <2>4. Before(i + 1) = SumFunctionOnSet(Capacities, 1..i)
        /\ Before(i) = SumFunctionOnSet(Capacities, 1..(i - 1))
    BY <1>2, <2>1
  <2>5. Capacities[i] = Capacity(i) BY <1>1 DEF Capacities
  <2> QED BY <1>1, <1>3, <2>1, <2>3, <2>4, <2>5
<1>5. i \in M
  <2>1. q < slices[i].offset + Capacity(i) BY <1>1 DEF Tiled, Holds, End
  <2> QED BY <1>1, <1>4, <2>1
<1>6. ASSUME NEW j \in M, j < i PROVE FALSE
  <2>1. j \in 1..n /\ j + 1 \in 1..n /\ q < Before(j + 1) BY <1>1, <1>6
  <2>2. Before(j + 1) = slices[j + 1].offset BY <1>3, <2>1
  <2>3. slices[j + 1].offset <= slices[i].offset
    <3>1. CASE j + 1 = i BY <1>1, <3>1
    <3>2. CASE j + 1 < i
      <4>1. End(j + 1) <= slices[i].offset BY <1>1, <2>1, <3>2 DEF Tiled
      <4>2. PICK a \in Nat, b \in Nat, c \in Nat :
               a = slices[j + 1].offset /\ b = slices[j + 1].payload /\ c = slices[i].offset
        BY <1>1, <2>1
      <4>3. a + b <= c BY <4>1, <4>2 DEF End
      <4> QED BY <4>2, <4>3
    <3> QED BY <1>1, <1>6, <2>1, <3>1, <3>2
  <2> QED BY <1>1, <2>1, <2>2, <2>3 DEF Holds
<1>7. Min(M) = i
  <2>1. M \in SUBSET Nat BY <1>1
  <2> HIDE DEF M
  <2>2. Min(M) \in M /\ Min(M) <= i BY <1>5, <2>1, MinOf
  <2>3. ~(Min(M) < i) BY <1>6, <2>2
  <2>4. Min(M) \in Nat BY <2>1, <2>2, Zenon
  <2>5. i \in Nat BY <1>1
  <2> QED BY <2>2, <2>3, <2>4, <2>5
<1>8. Before(i) = slices[i].offset BY <1>1, <1>3
<1> DEFINE m == Min(M)
<1>9. locate_position(q) = [part |-> m, sector |-> Skip(m) + q - Before(m),
                            available |-> Before(m + 1) - q]
  BY DEF locate_position
<1>10. m = i BY <1>7
<1> HIDE DEF m
<1>11. locate_position(q) = [part |-> i, sector |-> Skip(i) + q - Before(i),
                             available |-> Before(i + 1) - q]
  BY <1>9, <1>10
<1>12. Skip(i) + q - Before(i) = Skip(i) + q - slices[i].offset BY <1>8
<1>13. Before(i + 1) - q = slices[i].offset + Capacity(i) - q BY <1>1, <1>4
<1> QED BY <1>11, <1>12, <1>13, Zenon

\* The status line computes the same address from the plan.
LEMMA Physical ==
  ASSUME slices \in Seq(Slice), Tiled, NEW q \in Nat, NEW i \in DOMAIN slices, Holds(i, q)
  PROVE  physical_lba(q) = At(i, q)
<1> DEFINE In(j) == q \in slices[j].offset..(slices[j].offset + slices[j].payload - 1)
           c == CHOOSE j \in DOMAIN slices : In(j)
<1>0. \A j \in DOMAIN slices : slices[j].offset \in Nat /\ slices[j].payload \in Nat BY SliceTypes
<1>1. \A j \in DOMAIN slices : In(j) <=> Holds(j, q) BY <1>0 DEF Holds, End
<1>2. c \in DOMAIN slices /\ In(c) BY <1>1
<1>3. c = i
  <2> HIDE DEF c, In
  <2> QED BY <1>1, <1>2, OneHolder
<1> QED BY <1>3 DEF physical_lba, At

\* An address lies in its own partition, behind the reserved head.
LEMMA Inside ==
  ASSUME slices \in Seq(Slice), Tiled, starts \in [DOMAIN slices -> Places],
         NEW q \in Nat, NEW i \in DOMAIN slices, Holds(i, q)
  PROVE  /\ At(i, q) \in Nat /\ At(i, q) \in Extent(i, starts[i])
         /\ At(i, q) \in (starts[i] + Skip(i))..(starts[i] + slices[i].allocation - 1)
<1>1. starts[i] \in Nat BY PlanConstants
<1>2. slices[i].payload <= Capacity(i) BY SliceTypes DEF Tiled
<1>3. /\ Skip(i) \in Nat /\ Capacity(i) \in Nat /\ slices[i].offset \in Nat
      /\ slices[i].payload \in Nat /\ slices[i].allocation = Capacity(i) + Skip(i)
  BY SliceTypes
<1>4. slices[i].offset <= q /\ q < slices[i].offset + slices[i].payload BY DEF Holds, End
<1>5. PICK o \in Nat, l \in Nat, c \in Nat, k \in Nat, s \in Nat :
          /\ o = slices[i].offset /\ l = slices[i].payload /\ c = Capacity(i)
          /\ k = Skip(i) /\ s = starts[i]
  BY <1>1, <1>3
<1>6. l <= c /\ o <= q /\ q < o + l BY <1>2, <1>4, <1>5
<1>7. slices[i].allocation = c + k /\ At(i, q) = s + k + q - o BY <1>3, <1>5 DEF At
<1>8. s + k + q - o \in Nat /\ s + k + q - o \in (s + k)..(s + (c + k) - 1)
  BY <1>6
<1>9. s + k + q - o \in s..(s + (c + k) - 1) BY <1>6
<1> QED BY <1>5, <1>7, <1>8, <1>9 DEF Extent

\* Two sectors of the image never share an address.
LEMMA Apart ==
  ASSUME slices \in Seq(Slice), Tiled, Copying, NEW q \in Nat, NEW r \in Nat,
         NEW i \in DOMAIN slices, NEW j \in DOMAIN slices, Holds(i, q), Holds(j, r),
         At(i, q) = At(j, r)
  PROVE  i = j /\ q = r
<1>1. starts \in [DOMAIN slices -> Places] BY DEF Copying
<1>2. At(i, q) \in Extent(i, starts[i]) /\ At(j, r) \in Extent(j, starts[j]) BY <1>1, Inside
<1>3. i = j BY <1>2 DEF Copying
<1>4. starts[i] \in Nat BY <1>1, PlanConstants
<1>5. PICK o \in Nat, k \in Nat, s \in Nat :
         o = slices[i].offset /\ k = Skip(i) /\ s = starts[i]
  BY <1>4, SliceTypes
<1>6. s + k + q - o = s + k + r - o BY <1>3, <1>5 DEF At
<1> QED BY <1>3, <1>6

\* One turn of the stream: the chunk ends with the part, so it lands where the plan
\* put it and touches nothing written before.
LEMMA TransferCopies ==
  ASSUME PlanInv, CopyInv, stream_transfer
  PROVE  Copying'
<1>1. /\ slices \in Seq(Slice) /\ Tiled /\ Copying /\ begun \in Nat /\ image \in Nat
      /\ remaining = 0 /\ left # 0
  BY DEF PlanInv, PlanTypes, CopyInv, stream_transfer
<1>2. /\ offset \in Nat /\ left \in Nat /\ offset + left <= image /\ begun <= offset
      /\ starts \in [DOMAIN slices -> Places]
      /\ Planned = image
  BY <1>1 DEF Copying, Planned
<1>3. \A q \in Nat : q < image => \E i \in DOMAIN slices : Holds(i, q)
  <2>1. DOMAIN slices = 1..Len(slices) BY <1>1
  <2> QED BY <1>1, <1>2, <2>1 DEF Tiled
<1>4. PICK i \in DOMAIN slices : Holds(i, offset) BY <1>1, <1>2, <1>3
<1>5. PICK k \in DOMAIN slices : Holds(k, begun) BY <1>1, <1>2, <1>3
<1> DEFINE available == slices[i].offset + Capacity(i) - offset
           chunk == Min({left, available})
           first == At(i, offset)
           new == first..(first + chunk - 1)
<1>6. /\ i \in 1..Len(slices) /\ Len(slices) \in Nat /\ DOMAIN slices = 1..Len(slices)
      /\ slices[i].offset \in Nat /\ slices[i].payload \in Nat /\ End(i) \in Nat
      /\ Capacity(i) \in Nat /\ Skip(i) \in Nat /\ starts[i] \in Nat
  BY <1>1, <1>2, SliceTypes, PlanConstants
<1>7. slices[i].payload <= Capacity(i) BY <1>1, <1>6 DEF Tiled
<1>8. available \in Nat \ {0}
  <2>1. PICK o \in Nat, l \in Nat, c \in Nat :
           o = slices[i].offset /\ l = slices[i].payload /\ c = Capacity(i)
    BY <1>6
  <2>2. l <= c /\ o <= offset /\ offset < o + l BY <1>4, <1>7, <2>1 DEF Holds, End
  <2>3. available = o + c - offset BY <2>1
  <2> HIDE DEF available
  <2> QED BY <1>2, <2>2, <2>3
<1>9. chunk = IF left <= available THEN left ELSE available BY <1>2, <1>8, MinTwo
<1>10. offset + chunk <= End(i) /\ chunk \in Nat \ {0} /\ chunk <= left
  <2>1. chunk \in Nat \ {0} /\ chunk <= left /\ chunk <= available BY <1>1, <1>2, <1>8, <1>9
  <2>2. CASE i < Len(slices)
    <3>1. slices[i].payload = Capacity(i) BY <1>1, <1>6, <2>2 DEF Tiled
    <3> QED BY <1>2, <1>6, <2>1, <3>1 DEF End
  <2>3. CASE i = Len(slices)
    <3>1. image - 1 \in Nat /\ image - 1 < image BY <1>1, <1>2
    <3>2. PICK j \in DOMAIN slices : Holds(j, image - 1) BY <1>3, <3>1
    <3>3. j \in 1..Len(slices) /\ End(j) \in Nat BY <1>1, <3>2, SliceTypes
    <3>4. ~(j < i)
      <4> SUFFICES ASSUME j < i PROVE FALSE
        OBVIOUS
      <4>1. End(j) <= slices[i].offset BY <1>1, <1>6, <3>3 DEF Tiled
      <4>2. PICK e \in Nat, o \in Nat : e = End(j) /\ o = slices[i].offset BY <1>6, <3>3
      <4>3. image - 1 < e /\ e <= o /\ o <= offset BY <1>4, <3>2, <4>1, <4>2 DEF Holds
      <4>4. offset <= image - 1 BY <1>1, <1>2
      <4> QED BY <1>1, <1>2, <4>2, <4>3, <4>4
    <3>5. j = i BY <1>6, <2>3, <3>3, <3>4
    <3>6. image - 1 < End(i) BY <3>2, <3>5 DEF Holds
    <3> QED BY <1>1, <1>2, <1>6, <2>1, <3>6
  <2> QED BY <1>6, <2>1, <2>2, <2>3
<1>11. first \in Nat /\ first = starts[i] + (Skip(i) + offset - slices[i].offset)
  <2>1. first \in Nat BY <1>1, <1>2, <1>4, Inside
  <2> QED BY <1>2, <1>6, <2>1 DEF At
<1>12. /\ content' = [lba \in DOMAIN content \cup new |->
                         IF lba \in new THEN offset + lba - first ELSE content[lba]]
       /\ offset' = offset + chunk /\ left' = left - chunk
       /\ reported' = IF left' = 0 THEN <<begun, physical_lba(begun)>> ELSE reported
  <2>1. locate_position(offset) =
          [part |-> i, sector |-> Skip(i) + offset - slices[i].offset, available |-> available]
    BY <1>1, <1>2, <1>4, Locate
  <2>2. /\ locate_position(offset).part = i /\ locate_position(offset).available = available
        /\ locate_position(offset).sector = Skip(i) + offset - slices[i].offset
    BY <2>1
  <2> HIDE DEF available
  <2> QED BY <1>11, <2>2 DEF stream_transfer
<1>13. UNCHANGED <<image, slices, starts, begun>> BY DEF stream_transfer
<1> HIDE DEF chunk, first, available
<1>14. /\ \A j, q : At(j, q)' = At(j, q) /\ (Holds(j, q)' <=> Holds(j, q))
       /\ \A j : Extent(j, starts[j])' = Extent(j, starts[j])
  BY <1>13 DEF At, Holds, End, Extent, Skip
<1>15. \A q \in Nat : At(i, q) = first + (q - offset) /\ first + (q - offset) \in Int
  <2>1. PICK o \in Nat, k1 \in Nat, s \in Nat :
           o = slices[i].offset /\ k1 = Skip(i) /\ s = starts[i]
    BY <1>6
  <2>2. \A q \in Nat : At(i, q) = s + k1 + q - o BY <2>1 DEF At
  <2>3. first = s + (k1 + offset - o) BY <1>11, <2>1
  <2> QED BY <1>2, <1>11, <2>2, <2>3
<1>16. ASSUME NEW lba \in new
       PROVE  \E q \in Nat : /\ Holds(i, q) /\ offset <= q /\ q < offset + chunk
                             /\ lba = At(i, q) /\ q = offset + lba - first
  <2> DEFINE q == offset + lba - first
  <2>1. lba \in Int /\ first <= lba /\ lba <= first + chunk - 1 BY <1>10, <1>11, <1>16
  <2>2. q \in Nat /\ offset <= q /\ q < offset + chunk BY <1>2, <1>10, <1>11, <2>1
  <2>3. lba = At(i, q) BY <1>2, <1>11, <1>15, <2>1, <2>2
  <2>4. Holds(i, q) BY <1>2, <1>4, <1>6, <1>10, <2>2 DEF Holds
  <2> QED BY <2>2, <2>3, <2>4
<1>17. ASSUME NEW j \in DOMAIN slices, NEW q \in Nat, Holds(j, q), q < offset + chunk
       PROVE  At(j, q) \in DOMAIN content' /\ content'[At(j, q)] = q
  <2>1. CASE q < offset
    <3>1. At(j, q) \in DOMAIN content /\ content[At(j, q)] = q BY <1>1, <1>17, <2>1 DEF Copying
    <3>2. At(j, q) \notin new
      <4> SUFFICES ASSUME At(j, q) \in new PROVE FALSE
        OBVIOUS
      <4>1. PICK r \in Nat : Holds(i, r) /\ offset <= r /\ At(j, q) = At(i, r) BY <1>16
      <4>2. q = r BY <1>1, <1>17, <4>1, Apart
      <4> QED BY <1>2, <2>1, <4>1, <4>2
    <3> HIDE DEF new
    <3> QED BY <1>12, <3>1, <3>2
  <2>2. CASE offset <= q
    <3>1. Holds(i, q) BY <1>2, <1>4, <1>6, <1>10, <1>17, <2>2 DEF Holds
    <3>2. j = i BY <1>1, <1>17, <3>1, OneHolder
    <3>3. At(j, q) = first + (q - offset) BY <1>15, <3>2
    <3>4. At(j, q) \in new BY <1>2, <1>10, <1>11, <1>17, <2>2, <3>3
    <3>5. offset + At(j, q) - first = q BY <1>2, <1>11, <3>3
    <3> HIDE DEF new
    <3> QED BY <1>12, <3>4, <3>5
  <2> QED BY <1>2, <2>1, <2>2
<1>18. ASSUME NEW lba \in DOMAIN content'
       PROVE  \E j \in DOMAIN slices : \E q \in Nat :
                 Holds(j, q) /\ q < offset + chunk /\ lba = At(j, q)
  <2>1. CASE lba \in new BY <1>4, <1>16, <2>1
  <2>2. CASE lba \in DOMAIN content
    <3>1. PICK j \in DOMAIN slices, q \in Nat : Holds(j, q) /\ q < offset /\ lba = At(j, q)
      BY <1>1, <2>2 DEF Copying
    <3>2. q < offset + chunk BY <1>2, <1>10, <3>1
    <3> QED BY <3>1, <3>2
  <2> HIDE DEF new
  <2> QED BY <1>12, <1>18, <2>1, <2>2
<1>19. ASSUME reported' # <<0, 0>>
       PROVE  \E j \in DOMAIN slices : \E q \in Nat :
                 Holds(j, q) /\ q < offset + chunk /\ reported' = <<q, At(j, q)>>
  <2>1. CASE left' = 0
    <3>1. reported' = <<begun, At(k, begun)>> BY <1>1, <1>5, <1>12, <2>1, Physical
    <3>2. begun < offset + chunk BY <1>1, <1>2, <1>10
    <3> QED BY <1>1, <1>5, <3>1, <3>2
  <2>2. CASE left' # 0
    <3>1. reported' = reported BY <1>12, <2>2
    <3>2. PICK j \in DOMAIN slices, q \in Nat : Holds(j, q) /\ q < offset /\ reported = <<q, At(j, q)>>
      BY <1>1, <1>19, <3>1 DEF Copying
    <3>3. q < offset + chunk BY <1>2, <1>10, <3>2
    <3> QED BY <3>1, <3>2, <3>3
  <2> QED BY <2>1, <2>2
<1>20. /\ offset' \in Nat /\ left' \in Nat /\ offset' + left' <= image'
       /\ (left' # 0 => begun' <= offset')
  BY <1>1, <1>2, <1>10, <1>12, <1>13
<1>21. /\ starts' \in [DOMAIN slices' -> Places]
       /\ \A j, l \in DOMAIN slices' :
             j # l => Extent(j, starts[j])' \cap Extent(l, starts[l])' = {}
  BY <1>1, <1>13, <1>14 DEF Copying
<1>22. \A j \in DOMAIN slices' : \A q \in Nat :
          Holds(j, q)' /\ q < offset' =>
             At(j, q)' \in DOMAIN content' /\ content'[At(j, q)'] = q
  BY <1>12, <1>13, <1>14, <1>17
<1>23. \A lba \in DOMAIN content' : \E j \in DOMAIN slices' : \E q \in Nat :
          Holds(j, q)' /\ q < offset' /\ lba = At(j, q)'
  <2> HIDE DEF new
  <2>1. offset' = offset + chunk BY <1>12
  <2> QED BY <1>13, <1>14, <1>18, <2>1
<1>24. reported' # <<0, 0>> => \E j \in DOMAIN slices' : \E q \in Nat :
          Holds(j, q)' /\ q < offset' /\ reported' = <<q, At(j, q)'>>
  <2>1. offset' = offset + chunk BY <1>12
  <2> QED BY <1>13, <1>14, <1>19, <2>1
<1> QED BY <1>20, <1>21, <1>22, <1>23, <1>24 DEF Copying

\* Every step keeps what the copy did.
LEMMA CopyStep ==
  ASSUME PlanInv, PlanInv', CopyInv, [Next]_vars
  PROVE  CopyInv'
<1>1. CASE hdl_iso_probe \/ plan_begin \/ plan_slice \/ plan_end
  <2>1. /\ UNCHANGED <<begun, content, reported>>
        /\ pc \notin {"copy", "installed"} /\ pc' \notin {"copy", "installed"}
    BY <1>1 DEF hdl_iso_probe, plan_begin, plan_slice, plan_end
  <2> QED BY <2>1 DEF CopyInv
<1>2. CASE create_partitions
  <2>1. /\ pc = "create" /\ begun \in Nat /\ content = <<>> /\ reported = <<0, 0>>
        /\ UNCHANGED <<image, slices, content, begun, reported>>
    BY <1>2 DEF create_partitions, CopyInv
  <2>2. CASE pc' = "refused" BY <2>1, <2>2 DEF CopyInv
  <2>3. CASE /\ pc' = "copy" /\ offset' = 0 /\ left' = 0
             /\ \E s \in [DOMAIN slices -> Places] :
                   /\ \A i, j \in DOMAIN slices :
                         i # j => Extent(i, s[i]) \cap Extent(j, s[j]) = {}
                   /\ starts' = s
    <3>1. starts' \in [DOMAIN slices' -> Places] BY <2>1, <2>3
    <3>2. \A i, j \in DOMAIN slices' :
             i # j => Extent(i, starts[i])' \cap Extent(j, starts[j])' = {}
      <4>1. \A i : Extent(i, starts[i])' = Extent(i, starts'[i]) BY <2>1 DEF Extent
      <4> QED BY <2>1, <2>3, <4>1
    <3>3. image' \in Nat /\ DOMAIN content' = {} BY <2>1 DEF PlanInv, PlanTypes
    <3>4. \A i, q : q \in Nat => ~(q < offset') BY <2>3
    <3> HIDE DEF Holds, At
    <3>5. Copying' BY <2>1, <2>3, <3>1, <3>2, <3>3, <3>4 DEF Copying
    <3> QED BY <2>1, <2>3, <3>5 DEF CopyInv
  <2> QED BY <1>2, <2>2, <2>3 DEF create_partitions
<1>3. CASE stream_transfer
  <2>1. UNCHANGED <<pc, begun>> /\ pc = "copy" BY <1>3 DEF stream_transfer
  <2> QED BY <1>3, <2>1, TransferCopies DEF CopyInv
<1>4. CASE copy_payload \/ hdl_metadata_build \/ UNCHANGED vars
  <2>1. UNCHANGED <<image, slices, starts, offset, content, reported>>
    BY <1>4 DEF copy_payload, hdl_metadata_build, vars
  <2>2. /\ \A i, q : At(i, q)' = At(i, q) /\ (Holds(i, q)' <=> Holds(i, q))
        /\ \A i : Extent(i, starts[i])' = Extent(i, starts[i])
    BY <2>1 DEF At, Holds, End, Extent, Skip
  <2>3. ASSUME Copying, left' \in Nat, offset + left' <= image, left' # 0 => begun' <= offset
        PROVE  Copying'
    BY <2>1, <2>2, <2>3 DEF Copying
  <2>4. CASE copy_payload
    <3>1. /\ pc = "copy" /\ pc' = "copy" /\ left' = Min({IoSectors, image - offset})
          /\ begun' = offset /\ offset < image /\ Copying
      BY <2>4 DEF copy_payload, CopyInv
    <3>2. offset \in Nat /\ image \in Nat /\ IoSectors \in Nat /\ image - offset \in Nat
      BY <3>1, PlanConstants DEF Copying, PlanInv, PlanTypes
    <3>3. left' = IF IoSectors <= image - offset THEN IoSectors ELSE image - offset
      BY <3>1, <3>2, MinTwo
    <3>4. Copying' BY <2>3, <3>1, <3>2, <3>3
    <3> QED BY <3>1, <3>2, <3>4 DEF CopyInv
  <2>5. CASE hdl_metadata_build
    <3>1. /\ pc = "copy" /\ offset = image /\ UNCHANGED <<left, begun>> /\ Copying /\ begun \in Nat
      BY <2>5 DEF hdl_metadata_build, CopyInv
    <3>2. Copying' BY <2>3, <3>1 DEF Copying
    <3>3. /\ pc' = "installed" /\ metadata' = [title |-> title, entries |-> [i \in DOMAIN slices |-> Entry(i)]]
      BY <2>5, <3>1, TiledBuilds DEF hdl_metadata_build, Copying
    <3>4. \A i : Entry(i)' = Entry(i) BY <2>1 DEF Entry, Skip
    <3>5. metadata'.entries = [i \in DOMAIN slices' |-> Entry(i)']
      BY <2>1, <3>3, <3>4
    <3> QED BY <2>1, <3>1, <3>2, <3>3, <3>5 DEF CopyInv
  <2>6. CASE UNCHANGED vars
    <3>1. UNCHANGED <<pc, left, begun, metadata>> BY <2>6 DEF vars
    <3>2. Copying => Copying' BY <2>3, <3>1 DEF Copying
    <3>3. \A i : Entry(i)' = Entry(i) BY <2>1 DEF Entry, Skip
    <3>4. [i \in DOMAIN slices |-> Entry(i)]' = [i \in DOMAIN slices |-> Entry(i)] BY <2>1, <3>3
    <3> QED BY <2>1, <3>1, <3>2, <3>4 DEF CopyInv
  <2> QED BY <1>4, <2>4, <2>5, <2>6
<1> QED BY <1>1, <1>2, <1>3, <1>4 DEF Next

\* Nothing is planned or copied at the start.
LEMMA PlanInit == Init => PlanInv /\ CopyInv
<1> SUFFICES ASSUME Init PROVE PlanInv /\ CopyInv
  OBVIOUS
<1>1. image \in Nat /\ maximum \in Nat BY PlanConstants DEF Init
<1>2. slices \in Seq(Slice) /\ DOMAIN slices = {} /\ remaining \in Nat BY DEF Init
<1>3. PlanTypes BY <1>1, <1>2 DEF Init, PlanTypes
<1>4. PlanInv BY <1>2, <1>3 DEF Init, PlanInv, PlanWithinMaximum
<1>5. CopyInv BY DEF Init, CopyInv
<1> QED BY <1>4, <1>5

\* The plan stays a tiling of the image and the copy follows it, for every image,
\* drive limit, set of partition sizes, reserved area, request size and placement.
THEOREM PlanInvariance == Spec => [](PlanInv /\ CopyInv)
<1>1. PlanInv /\ CopyInv /\ [Next]_vars => PlanInv' /\ CopyInv'
  <2> SUFFICES ASSUME PlanInv, CopyInv, [Next]_vars PROVE PlanInv' /\ CopyInv'
    OBVIOUS
  <2>1. pc = "copy" => starts \in [DOMAIN slices -> Places] BY DEF CopyInv, Copying
  <2>2. PlanInv' BY <2>1, PlanStep
  <2> QED BY <2>2, CopyStep
<1> QED BY <1>1, PlanInit, PTL DEF Spec

\* What hdl_partition_plan accepts is refused neither by ps2hdd for its size nor by
\* hdl_metadata_build after the copy.
THEOREM Honoured == Spec => []PlanHonoured
<1>1. PlanInv => PlanHonoured
  BY DEF PlanInv, PlanTypes, PlanHonoured, PlanBuilds
<1> QED BY <1>1, PlanInvariance, PTL

\* stream_transfer writes between the reserved head and the end of a created
\* partition, over every border.
THEOREM StaysInside == Spec => []WritesStayInside
<1>1. PlanInv /\ CopyInv => WritesStayInside
  <2> SUFFICES ASSUME PlanInv, CopyInv, NEW lba \in DOMAIN content
               PROVE  \E i \in DOMAIN starts :
                        lba \in (starts[i] + Skip(i))..(starts[i] + slices[i].allocation - 1)
    BY DEF WritesStayInside
  <2>1. pc \in {"copy", "installed"} /\ Copying BY DEF CopyInv
  <2>2. Tiled /\ slices \in Seq(Slice) BY <2>1 DEF PlanInv, PlanTypes
  <2>3. PICK i \in DOMAIN slices, q \in Nat : Holds(i, q) /\ lba = At(i, q) BY <2>1 DEF Copying
  <2>4. starts \in [DOMAIN slices -> Places] BY <2>1 DEF Copying
  <2>5. lba \in (starts[i] + Skip(i))..(starts[i] + slices[i].allocation - 1)
    BY <2>2, <2>3, <2>4, Inside
  <2> QED BY <2>4, <2>5
<1> QED BY <1>1, PlanInvariance, PTL

\* Once installed, the loader's arithmetic leads to the sector the stream wrote: the
\* offsets are whole blocks, so the last entry at or before a block is its part.
LEMMA LoaderFinds ==
  ASSUME PlanInv, CopyInv, pc = "installed",
         NEW b \in Nat, NEW k \in Nat, k < Block, NEW q \in Nat, q = Block * b + k, q < image
  PROVE  LoaderLba(b) + k \in DOMAIN content /\ content[LoaderLba(b) + k] = q
<1>1. /\ slices \in Seq(Slice) /\ Tiled /\ Copying /\ remaining = 0 /\ image \in Nat
      /\ offset = image /\ metadata.entries = [i \in DOMAIN slices |-> Entry(i)]
  BY DEF PlanInv, PlanTypes, CopyInv
<1>2. Block \in Nat \ {0} /\ DOMAIN slices = 1..Len(slices) /\ Len(slices) \in Nat BY <1>1, Sized
<1>3. PICK i \in DOMAIN slices : Holds(i, q)
  <2>1. Planned = image BY <1>1 DEF Planned
  <2> QED BY <1>1, <1>2, <2>1 DEF Tiled
<1> DEFINE po(j) == slices[j].offset \div Block
           M == {j \in DOMAIN slices : po(j) <= b}
<1>4. \A j \in DOMAIN slices : slices[j].offset \in Nat /\ slices[j].offset % Block = 0
  BY <1>1, <1>2, SliceTypes DEF Tiled
<1>5. \A j \in DOMAIN slices : po(j) \in Nat /\ slices[j].offset = Block * po(j)
  BY <1>2, <1>4, DivExact
<1> HIDE DEF po
<1>6. Block * b \in Nat /\ Block * (b + 1) = Block * b + Block BY <1>2
<1>7. po(i) <= b
  <2>1. Block * po(i) < Block * (b + 1)
    BY <1>2, <1>4, <1>5, <1>6, <1>3 DEF Holds
  <2>2. po(i) < b + 1 BY <1>2, <1>5, <2>1, TimesLess
  <2> QED BY <1>5, <2>2
<1>8. ASSUME NEW j \in M, i < j PROVE FALSE
  <2>1. End(i) <= slices[j].offset /\ End(i) \in Nat BY <1>1, <1>2, <1>8, SliceTypes DEF Tiled
  <2>2. Block * b < Block * po(j) BY <1>3, <1>4, <1>5, <1>6, <2>1 DEF Holds
  <2>3. b < po(j) BY <1>2, <1>5, <2>2, TimesLess
  <2> QED BY <1>5, <2>3
<1>9. Max(M) = i
  <2>1. M \in SUBSET Nat /\ i \in M BY <1>2, <1>7
  <2>2. IsFiniteSet(M)
    <3>1. IsFiniteSet(1..Len(slices)) BY <1>2, FS_Interval
    <3>2. M \subseteq 1..Len(slices) BY <1>2
    <3> QED BY <3>1, <3>2, FS_Subset
  <2> HIDE DEF M
  <2>3. Max(M) \in M /\ i <= Max(M) BY <2>1, <2>2, MaxOf
  <2>4. ~(i < Max(M)) BY <1>8, <2>3
  <2>5. Max(M) \in Nat /\ i \in Nat BY <2>1, <2>3
  <2> QED BY <2>3, <2>4, <2>5
<1>10. LoaderLba(b) = starts[i] + Skip(i) + Block * (b - po(i))
  <2> DEFINE E == metadata.entries
  <2>1. /\ DOMAIN E = DOMAIN slices
        /\ \A j \in DOMAIN slices : E[j].part_offset = po(j) /\ E[j].data_start = starts[j] + Skip(j)
    BY <1>1 DEF Entry, po
  <2>2. {j \in DOMAIN E : E[j].part_offset <= b} = M BY <2>1
  <2>3. LoaderLba(b) = E[Max({j \in DOMAIN E : E[j].part_offset <= b})].data_start
                        + Block * (b - E[Max({j \in DOMAIN E : E[j].part_offset <= b})].part_offset)
    BY DEF LoaderLba
  <2> HIDE DEF E, M
  <2> QED BY <1>9, <2>1, <2>2, <2>3
<1>11. LoaderLba(b) + k = At(i, q)
  <2>1. Block * (b - po(i)) = Block * b - Block * po(i) BY <1>2, <1>5, TimesMinus
  <2>2. starts[i] \in Nat /\ Skip(i) \in Nat /\ Block * po(i) \in Nat
    <3>1. starts[i] \in Places BY <1>1 DEF Copying
    <3>2. starts[i] \in Nat BY <3>1, PlanConstants
    <3>3. Skip(i) \in Nat BY Sized, Zenon
    <3>4. Block * po(i) \in Nat BY <1>4, <1>5
    <3> QED BY <3>2, <3>3, <3>4
  <2> QED BY <1>4, <1>5, <1>6, <1>10, <2>1, <2>2 DEF At
<1> QED BY <1>1, <1>3, <1>11 DEF Copying

\* Stream, status line and metadata name one address for every sector of the image,
\* although each computes it from other data.
THEOREM Agree == Spec => []AddressesAgree
<1>1. PlanInv /\ CopyInv => ImageReadable
  <2> SUFFICES ASSUME PlanInv, CopyInv, pc = "installed",
                      NEW b \in 0..((image \div Block) - 1), NEW k \in 0..(Block - 1)
               PROVE  LoaderLba(b) + k \in DOMAIN content /\ content[LoaderLba(b) + k] = Block * b + k
    BY DEF ImageReadable
  <2>1. image \in Nat /\ image % Block = 0 /\ Block \in Nat \ {0}
    BY Sized DEF PlanInv, PlanTypes, Tiled
  <2>2. image \div Block \in Nat /\ image = Block * (image \div Block) BY <2>1, DivExact
  <2> DEFINE m == image \div Block
  <2> HIDE DEF m
  <2>3. m \in Nat /\ image = Block * m /\ b \in Nat /\ b + 1 <= m /\ k \in Nat /\ k < Block
    BY <2>1, <2>2 DEF m
  <2>4. Block * (b + 1) <= Block * m /\ Block * (b + 1) = Block * b + Block /\ Block * b \in Nat
    BY <2>1, <2>3
  <2>5. Block * b + k \in Nat /\ Block * b + k < image BY <2>1, <2>3, <2>4
  <2> QED BY <2>3, <2>5, LoaderFinds
<1>2. PlanInv /\ CopyInv => ReportedWhereWritten
  <2> SUFFICES ASSUME PlanInv, CopyInv, reported # <<0, 0>>
               PROVE  reported[2] \in DOMAIN content /\ content[reported[2]] = reported[1]
    BY DEF ReportedWhereWritten
  <2>1. Copying BY DEF CopyInv
  <2>2. PICK i \in DOMAIN slices, q \in Nat :
           Holds(i, q) /\ q < offset /\ reported = <<q, At(i, q)>>
    BY <2>1 DEF Copying
  <2>3. At(i, q) \in DOMAIN content /\ content[At(i, q)] = q BY <2>1, <2>2 DEF Copying
  <2> QED BY <2>2, <2>3
<1> QED BY <1>1, <1>2, PlanInvariance, PTL DEF AddressesAgree
=============================================================================
