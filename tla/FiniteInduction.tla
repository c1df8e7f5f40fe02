--------------------------- MODULE FiniteInduction ---------------------------
(***************************************************************************)
(* Induction and recursion over finite sets and lists, of any size.        *)
(*                                                                         *)
(* The theorems of the library that have an operator for the induction     *)
(* hypothesis cannot be used; here the hypothesis is a set, and induction  *)
(* is the theorem that a nonempty set of finite sets has a minimal         *)
(* element.  A fold is a recursion over the subsets of a finite set, of    *)
(* which nothing can be said before it is known to have a solution.        *)
(***************************************************************************)
EXTENDS FiniteSetsExt, FiniteSetTheorems, TLAPS

\* A nonempty set of subsets of a finite set has a smallest one.
LEMMA MinimalSubset ==
  ASSUME NEW S, IsFiniteSet(S), NEW Bad, Bad \subseteq SUBSET S, Bad # {}
  PROVE  \E T \in Bad : \A U \in Bad : U \subseteq T => U = T
<1> DEFINE R == StrictSubsetOrdering(S)
           Subsets == SUBSET S
<1>1. FiniteSubsetsOf(S) = Subsets
  BY FS_FiniteSubsetsOfFinite
<1>2. IsWellFoundedOn(R, FiniteSubsetsOf(S))
  BY FS_StrictSubsetOrderingWellFounded
<1>3. IsWellFoundedOn(R, Subsets)
  BY <1>1, <1>2, Zenon
<1>4. Bad \subseteq Subsets
  OBVIOUS
<1> HIDE DEF R, Subsets
<1>5. \E T \in Bad : \A U \in Bad : ~(<<U, T>> \in R)
  BY <1>3, <1>4, WFMin
<1> QED BY <1>5 DEF R, StrictSubsetOrdering

\* Induction over the subsets of a finite set, with a set for the induction hypothesis.
LEMMA SubsetInduction ==
  ASSUME NEW S, IsFiniteSet(S), NEW Good,
         \A T \in SUBSET S : (\A U \in SUBSET T : U # T => U \in Good) => T \in Good
  PROVE  \A T \in SUBSET S : T \in Good
<1> DEFINE Bad == (SUBSET S) \ Good
<1>1. SUFFICES ASSUME Bad # {} PROVE FALSE
  OBVIOUS
<1>2. Bad \subseteq SUBSET S
  OBVIOUS
<1> HIDE DEF Bad
<1>3. PICK T \in Bad : \A U \in Bad : U \subseteq T => U = T
  BY <1>1, <1>2, MinimalSubset
<1> QED BY <1>3 DEF Bad

\* Induction over the natural numbers, in the same form.
LEMMA CountingUp ==
  ASSUME NEW Good, 0 \in Good, \A n \in Nat : n \in Good => n + 1 \in Good
  PROVE  \A n \in Nat : n \in Good
<1> DEFINE Bad == Nat \ Good
<1>1. SUFFICES ASSUME Bad # {} PROVE FALSE
  OBVIOUS
<1>2. PICK n \in Bad : \A m \in Bad : ~(<<m, n>> \in OpToRel(<, Nat))
  BY <1>1, NatLessThanWellFounded, WFMin
<1>3. n \in Nat /\ n # 0 /\ n \notin Good
  OBVIOUS
<1>4. n - 1 \in Nat /\ n - 1 < n /\ (n - 1) + 1 = n
  BY <1>3
<1>5. <<n - 1, n>> \in OpToRel(<, Nat)
  BY <1>3, <1>4 DEF OpToRel
<1> QED BY <1>2, <1>3, <1>4, <1>5

\* The values of a function of a finite set.
LEMMA FiniteImage ==
  ASSUME NEW f, IsFiniteSet(DOMAIN f)
  PROVE  IsFiniteSet({f[x] : x \in DOMAIN f})
<1> DEFINE S == DOMAIN f
           T == {f[x] : x \in S}
           g == [x \in S |-> f[x]]
<1>1. g \in Surjection(S, T)
  BY DEF Surjection
<1> HIDE DEF g, T, S
<1>2. IsFiniteSet(T)
  BY <1>1, FS_Surjection DEF S
<1> QED BY <1>2 DEF T, S

-----------------------------------------------------------------------------
\* g takes the elements of a set out one by one, and a step with each of them.
FoldsSet(g, base, pick, step) ==
  \A s \in DOMAIN g :
    g[s] = IF s = {} THEN base ELSE step[<<pick[s], g[s \ {pick[s]}]>>]

\* Such a fold exists, for any order of the elements, by induction on the size of the sets.
LEMMA FoldExists ==
  ASSUME NEW S, IsFiniteSet(S), NEW V, NEW base \in V,
         NEW pick \in [(SUBSET S) \ {{}} -> S],
         \A s \in (SUBSET S) \ {{}} : pick[s] \in s,
         NEW step \in [S \X V -> V]
  PROVE  \E g \in [SUBSET S -> V] : FoldsSet(g, base, pick, step)
<1> DEFINE Small(n) == {s \in SUBSET S : Cardinality(s) <= n}
           Reached == {n \in Nat : \E g \in [Small(n) -> V] : FoldsSet(g, base, pick, step)}
<1>1. \A s \in SUBSET S : IsFiniteSet(s) /\ Cardinality(s) \in Nat
  BY FS_Subset, FS_CardinalityType
<1>2. 0 \in Reached
  <2>1. Small(0) = {{}}
    BY <1>1, FS_EmptySet
  <2> DEFINE g == [s \in Small(0) |-> base]
  <2>2. g \in [Small(0) -> V] /\ FoldsSet(g, base, pick, step)
    BY <2>1 DEF FoldsSet
  <2> QED BY <2>2
<1>3. ASSUME NEW n \in Nat, n \in Reached PROVE n + 1 \in Reached
  <2>1. PICK f \in [Small(n) -> V] : FoldsSet(f, base, pick, step)
    BY <1>3
  <2> DEFINE g == [s \in Small(n + 1) |->
                     IF s = {} THEN base ELSE step[<<pick[s], f[s \ {pick[s]}]>>]]
  <2>2. \A s \in Small(n + 1) : s # {} => pick[s] \in S /\ s \ {pick[s]} \in Small(n)
    <3> TAKE s \in Small(n + 1)
    <3> HAVE s # {}
    <3>1. pick[s] \in s
      OBVIOUS
    <3>2. Cardinality(s \ {pick[s]}) = Cardinality(s) - 1
      BY <1>1, <3>1, FS_RemoveElement
    <3> QED BY <1>1, <3>1, <3>2
  <2>3. \A s \in Small(n) : s \in Small(n + 1) /\ g[s] = f[s]
    BY <1>1, <2>1 DEF FoldsSet
  <2>4. FoldsSet(g, base, pick, step)
    BY <2>2, <2>3 DEF FoldsSet
  <2>5. g \in [Small(n + 1) -> V]
    <3> SUFFICES ASSUME NEW s \in Small(n + 1), s # {}
                 PROVE  step[<<pick[s], f[s \ {pick[s]}]>>] \in V
      OBVIOUS
    <3>1. pick[s] \in S /\ f[s \ {pick[s]}] \in V
      BY <2>1, <2>2
    <3> QED BY <3>1
  <2> HIDE DEF g, Small
  <2> QED BY <2>4, <2>5
<1>4. Cardinality(S) \in Reached
  <2> HIDE DEF Reached
  <2> QED BY <1>1, <1>2, <1>3, CountingUp
<1>5. Small(Cardinality(S)) = SUBSET S
  BY FS_Subset
<1> QED BY <1>4, <1>5

-----------------------------------------------------------------------------
LEMMA MaxExists ==
  ASSUME NEW n \in Nat, NEW s \in (SUBSET (1 .. n)) \ {{}}
  PROVE  Max(s) \in s /\ \A i \in s : i <= Max(s)
<1> DEFINE Bounds == {k \in Nat : \A t \in SUBSET (1 .. k) :
                        t # {} => \E i \in t : \A j \in t : i >= j}
<1>1. 0 \in Bounds
  <2>1. 1 .. 0 = {}
    OBVIOUS
  <2> QED BY <2>1
<1>2. ASSUME NEW k \in Nat, k \in Bounds PROVE k + 1 \in Bounds
  <2> SUFFICES ASSUME NEW t \in SUBSET (1 .. k + 1), t # {}
               PROVE  \E i \in t : \A j \in t : i >= j
    OBVIOUS
  <2>1. CASE k + 1 \in t
    BY <2>1
  <2>2. CASE k + 1 \notin t
    <3>1. t \in SUBSET (1 .. k)
      BY <2>2
    <3> QED BY <1>2, <3>1
  <2> QED BY <2>1, <2>2
<1> HIDE DEF Bounds
<1>3. n \in Bounds
  BY <1>1, <1>2, CountingUp
<1>4. \E i \in s : \A j \in s : i >= j
  BY <1>3 DEF Bounds
<1> QED BY <1>4 DEF Max

LEMMA MaxOfPrefix ==
  ASSUME NEW k \in Nat \ {0}
  PROVE  Max(1 .. k) = k
<1>1. 1 .. k \in (SUBSET (1 .. k)) \ {{}} /\ k \in 1 .. k
  OBVIOUS
<1>2. Max(1 .. k) \in 1 .. k /\ k <= Max(1 .. k)
  BY <1>1, MaxExists
<1> QED BY <1>2

\* g takes the elements of a list one by one, from the first to the last.
FoldsList(g, base, step, n) ==
  /\ \A s \in SUBSET (1 .. n) :
       g[s] = IF s = {} THEN base ELSE step[<<Max(s), g[s \ {Max(s)}]>>]
  /\ g[1 .. 0] = base
  /\ \A k \in 1 .. n : g[1 .. k] = step[<<k, g[1 .. k - 1]>>]

\* The fold of a list of n elements, of which step is the operation on each.
LEMMA ListFoldExists ==
  ASSUME NEW n \in Nat, NEW V, NEW base \in V, NEW step \in [(1 .. n) \X V -> V]
  PROVE  \E g \in [SUBSET (1 .. n) -> V] : FoldsList(g, base, step, n)
<1> DEFINE S == 1 .. n
           pick == [s \in (SUBSET S) \ {{}} |-> Max(s)]
<1>1. /\ \A s \in (SUBSET S) \ {{}} : pick[s] \in s
      /\ pick \in [(SUBSET S) \ {{}} -> S]
  BY MaxExists
<1>2. IsFiniteSet(S)
  BY FS_Interval
<1> step \in [S \X V -> V]
  OBVIOUS
<1>3. \A s \in (SUBSET S) \ {{}} : pick[s] = Max(s)
  OBVIOUS
<1> HIDE DEF S, pick
<1>4. PICK g \in [SUBSET S -> V] : FoldsSet(g, base, pick, step)
  BY <1>1, <1>2, FoldExists
<1>5. \A s \in SUBSET S :
        g[s] = IF s = {} THEN base ELSE step[<<Max(s), g[s \ {Max(s)}]>>]
  BY <1>3, <1>4 DEF FoldsSet
<1>6. g[1 .. 0] = base
  <2>1. 1 .. 0 = {}
    OBVIOUS
  <2> QED BY <1>5, <2>1
<1>7. ASSUME NEW k \in 1 .. n PROVE g[1 .. k] = step[<<k, g[1 .. k - 1]>>]
  <2>1. 1 .. k \in SUBSET S /\ 1 .. k # {} /\ (1 .. k) \ {k} = 1 .. k - 1
    BY DEF S
  <2>2. Max(1 .. k) = k
    BY MaxOfPrefix
  <2> QED BY <1>5, <2>1, <2>2
<1> QED BY <1>4, <1>5, <1>6, <1>7 DEF FoldsList, S
=============================================================================
