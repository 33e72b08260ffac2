------------------------------ MODULE FoldLemmas ------------------------------
(***************************************************************************)
(* What the folds of the library compute, for finite sets of any size.     *)
(* A fold is the value of a recursive function on the subsets of its       *)
(* argument.  That such a function exists, and that there is only one, is  *)
(* shown here once, by least counterexample over the subsets; the sums of  *)
(* the reconciliation and the folds over sequences rest on it.  Summands   *)
(* and steps are functions, so that the lemmas can be applied.             *)
(***************************************************************************)
EXTENDS Integers, Folds, Functions, FiniteSets, FiniteSetTheorems,
        WellFoundedInduction, TLAPS

\* A set of subsets that is not empty has a member none of whose proper
\* subsets belongs to it.
LEMMA LeastSubset ==
  ASSUME NEW S, IsFiniteSet(S), NEW Bad, Bad \subseteq SUBSET S, Bad # {}
  PROVE  \E T \in Bad : \A U \in SUBSET T : U # T => U \notin Bad
<1>1. IsWellFoundedOn(StrictSubsetOrdering(S), SUBSET S)
  BY FS_StrictSubsetOrderingWellFounded, FS_FiniteSubsetsOfFinite
<1>2. PICK T \in Bad : \A U \in Bad : ~(<<U, T>> \in StrictSubsetOrdering(S))
  BY <1>1, WFMin
<1>3. ASSUME NEW U \in SUBSET T, U # T
      PROVE  <<U, T>> \in StrictSubsetOrdering(S)
  BY <1>3 DEF StrictSubsetOrdering
<1>4. ASSUME NEW U \in SUBSET T, U # T, U \in Bad
      PROVE  FALSE
  BY <1>2, <1>3, <1>4
<1>5. QED
  BY <1>4

-----------------------------------------------------------------------------
(* Recursion over the subsets of a finite set *)

\* h follows the recursion: the elements are taken out by `first', and `step'
\* combines an element with what is computed for the rest.
Follows(h, S, base, first, step) ==
  h = [T \in SUBSET S |->
         IF T = {} THEN base ELSE step[first[T]][h[T \ {first[T]}]]]

TakesOut(first, S) == \A T \in SUBSET S : T # {} => first[T] \in T

\* Two functions that follow the same recursion agree where both are defined.
LEMMA OneFollows ==
  ASSUME NEW S, IsFiniteSet(S), NEW R \in SUBSET S,
         NEW base, NEW first, NEW step, TakesOut(first, S),
         NEW g, Follows(g, R, base, first, step),
         NEW h, Follows(h, S, base, first, step)
  PROVE  \A T \in SUBSET R : g[T] = h[T]
<1> DEFINE Bad == {T \in SUBSET R : g[T] # h[T]}
<1>0. /\ g[{}] = base /\ h[{}] = base
      /\ \A T \in SUBSET R : T # {} => g[T] = step[first[T]][g[T \ {first[T]}]]
      /\ \A T \in SUBSET S : T # {} => h[T] = step[first[T]][h[T \ {first[T]}]]
  BY DEF Follows
<1>1. ASSUME Bad # {}
      PROVE  FALSE
  <2>1. IsFiniteSet(R) /\ Bad \subseteq SUBSET R
    BY FS_Subset
  <2>2. PICK T \in Bad : \A U \in SUBSET T : U # T => U \notin Bad
    <3> HIDE DEF Bad
    <3>1. QED
      BY <1>1, <2>1, LeastSubset
  <2>3. T \in SUBSET R /\ T \in SUBSET S /\ g[T] # h[T]
    OBVIOUS
  <2>4. T # {}
    BY <1>0, <2>3
  <2>5. /\ first[T] \in T
        /\ T \ {first[T]} \in SUBSET T /\ T \ {first[T]} # T
        /\ T \ {first[T]} \in SUBSET R
    BY <2>3, <2>4 DEF TakesOut
  <2>6. g[T \ {first[T]}] = h[T \ {first[T]}]
    BY <2>2, <2>5
  <2>7. /\ g[T] = step[first[T]][g[T \ {first[T]}]]
        /\ h[T] = step[first[T]][h[T \ {first[T]}]]
    BY <1>0, <2>3, <2>4
  <2>8. QED
    BY <2>3, <2>6, <2>7
<1>2. QED
  BY <1>1

\* A recursion whose steps stay within D is followed by a function into D.
LEMMA SomethingFollows ==
  ASSUME NEW S, IsFiniteSet(S), NEW D, NEW base \in D, NEW first,
         TakesOut(first, S), NEW step, \A x \in S, d \in D : step[x][d] \in D
  PROVE  \E h \in [SUBSET S -> D] : Follows(h, S, base, first, step)
<1> DEFINE Has(T) == \E h \in [SUBSET T -> D] : Follows(h, T, base, first, step)
           Bad == {T \in SUBSET S : ~Has(T)}
<1>1. ASSUME Bad # {}
      PROVE  FALSE
  <2>1. Bad \subseteq SUBSET S
    OBVIOUS
  <2>2. PICK T \in Bad : \A U \in SUBSET T : U # T => U \notin Bad
    <3> HIDE DEF Bad
    <3>1. QED
      BY <1>1, <2>1, LeastSubset
  <2> DEFINE H(U) == CHOOSE h \in [SUBSET U -> D] : Follows(h, U, base, first, step)
             h == [U \in SUBSET T |->
                     IF U = {} THEN base
                     ELSE step[first[U]][H(U \ {first[U]})[U \ {first[U]}]]]
  <2>3. T \in SUBSET S /\ ~Has(T)
    OBVIOUS
  <2>4. ASSUME NEW U \in SUBSET T, U # T
        PROVE  /\ Follows(H(U), U, base, first, step)
               /\ H(U)[U] \in D
               /\ H(U)[{}] = base
               /\ U # {} => H(U)[U] = step[first[U]][H(U)[U \ {first[U]}]]
    <3>1. Has(U)
      BY <2>2, <2>3, <2>4
    <3>2. H(U) \in [SUBSET U -> D] /\ Follows(H(U), U, base, first, step)
      BY <3>1
    <3> HIDE DEF H
    <3>3. QED
      BY <3>2 DEF Follows
  <2>5. ASSUME NEW U \in SUBSET T, U # {}
        PROVE  /\ first[U] \in U /\ first[U] \in S
               /\ U \ {first[U]} \in SUBSET T /\ U \ {first[U]} # T
    BY <2>3, <2>5 DEF TakesOut
  <2> HIDE DEF H, Has, Bad
  <2>6. h \in [SUBSET T -> D]
    <3>1. ASSUME NEW U \in SUBSET T, U # {}
          PROVE  step[first[U]][H(U \ {first[U]})[U \ {first[U]}]] \in D
      <4>1. H(U \ {first[U]})[U \ {first[U]}] \in D
        BY <3>1, <2>4, <2>5 DEF Has
      <4>2. QED
        BY <3>1, <4>1, <2>5
    <3>2. QED
      BY <3>1
  <2>7. ASSUME NEW U \in SUBSET T, U # T
        PROVE  h[U] = H(U)[U]
    <3>1. CASE U = {}
      BY <3>1, <2>4, <2>7
    <3>2. CASE U # {}
      <4>1. /\ Follows(H(U), U, base, first, step)
            /\ Follows(H(U \ {first[U]}), U \ {first[U]}, base, first, step)
        BY <3>2, <2>4, <2>5, <2>7
      <4>2. IsFiniteSet(U) /\ TakesOut(first, U)
        BY <2>3, FS_Subset DEF TakesOut
      <4>3. H(U \ {first[U]})[U \ {first[U]}] = H(U)[U \ {first[U]}]
        BY <4>1, <4>2, OneFollows
      <4>4. H(U)[U] = step[first[U]][H(U)[U \ {first[U]}]]
        BY <3>2, <2>4, <2>7
      <4>5. QED
        BY <3>2, <4>3, <4>4
    <3>3. QED
      BY <3>1, <3>2
  <2>8. Follows(h, T, base, first, step)
    <3>1. ASSUME NEW U \in SUBSET T, U # {}
          PROVE  h[U] = step[first[U]][h[U \ {first[U]}]]
      <4>1. h[U \ {first[U]}] = H(U \ {first[U]})[U \ {first[U]}]
        <5> HIDE DEF h
        <5>1. QED
          BY <3>1, <2>5, <2>7
      <4>2. h[U] = step[first[U]][H(U \ {first[U]})[U \ {first[U]}]]
        BY <3>1
      <4>3. QED
        BY <4>1, <4>2
    <3>2. h[{}] = base
      OBVIOUS
    <3>3. h = [U \in SUBSET T |-> h[U]]
      OBVIOUS
    <3> HIDE DEF h
    <3>4. QED
      BY <3>1, <3>2, <3>3 DEF Follows
  <2>9. QED
    BY <2>3, <2>6, <2>8 DEF Has
<1>2. S \notin Bad
  BY <1>1
<1>3. QED
  BY <1>2

-----------------------------------------------------------------------------
(* Sums over finite sets *)

Summands(w, S) == \A x \in S : w[x] \in Int

\* The sum over a set is the recursion's value at that set, and it is the only
\* function of the subsets that the recursion allows.
LEMMA SumIsFold ==
  ASSUME NEW S, IsFiniteSet(S), NEW w, Summands(w, S)
  PROVE  /\ SumFunctionOnSet(w, S) \in Int
         /\ S = {} => SumFunctionOnSet(w, S) = 0
         /\ S # {} => \E x \in S :
              SumFunctionOnSet(w, S) = w[x] + SumFunctionOnSet(w, S \ {x})
<1> DEFINE pick(T) == CHOOSE x \in T : TRUE
           first(R) == [T \in SUBSET R |-> pick(T)]
           step(R) == [x \in R |-> [d \in Int |-> w[x] + d]]
           Fold(R, h) == [T \in SUBSET R |->
                            IF T = {} THEN 0 ELSE w[pick(T)] + h[T \ {pick(T)}]]
           Sum(R) == CHOOSE h : h = Fold(R, h)
<1>1. \A R : SumFunctionOnSet(w, R) = Sum(R)[R]
  BY DEF SumFunctionOnSet, FoldFunctionOnSet, MapThenFoldSet
<1>2. \A T \in SUBSET S : T # {} =>
        pick(T) \in T /\ pick(T) \in S /\ T \ {pick(T)} \in SUBSET T
  OBVIOUS
<1> HIDE DEF pick
<1>3. ASSUME NEW R \in SUBSET S
      PROVE  /\ Sum(R) \in [SUBSET R -> Int]
             /\ Sum(R) = Fold(R, Sum(R))
             /\ Follows(Sum(R), R, 0, first(S), step(S))
  <2>1. /\ TakesOut(first(S), R) /\ IsFiniteSet(R)
        /\ \A x \in R, d \in Int : step(S)[x][d] \in Int
    BY <1>2, FS_Subset DEF TakesOut, Summands
  <2>2. PICK g \in [SUBSET R -> Int] : Follows(g, R, 0, first(S), step(S))
    <3> DEFINE f == first(S)
               t == step(S)
               D == Int
               zero == 0
    <3> HIDE DEF first, step
    <3>1. TakesOut(f, R) /\ IsFiniteSet(R)
      BY <2>1
    <3>2. zero \in D /\ \A x \in R, d \in D : t[x][d] \in D
      BY <2>1
    <3> HIDE DEF f, t, D, zero
    <3>3. \E h \in [SUBSET R -> D] : Follows(h, R, zero, f, t)
      BY <3>1, <3>2, SomethingFollows
    <3>4. QED
      BY <3>3 DEF f, t, D, zero
  <2>3. ASSUME NEW T \in SUBSET R
        PROVE  g[T] = IF T = {} THEN 0 ELSE w[pick(T)] + g[T \ {pick(T)}]
    <3>1. CASE T = {}
      BY <2>2, <3>1 DEF Follows
    <3>2. CASE T # {}
      <4>1. pick(T) \in S /\ T \ {pick(T)} \in SUBSET R /\ first(S)[T] = pick(T)
        BY <1>2, <3>2
      <4>2. g[T \ {pick(T)}] \in Int
        BY <4>1
      <4>3. g[T] = step(S)[first(S)[T]][g[T \ {first(S)[T]}]]
        <5> HIDE DEF first, step
        <5>1. QED
          BY <2>2, <3>2 DEF Follows
      <4>4. QED
        BY <3>2, <4>1, <4>2, <4>3
    <3>3. QED
      BY <3>1, <3>2
  <2>4. g = Fold(R, g)
    <3>1. g = [T \in SUBSET R |-> g[T]]
      OBVIOUS
    <3>2. QED
      BY <2>3, <3>1
  <2>5. Sum(R) = Fold(R, Sum(R))
    <3>1. \E h : h = Fold(R, h)
      BY <2>4
    <3> HIDE DEF Fold
    <3>2. QED
      BY <3>1
  <2> DEFINE h == Sum(R)
             Bad == {T \in SUBSET R : h[T] # g[T]}
  <2>6. /\ h = Fold(R, h)
        /\ \A T \in SUBSET R : h[T] = IF T = {} THEN 0 ELSE w[pick(T)] + h[T \ {pick(T)}]
    <3>1. h = Fold(R, h)
      BY <2>5
    <3> HIDE DEF h
    <3>2. QED
      BY <3>1
  <2> HIDE DEF h
  <2>7. ASSUME Bad # {}
        PROVE  FALSE
    <3>1. Bad \subseteq SUBSET R
      OBVIOUS
    <3>2. PICK T \in Bad : \A U \in SUBSET T : U # T => U \notin Bad
      <4> HIDE DEF Bad
      <4>1. QED
        BY <2>1, <2>7, <3>1, LeastSubset
    <3>3. T \in SUBSET R /\ h[T] # g[T] /\ T # {}
      BY <2>3, <2>6
    <3>4. pick(T) \in T
      BY <1>2, <3>3
    <3>5. T \ {pick(T)} \in SUBSET R /\ T \ {pick(T)} # T
      BY <3>3, <3>4
    <3>6. h[T \ {pick(T)}] = g[T \ {pick(T)}]
      BY <3>2, <3>5
    <3>7. QED
      BY <2>3, <2>6, <3>3, <3>6
  <2>8. h = [T \in SUBSET R |-> h[T]] /\ g = [T \in SUBSET R |-> g[T]]
    <3> HIDE DEF Bad
    <3>1. h = [T \in SUBSET R |->
                 IF T = {} THEN 0 ELSE w[pick(T)] + h[T \ {pick(T)}]]
      BY <2>6
    <3>2. QED
      BY <3>1
  <2>9. h = g
    BY <2>7, <2>8
  <2>10. QED
    BY <2>2, <2>5, <2>9 DEF h
<1>4. \A R \in SUBSET S : SumFunctionOnSet(w, R) \in Int
  <2> SUFFICES ASSUME NEW R \in SUBSET S
               PROVE  SumFunctionOnSet(w, R) \in Int
    OBVIOUS
  <2>1. Sum(R) \in [SUBSET R -> Int] /\ R \in SUBSET R
    BY <1>3
  <2> HIDE DEF Sum
  <2>2. QED
    BY <1>1, <2>1
<1>5. CASE S = {}
  <2>1. Sum(S)[S] = 0
    <3>1. Sum(S) = Fold(S, Sum(S))
      BY <1>3
    <3> DEFINE h == Sum(S)
    <3> HIDE DEF h
    <3>2. h = Fold(S, h)
      BY <3>1 DEF h
    <3>3. h[S] = 0
      BY <1>5, <3>2
    <3>4. QED
      BY <3>3 DEF h
  <2>2. QED
    BY <1>1, <1>4, <1>5, <2>1
<1>6. CASE S # {}
  <2> DEFINE x == pick(S)
             R == S \ {x}
  <2>1. x \in S /\ R \in SUBSET S /\ R \in SUBSET R
    BY <1>2, <1>6
  <2>2. /\ Follows(Sum(S), S, 0, first(S), step(S))
        /\ Follows(Sum(R), R, 0, first(S), step(S))
    BY <1>3, <2>1
  <2>3. TakesOut(first(S), S)
    BY <1>2 DEF TakesOut
  <2>4. Sum(R)[R] = Sum(S)[R]
    <3> DEFINE f == first(S)
               t == step(S)
               g == Sum(R)
               h == Sum(S)
    <3> HIDE DEF f, t, g, h, R
    <3>1. \A T \in SUBSET R : g[T] = h[T]
      BY <2>1, <2>2, <2>3, OneFollows DEF f, t, g, h
    <3>2. QED
      BY <2>1, <3>1 DEF g, h
  <2>5. Sum(S)[S] = w[x] + Sum(S)[R]
    <3> DEFINE h == Sum(S)
    <3>1. h = Fold(S, h)
      BY <1>3
    <3> HIDE DEF h
    <3>2. h[S] = w[x] + h[R]
      BY <1>6, <3>1
    <3>3. QED
      BY <3>2 DEF h
  <2> HIDE DEF Sum
  <2>6. SumFunctionOnSet(w, S) = w[x] + SumFunctionOnSet(w, R)
    BY <1>1, <2>4, <2>5
  <2>7. QED
    BY <1>4, <1>6, <2>1, <2>6
<1>7. QED
  BY <1>5, <1>6

\* Any element of the set can be taken out of its sum.
LEMMA SumTakeOut ==
  ASSUME NEW S, IsFiniteSet(S), NEW w, Summands(w, S), NEW x \in S
  PROVE  SumFunctionOnSet(w, S) = w[x] + SumFunctionOnSet(w, S \ {x})
<1> DEFINE s(T) == SumFunctionOnSet(w, T)
           Bad == {T \in SUBSET S : \E y \in T : s(T) # w[y] + s(T \ {y})}
<1>1. ASSUME NEW T \in SUBSET S
      PROVE  /\ s(T) \in Int
             /\ T # {} => \E y \in T : s(T) = w[y] + s(T \ {y})
  <2>1. IsFiniteSet(T) /\ Summands(w, T)
    BY FS_Subset DEF Summands
  <2>2. QED
    BY <2>1, SumIsFold
<1> HIDE DEF s
<1>2. ASSUME Bad # {}
      PROVE  FALSE
  <2>1. Bad \subseteq SUBSET S
    OBVIOUS
  <2>2. PICK T \in Bad : \A U \in SUBSET T : U # T => U \notin Bad
    <3> HIDE DEF Bad
    <3>1. QED
      BY <1>2, <2>1, LeastSubset
  <2>3. PICK y \in T : s(T) # w[y] + s(T \ {y})
    BY <2>2
  <2>4. PICK z \in T : s(T) = w[z] + s(T \ {z})
    BY <1>1, <2>2
  <2>5. y # z /\ T \in SUBSET S
    BY <2>3, <2>4
  <2> DEFINE U == T \ {y}
             V == T \ {z}
             R == T \ {y, z}
  <2>6. /\ U \in SUBSET T /\ U # T /\ z \in U /\ U \ {z} = R
        /\ V \in SUBSET T /\ V # T /\ y \in V /\ V \ {y} = R
        /\ U \in SUBSET S /\ V \in SUBSET S /\ R \in SUBSET S
    BY <2>5
  <2>7. s(U) = w[z] + s(U \ {z}) /\ s(V) = w[y] + s(V \ {y})
    BY <2>2, <2>6
  <2>8. /\ w[y] \in Int /\ w[z] \in Int
        /\ s(U) \in Int /\ s(V) \in Int /\ s(R) \in Int /\ s(T) \in Int
    BY <1>1, <2>5, <2>6 DEF Summands
  <2>9. s(U) = w[z] + s(R) /\ s(V) = w[y] + s(R)
    BY <2>6, <2>7
  <2>10. s(T) = w[z] + s(V) /\ s(T) # w[y] + s(U)
    BY <2>3, <2>4
  <2> HIDE DEF U, V, R
  <2>11. QED
    BY <2>8, <2>9, <2>10
<1>3. S \notin Bad
  BY <1>2
<1>4. QED
  BY <1>3 DEF s

\* A quantity that loses the summand of every element taken out is the sum.
LEMMA SumIsOnly ==
  ASSUME NEW S, IsFiniteSet(S), NEW w, Summands(w, S), NEW g, g[{}] = 0,
         \A T \in SUBSET S : \A x \in T : g[T] = w[x] + g[T \ {x}]
  PROVE  g[S] = SumFunctionOnSet(w, S)
<1> DEFINE s(T) == SumFunctionOnSet(w, T)
           Bad == {T \in SUBSET S : g[T] # s(T)}
<1>1. ASSUME NEW T \in SUBSET S
      PROVE  /\ T = {} => s(T) = 0
             /\ \A x \in T : s(T) = w[x] + s(T \ {x})
  <2>1. IsFiniteSet(T) /\ Summands(w, T)
    BY FS_Subset DEF Summands
  <2>2. QED
    BY <2>1, SumIsFold, SumTakeOut
<1> HIDE DEF s
<1>2. ASSUME Bad # {}
      PROVE  FALSE
  <2>1. Bad \subseteq SUBSET S
    OBVIOUS
  <2>2. PICK T \in Bad : \A U \in SUBSET T : U # T => U \notin Bad
    <3> HIDE DEF Bad
    <3>1. QED
      BY <1>2, <2>1, LeastSubset
  <2>3. T \in SUBSET S /\ g[T] # s(T)
    BY <2>2
  <2>4. PICK x \in T : TRUE
    BY <1>1, <2>3
  <2>5. g[T \ {x}] = s(T \ {x})
    BY <2>2, <2>3, <2>4
  <2>6. QED
    BY <1>1, <2>3, <2>4, <2>5
<1>3. S \notin Bad
  BY <1>2
<1>4. QED
  BY <1>3 DEF s

\* What is summed outside the set does not matter.
LEMMA SumCongruent ==
  ASSUME NEW S, IsFiniteSet(S), NEW w, Summands(w, S),
         NEW v, \A x \in S : v[x] = w[x]
  PROVE  SumFunctionOnSet(v, S) = SumFunctionOnSet(w, S)
<1> DEFINE g == [T \in SUBSET S |-> SumFunctionOnSet(v, T)]
<1>1. ASSUME NEW T \in SUBSET S
      PROVE  /\ T = {} => SumFunctionOnSet(v, T) = 0
             /\ \A x \in T : SumFunctionOnSet(v, T) = w[x] + SumFunctionOnSet(v, T \ {x})
  <2>1. IsFiniteSet(T) /\ Summands(v, T)
    BY FS_Subset DEF Summands
  <2>2. QED
    BY <2>1, SumIsFold, SumTakeOut
<1>2. g[{}] = 0 /\ \A T \in SUBSET S : \A x \in T : g[T] = w[x] + g[T \ {x}]
  BY <1>1
<1>3. g[S] = SumFunctionOnSet(w, S)
  <2> HIDE DEF g
  <2>1. QED
    BY <1>2, SumIsOnly
<1>4. QED
  BY <1>3

\* a and b differ by at most c, element by element.
Close(a, b, c, S) ==
  /\ Summands(a, S) /\ Summands(b, S) /\ Summands(c, S)
  /\ \A x \in S : a[x] - b[x] <= c[x] /\ b[x] - a[x] <= c[x]

\* Sums of summands that differ by at most c differ by at most the sum of c.
LEMMA SumsClose ==
  ASSUME NEW S, IsFiniteSet(S), NEW a, NEW b, NEW c, Close(a, b, c, S)
  PROVE  /\ SumFunctionOnSet(a, S) - SumFunctionOnSet(b, S) <= SumFunctionOnSet(c, S)
         /\ SumFunctionOnSet(b, S) - SumFunctionOnSet(a, S) <= SumFunctionOnSet(c, S)
<1> DEFINE A(T) == SumFunctionOnSet(a, T)
           B(T) == SumFunctionOnSet(b, T)
           C(T) == SumFunctionOnSet(c, T)
           Bad == {T \in SUBSET S : ~(A(T) - B(T) <= C(T) /\ B(T) - A(T) <= C(T))}
<1>1. ASSUME NEW T \in SUBSET S
      PROVE  /\ A(T) \in Int /\ B(T) \in Int /\ C(T) \in Int
             /\ T = {} => A(T) = 0 /\ B(T) = 0 /\ C(T) = 0
             /\ \A x \in T : /\ A(T) = a[x] + A(T \ {x})
                            /\ B(T) = b[x] + B(T \ {x})
                            /\ C(T) = c[x] + C(T \ {x})
  <2>1. IsFiniteSet(T) /\ Summands(a, T) /\ Summands(b, T) /\ Summands(c, T)
    BY FS_Subset DEF Summands, Close
  <2>2. QED
    BY <2>1, SumIsFold, SumTakeOut
<1> HIDE DEF A, B, C
<1>2. ASSUME Bad # {}
      PROVE  FALSE
  <2>1. Bad \subseteq SUBSET S
    OBVIOUS
  <2>2. PICK T \in Bad : \A U \in SUBSET T : U # T => U \notin Bad
    <3> HIDE DEF Bad
    <3>1. QED
      BY <1>2, <2>1, LeastSubset
  <2>3. T \in SUBSET S /\ ~(A(T) - B(T) <= C(T) /\ B(T) - A(T) <= C(T))
    BY <2>2
  <2>4. T # {}
    BY <1>1, <2>3
  <2>5. PICK x \in T : TRUE
    BY <2>4
  <2> DEFINE R == T \ {x}
  <2>6. R \in SUBSET S /\ A(R) - B(R) <= C(R) /\ B(R) - A(R) <= C(R)
    BY <2>2, <2>3, <2>5
  <2>7. A(T) = a[x] + A(R) /\ B(T) = b[x] + B(R) /\ C(T) = c[x] + C(R)
    BY <1>1, <2>3, <2>5
  <2>8. /\ A(R) \in Int /\ B(R) \in Int /\ C(R) \in Int
        /\ a[x] \in Int /\ b[x] \in Int /\ c[x] \in Int
        /\ a[x] - b[x] <= c[x] /\ b[x] - a[x] <= c[x]
    BY <1>1, <2>3, <2>5, <2>6 DEF Close, Summands
  <2> HIDE DEF R
  <2>9. QED
    BY <2>3, <2>6, <2>7, <2>8
<1>3. S \notin Bad
  BY <1>2
<1>4. QED
  BY <1>3 DEF A, B, C

\* A common factor goes outside the sum.
LEMMA SumScaled ==
  ASSUME NEW S, IsFiniteSet(S), NEW w, Summands(w, S), NEW k \in {1, -1},
         NEW v, \A x \in S : v[x] = k * w[x]
  PROVE  SumFunctionOnSet(v, S) = k * SumFunctionOnSet(w, S)
<1> DEFINE g == [T \in SUBSET S |-> k * SumFunctionOnSet(w, T)]
<1>1. ASSUME NEW T \in SUBSET S
      PROVE  /\ T = {} => k * SumFunctionOnSet(w, T) = 0
             /\ \A x \in T : k * SumFunctionOnSet(w, T) =
                               v[x] + k * SumFunctionOnSet(w, T \ {x})
  <2>1. \A R \in SUBSET T : IsFiniteSet(R) /\ Summands(w, R)
    BY FS_Subset DEF Summands
  <2>2. \A R \in SUBSET T : SumFunctionOnSet(w, R) \in Int
    BY <2>1, SumIsFold
  <2>3. T = {} => k * SumFunctionOnSet(w, T) = 0
    <3>1. T = {} => SumFunctionOnSet(w, T) = 0
      BY <2>1, SumIsFold
    <3>2. QED
      BY <3>1
  <2>4. ASSUME NEW x \in T
        PROVE  k * SumFunctionOnSet(w, T) = v[x] + k * SumFunctionOnSet(w, T \ {x})
    <3>1. SumFunctionOnSet(w, T) = w[x] + SumFunctionOnSet(w, T \ {x})
      BY <2>1, SumTakeOut
    <3>2. /\ w[x] \in Int /\ v[x] = k * w[x]
          /\ SumFunctionOnSet(w, T \ {x}) \in Int
      BY <2>2 DEF Summands
    <3> DEFINE a == w[x]
               b == SumFunctionOnSet(w, T \ {x})
    <3> HIDE DEF a, b
    <3>3. a \in Int /\ b \in Int => k * (a + b) = k * a + k * b
      OBVIOUS
    <3>4. QED
      BY <3>1, <3>2, <3>3 DEF a, b
  <2>5. QED
    BY <2>3, <2>4
<1>2. Summands(v, S)
  BY DEF Summands
<1>3. g[{}] = 0 /\ \A T \in SUBSET S : \A x \in T : g[T] = v[x] + g[T \ {x}]
  <2>1. g[{}] = 0
    BY <1>1
  <2>2. ASSUME NEW T \in SUBSET S, NEW x \in T
        PROVE  g[T] = v[x] + g[T \ {x}]
    BY <1>1
  <2>3. QED
    BY <2>1, <2>2
<1>4. g[S] = SumFunctionOnSet(v, S)
  <2> HIDE DEF g
  <2>1. QED
    BY <1>2, <1>3, SumIsOnly
<1>5. QED
  BY <1>4

\* The sum over two disjoint sets.
LEMMA SumOfTwo ==
  ASSUME NEW A, IsFiniteSet(A), NEW B, IsFiniteSet(B), A \cap B = {},
         NEW w, Summands(w, A \cup B)
  PROVE  SumFunctionOnSet(w, A \cup B) = SumFunctionOnSet(w, A) + SumFunctionOnSet(w, B)
<1> DEFINE s(T) == SumFunctionOnSet(w, T)
           g == [T \in SUBSET B |-> s(A \cup T) - s(A)]
<1>1. ASSUME NEW R \in SUBSET (A \cup B)
      PROVE  /\ s(R) \in Int
             /\ \A x \in R : s(R) = w[x] + s(R \ {x})
  <2>1. IsFiniteSet(R) /\ Summands(w, R)
    BY FS_Subset, FS_Union DEF Summands
  <2>2. QED
    BY <2>1, SumIsFold, SumTakeOut
<1>2. Summands(w, B)
  BY DEF Summands
<1> HIDE DEF s
<1>3. g[{}] = 0
  <2>1. A \cup {} = A /\ s(A) \in Int
    BY <1>1
  <2>2. QED
    BY <2>1
<1>4. ASSUME NEW T \in SUBSET B, NEW x \in T
      PROVE  g[T] = w[x] + g[T \ {x}]
  <2>1. /\ A \cup T \in SUBSET (A \cup B) /\ x \in A \cup T
        /\ (A \cup T) \ {x} = A \cup (T \ {x})
        /\ A \cup (T \ {x}) \in SUBSET (A \cup B)
        /\ A \in SUBSET (A \cup B) /\ T \ {x} \in SUBSET B
    OBVIOUS
  <2>2. s(A \cup T) = w[x] + s(A \cup (T \ {x}))
    BY <1>1, <2>1
  <2>3. s(A) \in Int /\ s(A \cup (T \ {x})) \in Int /\ w[x] \in Int
    BY <1>1, <1>2, <2>1 DEF Summands
  <2>4. g[T] = s(A \cup T) - s(A) /\ g[T \ {x}] = s(A \cup (T \ {x})) - s(A)
    BY <2>1
  <2> HIDE DEF g
  <2>5. QED
    BY <2>2, <2>3, <2>4
<1>5. g[B] = SumFunctionOnSet(w, B)
  <2> HIDE DEF g
  <2>1. QED
    BY <1>2, <1>3, <1>4, SumIsOnly
<1>6. s(A \cup B) \in Int /\ s(A) \in Int /\ s(A \cup B) - s(A) = SumFunctionOnSet(w, B)
  BY <1>1, <1>5
<1>7. QED
  BY <1>6 DEF s

Owned(F, own, l) == {f \in F : own[f] = l}

\* Summing group by group: the elements of F belong to the members of L, and
\* v has the sum of every group.
LEMMA SumByGroups ==
  ASSUME NEW F, IsFiniteSet(F), NEW w, Summands(w, F),
         NEW L, IsFiniteSet(L), NEW own \in [F -> L],
         NEW v,
         \A l \in L : v[l] = SumFunctionOnSet(w, Owned(F, own, l))
  PROVE  SumFunctionOnSet(w, F) = SumFunctionOnSet(v, L)
<1> DEFINE Of(M) == {f \in F : own[f] \in M}
           g == [M \in SUBSET L |-> SumFunctionOnSet(w, Of(M))]
<1>1. ASSUME NEW R \in SUBSET F
      PROVE  IsFiniteSet(R) /\ Summands(w, R) /\ SumFunctionOnSet(w, R) \in Int
  <2>1. IsFiniteSet(R) /\ Summands(w, R)
    BY FS_Subset DEF Summands
  <2>2. QED
    BY <2>1, SumIsFold
<1>2. Summands(v, L)
  <2>1. \A l \in L : Owned(F, own, l) \in SUBSET F
    BY DEF Owned
  <2>2. QED
    BY <1>1, <2>1 DEF Summands
<1>3. g[{}] = 0
  <2>1. Of({}) = {} /\ {} \in SUBSET F
    OBVIOUS
  <2>2. SumFunctionOnSet(w, {}) = 0
    BY <1>1, <2>1, SumIsFold
  <2>3. QED
    BY <2>1, <2>2
<1>4. ASSUME NEW M \in SUBSET L, NEW l \in M
      PROVE  g[M] = v[l] + g[M \ {l}]
  <2> DEFINE A == Of(M \ {l})
             B == Owned(F, own, l)
  <2>1. /\ Of(M) = A \cup B /\ A \cap B = {}
        /\ A \in SUBSET F /\ B \in SUBSET F /\ A \cup B \in SUBSET F
    BY DEF Owned
  <2>2. v[l] = SumFunctionOnSet(w, B)
    OBVIOUS
  <2>3. g[M] = SumFunctionOnSet(w, Of(M)) /\ g[M \ {l}] = SumFunctionOnSet(w, A)
    OBVIOUS
  <2> HIDE DEF A, B, Of, g
  <2>4. SumFunctionOnSet(w, A \cup B) = SumFunctionOnSet(w, A) + SumFunctionOnSet(w, B)
    BY <1>1, <2>1, SumOfTwo
  <2>5. SumFunctionOnSet(w, A) \in Int /\ SumFunctionOnSet(w, B) \in Int
    BY <1>1, <2>1
  <2>6. QED
    BY <2>1, <2>2, <2>3, <2>4, <2>5
<1>5. g[L] = SumFunctionOnSet(v, L)
  <2> HIDE DEF g
  <2>1. QED
    BY <1>2, <1>3, <1>4, SumIsOnly
<1>6. Of(L) = F
  OBVIOUS
<1>7. QED
  BY <1>5, <1>6

=============================================================================
