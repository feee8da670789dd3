---------------------------- MODULE ServeProofs -----------------------------
(***************************************************************************)
(* Proofs about Serve, for all archives with at most NumberMax segments,   *)
(* all names that are asked for, and all limits and bases.  The folds of   *)
(* the community modules are unrolled first; then come the lengths of the  *)
(* boxes, the writer, the names, the durations, and at last the steps.     *)
(***************************************************************************)
EXTENDS Serve, NaturalsInduction, WellFoundedInduction, TLAPS

\* Every nonempty set of natural numbers has a least element.
LEMMA LeastElement ==
  ASSUME NEW S \in SUBSET Nat, S # {}
  PROVE  \E x \in S : \A y \in S : x <= y
<1> DEFINE R == {ss \in Nat \X Nat : ss[1] < ss[2]}
<1>1. IsWellFoundedOn(R, Nat)
  BY NatLessThanWellFounded DEF OpToRel
<1>2. ASSUME NEW x \in S, NEW y \in S
      PROVE  <<y, x>> \in R <=> y < x
  OBVIOUS
<1> HIDE DEF R
<1>3. PICK x \in S : \A y \in S : ~(<<y, x>> \in R)
  BY <1>1, WFMin
<1>4. \A y \in S : ~(y < x)
  BY <1>2, <1>3
<1> QED
  BY <1>4

\* A set of natural numbers without 0, that has no successor of a number outside of it, is
\* empty: what induction is here.
LEMMA NoneIn ==
  ASSUME NEW S \in SUBSET Nat, 0 \notin S, \A x \in Nat : x \notin S => x + 1 \notin S
  PROVE  S = {}
<1> SUFFICES ASSUME S # {} PROVE FALSE
  OBVIOUS
<1>1. PICK x \in S : \A y \in S : x <= y
  BY LeastElement
<1>2. x \in Nat /\ x # 0 /\ x - 1 \in Nat /\ (x - 1) + 1 = x
  BY <1>1
<1>3. x - 1 \notin S
  BY <1>1, <1>2
<1> QED
  BY <1>1, <1>2, <1>3

(***************************************************************************)
(* FoldLeft is a recursive function over sets of indexes that takes the    *)
(* largest first.  One by one: u[i] is the fold of the first i elements.   *)
(***************************************************************************)
LargestIs(d, x) == x \in d /\ \A y \in d : x >= y

\* Max is the largest element, where there is one.
LEMMA MaxIs ==
  ASSUME NEW d \in SUBSET Int, NEW x, LargestIs(d, x)
  PROVE  Max(d) = x
<1>1. x \in d /\ \A y \in d : x >= y
  BY DEF LargestIs
<1>2. \A z \in d : (\A y \in d : z >= y) => z = x
  BY <1>1
<1> DEFINE m == CHOOSE z \in d : \A y \in d : z >= y
<1>3. m \in d /\ \A y \in d : m >= y
  BY <1>1
<1>4. m = x
  <2> HIDE DEF m
  <2> QED
    BY <1>2, <1>3
<1> QED
  BY <1>4 DEF Max

\* The largest of the numbers up to k + 1, and what is left without it.
LEMMA MaxOfSubset ==
  ASSUME NEW k \in Nat, NEW d \in SUBSET (1 .. k + 1)
  PROVE  /\ k + 1 \in d => Max(d) = k + 1 /\ d \ {k + 1} \in SUBSET (1 .. k)
         /\ k + 1 \notin d => d \in SUBSET (1 .. k)
<1>1. d \in SUBSET Int
  OBVIOUS
<1>2. ASSUME k + 1 \in d PROVE LargestIs(d, k + 1)
  BY <1>2 DEF LargestIs
<1>3. k + 1 \in d => Max(d) = k + 1
  BY <1>1, <1>2, MaxIs
<1> QED
  BY <1>3

\* The same of all of the numbers up to k + 1.
LEMMA MaxOfRange ==
  ASSUME NEW k \in Nat
  PROVE  /\ Max(1 .. k + 1) = k + 1 /\ 1 .. k + 1 # {}
         /\ (1 .. k + 1) \ {k + 1} = 1 .. k
<1>1. LargestIs(1 .. k + 1, k + 1) /\ 1 .. k + 1 \in SUBSET Int
  BY DEF LargestIs
<1>2. Max(1 .. k + 1) = k + 1
  BY <1>1, MaxIs
<1> QED
  BY <1>2

\* Byte strings, one after the other.
CatFold(g, s, d) == g = [e \in SUBSET d |-> IF e = {} THEN Empty
                                         ELSE Cat(g[e \ {Max(e)}], s[Max(e)])]
CatUpTo(u, s, n) == u[0] = Empty /\ \A i \in 1 .. n : u[i] = Cat(u[i - 1], s[i])

\* Flatten is the value of a recursive function on sets of positions.
LEMMA CatIs == ASSUME NEW s PROVE Flatten(s) = (CHOOSE g : CatFold(g, s, DOMAIN s))[DOMAIN s]
  BY DEF Flatten, FoldLeft, MapThenFoldSet, CatFold

\* That function exists.
LEMMA CatExists ==
  ASSUME NEW s, NEW n \in Nat
  PROVE  \E g : CatFold(g, s, 1 .. n)
<1> DEFINE S == {k \in Nat : ~\E g : CatFold(g, s, 1 .. k)}
<1>1. 0 \notin S
  <2> DEFINE g == [e \in SUBSET (1 .. 0) |-> Empty]
  <2>1. g = [e \in SUBSET (1 .. 0) |-> IF e = {} THEN Empty ELSE Cat(g[e \ {Max(e)}], s[Max(e)])]
    <3>1. \A e \in SUBSET (1 .. 0) : e = {}
      OBVIOUS
    <3> QED
      BY <3>1
  <2>2. CatFold(g, s, 1 .. 0)
    <3> HIDE DEF g
    <3> QED
      BY <2>1 DEF CatFold
  <2> QED
    BY <2>2
<1>2. ASSUME NEW k \in Nat, k \notin S PROVE k + 1 \notin S
  <2>1. PICK g : CatFold(g, s, 1 .. k)
    BY <1>2
  <2> DEFINE h == [e \in SUBSET (1 .. k + 1) |->
                     IF k + 1 \in e THEN Cat(g[e \ {k + 1}], s[k + 1]) ELSE g[e]]
  <2>2. \A e \in SUBSET (1 .. k) : e \in SUBSET (1 .. k + 1) /\ k + 1 \notin e
    OBVIOUS
  <2>3. \A e \in SUBSET (1 .. k) : h[e] = g[e]
    BY <2>2
  <2>4. ASSUME NEW e \in SUBSET (1 .. k + 1)
        PROVE  h[e] = IF e = {} THEN Empty ELSE Cat(h[e \ {Max(e)}], s[Max(e)])
    <3>1. CASE k + 1 \in e
      <4>1. Max(e) = k + 1 /\ e \ {k + 1} \in SUBSET (1 .. k) /\ e # {}
        BY <3>1, MaxOfSubset
      <4>2. h[e] = Cat(g[e \ {k + 1}], s[k + 1])
        BY <3>1
      <4>3. h[e \ {k + 1}] = g[e \ {k + 1}]
        BY <2>3, <4>1
      <4> HIDE DEF h
      <4> QED
        BY <4>1, <4>2, <4>3
    <3>2. CASE k + 1 \notin e
      <4>1. e \in SUBSET (1 .. k)
        BY <3>2, MaxOfSubset
      <4>2. h[e] = g[e]
        BY <2>3, <4>1
      <4>3. g[e] = IF e = {} THEN Empty ELSE Cat(g[e \ {Max(e)}], s[Max(e)])
        BY <2>1, <4>1 DEF CatFold
      <4>4. e \ {Max(e)} \in SUBSET (1 .. k)
        BY <4>1
      <4>5. h[e \ {Max(e)}] = g[e \ {Max(e)}]
        BY <2>3, <4>4
      <4> HIDE DEF h
      <4> QED
        BY <4>2, <4>3, <4>5
    <3> QED
      BY <3>1, <3>2
  <2>5. h = [e \in SUBSET (1 .. k + 1) |-> h[e]]
    OBVIOUS
  <2>6. CatFold(h, s, 1 .. k + 1)
    <3> HIDE DEF h
    <3>1. h = [e \in SUBSET (1 .. k + 1) |-> IF e = {} THEN Empty ELSE Cat(h[e \ {Max(e)}], s[Max(e)])]
      BY <2>4, <2>5
    <3> QED
      BY <3>1 DEF CatFold
  <2> QED
    BY <2>6
<1>3. S \in SUBSET Nat
  OBVIOUS
<1>4. S = {}
  <2> HIDE DEF S
  <2> QED
    BY <1>1, <1>2, <1>3, NoneIn
<1> QED
  BY <1>4

\* Flatten puts one part after the other, from the first to the last.
LEMMA CatSteps ==
  ASSUME NEW s, NEW n \in Nat, DOMAIN s = 1 .. n
  PROVE  \E u : CatUpTo(u, s, n) /\ Flatten(s) = u[n]
<1> DEFINE g == CHOOSE f : CatFold(f, s, 1 .. n)
<1>1. CatFold(g, s, 1 .. n)
  BY CatExists
<1>2. Flatten(s) = g[1 .. n]
  BY CatIs
<1> HIDE DEF g
<1> DEFINE u == [i \in 0 .. n |-> g[1 .. i]]
<1>3. \A e \in SUBSET (1 .. n) : g[e] = IF e = {} THEN Empty ELSE Cat(g[e \ {Max(e)}], s[Max(e)])
  BY <1>1 DEF CatFold
<1>4. u[0] = Empty
  <2>1. 1 .. 0 = {} /\ u[0] = g[1 .. 0] /\ {} \in SUBSET (1 .. n)
    OBVIOUS
  <2> QED
    BY <1>3, <2>1
<1>5. ASSUME NEW i \in 1 .. n PROVE u[i] = Cat(u[i - 1], s[i])
  <2>1. i - 1 \in Nat /\ (i - 1) + 1 = i /\ i - 1 \in 0 .. n /\ i \in 0 .. n /\ 1 .. i \in SUBSET (1 .. n)
    OBVIOUS
  <2>2. Max(1 .. i) = i /\ 1 .. i # {} /\ (1 .. i) \ {i} = 1 .. i - 1
    BY <2>1, MaxOfRange
  <2>3. u[i] = g[1 .. i] /\ u[i - 1] = g[1 .. i - 1]
    BY <2>1
  <2> HIDE DEF u
  <2> QED
    BY <1>3, <2>1, <2>2, <2>3
<1>6. u[n] = g[1 .. n]
  OBVIOUS
<1>7. CatUpTo(u, s, n)
  <2> HIDE DEF u
  <2> QED
    BY <1>4, <1>5 DEF CatUpTo
<1> QED
  BY <1>2, <1>6, <1>7

Total(s) == FoldLeft(+, 0, s)

\* Numbers, added up.
TotalFold(g, s, d) == g = [e \in SUBSET d |-> IF e = {} THEN 0
                                         ELSE g[e \ {Max(e)}] + s[Max(e)]]
TotalUpTo(u, s, n) == u[0] = 0 /\ \A i \in 1 .. n : u[i] = u[i - 1] + s[i]

\* The same for a sum: it is the value of a recursive function,
LEMMA TotalIs == ASSUME NEW s PROVE Total(s) = (CHOOSE g : TotalFold(g, s, DOMAIN s))[DOMAIN s]
  BY DEF Total, FoldLeft, MapThenFoldSet, TotalFold

\* which exists,
LEMMA TotalExists ==
  ASSUME NEW s, NEW n \in Nat
  PROVE  \E g : TotalFold(g, s, 1 .. n)
<1> DEFINE S == {k \in Nat : ~\E g : TotalFold(g, s, 1 .. k)}
<1>1. 0 \notin S
  <2> DEFINE g == [e \in SUBSET (1 .. 0) |-> 0]
  <2>1. g = [e \in SUBSET (1 .. 0) |-> IF e = {} THEN 0 ELSE g[e \ {Max(e)}] + s[Max(e)]]
    <3>1. \A e \in SUBSET (1 .. 0) : e = {}
      OBVIOUS
    <3> QED
      BY <3>1
  <2>2. TotalFold(g, s, 1 .. 0)
    <3> HIDE DEF g
    <3> QED
      BY <2>1 DEF TotalFold
  <2> QED
    BY <2>2
<1>2. ASSUME NEW k \in Nat, k \notin S PROVE k + 1 \notin S
  <2>1. PICK g : TotalFold(g, s, 1 .. k)
    BY <1>2
  <2> DEFINE h == [e \in SUBSET (1 .. k + 1) |->
                     IF k + 1 \in e THEN g[e \ {k + 1}] + s[k + 1] ELSE g[e]]
  <2>2. \A e \in SUBSET (1 .. k) : e \in SUBSET (1 .. k + 1) /\ k + 1 \notin e
    OBVIOUS
  <2>3. \A e \in SUBSET (1 .. k) : h[e] = g[e]
    BY <2>2
  <2>4. ASSUME NEW e \in SUBSET (1 .. k + 1)
        PROVE  h[e] = IF e = {} THEN 0 ELSE h[e \ {Max(e)}] + s[Max(e)]
    <3>1. CASE k + 1 \in e
      <4>1. Max(e) = k + 1 /\ e \ {k + 1} \in SUBSET (1 .. k) /\ e # {}
        BY <3>1, MaxOfSubset
      <4>2. h[e] = g[e \ {k + 1}] + s[k + 1]
        BY <3>1
      <4>3. h[e \ {k + 1}] = g[e \ {k + 1}]
        BY <2>3, <4>1
      <4> HIDE DEF h
      <4> QED
        BY <4>1, <4>2, <4>3
    <3>2. CASE k + 1 \notin e
      <4>1. e \in SUBSET (1 .. k)
        BY <3>2, MaxOfSubset
      <4>2. h[e] = g[e]
        BY <2>3, <4>1
      <4>3. g[e] = IF e = {} THEN 0 ELSE g[e \ {Max(e)}] + s[Max(e)]
        BY <2>1, <4>1 DEF TotalFold
      <4>4. e \ {Max(e)} \in SUBSET (1 .. k)
        BY <4>1
      <4>5. h[e \ {Max(e)}] = g[e \ {Max(e)}]
        BY <2>3, <4>4
      <4> HIDE DEF h
      <4> QED
        BY <4>2, <4>3, <4>5
    <3> QED
      BY <3>1, <3>2
  <2>5. h = [e \in SUBSET (1 .. k + 1) |-> h[e]]
    OBVIOUS
  <2>6. TotalFold(h, s, 1 .. k + 1)
    <3> HIDE DEF h
    <3>1. h = [e \in SUBSET (1 .. k + 1) |-> IF e = {} THEN 0 ELSE h[e \ {Max(e)}] + s[Max(e)]]
      BY <2>4, <2>5
    <3> QED
      BY <3>1 DEF TotalFold
  <2> QED
    BY <2>6
<1>3. S \in SUBSET Nat
  OBVIOUS
<1>4. S = {}
  <2> HIDE DEF S
  <2> QED
    BY <1>1, <1>2, <1>3, NoneIn
<1> QED
  BY <1>4

\* and adds one number after the other.
LEMMA TotalSteps ==
  ASSUME NEW s, NEW n \in Nat, DOMAIN s = 1 .. n
  PROVE  \E u : TotalUpTo(u, s, n) /\ Total(s) = u[n]
<1> DEFINE g == CHOOSE f : TotalFold(f, s, 1 .. n)
<1>1. TotalFold(g, s, 1 .. n)
  BY TotalExists
<1>2. Total(s) = g[1 .. n]
  BY TotalIs
<1> HIDE DEF g
<1> DEFINE u == [i \in 0 .. n |-> g[1 .. i]]
<1>3. \A e \in SUBSET (1 .. n) : g[e] = IF e = {} THEN 0 ELSE g[e \ {Max(e)}] + s[Max(e)]
  BY <1>1 DEF TotalFold
<1>4. u[0] = 0
  <2>1. 1 .. 0 = {} /\ u[0] = g[1 .. 0] /\ {} \in SUBSET (1 .. n)
    OBVIOUS
  <2> QED
    BY <1>3, <2>1
<1>5. ASSUME NEW i \in 1 .. n PROVE u[i] = u[i - 1] + s[i]
  <2>1. i - 1 \in Nat /\ (i - 1) + 1 = i /\ i - 1 \in 0 .. n /\ i \in 0 .. n /\ 1 .. i \in SUBSET (1 .. n)
    OBVIOUS
  <2>2. Max(1 .. i) = i /\ 1 .. i # {} /\ (1 .. i) \ {i} = 1 .. i - 1
    BY <2>1, MaxOfRange
  <2>3. u[i] = g[1 .. i] /\ u[i - 1] = g[1 .. i - 1]
    BY <2>1
  <2> HIDE DEF u
  <2> QED
    BY <1>3, <2>1, <2>2, <2>3
<1>6. u[n] = g[1 .. n]
  OBVIOUS
<1>7. TotalUpTo(u, s, n)
  <2> HIDE DEF u
  <2> QED
    BY <1>4, <1>5 DEF TotalUpTo
<1> QED
  BY <1>2, <1>6, <1>7

\* Digits.
ValueFold(g, s, d) == g = [e \in SUBSET d |-> IF e = {} THEN 0
                                         ELSE Base * g[e \ {Max(e)}] + s[Max(e)]]
ValueUpTo(u, s, n) == u[0] = 0 /\ \A i \in 1 .. n : u[i] = Base * u[i - 1] + s[i]

\* The same for the digits of a name: ValueOf is the value of a recursive function,
LEMMA ValueIs == ASSUME NEW s PROVE ValueOf(s) = (CHOOSE g : ValueFold(g, s, DOMAIN s))[DOMAIN s]
  BY DEF ValueOf, FoldLeft, MapThenFoldSet, ValueFold

\* which exists,
LEMMA ValueExists ==
  ASSUME NEW s, NEW n \in Nat
  PROVE  \E g : ValueFold(g, s, 1 .. n)
<1> DEFINE S == {k \in Nat : ~\E g : ValueFold(g, s, 1 .. k)}
<1>1. 0 \notin S
  <2> DEFINE g == [e \in SUBSET (1 .. 0) |-> 0]
  <2>1. g = [e \in SUBSET (1 .. 0) |-> IF e = {} THEN 0 ELSE Base * g[e \ {Max(e)}] + s[Max(e)]]
    <3>1. \A e \in SUBSET (1 .. 0) : e = {}
      OBVIOUS
    <3> QED
      BY <3>1
  <2>2. ValueFold(g, s, 1 .. 0)
    <3> HIDE DEF g
    <3> QED
      BY <2>1 DEF ValueFold
  <2> QED
    BY <2>2
<1>2. ASSUME NEW k \in Nat, k \notin S PROVE k + 1 \notin S
  <2>1. PICK g : ValueFold(g, s, 1 .. k)
    BY <1>2
  <2> DEFINE h == [e \in SUBSET (1 .. k + 1) |->
                     IF k + 1 \in e THEN Base * g[e \ {k + 1}] + s[k + 1] ELSE g[e]]
  <2>2. \A e \in SUBSET (1 .. k) : e \in SUBSET (1 .. k + 1) /\ k + 1 \notin e
    OBVIOUS
  <2>3. \A e \in SUBSET (1 .. k) : h[e] = g[e]
    BY <2>2
  <2>4. ASSUME NEW e \in SUBSET (1 .. k + 1)
        PROVE  h[e] = IF e = {} THEN 0 ELSE Base * h[e \ {Max(e)}] + s[Max(e)]
    <3>1. CASE k + 1 \in e
      <4>1. Max(e) = k + 1 /\ e \ {k + 1} \in SUBSET (1 .. k) /\ e # {}
        BY <3>1, MaxOfSubset
      <4>2. h[e] = Base * g[e \ {k + 1}] + s[k + 1]
        BY <3>1
      <4>3. h[e \ {k + 1}] = g[e \ {k + 1}]
        BY <2>3, <4>1
      <4> HIDE DEF h
      <4> QED
        BY <4>1, <4>2, <4>3
    <3>2. CASE k + 1 \notin e
      <4>1. e \in SUBSET (1 .. k)
        BY <3>2, MaxOfSubset
      <4>2. h[e] = g[e]
        BY <2>3, <4>1
      <4>3. g[e] = IF e = {} THEN 0 ELSE Base * g[e \ {Max(e)}] + s[Max(e)]
        BY <2>1, <4>1 DEF ValueFold
      <4>4. e \ {Max(e)} \in SUBSET (1 .. k)
        BY <4>1
      <4>5. h[e \ {Max(e)}] = g[e \ {Max(e)}]
        BY <2>3, <4>4
      <4> HIDE DEF h
      <4> QED
        BY <4>2, <4>3, <4>5
    <3> QED
      BY <3>1, <3>2
  <2>5. h = [e \in SUBSET (1 .. k + 1) |-> h[e]]
    OBVIOUS
  <2>6. ValueFold(h, s, 1 .. k + 1)
    <3> HIDE DEF h
    <3>1. h = [e \in SUBSET (1 .. k + 1) |-> IF e = {} THEN 0 ELSE Base * h[e \ {Max(e)}] + s[Max(e)]]
      BY <2>4, <2>5
    <3> QED
      BY <3>1 DEF ValueFold
  <2> QED
    BY <2>6
<1>3. S \in SUBSET Nat
  OBVIOUS
<1>4. S = {}
  <2> HIDE DEF S
  <2> QED
    BY <1>1, <1>2, <1>3, NoneIn
<1> QED
  BY <1>4

\* and takes one digit after the other.
LEMMA ValueSteps ==
  ASSUME NEW s, NEW n \in Nat, DOMAIN s = 1 .. n
  PROVE  \E u : ValueUpTo(u, s, n) /\ ValueOf(s) = u[n]
<1> DEFINE g == CHOOSE f : ValueFold(f, s, 1 .. n)
<1>1. ValueFold(g, s, 1 .. n)
  BY ValueExists
<1>2. ValueOf(s) = g[1 .. n]
  BY ValueIs
<1> HIDE DEF g
<1> DEFINE u == [i \in 0 .. n |-> g[1 .. i]]
<1>3. \A e \in SUBSET (1 .. n) : g[e] = IF e = {} THEN 0 ELSE Base * g[e \ {Max(e)}] + s[Max(e)]
  BY <1>1 DEF ValueFold
<1>4. u[0] = 0
  <2>1. 1 .. 0 = {} /\ u[0] = g[1 .. 0] /\ {} \in SUBSET (1 .. n)
    OBVIOUS
  <2> QED
    BY <1>3, <2>1
<1>5. ASSUME NEW i \in 1 .. n PROVE u[i] = Base * u[i - 1] + s[i]
  <2>1. i - 1 \in Nat /\ (i - 1) + 1 = i /\ i - 1 \in 0 .. n /\ i \in 0 .. n /\ 1 .. i \in SUBSET (1 .. n)
    OBVIOUS
  <2>2. Max(1 .. i) = i /\ 1 .. i # {} /\ (1 .. i) \ {i} = 1 .. i - 1
    BY <2>1, MaxOfRange
  <2>3. u[i] = g[1 .. i] /\ u[i - 1] = g[1 .. i - 1]
    BY <2>1
  <2> HIDE DEF u
  <2> QED
    BY <1>3, <2>1, <2>2, <2>3
<1>6. u[n] = g[1 .. n]
  OBVIOUS
<1>7. ValueUpTo(u, s, n)
  <2> HIDE DEF u
  <2> QED
    BY <1>4, <1>5 DEF ValueUpTo
<1> QED
  BY <1>2, <1>6, <1>7

-----------------------------------------------------------------------------
Sample == [offset : Nat, size : Nat, delta : Nat, cts : Int]

\* Sums of natural numbers are natural numbers.
LEMMA TotalNat ==
  ASSUME NEW s, NEW n \in Nat, NEW u, TotalUpTo(u, s, n), \A i \in 1 .. n : s[i] \in Nat
  PROVE  \A i \in 0 .. n : u[i] \in Nat
<1> DEFINE S == {k \in Nat : k <= n /\ u[k] \notin Nat}
<1>1. 0 \notin S
  BY DEF TotalUpTo
<1>2. ASSUME NEW k \in Nat, k \notin S PROVE k + 1 \notin S
  <2> SUFFICES ASSUME k + 1 <= n PROVE u[k + 1] \in Nat
    OBVIOUS
  <2>1. k + 1 \in 1 .. n /\ (k + 1) - 1 = k
    OBVIOUS
  <2>2. u[k + 1] = u[k] + s[k + 1]
    BY <2>1 DEF TotalUpTo
  <2>3. u[k] \in Nat /\ s[k + 1] \in Nat
    BY <1>2, <2>1
  <2> QED
    BY <2>2, <2>3
<1>3. S = {}
  <2>1. S \in SUBSET Nat
    OBVIOUS
  <2> HIDE DEF S
  <2> QED
    BY <1>1, <1>2, <2>1, NoneIn
<1> QED
  BY <1>3

\* sum_sizes, one sample at a time.
SizesUpTo(u, x, n) ==
  u[0] = 0 /\ \A i \in 1 .. n : u[i] = u[i - 1] + x[i].size /\ u[i - 1] \in Nat /\ u[i] \in Nat

\* sum_sizes adds the size of one sample after the other,
LEMMA SizesSteps ==
  ASSUME NEW x \in Seq(Sample)
  PROVE  \E u : SizesUpTo(u, x, Len(x)) /\ SumSizes(x) = u[Len(x)]
<1> DEFINE s == [i \in DOMAIN x |-> x[i].size]
           n == Len(x)
<1>1. n \in Nat /\ DOMAIN s = 1 .. n /\ \A i \in 1 .. n : s[i] = x[i].size
  OBVIOUS
<1>2. \A i \in 1 .. n : s[i] \in Nat
  <2>1. \A i \in 1 .. n : x[i] \in Sample
    OBVIOUS
  <2>2. \A a \in Sample : a.size \in Nat
    BY DEF Sample
  <2> QED
    BY <1>1, <2>1, <2>2
<1>3. SumSizes(x) = Total(s)
  BY DEF SumSizes, Total
<1> HIDE DEF s
<1>4. PICK u : TotalUpTo(u, s, n) /\ Total(s) = u[n]
  BY <1>1, TotalSteps
<1>5. \A i \in 0 .. n : u[i] \in Nat
  BY <1>1, <1>2, <1>4, TotalNat
<1>6. \A i \in 1 .. n : i \in 0 .. n /\ i - 1 \in 0 .. n
  BY <1>1
<1>7. SizesUpTo(u, x, n)
  BY <1>1, <1>4, <1>5, <1>6 DEF SizesUpTo, TotalUpTo
<1> QED
  BY <1>3, <1>4, <1>7

\* which is a natural number,
LEMMA SumSizesNat ==
  ASSUME NEW x \in Seq(Sample)
  PROVE  SumSizes(x) \in Nat
<1>1. PICK u : SizesUpTo(u, x, Len(x)) /\ SumSizes(x) = u[Len(x)]
  BY SizesSteps
<1>2. Len(x) \in Nat /\ (Len(x) = 0 \/ Len(x) \in 1 .. Len(x))
  OBVIOUS
<1> QED
  BY <1>1, <1>2 DEF SizesUpTo

\* and 0 without samples.
LEMMA SumSizesEmpty == SumSizes(<<>>) = 0
<1>1. <<>> \in Seq(Sample) /\ Len(<<>>) = 0
  OBVIOUS
<1>2. PICK u : SizesUpTo(u, <<>>, 0) /\ SumSizes(<<>>) = u[0]
  BY <1>1, SizesSteps
<1> QED
  BY <1>2 DEF SizesUpTo

\* The first sample, and the others.
LEMMA SumSizesTail ==
  ASSUME NEW x \in Seq(Sample), x # <<>>
  PROVE  /\ Tail(x) \in Seq(Sample) /\ Head(x) \in Sample
         /\ SumSizes(x) = Head(x).size + SumSizes(Tail(x))
<1> DEFINE t == Tail(x)
           n == Len(t)
<1>1. t \in Seq(Sample) /\ n \in Nat /\ Len(x) = n + 1 /\ Head(x) = x[1] /\ x[1] \in Sample
  OBVIOUS
<1>2. \A i \in 1 .. n : t[i] = x[i + 1]
  OBVIOUS
<1> HIDE DEF t, n
<1>3. PICK u : SizesUpTo(u, x, n + 1) /\ SumSizes(x) = u[n + 1]
  BY <1>1, SizesSteps
<1>4. PICK v : SizesUpTo(v, t, n) /\ SumSizes(t) = v[n]
  BY <1>1, SizesSteps DEF n
<1> DEFINE S == {k \in Nat : k <= n /\ u[k + 1] # x[1].size + v[k]}
<1>5. 0 \notin S
  <2>1. 1 \in 1 .. n + 1 /\ 1 - 1 = 0 /\ 0 + 1 = 1
    BY <1>1
  <2>2. u[1] = u[0] + x[1].size /\ u[0] = 0 /\ v[0] = 0
    BY <1>3, <1>4, <2>1 DEF SizesUpTo
  <2>3. x[1].size \in Nat
    BY <1>1 DEF Sample
  <2> QED
    BY <2>1, <2>2, <2>3
<1>6. ASSUME NEW k \in Nat, k \notin S PROVE k + 1 \notin S
  <2> SUFFICES ASSUME k + 1 <= n PROVE u[(k + 1) + 1] = x[1].size + v[k + 1]
    OBVIOUS
  <2>1. k + 1 \in 1 .. n /\ (k + 1) + 1 \in 1 .. n + 1 /\ ((k + 1) + 1) - 1 = k + 1 /\ (k + 1) - 1 = k /\ k <= n
    BY <1>1
  <2>2. u[(k + 1) + 1] = u[k + 1] + x[(k + 1) + 1].size
    BY <1>3, <2>1 DEF SizesUpTo
  <2>3. v[k + 1] = v[k] + t[k + 1].size /\ v[k] \in Nat
    BY <1>4, <2>1 DEF SizesUpTo
  <2>4. t[k + 1] = x[(k + 1) + 1]
    BY <1>2, <2>1
  <2>5. u[k + 1] = x[1].size + v[k]
    BY <1>6, <2>1
  <2>6. x[1].size \in Nat /\ t[k + 1].size \in Nat
    <3>1. t[k + 1] \in Sample
      BY <1>1, <2>1 DEF n
    <3> QED
      BY <1>1, <3>1 DEF Sample
  <2> QED
    BY <2>2, <2>3, <2>4, <2>5, <2>6
<1>7. S = {}
  <2>1. S \in SUBSET Nat
    OBVIOUS
  <2> HIDE DEF S
  <2> QED
    BY <1>5, <1>6, <2>1, NoneIn
<1>8. u[n + 1] = x[1].size + v[n]
  BY <1>1, <1>7
<1> QED
  BY <1>1, <1>3, <1>4, <1>8 DEF t

\* Samples, and more samples.
LEMMA SumSizesCat ==
  ASSUME NEW x \in Seq(Sample), NEW y \in Seq(Sample)
  PROVE  SumSizes(x \o y) = SumSizes(x) + SumSizes(y)
<1> DEFINE z == x \o y
           m == Len(x)
           n == Len(y)
<1>1. z \in Seq(Sample) /\ Len(z) = m + n /\ m \in Nat /\ n \in Nat
  OBVIOUS
<1>2. (\A i \in 1 .. m : z[i] = x[i]) /\ \A i \in 1 .. n : z[m + i] = y[i]
  OBVIOUS
<1>3. PICK u : SizesUpTo(u, x, m) /\ SumSizes(x) = u[m]
  BY SizesSteps
<1>4. PICK v : SizesUpTo(v, y, n) /\ SumSizes(y) = v[n]
  BY SizesSteps
<1> HIDE DEF z, m, n
<1>5. PICK w : SizesUpTo(w, z, m + n) /\ SumSizes(z) = w[m + n]
  BY <1>1, SizesSteps
<1> DEFINE S == {k \in Nat : k <= m /\ w[k] # u[k]}
           T == {k \in Nat : k <= n /\ w[m + k] # u[m] + v[k]}
<1>6. S = {}
  <2>1. 0 \notin S
    BY <1>3, <1>5 DEF SizesUpTo
  <2>2. ASSUME NEW k \in Nat, k \notin S PROVE k + 1 \notin S
    <3> SUFFICES ASSUME k + 1 <= m PROVE w[k + 1] = u[k + 1]
      OBVIOUS
    <3>1. k + 1 \in 1 .. m /\ k + 1 \in 1 .. m + n /\ (k + 1) - 1 = k /\ k <= m
      BY <1>1
    <3> QED
      BY <1>2, <1>3, <1>5, <2>2, <3>1, SMTT(30) DEF SizesUpTo
  <2>3. S \in SUBSET Nat
    OBVIOUS
  <2> HIDE DEF S
  <2> QED
    BY <2>1, <2>2, <2>3, NoneIn
<1>7. w[m] = u[m] /\ u[m] \in Nat
  <2>1. w[m] = u[m]
    BY <1>1, <1>6
  <2>2. m = 0 \/ m \in 1 .. m
    BY <1>1
  <2> QED
    BY <1>3, <2>1, <2>2 DEF SizesUpTo
<1>8. T = {}
  <2>1. 0 \notin T
    BY <1>1, <1>4, <1>7 DEF SizesUpTo
  <2>2. ASSUME NEW k \in Nat, k \notin T PROVE k + 1 \notin T
    <3> SUFFICES ASSUME k + 1 <= n PROVE w[m + (k + 1)] = u[m] + v[k + 1]
      OBVIOUS
    <3>1. /\ k + 1 \in 1 .. n /\ m + (k + 1) \in 1 .. m + n /\ (m + (k + 1)) - 1 = m + k
          /\ (k + 1) - 1 = k /\ k <= n
      BY <1>1
    <3>2. w[m + (k + 1)] = w[m + k] + z[m + (k + 1)].size
      BY <1>5, <3>1 DEF SizesUpTo
    <3>3. v[k + 1] = v[k] + y[k + 1].size /\ v[k] \in Nat /\ v[k + 1] \in Nat
      BY <1>4, <3>1 DEF SizesUpTo
    <3>4. z[m + (k + 1)] = y[k + 1]
      BY <1>2, <3>1
    <3>5. w[m + k] = u[m] + v[k]
      BY <2>2, <3>1
    <3>6. y[k + 1].size \in Nat
      <4>1. y[k + 1] \in Sample
        BY <3>1 DEF n
      <4> QED
        BY <4>1 DEF Sample
    <3> QED
      BY <1>7, <3>2, <3>3, <3>4, <3>5, <3>6
  <2>3. T \in SUBSET Nat
    OBVIOUS
  <2> HIDE DEF T
  <2> QED
    BY <2>1, <2>2, <2>3, NoneIn
<1>9. w[m + n] = u[m] + v[n]
  <2>1. n \notin T /\ n \in Nat /\ n <= n
    BY <1>1, <1>8
  <2> QED
    BY <2>1
<1> QED
  BY <1>3, <1>4, <1>5, <1>9 DEF z

-----------------------------------------------------------------------------
(***************************************************************************)
(* How long a segment is.                                                  *)
(***************************************************************************)
LEMMA CatLen == ASSUME NEW a, NEW b PROVE Cat(a, b).len = a.len + b.len
  BY DEF Cat

\* The length of one part,
LEMMA LenOne == ASSUME NEW a, a.len \in Nat PROVE Flatten(<<a>>).len = a.len
<1>1. DOMAIN <<a>> = 1 .. 1 /\ <<a>>[1] = a
  OBVIOUS
<1>2. PICK u : CatUpTo(u, <<a>>, 1) /\ Flatten(<<a>>) = u[1]
  BY <1>1, CatSteps
<1>3. u[0] = Empty /\ u[1] = Cat(u[0], a)
  BY <1>1, <1>2 DEF CatUpTo
<1> QED
  BY <1>2, <1>3, CatLen DEF Empty

\* of two,
LEMMA LenTwo ==
  ASSUME NEW a, NEW b, a.len \in Nat, b.len \in Nat
  PROVE  Flatten(<<a, b>>).len = a.len + b.len
<1>1. DOMAIN <<a, b>> = 1 .. 2 /\ <<a, b>>[1] = a /\ <<a, b>>[2] = b
  OBVIOUS
<1>2. PICK u : CatUpTo(u, <<a, b>>, 2) /\ Flatten(<<a, b>>) = u[2]
  BY <1>1, CatSteps
<1>3. u[0] = Empty /\ u[1] = Cat(u[0], a) /\ u[2] = Cat(u[1], b)
  BY <1>1, <1>2 DEF CatUpTo
<1> QED
  BY <1>2, <1>3, CatLen DEF Empty

\* of three,
LEMMA LenThree ==
  ASSUME NEW a, NEW b, NEW c, a.len \in Nat, b.len \in Nat, c.len \in Nat
  PROVE  Flatten(<<a, b, c>>).len = a.len + b.len + c.len
<1>1. DOMAIN <<a, b, c>> = 1 .. 3 /\ <<a, b, c>>[1] = a /\ <<a, b, c>>[2] = b /\ <<a, b, c>>[3] = c
  OBVIOUS
<1>2. PICK u : CatUpTo(u, <<a, b, c>>, 3) /\ Flatten(<<a, b, c>>) = u[3]
  BY <1>1, CatSteps
<1>3. u[0] = Empty /\ u[1] = Cat(u[0], a) /\ u[2] = Cat(u[1], b) /\ u[3] = Cat(u[2], c)
  BY <1>1, <1>2 DEF CatUpTo
<1> QED
  BY <1>2, <1>3, CatLen DEF Empty

\* and of four.
LEMMA LenFour ==
  ASSUME NEW a, NEW b, NEW c, NEW d, a.len \in Nat, b.len \in Nat, c.len \in Nat, d.len \in Nat
  PROVE  Flatten(<<a, b, c, d>>).len = a.len + b.len + c.len + d.len
<1> DEFINE s == <<a, b, c, d>>
<1>1. DOMAIN s = 1 .. 4 /\ s[1] = a /\ s[2] = b /\ s[3] = c /\ s[4] = d
  OBVIOUS
<1> HIDE DEF s
<1>2. PICK u : CatUpTo(u, s, 4) /\ Flatten(s) = u[4]
  BY <1>1, CatSteps
<1>3. u[0] = Empty /\ u[1] = Cat(u[0], a) /\ u[2] = Cat(u[1], b) /\ u[3] = Cat(u[2], c) /\ u[4] = Cat(u[3], d)
  BY <1>1, <1>2 DEF CatUpTo
<1> QED
  BY <1>2, <1>3, CatLen DEF Empty, s

\* More parts are not shorter.
LEMMA LenGrows ==
  ASSUME NEW s, NEW n \in Nat, NEW u, CatUpTo(u, s, n), \A i \in 1 .. n : s[i].len \in Nat
  PROVE  \A i \in 0 .. n : u[i].len \in Nat /\ u[i].len <= u[n].len
<1> DEFINE S == {k \in Nat : k <= n /\ u[k].len \notin Nat}
           T == {k \in Nat : k <= n /\ ~(u[n - k].len <= u[n].len)}
<1>1. \A i \in 1 .. n : u[i].len = u[i - 1].len + s[i].len
  BY CatLen DEF CatUpTo
<1>2. S = {}
  <2>1. 0 \notin S
    BY DEF CatUpTo, Empty
  <2>2. ASSUME NEW k \in Nat, k \notin S PROVE k + 1 \notin S
    <3> SUFFICES ASSUME k + 1 <= n PROVE u[k + 1].len \in Nat
      OBVIOUS
    <3>1. k + 1 \in 1 .. n /\ (k + 1) - 1 = k
      OBVIOUS
    <3> QED
      BY <1>1, <2>2, <3>1
  <2>3. S \in SUBSET Nat
    OBVIOUS
  <2> HIDE DEF S
  <2> QED
    BY <2>1, <2>2, <2>3, NoneIn
<1>3. \A i \in 0 .. n : u[i].len \in Nat
  BY <1>2
<1>4. T = {}
  <2>1. 0 \notin T
    BY <1>3
  <2>2. ASSUME NEW k \in Nat, k \notin T PROVE k + 1 \notin T
    <3> SUFFICES ASSUME k + 1 <= n PROVE u[n - (k + 1)].len <= u[n].len
      OBVIOUS
    <3>1. n - k \in 1 .. n /\ (n - k) - 1 = n - (k + 1) /\ n - (k + 1) \in 0 .. n /\ n - k \in 0 .. n /\ n \in 0 .. n
      OBVIOUS
    <3>2. u[n - k].len = u[n - (k + 1)].len + s[n - k].len /\ s[n - k].len \in Nat
      BY <1>1, <3>1
    <3>3. u[n - k].len <= u[n].len
      BY <2>2
    <3> QED
      BY <1>3, <3>1, <3>2, <3>3
  <2>3. T \in SUBSET Nat
    OBVIOUS
  <2> HIDE DEF T
  <2> QED
    BY <2>1, <2>2, <2>3, NoneIn
<1>5. ASSUME NEW i \in 0 .. n PROVE u[i].len <= u[n].len
  <2>1. n - i \in Nat /\ n - i <= n /\ n - (n - i) = i
    OBVIOUS
  <2>2. n - i \notin T
    BY <1>4
  <2> QED
    BY <2>1, <2>2
<1> QED
  BY <1>3, <1>5

\* The parts of trun before the rows.
LEMMA LenRows ==
  ASSUME NEW s, NEW n \in Nat, DOMAIN s = 1 .. n, n >= 3,
         s[1].len = 4, s[2].len = 4, s[3].len = 4, \A i \in 1 .. n : s[i].len \in Nat
  PROVE  Flatten(s).len \in Nat /\ Flatten(s).len >= 12
<1>1. PICK u : CatUpTo(u, s, n) /\ Flatten(s) = u[n]
  BY CatSteps
<1>2. \A i \in 0 .. n : u[i].len \in Nat /\ u[i].len <= u[n].len
  BY <1>1, LenGrows
<1>3. 3 \in 0 .. n /\ n \in 0 .. n /\ 1 \in 1 .. n /\ 2 \in 1 .. n /\ 3 \in 1 .. n
  OBVIOUS
<1>4. u[0] = Empty /\ u[1] = Cat(u[0], s[1]) /\ u[2] = Cat(u[1], s[2]) /\ u[3] = Cat(u[2], s[3])
  BY <1>1, <1>3 DEF CatUpTo
<1>5. u[3].len = 12
  BY <1>4, CatLen DEF Empty
<1> QED
  BY <1>1, <1>2, <1>3, <1>5

\* Where the elements of a concatenation come from.
LEMMA ConcatAt ==
  ASSUME NEW T, NEW a \in Seq(T), NEW b \in Seq(T)
  PROVE  /\ a \o b \in Seq(T) /\ Len(a \o b) = Len(a) + Len(b)
         /\ \A i \in 1 .. Len(a) : (a \o b)[i] = a[i]
         /\ \A i \in 1 .. Len(b) : (a \o b)[Len(a) + i] = b[i]
  OBVIOUS

\* A box is eight bytes longer than what is in it.
LEMMA BoxLen ==
  ASSUME NEW c, NEW parts
  PROVE  BoxWriter(c, parts).len = 8 + Flatten(parts).len
  BY CatLen DEF BoxWriter

\* The lengths of what is written between the boxes.
LEMMA PartLens ==
  /\ \A v, f : FullBoxHeader(v, f).len = 4
  /\ \A w, v : Number(w, v).len = w
  /\ \A c : FourCC(c).len = 4
  BY DEF FullBoxHeader, Number, FourCC

\* The boxes whose length does not depend on the segment.
LEMMA FixedLens ==
  /\ Styp.len = 24
  /\ \A i : Mfhd(i).len = 16
  /\ \A id : Tfhd(id).len = 16
  /\ \A b : Tfdt(b).len = 20
<1>1. Styp.len = 24
  BY BoxLen, PartLens, LenFour DEF Styp
<1>2. ASSUME NEW i PROVE Mfhd(i).len = 16
  BY BoxLen, PartLens, LenTwo DEF Mfhd
<1>3. ASSUME NEW i PROVE Tfhd(i).len = 16
  BY BoxLen, PartLens, LenTwo DEF Tfhd
<1>4. ASSUME NEW b PROVE Tfdt(b).len = 20
  BY BoxLen, PartLens, LenTwo DEF Tfdt
<1> QED
  BY <1>1, <1>2, <1>3, <1>4

\* The video trun has a length, whatever the samples are,
LEMMA VideoTrunLen ==
  ASSUME NEW x \in Seq(Sample), NEW ctts \in BOOLEAN
  PROVE  VideoTrun(x, ctts).len \in Nat /\ VideoTrun(x, ctts).len >= 20
<1> DEFINE h == IF ctts THEN FullBoxHeader(1, 773 + 2048) ELSE FullBoxHeader(0, 773)
           a == <<h, Number(4, Len(x)), Number(4, 0), Number(4, 33554432)>>
           rows == [i \in DOMAIN x |-> TrunRow(x[i], ctts)]
           s == a \o rows
           n == 4 + Len(x)
<1>1. n \in Nat /\ n >= 3 /\ DOMAIN s = 1 .. n /\ \A i \in 1 .. 4 : s[i] = a[i]
  OBVIOUS
<1>2. \A i \in 5 .. n : s[i] = rows[i - 4] /\ i - 4 \in DOMAIN x
  OBVIOUS
<1>3. h.len = 4
  BY PartLens
<1>4. a[1].len = 4 /\ a[2].len = 4 /\ a[3].len = 4 /\ a[4].len = 4
  <2> HIDE DEF h
  <2> QED
    BY <1>3, PartLens
<1>5. \A y : TrunRow(y, ctts).len \in Nat
  BY DEF TrunRow
<1>6. ASSUME NEW i \in 1 .. n PROVE s[i].len \in Nat
  <2>1. CASE i \in 5 .. n
    <3>1. s[i] = TrunRow(x[i - 4], ctts)
      BY <1>2, <2>1
    <3> HIDE DEF s, a
    <3> QED
      BY <1>5, <3>1
  <2>2. CASE i \notin 5 .. n
    <3>1. i = 1 \/ i = 2 \/ i = 3 \/ i = 4
      BY <1>1, <2>2
    <3> HIDE DEF s, a
    <3> QED
      BY <1>1, <1>4, <3>1
  <2> QED
    BY <2>1, <2>2
<1>7. s[1].len = 4 /\ s[2].len = 4 /\ s[3].len = 4
  <2> HIDE DEF s, a
  <2> QED
    BY <1>1, <1>4
<1>8. Flatten(s).len \in Nat /\ Flatten(s).len >= 12
  <2> HIDE DEF s, n
  <2> QED
    BY <1>1, <1>6, <1>7, LenRows
<1>9. VideoTrun(x, ctts).len = 8 + Flatten(s).len
  BY BoxLen DEF VideoTrun
<1> QED
  BY <1>8, <1>9

\* and so has the audio trun.
LEMMA AudioTrunLen ==
  ASSUME NEW x \in Seq(Sample)
  PROVE  AudioTrun(x).len \in Nat /\ AudioTrun(x).len >= 20
<1> DEFINE a == <<FullBoxHeader(0, 769), Number(4, Len(x)), Number(4, 0)>>
           rows == [i \in DOMAIN x |-> TrunRow(x[i], FALSE)]
           s == a \o rows
           n == 3 + Len(x)
<1>1. n \in Nat /\ n >= 3 /\ DOMAIN s = 1 .. n /\ \A i \in 1 .. 3 : s[i] = a[i]
  OBVIOUS
<1>2. \A i \in 4 .. n : s[i] = rows[i - 3] /\ i - 3 \in DOMAIN x
  <2>1. DOMAIN x = 1 .. Len(x) /\ Len(x) \in Nat
    OBVIOUS
  <2>2. \A i \in 4 .. n : i - 3 \in DOMAIN x
    BY <2>1
  <2> DEFINE T == {a[1], a[2], a[3]} \cup {rows[i] : i \in DOMAIN x}
  <2>3. a \in Seq(T) /\ Len(a) = 3
    OBVIOUS
  <2>4. rows \in Seq(T) /\ Len(rows) = Len(x)
    <3>1. DOMAIN rows = 1 .. Len(x)
      BY <2>1
    <3>2. rows = [i \in 1 .. Len(x) |-> rows[i]]
      BY <2>1
    <3> HIDE DEF rows
    <3>3. \A i \in 1 .. Len(x) : rows[i] \in T
      BY <2>1
    <3> HIDE DEF T
    <3> QED
      BY <2>1, <3>1, <3>2, <3>3
  <2>5. \A i \in 1 .. Len(rows) : (a \o rows)[Len(a) + i] = rows[i]
    <3> HIDE DEF rows, T, a
    <3>1. a \in Seq(T) /\ rows \in Seq(T)
      BY <2>3, <2>4
    <3>2. /\ a \o rows \in Seq(T) /\ Len(a \o rows) = Len(a) + Len(rows)
          /\ \A i \in 1 .. Len(a) : (a \o rows)[i] = a[i]
          /\ \A i \in 1 .. Len(rows) : (a \o rows)[Len(a) + i] = rows[i]
      BY <3>1, ConcatAt
    <3> QED
      BY <3>2
  <2>6. ASSUME NEW i \in 4 .. n PROVE s[i] = rows[i - 3]
    <3>1. i - 3 \in 1 .. Len(rows) /\ Len(a) + (i - 3) = i
      BY <2>1, <2>3, <2>4
    <3> HIDE DEF rows, a
    <3> QED
      BY <2>5, <3>1
  <2> QED
    <3> HIDE DEF rows, a, s
    <3> QED
      BY <2>2, <2>6
<1>4. a[1].len = 4 /\ a[2].len = 4 /\ a[3].len = 4
  BY PartLens
<1>5. \A y : TrunRow(y, FALSE).len \in Nat
  BY DEF TrunRow
<1>6. ASSUME NEW i \in 1 .. n PROVE s[i].len \in Nat
  <2>1. CASE i \in 4 .. n
    <3>1. s[i] = TrunRow(x[i - 3], FALSE)
      BY <1>2, <2>1
    <3> HIDE DEF s, a
    <3> QED
      BY <1>5, <3>1
  <2>2. CASE i \notin 4 .. n
    <3>1. i = 1 \/ i = 2 \/ i = 3
      BY <1>1, <2>2
    <3> HIDE DEF s, a
    <3> QED
      BY <1>1, <1>4, <3>1
  <2> QED
    BY <2>1, <2>2
<1>7. s[1].len = 4 /\ s[2].len = 4 /\ s[3].len = 4
  <2> HIDE DEF s, a
  <2> QED
    BY <1>1, <1>4
<1>8. Flatten(s).len \in Nat /\ Flatten(s).len >= 12
  <2> HIDE DEF s, n
  <2> QED
    BY <1>1, <1>6, <1>7, LenRows
<1>9. AudioTrun(x).len = 8 + Flatten(s).len
  BY BoxLen DEF AudioTrun
<1> QED
  BY <1>8, <1>9

\* A traf is 44 bytes longer than its trun.
LEMMA TrafLen ==
  ASSUME NEW id, NEW base, NEW trun, trun.len \in Nat
  PROVE  Traf(id, base, trun).len = 44 + trun.len
<1>1. Tfhd(id).len = 16 /\ Tfdt(base).len = 20
  BY FixedLens
<1>2. Flatten(<<Tfhd(id), Tfdt(base), trun>>).len = 36 + trun.len
  BY <1>1, LenThree
<1> QED
  BY <1>2, BoxLen DEF Traf

\* What an index is.
LEMMA IndexType ==
  ASSUME index \in Indexes
  PROVE  /\ index.video \in Seq(Sample) /\ index.audio \in Seq(Sample)
         /\ index.segments \in Seq([videoStart : Nat, videoCount : Nat, videoBase : Nat,
                                    audioStart : Nat, audioCount : Nat, audioBase : Nat])
         /\ Len(index.segments) \in Nat /\ Len(index.segments) <= NumberMax
         /\ index.timescale \in Nat /\ index.sourceLen \in Nat
  BY ServeAssumption DEF Sample

\* The numbers of a segment are natural.
LEMMA SegmentType ==
  ASSUME index \in Indexes, NEW i \in DOMAIN index.segments
  PROVE  LET g == index.segments[i]
         IN  /\ g.videoStart \in Nat /\ g.videoCount \in Nat /\ g.videoBase \in Nat
             /\ g.audioStart \in Nat /\ g.audioCount \in Nat /\ g.audioBase \in Nat
<1> DEFINE G == [videoStart : Nat, videoCount : Nat, videoBase : Nat,
                 audioStart : Nat, audioCount : Nat, audioBase : Nat]
<1>1. index.segments \in Seq(G)
  BY IndexType
<1>2. index.segments[i] \in G
  <2> HIDE DEF G
  <2> QED
    BY <1>1
<1> QED
  BY <1>2

\* slice_segment_samples: as many samples as asked for, from the start on.
LEMMA SliceIs ==
  ASSUME NEW s \in Seq(Sample), NEW b \in Nat, NEW c \in Nat, b + c <= Len(s)
  PROVE  /\ SubSeq(s, b + 1, b + c) \in Seq(Sample) /\ Len(SubSeq(s, b + 1, b + c)) = c
         /\ \A k \in 1 .. c : SubSeq(s, b + 1, b + c)[k] = s[b + k]
  OBVIOUS

\* The samples of a segment that is inside the tables.
LEMMA SamplesType ==
  ASSUME index \in Indexes, NEW i \in DOMAIN index.segments,
         VideoInTable(index.segments[i]), AudioInTable(index.segments[i])
  PROVE  LET g == index.segments[i]
         IN  /\ VideoSamples(g) \in Seq(Sample) /\ AudioSamples(g) \in Seq(Sample)
             /\ Len(VideoSamples(g)) = g.videoCount /\ Len(AudioSamples(g)) = g.audioCount
             /\ \A k \in 1 .. g.videoCount : VideoSamples(g)[k] = index.video[g.videoStart + k]
             /\ \A k \in 1 .. g.audioCount : AudioSamples(g)[k] = index.audio[g.audioStart + k]
<1> DEFINE g == index.segments[i]
           v == index.video
           a == index.audio
<1>1. g.videoStart \in Nat /\ g.videoCount \in Nat /\ g.audioStart \in Nat /\ g.audioCount \in Nat
  BY SegmentType
<1>2. v \in Seq(Sample) /\ a \in Seq(Sample)
  BY IndexType
<1>3. g.videoStart + g.videoCount <= Len(v) /\ g.audioStart + g.audioCount <= Len(a)
  BY DEF VideoInTable, AudioInTable
<1>4. /\ VideoSamples(g) = SubSeq(v, g.videoStart + 1, g.videoStart + g.videoCount)
      /\ AudioSamples(g) = SubSeq(a, g.audioStart + 1, g.audioStart + g.audioCount)
  BY DEF VideoSamples, AudioSamples
<1> DEFINE b == g.videoStart
           c == g.videoCount
           d == g.audioStart
           e == g.audioCount
<1> HIDE DEF v, a, b, c, d, e
<1>5. /\ SubSeq(v, b + 1, b + c) \in Seq(Sample) /\ Len(SubSeq(v, b + 1, b + c)) = c
      /\ \A k \in 1 .. c : SubSeq(v, b + 1, b + c)[k] = v[b + k]
  BY <1>1, <1>2, <1>3, SliceIs DEF b, c
<1>6. /\ SubSeq(a, d + 1, d + e) \in Seq(Sample) /\ Len(SubSeq(a, d + 1, d + e)) = e
      /\ \A k \in 1 .. e : SubSeq(a, d + 1, d + e)[k] = a[d + k]
  BY <1>1, <1>2, <1>3, SliceIs DEF d, e
<1> QED
  BY <1>4, <1>5, <1>6 DEF v, a, b, c, d, e

\* The data offsets are inside moof.
LEMMA MoofLen ==
  ASSUME index \in Indexes, NEW i \in DOMAIN index.segments, NEW idx,
         VideoInTable(index.segments[i]), AudioInTable(index.segments[i])
  PROVE  LET g == index.segments[i]
         IN  /\ Moof(idx, g).len \in Nat
             /\ VideoOffsetPos \in Nat /\ VideoOffsetPos + 4 <= Moof(idx, g).len
             /\ AudioOffsetPos(g) \in Nat /\ AudioOffsetPos(g) + 4 <= Moof(idx, g).len
<1> DEFINE g == index.segments[i]
           vt == VideoTrun(VideoSamples(g), VideoHasCtts)
           at == AudioTrun(AudioSamples(g))
<1>1. VideoSamples(g) \in Seq(Sample) /\ AudioSamples(g) \in Seq(Sample)
  BY SamplesType
<1>2. VideoHasCtts \in BOOLEAN
  BY DEF VideoHasCtts
<1>3. vt.len \in Nat /\ vt.len >= 20 /\ at.len \in Nat /\ at.len >= 20
  <2> HIDE DEF g
  <2> QED
    BY <1>1, <1>2, VideoTrunLen, AudioTrunLen
<1>4. VideoTraf(g) = Traf(1, g.videoBase, vt) /\ AudioTraf(g) = Traf(2, g.audioBase, at)
  BY DEF VideoTraf, AudioTraf
<1> HIDE DEF g, vt, at
<1>5. VideoTraf(g).len = 44 + vt.len /\ AudioTraf(g).len = 44 + at.len
  BY <1>3, <1>4, TrafLen
<1>6. Mfhd(idx).len = 16 /\ Mfhd(0).len = 16 /\ Tfhd(0).len = 16 /\ Tfdt(0).len = 20
  BY FixedLens
<1>7. Flatten(<<Mfhd(idx), VideoTraf(g), AudioTraf(g)>>).len = 16 + (44 + vt.len) + (44 + at.len)
  BY <1>3, <1>5, <1>6, LenThree
<1>8. Moof(idx, g).len = 8 + (16 + (44 + vt.len) + (44 + at.len))
  BY <1>7, BoxLen DEF Moof
<1>9. VideoOffsetPos = 84 /\ AudioOffsetPos(g) = 84 + (44 + vt.len)
  BY <1>5, <1>6 DEF VideoOffsetPos, AudioOffsetPos, InTraf
<1> QED
  BY <1>3, <1>8, <1>9 DEF g

-----------------------------------------------------------------------------
(***************************************************************************)
(* What is known of the segment that is being written.                     *)
(***************************************************************************)
Segment(i) == index.segments[i + 1]
InTables(g) == VideoInTable(g) /\ AudioInTable(g) /\ g.videoCount # 0 /\ g.audioCount # 0
SamplesIn(g) == VideoSamples(g) \o AudioSamples(g)
SegmentLen(i) ==
  Styp.len + Moof(i, Segment(i)).len + 8
    + (SumSizes(VideoSamples(Segment(i))) + SumSizes(AudioSamples(Segment(i))))
OffsetsFit(i) == Moof(i, Segment(i)).len + 8 + SumSizes(VideoSamples(Segment(i))) <= I32Max
Readable(x) == x.size # 0 => x.offset + x.size <= index.sourceLen
AllReadable(g) == \A k \in DOMAIN SamplesIn(g) : Readable(SamplesIn(g)[k])

\* The limits of one segment.
Limits(i) == InTables(Segment(i)) /\ AllReadable(Segment(i)) /\ SegmentLen(i) <= U32Max /\ OffsetsFit(i)

\* Where the writer j is, and what it has put into the sink s: todo are the last samples of
\* the segment, and the ones before them have been read.
Placed(j) ==
  /\ DOMAIN j = {"pc", "idx", "todo", "copied", "moofStart", "mdatStart", "videoOffset", "audioOffset"}
  /\ j.idx \in 0 .. Len(index.segments) - 1
  /\ InTables(Segment(j.idx))
  /\ j.moofStart = Styp.len
  /\ j.mdatStart = Styp.len + Moof(j.idx, Segment(j.idx)).len
  /\ j.videoOffset = Styp.len + VideoOffsetPos
  /\ j.audioOffset = Styp.len + AudioOffsetPos(Segment(j.idx))
Ahead(j) ==
  /\ j.todo \in Seq(Sample)
  /\ \A k \in DOMAIN j.todo : \E m \in DOMAIN SamplesIn(Segment(j.idx)) : j.todo[k] = SamplesIn(Segment(j.idx))[m]
  /\ \A m \in DOMAIN SamplesIn(Segment(j.idx)) :
       \/ Readable(SamplesIn(Segment(j.idx))[m])
       \/ \E k \in DOMAIN j.todo : j.todo[k] = SamplesIn(Segment(j.idx))[m]
  /\ j.copied \in Nat
  /\ j.todo = <<>> => j.copied = 0
  /\ j.todo # <<>> =>
       /\ j.copied <= Head(j.todo).size
       /\ j.copied # 0 => Head(j.todo).offset + j.copied <= index.sourceLen
Counted(j, s) ==
  /\ DOMAIN s = {"pos", "counting", "bytes"}
  /\ s.pos \in Nat /\ s.bytes.len = s.pos
  /\ s.pos + SumSizes(j.todo) = SegmentLen(j.idx) + j.copied
Writing(j, s) ==
  /\ Placed(j) /\ Ahead(j) /\ Counted(j, s)
  /\ j.pc = "Ok" => j.todo = <<>> /\ OffsetsFit(j.idx)

WriteInv == job.pc \in {"stream", "Ok"} => Writing(job, sink)

\* The builder comes to know the limits, one segment after the other.
PhaseIs(p, j, m) ==
  /\ p \in {"render", "size", "serve", "failed"}
  /\ j.pc \in {"idle", "stream", "Ok", "Err"}
  /\ m \in Nat
  /\ p = "render" => j.pc = "idle"
  /\ p \in {"size", "serve"} => index.timescale # 0
  /\ p = "size" /\ j.pc \in {"stream", "Ok"} =>
       \A i \in 0 .. j.idx - 1 : Limits(i) /\ SegmentLen(i) <= m
  /\ p = "serve" =>
       \A i \in 0 .. Len(index.segments) - 1 : Limits(i) /\ SegmentLen(i) <= m
  /\ j.pc = "stream" => p \in {"size", "serve"}
  /\ j.pc = "Err" => p # "serve" /\ ~Servable
  /\ p = "failed" => ~Servable
PhaseInv == PhaseIs(phase, job, maxSize)

Name == [prefix : BOOLEAN, suffix : BOOLEAN, body : Seq(Characters)]

\* The playlist is what the segments say.
TicksOf(x) == [i \in DOMAIN x.segments |->
                SegmentTicks(SubSeq(x.video, x.segments[i].videoStart + 1,
                                    x.segments[i].videoStart + x.segments[i].videoCount))]
Rendered(x, l, t) ==
  /\ \A i \in DOMAIN x.segments : x.segments[i].videoStart + x.segments[i].videoCount <= Len(x.video)
  /\ x.timescale # 0
  /\ t = TargetDuration(TicksOf(x), x.timescale)
  /\ l \in Seq([extinf : Nat, name : Name])
  /\ Len(l) = Len(x.segments)
  /\ \A i \in DOMAIN l : l[i].name = SegmentName(i) /\ l[i].extinf \in Extinf(TicksOf(x)[i], x.timescale)

\* Who is asked for what: the segment that is written is the one of the name.
PlaylistInv ==
  /\ lines = <<>> \/ Rendered(index, lines, target)
  /\ phase \in {"size", "serve"} => Rendered(index, lines, target)
NameInv ==
  /\ asked \in Name
  /\ phase = "serve" /\ job.pc \in {"stream", "Ok"} => job.idx = ParseSegmentIdx(asked)
AnswerInv ==
  /\ answer.status \in {0, 200, 404}
  /\ answer.status # 0 => phase = "serve" /\ answer.name \in Name
  /\ answer.status = 200 =>
       answer.idx = ParseSegmentIdx(answer.name) /\ answer.idx \in 0 .. Len(index.segments) - 1
  /\ answer.status = 404 =>
       LET idx == ParseSegmentIdx(answer.name) IN idx = NoSegment \/ idx >= Len(index.segments)

\* The player keeps a sequence.
HeardInv == \E T : heard \in Seq(T)

IInv == index \in Indexes /\ WriteInv /\ PhaseInv /\ PlaylistInv /\ NameInv /\ AnswerInv

-----------------------------------------------------------------------------
\* The index stays the same, and so does what the predicates say of it.
LEMMA SameSegments ==
  ASSUME index' = index
  PROVE  /\ \A i : (Limits(i))' <=> Limits(i)
         /\ \A i : (SegmentLen(i))' = SegmentLen(i)
         /\ (Servable)' <=> Servable
<1>1. ASSUME NEW i PROVE (SegmentLen(i))' = SegmentLen(i)
  BY DEF SegmentLen, Segment, Moof, VideoTraf, AudioTraf, VideoHasCtts, VideoSamples, AudioSamples
<1>2. ASSUME NEW i PROVE (Limits(i))' <=> Limits(i)
  BY DEF Limits, InTables, AllReadable, Readable, SamplesIn, OffsetsFit, SegmentLen, Segment, Moof, VideoTraf, AudioTraf,
         VideoHasCtts, VideoSamples, AudioSamples, VideoInTable, AudioInTable
<1>3. (Servable)' <=> Servable
  BY DEF Servable, Moof, VideoTraf, AudioTraf, VideoHasCtts, VideoSamples, AudioSamples,
         VideoInTable, AudioInTable
<1> QED
  BY <1>1, <1>2, <1>3

\* What Writing says after a step is about the job and the sink after the step,
LEMMA SameWriting ==
  ASSUME index' = index, NEW j, NEW s, j = job', s = sink'
  PROVE  (Writing(job, sink))' <=> Writing(j, s)
<1>1. (Placed(job))' <=> Placed(j)
  BY DEF Placed, Segment, InTables, Moof, VideoTraf, AudioTraf, VideoHasCtts, VideoSamples, AudioSamples,
         VideoInTable, AudioInTable, AudioOffsetPos
<1>2. (Ahead(job))' <=> Ahead(j)
  BY DEF Ahead, Segment, SamplesIn, VideoSamples, AudioSamples, Readable
<1>3. (Counted(job, sink))' <=> Counted(j, s)
  BY DEF Counted, SegmentLen, Segment, Moof, VideoTraf, AudioTraf, VideoHasCtts, VideoSamples, AudioSamples
<1>4. (OffsetsFit(job.idx))' <=> OffsetsFit(j.idx)
  BY DEF OffsetsFit, Segment, Moof, VideoTraf, AudioTraf, VideoHasCtts, VideoSamples, AudioSamples
<1> QED
  BY <1>1, <1>2, <1>3, <1>4 DEF Writing

\* and what PhaseInv says is about phase, job and size after it.
LEMMA SamePhase ==
  ASSUME index' = index, NEW p, NEW j, NEW m, p = phase', j = job', m = maxSize'
  PROVE  PhaseInv' <=> PhaseIs(p, j, m)
<1>1. (PhaseIs(phase, job, maxSize))' <=>
        /\ p \in {"render", "size", "serve", "failed"}
        /\ j.pc \in {"idle", "stream", "Ok", "Err"}
        /\ m \in Nat
        /\ p = "render" => j.pc = "idle"
        /\ p \in {"size", "serve"} => index.timescale # 0
        /\ p = "size" /\ j.pc \in {"stream", "Ok"} =>
             \A i \in 0 .. j.idx - 1 : (Limits(i))' /\ (SegmentLen(i))' <= m
        /\ p = "serve" =>
             \A i \in 0 .. Len(index.segments) - 1 : (Limits(i))' /\ (SegmentLen(i))' <= m
        /\ j.pc = "stream" => p \in {"size", "serve"}
        /\ j.pc = "Err" => p # "serve" /\ ~(Servable)'
        /\ p = "failed" => ~(Servable)'
  BY DEF PhaseIs
<1>2. (PhaseIs(phase, job, maxSize))' <=> PhaseIs(p, j, m)
  BY <1>1, SameSegments DEF PhaseIs
<1> QED
  BY <1>2 DEF PhaseInv

-----------------------------------------------------------------------------
(***************************************************************************)
(* The steps of write_media_segment.                                       *)
(***************************************************************************)
LEMMA SegmentFacts ==
  ASSUME index \in Indexes, NEW i \in 0 .. Len(index.segments) - 1, InTables(Segment(i))
  PROVE  LET g == Segment(i)
         IN  /\ Moof(i, g).len \in Nat /\ Styp.len = 24
             /\ VideoOffsetPos \in Nat /\ VideoOffsetPos + 4 <= Moof(i, g).len
             /\ AudioOffsetPos(g) \in Nat /\ AudioOffsetPos(g) + 4 <= Moof(i, g).len
             /\ VideoSamples(g) \in Seq(Sample) /\ AudioSamples(g) \in Seq(Sample)
             /\ SumSizes(VideoSamples(g)) \in Nat /\ SumSizes(AudioSamples(g)) \in Nat
             /\ SamplesIn(g) \in Seq(Sample)
             /\ SumSizes(SamplesIn(g)) = SumSizes(VideoSamples(g)) + SumSizes(AudioSamples(g))
             /\ SegmentLen(i) \in Nat
<1> DEFINE g == Segment(i)
<1>1. i + 1 \in DOMAIN index.segments /\ g = index.segments[i + 1]
  BY IndexType DEF Segment
<1>2. VideoInTable(g) /\ AudioInTable(g)
  BY DEF InTables
<1>3. VideoSamples(g) \in Seq(Sample) /\ AudioSamples(g) \in Seq(Sample)
  BY <1>1, <1>2, SamplesType
<1>4. /\ Moof(i, g).len \in Nat /\ Styp.len = 24
      /\ VideoOffsetPos \in Nat /\ VideoOffsetPos + 4 <= Moof(i, g).len
      /\ AudioOffsetPos(g) \in Nat /\ AudioOffsetPos(g) + 4 <= Moof(i, g).len
  BY <1>1, <1>2, MoofLen, FixedLens
<1> HIDE DEF g
<1>5. SumSizes(VideoSamples(g)) \in Nat /\ SumSizes(AudioSamples(g)) \in Nat
  BY <1>3, SumSizesNat
<1>6. SumSizes(SamplesIn(g)) = SumSizes(VideoSamples(g)) + SumSizes(AudioSamples(g))
  BY <1>3, SumSizesCat DEF SamplesIn
<1>7. SamplesIn(g) \in Seq(Sample)
  BY <1>3 DEF SamplesIn
<1>8. SegmentLen(i) \in Nat
  BY <1>4, <1>5, SMTT(30) DEF SegmentLen, g
<1> QED
  BY <1>3, <1>4, <1>5, <1>6, <1>7, <1>8 DEF g

\* Put moves the position by the length of what is written.
LEMMA PutIs ==
  ASSUME NEW s, NEW b, DOMAIN s = {"pos", "counting", "bytes"}, s.pos \in Nat, s.bytes.len = s.pos, b.len \in Nat
  PROVE  /\ DOMAIN Put(s, b) = {"pos", "counting", "bytes"}
         /\ Put(s, b).pos = s.pos + b.len /\ Put(s, b).bytes.len = s.pos + b.len
<1>1. Larger(s.bytes.len, s.pos + b.len) = s.pos + b.len
  BY DEF Larger
<1> DEFINE p == Put(s, b)
<1>2. DOMAIN p = {"pos", "counting", "bytes"} /\ p.pos = s.pos + b.len
  BY DEF Put
<1>3. p.bytes = IF s.counting THEN Zeros(Larger(s.bytes.len, s.pos + b.len))
                ELSE [len |-> Larger(s.bytes.len, s.pos + b.len),
                      num |-> s.bytes.num @@ Moved(b.num, s.pos),
                      code |-> s.bytes.code @@ Moved(b.code, s.pos)]
  BY DEF Put
<1>4. \A m : Zeros(m).len = m
  BY DEF Zeros, Empty
<1>5. p.bytes.len = s.pos + b.len
  <2> HIDE DEF p
  <2> QED
    BY <1>1, <1>3, <1>4
<1> QED
  BY <1>2, <1>5

\* The limits that the start of a segment looks at.
LEMMA StartWriteIs ==
  ASSUME index \in Indexes, NEW i \in 0 .. Len(index.segments) - 1, NEW c, StartWrite(i, c),
         NEW j, NEW s, j = job', s = sink'
  PROVE  \/ j.pc = "Err" /\ ~Limits(i)
         \/ j.pc = "stream" /\ j.idx = i /\ Writing(j, s)
<1> DEFINE g == Segment(i)
           payload == SumSizes(VideoSamples(g)) + SumSizes(AudioSamples(g))
           moof == Moof(i, g).len
           head == Flatten(<<Styp, Moof(i, g), Number(4, 0), FourCC("mdat")>>)
           bad == \/ i >= Len(index.segments) \/ ~VideoInTable(g) \/ ~AudioInTable(g)
                  \/ g.videoCount = 0 \/ g.audioCount = 0 \/ moof > U32Max \/ payload + 8 > U32Max
<1>1. IF bad THEN j = [pc |-> "Err"] /\ s = sink
      ELSE /\ j = [pc |-> "stream", idx |-> i, todo |-> SamplesIn(g), copied |-> 0,
                   moofStart |-> Styp.len, mdatStart |-> Styp.len + moof,
                   videoOffset |-> Styp.len + VideoOffsetPos,
                   audioOffset |-> Styp.len + AudioOffsetPos(g)]
           /\ s = Put(Fresh(c), head)
  BY DEF StartWrite, Segment, SamplesIn
<1>2. Len(index.segments) \in Nat /\ U32Max \in Nat /\ ~(i >= Len(index.segments))
  BY IndexType, MediaAssumption
<1>3. CASE bad
  <2>1. j.pc = "Err"
    BY <1>1, <1>3
  <2>2. CASE ~InTables(g)
    BY <2>1, <2>2 DEF Limits
  <2>3. CASE InTables(g)
    <3>1. moof \in Nat /\ payload \in Nat /\ Styp.len = 24
      BY <2>3, SegmentFacts, SMTT(30)
    <3>2. moof > U32Max \/ payload + 8 > U32Max
      BY <1>2, <1>3, <2>3 DEF InTables
    <3>3. SegmentLen(i) = Styp.len + moof + 8 + payload
      BY DEF SegmentLen
    <3> HIDE DEF moof, payload, g
    <3>4. ~(SegmentLen(i) <= U32Max)
      BY <1>2, <3>1, <3>2, <3>3
    <3> QED
      BY <2>1, <3>4 DEF Limits
  <2> QED
    BY <2>2, <2>3
<1>4. CASE ~bad
  <2>1. InTables(g)
    BY <1>4 DEF InTables
  <2>2. /\ moof \in Nat /\ payload \in Nat /\ Styp.len = 24 /\ SamplesIn(g) \in Seq(Sample)
        /\ SumSizes(SamplesIn(g)) = payload
    BY <2>1, SegmentFacts, SMTT(30)
  <2>3. SegmentLen(i) = Styp.len + moof + 8 + payload
    BY DEF SegmentLen
  <2>4. j = [pc |-> "stream", idx |-> i, todo |-> SamplesIn(g), copied |-> 0,
             moofStart |-> Styp.len, mdatStart |-> Styp.len + moof,
             videoOffset |-> Styp.len + VideoOffsetPos,
             audioOffset |-> Styp.len + AudioOffsetPos(g)]
        /\ s = Put(Fresh(c), head)
    BY <1>1, <1>4
  <2>5. head.len = Styp.len + moof + 8
    <3>1. Number(4, 0).len = 4 /\ FourCC("mdat").len = 4
      BY PartLens
    <3>2. /\ Styp.len \in Nat /\ Moof(i, g).len \in Nat
          /\ Number(4, 0).len \in Nat /\ FourCC("mdat").len \in Nat
      BY <2>2, <3>1
    <3>3. head.len = Styp.len + Moof(i, g).len + Number(4, 0).len + FourCC("mdat").len
      <4> HIDE DEF g
      <4> QED
        BY <3>2, LenFour
    <3> QED
      BY <2>2, <3>1, <3>3
  <2> HIDE DEF g, payload, moof, head, bad
  <2>6. /\ DOMAIN Fresh(c) = {"pos", "counting", "bytes"} /\ Fresh(c).pos = 0 /\ Fresh(c).bytes.len = 0
    BY DEF Fresh, Empty
  <2>7. DOMAIN s = {"pos", "counting", "bytes"} /\ s.pos = head.len /\ s.bytes.len = head.len
    <3>1. head.len \in Nat
      BY <2>2, <2>5
    <3>2. Put(Fresh(c), head).pos = 0 + head.len /\ Put(Fresh(c), head).bytes.len = 0 + head.len
          /\ DOMAIN Put(Fresh(c), head) = {"pos", "counting", "bytes"}
      BY <2>6, <3>1, PutIs
    <3> QED
      BY <2>4, <3>1, <3>2
  <2>8. Segment(j.idx) = g /\ j.idx = i /\ j.pc = "stream" /\ j.todo = SamplesIn(g) /\ j.copied = 0
    BY <2>4 DEF g
  <2>9. Placed(j)
    BY <2>1, <2>4, <2>8 DEF Placed, moof
  <2>10. Ahead(j)
    <3>1. SamplesIn(g) # <<>> => Head(SamplesIn(g)) \in Sample
      BY <2>2
    <3>2. \A a \in Sample : a.size \in Nat /\ 0 <= a.size
      BY DEF Sample
    <3> QED
      BY <2>2, <2>8, <3>1, <3>2 DEF Ahead
  <2>11. Counted(j, s)
    BY <2>2, <2>3, <2>5, <2>7, <2>8 DEF Counted
  <2> QED
    BY <2>8, <2>9, <2>10, <2>11 DEF Writing
<1> QED
  BY <1>3, <1>4

\* stream_sample reads what is there.
LEMMA ReadIs ==
  ASSUME NEW o \in Nat, NEW w \in Nat, index.sourceLen \in Nat
  PROVE  /\ ReadAt(o, w) \in Nat /\ ReadAt(o, w) <= w
         /\ ReadAt(o, w) # 0 => o + ReadAt(o, w) <= index.sourceLen
         /\ w # 0 /\ ReadAt(o, w) = 0 => o >= index.sourceLen
  BY DEF ReadAt

\* A read_at and the write after it keep Writing, or the segment breaks a limit.
LEMMA StreamChunkIs ==
  ASSUME index \in Indexes, job.pc = "stream", Writing(job, sink), StreamChunk,
         NEW j, NEW s, j = job', s = sink'
  PROVE  /\ j.idx = job.idx
         /\ \/ j.pc = "Err" /\ ~Limits(job.idx)
            \/ j.pc = "stream" /\ Writing(j, s)
<1> DEFINE x == Head(job.todo)
           left == x.size - job.copied
           n == ReadAt(x.offset + job.copied, IF left < CopyBuf THEN left ELSE CopyBuf)
           g == Segment(job.idx)
<1>1. Placed(job) /\ Ahead(job) /\ Counted(job, sink)
  BY DEF Writing
<1>2. job.todo # <<>> /\ job.todo \in Seq(Sample)
  BY <1>1 DEF StreamChunk, Ahead
<1>3. /\ Tail(job.todo) \in Seq(Sample) /\ x \in Sample
      /\ SumSizes(job.todo) = x.size + SumSizes(Tail(job.todo))
      /\ SumSizes(Tail(job.todo)) \in Nat
  BY <1>2, SumSizesTail, SumSizesNat
<1>4. x.offset \in Nat /\ x.size \in Nat /\ job.copied \in Nat /\ job.copied <= x.size
  BY <1>1, <1>2, <1>3 DEF Ahead, Sample
<1>5. index.sourceLen \in Nat /\ CopyBuf \in Nat \ {0}
  BY IndexType, MediaAssumption
<1>6. /\ n \in Nat /\ n <= left
      /\ n # 0 => (x.offset + job.copied) + n <= index.sourceLen
      /\ left # 0 /\ n = 0 => x.offset + job.copied >= index.sourceLen
  <2> DEFINE w == IF left < CopyBuf THEN left ELSE CopyBuf
             o == x.offset + job.copied
  <2>1. o \in Nat /\ w \in Nat /\ w <= left /\ (left # 0 => w # 0)
    BY <1>4, <1>5
  <2>2. n = ReadAt(o, w)
    OBVIOUS
  <2> HIDE DEF w, n, left
  <2>3. left \in Nat
    BY <1>4 DEF left
  <2>4. /\ ReadAt(o, w) \in Nat /\ ReadAt(o, w) <= w
        /\ ReadAt(o, w) # 0 => o + ReadAt(o, w) <= index.sourceLen
        /\ w # 0 /\ ReadAt(o, w) = 0 => o >= index.sourceLen
    <3> HIDE DEF o
    <3> QED
      BY <1>5, <2>1, ReadIs
  <2> QED
    BY <2>1, <2>2, <2>3, <2>4
<1>7. /\ job.todo[1] = x /\ 1 \in DOMAIN job.todo /\ DOMAIN job.todo = 1 .. Len(job.todo) /\ Len(job.todo) \in Nat
      /\ DOMAIN Tail(job.todo) = 1 .. Len(job.todo) - 1
      /\ \A k \in DOMAIN Tail(job.todo) : Tail(job.todo)[k] = job.todo[k + 1] /\ k + 1 \in DOMAIN job.todo
  BY <1>2
<1>8. DOMAIN job = {"pc", "idx", "todo", "copied", "moofStart", "mdatStart", "videoOffset", "audioOffset"}
  BY <1>1 DEF Placed
<1>9. \/ left # 0 /\ n = 0 /\ j = [job EXCEPT !.pc = "Err"] /\ s = sink
      \/ left = 0 /\ j = [job EXCEPT !.todo = Tail(@), !.copied = 0] /\ s = sink
      \/ /\ left # 0 /\ n # 0 /\ j = [job EXCEPT !.copied = @ + n]
         /\ s = Put(sink, SourceBytes(x.offset + job.copied, n))
  BY DEF StreamChunk, OutOfSource, StopWrite
<1> HIDE DEF n
<1>10. CASE left # 0 /\ n = 0 /\ j = [job EXCEPT !.pc = "Err"] /\ s = sink
  <2>1. j.pc = "Err" /\ j.idx = job.idx
    BY <1>8, <1>10
  <2>2. ~Readable(x)
    BY <1>4, <1>5, <1>6, <1>10 DEF Readable
  <2>3. \E m \in DOMAIN SamplesIn(g) : x = SamplesIn(g)[m]
    BY <1>1, <1>7 DEF Ahead
  <2>4. ~AllReadable(g)
    BY <2>2, <2>3 DEF AllReadable
  <2> QED
    BY <2>1, <2>4 DEF Limits
<1>11. CASE left = 0 /\ j = [job EXCEPT !.todo = Tail(@), !.copied = 0] /\ s = sink
  <2>1. /\ j.pc = "stream" /\ j.idx = job.idx /\ j.todo = Tail(job.todo) /\ j.copied = 0
        /\ j.moofStart = job.moofStart /\ j.mdatStart = job.mdatStart
        /\ j.videoOffset = job.videoOffset /\ j.audioOffset = job.audioOffset /\ DOMAIN j = DOMAIN job
    BY <1>8, <1>11
  <2>2. Placed(j)
    BY <1>1, <2>1 DEF Placed
  <2>3. x.size = job.copied
    BY <1>4, <1>11
  <2>4. Readable(x)
    BY <1>1, <1>2, <2>3 DEF Ahead, Readable
  <2>5. Ahead(j)
    <3>1. \A k \in DOMAIN j.todo : \E m \in DOMAIN SamplesIn(g) : j.todo[k] = SamplesIn(g)[m]
      BY <1>1, <1>7, <2>1 DEF Ahead
    <3>2. ASSUME NEW m \in DOMAIN SamplesIn(g), ~Readable(SamplesIn(g)[m])
          PROVE  \E k \in DOMAIN j.todo : j.todo[k] = SamplesIn(g)[m]
      <4>1. PICK k \in DOMAIN job.todo : job.todo[k] = SamplesIn(g)[m]
        BY <1>1, <3>2 DEF Ahead
      <4>2. k # 1
        BY <1>7, <2>4, <3>2, <4>1
      <4>3. k - 1 \in DOMAIN Tail(job.todo) /\ (k - 1) + 1 = k
        BY <1>7, <4>1, <4>2
      <4>4. Tail(job.todo)[k - 1] = job.todo[k]
        BY <1>7, <4>3
      <4> QED
        BY <2>1, <4>1, <4>3, <4>4
    <3>3. j.todo # <<>> => Head(j.todo) \in Sample
      BY <1>3, <2>1
    <3>4. \A a \in Sample : a.size \in Nat /\ 0 <= a.size
      BY DEF Sample
    <3>5. g = Segment(j.idx)
      BY <2>1
    <3>6. j.todo \in Seq(Sample) /\ j.copied \in Nat /\ j.copied = 0
      BY <1>3, <2>1
    <3>7. j.todo # <<>> => j.copied <= Head(j.todo).size
      BY <3>3, <3>4, <3>6
    <3> HIDE DEF g
    <3> QED
      BY <3>1, <3>2, <3>5, <3>6, <3>7 DEF Ahead
  <2>6. Counted(j, s)
    <3>1. /\ DOMAIN sink = {"pos", "counting", "bytes"} /\ sink.pos \in Nat /\ sink.bytes.len = sink.pos
          /\ sink.pos + SumSizes(job.todo) = SegmentLen(job.idx) + job.copied
      BY <1>1 DEF Counted
    <3>2. SegmentLen(job.idx) \in Nat
      BY <1>1, SegmentFacts DEF Placed
    <3>3. sink.pos + SumSizes(Tail(job.todo)) = SegmentLen(job.idx) + 0
      BY <1>3, <1>4, <2>3, <3>1, <3>2
    <3> QED
      BY <1>11, <2>1, <3>1, <3>3 DEF Counted
  <2> QED
    BY <2>1, <2>2, <2>5, <2>6 DEF Writing
<1>12. CASE /\ left # 0 /\ n # 0 /\ j = [job EXCEPT !.copied = @ + n]
            /\ s = Put(sink, SourceBytes(x.offset + job.copied, n))
  <2>1. /\ j.pc = "stream" /\ j.idx = job.idx /\ j.todo = job.todo /\ j.copied = job.copied + n
        /\ j.moofStart = job.moofStart /\ j.mdatStart = job.mdatStart
        /\ j.videoOffset = job.videoOffset /\ j.audioOffset = job.audioOffset /\ DOMAIN j = DOMAIN job
    BY <1>8, <1>12
  <2>2. Placed(j)
    BY <1>1, <2>1 DEF Placed
  <2>3. j.copied \in Nat /\ j.copied <= x.size /\ x.offset + j.copied <= index.sourceLen
    BY <1>4, <1>5, <1>6, <1>12, <2>1
  <2>4. Ahead(j)
    BY <1>1, <1>2, <2>1, <2>3 DEF Ahead
  <2>5. Counted(j, s)
    <3>1. /\ DOMAIN sink = {"pos", "counting", "bytes"} /\ sink.pos \in Nat /\ sink.bytes.len = sink.pos
          /\ sink.pos + SumSizes(job.todo) = SegmentLen(job.idx) + job.copied
      BY <1>1 DEF Counted
    <3>2. SegmentLen(job.idx) \in Nat /\ SumSizes(job.todo) \in Nat
      BY <1>1, <1>2, SegmentFacts, SumSizesNat DEF Placed
    <3>3. SourceBytes(x.offset + job.copied, n).len = n
      BY DEF SourceBytes
    <3>4. DOMAIN s = {"pos", "counting", "bytes"} /\ s.pos = sink.pos + n /\ s.bytes.len = sink.pos + n
      BY <1>6, <1>12, <3>1, <3>3, PutIs
    <3>5. s.pos + SumSizes(j.todo) = SegmentLen(j.idx) + j.copied
      BY <1>4, <1>6, <2>1, <3>1, <3>2, <3>4
    <3> QED
      BY <1>6, <3>1, <3>4, <3>5 DEF Counted
  <2> QED
    BY <2>1, <2>2, <2>4, <2>5 DEF Writing
<1> QED
  BY <1>9, <1>10, <1>11, <1>12

\* Patching numbers inside of what was written leaves the length.
LEMMA PatchIs ==
  ASSUME NEW s, NEW v, DOMAIN s = {"pos", "counting", "bytes"}, s.bytes.len \in Nat,
         \A o \in DOMAIN v : o \in Nat /\ o + 4 <= s.bytes.len
  PROVE  /\ DOMAIN Patch(s, v) = {"pos", "counting", "bytes"}
         /\ Patch(s, v).pos = s.pos /\ Patch(s, v).bytes.len = s.bytes.len
<1> DEFINE L == s.bytes.len
           C == {L} \cup {o + 4 : o \in DOMAIN v}
           m == CHOOSE m \in C : m >= L /\ \A o \in DOMAIN v : m >= o + 4
<1>1. L \in C /\ L >= L /\ \A o \in DOMAIN v : L >= o + 4
  OBVIOUS
<1>2. m \in C /\ m >= L
  BY <1>1
<1>3. \A y \in C : y >= L => y = L
  OBVIOUS
<1>4. m = L
  <2> HIDE DEF m, C
  <2> QED
    BY <1>2, <1>3
<1>5. Patch(s, v) = [s EXCEPT !.bytes = [len |-> m, num |-> IF s.counting THEN <<>> ELSE v @@ @.num, code |-> @.code]]
  BY DEF Patch
<1> HIDE DEF m
<1> QED
  BY <1>4, <1>5

\* The end of a segment keeps Writing, or the data offsets break the limit of i32.
LEMMA FinishWriteIs ==
  ASSUME index \in Indexes, job.pc = "stream", Writing(job, sink), FinishWrite,
         NEW j, NEW s, j = job', s = sink'
  PROVE  /\ j.idx = job.idx
         /\ \/ j.pc = "Err" /\ ~Limits(job.idx)
            \/ j.pc = "Ok" /\ Writing(j, s)
<1> DEFINE g == Segment(job.idx)
           video == SumSizes(VideoSamples(g))
           audio == SumSizes(AudioSamples(g))
           moof == Moof(job.idx, g).len
           total == sink.pos - job.mdatStart
           first == ComputeDataOffset(job.mdatStart + 8, job.moofStart, 0)
           second == ComputeDataOffset(job.mdatStart + 8, job.moofStart, video)
           v == [o \in {job.mdatStart, job.videoOffset, job.audioOffset} |->
                   IF o = job.mdatStart THEN total ELSE IF o = job.videoOffset THEN first ELSE second]
<1>1. Placed(job) /\ Ahead(job) /\ Counted(job, sink)
  BY DEF Writing
<1>2. /\ job.idx \in 0 .. Len(index.segments) - 1 /\ InTables(g)
      /\ job.moofStart = Styp.len /\ job.mdatStart = Styp.len + moof
      /\ job.videoOffset = Styp.len + VideoOffsetPos /\ job.audioOffset = Styp.len + AudioOffsetPos(g)
      /\ DOMAIN job = {"pc", "idx", "todo", "copied", "moofStart", "mdatStart", "videoOffset", "audioOffset"}
  BY <1>1 DEF Placed
<1>3. /\ moof \in Nat /\ Styp.len = 24 /\ video \in Nat /\ audio \in Nat
      /\ VideoOffsetPos \in Nat /\ VideoOffsetPos + 4 <= moof
      /\ AudioOffsetPos(g) \in Nat /\ AudioOffsetPos(g) + 4 <= moof
  BY <1>2, SegmentFacts
<1>4. job.todo = <<>> /\ job.copied = 0 /\ SumSizes(job.todo) = 0
  BY <1>1, SumSizesEmpty DEF FinishWrite, Ahead
<1>5. SegmentLen(job.idx) = Styp.len + moof + 8 + (video + audio)
  BY DEF SegmentLen
<1>6. /\ DOMAIN sink = {"pos", "counting", "bytes"} /\ sink.pos \in Nat /\ sink.bytes.len = sink.pos
      /\ sink.pos + SumSizes(job.todo) = SegmentLen(job.idx) + job.copied
  BY <1>1 DEF Counted
<1>7. first = moof + 8 /\ second = moof + 8 + video
  <2> HIDE DEF moof, video
  <2> QED
    BY <1>2, <1>3 DEF ComputeDataOffset
<1>8. IF total # video + audio + 8 THEN j = [job EXCEPT !.pc = "panic"] /\ s = sink
      ELSE IF first > I32Max \/ second > I32Max THEN j = [job EXCEPT !.pc = "Err"] /\ s = sink
      ELSE j = [job EXCEPT !.pc = "Ok"] /\ s = Patch(sink, v)
  BY DEF FinishWrite, StopWrite, Segment
<1>9. OffsetsFit(job.idx) <=> second <= I32Max
  BY <1>7 DEF OffsetsFit
<1> HIDE DEF moof, video, audio, first, second, v
<1>10. total = video + audio + 8
  BY <1>2, <1>3, <1>4, <1>5, <1>6
<1> HIDE DEF total
<1>11. I32Max \in Nat
  BY MediaAssumption
<1>12. CASE first > I32Max \/ second > I32Max
  <2>1. j.pc = "Err" /\ j.idx = job.idx
    BY <1>2, <1>8, <1>10, <1>12
  <2>2. ~(second <= I32Max)
    BY <1>3, <1>7, <1>11, <1>12
  <2> QED
    BY <1>9, <2>1, <2>2 DEF Limits
<1>13. CASE ~(first > I32Max \/ second > I32Max)
  <2>1. j = [job EXCEPT !.pc = "Ok"] /\ s = Patch(sink, v)
    BY <1>8, <1>10, <1>13
  <2>2. /\ j.pc = "Ok" /\ j.idx = job.idx /\ j.todo = job.todo /\ j.copied = job.copied
        /\ j.moofStart = job.moofStart /\ j.mdatStart = job.mdatStart
        /\ j.videoOffset = job.videoOffset /\ j.audioOffset = job.audioOffset /\ DOMAIN j = DOMAIN job
    BY <1>2, <2>1
  <2>3. Placed(j)
    BY <1>1, <2>2 DEF Placed
  <2>4. Ahead(j)
    BY <1>1, <2>2 DEF Ahead
  <2>5. OffsetsFit(j.idx)
    BY <1>3, <1>7, <1>9, <1>11, <1>13, <2>2
  <2>6. DOMAIN v = {job.mdatStart, job.videoOffset, job.audioOffset}
    BY DEF v
  <2>7. \A o \in DOMAIN v : o \in Nat /\ o + 4 <= sink.bytes.len
    BY <1>2, <1>3, <1>4, <1>5, <1>6, <2>6, SMTT(30)
  <2>8. DOMAIN s = {"pos", "counting", "bytes"} /\ s.pos = sink.pos /\ s.bytes.len = sink.bytes.len
    BY <1>6, <2>1, <2>7, PatchIs
  <2>9. Counted(j, s)
    BY <1>6, <2>2, <2>8 DEF Counted
  <2> QED
    BY <1>4, <2>2, <2>3, <2>4, <2>5, <2>9 DEF Writing
<1> QED
  BY <1>12, <1>13

-----------------------------------------------------------------------------
(***************************************************************************)
(* The names of segments: what SegmentName writes, ValueOf reads.          *)
(***************************************************************************)
LEMMA Scaled ==
  ASSUME NEW d \in Nat, NEW m \in Int, NEW n \in Int, m <= n
  PROVE  d * m <= d * n /\ d * m \in Int /\ d * n \in Int
<1>1. n - m \in Nat
  OBVIOUS
<1>2. d * (n - m) \in Nat
  BY <1>1
<1>3. d * (n - m) = d * n - d * m
  OBVIOUS
<1> QED
  BY <1>2, <1>3

\* A quotient is determined by its remainder.
LEMMA DivIs ==
  ASSUME NEW n \in Nat, NEW d \in Nat \ {0}, NEW q \in Nat, NEW r \in Nat, r < d, n = d * q + r
  PROVE  n \div d = q
<1> DEFINE p == n \div d
           s == n % d
<1>1. p \in Nat /\ s \in Nat /\ s < d /\ n = d * p + s
  OBVIOUS
<1> HIDE DEF p, s
<1>2. CASE p > q
  <2>1. d * (q + 1) <= d * p
    BY <1>1, <1>2, Scaled
  <2>2. d * (q + 1) = d * q + d
    OBVIOUS
  <2>3. d * q \in Nat /\ d * p \in Nat
    BY <1>1
  <2> QED
    BY <1>1, <2>1, <2>2, <2>3
<1>3. CASE p < q
  <2>1. d * (p + 1) <= d * q
    BY <1>1, <1>3, Scaled
  <2>2. d * (p + 1) = d * p + d
    BY <1>1
  <2>3. d * q \in Nat /\ d * p \in Nat
    BY <1>1
  <2> QED
    BY <1>1, <2>1, <2>2, <2>3
<1>4. p = q
  BY <1>1, <1>2, <1>3
<1> QED
  BY <1>4 DEF p

\* Dividing twice is dividing by the product.
LEMMA DivTwice ==
  ASSUME NEW n \in Nat, NEW d \in Nat \ {0}, NEW b \in Nat \ {0}
  PROVE  n \div (b * d) = (n \div d) \div b
<1> DEFINE m == n \div d
           r == n % d
           q == m \div b
           c == m % b
<1>1. m \in Nat /\ r \in Nat /\ r < d /\ n = d * m + r
  OBVIOUS
<1> HIDE DEF m, r
<1>2. q \in Nat /\ c \in Nat /\ c < b /\ m = b * q + c
  BY <1>1
<1> HIDE DEF q, c
<1>3. n = (b * d) * q + (d * c + r)
  BY <1>1, <1>2
<1>4. d * c + r \in Nat /\ b * d \in Nat \ {0}
  BY <1>1, <1>2
<1>5. d * c + r < b * d
  <2>1. d * c <= d * (b - 1)
    BY <1>2, Scaled
  <2>2. d * (b - 1) = b * d - d
    OBVIOUS
  <2>3. d * c \in Nat /\ b * d \in Nat
    BY <1>2
  <2> QED
    BY <1>1, <2>1, <2>2, <2>3
<1> DEFINE e == b * d
           t == d * c + r
<1>6. n = e * q + t /\ t < e /\ e \in Nat \ {0} /\ t \in Nat
  BY <1>3, <1>4, <1>5
<1> HIDE DEF e, t
<1>7. n \div e = q
  BY <1>2, <1>6, DivIs
<1> QED
  BY <1>7 DEF e, q, m

\* The powers of Base exist: PowersUpTo for every number, and all agree.
PowersUpTo(u, n) == u[0] = 1 /\ \A i \in 1 .. n : u[i] = Base * u[i - 1]

\* There are powers of Base up to any exponent,
LEMMA PowersExist ==
  ASSUME NEW n \in Nat
  PROVE  \E u : PowersUpTo(u, n)
<1> DEFINE S == {k \in Nat : ~\E u : PowersUpTo(u, k)}
<1>1. 0 \notin S
  <2> DEFINE u == [i \in 0 .. 0 |-> 1]
  <2>1. PowersUpTo(u, 0)
    BY DEF PowersUpTo
  <2> QED
    BY <2>1
<1>2. ASSUME NEW k \in Nat, k \notin S PROVE k + 1 \notin S
  <2>1. PICK u : PowersUpTo(u, k)
    BY <1>2
  <2> DEFINE v == [i \in 0 .. k + 1 |-> IF i = k + 1 THEN Base * u[k] ELSE u[i]]
  <2>2. v[0] = 1
    BY <2>1 DEF PowersUpTo
  <2>3. ASSUME NEW i \in 1 .. k + 1 PROVE v[i] = Base * v[i - 1]
    <3>1. CASE i = k + 1
      <4>1. i - 1 = k /\ v[k] = u[k] /\ v[k + 1] = Base * u[k]
        BY <3>1
      <4> QED
        BY <3>1, <4>1
    <3>2. CASE i # k + 1
      <4>1. i \in 1 .. k /\ v[i] = u[i] /\ v[i - 1] = u[i - 1]
        BY <3>2
      <4> QED
        BY <2>1, <4>1 DEF PowersUpTo
    <3> QED
      BY <3>1, <3>2
  <2> HIDE DEF v
  <2>4. PowersUpTo(v, k + 1)
    BY <2>2, <2>3 DEF PowersUpTo
  <2> QED
    BY <2>4
<1>3. S = {}
  <2>1. S \in SUBSET Nat
    OBVIOUS
  <2> HIDE DEF S
  <2> QED
    BY <1>1, <1>2, <2>1, NoneIn
<1> QED
  BY <1>3

\* the same ones whatever the last exponent is,
LEMMA PowersAgree ==
  ASSUME NEW m \in Nat, NEW n \in Nat, NEW u, NEW v, PowersUpTo(u, m), PowersUpTo(v, n)
  PROVE  \A i \in Nat : i <= m /\ i <= n => u[i] = v[i]
<1> DEFINE S == {k \in Nat : k <= m /\ k <= n /\ u[k] # v[k]}
<1>1. 0 \notin S
  BY DEF PowersUpTo
<1>2. ASSUME NEW k \in Nat, k \notin S PROVE k + 1 \notin S
  <2> SUFFICES ASSUME k + 1 <= m, k + 1 <= n PROVE u[k + 1] = v[k + 1]
    OBVIOUS
  <2>1. k + 1 \in 1 .. m /\ k + 1 \in 1 .. n /\ (k + 1) - 1 = k /\ u[k] = v[k]
    BY <1>2
  <2> QED
    BY <2>1 DEF PowersUpTo
<1>3. S = {}
  <2>1. S \in SUBSET Nat
    OBVIOUS
  <2> HIDE DEF S
  <2> QED
    BY <1>1, <1>2, <2>1, NoneIn
<1> QED
  BY <1>3

PowerFcn(p) == p = [w \in Nat |-> IF w = 0 THEN 1 ELSE Base * p[w - 1]]

\* hence for all exponents.
LEMMA PowerExists == \E p : PowerFcn(p)
<1> DEFINE U(w) == CHOOSE u : PowersUpTo(u, w)
           p == [w \in Nat |-> U(w)[w]]
<1>1. ASSUME NEW w \in Nat PROVE PowersUpTo(U(w), w)
  BY PowersExist
<1> HIDE DEF U
<1>2. ASSUME NEW w \in Nat PROVE p[w] = IF w = 0 THEN 1 ELSE Base * p[w - 1]
  <2>1. CASE w = 0
    BY <1>1, <2>1 DEF PowersUpTo
  <2>2. CASE w # 0
    <3>1. w - 1 \in Nat /\ w \in 1 .. w
      BY <2>2
    <3>2. U(w)[w] = Base * U(w)[w - 1]
      BY <1>1, <3>1 DEF PowersUpTo
    <3>3. U(w)[w - 1] = U(w - 1)[w - 1]
      BY <1>1, <3>1, PowersAgree
    <3> QED
      BY <2>2, <3>1, <3>2, <3>3
  <2> QED
    BY <2>1, <2>2
<1> HIDE DEF p
<1>3. p = [w \in Nat |-> p[w]]
  BY DEF p
<1>4. PowerFcn(p)
  BY <1>2, <1>3 DEF PowerFcn
<1> QED
  BY <1>4

\* The recursion of Power.
LEMMA PowerIs == Power[0] = 1 /\ \A w \in Nat : Power[w + 1] = Base * Power[w]
<1>1. Power = CHOOSE p : PowerFcn(p)
  BY DEF Power, PowerFcn
<1>2. PowerFcn(Power)
  BY <1>1, PowerExists
<1>3. \A w \in Nat : Power[w] = IF w = 0 THEN 1 ELSE Base * Power[w - 1]
  BY <1>2 DEF PowerFcn
<1>4. ASSUME NEW w \in Nat PROVE Power[w + 1] = Base * Power[w]
  <2>1. w + 1 \in Nat /\ w + 1 # 0 /\ (w + 1) - 1 = w
    OBVIOUS
  <2>2. Power[w + 1] = Base * Power[(w + 1) - 1]
    BY <1>3, <2>1
  <2> QED
    BY <2>1, <2>2
<1> QED
  BY <1>3, <1>4

\* Powers of Base are larger than their exponents.
LEMMA PowerGrows == \A w \in Nat : Power[w] \in Nat /\ Power[w] > w
<1> DEFINE S == {k \in Nat : ~(Power[k] \in Nat /\ Power[k] > k)}
<1>1. 0 \notin S
  BY PowerIs
<1>2. ASSUME NEW k \in Nat, k \notin S PROVE k + 1 \notin S
  <2>1. Power[k] \in Nat /\ Power[k] > k /\ Power[k + 1] = Base * Power[k]
    BY <1>2, PowerIs
  <2>2. Base \in Nat /\ 2 <= Base
    BY PlaylistAssumption
  <2>3. Power[k] * 2 <= Power[k] * Base
    BY <2>1, <2>2, Scaled
  <2>4. Power[k] * Base = Base * Power[k] /\ Base * Power[k] \in Nat
    BY <2>1, <2>2
  <2> QED
    BY <2>1, <2>3, <2>4
<1>3. S = {}
  <2>1. S \in SUBSET Nat
    OBVIOUS
  <2> HIDE DEF S
  <2> QED
    BY <1>1, <1>2, <2>1, NoneIn
<1> QED
  BY <1>3

-----------------------------------------------------------------------------
\* Enough digits, and no more than MinDigits unless they are needed.
WidthIs(n, w) ==
  w \in MinDigits .. MinDigits + n /\ Power[w] > n /\ (w = MinDigits \/ Power[w - 1] <= n)

\* Every number has a width: digits enough for it, and not one more.
LEMMA WidthExists ==
  ASSUME NEW n \in Nat
  PROVE  \E w : WidthIs(n, w)
<1> DEFINE S == {w \in MinDigits .. MinDigits + n : Power[w] > n}
<1>1. MinDigits \in Nat /\ MinDigits # 0
  BY PlaylistAssumption
<1>2. MinDigits + n \in S
  <2>1. MinDigits + n \in Nat
    BY <1>1
  <2>2. Power[MinDigits + n] \in Nat /\ Power[MinDigits + n] > MinDigits + n
    BY <2>1, PowerGrows
  <2> QED
    BY <1>1, <2>2
<1>3. S \in SUBSET Nat /\ S # {}
  BY <1>1, <1>2
<1>4. PICK w \in S : \A y \in S : w <= y
  <2> HIDE DEF S
  <2> QED
    BY <1>3, LeastElement
<1>5. ASSUME w # MinDigits PROVE Power[w - 1] <= n
  <2>1. w - 1 \in MinDigits .. MinDigits + n /\ w - 1 \in Nat /\ w - 1 \notin S
    BY <1>1, <1>4, <1>5
  <2>2. Power[w - 1] \in Nat /\ ~(Power[w - 1] > n)
    BY <2>1, PowerGrows
  <2> QED
    BY <2>2
<1>6. WidthIs(n, w)
  BY <1>4, <1>5 DEF WidthIs
<1> QED
  BY <1>6

\* The digits of a name.
LEMMA NameIs ==
  ASSUME NEW n \in Nat
  PROVE  \E w \in Nat :
           /\ w >= MinDigits /\ Power[w] > n /\ (w = MinDigits \/ Power[w - 1] <= n)
           /\ SegmentName(n) = [prefix |-> TRUE, suffix |-> TRUE,
                                body |-> [i \in 1 .. w |-> (n \div Power[w - i]) % Base]]
<1> DEFINE P(w) == Power[w] > n /\ (w = MinDigits \/ Power[w - 1] <= n)
           w == CHOOSE w \in MinDigits .. MinDigits + n : P(w)
<1>1. \E x \in MinDigits .. MinDigits + n : P(x)
  BY WidthExists DEF WidthIs
<1>2. w \in MinDigits .. MinDigits + n /\ P(w)
  BY <1>1
<1>3. SegmentName(n) = [prefix |-> TRUE, suffix |-> TRUE,
                        body |-> [i \in 1 .. w |-> (n \div Power[w - i]) % Base]]
  BY DEF SegmentName
<1>4. MinDigits \in Nat
  BY PlaylistAssumption
<1> HIDE DEF w
<1>5. w \in Nat /\ w >= MinDigits /\ Power[w] > n /\ (w = MinDigits \/ Power[w - 1] <= n)
  BY <1>2, <1>4
<1> QED
  BY <1>3, <1>5

\* A sequence over a set is one over a larger set.
LEMMA WiderSeq ==
  ASSUME NEW A, NEW B, A \subseteq B, NEW x \in Seq(A)
  PROVE  x \in Seq(B) /\ \A i \in DOMAIN x : x[i] \in A
  OBVIOUS

\* Reading the first i digits gives the number without its last w - i digits.
LEMMA DigitsValue ==
  ASSUME NEW n \in Nat, NEW w \in Nat, Power[w] > n, NEW s,
         s = [i \in 1 .. w |-> (n \div Power[w - i]) % Base]
  PROVE  ValueOf(s) = n /\ s \in Seq(0 .. Base - 1) /\ Len(s) = w
<1>1. Base \in Nat \ {0}
  BY PlaylistAssumption
<1>2. ASSUME NEW i \in 0 .. w PROVE n \div Power[w - i] \in Nat /\ Power[w - i] \in Nat \ {0}
  <2>1. w - i \in Nat
    OBVIOUS
  <2>2. Power[w - i] \in Nat \ {0}
    <3>1. Power[w - i] \in Nat /\ Power[w - i] > w - i
      BY <2>1, PowerGrows
    <3> QED
      BY <2>1, <3>1
  <2> DEFINE d == Power[w - i]
  <2> HIDE DEF d
  <2>3. d \in Nat \ {0}
    BY <2>2 DEF d
  <2>4. n \div d \in Nat
    BY <2>3
  <2> QED
    BY <2>2, <2>4 DEF d
<1>3. ASSUME NEW i \in 1 .. w PROVE s[i] \in 0 .. Base - 1 /\ s[i] = (n \div Power[w - i]) % Base
  <2>1. n \div Power[w - i] \in Nat
    BY <1>2
  <2> DEFINE q == n \div Power[w - i]
  <2> HIDE DEF q
  <2>2. q % Base \in 0 .. Base - 1
    BY <1>1, <2>1 DEF q
  <2> QED
    BY <2>2 DEF q
<1>4. DOMAIN s = 1 .. w /\ s \in Seq(0 .. Base - 1) /\ Len(s) = w
  <2>1. DOMAIN s = 1 .. w
    OBVIOUS
  <2>2. s \in [1 .. w -> 0 .. Base - 1]
    BY <1>3
  <2> QED
    BY <2>1, <2>2
<1>5. PICK u : ValueUpTo(u, s, w) /\ ValueOf(s) = u[w]
  BY <1>4, ValueSteps
<1> DEFINE S == {k \in Nat : k <= w /\ u[k] # n \div Power[w - k]}
<1>6. 0 \notin S
  <2>1. u[0] = 0 /\ Power[w] \in Nat
    BY <1>5, PowerGrows DEF ValueUpTo
  <2> DEFINE d == Power[w]
  <2> HIDE DEF d
  <2>2. d \in Nat /\ d > n
    BY <2>1 DEF d
  <2>3. n \div d = 0
    BY <2>2
  <2>4. w - 0 = w
    OBVIOUS
  <2> QED
    BY <2>1, <2>3, <2>4 DEF d
<1>7. ASSUME NEW k \in Nat, k \notin S PROVE k + 1 \notin S
  <2> SUFFICES ASSUME k + 1 <= w PROVE u[k + 1] = n \div Power[w - (k + 1)]
    OBVIOUS
  <2>1. u[k] = n \div Power[w - k]
    BY <1>7
  <2>2. k + 1 \in 1 .. w /\ (k + 1) - 1 = k /\ w - (k + 1) \in Nat /\ (w - (k + 1)) + 1 = w - k
        /\ k + 1 \in 0 .. w
    OBVIOUS
  <2>3. u[k + 1] = Base * u[k] + s[k + 1]
    BY <1>5, <2>2 DEF ValueUpTo
  <2> DEFINE d == Power[w - (k + 1)]
             q == n \div d
  <2>4. Power[w - k] = Base * d
    BY <2>2, PowerIs
  <2>5. d \in Nat \ {0} /\ q \in Nat
    BY <1>2, <2>2
  <2>6. s[k + 1] = q % Base
    BY <1>3, <2>2
  <2> HIDE DEF d
  <2>7. n \div (Base * d) = q \div Base
    BY <1>1, <2>5, DivTwice
  <2> HIDE DEF q
  <2>8. q = Base * (q \div Base) + (q % Base)
    BY <1>1, <2>5
  <2>9. u[k + 1] = q
    BY <2>1, <2>3, <2>4, <2>6, <2>7, <2>8
  <2> QED
    BY <2>9 DEF q, d
<1>8. S = {}
  <2>1. S \in SUBSET Nat
    OBVIOUS
  <2> HIDE DEF S
  <2> QED
    BY <1>6, <1>7, <2>1, NoneIn
<1>9. u[w] = n \div Power[w - w]
  BY <1>8
<1>10. Power[w - w] = 1
  BY PowerIs
<1>11. n \div 1 = n
  OBVIOUS
<1> QED
  BY <1>4, <1>5, <1>9, <1>10, <1>11

\* A segment's name is read as its index.
LEMMA NameReadsBack ==
  ASSUME NEW n \in 1 .. NumberMax
  PROVE  /\ ParseSegmentIdx(SegmentName(n)) = n - 1
         /\ ValueOf(SegmentName(n).body) = n
         /\ SegmentName(n) \in Name
<1>1. NumberMax \in Nat /\ n \in Nat /\ MinDigits \in Nat
  BY PlaylistAssumption
<1>2. PICK w \in Nat :
           /\ w >= MinDigits /\ Power[w] > n
           /\ SegmentName(n) = [prefix |-> TRUE, suffix |-> TRUE,
                                body |-> [i \in 1 .. w |-> (n \div Power[w - i]) % Base]]
  BY <1>1, NameIs
<1> DEFINE s == [i \in 1 .. w |-> (n \div Power[w - i]) % Base]
<1>3. ValueOf(s) = n /\ s \in Seq(0 .. Base - 1) /\ Len(s) = w
  BY <1>1, <1>2, DigitsValue
<1>4. SegmentName(n) = [prefix |-> TRUE, suffix |-> TRUE, body |-> s]
  BY <1>2
<1> HIDE DEF s
<1>5. \A i \in DOMAIN s : s[i] # NonDigit
  <2>1. \A i \in DOMAIN s : s[i] \in 0 .. Base - 1
    BY <1>3, WiderSeq
  <2> QED
    BY <2>1 DEF NonDigit
<1>6. IsSegmentName(SegmentName(n))
  BY <1>1, <1>2, <1>3, <1>4, <1>5 DEF IsSegmentName
<1>7. s \in Seq(Characters)
  <2>1. 0 .. Base - 1 \subseteq Characters
    BY DEF Characters
  <2> QED
    BY <1>3, <2>1, WiderSeq
<1> QED
  BY <1>1, <1>3, <1>4, <1>6, <1>7 DEF ParseSegmentIdx, Name

\* Digits of any kind stand for an integer.
LEMMA ValueInt ==
  ASSUME NEW s \in Seq(Int)
  PROVE  ValueOf(s) \in Int
<1> DEFINE n == Len(s)
<1>1. n \in Nat /\ DOMAIN s = 1 .. n /\ \A i \in 1 .. n : s[i] \in Int
  OBVIOUS
<1>2. PICK u : ValueUpTo(u, s, n) /\ ValueOf(s) = u[n]
  BY <1>1, ValueSteps
<1> DEFINE S == {k \in Nat : k <= n /\ u[k] \notin Int}
<1>3. 0 \notin S
  BY <1>2 DEF ValueUpTo
<1>4. ASSUME NEW k \in Nat, k \notin S PROVE k + 1 \notin S
  <2> SUFFICES ASSUME k + 1 <= n PROVE u[k + 1] \in Int
    OBVIOUS
  <2>1. k + 1 \in 1 .. n /\ (k + 1) - 1 = k /\ u[k] \in Int
    BY <1>1, <1>4
  <2>2. u[k + 1] = Base * u[k] + s[k + 1]
    BY <1>2, <2>1 DEF ValueUpTo
  <2>3. s[k + 1] \in Int /\ Base \in Int
    BY <1>1, <2>1, PlaylistAssumption
  <2> QED
    BY <2>1, <2>2, <2>3
<1>5. S = {}
  <2>1. S \in SUBSET Nat
    OBVIOUS
  <2> HIDE DEF S
  <2> QED
    BY <1>3, <1>4, <2>1, NoneIn
<1> QED
  BY <1>1, <1>2, <1>5

\* What is read of a name is an index, or none.
LEMMA ParseIs ==
  ASSUME NEW a \in Name
  PROVE  /\ ParseSegmentIdx(a) \in Nat \/ ParseSegmentIdx(a) = NoSegment
         /\ ParseSegmentIdx(a) # NoSegment =>
              /\ a.prefix /\ a.suffix /\ a # Nothing
              /\ ValueOf(a.body) = ParseSegmentIdx(a) + 1
<1>1. ValueOf(a.body) \in Int
  <2>1. a.body \in Seq(Characters) /\ Characters \subseteq Int
    BY PlaylistAssumption DEF Name, Characters, NonDigit
  <2>2. a.body \in Seq(Int)
    BY <2>1, WiderSeq
  <2> QED
    BY <2>2, ValueInt
<1>2. Nothing.prefix = FALSE
  BY DEF Nothing
<1> QED
  BY <1>1, <1>2 DEF ParseSegmentIdx, IsSegmentName, NoSegment

\* A higher power is not smaller.
LEMMA PowerMonotonic ==
  ASSUME NEW a \in Nat, NEW b \in Nat, a <= b
  PROVE  Power[a] <= Power[b] /\ Power[a] \in Nat /\ Power[b] \in Nat
<1> DEFINE S == {k \in Nat : ~(Power[a] <= Power[a + k])}
<1>1. 0 \notin S
  <2>1. a + 0 = a /\ Power[a] \in Nat
    BY PowerGrows
  <2> QED
    BY <2>1
<1>2. ASSUME NEW k \in Nat, k \notin S PROVE k + 1 \notin S
  <2>1. a + k \in Nat /\ a + (k + 1) = (a + k) + 1
    OBVIOUS
  <2>2. /\ Power[a + k] \in Nat /\ Power[a] \in Nat /\ Power[a] <= Power[a + k]
        /\ Power[(a + k) + 1] = Base * Power[a + k]
    BY <1>2, <2>1, PowerGrows, PowerIs
  <2> DEFINE p == Power[a + k]
  <2> HIDE DEF p
  <2>3. p \in Nat /\ Base \in Nat /\ 1 <= Base
    BY <2>2, PlaylistAssumption DEF p
  <2>4. p * 1 <= p * Base /\ p * Base = Base * p /\ Base * p \in Nat
    BY <2>3, Scaled
  <2>5. p <= Base * p
    BY <2>3, <2>4
  <2>6. Power[a] <= Power[(a + k) + 1]
    BY <2>2, <2>3, <2>4, <2>5 DEF p
  <2> QED
    BY <2>1, <2>6
<1>3. S = {}
  <2>1. S \in SUBSET Nat
    OBVIOUS
  <2> HIDE DEF S
  <2> QED
    BY <1>1, <1>2, <2>1, NoneIn
<1>4. b - a \in Nat /\ a + (b - a) = b
  OBVIOUS
<1> QED
  BY <1>3, <1>4, PowerGrows

\* The digits of a number are determined by it and by how many they are.
LEMMA DigitsOf ==
  ASSUME NEW m \in Nat, NEW s \in [1 .. m -> 0 .. Base - 1], NEW n \in Nat, ValueOf(s) = n
  PROVE  Power[m] > n /\ \A i \in 1 .. m : s[i] = (n \div Power[m - i]) % Base
<1>1. Base \in Nat \ {0}
  BY PlaylistAssumption
<1>2. PICK u : ValueUpTo(u, s, m) /\ ValueOf(s) = u[m]
  BY ValueSteps
<1>n. \A k \in 0 .. m : u[k] \in Nat
  <2> DEFINE S == {k \in Nat : k <= m /\ u[k] \notin Nat}
  <2>1. 0 \notin S
    BY <1>2 DEF ValueUpTo
  <2>2. ASSUME NEW k \in Nat, k \notin S PROVE k + 1 \notin S
    <3> SUFFICES ASSUME k + 1 <= m PROVE u[k + 1] \in Nat
      OBVIOUS
    <3>1. k + 1 \in 1 .. m /\ (k + 1) - 1 = k /\ u[k] \in Nat
      BY <2>2
    <3>2. u[k + 1] = Base * u[k] + s[k + 1] /\ s[k + 1] \in 0 .. Base - 1
      BY <1>2, <3>1 DEF ValueUpTo
    <3>3. Base * u[k] \in Nat /\ s[k + 1] \in Nat
      BY <1>1, <3>1, <3>2
    <3> QED
      BY <3>2, <3>3
  <2>3. S = {}
    <3>1. S \in SUBSET Nat
      OBVIOUS
    <3> HIDE DEF S
    <3> QED
      BY <2>1, <2>2, <3>1, NoneIn
  <2> QED
    BY <2>3
<1>3. ASSUME NEW j \in 1 .. m
      PROVE  u[j] \div Base = u[j - 1] /\ u[j] % Base = s[j]
  <2>1. /\ u[j] = Base * u[j - 1] + s[j] /\ s[j] \in 0 .. Base - 1
        /\ u[j] \in Nat /\ u[j - 1] \in Nat
    BY <1>2, <1>n DEF ValueUpTo
  <2> DEFINE q == u[j]
             p == u[j - 1]
             r == s[j]
  <2>2. q \in Nat /\ p \in Nat /\ r \in Nat /\ r < Base /\ q = Base * p + r
    BY <1>1, <2>1
  <2> HIDE DEF q, p, r
  <2>3. q \div Base = p
    BY <1>1, <2>2, DivIs
  <2>4. q = Base * (q \div Base) + (q % Base) /\ q % Base \in Nat
    BY <1>1, <2>2
  <2>5. Base * p \in Nat
    BY <1>1, <2>2
  <2>6. q % Base = r
    BY <2>2, <2>3, <2>4, <2>5
  <2> QED
    BY <2>3, <2>6 DEF q, p, r
<1> DEFINE S == {k \in Nat : k <= m /\ u[m - k] # n \div Power[k]}
<1>4. 0 \notin S
  <2>1. Power[0] = 1 /\ n \div 1 = n /\ m - 0 = m
    BY PowerIs
  <2> QED
    BY <1>2, <2>1
<1>5. ASSUME NEW k \in Nat, k \notin S PROVE k + 1 \notin S
  <2> SUFFICES ASSUME k + 1 <= m PROVE u[m - (k + 1)] = n \div Power[k + 1]
    OBVIOUS
  <2>1. m - k \in 1 .. m /\ (m - k) - 1 = m - (k + 1) /\ u[m - k] = n \div Power[k]
    BY <1>5
  <2>2. u[m - (k + 1)] = u[m - k] \div Base
    BY <1>3, <2>1
  <2>3. Power[k + 1] = Base * Power[k] /\ Power[k] \in Nat \ {0}
    <3>1. Power[k + 1] = Base * Power[k]
      BY PowerIs
    <3>2. Power[k] \in Nat /\ Power[k] > k
      BY PowerGrows
    <3> QED
      BY <3>1, <3>2
  <2> DEFINE d == Power[k]
  <2> HIDE DEF d
  <2>4. n \div (Base * d) = (n \div d) \div Base
    BY <1>1, <2>3, DivTwice DEF d
  <2> QED
    BY <2>1, <2>2, <2>3, <2>4 DEF d
<1>6. \A k \in 0 .. m : u[m - k] = n \div Power[k]
  <2>1. S \in SUBSET Nat
    OBVIOUS
  <2>2. S = {}
    <3> HIDE DEF S
    <3> QED
      BY <1>4, <1>5, <2>1, NoneIn
  <2> QED
    BY <2>2
<1>7. Power[m] > n
  <2>1. n \div Power[m] = 0 /\ Power[m] \in Nat /\ Power[m] > m
    <3>1. m \in 0 .. m /\ m - m = 0
      OBVIOUS
    <3>2. u[0] = 0
      BY <1>2 DEF ValueUpTo
    <3>3. n \div Power[m] = 0
      BY <1>6, <3>1, <3>2
    <3> QED
      BY <3>3, PowerGrows
  <2> DEFINE d == Power[m]
  <2> HIDE DEF d
  <2>2. d \in Nat \ {0} /\ n \div d = 0
    BY <2>1 DEF d
  <2>3. n = d * (n \div d) + (n % d) /\ n % d < d /\ n % d \in Nat
    BY <2>2
  <2>4. d * 0 = 0
    BY <2>2
  <2> QED
    BY <2>2, <2>3, <2>4 DEF d
<1>8. ASSUME NEW i \in 1 .. m PROVE s[i] = (n \div Power[m - i]) % Base
  <2>1. m - i \in 0 .. m /\ m - (m - i) = i
    OBVIOUS
  <2>2. u[i] = n \div Power[m - i]
    BY <1>6, <2>1
  <2> QED
    BY <1>3, <2>2
<1> QED
  BY <1>7, <1>8

\* Zeros in front are the digits that a number has beyond its width.
LEMMA PaddedDigits ==
  ASSUME NEW n \in Nat, NEW w \in Nat, Power[w] > n, NEW m \in Nat, w <= m, NEW j \in 1 .. m
  PROVE  (n \div Power[m - j]) % Base =
           IF j <= m - w THEN 0 ELSE (n \div Power[w - (j - (m - w))]) % Base
<1>1. CASE j <= m - w
  <2>1. m - j \in Nat /\ w <= m - j
    BY <1>1
  <2>2. Power[w] <= Power[m - j] /\ Power[m - j] \in Nat /\ Power[w] \in Nat
    BY <2>1, PowerMonotonic
  <2> DEFINE d == Power[m - j]
  <2> HIDE DEF d
  <2>3. d \in Nat /\ d > n
    BY <2>2 DEF d
  <2>4. n \div d = 0
    BY <2>3
  <2>5. 0 % Base = 0
    BY PlaylistAssumption
  <2> QED
    BY <1>1, <2>4, <2>5 DEF d
<1>2. CASE ~(j <= m - w)
  <2>1. w - (j - (m - w)) = m - j
    OBVIOUS
  <2> QED
    BY <1>2, <2>1
<1> QED
  BY <1>1, <1>2

\* parse_segment_idx reads the i-th segment exactly from the i-th name of the playlist
\* and from those that have more zeros in front.
LEMMA ReadsExactlyPadded ==
  ASSUME NEW a \in Name, NEW n \in 1 .. NumberMax
  PROVE  Stands(a, SegmentName(n)) <=> ParseSegmentIdx(a) = n - 1
<1>1. NumberMax \in Nat /\ n \in Nat \ {0} /\ MinDigits \in Nat \ {0} /\ Base \in Nat \ {0, 1}
  BY PlaylistAssumption
<1>2. PICK w \in Nat :
           /\ w >= MinDigits /\ Power[w] > n /\ (w = MinDigits \/ Power[w - 1] <= n)
           /\ SegmentName(n) = [prefix |-> TRUE, suffix |-> TRUE,
                                body |-> [i \in 1 .. w |-> (n \div Power[w - i]) % Base]]
  BY <1>1, NameIs
<1> DEFINE c == SegmentName(n).body
           s == a.body
           m == Len(s)
<1>3. SegmentName(n).prefix = TRUE /\ SegmentName(n).suffix = TRUE
  BY <1>2
<1>4. c = [i \in 1 .. w |-> (n \div Power[w - i]) % Base]
  BY <1>2
<1>5. Len(c) = w
  <2> HIDE DEF c
  <2> QED
    BY <1>1, <1>2, <1>4, DigitsValue
<1>6. s \in Seq(Characters) /\ m \in Nat /\ DOMAIN s = 1 .. m /\ a.prefix \in BOOLEAN /\ a.suffix \in BOOLEAN
  BY DEF Name
<1>7. Stands(a, SegmentName(n)) <=>
        /\ a.prefix = TRUE /\ a.suffix = TRUE /\ m - w >= 0
        /\ \A j \in 1 .. m : s[j] = IF j <= m - w THEN 0 ELSE c[j - (m - w)]
  BY <1>3, <1>5, <1>6 DEF Stands
<1> HIDE DEF c, s, m
<1>8. ASSUME NEW j \in 1 .. m, w <= m
      PROVE  (IF j <= m - w THEN 0 ELSE c[j - (m - w)]) = (n \div Power[m - j]) % Base
  <2>1. j > m - w => j - (m - w) \in 1 .. w
    BY <1>6, <1>8
  <2>2. j > m - w => c[j - (m - w)] = (n \div Power[w - (j - (m - w))]) % Base
    BY <1>4, <2>1
  <2>3. (n \div Power[m - j]) % Base =
           IF j <= m - w THEN 0 ELSE (n \div Power[w - (j - (m - w))]) % Base
    <3>1. n \in Nat /\ w \in Nat /\ Power[w] > n /\ m \in Nat /\ w <= m /\ j \in 1 .. m
      BY <1>1, <1>2, <1>6, <1>8
    <3> QED
      BY <3>1, PaddedDigits
  <2> QED
    BY <1>6, <2>2, <2>3
<1>9. ASSUME Stands(a, SegmentName(n)) PROVE ParseSegmentIdx(a) = n - 1
  <2>1. w <= m /\ a.prefix /\ a.suffix
    BY <1>6, <1>7, <1>9
  <2>2. \A j \in 1 .. m : s[j] = (n \div Power[m - j]) % Base
    BY <1>7, <1>8, <1>9, <2>1
  <2>3. s = [j \in 1 .. m |-> (n \div Power[m - j]) % Base]
    BY <1>6, <2>2
  <2>4. Power[m] > n
    <3>1. Power[w] <= Power[m] /\ Power[w] \in Nat /\ Power[m] \in Nat
      BY <1>6, <2>1, PowerMonotonic
    <3> QED
      BY <1>1, <1>2, <3>1
  <2>5. ValueOf(s) = n /\ s \in Seq(0 .. Base - 1)
    BY <1>1, <1>6, <2>3, <2>4, DigitsValue
  <2>6. \A j \in DOMAIN s : s[j] # NonDigit
    <3>1. \A j \in DOMAIN s : s[j] \in 0 .. Base - 1
      BY <2>5, WiderSeq
    <3> QED
      BY <3>1 DEF NonDigit
  <2>7. m >= MinDigits
    BY <1>1, <1>2, <1>6, <2>1
  <2>8. IsSegmentName(a)
    BY <1>1, <2>1, <2>5, <2>6, <2>7 DEF IsSegmentName, m, s
  <2> QED
    BY <1>1, <2>5, <2>8 DEF ParseSegmentIdx, s
<1>10. ASSUME ParseSegmentIdx(a) = n - 1 PROVE Stands(a, SegmentName(n))
  <2>1. ParseSegmentIdx(a) # NoSegment
    BY <1>1, <1>10 DEF NoSegment
  <2>2. IsSegmentName(a) /\ ValueOf(s) = n
    <3>1. IsSegmentName(a)
      BY <2>1 DEF ParseSegmentIdx
    <3>2. ValueOf(s) = ParseSegmentIdx(a) + 1
      BY <2>1, ParseIs DEF s
    <3> QED
      BY <1>1, <1>10, <3>1, <3>2
  <2>3. a.prefix = TRUE /\ a.suffix = TRUE /\ m >= MinDigits /\ \A j \in DOMAIN s : s[j] # NonDigit
    BY <1>6, <2>2 DEF IsSegmentName, m, s
  <2>4. s \in [1 .. m -> 0 .. Base - 1]
    <3>1. \A j \in 1 .. m : s[j] \in Characters /\ s[j] # NonDigit
      BY <1>6, <2>3
    <3>2. \A j \in 1 .. m : s[j] \in 0 .. Base - 1
      BY <3>1 DEF Characters
    <3> QED
      BY <1>6, <3>2
  <2>5. Power[m] > n /\ \A j \in 1 .. m : s[j] = (n \div Power[m - j]) % Base
    BY <1>1, <1>6, <2>2, <2>4, DigitsOf
  <2>6. w <= m
    <3> SUFFICES ASSUME w > m PROVE FALSE
      BY <1>6
    <3>1. w # MinDigits /\ w - 1 \in Nat /\ m <= w - 1
      BY <1>1, <1>6, <2>3
    <3>2. Power[w - 1] <= n
      BY <1>2, <3>1
    <3>3. Power[m] <= Power[w - 1] /\ Power[m] \in Nat /\ Power[w - 1] \in Nat
      BY <1>6, <3>1, PowerMonotonic
    <3> QED
      BY <1>1, <2>5, <3>2, <3>3
  <2>7. \A j \in 1 .. m : s[j] = IF j <= m - w THEN 0 ELSE c[j - (m - w)]
    BY <1>8, <2>5, <2>6
  <2>8. m - w >= 0
    BY <1>6, <2>6
  <2> QED
    BY <1>7, <2>3, <2>7, <2>8
<1> QED
  BY <1>9, <1>10

-----------------------------------------------------------------------------
(***************************************************************************)
(* The playlist: durations, and the longest of them.                       *)
(***************************************************************************)
LEMMA TicksNat ==
  ASSUME NEW x \in Seq(Sample)
  PROVE  SegmentTicks(x) \in Nat
<1> DEFINE s == [i \in DOMAIN x |-> x[i].delta]
           n == Len(x)
<1>1. n \in Nat /\ DOMAIN s = 1 .. n /\ n \in 0 .. n /\ \A i \in 1 .. n : s[i] = x[i].delta
  OBVIOUS
<1>2. \A i \in 1 .. n : s[i] \in Nat
  <2>1. \A i \in 1 .. n : x[i] \in Sample
    OBVIOUS
  <2>2. \A a \in Sample : a.delta \in Nat
    BY DEF Sample
  <2> QED
    BY <1>1, <2>1, <2>2
<1>3. SegmentTicks(x) = Total(s)
  BY DEF SegmentTicks, Total
<1> HIDE DEF s
<1>4. PICK u : TotalUpTo(u, s, n) /\ Total(s) = u[n]
  BY <1>1, TotalSteps
<1>5. \A i \in 0 .. n : u[i] \in Nat
  BY <1>1, <1>2, <1>4, TotalNat
<1> QED
  BY <1>1, <1>3, <1>4, <1>5

\* The longest duration is at least as long as each of them.
LEMMA LongestIs ==
  ASSUME NEW n \in Nat, NEW t, DOMAIN t = 1 .. n, \A i \in 1 .. n : t[i] \in Nat
  PROVE  Longest(t) \in Nat /\ \A i \in 1 .. n : t[i] <= Longest(t)
<1> DEFINE D(k) == {0} \cup {t[i] : i \in 1 .. k}
           P(k) == \E x : LargestIs(D(k), x)
           S == {k \in Nat : k <= n /\ ~P(k)}
<1>1. 0 \notin S
  <2>1. LargestIs(D(0), 0)
    BY DEF LargestIs
  <2> QED
    BY <2>1
<1>2. ASSUME NEW k \in Nat, k \notin S PROVE k + 1 \notin S
  <2> SUFFICES ASSUME k + 1 <= n PROVE P(k + 1)
    OBVIOUS
  <2>0. P(k)
    <3> HIDE DEF P
    <3> QED
      BY <1>2
  <2>1. PICK x : LargestIs(D(k), x)
    BY <2>0
  <2>2. D(k) \in SUBSET Nat
    OBVIOUS
  <2>3. x \in D(k) /\ x \in Nat /\ \A y \in D(k) : x >= y
    BY <2>1, <2>2 DEF LargestIs
  <2>4. D(k + 1) = D(k) \cup {t[k + 1]} /\ t[k + 1] \in Nat
    <3>1. 1 .. k + 1 = 1 .. k \cup {k + 1} /\ k + 1 \in 1 .. n
      OBVIOUS
    <3> QED
      BY <3>1
  <2> HIDE DEF D
  <2>5. CASE t[k + 1] > x
    <3>1. LargestIs(D(k + 1), t[k + 1])
      BY <2>2, <2>3, <2>4, <2>5 DEF LargestIs
    <3> QED
      BY <3>1
  <2>6. CASE ~(t[k + 1] > x)
    <3>1. LargestIs(D(k + 1), x)
      BY <2>2, <2>3, <2>4, <2>6 DEF LargestIs
    <3> QED
      BY <3>1
  <2> QED
    BY <2>5, <2>6
<1>3. S = {}
  <2>1. S \in SUBSET Nat
    OBVIOUS
  <2> HIDE DEF S
  <2> QED
    BY <1>1, <1>2, <2>1, NoneIn
<1>0. P(n)
  <2> HIDE DEF P
  <2> QED
    BY <1>3
<1>4. PICK x : LargestIs(D(n), x)
  BY <1>0
<1>5. D(n) = {0} \cup Range(t) /\ D(n) \in SUBSET Nat
  BY DEF Range
<1>6. \A i \in 1 .. n : t[i] \in D(n)
  OBVIOUS
<1> HIDE DEF D
<1>7. Longest(t) = x
  <2>1. D(n) \in SUBSET Int
    BY <1>5
  <2>2. Max(D(n)) = x
    BY <1>4, <2>1, MaxIs
  <2> QED
    BY <1>5, <2>2 DEF Longest
<1>8. x \in Nat /\ \A y \in D(n) : y \in Nat /\ x >= y
  BY <1>4, <1>5 DEF LargestIs
<1> QED
  BY <1>6, <1>7, <1>8

\* The target duration is rounded up.
LEMMA TargetCovers ==
  ASSUME NEW n \in Nat, NEW d \in Nat \ {0}
  PROVE  (n + d - 1) \div d \in Nat /\ d * ((n + d - 1) \div d) >= n
<1> DEFINE m == n + d - 1
           q == m \div d
           r == m % d
<1>1. m \in Nat
  OBVIOUS
<1> HIDE DEF m
<1>2. q \in Nat /\ r \in Nat /\ r < d /\ m = d * q + r
  BY <1>1
<1> HIDE DEF q, r
<1>3. d * q \in Nat
  BY <1>2
<1>4. d * q >= n
  BY <1>2, <1>3 DEF m
<1> QED
  BY <1>2, <1>4 DEF q, m

\* What is printed is not more than the target duration.
LEMMA PrintedFits ==
  ASSUME NEW m \in Nat, NEW d \in Nat \ {0}, NEW t \in Nat, NEW c \in Nat, NEW q \in Nat,
         t <= d * q, 2 * (m * d - t * c) <= d
  PROVE  m <= q * c
<1> SUFFICES ASSUME m >= q * c + 1 PROVE FALSE
  OBVIOUS
<1>1. q * c \in Nat /\ d * q \in Nat
  OBVIOUS
<1>2. d * (q * c + 1) <= d * m
  BY <1>1, Scaled
<1>3. c * t <= c * (d * q)
  BY <1>1, Scaled
<1>4. d * (q * c + 1) = d * (q * c) + d /\ c * (d * q) = d * (q * c) /\ m * d = d * m /\ c * t = t * c
  OBVIOUS
<1>5. d * (q * c) \in Nat /\ d * m \in Nat /\ t * c \in Nat
  BY <1>1
<1> QED
  BY <1>2, <1>3, <1>4, <1>5

\* A printed duration is at most half a unit off.
LEMMA ExtinfIs ==
  ASSUME NEW t \in Nat, NEW d \in Nat \ {0}, NEW m \in Extinf(t, d)
  PROVE  /\ m \in Nat
         /\ 2 * (m * d - t * Decimals) <= d /\ 2 * (t * Decimals - m * d) <= d
<1>1. Decimals \in Nat
  BY PlaylistAssumption
<1> DEFINE p == t * Decimals
           f == p \div d
<1>2. p \in Nat
  BY <1>1
<1> HIDE DEF p
<1>3. f \in Nat
  BY <1>2
<1>4. m \in {f, f + 1} /\ 2 * (m * d - p) <= d /\ 2 * (p - m * d) <= d
  BY DEF Extinf, p
<1> HIDE DEF f
<1> QED
  BY <1>3, <1>4 DEF p

\* The errors of the printed durations, added up.
Drift(o, x, l) ==
  o = [i \in 0 .. Len(l) |->
        IF i = 0 THEN 0
        ELSE o[i - 1] + (l[i].extinf * x.timescale
                         - SegmentTicks(SubSeq(x.video, x.segments[i].videoStart + 1,
                                               x.segments[i].videoStart + x.segments[i].videoCount)) * Decimals)]

\* The difference between printed and real time exists as a function of the segment.
LEMMA DriftExists ==
  ASSUME NEW x, NEW l, Len(l) \in Nat
  PROVE  \E o : Drift(o, x, l)
<1> DEFINE n == Len(l)
           e == [i \in 1 .. n |->
                  l[i].extinf * x.timescale
                  - SegmentTicks(SubSeq(x.video, x.segments[i].videoStart + 1,
                                        x.segments[i].videoStart + x.segments[i].videoCount)) * Decimals]
<1>1. DOMAIN e = 1 .. n
  OBVIOUS
<1>2. PICK u : TotalUpTo(u, e, n)
  <2> HIDE DEF e
  <2> QED
    BY <1>1, TotalSteps
<1> DEFINE o == [i \in 0 .. n |-> u[i]]
<1>3. ASSUME NEW i \in 0 .. n
      PROVE  u[i] = IF i = 0 THEN 0 ELSE o[i - 1] + e[i]
  <2>1. CASE i = 0
    BY <1>2, <2>1 DEF TotalUpTo
  <2>2. CASE i # 0
    <3>1. i \in 1 .. n /\ i - 1 \in 0 .. n
      BY <2>2
    <3>2. u[i] = u[i - 1] + e[i]
      BY <1>2, <3>1 DEF TotalUpTo
    <3>3. o[i - 1] = u[i - 1]
      BY <3>1
    <3> QED
      BY <2>2, <3>2, <3>3
  <2> QED
    BY <2>1, <2>2
<1>4. ASSUME NEW i \in 0 .. n
      PROVE  u[i] = IF i = 0 THEN 0
                    ELSE o[i - 1] + (l[i].extinf * x.timescale
                         - SegmentTicks(SubSeq(x.video, x.segments[i].videoStart + 1,
                                               x.segments[i].videoStart + x.segments[i].videoCount)) * Decimals)
  <2> HIDE DEF o
  <2>1. CASE i = 0
    BY <1>3, <2>1
  <2>2. CASE i # 0
    <3>1. i \in 1 .. n /\ u[i] = o[i - 1] + e[i]
      <4>1. i \in 1 .. n
        BY <2>2
      <4> HIDE DEF e
      <4>2. u[i] = IF i = 0 THEN 0 ELSE o[i - 1] + e[i]
        BY <1>3
      <4> QED
        BY <2>2, <4>1, <4>2
    <3>2. e[i] = l[i].extinf * x.timescale
                 - SegmentTicks(SubSeq(x.video, x.segments[i].videoStart + 1,
                                       x.segments[i].videoStart + x.segments[i].videoCount)) * Decimals
      BY <3>1
    <3> QED
      BY <2>2, <3>1, <3>2
  <2> QED
    BY <2>1, <2>2
<1>5. o = [i \in 0 .. n |-> u[i]]
  OBVIOUS
<1> HIDE DEF o, e
<1>6. Drift(o, x, l)
  BY <1>4, <1>5 DEF Drift
<1> QED
  BY <1>6

\* Errors of at most half a unit add up to at most half a unit each.
LEMMA DriftBounded ==
  ASSUME NEW d \in Nat, NEW n \in Nat, NEW o, NEW e, o[0] = 0,
         \A i \in 1 .. n : o[i] = o[i - 1] + e[i],
         \A i \in 1 .. n : e[i] \in Int /\ 2 * e[i] <= d /\ -(2 * e[i]) <= d
  PROVE  \A i \in 0 .. n : o[i] \in Int /\ 2 * o[i] <= i * d /\ -(2 * o[i]) <= i * d
<1> DEFINE S == {k \in Nat : k <= n /\ ~(o[k] \in Int /\ 2 * o[k] <= k * d /\ -(2 * o[k]) <= k * d)}
<1>1. 0 \notin S
  OBVIOUS
<1>2. ASSUME NEW k \in Nat, k \notin S PROVE k + 1 \notin S
  <2> SUFFICES ASSUME k + 1 <= n
               PROVE  o[k + 1] \in Int /\ 2 * o[k + 1] <= (k + 1) * d /\ -(2 * o[k + 1]) <= (k + 1) * d
    OBVIOUS
  <2>1. k + 1 \in 1 .. n /\ (k + 1) - 1 = k
    OBVIOUS
  <2>2. o[k + 1] = o[k] + e[k + 1] /\ e[k + 1] \in Int /\ 2 * e[k + 1] <= d /\ -(2 * e[k + 1]) <= d
    BY <2>1
  <2>3. o[k] \in Int /\ 2 * o[k] <= k * d /\ -(2 * o[k]) <= k * d
    BY <1>2
  <2>4. (k + 1) * d = k * d + d /\ k * d \in Nat
    OBVIOUS
  <2> QED
    BY <2>2, <2>3, <2>4
<1>3. S = {}
  <2>1. S \in SUBSET Nat
    OBVIOUS
  <2> HIDE DEF S
  <2> QED
    BY <1>1, <1>2, <2>1, NoneIn
<1> QED
  BY <1>3

\* The video samples of the segments, and their ticks.
LEMMA TicksOfIs ==
  ASSUME index \in Indexes, \A i \in DOMAIN index.segments : VideoInTable(index.segments[i])
  PROVE  /\ DOMAIN TicksOf(index) = 1 .. Len(index.segments)
         /\ \A i \in 1 .. Len(index.segments) :
              /\ TicksOf(index)[i] = SegmentTicks(VideoSamples(index.segments[i]))
              /\ TicksOf(index)[i] \in Nat
<1>1. DOMAIN index.segments = 1 .. Len(index.segments)
  BY IndexType
<1>2. ASSUME NEW i \in DOMAIN index.segments PROVE VideoSamples(index.segments[i]) \in Seq(Sample)
  <2> DEFINE b == index.segments[i].videoStart
             c == index.segments[i].videoCount
             v == index.video
  <2>1. b \in Nat /\ c \in Nat /\ v \in Seq(Sample) /\ b + c <= Len(v)
    BY SegmentType, IndexType DEF VideoInTable
  <2> HIDE DEF b, c, v
  <2>2. SubSeq(v, b + 1, b + c) \in Seq(Sample)
    BY <2>1, SliceIs
  <2> QED
    BY <2>2 DEF b, c, v, VideoSamples
<1>3. \A i \in DOMAIN index.segments : TicksOf(index)[i] = SegmentTicks(VideoSamples(index.segments[i]))
  BY DEF TicksOf, VideoSamples
<1>4. DOMAIN TicksOf(index) = DOMAIN index.segments
  BY DEF TicksOf
<1> QED
  BY <1>1, <1>2, <1>3, <1>4, TicksNat

\* A playlist that write_media_playlist rendered is honest,
LEMMA RenderedHonest ==
  ASSUME index \in Indexes, Rendered(index, lines, target)
  PROVE  PlaylistHonest
<1> DEFINE n == Len(lines)
           d == index.timescale
           t == TicksOf(index)
           off == CHOOSE o : Drift(o, index, lines)
<1>1. /\ \A i \in DOMAIN index.segments : VideoInTable(index.segments[i])
      /\ d # 0 /\ target = TargetDuration(t, d)
      /\ n = Len(index.segments) /\ DOMAIN lines = 1 .. n /\ n \in Nat
      /\ \A i \in 1 .. n : lines[i].extinf \in Extinf(t[i], d)
  BY DEF Rendered, VideoInTable
<1>2. DOMAIN t = 1 .. n /\ \A i \in 1 .. n : t[i] = SegmentTicks(VideoSamples(index.segments[i])) /\ t[i] \in Nat
  BY <1>1, TicksOfIs
<1>3. d \in Nat \ {0} /\ Decimals \in Nat
  BY <1>1, IndexType, PlaylistAssumption
<1>4. Drift(off, index, lines)
  BY <1>1, DriftExists
<1>5. PlaylistHonest <=>
        \A i \in DOMAIN lines :
          /\ lines[i].extinf <= target * Decimals
          /\ 2 * off[i] <= i * d /\ -(2 * off[i]) <= i * d
  BY DEF PlaylistHonest, Drift, VideoSamples
<1> HIDE DEF off, t
<1>6. /\ off[0] = 0
      /\ \A i \in 1 .. n : off[i] = off[i - 1] + (lines[i].extinf * d - t[i] * Decimals)
  <2>1. off = [i \in 0 .. n |->
                IF i = 0 THEN 0 ELSE off[i - 1] + (lines[i].extinf * d
                         - SegmentTicks(VideoSamples(index.segments[i])) * Decimals)]
    BY <1>4 DEF Drift, VideoSamples
  <2>2. 0 \in 0 .. n /\ \A i \in 1 .. n : i \in 0 .. n /\ i # 0
    BY <1>1
  <2>3. off[0] = 0
    BY <2>1, <2>2
  <2>4. \A i \in 1 .. n : off[i] = off[i - 1] + (lines[i].extinf * d
                         - SegmentTicks(VideoSamples(index.segments[i])) * Decimals)
    BY <2>1, <2>2
  <2> QED
    BY <1>2, <2>3, <2>4
<1>7. ASSUME NEW i \in 1 .. n
      PROVE  /\ lines[i].extinf \in Nat
             /\ 2 * (lines[i].extinf * d - t[i] * Decimals) <= d /\ 2 * (t[i] * Decimals - lines[i].extinf * d) <= d
  <2> DEFINE ti == t[i]
             m == lines[i].extinf
  <2>1. ti \in Nat /\ m \in Extinf(ti, d)
    BY <1>1, <1>2
  <2> HIDE DEF ti, m, d
  <2>2. m \in Nat /\ 2 * (m * d - ti * Decimals) <= d /\ 2 * (ti * Decimals - m * d) <= d
    BY <1>3, <2>1, ExtinfIs
  <2> QED
    BY <2>2 DEF ti, m, d
<1> HIDE DEF d
<1> DEFINE e == [i \in 1 .. n |-> lines[i].extinf * d - t[i] * Decimals]
<1>8. \A i \in 0 .. n : off[i] \in Int /\ 2 * off[i] <= i * d /\ -(2 * off[i]) <= i * d
  <2>1. \A i \in 1 .. n : off[i] = off[i - 1] + e[i]
    BY <1>6
  <2>2. ASSUME NEW i \in 1 .. n PROVE e[i] \in Int /\ 2 * e[i] <= d /\ -(2 * e[i]) <= d
    <3> DEFINE a == lines[i].extinf * d
               b == t[i] * Decimals
    <3>1. a \in Nat /\ b \in Nat
      BY <1>2, <1>3, <1>7, SMTT(30)
    <3>2. e[i] = a - b /\ 2 * (a - b) <= d /\ 2 * (b - a) <= d
      BY <1>7
    <3> HIDE DEF a, b, e
    <3> QED
      BY <1>3, <3>1, <3>2
  <2> HIDE DEF e
  <2>3. n \in Nat /\ d \in Nat /\ off[0] = 0
    BY <1>1, <1>3, <1>6
  <2> HIDE DEF n
  <2> QED
    BY <2>1, <2>2, <2>3, DriftBounded
<1>9. ASSUME NEW i \in 1 .. n PROVE lines[i].extinf <= target * Decimals
  <2> DEFINE L == Longest(t)
             q == (L + d - 1) \div d
             ti == t[i]
             m == lines[i].extinf
  <2>1. L \in Nat /\ t[i] <= L
    <3> HIDE DEF n, L
    <3> QED
      BY <1>1, <1>2, LongestIs DEF L
  <2> HIDE DEF L
  <2>2. q \in Nat /\ d * q >= L
    BY <1>3, <2>1, TargetCovers
  <2>3. target = q
    BY <1>1 DEF TargetDuration, L, d
  <2> HIDE DEF q
  <2>4. ti \in Nat /\ m \in Nat /\ 2 * (m * d - ti * Decimals) <= d
    BY <1>2, <1>7
  <2>5. ti <= d * q
    <3>1. d * q \in Nat
      BY <1>3, <2>2
    <3> QED
      BY <2>1, <2>2, <2>4, <3>1
  <2> HIDE DEF ti, m
  <2>6. m <= q * Decimals
    BY <1>3, <2>2, <2>4, <2>5, PrintedFits
  <2> QED
    BY <2>3, <2>6 DEF m
<1>10. \A i \in 1 .. n : i \in 0 .. n
  BY <1>1
<1> QED
  BY <1>1, <1>5, <1>8, <1>9, <1>10 DEF d

\* and so is an empty one.
LEMMA NoLinesHonest == lines = <<>> => PlaylistHonest
  BY DEF PlaylistHonest

-----------------------------------------------------------------------------
(***************************************************************************)
(* What the builder looks at, segment by segment, is Servable.             *)
(***************************************************************************)
LEMMA TracksAre ==
  ASSUME index \in Indexes
  PROVE  /\ DOMAIN index.video = 1 .. Len(index.video) /\ Len(index.video) \in Nat
         /\ DOMAIN index.audio = 1 .. Len(index.audio) /\ Len(index.audio) \in Nat
<1>1. \A s \in Seq(Sample) : DOMAIN s = 1 .. Len(s) /\ Len(s) \in Nat
  OBVIOUS
<1> QED
  BY <1>1, IndexType

\* A segment can be read if and only if its samples of both tracks can.
LEMMA ReadableIs ==
  ASSUME index \in Indexes, NEW i \in 0 .. Len(index.segments) - 1, InTables(Segment(i))
  PROVE  LET g == Segment(i)
         IN  AllReadable(g) <=>
               ((\A k \in 1 .. g.videoCount : Readable(index.video[g.videoStart + k])) /\
                (\A k \in 1 .. g.audioCount : Readable(index.audio[g.audioStart + k])))
<1> DEFINE g == Segment(i)
           v == VideoSamples(g)
           a == AudioSamples(g)
           c == g.videoCount
           d == g.audioCount
<1>1. i + 1 \in DOMAIN index.segments /\ g = index.segments[i + 1]
  BY IndexType DEF Segment
<1>2. /\ v \in Seq(Sample) /\ a \in Seq(Sample) /\ Len(v) = c /\ Len(a) = d
      /\ \A k \in 1 .. c : v[k] = index.video[g.videoStart + k]
      /\ \A k \in 1 .. d : a[k] = index.audio[g.audioStart + k]
  BY <1>1, SamplesType DEF InTables
<1>3. c \in Nat /\ d \in Nat
  BY <1>1, SegmentType
<1> HIDE DEF c, d, v, a
<1>4. /\ Len(v \o a) = c + d /\ v \o a \in Seq(Sample)
      /\ \A k \in 1 .. c : (v \o a)[k] = v[k]
      /\ \A k \in 1 .. d : (v \o a)[c + k] = a[k]
  <2>0. v \in Seq(Sample) /\ a \in Seq(Sample)
    BY <1>2
  <2>1. /\ v \o a \in Seq(Sample) /\ Len(v \o a) = Len(v) + Len(a)
        /\ \A k \in 1 .. Len(v) : (v \o a)[k] = v[k]
        /\ \A k \in 1 .. Len(a) : (v \o a)[Len(v) + k] = a[k]
    BY <2>0
  <2> QED
    BY <1>2, <2>1
<1>5. DOMAIN (v \o a) = 1 .. c + d
  BY <1>4
<1>6. AllReadable(g) <=> \A k \in 1 .. c + d : Readable((v \o a)[k])
  BY <1>5 DEF AllReadable, SamplesIn, v, a
<1>7. ASSUME AllReadable(g)
      PROVE  (\A k \in 1 .. c : Readable(v[k])) /\ (\A k \in 1 .. d : Readable(a[k]))
  <2>1. \A k \in 1 .. c : k \in 1 .. c + d
    BY <1>3
  <2>2. \A k \in 1 .. d : c + k \in 1 .. c + d
    BY <1>3
  <2> QED
    BY <1>4, <1>6, <1>7, <2>1, <2>2
<1>8. ASSUME (\A k \in 1 .. c : Readable(v[k])) /\ (\A k \in 1 .. d : Readable(a[k]))
      PROVE  AllReadable(g)
  <2>1. ASSUME NEW k \in 1 .. c + d PROVE Readable((v \o a)[k])
    <3>1. CASE k <= c
      <4>1. k \in 1 .. c
        BY <1>3, <3>1
      <4> QED
        BY <1>4, <1>8, <4>1
    <3>2. CASE ~(k <= c)
      <4>1. k - c \in 1 .. d /\ c + (k - c) = k
        BY <1>3, <3>2
      <4>2. (v \o a)[c + (k - c)] = a[k - c]
        BY <1>4, <4>1
      <4> QED
        BY <1>8, <4>1, <4>2
    <3> QED
      BY <3>1, <3>2
  <2> QED
    BY <1>6, <2>1
<1>9. AllReadable(g) <=> ((\A k \in 1 .. c : Readable(v[k])) /\ (\A k \in 1 .. d : Readable(a[k])))
  BY <1>7, <1>8
<1>10. (\A k \in 1 .. c : Readable(v[k])) <=> (\A k \in 1 .. c : Readable(index.video[g.videoStart + k]))
  BY <1>2
<1>11. (\A k \in 1 .. d : Readable(a[k])) <=> (\A k \in 1 .. d : Readable(index.audio[g.audioStart + k]))
  BY <1>2
<1> QED
  BY <1>9, <1>10, <1>11 DEF c, d

\* An archive that can be served has no segment that breaks a limit,
LEMMA ServableLimits ==
  ASSUME index \in Indexes, Servable, NEW i \in 0 .. Len(index.segments) - 1
  PROVE  Limits(i)
<1> DEFINE g == Segment(i)
<1>1. i + 1 \in DOMAIN index.segments /\ g = index.segments[i + 1] /\ (i + 1) - 1 = i
  BY IndexType DEF Segment
<1>2. /\ InTables(g)
      /\ Styp.len + Moof((i + 1) - 1, g).len + 8 + (SumSizes(VideoSamples(g)) + SumSizes(AudioSamples(g))) <= U32Max
      /\ Moof((i + 1) - 1, g).len + 8 + SumSizes(VideoSamples(g)) <= I32Max
  BY <1>1 DEF Servable, InTables
<1>3. SegmentLen(i) <= U32Max /\ OffsetsFit(i)
  BY <1>1, <1>2 DEF SegmentLen, OffsetsFit
<1>4. AllReadable(g)
  <2>1. (\A k \in DOMAIN index.video : Readable(index.video[k])) /\ (\A k \in DOMAIN index.audio : Readable(index.audio[k]))
    BY DEF Servable, Readable
  <2>2. /\ g.videoStart \in Nat /\ g.videoCount \in Nat /\ g.audioStart \in Nat /\ g.audioCount \in Nat
        /\ g.videoStart + g.videoCount <= Len(index.video) /\ g.audioStart + g.audioCount <= Len(index.audio)
    BY <1>1, <1>2, SegmentType DEF InTables, VideoInTable, AudioInTable
  <2>3. DOMAIN index.video = 1 .. Len(index.video) /\ DOMAIN index.audio = 1 .. Len(index.audio)
        /\ Len(index.video) \in Nat /\ Len(index.audio) \in Nat
    BY TracksAre
  <2>4. (\A k \in 1 .. g.videoCount : g.videoStart + k \in DOMAIN index.video)
        /\ (\A k \in 1 .. g.audioCount : g.audioStart + k \in DOMAIN index.audio)
    <3> HIDE DEF g
    <3> QED
      BY <2>2, <2>3, SMTT(30)
  <2>5. (\A k \in 1 .. g.videoCount : Readable(index.video[g.videoStart + k])) /\
        (\A k \in 1 .. g.audioCount : Readable(index.audio[g.audioStart + k]))
    BY <2>1, <2>4
  <2> QED
    BY <1>2, <2>5, ReadableIs
<1> QED
  BY <1>2, <1>3, <1>4 DEF Limits

\* and one without such a segment can be served, since its segments cover the tables.
LEMMA LimitsServable ==
  ASSUME index \in Indexes, index.timescale # 0, \A i \in 0 .. Len(index.segments) - 1 : Limits(i)
  PROVE  Servable
<1>1. DOMAIN index.segments = 1 .. Len(index.segments) /\ Len(index.segments) \in Nat
  BY IndexType
<1>2. ASSUME NEW i \in DOMAIN index.segments
      PROVE  i - 1 \in 0 .. Len(index.segments) - 1 /\ Segment(i - 1) = index.segments[i] /\ Limits(i - 1)
  <2>1. i - 1 \in 0 .. Len(index.segments) - 1 /\ (i - 1) + 1 = i
    BY <1>1
  <2> QED
    BY <2>1 DEF Segment
<1>3. ASSUME NEW i \in DOMAIN index.segments
      PROVE  LET g == index.segments[i]
             IN  /\ InTables(g)
                 /\ Styp.len + Moof(i - 1, g).len + 8 + (SumSizes(VideoSamples(g)) + SumSizes(AudioSamples(g))) <= U32Max
                 /\ Moof(i - 1, g).len + 8 + SumSizes(VideoSamples(g)) <= I32Max
                 /\ \A k \in 1 .. g.videoCount : Readable(index.video[g.videoStart + k])
                 /\ \A k \in 1 .. g.audioCount : Readable(index.audio[g.audioStart + k])
  <2> DEFINE g == index.segments[i]
  <2>1. i - 1 \in 0 .. Len(index.segments) - 1 /\ Segment(i - 1) = g /\ Limits(i - 1)
    BY <1>2
  <2>2. InTables(g) /\ AllReadable(g) /\ SegmentLen(i - 1) <= U32Max /\ OffsetsFit(i - 1)
    BY <2>1 DEF Limits
  <2>3. (\A k \in 1 .. g.videoCount : Readable(index.video[g.videoStart + k])) /\
        (\A k \in 1 .. g.audioCount : Readable(index.audio[g.audioStart + k]))
    BY <2>1, <2>2, ReadableIs
  <2>4. /\ Styp.len + Moof(i - 1, g).len + 8 + (SumSizes(VideoSamples(g)) + SumSizes(AudioSamples(g))) <= U32Max
        /\ Moof(i - 1, g).len + 8 + SumSizes(VideoSamples(g)) <= I32Max
    BY <2>1, <2>2 DEF SegmentLen, OffsetsFit
  <2> QED
    BY <2>2, <2>3, <2>4
<1>4. \A i \in DOMAIN index.segments : Slices(index, index.segments[i])
  BY <1>3 DEF Slices, InTables, VideoInTable, AudioInTable
<1>5. /\ \A k \in DOMAIN index.video : \E i \in DOMAIN index.segments :
           LET g == index.segments[i] IN g.videoStart < k /\ k <= g.videoStart + g.videoCount
      /\ \A k \in DOMAIN index.audio : \E i \in DOMAIN index.segments :
           LET g == index.segments[i] IN g.audioStart < k /\ k <= g.audioStart + g.audioCount
  BY <1>4, ServeAssumption
<1>6. ASSUME NEW k \in DOMAIN index.video PROVE Readable(index.video[k])
  <2>1. PICK i \in DOMAIN index.segments :
          index.segments[i].videoStart < k /\ k <= index.segments[i].videoStart + index.segments[i].videoCount
    BY <1>5
  <2> DEFINE b == index.segments[i].videoStart
             c == index.segments[i].videoCount
  <2>2. b \in Nat /\ c \in Nat /\ k \in Nat
    BY SegmentType, TracksAre
  <2>3. \A m \in 1 .. c : Readable(index.video[b + m])
    BY <1>3
  <2>4. b < k /\ k <= b + c
    BY <2>1
  <2> HIDE DEF b, c
  <2>5. k - b \in 1 .. c /\ b + (k - b) = k
    BY <2>2, <2>4
  <2>6. Readable(index.video[b + (k - b)])
    BY <2>3, <2>5
  <2> QED
    BY <2>5, <2>6
<1>7. ASSUME NEW k \in DOMAIN index.audio PROVE Readable(index.audio[k])
  <2>1. PICK i \in DOMAIN index.segments :
          index.segments[i].audioStart < k /\ k <= index.segments[i].audioStart + index.segments[i].audioCount
    BY <1>5
  <2> DEFINE b == index.segments[i].audioStart
             c == index.segments[i].audioCount
  <2>2. b \in Nat /\ c \in Nat /\ k \in Nat
    BY SegmentType, TracksAre
  <2>3. \A m \in 1 .. c : Readable(index.audio[b + m])
    BY <1>3
  <2>4. b < k /\ k <= b + c
    BY <2>1
  <2> HIDE DEF b, c
  <2>5. k - b \in 1 .. c /\ b + (k - b) = k
    BY <2>2, <2>4
  <2>6. Readable(index.audio[b + (k - b)])
    BY <2>3, <2>5
  <2> QED
    BY <2>5, <2>6
<1>8. \A t \in {"video", "audio"} : \A i \in DOMAIN index[t] :
        index[t][i].size # 0 => index[t][i].offset + index[t][i].size <= index.sourceLen
  BY <1>6, <1>7 DEF Readable
<1> QED
  BY <1>3, <1>8 DEF Servable, InTables

\* A segment that is written to the end, and is not too long, keeps its limits.
LEMMA OkLimits ==
  ASSUME index \in Indexes, job.pc = "Ok", Writing(job, sink)
  PROVE  /\ job.idx \in 0 .. Len(index.segments) - 1
         /\ sink.bytes.len = SegmentLen(job.idx) /\ SegmentLen(job.idx) \in Nat
         /\ sink.bytes.len <= U32Max => Limits(job.idx)
<1>1. Placed(job) /\ Ahead(job) /\ Counted(job, sink) /\ job.todo = <<>> /\ OffsetsFit(job.idx)
  BY DEF Writing
<1>2. job.idx \in 0 .. Len(index.segments) - 1 /\ InTables(Segment(job.idx))
  BY <1>1 DEF Placed
<1>3. SegmentLen(job.idx) \in Nat
  BY <1>2, SegmentFacts
<1>4. sink.bytes.len = SegmentLen(job.idx)
  BY <1>1, <1>3, SumSizesEmpty DEF Counted, Ahead
<1>5. AllReadable(Segment(job.idx))
  BY <1>1 DEF Ahead, AllReadable
<1> QED
  BY <1>1, <1>2, <1>3, <1>4, <1>5 DEF Limits

\* At no time is more written than the segment has.
LEMMA WrittenAtMost ==
  ASSUME index \in Indexes, Writing(job, sink)
  PROVE  sink.bytes.len <= SegmentLen(job.idx) /\ SegmentLen(job.idx) \in Nat /\ sink.bytes.len \in Nat
         /\ job.idx \in 0 .. Len(index.segments) - 1
<1>1. Placed(job) /\ Ahead(job) /\ Counted(job, sink)
  BY DEF Writing
<1>2. job.idx \in 0 .. Len(index.segments) - 1 /\ InTables(Segment(job.idx))
  BY <1>1 DEF Placed
<1>3. SegmentLen(job.idx) \in Nat
  BY <1>2, SegmentFacts
<1>4. sink.pos \in Nat /\ sink.bytes.len = sink.pos
      /\ sink.pos + SumSizes(job.todo) = SegmentLen(job.idx) + job.copied
  BY <1>1 DEF Counted
<1>5. job.todo \in Seq(Sample) /\ job.copied \in Nat
  BY <1>1 DEF Ahead
<1>6. SumSizes(job.todo) \in Nat /\ job.copied <= SumSizes(job.todo)
  <2>1. CASE job.todo = <<>>
    BY <1>1, <2>1, SumSizesEmpty DEF Ahead
  <2>2. CASE job.todo # <<>>
    <3>1. /\ Tail(job.todo) \in Seq(Sample) /\ Head(job.todo) \in Sample
          /\ SumSizes(job.todo) = Head(job.todo).size + SumSizes(Tail(job.todo))
      BY <1>5, <2>2, SumSizesTail
    <3>2. SumSizes(Tail(job.todo)) \in Nat /\ Head(job.todo).size \in Nat
      BY <3>1, SumSizesNat DEF Sample
    <3>3. job.copied <= Head(job.todo).size
      BY <1>1, <2>2 DEF Ahead
    <3> QED
      BY <1>5, <3>1, <3>2, <3>3
  <2> QED
    BY <2>1, <2>2
<1> QED
  BY <1>2, <1>3, <1>4, <1>5, <1>6

-----------------------------------------------------------------------------
(***************************************************************************)
(* The invariant holds, action by action.                                  *)
(***************************************************************************)
LEMMA InitIInv == Init => IInv
<1> SUFFICES ASSUME Init PROVE IInv
  OBVIOUS
<1>1. job.pc = "idle" /\ phase = "render" /\ maxSize = 0 /\ index \in Indexes /\ lines = <<>>
  BY DEF Init, Idle
<1>2. WriteInv
  BY <1>1 DEF WriteInv
<1>3. PhaseInv
  BY <1>1 DEF PhaseInv, PhaseIs
<1>4. PlaylistInv
  BY <1>1 DEF PlaylistInv
<1>5. NameInv
  <2>1. <<>> \in Seq(Characters)
    OBVIOUS
  <2>2. asked \in Name
    BY <2>1 DEF Init, Nothing, Name
  <2> QED
    BY <1>1, <2>2 DEF NameInv
<1>6. AnswerInv
  BY DEF Init, AnswerInv, NoAnswer
<1> QED
  BY <1>1, <1>2, <1>3, <1>4, <1>5, <1>6 DEF IInv

\* The writer of the next state, in rigid variables.
LEMMA WriteFrom ==
  ASSUME index' = index, NEW j, NEW s, j = job', s = sink', j.pc \in {"stream", "Ok"} => Writing(j, s)
  PROVE  WriteInv'
<1>1. (Writing(job, sink))' <=> Writing(j, s)
  BY SameWriting
<1>2. WriteInv' <=> (j.pc \in {"stream", "Ok"} => (Writing(job, sink))')
  BY DEF WriteInv
<1> QED
  BY <1>1, <1>2

\* As long as the writer does not move.
LEMMA WriteStays ==
  ASSUME WriteInv, index' = index, job' = job, sink' = sink
  PROVE  WriteInv'
<1>1. PICK j : j = job'
  OBVIOUS
<1>2. PICK s : s = sink'
  OBVIOUS
<1>3. j.pc \in {"stream", "Ok"} => Writing(j, s)
  BY <1>1, <1>2 DEF WriteInv
<1> QED
  BY <1>1, <1>2, <1>3, WriteFrom

\* PhaseInv after a step, from what it says of the new values.
LEMMA PhaseFrom ==
  ASSUME index' = index, NEW p, NEW j, NEW m, p = phase', j = job', m = maxSize', PhaseIs(p, j, m)
  PROVE  PhaseInv'
  BY SamePhase

\* The builder gives up, for a reason.
LEMMA BuildFailsIInv ==
  ASSUME IInv, BuildFails, ~Servable, phase # "serve", job.pc # "stream"
  PROVE  IInv'
<1>1. /\ phase' = "failed" /\ index' = index /\ job' = job /\ sink' = sink /\ maxSize' = maxSize
      /\ lines' = lines /\ target' = target /\ asked' = asked /\ answer' = answer
  BY DEF BuildFails, served
<1>2. WriteInv'
  BY <1>1, WriteStays DEF IInv
<1>3. PhaseInv'
  <2>1. PICK p, j, m : p = phase' /\ j = job' /\ m = maxSize'
    OBVIOUS
  <2>2. j.pc \in {"idle", "stream", "Ok", "Err"} /\ m \in Nat
    BY <1>1, <2>1 DEF IInv, PhaseInv, PhaseIs
  <2>3. CASE j.pc # "stream"
    <3>1. PhaseIs(p, j, m)
      BY <1>1, <2>1, <2>2, <2>3 DEF PhaseIs
    <3> QED
      BY <1>1, <2>1, <3>1, PhaseFrom
  <2> QED
    BY <1>1, <2>1, <2>3
<1>4. PlaylistInv'
  BY <1>1 DEF IInv, PlaylistInv
<1>5. NameInv'
  BY <1>1 DEF IInv, NameInv
<1>6. AnswerInv'
  BY <1>1 DEF IInv, AnswerInv
<1> QED
  BY <1>1, <1>2, <1>3, <1>4, <1>5, <1>6 DEF IInv

\* The steps of the builder.
LEMMA RenderPlaylistIInv == ASSUME IInv, RenderPlaylist PROVE IInv'
<1> DEFINE bad == index.timescale = 0 \/ \E i \in DOMAIN index.segments : ~VideoInTable(index.segments[i])
           ticks == [i \in DOMAIN index.segments |-> SegmentTicks(VideoSamples(index.segments[i]))]
<1>1. phase = "render" /\ job.pc = "idle" /\ index \in Indexes
  BY DEF RenderPlaylist, IInv, PhaseInv, PhaseIs
<1>2. CASE bad
  <2>1. ~Servable
    BY <1>2 DEF Servable
  <2>2. BuildFails
    BY <1>2 DEF RenderPlaylist
  <2> QED
    BY <1>1, <2>1, <2>2, BuildFailsIInv
<1>3. CASE ~bad
  <2>1. /\ phase' = "size" /\ index' = index /\ job' = job /\ sink' = sink /\ maxSize' = maxSize
        /\ asked' = asked /\ answer' = answer
        /\ target' = TargetDuration(ticks, index.timescale)
        /\ \E round \in [DOMAIN ticks -> {0, 1}] :
             /\ \A i \in DOMAIN ticks :
                  (ticks[i] * Decimals) \div index.timescale + round[i] \in Extinf(ticks[i], index.timescale)
             /\ lines' = [i \in DOMAIN ticks |->
                           [extinf |-> (ticks[i] * Decimals) \div index.timescale + round[i],
                            name |-> SegmentName(i)]]
    BY <1>3 DEF RenderPlaylist
  <2>2. ticks = TicksOf(index)
    BY DEF TicksOf, VideoSamples
  <2>3. \A i \in DOMAIN index.segments : VideoInTable(index.segments[i])
    BY <1>3
  <2>4. /\ DOMAIN ticks = 1 .. Len(index.segments) /\ \A i \in 1 .. Len(index.segments) : ticks[i] \in Nat
    BY <1>1, <2>2, <2>3, TicksOfIs
  <2>5. Len(index.segments) \in Nat /\ Len(index.segments) <= NumberMax /\ NumberMax \in Nat
        /\ index.timescale \in Nat \ {0}
    BY <1>1, <1>3, IndexType, PlaylistAssumption
  <2> HIDE DEF ticks
  <2> DEFINE n == Len(index.segments)
             d == index.timescale
  <2>6. PICK round \in [DOMAIN ticks -> {0, 1}] :
          /\ \A i \in DOMAIN ticks : (ticks[i] * Decimals) \div d + round[i] \in Extinf(ticks[i], d)
          /\ lines' = [i \in DOMAIN ticks |->
                        [extinf |-> (ticks[i] * Decimals) \div d + round[i], name |-> SegmentName(i)]]
    BY <2>1
  <2>7. PICK l : l = lines'
    OBVIOUS
  <2>8. /\ DOMAIN l = 1 .. n
        /\ l = [i \in 1 .. n |-> [extinf |-> (ticks[i] * Decimals) \div d + round[i], name |-> SegmentName(i)]]
        /\ \A i \in 1 .. n : (ticks[i] * Decimals) \div d + round[i] \in Extinf(ticks[i], d)
    BY <2>4, <2>6, <2>7
  <2> DEFINE Line == [extinf : Nat, name : Name]
  <2>9. ASSUME NEW i \in 1 .. n
        PROVE  /\ l[i].name = SegmentName(i) /\ l[i].extinf \in Extinf(ticks[i], d) /\ l[i] \in Line
    <3>1. l[i] = [extinf |-> (ticks[i] * Decimals) \div d + round[i], name |-> SegmentName(i)]
      BY <2>8
    <3>2. l[i].name = SegmentName(i) /\ l[i].extinf \in Extinf(ticks[i], d)
      BY <2>8, <3>1
    <3>3. i \in 1 .. NumberMax
      BY <2>5
    <3>4. SegmentName(i) \in Name
      BY <3>3, NameReadsBack
    <3>5. l[i].extinf \in Nat
      <4> DEFINE t == ticks[i]
                 m == l[i].extinf
      <4>1. t \in Nat /\ m \in Extinf(t, d) /\ d \in Nat \ {0}
        BY <2>4, <2>5, <3>2
      <4> HIDE DEF t, m, d
      <4>2. m \in Nat
        BY <4>1, ExtinfIs
      <4> QED
        BY <4>2 DEF m
    <3> QED
      BY <3>1, <3>2, <3>4, <3>5
  <2>10. l \in Seq(Line) /\ Len(l) = n
    <3>1. n \in Nat /\ DOMAIN l = 1 .. n
      BY <2>5, <2>8
    <3>2. l \in [1 .. n -> Line]
      <4>1. l = [i \in 1 .. n |-> l[i]]
        BY <2>8
      <4> HIDE DEF Line, n
      <4> QED
        BY <2>9, <4>1
    <3> HIDE DEF Line, n
    <3> QED
      BY <3>1, <3>2
  <2>11. Rendered(index, l, target')
    <3>1. \A i \in DOMAIN index.segments :
            index.segments[i].videoStart + index.segments[i].videoCount <= Len(index.video)
      BY <2>3 DEF VideoInTable
    <3>2. target' = TargetDuration(TicksOf(index), index.timescale)
      BY <2>1, <2>2
    <3>3. \A i \in DOMAIN l : l[i].name = SegmentName(i) /\ l[i].extinf \in Extinf(TicksOf(index)[i], index.timescale)
      BY <2>2, <2>8, <2>9
    <3>4. l \in Seq([extinf : Nat, name : Name])
      BY <2>10
    <3> QED
      BY <1>3, <2>10, <3>1, <3>2, <3>3, <3>4 DEF Rendered
  <2>12. PlaylistInv'
    BY <2>1, <2>7, <2>11 DEF PlaylistInv
  <2>13. WriteInv'
    BY <2>1, WriteStays DEF IInv
  <2>14. PhaseInv'
    <3>1. PICK p, j, m : p = phase' /\ j = job' /\ m = maxSize'
      OBVIOUS
    <3>2. j.pc = "idle" /\ m \in Nat /\ index.timescale # 0
      BY <1>1, <1>3, <2>1, <3>1 DEF IInv, PhaseInv, PhaseIs
    <3>3. PhaseIs(p, j, m)
      BY <2>1, <3>1, <3>2 DEF PhaseIs
    <3> QED
      BY <2>1, <3>1, <3>3, PhaseFrom
  <2>15. NameInv'
    BY <2>1 DEF IInv, NameInv
  <2>16. AnswerInv'
    BY <1>1, <2>1 DEF IInv, AnswerInv
  <2> QED
    BY <1>1, <2>1, <2>12, <2>13, <2>14, <2>15, <2>16 DEF IInv
<1> QED
  BY <1>2, <1>3

\* Sizing a segment: the segments before it are within the limits, and so is this one.
LEMMA SizeSegmentIInv == ASSUME IInv, SizeSegment PROVE IInv'
<1> DEFINE tooLong == job.pc = "Ok" /\ sink.bytes.len > U32Max
<1>1. phase = "size" /\ job.pc \in {"idle", "Ok"} /\ index \in Indexes /\ index.timescale # 0 /\ maxSize \in Nat
  BY DEF SizeSegment, IInv, PhaseInv, PhaseIs
<1>2. U32Max \in Nat /\ Len(index.segments) \in Nat
  BY <1>1, MediaAssumption, IndexType
<1>3. job.pc = "Ok" => /\ Writing(job, sink)
                       /\ \A i \in 0 .. job.idx - 1 : Limits(i) /\ SegmentLen(i) <= maxSize
  BY <1>1 DEF IInv, WriteInv, PhaseInv, PhaseIs
<1>4. job.pc = "Ok" => /\ job.idx \in 0 .. Len(index.segments) - 1
                       /\ sink.bytes.len = SegmentLen(job.idx) /\ SegmentLen(job.idx) \in Nat
                       /\ sink.bytes.len <= U32Max => Limits(job.idx)
  BY <1>1, <1>3, OkLimits
<1>5. CASE tooLong
  <2>1. ~Limits(job.idx)
    BY <1>2, <1>4, <1>5 DEF Limits
  <2>2. ~Servable
    BY <1>1, <1>4, <1>5, <2>1, ServableLimits
  <2>3. BuildFails
    BY <1>5 DEF SizeSegment
  <2> QED
    BY <1>1, <2>2, <2>3, BuildFailsIInv
<1>6. CASE ~tooLong
  <2>1. /\ maxSize' = IF job.pc = "Ok" THEN Raised(maxSize, sink.bytes.len) ELSE maxSize
        /\ IF Sized < Len(index.segments)
             THEN StartWrite(Sized, TRUE) /\ phase' = phase
             ELSE phase' = "serve" /\ job' = Idle /\ sink' = sink
        /\ index' = index /\ lines' = lines /\ target' = target /\ asked' = asked /\ answer' = answer
    BY <1>6 DEF SizeSegment
  <2>2. PICK p, j, s, m : p = phase' /\ j = job' /\ s = sink' /\ m = maxSize'
    OBVIOUS
  <2>3. /\ Sized \in 0 .. Len(index.segments) /\ m \in Nat
        /\ \A i \in 0 .. Sized - 1 : Limits(i) /\ SegmentLen(i) <= m
    <3>1. CASE job.pc = "Ok"
      <4> DEFINE x == SegmentLen(job.idx)
                 k == job.idx
      <4>1. Sized = k + 1 /\ k \in 0 .. Len(index.segments) - 1 /\ x \in Nat /\ sink.bytes.len = x
        BY <1>4, <3>1 DEF Sized
      <4>2. m = Larger(maxSize, x)
        BY <2>1, <2>2, <3>1, <4>1 DEF Raised
      <4>3. Limits(k)
        BY <1>2, <1>4, <1>6, <3>1, <4>1
      <4>4. m \in Nat /\ maxSize <= m /\ x <= m
        <5> HIDE DEF x
        <5> QED
          BY <1>1, <4>1, <4>2 DEF Larger
      <4>5. ASSUME NEW i \in 0 .. Sized - 1 PROVE Limits(i) /\ SegmentLen(i) <= m
        <5>1. CASE i = k
          BY <4>3, <4>4, <5>1
        <5>2. CASE i # k
          <6>1. i \in 0 .. k - 1 /\ i \in 0 .. Len(index.segments) - 1
            BY <1>2, <4>1, <5>2
          <6>2. Limits(i) /\ SegmentLen(i) <= maxSize
            BY <1>3, <3>1, <6>1
          <6>3. SegmentLen(i) \in Nat
            BY <1>1, <6>1, <6>2, SegmentFacts DEF Limits
          <6> QED
            BY <1>1, <4>4, <6>2, <6>3
        <5> QED
          BY <5>1, <5>2
      <4> QED
        BY <1>2, <4>1, <4>4, <4>5
    <3>2. CASE job.pc = "idle"
      <4>1. Sized = 0 /\ m = maxSize
        BY <2>1, <2>2, <3>2 DEF Sized
      <4> QED
        BY <1>1, <1>2, <4>1
    <3> QED
      BY <1>1, <3>1, <3>2
  <2>4. PlaylistInv' /\ AnswerInv'
    <3>1. Rendered(index, lines, target) /\ answer.status = 0
      BY <1>1 DEF IInv, PlaylistInv, AnswerInv
    <3> QED
      BY <2>1, <3>1 DEF PlaylistInv, AnswerInv
  <2>5. CASE Sized < Len(index.segments)
    <3>0. Sized \in 0 .. Len(index.segments) - 1
      <4>1. Sized \in 0 .. Len(index.segments) /\ Sized < Len(index.segments)
        BY <2>3, <2>5
      <4>2. \A n \in Nat : \A k \in 0 .. n : k < n => k \in 0 .. n - 1
        OBVIOUS
      <4> QED
        BY <1>2, <4>1, <4>2
    <3>1. StartWrite(Sized, TRUE) /\ p = "size" /\ Sized \in 0 .. Len(index.segments) - 1
      BY <1>1, <2>1, <2>2, <2>5, <3>0
    <3>2. \/ j.pc = "Err" /\ ~Limits(Sized)
          \/ j.pc = "stream" /\ j.idx = Sized /\ Writing(j, s)
      <4>1. PICK i \in 0 .. Len(index.segments) - 1 : i = Sized
        BY <3>1
      <4>2. StartWrite(i, TRUE)
        BY <3>1, <4>1
      <4> QED
        BY <1>1, <2>2, <4>1, <4>2, StartWriteIs
    <3>3. WriteInv'
      BY <2>1, <2>2, <3>2, WriteFrom
    <3>4. PhaseIs(p, j, m)
      <4>1. CASE j.pc = "Err" /\ ~Limits(Sized)
        <5>1. ~Servable
          BY <1>1, <3>1, <4>1, ServableLimits
        <5> QED
          BY <1>1, <2>3, <3>1, <4>1, <5>1 DEF PhaseIs
      <4>2. CASE j.pc = "stream" /\ j.idx = Sized
        BY <1>1, <2>3, <3>1, <4>2 DEF PhaseIs
      <4> QED
        BY <3>2, <4>1, <4>2
    <3>5. PhaseInv'
      BY <2>1, <2>2, <3>4, PhaseFrom
    <3>6. NameInv'
      BY <2>1, <2>2, <3>1 DEF IInv, NameInv
    <3> QED
      BY <1>1, <2>1, <2>4, <3>3, <3>5, <3>6 DEF IInv
  <2>6. CASE ~(Sized < Len(index.segments))
    <3>1. p = "serve" /\ j.pc = "idle" /\ Sized = Len(index.segments)
      BY <1>2, <2>1, <2>2, <2>3, <2>6 DEF Idle
    <3>2. WriteInv'
      BY <2>1, <2>2, <3>1, WriteFrom
    <3>3. PhaseIs(p, j, m)
      BY <1>1, <2>3, <3>1 DEF PhaseIs
    <3>4. PhaseInv'
      BY <2>1, <2>2, <3>3, PhaseFrom
    <3>5. NameInv'
      BY <2>1, <2>2, <3>1 DEF IInv, NameInv
    <3> QED
      BY <1>1, <2>1, <2>4, <3>2, <3>4, <3>5 DEF IInv
  <2> QED
    BY <2>5, <2>6
<1> QED
  BY <1>5, <1>6

\* A segment that cannot be sized breaks a limit.
LEMMA SizeFailsIInv == ASSUME IInv, SizeFails PROVE IInv'
<1>1. phase = "size" /\ job.pc = "Err" /\ BuildFails
  BY DEF SizeFails
<1>2. ~Servable
  BY <1>1 DEF IInv, PhaseInv, PhaseIs
<1> QED
  BY <1>1, <1>2, BuildFailsIInv

\* In the phase serve, every segment has its limits: none fails.
LEMMA ServeLimits ==
  ASSUME IInv, phase = "serve"
  PROVE  /\ index \in Indexes /\ Rendered(index, lines, target)
         /\ \A i \in 0 .. Len(index.segments) - 1 : Limits(i) /\ SegmentLen(i) <= maxSize
  BY DEF IInv, PhaseInv, PhaseIs, PlaylistInv

\* The steps of the segment handler: parsing the name,
LEMMA DispatchIInv == ASSUME IInv, Dispatch PROVE IInv'
<1> DEFINE idx == ParseSegmentIdx(asked)
<1>1. /\ phase = "serve" /\ job.pc = "idle"
      /\ index' = index /\ phase' = phase /\ maxSize' = maxSize /\ lines' = lines /\ target' = target
      /\ IF idx = NoSegment \/ idx >= Len(index.segments)
           THEN Answer(404, NoSegment) /\ job' = job /\ sink' = sink
           ELSE StartWrite(idx, FALSE) /\ asked' = asked /\ answer' = answer
  BY DEF Dispatch, served
<1>2. /\ index \in Indexes /\ maxSize \in Nat
      /\ \A i \in 0 .. Len(index.segments) - 1 : Limits(i) /\ SegmentLen(i) <= maxSize
  BY <1>1, ServeLimits DEF IInv, PhaseInv, PhaseIs
<1>3. Len(index.segments) \in Nat
  BY <1>2, IndexType
<1>4. PlaylistInv'
  BY <1>1 DEF IInv, PlaylistInv
<1>5. asked \in Name /\ index.timescale # 0
  BY <1>1 DEF IInv, NameInv, PhaseInv, PhaseIs
<1>6. CASE idx = NoSegment \/ idx >= Len(index.segments)
  <2>1. job' = job /\ sink' = sink /\ answer' = [name |-> asked, status |-> 404, idx |-> NoSegment] /\ asked' = Nothing
    BY <1>1, <1>6 DEF Answer
  <2>2. WriteInv'
    BY <1>1, <2>1, WriteStays DEF IInv
  <2>3. PhaseInv'
    <3>1. PICK p, j, m : p = phase' /\ j = job' /\ m = maxSize'
      OBVIOUS
    <3>2. PhaseIs(p, j, m)
      BY <1>1, <1>2, <1>5, <2>1, <3>1 DEF PhaseIs
    <3> QED
      BY <1>1, <3>1, <3>2, PhaseFrom
  <2>4. NameInv'
    <3>1. <<>> \in Seq(Characters)
      OBVIOUS
    <3>2. Nothing \in Name
      BY <3>1 DEF Nothing, Name
    <3> QED
      BY <1>1, <2>1, <3>2 DEF NameInv
  <2>5. AnswerInv'
    <3>1. answer'.status = 404 /\ answer'.name = asked
      BY <2>1
    <3> QED
      BY <1>1, <1>5, <1>6, <3>1 DEF AnswerInv
  <2> QED
    BY <1>1, <1>2, <1>4, <2>2, <2>3, <2>4, <2>5 DEF IInv
<1>7. CASE ~(idx = NoSegment \/ idx >= Len(index.segments))
  <2>1. StartWrite(idx, FALSE) /\ asked' = asked /\ answer' = answer
    BY <1>1, <1>7
  <2>2. idx \in 0 .. Len(index.segments) - 1
    <3>1. idx \in Nat
      BY <1>5, <1>7, ParseIs
    <3> HIDE DEF idx
    <3> QED
      BY <1>3, <1>7, <3>1
  <2>3. PICK p, j, s, m : p = phase' /\ j = job' /\ s = sink' /\ m = maxSize'
    OBVIOUS
  <2>4. j.pc = "stream" /\ j.idx = idx /\ Writing(j, s)
    <3>1. PICK i \in 0 .. Len(index.segments) - 1 : i = idx
      BY <2>2
    <3>2. StartWrite(i, FALSE)
      BY <2>1, <3>1
    <3>3. \/ j.pc = "Err" /\ ~Limits(i)
          \/ j.pc = "stream" /\ j.idx = i /\ Writing(j, s)
      BY <1>2, <2>3, <3>2, StartWriteIs
    <3> QED
      BY <1>2, <3>1, <3>3
  <2>5. WriteInv'
    BY <1>1, <2>3, <2>4, WriteFrom
  <2>6. PhaseIs(p, j, m)
    BY <1>1, <1>2, <1>5, <2>3, <2>4 DEF PhaseIs
  <2>7. PhaseInv'
    BY <1>1, <2>3, <2>6, PhaseFrom
  <2>8. NameInv'
    BY <1>5, <2>1, <2>3, <2>4 DEF NameInv
  <2>9. AnswerInv'
    BY <1>1, <2>1 DEF IInv, AnswerInv
  <2> QED
    BY <1>1, <1>2, <1>4, <2>5, <2>7, <2>8, <2>9 DEF IInv
<1> QED
  BY <1>6, <1>7

\* the answer,
LEMMA RespondIInv == ASSUME IInv, Respond PROVE IInv'
<1>1. /\ phase = "serve" /\ job.pc = "Ok"
      /\ index' = index /\ phase' = phase /\ maxSize' = maxSize /\ lines' = lines /\ target' = target
      /\ sink' = sink /\ job' = Idle
      /\ answer' = [name |-> asked, status |-> 200, idx |-> job.idx] /\ asked' = Nothing
  <2>1. phase = "serve" /\ job.pc \in {"Ok", "Err"}
    BY DEF Respond
  <2>2. job.pc # "Err"
    BY <2>1 DEF IInv, PhaseInv, PhaseIs
  <2> QED
    BY <2>1, <2>2 DEF Respond, served, Answer
<1>2. /\ index \in Indexes /\ maxSize \in Nat /\ index.timescale # 0
      /\ \A i \in 0 .. Len(index.segments) - 1 : Limits(i) /\ SegmentLen(i) <= maxSize
  BY <1>1, ServeLimits DEF IInv, PhaseInv, PhaseIs
<1>3. PlaylistInv'
  BY <1>1 DEF IInv, PlaylistInv
<1>4. PICK p, j, s, m : p = phase' /\ j = job' /\ s = sink' /\ m = maxSize'
  OBVIOUS
<1>5. j.pc = "idle"
  BY <1>1, <1>4 DEF Idle
<1>6. WriteInv'
  BY <1>1, <1>4, <1>5, WriteFrom
<1>7. PhaseIs(p, j, m)
  BY <1>1, <1>2, <1>4, <1>5 DEF PhaseIs
<1>8. PhaseInv'
  BY <1>1, <1>4, <1>7, PhaseFrom
<1>9. NameInv'
  <2>1. <<>> \in Seq(Characters)
    OBVIOUS
  <2>2. Nothing \in Name
    BY <2>1 DEF Nothing, Name
  <2> QED
    BY <1>1, <1>4, <1>5, <2>2 DEF NameInv
<1>10. AnswerInv'
  <2>1. job.idx = ParseSegmentIdx(asked) /\ asked \in Name
    BY <1>1 DEF IInv, NameInv
  <2>2. job.idx \in 0 .. Len(index.segments) - 1
    BY <1>1, <1>2, OkLimits DEF IInv, WriteInv
  <2>3. answer'.status = 200 /\ answer'.name = asked /\ answer'.idx = job.idx
    BY <1>1
  <2> QED
    BY <1>1, <2>1, <2>2, <2>3 DEF AnswerInv
<1> QED
  BY <1>1, <1>2, <1>3, <1>6, <1>8, <1>9, <1>10 DEF IInv

\* and the copy.
LEMMA WriteOnIInv == ASSUME IInv, WriteOn PROVE IInv'
<1>1. /\ job.pc = "stream" /\ index' = index
      /\ phase' = phase /\ maxSize' = maxSize /\ lines' = lines /\ target' = target
      /\ asked' = asked /\ answer' = answer /\ (StreamChunk \/ FinishWrite)
  BY DEF WriteOn, Write, StreamChunk, FinishWrite, served
<1>2. /\ index \in Indexes /\ Writing(job, sink) /\ phase \in {"size", "serve"} /\ maxSize \in Nat /\ index.timescale # 0
      /\ phase = "size" => \A i \in 0 .. job.idx - 1 : Limits(i) /\ SegmentLen(i) <= maxSize
      /\ phase = "serve" => \A i \in 0 .. Len(index.segments) - 1 : Limits(i) /\ SegmentLen(i) <= maxSize
  BY <1>1 DEF IInv, WriteInv, PhaseInv, PhaseIs
<1>3. PICK p, j, s, m : p = phase' /\ j = job' /\ s = sink' /\ m = maxSize'
  OBVIOUS
<1>4. /\ j.idx = job.idx
      /\ \/ j.pc = "Err" /\ ~Limits(job.idx)
         \/ j.pc \in {"stream", "Ok"} /\ Writing(j, s)
  <2>1. CASE StreamChunk
    BY <1>1, <1>2, <1>3, <2>1, StreamChunkIs
  <2>2. CASE FinishWrite
    BY <1>1, <1>2, <1>3, <2>2, FinishWriteIs
  <2> QED
    BY <1>1, <2>1, <2>2
<1>5. job.idx \in 0 .. Len(index.segments) - 1
  BY <1>2, WrittenAtMost
<1>6. PlaylistInv' /\ AnswerInv'
  BY <1>1 DEF IInv, PlaylistInv, AnswerInv
<1>7. NameInv'
  BY <1>1, <1>3, <1>4 DEF IInv, NameInv
<1>8. WriteInv'
  BY <1>1, <1>3, <1>4, WriteFrom
<1>9. PhaseIs(p, j, m)
  <2>1. CASE j.pc = "Err" /\ ~Limits(job.idx)
    <3>1. ~Servable /\ phase # "serve"
      BY <1>2, <1>5, <2>1, ServableLimits
    <3> QED
      BY <1>1, <1>2, <1>3, <2>1, <3>1 DEF PhaseIs
  <2>2. CASE j.pc \in {"stream", "Ok"}
    BY <1>1, <1>2, <1>3, <1>4, <2>2 DEF PhaseIs
  <2> QED
    BY <1>4, <2>1, <2>2
<1>10. PhaseInv'
  BY <1>1, <1>3, <1>9, PhaseFrom
<1> QED
  BY <1>1, <1>2, <1>6, <1>7, <1>8, <1>10 DEF IInv

\* Asking changes nothing but what is asked; there is no segment being written then.
LEMMA AskIInv ==
  ASSUME IInv, phase = "serve", asked = Nothing, asked' \in Name, answer' = NoAnswer,
         UNCHANGED <<index, job, sink, phase, served, heard>>
  PROVE  IInv'
<1>1. /\ index' = index /\ job' = job /\ sink' = sink /\ phase' = phase
      /\ maxSize' = maxSize /\ lines' = lines /\ target' = target
  BY DEF served
<1>2. WriteInv'
  BY <1>1, WriteStays DEF IInv
<1>3. PhaseInv'
  <2>1. PICK p, j, m : p = phase' /\ j = job' /\ m = maxSize'
    OBVIOUS
  <2>2. PhaseIs(p, j, m)
    BY <1>1, <2>1 DEF IInv, PhaseInv
  <2> QED
    BY <1>1, <2>1, <2>2, PhaseFrom
<1>4. PlaylistInv'
  BY <1>1 DEF IInv, PlaylistInv
<1>5. NameInv'
  <2>1. job.pc \notin {"stream", "Ok"}
    <3> SUFFICES ASSUME job.pc \in {"stream", "Ok"} PROVE FALSE
      OBVIOUS
    <3>1. index \in Indexes /\ Writing(job, sink) /\ job.idx = ParseSegmentIdx(asked) /\ asked \in Name
      BY DEF IInv, WriteInv, NameInv
    <3>2. job.idx \in 0 .. Len(index.segments) - 1
      BY <3>1, WrittenAtMost
    <3>3. job.idx # NoSegment
      BY <3>2 DEF NoSegment
    <3> QED
      BY <3>1, <3>3, ParseIs
  <2> QED
    BY <1>1, <2>1 DEF NameInv
<1>6. AnswerInv'
  BY DEF AnswerInv, NoAnswer
<1> QED
  BY <1>1, <1>2, <1>3, <1>4, <1>5, <1>6 DEF IInv

\* The steps of those who ask: the player,
LEMMA PlayNextIInv == ASSUME IInv, HeardInv, PlayNext PROVE IInv'
<1>1. /\ phase = "serve" /\ asked = Nothing /\ Len(heard) < Len(lines)
      /\ asked' = lines[Len(heard) + 1].name
      /\ answer' = NoAnswer /\ UNCHANGED <<index, job, sink, phase, served, heard>>
  BY DEF PlayNext
<1>2. lines \in Seq([extinf : Nat, name : Name])
  BY <1>1, ServeLimits DEF Rendered
<1>3. asked' \in Name
  <2>1. PICK T : heard \in Seq(T)
    BY DEF HeardInv
  <2>2. Len(heard) \in Nat /\ Len(lines) \in Nat
    BY <1>2, <2>1
  <2>3. Len(heard) + 1 \in 1 .. Len(lines)
    BY <1>1, <2>2
  <2> DEFINE Line == [extinf : Nat, name : Name]
  <2>4. \A k \in 1 .. Len(lines) : lines[k] \in Line
    <3>1. lines \in Seq(Line)
      BY <1>2
    <3> HIDE DEF Line
    <3> QED
      BY <3>1
  <2>5. \A x \in [extinf : Nat, name : Name] : x.name \in Name
    OBVIOUS
  <2> QED
    BY <1>1, <2>3, <2>4, <2>5
<1> QED
  BY <1>1, <1>3, AskIInv

\* and the others.
LEMMA AskStrayIInv == ASSUME IInv, AskStray PROVE IInv'
<1>1. /\ phase = "serve" /\ asked = Nothing /\ asked' \in Strays
      /\ answer' = NoAnswer /\ UNCHANGED <<index, job, sink, phase, served, heard>>
  BY DEF AskStray
<1>2. asked' \in Name
  BY <1>1, ServeAssumption DEF Name
<1> QED
  BY <1>1, <1>2, AskIInv

\* A step that changes nothing.
LEMMA SameIInv == ASSUME IInv, UNCHANGED vars PROVE IInv'
<1>1. /\ index' = index /\ job' = job /\ sink' = sink /\ phase' = phase /\ maxSize' = maxSize
      /\ lines' = lines /\ target' = target /\ asked' = asked /\ answer' = answer
  BY DEF vars
<1>2. WriteInv'
  BY <1>1, WriteStays DEF IInv
<1>3. PhaseInv'
  <2>1. PICK p, j, m : p = phase' /\ j = job' /\ m = maxSize'
    OBVIOUS
  <2>2. PhaseIs(p, j, m)
    BY <1>1, <2>1 DEF IInv, PhaseInv
  <2> QED
    BY <1>1, <2>1, <2>2, PhaseFrom
<1>4. PlaylistInv' /\ NameInv' /\ AnswerInv'
  BY <1>1 DEF IInv, PlaylistInv, NameInv, AnswerInv
<1> QED
  BY <1>1, <1>2, <1>3, <1>4 DEF IInv

\* What the player heard is a sequence.
LEMMA HeardAlways == Spec => []HeardInv
<1>1. Init => HeardInv
  <2> SUFFICES ASSUME Init PROVE HeardInv
    OBVIOUS
  <2>1. heard \in Seq({})
    BY DEF Init
  <2> QED
    BY <2>1 DEF HeardInv
<1>2. HeardInv /\ [Next]_vars => HeardInv'
  <2> SUFFICES ASSUME HeardInv, [Next]_vars PROVE HeardInv'
    OBVIOUS
  <2>1. heard' = heard \/ heard' = Append(heard, sink.bytes)
    BY DEF Next, vars, RenderPlaylist, SizeSegment, SizeFails, BuildFails, Dispatch, Respond,
           PlayNext, AskStray, Stopped, WriteOn
  <2>2. PICK T : heard \in Seq(T)
    BY DEF HeardInv
  <2>3. CASE heard' = heard
    BY <2>2, <2>3 DEF HeardInv
  <2>4. CASE heard' = Append(heard, sink.bytes)
    <3>1. PICK x : x = sink.bytes
      OBVIOUS
    <3>2. PICK h : h = heard
      OBVIOUS
    <3> DEFINE U == T \cup {x}
    <3>3. h \in Seq(U) /\ x \in U
      BY <2>2, <3>2
    <3> HIDE DEF U
    <3>4. Append(h, x) \in Seq(U)
      BY <3>3
    <3> QED
      BY <2>4, <3>1, <3>2, <3>4 DEF HeardInv
  <2> QED
    BY <2>1, <2>3, <2>4
<1> QED
  BY <1>1, <1>2, PTL DEF Spec

\* Every step keeps IInv,
LEMMA NextIInv == IInv /\ HeardInv /\ [Next]_vars => IInv'
<1> SUFFICES ASSUME IInv, HeardInv, [Next]_vars PROVE IInv'
  OBVIOUS
<1>1. CASE RenderPlaylist
  BY <1>1, RenderPlaylistIInv
<1>2. CASE SizeSegment
  BY <1>2, SizeSegmentIInv
<1>3. CASE SizeFails
  BY <1>3, SizeFailsIInv
<1>4. CASE Dispatch
  BY <1>4, DispatchIInv
<1>5. CASE Respond
  BY <1>5, RespondIInv
<1>6. CASE WriteOn
  BY <1>6, WriteOnIInv
<1>7. CASE PlayNext
  BY <1>7, PlayNextIInv
<1>8. CASE AskStray
  BY <1>8, AskStrayIInv
<1>9. CASE UNCHANGED vars
  BY <1>9, SameIInv
<1> QED
  BY <1>1, <1>2, <1>3, <1>4, <1>5, <1>6, <1>7, <1>8, <1>9 DEF Next, Stopped

\* so that it holds always.
LEMMA InductiveInvariant == Spec => []IInv
<1> QED
  BY InitIInv, NextIInv, HeardAlways, PTL DEF Spec

-----------------------------------------------------------------------------
\* The server's buffer is large enough: the builder's counting sink has measured every
\* segment that is served, and the size that mdat was given never turns out wrong.
THEOREM NeverOverrunsBuffer == Spec => []FitsBuffer
<1>1. ASSUME IInv PROVE FitsBuffer
  <2>1. job.pc # "panic"
    BY <1>1 DEF IInv, PhaseInv, PhaseIs
  <2>2. ASSUME phase = "serve", job.pc \in {"stream", "Ok"} PROVE sink.bytes.len <= maxSize
    <3>1. index \in Indexes /\ Writing(job, sink) /\ maxSize \in Nat
      BY <1>1, <2>2 DEF IInv, WriteInv, PhaseInv, PhaseIs
    <3>2. /\ sink.bytes.len <= SegmentLen(job.idx) /\ SegmentLen(job.idx) \in Nat /\ sink.bytes.len \in Nat
          /\ job.idx \in 0 .. Len(index.segments) - 1
      BY <3>1, WrittenAtMost
    <3>3. SegmentLen(job.idx) <= maxSize
      BY <1>1, <2>2, <3>2, ServeLimits
    <3> QED
      BY <3>1, <3>2, <3>3
  <2> QED
    BY <2>1, <2>2 DEF FitsBuffer
<1> QED
  BY <1>1, InductiveInvariant, PTL

\* The builder refuses exactly the archives that break a limit, and the server none: a
\* request for a segment never ends with an internal error.
THEOREM OnlyTheBuilderRefuses == Spec => []RefusedOnlyByBuilder
<1>1. ASSUME IInv PROVE RefusedOnlyByBuilder
  <2>1. phase = "failed" => ~Servable
    BY <1>1 DEF IInv, PhaseInv, PhaseIs
  <2>2. ASSUME phase = "serve" PROVE Servable
    <3>1. index \in Indexes /\ index.timescale # 0 /\ \A i \in 0 .. Len(index.segments) - 1 : Limits(i)
      BY <1>1, <2>2 DEF IInv, PhaseInv, PhaseIs
    <3> QED
      BY <3>1, LimitsServable
  <2>3. answer.status # 500
    BY <1>1 DEF IInv, AnswerInv
  <2> QED
    BY <2>1, <2>2, <2>3 DEF RefusedOnlyByBuilder
<1> QED
  BY <1>1, InductiveInvariant, PTL

\* The playlist that write_media_playlist renders prints no segment longer than its target
\* duration, and its durations do not drift by more than their rounding.
THEOREM PlaylistTellsDurations == Spec => []PlaylistHonest
<1>1. ASSUME IInv PROVE PlaylistHonest
  BY <1>1, RenderedHonest, NoLinesHonest DEF IInv, PlaylistInv
<1> QED
  BY <1>1, InductiveInvariant, PTL

\* parse_segment_idx and the bound in handle_segment find the i-th segment under its name
\* in the playlist, under that name with more zeros in front, and under no other.
THEOREM NamesFindTheirSegments == Spec => []NamesResolve
<1>1. ASSUME IInv PROVE NamesResolve
  <2> DEFINE n == Len(index.segments)
  <2>1. index \in Indexes
    BY <1>1 DEF IInv
  <2>2. n \in Nat /\ n <= NumberMax /\ NumberMax \in Nat
    BY <2>1, IndexType, PlaylistAssumption
  <2>3. /\ answer.status \in {0, 200, 404}
        /\ answer.status = 200 => answer.idx = ParseSegmentIdx(answer.name) /\ answer.idx \in 0 .. n - 1
        /\ answer.status = 404 =>
             ParseSegmentIdx(answer.name) = NoSegment \/ ParseSegmentIdx(answer.name) >= n
    BY <1>1 DEF IInv, AnswerInv
  <2>4. ASSUME answer.status # 0
        PROVE  /\ DOMAIN lines = 1 .. n
               /\ \A i \in 1 .. n : Stands(answer.name, lines[i].name) <=> ParseSegmentIdx(answer.name) = i - 1
    <3>1. Rendered(index, lines, target) /\ answer.name \in Name
      BY <1>1, <2>4 DEF IInv, AnswerInv, PlaylistInv
    <3>2. DOMAIN lines = 1 .. n /\ \A i \in 1 .. n : lines[i].name = SegmentName(i)
      BY <3>1 DEF Rendered
    <3>3. 1 .. n \subseteq 1 .. NumberMax
      BY <2>2
    <3> HIDE DEF n
    <3>4. \A i \in 1 .. n : Stands(answer.name, SegmentName(i)) <=> ParseSegmentIdx(answer.name) = i - 1
      BY <3>1, <3>3, ReadsExactlyPadded
    <3> QED
      BY <3>2, <3>4
  <2> HIDE DEF n
  <2>5. ASSUME answer.status = 200
        PROVE  /\ answer.idx + 1 \in DOMAIN lines
               /\ \A i \in DOMAIN lines : Stands(answer.name, lines[i].name) <=> answer.idx = i - 1
    <3>1. answer.idx \in 0 .. n - 1 /\ DOMAIN lines = 1 .. n
      BY <2>3, <2>4, <2>5
    <3>2. answer.idx + 1 \in DOMAIN lines
      BY <2>2, <3>1
    <3>3. \A i \in 1 .. n : Stands(answer.name, lines[i].name) <=> answer.idx = i - 1
      BY <2>3, <2>4, <2>5
    <3> QED
      BY <3>1, <3>2, <3>3
  <2>6. ASSUME answer.status = 404, NEW i \in DOMAIN lines
        PROVE  ~Stands(answer.name, lines[i].name)
    <3>1. i \in 1 .. n /\ (Stands(answer.name, lines[i].name) <=> ParseSegmentIdx(answer.name) = i - 1)
      BY <2>4, <2>6
    <3>2. ParseSegmentIdx(answer.name) # i - 1
      BY <2>2, <2>3, <2>6, <3>1 DEF NoSegment
    <3> QED
      BY <3>1, <3>2
  <2> QED
    BY <2>5, <2>6 DEF NamesResolve
<1> QED
  BY <1>1, InductiveInvariant, PTL

=============================================================================
