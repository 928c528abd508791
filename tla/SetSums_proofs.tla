--------------------------- MODULE SetSums_proofs ---------------------------
(***************************************************************************)
(* Facts about sums over finite sets, and about the first n elements of a  *)
(* finite set in a strict order, for the modules whose counts and budgets  *)
(* are such sums.                                                          *)
(***************************************************************************)
EXTENDS SetSums, TLAPS, FiniteSetTheorems, WellFoundedInduction

----------------------------------------------------------------------------
(* Sums.  The fold of the community modules takes any element first; that   *)
(* the order does not matter follows by induction on the cardinality, as     *)
(* the absence of a least counterexample.                                    *)

\* The naturals are well founded.
LEMMA LessWellFounded ==
    \E R : IsWellFoundedOn(R, Nat) /\ \A x, y \in Nat : x < y => <<x, y>> \in R
<1>1. \A x, y \in Nat : x < y => <<x, y>> \in OpToRel(<, Nat)
  BY DEF OpToRel
<1> QED
  BY <1>1, NatLessThanWellFounded, Zenon

\* A set of naturals that is not empty has a least element.
LEMMA LeastOf ==
    ASSUME NEW S, S \subseteq Nat, S # {}
    PROVE  \E x \in S : \A y \in S : x <= y
<1>1. PICK R : IsWellFoundedOn(R, Nat) /\ \A x, y \in Nat : x < y => <<x, y>> \in R
  BY LessWellFounded
<1>2. IsWellFoundedOn(R, Nat) /\ S \subseteq Nat
  BY <1>1
<1>3. PICK x \in S : \A y \in S : ~ (<<y, x>> \in R)
  BY <1>2, WFMin, Zenon
<1>4. \A y \in S : ~ (y < x)
  BY <1>1, <1>3, Zenon
<1> QED
  BY <1>3, <1>4

\* The fold: what it is at a set, given what it is at the smaller ones.
AnyOf(s) == CHOOSE x \in s : TRUE
SumAt(f, it, s) == IF s = {} THEN 0 ELSE f[AnyOf(s)] + it[s \ {AnyOf(s)}]

Sums(f, D, it) == it = [s \in SUBSET D |-> SumAt(f, it, s)]
SumsUpTo(f, D, it, n) ==
    /\ it = [s \in {t \in SUBSET D : Cardinality(t) <= n} |-> it[s]]
    /\ \A s \in SUBSET D : Cardinality(s) <= n => it[s] = SumAt(f, it, s)

\* A set without one of its elements.
LEMMA OneLess ==
    ASSUME NEW D, IsFiniteSet(D), NEW s \in SUBSET D
    PROVE  /\ IsFiniteSet(s) /\ Cardinality(s) \in Nat
           /\ Cardinality(s) = 0 <=> s = {}
           /\ \A x \in s : s \ {x} \in SUBSET D /\ Cardinality(s \ {x}) = Cardinality(s) - 1
           /\ s # {} => AnyOf(s) \in s
<1>1. IsFiniteSet(s)
  BY FS_Subset
<1>2. \A x \in s : Cardinality(s \ {x}) = Cardinality(s) - 1
  BY <1>1, FS_RemoveElement
<1>3. s # {} => AnyOf(s) \in s
  BY DEF AnyOf
<1> QED
  BY <1>1, <1>2, <1>3, FS_CardinalityType, FS_EmptySet

\* The recursive function exists.
LEMMA IterExists ==
    ASSUME NEW f, NEW D, IsFiniteSet(D)
    PROVE  \E it : Sums(f, D, it)
<1> DEFINE bad == {n \in Nat : ~ \E it : SumsUpTo(f, D, it, n)}
<1>1. bad = {}
  <2> SUFFICES ASSUME bad # {} PROVE FALSE
    OBVIOUS
  <2>1. PICK n \in bad : \A k \in bad : n <= k
    BY LeastOf
  <2>2. CASE n = 0
    <3> DEFINE it == [s \in {t \in SUBSET D : Cardinality(t) <= n} |-> 0]
    <3>1. \A s \in SUBSET D : Cardinality(s) <= n => s = {}
      BY <2>2, OneLess
    <3>2. SumsUpTo(f, D, it, n)
      BY <3>1 DEF SumsUpTo, SumAt
    <3> QED
      BY <3>2
  <2>3. CASE n # 0
    <3>1. n - 1 \in Nat /\ n - 1 \notin bad
      BY <2>1, <2>3
    <3>2. PICK old : SumsUpTo(f, D, old, n - 1)
      BY <3>1
    <3> DEFINE it == [s \in {t \in SUBSET D : Cardinality(t) <= n} |-> SumAt(f, old, s)]
    <3>3. \A s \in SUBSET D : Cardinality(s) <= n - 1 => it[s] = old[s]
      BY <3>1, <3>2, OneLess DEF SumsUpTo
    <3>4. ASSUME NEW s \in SUBSET D, Cardinality(s) <= n PROVE it[s] = SumAt(f, it, s)
      <4>1. it[s] = SumAt(f, old, s)
        BY <3>4
      <4>2. CASE s = {}
        BY <4>1, <4>2 DEF SumAt
      <4>3. CASE s # {}
        <5>1. s \ {AnyOf(s)} \in SUBSET D /\ Cardinality(s \ {AnyOf(s)}) <= n - 1
          BY <3>4, <4>3, <3>1, OneLess
        <5>2. it[s \ {AnyOf(s)}] = old[s \ {AnyOf(s)}]
          BY <3>3, <5>1
        <5> HIDE DEF it
        <5> QED
          BY <4>1, <4>3, <5>2 DEF SumAt
      <4> QED
        BY <4>2, <4>3
    <3>5. it = [s \in {t \in SUBSET D : Cardinality(t) <= n} |-> it[s]]
      OBVIOUS
    <3> HIDE DEF it
    <3>6. SumsUpTo(f, D, it, n)
      BY <3>4, <3>5 DEF SumsUpTo
    <3> QED
      BY <3>6
  <2> QED
    BY <2>2, <2>3
<1>2. Cardinality(D) \in Nat
  BY FS_CardinalityType
<1>3. PICK it : SumsUpTo(f, D, it, Cardinality(D))
  BY <1>1, <1>2
<1>4. \A s \in SUBSET D : Cardinality(s) <= Cardinality(D)
  BY FS_Subset
<1>5. {t \in SUBSET D : Cardinality(t) <= Cardinality(D)} = SUBSET D
  BY <1>4
<1>6. it = [s \in SUBSET D |-> it[s]] /\ \A s \in SUBSET D : it[s] = SumAt(f, it, s)
  BY <1>3, <1>4, <1>5 DEF SumsUpTo
<1>7. Sums(f, D, it)
  BY <1>6 DEF Sums
<1> QED
  BY <1>7 DEF Sums

\* A sum is that function's value.
LEMMA OverIter ==
    ASSUME NEW D, IsFiniteSet(D), NEW f, DOMAIN f = D
    PROVE  \E it : /\ Over(f) = it[D]
                   /\ Sums(f, D, it)
<1> DEFINE fits(it) == it = [s \in SUBSET D |-> IF s = {} THEN 0 ELSE f[CHOOSE x \in s : TRUE] + it[s \ {CHOOSE x \in s : TRUE}]]
           c == CHOOSE it : fits(it)
<1>1. \A it : fits(it) <=> Sums(f, D, it)
  BY DEF SumAt, AnyOf, Sums
<1>2. Over(f) = c[D]
  BY DEF Over, MapThenSumSet, MapThenFoldSet
<1>4. \E it : Sums(f, D, it)
  BY IterExists
<1> HIDE DEF fits
<1>5. fits(c)
  BY <1>1, <1>4
<1> HIDE DEF c
<1> QED
  BY <1>1, <1>2, <1>5

\* Any element may be the one that is taken off.
Additive(f, it, s) == it[s] \in Int /\ \A x \in s : it[s] = it[s \ {x}] + f[x]
LEMMA OrderFree ==
    ASSUME NEW D, IsFiniteSet(D), NEW f \in [D -> Int],
           NEW it, Sums(f, D, it)
    PROVE  \A s \in SUBSET D : Additive(f, it, s)
<1> DEFINE bad == {n \in Nat : \E s \in SUBSET D : Cardinality(s) = n /\ ~ Additive(f, it, s)}
<1>1. \A s \in SUBSET D : it[s] = SumAt(f, it, s)
  BY DEF Sums
<1>2. \A s \in SUBSET D : Additive(f, it, s) => it[s] \in Int /\ \A x \in s : it[s] = it[s \ {x}] + f[x]
  BY DEF Additive
<1>3. \A s \in SUBSET D : it[s] \in Int /\ (\A x \in s : it[s] = it[s \ {x}] + f[x]) => Additive(f, it, s)
  BY DEF Additive
<1>4. bad = {}
  <2> SUFFICES ASSUME bad # {} PROVE FALSE
    OBVIOUS
  <2>1. PICK n \in bad : \A k \in bad : n <= k
    BY LeastOf
  <2>2. PICK s \in SUBSET D : Cardinality(s) = n /\ ~ Additive(f, it, s)
    BY <2>1
  <2>3. ASSUME NEW t \in SUBSET D, Cardinality(t) < n PROVE Additive(f, it, t)
    BY <2>1, <2>3, OneLess
  <2> HIDE DEF bad
  <2>4. s # {}
    <3> SUFFICES ASSUME s = {} PROVE Additive(f, it, s)
      BY <2>2
    <3>1. it[s] = 0 /\ \A x \in s : FALSE
      BY <1>1 DEF SumAt
    <3>2. it[s] \in Int /\ \A x \in s : it[s] = it[s \ {x}] + f[x]
      BY <3>1
    <3> QED
      BY <1>3, <3>2
  <2> DEFINE p == AnyOf(s)
  <2>5. p \in s /\ it[s] = f[p] + it[s \ {p}]
    BY <1>1, <2>4, OneLess DEF SumAt
  <2> HIDE DEF p
  <2>6. ASSUME NEW x \in s PROVE s \ {x} \in SUBSET D /\ Additive(f, it, s \ {x}) /\ f[x] \in Int
    <3>1. s \ {x} \in SUBSET D /\ Cardinality(s \ {x}) < n
      BY <2>2, OneLess
    <3> QED
      BY <2>3, <3>1
  <2>7. it[s] \in Int
    <3>1. it[s \ {p}] \in Int /\ f[p] \in Int
      BY <1>2, <2>5, <2>6
    <3> QED
      BY <2>5, <3>1
  <2>8. ASSUME NEW x \in s PROVE it[s] = it[s \ {x}] + f[x]
    <3>1. CASE x = p
      <4>1. it[s \ {p}] \in Int /\ f[p] \in Int
        BY <1>2, <2>5, <2>6
      <4> QED
        BY <2>5, <3>1, <4>1
    <3>2. CASE x # p
      <4>1. it[s \ {x}] = it[(s \ {x}) \ {p}] + f[p]
        <5>1. s \ {x} \in SUBSET D /\ Additive(f, it, s \ {x}) /\ p \in s \ {x}
          BY <2>5, <2>6, <3>2
        <5> QED
          BY <1>2, <5>1
      <4>2. it[s \ {p}] = it[(s \ {p}) \ {x}] + f[x]
        <5>1. s \ {p} \in SUBSET D /\ Additive(f, it, s \ {p}) /\ x \in s \ {p}
          BY <2>5, <2>6, <3>2
        <5> QED
          BY <1>2, <5>1
      <4>3. (s \ {x}) \ {p} = (s \ {p}) \ {x}
        OBVIOUS
      <4>4. (s \ {p}) \ {x} \in SUBSET D /\ Cardinality((s \ {p}) \ {x}) < n
        <5>1. x \in s \ {p} /\ s \ {p} \in SUBSET D
          BY <2>6, <2>5, <3>2
        <5>2. Cardinality(s \ {p}) = n - 1 /\ n \in Nat
          BY <2>1, <2>2, <2>5, OneLess
        <5>3. Cardinality((s \ {p}) \ {x}) = Cardinality(s \ {p}) - 1 /\ (s \ {p}) \ {x} \in SUBSET D
          BY <5>1, OneLess
        <5> QED
          BY <5>2, <5>3
      <4>5. it[(s \ {p}) \ {x}] \in Int
        BY <1>2, <2>3, <4>4
      <4>6. f[x] \in Int /\ f[p] \in Int
        BY <2>5
      <4> QED
        <5> DEFINE w == it[(s \ {p}) \ {x}]
                   u == f[p]
                   v == f[x]
        <5>1. it[s \ {x}] = w + u /\ it[s] = u + (w + v)
          BY <2>5, <4>1, <4>2, <4>3
        <5>2. w \in Int /\ u \in Int /\ v \in Int
          BY <4>5, <4>6
        <5> HIDE DEF w, u
        <5>3. it[s] = (w + u) + v
          BY <5>1, <5>2
        <5> QED
          BY <5>1, <5>3
    <3> QED
      BY <3>1, <3>2
  <2> QED
    BY <1>3, <2>2, <2>7, <2>8
<1>5. ASSUME NEW s \in SUBSET D PROVE Additive(f, it, s)
  BY <1>4, OneLess
<1> QED
  BY <1>5

\* Sums of functions that agree agree.
LEMMA Agree ==
    ASSUME NEW D, IsFiniteSet(D), NEW f \in [D -> Int], NEW E, E \subseteq D, NEW g \in [E -> Int],
           \A x \in E : g[x] = f[x],
           NEW it, Sums(f, D, it),
           NEW jt, Sums(g, E, jt)
    PROVE  \A s \in SUBSET E : jt[s] = it[s]
<1> DEFINE bad == {n \in Nat : \E s \in SUBSET E : Cardinality(s) = n /\ jt[s] # it[s]}
<1>1. \A s \in SUBSET D : it[s] = SumAt(f, it, s)
  BY DEF Sums
<1>2. \A s \in SUBSET E : jt[s] = SumAt(g, jt, s)
  BY DEF Sums
<1>3. \A s \in SUBSET E : s \in SUBSET D
  OBVIOUS
<1>4. bad = {}
  <2> SUFFICES ASSUME bad # {} PROVE FALSE
    OBVIOUS
  <2>1. PICK n \in bad : \A k \in bad : n <= k
    BY LeastOf
  <2>2. PICK s \in SUBSET E : Cardinality(s) = n /\ jt[s] # it[s]
    BY <2>1
  <2>3. ASSUME NEW t \in SUBSET E, Cardinality(t) < n PROVE jt[t] = it[t]
    BY <1>3, <2>1, <2>3, OneLess
  <2> HIDE DEF bad
  <2>4. s \in SUBSET D
    BY <1>3
  <2>5. s # {}
    <3> SUFFICES ASSUME s = {} PROVE it[s] = 0 /\ jt[s] = 0
      BY <2>2
    <3> QED
      BY <1>1, <1>2, <2>4 DEF SumAt
  <2>6. AnyOf(s) \in s /\ s \ {AnyOf(s)} \in SUBSET E /\ Cardinality(s \ {AnyOf(s)}) < n
    BY <2>2, <2>4, <2>5, OneLess
  <2>7. jt[s \ {AnyOf(s)}] = it[s \ {AnyOf(s)}] /\ g[AnyOf(s)] = f[AnyOf(s)]
    BY <2>3, <2>6
  <2>8. jt[s] = SumAt(g, jt, s) /\ it[s] = SumAt(f, it, s)
    BY <1>1, <1>2, <2>4
  <2> QED
    BY <2>2, <2>5, <2>7, <2>8 DEF SumAt
<1> QED
  BY <1>3, <1>4, OneLess

\* A sum is an integer, and one summand can be taken off it.
LEMMA SumStep ==
    ASSUME NEW D, IsFiniteSet(D), NEW f \in [D -> Int]
    PROVE  /\ Over(f) \in Int
           /\ D = {} => Over(f) = 0
           /\ \A x \in D : Over(f) = Over([y \in D \ {x} |-> f[y]]) + f[x]
<1>1. PICK it : Over(f) = it[D] /\ Sums(f, D, it)
  <2>1. DOMAIN f = D
    OBVIOUS
  <2> QED
    BY <2>1, OverIter
<1>2. \A s \in SUBSET D : it[s] \in Int /\ \A x \in s : it[s] = it[s \ {x}] + f[x]
  <2>1. Sums(f, D, it)
    BY <1>1
  <2>2. \A s \in SUBSET D : Additive(f, it, s)
    BY <2>1, OrderFree
  <2> QED
    BY <2>2 DEF Additive
<1>3. D = {} => it[D] = 0
  BY <1>1 DEF SumAt, Sums
<1>4. ASSUME NEW x \in D PROVE Over([y \in D \ {x} |-> f[y]]) = it[D \ {x}]
  <2> DEFINE E == D \ {x}
             g == [y \in E |-> f[y]]
  <2>1. E \subseteq D /\ IsFiniteSet(E) /\ g \in [E -> Int] /\ DOMAIN g = E /\ \A y \in E : g[y] = f[y]
    BY FS_Subset
  <2> HIDE DEF g, E
  <2>2. PICK jt : Over(g) = jt[E] /\ Sums(g, E, jt)
    BY <2>1, OverIter
  <2>3. \A s \in SUBSET E : jt[s] = it[s]
    <3>1. Sums(f, D, it)
      BY <1>1
    <3>2. Sums(g, E, jt)
      BY <2>2
    <3> QED
      BY <2>1, <3>1, <3>2, Agree
  <2>4. Over(g) = it[E]
    BY <2>2, <2>3
  <2> QED
    BY <2>4 DEF g, E
<1> QED
  BY <1>1, <1>2, <1>3, <1>4

\* Sums of naturals are naturals, and no smaller than a summand.
LEMMA SumNat ==
    ASSUME NEW D, IsFiniteSet(D), NEW f \in [D -> Nat]
    PROVE  Over(f) \in Nat /\ \A x \in D : f[x] <= Over(f)
<1> DEFINE on(s) == [y \in s |-> f[y]]
           bad == {n \in Nat : \E s \in SUBSET D : Cardinality(s) = n /\ Over(on(s)) \notin Nat}
<1>1. ASSUME NEW s \in SUBSET D
      PROVE  /\ Over(on(s)) \in Int
             /\ s = {} => Over(on(s)) = 0
             /\ \A x \in s : Over(on(s)) = Over(on(s \ {x})) + f[x]
  <2> DEFINE g == on(s)
  <2>1. g \in [s -> Int] /\ IsFiniteSet(s) /\ \A x \in s : g[x] = f[x]
    BY FS_Subset
  <2>2. \A x \in s : [y \in s \ {x} |-> g[y]] = on(s \ {x})
    OBVIOUS
  <2> HIDE DEF g, on
  <2>3. /\ Over(g) \in Int
        /\ s = {} => Over(g) = 0
        /\ \A x \in s : Over(g) = Over([y \in s \ {x} |-> g[y]]) + g[x]
    BY <2>1, SumStep
  <2>4. g = on(s)
    BY DEF g
  <2> QED
    BY <2>1, <2>2, <2>3, <2>4
<1> HIDE DEF on
<1>2. bad = {}
  <2> SUFFICES ASSUME bad # {} PROVE FALSE
    OBVIOUS
  <2>1. PICK n \in bad : \A k \in bad : n <= k
    BY LeastOf
  <2>2. PICK s \in SUBSET D : Cardinality(s) = n /\ Over(on(s)) \notin Nat
    BY <2>1
  <2>3. PICK x \in s : TRUE
    BY <1>1, <2>2
  <2>4. s \ {x} \in SUBSET D /\ Cardinality(s \ {x}) \in Nat /\ Cardinality(s \ {x}) < n
    BY <2>2, OneLess
  <2>5. Over(on(s \ {x})) \in Nat
    BY <2>1, <2>4
  <2> QED
    BY <1>1, <2>2, <2>5
<1>3. \A s \in SUBSET D : Over(on(s)) \in Nat
  BY <1>2, OneLess
<1>4. on(D) = f
  BY DEF on
<1>5. \A x \in D : Over(f) = Over(on(D \ {x})) + f[x] /\ Over(on(D \ {x})) \in Nat
  BY <1>1, <1>3, <1>4
<1>6. Over(f) \in Nat
  BY <1>3, <1>4
<1>7. ASSUME NEW x \in D PROVE f[x] <= Over(f)
  <2>1. f[x] \in Nat
    OBVIOUS
  <2>2. PICK rest \in Nat : Over(f) = rest + f[x]
    BY <1>5
  <2> QED
    BY <2>1, <2>2
<1> QED
  BY <1>6, <1>7

\* A finite set of integers that is not empty and has a bound has a greatest.
LEMMA MaxOf ==
    ASSUME NEW S, S \subseteq Int, S # {}, NEW b \in Int, \A x \in S : x <= b
    PROVE  Max(S) \in S /\ \A x \in S : x <= Max(S)
<1> DEFINE below == {b - x : x \in S}
<1>1. below \subseteq Nat /\ below # {}
  <2>1. \A x \in S : b - x \in Nat
    <3> SUFFICES ASSUME NEW x \in S PROVE b - x \in Nat
      OBVIOUS
    <3>1. x \in Int /\ x <= b
      OBVIOUS
    <3> QED
      BY <3>1
  <2>2. \E x \in S : TRUE
    OBVIOUS
  <2> QED
    BY <2>1, <2>2
<1>2. PICK d \in below : \A e \in below : d <= e
  BY <1>1, LeastOf
<1>3. PICK x \in S : d = b - x
  BY <1>2
<1>4. \A y \in S : x >= y
  BY <1>2, <1>3
<1> QED
  BY <1>4 DEF Max
LEMMA MinOf ==
    ASSUME NEW S, S \subseteq Nat, S # {}
    PROVE  Min(S) \in S /\ \A x \in S : Min(S) <= x
BY LeastOf DEF Min

LEMMA Multiplied ==
    /\ \A a, b \in Int : a * b \in Int
    /\ \A a, b \in Nat \ {0} : a * b \in Nat \ {0}
<1>1. \A a, b \in Int : a * b \in Int
  OBVIOUS
<1>2. ASSUME NEW a \in Nat \ {0}, NEW b \in Nat \ {0} PROVE a * b \in Nat \ {0}
  OBVIOUS
<1> QED
  BY <1>1, <1>2
LEMMA Divided == \A a \in Int : \A b \in Nat \ {0} : a \div b \in Int /\ a % b \in Int
OBVIOUS

LEMMA LeastMost ==
    \A a, b \in Int : /\ Least(a, b) \in Int /\ Most(a, b) \in Int
                      /\ Least(a, b) <= a /\ Least(a, b) <= b
                      /\ a <= Most(a, b) /\ b <= Most(a, b)
BY DEF Least, Most

\* A sum of what is positive is positive.
LEMMA SumPositive ==
    ASSUME NEW D, IsFiniteSet(D), D # {}, NEW f \in [D -> Nat \ {0}]
    PROVE  Over(f) \in Nat \ {0}
<1>1. f \in [D -> Nat] /\ \A x \in D : f[x] \in Nat \ {0}
  OBVIOUS
<1>2. Over(f) \in Nat /\ \A x \in D : f[x] <= Over(f)
  BY <1>1, SumNat
<1>3. PICK x \in D : TRUE
  OBVIOUS
<1>4. f[x] \in Nat \ {0} /\ f[x] <= Over(f)
  BY <1>1, <1>2
<1> QED
  BY <1>2, <1>4

----------------------------------------------------------------------------
(* Sums over a set that grows by one element at a time.                    *)

\* A family of subsets of a finite set that holds the empty set, and with a set
\* each that has one element more, holds the whole set.
LEMMA GrowTo ==
    ASSUME NEW D, IsFiniteSet(D), NEW good, {} \in good,
           \A A \in SUBSET D : \A x \in D \ A : A \in good => A \cup {x} \in good
    PROVE  D \in good
<1> DEFINE bad == {n \in Nat : \E A \in SUBSET D : Cardinality(A) = n /\ A \notin good}
<1>1. \A A \in SUBSET D : IsFiniteSet(A) /\ Cardinality(A) \in Nat
  BY FS_Subset, FS_CardinalityType
<1>2. bad = {}
  <2> SUFFICES ASSUME bad # {} PROVE FALSE
    OBVIOUS
  <2>1. PICK n \in bad : \A k \in bad : n <= k
    BY LeastOf
  <2>2. PICK A \in SUBSET D : Cardinality(A) = n /\ A \notin good
    BY <2>1
  <2>3. PICK x \in A : TRUE
    BY <2>2
  <2>4. A \ {x} \in SUBSET D /\ Cardinality(A \ {x}) \in Nat /\ Cardinality(A \ {x}) < n
    BY <2>2, OneLess
  <2>5. A \ {x} \in good
    BY <2>1, <2>4
  <2>6. (A \ {x}) \cup {x} = A
    OBVIOUS
  <2> QED
    BY <2>2, <2>4, <2>5, <2>6
<1> QED
  BY <1>1, <1>2

\* The part of a function on a set, and how its sum grows.
On(f, A) == [y \in A |-> f[y]]
LEMMA OnStep ==
    ASSUME NEW D, IsFiniteSet(D), NEW f \in [D -> Int]
    PROVE  /\ On(f, D) = f /\ Over(On(f, {})) = 0
           /\ \A A \in SUBSET D : Over(On(f, A)) \in Int
           /\ \A A \in SUBSET D : \A x \in D \ A :
                 Over(On(f, A \cup {x})) = Over(On(f, A)) + f[x]
<1>1. \A A \in SUBSET D : On(f, A) \in [A -> Int] /\ IsFiniteSet(A)
  BY FS_Subset DEF On
<1>2. \A A \in SUBSET D : Over(On(f, A)) \in Int
  BY <1>1, SumStep
<1>3. Over(On(f, {})) = 0
  BY <1>1, SumStep
<1>4. ASSUME NEW A \in SUBSET D, NEW x \in D \ A
      PROVE  Over(On(f, A \cup {x})) = Over(On(f, A)) + f[x]
  <2> DEFINE B == A \cup {x}
             g == On(f, B)
  <2>1. B \in SUBSET D /\ x \in B /\ B \ {x} = A
    OBVIOUS
  <2>2. g[x] = f[x] /\ [y \in B \ {x} |-> g[y]] = On(f, A)
    BY <2>1 DEF On
  <2> HIDE DEF g, B
  <2>3. g \in [B -> Int] /\ IsFiniteSet(B)
    BY <1>1, <2>1 DEF g
  <2>4. Over(g) = Over([y \in B \ {x} |-> g[y]]) + g[x]
    BY <2>1, <2>3, SumStep
  <2> QED
    BY <2>2, <2>4 DEF g, B
<1> QED
  BY <1>2, <1>3, <1>4 DEF On

\* The sum of two functions.
LEMMA SumOfTwo ==
    ASSUME NEW D, IsFiniteSet(D), NEW f \in [D -> Int], NEW g \in [D -> Int],
           NEW h \in [D -> Int], \A x \in D : h[x] = f[x] + g[x]
    PROVE  Over(h) = Over(f) + Over(g)
<1> DEFINE good == {A \in SUBSET D : Over(On(h, A)) = Over(On(f, A)) + Over(On(g, A))}
<1>1. {} \in good
  <2>1. Over(On(h, {})) = 0 /\ Over(On(f, {})) = 0 /\ Over(On(g, {})) = 0
    BY OnStep
  <2> QED
    BY <2>1
<1>2. ASSUME NEW A \in SUBSET D, NEW x \in D \ A, A \in good PROVE A \cup {x} \in good
  <2>1. /\ Over(On(f, A \cup {x})) = Over(On(f, A)) + f[x]
        /\ Over(On(g, A \cup {x})) = Over(On(g, A)) + g[x]
        /\ Over(On(h, A \cup {x})) = Over(On(h, A)) + h[x]
        /\ Over(On(f, A)) \in Int /\ Over(On(g, A)) \in Int
    BY OnStep
  <2>2. Over(On(h, A)) = Over(On(f, A)) + Over(On(g, A)) /\ h[x] = f[x] + g[x]
    BY <1>2
  <2>3. f[x] \in Int /\ g[x] \in Int
    OBVIOUS
  <2>4. Over(On(h, A \cup {x})) = Over(On(f, A \cup {x})) + Over(On(g, A \cup {x}))
    BY <2>1, <2>2, <2>3
  <2> QED
    BY <2>4
<1> HIDE DEF good
<1>3. D \in good
  BY <1>1, <1>2, GrowTo
<1>4. Over(On(h, D)) = Over(On(f, D)) + Over(On(g, D))
  BY <1>3 DEF good
<1> QED
  BY <1>4, OnStep

\* A multiple of a function.
LEMMA SumScaled ==
    ASSUME NEW D, IsFiniteSet(D), NEW f \in [D -> Int], NEW c \in Int,
           NEW h \in [D -> Int], \A x \in D : h[x] = c * f[x]
    PROVE  Over(h) = c * Over(f)
<1> DEFINE good == {A \in SUBSET D : Over(On(h, A)) = c * Over(On(f, A))}
<1>1. {} \in good
  <2>1. Over(On(h, {})) = 0 /\ Over(On(f, {})) = 0
    BY OnStep
  <2> QED
    BY <2>1
<1>2. ASSUME NEW A \in SUBSET D, NEW x \in D \ A, A \in good PROVE A \cup {x} \in good
  <2>1. /\ Over(On(f, A \cup {x})) = Over(On(f, A)) + f[x]
        /\ Over(On(h, A \cup {x})) = Over(On(h, A)) + h[x]
        /\ Over(On(f, A)) \in Int
    BY OnStep
  <2>2. Over(On(h, A)) = c * Over(On(f, A)) /\ h[x] = c * f[x]
    BY <1>2
  <2>3. \A a, b \in Int : c * (a + b) = c * a + c * b
    OBVIOUS
  <2>4. f[x] \in Int
    OBVIOUS
  <2>5. Over(On(h, A \cup {x})) = c * Over(On(f, A \cup {x}))
    BY <2>1, <2>2, <2>3, <2>4
  <2> QED
    BY <2>5
<1> HIDE DEF good
<1>3. D \in good
  BY <1>1, <1>2, GrowTo
<1>4. Over(On(h, D)) = c * Over(On(f, D))
  BY <1>3 DEF good
<1> QED
  BY <1>4, OnStep

\* A larger function has the larger sum.
LEMMA SumMonotone ==
    ASSUME NEW D, IsFiniteSet(D), NEW f \in [D -> Int], NEW g \in [D -> Int],
           \A x \in D : f[x] <= g[x]
    PROVE  /\ Over(f) <= Over(g)
           /\ (\E x \in D : f[x] < g[x]) => Over(f) < Over(g)
<1> DEFINE h == [x \in D |-> g[x] - f[x]]
<1>1. h \in [D -> Nat] /\ \A x \in D : g[x] = f[x] + h[x] /\ h[x] = g[x] - f[x]
  <2>1. \A x \in D : f[x] \in Int /\ g[x] \in Int /\ f[x] <= g[x]
    OBVIOUS
  <2> QED
    BY <2>1
<1> HIDE DEF h
<1>2. h \in [D -> Int]
  BY <1>1
<1>3. Over(g) = Over(f) + Over(h)
  BY <1>1, <1>2, SumOfTwo
<1>4. Over(h) \in Nat /\ \A x \in D : h[x] <= Over(h)
  BY <1>1, SumNat
<1>5. Over(f) \in Int
  BY SumStep
<1>6. ASSUME NEW x \in D, f[x] < g[x] PROVE Over(f) < Over(g)
  <2>1. h[x] > 0 /\ h[x] \in Nat /\ h[x] <= Over(h)
    <3>1. f[x] \in Int /\ g[x] \in Int /\ h[x] = g[x] - f[x]
      BY <1>1
    <3> QED
      BY <1>1, <1>4, <1>6, <3>1
  <2> QED
    BY <1>3, <1>4, <1>5, <2>1
<1>7. Over(f) <= Over(g)
  BY <1>3, <1>4, <1>5
<1> QED
  BY <1>6, <1>7

\* A constant.
LEMMA SumConstant ==
    ASSUME NEW D, IsFiniteSet(D), NEW c \in Int, NEW h \in [D -> Int], \A x \in D : h[x] = c
    PROVE  Over(h) = c * Cardinality(D)
<1> DEFINE good == {A \in SUBSET D : Over(On(h, A)) = c * Cardinality(A)}
<1>1. {} \in good
  BY OnStep, FS_EmptySet
<1>2. ASSUME NEW A \in SUBSET D, NEW x \in D \ A, A \in good PROVE A \cup {x} \in good
  <2>1. Over(On(h, A \cup {x})) = Over(On(h, A)) + h[x]
    BY OnStep
  <2>2. Over(On(h, A)) = c * Cardinality(A) /\ h[x] = c
    BY <1>2
  <2>3. IsFiniteSet(A)
    BY FS_Subset
  <2>4. Cardinality(A \cup {x}) = Cardinality(A) + 1 /\ Cardinality(A) \in Nat
    BY <2>3, FS_AddElement, FS_CardinalityType
  <2>5. \A n \in Nat : c * (n + 1) = c * n + c
    OBVIOUS
  <2>6. Over(On(h, A \cup {x})) = c * Cardinality(A \cup {x})
    BY <2>1, <2>2, <2>4, <2>5
  <2> QED
    BY <2>6
<1> HIDE DEF good
<1>3. D \in good
  BY <1>1, <1>2, GrowTo
<1>4. Over(On(h, D)) = c * Cardinality(D)
  BY <1>3 DEF good
<1> QED
  BY <1>4, OnStep

\* A set of pairs, counted by their first components.
LEMMA CountByFirst ==
    ASSUME NEW D, IsFiniteSet(D), NEW P, IsFiniteSet(P), \A p \in P : p[1] \in D,
           NEW h \in [D -> Nat], \A x \in D : h[x] = Cardinality({p \in P : p[1] = x})
    PROVE  Cardinality(P) = Over(h)
<1> DEFINE within(A) == {p \in P : p[1] \in A}
           good == {A \in SUBSET D : Over(On(h, A)) = Cardinality(within(A))}
<1>0. h \in [D -> Int]
  OBVIOUS
<1>1. {} \in good
  <2>1. within({}) = {}
    OBVIOUS
  <2> QED
    BY <1>0, <2>1, OnStep, FS_EmptySet
<1>2. ASSUME NEW A \in SUBSET D, NEW x \in D \ A, A \in good PROVE A \cup {x} \in good
  <2> DEFINE U == within(A)
             V == {p \in P : p[1] = x}
  <2>1. within(A \cup {x}) = U \cup V /\ U \cap V = {}
    OBVIOUS
  <2>2. IsFiniteSet(U) /\ IsFiniteSet(V)
    BY FS_Subset
  <2>3. h[x] = Cardinality(V) /\ Over(On(h, A)) = Cardinality(U)
    BY <1>2
  <2>4. Over(On(h, A \cup {x})) = Over(On(h, A)) + h[x]
    BY <1>0, OnStep
  <2> HIDE DEF U, V, within
  <2>5. Cardinality(U \cup V) = Cardinality(U) + Cardinality(V)
    <3>1. Cardinality(U \cup V) = Cardinality(U) + Cardinality(V) - Cardinality(U \cap V)
      BY <2>2, FS_Union
    <3>2. Cardinality(U \cap V) = 0 /\ Cardinality(U) \in Nat /\ Cardinality(V) \in Nat
      BY <2>1, <2>2, FS_EmptySet, FS_CardinalityType
    <3> QED
      BY <3>1, <3>2
  <2>6. Over(On(h, A \cup {x})) = Cardinality(within(A \cup {x}))
    BY <2>1, <2>3, <2>4, <2>5
  <2> QED
    BY <2>6
<1>3. D \in good
  <2> HIDE DEF good
  <2> QED
    BY <1>1, <1>2, GrowTo
<1>4. Over(On(h, D)) = Cardinality(within(D))
  BY <1>3
<1>5. within(D) = P
  OBVIOUS
<1>6. On(h, D) = h
  BY <1>0, OnStep
<1> QED
  BY <1>4, <1>5, <1>6

----------------------------------------------------------------------------
(* The first n of a finite set in a strict order.                          *)

Strict(R, P) ==
    /\ \A p \in P : <<p, p>> \notin R
    /\ \A p, q, r \in P : <<p, q>> \in R /\ <<q, r>> \in R => <<p, r>> \in R
    /\ \A p, q \in P : p # q => <<p, q>> \in R \/ <<q, p>> \in R
Ahead(P, R, p) == {q \in P : <<q, p>> \in R}
First(P, R, n) == {p \in P : Cardinality(Ahead(P, R, p)) < n}

\* What is ahead of an element is what is ahead of a later one, and less.
LEMMA AheadFacts ==
    ASSUME NEW P, IsFiniteSet(P), NEW R, Strict(R, P)
    PROVE  /\ \A p \in P : Cardinality(Ahead(P, R, p)) \in 0 .. Cardinality(P) - 1
           /\ \A p, q \in P : <<q, p>> \in R =>
                 Cardinality(Ahead(P, R, q)) < Cardinality(Ahead(P, R, p))
<1>1. ASSUME NEW p \in P PROVE Cardinality(Ahead(P, R, p)) \in 0 .. Cardinality(P) - 1
  <2>1. Ahead(P, R, p) \in SUBSET (P \ {p})
    BY DEF Ahead, Strict
  <2>2. IsFiniteSet(P \ {p}) /\ Cardinality(P \ {p}) = Cardinality(P) - 1
    BY FS_RemoveElement
  <2>3. IsFiniteSet(Ahead(P, R, p)) /\ Cardinality(Ahead(P, R, p)) <= Cardinality(P \ {p})
    BY <2>1, <2>2, FS_Subset
  <2>4. Cardinality(Ahead(P, R, p)) \in Nat /\ Cardinality(P) \in Nat
    BY <2>3, FS_CardinalityType
  <2> QED
    BY <2>2, <2>3, <2>4
<1>2. ASSUME NEW p \in P, NEW q \in P, <<q, p>> \in R
      PROVE  Cardinality(Ahead(P, R, q)) < Cardinality(Ahead(P, R, p))
  <2> DEFINE U == Ahead(P, R, q)
             V == Ahead(P, R, p)
  <2>1. U \subseteq V /\ q \in V /\ q \notin U
    BY <1>2 DEF Ahead, Strict
  <2>2. IsFiniteSet(U) /\ IsFiniteSet(V)
    BY FS_Subset DEF Ahead
  <2> HIDE DEF U, V
  <2>3. Cardinality(U) <= Cardinality(V) /\ (Cardinality(V) = Cardinality(U) => V = U)
    BY <2>1, <2>2, FS_Subset
  <2>4. Cardinality(U) \in Nat /\ Cardinality(V) \in Nat
    BY <2>2, FS_CardinalityType
  <2>5. Cardinality(U) < Cardinality(V)
    BY <2>1, <2>3, <2>4
  <2> QED
    BY <2>5 DEF U, V
<1> QED
  BY <1>1, <1>2

\* There are n first elements, or all; with one, the ones ahead of it.
LEMMA FirstFacts ==
    ASSUME NEW P, IsFiniteSet(P), NEW R, Strict(R, P), NEW n \in Int
    PROVE  /\ First(P, R, n) \subseteq P /\ IsFiniteSet(First(P, R, n))
           /\ n <= 0 => First(P, R, n) = {}
           /\ n >= 0 => Cardinality(First(P, R, n)) = Least(n, Cardinality(P))
           /\ \A p \in First(P, R, n) : \A q \in P : <<q, p>> \in R => q \in First(P, R, n)
<1> DEFINE F == First(P, R, n)
           N == Cardinality(P)
           ahead == [p \in P |-> Cardinality(Ahead(P, R, p))]
<1>1. N \in Nat
  BY FS_CardinalityType
<1>2. ahead \in [P -> 0 .. N - 1]
  BY AheadFacts
<1>3. \A p, q \in P : <<q, p>> \in R => ahead[q] < ahead[p]
  BY AheadFacts
<1>4. F = {p \in P : ahead[p] < n}
  BY DEF First
<1> HIDE DEF ahead, N, F
<1>5. F \subseteq P /\ IsFiniteSet(F)
  BY <1>4, FS_Subset
<1>6. n <= 0 => F = {}
  BY <1>1, <1>2, <1>4
<1>7. \A p \in F : \A q \in P : <<q, p>> \in R => q \in F
  <2> SUFFICES ASSUME NEW p \in F, NEW q \in P, <<q, p>> \in R PROVE q \in F
    OBVIOUS
  <2>1. ahead[q] < ahead[p] /\ ahead[p] < n
    BY <1>3, <1>4
  <2>2. ahead[q] \in Int /\ ahead[p] \in Int
    BY <1>1, <1>2, <1>4
  <2> QED
    BY <1>4, <2>1, <2>2
<1>8. \A p, q \in P : p # q => ahead[p] # ahead[q]
  <2> SUFFICES ASSUME NEW p \in P, NEW q \in P, p # q PROVE ahead[p] # ahead[q]
    OBVIOUS
  <2>1. <<p, q>> \in R \/ <<q, p>> \in R
    BY DEF Strict
  <2>2. ahead[p] < ahead[q] \/ ahead[q] < ahead[p]
    BY <1>3, <2>1
  <2>3. ahead[q] \in Int /\ ahead[p] \in Int
    BY <1>1, <1>2
  <2> QED
    BY <2>2, <2>3
<1>9. \A i \in 0 .. N - 1 : \E p \in P : ahead[p] = i
  <2> DEFINE I == 0 .. N - 1
  <2>1. IsFiniteSet(I) /\ Cardinality(I) = N
    BY <1>1, FS_Interval
  <2>2. ahead \in Injection(P, I)
    BY <1>2, <1>8 DEF Injection, IsInjective
  <2> HIDE DEF I
  <2>3. Cardinality(P) = Cardinality(I)
    BY <2>1 DEF N
  <2>4. ahead \in Surjection(P, I)
    BY <2>1, <2>2, <2>3, FS_Injection
  <2> QED
    BY <2>4 DEF I, Surjection
<1>10. ASSUME n >= 0 PROVE Cardinality(F) = Least(n, N)
  <2> DEFINE m == Least(n, N)
             J == 0 .. m - 1
             h == [p \in F |-> ahead[p]]
  <2>1. m \in Nat /\ m <= n /\ m <= N
    BY <1>1, <1>10 DEF Least
  <2>2. \A p \in F : h[p] \in J
    <3> SUFFICES ASSUME NEW p \in F PROVE ahead[p] \in J
      OBVIOUS
    <3>1. ahead[p] \in 0 .. N - 1 /\ ahead[p] < n
      BY <1>2, <1>4
    <3> QED
      BY <1>1, <3>1 DEF Least
  <2>3. \A i \in J : \E p \in F : h[p] = i
    <3> SUFFICES ASSUME NEW i \in J PROVE \E p \in F : h[p] = i
      OBVIOUS
    <3>1. i \in 0 .. N - 1 /\ i < n
      BY <1>1, <2>1
    <3>2. PICK p \in P : ahead[p] = i
      BY <1>9, <3>1
    <3> QED
      BY <1>4, <3>1, <3>2
  <2>4. \A p, q \in F : h[p] = h[q] => p = q
    BY <1>5, <1>8
  <2>5. IsFiniteSet(J) /\ Cardinality(J) = m
    <3> HIDE DEF m
    <3>1. m - 1 \in Int /\ 0 \in Int
      BY <2>1
    <3>2. IsFiniteSet(J) /\ Cardinality(J) = IF 0 > m - 1 THEN 0 ELSE m - 1 - 0 + 1
      BY <3>1, FS_Interval
    <3> QED
      BY <2>1, <3>2
  <2>6. h \in [F -> J]
    BY <2>2
  <2> HIDE DEF J, h, m
  <2>7. h \in Injection(F, J) /\ h \in Surjection(F, J)
    BY <2>3, <2>4, <2>6 DEF Injection, IsInjective, Surjection
  <2>8. Cardinality(F) = Cardinality(J)
    BY <2>5, <2>7, FS_Injection
  <2> QED
    BY <2>5, <2>8 DEF m
<1> QED
  BY <1>5, <1>6, <1>7, <1>10 DEF F, N

\* A set of positive numbers that has, with a number, the ones below it.
LEMMA InitialNumbers ==
    ASSUME NEW I, IsFiniteSet(I), I \subseteq Nat \ {0},
           \A i \in I : \A j \in Nat \ {0} : j < i => j \in I
    PROVE  I = 1 .. Cardinality(I)
<1> DEFINE c == Cardinality(I)
<1>1. c \in Nat
  BY FS_CardinalityType
<1>2. \A i \in I : i <= c
  <2> SUFFICES ASSUME NEW i \in I PROVE i <= c
    OBVIOUS
  <2>1. i \in Nat \ {0}
    OBVIOUS
  <2>2. 1 .. i \in SUBSET I
    BY <2>1
  <2>3. Cardinality(1 .. i) <= c
    BY <2>2, FS_Subset
  <2>4. Cardinality(1 .. i) = i
    BY <2>1, FS_Interval
  <2> QED
    BY <2>3, <2>4
<1>3. I \in SUBSET (1 .. c)
  BY <1>1, <1>2
<1>4. IsFiniteSet(1 .. c) /\ Cardinality(1 .. c) = c
  BY <1>1, FS_Interval
<1> DEFINE J == 1 .. c
<1> HIDE DEF J
<1>5. J = I
  <2>1. IsFiniteSet(J) /\ I \in SUBSET J /\ Cardinality(J) = Cardinality(I)
    BY <1>3, <1>4 DEF J
  <2> QED
    BY <2>1, FS_Subset
<1> QED
  BY <1>5 DEF J

\* Pairs with a given first component, counted by their second components.
LEMMA CountSecond ==
    ASSUME NEW F, NEW g, NEW I, IsFiniteSet(I), \A p \in F : p = <<p[1], p[2]>>,
           \A i : i \in I <=> <<g, i>> \in F
    PROVE  Cardinality({p \in F : p[1] = g}) = Cardinality(I)
<1> DEFINE V == {p \in F : p[1] = g}
           f == [i \in I |-> <<g, i>>]
<1>1. \A i \in I : f[i] \in V
  OBVIOUS
<1>2. \A p \in V : p[2] \in I /\ f[p[2]] = p
  OBVIOUS
<1>3. \A i, j \in I : f[i] = f[j] => i = j
  OBVIOUS
<1>4. f \in [I -> V]
  BY <1>1
<1> HIDE DEF f, V
<1>5. f \in Bijection(I, V)
  BY <1>2, <1>3, <1>4 DEF Bijection, Injection, IsInjective, Surjection
<1>6. ExistsBijection(I, V)
  BY <1>5 DEF ExistsBijection
<1>7. Cardinality(V) = Cardinality(I)
  BY <1>6, FS_Bijection
<1> QED
  BY <1>7 DEF V

\* Units handed out one at a time, each to the member with the highest key, which
\* falls by W with every unit it gets: n units, or all there is room for; and no
\* member is left behind one whose last unit had a lower key.
Units(D, room) == {p \in D \X (Nat \ {0}) : p[2] <= room[p[1]]}
Handed(D, F) == [g \in D |-> Cardinality({p \in F : p[1] = g})]
LEMMA HandedAll ==
    ASSUME NEW D, IsFiniteSet(D), NEW F, IsFiniteSet(F), \A p \in F : p[1] \in D,
           Handed(D, F) \in [D -> Nat]
    PROVE  Over(Handed(D, F)) = Cardinality(F)
<1> DEFINE h == Handed(D, F)
<1>1. \A x \in D : h[x] = Cardinality({p \in F : p[1] = x})
  BY DEF Handed
<1> HIDE DEF h
<1>2. h \in [D -> Nat]
  BY DEF h
<1>3. Cardinality(F) = Over(h)
  BY <1>1, <1>2, CountByFirst
<1> QED
  BY <1>3 DEF h
LEMMA UpToFacts == \A n \in Nat : IsFiniteSet(1 .. n) /\ Cardinality(1 .. n) = n
<1> SUFFICES ASSUME NEW n \in Nat PROVE IsFiniteSet(1 .. n) /\ Cardinality(1 .. n) = n
  OBVIOUS
<1>1. IsFiniteSet(1 .. n) /\ Cardinality(1 .. n) = IF 1 > n THEN 0 ELSE n - 1 + 1
  BY FS_Interval
<1> QED
  BY <1>1
LEMMA HandedOut ==
    ASSUME NEW D, IsFiniteSet(D), NEW room \in [D -> Nat], NEW d \in [D -> Int],
           NEW W \in Nat \ {0}, IsFiniteSet(Units(D, room)),
           NEW R, Strict(R, Units(D, room)),
           \A p, q \in Units(D, room) : <<q, p>> \in R =>
              d[p[1]] - (p[2] - 1) * W <= d[q[1]] - (q[2] - 1) * W,
           NEW n \in Nat, NEW got, got = Handed(D, First(Units(D, room), R, n))
    PROVE  /\ got \in [D -> Nat] /\ \A g \in D : got[g] <= room[g] /\ got[g] <= n
           /\ Over(got) = Least(n, Over(room))
           /\ \A g, h \in D : got[g] < room[g] /\ got[h] >= 1 =>
                 d[g] - got[g] * W <= d[h] - (got[h] - 1) * W
<1> DEFINE P == Units(D, room)
           F == First(P, R, n)
           of(g) == {i \in 1 .. room[g] : <<g, i>> \in F}
<1>1. \A g \in D : \A i : <<g, i>> \in P <=> i \in 1 .. room[g]
  <2> SUFFICES ASSUME NEW g \in D, NEW i PROVE <<g, i>> \in P <=> i \in 1 .. room[g]
    OBVIOUS
  <2>1. room[g] \in Nat
    OBVIOUS
  <2> QED
    BY <2>1 DEF Units
<1>2. \A p \in P : p = <<p[1], p[2]>> /\ p[1] \in D /\ p[2] \in Nat \ {0}
  BY DEF Units
<1>3. /\ \A p \in P : <<p, p>> \notin R
      /\ \A p, q \in P : p # q => <<p, q>> \in R \/ <<q, p>> \in R
      /\ \A p, q \in P : <<q, p>> \in R =>
            d[p[1]] - (p[2] - 1) * W <= d[q[1]] - (q[2] - 1) * W
  BY DEF Strict
<1>4. IsFiniteSet(P) /\ Strict(R, P) /\ n \in Int
  OBVIOUS
<1> HIDE DEF P
<1>5. /\ F \subseteq P /\ IsFiniteSet(F) /\ Cardinality(F) = Least(n, Cardinality(P))
      /\ \A p \in F : \A q \in P : <<q, p>> \in R => q \in F
  BY <1>4, FirstFacts
<1> HIDE DEF F
<1>6. \A g \in D : \A i : i \in of(g) <=> <<g, i>> \in F
  BY <1>1, <1>5
<1>7. got = [g \in D |-> Cardinality({p \in F : p[1] = g})]
  BY DEF F, P, Handed
<1>8. ASSUME NEW g \in D
      PROVE  got[g] \in Nat /\ got[g] <= room[g] /\ of(g) = 1 .. got[g]
  <2> DEFINE I == of(g)
             J == 1 .. room[g]
  <2>1. IsFiniteSet(J) /\ Cardinality(J) = room[g]
    <3>1. room[g] \in Nat
      OBVIOUS
    <3> QED
      BY <3>1, UpToFacts
  <2>2. I \in SUBSET J
    OBVIOUS
  <2>3. ASSUME NEW i \in I, NEW j \in Nat \ {0}, j < i PROVE j \in I
    <3>1. i \in 1 .. room[g] /\ <<g, i>> \in F /\ room[g] \in Nat
      OBVIOUS
    <3>2. j \in 1 .. room[g]
      BY <2>3, <3>1
    <3>3. <<g, i>> \in P /\ <<g, j>> \in P /\ <<g, i>> # <<g, j>>
      BY <1>1, <2>3, <3>1, <3>2
    <3>4. CASE <<<<g, i>>, <<g, j>>>> \in R
      <4>1. d[g] - (j - 1) * W <= d[g] - (i - 1) * W
        BY <1>3, <3>3, <3>4
      <4>2. d[g] \in Int /\ i \in Int /\ j \in Int /\ j < i
        BY <2>3, <3>1
      <4>3. (i - j) * W > 0 /\ (i - j) * W = (i - 1) * W - (j - 1) * W
        BY <4>2
      <4> QED
        BY <4>1, <4>2, <4>3
    <3>5. CASE <<<<g, j>>, <<g, i>>>> \in R
      <4>1. <<g, j>> \in F
        BY <1>5, <3>1, <3>3, <3>5
      <4> QED
        BY <3>2, <4>1
    <3> QED
      BY <1>3, <3>3, <3>4, <3>5
  <2>4. IsFiniteSet(I)
    BY <2>1, <2>2, FS_Subset
  <2>5. got[g] = Cardinality(I)
    <3>1. \A p \in F : p = <<p[1], p[2]>>
      BY <1>2, <1>5
    <3>2. \A i : i \in I <=> <<g, i>> \in F
      BY <1>6
    <3> HIDE DEF I
    <3>3. Cardinality({p \in F : p[1] = g}) = Cardinality(I)
      BY <2>4, <3>1, <3>2, CountSecond
    <3> QED
      BY <1>7, <3>3
  <2>6. I \subseteq Nat \ {0}
    OBVIOUS
  <2> HIDE DEF I, J
  <2>7. I = 1 .. Cardinality(I)
    BY <2>3, <2>4, <2>6, InitialNumbers
  <2>8. Cardinality(I) <= Cardinality(J) /\ Cardinality(I) \in Nat
    BY <2>1, <2>2, <2>4, FS_Subset, FS_CardinalityType
  <2> QED
    BY <2>1, <2>5, <2>7, <2>8 DEF I
<1>9. got \in [D -> Nat]
  BY <1>7, <1>8
<1>10. Over(got) = Cardinality(F)
  <2>1. \A p \in F : p[1] \in D
    BY <1>2, <1>5
  <2>2. IsFiniteSet(F) /\ Handed(D, F) \in [D -> Nat]
    BY <1>5, <1>7, <1>9 DEF Handed
  <2>3. Over(Handed(D, F)) = Cardinality(F)
    BY <2>1, <2>2, HandedAll
  <2> QED
    BY <1>7, <2>3 DEF Handed
<1>11. Over(room) = Cardinality(P)
  <2>1. \A p \in P : p[1] \in D
    BY <1>2
  <2>2. ASSUME NEW x \in D PROVE room[x] = Cardinality({p \in P : p[1] = x})
    <3> DEFINE J == 1 .. room[x]
    <3>1. IsFiniteSet(J) /\ Cardinality(J) = room[x]
      <4>1. room[x] \in Nat
        OBVIOUS
      <4> QED
        BY <4>1, UpToFacts
    <3>2. \A i : i \in J <=> <<x, i>> \in P
      BY <1>1
    <3>3. \A p \in P : p = <<p[1], p[2]>>
      BY <1>2
    <3> HIDE DEF J
    <3>4. Cardinality({p \in P : p[1] = x}) = Cardinality(J)
      BY <3>1, <3>2, <3>3, CountSecond
    <3> QED
      BY <3>1, <3>4
  <2> QED
    BY <1>4, <2>1, <2>2, CountByFirst
<1>12. \A g \in D : got[g] <= n
  <2>1. Over(got) \in Nat /\ \A x \in D : got[x] <= Over(got)
    BY <1>9, SumNat
  <2>2. Cardinality(F) <= n /\ Cardinality(F) \in Nat
    <3>1. Cardinality(P) \in Nat
      BY <1>4, FS_CardinalityType
    <3> QED
      BY <1>5, <3>1 DEF Least
  <2> SUFFICES ASSUME NEW g \in D PROVE got[g] <= n
    OBVIOUS
  <2>3. got[g] \in Nat /\ got[g] <= Over(got)
    BY <1>9, <2>1
  <2> QED
    BY <1>10, <2>2, <2>3
<1>13. ASSUME NEW g \in D, NEW h \in D, got[g] < room[g], got[h] >= 1
       PROVE  d[g] - got[g] * W <= d[h] - (got[h] - 1) * W
  <2> DEFINE p == <<h, got[h]>>
             q == <<g, got[g] + 1>>
  <2>1. got[g] \in Nat /\ got[h] \in Nat /\ room[g] \in Nat /\ room[h] \in Nat
    BY <1>9
  <2>2. p \in F
    <3>1. got[h] \in of(h)
      BY <1>8, <1>13, <2>1
    <3> QED
      BY <1>6, <3>1
  <2>3. q \in P
    <3>1. got[g] + 1 \in 1 .. room[g]
      BY <1>13, <2>1
    <3> QED
      BY <1>1, <3>1
  <2>4. q \notin F
    <3>1. got[g] + 1 \notin 1 .. got[g]
      BY <2>1
    <3>2. of(g) = 1 .. got[g]
      BY <1>8
    <3>3. got[g] + 1 \notin of(g)
      BY <3>1, <3>2
    <3> QED
      BY <1>6, <3>3
  <2>5. p \in P /\ p # q /\ <<q, p>> \notin R
    BY <1>5, <2>2, <2>3, <2>4
  <2>6. <<p, q>> \in R
    BY <1>3, <2>3, <2>5
  <2>7. d[q[1]] - (q[2] - 1) * W <= d[p[1]] - (p[2] - 1) * W
    BY <1>3, <2>3, <2>5, <2>6
  <2>8. q[1] = g /\ q[2] - 1 = got[g] /\ p[1] = h /\ p[2] = got[h]
    BY <2>1
  <2> QED
    BY <2>7, <2>8
<1> QED
  BY <1>5, <1>8, <1>9, <1>10, <1>11, <1>12, <1>13

\* The number of elements of a set, as a sum.
LEMMA SumIndicator ==
    ASSUME NEW D, IsFiniteSet(D), NEW U \in SUBSET D, NEW h \in [D -> Int],
           \A x \in D : h[x] = IF x \in U THEN 1 ELSE 0
    PROVE  Over(h) = Cardinality(U)
<1> DEFINE good == {A \in SUBSET D : Over(On(h, A)) = Cardinality(A \cap U)}
<1>1. {} \in good
  <2>1. {} \cap U = {}
    OBVIOUS
  <2> QED
    BY <2>1, OnStep, FS_EmptySet
<1>2. ASSUME NEW A \in SUBSET D, NEW x \in D \ A, A \in good PROVE A \cup {x} \in good
  <2>1. Over(On(h, A \cup {x})) = Over(On(h, A)) + h[x] /\ Over(On(h, A)) \in Int
    BY OnStep
  <2>2. IsFiniteSet(A \cap U)
    BY FS_Subset
  <2>3. Over(On(h, A)) = Cardinality(A \cap U)
    BY <1>2
  <2>4. CASE x \in U
    <3>1. (A \cup {x}) \cap U = (A \cap U) \cup {x} /\ x \notin A \cap U
      BY <2>4
    <3>2. Cardinality((A \cap U) \cup {x}) = Cardinality(A \cap U) + 1
      BY <2>2, <3>1, FS_AddElement
    <3>3. h[x] = 1
      BY <2>4
    <3>4. Over(On(h, A \cup {x})) = Cardinality((A \cup {x}) \cap U)
      BY <2>1, <2>3, <3>1, <3>2, <3>3
    <3> QED
      BY <3>4
  <2>5. CASE x \notin U
    <3>1. (A \cup {x}) \cap U = A \cap U
      BY <2>5
    <3>2. h[x] = 0
      BY <2>5
    <3>3. Over(On(h, A \cup {x})) = Over(On(h, A))
      BY <2>1, <3>2
    <3>4. Over(On(h, A \cup {x})) = Cardinality((A \cup {x}) \cap U)
      BY <2>3, <3>1, <3>3
    <3> QED
      BY <3>4
  <2> QED
    BY <2>4, <2>5
<1> HIDE DEF good
<1>3. D \in good
  BY <1>1, <1>2, GrowTo
<1>4. Over(On(h, D)) = Cardinality(D \cap U)
  BY <1>3 DEF good
<1>5. D \cap U = U
  OBVIOUS
<1> QED
  BY <1>4, <1>5, OnStep

----------------------------------------------------------------------------
(* Functions that are given by their steps.                                *)

\* A function on 0 .. N is given by its first value and its steps.
Iteration(N, S, s0, step, f) ==
    f \in [0 .. N -> S] /\ f[0] = s0 /\ \A i \in 1 .. N : f[i] = step[i][f[i - 1]]

\* Such a function exists.
LEMMA Iterated ==
    ASSUME NEW N \in Nat, NEW S, NEW s0 \in S, NEW step, step \in [1 .. N -> [S -> S]]
    PROVE  \E f : Iteration(N, S, s0, step, f)
<1> DEFINE upTo(n, f) == /\ f \in [0 .. n -> S] /\ f[0] = s0
                         /\ \A i \in 1 .. n : f[i] = step[i][f[i - 1]]
           bad == {n \in 0 .. N : ~ \E f : upTo(n, f)}
<1>1. upTo(0, [i \in 0 .. 0 |-> s0])
  OBVIOUS
<1>2. ASSUME NEW n \in 1 .. N, NEW f, upTo(n - 1, f)
      PROVE  upTo(n, [i \in 0 .. n |-> IF i = n THEN step[n][f[n - 1]] ELSE f[i]])
  <2> DEFINE g == [i \in 0 .. n |-> IF i = n THEN step[n][f[n - 1]] ELSE f[i]]
  <2>1. f[n - 1] \in S /\ step[n][f[n - 1]] \in S
    BY <1>2
  <2>2. g \in [0 .. n -> S] /\ g[0] = s0
    BY <1>2, <2>1
  <2>3. ASSUME NEW i \in 1 .. n PROVE g[i] = step[i][g[i - 1]]
    BY <1>2
  <2> QED
    BY <2>2, <2>3
<1> HIDE DEF upTo
<1>3. ASSUME bad # {} PROVE FALSE
  <2>1. bad \subseteq Nat
    OBVIOUS
  <2>2. PICK n \in bad : \A m \in bad : n <= m
    <3> HIDE DEF bad
    <3> QED
      BY <1>3, <2>1, LeastOf
  <2>3. n # 0 /\ n \in 0 .. N
    BY <1>1, <2>2
  <2>4. n - 1 \in 0 .. N /\ n - 1 \notin bad /\ n \in 1 .. N
    BY <2>2, <2>3
  <2>5. PICK f : upTo(n - 1, f)
    BY <2>4
  <2> QED
    BY <1>2, <2>2, <2>4, <2>5
<1>4. PICK f : upTo(N, f)
  BY <1>3
<1> QED
  BY <1>4 DEF upTo, Iteration
=============================================================================
