-------------------------- MODULE Factorize_proofs --------------------------
(***************************************************************************)
(* Proofs about Factorize, for any layers, experts, shapes, grids,         *)
(* configurations, replicas and runs: every layer is factored once from    *)
(* its originals at the best alpha of the grid, refined after the blocks   *)
(* before it, widened once and counted once, whatever dies when; and the   *)
(* ranks are divided fairly, over the groups and within each.  A second    *)
(* part is about Stage3Cov, whose covariances it reads.                    *)
(***************************************************************************)
EXTENDS Factorize, Stage3Cov, SetSums_proofs

----------------------------------------------------------------------------
(* The inductive invariant                                                 *)

\* The configuration of the directory determines every stage's result: the
\* ranks, the shares of the experts, and what each layer becomes.
FinalRanks == Allocate(cfg.weight, Budget(cfg.percent))
FinalShare ==
    [g \in Groups |-> Redistribute(g[2], FinalRanks[g], cfg.score[Expected[g[2]]][g])]
FinalSlot(l, m) ==
    IF cfg.search = "none" THEN FinalRanks[<<l, m>>]
    ELSE Max({FinalShare[<<l, m>>][e] : e \in Experts})
Trues(n) == [i \in 1 .. n |-> TRUE]
FactoredAs(l) == Factored(Expected, [m \in Matrices |-> FinalSlot(l, m)])
RefinedAs(l) ==
    IF cfg.refine THEN [FactoredAs(l) EXCEPT !.refined = TRUE, !.on = Trues(l - 1)]
    ELSE FactoredAs(l)
ExtraOf(l) == [m \in Matrices |-> Extra(m, FinalSlot(l, m), cfg.extra, cfg.limit)]
WidenedAs(l) == [RefinedAs(l) EXCEPT !.added = ExtraOf(l), !.whitened = TRUE]
CountedTo(n) == Over([l \in 1 .. n |-> Counted(ExtraOf(l))])

Settled ==
    /\ cfg \in Configs
    /\ replicas \in Nat \ {0} /\ 1 .. replicas \subseteq Replicas
    /\ at \in Nat \ {0} /\ (pc \in {"factor", "refine", "compensate"} => at \in Layers)

\* What the process holds in each phase.
Scoring == {"wanda", "wanda_manifest", "ranks"}
Choosing == {"originals", "originals_manifest", "preflight", "alpha", "search", "replicas"}
Chosen == {"save_alpha", "factor"}
Refined == {"refined", "save3", "ranks3", "shift", "shift_manifest", "clean3", "inputs"}
Widened == {"save4", "ranks4", "clean4", "delete_originals", "delete_cov"}
Decided ==
    /\ pc \in Choosing \cup Chosen => ranks = FinalRanks
    /\ pc \in Scoring \cup Choosing => alpha = NoAlpha
    /\ pc \in Chosen => alpha = Expected /\ (cfg.search # "none" => share = FinalShare)
Layered ==
    /\ pc \in Scoring \cup Choosing \cup {"save_alpha"} =>
          experts = Originals \/ (pc = "search" /\ trying # 0)
    /\ pc = "factor" => experts = [l \in Layers |-> IF l < at THEN FactoredAs(l) ELSE Fused]
    /\ pc = "capture" => cfg.refine = TRUE /\ experts = [l \in Layers |-> FactoredAs(l)]
    /\ pc = "refine" =>
          /\ cfg.refine = TRUE /\ stream = Trues(at - 1)
          /\ experts = [l \in Layers |-> IF l < at THEN RefinedAs(l) ELSE FactoredAs(l)]
    /\ pc \in Refined => experts = [l \in Layers |-> RefinedAs(l)]
    /\ pc = "compensate" =>
          experts = [l \in Layers |-> IF l < at THEN WidenedAs(l) ELSE RefinedAs(l)]
    /\ pc \in Widened => experts = [l \in Layers |-> WidenedAs(l)]
Totalled ==
    /\ pc \in Scoring \cup Choosing \cup Chosen \cup {"capture", "refine"} \cup Refined =>
          mapped = {} /\ params = 0
    /\ pc = "compensate" => mapped = 1 .. at - 1 /\ params = CountedTo(at - 1)
    /\ pc \in Widened => mapped = Layers /\ params = CountedTo(NumLayers)

\* The search: candidates of the grid; the replicas joined are done, and one
\* that is done has reported its slice of the grid.
Searching ==
    /\ measured \subseteq Grid /\ trying \in Grid \cup {0}
    /\ DOMAIN rep = Replicas /\ DOMAIN slices = Replicas
    /\ \A r \in Replicas : rep[r] = "done" => slices[r] = Slice(r)
    /\ pc \in {"search", "replicas"} => cfg.search = "validation"
    /\ pc = "replicas" => \A r \in 1 .. at - 1 : r \in Replicas /\ rep[r] = "done"

\* What is on disk is some stage's result, or absent.
OnDisk ==
    /\ DOMAIN disk = {"alpha", "blocks", "stage3", "ranks3", "spills", "stage4", "ranks4", "acov"}
    /\ disk.alpha \in {NoAlpha, Expected}
    /\ DOMAIN disk.blocks = Layers /\ \A l \in Layers : disk.blocks[l] \in {Fused, RefinedAs(l)}
    /\ disk.stage3 \subseteq {[l \in Layers |-> RefinedAs(l)]}
    /\ DOMAIN disk.spills = Layers /\ \A l \in Layers : disk.spills[l] \in {Fused, WidenedAs(l)}
    /\ disk.stage4 \subseteq {[l \in Layers |-> WidenedAs(l)]}
    /\ disk.ranks4 \subseteq {[mapped |-> Layers, params |-> CountedTo(NumLayers)]}
    /\ pc # "done" => disk.acov = TRUE

IInv == Settled /\ Decided /\ Layered /\ Totalled /\ Searching /\ OnDisk

----------------------------------------------------------------------------
(* The arithmetic of ranks stays within the integers.                      *)

LEMMA ShapeFacts ==
    /\ NumLayers \in Nat \ {0} /\ NumExperts \in Nat \ {0} /\ NumAlphas \in Nat
    /\ IsFiniteSet(Layers) /\ IsFiniteSet(Experts) /\ IsFiniteSet(Matrices) /\ IsFiniteSet(Groups)
    /\ Layers # {} /\ Experts # {} /\ Matrices # {} /\ Groups # {}
    /\ \A m \in Matrices : /\ Cap(m) \in Nat \ {0} /\ Sides(m) \in Nat \ {0} /\ Area(m) \in Nat \ {0}
                           /\ Shape[m].out \in Nat \ {0} /\ Shape[m].in \in Nat \ {0}
    /\ \A g \in Groups : g[1] \in Layers /\ g[2] \in Matrices
<1>1. NumLayers \in Nat \ {0} /\ NumExperts \in Nat \ {0} /\ NumAlphas \in Nat
  BY ShapesAssumption
<1>2. Matrices = 1 .. Len(Shape) /\ Len(Shape) \in Nat \ {0}
  BY ShapesAssumption DEF Matrices
<1>3. IsFiniteSet(Layers) /\ IsFiniteSet(Experts) /\ IsFiniteSet(Matrices)
  BY <1>1, <1>2, FS_Interval DEF Layers, Experts
<1>4. IsFiniteSet(Groups)
  BY <1>3, FS_Product DEF Groups
<1>5. 1 \in Layers /\ 1 \in Experts /\ 1 \in Matrices
  BY <1>1, <1>2 DEF Layers, Experts
<1>6. <<1, 1>> \in Groups
  BY <1>5 DEF Groups
<1>7. ASSUME NEW m \in Matrices
      PROVE  /\ Cap(m) \in Nat \ {0} /\ Sides(m) \in Nat \ {0} /\ Area(m) \in Nat \ {0}
             /\ Shape[m].out \in Nat \ {0} /\ Shape[m].in \in Nat \ {0}
  <2>1. Shape[m].out \in Nat \ {0, 1} /\ Shape[m].in \in Nat \ {0, 1}
    <3> DEFINE S == [out : Nat \ {0, 1}, in : Nat \ {0, 1}]
    <3>1. Shape \in Seq(S) /\ m \in 1 .. Len(Shape)
      BY <1>2, ShapesAssumption
    <3> HIDE DEF S
    <3>2. Shape[m] \in S
      BY <3>1
    <3> QED
      BY <3>2 DEF S
  <2>2. Area(m) \in Nat \ {0}
    BY <2>1, Multiplied DEF Area
  <2> QED
    BY <2>1, <2>2 DEF Cap, Sides, Least
<1> QED
  BY <1>1, <1>3, <1>4, <1>5, <1>6, <1>7 DEF Groups

LEMMA BudgetPositive ==
    ASSUME NEW percent \in 0 .. 99
    PROVE  Budget(percent) \in Nat \ {0}
<1> DEFINE full == Over([g \in Groups |-> NumExperts * Area(g[2])])
           cost == Over([g \in Groups |-> NumExperts * Sides(g[2])])
<1>1. \A g \in Groups : NumExperts * Area(g[2]) \in Nat \ {0} /\ NumExperts * Sides(g[2]) \in Nat \ {0}
  BY ShapeFacts, Multiplied
<1>2. full \in Nat \ {0}
  <2> DEFINE f == [g \in Groups |-> NumExperts * Area(g[2])]
  <2>1. f \in [Groups -> Nat \ {0}]
    BY <1>1
  <2> HIDE DEF f
  <2>2. Over(f) \in Nat \ {0}
    BY <2>1, ShapeFacts, SumPositive
  <2> QED
    BY <2>2 DEF f
<1>3. cost \in Nat \ {0}
  <2> DEFINE f == [g \in Groups |-> NumExperts * Sides(g[2])]
  <2>1. f \in [Groups -> Nat \ {0}]
    BY <1>1
  <2> HIDE DEF f
  <2>2. Over(f) \in Nat \ {0}
    BY <2>1, ShapeFacts, SumPositive
  <2> QED
    BY <2>2 DEF f
<1>4. Budget(percent) = Most(1, (full * (100 - percent) * Cardinality(Groups)) \div (100 * cost))
  BY DEF Budget
<1> HIDE DEF full, cost
<1>5. Cardinality(Groups) \in Int
  BY ShapeFacts, FS_CardinalityType
<1>6. full * (100 - percent) * Cardinality(Groups) \in Int
  BY <1>2, <1>5, Multiplied
<1>7. 100 * cost \in Nat \ {0}
  BY <1>3
<1> DEFINE a == full * (100 - percent) * Cardinality(Groups)
           b == 100 * cost
<1> HIDE DEF a, b
<1>8. a \div b \in Int
  BY <1>6, <1>7, Divided DEF a, b
<1> QED
  BY <1>4, <1>8 DEF a, b, Most

LEMMA ExtraInt ==
    ASSUME NEW m \in Matrices, NEW k \in Int, NEW percent \in 0 .. 100, NEW limit \in Nat
    PROVE  Extra(m, k, percent, limit) \in Int
<1>1. NumExperts \in Nat \ {0} /\ Sides(m) \in Nat \ {0} /\ Area(m) \in Int
      /\ Shape[m].out \in Int /\ Shape[m].in \in Int
  BY ShapeFacts
<1> DEFINE room == Area(m) - k * Sides(m)
           saved == Most(0, room) * NumExperts
           parameters == (percent * saved) \div 100
           cost == NumExperts * Sides(m)
<1>2. Extra(m, k, percent, limit) =
        Least(Least(parameters \div cost, limit), Least(Shape[m].out, Shape[m].in))
  BY DEF Extra
<1>3. room \in Int
  BY <1>1, Multiplied
<1> HIDE DEF room
<1>4. saved \in Int
  BY <1>1, <1>3, LeastMost, Multiplied
<1> HIDE DEF saved
<1>5. percent * saved \in Int
  BY <1>4, Multiplied
<1>6. parameters \in Int
  BY <1>5
<1> HIDE DEF parameters
<1>7. cost \in Nat \ {0}
  BY <1>1, Multiplied
<1> HIDE DEF cost
<1>8. parameters \div cost \in Int
  BY <1>6, <1>7, Divided
<1> DEFINE x == parameters \div cost
           y == Least(Shape[m].out, Shape[m].in)
<1>9. x \in Int /\ limit \in Int /\ y \in Int
  <2>1. \A a, b : a \in Int /\ b \in Int => Least(a, b) \in Int
    BY LeastMost
  <2>2. y \in Int
    BY <1>1, <2>1
  <2> QED
    BY <1>8, <2>2
<1> HIDE DEF x, y
<1>10. Least(x, limit) \in Int
  BY <1>9, LeastMost
<1>11. Least(Least(x, limit), y) \in Int
  BY <1>9, <1>10, LeastMost
<1> QED
  BY <1>2, <1>11 DEF x, y

----------------------------------------------------------------------------
(* The division of the budget over the groups.                             *)

\* The order of the groups.
LEMMA BeforeStrict ==
    /\ Strict({r \in Groups \X Groups : Before(r[1], r[2])}, Groups)
    /\ Strict({r \in Groups \X Groups : Before(r[2], r[1])}, Groups)
<1>1. \A g \in Groups : g = <<g[1], g[2]>> /\ g[1] \in Int /\ g[2] \in Int
  <2>1. Matrices \subseteq Int /\ Layers \subseteq Int
    BY ShapesAssumption DEF Matrices, Layers
  <2>2. \A A, B : \A g \in A \X B : g = <<g[1], g[2]>> /\ g[1] \in A /\ g[2] \in B
    OBVIOUS
  <2>3. \A g \in Groups : g = <<g[1], g[2]>> /\ g[1] \in Layers /\ g[2] \in Matrices
    BY <2>2 DEF Groups
  <2> QED
    BY <2>1, <2>3
<1>2. \A g \in Groups : ~ Before(g, g)
  BY <1>1 DEF Before
<1>3. \A g, h, k \in Groups : Before(g, h) /\ Before(h, k) => Before(g, k)
  BY <1>1 DEF Before
<1>4. \A g, h \in Groups : g # h => Before(g, h) \/ Before(h, g)
  BY <1>1 DEF Before
<1> QED
  BY <1>2, <1>3, <1>4 DEF Strict

\* Units ordered by a key, the same keys by the order of their members.
LEMMA KeysStrict ==
    ASSUME NEW P, \A p \in P : p[1] \in Groups, NEW key \in [P -> Int],
           \A p, q \in P : p # q /\ p[1] = q[1] => key[p] # key[q],
           NEW B, Strict(B, Groups),
           NEW R, \A p, q \in P :
              <<q, p>> \in R <=> key[q] > key[p] \/ (key[q] = key[p] /\ <<q[1], p[1]>> \in B)
    PROVE  Strict(R, P)
<1>1. /\ \A g \in Groups : <<g, g>> \notin B
      /\ \A g, h, k \in Groups : <<g, h>> \in B /\ <<h, k>> \in B => <<g, k>> \in B
      /\ \A g, h \in Groups : g # h => <<g, h>> \in B \/ <<h, g>> \in B
  BY DEF Strict
<1>2. \A p \in P : key[p] \in Int
  OBVIOUS
<1>3. ASSUME NEW p \in P PROVE <<p, p>> \notin R
  <2>1. key[p] \in Int /\ p[1] \in Groups
    OBVIOUS
  <2>2. <<p[1], p[1]>> \notin B /\ ~ (key[p] > key[p])
    BY <1>1, <2>1
  <2> QED
    BY <2>2
<1>4. ASSUME NEW p \in P, NEW q \in P, NEW r \in P, <<p, q>> \in R, <<q, r>> \in R
      PROVE  <<p, r>> \in R
  <2>1. key[p] > key[q] \/ (key[p] = key[q] /\ <<p[1], q[1]>> \in B)
    BY <1>4
  <2>2. key[q] > key[r] \/ (key[q] = key[r] /\ <<q[1], r[1]>> \in B)
    BY <1>4
  <2>3. key[p] > key[r] \/ (key[p] = key[r] /\ <<p[1], r[1]>> \in B)
    BY <1>1, <1>2, <2>1, <2>2
  <2> QED
    BY <2>3
<1>5. ASSUME NEW p \in P, NEW q \in P, p # q PROVE <<p, q>> \in R \/ <<q, p>> \in R
  <2>1. key[p] > key[q] \/ key[q] > key[p] \/ (key[p] = key[q] /\ p[1] # q[1])
    BY <1>2, <1>5
  <2>2. CASE key[p] = key[q] /\ p[1] # q[1]
    <3>1. <<p[1], q[1]>> \in B \/ <<q[1], p[1]>> \in B
      BY <1>1, <2>2
    <3> QED
      BY <2>2, <3>1
  <2> QED
    BY <2>1, <2>2
<1> QED
  BY <1>3, <1>4, <1>5 DEF Strict

\* Rounding is off by half a unit at most.
LEMMA RoundedFacts ==
    ASSUME NEW a \in Int, NEW b \in Nat \ {0}
    PROVE  /\ Rounded(a, b) \in Int
           /\ 2 * (a - Rounded(a, b) * b) <= b /\ -b <= 2 * (a - Rounded(a, b) * b)
<1> DEFINE q == a \div b
           r == a % b
<1>1. q \in Int /\ r \in 0 .. b - 1 /\ a = b * q + r
  OBVIOUS
<1>2. Rounded(a, b) = q + 1 => 2 * r >= b
  BY <1>1 DEF Rounded
<1>3. Rounded(a, b) = q => 2 * r <= b
  BY <1>1 DEF Rounded
<1>4. Rounded(a, b) \in {q, q + 1}
  BY DEF Rounded
<1> HIDE DEF q, r
<1>5. q * b = b * q /\ (q + 1) * b = b * q + b
  BY <1>1
<1>6. CASE Rounded(a, b) = q
  <2>1. a - q * b = r
    BY <1>1, <1>5
  <2> QED
    BY <1>1, <1>3, <1>6, <2>1
<1>7. CASE Rounded(a, b) = q + 1
  <2>1. a - (q + 1) * b = r - b
    BY <1>1, <1>5
  <2> QED
    BY <1>1, <1>2, <1>7, <2>1
<1> QED
  BY <1>4, <1>6, <1>7

\* The shares are within the bounds, and off by half a rank at most unless a
\* bound is in the way.
Off(w, T, W, s) == [g \in Groups |-> w[g] * T - s[g] * W]
Rough(w, T, W, s) ==
    /\ s \in [Groups -> Nat \ {0}] /\ Off(w, T, W, s) \in [Groups -> Int]
    /\ \A g \in Groups : /\ s[g] <= Cap(g[2])
                         /\ s[g] < Cap(g[2]) => 2 * Off(w, T, W, s)[g] <= W
                         /\ s[g] > 1 => -W <= 2 * Off(w, T, W, s)[g]
LEMMA SharesRough ==
    ASSUME NEW w \in [Groups -> Nat \ {0}], NEW T \in Nat \ {0}, NEW W \in Nat \ {0}
    PROVE  Rough(w, T, W, Shares(w, T, W))
<1> DEFINE s == Shares(w, T, W)
<1>1. ASSUME NEW g \in Groups
      PROVE  /\ s[g] \in Nat \ {0} /\ s[g] <= Cap(g[2]) /\ w[g] * T - s[g] * W \in Int
             /\ s[g] < Cap(g[2]) => 2 * (w[g] * T - s[g] * W) <= W
             /\ s[g] > 1 => -W <= 2 * (w[g] * T - s[g] * W)
  <2> DEFINE x == w[g] * T
             r == Rounded(x, W)
             c == Cap(g[2])
             y == s[g]
  <2>1. x \in Int
    BY Multiplied
  <2>2. c \in Nat \ {0}
    BY ShapeFacts
  <2>3. r \in Int /\ 2 * (x - r * W) <= W /\ -W <= 2 * (x - r * W)
    <3> HIDE DEF x
    <3> QED
      BY <2>1, RoundedFacts
  <2>4. y = Most(1, Least(r, c))
    BY DEF Shares
  <2> HIDE DEF x, r, c, y
  <2>5. y \in Nat \ {0} /\ y <= c /\ (y < c => r <= y) /\ (y > 1 => y <= r)
    BY <2>2, <2>3, <2>4 DEF Most, Least
  <2>6. r * W \in Int /\ y * W \in Int
    BY <2>3, <2>5, Multiplied
  <2>7. r <= y => r * W <= y * W
    BY <2>3, <2>5
  <2>8. y <= r => y * W <= r * W
    BY <2>3, <2>5
  <2>9. /\ y \in Nat \ {0} /\ y <= c /\ x - y * W \in Int
        /\ y < c => 2 * (x - y * W) <= W
        /\ y > 1 => -W <= 2 * (x - y * W)
    BY <2>1, <2>3, <2>5, <2>6, <2>7, <2>8
  <2> QED
    BY <2>9 DEF x, y, c
<1>2. s = [g \in Groups |-> s[g]]
  BY DEF Shares
<1> HIDE DEF s
<1>3. s \in [Groups -> Nat \ {0}]
  BY <1>1, <1>2
<1>4. Rough(w, T, W, s)
  BY <1>1, <1>3 DEF Rough, Off
<1> QED
  BY <1>4 DEF s

\* What the repaired shares are to be: within the bounds, adding up to the budget
\* as far as the bounds allow, and off from the exact shares by nearly the same.
Caps == [g \in Groups |-> Cap(g[2])]
Evenly(w, T, W, r) ==
    /\ r \in [Groups -> Int] /\ \A g \in Groups : r[g] \in 1 .. Cap(g[2])
    /\ Over(r) = Least(Most(T, Cardinality(Groups)), Over(Caps))
    /\ \A g, h \in Groups : r[g] < Cap(g[2]) /\ r[h] > 1 =>
          (w[g] * T - r[g] * W) - (w[h] * T - r[h] * W) <= W

\* The parts of the repair, as RankAllocation has them.
Gifts(s, T) == {p \in Groups \X (1 .. T) : s[p[1]] + p[2] <= Cap(p[1][2])}
Takes(s) == {p \in Groups \X (1 .. Over(s)) : s[p[1]] - p[2] >= 1}
Below(s, w, T, W, g, i) == w[g] * T - (s[g] + i) * W
More(s, w, T, W, p, q) ==
    LET x == Below(s, w, T, W, p[1], p[2] - 1)  y == Below(s, w, T, W, q[1], q[2] - 1)
    IN  x > y \/ (x = y /\ Before(q[1], p[1]))
Less(s, w, T, W, p, q) ==
    LET x == Below(s, w, T, W, p[1], 1 - p[2])  y == Below(s, w, T, W, q[1], 1 - q[2])
    IN  x < y \/ (x = y /\ Before(p[1], q[1]))
GiftOrder(s, w, T, W) == {r \in Gifts(s, T) \X Gifts(s, T) : More(s, w, T, W, r[1], r[2])}
TakeOrder(s, w, T, W) == {r \in Takes(s) \X Takes(s) : Less(s, w, T, W, r[1], r[2])}
Given(s, w, T, W) == Handed(Groups, First(Gifts(s, T), GiftOrder(s, w, T, W), T - Over(s)))
Taken(s, w, T, W) == Handed(Groups, First(Takes(s), TakeOrder(s, w, T, W), Over(s) - T))

LEMMA RepairedIs ==
    ASSUME NEW s, NEW w, NEW T \in Int, NEW W, Over(s) \in Int
    PROVE  /\ T = Over(s) => Repaired(s, w, T, W) = s
           /\ T > Over(s) => Repaired(s, w, T, W) = [g \in Groups |-> s[g] + Given(s, w, T, W)[g]]
           /\ T < Over(s) => Repaired(s, w, T, W) = [g \in Groups |-> s[g] - Taken(s, w, T, W)[g]]
<1> DEFINE missing == T - Over(s)
           gifts == {p \in Groups \X (1 .. T) : s[p[1]] + p[2] <= Cap(p[1][2])}
           takes == {p \in Groups \X (1 .. Over(s)) : s[p[1]] - p[2] >= 1}
           below(g, i) == w[g] * T - (s[g] + i) * W
           more(p, q) == LET x == below(p[1], p[2] - 1)  y == below(q[1], q[2] - 1)
                         IN  x > y \/ (x = y /\ Before(q[1], p[1]))
           less(p, q) == LET x == below(p[1], 1 - p[2])  y == below(q[1], 1 - q[2])
                         IN  x < y \/ (x = y /\ Before(p[1], q[1]))
           given == {p \in gifts : Cardinality({q \in gifts : more(q, p)}) < missing}
           taken == {p \in takes : Cardinality({q \in takes : less(q, p)}) < -missing}
           up == [g \in Groups |-> s[g] + Cardinality({p \in given : p[1] = g})]
           down == [g \in Groups |-> s[g] - Cardinality({p \in taken : p[1] = g})]
<1>1. Repaired(s, w, T, W) =
        CASE missing = 0 -> s [] missing > 0 -> up [] missing < 0 -> down
  BY DEF Repaired
<1>2. /\ gifts = Gifts(s, T) /\ takes = Takes(s)
      /\ \A p, q : more(p, q) <=> More(s, w, T, W, p, q)
      /\ \A p, q : less(p, q) <=> Less(s, w, T, W, p, q)
  BY DEF Gifts, Takes, More, Less, Below
<1> HIDE DEF gifts, takes, more, less
<1>3. missing \in Int /\ -missing = Over(s) - T
  OBVIOUS
<1>4. \A p \in gifts : {q \in gifts : more(q, p)} = Ahead(Gifts(s, T), GiftOrder(s, w, T, W), p)
  BY <1>2 DEF Ahead, GiftOrder
<1>5. \A p \in takes : {q \in takes : less(q, p)} = Ahead(Takes(s), TakeOrder(s, w, T, W), p)
  BY <1>2 DEF Ahead, TakeOrder
<1>6. given = First(Gifts(s, T), GiftOrder(s, w, T, W), T - Over(s))
  BY <1>2, <1>4 DEF First
<1>7. taken = First(Takes(s), TakeOrder(s, w, T, W), Over(s) - T)
  BY <1>2, <1>3, <1>5 DEF First
<1> HIDE DEF given, taken
<1>8. up = [g \in Groups |-> s[g] + Given(s, w, T, W)[g]]
  BY <1>6 DEF Given, Handed
<1>9. down = [g \in Groups |-> s[g] - Taken(s, w, T, W)[g]]
  BY <1>7 DEF Taken, Handed
<1> HIDE DEF up, down
<1>10. /\ missing = 0 => Repaired(s, w, T, W) = s
       /\ missing > 0 => Repaired(s, w, T, W) = up
       /\ missing < 0 => Repaired(s, w, T, W) = down
  <2> HIDE DEF missing
  <2> QED
    BY <1>1, <1>3
<1>11. /\ T = Over(s) => missing = 0
       /\ T > Over(s) => missing > 0
       /\ T < Over(s) => missing < 0
  OBVIOUS
<1> QED
  BY <1>8, <1>9, <1>10, <1>11

\* Below, taken apart.
LEMMA BelowIs ==
    ASSUME NEW w \in [Groups -> Nat \ {0}], NEW T \in Nat \ {0}, NEW W \in Nat \ {0},
           NEW s, Rough(w, T, W, s)
    PROVE  \A g \in Groups : \A i \in Int :
              /\ Below(s, w, T, W, g, i) \in Int
              /\ Below(s, w, T, W, g, i) = Off(w, T, W, s)[g] - i * W
              /\ Off(w, T, W, s)[g] = w[g] * T - s[g] * W
<1> SUFFICES ASSUME NEW g \in Groups, NEW i \in Int
             PROVE  /\ Below(s, w, T, W, g, i) \in Int
                    /\ Below(s, w, T, W, g, i) = Off(w, T, W, s)[g] - i * W
                    /\ Off(w, T, W, s)[g] = w[g] * T - s[g] * W
  OBVIOUS
<1> DEFINE x == w[g] * T
           y == s[g]
<1>1. x \in Int /\ y \in Int
  <2>1. s \in [Groups -> Nat \ {0}]
    BY DEF Rough
  <2> QED
    BY <2>1, Multiplied
<1>2. Below(s, w, T, W, g, i) = x - (y + i) * W /\ Off(w, T, W, s)[g] = x - y * W
  BY DEF Below, Off
<1> HIDE DEF x, y
<1>3. (y + i) * W = y * W + i * W /\ y * W \in Int /\ i * W \in Int
  BY <1>1
<1>4. Below(s, w, T, W, g, i) \in Int /\ Below(s, w, T, W, g, i) = Off(w, T, W, s)[g] - i * W
  BY <1>1, <1>2, <1>3
<1> QED
  BY <1>2, <1>4 DEF x, y

\* The gifts are units in their order, for the room that is left up to the caps.
Spare(s, T) == [g \in Groups |-> Least(T, Cap(g[2]) - s[g])]
LEMMA GiftsFacts ==
    ASSUME NEW w \in [Groups -> Nat \ {0}], NEW T \in Nat \ {0}, NEW W \in Nat \ {0},
           NEW s, Rough(w, T, W, s)
    PROVE  /\ Spare(s, T) \in [Groups -> Nat] /\ Gifts(s, T) = Units(Groups, Spare(s, T))
           /\ IsFiniteSet(Gifts(s, T)) /\ Strict(GiftOrder(s, w, T, W), Gifts(s, T))
           /\ \A p, q \in Gifts(s, T) : <<q, p>> \in GiftOrder(s, w, T, W) =>
                 Off(w, T, W, s)[p[1]] - (p[2] - 1) * W <= Off(w, T, W, s)[q[1]] - (q[2] - 1) * W
<1> DEFINE P == Gifts(s, T)
           R == GiftOrder(s, w, T, W)
           d == Off(w, T, W, s)
           B == {r \in Groups \X Groups : Before(r[2], r[1])}
<1>1. s \in [Groups -> Nat \ {0}] /\ \A g \in Groups : s[g] <= Cap(g[2]) /\ Cap(g[2]) \in Nat
  BY ShapeFacts DEF Rough
<1>2. d \in [Groups -> Int]
  BY DEF Rough
<1>3. Spare(s, T) \in [Groups -> Nat]
  BY <1>1 DEF Spare, Least
<1>4. P = Units(Groups, Spare(s, T))
  <2>1. \A p \in Groups \X (Nat \ {0}) :
           p[2] <= Spare(s, T)[p[1]] <=> p[2] \in 1 .. T /\ s[p[1]] + p[2] <= Cap(p[1][2])
    <3> SUFFICES ASSUME NEW g \in Groups, NEW i \in Nat \ {0}
                 PROVE  i <= Spare(s, T)[g] <=> i \in 1 .. T /\ s[g] + i <= Cap(g[2])
      OBVIOUS
    <3>1. s[g] \in Nat /\ Cap(g[2]) \in Nat /\ Spare(s, T)[g] = Least(T, Cap(g[2]) - s[g])
      BY <1>1 DEF Spare
    <3> QED
      BY <3>1 DEF Least
  <2>2. \A p \in Groups \X (1 .. T) : p \in Groups \X (Nat \ {0}) /\ p[2] \in 1 .. T
    OBVIOUS
  <2>3. \A p \in Groups \X (Nat \ {0}) : p[2] \in 1 .. T => p \in Groups \X (1 .. T)
    OBVIOUS
  <2> QED
    BY <2>1, <2>2, <2>3 DEF Gifts, Units
<1>5. IsFiniteSet(P)
  <2> DEFINE I == 1 .. T
  <2>1. IsFiniteSet(I)
    BY UpToFacts
  <2> HIDE DEF I
  <2>2. IsFiniteSet(Groups \X I)
    BY <2>1, ShapeFacts, FS_Product
  <2>3. P \in SUBSET (Groups \X I)
    BY DEF Gifts, I
  <2> QED
    BY <2>2, <2>3, FS_Subset
<1>6. \A p \in P : p = <<p[1], p[2]>> /\ p[1] \in Groups /\ p[2] - 1 \in Int
  BY <1>4 DEF Units
<1> DEFINE key == [p \in P |-> d[p[1]] - (p[2] - 1) * W]
<1>7. ASSUME NEW p \in P
      PROVE  key[p] \in Int /\ Below(s, w, T, W, p[1], p[2] - 1) = key[p]
  <2>1. \A g \in Groups : \A i \in Int : /\ Below(s, w, T, W, g, i) \in Int
                                        /\ Below(s, w, T, W, g, i) = d[g] - i * W
    BY BelowIs
  <2>2. p[1] \in Groups /\ p[2] - 1 \in Int
    BY <1>6
  <2> HIDE DEF d
  <2>3. /\ Below(s, w, T, W, p[1], p[2] - 1) \in Int
        /\ Below(s, w, T, W, p[1], p[2] - 1) = d[p[1]] - (p[2] - 1) * W
    BY <2>1, <2>2
  <2> QED
    BY <2>3
<1>8. \A p, q \in P : <<q, p>> \in R <=> key[q] > key[p] \/ (key[q] = key[p] /\ <<q[1], p[1]>> \in B)
  <2> SUFFICES ASSUME NEW p \in P, NEW q \in P
               PROVE  <<q, p>> \in R <=> key[q] > key[p] \/ (key[q] = key[p] /\ <<q[1], p[1]>> \in B)
    OBVIOUS
  <2> DEFINE m == More(s, w, T, W, q, p)
  <2>1. <<q, p>> \in R <=> m
    BY DEF GiftOrder
  <2>2. m <=> key[q] > key[p] \/ (key[q] = key[p] /\ Before(p[1], q[1]))
    <3> HIDE DEF key
    <3> QED
      BY <1>7 DEF More
  <2>3. <<q[1], p[1]>> \in B <=> Before(p[1], q[1])
    BY <1>6
  <2> HIDE DEF key, m, B, R
  <2> QED
    BY <2>1, <2>2, <2>3
<1>9. \A p, q \in P : p # q /\ p[1] = q[1] => key[p] # key[q]
  <2> SUFFICES ASSUME NEW p \in P, NEW q \in P, p # q, p[1] = q[1] PROVE key[p] # key[q]
    OBVIOUS
  <2>1. p[2] # q[2] /\ p[2] - 1 \in Int /\ q[2] - 1 \in Int /\ d[p[1]] \in Int /\ d[q[1]] = d[p[1]]
    BY <1>2, <1>6
  <2>2. \A a, b \in Int : a # b => a * W # b * W
    OBVIOUS
  <2>3. p[2] - 1 # q[2] - 1
    BY <1>4, <2>1 DEF Units
  <2>4. (p[2] - 1) * W # (q[2] - 1) * W
    BY <2>1, <2>2, <2>3
  <2>5. \A a, b, c \in Int : b # c => a - b # a - c
    OBVIOUS
  <2>6. (p[2] - 1) * W \in Int /\ (q[2] - 1) * W \in Int
    BY <2>1, Multiplied
  <2> QED
    BY <2>1, <2>4, <2>5, <2>6
<1>10. key \in [P -> Int]
  BY <1>7
<1>11. Strict(B, Groups)
  BY BeforeStrict
<1> HIDE DEF key, B, R, P, d
<1>12. Strict(R, P)
  BY <1>6, <1>8, <1>9, <1>10, <1>11, KeysStrict
<1>13. ASSUME NEW p \in P, NEW q \in P, <<q, p>> \in R
       PROVE  d[p[1]] - (p[2] - 1) * W <= d[q[1]] - (q[2] - 1) * W
  <2>1. key[p] <= key[q]
    <3>1. key[q] > key[p] \/ key[q] = key[p]
      BY <1>8, <1>13
    <3>2. key[p] \in Int /\ key[q] \in Int
      BY <1>10
    <3> QED
      BY <3>1, <3>2
  <2> QED
    BY <2>1 DEF key
<1> QED
  BY <1>3, <1>4, <1>5, <1>12, <1>13 DEF P, R, d

\* The takes are units in their order, for the ranks that are more than one.
Excess(s) == [g \in Groups |-> s[g] - 1]
Above(w, T, W, s) == [g \in Groups |-> -Off(w, T, W, s)[g]]
LEMMA TakesFacts ==
    ASSUME NEW w \in [Groups -> Nat \ {0}], NEW T \in Nat \ {0}, NEW W \in Nat \ {0},
           NEW s, Rough(w, T, W, s)
    PROVE  /\ Excess(s) \in [Groups -> Nat] /\ Takes(s) = Units(Groups, Excess(s))
           /\ IsFiniteSet(Takes(s)) /\ Strict(TakeOrder(s, w, T, W), Takes(s))
           /\ \A p, q \in Takes(s) : <<q, p>> \in TakeOrder(s, w, T, W) =>
                 Above(w, T, W, s)[p[1]] - (p[2] - 1) * W <= Above(w, T, W, s)[q[1]] - (q[2] - 1) * W
<1> DEFINE P == Takes(s)
           R == TakeOrder(s, w, T, W)
           d == Above(w, T, W, s)
           B == {r \in Groups \X Groups : Before(r[1], r[2])}
<1>1. s \in [Groups -> Nat \ {0}] /\ \A g \in Groups : s[g] <= Cap(g[2]) /\ Cap(g[2]) \in Nat
  BY ShapeFacts DEF Rough
<1>2. d \in [Groups -> Int]
  <2>1. \A g \in Groups : -Off(w, T, W, s)[g] \in Int
    BY DEF Rough
  <2> QED
    BY <2>1 DEF Above
<1>3. Excess(s) \in [Groups -> Nat]
  BY <1>1 DEF Excess
<1>4. P = Units(Groups, Excess(s))
  <2>0. Over(s) \in Nat /\ \A g \in Groups : s[g] <= Over(s)
    <3>1. s \in [Groups -> Nat]
      BY <1>1
    <3> QED
      BY <3>1, ShapeFacts, SumNat
  <2>1. \A p \in Groups \X (Nat \ {0}) :
           p[2] <= Excess(s)[p[1]] <=> p[2] \in 1 .. Over(s) /\ s[p[1]] - p[2] >= 1
    <3> SUFFICES ASSUME NEW g \in Groups, NEW i \in Nat \ {0}
                 PROVE  i <= Excess(s)[g] <=> i \in 1 .. Over(s) /\ s[g] - i >= 1
      OBVIOUS
    <3>1. s[g] \in Nat \ {0} /\ s[g] <= Over(s) /\ Excess(s)[g] = s[g] - 1
      BY <1>1, <2>0 DEF Excess
    <3> QED
      BY <2>0, <3>1
  <2>2. \A p \in Groups \X (1 .. Over(s)) : p \in Groups \X (Nat \ {0}) /\ p[2] \in 1 .. Over(s)
    OBVIOUS
  <2>3. \A p \in Groups \X (Nat \ {0}) : p[2] \in 1 .. Over(s) => p \in Groups \X (1 .. Over(s))
    OBVIOUS
  <2> QED
    BY <2>1, <2>2, <2>3 DEF Takes, Units
<1>5. IsFiniteSet(P)
  <2> DEFINE I == 1 .. Over(s)
  <2>1. IsFiniteSet(I)
    <3>1. s \in [Groups -> Nat]
      BY <1>1
    <3>2. Over(s) \in Nat
      BY <3>1, ShapeFacts, SumNat
    <3> QED
      BY <3>2, UpToFacts
  <2> HIDE DEF I
  <2>2. IsFiniteSet(Groups \X I)
    BY <2>1, ShapeFacts, FS_Product
  <2>3. P \in SUBSET (Groups \X I)
    BY DEF Takes, I
  <2> QED
    BY <2>2, <2>3, FS_Subset
<1>6. \A p \in P : p = <<p[1], p[2]>> /\ p[1] \in Groups /\ p[2] - 1 \in Int
                 /\ 1 - p[2] \in Int /\ p[2] \in Int
  BY <1>4 DEF Units
<1> DEFINE key == [p \in P |-> d[p[1]] - (p[2] - 1) * W]
<1>7. ASSUME NEW p \in P
      PROVE  key[p] \in Int /\ Below(s, w, T, W, p[1], 1 - p[2]) = -key[p]
  <2> DEFINE o == Off(w, T, W, s)
  <2>1. \A g \in Groups : \A i \in Int : /\ Below(s, w, T, W, g, i) \in Int
                                        /\ Below(s, w, T, W, g, i) = o[g] - i * W
    BY BelowIs
  <2>2. p[1] \in Groups /\ p[2] - 1 \in Int /\ 1 - p[2] \in Int /\ p[2] \in Int
    BY <1>6
  <2>3. d[p[1]] = -o[p[1]] /\ o[p[1]] \in Int
    BY <2>2 DEF Above, Rough
  <2> HIDE DEF d, o
  <2>4. Below(s, w, T, W, p[1], 1 - p[2]) = o[p[1]] - (1 - p[2]) * W
    BY <2>1, <2>2
  <2>5. (1 - p[2]) * W = -((p[2] - 1) * W) /\ (p[2] - 1) * W \in Int
    BY <2>2
  <2> QED
    BY <2>3, <2>4, <2>5
<1>8. \A p, q \in P : <<q, p>> \in R <=> key[q] > key[p] \/ (key[q] = key[p] /\ <<q[1], p[1]>> \in B)
  <2> SUFFICES ASSUME NEW p \in P, NEW q \in P
               PROVE  <<q, p>> \in R <=> key[q] > key[p] \/ (key[q] = key[p] /\ <<q[1], p[1]>> \in B)
    OBVIOUS
  <2> DEFINE m == Less(s, w, T, W, q, p)
  <2>1. <<q, p>> \in R <=> m
    BY DEF TakeOrder
  <2>2. m <=> key[q] > key[p] \/ (key[q] = key[p] /\ Before(q[1], p[1]))
    <3> HIDE DEF key
    <3> QED
      BY <1>7 DEF Less
  <2>3. <<q[1], p[1]>> \in B <=> Before(q[1], p[1])
    BY <1>6
  <2> HIDE DEF key, m, B, R
  <2> QED
    BY <2>1, <2>2, <2>3
<1>9. \A p, q \in P : p # q /\ p[1] = q[1] => key[p] # key[q]
  <2> SUFFICES ASSUME NEW p \in P, NEW q \in P, p # q, p[1] = q[1] PROVE key[p] # key[q]
    OBVIOUS
  <2>1. p[2] # q[2] /\ p[2] - 1 \in Int /\ q[2] - 1 \in Int /\ d[p[1]] \in Int /\ d[q[1]] = d[p[1]]
    BY <1>2, <1>6
  <2>2. \A a, b \in Int : a # b => a * W # b * W
    OBVIOUS
  <2>3. p[2] - 1 # q[2] - 1
    BY <1>4, <2>1 DEF Units
  <2>4. (p[2] - 1) * W # (q[2] - 1) * W
    BY <2>1, <2>2, <2>3
  <2>5. \A a, b, c \in Int : b # c => a - b # a - c
    OBVIOUS
  <2>6. (p[2] - 1) * W \in Int /\ (q[2] - 1) * W \in Int
    BY <2>1, Multiplied
  <2> QED
    BY <2>1, <2>4, <2>5, <2>6
<1>10. key \in [P -> Int]
  BY <1>7
<1>11. Strict(B, Groups)
  BY BeforeStrict
<1> HIDE DEF key, B, R, P, d
<1>12. Strict(R, P)
  BY <1>6, <1>8, <1>9, <1>10, <1>11, KeysStrict
<1>13. ASSUME NEW p \in P, NEW q \in P, <<q, p>> \in R
       PROVE  d[p[1]] - (p[2] - 1) * W <= d[q[1]] - (q[2] - 1) * W
  <2>1. key[p] <= key[q]
    <3>1. key[q] > key[p] \/ key[q] = key[p]
      BY <1>8, <1>13
    <3>2. key[p] \in Int /\ key[q] \in Int
      BY <1>10
    <3> QED
      BY <3>1, <3>2
  <2> QED
    BY <2>1 DEF key
<1> QED
  BY <1>3, <1>4, <1>5, <1>12, <1>13 DEF P, R, d

\* The bounds of a total.
LEMMA TotalBounds ==
    ASSUME NEW s \in [Groups -> Nat \ {0}], \A g \in Groups : s[g] <= Cap(g[2])
    PROVE  /\ Caps \in [Groups -> Nat \ {0}] /\ Over(Caps) \in Nat /\ Over(s) \in Nat \ {0}
           /\ Cardinality(Groups) \in Nat \ {0}
           /\ Cardinality(Groups) <= Over(s) /\ Over(s) <= Over(Caps)
<1>1. Caps \in [Groups -> Nat \ {0}] /\ \A g \in Groups : s[g] <= Caps[g]
  BY ShapeFacts DEF Caps
<1>2. Caps \in [Groups -> Int] /\ s \in [Groups -> Int] /\ s \in [Groups -> Nat]
  BY <1>1
<1>3. Over(s) <= Over(Caps)
  BY <1>1, <1>2, ShapeFacts, SumMonotone
<1>4. Over(s) \in Nat \ {0} /\ Over(Caps) \in Nat \ {0}
  BY <1>1, ShapeFacts, SumPositive
<1> DEFINE one == [g \in Groups |-> 1]
<1>5. one \in [Groups -> Int] /\ \A g \in Groups : one[g] = 1 /\ one[g] <= s[g]
  OBVIOUS
<1> HIDE DEF one
<1>6. Over(one) = 1 * Cardinality(Groups)
  BY <1>5, ShapeFacts, SumConstant
<1>7. Over(one) <= Over(s)
  BY <1>2, <1>5, ShapeFacts, SumMonotone
<1>8. Cardinality(Groups) \in Nat \ {0}
  BY ShapeFacts, FS_CardinalityType, FS_EmptySet
<1> QED
  BY <1>1, <1>3, <1>4, <1>6, <1>7, <1>8

\* Nothing is missing.
LEMMA EvenAtOnce ==
    ASSUME NEW w \in [Groups -> Nat \ {0}], NEW T \in Nat \ {0}, NEW W \in Nat \ {0},
           NEW s, Rough(w, T, W, s), T = Over(s)
    PROVE  Evenly(w, T, W, s)
<1>1. s \in [Groups -> Nat \ {0}] /\ \A g \in Groups : s[g] <= Cap(g[2]) /\ Cap(g[2]) \in Nat
  BY ShapeFacts DEF Rough
<1>2. /\ Over(Caps) \in Nat /\ Cardinality(Groups) \in Nat
      /\ Cardinality(Groups) <= Over(s) /\ Over(s) <= Over(Caps)
  BY <1>1, TotalBounds
<1>3. Over(s) = Least(Most(T, Cardinality(Groups)), Over(Caps))
  BY <1>2 DEF Least, Most
<1>4. ASSUME NEW g \in Groups, NEW h \in Groups, s[g] < Cap(g[2]), s[h] > 1
      PROVE  (w[g] * T - s[g] * W) - (w[h] * T - s[h] * W) <= W
  <2> DEFINE x == w[g] * T - s[g] * W
             y == w[h] * T - s[h] * W
  <2>1. x \in Int /\ y \in Int /\ 2 * x <= W /\ -W <= 2 * y
    BY <1>4 DEF Rough, Off
  <2> HIDE DEF x, y
  <2>2. x - y <= W
    BY <2>1
  <2> QED
    BY <2>2 DEF x, y
<1>5. s \in [Groups -> Int] /\ \A g \in Groups : s[g] \in 1 .. Cap(g[2])
  BY <1>1
<1> QED
  BY <1>3, <1>4, <1>5 DEF Evenly

\* Ranks are missing.
LEMMA EvenByGifts ==
    ASSUME NEW w \in [Groups -> Nat \ {0}], NEW T \in Nat \ {0}, NEW W \in Nat \ {0},
           NEW s, Rough(w, T, W, s), T > Over(s)
    PROVE  Evenly(w, T, W, [g \in Groups |-> s[g] + Given(s, w, T, W)[g]])
<1> DEFINE room == Spare(s, T)
           got == Given(s, w, T, W)
           n == T - Over(s)
           d == Off(w, T, W, s)
           r == [g \in Groups |-> s[g] + got[g]]
<1>1. s \in [Groups -> Nat \ {0}] /\ \A g \in Groups : s[g] <= Cap(g[2]) /\ Cap(g[2]) \in Nat \ {0}
  BY ShapeFacts DEF Rough
<1>2. /\ Over(Caps) \in Nat /\ Cardinality(Groups) \in Nat /\ Over(s) \in Nat \ {0}
      /\ Cardinality(Groups) <= Over(s) /\ Over(s) <= Over(Caps)
      /\ Caps \in [Groups -> Int]
  BY <1>1, TotalBounds
<1>3. n \in Nat /\ n < T
  BY <1>2
<1>4. d \in [Groups -> Int]
  BY DEF Rough
<1>5. /\ room \in [Groups -> Nat] /\ Gifts(s, T) = Units(Groups, room)
      /\ IsFiniteSet(Gifts(s, T)) /\ Strict(GiftOrder(s, w, T, W), Gifts(s, T))
      /\ \A p, q \in Gifts(s, T) : <<q, p>> \in GiftOrder(s, w, T, W) =>
            d[p[1]] - (p[2] - 1) * W <= d[q[1]] - (q[2] - 1) * W
  BY GiftsFacts
<1>6. got = Handed(Groups, First(Units(Groups, room), GiftOrder(s, w, T, W), n))
  BY <1>5 DEF Given
<1>7. \A g \in Groups : room[g] = Least(T, Cap(g[2]) - s[g])
  BY DEF Spare
<1> HIDE DEF room, got, n, d
<1>8. /\ got \in [Groups -> Nat] /\ \A g \in Groups : got[g] <= room[g] /\ got[g] <= n
      /\ Over(got) = Least(n, Over(room))
      /\ \A g, h \in Groups : got[g] < room[g] /\ got[h] >= 1 =>
            d[g] - got[g] * W <= d[h] - (got[h] - 1) * W
  <2> DEFINE R == GiftOrder(s, w, T, W)
  <2>1. /\ IsFiniteSet(Units(Groups, room)) /\ Strict(R, Units(Groups, room))
        /\ \A p, q \in Units(Groups, room) : <<q, p>> \in R =>
              d[p[1]] - (p[2] - 1) * W <= d[q[1]] - (q[2] - 1) * W
        /\ got = Handed(Groups, First(Units(Groups, room), R, n))
        /\ IsFiniteSet(Groups) /\ room \in [Groups -> Nat]
    BY <1>5, <1>6, ShapeFacts
  <2> HIDE DEF R
  <2> QED
    BY <1>3, <1>4, <2>1, HandedOut
<1>9. ASSUME NEW g \in Groups
      PROVE  /\ s[g] \in Nat \ {0} /\ got[g] \in Nat /\ room[g] \in Nat /\ Cap(g[2]) \in Nat \ {0}
             /\ r[g] = s[g] + got[g] /\ r[g] \in 1 .. Cap(g[2])
             /\ r[g] < Cap(g[2]) => got[g] < room[g]
  <2>1. /\ s[g] \in Nat \ {0} /\ s[g] <= Cap(g[2]) /\ Cap(g[2]) \in Nat \ {0}
        /\ got[g] \in Nat /\ got[g] <= room[g] /\ got[g] <= n /\ room[g] \in Nat
        /\ room[g] = Least(T, Cap(g[2]) - s[g]) /\ r[g] = s[g] + got[g]
    BY <1>1, <1>5, <1>7, <1>8
  <2> HIDE DEF r
  <2> QED
    BY <1>3, <2>1 DEF Least
<1>10. r \in [Groups -> Int]
  BY <1>9
<1>11. Over(r) = Over(s) + Over(got)
  <2>1. s \in [Groups -> Int] /\ got \in [Groups -> Int] /\ \A g \in Groups : r[g] = s[g] + got[g]
    BY <1>1, <1>8
  <2> HIDE DEF r
  <2> QED
    BY <1>10, <2>1, ShapeFacts, SumOfTwo
<1>12. Over(room) \in Nat /\ Over(s) + Over(room) <= Over(Caps)
       /\ (Over(room) < n => Over(s) + Over(room) = Over(Caps))
  <2> DEFINE full == [g \in Groups |-> s[g] + room[g]]
             slack == [g \in Groups |-> Cap(g[2]) - s[g]]
  <2>1. full \in [Groups -> Int] /\ slack \in [Groups -> Int]
        /\ \A g \in Groups : full[g] = s[g] + room[g] /\ full[g] <= Caps[g]
    <3>1. ASSUME NEW g \in Groups
          PROVE  s[g] + room[g] \in Int /\ Cap(g[2]) - s[g] \in Int /\ s[g] + room[g] <= Caps[g]
      <4>1. s[g] \in Int /\ room[g] \in Int /\ Cap(g[2]) \in Int
            /\ room[g] = Least(T, Cap(g[2]) - s[g]) /\ Caps[g] = Cap(g[2])
        BY <1>7, <1>9 DEF Caps
      <4> QED
        BY <4>1 DEF Least
    <3> QED
      BY <3>1
  <2>2. Over(room) \in Nat /\ \A g \in Groups : room[g] <= Over(room)
    BY <1>5, ShapeFacts, SumNat
  <2>3. ASSUME Over(room) < n PROVE full = Caps
    <3>1. ASSUME NEW g \in Groups PROVE s[g] + room[g] = Cap(g[2])
      <4>1. room[g] <= Over(room) /\ room[g] = Least(T, Cap(g[2]) - s[g])
            /\ s[g] \in Int /\ room[g] \in Nat /\ Cap(g[2]) \in Int
        BY <1>7, <1>9, <2>2
      <4> QED
        BY <1>3, <2>2, <2>3, <4>1 DEF Least
    <3> QED
      BY <3>1 DEF Caps
  <2> HIDE DEF full, slack
  <2>4. Over(full) = Over(s) + Over(room)
    <3>1. s \in [Groups -> Int] /\ room \in [Groups -> Int]
      BY <1>1, <1>5
    <3> QED
      BY <2>1, <3>1, ShapeFacts, SumOfTwo
  <2>5. Over(full) <= Over(Caps)
    BY <1>2, <2>1, ShapeFacts, SumMonotone
  <2> QED
    BY <2>2, <2>3, <2>4, <2>5
<1>13. Over(r) = Least(Most(T, Cardinality(Groups)), Over(Caps))
  <2>1. n = T - Over(s)
    BY DEF n
  <2> QED
    BY <1>2, <1>3, <1>8, <1>11, <1>12, <2>1 DEF Least, Most
<1>14. ASSUME NEW g \in Groups, NEW h \in Groups, r[g] < Cap(g[2]), r[h] > 1
       PROVE  (w[g] * T - r[g] * W) - (w[h] * T - r[h] * W) <= W
  <2> DEFINE a == got[g]
             b == got[h]
  <2>1. /\ d[g] = w[g] * T - s[g] * W /\ d[h] = w[h] * T - s[h] * W
        /\ s[g] < Cap(g[2]) => 2 * d[g] <= W
        /\ s[h] > 1 => -W <= 2 * d[h]
        /\ d[g] \in Int /\ d[h] \in Int
    BY DEF d, Off, Rough
  <2>2. /\ a \in Nat /\ b \in Nat /\ s[g] \in Int /\ s[h] \in Int /\ Cap(g[2]) \in Int
        /\ r[g] = s[g] + a /\ r[h] = s[h] + b /\ a < room[g]
        /\ (b >= 1 => d[g] - a * W <= d[h] - (b - 1) * W)
    BY <1>8, <1>9, <1>14
  <2>3. s[g] < Cap(g[2]) /\ (b = 0 => s[h] > 1)
    BY <1>14, <2>2
  <2> HIDE DEF a, b, r
  <2>4. /\ w[g] * T - r[g] * W = d[g] - a * W
        /\ w[h] * T - r[h] * W = d[h] - b * W
    <3> DEFINE x == w[g] * T
               y == w[h] * T
    <3>1. x \in Int /\ y \in Int
      BY Multiplied
    <3> HIDE DEF x, y
    <3>2. (s[g] + a) * W = s[g] * W + a * W /\ (s[h] + b) * W = s[h] * W + b * W
          /\ s[g] * W \in Int /\ a * W \in Int /\ s[h] * W \in Int /\ b * W \in Int
      BY <2>2
    <3>3. d[g] = x - s[g] * W /\ d[h] = y - s[h] * W
      BY <2>1 DEF x, y
    <3>4. x - r[g] * W = d[g] - a * W /\ y - r[h] * W = d[h] - b * W
      BY <2>2, <3>1, <3>2, <3>3
    <3> QED
      BY <3>4 DEF x, y
  <2>5. a * W \in Nat /\ b * W \in Nat /\ (b - 1) * W = b * W - W
    BY <2>2
  <2>6. CASE b = 0
    <3>1. b * W = 0
      BY <2>6
    <3> QED
      BY <2>1, <2>3, <2>4, <2>5, <2>6, <3>1
  <2>7. CASE b >= 1
    BY <2>1, <2>2, <2>4, <2>5, <2>7
  <2> QED
    BY <2>2, <2>6, <2>7
<1> HIDE DEF r
<1>15. Evenly(w, T, W, r)
  BY <1>9, <1>10, <1>13, <1>14 DEF Evenly
<1> QED
  BY <1>15 DEF r, got

\* There are ranks too many.
LEMMA EvenByTakes ==
    ASSUME NEW w \in [Groups -> Nat \ {0}], NEW T \in Nat \ {0}, NEW W \in Nat \ {0},
           NEW s, Rough(w, T, W, s), T < Over(s)
    PROVE  Evenly(w, T, W, [g \in Groups |-> s[g] - Taken(s, w, T, W)[g]])
<1> DEFINE room == Excess(s)
           got == Taken(s, w, T, W)
           n == Over(s) - T
           d == Above(w, T, W, s)
           o == Off(w, T, W, s)
           r == [g \in Groups |-> s[g] - got[g]]
<1>1. s \in [Groups -> Nat \ {0}] /\ \A g \in Groups : s[g] <= Cap(g[2]) /\ Cap(g[2]) \in Nat \ {0}
  BY ShapeFacts DEF Rough
<1>2. /\ Over(Caps) \in Nat /\ Cardinality(Groups) \in Nat \ {0} /\ Over(s) \in Nat \ {0}
      /\ Cardinality(Groups) <= Over(s) /\ Over(s) <= Over(Caps)
  BY <1>1, TotalBounds
<1>3. n \in Nat
  BY <1>2
<1>4. o \in [Groups -> Int] /\ d \in [Groups -> Int] /\ \A g \in Groups : d[g] = -o[g]
  <2>1. \A g \in Groups : o[g] \in Int /\ -o[g] \in Int
    BY DEF Rough
  <2> QED
    BY <2>1 DEF Above, Rough
<1>5. /\ room \in [Groups -> Nat] /\ Takes(s) = Units(Groups, room)
      /\ IsFiniteSet(Takes(s)) /\ Strict(TakeOrder(s, w, T, W), Takes(s))
      /\ \A p, q \in Takes(s) : <<q, p>> \in TakeOrder(s, w, T, W) =>
            d[p[1]] - (p[2] - 1) * W <= d[q[1]] - (q[2] - 1) * W
  BY TakesFacts
<1>6. got = Handed(Groups, First(Units(Groups, room), TakeOrder(s, w, T, W), n))
  BY <1>5 DEF Taken
<1>7. \A g \in Groups : room[g] = s[g] - 1
  BY DEF Excess
<1> HIDE DEF room, got, n, d
<1>8. /\ got \in [Groups -> Nat] /\ \A g \in Groups : got[g] <= room[g] /\ got[g] <= n
      /\ Over(got) = Least(n, Over(room))
      /\ \A g, h \in Groups : got[g] < room[g] /\ got[h] >= 1 =>
            d[g] - got[g] * W <= d[h] - (got[h] - 1) * W
  <2> DEFINE R == TakeOrder(s, w, T, W)
  <2>1. /\ IsFiniteSet(Units(Groups, room)) /\ Strict(R, Units(Groups, room))
        /\ \A p, q \in Units(Groups, room) : <<q, p>> \in R =>
              d[p[1]] - (p[2] - 1) * W <= d[q[1]] - (q[2] - 1) * W
        /\ got = Handed(Groups, First(Units(Groups, room), R, n))
        /\ IsFiniteSet(Groups) /\ room \in [Groups -> Nat]
    BY <1>5, <1>6, ShapeFacts
  <2>2. d \in [Groups -> Int] /\ n \in Nat
    BY <1>3, <1>4
  <2> HIDE DEF R, o
  <2> QED
    BY <2>1, <2>2, HandedOut, SMTT(60)
<1>9. ASSUME NEW g \in Groups
      PROVE  /\ s[g] \in Nat \ {0} /\ got[g] \in Nat /\ room[g] \in Nat /\ Cap(g[2]) \in Nat \ {0}
             /\ r[g] = s[g] - got[g] /\ r[g] \in 1 .. Cap(g[2])
             /\ r[g] > 1 => got[g] < room[g]
  <2>1. /\ s[g] \in Nat \ {0} /\ s[g] <= Cap(g[2]) /\ Cap(g[2]) \in Nat \ {0}
        /\ got[g] \in Nat /\ got[g] <= room[g] /\ room[g] \in Nat
        /\ room[g] = s[g] - 1 /\ r[g] = s[g] - got[g]
    BY <1>1, <1>5, <1>7, <1>8
  <2> HIDE DEF r
  <2> QED
    BY <2>1
<1>10. r \in [Groups -> Int]
  BY <1>9
<1>11. Over(s) = Over(r) + Over(got)
  <2>1. s \in [Groups -> Int] /\ got \in [Groups -> Int] /\ \A g \in Groups : s[g] = r[g] + got[g]
    BY <1>1, <1>8, <1>9
  <2> HIDE DEF r
  <2> QED
    BY <1>10, <2>1, ShapeFacts, SumOfTwo
<1>12. Over(r) \in Int
  <2> HIDE DEF r
  <2> QED
    BY <1>10, ShapeFacts, SumStep
<1>13. Over(room) = Over(s) - Cardinality(Groups) /\ Over(room) \in Nat
  <2> DEFINE one == [g \in Groups |-> 1]
  <2>1. one \in [Groups -> Int] /\ \A g \in Groups : one[g] = 1 /\ s[g] = room[g] + one[g]
    BY <1>7, <1>9
  <2> HIDE DEF one
  <2>2. Over(one) = 1 * Cardinality(Groups)
    BY <2>1, ShapeFacts, SumConstant
  <2>3. s \in [Groups -> Int] /\ room \in [Groups -> Int]
    BY <1>1, <1>5
  <2>4. Over(s) = Over(room) + Over(one)
    BY <2>1, <2>3, ShapeFacts, SumOfTwo
  <2>5. Over(room) \in Nat
    BY <1>5, ShapeFacts, SumNat
  <2> QED
    BY <1>2, <2>2, <2>4, <2>5
<1>14. Over(r) = Least(Most(T, Cardinality(Groups)), Over(Caps))
  <2>1. n = Over(s) - T
    BY DEF n
  <2>2. Over(got) = Least(n, Over(room))
    BY <1>8
  <2> DEFINE a == Over(s)
             b == Over(r)
             c == Over(got)
             e == Over(Caps)
             N == Cardinality(Groups)
  <2>3. /\ a \in Nat /\ b \in Int /\ e \in Nat /\ N \in Nat /\ N <= a /\ a <= e /\ T < a
        /\ a = b + c /\ c = Least(a - T, a - N)
    BY <1>2, <1>11, <1>12, <1>13, <2>1, <2>2
  <2> HIDE DEF a, b, c, e, N
  <2>4. c \in Int
    BY <2>3 DEF Least
  <2>5. b = Least(Most(T, N), e)
    BY <2>3, <2>4 DEF Least, Most
  <2> QED
    BY <2>5 DEF b, e, N
<1>15. ASSUME NEW g \in Groups, NEW h \in Groups, r[g] < Cap(g[2]), r[h] > 1
       PROVE  (w[g] * T - r[g] * W) - (w[h] * T - r[h] * W) <= W
  <2> DEFINE a == got[g]
             b == got[h]
  <2>1. /\ o[g] = w[g] * T - s[g] * W /\ o[h] = w[h] * T - s[h] * W
        /\ s[g] < Cap(g[2]) => 2 * o[g] <= W
        /\ s[h] > 1 => -W <= 2 * o[h]
        /\ o[g] \in Int /\ o[h] \in Int /\ d[g] = -o[g] /\ d[h] = -o[h]
    BY <1>4 DEF Off, Rough
  <2>2. /\ a \in Nat /\ b \in Nat /\ s[g] \in Int /\ s[h] \in Int /\ Cap(g[2]) \in Int
        /\ r[g] = s[g] - a /\ r[h] = s[h] - b /\ b < room[h]
        /\ (a >= 1 => d[h] - b * W <= d[g] - (a - 1) * W)
    BY <1>8, <1>9, <1>15
  <2>3. s[h] > 1 /\ (a = 0 => s[g] < Cap(g[2]))
    BY <1>15, <2>2
  <2> HIDE DEF a, b, r, o
  <2>4. /\ w[g] * T - r[g] * W = o[g] + a * W
        /\ w[h] * T - r[h] * W = o[h] + b * W
    <3> DEFINE x == w[g] * T
               y == w[h] * T
    <3>1. x \in Int /\ y \in Int
      BY Multiplied
    <3> HIDE DEF x, y
    <3>2. (s[g] - a) * W = s[g] * W - a * W /\ (s[h] - b) * W = s[h] * W - b * W
          /\ s[g] * W \in Int /\ a * W \in Int /\ s[h] * W \in Int /\ b * W \in Int
      BY <2>2
    <3>3. o[g] = x - s[g] * W /\ o[h] = y - s[h] * W
      BY <2>1 DEF x, y
    <3>4. x - r[g] * W = o[g] + a * W /\ y - r[h] * W = o[h] + b * W
      BY <2>2, <3>1, <3>2, <3>3
    <3> QED
      BY <3>4 DEF x, y
  <2>5. a * W \in Nat /\ b * W \in Nat /\ (a - 1) * W = a * W - W
    BY <2>2
  <2>6. CASE a = 0
    <3>1. a * W = 0
      BY <2>6
    <3> QED
      BY <2>1, <2>3, <2>4, <2>5, <2>6, <3>1
  <2>7. CASE a >= 1
    BY <2>1, <2>2, <2>4, <2>5, <2>7
  <2> QED
    BY <2>2, <2>6, <2>7
<1> HIDE DEF r
<1>16. Evenly(w, T, W, r)
  BY <1>9, <1>10, <1>14, <1>15 DEF Evenly
<1> QED
  BY <1>16 DEF r, got

\* The division is even.
LEMMA AllocateEven ==
    ASSUME NEW w \in [Groups -> Nat \ {0}], NEW T \in Nat \ {0}
    PROVE  Over(w) \in Nat \ {0} /\ Evenly(w, T, Over(w), Allocate(w, T))
<1> DEFINE W == Over(w)
           s == Shares(w, T, W)
<1>1. W \in Nat \ {0}
  BY ShapeFacts, SumPositive
<1>2. Allocate(w, T) = Repaired(s, w, T, W)
  BY DEF Allocate
<1> HIDE DEF W, s
<1>3. Rough(w, T, W, s)
  BY <1>1, SharesRough DEF s
<1>4. Over(s) \in Int
  <2>1. s \in [Groups -> Int]
    BY <1>3 DEF Rough
  <2> QED
    BY <2>1, ShapeFacts, SumStep
<1>5. T \in Int
  OBVIOUS
<1>6. T = Over(s) \/ T > Over(s) \/ T < Over(s)
  BY <1>4, <1>5
<1>7. Evenly(w, T, W, Repaired(s, w, T, W))
  BY <1>1, <1>3, <1>4, <1>5, <1>6, RepairedIs, EvenAtOnce, EvenByGifts, EvenByTakes
<1> QED
  BY <1>1, <1>2, <1>7 DEF W

----------------------------------------------------------------------------
(* The shares of the experts of a group.                                   *)

\* The integer parts of the shares by score: what they are worth together.
Portions(k, s) == [e \in Experts |-> (k * NumExperts * s[e]) \div (2 * Over(s))]
LEMMA PortionsFacts ==
    ASSUME NEW k \in Nat \ {0}, NEW s \in [Experts -> Nat \ {0}]
    PROVE  /\ Portions(k, s) \in [Experts -> Nat] /\ Over(Portions(k, s)) \in Nat
           /\ \A e, f \in Experts : s[f] <= s[e] => Portions(k, s)[f] <= Portions(k, s)[e]
           /\ 2 * Over(Portions(k, s)) <= k * NumExperts
           /\ k * NumExperts < 2 * (Over(Portions(k, s)) + NumExperts)
<1> DEFINE q == Portions(k, s)
           S == Over(s)
           a == k * NumExperts
           b == 2 * S
<1>1. S \in Nat \ {0} /\ b \in Nat \ {0}
  <2>1. S \in Nat \ {0}
    BY ShapeFacts, SumPositive
  <2> HIDE DEF S
  <2> QED
    BY <2>1
<1>2. a \in Nat \ {0} /\ NumExperts \in Nat \ {0} /\ IsFiniteSet(Experts)
  BY ShapeFacts, Multiplied
<1>3. q = [e \in Experts |-> (a * s[e]) \div b]
  BY DEF Portions
<1> HIDE DEF q, a, b
<1>4. \A e \in Experts : a * s[e] \in Nat
  BY <1>2, Multiplied
<1>5. ASSUME NEW x \in Nat PROVE x \div b \in Nat /\ b * (x \div b) <= x /\ x < b * ((x \div b) + 1)
  <2> DEFINE d == x \div b
             m == x % b
  <2>1. x = b * d + m /\ m \in 0 .. b - 1 /\ d \in Int
    BY <1>1
  <2>2. d >= 0
    BY <1>1
  <2> HIDE DEF d, m
  <2>3. b * (d + 1) = b * d + b /\ b * d \in Int
    BY <1>1, <2>1
  <2>4. d \in Nat /\ b * d <= x /\ x < b * (d + 1)
    BY <1>1, <2>1, <2>2, <2>3
  <2> QED
    BY <2>4 DEF d
<1>6. \A e \in Experts : q[e] \in Nat /\ b * q[e] <= a * s[e] /\ a * s[e] < b * (q[e] + 1)
  BY <1>3, <1>4, <1>5
<1>7. q \in [Experts -> Nat]
  BY <1>3, <1>6
<1>8. Over(q) \in Nat
  BY <1>2, <1>7, SumNat
<1> DEFINE f1 == [e \in Experts |-> b * q[e]]
           f2 == [e \in Experts |-> a * s[e]]
           q1 == [e \in Experts |-> q[e] + 1]
           one == [e \in Experts |-> 1]
           f3 == [e \in Experts |-> b * q1[e]]
<1>9. /\ f1 \in [Experts -> Int] /\ f2 \in [Experts -> Int] /\ q1 \in [Experts -> Int]
      /\ f3 \in [Experts -> Int] /\ one \in [Experts -> Int]
      /\ q \in [Experts -> Int] /\ s \in [Experts -> Int] /\ a \in Int /\ b \in Int
      /\ \A e \in Experts : /\ f1[e] = b * q[e] /\ f2[e] = a * s[e] /\ f3[e] = b * q1[e]
                            /\ q1[e] = q[e] + one[e] /\ one[e] = 1 /\ f1[e] <= f2[e] /\ f2[e] < f3[e]
  <2>1. \A e \in Experts : /\ b * q[e] \in Int /\ a * s[e] \in Int /\ q[e] + 1 \in Int
                           /\ b * (q[e] + 1) \in Int
    BY <1>1, <1>4, <1>6, Multiplied
  <2> QED
    BY <1>1, <1>2, <1>6, <1>7, <2>1
<1> HIDE DEF f1, f2, f3, q1, one
<1>10. Over(f1) = b * Over(q)
  <2>1. /\ IsFiniteSet(Experts) /\ q \in [Experts -> Int] /\ b \in Int /\ f1 \in [Experts -> Int]
        /\ \A e \in Experts : f1[e] = b * q[e]
    BY <1>2, <1>9
  <2> QED
    BY <2>1, SumScaled
<1>11. Over(f2) = a * S
  <2>1. /\ IsFiniteSet(Experts) /\ s \in [Experts -> Int] /\ a \in Int /\ f2 \in [Experts -> Int]
        /\ \A e \in Experts : f2[e] = a * s[e]
    BY <1>2, <1>9
  <2>2. Over(f2) = a * Over(s)
    BY <2>1, SumScaled
  <2> QED
    BY <2>2
<1>12. Over(f3) = b * Over(q1)
  <2>1. /\ IsFiniteSet(Experts) /\ q1 \in [Experts -> Int] /\ b \in Int /\ f3 \in [Experts -> Int]
        /\ \A e \in Experts : f3[e] = b * q1[e]
    BY <1>2, <1>9
  <2> QED
    BY <2>1, SumScaled
<1>13. Over(q1) = Over(q) + NumExperts
  <2>1. Over(one) = 1 * Cardinality(Experts)
    BY <1>2, <1>9, SumConstant
  <2>2. Cardinality(Experts) = NumExperts
    BY <1>2, UpToFacts DEF Experts
  <2>3. Over(q1) = Over(q) + Over(one)
    <3>1. /\ IsFiniteSet(Experts) /\ q \in [Experts -> Int] /\ one \in [Experts -> Int]
          /\ q1 \in [Experts -> Int] /\ \A e \in Experts : q1[e] = q[e] + one[e]
      BY <1>2, <1>9
    <3> QED
      BY <3>1, SumOfTwo
  <2> QED
    BY <1>2, <2>1, <2>2, <2>3
<1>14. Over(f1) <= Over(f2)
  <2>1. \A e \in Experts : f1[e] <= f2[e]
    BY <1>9
  <2> QED
    BY <1>2, <1>9, <2>1, SumMonotone
<1>15. Over(f2) < Over(f3)
  <2>1. \A e \in Experts : f2[e] \in Int /\ f3[e] \in Int /\ f2[e] < f3[e]
    BY <1>9
  <2>2. \A e \in Experts : f2[e] <= f3[e]
    BY <2>1
  <2>3. \E e \in Experts : f2[e] < f3[e]
    BY <2>1, ShapeFacts
  <2> QED
    BY <1>2, <1>9, <2>2, <2>3, SumMonotone
<1> DEFINE Q == Over(q)
<1> HIDE DEF S, Q
<1>16. b * Q <= a * S /\ a * S < b * (Q + NumExperts) /\ b = S * 2 /\ Q \in Nat
  <2>1. b = S * 2
    BY <1>1 DEF b
  <2> QED
    BY <1>8, <1>10, <1>11, <1>12, <1>13, <1>14, <1>15, <2>1 DEF Q
<1>17. \A x, y \in Int : /\ S * x <= S * y => x <= y
                         /\ S * x < S * y => x < y
  <2> SUFFICES ASSUME NEW x \in Int, NEW y \in Int
               PROVE  (S * x <= S * y => x <= y) /\ (S * x < S * y => x < y)
    OBVIOUS
  <2>1. x > y => S * x > S * y
    <3> SUFFICES ASSUME x > y PROVE S * (x - y) > 0 /\ S * (x - y) = S * x - S * y
      BY <1>1
    <3>1. x - y \in Nat \ {0}
      OBVIOUS
    <3> QED
      BY <1>1, <3>1
  <2>2. S * x \in Int /\ S * y \in Int
    BY <1>1
  <2> QED
    BY <2>1, <2>2
<1>18. b * Q = S * (2 * Q) /\ a * S = S * a /\ b * (Q + NumExperts) = S * (2 * (Q + NumExperts))
  BY <1>1, <1>2, <1>16
<1>19. 2 * Q <= a /\ a < 2 * (Q + NumExperts)
  <2>1. 2 * Q \in Int /\ a \in Int /\ 2 * (Q + NumExperts) \in Int
    BY <1>2, <1>16
  <2>2. S * (2 * Q) <= S * a /\ S * a < S * (2 * (Q + NumExperts))
    BY <1>16, <1>18
  <2> QED
    BY <1>17, <2>1, <2>2
<1>20. ASSUME NEW e \in Experts, NEW f \in Experts, s[f] <= s[e] PROVE q[f] <= q[e]
  <2> DEFINE x == a * s[f]
             y == a * s[e]
  <2>1. x <= y /\ x \in Nat /\ y \in Nat
    <3>1. s[f] \in Nat /\ s[e] \in Nat
      OBVIOUS
    <3> QED
      BY <1>2, <1>4, <1>20, <3>1
  <2>2. q[f] \in Nat /\ q[e] \in Nat /\ b * q[f] <= x /\ y < b * (q[e] + 1)
    BY <1>6
  <2> HIDE DEF x, y
  <2>3. b * q[f] < b * (q[e] + 1)
    <3>1. b * q[f] \in Int /\ b * (q[e] + 1) \in Int
      BY <1>1, <2>2
    <3> QED
      BY <2>1, <2>2, <3>1
  <2>4. q[f] < q[e] + 1
    <3> DEFINE u == q[f]
               v == q[e]
    <3>1. u \in Nat /\ v \in Nat
      BY <2>2
    <3>2. b * u < b * (v + 1)
      BY <2>3
    <3> HIDE DEF u, v
    <3>3. ASSUME u >= v + 1 PROVE FALSE
      <4>0. u - (v + 1) \in Nat
        BY <3>1, <3>3
      <4>1. b * (u - (v + 1)) \in Nat /\ b * (u - (v + 1)) = b * u - b * (v + 1)
        BY <1>1, <3>1, <4>0
      <4>2. b * u \in Int /\ b * (v + 1) \in Int
        BY <1>1, <3>1
      <4> QED
        BY <3>2, <4>1, <4>2
    <3>4. u < v + 1
      BY <3>1, <3>3
    <3> QED
      BY <3>4 DEF u, v
  <2> QED
    BY <2>2, <2>4
<1> QED
  BY <1>7, <1>8, <1>19, <1>20 DEF q, a, Q

\* Before the walk every expert has its floor, no more than the cap, and no less
\* than one with a lower score.
LEMMA PartsFacts ==
    ASSUME NEW m \in Matrices, NEW k \in 1 .. Cap(m), NEW s \in [Experts -> Nat \ {0}]
    PROVE  /\ Kept(k) \in Nat \ {0} /\ Kept(k) <= Cap(m) /\ Cap(m) \in Nat
           /\ Parts(m, k, s) \in [Experts -> Nat]
           /\ \A e \in Experts : /\ Parts(m, k, s)[e] = Least(Cap(m), Kept(k) + Portions(k, s)[e])
                                 /\ Parts(m, k, s)[e] \in Kept(k) .. Cap(m)
           /\ \A e, f \in Experts : s[f] <= s[e] => Parts(m, k, s)[f] <= Parts(m, k, s)[e]
<1> DEFINE K == Kept(k)
           c == Cap(m)
           per == Parts(m, k, s)
           q == Portions(k, s)
<1>1. c \in Nat \ {0} /\ k \in Nat \ {0} /\ k <= c
  BY ShapeFacts
<1>2. K \in Nat \ {0} /\ K <= c
  <2> HIDE DEF c
  <2> QED
    BY <1>1 DEF Kept, Most
<1>3. q \in [Experts -> Nat] /\ \A e, f \in Experts : s[f] <= s[e] => q[f] <= q[e]
  BY <1>1, PortionsFacts
<1>4. per = [e \in Experts |-> Most(K, Least(c, K + q[e]))]
  BY DEF Parts, Portions
<1> HIDE DEF K, c, per, q
<1>5. \A e \in Experts : per[e] = Least(c, K + q[e]) /\ per[e] \in K .. c /\ per[e] \in Nat
  BY <1>1, <1>2, <1>3, <1>4 DEF Most, Least
<1>6. per \in [Experts -> Nat]
  BY <1>4, <1>5
<1>7. ASSUME NEW e \in Experts, NEW f \in Experts, s[f] <= s[e] PROVE per[f] <= per[e]
  <2>1. q[f] <= q[e] /\ q[f] \in Nat /\ q[e] \in Nat
    BY <1>3, <1>7
  <2> QED
    BY <1>1, <1>2, <1>5, <2>1 DEF Least
<1> QED
  BY <1>1, <1>2, <1>5, <1>6, <1>7 DEF K, c, per, q

\* The parts of the walk, as RankAllocation has them.
Fitting(m, k, per, step) == {e \in Experts : per[e] + step \in Kept(k) .. Cap(m)}
Sooner(s, f, e, step) == s[f] * step > s[e] * step \/ (s[f] = s[e] /\ f < e)
WalkOrder(P, s, step) == {r \in P \X P : Sooner(s, r[1], r[2], step)}
Reached(m, k, s, per, step) ==
    First(Fitting(m, k, per, step), WalkOrder(Fitting(m, k, per, step), s, step),
          (k * NumExperts - Over(per)) * step)

LEMMA WalkedIs ==
    ASSUME NEW m, NEW k, NEW s, NEW per
    PROVE  Walked(m, k, s, per) =
              [e \in Experts |-> per[e] + IF e \in Reached(m, k, s, per, 1) THEN 1
                                          ELSE IF e \in Reached(m, k, s, per, -1) THEN -1 ELSE 0]
<1> DEFINE missing == k * NumExperts - Over(per)
           fits(e, step) == per[e] + step \in Kept(k) .. Cap(m)
           before(f, e, step) == s[f] * step > s[e] * step \/ (s[f] = s[e] /\ f < e)
           first(step) == {e \in Experts : /\ fits(e, step)
                                           /\ Cardinality({f \in Experts : fits(f, step) /\ before(f, e, step)})
                                                < missing * step}
<1>1. ASSUME NEW step PROVE first(step) = Reached(m, k, s, per, step)
  <2> DEFINE P == Fitting(m, k, per, step)
  <2>1. \A e \in P : {f \in Experts : fits(f, step) /\ before(f, e, step)}
                       = Ahead(P, WalkOrder(P, s, step), e)
    BY DEF Fitting, Ahead, WalkOrder, Sooner
  <2>2. first(step) = {e \in P : Cardinality({f \in Experts : fits(f, step) /\ before(f, e, step)})
                                     < missing * step}
    BY DEF Fitting
  <2>3. Reached(m, k, s, per, step) = First(P, WalkOrder(P, s, step), missing * step)
    BY DEF Reached
  <2> HIDE DEF P, missing, fits, before, first
  <2>4. {e \in P : Cardinality({f \in Experts : fits(f, step) /\ before(f, e, step)}) < missing * step}
          = {e \in P : Cardinality(Ahead(P, WalkOrder(P, s, step), e)) < missing * step}
    BY <2>1
  <2> QED
    BY <2>2, <2>3, <2>4 DEF First
<1>2. Walked(m, k, s, per) =
         [e \in Experts |-> per[e] + IF e \in first(1) THEN 1 ELSE IF e \in first(-1) THEN -1 ELSE 0]
  BY DEF Walked
<1> HIDE DEF first
<1>3. first(1) = Reached(m, k, s, per, 1) /\ first(-1) = Reached(m, k, s, per, -1)
  BY <1>1
<1> QED
  BY <1>2, <1>3

\* The walk goes through the experts in a strict order.
LEMMA WalkStrict ==
    ASSUME NEW P, P \subseteq Experts, NEW s \in [Experts -> Nat \ {0}], NEW step \in {1, -1}
    PROVE  Strict(WalkOrder(P, s, step), P)
<1>1. \A e \in P : e \in Int /\ s[e] \in Int /\ s[e] * step \in Int
  <2>1. \A e \in Experts : e \in Int
    BY ShapeFacts DEF Experts
  <2>2. \A e \in Experts : s[e] \in Int
    OBVIOUS
  <2>3. step \in Int
    OBVIOUS
  <2> QED
    BY <2>1, <2>2, <2>3, Multiplied
<1>2. \A e, f \in P : s[e] * step = s[f] * step <=> s[e] = s[f]
  <2>1. \A x, y \in Int : x * 1 = y * 1 <=> x = y
    OBVIOUS
  <2>2. \A x, y \in Int : x * (-1) = y * (-1) <=> x = y
    OBVIOUS
  <2>3. step = 1 \/ step = -1
    OBVIOUS
  <2> QED
    BY <1>1, <2>1, <2>2, <2>3
<1> DEFINE v == [e \in P |-> s[e] * step]
<1>3. \A e \in P : v[e] \in Int /\ e \in Int
  BY <1>1
<1>4. \A e, f \in P : <<f, e>> \in WalkOrder(P, s, step) <=> v[f] > v[e] \/ (v[f] = v[e] /\ f < e)
  BY <1>2 DEF WalkOrder, Sooner
<1> HIDE DEF v
<1> QED
  BY <1>3, <1>4 DEF Strict

\* Who is reached by the walk.
LEMMA ReachedFacts ==
    ASSUME NEW m \in Matrices, NEW k \in 1 .. Cap(m), NEW s \in [Experts -> Nat \ {0}],
           NEW per \in [Experts -> Nat], NEW step \in {1, -1}, NEW n \in Int,
           n = (k * NumExperts - Over(per)) * step
    PROVE  /\ Reached(m, k, s, per, step) \subseteq Fitting(m, k, per, step)
           /\ n <= 0 => Reached(m, k, s, per, step) = {}
           /\ n >= 0 => Cardinality(Reached(m, k, s, per, step))
                           = Least(n, Cardinality(Fitting(m, k, per, step)))
           /\ IsFiniteSet(Fitting(m, k, per, step))
           /\ \A e \in Reached(m, k, s, per, step) : \A f \in Fitting(m, k, per, step) :
                 s[f] * step > s[e] * step => f \in Reached(m, k, s, per, step)
<1> DEFINE P == Fitting(m, k, per, step)
           R == WalkOrder(P, s, step)
           F == Reached(m, k, s, per, step)
<1>1. P \subseteq Experts
  BY DEF Fitting
<1>2. IsFiniteSet(P)
  BY <1>1, ShapeFacts, FS_Subset
<1>3. Strict(R, P)
  BY <1>1, WalkStrict
<1>4. F = First(P, R, n)
  BY DEF Reached
<1>5. \A e, f \in P : s[f] * step > s[e] * step => <<f, e>> \in R
  BY DEF WalkOrder, Sooner
<1> HIDE DEF P, R, F
<1>6. /\ F \subseteq P
      /\ n <= 0 => F = {}
      /\ n >= 0 => Cardinality(F) = Least(n, Cardinality(P))
      /\ \A p \in F : \A q \in P : <<q, p>> \in R => q \in F
  BY <1>2, <1>3, <1>4, FirstFacts
<1> QED
  BY <1>2, <1>5, <1>6 DEF P, F

\* The redistribution is fair.
Fairly(m, k, s, out) ==
    /\ out \in [Experts -> Int]
    /\ \A e \in Experts : out[e] \in Kept(k) .. Most(Kept(k), Cap(m))
    /\ \A e, f \in Experts : s[e] > s[f] => out[e] >= out[f]
    /\ k > 1 => Over(out) <= k * NumExperts
    /\ k > 1 /\ (\A e \in Experts : out[e] < Cap(m)) =>
          Over(out) >= k * NumExperts - (IF k % 2 = 0 THEN 0 ELSE NumExperts \div 2)
LEMMA RedistributeFair ==
    ASSUME NEW m \in Matrices, NEW k \in 1 .. Cap(m), NEW s \in [Experts -> Nat \ {0}]
    PROVE  Fairly(m, k, s, Redistribute(m, k, s))
<1> DEFINE K == Kept(k)
           c == Cap(m)
           N == NumExperts
           per == Parts(m, k, s)
           q == Portions(k, s)
           M == k * N - Over(per)
           up == Reached(m, k, s, per, 1)
           down == Reached(m, k, s, per, -1)
           out == [e \in Experts |-> per[e] + IF e \in up THEN 1 ELSE IF e \in down THEN -1 ELSE 0]
<1>1. Redistribute(m, k, s) = out
  <2>1. Redistribute(m, k, s) = Walked(m, k, s, per)
    BY DEF Redistribute
  <2> QED
    BY <2>1, WalkedIs
<1>2. /\ K \in Nat \ {0} /\ K <= c /\ c \in Nat /\ per \in [Experts -> Nat]
      /\ \A e \in Experts : per[e] = Least(c, K + q[e]) /\ per[e] \in K .. c
      /\ \A e, f \in Experts : s[f] <= s[e] => per[f] <= per[e]
  BY PartsFacts
<1>3. k \in Nat \ {0} /\ k <= c /\ N \in Nat \ {0} /\ k * N \in Nat /\ IsFiniteSet(Experts)
      /\ Cardinality(Experts) = N
  <2>1. k \in Nat \ {0} /\ k <= c /\ N \in Nat \ {0} /\ IsFiniteSet(Experts)
    BY ShapeFacts
  <2>2. Cardinality(Experts) = N
    BY <2>1, UpToFacts DEF Experts
  <2> QED
    BY <2>1, <2>2, Multiplied
<1>4. /\ q \in [Experts -> Nat] /\ Over(q) \in Nat
      /\ 2 * Over(q) <= k * N /\ k * N < 2 * (Over(q) + N)
  BY <1>3, PortionsFacts
<1>5. Over(per) \in Nat /\ M \in Int
  <2>1. Over(per) \in Nat
    BY <1>2, <1>3, SumNat
  <2> QED
    BY <1>3, <2>1
<1>6. /\ up \subseteq Fitting(m, k, per, 1)
      /\ M <= 0 => up = {}
      /\ M >= 0 => Cardinality(up) = Least(M, Cardinality(Fitting(m, k, per, 1)))
      /\ IsFiniteSet(Fitting(m, k, per, 1))
      /\ \A e \in up : \A f \in Fitting(m, k, per, 1) : s[f] > s[e] => f \in up
  <2>1. M = (k * N - Over(per)) * 1 /\ 1 \in {1, -1}
    BY <1>5
  <2> HIDE DEF M, per
  <2>2. /\ up \subseteq Fitting(m, k, per, 1)
        /\ M <= 0 => up = {}
        /\ M >= 0 => Cardinality(up) = Least(M, Cardinality(Fitting(m, k, per, 1)))
        /\ IsFiniteSet(Fitting(m, k, per, 1))
        /\ \A e \in up : \A f \in Fitting(m, k, per, 1) : s[f] * 1 > s[e] * 1 => f \in up
    BY <1>2, <1>5, <2>1, ReachedFacts
  <2>3. \A e \in Experts : s[e] * 1 = s[e]
    <3>1. \A e \in Experts : s[e] \in Int
      OBVIOUS
    <3> QED
      BY <3>1
  <2>4. \A e \in Fitting(m, k, per, 1) : e \in Experts
    BY DEF Fitting
  <2> HIDE DEF up
  <2> QED
    BY <2>2, <2>3, <2>4
<1>7. /\ down \subseteq Fitting(m, k, per, -1)
      /\ M >= 0 => down = {}
      /\ \A e \in down : \A f \in Fitting(m, k, per, -1) : s[f] < s[e] => f \in down
  <2>1. -M = (k * N - Over(per)) * (-1) /\ -1 \in {1, -1} /\ -M \in Int
    BY <1>5
  <2> HIDE DEF M, per
  <2>2. /\ down \subseteq Fitting(m, k, per, -1)
        /\ -M <= 0 => down = {}
        /\ \A e \in down : \A f \in Fitting(m, k, per, -1) : s[f] * (-1) > s[e] * (-1) => f \in down
    BY <1>2, <2>1, ReachedFacts
  <2>3. \A e, f \in Experts : s[f] < s[e] => s[f] * (-1) > s[e] * (-1)
    <3>1. \A e \in Experts : s[e] \in Int
      OBVIOUS
    <3>2. \A x, y \in Int : x < y => x * (-1) > y * (-1)
      OBVIOUS
    <3> QED
      BY <3>1, <3>2
  <2>4. \A e \in Fitting(m, k, per, -1) : e \in Experts
    BY DEF Fitting
  <2> HIDE DEF down
  <2> QED
    BY <1>5, <2>2, <2>3, <2>4
<1>8. \A e \in Experts : out[e] = per[e] + IF e \in up THEN 1 ELSE IF e \in down THEN -1 ELSE 0
  OBVIOUS
<1>9. \A e \in Experts : /\ e \in Fitting(m, k, per, 1) <=> per[e] < c
                         /\ e \in Fitting(m, k, per, -1) <=> per[e] > K
  <2> SUFFICES ASSUME NEW e \in Experts
               PROVE  /\ e \in Fitting(m, k, per, 1) <=> per[e] < c
                      /\ e \in Fitting(m, k, per, -1) <=> per[e] > K
    OBVIOUS
  <2>1. per[e] \in K .. c /\ K \in Int /\ c \in Int
    BY <1>2
  <2>2. /\ e \in Fitting(m, k, per, 1) <=> per[e] + 1 \in K .. c
        /\ e \in Fitting(m, k, per, -1) <=> per[e] + (-1) \in K .. c
    BY DEF Fitting
  <2> HIDE DEF per, K, c
  <2> QED
    BY <2>1, <2>2
<1> HIDE DEF K, c, per, q, up, down, out
<1>10. up \cap down = {}
  BY <1>5, <1>6, <1>7
<1>11. \A e \in Experts : out[e] \in K .. c /\ out[e] \in Int
  <2> SUFFICES ASSUME NEW e \in Experts PROVE out[e] \in K .. c /\ out[e] \in Int
    OBVIOUS
  <2>1. /\ per[e] \in K .. c /\ K \in Int /\ c \in Int
        /\ e \in up => per[e] < c
        /\ e \in down => per[e] > K
    BY <1>2, <1>6, <1>7, <1>9
  <2> QED
    BY <1>8, <2>1
<1>12. out \in [Experts -> Int]
  BY <1>11 DEF out
<1>13. ASSUME NEW e \in Experts, NEW f \in Experts, s[e] > s[f] PROVE out[e] >= out[f]
  <2>1. /\ per[e] \in K .. c /\ per[f] \in K .. c /\ per[f] <= per[e] /\ K \in Int /\ c \in Int
        /\ out[e] \in K .. c /\ out[f] \in K .. c
    <3>1. s[f] <= s[e]
      <4>1. s[e] \in Int /\ s[f] \in Int
        OBVIOUS
      <4> QED
        BY <1>13, <4>1
    <3> QED
      BY <1>2, <1>11, <3>1
  <2>2. /\ f \in up /\ per[e] < c => e \in up
        /\ e \in down /\ per[f] > K => f \in down
    BY <1>6, <1>7, <1>9, <1>13
  <2>3. /\ e \notin up \/ e \notin down
        /\ f \notin up \/ f \notin down
        /\ ~ (f \in up /\ e \in down) /\ ~ (f \in down /\ e \in up)
    BY <1>5, <1>6, <1>7
  <2>4. out[e] = per[e] + IF e \in up THEN 1 ELSE IF e \in down THEN -1 ELSE 0
    BY <1>8
  <2>5. out[f] = per[f] + IF f \in up THEN 1 ELSE IF f \in down THEN -1 ELSE 0
    BY <1>8
  <2> QED
    BY <2>1, <2>2, <2>3, <2>4, <2>5
<1>14. ASSUME k > 1 PROVE K = k \div 2 /\ M >= 0
  <2>1. K = k \div 2
    BY <1>3, <1>14 DEF K, Kept, Most
  <2>2. 2 * K <= k
    BY <1>3, <2>1
  <2> DEFINE top == [e \in Experts |-> K + q[e]]
             kept == [e \in Experts |-> K]
  <2>3. /\ top \in [Experts -> Int] /\ kept \in [Experts -> Int] /\ per \in [Experts -> Int]
        /\ q \in [Experts -> Int]
        /\ \A e \in Experts : kept[e] = K /\ top[e] = kept[e] + q[e] /\ per[e] <= top[e]
    <3>1. \A e \in Experts : K + q[e] \in Int /\ per[e] <= K + q[e] /\ K \in Int
      <4>1. \A e \in Experts : per[e] = Least(c, K + q[e]) /\ q[e] \in Nat /\ K \in Nat /\ c \in Nat
        BY <1>2, <1>4
      <4> QED
        BY <4>1 DEF Least
    <3> QED
      BY <1>2, <1>4, <3>1
  <2> HIDE DEF top, kept
  <2>4. Over(kept) = K * N
    <3>1. K \in Int /\ kept \in [Experts -> Int] /\ \A e \in Experts : kept[e] = K
      BY <1>2, <2>3
    <3> QED
      BY <1>3, <3>1, SumConstant
  <2>5. Over(top) = Over(kept) + Over(q)
    <3>1. \A e \in Experts : top[e] = kept[e] + q[e]
      BY <2>3
    <3> QED
      BY <1>3, <2>3, <3>1, SumOfTwo
  <2>6. Over(per) <= Over(top)
    <3>1. \A e \in Experts : per[e] <= top[e]
      BY <2>3
    <3> QED
      BY <1>3, <2>3, <3>1, SumMonotone
  <2>7. 2 * (K * N) <= k * N
    <3>1. \A x, y \in Nat : 2 * x <= y => 2 * (x * N) <= y * N
      <4> SUFFICES ASSUME NEW x \in Nat, NEW y \in Nat, 2 * x <= y PROVE 2 * (x * N) <= y * N
        OBVIOUS
      <4>1. y - 2 * x \in Nat
        OBVIOUS
      <4>2. (y - 2 * x) * N \in Nat /\ (y - 2 * x) * N = y * N - 2 * (x * N)
        BY <1>3, <4>1
      <4>3. y * N \in Int /\ x * N \in Int
        BY <1>3
      <4> QED
        BY <4>2, <4>3
    <3> QED
      BY <1>2, <1>3, <2>2, <3>1
  <2>8. K * N \in Nat
    BY <1>2, <1>3, Multiplied
  <2> DEFINE a == k * N
             b == K * N
             x == Over(per)
             y == Over(q)
  <2>9. a \in Int /\ b \in Int /\ x \in Int /\ y \in Int /\ 2 * b <= a /\ 2 * y <= a /\ x <= b + y
    BY <1>3, <1>4, <1>5, <2>4, <2>5, <2>6, <2>7, <2>8
  <2>10. M = a - x
    OBVIOUS
  <2> HIDE DEF a, b, x, y
  <2> QED
    BY <2>1, <2>9, <2>10
<1> DEFINE given == [e \in Experts |-> IF e \in up THEN 1 ELSE 0]
<1>15. ASSUME k > 1
       PROVE  Over(out) = Over(per) + Cardinality(up) /\ Cardinality(up) \in Nat /\ Cardinality(up) <= M
  <2>1. down = {} /\ M >= 0
    BY <1>7, <1>14, <1>15
  <2>2. up \in SUBSET Experts
    BY <1>6 DEF Fitting
  <2>3. /\ given \in [Experts -> Int] /\ per \in [Experts -> Int]
        /\ \A e \in Experts : given[e] = IF e \in up THEN 1 ELSE 0
        /\ \A e \in Experts : out[e] = per[e] + given[e]
    BY <1>2, <1>8, <2>1
  <2> HIDE DEF given
  <2>4. Over(given) = Cardinality(up)
    <3>1. given \in [Experts -> Int] /\ \A e \in Experts : given[e] = IF e \in up THEN 1 ELSE 0
      BY <2>3
    <3> QED
      BY <1>3, <2>2, <3>1, SumIndicator
  <2>5. Over(out) = Over(per) + Over(given)
    <3>1. /\ IsFiniteSet(Experts)
          /\ out \in [Experts -> Int] /\ per \in [Experts -> Int] /\ given \in [Experts -> Int]
          /\ \A e \in Experts : out[e] = per[e] + given[e]
      BY <1>3, <1>12, <2>3
    <3> QED
      BY <3>1, SumOfTwo
  <2>6. Cardinality(up) \in Nat
    BY <1>3, <2>2, FS_Subset, FS_CardinalityType
  <2>7. Cardinality(up) <= M
    <3>1. Cardinality(Fitting(m, k, per, 1)) \in Nat
      BY <1>6, FS_CardinalityType
    <3>2. Cardinality(up) = Least(M, Cardinality(Fitting(m, k, per, 1)))
      BY <1>6, <2>1
    <3> HIDE DEF M
    <3> QED
      BY <1>5, <3>1, <3>2 DEF Least
  <2> QED
    BY <2>4, <2>5, <2>6, <2>7
<1>16. k > 1 => Over(out) <= k * N
  BY <1>3, <1>5, <1>15
<1>17. ASSUME k > 1, \A e \in Experts : out[e] < c
       PROVE  Over(out) >= k * N - (IF k % 2 = 0 THEN 0 ELSE N \div 2)
  <2>1. CASE Cardinality(up) = M
    <3>1. Over(out) = k * N
      BY <1>3, <1>5, <1>15, <1>17, <2>1
    <3> HIDE DEF M
    <3>2. (IF k % 2 = 0 THEN 0 ELSE N \div 2) \in Nat
      BY <1>3
    <3> QED
      BY <1>3, <3>1, <3>2
  <2>2. CASE Cardinality(up) # M
    <3> DEFINE P == Fitting(m, k, per, 1)
    <3>1. Cardinality(up) = Cardinality(P)
      <4>1. Cardinality(up) = Least(M, Cardinality(P))
        BY <1>6, <1>14, <1>17
      <4> QED
        BY <2>2, <4>1 DEF Least
    <3>2. up = P
      <4>1. up \in SUBSET P /\ IsFiniteSet(P)
        BY <1>6
      <4> HIDE DEF P
      <4> QED
        BY <3>1, <4>1, FS_Subset
    <3>3. P = Experts
      <4>1. P \subseteq Experts
        BY DEF Fitting
      <4>2. ASSUME NEW e \in Experts, e \notin P PROVE FALSE
        <5>1. ~ (per[e] < c) /\ per[e] \in K .. c /\ c \in Int /\ K \in Int
          BY <1>2, <1>9, <4>2
        <5>2. e \notin up /\ e \notin down
          BY <1>7, <1>14, <1>17, <3>2, <4>2
        <5>3. out[e] = per[e]
          BY <1>8, <5>1, <5>2
        <5> QED
          BY <1>17, <5>1, <5>3
      <4> QED
        BY <4>1, <4>2
    <3> HIDE DEF P
    <3>4. up = Experts
      BY <3>2, <3>3
    <3>5. Cardinality(up) = N
      BY <1>3, <3>4
    <3> DEFINE kept == [e \in Experts |-> K]
    <3>6. /\ kept \in [Experts -> Int] /\ q \in [Experts -> Int] /\ per \in [Experts -> Int]
          /\ \A e \in Experts : kept[e] = K /\ per[e] = kept[e] + q[e]
      <4>1. ASSUME NEW e \in Experts PROVE per[e] = K + q[e]
        <5>1. per[e] < c
          BY <1>9, <3>3 DEF P
        <5>2. per[e] = Least(c, K + q[e]) /\ c \in Nat /\ K \in Nat /\ q[e] \in Nat
          BY <1>2, <1>4
        <5> QED
          BY <5>1, <5>2 DEF Least
      <4> QED
        BY <1>2, <1>4, <4>1
    <3> HIDE DEF kept
    <3>7. Over(kept) = K * N
      <4>1. K \in Int /\ kept \in [Experts -> Int] /\ \A e \in Experts : kept[e] = K
        BY <1>2, <3>6
      <4> QED
        BY <1>3, <4>1, SumConstant
    <3>8. Over(per) = Over(kept) + Over(q)
      <4>1. \A e \in Experts : per[e] = kept[e] + q[e]
        BY <3>6
      <4> QED
        BY <1>3, <3>6, <4>1, SumOfTwo
    <3> DEFINE a == k * N
               b == K * N
               x == Over(out)
               y == Over(q)
    <3>9. x = b + y + N /\ a < 2 * (y + N) /\ a \in Int /\ b \in Int /\ y \in Int /\ x \in Int
      <4>1. b \in Int
        BY <1>2, <1>3, Multiplied
      <4>2. x \in Int
        BY <1>3, <1>12, SumStep
      <4> QED
        BY <1>3, <1>4, <1>15, <1>17, <3>5, <3>7, <3>8, <4>1, <4>2
    <3>10. CASE k % 2 = 0
      <4>1. k = 2 * K
        BY <1>3, <1>14, <1>17, <3>10
      <4>2. a = 2 * b
        <5>1. \A u \in Int : (2 * u) * N = 2 * (u * N)
          BY <1>3
        <5> QED
          BY <1>2, <4>1, <5>1
      <4> HIDE DEF a, b, x, y
      <4>3. x >= a
        BY <1>3, <3>9, <4>2
      <4> QED
        BY <3>9, <3>10, <4>3 DEF a, x
    <3>11. CASE k % 2 # 0
      <4>1. k = 2 * K + 1
        BY <1>3, <1>14, <1>17, <3>11
      <4>2. a = 2 * b + N
        <5>1. \A u \in Int : (2 * u + 1) * N = 2 * (u * N) + N
          BY <1>3
        <5> QED
          BY <1>2, <4>1, <5>1
      <4>3. N \div 2 \in Nat /\ 2 * (N \div 2) >= N - 1
        BY <1>3
      <4> DEFINE h == N \div 2
      <4> HIDE DEF a, b, x, y, h
      <4>4. h \in Nat /\ 2 * h >= N - 1
        BY <4>3 DEF h
      <4>5. x >= a - h
        BY <1>3, <3>9, <4>2, <4>4
      <4> QED
        BY <3>11, <4>5 DEF a, x, h
    <3> QED
      BY <3>10, <3>11
  <2> QED
    BY <2>1, <2>2
<1>18. \A e \in Experts : out[e] \in K .. Most(K, c)
  BY <1>2, <1>11 DEF Most
<1>19. Fairly(m, k, s, out)
  BY <1>12, <1>13, <1>16, <1>17, <1>18 DEF Fairly, K, c
<1> QED
  BY <1>1, <1>19
----------------------------------------------------------------------------
(* What a configuration determines.                                        *)

LEMMA ConfigFacts ==
    ASSUME NEW c \in Configs
    PROVE  /\ c.weight \in [Groups -> Nat \ {0}] /\ c.percent \in 0 .. 99
           /\ c.search \in {"none", "proxy", "validation"} /\ c.perType \in BOOLEAN
           /\ c.ppl \in [Grid -> Nat] /\ c.err \in [Grid -> [Matrices -> Nat]]
           /\ c.score \in [0 .. NumAlphas -> [Groups -> [Experts -> Nat \ {0}]]]
           /\ c.refine \in BOOLEAN /\ c.cached \subseteq Layers
           /\ c.extra \in 0 .. 100 /\ c.limit \in Nat
           /\ c.search # "none" => 1 \in Grid
<1>1. c \in [weight : [Groups -> Nat \ {0}], percent : 0 .. 99,
       search : {"none", "proxy", "validation"}, perType : BOOLEAN,
       ppl : [Grid -> Nat], err : [Grid -> [Matrices -> Nat]],
       score : [0 .. NumAlphas -> [Groups -> [Experts -> Nat \ {0}]]],
       refine : BOOLEAN, cached : SUBSET Layers, wanda : {"off", "live", "cached"},
       extra : 0 .. 100, limit : Nat, whitening : {"anchor", "shift", "anchored_adaptive"}]
  BY ConfigsAssumption
<1>2. c.search # "none" => 1 \in Grid
  BY GridAssumption, ShapeFacts DEF Grid
<1> QED
  BY <1>1, <1>2

\* The ranks a configuration determines divide its budget evenly.
LEMMA DivisionFacts ==
    ASSUME NEW c \in Configs
    PROVE  Evenly(c.weight, Budget(c.percent), Over(c.weight), Allocate(c.weight, Budget(c.percent)))
<1>1. c.weight \in [Groups -> Nat \ {0}] /\ c.percent \in 0 .. 99
  BY ConfigFacts
<1>2. Budget(c.percent) \in Nat \ {0}
  BY <1>1, BudgetPositive
<1> QED
  BY <1>1, <1>2, AllocateEven

LEMMA ProxyInGrid ==
    ASSUME 1 \in Grid, NEW err \in [Grid -> Nat]
    PROVE  Proxy(err) \in Grid
<1> DEFINE best == {a \in Grid : \A b \in Grid : err[a] <= err[b]}
           values == {err[a] : a \in Grid}
<1>1. values \subseteq Nat /\ values # {}
  OBVIOUS
<1>2. PICK v \in values : \A u \in values : v <= u
  BY <1>1, LeastOf
<1>3. best # {} /\ best \subseteq Nat
  BY <1>2 DEF Grid
<1>4. Min(best) \in best
  BY <1>3, MinOf
<1> QED
  BY <1>4 DEF Proxy

LEMMA ArgminInGrid ==
    ASSUME NEW done, done \subseteq Grid, NEW ppl
    PROVE  Argmin(done, ppl) \in 0 .. NumAlphas
<1> DEFINE best == {a \in done : ppl[a] < Inf /\ \A b \in done : ppl[a] <= ppl[b]}
<1>1. best \subseteq Nat /\ best \subseteq Grid
  <2>1. best \subseteq done
    BY Zenon
  <2> HIDE DEF best
  <2>2. Grid \subseteq Nat
    BY DEF Grid
  <2> QED
    BY <2>1, <2>2
<1>2. Argmin(done, ppl) = IF best = {} THEN 0 ELSE Min(best)
  BY DEF Argmin
<1> HIDE DEF best
<1>3. best # {} => Min(best) \in best
  BY <1>1, MinOf
<1>4. NumAlphas \in Nat /\ (best # {} => Min(best) \in 1 .. NumAlphas)
  BY <1>1, <1>3, ShapeFacts DEF Grid
<1> QED
  BY <1>2, <1>4

LEMMA ExpectedInGrid ==
    ASSUME cfg \in Configs, cfg.search # "none"
    PROVE  Expected \in [Matrices -> 0 .. NumAlphas]
<1>1. /\ cfg.search \in {"none", "proxy", "validation"} /\ cfg.perType \in BOOLEAN /\ 1 \in Grid
      /\ cfg.err \in [Grid -> [Matrices -> Nat]]
  BY ConfigFacts
<1>2. Grid \subseteq 0 .. NumAlphas
  BY ShapeFacts DEF Grid
<1>3. ProxyAlpha \in [Matrices -> Grid]
  <2>1. ASSUME NEW m \in Matrices
        PROVE  Proxy([a \in Grid |-> IF cfg.perType THEN cfg.err[a][m] ELSE Over(cfg.err[a])]) \in Grid
    <3> DEFINE err == [a \in Grid |-> IF cfg.perType THEN cfg.err[a][m] ELSE Over(cfg.err[a])]
    <3>1. ASSUME NEW a \in Grid PROVE err[a] \in Nat
      <4>1. cfg.err[a] \in [Matrices -> Nat]
        BY <1>1
      <4>2. Over(cfg.err[a]) \in Nat
        BY <4>1, ShapeFacts, SumNat
      <4> QED
        BY <4>1, <4>2
    <3>2. err \in [Grid -> Nat]
      BY <3>1
    <3> HIDE DEF err
    <3>3. Proxy(err) \in Grid
      BY <1>1, <3>2, ProxyInGrid
    <3> QED
      BY <3>3 DEF err
  <2> QED
    BY <2>1 DEF ProxyAlpha
<1>4. Single(Argmin(Grid, cfg.ppl)) \in [Matrices -> 0 .. NumAlphas]
  BY ArgminInGrid DEF Single
<1>5. Expected \in {ProxyAlpha, Single(Argmin(Grid, cfg.ppl))}
  BY <1>1 DEF Expected
<1> QED
  BY <1>2, <1>3, <1>4, <1>5

LEMMA SlotInt ==
    ASSUME cfg \in Configs, NEW l \in Layers, NEW m \in Matrices
    PROVE  FinalSlot(l, m) \in Int
<1>1. /\ FinalRanks \in [Groups -> Int]
      /\ \A g \in Groups : FinalRanks[g] \in 1 .. Cap(g[2])
  <2>1. Evenly(cfg.weight, Budget(cfg.percent), Over(cfg.weight), FinalRanks)
    BY DivisionFacts DEF FinalRanks
  <2> QED
    BY <2>1 DEF Evenly
<1> DEFINE g == <<l, m>>
<1>2. g \in Groups /\ g[2] = m
  BY DEF Groups
<1>3. CASE cfg.search = "none"
  BY <1>1, <1>2, <1>3 DEF FinalSlot
<1>4. CASE cfg.search # "none"
  <2> DEFINE k == FinalRanks[g]
             s == cfg.score[Expected[m]][g]
             r == Redistribute(m, k, s)
             S == {r[e] : e \in Experts}
  <2>1. Expected[m] \in 0 .. NumAlphas
    BY <1>4, ExpectedInGrid
  <2>2. s \in [Experts -> Nat \ {0}]
    <3>1. cfg.score \in [0 .. NumAlphas -> [Groups -> [Experts -> Nat \ {0}]]]
      BY ConfigFacts
    <3>2. cfg.score[Expected[m]] \in [Groups -> [Experts -> Nat \ {0}]]
      BY <2>1, <3>1
    <3> QED
      BY <1>2, <3>2
  <2>3. k \in 1 .. Cap(m)
    BY <1>1, <1>2
  <2>4. FinalSlot(l, m) = Max(S)
    <3>1. FinalShare[g] = r
      BY <1>2 DEF FinalShare
    <3> HIDE DEF r
    <3> QED
      BY <1>4, <3>1 DEF FinalSlot
  <2> HIDE DEF k, s
  <2>5. PICK b \in Int : r \in [Experts -> Int] /\ \A e \in Experts : r[e] <= b
    <3>1. /\ r \in [Experts -> Int]
          /\ \A e \in Experts : r[e] \in Kept(k) .. Most(Kept(k), Cap(m))
      BY <2>2, <2>3, RedistributeFair DEF Fairly
    <3>2. Kept(k) \in Int /\ Cap(m) \in Int
      BY <2>3, ShapeFacts DEF Kept, Most
    <3>3. Most(Kept(k), Cap(m)) \in Int
      BY <3>2, LeastMost
    <3> HIDE DEF r
    <3> QED
      BY <3>1, <3>2, <3>3
  <2> HIDE DEF r
  <2>6. S \subseteq Int /\ S # {} /\ \A x \in S : x <= b
    BY <2>5, ShapeFacts
  <2> HIDE DEF S
  <2>7. Max(S) \in S
    BY <2>6, MaxOf
  <2> QED
    BY <2>4, <2>6, <2>7
<1> QED
  BY <1>3, <1>4

LEMMA CountedInt ==
    ASSUME cfg \in Configs, NEW l \in Layers
    PROVE  /\ \A m \in Matrices : ExtraOf(l)[m] \in Int
           /\ Counted(ExtraOf(l)) \in Int
<1>1. ASSUME NEW m \in Matrices PROVE ExtraOf(l)[m] \in Int
  <2>1. FinalSlot(l, m) \in Int /\ cfg.extra \in 0 .. 100 /\ cfg.limit \in Nat
    BY SlotInt, ConfigFacts
  <2>2. ExtraOf(l)[m] = Extra(m, FinalSlot(l, m), cfg.extra, cfg.limit)
    BY DEF ExtraOf
  <2> QED
    BY <2>1, <2>2, ExtraInt
<1> DEFINE f == [m \in Matrices |-> NumExperts * ExtraOf(l)[m] * Sides(m)]
<1>2. f \in [Matrices -> Int]
  <2>1. ASSUME NEW m \in Matrices PROVE NumExperts * ExtraOf(l)[m] * Sides(m) \in Int
    <3>1. NumExperts \in Int /\ Sides(m) \in Int
      BY ShapeFacts
    <3> QED
      BY <1>1, <3>1, Multiplied
  <2> QED
    BY <2>1
<1> HIDE DEF f
<1>3. Over(f) \in Int
  BY <1>2, ShapeFacts, SumStep
<1> QED
  BY <1>1, <1>3 DEF f, Counted

\* The sum of the layers so far, and of one more.
LEMMA CountedNext ==
    ASSUME cfg \in Configs
    PROVE  /\ CountedTo(0) = 0
           /\ \A n \in Layers : CountedTo(n) = CountedTo(n - 1) + Counted(ExtraOf(n))
<1>1. ASSUME NEW n \in 0 .. NumLayers
      PROVE  /\ n = 0 => CountedTo(n) = 0
             /\ n > 0 => CountedTo(n) = CountedTo(n - 1) + Counted(ExtraOf(n))
  <2> DEFINE f == [l \in 1 .. n |-> Counted(ExtraOf(l))]
             D == 1 .. n
  <2>1. NumLayers \in Nat /\ n \in Nat /\ IsFiniteSet(D)
    BY ShapeFacts, FS_Interval
  <2>2. f \in [D -> Int]
    BY <2>1, CountedInt DEF Layers
  <2>3. n > 0 => n \in D /\ D \ {n} = 1 .. n - 1 /\ f[n] = Counted(ExtraOf(n))
    BY <2>1
  <2>4. n > 0 => [y \in D \ {n} |-> f[y]] = [l \in 1 .. n - 1 |-> Counted(ExtraOf(l))]
    BY <2>1, <2>3
  <2>5. n = 0 => D = {}
    BY <2>1
  <2>6. CountedTo(n) = Over(f)
    BY DEF CountedTo
  <2> HIDE DEF f, D
  <2>7. /\ D = {} => Over(f) = 0
        /\ \A x \in D : Over(f) = Over([y \in D \ {x} |-> f[y]]) + f[x]
    BY <2>1, <2>2, SumStep
  <2> QED
    BY <2>3, <2>4, <2>5, <2>6, <2>7 DEF CountedTo
<1> QED
  BY <1>1, ShapeFacts DEF Layers

----------------------------------------------------------------------------
(* The invariant holds in the initial states, and every action keeps it.   *)

\* What a configuration determines stays as long as the configuration does.
LEMMA Same ==
    ASSUME cfg' = cfg
    PROVE  /\ Expected' = Expected /\ FinalRanks' = FinalRanks /\ FinalShare' = FinalShare
           /\ \A l : /\ FactoredAs(l)' = FactoredAs(l) /\ RefinedAs(l)' = RefinedAs(l)
                     /\ WidenedAs(l)' = WidenedAs(l) /\ ExtraOf(l)' = ExtraOf(l)
           /\ \A n : CountedTo(n)' = CountedTo(n)
<1>1. Expected' = Expected
  BY DEF Expected, ProxyAlpha
<1>2. FinalRanks' = FinalRanks
  BY DEF FinalRanks
<1>3. FinalShare' = FinalShare
  BY <1>1, <1>2 DEF FinalShare
<1>4. \A l, m : FinalSlot(l, m)' = FinalSlot(l, m)
  BY <1>2, <1>3 DEF FinalSlot
<1>5. \A l : FactoredAs(l)' = FactoredAs(l)
  BY <1>1, <1>4 DEF FactoredAs
<1>6. \A l : RefinedAs(l)' = RefinedAs(l)
  BY <1>5 DEF RefinedAs
<1>7. \A l : ExtraOf(l)' = ExtraOf(l)
  BY <1>4 DEF ExtraOf
<1>8. \A l : WidenedAs(l)' = WidenedAs(l)
  BY <1>6, <1>7 DEF WidenedAs
<1>9. \A n : CountedTo(n)' = CountedTo(n)
  BY <1>7 DEF CountedTo
<1> QED
  BY <1>1, <1>2, <1>3, <1>5, <1>6, <1>7, <1>8, <1>9

LEMMA Initially == Init => IInv
<1> SUFFICES ASSUME Init PROVE IInv
  OBVIOUS
<1>1. 1 .. 1 \subseteq Replicas
  <2>1. PICK n \in ReplicaChoices : n \in Nat \ {0}
    BY RunsAssumption
  <2>2. 1 .. 1 \subseteq 1 .. n
    BY <2>1
  <2> QED
    BY <2>1, <2>2 DEF Replicas
<1>2. Settled /\ Decided /\ Layered /\ Totalled /\ Searching
  BY <1>1, ShapeFacts DEF Init, Settled, Decided, Layered, Totalled, Searching, Scoring,
     Choosing, Chosen, Refined, Widened, Layers
<1>3. OnDisk
  BY DEF Init, OnDisk, NoFiles, Originals
<1> QED
  BY <1>2, <1>3 DEF IInv

\* Slices depend on the number of replicas only.
LEMMA SameSlices == ASSUME replicas' = replicas PROVE \A r : Slice(r)' = Slice(r)
BY DEF Slice

LEMMA Quiet ==
    ASSUME IInv, ScoreExperts \/ SealScores \/ SaveOriginals \/ SealOriginals \/ Preflight
                 \/ SaveShift \/ SealShift \/ Clean3
    PROVE  IInv'
<1>1. cfg' = cfg /\ replicas' = replicas
  BY DEF ScoreExperts, SealScores, SaveOriginals, SealOriginals, Preflight, SaveShift, SealShift,
     Clean3, settings
<1> QED
  BY <1>1, Same, SameSlices DEF IInv, Settled, Decided, Layered, Totalled, Searching, OnDisk, Scoring,
     Choosing, Chosen, Refined, Widened, ScoreExperts, SealScores, SaveOriginals, SealOriginals, Preflight, SaveShift, SealShift,
     Clean3, settings, memory, search, streams, totals, caches, GoTo, Fail

\* The choice of alpha.
LEMMA ExpectedIs ==
    ASSUME cfg \in Configs
    PROVE  /\ cfg.search = "none" => Expected = NoAlpha
           /\ cfg.search = "proxy" => Expected = ProxyAlpha
           /\ cfg.search = "validation" =>
                Expected = IF cfg.perType THEN ProxyAlpha ELSE Single(Argmin(Grid, cfg.ppl))
<1>1. /\ cfg.search \in {"none", "proxy", "validation"} /\ cfg.perType \in BOOLEAN
  BY ConfigFacts
<1>2. cfg.search = "none" => Expected = NoAlpha
  BY DEF Expected
<1>3. cfg.search = "proxy" => Expected = ProxyAlpha
  BY DEF Expected
<1>4. cfg.search = "validation" /\ cfg.perType => Expected = ProxyAlpha
  BY DEF Expected
<1>5. cfg.search = "validation" /\ ~cfg.perType => Expected = Single(Argmin(Grid, cfg.ppl))
  BY DEF Expected
<1> QED
  BY <1>2, <1>3, <1>4, <1>5

\* Choosing the expected alpha redistributes the ranks for good.
LEMMA ChoosesRight ==
    ASSUME IInv, Choose(Expected), pc \in Choosing, UNCHANGED <<cfg, replicas>>,
           experts = Originals, UNCHANGED <<ranks, experts, trying, totals, disk, rep, slices>>,
           measured' \subseteq Grid
    PROVE  IInv'
<1>1. alpha' = Expected /\ pc' = "save_alpha" /\ at' = 1
  BY DEF Choose, GoTo
<1>2. ranks = FinalRanks
  BY DEF IInv, Decided
<1>3. share' = FinalShare
  BY <1>1, <1>2 DEF Choose, SharesOf, FinalShare
<1> QED
  BY <1>1, <1>3, Same, SameSlices DEF IInv, Settled, Decided, Layered, Totalled, Searching, OnDisk,
     Scoring, Choosing, Chosen, Refined, Widened, totals

LEMMA Allocating == ASSUME IInv, AllocateRanks PROVE IInv'
<1>1. ranks' = FinalRanks /\ cfg' = cfg /\ replicas' = replicas
  BY DEF AllocateRanks, FinalRanks, settings
<1> QED
  BY <1>1, Same, SameSlices DEF IInv, Settled, Decided, Layered, Totalled, Searching, OnDisk,
     Scoring, Choosing, Chosen, Refined, Widened, AllocateRanks, settings, search, streams, totals,
     caches, GoTo

LEMMA Using == ASSUME IInv, UseSaved PROVE IInv'
<1>1. disk.alpha = Expected /\ experts = Originals /\ pc \in Choosing
  BY DEF IInv, OnDisk, UseSaved, Saved, Layered, Choosing
<1>2. Choose(Expected)
  BY <1>1 DEF UseSaved
<1> QED
  BY <1>1, <1>2, ChoosesRight DEF UseSaved, settings, totals, search, caches, IInv, Searching

LEMMA NotSearching == ASSUME IInv, NoSearch PROVE IInv'
<1>1. /\ experts = Originals /\ pc \in Choosing /\ cfg \in Configs /\ alpha = NoAlpha
      /\ ranks = FinalRanks
  BY DEF IInv, NoSearch, Layered, Choosing, Settled, Decided
<1>2. CASE cfg.search = "none" /\ GoTo("save_alpha") /\ UNCHANGED <<alpha, share>>
  <2>1. Expected = NoAlpha
    BY <1>1, <1>2, ExpectedIs
  <2> QED
    BY <1>1, <1>2, <2>1, Same, SameSlices DEF IInv, Settled, Decided, Layered, Totalled, Searching, OnDisk,
     Scoring, Choosing, Chosen, Refined, Widened, NoSearch, settings, search, streams, totals,
     caches, GoTo
<1>3. CASE cfg.search = "proxy" /\ Choose(ProxyAlpha)
  <2>1. Choose(Expected)
    BY <1>1, <1>3, ExpectedIs
  <2> QED
    BY <1>1, <2>1, ChoosesRight DEF NoSearch, settings, totals, search, caches, IInv, Searching
<1> QED
  BY <1>2, <1>3 DEF NoSearch

\* The serial search.
LEMMA SearchingAlone ==
    ASSUME IInv, SearchBegins \/ FactorCandidate \/ MeasureCandidate \/ MeasureFails
    PROVE  IInv'
<1>1. cfg' = cfg /\ replicas' = replicas
  BY DEF SearchBegins, FactorCandidate, MeasureCandidate, MeasureFails, settings
<1>2. FactorCandidate => (pc' = "failed" /\ trying' = trying) \/ (trying' \in Grid /\ trying' # 0)
  <2> SUFFICES ASSUME FactorCandidate, ~ (pc' = "failed" /\ trying' = trying)
               PROVE  trying' \in Grid /\ trying' # 0
    OBVIOUS
  <2>1. trying' = Min(Grid \ measured) /\ measured # Grid /\ measured \subseteq Grid
    BY DEF FactorCandidate, Fail, IInv, Searching
  <2>2. CASE Grid \ measured # {}
    <3>1. Grid \ measured \subseteq Nat
      BY DEF Grid
    <3>2. Min(Grid \ measured) \in Grid
      BY <2>2, <3>1, MinOf
    <3> QED
      BY <2>1, <3>2 DEF Grid
  <2>3. CASE Grid \ measured = {}
    BY <2>1, <2>3
  <2> QED
    BY <2>2, <2>3
<1>3. CASE SearchBegins
  BY <1>1, <1>3, Same, SameSlices DEF IInv, Settled, Decided, Layered, Totalled, Searching, OnDisk,
     Scoring, Choosing, Chosen, Refined, Widened, SearchBegins,
     settings, memory, streams, totals, caches, GoTo, Fail
<1>4. CASE FactorCandidate
  BY <1>1, <1>2, <1>4, Same, SameSlices DEF IInv, Settled, Decided, Layered, Totalled, Searching,
     OnDisk, Scoring, Choosing, Chosen, Refined, Widened, FactorCandidate,
     settings, memory, streams, totals, caches, GoTo, Fail
<1>5. CASE MeasureCandidate
  BY <1>1, <1>5, Same, SameSlices DEF IInv, Settled, Decided, Layered, Totalled, Searching, OnDisk,
     Scoring, Choosing, Chosen, Refined, Widened, MeasureCandidate,
     settings, memory, streams, totals, caches, GoTo, Fail, Restored, Originals
<1>6. CASE MeasureFails
  BY <1>1, <1>6, Same, SameSlices DEF IInv, Settled, Decided, Layered, Totalled, Searching, OnDisk,
     Scoring, Choosing, Chosen, Refined, Widened, MeasureFails,
     settings, memory, search, streams, totals, caches, GoTo, Fail
<1> QED
  BY <1>3, <1>4, <1>5, <1>6

LEMMA SearchEnding == ASSUME IInv, SearchEnds PROVE IInv'
<1>1. cfg.search = "validation" /\ cfg \in Configs /\ experts = Originals /\ pc \in Choosing
  BY DEF IInv, Searching, Settled, SearchEnds, Layered, Choosing
<1>2. Choose(Expected)
  BY <1>1, ExpectedIs DEF SearchEnds, Decide
<1> QED
  BY <1>1, <1>2, ChoosesRight DEF SearchEnds, settings, search, totals, IInv,
     Searching

\* The replicas' slices are the candidates of the grid, all of them; the
\* replicas that are spawned are the first ones.
LEMMA Strided ==
    ASSUME NEW n \in Nat \ {0}, NEW x \in Nat
    PROVE  /\ x % n \in 0 .. n - 1
           /\ x % n <= x
           /\ x < n => x % n = x
<1>1. x % n \in 0 .. n - 1 /\ x = n * (x \div n) + (x % n) /\ x \div n \in Int
  OBVIOUS
<1>2. x \div n >= 0
  OBVIOUS
<1>3. x < n => x % n = x
  OBVIOUS
<1>4. x >= n => x % n <= x
  BY <1>1
<1> QED
  BY <1>1, <1>3, <1>4

LEMMA SlicesCover ==
    ASSUME replicas \in Nat \ {0}, 1 .. replicas \subseteq Replicas
    PROVE  /\ \A r \in Spawned : r \in Replicas /\ r \in Nat \ {0} /\ Slice(r) \subseteq Grid
           /\ UNION {Slice(r) : r \in Spawned} = Grid
           /\ \A r \in Spawned : 1 .. r \subseteq Spawned
<1>1. \A r \in Replicas : r \in Nat \ {0}
  BY RunsAssumption DEF Replicas
<1>2. \A r \in Spawned : r \in Replicas /\ r \in Nat \ {0} /\ r <= replicas /\ Slice(r) # {} /\ Slice(r) \subseteq Grid
  BY <1>1 DEF Spawned, Slice
<1>3. ASSUME NEW a \in Grid PROVE \E r \in Spawned : a \in Slice(r)
  <2> DEFINE r == ((a - 1) % replicas) + 1
  <2>1. a \in Nat \ {0} /\ a - 1 \in Nat
    BY DEF Grid
  <2>2. (a - 1) % replicas \in 0 .. replicas - 1
    BY <2>1, Strided
  <2>3. r \in 1 .. replicas /\ (a - 1) % replicas = r - 1
    BY <2>2
  <2> HIDE DEF r
  <2>4. a \in Slice(r)
    BY <2>3 DEF Slice
  <2>5. r \in Spawned
    BY <2>3, <2>4 DEF Spawned
  <2> QED
    BY <2>4, <2>5
<1>4. UNION {Slice(r) : r \in Spawned} = Grid
  BY <1>2, <1>3
<1>5. ASSUME NEW r \in Spawned, NEW q \in 1 .. r PROVE q \in Spawned
  <2>1. PICK a \in Slice(r) : TRUE
    BY <1>2
  <2>2. a \in Grid /\ (a - 1) % replicas = r - 1 /\ a \in Nat \ {0} /\ a <= NumAlphas
    BY <2>1 DEF Slice, Grid
  <2>3. a - 1 \in Nat
    BY <2>2
  <2>4. (a - 1) % replicas <= a - 1
    BY <2>3, Strided
  <2>5. q \in Nat \ {0} /\ q <= r /\ r \in Nat /\ r <= replicas
    BY <1>2
  <2>6. q \in Grid /\ q \in 1 .. replicas
    BY <2>2, <2>4, <2>5, ShapeFacts DEF Grid
  <2>7. q - 1 \in Nat /\ q - 1 < replicas
    BY <2>5
  <2>8. (q - 1) % replicas = q - 1
    BY <2>7, Strided
  <2>9. q \in Slice(q)
    BY <2>6, <2>8 DEF Slice
  <2> QED
    BY <2>6, <2>9 DEF Spawned
<1> QED
  BY <1>2, <1>4, <1>5

LEMMA SearchingTogether == ASSUME IInv, SpawnReplicas \/ Join PROVE IInv'
<1>1. cfg' = cfg /\ replicas' = replicas
  BY DEF SpawnReplicas, Join, settings
<1>2. CASE SpawnReplicas
  BY <1>1, <1>2, Same, SameSlices DEF IInv, Settled, Decided, Layered, Totalled, Searching, OnDisk,
     Scoring, Choosing, Chosen, Refined, Widened, SpawnReplicas,
     settings, memory, streams, totals, caches, GoTo
<1>3. CASE Join
  <2>1. \/ pc' = "failed" /\ at' = at
        \/ pc' = pc /\ at' = at + 1 /\ rep[at] = "done" /\ at \in Replicas
    BY <1>3 DEF Join, Fail, Spawned
  <2> QED
    BY <1>1, <1>3, <2>1, Same, SameSlices DEF IInv, Settled, Decided, Layered, Totalled, Searching,
       OnDisk, Scoring, Choosing, Chosen, Refined, Widened, Join,
       settings, memory, search, streams, totals, caches
<1> QED
  BY <1>2, <1>3

LEMMA Merging == ASSUME IInv, MergeSlices PROVE IInv'
<1>1. /\ cfg.search = "validation" /\ cfg \in Configs /\ experts = Originals /\ pc \in Choosing
      /\ replicas \in Nat \ {0} /\ 1 .. replicas \subseteq Replicas /\ at \in Nat \ {0}
      /\ at \notin Spawned
  BY DEF IInv, Searching, Settled, MergeSlices, Layered, Choosing
<1>2. \A r \in Spawned : r \in 1 .. at - 1
  <2>1. \A r \in Spawned : r \in Nat \ {0} /\ 1 .. r \subseteq Spawned
    BY <1>1, SlicesCover
  <2> QED
    BY <1>1, <2>1
<1>3. \A r \in Spawned : slices[r] = Slice(r)
  <2>1. \A r \in Spawned : r \in Replicas
    BY <1>1, SlicesCover
  <2> QED
    BY <1>2, <2>1 DEF IInv, Searching, MergeSlices
<1>4. measured' = Grid
  <2>1. UNION {slices[r] : r \in Spawned} = UNION {Slice(r) : r \in Spawned}
    BY <1>3
  <2> QED
    BY <1>1, <2>1, SlicesCover DEF MergeSlices
<1>5. Choose(Expected)
  BY <1>1, <1>4, ExpectedIs DEF MergeSlices, Decide
<1> QED
  BY <1>1, <1>4, <1>5, ChoosesRight DEF MergeSlices, settings, totals

LEMMA Replicating ==
    ASSUME IInv, NEW r \in Replicas, Replica(r) \/ ReplicaFails(r)
    PROVE  IInv'
<1>1. cfg' = cfg /\ replicas' = replicas
  BY DEF Replica, ReplicaMeasures, ReplicaReports, ReplicaFails, settings
<1>2. UNCHANGED <<pc, at, memory, experts, measured, trying, stream, totals, disk>>
  BY DEF Replica, ReplicaMeasures, ReplicaReports, ReplicaFails, streams
<1>3. /\ DOMAIN rep' = Replicas /\ DOMAIN slices' = Replicas
      /\ \A q \in Replicas : rep'[q] = "done" => slices'[q] = Slice(q)
      /\ \A q \in Replicas : rep[q] = "done" => rep'[q] = "done"
  BY DEF IInv, Searching, Replica, ReplicaMeasures, ReplicaReports, ReplicaFails, caches
<1> QED
  BY <1>1, <1>2, <1>3, Same, SameSlices DEF IInv, Settled, Decided, Layered, Totalled, Searching,
     OnDisk, memory, totals

LEMMA SavingAlpha == ASSUME IInv, SaveAlpha PROVE IInv'
<1>1. cfg' = cfg /\ replicas' = replicas /\ alpha = Expected /\ experts = Originals
  BY DEF SaveAlpha, settings, IInv, Decided, Chosen, Layered
<1>2. experts' = [l \in Layers |-> IF l < 1 THEN FactoredAs(l) ELSE Fused]
  BY <1>1 DEF SaveAlpha, Originals, Layers
<1> QED
  BY <1>1, <1>2, Same, SameSlices, ShapeFacts DEF IInv, Settled, Decided, Layered, Totalled, Searching, OnDisk,
     Scoring, Choosing, Chosen, Refined, Widened, SaveAlpha, settings, memory, search, streams,
     totals, caches, GoTo, Layers

\* What the layers become, field by field.
LEMMA LayerFacts ==
    ASSUME NEW l
    PROVE  /\ FactoredAs(l).kind = "factored" /\ FactoredAs(l).alpha = Expected
           /\ cfg.refine = FALSE => RefinedAs(l) = FactoredAs(l)
           /\ RefinedAs(l).kind = "factored" /\ RefinedAs(l).alpha = Expected
           /\ cfg.refine = TRUE => RefinedAs(l).refined = TRUE /\ RefinedAs(l).on = Trues(l - 1)
           /\ cfg.refine = FALSE => RefinedAs(l).refined = FALSE
           /\ RefinedAs(l).width = [m \in Matrices |-> FinalSlot(l, m)]
           /\ RefinedAs(l).added = [m \in Matrices |-> 0]
           /\ WidenedAs(l).width = [m \in Matrices |-> FinalSlot(l, m)]
           /\ WidenedAs(l).added = ExtraOf(l) /\ WidenedAs(l).whitened = TRUE
           /\ {"kind", "alpha", "refined", "on", "width", "added", "whitened"}
                \subseteq DOMAIN RefinedAs(l)
<1> DEFINE w == [m \in Matrices |-> FinalSlot(l, m)]
           none == [m \in Matrices |-> 0]
           Fields == {"kind", "alpha", "refined", "on", "width", "added", "whitened"}
           f == FactoredAs(l)
           r == RefinedAs(l)
           t == Trues(l - 1)
           x == ExtraOf(l)
<1>1. Fused = [kind |-> "fused", alpha |-> NoAlpha, refined |-> FALSE, on |-> <<>>,
               width |-> none, added |-> none, whitened |-> FALSE]
  BY DEF Fused
<1>2. f = [Fused EXCEPT !.kind = "factored", !.alpha = Expected, !.width = w]
  BY DEF FactoredAs, Factored
<1>3. r = IF cfg.refine THEN [f EXCEPT !.refined = TRUE, !.on = t] ELSE f
  BY DEF RefinedAs
<1>4. WidenedAs(l) = [r EXCEPT !.added = x, !.whitened = TRUE]
  BY DEF WidenedAs
<1> HIDE DEF w, none, f, r, t, x
<1>5. /\ f.kind = "factored" /\ f.alpha = Expected /\ f.refined = FALSE /\ f.width = w
      /\ f.added = none /\ Fields \subseteq DOMAIN f
  BY <1>1, <1>2
<1>6. CASE cfg.refine = TRUE
  <2>1. r = [f EXCEPT !.refined = TRUE, !.on = t]
    BY <1>3, <1>6
  <2>2. /\ r.kind = "factored" /\ r.alpha = Expected /\ r.refined = TRUE /\ r.on = t
        /\ r.width = w /\ r.added = none /\ Fields \subseteq DOMAIN r
    BY <1>5, <2>1
  <2>3. WidenedAs(l).width = w /\ WidenedAs(l).added = x /\ WidenedAs(l).whitened = TRUE
    BY <1>4, <2>2
  <2> QED
    BY <1>5, <1>6, <2>2, <2>3 DEF w, none, f, r, t, x
<1>7. CASE cfg.refine # TRUE
  <2>1. cfg.refine = FALSE => r = f
    BY <1>3
  <2>2. r = f
    BY <1>3, <1>7
  <2>3. WidenedAs(l).width = w /\ WidenedAs(l).added = x /\ WidenedAs(l).whitened = TRUE
    BY <1>4, <1>5, <2>2
  <2> QED
    BY <1>5, <1>7, <2>2, <2>3 DEF w, none, f, r, t, x
<1> QED
  BY <1>6, <1>7

LEMMA TruesNext == ASSUME NEW n \in Nat \ {0} PROVE Append(Trues(n - 1), TRUE) = Trues(n)
<1> DEFINE s == Trues(n - 1)
<1>1. s \in Seq(BOOLEAN) /\ Len(s) = n - 1 /\ \A i \in 1 .. n - 1 : s[i] = TRUE
  BY DEF Trues
<1> HIDE DEF s
<1>2. Append(s, TRUE) \in Seq(BOOLEAN) /\ Len(Append(s, TRUE)) = n
  BY <1>1
<1>3. \A i \in 1 .. n : Append(s, TRUE)[i] = TRUE
  BY <1>1
<1> DEFINE t == Append(s, TRUE)
<1>4. t \in Seq(BOOLEAN) /\ Len(t) = n /\ \A i \in 1 .. n : t[i] = TRUE
  BY <1>2, <1>3
<1> HIDE DEF t
<1>5. t \in [1 .. n -> BOOLEAN]
  BY <1>4
<1>6. t = [i \in 1 .. n |-> TRUE]
  BY <1>4, <1>5
<1> QED
  BY <1>6 DEF s, t, Trues

\* The layers are factored one after the other.
LEMMA Factoring == ASSUME IInv, FactorLayer PROVE IInv'
<1>1. cfg' = cfg /\ replicas' = replicas
  BY DEF FactorLayer, settings
<1>2. /\ alpha = Expected /\ ranks = FinalRanks /\ (cfg.search # "none" => share = FinalShare)
      /\ experts = [l \in Layers |-> IF l < at THEN FactoredAs(l) ELSE Fused]
      /\ at \in Layers /\ cfg \in Configs
  BY DEF IInv, Decided, Layered, Settled, FactorLayer, Chosen
<1>3. Factored(alpha, [m \in Matrices |-> Slot(at, m)]) = FactoredAs(at)
  BY <1>2 DEF FactoredAs, FinalSlot, Slot
<1>4. experts[at] = Fused /\ Fused.kind = "fused"
  BY <1>2 DEF Fused, Layers
<1>5. /\ experts' = [experts EXCEPT ![at] = FactoredAs(at)]
      /\ NextLayer(IF cfg.refine THEN "capture" ELSE "save3")
  BY <1>3, <1>4 DEF FactorLayer
<1>6. experts' = [l \in Layers |-> IF l < at + 1 THEN FactoredAs(l) ELSE Fused]
  <2>1. \A l \in Layers : l < at + 1 <=> (l < at \/ l = at)
    BY <1>2 DEF Layers
  <2> QED
    BY <1>2, <1>5, <2>1
<1>7. cfg.refine \in BOOLEAN
  BY <1>2, ConfigFacts
<1>8. CASE at < NumLayers
  <2>1. at' = at + 1 /\ pc' = "factor" /\ at' \in Layers
    BY <1>2, <1>5, <1>8, ShapeFacts DEF NextLayer, FactorLayer, Layers
  <2> QED
    BY <1>1, <1>6, <2>1, Same, SameSlices DEF IInv, Settled, Decided, Layered, Totalled,
       Searching, OnDisk, Scoring, Choosing, Chosen, Refined, Widened, FactorLayer,
       settings, memory, search, totals, caches, Layers
<1>9. CASE ~ (at < NumLayers)
  <2>1. at' = 1 /\ pc' = IF cfg.refine THEN "capture" ELSE "save3"
    BY <1>5, <1>9 DEF NextLayer, GoTo
  <2>2. experts' = [l \in Layers |-> FactoredAs(l)]
    BY <1>2, <1>6, <1>9, ShapeFacts DEF Layers
  <2>3. cfg.refine = FALSE => experts' = [l \in Layers |-> RefinedAs(l)]
    BY <2>2, LayerFacts
  <2> QED
    BY <1>1, <1>7, <2>1, <2>2, <2>3, Same, SameSlices DEF IInv, Settled, Decided, Layered, Totalled,
       Searching, OnDisk, Scoring, Choosing, Chosen, Refined, Widened, FactorLayer,
       settings, memory, search, totals, caches
<1> QED
  BY <1>8, <1>9

LEMMA Capturing == ASSUME IInv, CaptureStreams PROVE IInv'
<1>1. cfg' = cfg /\ replicas' = replicas /\ 1 \in Layers
  BY ShapeFacts DEF CaptureStreams, settings, Layers
<1>2. experts = [l \in Layers |-> FactoredAs(l)]
  BY DEF IInv, Layered, CaptureStreams
<1>3. experts = [l \in Layers |-> IF l < 1 THEN RefinedAs(l) ELSE FactoredAs(l)]
  BY <1>2 DEF Layers
<1>4. Trues(0) = <<>>
  BY DEF Trues
<1> QED
  BY <1>1, <1>3, <1>4, Same, SameSlices DEF IInv, Settled, Decided, Layered, Totalled,
     Searching, OnDisk, Scoring, Choosing, Chosen, Refined, Widened, CaptureStreams,
     settings, memory, search, totals, caches, GoTo

\* A block is refined, now or by a checkpoint, after those before it.
LEMMA Refining == ASSUME IInv, ResumeBlock \/ TrainBlock PROVE IInv'
<1>1. cfg' = cfg /\ replicas' = replicas
  BY DEF ResumeBlock, TrainBlock, settings
<1>2. /\ cfg.refine = TRUE /\ stream = Trues(at - 1) /\ at \in Layers /\ pc = "refine"
      /\ experts = [l \in Layers |-> IF l < at THEN RefinedAs(l) ELSE FactoredAs(l)]
      /\ \A l \in Layers : disk.blocks[l] \in {Fused, RefinedAs(l)}
  BY DEF IInv, Layered, Settled, OnDisk, ResumeBlock, TrainBlock
<1>3. experts[at] = FactoredAs(at)
  BY <1>2 DEF Layers
<1>4. experts' = [experts EXCEPT ![at] = RefinedAs(at)]
  <2>1. CASE ResumeBlock
    BY <1>2, <2>1 DEF ResumeBlock, Checkpointed
  <2>2. CASE TrainBlock
    <3>1. experts' = [experts EXCEPT ![at] = [FactoredAs(at) EXCEPT !.refined = TRUE, !.on = stream]]
      BY <1>3, <2>2 DEF TrainBlock
    <3>2. cfg.refine = TRUE /\ stream = Trues(at - 1)
      BY <1>2
    <3>3. RefinedAs(at) = [FactoredAs(at) EXCEPT !.refined = TRUE, !.on = stream]
      BY <3>2, Zenon DEF RefinedAs
    <3> QED
      BY <3>1, <3>3, Zenon
  <2> QED
    BY <2>1, <2>2
<1>5. experts' = [l \in Layers |-> IF l < at + 1 THEN RefinedAs(l) ELSE FactoredAs(l)]
  <2>1. \A l \in Layers : l < at + 1 <=> (l < at \/ l = at)
    BY <1>2 DEF Layers
  <2> QED
    BY <1>2, <1>4, <2>1
<1>6. stream' = Trues(at)
  <2>1. experts'[at].refined = TRUE
    <3>1. experts'[at] = RefinedAs(at)
      BY <1>2, <1>4
    <3>2. RefinedAs(at).refined = TRUE
      BY <1>2, LayerFacts
    <3> QED
      BY <3>1, <3>2
  <2>2. stream' = Append(Trues(at - 1), TRUE)
    BY <1>2, <2>1 DEF ResumeBlock, TrainBlock, Advance
  <2>3. at \in Nat \ {0}
    BY <1>2 DEF Layers
  <2>4. Append(Trues(at - 1), TRUE) = Trues(at)
    BY <2>3, TruesNext
  <2> QED
    BY <2>2, <2>4
<1>7. /\ DOMAIN disk' = DOMAIN disk
      /\ DOMAIN disk'.blocks = Layers /\ \A l \in Layers : disk'.blocks[l] \in {Fused, RefinedAs(l)}
      /\ disk'.alpha = disk.alpha /\ disk'.stage3 = disk.stage3 /\ disk'.spills = disk.spills
      /\ disk'.stage4 = disk.stage4 /\ disk'.ranks4 = disk.ranks4 /\ disk'.acov = disk.acov
  <2>1. experts'[at] = RefinedAs(at)
    BY <1>2, <1>4
  <2>2. disk' = disk \/ disk' = [disk EXCEPT !.blocks[at] = RefinedAs(at)]
    BY <2>1 DEF ResumeBlock, TrainBlock
  <2> QED
    BY <1>2, <2>2 DEF IInv, OnDisk
<1>8. NextLayer("refined")
  BY DEF ResumeBlock, TrainBlock, Advance
<1>9. UNCHANGED <<memory, search, totals, caches>>
  BY DEF ResumeBlock, TrainBlock, caches
<1>10. OnDisk'
  BY <1>1, <1>2, <1>7, <1>8, Same DEF IInv, OnDisk, NextLayer, GoTo
<1>11. CASE at < NumLayers
  <2>1. at' = at + 1 /\ pc' = "refine" /\ at' \in Layers
    BY <1>2, <1>8, <1>11, ShapeFacts DEF NextLayer, Layers
  <2> QED
    BY <1>1, <1>2, <1>5, <1>6, <1>9, <1>10, <2>1, Same, SameSlices DEF IInv, Settled, Decided, Layered,
       Totalled, Searching, Scoring, Choosing, Chosen, Refined, Widened,
       memory, search, totals, caches, Layers
<1>12. CASE ~ (at < NumLayers)
  <2>1. at' = 1 /\ pc' = "refined"
    BY <1>8, <1>12 DEF NextLayer, GoTo
  <2>2. experts' = [l \in Layers |-> RefinedAs(l)]
    BY <1>2, <1>5, <1>12, ShapeFacts DEF Layers
  <2> QED
    BY <1>1, <1>2, <1>9, <1>10, <2>1, <2>2, Same, SameSlices DEF IInv, Settled, Decided, Layered,
       Totalled, Searching, Scoring, Choosing, Chosen, Refined, Widened,
       memory, search, totals, caches
<1> QED
  BY <1>11, <1>12

\* The files of Stage 3 get the refined layers.
LEMMA SavingRefined == ASSUME IInv, RefineEnds \/ SaveStage3 \/ SaveRankMap PROVE IInv'
<1>1. /\ cfg' = cfg /\ replicas' = replicas /\ experts' = experts /\ at' = 1
      /\ pc \in Refined /\ pc' \in Refined /\ pc' \notin {"done", "factor", "refine", "compensate"}
  BY DEF RefineEnds, SaveStage3, SaveRankMap, settings, GoTo, Refined
<1>2. experts = [l \in Layers |-> RefinedAs(l)]
  BY <1>1 DEF IInv, Layered
<1>3. /\ DOMAIN disk' = DOMAIN disk
      /\ disk'.blocks = disk.blocks \/ disk'.blocks = NoFiles
      /\ disk'.stage3 = disk.stage3 \/ disk'.stage3 = {experts}
      /\ disk'.alpha = disk.alpha /\ disk'.spills = disk.spills
      /\ disk'.stage4 = disk.stage4 /\ disk'.ranks4 = disk.ranks4 /\ disk'.acov = disk.acov
  BY DEF IInv, OnDisk, RefineEnds, SaveStage3, SaveRankMap
<1>4. disk.acov = TRUE
  BY <1>1 DEF IInv, OnDisk, Refined
<1>5. OnDisk'
  BY <1>1, <1>2, <1>3, <1>4, Same DEF IInv, OnDisk, NoFiles, Originals
<1> QED
  BY <1>1, <1>5, Same, SameSlices DEF IInv, Settled, Decided, Layered, Totalled, Searching,
     Scoring, Choosing, Chosen, Refined, Widened, RefineEnds, SaveStage3, SaveRankMap,
     settings, memory, search, streams, totals, caches

\* Stage 4 begins with nothing counted.
LEMMA Loading == ASSUME IInv, LoadInputs PROVE IInv'
<1>1. /\ cfg' = cfg /\ replicas' = replicas /\ cfg \in Configs /\ 1 \in Layers
      /\ experts = [l \in Layers |-> RefinedAs(l)] /\ mapped = {} /\ params = 0
  BY ShapeFacts DEF IInv, Settled, Layered, Totalled, Refined, LoadInputs, settings, Layers
<1>2. CountedTo(0) = 0
  BY <1>1, CountedNext
<1>3. experts = [l \in Layers |-> IF l < 1 THEN WidenedAs(l) ELSE RefinedAs(l)]
  BY <1>1 DEF Layers
<1>4. UNCHANGED <<settings, memory, experts, search, totals, caches, disk>> /\ pc = "inputs"
  BY DEF LoadInputs
<1>5. CASE pc' = "failed" /\ at' = at
  BY <1>1, <1>4, <1>5, Same, SameSlices DEF IInv, Settled, Decided, Layered, Totalled,
     Searching, OnDisk, Scoring, Choosing, Chosen, Refined, Widened,
     settings, memory, search, totals, caches
<1>6. CASE pc' = "compensate" /\ at' = 1
  <2>1. Settled' /\ Decided' /\ Searching' /\ OnDisk'
    BY <1>1, <1>4, <1>6, Same, SameSlices DEF IInv, Settled, Decided, Searching, OnDisk, Scoring,
       Choosing, Chosen, settings, memory, search, caches
  <2>2. experts' = experts /\ mapped' = mapped /\ params' = params
    BY <1>4 DEF totals
  <2>3. Layered'
    BY <1>1, <1>3, <1>6, <2>2, Same DEF Layered, Scoring, Choosing, Refined, Widened
  <2>4. 1 .. 1 - 1 = {} /\ 1 - 1 = 0
    OBVIOUS
  <2>5. Totalled'
    BY <1>1, <1>2, <1>6, <2>2, <2>4, Same DEF Totalled, Scoring, Choosing, Chosen, Refined, Widened
  <2> QED
    BY <2>1, <2>3, <2>5 DEF IInv
<1> QED
  BY <1>5, <1>6 DEF LoadInputs, GoTo, Fail

\* A layer is widened, now or by a spill, and counted once.
LEMMA Widening == ASSUME IInv, ResumeLayer \/ CompensateLayer PROVE IInv'
<1>1. cfg' = cfg /\ replicas' = replicas
  BY DEF ResumeLayer, CompensateLayer, settings
<1>2. /\ cfg \in Configs /\ at \in Layers /\ pc = "compensate" /\ disk.acov = TRUE
      /\ mapped = 1 .. at - 1 /\ params = CountedTo(at - 1)
      /\ \A l \in Layers : disk.spills[l] \in {Fused, WidenedAs(l)}
  BY DEF IInv, Settled, Totalled, OnDisk, ResumeLayer, CompensateLayer
<1>3. experts = [l \in Layers |-> IF l < at THEN WidenedAs(l) ELSE RefinedAs(l)]
  BY <1>2 DEF IInv, Layered
<1>4. experts[at] = RefinedAs(at)
  BY <1>2, <1>3 DEF Layers
<1>5. experts' = [experts EXCEPT ![at] = WidenedAs(at)] /\ Account(ExtraOf(at))
  <2>1. CASE ResumeLayer
    <3>1. disk.spills[at] = WidenedAs(at)
      BY <1>2, <2>1 DEF ResumeLayer, Spilled
    <3>2. WidenedAs(at).added = ExtraOf(at)
      BY LayerFacts
    <3> QED
      BY <2>1, <3>1, <3>2 DEF ResumeLayer
  <2>2. CASE CompensateLayer
    <3> DEFINE extra == [m \in Matrices |-> Extra(m, Width(at, m), cfg.extra, cfg.limit)]
               added == [m \in Matrices |-> RefinedAs(at).added[m] + extra[m]]
    <3>1. /\ experts' = [experts EXCEPT
                 ![at] = [RefinedAs(at) EXCEPT !.added = added, !.whitened = TRUE]]
          /\ Account(extra)
      BY <1>2, <1>4, <2>2 DEF CompensateLayer
    <3>2. \A m \in Matrices : Width(at, m) = FinalSlot(at, m)
      <4>1. ASSUME NEW m \in Matrices PROVE Width(at, m) = FinalSlot(at, m)
        <5>1. FinalSlot(at, m) \in Int
          BY <1>2, SlotInt
        <5>2. /\ RefinedAs(at).width = [n \in Matrices |-> FinalSlot(at, n)]
              /\ RefinedAs(at).added = [n \in Matrices |-> 0]
          BY LayerFacts, Zenon
        <5>3. RefinedAs(at).width[m] = FinalSlot(at, m) /\ RefinedAs(at).added[m] = 0
          BY <5>2
        <5> QED
          BY <1>4, <5>1, <5>3 DEF Width
      <4> QED
        BY <4>1
    <3>3. extra = ExtraOf(at)
      BY <3>2 DEF ExtraOf
    <3>4. \A m \in Matrices : RefinedAs(at).added[m] + ExtraOf(at)[m] = ExtraOf(at)[m]
      <4>1. ASSUME NEW m \in Matrices
            PROVE  RefinedAs(at).added[m] + ExtraOf(at)[m] = ExtraOf(at)[m]
        <5>1. ExtraOf(at)[m] \in Int
          BY <1>2, CountedInt
        <5>2. RefinedAs(at).added[m] = 0
          BY LayerFacts
        <5> QED
          BY <5>1, <5>2
      <4> QED
        BY <4>1
    <3>5. ExtraOf(at) = [m \in Matrices |-> ExtraOf(at)[m]]
      BY DEF ExtraOf
    <3>6. added = ExtraOf(at)
      BY <3>3, <3>4, <3>5
    <3> HIDE DEF extra, added
    <3>7. WidenedAs(at) = [RefinedAs(at) EXCEPT !.added = added, !.whitened = TRUE]
      BY <3>6, Zenon DEF WidenedAs
    <3> QED
      BY <3>1, <3>3, <3>7, Zenon
  <2> QED
    BY <2>1, <2>2
<1>6. experts' = [l \in Layers |-> IF l < at + 1 THEN WidenedAs(l) ELSE RefinedAs(l)]
  <2>1. \A l \in Layers : l < at + 1 <=> (l < at \/ l = at)
    BY <1>2 DEF Layers
  <2> QED
    BY <1>2, <1>3, <1>5, <2>1
<1>7. mapped' = 1 .. at /\ params' = CountedTo(at) /\ NextLayer("save4")
  <2>1. CountedTo(at) = CountedTo(at - 1) + Counted(ExtraOf(at))
    BY <1>2, CountedNext
  <2>2. (1 .. at - 1) \cup {at} = 1 .. at
    BY <1>2 DEF Layers
  <2> QED
    BY <1>2, <1>5, <2>1, <2>2 DEF Account
<1>8. /\ DOMAIN disk' = DOMAIN disk
      /\ DOMAIN disk'.spills = Layers /\ \A l \in Layers : disk'.spills[l] \in {Fused, WidenedAs(l)}
      /\ disk'.alpha = disk.alpha /\ disk'.stage3 = disk.stage3 /\ disk'.blocks = disk.blocks
      /\ disk'.stage4 = disk.stage4 /\ disk'.ranks4 = disk.ranks4 /\ disk'.acov = disk.acov
  <2>1. experts'[at] = WidenedAs(at)
    BY <1>2, <1>3, <1>5
  <2>2. disk' = disk \/ disk' = [disk EXCEPT !.spills[at] = WidenedAs(at)]
    BY <2>1 DEF ResumeLayer, CompensateLayer
  <2> QED
    BY <1>2, <2>2 DEF IInv, OnDisk
<1>9. UNCHANGED <<memory, search, streams, caches>>
  BY DEF ResumeLayer, CompensateLayer
<1>10. OnDisk'
  BY <1>1, <1>2, <1>7, <1>8, Same DEF IInv, OnDisk, NextLayer, GoTo
<1>11. CASE at < NumLayers
  <2>1. at' = at + 1 /\ pc' = "compensate" /\ at' \in Layers /\ at' - 1 = at
    BY <1>2, <1>7, <1>11, ShapeFacts DEF NextLayer, Layers
  <2> QED
    BY <1>1, <1>2, <1>6, <1>7, <1>9, <1>10, <2>1, Same, SameSlices DEF IInv, Settled, Decided,
       Layered, Totalled, Searching, Scoring, Choosing, Chosen, Refined, Widened,
       memory, search, streams, caches, Layers
<1>12. CASE ~ (at < NumLayers)
  <2>1. at' = 1 /\ pc' = "save4" /\ at = NumLayers
    BY <1>2, <1>7, <1>12, ShapeFacts DEF NextLayer, GoTo, Layers
  <2>2. experts' = [l \in Layers |-> WidenedAs(l)]
    BY <1>2, <1>6, <2>1, ShapeFacts DEF Layers
  <2>3. mapped' = Layers
    BY <1>7, <2>1 DEF Layers
  <2> QED
    BY <1>1, <1>2, <1>7, <1>9, <1>10, <2>1, <2>2, <2>3, Same, SameSlices DEF IInv, Settled,
       Decided, Layered, Totalled, Searching, Scoring, Choosing, Chosen, Refined, Widened,
       memory, search, streams, caches
<1> QED
  BY <1>11, <1>12

\* The files of Stage 4 get the widened layers and what was counted.
LEMMA SavingWidened ==
    ASSUME IInv, SaveStage4 \/ SaveRanks4 \/ RemoveSpills \/ DeleteOriginals \/ DeleteCov
    PROVE  IInv'
<1>1. /\ cfg' = cfg /\ replicas' = replicas /\ experts' = experts /\ at' = 1
      /\ mapped' = mapped /\ params' = params
      /\ pc \in Widened /\ pc' \in Widened \cup {"done"}
      /\ pc' = "done" \/ disk'.acov = disk.acov
  BY DEF IInv, OnDisk, SaveStage4, SaveRanks4, RemoveSpills, DeleteOriginals, DeleteCov, settings, totals,
     GoTo, Widened
<1>2. /\ experts = [l \in Layers |-> WidenedAs(l)] /\ mapped = Layers
      /\ params = CountedTo(NumLayers) /\ disk.acov = TRUE
  BY <1>1 DEF IInv, Layered, Totalled, OnDisk, Widened
<1>3. /\ DOMAIN disk' = DOMAIN disk
      /\ disk'.spills = disk.spills \/ disk'.spills = NoFiles
      /\ disk'.stage4 = disk.stage4 \/ disk'.stage4 = {experts}
      /\ \/ disk'.ranks4 = disk.ranks4
         \/ disk'.ranks4 = {[mapped |-> mapped, params |-> params]}
      /\ disk'.alpha = disk.alpha /\ disk'.blocks = disk.blocks /\ disk'.stage3 = disk.stage3
  BY DEF IInv, OnDisk, SaveStage4, SaveRanks4, RemoveSpills, DeleteOriginals, DeleteCov
<1>4. OnDisk'
  BY <1>1, <1>2, <1>3, Same DEF IInv, OnDisk, NoFiles, Originals
<1>5. UNCHANGED <<memory, search, streams, caches>>
  BY DEF SaveStage4, SaveRanks4, RemoveSpills, DeleteOriginals, DeleteCov
<1> QED
  BY <1>1, <1>2, <1>4, <1>5, Same, SameSlices DEF IInv, Settled, Decided, Layered, Totalled,
     Searching, Scoring, Choosing, Chosen, Refined, Widened, memory, search, streams, caches

\* A process begins with the originals, or with what Stage 3 saved; none that
\* was begun before it is still at work.
LEMMA Starting == ASSUME IInv, StartAny PROVE IInv'
<1>1. PICK resume \in BOOLEAN, workers \in ReplicaChoices : Start(resume, workers)
  BY DEF StartAny
<1>2. workers \in Nat \ {0} /\ 1 .. workers \subseteq Replicas
  BY <1>1, RunsAssumption DEF Replicas
<1>3. /\ cfg' = cfg /\ replicas' = workers /\ disk' = disk /\ slices' = slices /\ at' = 1
      /\ pc \notin {"done"}
  BY <1>1 DEF Start, GoTo
<1>4. /\ alpha' = NoAlpha /\ measured' = {} /\ trying' = 0
      /\ rep' = [r \in Replicas |-> "off"] /\ mapped' = {} /\ params' = 0
  BY <1>1 DEF Start, Fresh
<1>5. \/ pc' = "wanda" /\ experts' = Originals
      \/ pc' = "inputs" /\ experts' \in disk.stage3
  BY <1>1 DEF Start, Fresh, GoTo
<1>6. disk.stage3 \subseteq {[l \in Layers |-> RefinedAs(l)]}
  BY DEF IInv, OnDisk
<1>7. /\ pc' \in {"wanda", "inputs"}
      /\ pc' = "wanda" => experts' = Originals
      /\ pc' = "inputs" => experts' = [l \in Layers |-> RefinedAs(l)]
  BY <1>5, <1>6
<1>8. Settled' /\ Decided' /\ Totalled'
  BY <1>2, <1>3, <1>4, <1>7 DEF IInv, Settled, Decided, Totalled, Scoring, Choosing, Chosen,
     Refined, Widened
<1>9. Layered'
  BY <1>3, <1>7, Same DEF Layered, Scoring, Choosing, Refined, Widened
<1>10. Searching'
  BY <1>3, <1>4, <1>7 DEF IInv, Searching
<1>11. OnDisk'
  BY <1>3, <1>7, Same DEF IInv, OnDisk
<1> QED
  BY <1>8, <1>9, <1>10, <1>11 DEF IInv

\* A crash leaves the disk.
LEMMA Crashing == ASSUME IInv, Crash PROVE IInv'
<1>1. /\ cfg' = cfg /\ replicas' = replicas /\ disk' = disk /\ slices' = slices /\ at' = 1
      /\ pc # "done" /\ pc' = "crashed"
  BY DEF Crash, settings
<1>2. measured' = {} /\ trying' = 0 /\ rep' = [r \in Replicas |-> "off"]
  BY DEF Crash, Fresh
<1> QED
  BY <1>1, <1>2, Same DEF IInv, Settled, Decided, Layered, Totalled, Searching, OnDisk,
     Scoring, Choosing, Chosen, Refined, Widened

LEMMA Unchanging == ASSUME IInv, UNCHANGED vars PROVE IInv'
BY Same, SameSlices DEF IInv, Settled, Decided, Layered, Totalled, Searching, OnDisk, Scoring,
   Choosing, Chosen, Refined, Widened, vars, settings, memory, search, streams, totals, caches

LEMMA Step == ASSUME IInv, [Next]_vars PROVE IInv'
<1>1. CASE ScoreExperts \/ SealScores \/ SaveOriginals \/ SealOriginals \/ Preflight
             \/ SaveShift \/ SealShift \/ Clean3
  BY <1>1, Quiet
<1>2. CASE AllocateRanks
  BY <1>2, Allocating
<1>3. CASE UseSaved
  BY <1>3, Using
<1>4. CASE NoSearch
  BY <1>4, NotSearching
<1>5. CASE SearchBegins \/ FactorCandidate \/ MeasureCandidate \/ MeasureFails
  BY <1>5, SearchingAlone
<1>6. CASE SearchEnds
  BY <1>6, SearchEnding
<1>7. CASE SpawnReplicas \/ Join
  BY <1>7, SearchingTogether
<1>8. CASE MergeSlices
  BY <1>8, Merging
<1>9. CASE \E r \in Replicas : Replica(r) \/ ReplicaFails(r)
  BY <1>9, Replicating DEF Replica
<1>10. CASE SaveAlpha
  BY <1>10, SavingAlpha
<1>11. CASE FactorLayer
  BY <1>11, Factoring
<1>12. CASE CaptureStreams
  BY <1>12, Capturing
<1>13. CASE ResumeBlock \/ TrainBlock
  BY <1>13, Refining
<1>14. CASE RefineEnds \/ SaveStage3 \/ SaveRankMap
  BY <1>14, SavingRefined
<1>15. CASE LoadInputs
  BY <1>15, Loading
<1>16. CASE ResumeLayer \/ CompensateLayer
  BY <1>16, Widening
<1>17. CASE SaveStage4 \/ SaveRanks4 \/ RemoveSpills \/ DeleteOriginals \/ DeleteCov
  BY <1>17, SavingWidened
<1>18. CASE Crash
  BY <1>18, Crashing
<1>19. CASE StartAny
  BY <1>19, Starting
<1>20. CASE UNCHANGED vars
  BY <1>20, Unchanging
<1> QED
  BY <1>1, <1>2, <1>3, <1>4, <1>5, <1>6, <1>7, <1>8, <1>9, <1>10, <1>11, <1>12, <1>13, <1>14,
     <1>15, <1>16, <1>17, <1>18, <1>19, <1>20 DEF Next, Main, Finished

----------------------------------------------------------------------------
(* The theorems                                                            *)

\* The inductive invariant: whatever phase a process is in, and whatever it
\* found on disk, what it holds is the result the configuration determines.
THEOREM Invariant == Spec => []IInv
<1>1. IInv /\ [Next]_vars => IInv'
  BY Step
<1> QED
  BY Initially, <1>1, PTL DEF Spec

\* allocate and redistribute of d_rank_allocate.py: the ranks of the groups are
\* the budget, or as near to it as the caps and one rank for each group allow,
\* no group is further below its exact share than another is above by more than
\* one rank, and the experts of a group share its ranks within floor and ceiling
\* in the order of their scores, for all shapes, budgets, weights and scores.
THEOREM RanksAreFair == Spec => []RanksFair
<1>1. IInv => RanksWithinBudget
  <2> SUFFICES ASSUME IInv, pc = "originals" PROVE RanksWithinBudget
    BY DEF RanksWithinBudget
  <2> DEFINE T == Budget(cfg.percent)
             w == cfg.weight
  <2>1. ranks = Allocate(w, T)
    BY DEF IInv, Decided, Choosing, FinalRanks
  <2>2. Evenly(w, T, Over(w), Allocate(w, T))
    BY DivisionFacts DEF IInv, Settled
  <2>3. Evenly(w, T, Over(w), ranks)
    BY <2>1, <2>2
  <2> QED
    BY <2>3 DEF RanksWithinBudget, Evenly, Caps
<1>2. IInv => SharesFair
  <2> SUFFICES ASSUME IInv, pc = "save_alpha", cfg.search # "none", NEW g \in Groups
               PROVE  Fairly(g[2], ranks[g], cfg.score[alpha[g[2]]][g], share[g])
    BY DEF SharesFair, Fairly
  <2>1. ranks = FinalRanks
    BY DEF IInv, Decided, Chosen
  <2>2. alpha = Expected /\ share = FinalShare
    BY DEF IInv, Decided, Chosen
  <2>3. share[g] = Redistribute(g[2], ranks[g], cfg.score[alpha[g[2]]][g])
    BY <2>1, <2>2 DEF FinalShare
  <2> DEFINE s == cfg.score[alpha[g[2]]][g]
  <2>4. g[2] \in Matrices
    BY DEF Groups
  <2>5. ranks[g] \in 1 .. Cap(g[2])
    <3>1. Evenly(cfg.weight, Budget(cfg.percent), Over(cfg.weight), ranks)
      BY <2>1, DivisionFacts DEF IInv, Settled, FinalRanks
    <3> QED
      BY <3>1 DEF Evenly
  <2>6. s \in [Experts -> Nat \ {0}]
    <3>1. Expected \in [Matrices -> 0 .. NumAlphas]
      BY ExpectedInGrid DEF IInv, Settled
    <3>2. cfg.score \in [0 .. NumAlphas -> [Groups -> [Experts -> Nat \ {0}]]]
      BY ConfigFacts DEF IInv, Settled
    <3> QED
      BY <2>2, <2>4, <3>1, <3>2
  <2> HIDE DEF s
  <2>7. Fairly(g[2], ranks[g], s, Redistribute(g[2], ranks[g], s))
    BY <2>4, <2>5, <2>6, RedistributeFair
  <2> QED
    BY <2>3, <2>7 DEF s
<1> QED
  BY <1>1, <1>2, Invariant, PTL DEF RanksFair

\* _run_stage3's choice of alpha: the layers are factored, and the artifact of
\* Stage 3 was factored, from the originals at the best alpha of the whole
\* grid, through failed searches, replicas, crashes and saved alphas.
THEOREM BestOfTheGrid == Spec => []BestAlpha
<1>1. IInv => BestAlpha
  <2> SUFFICES ASSUME IInv PROVE BestAlpha
    OBVIOUS
  <2>1. pc \in {"save_alpha", "factor"} => alpha = Expected
    BY DEF IInv, Decided, Chosen
  <2>2. pc = "save_alpha" => experts = Originals
    BY DEF IInv, Layered
  <2>3. ASSUME NEW saved \in disk.stage3, NEW l \in Layers
        PROVE  saved[l].kind = "factored" /\ saved[l].alpha = Expected
    <3>1. saved = [k \in Layers |-> RefinedAs(k)]
      BY <2>3 DEF IInv, OnDisk
    <3>2. saved[l] = RefinedAs(l)
      BY <2>3, <3>1
    <3>3. RefinedAs(l).kind = "factored" /\ RefinedAs(l).alpha = Expected
      BY LayerFacts
    <3> QED
      BY <3>2, <3>3
  <2> QED
    BY <2>1, <2>2, <2>3 DEF BestAlpha
<1> QED
  BY <1>1, Invariant, PTL

\* The refinement of Stage 3 and the compensation of Stage 4: a block is
\* refined after the blocks before it, also when those came from checkpoints,
\* and a layer is widened once and counted once, also when it came from a spill.
THEOREM OnceEachLayer == Spec => []LayersOnce
<1>1. IInv => RefinedInOrder
  <2> SUFFICES ASSUME IInv, NEW saved \in disk.stage3, NEW l \in Layers
               PROVE  IF cfg.refine
                      THEN saved[l].refined /\ saved[l].on = [i \in 1 .. l - 1 |-> TRUE]
                      ELSE ~ saved[l].refined
    BY DEF RefinedInOrder
  <2>1. saved = [k \in Layers |-> RefinedAs(k)] /\ cfg \in Configs
    BY DEF IInv, Settled, OnDisk
  <2>2. saved[l] = RefinedAs(l)
    BY <2>1
  <2>3. cfg.refine = TRUE => RefinedAs(l).refined = TRUE /\ RefinedAs(l).on = Trues(l - 1)
    BY LayerFacts
  <2>4. cfg.refine = FALSE => RefinedAs(l).refined = FALSE
    BY LayerFacts
  <2>5. cfg.refine = TRUE \/ cfg.refine = FALSE
    BY <2>1, ConfigFacts
  <2> QED
    BY <2>2, <2>3, <2>4, <2>5 DEF Trues
<1>2. IInv => WidenedOnce
  <2> SUFFICES ASSUME IInv, NEW saved \in disk.stage4
               PROVE  /\ \A l \in Layers :
                           /\ saved[l].whitened
                           /\ \A m \in Matrices :
                                 saved[l].added[m] = Extra(m, saved[l].width[m], cfg.extra, cfg.limit)
                      /\ \A report \in disk.ranks4 :
                           /\ report.mapped = Layers
                           /\ report.params = Over([l \in Layers |-> Counted(saved[l].added)])
    BY DEF WidenedOnce
  <2>1. saved = [k \in Layers |-> WidenedAs(k)]
    BY DEF IInv, OnDisk
  <2>2. ASSUME NEW l \in Layers
        PROVE  /\ saved[l].whitened = TRUE /\ saved[l].added = ExtraOf(l)
               /\ saved[l].width = [m \in Matrices |-> FinalSlot(l, m)]
    <3>1. saved[l] = WidenedAs(l)
      BY <2>1
    <3>2. /\ WidenedAs(l).whitened = TRUE /\ WidenedAs(l).added = ExtraOf(l)
          /\ WidenedAs(l).width = [m \in Matrices |-> FinalSlot(l, m)]
      BY LayerFacts, Zenon
    <3> QED
      BY <3>1, <3>2, Zenon
  <2>3. ASSUME NEW l \in Layers, NEW m \in Matrices
        PROVE  saved[l].added[m] = Extra(m, saved[l].width[m], cfg.extra, cfg.limit)
    <3>1. saved[l].width[m] = FinalSlot(l, m)
      BY <2>2
    <3>2. ExtraOf(l)[m] = Extra(m, FinalSlot(l, m), cfg.extra, cfg.limit)
      BY DEF ExtraOf
    <3> QED
      BY <2>2, <3>1, <3>2
  <2>4. ASSUME NEW report \in disk.ranks4
        PROVE  /\ report.mapped = Layers
               /\ report.params = Over([l \in Layers |-> Counted(saved[l].added)])
    <3>1. report = [mapped |-> Layers, params |-> CountedTo(NumLayers)]
      BY <2>4 DEF IInv, OnDisk
    <3>2. [l \in Layers |-> Counted(saved[l].added)] = [l \in Layers |-> Counted(ExtraOf(l))]
      BY <2>2
    <3>3. CountedTo(NumLayers) = Over([l \in Layers |-> Counted(ExtraOf(l))])
      BY DEF CountedTo, Layers
    <3> QED
      BY <3>1, <3>2, <3>3
  <2> QED
    BY <2>2, <2>3, <2>4
<1> QED
  BY <1>1, <1>2, Invariant, PTL DEF LayersOnce

----------------------------------------------------------------------------
(* Second part: the covariances, Stage3Cov, for any layers, sequences,     *)
(* windows, replicas and runs                                              *)

\* Division leaves a remainder smaller than the divisor.
LEMMA Quotient ==
    ASSUME NEW a \in Nat, NEW b \in Nat \ {0}
    PROVE  a \div b \in Nat /\ (a \div b) * b <= a /\ a < (a \div b) * b + b
  OBVIOUS

\* Products of naturals grow with either factor.
LEMMA Times ==
    ASSUME NEW a \in Nat, NEW b \in Nat, NEW c \in Nat, a <= b
    PROVE  a * c \in Nat /\ b * c \in Nat /\ a * c <= b * c
  OBVIOUS

\* The windows cover the layers.
LEMMA LastWindow ==
    NumWindows \in Nat /\ \A l \in CovLayers : l \div Window \in Nat /\ l \div Window < NumWindows
<1>n. NumCovLayers \in Nat \ {0} /\ Window \in Nat \ {0}
  BY CovAssumption
<1>m. PICK m : m = NumWindows
  OBVIOUS
<1>1. m \in Nat /\ NumCovLayers + Window - 1 < m * Window + Window
  <2>1. NumCovLayers + Window - 1 \in Nat
    BY <1>n
  <2> QED
    BY <1>n, <1>m, <2>1, Quotient DEF NumWindows
<1>2. SUFFICES ASSUME NEW l \in CovLayers PROVE l \div Window \in Nat /\ l \div Window < m
  BY <1>1, <1>m
<1>q. PICK q : q = l \div Window
  OBVIOUS
<1>3. l \in Nat /\ l < NumCovLayers
  BY <1>n DEF CovLayers
<1>4. q \in Nat /\ q * Window <= l
  BY <1>n, <1>3, <1>q, Quotient
<1>5. ASSUME m <= q PROVE FALSE
  <2>1. m * Window <= q * Window /\ m * Window \in Nat /\ q * Window \in Nat
    BY <1>n, <1>1, <1>4, <1>5, Times
  <2>2. PICK x, y : x = m * Window /\ y = q * Window
    OBVIOUS
  <2>3. x \in Nat /\ y \in Nat /\ x <= y /\ y <= l /\ NumCovLayers + Window - 1 < x + Window
    BY <1>1, <1>4, <2>1, <2>2
  <2> QED
    BY <1>n, <1>3, <2>3
<1> QED
  BY <1>1, <1>4, <1>5, <1>q

\* Whatever the number of replicas, each sequence is in one shard.
LEMMA OneShard ==
    ASSUME NEW n \in 1 .. NumSeqs, NEW s \in Seqs
    PROVE  \E r \in 0 .. n - 1 : s \in Shard(n, r) /\ \A q \in 0 .. n - 1 : s \in Shard(n, q) => q = r
<1>n. NumSeqs \in Nat \ {0} /\ n \in Nat \ {0} /\ n <= NumSeqs /\ s \in Nat /\ s < NumSeqs
  BY CovAssumption DEF Seqs
<1>b. PICK b : b = NumSeqs \div n
  OBVIOUS
<1>1. b \in Nat /\ NumSeqs < b * n + n
  BY <1>n, <1>b, Quotient
<1>2. b # 0
  BY <1>n, <1>1
<1>3. ASSUME NEW r \in 0 .. n - 1
      PROVE  s \in Shard(n, r) <=> r * b <= s /\ (r # n - 1 => s < (r + 1) * b)
  <2>1. r * b \in Nat /\ (r + 1) * b \in Nat
    BY <1>1
  <2> QED
    BY <1>n, <1>1, <1>b, <2>1 DEF Shard
<1>4. ASSUME NEW r \in 0 .. n - 1, NEW q \in 0 .. n - 1, s \in Shard(n, r), s \in Shard(n, q), r < q
      PROVE  FALSE
  <2>1. r # n - 1 /\ r + 1 <= q /\ r + 1 \in Nat /\ q \in Nat
    BY <1>n, <1>4
  <2>2. s < (r + 1) * b /\ q * b <= s
    BY <1>3, <1>4, <2>1
  <2>3. (r + 1) * b <= q * b /\ (r + 1) * b \in Nat /\ q * b \in Nat
    BY <1>1, <2>1, Times
  <2>4. PICK x, y : x = (r + 1) * b /\ y = q * b
    OBVIOUS
  <2>5. x \in Nat /\ y \in Nat /\ x <= y /\ s < x /\ y <= s
    BY <2>2, <2>3, <2>4
  <2> QED
    BY <1>n, <2>5
<1>5. SUFFICES \E r \in 0 .. n - 1 : s \in Shard(n, r)
  <2>1. PICK r \in 0 .. n - 1 : s \in Shard(n, r)
    BY <1>5
  <2>2. ASSUME NEW q \in 0 .. n - 1, s \in Shard(n, q) PROVE q = r
    <3>1. ~(r < q) /\ ~(q < r)
      BY <1>4, <2>1, <2>2
    <3> QED
      BY <1>n, <3>1
  <2> QED
    BY <2>1, <2>2
<1>6. (n - 1) * b \in Nat
  BY <1>n, <1>1
<1>7. CASE (n - 1) * b <= s
  <2>1. n - 1 \in 0 .. n - 1
    BY <1>n
  <2> QED
    BY <1>3, <1>7, <2>1
<1>8. CASE ~((n - 1) * b <= s)
  <2>q. PICK q : q = s \div b
    OBVIOUS
  <2>1. q \in Nat /\ q * b <= s /\ s < q * b + b
    BY <1>n, <1>1, <1>2, <2>q, Quotient
  <2>2. q < n - 1
    <3>1. ASSUME n - 1 <= q PROVE FALSE
      <4>1. (n - 1) * b <= q * b /\ q * b \in Nat
        BY <1>n, <1>1, <2>1, <3>1, Times
      <4>2. PICK x, y : x = (n - 1) * b /\ y = q * b
        OBVIOUS
      <4>3. x \in Nat /\ y \in Nat /\ x <= y /\ y <= s /\ ~(x <= s)
        BY <1>6, <1>8, <2>1, <4>1, <4>2
      <4> QED
        BY <1>n, <4>3
    <3> QED
      BY <1>n, <2>1, <3>1
  <2>3. (q + 1) * b = q * b + b
    BY <1>1, <2>1
  <2>4. q \in 0 .. n - 1 /\ q # n - 1 /\ s < (q + 1) * b
    BY <1>n, <2>1, <2>2, <2>3
  <2> QED
    BY <1>3, <2>1, <2>4
<1> QED
  BY <1>7, <1>8

----------------------------------------------------------------------------
(* The inductive invariant                                                 *)

Ones == [s \in Seqs |-> 1]
UpTo(n) == [s \in Seqs |-> IF s < n THEN 1 ELSE 0]
Spills == [config : Nat, sum : [Seqs -> Nat]]

CovType ==
    /\ where \in {"down", "phaseA", "windows", "replicas", "reduceB", "reduceC",
                  "factor", "clean", "done"}
    /\ setting \in Nat \ {0} /\ cross \in BOOLEAN /\ copies \in CovReplicaChoices \cup {1}
    /\ window \in Nat /\ fed \in 0 .. NumSeqs /\ lost \in BOOLEAN
    /\ acc \in [CovLayers -> [Seqs -> Nat]] /\ queue \in SUBSET (Kinds \X CovLayers)
    /\ spill \in [Kinds -> [CovLayers -> Spills]]
    /\ rspill \in [Kinds -> [CovReplicas -> [CovLayers -> Spills]]]
    /\ rat \in [CovReplicas -> Nat] /\ rpart \in [CovReplicas -> Kinds]

\* What a replica may have spilled: the shard it has of some number of them.
OfShard(r, file) ==
    \E n \in CovReplicaChoices : n > 1 /\ r < n /\ file = Spill(setting, ShardSum(n, r))

\* Every file is right or absent, whatever run left it.
CovFiles ==
    /\ \A k \in Kinds, l \in CovLayers : spill[k][l] = NoSpill \/ Exact(spill[k][l])
    /\ \A k \in Kinds, r \in CovReplicas, l \in CovLayers :
          rspill[k][r][l] = NoSpill \/ OfShard(r, rspill[k][r][l])

CovFresh ==
    where = "phaseA" =>
        /\ window = 0 /\ fed = 0 /\ acc = [l \in CovLayers |-> Zero]
        /\ rat = [r \in CovReplicas |-> 0] /\ rpart = [r \in CovReplicas |-> "B"]

\* In process: the sums of the layers of this window, of the queue, of those to
\* come, and what became of those before.
CovWindows ==
    /\ where # "windows" => queue = {}
    /\ where = "windows" =>
          /\ window <= NumWindows /\ (ToCollect = {} => fed = 0)
          /\ \A l \in CovLayers :
                /\ l \div Window > window => acc[l] = Zero
                /\ InWindow(l) => acc[l] = IF Has(spill, l) THEN Zero ELSE UpTo(fed)
          /\ \A j \in queue : j[2] \div Window < window /\ acc[j[2]] = Ones
          /\ \A l \in CovLayers, k \in Needed : l \div Window < window =>
                lost \/ spill[k][l] # NoSpill \/ <<k, l>> \in queue

\* Data-parallel: what the replicas, and the reduction, are through with.
CovShards ==
    /\ where \in {"replicas", "reduceB", "reduceC"} => copies > 1
    /\ where = "replicas" => \A r \in Running :
          /\ rat[r] <= NumCovLayers
          /\ \A l \in CovLayers, k \in Needed : l < rat[r] => rspill[k][r][l] # NoSpill
          /\ rpart[r] = "C" => cross /\ rat[r] \in CovLayers /\ rspill["B"][r][rat[r]] # NoSpill
    /\ where \in {"reduceB", "reduceC"} =>
          /\ window <= NumCovLayers
          /\ \A r \in Running, l \in CovLayers, k \in Needed : rspill[k][r][l] # NoSpill
    /\ where = "reduceB" => \A l \in CovLayers : l < window => spill["B"][l] # NoSpill
    /\ where = "reduceC" => cross /\ \A l \in CovLayers :
          spill["B"][l] # NoSpill /\ (l < window => spill["C"][l] # NoSpill)

\* The files the factorization needs are there, and none is left at the end.
CovEnds ==
    /\ where = "factor" => \A l \in CovLayers, k \in Needed : spill[k][l] # NoSpill
    /\ where = "done" => \A k \in Kinds : Removed(k)

CovIInv == CovType /\ CovFiles /\ CovFresh /\ CovWindows /\ CovShards /\ CovEnds

\* Nothing is written and the configuration stays.
LEMMA SameFiles ==
    ASSUME CovFiles, UNCHANGED <<spill, rspill, setting>>
    PROVE  CovFiles'
  BY DEF CovFiles, Exact, OfShard

\* A process starts, with the directories of the last one or without.
LEMMA StartKeeps ==
    ASSUME CovIInv, CovStartAny PROVE CovIInv'
<1>1. PICK resume \in BOOLEAN, x \in BOOLEAN, r \in CovReplicaChoices : CovStart(resume, r, x)
  BY DEF CovStartAny
<1>z. Zero \in [Seqs -> Nat] /\ NoSpill \in Spills
  BY DEF Zero, NoSpill, Spill, Spills
<1>2. CovType'
  <2>1. /\ spill' \in [Kinds -> [CovLayers -> Spills]]
        /\ rspill' \in [Kinds -> [CovReplicas -> [CovLayers -> Spills]]]
    BY <1>1, <1>z DEF CovIInv, CovType, CovStart, NoSpills
  <2>2. /\ rat' \in [CovReplicas -> Nat] /\ rpart' \in [CovReplicas -> Kinds]
        /\ acc' \in [CovLayers -> [Seqs -> Nat]]
    BY <1>1, <1>z DEF CovStart, Kinds
  <2>3. fed' \in 0 .. NumSeqs
    BY <1>1, CovAssumption DEF CovStart
  <2> QED
    BY <1>1, <2>1, <2>2, <2>3 DEF CovIInv, CovType, CovStart
<1>3. CovFiles'
  <2>1. /\ \A k \in Kinds, l \in CovLayers : spill'[k][l] \in {NoSpill, spill[k][l]}
        /\ \A k \in Kinds, r2 \in CovReplicas, l \in CovLayers : rspill'[k][r2][l] \in {NoSpill, rspill[k][r2][l]}
    BY <1>1 DEF CovStart, NoSpills
  <2>2. setting' = setting
    BY <1>1 DEF CovStart
  <2> QED
    BY <2>1, <2>2 DEF CovIInv, CovFiles, Exact, OfShard
<1>4. where' = "phaseA" /\ queue' = {}
  BY <1>1 DEF CovStart
<1>5. CovFresh'
  BY <1>1 DEF CovStart, CovFresh
<1> QED
  BY <1>2, <1>3, <1>4, <1>5 DEF CovIInv, CovWindows, CovShards, CovEnds

\* A process dies, raises or exits: its threads and queues are gone.
LEMMA DownKeeps ==
    ASSUME CovIInv, CovCrash \/ FailureRaised \/ CovReplicaFails PROVE CovIInv'
<1>1. /\ where' = "down" /\ queue' = {} /\ UNCHANGED <<covDisk, covSettings, window, fed, acc, children>>
      /\ lost' \in BOOLEAN
  BY DEF CovCrash, FailureRaised, CovReplicaFails, CovIInv, CovType, CovWindows
<1>2. CovType'
  BY <1>1 DEF CovIInv, CovType, covDisk, covSettings, children
<1>3. CovFiles'
  BY <1>1, SameFiles DEF CovIInv, covDisk, covSettings
<1> QED
  BY <1>1, <1>2, <1>3 DEF CovIInv, CovFresh, CovWindows, CovShards, CovEnds

\* Phase A is skipped, or entered.
LEMMA EnterKeeps ==
    ASSUME CovIInv, SkipPhaseA \/ EnterPhaseA PROVE CovIInv'
<1>1. /\ where = "phaseA" /\ where' \in {"factor", "replicas", "windows"}
      /\ UNCHANGED <<spill, rspill, covSettings, window, fed, acc, queue, lost, rat, rpart>>
  BY DEF SkipPhaseA, EnterPhaseA, covDisk, children
<1>2. CovType'
  BY <1>1 DEF CovIInv, CovType, covSettings
<1>3. CovFiles'
  BY <1>1, SameFiles DEF CovIInv, covSettings
<1>f. CovFresh' /\ where' # "done" /\ (where' = "windows" \/ queue' = {})
  BY <1>1 DEF CovFresh, CovIInv, CovWindows
<1>4. ASSUME where' = "factor" PROVE CovIInv'
  <2>1. SkipPhaseA
    BY <1>4 DEF EnterPhaseA
  <2>2. \A l \in CovLayers, k \in Needed' : spill'[k][l] # NoSpill
    BY <1>1, <2>1 DEF SkipPhaseA, Has, Needed, covSettings
  <2> QED
    BY <1>2, <1>3, <1>4, <1>f, <2>2 DEF CovIInv, CovWindows, CovShards, CovEnds
<1>5. ASSUME where' = "replicas" PROVE CovIInv'
  <2>1. copies' > 1
    <3>1. EnterPhaseA /\ copies > 1
      BY <1>5 DEF SkipPhaseA, EnterPhaseA
    <3> QED
      BY <1>1, <3>1 DEF covSettings
  <2>2. copies \in Nat /\ \A r \in Running : r \in CovReplicas
    <3>1. copies \in CovReplicaChoices /\ copies \in Nat
      BY <1>1, <2>1, CovAssumption DEF CovIInv, CovType, covSettings
    <3> QED
      BY <3>1 DEF Running, CovReplicas
  <2>3. \A r \in Running : rat[r] = 0 /\ rpart[r] = "B"
    BY <1>1, <2>2 DEF CovIInv, CovFresh
  <2>4. \A l \in CovLayers : ~(l < 0)
    BY CovAssumption DEF CovLayers
  <2>5. CovShards'
    BY <1>1, <1>5, <2>1, <2>3, <2>4, CovAssumption DEF CovShards, Running, covSettings
  <2> QED
    BY <1>2, <1>3, <1>5, <1>f, <2>5 DEF CovIInv, CovWindows, CovEnds
<1>6. ASSUME where' = "windows" PROVE CovIInv'
  <2>1. window' = 0 /\ fed' = 0 /\ queue' = {} /\ \A l \in CovLayers : acc'[l] = Zero
    BY <1>1 DEF CovIInv, CovFresh, CovWindows
  <2>2. 0 <= NumWindows /\ \A l \in CovLayers : ~(l \div Window < 0)
    BY LastWindow
  <2>3. UpTo(0) = Zero
    BY CovAssumption DEF UpTo, Zero, Seqs
  <2>4. CovWindows'
    BY <1>6, <2>1, <2>2, <2>3 DEF CovWindows, InWindow
  <2> QED
    BY <1>2, <1>3, <1>6, <1>f, <2>4 DEF CovIInv, CovShards, CovEnds
<1> QED
  BY <1>1, <1>4, <1>5, <1>6

\* What a step of the window loop leaves alone: it writes nothing.
LEMMA LoopKeeps ==
    ASSUME CovIInv, where = "windows", where' = "windows",
           UNCHANGED <<covDisk, covSettings, children>>,
           window' \in Nat, fed' \in 0 .. NumSeqs, lost' \in BOOLEAN,
           acc' \in [CovLayers -> [Seqs -> Nat]], queue' \in SUBSET (Kinds \X CovLayers),
           CovWindows'
    PROVE  CovIInv'
<1>1. CovType'
  BY DEF CovIInv, CovType, covDisk, covSettings, children
<1>2. CovFiles'
  BY SameFiles DEF CovIInv, covDisk, covSettings
<1> QED
  BY <1>1, <1>2 DEF CovIInv, CovFresh, CovShards, CovEnds

LEMMA SkipWindowKeeps ==
    ASSUME CovIInv, SkipWindow PROVE CovIInv'
<1>1. /\ where = "windows" /\ where' = "windows" /\ window < NumWindows /\ ToCollect = {}
      /\ window' = window + 1 /\ fed' = fed /\ fed = 0 /\ window \in Nat /\ window' \in Nat
      /\ UNCHANGED <<covDisk, spill, covSettings, Needed, acc, queue, lost, children>>
  BY DEF SkipWindow, covDisk, covSettings, Needed, CovIInv, CovWindows, CovType
<1>2. NumWindows \in Nat /\ \A l \in CovLayers : l \div Window \in Nat
  BY LastWindow
<1>3. \A l \in CovLayers : InWindow(l) => Has(spill, l)
  BY <1>1 DEF ToCollect
<1>4. UpTo(0) = Zero
  BY CovAssumption DEF UpTo, Zero, Seqs
<1>5. ASSUME NEW l \in CovLayers
      PROVE  /\ l \div Window > window' => acc'[l] = Zero
             /\ InWindow(l)' => acc'[l] = Zero
             /\ \A k \in Needed : l \div Window < window' =>
                   lost \/ spill[k][l] # NoSpill \/ <<k, l>> \in queue
  <2>1. l \div Window > window => acc[l] = Zero
    BY <1>1 DEF CovIInv, CovWindows
  <2>2. PICK d : d = l \div Window
    OBVIOUS
  <2>3. d \in Nat
    BY <1>2, <2>2
  <2>4. d >= window' => acc'[l] = Zero
    BY <1>1, <2>1, <2>2, <2>3
  <2>5. ASSUME NEW k \in Needed, d < window'
        PROVE  lost \/ spill[k][l] # NoSpill \/ <<k, l>> \in queue
    <3>1. d < window \/ d = window
      BY <1>1, <2>3, <2>5
    <3>2. CASE d < window
      BY <1>1, <2>2, <3>2 DEF CovIInv, CovWindows
    <3>3. CASE d = window
      BY <1>3, <2>2, <3>3 DEF InWindow, Has
    <3> QED
      BY <3>1, <3>2, <3>3
  <2>6. InWindow(l)' => d = window' /\ d >= window'
    BY <1>1, <2>2, <2>3 DEF InWindow
  <2> QED
    BY <2>2, <2>4, <2>5, <2>6, <2>3, <1>1
<1>6. \A j \in queue : j[2] \div Window < window' /\ acc'[j[2]] = Ones
  <2>1. SUFFICES ASSUME NEW j \in queue PROVE j[2] \div Window < window'
    BY <1>1 DEF CovIInv, CovWindows
  <2>2. j[2] \in CovLayers /\ j[2] \div Window < window
    BY <1>1 DEF CovIInv, CovType, CovWindows
  <2>3. PICK d : d = j[2] \div Window
    OBVIOUS
  <2>4. d \in Nat /\ d < window
    BY <1>2, <2>2, <2>3
  <2> QED
    BY <1>1, <2>3, <2>4
<1>7. CovWindows'
  <2>1. window' <= NumWindows
    BY <1>1, <1>2
  <2>2. \A l \in CovLayers : InWindow(l)' => acc'[l] = IF Has(spill, l)' THEN Zero ELSE UpTo(fed')
    BY <1>1, <1>4, <1>5
  <2> QED
    BY <1>1, <1>5, <1>6, <2>1, <2>2 DEF CovWindows
<1> QED
  BY <1>1, <1>7, LoopKeeps DEF CovIInv, CovType

LEMMA FeedKeeps ==
    ASSUME CovIInv, Feed PROVE CovIInv'
<1>1. /\ where = "windows" /\ where' = "windows" /\ window < NumWindows /\ ToCollect # {}
      /\ fed \in Nat /\ fed < NumSeqs /\ fed' = fed + 1 /\ fed' \in 0 .. NumSeqs
      /\ UNCHANGED <<covDisk, spill, covSettings, Needed, window, queue, lost, children>>
  BY CovAssumption DEF Feed, covDisk, covSettings, Needed, CovIInv, CovWindows, CovType
<1>2. /\ acc' \in [CovLayers -> [Seqs -> Nat]]
      /\ \A l \in CovLayers : l \in ToCollect => acc'[l] = [acc[l] EXCEPT ![fed] = @ + 1]
      /\ \A l \in CovLayers : l \notin ToCollect => acc'[l] = acc[l]
  <2>1. acc' = [l \in CovLayers |-> IF l \in ToCollect THEN [acc[l] EXCEPT ![fed] = @ + 1] ELSE acc[l]]
    BY DEF Feed
  <2>2. fed \in Seqs
    BY <1>1, CovAssumption DEF Seqs
  <2>3. \A l \in CovLayers : [acc[l] EXCEPT ![fed] = @ + 1] \in [Seqs -> Nat] /\ acc[l] \in [Seqs -> Nat]
    BY <2>2 DEF CovIInv, CovType
  <2> QED
    BY <2>1, <2>3
<1>3. [UpTo(fed) EXCEPT ![fed] = @ + 1] = UpTo(fed + 1)
  <2>1. [UpTo(fed) EXCEPT ![fed] = @ + 1] =
           [s \in Seqs |-> IF s = fed THEN UpTo(fed)[fed] + 1 ELSE UpTo(fed)[s]]
    BY DEF UpTo
  <2>2. fed \in Seqs /\ Seqs \subseteq Nat
    BY <1>1, CovAssumption DEF Seqs
  <2>3. \A s \in Seqs : (IF s = fed THEN UpTo(fed)[fed] + 1 ELSE UpTo(fed)[s])
                          = IF s < fed + 1 THEN 1 ELSE 0
    BY <1>1, <2>2 DEF UpTo
  <2> QED
    BY <2>1, <2>3 DEF UpTo
<1>4. ASSUME NEW l \in CovLayers
      PROVE  /\ l \div Window > window => acc'[l] = Zero
             /\ InWindow(l)' => acc'[l] = IF Has(spill, l)' THEN Zero ELSE UpTo(fed')
  <2>1. l \div Window \in Nat /\ window \in Nat
    BY LastWindow DEF CovIInv, CovType
  <2>2. l \div Window > window => ~InWindow(l)
    BY <2>1 DEF InWindow
  <2>3. CASE l \in ToCollect
    <3>1. acc[l] = UpTo(fed) /\ InWindow(l) /\ ~Has(spill, l)
      BY <1>1, <2>3 DEF ToCollect, CovIInv, CovWindows
    <3> QED
      BY <1>1, <1>2, <1>3, <2>2, <2>3, <3>1 DEF Has, InWindow
  <2>4. CASE l \notin ToCollect
    <3>1. acc'[l] = acc[l]
      BY <1>2, <2>4
    <3>2. InWindow(l) => Has(spill, l)
      BY <2>4 DEF ToCollect
    <3> QED
      BY <1>1, <3>1, <3>2 DEF CovIInv, CovWindows, Has, InWindow
  <2> QED
    BY <2>3, <2>4
<1>5. \A j \in queue : j[2] \div Window < window /\ acc'[j[2]] = Ones
  <2>1. SUFFICES ASSUME NEW j \in queue PROVE acc'[j[2]] = Ones
    BY <1>1 DEF CovIInv, CovWindows
  <2>2. j[2] \in CovLayers /\ j[2] \div Window < window /\ acc[j[2]] = Ones
    BY <1>1 DEF CovIInv, CovType, CovWindows
  <2>3. j[2] \div Window \in Nat /\ window \in Nat
    BY <2>2, LastWindow DEF CovIInv, CovType
  <2>4. j[2] \notin ToCollect
    BY <2>2, <2>3 DEF ToCollect, InWindow
  <2> QED
    BY <1>2, <2>2, <2>4
<1>6. CovWindows'
  <2>1. ToCollect' = ToCollect
    BY <1>1 DEF ToCollect, InWindow, Has
  <2>2. /\ window' <= NumWindows
        /\ \A l \in CovLayers, k \in Needed : l \div Window < window =>
                lost \/ spill[k][l] # NoSpill \/ <<k, l>> \in queue
    BY <1>1 DEF CovIInv, CovWindows
  <2> QED
    BY <1>1, <1>4, <1>5, <2>1, <2>2 DEF CovWindows
<1> QED
  BY <1>1, <1>2, <1>6, LoopKeeps DEF CovIInv, CovType

\* A window run again starts from empty sums.
LEMMA RetryKeeps ==
    ASSUME CovIInv, Retry PROVE CovIInv'
<1>1. /\ where = "windows" /\ where' = "windows" /\ fed' = 0 /\ fed' \in 0 .. NumSeqs
      /\ UNCHANGED <<covDisk, spill, covSettings, Needed, window, queue, lost, children>>
  BY CovAssumption DEF Retry, covDisk, covSettings, Needed
<1>2. /\ acc' \in [CovLayers -> [Seqs -> Nat]]
      /\ \A l \in CovLayers : acc'[l] = IF l \in ToCollect THEN Zero ELSE acc[l]
  <2>1. acc' = [l \in CovLayers |-> IF l \in ToCollect THEN Zero ELSE acc[l]]
    BY DEF Retry
  <2>2. Zero \in [Seqs -> Nat]
    BY DEF Zero
  <2> QED
    BY <2>1, <2>2 DEF CovIInv, CovType
<1>3. UpTo(0) = Zero
  BY CovAssumption DEF UpTo, Zero, Seqs
<1>4. ASSUME NEW l \in CovLayers
      PROVE  /\ l \div Window > window => acc'[l] = Zero
             /\ InWindow(l)' => acc'[l] = IF Has(spill, l)' THEN Zero ELSE UpTo(fed')
  BY <1>1, <1>2, <1>3 DEF CovIInv, CovWindows, Has, InWindow, ToCollect
<1>5. \A j \in queue : j[2] \div Window < window /\ acc'[j[2]] = Ones
  <2>1. SUFFICES ASSUME NEW j \in queue PROVE acc'[j[2]] = Ones
    BY <1>1 DEF CovIInv, CovWindows
  <2>2. j[2] \in CovLayers /\ j[2] \div Window < window /\ acc[j[2]] = Ones
    BY <1>1 DEF CovIInv, CovType, CovWindows
  <2>3. j[2] \div Window \in Nat /\ window \in Nat
    BY <2>2, LastWindow DEF CovIInv, CovType
  <2>4. j[2] \notin ToCollect
    BY <2>2, <2>3 DEF ToCollect, InWindow
  <2> QED
    BY <1>2, <2>2, <2>4
<1>6. CovWindows'
  <2>2. /\ window' <= NumWindows
        /\ \A l \in CovLayers, k \in Needed : l \div Window < window =>
                lost \/ spill[k][l] # NoSpill \/ <<k, l>> \in queue
    BY <1>1 DEF CovIInv, CovWindows
  <2> QED
    BY <1>1, <1>4, <1>5, <2>2 DEF CovWindows
<1> QED
  BY <1>1, <1>2, <1>6, LoopKeeps DEF CovIInv, CovType

LEMMA FinalizeKeeps ==
    ASSUME CovIInv, FinalizeWindow PROVE CovIInv'
<1>1. /\ where = "windows" /\ where' = "windows" /\ window < NumWindows /\ ToCollect # {}
      /\ fed = NumSeqs /\ fed' = 0 /\ window' = window + 1 /\ window \in Nat /\ window' \in Nat
      /\ queue' = queue \cup (Needed \X ToCollect) /\ fed' \in 0 .. NumSeqs
      /\ UNCHANGED <<covDisk, spill, covSettings, Needed, acc, lost, children>>
  BY CovAssumption DEF FinalizeWindow, covDisk, covSettings, Needed, CovIInv, CovWindows, CovType
<1>2. NumWindows \in Nat /\ \A l \in CovLayers : l \div Window \in Nat
  BY LastWindow
<1>3. UpTo(NumSeqs) = Ones /\ UpTo(0) = Zero
  BY CovAssumption DEF UpTo, Ones, Zero, Seqs
<1>4. Needed \subseteq Kinds
  BY DEF Needed, Kinds
<1>5. queue' \in SUBSET (Kinds \X CovLayers)
  BY <1>1, <1>4 DEF CovIInv, CovType, ToCollect
<1>6. ASSUME NEW l \in CovLayers
      PROVE  /\ l \div Window > window' => acc'[l] = Zero
             /\ InWindow(l)' => acc'[l] = Zero
             /\ \A k \in Needed : l \div Window < window' =>
                   lost \/ spill[k][l] # NoSpill \/ <<k, l>> \in queue'
  <2>1. l \div Window > window => acc[l] = Zero
    BY <1>1 DEF CovIInv, CovWindows
  <2>2. PICK d : d = l \div Window
    OBVIOUS
  <2>3. d \in Nat
    BY <1>2, <2>2
  <2>4. d >= window' => acc'[l] = Zero
    BY <1>1, <2>1, <2>2, <2>3
  <2>5. ASSUME NEW k \in Needed, d < window'
        PROVE  lost \/ spill[k][l] # NoSpill \/ <<k, l>> \in queue'
    <3>1. d < window \/ d = window
      BY <1>1, <2>3, <2>5
    <3>2. CASE d < window
      BY <1>1, <2>2, <3>2 DEF CovIInv, CovWindows
    <3>3. CASE d = window
      BY <1>1, <2>2, <3>3 DEF InWindow, Has, ToCollect
    <3> QED
      BY <3>1, <3>2, <3>3
  <2>6. InWindow(l)' => d = window' /\ d >= window'
    BY <1>1, <2>2, <2>3 DEF InWindow
  <2> QED
    BY <2>2, <2>4, <2>5, <2>6, <2>3, <1>1
<1>7. ASSUME NEW j \in queue' PROVE j[2] \div Window < window' /\ acc'[j[2]] = Ones
  <2>1. PICK d : d = j[2] \div Window
    OBVIOUS
  <2>2. j[2] \in CovLayers /\ d \in Nat
    BY <1>2, <1>5, <2>1
  <2>3. CASE j \in queue
    <3>1. d < window /\ acc[j[2]] = Ones
      BY <1>1, <2>1, <2>3 DEF CovIInv, CovWindows
    <3> QED
      BY <1>1, <2>1, <2>2, <3>1
  <2>4. CASE j \in Needed \X ToCollect
    <3>1. d = window /\ acc[j[2]] = UpTo(NumSeqs)
      BY <1>1, <2>1, <2>4 DEF ToCollect, InWindow, CovIInv, CovWindows
    <3> QED
      BY <1>1, <1>3, <2>1, <3>1
  <2> QED
    BY <1>1, <2>3, <2>4
<1>8. CovWindows'
  <2>1. window' <= NumWindows
    BY <1>1, <1>2
  <2>2. \A l \in CovLayers : InWindow(l)' => acc'[l] = IF Has(spill, l)' THEN Zero ELSE UpTo(fed')
    BY <1>1, <1>3, <1>6
  <2> QED
    BY <1>1, <1>6, <1>7, <2>1, <2>2 DEF CovWindows
<1> QED
  BY <1>1, <1>5, <1>8, LoopKeeps DEF CovIInv, CovType

\* The end of the loop: the queue is done, and no job was lost.
LEMMA FlushedKeeps ==
    ASSUME CovIInv, Flushed PROVE CovIInv'
<1>1. /\ where = "windows" /\ window = NumWindows /\ queue = {} /\ ~lost /\ where' = "factor"
      /\ window' = 0 /\ UNCHANGED <<covDisk, spill, rspill, covSettings, fed, acc, queue, lost, children>>
  BY DEF Flushed, covDisk
<1>2. CovType'
  BY <1>1 DEF CovIInv, CovType, covSettings, children
<1>3. CovFiles'
  BY <1>1, SameFiles DEF CovIInv, covSettings
<1>4. \A l \in CovLayers, k \in Needed : spill[k][l] # NoSpill
  BY <1>1, LastWindow DEF CovIInv, CovWindows
<1>5. CovEnds'
  BY <1>1, <1>4 DEF CovEnds, Needed, covSettings
<1> QED
  BY <1>1, <1>2, <1>3, <1>5 DEF CovIInv, CovFresh, CovWindows, CovShards

\* A job that is done writes the whole sum.
LEMMA SpillKeeps ==
    ASSUME CovIInv, NEW kind \in Kinds, NEW l \in CovLayers, SpillJob(kind, l) PROVE CovIInv'
<1>1. /\ <<kind, l>> \in queue /\ queue' = queue \ {<<kind, l>>}
      /\ spill' = [spill EXCEPT ![kind][l] = Spill(setting, acc[l])]
      /\ UNCHANGED <<rspill, covSettings, where, window, fed, acc, lost, children, Needed>>
  BY DEF SpillJob, NextJob, Needed, covSettings
<1>2. /\ where = "windows" /\ where' = "windows" /\ acc[l] = Ones /\ l \div Window < window
  BY <1>1 DEF CovIInv, CovWindows
<1>3. /\ spill' \in [Kinds -> [CovLayers -> Spills]] /\ Exact(spill'[kind][l])
      /\ \A k \in Kinds, m \in CovLayers : <<k, m>> # <<kind, l>> => spill'[k][m] = spill[k][m]
  <2>v. PICK v : v = Spill(setting, acc[l])
    OBVIOUS
  <2>1. v \in Spills /\ Exact(v)
    BY <1>2, <2>v DEF CovIInv, CovType, Spill, Spills, Exact, Ones
  <2>2. spill \in [Kinds -> [CovLayers -> Spills]] /\ spill' = [spill EXCEPT ![kind][l] = v]
    BY <1>1, <2>v DEF CovIInv, CovType
  <2>3. /\ spill' \in [Kinds -> [CovLayers -> Spills]] /\ spill'[kind][l] = v
        /\ \A k \in Kinds, m \in CovLayers : <<k, m>> # <<kind, l>> => spill'[k][m] = spill[k][m]
    BY <2>1, <2>2
  <2> QED
    BY <2>1, <2>3
<1>4. CovType'
  BY <1>1, <1>3 DEF CovIInv, CovType, covSettings, children
<1>5. CovFiles'
  BY <1>1, <1>3 DEF CovIInv, CovFiles, Exact, OfShard, covSettings
<1>6. Needed \subseteq Kinds
  BY DEF Needed, Kinds
<1>7. \A m \in CovLayers : m \div Window \in Nat
  BY LastWindow
<1>8. \A m \in CovLayers : InWindow(m) => (Has(spill', m) <=> Has(spill, m))
  <2>1. window \in Nat
    BY DEF CovIInv, CovType
  <2>2. \A m \in CovLayers : InWindow(m) => m # l
    BY <1>2, <1>7, <2>1 DEF InWindow
  <2> QED
    BY <1>3, <1>6, <2>2 DEF Has
<1>9. spill'[kind][l] # NoSpill
  BY <1>3 DEF Exact, Spill, NoSpill, CovIInv, CovType
<1>10. CovWindows'
  <2>1. ToCollect' = ToCollect
    BY <1>1, <1>8 DEF ToCollect, InWindow, Has
  <2>2. \A m \in CovLayers : InWindow(m)' => acc'[m] = IF Has(spill, m)' THEN Zero ELSE UpTo(fed')
    BY <1>1, <1>2, <1>8 DEF CovIInv, CovWindows, InWindow, Has
  <2>3. \A m \in CovLayers, k \in Needed : m \div Window < window =>
                lost \/ spill'[k][m] # NoSpill \/ <<k, m>> \in queue'
    <3>1. SUFFICES ASSUME NEW m \in CovLayers, NEW k \in Needed, m \div Window < window, ~lost,
                          <<k, m>> # <<kind, l>>
                   PROVE  spill'[k][m] # NoSpill \/ <<k, m>> \in queue'
      BY <1>9
    <3>2. spill'[k][m] = spill[k][m] /\ (<<k, m>> \in queue' <=> <<k, m>> \in queue)
      BY <1>1, <1>3, <1>6, <3>1
    <3> QED
      BY <1>2, <3>1, <3>2 DEF CovIInv, CovWindows
  <2> QED
    BY <1>1, <1>2, <2>1, <2>2, <2>3 DEF CovIInv, CovWindows
<1> QED
  BY <1>1, <1>2, <1>4, <1>5, <1>10 DEF CovIInv, CovFresh, CovShards, CovEnds

\* A job that fails is remembered.
LEMMA LossKeeps ==
    ASSUME CovIInv, NEW kind \in Kinds, NEW l \in CovLayers, SpillFails(kind, l) PROVE CovIInv'
<1>1. /\ <<kind, l>> \in queue /\ queue' = queue \ {<<kind, l>>} /\ lost' = TRUE
      /\ UNCHANGED <<covDisk, spill, covSettings, where, window, fed, acc, children, Needed>>
  BY DEF SpillFails, NextJob, Needed, covSettings, covDisk
<1>2. where = "windows" /\ where' = "windows"
  BY <1>1 DEF CovIInv, CovWindows
<1>3. CovWindows'
  BY <1>1, <1>2 DEF CovIInv, CovWindows, InWindow, Has, ToCollect
<1> QED
  BY <1>1, <1>2, <1>3, LoopKeeps DEF CovIInv, CovType

----------------------------------------------------------------------------
(* On replicas                                                             *)

\* No two runs shard over different numbers of replicas.
OneCount == \A m, n \in CovReplicaChoices : m > 1 /\ n > 1 => m = n

LEMMA RunningReplicas ==
    ASSUME CovType, copies > 1
    PROVE  copies \in CovReplicaChoices /\ copies \in 1 .. NumSeqs /\ Running \subseteq CovReplicas
<1>1. copies \in CovReplicaChoices /\ copies \in 1 .. NumSeqs
  BY CovAssumption DEF CovType
<1> QED
  BY <1>1 DEF Running, CovReplicas

LEMMA ReplicaSkipsKeeps ==
    ASSUME CovIInv, NEW r \in CovReplicas, ReplicaSkips(r) PROVE CovIInv'
<1>1. /\ where = "replicas" /\ r \in Running /\ rat[r] < NumCovLayers /\ rat[r] \in Nat
      /\ rpart[r] = "B" /\ \A k \in Needed : rspill[k][r][rat[r]] # NoSpill
      /\ rat' = [rat EXCEPT ![r] = rat[r] + 1]
      /\ UNCHANGED <<covDisk, covSettings, progress, rpart>>
  BY DEF ReplicaSkips, Has, OfReplica, Needed, Kinds, CovIInv, CovType
<1>2. CovType'
  BY <1>1 DEF CovIInv, CovType, covDisk, covSettings, progress
<1>3. CovFiles'
  BY <1>1, SameFiles DEF CovIInv, covDisk, covSettings
<1>4. ASSUME NEW q \in Running
      PROVE  /\ rat'[q] <= NumCovLayers
             /\ \A l \in CovLayers, k \in Needed : l < rat'[q] => rspill[k][q][l] # NoSpill
             /\ rpart[q] = "C" => cross /\ rat'[q] \in CovLayers /\ rspill["B"][q][rat'[q]] # NoSpill
  <2>0. q \in CovReplicas
    BY <1>1, RunningReplicas DEF CovIInv, CovShards
  <2>1. CASE q # r
    <3>1. rat'[q] = rat[q]
      BY <1>1, <2>0, <2>1 DEF CovIInv, CovType
    <3> QED
      BY <1>1, <3>1 DEF CovIInv, CovShards
  <2>2. CASE q = r
    <3>1. rat'[q] = rat[r] + 1
      BY <1>1, <2>0, <2>2 DEF CovIInv, CovType
    <3>2. \A l \in CovLayers : l < rat[r] + 1 => l < rat[r] \/ l = rat[r]
      BY <1>1, CovAssumption DEF CovLayers
    <3>3. \A l \in CovLayers, k \in Needed : l < rat[r] => rspill[k][r][l] # NoSpill
      BY <1>1 DEF CovIInv, CovShards
    <3>4. rat[r] + 1 <= NumCovLayers
      BY <1>1, CovAssumption
    <3> QED
      BY <1>1, <2>2, <3>1, <3>2, <3>3, <3>4
  <2> QED
    BY <2>1, <2>2
<1>5. CovShards'
  <2>1. UNCHANGED <<where, copies, cross, Needed, Running, rspill, spill, window>>
    BY <1>1 DEF progress, covSettings, covDisk, Needed, Running
  <2> QED
    BY <1>1, <1>4, <2>1 DEF CovIInv, CovShards
<1> QED
  BY <1>1, <1>2, <1>3, <1>5 DEF CovIInv, CovFresh, CovWindows, CovEnds, covDisk, covSettings, progress

LEMMA ReplicaSpillsKeeps ==
    ASSUME CovIInv, NEW r \in CovReplicas, ReplicaSpills(r) PROVE CovIInv'
<1>1. /\ where = "replicas" /\ r \in Running /\ rat[r] < NumCovLayers /\ rat[r] \in Nat
      /\ copies > 1 /\ rpart[r] \in Kinds
      /\ UNCHANGED <<spill, covSettings, progress, Needed, Running, where, cross, setting, copies>>
  BY DEF ReplicaSpills, CovIInv, CovType, CovShards, covSettings, progress, Needed, Running
<1>2. copies \in CovReplicaChoices /\ copies \in 1 .. NumSeqs /\ Running \subseteq CovReplicas
  BY <1>1, RunningReplicas DEF CovIInv
<1>3. rat[r] \in CovLayers
  BY <1>1, CovAssumption DEF CovLayers
<1>4. /\ rspill' \in [Kinds -> [CovReplicas -> [CovLayers -> Spills]]]
      /\ rspill'[rpart[r]][r][rat[r]] = Spill(setting, ShardSum(copies, r))
      /\ \A k \in Kinds, q \in CovReplicas, l \in CovLayers :
            <<k, q, l>> # <<rpart[r], r, rat[r]>> => rspill'[k][q][l] = rspill[k][q][l]
  <2>k. PICK kd, a : kd = rpart[r] /\ a = rat[r]
    OBVIOUS
  <2>v. PICK v : v = Spill(setting, ShardSum(copies, r))
    OBVIOUS
  <2>1. v \in Spills /\ kd \in Kinds /\ a \in CovLayers
    BY <1>1, <1>3, <2>k, <2>v DEF CovIInv, CovType, Spill, Spills, ShardSum
  <2>2. rspill \in [Kinds -> [CovReplicas -> [CovLayers -> Spills]]] /\ rspill' = [rspill EXCEPT ![kd][r][a] = v]
    BY <2>k, <2>v DEF CovIInv, CovType, ReplicaSpills
  <2>3. /\ rspill' \in [Kinds -> [CovReplicas -> [CovLayers -> Spills]]]
        /\ rspill'[kd][r][a] = v
        /\ \A k \in Kinds, q \in CovReplicas, l \in CovLayers :
              <<k, q, l>> # <<kd, r, a>> => rspill'[k][q][l] = rspill[k][q][l]
    BY <2>1, <2>2
  <2> QED
    BY <2>3, <2>k, <2>v
<1>5. /\ rat' \in [CovReplicas -> Nat] /\ rpart' \in [CovReplicas -> Kinds]
      /\ \A q \in CovReplicas : q # r => rat'[q] = rat[q] /\ rpart'[q] = rpart[q]
      /\ \/ rpart[r] = "B" /\ cross /\ rpart'[r] = "C" /\ rat'[r] = rat[r]
         \/ ~(rpart[r] = "B" /\ cross) /\ rpart'[r] = "B" /\ rat'[r] = rat[r] + 1
  <2>1. rat \in [CovReplicas -> Nat] /\ rpart \in [CovReplicas -> Kinds] /\ "B" \in Kinds /\ "C" \in Kinds
    BY DEF CovIInv, CovType, Kinds
  <2>2. CASE rpart[r] = "B" /\ cross
    <3>1. rpart' = [rpart EXCEPT ![r] = "C"] /\ rat' = rat
      BY <2>2 DEF ReplicaSpills
    <3> QED
      BY <2>1, <2>2, <3>1
  <2>3. CASE ~(rpart[r] = "B" /\ cross)
    <3>1. rpart' = [rpart EXCEPT ![r] = "B"] /\ rat' = [rat EXCEPT ![r] = rat[r] + 1]
      BY <2>3 DEF ReplicaSpills
    <3> QED
      BY <1>1, <2>1, <2>3, <3>1
  <2> QED
    BY <2>2, <2>3
<1>6. CovType'
  BY <1>1, <1>4, <1>5 DEF CovIInv, CovType, covSettings, progress
<1>7. NoSpill # Spill(setting, ShardSum(copies, r))
  BY DEF NoSpill, Spill, CovIInv, CovType
<1>8. CovFiles'
  <2>1. ASSUME NEW k \in Kinds, NEW q \in CovReplicas, NEW l \in CovLayers
        PROVE  rspill'[k][q][l] = NoSpill \/ OfShard(q, rspill'[k][q][l])
    <3>1. CASE <<k, q, l>> = <<rpart[r], r, rat[r]>>
      <4>1. r < copies /\ copies > 1
        BY <1>1, <1>2 DEF Running
      <4> QED
        BY <1>2, <1>4, <3>1, <4>1 DEF OfShard
    <3>2. CASE <<k, q, l>> # <<rpart[r], r, rat[r]>>
      BY <1>4, <3>2 DEF CovIInv, CovFiles
    <3> QED
      BY <3>1, <3>2
  <2> QED
    BY <1>1, <2>1 DEF CovIInv, CovFiles, Exact, OfShard
<1>9. \A k \in Kinds, q \in CovReplicas, l \in CovLayers :
         rspill[k][q][l] # NoSpill => rspill'[k][q][l] # NoSpill
  BY <1>4, <1>7
<1>n. Needed \subseteq Kinds /\ "B" \in Kinds /\ (cross => "C" \in Needed) /\ "B" \in Needed
      /\ \A k \in Needed : k = "B" \/ (k = "C" /\ cross)
  BY DEF Needed, Kinds, CovIInv, CovType
<1>10. ASSUME NEW q \in Running
       PROVE  /\ rat'[q] <= NumCovLayers
              /\ \A l \in CovLayers, k \in Needed : l < rat'[q] => rspill'[k][q][l] # NoSpill
              /\ rpart'[q] = "C" => cross /\ rat'[q] \in CovLayers /\ rspill'["B"][q][rat'[q]] # NoSpill
  <2>0. q \in CovReplicas
    BY <1>2
  <2>1. /\ rat[q] <= NumCovLayers
        /\ \A l \in CovLayers, k \in Needed : l < rat[q] => rspill'[k][q][l] # NoSpill
        /\ rpart[q] = "C" => cross /\ rat[q] \in CovLayers /\ rspill'["B"][q][rat[q]] # NoSpill
    BY <1>1, <1>9, <1>n, <2>0 DEF CovIInv, CovShards
  <2>2. CASE q # r
    BY <1>5, <2>0, <2>1, <2>2
  <2>3. CASE q = r /\ rpart[r] = "B" /\ cross
    BY <1>3, <1>4, <1>5, <1>7, <2>1, <2>3
  <2>4. CASE q = r /\ ~(rpart[r] = "B" /\ cross)
    <3>1. rat'[q] = rat[r] + 1 /\ rpart'[q] = "B" /\ rat[r] + 1 <= NumCovLayers
      BY <1>1, <1>5, <2>4, CovAssumption
    <3>2. \A l \in CovLayers : l < rat[r] + 1 => l < rat[r] \/ l = rat[r]
      BY <1>1, CovAssumption DEF CovLayers
    <3>3. \A k \in Needed : rspill'[k][r][rat[r]] # NoSpill
      <4>1. CASE rpart[r] = "B"
        BY <1>4, <1>7, <1>n, <2>4, <4>1
      <4>2. CASE rpart[r] = "C"
        BY <1>4, <1>7, <1>n, <2>1, <2>4, <4>2
      <4> QED
        BY <1>1, <4>1, <4>2 DEF Kinds
    <3> QED
      BY <2>1, <2>4, <3>1, <3>2, <3>3
  <2> QED
    BY <2>2, <2>3, <2>4
<1>11. CovShards'
  BY <1>1, <1>10 DEF CovShards
<1> QED
  BY <1>1, <1>6, <1>8, <1>11 DEF CovIInv, CovFresh, CovWindows, CovEnds, progress

LEMMA JoinedKeeps ==
    ASSUME CovIInv, Joined PROVE CovIInv'
<1>1. /\ where = "replicas" /\ where' = "reduceB" /\ window' = 0 /\ copies > 1
      /\ \A r \in Running : rat[r] = NumCovLayers
      /\ UNCHANGED <<covDisk, spill, rspill, covSettings, Needed, Running, copies, fed, acc, queue, lost, children>>
  BY DEF Joined, covDisk, covSettings, Needed, Running, CovIInv, CovShards
<1>2. CovType'
  BY <1>1 DEF CovIInv, CovType, covSettings, children
<1>3. CovFiles'
  BY <1>1, SameFiles DEF CovIInv, covSettings
<1>4. \A l \in CovLayers : l < NumCovLayers /\ ~(l < 0)
  BY CovAssumption DEF CovLayers
<1>5. \A r \in Running, l \in CovLayers, k \in Needed : rspill[k][r][l] # NoSpill
  BY <1>1, <1>4 DEF CovIInv, CovShards
<1>6. CovShards'
  BY <1>1, <1>4, <1>5, CovAssumption DEF CovShards
<1> QED
  BY <1>1, <1>2, <1>3, <1>6 DEF CovIInv, CovFresh, CovWindows, CovEnds

\* Shards of one number of replicas add up to every sequence once.
LEMMA ShardsAddUp ==
    ASSUME CovIInv, OneCount, copies > 1, NEW kind \in Kinds, NEW l \in CovLayers,
           \A r \in Running : rspill[kind][r][l] # NoSpill
    PROVE  Total(kind, l) = Ones
<1>1. copies \in CovReplicaChoices /\ copies \in 1 .. NumSeqs /\ Running \subseteq CovReplicas
  BY RunningReplicas DEF CovIInv
<1>2. \A r \in Running : rspill[kind][r][l].sum = ShardSum(copies, r)
  <2>1. SUFFICES ASSUME NEW r \in Running PROVE rspill[kind][r][l].sum = ShardSum(copies, r)
    OBVIOUS
  <2>2. OfShard(r, rspill[kind][r][l])
    BY <1>1 DEF CovIInv, CovFiles
  <2>3. PICK n \in CovReplicaChoices : n > 1 /\ rspill[kind][r][l] = Spill(setting, ShardSum(n, r))
    BY <2>2 DEF OfShard
  <2>4. n = copies
    BY <1>1, <2>3 DEF OneCount
  <2> QED
    BY <2>3, <2>4 DEF Spill
<1>3. ASSUME NEW s \in Seqs
      PROVE  Cardinality({p \in Running \X Seqs : p[2] < rspill[kind][p[1]][l].sum[s]}) = 1
  <2>1. PICK r \in Running : s \in Shard(copies, r) /\ \A q \in Running : s \in Shard(copies, q) => q = r
    BY <1>1, OneShard DEF Running
  <2>2. 0 \in Seqs /\ \A i \in Seqs : i \in Nat
    BY CovAssumption DEF Seqs
  <2>3. \A q \in Running : rspill[kind][q][l].sum[s] = IF q = r THEN 1 ELSE 0
    BY <1>2, <2>1 DEF ShardSum
  <2>4. {p \in Running \X Seqs : p[2] < rspill[kind][p[1]][l].sum[s]} = {<<r, 0>>}
    <3>1. ASSUME NEW p \in Running \X Seqs PROVE p[2] < rspill[kind][p[1]][l].sum[s] <=> p = <<r, 0>>
      <4>1. PICK a \in Running, i \in Seqs : p = <<a, i>>
        BY <3>1
      <4>2. rspill[kind][a][l].sum[s] = IF a = r THEN 1 ELSE 0
        BY <2>3
      <4>3. i < (IF a = r THEN 1 ELSE 0) <=> a = r /\ i = 0
        BY <2>2
      <4> QED
        BY <4>1, <4>2, <4>3
    <3>2. <<r, 0>> \in Running \X Seqs
      BY <2>1, <2>2
    <3> QED
      BY <3>1, <3>2
  <2> QED
    BY <2>4, FS_Singleton
<1> QED
  BY <1>3 DEF Total, Ones

LEMMA ReduceKeeps ==
    ASSUME CovIInv, OneCount, NEW kind \in Kinds, Reduce(kind) PROVE CovIInv'
<1>1. /\ where = (IF kind = "B" THEN "reduceB" ELSE "reduceC") /\ window < NumCovLayers
      /\ window \in Nat /\ window' = window + 1 /\ window' \in Nat /\ copies > 1
      /\ UNCHANGED <<rspill, covSettings, Needed, Running, setting, copies, cross, where, fed, acc, queue, lost, children>>
  BY DEF Reduce, covSettings, Needed, Running, CovIInv, CovType, CovShards
<1>2. kind \in Needed /\ Needed \subseteq Kinds
  BY <1>1 DEF CovIInv, CovShards, Needed, Kinds
<1>3. window \in CovLayers
  BY <1>1, CovAssumption DEF CovLayers
<1>4. \A r \in Running : rspill[kind][r][window] # NoSpill
  BY <1>1, <1>2, <1>3 DEF CovIInv, CovShards
<1>5. Total(kind, window) = Ones
  BY <1>1, <1>3, <1>4, ShardsAddUp
<1>6. Present(kind, window)
  <2>1. copies \in Nat /\ copies > 1
    BY <1>1, RunningReplicas, CovAssumption DEF CovIInv
  <2>2. 0 \in Running
    BY <2>1 DEF Running
  <2> QED
    BY <1>4, <2>2 DEF Present
<1>7. /\ spill' \in [Kinds -> [CovLayers -> Spills]] /\ Exact(spill'[kind][window])
      /\ \A k \in Kinds, m \in CovLayers : <<k, m>> # <<kind, window>> => spill'[k][m] = spill[k][m]
  <2>v. PICK v : v = Spill(setting, Total(kind, window))
    OBVIOUS
  <2>1. v \in Spills /\ Exact(v)
    BY <1>5, <2>v DEF CovIInv, CovType, Spill, Spills, Exact, Ones
  <2>2. spill \in [Kinds -> [CovLayers -> Spills]] /\ spill' = [spill EXCEPT ![kind][window] = v]
    BY <1>6, <2>v DEF CovIInv, CovType, Reduce
  <2>w. PICK w : w = window
    OBVIOUS
  <2>3. /\ w \in CovLayers /\ spill' = [spill EXCEPT ![kind][w] = v]
        /\ spill \in [Kinds -> [CovLayers -> Spills]]
    BY <1>3, <2>2, <2>w
  <2>4. /\ spill' \in [Kinds -> [CovLayers -> Spills]] /\ spill'[kind][w] = v
        /\ \A k \in Kinds, m \in CovLayers : <<k, m>> # <<kind, w>> => spill'[k][m] = spill[k][m]
    BY <2>1, <2>3
  <2> QED
    BY <2>1, <2>4, <2>w
<1>8. spill'[kind][window] # NoSpill
  BY <1>7 DEF Exact, Spill, NoSpill, CovIInv, CovType
<1>9. CovType'
  BY <1>1, <1>7 DEF CovIInv, CovType, covSettings, children
<1>10. CovFiles'
  BY <1>1, <1>7 DEF CovIInv, CovFiles, Exact, OfShard
<1>11. \A k \in Kinds, m \in CovLayers : spill[k][m] # NoSpill => spill'[k][m] # NoSpill
  BY <1>7, <1>8
<1>12. \A m \in CovLayers : m < window + 1 => m < window \/ m = window
  BY <1>1, CovAssumption DEF CovLayers
<1>13. CovShards'
  <2>1. window' <= NumCovLayers
    BY <1>1, CovAssumption
  <2>2. ASSUME where = "reduceB" PROVE \A m \in CovLayers : m < window' => spill'["B"][m] # NoSpill
    <3>1. kind = "B"
      BY <1>1, <2>2
    <3>2. \A m \in CovLayers : m < window => spill["B"][m] # NoSpill
      BY <2>2 DEF CovIInv, CovShards
    <3> QED
      BY <1>1, <1>8, <1>11, <1>12, <3>1, <3>2
  <2>3. ASSUME where = "reduceC"
        PROVE  cross /\ \A m \in CovLayers : spill'["B"][m] # NoSpill /\ (m < window' => spill'["C"][m] # NoSpill)
    <3>1. kind = "C" /\ "B" \in Kinds
      BY <1>1, <2>3 DEF Kinds
    <3>2. cross /\ \A m \in CovLayers : spill["B"][m] # NoSpill /\ (m < window => spill["C"][m] # NoSpill)
      BY <2>3 DEF CovIInv, CovShards
    <3> QED
      BY <1>1, <1>8, <1>11, <1>12, <3>1, <3>2
  <2>4. \A r \in Running, m \in CovLayers, k \in Needed : rspill[k][r][m] # NoSpill
    BY <1>1 DEF CovIInv, CovShards
  <2> QED
    BY <1>1, <2>1, <2>2, <2>3, <2>4 DEF CovShards
<1> QED
  BY <1>1, <1>9, <1>10, <1>13 DEF CovIInv, CovFresh, CovWindows, CovEnds

LEMMA ReducedKeeps ==
    ASSUME CovIInv, Reduced PROVE CovIInv'
<1>1. /\ where \in {"reduceB", "reduceC"} /\ window = NumCovLayers /\ window' = 0 /\ copies > 1
      /\ where' = IF where = "reduceB" /\ cross THEN "reduceC" ELSE "factor"
      /\ UNCHANGED <<spill, rspill, covSettings, Needed, Running, copies, cross, fed, acc, queue, lost, children>>
  BY DEF Reduced, covDisk, covSettings, Needed, Running, CovIInv, CovShards
<1>2. CovType'
  BY <1>1 DEF CovIInv, CovType, covSettings, children
<1>3. CovFiles'
  BY <1>1, SameFiles DEF CovIInv, covSettings
<1>4. \A l \in CovLayers : l < NumCovLayers /\ ~(l < 0)
  BY CovAssumption DEF CovLayers
<1>5. \A l \in CovLayers : spill["B"][l] # NoSpill /\ (where = "reduceC" => spill["C"][l] # NoSpill)
  BY <1>1, <1>4 DEF CovIInv, CovShards
<1>6. CovShards'
  <2>1. \A r \in Running, l \in CovLayers, k \in Needed : rspill[k][r][l] # NoSpill
    BY <1>1 DEF CovIInv, CovShards
  <2> QED
    BY <1>1, <1>4, <1>5, <2>1, CovAssumption DEF CovShards
<1>7. CovEnds'
  BY <1>1, <1>5 DEF CovEnds, Needed, Kinds
<1> QED
  BY <1>1, <1>2, <1>3, <1>6, <1>7 DEF CovIInv, CovFresh, CovWindows

----------------------------------------------------------------------------
(* Factorization and clean-up                                              *)

LEMMA FactorKeeps ==
    ASSUME CovIInv, Factor PROVE CovIInv'
<1>1. where = "factor" /\ where' = "clean"
      /\ UNCHANGED <<spill, rspill, covSettings, window, fed, acc, queue, lost, children>>
  BY DEF Factor
<1>2. CovType'
  BY <1>1 DEF CovIInv, CovType, covSettings, children
<1>3. CovFiles'
  BY <1>1, SameFiles DEF CovIInv, covSettings
<1> QED
  BY <1>1, <1>2, <1>3 DEF CovIInv, CovFresh, CovWindows, CovShards, CovEnds

\* A file that is removed is absent.
LEMMA CleanKeeps ==
    ASSUME CovIInv, NEW kind \in Kinds,
           (\E l \in CovLayers : Clean(kind, l)) \/ (\E r \in CovReplicas : CleanReplica(kind, r))
    PROVE  CovIInv'
<1>z. NoSpill \in Spills
  BY DEF Zero, NoSpill, Spill, Spills
<1>1. /\ where = "clean" /\ UNCHANGED <<covSettings, progress, children, where, setting>>
      /\ spill' \in [Kinds -> [CovLayers -> Spills]]
      /\ \A k \in Kinds, m \in CovLayers : spill'[k][m] \in {spill[k][m], NoSpill}
      /\ rspill' \in [Kinds -> [CovReplicas -> [CovLayers -> Spills]]]
      /\ \A k \in Kinds, q \in CovReplicas, m \in CovLayers : rspill'[k][q][m] \in {rspill[k][q][m], NoSpill}
  <2>0. /\ spill \in [Kinds -> [CovLayers -> Spills]]
        /\ rspill \in [Kinds -> [CovReplicas -> [CovLayers -> Spills]]]
    BY DEF CovIInv, CovType
  <2>1. ASSUME NEW l \in CovLayers, Clean(kind, l) PROVE <1>1!:
    <3>1. spill' = [spill EXCEPT ![kind][l] = NoSpill] /\ rspill' = rspill
      BY <2>1 DEF Clean
    <3>2. where = "clean" /\ UNCHANGED <<covSettings, progress, children, where, setting>>
      BY <2>1 DEF Clean, covSettings, progress
    <3> QED
      BY <1>z, <2>0, <3>1, <3>2
  <2>2. ASSUME NEW r \in CovReplicas, CleanReplica(kind, r) PROVE <1>1!:
    <3>1. rspill' = [rspill EXCEPT ![kind][r] = NoSpills] /\ spill' = spill
      BY <2>2 DEF CleanReplica
    <3>2. where = "clean" /\ UNCHANGED <<covSettings, progress, children, where, setting>>
      BY <2>2 DEF CleanReplica, covSettings, progress
    <3>3. NoSpills \in [CovLayers -> Spills] /\ \A m \in CovLayers : NoSpills[m] = NoSpill
      BY <1>z DEF NoSpills
    <3> QED
      BY <2>0, <3>1, <3>2, <3>3
  <2> QED
    BY <2>1, <2>2
<1>2. CovType'
  BY <1>1 DEF CovIInv, CovType, covSettings, progress, children
<1>3. CovFiles'
  <2>1. \A k \in Kinds, m \in CovLayers : spill'[k][m] = NoSpill \/ Exact(spill'[k][m])
    BY <1>1 DEF CovIInv, CovFiles
  <2>2. \A k \in Kinds, q \in CovReplicas, m \in CovLayers :
           rspill'[k][q][m] = NoSpill \/ OfShard(q, rspill'[k][q][m])
    <3>1. SUFFICES ASSUME NEW k \in Kinds, NEW q \in CovReplicas, NEW m \in CovLayers
                   PROVE  rspill'[k][q][m] = NoSpill \/ OfShard(q, rspill'[k][q][m])
      OBVIOUS
    <3>2. rspill'[k][q][m] = rspill[k][q][m] \/ rspill'[k][q][m] = NoSpill
      BY <1>1
    <3>3. rspill[k][q][m] = NoSpill \/ OfShard(q, rspill[k][q][m])
      BY DEF CovIInv, CovFiles
    <3> QED
      BY <3>2, <3>3
  <2> QED
    BY <1>1, <2>1, <2>2 DEF CovFiles, Exact, OfShard
<1> QED
  BY <1>1, <1>2, <1>3 DEF CovIInv, CovFresh, CovWindows, CovShards, CovEnds, progress

LEMMA CleanedKeeps ==
    ASSUME CovIInv, Cleaned PROVE CovIInv'
<1>1. where = "clean" /\ where' = "done" /\ (\A k \in Kinds : Removed(k))
      /\ UNCHANGED <<spill, rspill, covSettings, window, fed, acc, queue, lost, children>>
  BY DEF Cleaned, covDisk
<1>2. CovType'
  BY <1>1 DEF CovIInv, CovType, covSettings, children
<1>3. CovFiles'
  BY <1>1, SameFiles DEF CovIInv, covSettings
<1>4. CovEnds'
  BY <1>1 DEF CovEnds, Removed
<1> QED
  BY <1>1, <1>2, <1>3, <1>4 DEF CovIInv, CovFresh, CovWindows, CovShards

\* The configuration changes only when nothing is left of the last one.
LEMMA ExitKeeps ==
    ASSUME CovIInv, Exit PROVE CovIInv'
<1>1. where = "done" /\ where' = "down" /\ (\A k \in Kinds : Removed(k))
      /\ UNCHANGED <<spill, rspill, cross, copies, window, fed, acc, queue, lost, children>>
  BY DEF Exit, covDisk, CovIInv, CovEnds
<1>2. setting' \in Nat \ {0}
  BY DEF Exit, CovIInv, CovType
<1>3. CovType'
  BY <1>1, <1>2 DEF CovIInv, CovType, children
<1>4. CovFiles'
  BY <1>1 DEF CovFiles, Removed, NoSpills
<1> QED
  BY <1>1, <1>3, <1>4 DEF CovIInv, CovFresh, CovWindows, CovShards, CovEnds

----------------------------------------------------------------------------

LEMMA CovStarts == CovInit => CovIInv
<1> SUFFICES ASSUME CovInit PROVE CovIInv
  OBVIOUS
<1>z. Zero \in [Seqs -> Nat] /\ NoSpill \in Spills
  BY DEF Zero, NoSpill, Spill, Spills
<1>1. CovType
  <2>1. 0 \in 0 .. NumSeqs
    BY CovAssumption
  <2>2. /\ spill \in [Kinds -> [CovLayers -> Spills]]
        /\ rspill \in [Kinds -> [CovReplicas -> [CovLayers -> Spills]]]
    BY <1>z DEF CovInit, NoSpills
  <2>3. /\ acc \in [CovLayers -> [Seqs -> Nat]] /\ rat \in [CovReplicas -> Nat]
        /\ rpart \in [CovReplicas -> Kinds] /\ queue \in SUBSET (Kinds \X CovLayers)
    BY <1>z DEF CovInit, Kinds
  <2>4. /\ where = "down" /\ setting = 1 /\ cross = FALSE /\ copies = 1
        /\ window = 0 /\ fed = 0 /\ lost = FALSE
    BY DEF CovInit
  <2>5. setting \in Nat \ {0} /\ copies \in CovReplicaChoices \cup {1} /\ window \in Nat
    BY <2>4
  <2>6. fed \in 0 .. NumSeqs /\ cross \in BOOLEAN /\ lost \in BOOLEAN
    BY <2>1, <2>4
  <2> QED
    BY <2>2, <2>3, <2>4, <2>5, <2>6, Zenon DEF CovType
<1>2. CovFiles
  BY DEF CovInit, CovFiles, NoSpills
<1> QED
  BY <1>1, <1>2 DEF CovInit, CovIInv, CovFresh, CovWindows, CovShards, CovEnds

LEMMA CovSteps ==
    ASSUME OneCount, CovIInv, [CovNext]_covVars PROVE CovIInv'
<1>1. CASE CovStartAny
  BY <1>1, StartKeeps
<1>2. CASE CovMain
  BY <1>2, EnterKeeps, SkipWindowKeeps, FeedKeeps, FinalizeKeeps, DownKeeps, FlushedKeeps, JoinedKeeps,
     ReduceKeeps, ReducedKeeps, FactorKeeps, CleanKeeps, CleanedKeeps DEF CovMain
<1>3. CASE CovSpills
  BY <1>3, SpillKeeps DEF CovSpills
<1>4. CASE \E r \in CovReplicas : CovReplica(r)
  BY <1>4, ReplicaSkipsKeeps, ReplicaSpillsKeeps DEF CovReplica
<1>5. CASE \E kind \in Kinds, l \in CovLayers : SpillFails(kind, l)
  BY <1>5, LossKeeps
<1>6. CASE Retry \/ CovReplicaFails \/ Exit \/ CovCrash
  BY <1>6, RetryKeeps, DownKeeps, ExitKeeps
<1>7. CASE UNCHANGED covVars
  <2>1. UNCHANGED <<spill, rspill, setting, cross, copies, where, window, fed, acc, queue, lost, rat, rpart>>
    BY <1>7 DEF covVars, covDisk, covSettings, progress, children
  <2>2. CovType'
    BY <2>1 DEF CovIInv, CovType
  <2>3. CovFiles' /\ CovFresh' /\ CovEnds'
    BY <2>1, SameFiles DEF CovIInv, CovFresh, CovEnds, Removed, Needed
  <2>4. CovWindows'
    BY <2>1 DEF CovIInv, CovWindows, Needed, ToCollect, InWindow, Has
  <2>5. CovShards'
    BY <2>1 DEF CovIInv, CovShards, Needed, Running
  <2> QED
    BY <2>2, <2>3, <2>4, <2>5 DEF CovIInv
<1> QED
  BY <1>1, <1>2, <1>3, <1>4, <1>5, <1>6, <1>7 DEF CovNext, CovFinished

\* Provided no two runs shard over different numbers of replicas (which the code
\* does not see to: run stage3_replicas), whatever is skipped, resumed, retried,
\* lost or summed from replicas, the factorization finds every sequence once in
\* every covariance, and no file of an earlier configuration is ever left.
THEOREM CovariancesAlwaysSound ==
    ASSUME OneCount PROVE CovSpec => []CovarianceSound
<1>1. CovIInv => CovarianceSound
  <2> SUFFICES ASSUME CovIInv PROVE CovarianceSound
    OBVIOUS
  <2>1. Needed \subseteq Kinds
    BY DEF Needed, Kinds
  <2>2. FactorInputsExact
    BY <2>1 DEF CovIInv, CovFiles, CovEnds, FactorInputsExact
  <2>3. NothingStale
    <3>1. \A k \in Kinds, l \in CovLayers : spill[k][l].config \in {0, setting}
      BY DEF CovIInv, CovFiles, Exact, Spill, NoSpill
    <3>2. \A k \in Kinds, l \in CovLayers, r \in CovReplicas : rspill[k][r][l].config \in {0, setting}
      <4>1. \A r \in CovReplicas : \A f : f = NoSpill \/ OfShard(r, f) => f.config \in {0, setting}
        BY DEF OfShard, Spill, NoSpill
      <4> QED
        BY <4>1 DEF CovIInv, CovFiles
    <3> QED
      BY <3>1, <3>2 DEF NothingStale
  <2> QED
    BY <2>2, <2>3 DEF CovarianceSound
<1> QED
  BY <1>1, CovStarts, CovSteps, PTL DEF CovSpec
=============================================================================
