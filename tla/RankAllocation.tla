--------------------------- MODULE RankAllocation ---------------------------
(***************************************************************************)
(* The integer arithmetic of ranks: the rank budget of Stage 3, its        *)
(* division over groups (a group is one matrix of one layer, with all its  *)
(* experts), the redistribution of a group's ranks over its experts, the   *)
(* choice of alpha, and the extra ranks Stage 4 may add.  Weights, scores  *)
(* and errors are integers; a rational comparison is multiplied out.       *)
(***************************************************************************)
EXTENDS SetSums, SequencesExt

CONSTANTS NumLayers, NumExperts,
          Shape,    \* of each matrix of an expert: [out, in]
          NumAlphas, \* length of alpha_grid
          Inf       \* a perplexity no candidate reaches

ASSUME ShapesAssumption ==
    /\ NumLayers \in Nat \ {0} /\ NumExperts \in Nat \ {0} /\ NumAlphas \in Nat /\ Inf \in Nat
    /\ Shape \in Seq([out : Nat \ {0, 1}, in : Nat \ {0, 1}]) /\ Shape # <<>>

Layers == 1 .. NumLayers
Experts == 1 .. NumExperts
Matrices == DOMAIN Shape
Grid == 1 .. NumAlphas
\* The groups, in the order of their keys (layer, matrix).
Groups == Layers \X Matrices
Before(g, h) == g[1] < h[1] \/ (g[1] = h[1] /\ g[2] < h[2])

Sides(m) == Shape[m].out + Shape[m].in
Area(m) == Shape[m].out * Shape[m].in
\* No rank is higher than this: one below full rank.
Cap(m) == Least(Shape[m].out, Shape[m].in) - 1

----------------------------------------------------------------------------
\* The budget: what is left of the parameters, over the mean cost of a rank.
Budget(percent) ==
    LET full == Over([g \in Groups |-> NumExperts * Area(g[2])])
        cost == Over([g \in Groups |-> NumExperts * Sides(g[2])])
    IN  Most(1, (full * (100 - percent) * Cardinality(Groups)) \div (100 * cost))

\* a / b rounded to the nearest integer, halves to the even one.
Rounded(a, b) ==
    LET q == a \div b IN
    IF 2 * (a % b) > b \/ (2 * (a % b) = b /\ q % 2 = 1) THEN q + 1 ELSE q

\* The exact shares, rounded and kept within the bounds.
Shares(w, T, W) ==
    [g \in Groups |-> Most(1, Least(Rounded(w[g] * T, W), Cap(g[2])))]

\* While the total differs from the budget, one rank more for the group that is
\* furthest below its exact share, or one less for the one furthest above: the
\* first of the possible gifts (g, i), the i-th rank more for g, or of the takes.
Repaired(s, w, T, W) ==
    LET missing == T - Over(s)
        gifts == {p \in Groups \X (1 .. T) : s[p[1]] + p[2] <= Cap(p[1][2])}
        takes == {p \in Groups \X (1 .. Over(s)) : s[p[1]] - p[2] >= 1}
        below(g, i) == w[g] * T - (s[g] + i) * W   \* after i gifts
        more(p, q) == LET x == below(p[1], p[2] - 1)  y == below(q[1], q[2] - 1)
                      IN  x > y \/ (x = y /\ Before(q[1], p[1]))
        less(p, q) == LET x == below(p[1], 1 - p[2])  y == below(q[1], 1 - q[2])
                      IN  x < y \/ (x = y /\ Before(p[1], q[1]))
        given == {p \in gifts : Cardinality({q \in gifts : more(q, p)}) < missing}
        taken == {p \in takes : Cardinality({q \in takes : less(q, p)}) < -missing}
    IN  CASE missing = 0 -> s
          [] missing > 0 -> [g \in Groups |-> s[g] + Cardinality({p \in given : p[1] = g})]
          [] missing < 0 -> [g \in Groups |-> s[g] - Cardinality({p \in taken : p[1] = g})]
Allocate(w, T) ==
    CHOOSE r \in UNION {{Repaired(s, w, T, W) : s \in {Shares(w, T, W)}} : W \in {Over(w)}} : TRUE

----------------------------------------------------------------------------
\* The ranks of a group, k for each expert, moved to the experts with the high
\* scores s: half is kept by everyone, the rest is shared out by score, and one
\* walk over the experts gives or takes what rounding left.
Kept(k) == Most(1, k \div 2)
Parts(m, k, s) ==
    [e \in Experts |->
        Most(Kept(k), Least(Cap(m), Kept(k) + (k * NumExperts * s[e]) \div (2 * Over(s))))]
\* Fault: what rounding left is not shared out.
Unwalked(m, k, s, per) == per
Walked(m, k, s, per) ==
    LET missing == k * NumExperts - Over(per)
        fits(e, step) == per[e] + step \in Kept(k) .. Cap(m)
        \* Highest scores first when giving, lowest first when taking.
        before(f, e, step) == s[f] * step > s[e] * step \/ (s[f] = s[e] /\ f < e)
        first(step) == {e \in Experts : /\ fits(e, step)
                                        /\ Cardinality({f \in Experts : fits(f, step) /\ before(f, e, step)})
                                             < missing * step}
    IN  [e \in Experts |-> per[e] + IF e \in first(1) THEN 1 ELSE IF e \in first(-1) THEN -1 ELSE 0]
Redistribute(m, k, s) == CHOOSE r \in {Walked(m, k, s, per) : per \in {Parts(m, k, s)}} : TRUE

----------------------------------------------------------------------------
\* The first candidate with the lowest perplexity among those measured, 0 (the
\* default of one half) when no perplexity is finite.
Argmin(measured, ppl) ==
    LET best == {a \in measured : ppl[a] < Inf /\ \A b \in measured : ppl[a] <= ppl[b]}
    IN  IF best = {} THEN 0 ELSE Min(best)

\* The proxy search moves on to a lower error only, so it ends at the first
\* candidate with the lowest (errors are integers, the relative tolerance is
\* far below one).
Proxy(err) == Min({a \in Grid : \A b \in Grid : err[a] <= err[b]})

\* The ranks Stage 4 may add to a matrix of rank k: a share of what the low rank
\* saves, at most limit, at most the smaller side.
Extra(m, k, percent, limit) ==
    LET saved == Most(0, Area(m) - k * Sides(m)) * NumExperts
        parameters == (percent * saved) \div 100
    IN  Least(Least(parameters \div (NumExperts * Sides(m)), limit),
              Least(Shape[m].out, Shape[m].in))
=============================================================================
