---------------------------- MODULE ExpertBudget ----------------------------
(***************************************************************************)
(* The arithmetic of expert budgets: the floor of a layer, the damage      *)
(* curve of merging, the exact allocation of a total over layers (the      *)
(* knapsack of the damage-curve plugin and of the RCO plugin), and the     *)
(* greedy re-solve of budget_retune.  Layers are 1 .. NL, every layer has  *)
(* the experts 1 .. NE.  Distances and damages are small integers.         *)
(***************************************************************************)
EXTENDS SetSums

CONSTANTS NL, NE,   \* MoE layers, experts of a layer
          Inf       \* infinity: more than any damage or score

ASSUME ShapeAssumption == NL \in Nat \ {0} /\ NE \in Nat \ {0} /\ Inf \in Nat

Layers == 1 .. NL
Experts == 1 .. NE
Lowest(S) == IF S = {} THEN Inf ELSE Min(S)

\* What a layer keeps at least, its blacklisted experts included; and how many
\* of the others GRAPE may not merge, how many merges that leaves.
LayerFloor(bl, div) == Max({NE \div div, bl})
MergeableFloor(bl, div) == Max({NE \div div - bl, 0})
MaxMerges(bl, div) == Max({0, NE - LayerFloor(bl, div)})

\* Cumulated damage of the k cheapest pairs of mergeable experts of a layer
\* with distances d, flat once the pairs run out.
DamageCurve(d, banned, most) ==
    LET pairs == {p \in Experts \X Experts : p[1] < p[2] /\ {p[1], p[2]} \cap banned = {}}
        rank(p) == (d[p[1]][p[2]] * NE + p[1]) * (NE + 1) + p[2]
        cheapest(k) == {p \in pairs : Cardinality({q \in pairs : rank(q) < rank(p)}) < k}
    IN  [k \in 0 .. most |-> Over([p \in cheapest(k) |-> d[p[1]][p[2]]])]

\* The cheapest way to give every layer a number out of options[l] so that the
\* numbers add up to total, by dynamic programming over the layers; small says
\* whether a tie goes to the smaller number.  None when no choice adds up.
\* What the first i layers cost at least when b is given out among them.
Best(options, damage, total) ==
    LET best[i \in 0 .. NL] ==
            [b \in 0 .. total |->
                IF i = 0 THEN (IF b = 0 THEN 0 ELSE Inf)
                ELSE Lowest({best[i - 1][b - k] + damage[i][k] : k \in {k \in options[i] : k <= b}}
                            \cup {Inf})]
    IN  best
Picks(options, damage, best, i, b) ==
    {k \in options[i] : k <= b /\ best[i - 1][b - k] + damage[i][k] = best[i][b]}
Pick(options, damage, best, small, i, b) ==
    IF small THEN Min(Picks(options, damage, best, i, b)) ELSE Max(Picks(options, damage, best, i, b))
\* What is left for the first i layers, from the last one on.
Leftover(options, damage, best, total, small) ==
    LET left[i \in 0 .. NL] ==
            IF i = NL THEN total
            ELSE left[i + 1] - Pick(options, damage, best, small, i + 1, left[i + 1])
    IN  left
Allocate(options, damage, total, small) ==
    UNION {IF best[NL][total] >= Inf THEN {}
           ELSE {[l \in Layers |-> Pick(options, damage, best, small, l, left[l])] :
                    left \in {Leftover(options, damage, best, total, small)}} :
              best \in {Best(options, damage, total)}}

\* The totals some choice reaches, and the one nearest to the wish, the lower
\* of two.
Totals(options) == {Over(v) : v \in {v \in [Layers -> UNION {options[l] : l \in Layers}] :
                                          \A l \in Layers : v[l] \in options[l]}}
Nearest(options, wish) ==
    CHOOSE t \in Totals(options) :
        \A u \in Totals(options) :
            LET dt == IF t > wish THEN t - wish ELSE wish - t
                du == IF u > wish THEN u - wish ELSE wish - u
            IN  dt < du \/ (dt = du /\ t <= u)

\* What RCO's discrete solve returns.
Settle(options, damage, wish) ==
    CHOOSE v \in UNION {Allocate(options, damage, t, FALSE) : t \in {Nearest(options, wish)}} : TRUE

\* budget_retune: the layers shed experts in the order of their cost, each down
\* to its floor, as long as some are still to go after the layers before it.
Shed(cost, floor, total) ==
    LET before(l) == {m \in Layers : cost[m] * (NL + 1) + m < cost[l] * (NL + 1) + l}
        missing(l) == NL * NE - total - Over([m \in before(l) |-> NE - floor[m]])
    IN  [l \in Layers |-> NE - Least(NE - floor[l], Most(0, missing(l)))]
=============================================================================
