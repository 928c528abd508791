---------------------------- MODULE MergeSolvers ----------------------------
(***************************************************************************)
(* The assignment solvers of Stage 2 as operators: who of the children     *)
(* (experts to be merged away) goes to which centroid (expert that stays). *)
(* A cost matrix is a function d from the children 1..n to rows over the   *)
(* centroids 1..m; an entry Inf is a forbidden pair.  An assignment gives  *)
(* each child a centroid, or 0 (the -1 of the code) when it has none.  A   *)
(* solver is the set of its possible answers: greedy has exactly one, the  *)
(* optimisers any optimum, Sinkhorn the rounding of a transport plan whose *)
(* floating point numbers are not modelled.                                *)
(***************************************************************************)
EXTENDS SetSums, FiniteSets, Functions

CONSTANT Inf    \* an entry above every cost: the +inf of the cost matrix

ASSUME InfAssumption == Inf \in Nat \ {0}

-----------------------------------------------------------------------------
Finite(d, i) == {k \in DOMAIN d[i] : d[i][k] < Inf}

Group(a, k) == {i \in DOMAIN a : a[i] = k}

Assigned(a) == {i \in DOMAIN a : a[i] > 0}

\* The sum of the costs of the assigned children.
TotalCost(d, a) == Over([i \in Assigned(a) |-> d[i][a[i]]])

AnyFinite(d) == \E i \in DOMAIN d : Finite(d, i) # {}

\* The first centroid of least cost (argmin keeps the lowest index).
FirstCheapest(d, i, K) ==
    CHOOSE k \in K : \A j \in K : d[i][k] < d[i][j] \/ (d[i][k] = d[i][j] /\ k <= j)

-----------------------------------------------------------------------------
\* Fault: the branch without a cap trusts argmin on a row of infinities.
GreedyFreeBlind(d) == [i \in DOMAIN d |-> FirstCheapest(d, i, DOMAIN d[i])]

\* Greedy without a cap: every child goes to its cheapest centroid.
GreedyFree(d) ==
    [i \in DOMAIN d |-> IF Finite(d, i) = {} THEN 0 ELSE FirstCheapest(d, i, Finite(d, i))]

\* Greedy with a cap: the centroids choose in the order of their scores, each
\* taking the cap cheapest children that are still free.
NoDearer(d, k, i, j) == d[i][k] < d[j][k] \/ (d[i][k] = d[j][k] /\ i <= j)

Takes(d, k, cap, free) ==
    {i \in free : Cardinality({j \in free : NoDearer(d, k, j, i)}) <= cap}

Chosen(d, k, cap, a) ==
    LET free == {i \in DOMAIN d : a[i] = 0 /\ d[i][k] < Inf}
    IN  [i \in DOMAIN d |-> IF i \in Takes(d, k, cap, free) THEN k ELSE a[i]]

GreedyCapped(d, m, cap) ==
    LET choice[k \in 0 .. m] ==
            IF k = 0 THEN [i \in DOMAIN d |-> 0] ELSE Chosen(d, k, cap, choice[k - 1])
    IN  choice[m]

Greedy(d, m, cap) ==
    IF m = 0 THEN [i \in DOMAIN d |-> 0]
    ELSE IF cap = 0 THEN GreedyFree(d) ELSE GreedyCapped(d, m, cap)

-----------------------------------------------------------------------------
Cheapest(d, A) == {a \in A : \A b \in A : TotalCost(d, a) <= TotalCost(d, b)}

\* Every child on a finite arc, no centroid above the capacity.
Flows(d, m, cap) ==
    {a \in [DOMAIN d -> 1 .. m] :
        /\ \A i \in DOMAIN d : d[i][a[i]] < Inf
        /\ \A k \in 1 .. m : Cardinality(Group(a, k)) <= cap}

\* Min-cost flow; without a finite arc or without a feasible flow the greedy
\* answer under the cap the caller gave.
Mcf(d, m, cap) ==
    LET arcs == IF cap < 1 THEN Cardinality(DOMAIN d) ELSE cap
    IN  IF ~AnyFinite(d) \/ Flows(d, m, arcs) = {}
        THEN {Greedy(d, m, cap)}
        ELSE Cheapest(d, Flows(d, m, arcs))

\* Rectangular assignment: distinct centroids; a pair that could only be made
\* at the stand-in cost for infinity is dropped.
Matchings(d, m) ==
    {a \in [DOMAIN d -> 0 .. m] :
        /\ \A i \in Assigned(a) : d[i][a[i]] < Inf
        /\ \A i, j \in Assigned(a) : a[i] = a[j] => i = j}

Hungarian(d, m, cap) ==
    IF Cardinality(DOMAIN d) > m THEN Mcf(d, m, cap)
    ELSE LET size == Max({Cardinality(Assigned(a)) : a \in Matchings(d, m)})
         IN  Cheapest(d, {a \in Matchings(d, m) : Cardinality(Assigned(a)) = size})

AutoSolver(d, m, cap) ==
    IF Cardinality(DOMAIN d) <= m THEN Hungarian(d, m, cap) ELSE Mcf(d, m, cap)

\* The rounding of the transport plan is an argmax of each row by itself.
Sinkhorn(d, m, cap) ==
    LET room == IF cap < 1 THEN Cardinality(DOMAIN d) ELSE cap
    IN  IF m * room < Cardinality(DOMAIN d) \/ ~AnyFinite(d)
        THEN {Greedy(d, m, room)}
        ELSE {a \in [DOMAIN d -> 0 .. m] :
                 \A i \in DOMAIN d : IF Finite(d, i) = {} THEN a[i] = 0
                                     ELSE a[i] \in Finite(d, i)}

\* The dispatch by name; an empty side leaves every child without a centroid.
Solutions(solver, d, m, cap) ==
    IF DOMAIN d = {} \/ m = 0 THEN {[i \in DOMAIN d |-> 0]}
    ELSE CASE solver = "greedy" -> {Greedy(d, m, cap)}
           [] solver = "hungarian" -> Hungarian(d, m, cap)
           [] solver = "mcf" -> Mcf(d, m, cap)
           [] solver = "auto" -> AutoSolver(d, m, cap)
           [] solver = "sinkhorn" -> Sinkhorn(d, m, cap)

-----------------------------------------------------------------------------
(* 2-opt refinement of an assignment *)

CapOf(a, cap) == IF cap > 0 THEN cap ELSE Cardinality(DOMAIN a)

\* Fault: an equally good centroid counts as an improvement.
BetterOrEqual(d, a, cap, i) ==
    {k \in DOMAIN d[i] \ {a[i]} :
        /\ Cardinality(Group(a, k)) < CapOf(a, cap)
        /\ d[i][k] <= d[i][a[i]] /\ d[i][k] < Inf}

\* Centroids child i would rather have and that have room.
Better(d, a, cap, i) ==
    {k \in DOMAIN d[i] \ {a[i]} :
        Cardinality(Group(a, k)) < CapOf(a, cap) /\ d[i][k] < d[i][a[i]]}

Relocations(d, a, cap) ==
    {[a EXCEPT ![i] = FirstCheapest(d, i, Better(d, a, cap, i))] :
        i \in {j \in Assigned(a) : Better(d, a, cap, j) # {}}}

Swaps(d, a) ==
    {[a EXCEPT ![p[1]] = a[p[2]], ![p[2]] = a[p[1]]] :
        p \in {q \in Assigned(a) \X Assigned(a) :
                 /\ q[1] < q[2] /\ a[q[1]] # a[q[2]]
                 /\ d[q[1]][a[q[2]]] < Inf /\ d[q[2]][a[q[1]]] < Inf
                 /\ d[q[1]][a[q[2]]] + d[q[2]][a[q[1]]] < d[q[1]][a[q[1]]] + d[q[2]][a[q[2]]]}}
=============================================================================
