---------------------------- MODULE Stage2Assign ----------------------------
(***************************************************************************)
(* How Stage 2 decides, layer by layer, which experts stay and which are   *)
(* merged into them, and what the merge leaves of the layer.  A layer has  *)
(* a target number of experts; protected experts are never touched.  The   *)
(* bump loop chooses centroids by REAP score, builds a cost matrix, masks  *)
(* it, solves an assignment, refines it, and looks at two gates: (b) the   *)
(* group cap cannot hold the children, (c) the mean cost is out of line    *)
(* with the layers before.  A closed gate raises the target and starts     *)
(* over.  After the loop the leftovers are settled, the groups are merged  *)
(* into their centroids and the router and the banks are cut down to the   *)
(* experts that are kept.                                                  *)
(*                                                                         *)
(* Experts are numbered by descending REAP score.  The cost of a pair is   *)
(* drawn when a cost matrix first needs it and is the same in every later  *)
(* attempt of the layer.                                                   *)
(***************************************************************************)
EXTENDS MergeSolvers, Sequences

CONSTANTS
    NE,             \* experts per layer
    Depth,          \* MoE layers, walked in order
    TopK,           \* experts the router picks per token
    Options,        \* configurations of a run
    Setups,         \* what a layer starts from: its Stage 1 budget, its blacklisted
                    \* experts, the experts that saw at least min_active_tokens
    Costs,          \* finite costs of a pair
    Scale,          \* mean costs are counted in 1/Scale
    HistoryMin,     \* layers the cost gate wants to have seen (4 in the code)
    SigmaPct,       \* slack of the cost gate, in percent
    BumpPct,        \* raise of the target, in percent
    GatePct         \* capacity_util_threshold, in percent

ASSUME DepthAssumption ==
    /\ NE \in Nat \ {0} /\ Depth \in Nat \ {0} /\ TopK \in Nat \ {0}
    /\ HistoryMin \in Nat \ {0} /\ SigmaPct \in Nat /\ BumpPct \in Nat /\ GatePct \in Nat
ASSUME ScaleAssumption == Scale \in Nat \ {0} /\ \A n \in 1 .. NE : Scale % n = 0
ASSUME SetupAssumption ==
    Setups \subseteq [target : Nat, protected : SUBSET (1 .. NE), active : SUBSET (1 .. NE)]
ASSUME CostsAssumption == Costs \subseteq 0 .. Inf - 1
ASSUME ConfigsAssumption ==
    Options \subseteq [mode : {"merge", "faithful_prune"}, prune : 0 .. NE,
                       solver : {"greedy", "hungarian", "mcf", "auto", "sinkhorn"},
                       cap : Nat, alignment : {"pre", "post", "output"}, topk : Nat \ {0},
                       skip : BOOLEAN, twoOpt : BOOLEAN, emRounds : Nat, emBreak : BOOLEAN,
                       exact : BOOLEAN]

VARIABLES
    cfg,        \* the configuration of this run
    layer,      \* the layer being decided
    task,       \* where the driver is
    setup,      \* [target, protected, active] of the layer
    effective,  \* the target after the bumps so far
    attempt,    \* attempts of the bump loop, at most NE - target + 1
    centroids,  \* experts that stay, a sequence in score order
    children,   \* experts to be merged away, a sequence in id order
    pair,       \* costs of <<child, centroid>> drawn so far
    alignment,  \* alignment the capacity gate chose
    delta,      \* the cost matrix of the attempt
    asg,        \* its assignment: centroid position of every child, 0 for none
    em,         \* rounds of EM refinement done
    bFail, cFail,   \* the two gates of the last attempt
    meanCosts,  \* mean costs of the layers decided so far
    groups,     \* members by centroid, once settled
    contents,   \* ghost: the original experts that an expert's weights contain
    pending,    \* groups still to be merged
    kept,       \* the experts the layer keeps
    topk        \* router.top_k of the layer
assignVars == <<cfg, layer, task, setup, effective, attempt, centroids, children, pair, alignment,
                delta, asg, em, bFail, cFail, meanCosts, groups, contents, pending, kept, topk>>

-----------------------------------------------------------------------------
Experts == 1 .. NE

Larger(a, b) == IF a >= b THEN a ELSE b
Smaller(a, b) == IF a <= b THEN a ELSE b

\* The elements of a set of experts in ascending order.
Ascending(S) ==
    [i \in 1 .. Cardinality(S) |-> CHOOSE e \in S : Cardinality({x \in S : x <= e}) = i]

Unprotected == Experts \ setup.protected

ReamTarget == Larger(effective - Cardinality(setup.protected), 0)
OriginalReamTarget == Larger(setup.target - Cardinality(setup.protected), 0)

\* The best unprotected experts that were active enough, at most n of them.
SelectCentroids(n) ==
    LET eligible == Unprotected \cap setup.active
    IN  {e \in eligible : Cardinality({x \in eligible : x <= e}) <= n}

NC == Len(children)
NK == Len(centroids)
Pairs == {<<children[i], centroids[k]>> : i \in 1 .. NC, k \in 1 .. NK}

\* Alignment of the cost: the cheap one while the capacity is hardly used.
\* Without a cap the utilisation counts as zero.
PickAlignment ==
    LET used == IF cfg.cap <= 0 THEN 0 ELSE NC * 100
        room == IF cfg.cap <= 0 THEN 1 ELSE Larger(NK * cfg.cap, 1)
    IN  IF used < GatePct * room THEN "pre" ELSE cfg.alignment

\* Rows of a cost matrix over the pair costs c: all entries of the cheap cost,
\* or the topk candidates of every child and infinity elsewhere.
Matrices(c, align) ==
    LET width == IF align = "pre" THEN NK ELSE Smaller(cfg.topk, NK)
        Row(i, S) == [k \in 1 .. NK |-> IF k \in S THEN c[<<children[i], centroids[k]>>] ELSE Inf]
    IN  {[i \in 1 .. NC |-> Row(i, S[i])] : S \in [1 .. NC -> kSubset(width, 1 .. NK)]}

\* Entries above a percentile of the finite ones become forbidden.
Masked(d) ==
    LET values == {d[i][k] : i \in 1 .. NC, k \in 1 .. NK} \ {Inf}
    IN  IF ~cfg.skip \/ values = {} THEN {d}
        ELSE {[i \in 1 .. NC |-> [k \in 1 .. NK |-> IF d[i][k] > p THEN Inf ELSE d[i][k]]] :
                 p \in values}

Mean(cost, n) == (cost * Scale) \div n

\* The mean cost of the attempt is above the mean of the history by more than
\* the slack; with no child placed it counts as infinite.
TooCostly(h) ==
    /\ Len(h) >= HistoryMin
    /\ NC > 0
    /\ \/ Assigned(asg) = {}
       \/ Mean(TotalCost(delta, asg), Cardinality(Assigned(asg))) * 100 * Len(h)
            > Over(h) * (100 + SigmaPct)

\* Children of centroid position k.
Members(k) == {children[i] : i \in Group(asg, k)}

NoSetup == [target |-> 0, protected |-> {}, active |-> {}]
Untouched == [e \in Experts |-> {e}]

-----------------------------------------------------------------------------
AssignInit ==
    /\ cfg \in Options /\ layer = 1 /\ task = "setup"
    /\ setup = NoSetup /\ effective = 0 /\ attempt = 0
    /\ centroids = <<>> /\ children = <<>> /\ pair = <<>> /\ alignment = "pre"
    /\ delta = <<>> /\ asg = <<>> /\ em = 0 /\ bFail = FALSE /\ cFail = FALSE
    /\ meanCosts = <<>> /\ groups = <<>> /\ contents = Untouched /\ pending = {}
    /\ kept = {} /\ topk = TopK

\* A layer is profiled and scored; a budget above its experts is an error.
Setup ==
    /\ task = "setup" /\ cfg.mode = "merge"
    /\ setup' \in Setups /\ effective' = setup'.target /\ attempt' = 0
    /\ task' = IF setup'.target > NE THEN "failed" ELSE "attempt"
    /\ UNCHANGED <<cfg, layer, centroids, children, pair, alignment, delta, asg, em,
                   bFail, cFail, meanCosts, groups, contents, pending, kept, topk>>

\* One turn of the loop: centroids, children, and the capacity gate.
Attempt ==
    /\ task = "attempt"
    /\ attempt' = attempt + 1 /\ em' = 0
    /\ IF ReamTarget = 0
       THEN /\ task' = "settle"
            /\ UNCHANGED <<centroids, children, delta, asg, bFail, cFail>>
       ELSE LET C == SelectCentroids(ReamTarget)
                rest == Unprotected \ C
            IN  /\ centroids' = Ascending(C) /\ children' = Ascending(rest)
                /\ bFail' = (cfg.cap > 0 /\ Cardinality(rest) > Cardinality(C) * cfg.cap)
                /\ cFail' = FALSE /\ delta' = <<>> /\ asg' = <<>>
                /\ task' = IF bFail' THEN "bump" ELSE "cost"
    /\ UNCHANGED <<cfg, layer, setup, effective, pair, alignment, meanCosts, groups, contents,
                   pending, kept, topk>>

\* Select the alignment, fill the cost matrix, mask it.
Cost ==
    /\ task = "cost"
    /\ alignment' = PickAlignment
    /\ \E fresh \in [Pairs \ DOMAIN pair -> Costs] :
          pair' = [p \in Pairs \cup DOMAIN pair |-> IF p \in DOMAIN pair THEN pair[p] ELSE fresh[p]]
    /\ \E d \in Matrices(pair', alignment') : delta' \in Masked(d)
    /\ task' = "solve"
    /\ UNCHANGED <<cfg, layer, setup, effective, attempt, centroids, children, asg, em,
                   bFail, cFail, meanCosts, groups, contents, pending, kept, topk>>

Solve ==
    /\ task = "solve"
    /\ asg' \in Solutions(cfg.solver, delta, NK, cfg.cap)
    /\ task' = "twoopt"
    /\ UNCHANGED <<cfg, layer, setup, effective, attempt, centroids, children, pair, alignment,
                   delta, em, bFail, cFail, meanCosts, groups, contents, pending, kept, topk>>

\* 2-opt, for the greedy solver only: while a child can move to a better
\* centroid with room, or two children gain by changing places, one such move.
Moves == IF cfg.twoOpt /\ cfg.solver = "greedy" /\ NC > 0 /\ NK > 0
         THEN Relocations(delta, asg, cfg.cap) \cup Swaps(delta, asg) ELSE {}

TwoOptMove ==
    /\ task = "twoopt" /\ asg' \in Moves
    /\ UNCHANGED <<cfg, layer, task, setup, effective, attempt, centroids, children, pair,
                   alignment, delta, em, bFail, cFail, meanCosts, groups, contents, pending,
                   kept, topk>>

TwoOptDone ==
    /\ task = "twoopt" /\ Moves = {} /\ task' = "em"
    /\ UNCHANGED <<cfg, layer, setup, effective, attempt, centroids, children, pair, alignment,
                   delta, asg, em, bFail, cFail, meanCosts, groups, contents, pending, kept, topk>>

\* One EM round: the costs against centroids with children are measured anew
\* on the tentatively merged weights, masked, and solved again.  The rounds
\* end when nothing was merged or (emBreak) the answer did not change.
EmOpen == cfg.alignment = "post" /\ alignment = "post" /\ em < cfg.emRounds /\ Assigned(asg) # {}

EmRound ==
    /\ task = "em" /\ EmOpen
    /\ LET tentative == {centroids[asg[i]] : i \in Assigned(asg)}
           moved == Pairs \cap (Experts \X tentative)
       IN  \E fresh \in [moved -> Costs] :
              LET c == [p \in DOMAIN pair |-> IF p \in moved THEN fresh[p] ELSE pair[p]]
              IN  \E d \in Matrices(c, "post") : delta' \in Masked(d)
    /\ \E a \in Solutions(cfg.solver, delta', NK, cfg.cap) :
          /\ asg' = a
          /\ task' = IF cfg.emBreak /\ a = asg THEN "gate" ELSE "em"
    /\ em' = em + 1
    /\ UNCHANGED <<cfg, layer, setup, effective, attempt, centroids, children, pair, alignment,
                   bFail, cFail, meanCosts, groups, contents, pending, kept, topk>>

EmDone ==
    /\ task = "em" /\ ~EmOpen /\ task' = "gate"
    /\ UNCHANGED <<cfg, layer, setup, effective, attempt, centroids, children, pair, alignment,
                   delta, asg, em, bFail, cFail, meanCosts, groups, contents, pending, kept, topk>>

\* The cost gate.
Gate ==
    /\ task = "gate"
    /\ cFail' = TooCostly(meanCosts)
    /\ task' = IF cFail' THEN "bump" ELSE "settle"
    /\ UNCHANGED <<cfg, layer, setup, effective, attempt, centroids, children, pair, alignment,
                   delta, asg, em, bFail, meanCosts, groups, contents, pending, kept, topk>>

Bumped == Smaller(effective + Larger(1, (effective * BumpPct + 99) \div 100), NE)

\* A gate was closed: raise the target; at all the experts the loop gives up.
Bump ==
    /\ task = "bump"
    /\ effective' = Bumped
    /\ task' = IF effective' >= NE \/ attempt = NE - setup.target + 1 THEN "settle" ELSE "attempt"
    /\ UNCHANGED <<cfg, layer, setup, attempt, centroids, children, pair, alignment, delta,
                   asg, em, bFail, cFail, meanCosts, groups, contents, pending, kept, topk>>

-----------------------------------------------------------------------------
(* After the loop *)

\* Who leads a group in the end, and which children join: nobody when the
\* budget is used up by the protected experts, everybody alone when the cap
\* could not be met or no expert was active, else the last attempt, with a
\* child that found no centroid leading a group of its own.
Emptied == OriginalReamTarget = 0
AllAlone == ~Emptied /\ NC > 0 /\ (bFail \/ NK = 0)

Leaders ==
    IF Emptied THEN {}
    ELSE IF bFail /\ NC > 0 THEN Unprotected
    ELSE IF NK = 0 /\ NC > 0 THEN {children[i] : i \in 1 .. NC}
    ELSE {centroids[k] : k \in 1 .. NK} \cup {children[i] : i \in Group(asg, 0)}

Grouped ==
    [c \in Leaders |->
        IF AllAlone \/ \A k \in 1 .. NK : centroids[k] # c THEN {c}
        ELSE {c} \cup UNION {Members(k) : k \in {j \in 1 .. NK : centroids[j] = c}}]

\* Fault: a layer that was let through as a last resort sets the standard too.
RememberedAll ==
    IF Emptied \/ AllAlone \/ Assigned(asg) = {} THEN meanCosts
    ELSE LET mean == Mean(TotalCost(delta, asg), Cardinality(Assigned(asg)))
         IN  IF mean > 0 THEN Append(meanCosts, mean) ELSE meanCosts

\* The mean cost enters the history when it was paid under an open gate.
Remembered ==
    IF Emptied \/ AllAlone \/ Assigned(asg) = {} THEN meanCosts
    ELSE LET mean == Mean(TotalCost(delta, asg), Cardinality(Assigned(asg)))
         IN  IF mean > 0 /\ ~(cFail /\ effective >= NE) THEN Append(meanCosts, mean) ELSE meanCosts

Settle ==
    /\ task = "settle"
    /\ IF \E e \in setup.protected : e \in Leaders
       THEN task' = "failed" /\ UNCHANGED <<groups, meanCosts, pending>>
       ELSE /\ task' = "merge" /\ groups' = Grouped /\ meanCosts' = Remembered
            /\ pending' = {c \in Leaders : Cardinality(Grouped[c]) > 1}
    /\ UNCHANGED <<cfg, layer, setup, effective, attempt, centroids, children, pair, alignment,
                   delta, asg, em, bFail, cFail, contents, kept, topk>>

\* Pure pruning: the lowest scores go, with no merge and no bump.
FaithfulPrune ==
    /\ task = "setup" /\ cfg.mode = "faithful_prune"
    /\ \E s \in Setups :
          LET P == s.protected
              rest == NE - cfg.prune - Cardinality(P)
              stay == P \cup {e \in Experts \ P : Cardinality({x \in Experts \ P : x <= e}) <= rest}
          IN  /\ setup' = s
              /\ IF rest < 0 \/ stay = {}
                 THEN task' = "failed" /\ UNCHANGED groups
                 ELSE task' = "merge" /\ groups' = [c \in stay |-> {c}]
    /\ UNCHANGED <<cfg, layer, effective, attempt, centroids, children, pair, alignment, delta,
                   asg, em, bFail, cFail, meanCosts, contents, pending, kept, topk>>

\* The weights of a group are folded into its centroid in place.
MergeGroup ==
    /\ task = "merge"
    /\ \E c \in pending :
          /\ contents' = [contents EXCEPT ![c] = UNION {contents[m] : m \in groups[c]}]
          /\ pending' = pending \ {c}
    /\ UNCHANGED <<cfg, layer, task, setup, effective, attempt, centroids, children, pair,
                   alignment, delta, asg, em, bFail, cFail, meanCosts, groups, kept, topk>>

\* Banks and router are cut down; top_k follows when too few experts are left.
Kept == setup.protected \cup DOMAIN groups

Resize ==
    /\ task = "merge" /\ pending = {}
    /\ kept' = Kept
    /\ topk' = Smaller(topk, Cardinality(Kept))
    /\ task' = IF Kept = {} \/ (cfg.exact /\ Cardinality(Kept) # setup.target)
             THEN "failed" ELSE "keep"
    /\ UNCHANGED <<cfg, layer, setup, effective, attempt, centroids, children, pair, alignment,
                   delta, asg, em, bFail, cFail, meanCosts, groups, contents, pending>>

\* The next layer starts from its own experts; the history is all it shares.
NextLayer ==
    /\ task = "keep"
    /\ IF layer = Depth
       THEN /\ task' = "done"
            /\ UNCHANGED <<layer, setup, effective, attempt, centroids, children, pair,
                           alignment, delta, asg, em, bFail, cFail, groups, contents, kept, topk>>
       ELSE /\ layer' = layer + 1 /\ task' = "setup" /\ setup' = NoSetup
            /\ effective' = 0 /\ attempt' = 0 /\ centroids' = <<>> /\ children' = <<>>
            /\ pair' = <<>> /\ alignment' = "pre" /\ delta' = <<>> /\ asg' = <<>> /\ em' = 0
            /\ bFail' = FALSE /\ cFail' = FALSE /\ groups' = <<>> /\ contents' = Untouched
            /\ kept' = {} /\ topk' = TopK
    /\ UNCHANGED <<cfg, meanCosts, pending>>

Ended == task \in {"done", "failed"} /\ UNCHANGED assignVars

AssignNext ==
    \/ Setup \/ Attempt \/ Cost \/ Solve \/ TwoOptMove \/ TwoOptDone \/ EmRound \/ EmDone
    \/ Gate \/ Bump \/ Settle \/ FaithfulPrune \/ MergeGroup \/ Resize \/ NextLayer \/ Ended

AssignSpec == AssignInit /\ [][AssignNext]_assignVars /\ WF_assignVars(AssignNext)

-----------------------------------------------------------------------------
(* Properties *)

\* Through bumps, masks, refinements and in-place merges, every expert's
\* weights end in exactly one kept expert; protected experts are kept as they
\* were; only a budget used up by the protected experts, or pruning, drops one.
NothingLost ==
    task = "keep" =>
        /\ \A e \in setup.protected : e \in kept /\ contents[e] = {e}
        /\ (cfg.mode = "merge" /\ ~Emptied) =>
               \A e \in Unprotected : Cardinality({k \in kept : e \in contents[k]}) = 1
        /\ cfg.mode = "faithful_prune" => Cardinality(kept) = NE - cfg.prune

\* Two experts are merged only when the last mask and candidate filter allowed
\* the pair, also after 2-opt and EM exchanged the assignment or the matrix, and
\* no group outgrows the cap, whichever of the fallbacks answered in the end.
\* (The Sinkhorn rounding does not keep the cap: every row takes its argmax.)
MergesAllowed ==
    task = "merge" =>
        \A c \in DOMAIN groups :
            /\ cfg.cap > 0 /\ cfg.solver # "sinkhorn" => Cardinality(groups[c]) <= cfg.cap + 1
            /\ \A e \in groups[c] \ {c} : \E i \in 1 .. NC, k \in 1 .. NK :
                  children[i] = e /\ centroids[k] = c /\ delta[i][k] < Inf

\* What the cost gate compares with was itself paid under an open gate.
HistoryHonest ==
    \A i \in HistoryMin + 1 .. Len(meanCosts) :
        meanCosts[i] * 100 * (i - 1) <= Over(SubSeq(meanCosts, 1, i - 1)) * (100 + SigmaPct)

\* A closed gate is accepted only when the target has reached all experts:
\* the attempts never run out before.
LastResort == (task = "settle" /\ (bFail \/ cFail)) => effective = NE

\* No expert is lost or merged where it must not be.
AssignmentSound == NothingLost /\ MergesAllowed
\* What the bumps are decided by is what the layers before have cost.
BumpsHonest == HistoryHonest /\ LastResort
=============================================================================
