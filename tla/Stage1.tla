------------------------------- MODULE Stage1 -------------------------------
(***************************************************************************)
(* Stage 1: how many experts each MoE layer may keep.  The budget solver   *)
(* splits the wanted reduction between pruning and SVD; Phase A finds the  *)
(* layers where massive activations form; the calibration pass collects    *)
(* what no sidecar supplies; four detectors put candidates in a bag; the   *)
(* ablation filter turns the bag into the blacklist; the optional damage-  *)
(* curve plugin computes a prior; GRAPE merges pair after pair until the   *)
(* budget is met; the optional RCO plugin computes a second answer; the    *)
(* artifacts are written one by one; the solver runs again, now with the   *)
(* blacklist.  After a Stage 2, budget_retune moves experts between layers *)
(* by the damage it measured.                                              *)
(*                                                                         *)
(* Ratios are counted in thousandths and the parameters of the model in    *)
(* experts.  The entropy gate of GRAPE is a free choice after each merge.  *)
(***************************************************************************)
EXTENDS ExpertBudget

CONSTANTS
    Inputs,      \* what a run starts from: its config and what it measures
    Rest,        \* parameters outside the routed experts, in experts
    MaxEp, MaxSp, Tolerance, Rounds,  \* _MAX_EP, _MAX_SP, tolerance, max_iterations
    Samples,     \* calibration samples of Phase A
    StartBatch,  \* batch sizes the memory probe may propose
    FloorBatch,  \* phase_a_batch_size
    Costs        \* mean costs per pair a Stage 2 may measure

ASSUME SolverAssumption ==
    /\ Rest \in Nat /\ Rounds \in Nat \ {0} /\ Tolerance \in Nat \ {0}
    /\ MaxEp \in 1 .. 999 /\ MaxSp \in 1 .. 999
ASSUME BatchAssumption ==
    Samples \in Nat \ {0} /\ FloorBatch \in Nat \ {0} /\ StartBatch \subseteq Nat /\ Costs \subseteq Nat
ASSUME InputsAssumption ==
    Inputs \subseteq
      [target : 1 .. 999, ratio : Nat \ {0}, minExperts : Nat, div : Nat \ {0},
       growth : SUBSET Layers, peak : [Layers -> [Experts -> Nat]],
       low : [Layers -> SUBSET Experts], sinks : SUBSET (Layers \X Experts), topK : Nat,
       delta : [Layers -> [Experts -> Int]], filter : {"off", "fixed", "auto"},
       dist : [Layers -> [Experts -> [Experts -> Nat]]],
       dp : BOOLEAN, rco : {"off", "auto", "damage_curve"}]
ASSUME DistancesAssumption ==
    \A i \in Inputs : \A l \in Layers : \A e, f \in Experts :
        i.dist[l][e][f] = i.dist[l][f][e] /\ i.dist[l][e][e] = 0
\* Whatever RCO or the damage curve add up stays below infinity.
ASSUME InfinityAssumption ==
    \A i \in Inputs : \A l \in Layers : \A e, f \in Experts :
        1000 * NL * NE * NE * NE * (i.dist[l][e][f] + 1) < Inf

VARIABLES
    inp,        \* config and measurements of this run
    stagePc,    \* where the stage is
    solver,     \* the budget solver: ratios, the ones before, rounds, projection
    plan,       \* global_expert_budget the stage was started with
    attempt,    \* batch size of the attempt of Phase A
    passed,     \* samples this attempt has passed
    seen,       \* samples the statistics have counted
    live,       \* signals the calibration pass must collect, no sidecar has them
    formation,  \* L, the layers where massive activations form
    bag,        \* candidate experts: their tags
    blacklist,  \* protected experts of each layer
    optimum,    \* merges per layer the damage-curve knapsack chose, in a set
    prior,      \* merge_cost_prior of each layer, in a set; Inf for infinite
    counts,     \* GRAPE: experts of a layer that are left, the blacklisted aside
    absorbed,   \* GRAPE: experts merged away or blacklisted
    redundancy, \* GRAPE: R of each layer
    frozen, floorBlocked, structBlocked,  \* GRAPE: layers that may not donate
    iters, exit,  \* GRAPE: iterations, and why it stopped
    rcoVec,     \* budgets of the RCO plugin, in a set
    disk,       \* artifacts written: name -> the budgets or blacklist, in a set
    measured,   \* Stage 2: mean cost per pair of a layer, Inf for none
    retuned     \* what budget_retune answered

phaseA == <<attempt, passed, seen>>
grape == <<counts, absorbed, redundancy, frozen, floorBlocked, structBlocked, iters, exit>>
detection == <<live, formation, bag, blacklist>>
answers == <<optimum, prior, rcoVec>>
after == <<measured, retuned>>
stage1Vars == <<inp, stagePc, solver, plan, phaseA, detection, answers, grape, disk, after>>

Outputs == {"blacklist", "filter", "budgets", "rco", "decomposition", "retuned"}
Signals == {"downproj_max", "output_reservoir", "sink_routing"}
Idle == [ep |-> 0, sp |-> 0, lastEp |-> 0, lastSp |-> 0, round |-> 0, kept |-> 0, reduction |-> 0]
Nowhere == [l \in Layers |-> {}]

Stage1Init ==
    /\ inp \in Inputs /\ stagePc = "solve" /\ solver = Idle /\ plan = 0
    /\ attempt = 0 /\ passed = 0 /\ seen = 0
    /\ live = Signals /\ formation = {} /\ bag = Nowhere /\ blacklist = Nowhere
    /\ optimum = {} /\ prior = {} /\ rcoVec = {}
    /\ counts = [l \in Layers |-> 0] /\ absorbed = Nowhere
    /\ redundancy = [l \in Layers |-> 0] /\ frozen = {} /\ floorBlocked = {}
    /\ structBlocked = {} /\ iters = 0 /\ exit = "none"
    /\ disk = [a \in Outputs |-> {}] /\ measured = {} /\ retuned = "none"

ProceedTo(p) == stagePc' = p
Reject == stagePc' = "failed"

----------------------------------------------------------------------------
\* The budget solver.  It runs before the stage with no blacklist, and after it
\* with the blacklist on disk; "resolve" is the second time.
All == NL * NE + Rest
Protected ==
    LET listed(l) == IF stagePc = "resolve" THEN Cardinality(blacklist[l]) ELSE 0
    IN  Over([l \in Layers |-> Max({inp.minExperts, listed(l)})])
Pool == Max({0, NL * NE - Protected})
Survivors(ep) == NL * NE - Min({(ep * NL * NE) \div 1000, Pool})
\* What is saved of the model, at least a thousandth: it is never nothing.
Projected(kept, sp) == Most(1, (1000 * NL * NE - kept * (1000 - sp)) \div All)
Solving == stagePc \in {"solve", "resolve"}

\* A target that no split reaches is refused before the first round.
Reachable ==
    /\ inp.target * All <= 1000 * NL * NE
    /\ inp.target * All * 1000 <= NL * NE * (1000000 - (1000 - MaxEp) * (1000 - MaxSp))
    /\ Pool = 0 => inp.target * All <= NL * NE * MaxSp

SolveStart ==
    /\ Solving /\ solver.round = 0
    /\ IF Reachable
       THEN LET sp == Min({MaxSp, (inp.target * All * 100) \div (NL * NE * (inp.ratio + 100))})
                ep == Min({MaxEp, (sp * inp.ratio) \div 100})
            IN  /\ solver' = [Idle EXCEPT !.ep = ep, !.sp = sp, !.round = 1]
                /\ UNCHANGED stagePc
       ELSE Reject /\ UNCHANGED solver
    /\ UNCHANGED <<inp, plan, phaseA, detection, answers, grape, disk, after>>

Settled == \/ solver.round > Rounds
           \/ solver.round > 1 /\ solver.ep = solver.lastEp /\ solver.sp = solver.lastSp
Answer(kept) ==
    /\ solver' = Idle
    /\ IF stagePc = "solve"
       THEN plan' = kept /\ ProceedTo("phase_a") /\ UNCHANGED disk
       ELSE disk' = [disk EXCEPT !["decomposition"] = {kept}] /\ ProceedTo("stage2") /\ UNCHANGED plan

SolveRound ==
    /\ Solving /\ solver.round > 0 /\ ~Settled
    /\ LET kept == Survivors(solver.ep)
           red == Projected(kept, solver.sp)
           ep2 == (solver.ep * inp.target) \div red
           sp2 == (solver.sp * inp.target) \div red
           epFloor == Min({MaxEp, (Pool * 1000) \div (NL * NE)})
           spFloor == Max({0, Min({MaxSp, 1000 - (1000 * NL * NE - inp.target * All)
                                                   \div Survivors(epFloor)})})
           next == IF ep2 * NL * NE > Pool * 1000 THEN <<epFloor, spFloor>>
                   ELSE <<Min({MaxEp, ep2}), Min({MaxSp, sp2})>>
       IN  \/ /\ kept = 0 /\ Reject /\ UNCHANGED <<solver, plan, disk>>
           \/ /\ kept > 0 /\ red - inp.target \in -Tolerance .. Tolerance
              /\ Answer(kept)
           \/ /\ kept > 0 /\ red - inp.target \notin -Tolerance .. Tolerance
              /\ solver' = [ep |-> next[1], sp |-> next[2], lastEp |-> solver.ep,
                            lastSp |-> solver.sp, round |-> solver.round + 1,
                            kept |-> kept, reduction |-> red]
              /\ UNCHANGED <<stagePc, plan, disk>>
    /\ UNCHANGED <<inp, phaseA, detection, answers, grape, after>>

\* No round came within the tolerance: less than wanted is an error, more only
\* a warning.
SolveSettled ==
    /\ Solving /\ solver.round > 0 /\ Settled
    /\ IF solver.reduction < inp.target - Tolerance
       THEN Reject /\ UNCHANGED <<solver, plan, disk>>
       ELSE Answer(solver.kept)
    /\ UNCHANGED <<inp, phaseA, detection, answers, grape, after>>

----------------------------------------------------------------------------
\* Phase A, with a probed batch size and the back-off when memory runs out.
StartPhaseA ==
    /\ stagePc = "phase_a" /\ attempt = 0
    /\ \E b \in StartBatch : attempt' = Max({b, FloorBatch})
    /\ UNCHANGED <<inp, stagePc, solver, plan, passed, seen, detection, answers, grape, disk, after>>

PhaseABatch ==
    /\ stagePc = "phase_a" /\ attempt > 0 /\ passed < Samples
    /\ passed' = Min({Samples, passed + attempt})
    /\ seen' = seen + (passed' - passed)
    /\ UNCHANGED <<inp, stagePc, solver, plan, attempt, detection, answers, grape, disk, after>>

\* Fault: the hooks go on adding to the statistics of the attempt that failed.
RetryOnTop(b) == attempt' = b /\ passed' = 0 /\ UNCHANGED seen
\* A smaller batch is tried from the first sample on, with empty statistics.
Retry(b) == attempt' = b /\ passed' = 0 /\ seen' = 0
\* Fault: three quarters rounded up, and no step down of at least one.
BackOffUp(b) == Max({(b * 3 + 3) \div 4, FloorBatch})
BackOff(b) == Max({Min({(b * 3) \div 4, b - 1}), FloorBatch})
OutOfMemory ==
    /\ stagePc = "phase_a" /\ attempt > 0 /\ passed < Samples
    /\ IF attempt <= FloorBatch
       THEN Reject /\ UNCHANGED phaseA
       ELSE Retry(BackOff(attempt)) /\ UNCHANGED stagePc
    /\ UNCHANGED <<inp, solver, plan, detection, answers, grape, disk, after>>

\* L are the layers that grow; none at all: the first three quarters.
FormationLayers ==
    LET cutoff == (3 * NL + 2) \div 4
    IN  IF inp.growth # {} THEN inp.growth ELSE {l \in Layers : l <= cutoff}
EndPhaseA ==
    /\ stagePc = "phase_a" /\ attempt > 0 /\ passed >= Samples
    /\ formation' = FormationLayers
    /\ attempt' = 0 /\ passed' = 0
    /\ ProceedTo("sidecars")
    /\ UNCHANGED <<inp, solver, plan, seen, live, bag, blacklist, answers, grape, disk, after>>

\* The calibration pass skips every signal a sidecar holds; a sidecar of another
\* model stops the stage.
ReadSidecars ==
    /\ stagePc = "sidecars"
    /\ \/ \E hits \in SUBSET Signals : live' = live \ hits /\ ProceedTo("detect")
       \/ Reject /\ UNCHANGED live
    /\ UNCHANGED <<inp, solver, plan, phaseA, formation, bag, blacklist, answers, grape, disk,
                   after>>

\* The detectors, in the order they are walked.
Highest == Max({0} \cup {inp.peak[l][e] : l \in formation, e \in Experts})
Peaks == {p \in formation \X Experts : inp.peak[p[1]][p[2]] > 0}
\* Above the 99.5th percentile of fewer than 200 readings is only the largest
\* of them, and only when it is the one.
ThreeWay == {p \in Peaks : /\ \A q \in Peaks \ {p} : inp.peak[q[1]][q[2]] < inp.peak[p[1]][p[2]]
                           /\ Cardinality(Peaks) > 1
                           /\ inp.peak[p[1]][p[2]] * 10 > Highest}
Aimer == {p \in Layers \X Experts :
             /\ p[2] \in inp.low[p[1]]
             /\ Max({inp.peak[p[1]][e] : e \in Experts}) * 10 > Highest}
TopOf(l) == {e \in Experts :
                /\ inp.peak[l][e] > 0
                /\ Cardinality({f \in Experts : \/ inp.peak[l][f] > inp.peak[l][e]
                                                \/ inp.peak[l][f] = inp.peak[l][e] /\ f < e})
                      < inp.topK}
Tags(l, e) ==
    (IF <<l, e>> \in ThreeWay THEN {"phase_c"} ELSE {})
        \cup (IF <<l, e>> \in Aimer THEN {"aimer"} ELSE {})
        \cup (IF <<l, e>> \in inp.sinks THEN {"sink_token"} ELSE {})
        \cup (IF l \in formation /\ e \in TopOf(l) THEN {"magnitude_topk"} ELSE {})
Detect ==
    /\ stagePc = "detect"
    /\ bag' = [l \in Layers |-> {e \in Experts : Tags(l, e) # {}}]
    /\ live' = {}
    /\ ProceedTo("filter")
    /\ UNCHANGED <<inp, solver, plan, phaseA, formation, blacklist, answers, grape, disk,
                   after>>

\* The ablation filter keeps the candidates whose loss hurts; off, it keeps all.
Filter ==
    /\ stagePc = "filter"
    /\ blacklist' = [l \in Layers |-> {e \in bag[l] : inp.filter = "off" \/ inp.delta[l][e] > 0}]
    /\ ProceedTo("curves")
    /\ UNCHANGED <<inp, solver, plan, phaseA, live, formation, bag, answers, grape, disk, after>>

----------------------------------------------------------------------------
\* The damage-curve plugin: the cheapest way to place the merges, and as prior
\* of a layer the damage of one merge more; infinite where none is left.
Listed(l) == Cardinality(blacklist[l])
ListedTotal == Over([l \in Layers |-> Listed(l)])
Merges == Min({Max({0, NL * NE - plan}), NL * NE - ListedTotal})
Room == [l \in Layers |-> MaxMerges(Listed(l), inp.div)]
Curves == [l \in Layers |-> DamageCurve(inp.dist[l], blacklist[l], Room[l])]
Optimum ==
    IF Merges > Over(Room) THEN {Room}
    ELSE UNION {Allocate([l \in Layers |-> 0 .. r[l]], c, g, TRUE) :
                   r \in {Room}, c \in {Curves}, g \in {Merges}}
\* A marginal damage of zero counts as a thousandth (1e-12 in the code).
PriorOf(v) ==
    [l \in Layers |-> IF v[l] >= Room[l] THEN Inf
                      ELSE Max({1, 1000 * (Curves[l][v[l] + 1] - Curves[l][v[l]])})]
Curve ==
    /\ stagePc = "curves"
    /\ IF inp.dp THEN optimum' = Optimum /\ prior' = {PriorOf(v) : v \in optimum'}
                 ELSE UNCHANGED <<optimum, prior>>
    /\ ProceedTo("grape_start")
    /\ UNCHANGED <<inp, solver, plan, phaseA, detection, rcoVec, grape, disk, after>>

----------------------------------------------------------------------------
\* GRAPE.
Goal == Max({0, plan - ListedTotal})
\* What an expert adds to the redundancy of its layer, the experts in gone aside.
PairShare(l, e, gone) == 2 * Over([f \in Experts \ (gone \cup {e}) |-> inp.dist[l][e][f]])
Redundancy(l, gone) ==
    Over([e \in Experts \ gone |->
             Over([f \in Experts \ (gone \cup {e}) |-> inp.dist[l][e][f]])])
Floor(l) == MergeableFloor(Listed(l), inp.div)

GrapeStart ==
    /\ stagePc = "grape_start"
    /\ counts' = [l \in Layers |-> NE - Listed(l)]
    /\ absorbed' = blacklist
    /\ redundancy' = [l \in Layers |-> Redundancy(l, blacklist[l])]
    /\ floorBlocked' = {l \in Layers : NE - Listed(l) <= Floor(l)}
    /\ ProceedTo("grape")
    /\ UNCHANGED <<inp, solver, plan, phaseA, detection, answers, frozen, structBlocked, iters,
                   exit, disk, after>>

\* All layers that could ever donate are frozen: they are all let go.
\* Fault: the layers blocked for good are counted as if they could thaw.
StuckAll(cold, blocked) == Layers # {} /\ cold = Layers
Stuck(cold, blocked) == blocked # Layers /\ Layers \ blocked \subseteq cold
Thawed == IF Stuck(frozen, floorBlocked \cup structBlocked) THEN {} ELSE frozen
AtFloor == {l \in Layers \ (structBlocked \cup Thawed) : counts[l] <= Floor(l)}
Blocked == floorBlocked \cup AtFloor \cup structBlocked
Score(l) == IF prior = {} THEN redundancy[l] ELSE redundancy[l] * (CHOOSE p \in prior : TRUE)[l]
Donors == {l \in Layers \ (structBlocked \cup Thawed \cup AtFloor) :
              \A p \in prior : p[l] < Inf}
Donor == CHOOSE l \in Donors :
             \A m \in Donors : Score(l) * (NL + 1) + l <= Score(m) * (NL + 1) + m
\* The closest pair that is left, the first of the flattened matrix; its second
\* expert is absorbed.
PairsLeft(l) == {p \in Experts \X Experts : p[1] # p[2] /\ {p[1], p[2]} \cap absorbed[l] = {}}
ClosestPair(l) ==
    CHOOSE p \in PairsLeft(l) : \A q \in PairsLeft(l) :
        LET rank(r) == (inp.dist[l][r[1]][r[2]] * (NE + 1) + r[1]) * (NE + 1) + r[2]
        IN  rank(p) <= rank(q)

Looping == stagePc = "grape" /\ exit = "none"
Before == NL * NE - ListedTotal
MayLoop == Looping /\ iters < 2 * NL * Before /\ Over(counts) > Goal
grapeFrame == <<inp, solver, plan, phaseA, detection, answers, disk, after>>

GrapeStops ==
    /\ Looping
    /\ MayLoop => Donors = {} /\ ~Stuck(Thawed, Blocked)
    /\ exit' = CASE Before = 0 -> "empty"
                 [] Before > 0 /\ iters >= 2 * NL * Before -> "max_iter"
                 [] iters < 2 * NL * Before /\ ~MayLoop -> "budget"
                 [] OTHER -> "no_layer"
    /\ IF MayLoop THEN frozen' = Thawed /\ floorBlocked' = floorBlocked \cup AtFloor
                  ELSE UNCHANGED <<frozen, floorBlocked>>
    /\ ProceedTo("rco")
    /\ UNCHANGED <<counts, absorbed, redundancy, structBlocked, iters, grapeFrame>>

\* The layers found at their floor in this very round were the last warm ones.
GrapeThaws ==
    /\ MayLoop /\ Donors = {} /\ Stuck(Thawed, Blocked)
    /\ frozen' = {} /\ floorBlocked' = floorBlocked \cup AtFloor /\ iters' = iters + 1
    /\ UNCHANGED <<stagePc, counts, absorbed, redundancy, structBlocked, exit, grapeFrame>>

GrapeNoPair ==
    /\ MayLoop /\ Donors # {} /\ PairsLeft(Donor) = {}
    /\ structBlocked' = structBlocked \cup {Donor}
    /\ frozen' = Thawed /\ floorBlocked' = floorBlocked \cup AtFloor /\ iters' = iters + 1
    /\ UNCHANGED <<stagePc, counts, absorbed, redundancy, exit, grapeFrame>>

\* The entropy of the counts after the merge may fall below the threshold: the
\* layer is frozen.
GrapeMerges ==
    /\ MayLoop /\ Donors # {} /\ PairsLeft(Donor) # {}
    /\ LET l == Donor
           j == ClosestPair(l)[2]
       IN  /\ redundancy' = [redundancy EXCEPT ![l] = Max({0, @ - PairShare(l, j, absorbed[l])})]
           /\ absorbed' = [absorbed EXCEPT ![l] = @ \cup {j}]
           /\ counts' = [counts EXCEPT ![l] = @ - 1]
           /\ frozen' \in {Thawed, Thawed \cup {l}}
    /\ floorBlocked' = floorBlocked \cup AtFloor /\ iters' = iters + 1
    /\ UNCHANGED <<stagePc, structBlocked, exit, grapeFrame>>

Budgets == [l \in Layers |-> counts[l] + Listed(l)]

----------------------------------------------------------------------------
\* RCO: an exact allocation over numbers of experts, its own floor, no blacklist.
\* Redundancies go into it as GRAPE reported them: of the layer before any
\* merge, scaled to the range over the layers.
RawR == [l \in Layers |-> Redundancy(l, blacklist[l])]
LowR == Min({RawR[l] : l \in Layers})
SpreadR == Max({1, Max({RawR[l] : l \in Layers}) - LowR})
RcoOptions == [l \in Layers |-> Max({NE \div 2, 1}) .. NE]
RcoDamage == [l \in Layers |-> [k \in 0 .. NE |-> (RawR[l] - LowR + SpreadR) * (NE - k)]]
Rco ==
    /\ stagePc = "rco"
    /\ \/ inp.rco = "off" /\ ProceedTo("write_blacklist") /\ UNCHANGED rcoVec
       \/ inp.rco = "auto" /\ rcoVec' = {Settle(RcoOptions, d, plan) : d \in {RcoDamage}}
          /\ ProceedTo("write_blacklist")
       \/ inp.rco = "damage_curve" /\ Reject /\ UNCHANGED rcoVec
    /\ UNCHANGED <<inp, solver, plan, phaseA, detection, optimum, prior, grape, disk, after>>

----------------------------------------------------------------------------
\* The artifacts, each whole or not there.  The filter's number of rows per
\* batch is written as an integer.
Write(a, v) == disk' = [disk EXCEPT ![a] = {v}]
Wrote == UNCHANGED <<inp, solver, plan, phaseA, detection, answers, grape, after>>
WriteBlacklist ==
    stagePc = "write_blacklist" /\ Write("blacklist", blacklist) /\ ProceedTo("write_filter") /\ Wrote
WriteFilter ==
    /\ stagePc = "write_filter"
    /\ IF inp.filter = "auto" THEN Reject /\ UNCHANGED disk
       ELSE Write("filter", bag) /\ ProceedTo("write_budgets")
    /\ Wrote
WriteBudgets ==
    stagePc = "write_budgets" /\ Write("budgets", Budgets) /\ ProceedTo("write_rco") /\ Wrote
WriteRco ==
    /\ stagePc = "write_rco"
    /\ IF rcoVec = {} THEN UNCHANGED disk ELSE disk' = [disk EXCEPT !["rco"] = rcoVec]
    /\ ProceedTo("resolve") /\ Wrote

----------------------------------------------------------------------------
\* Stage 2 merges by the budgets and leaves the mean cost of every layer it
\* finished, or nothing when it has finished and cleaned up.
Stage2Leaves ==
    /\ stagePc = "stage2"
    /\ \E done \in SUBSET Layers : \E c \in [done -> Costs \cup {Inf}] : measured' = {c}
    /\ ProceedTo("retune")
    /\ UNCHANGED <<inp, solver, plan, phaseA, detection, answers, grape, disk, retuned>>

Cost == CHOOSE c \in measured : TRUE
Old == CHOOSE b \in disk["budgets"] : TRUE
RetuneFloor(l) == LET on == CHOOSE b \in disk["blacklist"] : TRUE
                  IN  Max({NE \div inp.div, Cardinality(on[l])})
Floors == [l \in Layers |-> RetuneFloor(l)]
Signal == {l \in Layers : Cost[l] \in 1 .. Inf - 1}
\* A layer without a cost of its own is placed between the cheapest and the
\* dearest by its redundancy.  Costs are counted in 1 / SpreadR.
CostLo == Min({Cost[l] : l \in Signal})
CostHi == Max({Cost[l] : l \in Signal})
Marginal == [l \in Layers |->
                IF l \in Signal THEN Cost[l] * SpreadR
                ELSE CostLo * SpreadR + (CostHi - CostLo) * (RawR[l] - LowR)]
Damage(v, cost) == Over([l \in Layers |-> cost[l] * (NE - v[l])])

Retune ==
    /\ stagePc = "retune"
    /\ LET answer == IF DOMAIN Cost = {} THEN "no_partials"
                     ELSE IF DOMAIN Cost # Layers THEN "mismatch"
                     ELSE IF \E l \in Layers : Old[l] \notin 1 .. NE \/ Old[l] < Floors[l]
                          THEN "unsound"
                     ELSE IF Signal = {} THEN "no_signal"
                     ELSE IF Over(Old) \notin Over(Floors) .. NL * NE THEN "infeasible"
                     ELSE "written"
       IN  /\ retuned' = answer
           /\ disk' = IF answer = "written"
                      THEN [disk EXCEPT !["retuned"] = {Shed(c, f, t) : c \in {Marginal}, f \in {Floors},
                                                                   t \in {Over(Old)}}]
                      ELSE disk
    /\ ProceedTo("done")
    /\ UNCHANGED <<inp, solver, plan, phaseA, detection, answers, grape, measured>>

Stage1Next ==
    \/ SolveStart \/ SolveRound \/ SolveSettled
    \/ StartPhaseA \/ PhaseABatch \/ OutOfMemory \/ EndPhaseA
    \/ ReadSidecars \/ Detect \/ Filter \/ Curve
    \/ GrapeStart \/ GrapeStops \/ GrapeThaws \/ GrapeNoPair \/ GrapeMerges
    \/ Rco \/ WriteBlacklist \/ WriteFilter \/ WriteBudgets \/ WriteRco
    \/ Stage2Leaves \/ Retune
    \/ stagePc \in {"done", "failed"} /\ UNCHANGED stage1Vars

\* One process; it goes on as long as it has not ended.
Stage1Spec == Stage1Init /\ [][Stage1Next]_stage1Vars /\ WF_stage1Vars(Stage1Next)

----------------------------------------------------------------------------
\* When Phase A is over its statistics have counted every calibration sample
\* exactly once, however often the memory ran out on the way
\* (utils/auto_batch.py, run_with_oom_backoff; ma_detection.py).
StatsWhole == stagePc \notin {"solve", "phase_a", "failed"} /\ formation # {} => seen = Samples

\* All through GRAPE the count of a layer is what is not yet absorbed, no
\* blacklisted expert is absorbed by another, the redundancy that is reduced
\* merge by merge is the sum over the experts left, and no layer is taken below
\* its floor (grape_merge.py, _grape_greedy_merge).
Bookkeeping ==
    stagePc = "grape" => \A l \in Layers :
        /\ counts[l] = NE - Cardinality(absorbed[l])
        /\ blacklist[l] \subseteq absorbed[l]
        /\ redundancy[l] = Redundancy(l, absorbed[l])
        /\ counts[l] + Listed(l) >= LayerFloor(Listed(l), inp.div)

\* GRAPE without infinite priors stops only where the budget is met exactly (or
\* was met from the start) or every layer is down to its floor or has no pair
\* left: freezing layers for the entropy never ends it early, nor does the bound
\* on the iterations.
BudgetReached ==
    exit # "none" /\ (\A p \in prior : \A l \in Layers : p[l] < Inf) =>
        \/ Over(counts) = Min({Goal, Before})
        \/ Over(counts) > Goal /\ \A l \in Layers : counts[l] <= Floor(l) \/ PairsLeft(l) = {}

\* The two dynamic programs are exact: no other placement of the merges costs
\* less on the curves, no other budgets of the same total cost less on RCO's
\* grid, and RCO misses the wanted total only where no choice meets it.
AllocationsOptimal ==
    /\ stagePc = "grape_start" => \A v \in optimum :
           \A c \in {Curves}, r \in {Room} :
           LET cost(w) == Over([l \in Layers |-> c[l][w[l]]])
               all == {w \in [Layers -> 0 .. NE] :
                          Over(w) = Min({Merges, Over(r)}) /\ \A l \in Layers : w[l] <= r[l]}
           IN  v \in all /\ \A w \in all : cost(v) <= cost(w)
    /\ stagePc = "write_blacklist" => \A v \in rcoVec :
           \A d \in {RcoDamage} :
           LET cost(w) == Over([l \in Layers |-> d[l][w[l]]])
               all == {w \in [Layers -> 0 .. NE] : \A l \in Layers : w[l] \in RcoOptions[l]}
           IN  /\ v \in all
               /\ Over(v) # plan => \A w \in all : Over(w) # plan
               /\ \A w \in all : Over(w) = Over(v) => cost(v) <= cost(w)

\* What Stage 1 wrote is always fit for budget_retune, and what that writes has
\* the same total, keeps every floor and protected expert and is the cheapest
\* such choice, so never worse than what Stage 1 wrote (budget_retune.py).
RetuneSound ==
    /\ retuned \notin {"unsound", "infeasible"}
    /\ \A v \in disk["retuned"] :
           \A c \in {Marginal}, old \in disk["budgets"] :
           LET all == {w \in [Layers -> 0 .. NE] :
                          Over(w) = Over(old)
                              /\ \A l \in Layers : w[l] >= LayerFloor(Listed(l), inp.div)}
           IN  v \in all /\ old \in all /\ \A w \in all : Damage(v, c) <= Damage(w, c)

\* What Stage 1 counts is right at any moment: samples, merges, redundancy.
CountsExact == StatsWhole /\ Bookkeeping

\* The budgets it gives out are reached, optimal, and fit to be retuned.
BudgetsSound == BudgetReached /\ AllocationsOptimal /\ RetuneSound
=============================================================================
