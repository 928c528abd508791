----------------------------- MODULE Factorize -----------------------------
(***************************************************************************)
(* Stage 3 after its covariances, and Stage 4: every expert matrix becomes *)
(* a pair of low-rank factors, and the residual gets a few ranks back.     *)
(*                                                                         *)
(* Stage 3 scores the experts (optional), divides the ranks over groups,   *)
(* snapshots the originals, and tries each alpha of the grid on the model  *)
(* itself (or in replica processes that each own a slice of the grid):     *)
(* factor all layers, measure, put the originals back.  With the best      *)
(* alpha it factors the layers for good, refines them block after block    *)
(* against the teacher with a checkpoint per block, and saves.  Stage 4    *)
(* widens each layer from the saved originals, with a spill per layer, and *)
(* deletes its inputs at the end.  A process may die anywhere; the         *)
(* operator starts the next one at the stage whose output is missing.      *)
(*                                                                         *)
(* An artifacts directory belongs to one configuration.  The covariances   *)
(* of Stage 3 are complete here; how they get there is module Stage3Cov.   *)
(***************************************************************************)
EXTENDS RankAllocation

CONSTANTS
    Configs,   \* configurations, with what is measured under them
    ReplicaChoices,  \* what _resolve_alpha_workers may return
    MaxRuns    \* bound: processes, of which the last is left alone

Replicas == UNION {1 .. n : n \in ReplicaChoices}
Sidecars == {"wanda", "originals", "shift"}
\* What is tried, measured in full, and by proxy; what comes out of no search.
NoAlpha == [m \in Matrices |-> -1]
NoRanks == [g \in Groups |-> 0]
Unscored == [g \in Groups |-> [e \in Experts |-> 0]]

ASSUME RunsAssumption ==
    MaxRuns \in Nat \ {0} /\ ReplicaChoices # {} /\ ReplicaChoices \subseteq Nat \ {0}
ASSUME ConfigsAssumption ==
    Configs \subseteq
      [weight : [Groups -> Nat \ {0}], percent : 0 .. 99,
       search : {"none", "proxy", "validation"}, perType : BOOLEAN,
       ppl : [Grid -> Nat], err : [Grid -> [Matrices -> Nat]],
       score : [0 .. NumAlphas -> [Groups -> [Experts -> Nat \ {0}]]],
       refine : BOOLEAN, cached : SUBSET Layers, wanda : {"off", "live", "cached"},
       extra : 0 .. 100, limit : Nat, whitening : {"anchor", "shift", "anchored_adaptive"}]
\* Only a grid of several alphas is searched.
ASSUME GridAssumption == \A c \in Configs : c.search # "none" => NumAlphas > 1

VARIABLES
    cfg,       \* configuration of the artifacts directory
    run, resuming, replicas,  \* the process, ~no_resume, its alpha workers
    pc, at,    \* where it is, and at which layer
    ranks,     \* rank of each group
    alpha,     \* alpha_by_type
    share,     \* per_expert_ranks
    experts,   \* the experts of each layer, as they are in memory
    measured,  \* alphas whose perplexity this search has
    trying,    \* alpha the model is factored for, 0 for none
    left, rep, \* of each replica: candidates left, and its state
    pending,   \* layer the prefetcher has read or is reading, 0 for none
    stream,    \* marks of the blocks the student's stream has passed
    teacher,   \* blocks the teacher's stream has passed
    mapped, params,  \* Stage 4: rank_map and compensated_params
    files,     \* sidecars with a manifest: none, bare or whole
    eigh,      \* eigh caches of the search: in process (0) and of each replica
    slices,    \* result files of the replicas: the alphas in each
    disk       \* the other files

settings == <<cfg, run, resuming, replicas>>
memory == <<ranks, alpha, share>>
search == <<measured, trying, left, rep>>
streams == <<pending, stream, teacher>>
totals == <<mapped, params>>
caches == <<eigh, slices>>
vars == <<settings, pc, at, memory, experts, search, streams, totals, files, caches, disk>>

\* The experts of a layer: fused (the originals), or factored with the alpha and
\* the widths given, refined on a stream or not, widened by so many ranks or not.
Fused == [kind |-> "fused", alpha |-> NoAlpha, refined |-> FALSE, on |-> <<>>,
          width |-> [m \in Matrices |-> 0], added |-> [m \in Matrices |-> 0],
          whitened |-> FALSE]
Factored(a, k) == [Fused EXCEPT !.kind = "factored", !.alpha = a, !.width = k]
Originals == [l \in Layers |-> Fused]
NoFiles == Originals  \* a file per layer, absent where it says fused
Single(a) == [m \in Matrices |-> a]

\* What a process holds in memory when it starts with these experts.
Fresh(loaded) ==
    /\ ranks' = NoRanks /\ alpha' = NoAlpha /\ share' = Unscored
    /\ experts' = loaded /\ measured' = {} /\ trying' = 0
    /\ left' = [r \in Replicas |-> {}] /\ rep' = [r \in Replicas |-> "off"]
    /\ pending' = 0 /\ stream' = <<>> /\ teacher' = 0 /\ mapped' = {} /\ params' = 0
NoCaches == [d \in {0} \cup Replicas |-> "none"]

Init ==
    /\ cfg \in Configs /\ run = 0 /\ resuming = TRUE /\ replicas = 1
    /\ pc = "off" /\ at = 1
    /\ ranks = NoRanks /\ alpha = NoAlpha /\ share = Unscored
    /\ experts = Originals /\ measured = {} /\ trying = 0
    /\ left = [r \in Replicas |-> {}] /\ rep = [r \in Replicas |-> "off"]
    /\ pending = 0 /\ stream = <<>> /\ teacher = 0 /\ mapped = {} /\ params = 0
    /\ files = [f \in Sidecars |-> "none"]
    /\ eigh = NoCaches /\ slices = [r \in Replicas |-> {}]
    /\ disk = [alpha |-> NoAlpha, blocks |-> NoFiles, stage3 |-> {}, ranks3 |-> FALSE,
               spills |-> NoFiles, stage4 |-> {}, ranks4 |-> {}, acov |-> TRUE]

GoTo(p) == pc' = p /\ at' = 1
Fail == pc' = "failed" /\ UNCHANGED at
\* On to the next layer, or from the last one to p.
NextLayer(p) == IF at < NumLayers THEN at' = at + 1 /\ UNCHANGED pc ELSE GoTo(p)

----------------------------------------------------------------------------
\* A process begins with Stage 3 while its output, or the shift covariance
\* Stage 4 is to whiten with, is missing; otherwise with Stage 4.
Stage3Missing ==
    \/ disk.stage3 = {} \/ ~disk.ranks3
    \/ cfg.whitening # "anchor" /\ files["shift"] = "none"
Start(again, workers) ==
    /\ pc \in {"off", "crashed", "failed"} /\ run < MaxRuns
    /\ \A r \in Replicas : rep[r] # "works"
    /\ run' = run + 1 /\ resuming' = again /\ replicas' = workers
    /\ \/ Stage3Missing /\ GoTo("wanda") /\ Fresh(Originals)
          /\ eigh' = IF again THEN eigh ELSE NoCaches
       \/ ~Stage3Missing /\ GoTo("inputs") /\ UNCHANGED eigh
          /\ \E loaded \in disk.stage3 : Fresh(loaded)
    /\ UNCHANGED <<cfg, files, slices, disk>>

\* A sidecar is replaced without its manifest, then gets it.
Publish(f) == files' = [files EXCEPT ![f] = "bare"]
Seal(f) == files' = [files EXCEPT ![f] = "whole"]

ScoreExperts ==
    /\ pc = "wanda"
    /\ IF cfg.wanda = "off" THEN GoTo("ranks") /\ UNCHANGED files
       ELSE GoTo("wanda_manifest") /\ Publish("wanda")
    /\ UNCHANGED <<settings, memory, experts, search, streams, totals, caches, disk>>
SealScores ==
    /\ pc = "wanda_manifest" /\ Seal("wanda") /\ GoTo("ranks")
    /\ UNCHANGED <<settings, memory, experts, search, streams, totals, caches, disk>>

AllocateRanks ==
    /\ pc = "ranks" /\ GoTo("originals")
    /\ ranks' \in {Allocate(cfg.weight, T) : T \in {Budget(cfg.percent)}}
    /\ UNCHANGED <<settings, alpha, share, experts, search, streams, totals, files, caches, disk>>

SaveOriginals ==
    /\ pc = "originals" /\ Publish("originals") /\ GoTo("originals_manifest")
    /\ UNCHANGED <<settings, memory, experts, search, streams, totals, caches, disk>>
SealOriginals ==
    /\ pc = "originals_manifest" /\ Seal("originals") /\ GoTo("preflight")
    /\ UNCHANGED <<settings, memory, experts, search, streams, totals, caches, disk>>

\* The validation search wants free host memory.
Preflight ==
    /\ pc = "preflight"
    /\ \/ GoTo("alpha")
       \/ cfg.search = "validation" /\ run < MaxRuns /\ Fail
    /\ UNCHANGED <<settings, memory, experts, search, streams, totals, files, caches, disk>>

----------------------------------------------------------------------------
\* The choice of alpha.
SharesOf(a) ==
    [g \in Groups |-> Redistribute(g[2], ranks[g], cfg.score[a[g[2]]][g])]
ProxyAlpha ==
    [m \in Matrices |->
        Proxy([a \in Grid |-> IF cfg.perType THEN cfg.err[a][m] ELSE Over(cfg.err[a])])]
Choose(a) == alpha' \in {a} /\ share' = SharesOf(alpha') /\ GoTo("save_alpha")
\* What the measured perplexities decide; per type they are only logged.
Decide(done) ==
    Choose(IF cfg.perType THEN ProxyAlpha ELSE Single(Argmin(done, cfg.ppl)))
Saved == resuming /\ cfg.search # "none" /\ disk.alpha # NoAlpha

UseSaved ==
    /\ pc = "alpha" /\ Saved /\ Choose(disk.alpha)
    /\ UNCHANGED <<settings, ranks, experts, search, streams, totals, files, caches, disk>>
NoSearch ==
    /\ pc = "alpha" /\ ~Saved /\ cfg.search # "validation"
    /\ \/ cfg.search = "none" /\ GoTo("save_alpha") /\ UNCHANGED <<alpha, share>>
       \/ cfg.search = "proxy" /\ Choose(ProxyAlpha)
    /\ UNCHANGED <<settings, ranks, experts, search, streams, totals, files, caches, disk>>

\* Fault: the cache directory of an earlier process is taken over.
SearchBeginsOver ==
    /\ pc = "alpha" /\ ~Saved /\ cfg.search = "validation" /\ replicas = 1
    /\ GoTo("search") /\ measured' = {}
    /\ UNCHANGED <<settings, memory, experts, trying, left, rep, streams, totals, files, caches, disk>>
SearchBegins ==
    /\ pc = "alpha" /\ ~Saved /\ cfg.search = "validation" /\ replicas = 1
    /\ GoTo("search") /\ measured' = {} /\ eigh' = NoCaches
    /\ UNCHANGED <<settings, memory, experts, trying, left, rep, streams, totals, files, slices, disk>>

\* All layers at the ranks of the next alpha.  The first candidate writes the
\* decompositions of the gate and up projections, the others read them; a torn
\* file does not load, and a layer that is factored already has no weights.
FactorCandidate ==
    /\ pc = "search" /\ trying = 0 /\ measured # Grid
    /\ IF eigh[0] = "torn" \/ \E l \in Layers : experts[l].kind # "fused"
       THEN Fail /\ eigh' = NoCaches /\ UNCHANGED <<experts, trying>>
       ELSE /\ trying' = Min(Grid \ measured) /\ UNCHANGED <<pc, at>>
            /\ experts' = [l \in Layers |-> Factored(Single(trying'), Fused.width)]
            /\ eigh' = [eigh EXCEPT ![0] = "whole"]
    /\ UNCHANGED <<settings, memory, measured, left, rep, streams, totals, files, slices, disk>>
Restored == [l \in Layers |-> Fused]
MeasureCandidate ==
    /\ pc = "search" /\ trying # 0 /\ trying' = 0
    /\ measured' = measured \cup {trying} /\ experts' = Restored
    /\ UNCHANGED <<settings, pc, at, memory, left, rep, streams, totals, files, caches, disk>>
MeasureFails ==
    /\ pc = "search" /\ trying # 0 /\ run < MaxRuns /\ Fail /\ eigh' = NoCaches
    /\ UNCHANGED <<settings, memory, experts, search, streams, totals, files, slices, disk>>
SearchEnds ==
    /\ pc = "search" /\ trying = 0 /\ measured = Grid
    /\ Decide(measured) /\ eigh' = NoCaches
    /\ UNCHANGED <<settings, ranks, experts, search, streams, totals, files, slices, disk>>

\* The same search in replica processes, each with its own model and cache.
Slice(r) == {a \in Grid : (a - 1) % replicas = r - 1}
Spawned == {r \in Replicas : r <= replicas /\ Slice(r) # {}}
SpawnReplicas ==
    /\ pc = "alpha" /\ ~Saved /\ cfg.search = "validation" /\ replicas > 1
    /\ GoTo("replicas")
    /\ left' = [r \in Replicas |-> IF r \in Spawned THEN Slice(r) ELSE {}]
    /\ rep' = [r \in Replicas |-> IF r \in Spawned THEN "works" ELSE "off"]
    /\ eigh' = [d \in {0} \cup Replicas |-> IF d \in Spawned THEN "none" ELSE eigh[d]]
    /\ UNCHANGED <<settings, memory, experts, measured, trying, streams, totals, files, slices, disk>>
ReplicaMeasures(r) ==
    /\ rep[r] = "works" /\ left[r] # {}
    /\ left' = [left EXCEPT ![r] = @ \ {Min(@)}]
    /\ eigh' = [eigh EXCEPT ![r] = "whole"]
    /\ UNCHANGED <<settings, pc, at, memory, experts, measured, trying, rep, streams, totals,
                   files, slices, disk>>
ReplicaReports(r) ==
    /\ rep[r] = "works" /\ left[r] = {} /\ rep' = [rep EXCEPT ![r] = "done"]
    /\ slices' = [slices EXCEPT ![r] = Slice(r)]
    /\ UNCHANGED <<settings, pc, at, memory, experts, measured, trying, left, streams, totals,
                   files, eigh, disk>>
ReplicaFails(r) ==
    /\ rep[r] = "works" /\ run < MaxRuns /\ rep' = [rep EXCEPT ![r] = "failed"]
    /\ UNCHANGED <<settings, pc, at, memory, experts, measured, trying, left, streams, totals,
                   files, caches, disk>>

\* The parent joins one replica after the other; one that failed is an error,
\* and the others run on until the interpreter has joined them.
\* Fault: the exit codes are not looked at.
JoinAnyway ==
    /\ pc = "replicas" /\ at \in Spawned /\ rep[at] \in {"done", "failed"}
    /\ at' = at + 1 /\ UNCHANGED <<pc, eigh>>
    /\ UNCHANGED <<settings, memory, experts, search, streams, totals, files, slices, disk>>
Join ==
    /\ pc = "replicas" /\ at \in Spawned
    /\ \/ rep[at] = "done" /\ at' = at + 1 /\ UNCHANGED <<pc, eigh>>
       \/ rep[at] = "failed" /\ Fail /\ eigh' = NoCaches
    /\ UNCHANGED <<settings, memory, experts, search, streams, totals, files, slices, disk>>
MergeSlices ==
    /\ pc = "replicas" /\ at \notin Spawned
    /\ measured' = UNION {slices[r] : r \in Spawned}
    /\ Decide(measured') /\ eigh' = NoCaches
    /\ UNCHANGED <<settings, ranks, experts, trying, left, rep, streams, totals, files, slices, disk>>

SaveAlpha ==
    /\ pc = "save_alpha" /\ GoTo("factor")
    /\ disk' = IF resuming THEN [disk EXCEPT !.alpha = alpha] ELSE disk
    /\ UNCHANGED <<settings, memory, experts, search, streams, totals, files, caches>>

----------------------------------------------------------------------------
\* The layers, for good.  The covariance of the next layer is read ahead.
\* The width of a factor: the largest rank of an expert.
Slot(l, m) == IF cfg.search = "none" THEN ranks[<<l, m>>]
              ELSE Max({share[<<l, m>>][e] : e \in Experts})
Consume == pending' = IF at < NumLayers THEN at + 1 ELSE 0
FactorLayer ==
    /\ pc = "factor"
    /\ IF experts[at].kind # "fused" THEN Fail /\ UNCHANGED <<experts, pending>>
       ELSE /\ experts' = [experts EXCEPT ![at] = Factored(alpha, [m \in Matrices |-> Slot(at, m)])]
            /\ Consume /\ NextLayer(IF cfg.refine THEN "capture" ELSE "save3")
    /\ UNCHANGED <<settings, memory, search, stream, teacher, totals, files, caches, disk>>
CaptureStreams ==
    /\ pc = "capture" /\ GoTo("refine") /\ stream' = <<>> /\ teacher' = 0
    /\ UNCHANGED <<settings, memory, experts, search, pending, totals, files, caches, disk>>
\* Both streams pass the block as it is now.
Advance ==
    /\ stream' = Append(stream, experts'[at].refined)
    /\ teacher' = teacher + 1
    /\ NextLayer("refined")
Checkpointed == resuming /\ disk.blocks[at] # Fused
ResumeBlock ==
    /\ pc = "refine" /\ Checkpointed
    /\ experts' = [experts EXCEPT ![at] = disk.blocks[at]]
    /\ Advance
    /\ UNCHANGED <<settings, memory, search, pending, totals, files, caches, disk>>
\* A block is trained on what the student's stream carries now, towards the
\* targets of the cache or of the teacher's stream, which is as far.
TrainBlock ==
    /\ pc = "refine" /\ ~Checkpointed
    /\ at \in cfg.cached \/ teacher = at - 1
    /\ experts' = [experts EXCEPT ![at].refined = TRUE, ![at].on = stream]
    /\ disk' = IF resuming THEN [disk EXCEPT !.blocks[at] = experts'[at]] ELSE disk
    /\ Advance
    /\ UNCHANGED <<settings, memory, search, pending, totals, files, caches>>
RefineEnds ==
    /\ pc = "refined" /\ GoTo("save3")
    /\ disk' = IF resuming THEN [disk EXCEPT !.blocks = NoFiles] ELSE disk
    /\ UNCHANGED <<settings, memory, experts, search, streams, totals, files, caches>>

SaveStage3 ==
    /\ pc = "save3" /\ disk' = [disk EXCEPT !.stage3 = {experts}] /\ GoTo("ranks3")
    /\ UNCHANGED <<settings, memory, experts, search, streams, totals, files, caches>>
SaveRankMap ==
    /\ pc = "ranks3" /\ disk' = [disk EXCEPT !.ranks3 = TRUE]
    /\ GoTo(IF cfg.whitening = "anchor" THEN "clean3" ELSE "shift")
    /\ UNCHANGED <<settings, memory, experts, search, streams, totals, files, caches>>
SaveShift ==
    /\ pc = "shift" /\ Publish("shift") /\ GoTo("shift_manifest")
    /\ UNCHANGED <<settings, memory, experts, search, streams, totals, caches, disk>>
SealShift ==
    /\ pc = "shift_manifest" /\ Seal("shift") /\ GoTo("clean3")
    /\ UNCHANGED <<settings, memory, experts, search, streams, totals, caches, disk>>
Clean3 ==
    /\ pc = "clean3" /\ eigh' = NoCaches /\ GoTo("inputs")
    /\ UNCHANGED <<settings, memory, experts, search, streams, totals, files, slices, disk>>

----------------------------------------------------------------------------
\* Stage 4.
LoadInputs ==
    /\ pc = "inputs"
    /\ IF files["originals"] = "none" \/ (cfg.whitening # "anchor" /\ files["shift"] = "none")
       THEN Fail ELSE GoTo("compensate")
    /\ UNCHANGED <<settings, memory, experts, search, streams, totals, files, caches, disk>>

Width(l, m) == experts[l].width[m] + experts[l].added[m]
Counted(added) == Over([m \in Matrices |-> NumExperts * added[m] * Sides(m)])
Spilled == resuming /\ disk.spills[at] # Fused
\* Fault: a layer from a spill is not counted.
AccountNew(added) ==
    /\ mapped' = mapped \cup {at}
    /\ params' = params + IF Spilled THEN 0 ELSE Counted(added)
    /\ NextLayer("save4")
Account(added) ==
    /\ mapped' = mapped \cup {at}
    /\ params' = params + Counted(added)
    /\ NextLayer("save4")
ResumeLayer ==
    /\ pc = "compensate" /\ Spilled
    /\ experts' = [experts EXCEPT ![at] = disk.spills[at]]
    /\ Account(disk.spills[at].added)
    /\ UNCHANGED <<settings, memory, search, streams, files, caches, disk>>
CompensateLayer ==
    /\ pc = "compensate" /\ ~Spilled
    /\ \E extra \in {[m \in Matrices |-> Extra(m, Width(at, m), cfg.extra, cfg.limit)]} :
        /\ experts' = [experts EXCEPT ![at].added = [m \in Matrices |-> @[m] + extra[m]],
                                      ![at].whitened = disk.acov]
        /\ Account(extra)
    /\ disk' = IF resuming THEN [disk EXCEPT !.spills[at] = experts'[at]] ELSE disk
    /\ UNCHANGED <<settings, memory, search, streams, files, caches>>
SaveStage4 ==
    /\ pc = "save4" /\ disk' = [disk EXCEPT !.stage4 = {experts}] /\ GoTo("ranks4")
    /\ UNCHANGED <<settings, memory, experts, search, streams, totals, files, caches>>
SaveRanks4 ==
    /\ pc = "ranks4" /\ GoTo("clean4")
    /\ disk' = [disk EXCEPT !.ranks4 = {[mapped |-> mapped, params |-> params]}]
    /\ UNCHANGED <<settings, memory, experts, search, streams, totals, files, caches>>
RemoveSpills ==
    /\ pc = "clean4" /\ GoTo("delete_originals")
    /\ disk' = IF resuming THEN [disk EXCEPT !.spills = NoFiles] ELSE disk
    /\ UNCHANGED <<settings, memory, experts, search, streams, totals, files, caches>>
DeleteOriginals ==
    /\ pc = "delete_originals" /\ files' = [files EXCEPT !["originals"] = "none"]
    /\ GoTo("delete_cov")
    /\ UNCHANGED <<settings, memory, experts, search, streams, totals, caches, disk>>
DeleteCov ==
    /\ pc = "delete_cov" /\ disk' = [disk EXCEPT !.acov = FALSE] /\ GoTo("done")
    /\ UNCHANGED <<settings, memory, experts, search, streams, totals, files, caches>>

----------------------------------------------------------------------------
\* The process and its replicas are killed; a decomposition being written stays
\* torn.
Writing == {d \in {0} \cup Replicas :
               /\ eigh[d] = "none"
               /\ IF d = 0 THEN pc = "search" /\ trying = 0 ELSE rep[d] = "works"}
Crash ==
    /\ pc \notin {"off", "done", "crashed", "failed"} /\ run < MaxRuns
    /\ pc' = "crashed" /\ at' = 1 /\ Fresh(Originals)
    /\ \E torn \in SUBSET Writing :
           eigh' = [d \in {0} \cup Replicas |-> IF d \in torn THEN "torn" ELSE eigh[d]]
    /\ UNCHANGED <<settings, files, slices, disk>>

Main ==
    \/ ScoreExperts \/ SealScores \/ AllocateRanks \/ SaveOriginals \/ SealOriginals \/ Preflight
    \/ UseSaved \/ NoSearch \/ SearchBegins \/ FactorCandidate \/ MeasureCandidate \/ SearchEnds
    \/ SpawnReplicas \/ Join \/ MergeSlices \/ SaveAlpha
    \/ FactorLayer \/ CaptureStreams \/ ResumeBlock \/ TrainBlock \/ RefineEnds
    \/ SaveStage3 \/ SaveRankMap \/ SaveShift \/ SealShift \/ Clean3
    \/ LoadInputs \/ ResumeLayer \/ CompensateLayer \/ SaveStage4 \/ SaveRanks4
    \/ RemoveSpills \/ DeleteOriginals \/ DeleteCov
Replica(r) == ReplicaMeasures(r) \/ ReplicaReports(r)
StartAny == \E again \in BOOLEAN, workers \in ReplicaChoices : Start(again, workers)
Finished ==
    /\ pc = "done" \/ (run = MaxRuns /\ pc = "failed")
    /\ UNCHANGED vars
Next ==
    \/ Main \/ MeasureFails \/ Crash \/ StartAny \/ Finished
    \/ \E r \in Replicas : Replica(r) \/ ReplicaFails(r)

Spec == Init /\ [][Next]_vars
\* What runs whenever it can: the stages, the replicas, the operator.
Work == Main \/ StartAny \/ \E r \in Replicas : Replica(r)

----------------------------------------------------------------------------
Expected == CASE cfg.search = "none" -> NoAlpha
              [] cfg.search = "proxy" \/ (cfg.search = "validation" /\ cfg.perType) -> ProxyAlpha
              [] OTHER -> Single(Argmin(Grid, cfg.ppl))

\* The ranks add up to the budget as far as the bounds of the groups allow, and
\* no group is further below its share than another is above, by more than one.
RanksWithinBudget ==
    pc = "originals" =>
      LET T == Budget(cfg.percent)
          W == Over(cfg.weight)
          most == Over([g \in Groups |-> Cap(g[2])])
      IN  /\ Over(ranks) = Least(Most(T, Cardinality(Groups)), most)
          /\ \A g \in Groups : ranks[g] \in 1 .. Cap(g[2])
          /\ \A g, h \in Groups : ranks[g] < Cap(g[2]) /\ ranks[h] > 1 =>
                (cfg.weight[g] * T - ranks[g] * W) - (cfg.weight[h] * T - ranks[h] * W) <= W

\* Redistribution keeps a group's total (except for half a rank per expert that
\* an odd rank loses), a floor and a ceiling, and the order of the scores.
SharesFair ==
    (pc = "save_alpha" /\ cfg.search # "none") =>
      \A g \in Groups :
        LET k == ranks[g]  per == share[g]  s == cfg.score[alpha[g[2]]][g] IN
        /\ \A e \in Experts : per[e] \in Kept(k) .. Most(Kept(k), Cap(g[2]))
        /\ \A e, f \in Experts : s[e] > s[f] => per[e] >= per[f]
        /\ k > 1 => Over(per) <= k * NumExperts
        /\ k > 1 /\ (\A e \in Experts : per[e] < Cap(g[2])) =>
              Over(per) >= k * NumExperts - (IF k % 2 = 0 THEN 0 ELSE NumExperts \div 2)

\* The ranks meet the budget, and the experts of a group share theirs fairly.
RanksFair == RanksWithinBudget /\ SharesFair

\* Every layer is factored from its original weights at the best alpha of the
\* whole grid, whatever workers there were and whatever died before.
BestAlpha ==
    /\ pc \in {"save_alpha", "factor"} => alpha = Expected
    /\ pc = "save_alpha" => experts = Originals
    /\ \A saved \in disk.stage3 : \A l \in Layers :
          saved[l].kind = "factored" /\ saved[l].alpha = Expected

\* A refined block was trained on a stream that had passed the refined blocks
\* before it, also when they came from checkpoints.
RefinedInOrder ==
    \A saved \in disk.stage3 : \A l \in Layers :
        IF cfg.refine THEN saved[l].refined /\ saved[l].on = [i \in 1 .. l - 1 |-> TRUE]
        ELSE ~saved[l].refined

\* Each layer of the Stage 4 model has the ranks of Stage 3 and the extra ones
\* once, whitened, and the report counts every layer once.
WidenedOnce ==
    \A saved \in disk.stage4 :
        /\ \A l \in Layers : /\ saved[l].whitened
                             /\ \A m \in Matrices :
                                   saved[l].added[m] = Extra(m, saved[l].width[m], cfg.extra, cfg.limit)
        /\ \A report \in disk.ranks4 :
              /\ report.mapped = Layers
              /\ report.params = Over([l \in Layers |-> Counted(saved[l].added)])

\* Every layer is factored once from its originals, refined after the blocks
\* before it, and widened once.
LayersOnce == RefinedInOrder /\ WidenedOnce
=============================================================================
