--------------------------- MODULE Stage2Partial ---------------------------
(***************************************************************************)
(* Crash-resume of Stage 2 (REAP scoring + REAM merging), the longest step *)
(* of the pipeline.  One process walks the MoE layers in order; each layer *)
(* is profiled on top of the layers already merged, its experts are merged *)
(* in memory, and the outcome is written to _stage2_partial/ as            *)
(*                                                                         *)
(*    layer_i.pt            remapped input covariance                      *)
(*    _neuron_means_i.pt    activation means used by permutation alignment *)
(*    _heal_weights_i.pt    weights after the optional merge-heal          *)
(*    merge_i.json          the merge plan: the claim "layer i is done"    *)
(*                                                                         *)
(* in that order, each by tmp + fsync + rename (utils/atomic_io.py). The     *)
(* process may be killed between any two steps.  The next run deletes the  *)
(* orphans, replays the recorded merges onto a fresh model and goes on     *)
(* with the first layer not recorded; when every layer is merged it        *)
(* publishes the covariance, the checkpoint and merge_map.json, and only   *)
(* then deletes _stage2_partial/.                                          *)
(*                                                                         *)
(* Files and merges carry the number of the run that made them: a run is   *)
(* deterministic data to this module, so "same run" is "same bytes".       *)
(***************************************************************************)
EXTENDS Naturals, FiniteSets

CONSTANTS
    NumLayers,     \* MoE layers, indexed 0 .. NumLayers - 1
    MaxRuns,       \* bound: runs of stage2.run(), numbered from 1
    Merging,       \* layers in which at least one expert is merged away
    Covered,       \* layers whose covariance accumulator has entries
    Sampled,       \* layers whose accumulator has neuron means
    Settings,      \* what an operator may configure for the directory's runs
    AllowNoResume, \* the operator may pass --no-resume
    KeepPartial    \* MOE_KEEP_STAGE2_PARTIAL=1

Layers == 0 .. NumLayers - 1
Runs == 1 .. MaxRuns
NoRun == 0                              \* "no such file", "not merged"
Stamp == Runs \cup {NoRun}

ASSUME SizesAssumption == NumLayers \in Nat \ {0} /\ MaxRuns \in Nat \ {0}
ASSUME LayersAssumption ==
    Merging \subseteq Layers /\ Covered \subseteq Layers /\ Sampled \subseteq Layers
ASSUME SwitchesAssumption ==
    AllowNoResume \in BOOLEAN /\ KeepPartial \in BOOLEAN

\* A configuration of the stage: merge_step, ream.frequency_weighted_merge
\* turned off (saliency weights), expert distillation, merge_heal_enabled.
Setting == [step: {"freq_weighted", "regmean", "mergemoe"},
            saliency: BOOLEAN, distill: BOOLEAN, heal: BOOLEAN]
ASSUME SettingsAssumption == Settings \subseteq Setting /\ Settings # {}

\* What a layer's plan was decided on: the plans of the layers below it and
\* the layers whose mean cost was in the history of the cost gate.
Basis == [plans: [Layers -> Stamp], costs: SUBSET Layers]

\* A merge plan, as _run_assignment leaves it: the run that decided it,
\* whether its mean cost counts in the history, and what it was decided on.
Plan == [run: Runs, counted: BOOLEAN, basis: Basis]
NoPlan == [run |-> NoRun, counted |-> FALSE,
           basis |-> [plans |-> [l \in Layers |-> NoRun], costs |-> {}]]

\* A layer of the model in memory: the plan applied to it, the runs whose
\* covariance, neuron means and healed weights it carries, and how the experts
\* of its groups were merged: as configured, or averaged by frequency because
\* a replay knows no other way.
Layer == [plan: Plan \cup {NoPlan}, cov: Stamp, means: Stamp, heal: Stamp,
          by: {"none", "configured", "average"}]
Original == [plan |-> NoPlan, cov |-> NoRun, means |-> NoRun, heal |-> NoRun,
             by |-> "none"]

VARIABLES
    setting,          \* the configuration, the same for every run
    pt, means, heal,  \* _stage2_partial/: the run that wrote each .pt, or NoRun
    json,             \* _stage2_partial/merge_i.json: the plan, or NoPlan
    cov, manifest,    \* _stage2_input_covariance.pt and its manifest
    meta, weights,    \* stage2_pruned/: compressed_metadata.json; the shards
    map,              \* stage2_pruned/merge_map.json
    run,              \* number of the current or latest run
    resuming,         \* it was started without --no-resume
    pc,               \* where the process is
    cur,              \* the layer it is at
    model,            \* the model in memory
    history,          \* _layer_mean_costs: the layers counted in it
    todo,             \* the files of layer cur still to be written, in order
    ragged            \* history variable: the run works on what an rmtree of
                      \* _stage2_partial/ that did not finish left behind

partial == <<pt, means, heal, json>>
published == <<cov, manifest, meta, weights, map>>
process == <<run, resuming, setting, pc, cur, model, history, todo>>
vars == <<partial, published, process, ragged>>

Kinds == {"pt", "means", "heal", "json"}

HealEnabled == setting.heal

\* Merging as configured is not the average by frequency a replay falls back to.
Lossy == setting.step # "freq_weighted" \/ setting.distill

\* discover_completed_layers: both files present.
Complete(l) == json[l] # NoPlan /\ pt[l] # NoRun

NoFile == [l \in Layers |-> NoRun]
PartialEmpty == pt = NoFile /\ means = NoFile /\ heal = NoFile
                /\ json = [l \in Layers |-> NoPlan]

Merged(l) == model[l].plan # NoPlan

Init ==
    /\ setting \in Settings
    /\ pt = NoFile /\ means = NoFile /\ heal = NoFile
    /\ json = [l \in Layers |-> NoPlan]
    /\ cov = NoRun /\ manifest = NoRun
    /\ meta = NoRun /\ weights = NoRun /\ map = NoRun
    /\ run = NoRun /\ resuming = TRUE /\ pc = "down" /\ cur = 0
    /\ model = [l \in Layers |-> Original] /\ history = {} /\ todo = {}
    /\ ragged = FALSE

----------------------------------------------------------------------------
(* Start and recovery                                                      *)

\* The operator (or the launcher) starts stage2.run() on the Stage 1 model.
Start(resume) ==
    /\ pc = "down" /\ run < MaxRuns
    /\ resume \/ AllowNoResume
    /\ run' = run + 1
    /\ resuming' = resume
    /\ pc' = IF resume THEN "orphans" ELSE "forget"
    /\ cur' = 0
    /\ model' = [l \in Layers |-> Original]
    /\ history' = {} /\ todo' = {}
    /\ ragged' = (ragged /\ ~PartialEmpty)
    /\ UNCHANGED <<partial, published, setting>>

\* shutil.rmtree unlinks one file after the other.
RemoveFile(l, kind) ==
    /\ \/ kind = "pt" /\ pt[l] # NoRun
          /\ pt' = [pt EXCEPT ![l] = NoRun] /\ UNCHANGED <<means, heal, json>>
       \/ kind = "means" /\ means[l] # NoRun
          /\ means' = [means EXCEPT ![l] = NoRun] /\ UNCHANGED <<pt, heal,
                                                                 json>>
       \/ kind = "heal" /\ heal[l] # NoRun
          /\ heal' = [heal EXCEPT ![l] = NoRun] /\ UNCHANGED <<pt, means, json>>
       \/ kind = "json" /\ json[l] # NoPlan
          /\ json' = [json EXCEPT ![l] = NoPlan] /\ UNCHANGED <<pt, means,
                                                                heal>>
    /\ ragged' = TRUE
    /\ UNCHANGED <<published, process>>

\* --no-resume: delete _stage2_partial/; ignore_errors lets files survive.
ForgetFile(l, kind) == pc = "forget" /\ RemoveFile(l, kind)

Forgotten ==
    /\ pc = "forget"
    /\ pc' = "layer"
    /\ ragged' = (ragged /\ ~PartialEmpty)
    /\ UNCHANGED <<partial, published, run, resuming, setting, cur, model,
                   history, todo>>

\* Fault: the orphan pass deletes every .pt.
DeleteAnyPt(l) ==
    /\ pc = "orphans" /\ pt[l] # NoRun
    /\ pt' = [pt EXCEPT ![l] = NoRun]
    /\ UNCHANGED <<means, heal, json, published, process, ragged>>

\* discover_completed_layers, first pass: a .pt without its JSON is deleted.
DeleteOrphan(l) ==
    /\ pc = "orphans"
    /\ pt[l] # NoRun /\ json[l] = NoPlan
    /\ pt' = [pt EXCEPT ![l] = NoRun]
    /\ UNCHANGED <<means, heal, json, published, process, ragged>>

\* Fault: discovery insists on a .pt beside every JSON.
OrphansPaired ==
    /\ pc = "orphans"
    /\ \A l \in Layers : pt[l] # NoRun <=> json[l] # NoPlan
    /\ pc' = "replay"
    /\ UNCHANGED <<partial, published, run, resuming, setting, cur, model,
                   history, todo, ragged>>

OrphansDeleted ==
    /\ pc = "orphans"
    /\ \A l \in Layers : pt[l] # NoRun => json[l] # NoPlan
    /\ pc' = "replay"
    /\ UNCHANGED <<partial, published, run, resuming, setting, cur, model,
                   history, todo, ragged>>

\* What averaging makes of layer l: the configured merge when that is the average.
Averaged(l) ==
    CASE l \notin Merging -> "none"
      [] l \in Merging /\ Lossy -> "average"
      [] l \in Merging /\ ~Lossy -> "configured"

\* Saliency scores are not on disk: the merge of a recorded group raises.
Unreplayable(l) == Complete(l) /\ l \in Merging /\ setting.saliency

\* Fault: the healed weights are not loaded again.
ReplayedUnhealed(l) ==
    [plan |-> json[l], cov |-> pt[l], means |-> means[l], heal |-> NoRun, by |-> Averaged(l)]

\* The replay loop of run(): the experts of each recorded group are averaged by
\* the recorded frequencies, whatever the configured step and without
\* distilling them again; the healed weights, which hold every kept expert, and
\* the covariance are loaded; the mean cost rejoins the history.
Replayed(l) ==
    [plan  |-> json[l],
     cov   |-> pt[l],
     means |-> means[l],
     heal  |-> IF HealEnabled THEN heal[l] ELSE NoRun,
     by    |-> Averaged(l)]

\* Fault: a replayed layer does not rejoin the cost history.
ReplayForgetsCost ==
    /\ pc = "replay" /\ cur < NumLayers /\ ~Unreplayable(cur)
    /\ model' = IF Complete(cur) THEN [model EXCEPT ![cur] = Replayed(cur)] ELSE model
    /\ cur' = cur + 1
    /\ UNCHANGED <<partial, published, run, resuming, setting, pc, history,
                   todo, ragged>>

Replay ==
    /\ pc = "replay" /\ cur < NumLayers /\ ~Unreplayable(cur)
    /\ IF Complete(cur)
          THEN /\ model' = [model EXCEPT ![cur] = Replayed(cur)]
               /\ history' = IF json[cur].counted THEN history \cup {cur} ELSE history
          ELSE UNCHANGED <<model, history>>
    /\ cur' = cur + 1
    /\ UNCHANGED <<partial, published, run, resuming, setting, pc, todo,
                   ragged>>

\* The process is gone: its memory is lost, the directory stays.
Lost ==
    /\ pc' = "down"
    /\ cur' = 0 /\ todo' = {} /\ history' = {}
    /\ model' = [l \in Layers |-> Original]
    /\ UNCHANGED <<partial, published, run, resuming, setting, ragged>>

\* The ValueError of the merge ends the run.
ReplayRefused ==
    /\ pc = "replay" /\ cur < NumLayers /\ Unreplayable(cur)
    /\ Lost

ReplayDone ==
    /\ pc = "replay" /\ cur = NumLayers
    /\ pc' = "layer" /\ cur' = 0
    /\ UNCHANGED <<partial, published, run, resuming, setting, model, history,
                   todo, ragged>>

----------------------------------------------------------------------------
(* The layer loop                                                          *)

Skip ==
    /\ pc = "layer" /\ cur < NumLayers
    /\ Merged(cur)
    /\ cur' = cur + 1
    /\ UNCHANGED <<partial, published, run, resuming, setting, pc, model,
                   history, todo, ragged>>

\* The files write_artifacts produces for layer l.
Artifacts(l) ==
    {"json"} \cup (IF l \in Covered THEN {"pt"} ELSE {})
             \cup (IF l \in Sampled THEN {"means"} ELSE {})
             \cup (IF HealEnabled /\ l \in Merging THEN {"heal"} ELSE {})

Decided(l, c) ==
    [run |-> run, counted |-> c,
     basis |-> [plans |-> [k \in Layers |-> IF k < l THEN model[k].plan.run ELSE NoRun],
                costs |-> history]]

\* on_profile .. post_merge: profile layer cur, decide its plan, merge in
\* memory.  c: its mean cost is positive and not a last resort of the gate.
Merge(c) ==
    /\ pc = "layer" /\ cur < NumLayers
    /\ ~Merged(cur)
    /\ c => cur \in Merging
    /\ LET p == Decided(cur, c)
       IN model' = [model EXCEPT ![cur] =
            [plan |-> p,
             cov  |-> IF cur \in Covered THEN run ELSE NoRun,
             means |-> IF cur \in Sampled THEN run ELSE NoRun,
             heal |-> IF HealEnabled /\ cur \in Merging THEN run ELSE NoRun,
             by |-> IF cur \in Merging THEN "configured" ELSE "none"]]
    /\ history' = IF c THEN history \cup {cur} ELSE history
    /\ IF resuming
          THEN todo' = Artifacts(cur) /\ pc' = "write" /\ UNCHANGED cur
          ELSE cur' = cur + 1 /\ UNCHANGED <<todo, pc>>
    /\ UNCHANGED <<partial, published, run, resuming, setting, ragged>>

\* write_artifacts: .pt, neuron means, healed weights, JSON - in this order.
WritePt ==
    /\ pc = "write" /\ "pt" \in todo
    /\ pt' = [pt EXCEPT ![cur] = run]
    /\ todo' = todo \ {"pt"}
    /\ UNCHANGED <<means, heal, json, published, run, resuming, setting, pc,
                   cur, model, history, ragged>>

WriteMeans ==
    /\ pc = "write" /\ "means" \in todo /\ "pt" \notin todo
    /\ means' = [means EXCEPT ![cur] = run]
    /\ todo' = todo \ {"means"}
    /\ UNCHANGED <<pt, heal, json, published, run, resuming, setting, pc, cur,
                   model, history, ragged>>

WriteHeal ==
    /\ pc = "write" /\ "heal" \in todo /\ todo \cap {"pt", "means"} = {}
    /\ heal' = [heal EXCEPT ![cur] = run]
    /\ todo' = todo \ {"heal"}
    /\ UNCHANGED <<pt, means, json, published, run, resuming, setting, pc, cur,
                   model, history, ragged>>

\* Fault: the JSON is written before the neuron means and the healed weights.
WriteJsonEarly ==
    /\ pc = "write" /\ "pt" \notin todo
    /\ json' = [json EXCEPT ![cur] = model[cur].plan]
    /\ todo' = {}
    /\ pc' = "layer" /\ cur' = cur + 1
    /\ UNCHANGED <<pt, means, heal, published, run, resuming, setting, model,
                   history, ragged>>

WriteJson ==
    /\ pc = "write" /\ todo = {"json"}
    /\ json' = [json EXCEPT ![cur] = model[cur].plan]
    /\ todo' = {}
    /\ pc' = "layer" /\ cur' = cur + 1
    /\ UNCHANGED <<pt, means, heal, published, run, resuming, setting, model,
                   history, ragged>>

----------------------------------------------------------------------------
(* Publication                                                             *)

\* Fault: the loop stops one layer early.
LoopDoneEarly ==
    /\ pc = "layer" /\ cur >= NumLayers - 1
    /\ pc' = "unvouch"
    /\ UNCHANGED <<partial, published, run, resuming, setting, cur, model,
                   history, todo, ragged>>

LoopDone ==
    /\ pc = "layer" /\ cur = NumLayers
    /\ pc' = "unvouch"
    /\ UNCHANGED <<partial, published, run, resuming, setting, cur, model,
                   history, todo, ragged>>

Step(from, to) == pc = from /\ pc' = to
KeepsProcess == UNCHANGED <<partial, run, resuming, setting, cur, model, history, todo, ragged>>

\* _save_covariance: unlink the stale manifest, write the payload, then vouch.
\* An OSError of the unlink is swallowed.
Unvouch ==
    /\ Step("unvouch", "cov") /\ KeepsProcess
    /\ manifest' \in {NoRun, manifest}
    /\ UNCHANGED <<cov, meta, weights, map>>

SaveCov ==
    /\ Step("cov", "vouch") /\ KeepsProcess
    /\ cov' = run
    /\ UNCHANGED <<manifest, meta, weights, map>>

Vouch ==
    /\ Step("vouch", "meta") /\ KeepsProcess
    /\ manifest' = run
    /\ UNCHANGED <<cov, meta, weights, map>>

\* Fault: the merge map is written before the shards.
SaveMetaThenMap ==
    /\ Step("meta", "map") /\ KeepsProcess
    /\ meta' = run
    /\ weights' = NoRun
    /\ UNCHANGED <<cov, manifest, map>>

\* save_compressed_checkpoint: the metadata first, then the shards in place.
SaveMeta ==
    /\ Step("meta", "shards") /\ KeepsProcess
    /\ meta' = run
    /\ weights' = NoRun
    /\ UNCHANGED <<cov, manifest, map>>

SaveShards ==
    /\ Step("shards", "map") /\ KeepsProcess
    /\ weights' = run
    /\ UNCHANGED <<cov, manifest, meta, map>>

SaveMap ==
    /\ pc = "map"
    /\ pc' = IF resuming /\ ~KeepPartial THEN "clean" ELSE "done"
    /\ KeepsProcess
    /\ map' = run
    /\ UNCHANGED <<cov, manifest, meta, weights>>

CleanFile(l, kind) == pc = "clean" /\ RemoveFile(l, kind)

Cleaned ==
    /\ Step("clean", "done")
    /\ KeepsProcess /\ UNCHANGED published

\* The process returned; a later run may be started on the same directory.
Exit ==
    /\ pc = "done" /\ run < MaxRuns
    /\ pc' = "down"
    /\ UNCHANGED <<partial, published, run, resuming, setting, cur, model,
                   history, todo, ragged>>

\* SIGKILL, eviction, an exception: memory is lost, the directory stays.
\* The last run is not killed, so that MaxRuns bounds only the failures.
Crash ==
    /\ pc \notin {"down", "done"} /\ run < MaxRuns
    /\ Lost

\* The last run has returned or was refused.
Finished == pc \in {"done", "down"} /\ run = MaxRuns /\ UNCHANGED vars

----------------------------------------------------------------------------

Recover ==
    \/ \E l \in Layers, kind \in Kinds : ForgetFile(l, kind)
    \/ Forgotten
    \/ \E l \in Layers : DeleteOrphan(l)
    \/ OrphansDeleted
    \/ Replay
    \/ ReplayRefused
    \/ ReplayDone

LayerLoop ==
    \/ Skip
    \/ \E c \in BOOLEAN : Merge(c)
    \/ WritePt
    \/ WriteMeans
    \/ WriteHeal
    \/ WriteJson
    \/ LoopDone

Publish ==
    \/ Unvouch
    \/ SaveCov
    \/ Vouch
    \/ SaveMeta
    \/ SaveShards
    \/ SaveMap
    \/ \E l \in Layers, kind \in Kinds : CleanFile(l, kind)
    \/ Cleaned

Progress == Recover \/ LayerLoop \/ Publish

Next ==
    \/ \E resume \in BOOLEAN : Start(resume)
    \/ Progress
    \/ Exit
    \/ Crash
    \/ Finished

Spec == Init /\ [][Next]_vars

\* The process runs until it ends or is killed, and the operator starts it
\* again; nothing forces a crash.
FairSpec == Spec /\ WF_vars(Progress) /\ WF_vars(Start(TRUE))

----------------------------------------------------------------------------
(* Properties                                                              *)

TypeOK ==
    /\ setting \in Settings
    /\ pt \in [Layers -> Stamp] /\ means \in [Layers -> Stamp]
    /\ heal \in [Layers -> Stamp]
    /\ json \in [Layers -> Plan \cup {NoPlan}]
    /\ cov \in Stamp /\ manifest \in Stamp
    /\ meta \in Stamp /\ weights \in Stamp /\ map \in Stamp
    /\ run \in Stamp /\ resuming \in BOOLEAN
    /\ pc \in {"down", "forget", "orphans", "replay", "layer", "write", "unvouch",
               "cov", "vouch", "meta", "shards", "map", "clean", "done"}
    /\ cur \in 0 .. NumLayers
    /\ model \in [Layers -> Layer]
    /\ history \in SUBSET Layers
    /\ todo \in SUBSET Kinds
    /\ ragged \in BOOLEAN

\* The files of a layer that discovery takes for completed all come from the
\* run that decided its plan, whatever crashes happened between the writes -
\* unless an rmtree of the directory was interrupted.
CompletedWhole ==
    ~ragged => \A l \in Layers : Complete(l) =>
        /\ pt[l] = json[l].run
        /\ l \in Sampled => means[l] = json[l].run
        /\ HealEnabled /\ l \in Merging => heal[l] = json[l].run

\* The weights of layer l are those the run that decided it left: the healed
\* ones of that run, or those of the configured merge.
AsDecided(l) ==
    IF HealEnabled /\ l \in Merging
       THEN model[l].heal = model[l].plan.run
       ELSE model[l].by # "average"

\* A merged layer carries what the run that decided it had, also after any
\* number of kills and replays: the covariance and the neuron means of that
\* very run, none missing, and its weights.  The weights differ in one case
\* alone, which the warnings of run() announce for RegMean and MergeMoE (and
\* none for distilled experts): the layer was decided by an earlier run,
\* nothing was healed, and the configured merge is not the average.
ReplayFaithful ==
    ~ragged => \A l \in Layers : Merged(l) =>
        /\ l \in Covered => model[l].cov = model[l].plan.run
        /\ l \in Sampled => model[l].means = model[l].plan.run
        /\ AsDecided(l) \/ (Lossy /\ ~HealEnabled /\ model[l].plan.run < run)

\* Every merge in the model was decided on top of the very merges that now
\* lie below it, with the cost history an uninterrupted run would have had at
\* that layer (profiling, REAM cost and cost gate all read the layers below).
StackCoherent ==
    ~ragged /\ Covered = Layers => \A l \in Layers : Merged(l) =>
        /\ \A k \in Layers : k < l =>
              Merged(k) /\ model[l].plan.basis.plans[k] = model[k].plan.run
        /\ model[l].plan.basis.costs = {k \in Layers : k < l /\ model[k].plan.counted}

\* The audit accepts a checkpoint and a merge map with the same run id; the
\* pair it accepts is complete and of one run, also after a crash in the
\* middle of publishing over an older checkpoint.
AuditedPairWhole == map # NoRun /\ map = meta => weights = map

\* Nothing is published before every layer is merged.
PublishedMerged ==
    pc \in {"unvouch", "cov", "vouch", "meta", "shards", "map", "clean"}
        => \A l \in Layers : Merged(l)

\* A plan that discovery would accept is neither lost nor replaced by any
\* crash, recovery or rewrite, as long as no rmtree was interrupted.
CommittedKept ==
    [][\A l \in Layers : Complete(l) =>
           (Complete(l)' /\ json'[l] = json[l]) \/ ragged']_vars

\* Whatever wreck the crashes leave, a restarted run publishes everything,
\* unless the groups are merged by saliency: then no run resumes another.
Recovers ==
    pc # "done" /\ ~setting.saliency ~> (pc = "done" /\ {cov, manifest, meta, weights, map} = {run})
=============================================================================
