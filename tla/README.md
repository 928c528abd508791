# moe_compress: TLA+ models and proofs

`src/max_quality` compresses mixture-of-experts language models in stages: a
teacher generates traces and its statistics are captured, Stage 1 scores experts
and sets budgets, Stage 2 prunes and merges them (REAP/REAM), Stages 2.5 and 5
distil the routers (Router-KD), Stage 3 factorizes the experts (AA-SVD), Stage 4
compensates the residual (EoRA), Stage 6 evaluates. A run takes days on rented
GPUs that disappear without notice, so every long stage writes partial results
and resumes from them, and several of them spread over processes. The tensor
arithmetic is tested by the repository; what a test hardly reaches is what is
around it: which file is trusted after a crash, which process is ahead of
which, what is summed twice, what an integer loop does at its boundaries. That
is what this directory models. Code paths below are relative to
`src/max_quality/src/moe_compress/`, those that begin with `scripts/` or
`docker/` to `src/max_quality/`.

## Inventory

| Part | State it keeps | Operations | Hard because |
|---|---|---|---|
| Trace generation, replay and capture (`scripts/build_self_traces_calib*.py`, `shard_split.py`, `utils/merge_sidecars.py`, `utils/input_cov_offload.py`) | rows of `<out>.jsonl.tmp`, accumulators and their checkpoints, counters, shards, sidecars, staging directory | generate a chunk, split, replay, checkpoint, dump, merge, capture by windows | resume goes by counts; rows, checkpoints and counter are saved one after the other |
| Atomic files, manifests, cached signals (`utils/atomic_io.py`, `cached_calibration_signals.py`) | temporary file, payload, manifest, what the disk has | write, sync, rename, describe, load, check | four durable steps in three orders, loads beside a save |
| Stage 1 (`stage1/`, `budget/solver.py`, `budget_retune.py`) | readings, blacklist, distances, merges, budgets | solve, detect, ablate, merge pair by pair, allocate, retune | integer loops with floors, gates and infinite cells; retries after OOM |
| Stage 2 assignment (`stage2/orchestrator.py`, `grouping.py`, solver plugins) | target, centroids, costs, history of layer costs | solve, refine, gate, bump, last resort, promote, merge | boundaries at zero and at all experts, fallbacks behind fallbacks |
| Stage 2 merge and healing (`plugins/merge_heal.py`, `expert_distill.py`, `utils/activation_shards.py`) | bank, teachers, shards of two writers, split, snapshots, patience | capture, merge, distil, train, restore, clean up | capture must precede the merge in place; shards of killed attempts |
| Stage 2 profiling pool (`stage2/profile_dp.py`, `stage2_profile_cache.py`) | workers, command queues, one answer queue, spills, previous payload | RESYNC/ACK, PROFILE/DONE, reduce, shutdown | workers' models must follow the parent's merges; failing and killed workers |
| Stage 2 crash-resume (`resume.py`, `shared_io.py`, `orchestrator.py`) | four files per layer, model and cost history in memory, covariance + manifest + checkpoint + `merge_map.json` | discover, delete orphans, replay, merge, write, publish, rmtree | a crash between any two writes, replay must equal the decision |
| Router-KD loop (`router_kd/orchestrator.py`, `plugins/early_stop.py`) | position, router weights, best value, patience, `step_N.pt`, `best.pt`, writer thread with a queue of one | train, log, save, prune, resume, early stop, export | asynchronous writes, positional resume |
| Router-KD on several GPUs (`ddp_runtime.py`) | the loop per rank, collectives, result queue | reduce, broadcast, rank-0 I/O, report | a rank that leaves the common sequence strands the others |
| Stage 3 covariance (`stage3/orchestrator.py`, `plugins/covariance_collection.py`, `utils/activation_hooks.py`) | spill directories, accumulators, spill thread | window, OOM retry, spill, replica, reduce, clean up | late failures, stale spills, sums counted twice |
| Stage 3 factorization, Stage 4 (`plugins/swift_svd_alpha.py`, `d_rank_allocate.py`, `block_refine.py`, `stage4/`) | ranks, alpha, factors, caches, block checkpoints, Stage 4 spills | allocate, search, factor, refine, publish, widen | the search works on the model itself; resumed runs mix old and new layers |
| Evaluation (`stage6/`, `stage6alt/`, `tools/eval_shard.py`, `eval_harness.py`) | measurements, teacher cache, converted model, matrix, report | shard, measure, merge, cache, convert, judge | replicas must add up to one GPU; caches and files outlive their student |
| Pipeline driver (`run_pipeline.py`, `utils/model_io.py`) | stage directories and the files stages hand on, model in memory | select, skip, load, run, save, clear | a directory that exists is taken for a finished stage |
| Ablation sweep and launcher (`run_ablations.py`, `docker/spheron_launch.py`, `bootstrap.sh`, `run_sh_split.sh`) | volume, bucket, rows, upload threads, machines, status file | prepare, seed, run a row, publish, rent, attach, poll, tear down | anything may fail or be interrupted, what is on the volume decides what is skipped |
| Router-KD teacher and losses, plugin registry, other drivers, audits | tensors, dictionaries | | numeric or sequential |

Stages meet through directories of artifacts only; inside a stage the
orchestrator walks plugins in one thread. Concurrency is in six places: the
checkpoint writer of Router-KD, its ranks, the profiling pool, the spill thread
and replicas of Stage 3, the threads and replicas of the evaluation, and the
upload thread of the sweep beside a launcher on another machine.
`PROJECT.json` lists all 19 parts with their status, and the hazards, each at
its line.

## Modules

| Module | Code | State and actions |
|---|---|---|
| `CaptureWriters`, `TraceGeneration`, `CorpusReplay`, `CovOffload`, composed by `Preparation` | preparation | A statistic is how often it holds each row. Generation goes row by row into the file with the page cache modelled; the split corpus is replayed by one process per shard; `Merge` waits for all of them. `CovOffload` is the windowed capture with its fingerprint. |
| `SidecarRegister` | | What a stored artifact promises: a register that a load returns or, in named cases, refuses. |
| `SidecarStore` | `atomic_io` and every protocol built on it | Payload and manifest are numbers of saves, `images` what may be left after the machine is lost. The kinds of artifact differ in when they remove the old manifest, and in whether a load needs and checks one. |
| `ExpertBudget`, `Stage1` | Stage 1 | `ExpertBudget` is the arithmetic (floors, damage curves, both knapsacks, the retune greedy), `Stage1` the run: solver, Phase A with OOM back-off, blacklist, GRAPE one merge at a time, artifacts, retune. The tables of the dynamic programs are recursive functions. `Stage1Init`, `Stage1Next`, `Stage1Spec`, since `Jobs_proofs` extends it beside `Jobs`. |
| `MergeSolvers`, `Stage2Assign` | assignment | A solver is the set of its possible answers; 2-opt goes move by move. `Stage2Assign` is `_run_assignment` and the merge of the layer, costs being drawn when first needed. `task` is where the driver is, `contents` the experts inside an expert's weights. `AssignInit`, `AssignNext` ... since its proofs stand beside those of `Stage2Partial`. |
| `SetSums` | sums of the budgets, ranks and costs | The sum of a function over its domain, in no particular order. |
| `MergeHeal` | merge and healing | Experts are tagged with what they were merged and trained from, shard rows with attempt, writer and row. `HealInit`, `HealNext` ... as in `ProfileDp`. |
| `ProfileDp` | profiling pool | Parent (`main`) and workers (`wpc`), queues. A profile is how often each sequence counts, and through which merged layers. `Stuck` is the parent waiting for a killed worker. Operators that every module has are called `ProfileInit`, `ProfileNext` and so on, since `MCStage2Layer` extends it beside `Stage2Assign`. |
| `Stage2Partial` | crash-resume | A file is the number of the run that wrote it, `json` the plan with the basis it was decided on. A layer in memory also says how its groups were merged (`by`): as configured, or averaged by frequency, which is all a replay knows. `setting` is merge step, saliency weights, distillation and healing, the same for every run on the directory. |
| `RouterKd` | training loop with writer | Router weights are the gradient windows behind them; the EMA of a log window is any small number. Training thread `pc`, writer `wpc`. A best step of -1 in the code is 0 here. |
| `RouterKdDdp` | ranks and parent | `ops[r]` is the sequence of collectives rank r entered; the n-th of one rank pairs with the n-th of the others. Its checkpoints are synchronous; their writer is `RouterKd`'s subject. Its operators are `RanksInit`, `RanksNext`, `RanksSpec` and the like, since `MCRouterKd` extends it beside `RouterKd`. |
| `Stage3Cov` | covariances | A spill is the configuration it was collected under and how often each sequence is in its sum. `CovInit`, `CovNext` ... for the same reason: `MCStage3` extends it beside `Factorize`. |
| `RankAllocation`, `Factorize` | factorization, Stage 4 | `RankAllocation` is integer arithmetic (weights and scores integers, rationals multiplied out), `Factorize` the run of both stages; factors carry the weights they were made of. |
| `EvalGate`, `Evaluation` | Stages 6 and 6alt | `EvalGate` divides rows and judges numbers; `Evaluation` has main thread, preload and converter threads, replicas, and files that outlive the process. `gpu` is what holds memory on the GPU, which the code's moves and frees may fail to give back. |
| `Pipeline` | driver and hand-off | Its operators are `DriverInit`, `DriverNext`, `DriverSpec`, since `MCPipeline` extends it beside `SidecarStore`. A set of weights is the set of its lineages. `MakeDir` ... `WriteTokenizer` are `save_compressed_checkpoint`. Stage numbers are in tenths. |
| `Ablations`, extended by `Jobs` | sweep, launcher, container | Volume and bucket hold for each artifact the run of Stage 1 that wrote it, and a row's result the runs of the artifacts it was computed from. A container starts on the volume of the last one or on a fresh one, the bucket is empty or as an earlier volume left it, a download may stop half way. `Jobs` adds machines, status file, bootstrap script and the launcher's commands. |
| `MC*` | | Instances for TLC, see the next section. |
| `*_proofs` | | Theorems about the module they are named after and, in further parts, about the modules they name, see below; `SetSums_proofs` has the lemmas on sums, ranks and iteration that the others cite. |

Where parts of one stage share no state, one run checks them together: an MC
module extends one part, or two, instantiates the others, and every behaviour is
of one part, the variables of the others staying at one initial state. A property
with a theorem is defined in the module the theorem is about (`ResumeExact` in
`RouterKd`, `LayersOnce` in `Factorize`, `AssignmentSound` in `Stage2Assign`); the
conjuncts of `ProfilesSound`, `HealSound`, `AssignmentSound` and so on are
properties of their own, stated and explained there.

## Runs

| Run | Bounds | Shows |
|---|---|---|
| `preparation` | 4 prompts in chunks of 2 (one teacher-forced, one too long), 2 signals, 2 or 3 shards, both engines; 3 layers in windows of 1 or 2; 2 failures | `CapturesExact`: a split corpus has each answered prompt once, a sidecar lacks or repeats a row only after a checkpoint that was behind or ahead of the rows was taken up, a covariance is of one fingerprint; `SavedAfterSync`: where the file system takes an fsync, no checkpoint counts rows that a lost machine could take back; `Merges`: a replay ends with its merged sidecars |
| `preparation_divergence` (violation) | one process, one signal, one kill | a checkpoint that is behind its rows is taken up and the process goes on |
| `preparation_slices` (violation) | two generating processes, no failure | data-parallel generation never yields a corpus |
| `pipeline` | 3 saves (2 of one size), 2 readers, 2 faults; 11 command lines, 6 runs, 2 kills, 1 command out of line, 1 or 2 shards, 2 layers | `IsRegister`: the files refine the register; `StagesOnce`, `HandedOverExact`: no stage twice or out of order, a finished directory loads exactly or is refused, but for remnants of a killed save of another layout, resumed stages read inputs of one history; `Recovers`: a resumed pipeline ends |
| `stage2_layer` | profile: 3 layers, 3 workers, 4 sequences, 2 faults; assign: 2 layers of 4 experts, 7 configurations, 8 set-ups, costs 0, 1, infinite; heal: 5 experts in 3 groups, 2 kills | `ProfilesSound`, `AssignmentSound`, `BumpsHonest`, `HealSound`, `LayerEnds` |
| `profile_dp_hits` (violation) | a sidecar that covers the middle layer | the workers never hear of the merge below it |
| `stage2_partial` | 2 layers (one without means), 3 runs, a crash anywhere, `--no-resume`, interrupted rmtree; default merge, RegMean with and without healing, saliency weights | completed layers are whole, replay brings back what was decided but for unhealed RegMean, merges form one stack, the published pair is of one run, recorded layers stay, every wreck is recovered from unless the merge is by saliency |
| `router_kd` | 3 batches, 2 epochs, accumulation 1 and 2, patience 2, 3 runs, 1 failing write; 3 ranks, 6 batches, 1 fault, any checkpoints at the start | `ResumeExact`, `ExportedBest`, `NoSilentLoss`, `NewestStays`, `RanksAgree`, `EveryRunEnds` |
| `stage3` | 2 layers, 3 sequences, 1 or 2 replicas, 2 configurations, 3 runs, 1 OOM; 2 layers of 3 experts with 2 matrices, 3 alphas, 57 configurations, 3 runs | `CovarianceSound`: sums are exact and of this configuration, nothing stale is left; `RanksFair`, `BestAlpha`; `LayersOnce`: factored from originals, refined in order, widened once; `Recovers` |
| `stage3_replicas` (violation) | 2 or 3 replicas, 2 runs | resuming with another replica count sums overlapping shards |
| `sweep` | jobs: 2 rows, 2 artifacts, 2 commands, 4 machines, 2 faults, the volume kept or fresh; Stage 1: 2 layers of 4 experts, 8 configurations, 4 pairs of distance matrices, 4 samples, batches 1 and 4 over a floor of 2; evaluation: 5 prompts in batches of 2, 4 rows, 9 configurations, 2 processes, 2 students, 2 dataset revisions | `RowsHonest`: a row computed on a volume is from the complete Stage 1 that is on it, and flags say what the bucket has; `MachinesHeld`: one machine per volume, none left in silence; `CountsExact`: after OOMs each sample is counted once; `BudgetsSound`: GRAPE stops at its budget or where nothing can be merged, both dynamic programs are optimal, the retune keeps total and floors; `ImatrixSound`: one converter, and the matrix of this student; `MeasuredAlike`: replicas add up to one GPU, student and teacher are measured alike; `ReportHonest`: a pass is a pass of this student against this teacher; `SweepEnds`: a command of the launcher ends, Stage 1 ends, the last evaluation reports |
| `jobs_fresh` (violation) | one fault, the volume lost between two containers | pulled results and rows that follow are of different Stage 1 runs |

Why the bounds are enough. Resume protocols are about three runs at most: one
that leaves a wreck, one that works on it and leaves another, one that
finishes. Two layers show an order between layers, three a layer between two
others; for `Stage2Partial` the proofs below take the number away. Three ranks
or workers show a majority and a bystander. Four sequences over three workers,
three over two replicas, five prompts in batches of two leave a remainder.
Two faults let a failure meet a failure. Four experts leave room for a
protected one, a centroid, a child and a leftover; costs 0, 1 and infinite
order pairs, tie them and forbid them. In the ranks, odd and even budgets,
budgets of 0 and of nearly everything, and a weight thirty times the others push
groups to either bound. In `Pipeline`, two kills and one command that is not a
plain resume let a torn directory meet a torn one of another lineage. Every
bound is a CONSTANT with `Max` in its name, or a size.

Assumptions of single properties. `rewinds` in `Pipeline` counts the commands
that do not just resume: `StagesOnce` and `FinishedLoadsExact` hold whatever the
operator does (the latter for directories without shards a killed save of another
layout left), `InputsMatch` and `Recovers` for `rewinds = 0`: one who goes back
to Stage 1 or 3 and then lets the shortcut or the spills of Stage 4 take over
gets a mixture, and the code has no record with which it could tell. The last run
of `Stage2Partial`, `Stage3Cov` and `Factorize` is not interrupted: without
that nothing promises an end. An artifacts directory belongs to one
configuration in `Factorize`, one with `_stage2_partial/` to one in
`Stage2Partial`: neither directory names its configuration. `ReplayFaithful` leaves
out one case by name, a layer that an earlier run decided, whose configured merge
is not the average by frequency and which was not healed (see "Where the code
disagrees" below); `Recovers` leaves out merging by saliency, which no run can resume.
`RowsHonest` is about the rows a volume computed itself: those it pulled are what
`jobs_fresh` is about. Syncs and batch uploads to the bucket land whole or not at
all, and the split run keeps its volume. `Reservoirs = {TRUE}` in `Stage2Layer.cfg` leaves out
sidecars that lack the layer inputs: such a layer is demoted to a live profile
after its accumulators were filled from the sidecar, and its profile is then
wrong. GRAPE's budget is promised for finite priors.

## Fairness

Threads and processes are scheduled by an operating system: each is assumed to
go on while it can (`Work` in the modules), faults, crashes, OOMs and time-outs
are not. Behaviours of the modules composed by `MCPipeline`, `MCRouterKd`,
`MCStage2Layer` and `MCStage3` are finite, since every counter of runs and
faults is bounded and a run only goes forward; the weak fairness of the union of
all those steps therefore says the same as one condition per process, and
TLC checks it faster. So it is in `MCSweep`: no behaviour of a part changes state
for ever, and `Working` has the steps of the launcher, of Stage 1 and of the
evaluation, not those of machines and containers. `Preparation` states fairness
process by process. Its run has a VIEW (`MCView`) that leaves out the variables of
the stages a behaviour is not in. A further run is fair where the property is
about recovery: the operator (or the job scheduler) starts an interrupted job again, in `Pipeline` at
the interrupted stage and with `--no-resume` after a loading error. In
`Preparation` an operator whose resumed replays keep failing relaunches from
scratch at last, the one strong fairness. In `Jobs` only the launcher is fair:
every one of its waits has a time-out. `PeerFailure` in `RouterKdDdp` is fair
because the collective backend reports a dead peer (external). The profiling
part of `LayerEnds` is stated up to a killed worker, for which the code has no
time-out.

## What is proved

Every theorem holds for all values of the constants that the named assumptions
of its module allow; TLC evaluates those assumptions on every run. The bounds of
the runs (`MaxRuns`, `MaxCrashes` ...) are constants too, so that a theorem is
about any number of runs and faults. The pattern is always the same: the
property is not inductive, because it compares what is finished and says nothing
of what is half written or in flight. An invariant `IInv`, a conjunction of
named parts, says it; TLC has checked it on the instances of the runs; one
lemma per part shows that every action keeps it, and the property follows.

| Module | Theorems | The argument |
|---|---|---|
| `Stage2Partial_proofs` | `Typing`, `CompletedFromOneRun`, `ResumeFaithful`, `AuditedPair`, `PublishedAfterMerge`, `CommittedStays`, `StackStays` | `CompletedWhole` says nothing of a layer whose files are half written. `IInv` adds what the disk holds below and at the current layer (`Disk`), what each program point knows (`Control`), that files already written for the current layer are of the run that merges it (`Writing`), and which published files are of this run (`Published`); and that a plan a replay finds was decided by an earlier run (`Earlier`), so that an averaged layer is never one this run decided. `StackCoherent` needs `Stack` on top: recorded plans form a chain, a plan's basis being what lies below. |
| `Stage2Partial_proofs`, second part | `ProfilesAlwaysSound` | About the specification of `ProfileDp`, for sidecars whose full hits come last and hold the layer inputs (`OuterHits`; `profile_dp_hits` shows what happens otherwise). `ProfilesSound` says nothing of a worker in the middle of a barrier. `ProfileInv` says for each place of the parent what every worker that is alive may be doing and which merges it has replayed (`Crew`). The barriers count answers without looking at who sent them: `Barrier` says that those counted and those queued come from different workers, each of which has done what was asked, so that as many answers as workers are an answer of each. The shards partition the sequences. |
| `Stage2Partial_proofs`, third part | `HealingSound` | About the specification of `MergeHeal`. `HealSound` speaks of the shards once they are complete; the invariant follows them from the first row: full shards in order on disk and a rest in memory (`Underway`), a short last shard (`Closed`), companions one by one, manifests writer by writer (`Finalized`). The files of a killed attempt lie beyond or are written over, which is why `InputsOnDisk` speaks of this attempt's numbers only. Shards hold disjoint rows, so a split by shards is one by rows; the best snapshot is below every other loss measured (`Losing`). |
| `Stage2Partial_proofs`, fourth part | `AssignInvariant`, `AssignmentIsSound`, `BumpsAreHonest` | About the specification of `Stage2Assign` and the solvers of `MergeSolvers`. Every solver promises allowed pairs and, but for Sinkhorn's rounding, the cap (`SolutionsFit`): the greedy one takes turns, so its assignment is a function given by its steps, which exists because every initial part of it does (`Iterated`); the others are sets of answers or fall back to it. 2-opt keeps the promise (`RelocationFits`, `SwapFits`). Between the gates and the groups `Split` says that centroids and children divide the unprotected experts, and `Solved` that the answer keeps the promise for the matrix it was asked with. So the groups settled on cover those experts without overlap (`Covering`), and a group that is folded in place finds every member as it was, whatever the order (`Folded`). The target rises with every attempt (`Gates`), so that the attempts do not run out before it has reached all experts, and a closed gate is overruled only there. |
| `Pipeline_proofs` | `NoStageTwice`, `HandedOver` | Whatever the operator does, lineages pass the stages in order (`Lineages`), which needs the step counter and the command's window to agree (`Stepping`); directories, finished or torn, hold a prefix of the last save, and of every other layout all shards or none unless a save of it was cut off (`Directories`, `Entire`). For an operator who only resumes, `OneHistory` follows budgets, merges and factors of a run that was killed until the next has made them again. |
| `Pipeline_proofs`, second part | `TypeCorrect`, `Refines` | About `SidecarStore`: refinement of `SidecarRegister`. Steps of the files map to steps of the register only where files, writer and readers fit: what may survive a loss of the machine has its blocks on disk (`Durable`), a protocol that is not fragile never leaves the manifest of another payload (`Paired`), how far the writer is (`Progress`), and what a reader has seen is current or was overlapped (`Current`). Every step of the files is a step of the register, or none, for each of the three orders in which the code removes old manifests. |
| `Preparation_proofs` | `CapturesAreExact`, `SavedAfterTheSync`, `CovarianceAssembledWhole` | A file may repeat prompts and miss others; `Covering` says that one that repeats nothing, and has nothing of what its process has yet to write, misses nothing, so that what has no two equal keys (`Distinct`) is complete. For vLLM `Counting` weighs lines and rows in hand against the prompts begun, and ties the accumulators to those prompts, the checkpoints to the number they were saved with (`Kept`). The outputs of the slices concatenated, and cut again, keep each row at its place (`FlattenComposed`, `SplitMade`): the existence of the running concatenations comes from `Iterated`. A replay counts captured rows, not rows: two places of a shard with the same count have seen the same rows that fit (`SeenFacts`), which makes a checkpoint good whenever its count is (`StoreSound`, `ReplayerSound`); a merge adds up disjoint sets. While checkpoints are saved the file is as long on the device as in the cache, if it takes an fsync (`Synced`); what a statistic taken up may lack or repeat follows it to the sidecar (`Stands`, `Reloaded`). A staged shard belongs to its fingerprint and to `_meta.pt`, a removal was cut off, or it could not be deleted; the windows before the current one are staged under the fingerprint of the process (`Staging`, `Windowed`). |
| `RouterKd_proofs` | `Typing`, `ResumesExactly`, `ExportsTheBest`, `LosesLittle`, `NeverBackwards` | Training thread, queue, writer and files turn into one another by a step, a crash or a resume. `IInv` says of every payload - in a file, in the queue, in the writer's hands - what it says of memory: position, steps and gradients fit (`Placed`), the weights are those of the windows before (`Faithful`), the tracker is what the EMAs say (`Following`). `Ordered` puts files, writer, queue and memory in the order of training; `Handshake` says who waits for whom and where an error can be unseen; `Lagging` bounds what a crash loses. |
| `RouterKd_proofs`, second part | `RanksAbreast`, `RanksAlwaysAgree` | About the specification of `RouterKdDdp`. No invariant over pairs of ranks is inductive: what a rank enters next depends on its own batch, step and stop flag. `Abreast` says that one script exists, each point of it with its batch and step, of which every rank has entered a prefix (`Joined`); a rank's own state is then a function of how far it got, and only a stop flag leaves the script a choice, which rank 0 makes. Nobody saves before the last rank has looked for its checkpoint, because nobody is beyond the wrapping (`Resumed`). `Weighed` is the weights, `Told` which failure lies behind each message (a stranded rank was left by one that failed, since who returned was in the last collective), `Judged` what the parent makes of them. |
| `Factorize_proofs`, second part | `CovariancesAlwaysSound` | About the specification of `Stage3Cov`, for one number of replicas over all runs (`OneCount`, the hypothesis whose failure `stage3_replicas` shows). Every file is right for the configuration it names or absent, whatever run left it (`CovFiles`); so are the sums in memory and in the queue of the spill thread (`CovWindows`). The shards of any number of replicas are a partition, so that their spills add up to one per sequence. |
| `Factorize_proofs` | `RanksAreFair`, `BestOfTheGrid`, `OnceEachLayer` | The configuration determines the result of each stage, so that whatever a resumed run finds on disk is that result (`OnDisk`), whichever run wrote it. That the parameter count does not depend on the order in which layers are added needs sums over sets, by induction as the absence of a least counterexample. `RanksAreFair` is about the arithmetic of `RankAllocation`: the repair of the rounded ranks is the handing out of the first n units in a strict order (`First`), each unit to a group lowering its key by the same amount. So the units a group gets are its first ones and their number is n, or all there is room for (`HandedOut`); a group passed over for another's last unit would have had a lower key, which bounds the distance of any two (`AllocateEven`). The walk over the experts is the same with one unit each: what the floors of the shares lose is less than one rank per expert (`PortionsFacts`), and an expert with a higher score is reached first (`RedistributeFair`). |
| `Evaluation_proofs` | `TheMatrixIsTheStudents`, `BothSidesAreMeasuredAlike`, `TheReportIsHonest` | Whose memory the GPU holds in each phase, and that no replica is started beside a teacher (`OnGpu`), who may still replace the converted model (`Converting`), that every number known is true, absent or cut off (`Known`), the terms of the comparison (`Terms`), and that the shares of any number of replicas partition batches and rows (`Replicating`). |
| `Jobs_proofs` | `Typing`, `OneMachineHoldsTheVolume`, `TheRowsAreHonest` | The two hang together: that a row's flag tells the truth needs the harness to be alone with the volume (`Alone`, `Threads`), which is so because the launcher never holds two machines (`Held`); what a volume computed is from its own Stage 1 because no row is seeded before that is complete, and nothing rewrites a complete one (`Comparable`). Rows that were pulled are outside: `jobs_fresh` shows that they need not agree. |
| `Jobs_proofs`, second part | `Stage1Invariant`, `CountsAreExact`, `BudgetsAreSound` | About the specification of `Stage1` and the arithmetic of `ExpertBudget`. The knapsack's table and the walk back through it are recursive functions; that they exist is shown by iteration (`BestTables`, `LeftoverExists`), that they are exact layer by layer (`BestBelow`, `PickFacts`, `AllocateFacts`), as the absence of a least counterexample. `Settle` follows, and `Shed` by exchange: to take more from the cheaper costs less. GRAPE's tables stay exact merge by merge (`Tables`). That it stops only at its budget or where nothing can be merged needs an account of its iterations (`Accounted`): each is a merge, a thaw or a layer blocked for good, and every thaw is paid for by a merge before it, so the bound on the iterations is never reached. |

Each module also states `Invariant`, that `IInv` holds in every reachable state (`RanksAbreast` for `Abreast`,
`Stage1Invariant`, `AssignInvariant`).
Two assumptions of the code's own were found by proving: a search over a grid of
one alpha has no first improvement to keep (`GridAssumption`; the code skips such
a search, `stage3/orchestrator.py:848`, `swift_svd_alpha.py:1737`), and
`--stage2-only` without 2.5 needs a range that contains Stage 2
(`CommandsAssumption`). Floating-point infinity is a number in the models, and the
proofs need it to be above everything finite that is added up
(`InfinityAssumption`, `CostsAssumption`).

Induction over data is beyond the prover, but what a recursive function computes
is not where its steps determine it: a function with those steps exists, since
every initial part of it does (`Iterated`), so the recursive definition is it.

Only model-checked:

* all liveness (`Recovers`, `EveryRunEnds`, `Merges`, `LayerEnds`, `SweepEnds`):
  fairness and ENABLED are beyond the prover.

## Where the code disagrees with what it says

Five runs end in a violation; `PROJECT.json` quotes the line each contradicts:
the sidecar hit that skips RESYNC, the replica directories reused with other
shards, data-parallel generation, whose processes all number their rows
from 0, the counter of a checkpoint, whose mismatch is swallowed, and the rows of
an ablation that a fresh volume pulls beside a Stage 1 of its own. Modelling showed
more, without a run of its own:

Pipeline and Router-KD
* `router_kd/orchestrator.py:1104` restores the windows without improvement but
  not the stop decision: a run resumed after its stopping point trains on until
  the next log window; 1158-1160 promises "the exact stopping point".
* A save never removes the shards that are there, and a load takes every
  `model-*.safetensors` (`utils/model_io.py:1306-1320`, 1742): the first shards of a
  killed save of another layout, if their tensors happen to have the new shapes
  (`Common`), are loaded over the new model's, in silence. Only a complete layout is
  always refused, since some shape differs. Nor is a directory whose shards failed to
  write "obviously incomplete" (1179-1183) where an older save left its own.
* A checkpoint killed between `config.json` and its tokenizer is taken for
  complete and resumed with none (`utils/model_io.py:1234-1240`, 1900). A
  Stage-2-only command over a torn `stage2_pruned/` does nothing and succeeds.

Stages 1 to 4
* `int(batch_size)` raises for `"auto"` in `stage1/orchestrator.py:705`, after the
  blacklist is written, and `int(validation_batch_size)` in
  `swift_svd_alpha.py:1019`.
* A layer at its optimum on the floor gets an infinite damage prior, and GRAPE,
  which starts from no merges, then never merges it and stops above budget.
  RCO's alpha optimisation never enters its evaluation; the plugin writes
  `damage_curves` and the signal reads `per_layer_damage_curve`;
  `stage1_rco_budgets.json` has no reader.
* A resumed Stage 2 does not rebuild every layer (`stage2/orchestrator.py:1024-1030`):
  a replay averages each recorded group by frequency, so that RegMean and MergeMoE
  layers, and experts that were distilled, differ from what the killed run had in
  memory, and the layers after them were, or will be, profiled on top of other
  weights (`StackCoherent` is about plans, not weights). The comments and warnings
  (954-1001) say so for RegMean and MergeMoE and recommend `--no-resume`; for
  distilled experts nothing does. With healing on, the healed weights, which hold
  every kept expert and the router, are loaded over the average and the layer is as
  it was, yet the warning is logged all the same. With saliency weights any resume
  over a merged group ends in a ValueError (1006-1010, `merging.py:190-200`).
* Stage 2: cap 0 counts as no use of the cap, so `post` and `output` alignment and
  EM never run with it; EM discards what 2-opt found; Sinkhorn's rounding does not
  respect the cap; `n_prune` of the faithful prune is taken from the first layer.
* `_stage3_alpha_result.json` is removed neither on success nor by `--no-resume`
  (`stage3/orchestrator.py:848`) and names no configuration; block checkpoints name
  none either. One pass over the experts leaves up to half as many ranks
  as there are experts unassigned for an odd budget (`swift_svd_alpha.py:1634`). A kill after `eora_ranks.json`
  and before the inputs are deleted makes a re-run raise "double-widen detected".

Preparation and evaluation
* `shard_split.py:125` says that no shard is empty; five rows over four shards leave
  one. A failed dump is only logged; the next resume has nothing to do and ends with
  0. A crash inside a chunk with rows of both policies makes `--resume` repeat some
  prompts and miss others; the split refuses that corpus. The sidecar beside it may be
  an older one: with three failures, a process that dumped and went down before its
  file was published, one relaunched from scratch that lost a chunk, and one resumed
  whose dump failed leave the statistics of the first beside the rows of the last.
  So `SidecarsExact` holds a sidecar of a generation to the prompts of its slice, not
  to the rows of the file beside it; proving it was what showed this.
* The check of a checkpoint's counter never fails a run (`preparation_divergence`): a
  statistic that was behind its rows is marked `behind` in the model, one that was
  ahead `ahead`, and `SidecarsExact` says what such marks allow and forbid. Behind is
  what any kill inside a chunk leaves; ahead is a restart from scratch beside old
  checkpoints, rows lost from a mount that refuses an fsync (`syncs`; EINVAL and ENOTSUP
  are swallowed at `build_self_traces_calib_vllm.py:2443-2462`, so there `SavedAfterSync`
  promises nothing), or a replay killed before its mark.
* The staging directory of the covariance is removed with errors ignored (4087): a
  shard that stays (`leftover`) is taken for one of the next run. Its fingerprint
  (4059-4070) names neither teacher, dtype, `max_model_len` nor the corpus, so "of one
  run" is: of runs with one fingerprint.
* The key of the teacher cache, which "MUST cover every input that can change the
  teacher's evaluation numbers" (`teacher_provider.py:114`), leaves out the
  environment overrides (`HUMANEVAL_LIMIT`, `STAGE6_MAX_NEW_*`, ...), and numbers
  that are not finite are cached for good, their checks "skipped" ever after. The
  models keep the environment fixed. All of HumanEval shares one deadline. A matrix
  that could not be made leaves no flag, and an older one stays.
* "Then run llama-imatrix (which needs the GPU, now freed from teacher)",
  `imatrix_export.py:563-564`: on a cache miss nothing frees the teacher
  (`teacher_provider.py:654-680` only writes the cache), and a student whose move to
  the CPU failed stays with a warning (`stage6/orchestrator.py:277-283`, 312-316).
  `gpu` in the model holds them beside llama.cpp, whose failure for want of memory is
  one of the outcomes of `RunLlama`; no property promises that it has the GPU for
  itself.

Jobs
* The status file of a phase is removed only once the next machine is set up
  (`spheron_launch.py:412`); a launcher that polls before takes the old one.
  `--delete-volume` passes an id where a handle is expected (1146, 1175).
  `bootstrap.sh` ends with FATAL without a status. The "Halting" of the baseline row
  is taken by the row loop for a failed row (`run_ablations.py:917`). Two launchers
  may both find no machine and rent one each; the model has one launcher at a time.
* A torn `stage2_pruned/` is not repaired: the log says "will re-run Stage 2"
  (`run_ablations.py:587-591`), but the row's process takes the directory for a
  finished Stage 2, fails to load it, and does so on every attempt. A checkpoint
  whose kill came between weights and tokenizer counts as done for
  `--skip-stage2p5` (576-580) and is published without it; `FlagsHonest` promises the
  weights only.
* `phase0_prep.py` pulls the artifacts of Stage 1 that are missing, one by one: a
  volume on which Stage 1 was killed half way gets the rest from the bucket, of
  another run. `bootstrap.sh` goes on when the bucket cannot be listed (118-120) or
  has no complete `_shared/` (136), and pulls results all the same (138-144).

## Not modelled

Tensor arithmetic (scores, costs, losses, decompositions), the inside of numeric
solvers, logging and telemetry, vLLM, the rental service and the bucket beyond
their answers. Router-KD's teacher, losses and optimizer, the plugin registry and
the drivers around the same pipeline (`run_probe`, `run_reap_ream_35pct`,
`sweep_orchestrator`, `hf_jobs/entrypoint`, `hub_upload`) have no state or protocol
beyond what the modules have, or only the network's. Inside the modelled parts: the
RNG restore and legacy readers of Stage 2; message sizes (`EveryRunEnds` assumes
that an error message fits into the pipe); orphaned replicas and converters that
survive their parent; OOM retries inside a replica; `--skip-save` and the restore
of a directory on another machine; the outer EoRA loop of the budget solver and
RCO's gradient search; legacy sidecar paths and schemas; `block_outputs` subsets
and the logits archives; files whose deletion fails.

## Plan

1. Done: every component above with its runs; the refinement of the register; the
   safety proofs of the eight modules under "What is proved".
2. `Pipeline` on two machines (`hf_jobs/entrypoint.py`, `utils/hub_upload.py`), and
   the environment overrides in the evaluation.
