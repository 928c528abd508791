----------------------------- MODULE Stage3Cov -----------------------------
(***************************************************************************)
(* Stage 3: the covariances the factorization needs, collected with        *)
(* crash-resume (stage3/orchestrator.py, stage3/plugins/                   *)
(* covariance_collection.py).                                              *)
(*                                                                         *)
(* Phase A forwards the calibration sequences through the model and spills *)
(* one B-covariance file and, with cross-covariance, one C-covariance file *)
(* per layer.  In process, windows of layers are forwarded together and a  *)
(* background thread writes the spills; data-parallel, one process per     *)
(* replica forwards a contiguous shard into a directory of its own, and    *)
(* the parent sums these up.  A restarted run skips what is spilled.  The  *)
(* factorization reads the spills; they are deleted when Stage 3 succeeds. *)
(*                                                                         *)
(* A Gram matrix is abstracted to how often each sequence is in its sum,   *)
(* and a configuration of the operator to its number.                      *)
(***************************************************************************)
EXTENDS Naturals, FiniteSets

CONSTANTS
    NumCovLayers,  \* MoE layers
    NumSeqs,       \* calibration sequences
    Window,        \* cov_window_size
    CovReplicaChoices,  \* what _resolve_cov_replicas may return
    MaxConfigs,    \* bound: configurations the operator tries
    MaxCovRuns,    \* bound: runs, of which the last is not interrupted
    MaxOoms        \* bound: OOM retries per run

CovLayers == 0 .. NumCovLayers - 1
Seqs == 0 .. NumSeqs - 1
CovReplicas == UNION {0 .. n - 1 : n \in CovReplicaChoices}
Kinds == {"B", "C"}

ASSUME CovAssumption ==
    /\ NumCovLayers \in Nat \ {0} /\ NumSeqs \in Nat \ {0} /\ Window \in Nat \ {0}
    /\ CovReplicaChoices # {} /\ CovReplicaChoices \subseteq 1 .. NumSeqs
    /\ MaxConfigs \in Nat \ {0} /\ MaxCovRuns \in Nat \ {0} /\ MaxOoms \in Nat

Zero == [s \in Seqs |-> 0]
\* A spill file: the configuration it was collected under, and its sum.
Spill(k, sum) == [config |-> k, sum |-> sum]
NoSpill == Spill(0, Zero)
NoSpills == [l \in CovLayers |-> NoSpill]

VARIABLES
    spill,   \* the two canonical spill directories, by kind
    rspill,  \* their _replica_r subdirectories, by kind
    published, \* stage3_svd/: the configuration it is for, or 0
    attempt, setting, again, copies, cross,  \* the run and its settings
    where, window, \* the main process, and the window or layer it is at
    fed,     \* sequences forwarded through the current window
    acc,     \* the accumulators in memory; B and C are fed alike
    queue,   \* spill_executor: jobs not yet done
    lost,    \* a job failed and no one has asked yet
    rat, rpart,  \* of each replica process: layer, and spill of it at hand
    ooms     \* OOMs met in this run

covDisk == <<spill, rspill, published>>
covSettings == <<attempt, setting, again, copies, cross>>
progress == <<where, window, fed, acc, queue, lost, ooms>>
children == <<rat, rpart>>
covVars == <<covDisk, covSettings, progress, children>>

CovInit ==
    /\ spill = [k \in Kinds |-> NoSpills]
    /\ rspill = [k \in Kinds |-> [r \in CovReplicas |-> NoSpills]]
    /\ published = 0
    /\ attempt = 0 /\ setting = 1 /\ again = TRUE
    /\ copies = 1 /\ cross = FALSE
    /\ where = "down" /\ window = 0 /\ fed = 0
    /\ acc = [l \in CovLayers |-> Zero] /\ queue = {} /\ lost = FALSE
    /\ rat = [r \in CovReplicas |-> 0] /\ rpart = [r \in CovReplicas |-> "B"]
    /\ ooms = 0

----------------------------------------------------------------------------
(* Start                                                                   *)

\* cross_covariance and the replica count may be changed from run to run;
\* --no-resume deletes the spill directories.
CovStart(resume, r, x) ==
    /\ where = "down" /\ attempt < MaxCovRuns
    /\ attempt' = attempt + 1 /\ again' = resume
    /\ copies' = r /\ cross' = x
    /\ spill' = IF resume THEN spill ELSE [k \in Kinds |-> NoSpills]
    /\ rspill' = IF resume THEN rspill ELSE [k \in Kinds |-> [q \in CovReplicas |-> NoSpills]]
    /\ where' = "phaseA"
    /\ window' = 0 /\ fed' = 0 /\ queue' = {} /\ lost' = FALSE
    /\ acc' = [l \in CovLayers |-> Zero]
    /\ rat' = [q \in CovReplicas |-> 0] /\ rpart' = [q \in CovReplicas |-> "B"]
    /\ ooms' = 0
    /\ UNCHANGED <<published, setting>>

Needed == IF cross THEN Kinds ELSE {"B"}

\* "Already spilled", in a canonical directory or in one of replica r.
Has(dir, l) == \A k \in Needed : dir[k][l] # NoSpill
OfReplica(r) == [k \in Kinds |-> rspill[k][r]]

\* All spills exist: Phase A is skipped, teacher load included.
SkipPhaseA ==
    /\ where = "phaseA" /\ again /\ \A l \in CovLayers : Has(spill, l)
    /\ where' = "factor"
    /\ UNCHANGED <<covDisk, covSettings, window, fed, acc, queue, lost, ooms, children>>

EnterPhaseA ==
    /\ where = "phaseA" /\ ~(again /\ \A l \in CovLayers : Has(spill, l))
    /\ where' = IF copies > 1 THEN "replicas" ELSE "windows"
    /\ UNCHANGED <<covDisk, covSettings, window, fed, acc, queue, lost, ooms, children>>

----------------------------------------------------------------------------
(* Phase A in process: _collect_covariances                                *)

NumWindows == (NumCovLayers + Window - 1) \div Window
InWindow(l) == l \div Window = window
ToCollect == {l \in CovLayers : InWindow(l) /\ ~Has(spill, l)}

SkipWindow ==
    /\ where = "windows" /\ window < NumWindows /\ ToCollect = {}
    /\ window' = window + 1
    /\ UNCHANGED <<covDisk, covSettings, where, fed, acc, queue, lost, ooms, children>>

\* One more sequence is forwarded; every hooked layer takes it in.
Feed ==
    /\ where = "windows" /\ window < NumWindows /\ ToCollect # {} /\ fed < NumSeqs
    /\ acc' = [l \in CovLayers |-> IF l \in ToCollect THEN [acc[l] EXCEPT ![fed] = @ + 1]
                                                   ELSE acc[l]]
    /\ fed' = fed + 1
    /\ UNCHANGED <<covDisk, covSettings, where, window, queue, lost, ooms, children>>

\* Fault: the retry adds to what the aborted attempt accumulated.
RetryOnTop ==
    /\ where = "windows" /\ fed > 0 /\ fed < NumSeqs /\ ooms < MaxOoms
    /\ fed' = 0 /\ ooms' = ooms + 1
    /\ UNCHANGED <<covDisk, covSettings, where, window, acc, queue, lost, children>>

\* With cov_batch_size "auto", run_with_oom_backoff runs the window again;
\* _discard_window drops what the aborted attempt had accumulated.
Retry ==
    /\ where = "windows" /\ fed > 0 /\ fed < NumSeqs /\ ooms < MaxOoms
    /\ acc' = [l \in CovLayers |-> IF l \in ToCollect THEN Zero ELSE acc[l]]
    /\ fed' = 0 /\ ooms' = ooms + 1
    /\ UNCHANGED <<covDisk, covSettings, where, window, queue, lost, children>>

\* finalize_layer and the submission of the spill jobs.
FinalizeWindow ==
    /\ where = "windows" /\ window < NumWindows /\ ToCollect # {} /\ fed = NumSeqs
    /\ ~lost
    /\ queue' = queue \cup (Needed \X ToCollect)
    /\ window' = window + 1 /\ fed' = 0
    /\ UNCHANGED <<covDisk, covSettings, where, acc, lost, ooms, children>>

\* Jobs are submitted, and done, in the order of the layers, B before C.
NextJob(kind, l) ==
    /\ <<kind, l>> \in queue
    /\ \A job \in queue : l < job[2] \/ (l = job[2] /\ (kind = "B" \/ job[1] = "C"))

\* The spill thread: tmp, rename, then the layer is evicted from memory.
SpillJob(kind, l) ==
    /\ NextJob(kind, l)
    /\ spill' = [spill EXCEPT ![kind][l] = Spill(setting, acc[l])]
    /\ queue' = queue \ {<<kind, l>>}
    /\ UNCHANGED <<rspill, published, covSettings, where, window, fed, acc, lost, ooms, children>>

\* The disk is full: the exception waits in the future of the job.
SpillFails(kind, l) ==
    /\ NextJob(kind, l) /\ attempt < MaxCovRuns
    /\ queue' = queue \ {<<kind, l>>} /\ lost' = TRUE
    /\ UNCHANGED <<covDisk, covSettings, where, window, fed, acc, ooms, children>>

\* _drain_done_futures, or the loop over all futures at the end, raises it;
\* the process ends once the remaining jobs are done.
FailureRaised ==
    /\ where = "windows" /\ lost /\ queue = {}
    /\ fed = NumSeqs \/ window = NumWindows
    /\ where' = "down"
    /\ UNCHANGED <<covDisk, covSettings, window, fed, acc, queue, lost, ooms, children>>

Flushed ==
    /\ where = "windows" /\ window = NumWindows /\ queue = {} /\ ~lost
    /\ where' = "factor" /\ window' = 0
    /\ UNCHANGED <<covDisk, covSettings, fed, acc, queue, lost, ooms, children>>

----------------------------------------------------------------------------
(* Phase A data-parallel: run_dp_covariance_collection                     *)

Running == 0 .. copies - 1

\* _shard_calib: contiguous shards, the last one takes the remainder.
Shard(n, r) ==
    LET base == NumSeqs \div n
    IN r * base .. (IF r = n - 1 THEN NumSeqs ELSE (r + 1) * base) - 1
ShardSum(n, r) == [s \in Seqs |-> IF s \in Shard(n, r) THEN 1 ELSE 0]

\* A replica collects the next layer that is not spilled in its directory,
\* B first, then C.
ReplicaSkips(r) ==
    /\ where = "replicas" /\ r \in Running /\ rat[r] < NumCovLayers
    /\ rpart[r] = "B" /\ Has(OfReplica(r), rat[r])
    /\ rat' = [rat EXCEPT ![r] = @ + 1]
    /\ UNCHANGED <<covDisk, covSettings, progress, rpart>>

ReplicaSpills(r) ==
    /\ where = "replicas" /\ r \in Running /\ rat[r] < NumCovLayers
    /\ rpart[r] = "B" => ~Has(OfReplica(r), rat[r])
    /\ rspill' = [rspill EXCEPT ![rpart[r]][r][rat[r]] = Spill(setting, ShardSum(copies, r))]
    /\ IF rpart[r] = "B" /\ cross
          THEN rpart' = [rpart EXCEPT ![r] = "C"] /\ rat' = rat
          ELSE rpart' = [rpart EXCEPT ![r] = "B"] /\ rat' = [rat EXCEPT ![r] = @ + 1]
    /\ UNCHANGED <<spill, published, covSettings, progress>>

\* A replica exits with an error: the parent, joining, raises.
CovReplicaFails ==
    /\ where = "replicas" /\ attempt < MaxCovRuns
    /\ \E r \in Running : rat[r] < NumCovLayers
    /\ where' = "down"
    /\ UNCHANGED <<covDisk, covSettings, window, fed, acc, queue, lost, ooms, children>>

Joined ==
    /\ where = "replicas" /\ \A r \in Running : rat[r] = NumCovLayers
    /\ where' = "reduceB" /\ window' = 0
    /\ UNCHANGED <<covDisk, covSettings, fed, acc, queue, lost, ooms, children>>

\* _reduce_spilled_cov_dirs, one layer: the sum over the replicas, as the number
\* of times one of them has the sequence; a missing file adds nothing.
Total(kind, l) ==
    [s \in Seqs |-> Cardinality({p \in Running \X Seqs : p[2] < rspill[kind][p[1]][l].sum[s]})]
Present(kind, l) == \E r \in Running : rspill[kind][r][l] # NoSpill

Reduce(kind) ==
    /\ where = (IF kind = "B" THEN "reduceB" ELSE "reduceC") /\ window < NumCovLayers
    /\ spill' = IF Present(kind, window)
                THEN [spill EXCEPT ![kind][window] = Spill(setting, Total(kind, window))] ELSE spill
    /\ window' = window + 1
    /\ UNCHANGED <<rspill, published, covSettings, where, fed, acc, queue, lost, ooms, children>>

Reduced ==
    /\ where \in {"reduceB", "reduceC"} /\ window = NumCovLayers
    /\ where' = IF where = "reduceB" /\ cross THEN "reduceC" ELSE "factor"
    /\ window' = 0
    /\ UNCHANGED <<covDisk, covSettings, fed, acc, queue, lost, ooms, children>>

----------------------------------------------------------------------------
(* Factorization (module Factorize) and publication                        *)

\* The layers are factored from the spills, and the checkpoint is saved.
Factor ==
    /\ where = "factor"
    /\ published' = setting
    /\ where' = "clean"
    /\ UNCHANGED <<spill, rspill, covSettings, window, fed, acc, queue, lost, ooms, children>>

\* rmtree of the two spill directories, B before C, file by file.
Removed(kind) ==
    spill[kind] = NoSpills /\ \A r \in CovReplicas : rspill[kind][r] = NoSpills

Clean(kind, l) ==
    /\ where = "clean" /\ spill[kind][l] # NoSpill
    /\ kind = "C" => Removed("B")
    /\ spill' = [spill EXCEPT ![kind][l] = NoSpill]
    /\ UNCHANGED <<rspill, published, covSettings, progress, children>>

CleanReplica(kind, r) ==
    /\ where = "clean" /\ rspill[kind][r] # NoSpills
    /\ kind = "C" => Removed("B")
    /\ rspill' = [rspill EXCEPT ![kind][r] = NoSpills]
    /\ UNCHANGED <<spill, published, covSettings, progress, children>>

Cleaned ==
    /\ where = "clean" /\ \A kind \in Kinds : Removed(kind)
    /\ where' = "done"
    /\ UNCHANGED <<covDisk, covSettings, window, fed, acc, queue, lost, ooms, children>>

\* After a success the operator may change the configuration.
Exit ==
    /\ where = "done" /\ attempt < MaxCovRuns
    /\ where' = "down"
    /\ setting' \in {setting} \cup (IF setting < MaxConfigs THEN {setting + 1} ELSE {})
    /\ UNCHANGED <<covDisk, attempt, again, copies, cross, window, fed, acc, queue, lost,
                   ooms, children>>

\* SIGKILL, eviction, an exception: memory and threads are lost, replica
\* processes go down with the job.
CovCrash ==
    /\ where \notin {"down", "done"} /\ attempt < MaxCovRuns
    /\ where' = "down" /\ queue' = {}
    /\ UNCHANGED <<covDisk, covSettings, window, fed, acc, lost, ooms, children>>

CovFinished == where = "done" /\ attempt = MaxCovRuns /\ UNCHANGED covVars

----------------------------------------------------------------------------

CovMain ==
    \/ SkipPhaseA \/ EnterPhaseA
    \/ SkipWindow \/ Feed \/ FinalizeWindow \/ FailureRaised \/ Flushed
    \/ Joined \/ (\E kind \in Kinds : Reduce(kind)) \/ Reduced
    \/ Factor
    \/ \E kind \in Kinds, l \in CovLayers : Clean(kind, l)
    \/ \E kind \in Kinds, r \in CovReplicas : CleanReplica(kind, r)
    \/ Cleaned

CovReplica(r) == ReplicaSkips(r) \/ ReplicaSpills(r)

CovStartAny == \E resume, x \in BOOLEAN, r \in CovReplicaChoices : CovStart(resume, r, x)

CovSpills == \E kind \in Kinds, l \in CovLayers : SpillJob(kind, l)
CovNext ==
    \/ CovStartAny \/ CovMain \/ CovSpills
    \/ \E r \in CovReplicas : CovReplica(r)
    \/ \E kind \in Kinds, l \in CovLayers : SpillFails(kind, l)
    \/ Retry \/ CovReplicaFails \/ Exit \/ CovCrash \/ CovFinished

CovSpec == CovInit /\ [][CovNext]_covVars

\* The main process, the spill thread and the replicas run when they can, and
\* a run that was interrupted is started again.
CovWork == CovMain \/ CovSpills \/ CovStartAny \/ \E r \in CovReplicas : CovReplica(r)

----------------------------------------------------------------------------
(* Properties                                                              *)

Exact(file) == file = Spill(setting, [s \in Seqs |-> 1])

\* Whatever was resumed, retried or summed from replicas, the factorization
\* finds for every layer a covariance that has each sequence exactly once and
\* was collected under the configuration of this run.
FactorInputsExact ==
    where = "factor" =>
        \A l \in CovLayers, kind \in Needed : Exact(spill[kind][l])

\* The orchestrator deletes the spills on success because "a future re-run
\* (e.g. with a different svd_rank_ratio) would silently reuse the stale cov":
\* a new configuration starts from nothing.
NothingStale ==
    \A l \in CovLayers, kind \in Kinds :
        /\ spill[kind][l].config \in {0, setting}
        /\ \A r \in CovReplicas : rspill[kind][r][l].config \in {0, setting}
\* The two of them: what the factorization reads, and what the next one could.
CovarianceSound == FactorInputsExact /\ NothingStale

\* What every run that is interrupted comes to by a later one.
Succeeded == where = "done" /\ published = setting
=============================================================================
