---------------------------- MODULE RouterKdDdp ----------------------------
(***************************************************************************)
(* Router distillation on several GPUs: the rank workers of                *)
(* router_kd/ddp_runtime.py, each running the training loop of             *)
(* router_kd/orchestrator.py, and the parent that joins them.              *)
(*                                                                         *)
(* Every rank is a process of its own; they meet only in the collectives   *)
(* of torch.distributed.  ops[r] is the sequence of collectives rank r has *)
(* entered, with the value it brought to each.  The n-th collective of one *)
(* rank pairs with the n-th of every other, whatever they are: a reduction *)
(* is left when all ranks entered their n-th, a broadcast when rank 0 did. *)
(* The two reductions of a log window count as one; torch.distributed and  *)
(* the two-rank ends of a dead peer's collectives are external.            *)
(*                                                                         *)
(* Weights are named by the number of optimizer steps behind them.         *)
(* Checkpoints are written at once here: their writer is module RouterKd.  *)
(***************************************************************************)
EXTENDS Naturals, Sequences, FiniteSets

CONSTANTS
    World,      \* ddp.world_size
    RunBatches, \* batches of the run
    GradAccum,  \* gradient_accumulation
    LogPeriod,  \* log_every_n_steps
    CkptEvery,  \* checkpoint_every_n_steps
    MaxFaults   \* bound: non-finite losses, local failures and kills

Ranks == 0 .. World - 1
MaxStep == RunBatches \div GradAccum
RunSteps == 0 .. MaxStep

ASSUME WorldAssumption ==
    /\ World \in Nat \ {0, 1} /\ RunBatches \in Nat \ {0}
    /\ GradAccum \in 1 .. RunBatches /\ LogPeriod \in Nat \ {0}
    /\ CkptEvery \in Nat \ {0} /\ MaxFaults \in Nat

VARIABLES
    kept,     \* steps of the step_N.pt on disk
    bestAt,   \* the step best.pt was taken at; 0: no such file
    exported, \* the weights exported; 0: nothing
    noResume, \* --no-resume
    where, batch, steps, params, stopping,  \* of each rank; params: its weights
    loaded,   \* the checkpoint each rank resumed from
    ops,      \* the collectives each rank has entered
    results,  \* result_q
    outcome,  \* what spawn_ddp_workers returned or raised
    faults, culprits  \* failures so far; ranks that failed by themselves

files == <<kept, bestAt, exported>>
ranks == <<where, batch, steps, params, stopping, loaded, ops>>
distributed == <<files, noResume, ranks, results, outcome, faults, culprits>>

Collectives == {"init", "wrap", "finite", "grads", "mean", "flag", "share"}
Broadcasts == {"wrap", "flag", "share"}
Dead == {"exited", "failed", "killed"}
Bit(b) == IF b THEN 1 ELSE 0

\* Module-state broadcasts bring the sender's weights, the reduction of the
\* finiteness flag brings each rank's own; the others bring nothing.
Entered(r, kind, value) == Append(ops[r], [kind |-> kind, value |-> value])

NewestKept == IF kept = {} THEN 0
              ELSE CHOOSE s \in kept : \A t \in kept : t <= s

\* The process starts with any checkpoints earlier ones left.  A best.pt newer
\* than all of them, left by a crash, is the subject of RouterKd.
RanksInit ==
    /\ kept \in SUBSET (RunSteps \ {0})
    /\ bestAt \in 0 .. NewestKept /\ exported = 0
    /\ noResume \in BOOLEAN
    /\ where = [r \in Ranks |-> "spawn"]
    /\ batch = [r \in Ranks |-> 0] /\ steps = [r \in Ranks |-> 0]
    /\ params = [r \in Ranks |-> 0] /\ stopping = [r \in Ranks |-> FALSE]
    /\ loaded = [r \in Ranks |-> 0] /\ ops = [r \in Ranks |-> <<>>]
    /\ results = <<>> /\ outcome = <<"running">> /\ faults = 0 /\ culprits = {}

Go(r, place) == where' = [where EXCEPT ![r] = place]

Enter(r, kind, value) ==
    /\ Go(r, kind)
    /\ ops' = [ops EXCEPT ![r] = Entered(r, kind, value)]

Others == UNCHANGED <<noResume, results, outcome, faults, culprits>>

\* Rank r may leave the collective it is in: its peers brought the same one.
Arrived(r) ==
    /\ where[r] \in Collectives
    /\ \A q \in IF where[r] \in Broadcasts THEN {0} ELSE Ranks :
          Len(ops[q]) >= Len(ops[r]) /\ ops[q][Len(ops[r])].kind = where[r]

Values(r) == {ops[q][Len(ops[r])].value : q \in Ranks}
FromRank0(r) == ops[0][Len(ops[r])].value

\* An exception in rank r: the message is queued before the group is torn
\* down (_worker_entry).
RankRaises(r) ==
    /\ Go(r, "teardown")
    /\ results' = Append(results, <<"err", r>>)

----------------------------------------------------------------------------
(* Bootstrap and resume                                                    *)

Bootstrap(r) ==
    /\ where[r] = "spawn" /\ Enter(r, "init", 0)
    /\ UNCHANGED <<files, batch, steps, params, stopping, loaded>> /\ Others

Initialized(r) ==
    /\ where[r] = "init" /\ Arrived(r) /\ Go(r, "restore")
    /\ UNCHANGED <<files, batch, steps, params, stopping, loaded, ops>> /\ Others

\* Every rank looks for the newest checkpoint itself; with --no-resume every
\* rank deletes the directory.  Then the model is wrapped, which takes the
\* weights of rank 0.
RankRestore(r) ==
    /\ where[r] = "restore"
    /\ IF noResume THEN kept' = {} /\ bestAt' = 0 ELSE UNCHANGED <<kept, bestAt>>
    /\ LET s == IF noResume THEN 0 ELSE NewestKept
       IN /\ loaded' = [loaded EXCEPT ![r] = s]
          /\ steps' = [steps EXCEPT ![r] = s]
          /\ batch' = [batch EXCEPT ![r] = s * GradAccum]
          /\ params' = [params EXCEPT ![r] = s]
          /\ Enter(r, "wrap", s)
    /\ UNCHANGED <<exported, stopping>> /\ Others

Wrapped(r) ==
    /\ where[r] = "wrap" /\ \A q \in Ranks : Len(ops[q]) >= Len(ops[r])
    /\ params' = [params EXCEPT ![r] = FromRank0(r)]
    /\ Go(r, "batch")
    /\ UNCHANGED <<files, batch, steps, stopping, loaded, ops>> /\ Others

----------------------------------------------------------------------------
(* One batch                                                               *)

FirstBatch(r) == batch[r] = loaded[r] * GradAccum

\* Forward and loss.  The finiteness of the loss goes into the reduction ...
Forward(r, finite) ==
    /\ where[r] = "batch" /\ batch[r] < RunBatches
    /\ finite \/ (~FirstBatch(r) /\ faults < MaxFaults)
    /\ Enter(r, "finite", Bit(finite))
    /\ faults' = IF finite THEN faults ELSE faults + 1
    /\ culprits' = IF finite THEN culprits ELSE culprits \cup {r}
    /\ UNCHANGED <<files, batch, steps, params, stopping, loaded, noResume, results, outcome>>

\* ... except in the first batch of the run, where the sanity probe raises on
\* the rank that sees it.
ProbeFails(r) ==
    /\ where[r] = "batch" /\ batch[r] < RunBatches /\ FirstBatch(r) /\ faults < MaxFaults
    /\ RankRaises(r)
    /\ faults' = faults + 1 /\ culprits' = culprits \cup {r}
    /\ UNCHANGED <<files, batch, steps, params, stopping, loaded, ops, noResume, outcome>>

WindowEnds(r) == (batch[r] + 1) % GradAccum = 0

\* all_ranks_finite; the backward pass all-reduces at a window's end only.
Finite(r) ==
    /\ where[r] = "finite" /\ Arrived(r) /\ 0 \notin Values(r)
    /\ IF WindowEnds(r)
          THEN Enter(r, "grads", 0) /\ UNCHANGED batch
          ELSE batch' = [batch EXCEPT ![r] = @ + 1] /\ Go(r, "batch") /\ UNCHANGED ops
    /\ UNCHANGED <<files, steps, params, stopping, loaded>> /\ Others

NotFinite(r) ==
    /\ where[r] = "finite" /\ Arrived(r) /\ 0 \in Values(r)
    /\ RankRaises(r)
    /\ UNCHANGED <<files, batch, steps, params, stopping, loaded, ops, noResume, outcome, faults, culprits>>

StepTogether(r) ==
    /\ where[r] = "grads" /\ Arrived(r)
    /\ steps' = [steps EXCEPT ![r] = @ + 1]
    /\ params' = [params EXCEPT ![r] = @ + 1]
    /\ IF (steps[r] + 1) % LogPeriod = 0
          THEN Enter(r, "mean", 0)
          ELSE Go(r, "save") /\ UNCHANGED ops
    /\ UNCHANGED <<files, batch, stopping, loaded>> /\ Others

\* The tracker of rank 0: best.pt is written when the EMA improved; the stop
\* decision is broadcast.
Track(improved, stopNow) ==
    /\ where[0] = "mean" /\ Arrived(0)
    /\ bestAt = 0 => improved
    /\ improved => ~stopNow
    /\ bestAt' = IF improved THEN steps[0] ELSE bestAt
    /\ Enter(0, "flag", Bit(stopNow))
    /\ UNCHANGED <<kept, exported, batch, steps, params, stopping, loaded>> /\ Others

NoTrack(r) ==
    /\ where[r] = "mean" /\ r # 0 /\ Arrived(r)
    /\ Enter(r, "flag", 0)
    /\ UNCHANGED <<files, batch, steps, params, stopping, loaded>> /\ Others

\* Fault: the decision is not broadcast, each rank keeps its own.
FlagLocally(r) ==
    /\ where[r] = "flag" /\ Arrived(r)
    /\ stopping' = [stopping EXCEPT ![r] = (ops[r][Len(ops[r])].value = 1)]
    /\ Go(r, "save")
    /\ UNCHANGED <<files, batch, steps, params, loaded, ops>> /\ Others

Flag(r) ==
    /\ where[r] = "flag" /\ Arrived(r)
    /\ stopping' = [stopping EXCEPT ![r] = (FromRank0(r) = 1)]
    /\ Go(r, "save")
    /\ UNCHANGED <<files, batch, steps, params, loaded, ops>> /\ Others

\* The periodic checkpoint, and the unconditional one of an early stop: rank
\* 0 only.  The prune keeps the two newest.
Save(r) ==
    /\ where[r] = "save"
    /\ kept' = IF r = 0 /\ (stopping[r] \/ steps[r] % CkptEvery = 0)
                   THEN LET c == kept \cup {steps[r]}
                        IN {s \in c : Cardinality({t \in c : t > s}) < 2}
                   ELSE kept
    /\ batch' = [batch EXCEPT ![r] = @ + 1]
    /\ Go(r, IF stopping[r] THEN "finish" ELSE "batch")
    /\ UNCHANGED <<bestAt, exported, steps, params, stopping, loaded, ops>> /\ Others

LastBatch(r) ==
    /\ where[r] = "batch" /\ batch[r] = RunBatches
    /\ Go(r, "finish")
    /\ UNCHANGED <<files, batch, steps, params, stopping, loaded, ops>> /\ Others

----------------------------------------------------------------------------
(* Export                                                                  *)

\* Rank 0 reloads best.pt and broadcasts its weights.
Finish(r) ==
    /\ where[r] = "finish"
    /\ params' = IF r = 0 /\ bestAt # 0 THEN [params EXCEPT ![0] = bestAt] ELSE params
    /\ Enter(r, "share", params'[r])
    /\ UNCHANGED <<files, batch, steps, stopping, loaded>> /\ Others

Share(r) ==
    /\ where[r] = "share" /\ Arrived(r)
    /\ params' = [params EXCEPT ![r] = FromRank0(r)]
    /\ Go(r, "export")
    /\ UNCHANGED <<files, batch, steps, stopping, loaded, ops>> /\ Others

\* Rank 0 writes the checkpoint and reports; every rank returns.
RankExport(r) ==
    /\ where[r] = "export" /\ Go(r, "exited")
    /\ IF r = 0
          THEN exported' = params[0] /\ results' = Append(results, <<"ok", 0>>)
          ELSE UNCHANGED <<exported, results>>
    /\ UNCHANGED <<kept, bestAt, batch, steps, params, stopping, loaded, ops, noResume, outcome, faults, culprits>>

----------------------------------------------------------------------------
(* Failures                                                                *)

\* Any exception outside a collective: out of memory, a failed write.
Fail(r) ==
    /\ where[r] \notin Dead \cup Collectives \cup {"teardown"} /\ faults < MaxFaults
    /\ RankRaises(r)
    /\ faults' = faults + 1 /\ culprits' = culprits \cup {r}
    /\ UNCHANGED <<files, batch, steps, params, stopping, loaded, ops, noResume, outcome>>

Kill(r) ==
    /\ where[r] \notin Dead /\ faults < MaxFaults
    /\ Go(r, "killed") /\ faults' = faults + 1 /\ culprits' = culprits \cup {r}
    /\ UNCHANGED <<files, batch, steps, params, stopping, loaded, ops, noResume, results, outcome>>

Teardown(r) ==
    /\ where[r] = "teardown" /\ Go(r, "failed")
    /\ UNCHANGED <<files, batch, steps, params, stopping, loaded, ops, noResume, results, outcome, faults, culprits>>

\* A peer is gone: the collective r waits in ends with an exception, or with
\* an abort by the communication library.
Stranded(r) ==
    /\ where[r] \in Collectives
    /\ \E q \in Ranks : where[q] \in Dead /\ Len(ops[q]) < Len(ops[r])

PeerLost(r) ==
    /\ Stranded(r) /\ RankRaises(r)
    /\ UNCHANGED <<files, batch, steps, params, stopping, loaded, ops, noResume, outcome, faults, culprits>>

Aborted(r) ==
    /\ Stranded(r) /\ Go(r, "killed")
    /\ UNCHANGED <<files, batch, steps, params, stopping, loaded, ops, noResume, results, outcome, faults, culprits>>

----------------------------------------------------------------------------
(* The parent                                                              *)

Errors == {n \in DOMAIN results : results[n][1] = "err"}
FirstError == CHOOSE n \in Errors : \A m \in Errors : n <= m
Failed == {r \in Ranks : where[r] \in {"failed", "killed"}}

\* spawn_ddp_workers: join every process, then look at the queue; the first
\* error wins over an exit code, and both over the result of rank 0.
JoinAll ==
    /\ outcome = <<"running">> /\ \A r \in Ranks : where[r] \in Dead
    /\ outcome' = IF Errors # {} THEN results[FirstError]
                  ELSE IF Failed # {} THEN <<"err", CHOOSE r \in Failed : \A q \in Failed : r <= q>>
                  ELSE <<"ok", 0>>
    /\ UNCHANGED <<files, noResume, ranks, results, faults, culprits>>

\* The parent has returned or raised.
Ended == outcome # <<"running">>
Returned == Ended /\ UNCHANGED distributed

----------------------------------------------------------------------------

RankStep(r) ==
    \/ Bootstrap(r)
    \/ Initialized(r)
    \/ RankRestore(r)
    \/ Wrapped(r)
    \/ \E finite \in BOOLEAN : Forward(r, finite)
    \/ Finite(r)
    \/ NotFinite(r)
    \/ StepTogether(r)
    \/ r = 0 /\ \E improved, stopNow \in BOOLEAN : Track(improved, stopNow)
    \/ NoTrack(r)
    \/ Flag(r)
    \/ Save(r)
    \/ LastBatch(r)
    \/ Finish(r)
    \/ Share(r)
    \/ RankExport(r)
    \/ Teardown(r)

PeerFailure(r) == PeerLost(r) \/ Aborted(r)

RanksNext ==
    \/ \E r \in Ranks : RankStep(r) \/ PeerFailure(r)
    \/ \E r \in Ranks : ProbeFails(r) \/ Fail(r) \/ Kill(r)
    \/ JoinAll
    \/ Returned

RanksSpec == RanksInit /\ [][RanksNext]_distributed

\* What the scheduler owes: every process runs, and torch.distributed ends a
\* collective whose peer is gone (a closed connection, or its timeout).
Work == JoinAll \/ \E r \in Ranks : RankStep(r) \/ PeerFailure(r)

----------------------------------------------------------------------------
(* Properties                                                              *)

\* No desync: the collectives of any two ranks pair up kind by kind, whatever
\* branch a loss, a log window, a checkpoint or an early stop sends each one.
Lockstep ==
    \A r, q \in Ranks : \A n \in DOMAIN ops[r] \cap DOMAIN ops[q] :
        ops[r][n].kind = ops[q][n].kind

\* All ranks that are about to wrap the model, or beyond, resumed from the same
\* checkpoint, though each looked for itself while rank 0 may already be saving
\* or another rank still deleting for --no-resume.
RestoredTogether ==
    \A r, q \in Ranks : Len(ops[r]) >= 2 /\ Len(ops[q]) >= 2 => loaded[r] = loaded[q]

\* Replicas that took the same number of collectives hold the same weights at
\* the same step, and what is exported is rank 0's best.
Replicas ==
    /\ \A r, q \in Ranks : ops[r] # <<>> /\ Len(ops[r]) = Len(ops[q])
            /\ where[r] = where[q] /\ where[r] \notin {"restore", "wrap", "share"} \cup Dead \cup {"teardown"}
         => params[r] = params[q] /\ (where[r] # "export" => batch[r] = batch[q] /\ steps[r] = steps[q])
    /\ exported # 0 => exported = bestAt \/ bestAt = 0

\* The parent reports success only when every rank returned and the export is
\* there, and it blames a rank that failed by itself, not a victim of one -
\* as long as nobody was killed without a word.
ParentTruth ==
    /\ outcome = <<"ok", 0>> => culprits = {} /\ exported = params[0]
                                /\ \A r \in Ranks : where[r] = "exited"
    /\ outcome[1] = "err" => culprits # {}
    /\ outcome[1] = "err" /\ (\A r \in culprits : where[r] # "killed") =>
          outcome[2] \in culprits
            \/ \E n \in DOMAIN ops[outcome[2]] :
                 /\ ops[outcome[2]][n].kind = "finite"
                 /\ \E q \in Ranks : n \in DOMAIN ops[q] /\ ops[q][n].value = 0

\* The ranks enter the same collectives in the same order, from the same
\* checkpoint, and stay replicas of each other; the parent tells who failed,
\* and success only when nobody did.
RanksAgree == Lockstep /\ RestoredTogether /\ Replicas /\ ParentTruth
=============================================================================
