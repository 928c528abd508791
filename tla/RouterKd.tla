------------------------------ MODULE RouterKd ------------------------------
(***************************************************************************)
(* Router distillation (Stages 2.5 and 5), one process: the training loop  *)
(* of router_kd/orchestrator.py, the best-tracker and early stopping of    *)
(* plugins/early_stop.py, the periodic step_N.pt checkpoints with their    *)
(* background writer, and crash-resume from the newest of them.            *)
(*                                                                         *)
(* Two threads: the training thread (pc) and the checkpoint writer (wpc),  *)
(* joined by a queue of one job.  The files are step_N.pt (ckpts), best.pt *)
(* and the exported <stage>_final/ checkpoint.  Router weights are the     *)
(* sequence of gradient windows they were trained on; the EMA of the KL is *)
(* a small number picked anew in each log window, which covers any loss,   *)
(* any smoothing and the kernels' own nondeterminism.                      *)
(***************************************************************************)
EXTENDS Naturals, Sequences, FiniteSets

CONSTANTS
    Batches,       \* len(batches)
    Epochs,        \* stage5_router_kd.epochs
    GradAccums,    \* values of gradient_accumulation a run may be started with
    LogEvery,      \* logging.log_every_n_steps
    CkptEverys,    \* values of checkpoint_every_n_steps a run may be started with
    Patience,      \* early_stop_patience; 0 disables early stopping
    SaveBest,      \* save_best
    Asyncs,        \* values of STAGE5_ASYNC_CKPT a run may be started with
    MaxEma,        \* bound: EMAs are 1 .. MaxEma, smaller is better
    MaxRuns,       \* bound: runs of the stage
    MaxFailures,   \* bound: failing checkpoint writes
    AllowNoResume, \* a run may be started with --no-resume
    Absent,        \* no such file, no job
    StopJob        \* the writer's shutdown sentinel

ASSUME SizesAssumption ==
    /\ Batches \in Nat \ {0} /\ Epochs \in Nat \ {0}
    /\ GradAccums \subseteq 1 .. Batches
    /\ LogEvery \in Nat \ {0} /\ CkptEverys \subseteq Nat \ {0}
    /\ Patience \in Nat /\ MaxEma \in Nat \ {0}
    /\ MaxRuns \in Nat \ {0} /\ MaxFailures \in Nat
ASSUME SwitchesAssumption ==
    SaveBest \in BOOLEAN /\ Asyncs \subseteq BOOLEAN /\ AllowNoResume \in BOOLEAN

Emas == 1 .. MaxEma
Inf == MaxEma + 1                      \* float("inf")
Positions == 0 .. Batches - 1
Steps == 0 .. Batches * Epochs

\* What one optimizer step was computed from: the batches of one epoch whose
\* gradients were accumulated.
Window == [epoch: 0 .. Epochs - 1, of: SUBSET Positions]

\* The payload of step_N.pt; emas is not in the file, it is the history of
\* log windows the saved state has been through.
Payload == [step: Steps, epoch: 0 .. Epochs - 1, at: Positions, ga: GradAccums,
            weights: Seq(Window), emas: Seq(Emas),
            best: 1 .. Inf, bestStep: Steps, noImp: Nat, esRef: 1 .. Inf]

ASSUME SentinelsAssumption ==
    /\ Absent \notin Payload /\ StopJob \notin Payload
    /\ Absent \notin Seq(Window) /\ Absent # StopJob
    /\ Absent \notin [step: Steps, ema: Emas, weights: Seq(Window)]

VARIABLES
    ckpts,      \* step_N.pt, by N
    bestFile,   \* best.pt
    final,      \* what <stage>_final/ holds
    runs, pc,
    ga, async, every,  \* settings of the current run
    epoch, at,  \* the training loop's epoch and position i
    step,       \* optimizer steps
    weights,    \* the student's router weights
    grads,      \* positions whose gradients are in the accumulators
    emas,       \* EMAs of the log windows behind the current weights
    best, bestStep, noImp, esRef, stop,      \* EarlyStopPlugin's state
    queue, job, wpc, error,                  \* _Stage5CheckpointWriter
    failures, failed, \* failing writes so far; one failed in this run
    ragged            \* history variable: a --no-resume that did not finish
                      \* deleting may have left part of the directory

disk == <<ckpts, bestFile, final>>
tracker == <<emas, best, bestStep, noImp, esRef, stop>>
loop == <<epoch, at, step, weights, grads>>
writer == <<queue, job, wpc, error>>
setting == <<ga, async, every>>
vars == <<disk, runs, pc, setting, loop, tracker, writer, failures, failed, ragged>>

Saved == {s \in Steps : ckpts[s] # Absent}
Newest(S) == CHOOSE s \in S : \A t \in S : t <= s
Oldest(S) == CHOOSE s \in S : \A t \in S : s <= t
Min2(a, b) == IF a < b THEN a ELSE b

Fresh ==
    /\ epoch' = 0 /\ at' = 0 /\ step' = 0 /\ weights' = <<>> /\ grads' = {}
    /\ emas' = <<>> /\ best' = Inf /\ bestStep' = 0 /\ noImp' = 0
    /\ esRef' = Inf /\ stop' = FALSE
    /\ queue' = <<>> /\ job' = Absent /\ wpc' = "idle" /\ error' = FALSE

Init ==
    /\ ckpts = [s \in Steps |-> Absent] /\ bestFile = Absent /\ final = Absent
    /\ runs = 0 /\ pc = "down" /\ ga \in GradAccums /\ async \in Asyncs
    /\ every \in CkptEverys
    /\ epoch = 0 /\ at = 0 /\ step = 0 /\ weights = <<>> /\ grads = {}
    /\ emas = <<>> /\ best = Inf /\ bestStep = 0 /\ noImp = 0
    /\ esRef = Inf /\ stop = FALSE
    /\ queue = <<>> /\ job = Absent /\ wpc = "idle" /\ error = FALSE
    /\ failures = 0 /\ failed = FALSE /\ ragged = FALSE

\* An exception leaves run(): the process ends, and the writer - a daemon
\* thread - with it.
Raise == pc' = "down" /\ Fresh /\ UNCHANGED <<disk, runs, setting, failures, failed, ragged>>

----------------------------------------------------------------------------
(* Start and resume                                                        *)

Start(g, a, n, resume) ==
    /\ pc \in {"down", "done"} /\ runs < MaxRuns
    /\ resume \/ AllowNoResume
    /\ runs' = runs + 1 /\ ga' = g /\ async' = a /\ every' = n
    /\ pc' = IF resume THEN "restore" ELSE "clear"
    /\ failed' = FALSE
    /\ Fresh
    /\ UNCHANGED <<disk, failures, ragged>>

\* --no-resume: rmtree of the partial directory, one file after the other.
ClearFile ==
    /\ pc = "clear"
    /\ \/ \E s \in Saved : ckpts' = [ckpts EXCEPT ![s] = Absent] /\ UNCHANGED bestFile
       \/ bestFile # Absent /\ bestFile' = Absent /\ UNCHANGED ckpts
    /\ ragged' = TRUE
    /\ UNCHANGED <<final, runs, pc, setting, loop, tracker, writer, failures, failed>>

Cleared ==
    /\ pc = "clear" /\ Saved = {} /\ bestFile = Absent
    /\ pc' = "train" /\ ragged' = FALSE
    /\ UNCHANGED <<disk, runs, setting, loop, tracker, writer, failures, failed>>

NothingSaved ==
    /\ pc = "restore" /\ Saved = {}
    /\ pc' = "train"
    /\ UNCHANGED <<disk, runs, setting, loop, tracker, writer, failures, failed, ragged>>

Loaded(p, next) ==
    /\ pc' = "train"
    /\ epoch' = p.epoch /\ at' = next
    /\ step' = p.step /\ weights' = p.weights /\ grads' = {}
    /\ emas' = p.emas /\ best' = p.best /\ bestStep' = p.bestStep
    /\ noImp' = p.noImp /\ esRef' = p.esRef /\ stop' = FALSE
    /\ UNCHANGED <<disk, runs, setting, writer, failures, failed, ragged>>

\* Fault: the patience counter starts afresh.
RestoreForgetsPatience ==
    /\ pc = "restore" /\ Saved # {}
    /\ LET p == ckpts[Newest(Saved)]
       IN p.ga = ga /\ Loaded([p EXCEPT !.noImp = 0], p.at + 1)

\* The newest checkpoint is loaded; the positional fast-forward skips every
\* batch up to and including the saved batch_idx.
Restore ==
    /\ pc = "restore" /\ Saved # {}
    /\ LET p == ckpts[Newest(Saved)]
       IN p.ga = ga /\ Loaded(p, p.at + 1)

\* gradient_accumulation differs from the checkpoint's: RuntimeError.
Refuse ==
    /\ pc = "restore" /\ Saved # {}
    /\ ckpts[Newest(Saved)].ga # ga
    /\ Raise

----------------------------------------------------------------------------
(* The training loop                                                       *)

Boundary == (at + 1) % ga = 0

Accumulate ==
    /\ pc = "train" /\ epoch < Epochs /\ at < Batches
    /\ ~Boundary
    /\ grads' = grads \cup {at} /\ at' = at + 1
    /\ UNCHANGED <<disk, runs, pc, setting, epoch, step, weights, tracker, writer, failures, failed, ragged>>

\* backward of the last microbatch, optim.step, zero_grad, scheduler.step.
OptimizerStep ==
    /\ pc = "train" /\ epoch < Epochs /\ at < Batches
    /\ Boundary
    /\ weights' = Append(weights, [epoch |-> epoch, of |-> grads \cup {at}])
    /\ grads' = {} /\ step' = step + 1
    /\ pc' = IF step' % LogEvery = 0 THEN "log" ELSE "save"
    /\ UNCHANGED <<disk, runs, setting, epoch, at, tracker, writer, failures, failed, ragged>>

\* The gradients of a trailing, incomplete window are dropped.
EndEpoch ==
    /\ pc = "train" /\ epoch < Epochs /\ at = Batches
    /\ epoch' = epoch + 1 /\ at' = 0 /\ grads' = {}
    /\ UNCHANGED <<disk, runs, pc, setting, step, weights, tracker, writer, failures, failed, ragged>>

AllTrained ==
    /\ pc = "train" /\ epoch = Epochs
    /\ pc' = IF async THEN "close" ELSE "reload"
    /\ UNCHANGED <<disk, runs, setting, loop, tracker, writer, failures, failed, ragged>>

\* Fault: best.pt is rewritten in every log window.
LogWindowAlwaysBest(e) ==
    /\ pc = "log"
    /\ emas' = Append(emas, e)
    /\ best' = Min2(e, best) /\ bestStep' = step
    /\ bestFile' = [step |-> step, ema |-> e, weights |-> weights]
    /\ noImp' = IF e < esRef THEN 0 ELSE noImp + 1
    /\ esRef' = Min2(esRef, e)
    /\ stop' = (Patience > 0 /\ noImp' >= Patience)
    /\ pc' = "save"
    /\ UNCHANGED <<ckpts, final, runs, setting, loop, writer, failures, failed, ragged>>

\* update_best_tracker (best.pt is written synchronously) and
\* check_early_stop, at the end of a log window with EMA e.
LogWindow(e) ==
    /\ pc = "log"
    /\ emas' = Append(emas, e)
    /\ IF SaveBest /\ e < best
          THEN /\ best' = e /\ bestStep' = step
               /\ bestFile' = [step |-> step, ema |-> e, weights |-> weights]
          ELSE UNCHANGED <<best, bestStep, bestFile>>
    /\ IF Patience > 0
          THEN /\ noImp' = IF e < esRef THEN 0 ELSE noImp + 1
               /\ esRef' = Min2(esRef, e)
          ELSE UNCHANGED <<noImp, esRef>>
    /\ stop' = (Patience > 0 /\ noImp' >= Patience)
    /\ pc' = "save"
    /\ UNCHANGED <<ckpts, final, runs, setting, loop, writer, failures, failed, ragged>>

----------------------------------------------------------------------------
(* Checkpoints                                                             *)

\* _save_stage5_checkpoint: everything is copied to the host at this moment.
Snapshot ==
    [step |-> step, epoch |-> epoch, at |-> at, ga |-> ga, weights |-> weights,
     emas |-> emas, best |-> best, bestStep |-> bestStep, noImp |-> noImp,
     esRef |-> esRef]

\* The prune: the two newest step_*.pt stay.
Pruned(c) ==
    LET saved == {s \in Steps : c[s] # Absent}
    IN [s \in Steps |->
          IF Cardinality({t \in saved : t > s}) >= 2 THEN Absent ELSE c[s]]

NotDue ==
    /\ pc = "save" /\ step % every # 0
    /\ pc' = "stop"
    /\ UNCHANGED <<disk, runs, setting, loop, tracker, writer, failures, failed, ragged>>

\* submit: a failure of an earlier write is raised here ...
SubmitRaises == pc = "save" /\ step % every = 0 /\ async /\ error /\ Raise

SubmitPasses ==
    /\ pc = "save" /\ step % every = 0 /\ async /\ ~error
    /\ pc' = "put"
    /\ UNCHANGED <<disk, runs, setting, loop, tracker, writer, failures, failed, ragged>>

\* ... and put blocks while the queue is full.
Put ==
    /\ pc = "put" /\ queue = <<>>
    /\ queue' = <<Snapshot>> /\ pc' = "stop"
    /\ UNCHANGED <<disk, runs, setting, loop, tracker, job, wpc, error, failures, failed, ragged>>

\* _write_checkpoint_payload on the training thread.
WriteHere ==
    ckpts' = Pruned([ckpts EXCEPT ![step] = Snapshot])

SaveSync ==
    /\ pc = "save" /\ step % every = 0 /\ ~async
    /\ WriteHere /\ pc' = "stop"
    /\ UNCHANGED <<bestFile, final, runs, setting, loop, tracker, writer, failures, failed, ragged>>

GoOn ==
    /\ pc = "stop" /\ ~stop
    /\ pc' = "train" /\ at' = at + 1
    /\ UNCHANGED <<disk, runs, setting, epoch, step, weights, grads, tracker, writer, failures, failed, ragged>>

\* Early stop: drain the writer, then write a final checkpoint in any case.
StopEarly ==
    /\ pc = "stop" /\ stop
    /\ pc' = IF async THEN "join" ELSE "last"
    /\ UNCHANGED <<disk, runs, setting, loop, tracker, writer, failures, failed, ragged>>

Drained == queue = <<>> /\ wpc = "idle"

Join ==
    /\ pc = "join" /\ Drained /\ ~error
    /\ pc' = "last"
    /\ UNCHANGED <<disk, runs, setting, loop, tracker, writer, failures, failed, ragged>>

JoinRaises == pc = "join" /\ Drained /\ error /\ Raise

SaveLast ==
    /\ pc = "last"
    /\ WriteHere /\ pc' = IF async THEN "close" ELSE "reload"
    /\ UNCHANGED <<bestFile, final, runs, setting, loop, tracker, writer, failures, failed, ragged>>

\* A write on the training thread fails (disk full, I/O error), before or
\* after os.replace.
SaveFails ==
    /\ \/ pc = "save" /\ step % every = 0 /\ ~async
       \/ pc = "last"
    /\ failures < MaxFailures /\ failures' = failures + 1
    /\ pc' = "down" /\ Fresh /\ failed' = TRUE
    /\ ckpts' \in {ckpts, [ckpts EXCEPT ![step] = Snapshot]}
    /\ UNCHANGED <<bestFile, final, runs, setting, ragged>>

\* close: the sentinel goes in behind the last job, then the thread is joined.
Close ==
    /\ pc = "close" /\ queue = <<>>
    /\ queue' = <<StopJob>> /\ pc' = "closing"
    /\ UNCHANGED <<disk, runs, setting, loop, tracker, job, wpc, error, failures, failed, ragged>>

\* Fault: close does not look at the error.
ClosedSilently ==
    /\ pc = "closing" /\ wpc = "stopped"
    /\ pc' = "reload"
    /\ UNCHANGED <<disk, runs, setting, loop, tracker, writer, failures, failed, ragged>>

Closed ==
    /\ pc = "closing" /\ wpc = "stopped" /\ ~error
    /\ pc' = "reload"
    /\ UNCHANGED <<disk, runs, setting, loop, tracker, writer, failures, failed, ragged>>

CloseRaises == pc = "closing" /\ wpc = "stopped" /\ error /\ Raise

----------------------------------------------------------------------------
(* The writer thread                                                       *)

Take ==
    /\ wpc = "idle" /\ queue # <<>>
    /\ queue' = Tail(queue)
    /\ IF Head(queue) = StopJob
          THEN wpc' = "stopped" /\ UNCHANGED job
          ELSE wpc' = "write" /\ job' = Head(queue)
    /\ UNCHANGED <<disk, runs, pc, setting, loop, tracker, error, failures, failed, ragged>>

\* torch.save to a tmp file, fsync, os.replace.
Write ==
    /\ wpc = "write"
    /\ ckpts' = [ckpts EXCEPT ![job.step] = job]
    /\ wpc' = "prune"
    /\ UNCHANGED <<bestFile, final, runs, pc, setting, loop, tracker, queue, job, error, failures, failed, ragged>>

\* Fault: an exception ends the writer thread.
WriteFailsDead ==
    /\ wpc = "write" /\ failures < MaxFailures
    /\ failures' = failures + 1 /\ failed' = TRUE
    /\ error' = TRUE /\ wpc' = "dead" /\ job' = Absent
    /\ UNCHANGED <<disk, runs, pc, setting, loop, tracker, queue, ragged>>

\* The write fails, before or after os.replace.  The exception is kept for
\* the training thread; the thread goes on.
WriteFails ==
    /\ wpc = "write" /\ failures < MaxFailures
    /\ failures' = failures + 1 /\ failed' = TRUE
    /\ error' = TRUE /\ wpc' = "idle" /\ job' = Absent
    /\ ckpts' \in {ckpts, [ckpts EXCEPT ![job.step] = job]}
    /\ UNCHANGED <<bestFile, final, runs, pc, setting, loop, tracker, queue, ragged>>

\* Fault: the newest checkpoints are unlinked.
PruneNewest ==
    /\ wpc = "prune" /\ Cardinality(Saved) > 2
    /\ ckpts' = [ckpts EXCEPT ![Newest(Saved)] = Absent]
    /\ UNCHANGED <<bestFile, final, runs, pc, setting, loop, tracker, writer, failures, failed, ragged>>

Prune ==
    /\ wpc = "prune" /\ Cardinality(Saved) > 2
    /\ ckpts' = [ckpts EXCEPT ![Oldest(Saved)] = Absent]
    /\ UNCHANGED <<bestFile, final, runs, pc, setting, loop, tracker, writer, failures, failed, ragged>>

TaskDone ==
    /\ wpc = "prune" /\ Cardinality(Saved) <= 2
    /\ wpc' = "idle" /\ job' = Absent
    /\ UNCHANGED <<disk, runs, pc, setting, loop, tracker, queue, error, failures, failed, ragged>>

----------------------------------------------------------------------------
(* Export                                                                  *)

\* reload_best_checkpoint: the routers of best.pt, when there is one.
Reload ==
    /\ pc = "reload"
    /\ weights' = IF SaveBest /\ bestFile # Absent THEN bestFile.weights ELSE weights
    /\ pc' = "export"
    /\ UNCHANGED <<disk, runs, setting, epoch, at, step, grads, tracker, writer, failures, failed, ragged>>

Export ==
    /\ pc = "export"
    /\ final' = weights
    /\ pc' = "done"
    /\ UNCHANGED <<ckpts, bestFile, runs, setting, loop, tracker, writer, failures, failed, ragged>>

\* Killed, or an exception from anywhere else (a non-finite loss, say).  The
\* last run is spared, so that MaxRuns bounds only the failures.
Crash == pc \notin {"down", "done"} /\ runs < MaxRuns /\ Raise

Finished == pc \in {"down", "done"} /\ runs = MaxRuns /\ UNCHANGED vars

----------------------------------------------------------------------------

Recover == ClearFile \/ Cleared \/ NothingSaved \/ Restore \/ Refuse

Train ==
    \/ Accumulate
    \/ OptimizerStep
    \/ EndEpoch
    \/ AllTrained
    \/ \E e \in Emas : LogWindow(e)

Checkpoint ==
    \/ NotDue
    \/ SubmitRaises
    \/ SubmitPasses
    \/ Put
    \/ SaveSync
    \/ GoOn
    \/ StopEarly
    \/ Join
    \/ JoinRaises
    \/ SaveLast
    \/ SaveFails
    \/ Close
    \/ Closed
    \/ CloseRaises

Training == Recover \/ Train \/ Checkpoint \/ Reload \/ Export
Writer == Take \/ Write \/ WriteFails \/ Prune \/ TaskDone

Next ==
    \/ \E g \in GradAccums, a \in Asyncs, n \in CkptEverys, resume \in BOOLEAN :
           Start(g, a, n, resume)
    \/ Training
    \/ Writer
    \/ Crash
    \/ Finished

Spec == Init /\ [][Next]_vars

----------------------------------------------------------------------------
(* Properties                                                              *)

Up == pc \notin {"down", "clear", "restore", "done"}

\* The k-th optimizer step of an undisturbed run with gradient accumulation g.
Nth(k, g) ==
    LET each == Batches \div g
    IN [epoch |-> (k - 1) \div each,
        of |-> {((k - 1) % each) * g + j : j \in 0 .. g - 1}]
Undisturbed(w, g) == \A k \in DOMAIN w : w[k] = Nth(k, g)

\* Crashes and resumes neither skip nor repeat a batch: the weights in memory
\* and in every checkpoint are those of an undisturbed run of as many steps.
TrainedOnce ==
    /\ Up /\ pc # "export" => Len(weights) = step /\ Undisturbed(weights, ga)
    /\ \A s \in Saved : /\ Len(ckpts[s].weights) = s
                         /\ Undisturbed(ckpts[s].weights, ckpts[s].ga)

Lowest(seq) == CHOOSE m \in 1 .. Inf :
    /\ \A i \in DOMAIN seq : m <= seq[i]
    /\ m = Inf \/ \E i \in DOMAIN seq : seq[i] = m
Improving(seq) == {i \in DOMAIN seq : \A j \in 1 .. i - 1 : seq[i] < seq[j]}

\* Best value and patience counter are what the log windows behind the
\* current weights say, also after a resume from any checkpoint, with a
\* writer that lags behind the training thread.
TrackerExact ==
    Up => /\ SaveBest => best = Lowest(emas)
          /\ Patience > 0 => /\ esRef = Lowest(emas)
                             /\ \/ emas = <<>> /\ noImp = 0
                                \/ noImp = Len(emas) - Newest(Improving(emas))

\* What is exported is at least as good as every log window behind it, and
\* training is not given up while one of the last Patience windows improved.
ExportedBest ==
    /\ pc = "export" /\ SaveBest /\ emas # <<>> /\ ~ragged =>
          bestFile # Absent /\ weights = bestFile.weights /\ bestFile.ema <= Lowest(emas)
    /\ stop => Len(emas) - Newest(Improving(emas)) >= Patience

\* A restored run is one that was never interrupted: no batch skipped or
\* repeated, tracker and patience as the log windows behind the weights say.
ResumeExact == TrainedOnce /\ TrackerExact

\* A crash costs at most three checkpoint periods: one being written, one
\* queued, one that waits for the queue.
LossBounded ==
    Up /\ ~failed => \E s \in Saved \cup {0} : step <= s + 3 * every

\* "a failed checkpoint halts the run rather than silently losing crash-resume
\* state" (_Stage5CheckpointWriter): a run with a failed write never exports.
FailureHalts == pc \in {"reload", "export", "done"} => ~failed

\* A crash costs a bounded number of steps, and a run one of whose writes
\* failed does not pretend otherwise.
NoSilentLoss == LossBounded /\ FailureHalts

\* The point a crash would resume from never moves backwards, but for a
\* --no-resume, which clears the directory.
NewestStays == [][pc # "clear" /\ Saved # {} =>
                    Saved' # {} /\ Newest(Saved') >= Newest(Saved)]_vars
=============================================================================
