----------------------------- MODULE ProfileDp -----------------------------
(***************************************************************************)
(* Data-parallel profiling of Stage 2 (stage2/profile_dp.py) inside the    *)
(* layer loop of stage2/orchestrator.py.                                   *)
(*                                                                         *)
(* The parent merges the MoE layers one after the other.  A pool of        *)
(* workers, spawned once, each with a copy of the unmerged model, profiles *)
(* every layer on disjoint shards of the calibration sequences.  Before a  *)
(* layer is profiled the workers replay the merge of the layer before      *)
(* (RESYNC, all acknowledge), then profile (PROFILE, all DONE); the parent *)
(* adds up their spill files.  A layer found whole in the profile sidecar  *)
(* is not profiled at all.  Command queues are one per worker, the answer  *)
(* queue is shared.                                                        *)
(*                                                                         *)
(* An accumulator is abstracted to how often each sequence is counted in   *)
(* it, and through which merged layers.                                    *)
(***************************************************************************)
EXTENDS Integers, Sequences, FiniteSets

CONSTANTS
    NumMoe,     \* MoE layers
    NumSeqs,    \* calibration sequences
    Requested,  \* profile_dp.replicas, "auto" resolved to the device count
    HitSets,    \* the sets of layers the sidecar may cover fully
    Alignments, \* values of cost_alignment = "output"
    Reservoirs, \* values of "the sidecar holds layer inputs"
    MaxFaults   \* bound: exceptions, kills and join timeouts

MoeLayers == 0 .. NumMoe - 1
Seqs == 0 .. NumSeqs - 1
Below(l) == 0 .. l - 1
NoLayer == NumMoe

ASSUME ProfileAssumption ==
    /\ NumMoe \in Nat \ {0} /\ NumSeqs \in Nat \ {0} /\ Requested \in Nat \ {0} /\ MaxFaults \in Nat
    /\ HitSets \subseteq SUBSET MoeLayers
    /\ Alignments \subseteq BOOLEAN /\ Reservoirs \subseteq BOOLEAN

\* Stage2ProfilePool.start: never more workers than sequences; contiguous
\* shards, the last one takes the remainder.
Replicas == IF Requested < NumSeqs THEN Requested ELSE NumSeqs
Workers == 0 .. Replicas - 1
Shard(r) ==
    LET base == NumSeqs \div Replicas
    IN r * base .. (IF r = Replicas - 1 THEN NumSeqs ELSE (r + 1) * base) - 1

VARIABLES
    config,    \* what the run was given: see Configs
    pool,      \* the pool was started
    main, current, \* the parent: where it is, and at which layer
    prev,      \* _dp_prev_payload: the layer captured last, or NoLayer
    merged,    \* the layers merged in the parent's model
    got,       \* answers counted in the current barrier
    counted,   \* accumulators of a layer: how often each sequence counts
    through,   \* ... and through which sets of merged layers
    failed,    \* an exception is on its way out of the layer loop
    joined, bad,      \* shutdown(): workers joined; did any end badly
    wpc, atLayer, upstream, \* of each worker: state, cur_layer, layers it replayed
    spill,     \* spill files: the merged layers they were profiled through
    cmds,      \* the command queue of each worker
    answers,   \* reduce_q
    faults     \* faults so far

parent == <<main, current, prev, merged, got, counted, through, failed, joined, bad>>
workers == <<wpc, atLayer, upstream, spill>>
queues == <<cmds, answers>>
profileVars == <<config, pool, parent, workers, queues, faults>>

\* enabled: profile_dp.enabled; output: cost_alignment = "output", the
\* reservoir consumer; hits: layers fully covered by the sidecar; reservoir:
\* the sidecar holds layer inputs; completed: layers replayed on resume.
Configs == [enabled: BOOLEAN, output: Alignments, hits: HitSets, reservoir: Reservoirs,
            completed: {Below(l) : l \in MoeLayers}]

Msg(kind, l) == [kind |-> kind, layer |-> l]

\* resolve_profile_dp_config, and the orchestrator's refusal on resume.
DpEnabled(c) == c.enabled /\ ~c.output /\ Requested > 1 /\ c.completed = {}

\* Stage2ProfileCacheProvider.on_layer_setup hydrates the accumulators of a
\* covered layer; it is a full hit unless the reservoir is needed and missing.
Hydrated(l) == l \in config.hits
FullHit(l) == Hydrated(l) /\ (config.output => config.reservoir)
Hydration(l) == [s \in Seqs |-> IF Hydrated(l) THEN 1 ELSE 0]

ProfileInit ==
    /\ config \in Configs
    /\ pool = DpEnabled(config)
    /\ main = "layer" /\ current = 0 /\ prev = NoLayer
    /\ merged = config.completed /\ got = 0
    /\ counted = [l \in MoeLayers |-> [s \in Seqs |-> 0]]
    /\ through = [l \in MoeLayers |-> {}]
    /\ failed = FALSE /\ joined = 0 /\ bad = FALSE
    /\ wpc = [r \in Workers |-> IF pool THEN "load" ELSE "exited"]
    /\ atLayer = [r \in Workers |-> NoLayer]
    /\ upstream = [r \in Workers |-> {}]
    /\ spill = [r \in Workers |-> [l \in MoeLayers |-> {}]]
    /\ cmds = [r \in Workers |-> <<>>] /\ answers = <<>>
    /\ faults = 0

----------------------------------------------------------------------------
(* The parent's layer loop                                                 *)

SkipReplayed ==
    /\ main = "layer" /\ current < NumMoe /\ current \in config.completed
    /\ current' = current + 1
    /\ UNCHANGED <<config, pool, main, prev, merged, got, counted, through, failed,
                   joined, bad, workers, queues, faults>>

AtLiveLayer == main = "layer" /\ current < NumMoe /\ current \notin config.completed

\* on_profile returns at once: the accumulators are the sidecar's.
Hit ==
    /\ AtLiveLayer /\ FullHit(current)
    /\ counted' = [counted EXCEPT ![current] = Hydration(current)]
    /\ main' = "merge"
    /\ UNCHANGED <<config, pool, current, prev, merged, got, through, failed,
                   joined, bad, workers, queues, faults>>

\* _profile_layer on the parent's model, over all sequences; finalize_layer
\* and the REAM accumulator add to what hydration left there.
Serial ==
    /\ AtLiveLayer /\ ~FullHit(current) /\ ~pool
    /\ counted' = [counted EXCEPT ![current] = [s \in Seqs |-> Hydration(current)[s] + 1]]
    /\ through' = [through EXCEPT ![current] = {merged}]
    /\ main' = "merge"
    /\ UNCHANGED <<config, pool, current, prev, merged, got, failed,
                   joined, bad, workers, queues, faults>>

Send(msg) == cmds' = [r \in Workers |-> Append(cmds[r], msg)]

\* Fault: the workers are never told of the merges.
BroadcastProfile ==
    /\ AtLiveLayer /\ ~FullHit(current) /\ pool
    /\ Send(Msg("PROFILE", current)) /\ main' = "dones"
    /\ got' = 0
    /\ UNCHANGED <<config, pool, current, prev, merged, counted, through, failed,
                   joined, bad, workers, answers, faults>>

\* run_dp_profile_layer: RESYNC the layer merged before, if there is one.
Broadcast ==
    /\ AtLiveLayer /\ ~FullHit(current) /\ pool
    /\ IF prev # NoLayer THEN Send(Msg("RESYNC", prev)) /\ main' = "acks"
                         ELSE Send(Msg("PROFILE", current)) /\ main' = "dones"
    /\ got' = 0
    /\ UNCHANGED <<config, pool, current, prev, merged, counted, through, failed,
                   joined, bad, workers, answers, faults>>

\* The next answer; one of another kind is dropped.  A count of acknowledged
\* answers is kept, not who gave them or for which layer.
Take(kind) ==
    /\ answers # <<>> /\ Head(answers).kind # "ERROR"
    /\ answers' = Tail(answers)
    /\ got' = IF Head(answers).kind = kind THEN got + 1 ELSE got

CountAck ==
    /\ main = "acks" /\ got < Replicas /\ Take("ACK")
    /\ UNCHANGED <<config, pool, main, current, prev, merged, counted, through, failed,
                   joined, bad, workers, cmds, faults>>

Resynced ==
    /\ main = "acks" /\ got = Replicas
    /\ main' = "dones" /\ got' = 0 /\ Send(Msg("PROFILE", current))
    /\ UNCHANGED <<config, pool, current, prev, merged, counted, through, failed,
                   joined, bad, workers, answers, faults>>

CountDone ==
    /\ main = "dones" /\ got < Replicas /\ Take("DONE")
    /\ UNCHANGED <<config, pool, main, current, prev, merged, counted, through, failed,
                   joined, bad, workers, cmds, faults>>

Spilled(s) == {r \in Workers : s \in Shard(r) /\ spill[r][current] # {}}

\* reduce_layer_into_parent: the spill files that exist, added up.
Reduce ==
    /\ main = "dones" /\ got = Replicas
    /\ counted' = [counted EXCEPT ![current] = [s \in Seqs |-> Cardinality(Spilled(s))]]
    /\ through' = [through EXCEPT ![current] = UNION {spill[r][current] : r \in Workers}]
    /\ main' = "merge" /\ got' = 0
    /\ UNCHANGED <<config, pool, current, prev, merged, failed,
                   joined, bad, workers, queues, faults>>

\* Assignment, merge and the capture of the merged layer for the workers.
MergeLayer ==
    /\ main = "merge"
    /\ merged' = merged \cup {current}
    /\ prev' = IF pool THEN current ELSE prev
    /\ current' = current + 1 /\ main' = "layer"
    /\ UNCHANGED <<config, pool, got, counted, through, failed,
                   joined, bad, workers, queues, faults>>

Leave(withError) ==
    /\ failed' = withError
    /\ main' = IF pool THEN "shutdown" ELSE IF withError THEN "raised" ELSE "done"
    /\ UNCHANGED <<config, pool, current, prev, merged, got, counted, through,
                   joined, bad, workers>>

\* A worker's ERROR is read from the queue and raised.
WorkerErrorRaised ==
    /\ main \in {"acks", "dones"} /\ got < Replicas
    /\ answers # <<>> /\ Head(answers).kind = "ERROR"
    /\ answers' = Tail(answers)
    /\ Leave(TRUE)
    /\ UNCHANGED <<cmds, faults>>

\* Any phase of a layer may raise in the parent.
ParentRaises ==
    /\ faults < MaxFaults /\ (AtLiveLayer \/ main = "merge")
    /\ faults' = faults + 1
    /\ Leave(TRUE) /\ UNCHANGED queues

LayersDone ==
    /\ main = "layer" /\ current = NumMoe
    /\ Leave(FALSE) /\ UNCHANGED <<queues, faults>>

----------------------------------------------------------------------------
(* shutdown(), in the finally of the loop                                  *)

\* SHUTDOWN to every worker, then what has arrived in reduce_q is dropped.
Shutdown ==
    /\ main = "shutdown"
    /\ Send(Msg("SHUTDOWN", NoLayer)) /\ answers' = <<>>
    /\ main' = "join"
    /\ UNCHANGED <<config, pool, current, prev, merged, got, counted, through, failed,
                   joined, bad, workers, faults>>

Dead == {"exited", "errored", "killed", "terminated"}

Join ==
    /\ main = "join" /\ joined < Replicas /\ wpc[joined] \in Dead
    /\ joined' = joined + 1
    /\ bad' = (bad \/ wpc[joined] # "exited")
    /\ UNCHANGED <<config, pool, main, current, prev, merged, got, counted, through,
                   failed, workers, queues, faults>>

\* join(timeout=120) returned with the worker alive.
JoinTimesOut ==
    /\ main = "join" /\ joined < Replicas /\ wpc[joined] \notin Dead
    /\ faults < MaxFaults /\ faults' = faults + 1
    /\ wpc' = [wpc EXCEPT ![joined] = "terminated"]
    /\ joined' = joined + 1 /\ bad' = TRUE
    /\ UNCHANGED <<config, pool, main, current, prev, merged, got, counted, through,
                   failed, atLayer, upstream, spill, queues>>

ShutdownDone ==
    /\ main = "join" /\ joined = Replicas
    /\ main' = IF bad \/ failed THEN "raised" ELSE "done"
    /\ UNCHANGED <<config, pool, current, prev, merged, got, counted, through, failed,
                   joined, bad, workers, queues, faults>>

----------------------------------------------------------------------------
(* A worker: _profile_worker_main                                          *)

KeepsParent == UNCHANGED <<config, pool, parent>>
GoTo(r, place) == wpc' = [wpc EXCEPT ![r] = place]
Answers(kind, l) == answers' = Append(answers, Msg(kind, l))

\* The original model is loaded from disk.
Loaded(r) ==
    /\ wpc[r] = "load" /\ GoTo(r, "idle")
    /\ UNCHANGED <<atLayer, upstream, spill, queues, faults>> /\ KeepsParent

Fetch(r, kind) ==
    /\ wpc[r] = "idle" /\ cmds[r] # <<>> /\ Head(cmds[r]).kind = kind
    /\ cmds' = [cmds EXCEPT ![r] = Tail(@)]
    /\ atLayer' = [atLayer EXCEPT ![r] = IF kind = "SHUTDOWN" THEN @ ELSE Head(cmds[r]).layer]

FetchResync(r) ==
    /\ Fetch(r, "RESYNC") /\ GoTo(r, "replay")
    /\ UNCHANGED <<upstream, spill, answers, faults>> /\ KeepsParent

\* replay_merged_layer, then ACK.
ReplayMerge(r) ==
    /\ wpc[r] = "replay" /\ GoTo(r, "idle")
    /\ upstream' = [upstream EXCEPT ![r] = @ \cup {atLayer[r]}]
    /\ Answers("ACK", atLayer[r])
    /\ UNCHANGED <<atLayer, spill, cmds, faults>> /\ KeepsParent

FetchProfile(r) ==
    /\ Fetch(r, "PROFILE") /\ GoTo(r, "profile")
    /\ UNCHANGED <<upstream, spill, answers, faults>> /\ KeepsParent

\* run_profile_shard: the accumulators of the shard are spilled by tmp and
\* rename, over whatever the replica's directory held.
Profile(r) ==
    /\ wpc[r] = "profile" /\ GoTo(r, "spilled")
    /\ spill' = [spill EXCEPT ![r][atLayer[r]] = {upstream[r] \cap Below(atLayer[r])}]
    /\ UNCHANGED <<atLayer, upstream, queues, faults>> /\ KeepsParent

Done(r) ==
    /\ wpc[r] = "spilled" /\ GoTo(r, "idle")
    /\ Answers("DONE", atLayer[r])
    /\ UNCHANGED <<atLayer, upstream, spill, cmds, faults>> /\ KeepsParent

FetchShutdown(r) ==
    /\ Fetch(r, "SHUTDOWN") /\ GoTo(r, "exited")
    /\ UNCHANGED <<upstream, spill, answers, faults>> /\ KeepsParent

\* Any exception: ERROR to the parent, then the process exits with 1.
Raise(r) ==
    /\ wpc[r] \in {"load", "replay", "profile", "spilled"} /\ faults < MaxFaults
    /\ faults' = faults + 1
    /\ GoTo(r, "errored")
    /\ Answers("ERROR", atLayer[r])
    /\ UNCHANGED <<atLayer, upstream, spill, cmds>> /\ KeepsParent

\* SIGKILL (the host is out of memory): nothing is reported.
KillWorker(r) ==
    /\ wpc[r] \notin Dead /\ faults < MaxFaults
    /\ faults' = faults + 1
    /\ GoTo(r, "killed")
    /\ UNCHANGED <<atLayer, upstream, spill, queues>> /\ KeepsParent

----------------------------------------------------------------------------

LoopEnded == main \in {"done", "raised"}

ParentStep ==
    \/ SkipReplayed \/ Hit \/ Serial \/ Broadcast
    \/ CountAck \/ Resynced \/ CountDone \/ Reduce
    \/ MergeLayer \/ WorkerErrorRaised \/ LayersDone
    \/ Shutdown \/ Join \/ ShutdownDone

WorkerStep(r) ==
    \/ Loaded(r)
    \/ FetchResync(r) \/ ReplayMerge(r)
    \/ FetchProfile(r) \/ Profile(r) \/ Done(r)
    \/ FetchShutdown(r)

Fault == ParentRaises \/ JoinTimesOut \/ \E r \in Workers : Raise(r) \/ KillWorker(r)

Terminated == LoopEnded /\ UNCHANGED profileVars

\* The parent blocks in reduce_q.get(), without a timeout, for the answer of
\* a worker that was killed.
Stuck ==
    /\ main \in {"acks", "dones"} /\ got < Replicas /\ answers = <<>>
    /\ \E r \in Workers : wpc[r] = "killed"
    /\ UNCHANGED profileVars

ProfileNext ==
    \/ ParentStep
    \/ \E r \in Workers : WorkerStep(r)
    \/ Fault
    \/ Terminated
    \/ Stuck

ProfileSpec == ProfileInit /\ [][ProfileNext]_profileVars

\* The parent and the workers are processes of their own, each runs whenever
\* it can; nothing forces a fault.
ProfileWork == ParentStep \/ \E r \in Workers : WorkerStep(r)

----------------------------------------------------------------------------
(* Properties                                                              *)

\* profile_dp.py: the reduction is exact because the shards are disjoint, and
\* "a persistent pool must REPLAY the structural merge of each upstream layer
\* on every worker before the next profile": the profile a layer is merged by
\* counts every sequence once, and each of them through exactly the merged
\* layers below it (or comes whole from the sidecar).
ProfileExact ==
    \A l \in merged \ config.completed :
        /\ \A s \in Seqs : counted[l][s] = 1
        /\ FullHit(l) \/ through[l] = {Below(l)}

\* The barriers count answers without looking at their layer or sender; that
\* is sound because every answer in the queue is one for the current barrier.
AnswersFresh ==
    ~failed => \A i \in 1 .. Len(answers) : answers[i].kind # "ERROR" =>
        \/ main = "acks" /\ answers[i] = Msg("ACK", prev)
        \/ main = "dones" /\ answers[i] = Msg("DONE", current)

\* The layer loop ends normally only if no worker raised, was killed or had
\* to be terminated, also when no layer asked anything of it.
FailureSurfaces == main = "done" => \A r \in Workers : wpc[r] = "exited"

\* No worker outlives the layer loop, however it ends.
NoneLeft == LoopEnded => \A r \in Workers : wpc[r] \in Dead

\* A profile counts every sequence once, through exactly the merges below its
\* layer; the answers the barriers count are fresh; a worker's end is never
\* lost, and no worker outlives the layer loop.
ProfilesSound == ProfileExact /\ AnswersFresh /\ FailureSurfaces /\ NoneLeft

\* The layer loop is over, or a worker was killed without a word.
OverOrKilled == LoopEnded \/ \E r \in Workers : wpc[r] = "killed"
=============================================================================
