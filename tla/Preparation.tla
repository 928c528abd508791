----------------------------- MODULE Preparation -----------------------------
(***************************************************************************)
(* The preparation of the calibration data: the traces are generated       *)
(* (TraceGeneration), the corpus is cut into shards (shard_split.py), each *)
(* shard is replayed by a process of its own (CorpusReplay), and the       *)
(* sidecars of the shards are merged (utils/merge_sidecars.py).            *)
(* run_parallel_capture.sh drives this: it starts the processes, waits for *)
(* all of them, and goes on only if each ended well and left its sidecars. *)
(* The covariance of a corpus may be captured by windows (CovOffload).     *)
(*                                                                         *)
(* The operator starts a failed part again, with or without --resume.      *)
(***************************************************************************)
EXTENDS TraceGeneration, CorpusReplay, CovOffload, SetSums

CONSTANT ShardCounts  \* --n of the replay

ASSUME ShardsAssumption == ShardCounts \subseteq Nat \ {0}

VARIABLES
    stage,   \* "generate", "corpus", "replay", "merged", "refused", or "offload":
             \* a corpus is there, and its covariance is wanted
    corpus,  \* the lines of the corpus
    merged   \* the merged sidecar of each signal

generation == <<engine, ladder, syncs, trace, gen>>
replay == <<shards, store, rep>>
offloading == <<meta, staged, leftover, offload, covariance>>
common == <<silent, failures>>
vars == <<generation, replay, offloading, common, stage, corpus, merged>>

Init ==
    /\ silent \in {{}, {1}} /\ failures = 0
    /\ GenInit /\ OffloadInit
    /\ shards = <<>> /\ store = <<>> /\ rep = <<>>
    /\ stage \in {"generate", "offload"} /\ corpus = <<>>
    /\ merged = [s \in 1..Signals |-> NoSidecar]

-----------------------------------------------------------------------------
(* Corpus and shards *)

Keys(rows) == {r.key : r \in ToSet(rows)}
\* Fault: rows with the same key are let through.
Parsable(rows) == Torn \notin ToSet(rows)
\* No line is torn and no two rows have the same stable key.
Distinct(rows) == Torn \notin ToSet(rows) /\ Cardinality(Keys(rows)) = Len(rows)

\* One process generated the corpus, and its output is used as it is.
TakeOutput ==
    /\ stage = "generate" /\ Len(ladder) = 2 /\ gen[1].pc = "done"
    /\ corpus' = trace[1].out /\ stage' = "corpus"
    /\ UNCHANGED <<generation, replay, offloading, common, merged>>

\* run_parallel_capture.sh --mode generate: concat_jsonls over the outputs.
Concatenate ==
    LET rows == FlattenSeq([k \in Slices |-> trace[k].out]) IN
    /\ stage = "generate" /\ \A k \in Slices : gen[k].pc = "done"
    /\ IF Distinct(rows) /\ rows # <<>>
       THEN corpus' = rows /\ stage' = "corpus"
       ELSE UNCHANGED corpus /\ stage' = "refused"
    /\ UNCHANGED <<generation, replay, offloading, common, merged>>

\* split_jsonl: shards of ceil(total / n) lines, the last one shorter.
CeilDiv(a, b) == (a + b - 1) \div b
Cut(rows, n) ==
    LET size == CeilDiv(Len(rows), n) IN
    [k \in 1..n |-> SubSeq(rows, (k - 1) * size + 1,
                           IF k * size < Len(rows) THEN k * size ELSE Len(rows))]
Splittable(rows, n) ==
    /\ Distinct(rows) /\ n <= Len(rows)
    /\ \A k \in 1..n : Cut(rows, n)[k] # <<>>

\* run_parallel_capture.sh --mode replay: split, and start a process per shard.
Split(n) ==
    /\ stage = "corpus"
    /\ IF Splittable(corpus, n)
       THEN /\ stage' = "replay"
            /\ shards' = [k \in 1..n |-> [i \in DOMAIN Cut(corpus, n)[k] |->
                                            Cut(corpus, n)[k][i].prompt]]
            /\ store' = [k \in 1..n |-> NoStore]
            /\ rep' = [k \in 1..n |-> [Ended EXCEPT !.pc = "chunk"]]
       ELSE stage' = "refused" /\ UNCHANGED replay
    /\ UNCHANGED <<generation, offloading, common, corpus, merged>>

-----------------------------------------------------------------------------
(* Wait, relaunch, merge *)

AllEnded == \A k \in Shards : rep[k].pc \in {"done", "failed"}

\* The exit codes, and _check_shard_sidecars.
Passed(k) == rep[k].pc = "done" /\ \A s \in 1..Signals : store[k].side[s].there

\* The script is run again; the split gives the same shards.
Relaunch(resume) ==
    /\ stage = "replay" /\ AllEnded /\ ~ \A k \in Shards : Passed(k)
    /\ rep' = [k \in Shards |-> Replaying(k, resume)]
    /\ store' = [k \in Shards |-> StoreAtStart(k, resume)]
    /\ UNCHANGED <<generation, shards, offloading, common, stage, corpus, merged>>

\* The statistics of the shards that have the signal, added up.
Summed(s) ==
    LET there == {k \in Shards : store[k].side[s].there} IN
    [there |-> there # {},
     stat |-> [held |-> [r \in 1..Rows |->
                  Over([k \in there |-> store[k].side[s].stat.held[r]])],
               behind |-> \E k \in there : store[k].side[s].stat.behind,
               ahead |-> \E k \in there : store[k].side[s].stat.ahead]]

\* merge_all.
Merge ==
    /\ stage = "replay" /\ AllEnded /\ \A k \in Shards : Passed(k)
    /\ stage' = "merged"
    /\ merged' = [s \in 1..Signals |-> Summed(s)]
    /\ UNCHANGED <<generation, replay, offloading, common, corpus>>

Generation ==
    /\ stage = "generate" /\ GenNext
    /\ UNCHANGED <<replay, offloading, stage, corpus, merged>>

Capture(k) ==
    /\ stage = "replay" /\ Replayer(k)
    /\ UNCHANGED <<generation, offloading, stage, corpus, merged>>

LoseReplay(k) ==
    /\ stage = "replay" /\ KillReplay(k)
    /\ UNCHANGED <<generation, offloading, stage, corpus, merged>>

Offloading ==
    /\ stage = "offload" /\ OffloadNext
    /\ UNCHANGED <<generation, replay, stage, corpus, merged>>

Next ==
    \/ Offloading
    \/ Generation \/ TakeOutput \/ Concatenate
    \/ \E n \in ShardCounts : Split(n)
    \/ \E k \in Shards : Capture(k) \/ LoseReplay(k)
    \/ \E resume \in BOOLEAN : Relaunch(resume)
    \/ Merge

Spec == Init /\ [][Next]_vars

\* A process that is alive goes on, the script merges what it can, and an
\* operator whose relaunches keep failing ends up relaunching from scratch.
Fairness ==
    /\ \A k \in 1..Rows : WF_vars(k \in Shards /\ Capture(k))
    /\ WF_vars(Merge) /\ SF_vars(Relaunch(FALSE))
FairSpec == Spec /\ Fairness

-----------------------------------------------------------------------------
(* Properties *)

\* A split that was not refused hands out every answered prompt once: a crash
\* inside a chunk with rows of both policies repeats some prompts and loses
\* others, and a line torn under the Hugging Face engine loses one, but no
\* such corpus gets past the keys of its rows.
SplitHasEveryPrompt ==
    stage \in {"replay", "merged"} =>
        LET rows == FlattenSeq(shards)
            answered == IF engine = "hf" THEN (1..Rows) \ (Unanswered \ Forced) ELSE 1..Rows
        IN Len(rows) = Cardinality(answered) /\ ToSet(rows) = answered

\* Whichever processes wrote it and the rows beside it, a sidecar holds only
\* rows it stands for: that of a generation the prompts of its slice that are
\* for the model, a merged one the rows of the corpus that fit.  Only a
\* checkpoint that was ahead of the rows when it was loaded makes it hold one
\* twice, and only one that was behind them makes it lack one.
SidecarsExact ==
    /\ \A k \in Slices, s \in 1..Signals :
         LET d == trace[k].side[s]
             asked == IF s \in silent THEN {}
                      ELSE {ladder[k] + i : i \in 1..Size(k)} \ Forced
         IN d.there => Stands(d.stat, asked, asked)
    /\ stage = "merged" => \A s \in 1..Signals :
         LET rows == Fits({r.prompt : r \in ToSet(corpus)})
         IN Stands(merged[s].stat, rows, rows)

\* An assembled covariance has every layer and matrix of its run, each from a
\* forward pass with the fingerprint of that run, whichever runs were interrupted
\* with other options before it, even while they cleared the staging directory.
\* Only a shard that could not be deleted then may be of another run.
CovarianceWhole ==
    offload.pc = "done" =>
        \A p \in Parts \ leftover : covariance[p] = IF p \in PartsOf(Options, 1..Layers)
                                         THEN offload.options ELSE {}

\* Corpus, sidecars and covariance stand for the rows they claim.
CapturesExact == SplitHasEveryPrompt /\ SidecarsExact /\ CovarianceWhole

\* Where the file system takes an fsync, a generation saves no checkpoint for
\* rows that a crash could still take.
SavedAfterSync ==
    [][\A k \in Slices, s \in 1..Signals :
          LET c == trace'[k].ckpt[s] IN
          syncs /\ c # trace[k].ckpt[s] => c.at <= trace[k].synced]_vars

\* The replay of a corpus ends with its merged sidecars, whatever crashed and
\* whichever relaunches were resumed, if the hooks fire and every shard has
\* rows of each kind the captures must have seen.
CanMerge ==
    /\ silent = {}
    /\ \A k \in Shards, S \in Demanded : Fits(ToSet(shards[k])) \cap S # {}
Merges == (stage = "replay" /\ CanMerge) ~> (stage = "merged")

\* _ckpt_counter_check: "Hard-fail (default) ... when an accumulator checkpoint
\* and the JSONL row count disagree."  No process works on with a statistic that
\* was behind the rows on disk.
DivergenceFails ==
    \A s \in 1..Signals :
        /\ \A k \in Slices : gen[k].pc # "failed" => ~gen[k].acc[s].behind
        /\ \A k \in Shards : rep[k].pc # "failed" => ~rep[k].acc[s].behind

\* utils/merge_sidecars.py: "each process GENERATES a disjoint prompt slice
\* into its own shard_k/self_traces.jsonl; the final corpus is their
\* shard-ordered concatenation."
SlicesConcatenate ==
    stage = "refused" => \/ Len(ladder) = 2
                         \/ \E k \in Slices : ~Distinct(trace[k].out)
=============================================================================
