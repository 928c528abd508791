----------------------------- MODULE MergeHeal ------------------------------
(***************************************************************************)
(* What Stage 2 does to a layer between its grouping and its artifacts     *)
(* when distillation and healing are switched on: snapshot the experts and *)
(* capture the inputs and outputs of the unmerged MoE block to shards on   *)
(* disk, merge the groups, distill every merged expert toward the members  *)
(* it came from, cut the layer down, add the shared-expert companions,     *)
(* split the shards into training and holdout, train the whole block       *)
(* toward the captured outputs, and put back either the best state or the  *)
(* plain merged one.  The process may be killed at any moment; a restart   *)
(* does the layer again and finds the shards of the earlier attempt.       *)
(***************************************************************************)
EXTENDS Integers, FiniteSets, Sequences, Functions, FiniteSetsExt

CONSTANTS
    Groups,         \* members by centroid, as the assignment left them
    Writers,        \* "nemo" and, with a cross-domain holdout, "xd"
    Corpora,        \* what the calibration batches may be: rows of each, by writer
    Pool,           \* token cap of a capture, by writer
    ShardRows,      \* rows of a full shard
    TrainPct,       \* share of the shards that trains
    Minibatch,      \* rows of a training step
    MaxSteps, EvalInterval, Patience,   \* the healing loop
    DeltaPct,       \* relative improvement that resets the patience
    Losses,         \* holdout losses an evaluation may return
    NaN,            \* a loss that is not a number
    DistillSteps, PlateauSteps,         \* the distillation loop
    TrainRouter,    \* whether the router is healed too
    KeepShards,     \* whether the shards are left on disk
    MaxKills        \* bound on the kills

\* What the configuration is refused for not meeting.
LoopBounds ==
    /\ Minibatch \in Nat \ {0} /\ MaxSteps \in Nat \ {0} /\ Patience \in Nat \ {0}
    /\ EvalInterval \in 1 .. MaxSteps /\ DeltaPct \in 0 .. 99 /\ TrainPct \in 1 .. 99
CaptureBounds ==
    /\ Writers \in {{"nemo"}, {"nemo", "xd"}}
    /\ ShardRows \in Nat \ {0} /\ Pool \in [Writers -> Nat] /\ \A w \in Writers : Pool[w] >= 2 * ShardRows

\* What the instances are built from.
CorpusBounds == \A c \in Corpora : \A w \in Writers : c[w] \in Seq(Nat)
DistillBounds == DistillSteps \in Nat /\ PlateauSteps \in Nat \ {0} /\ \A c \in DOMAIN Groups : c \in Groups[c]
LossBounds == Losses \subseteq Nat /\ NaN \notin Nat /\ MaxKills \in Nat
ASSUME HealAssumption == LoopBounds /\ CaptureBounds /\ CorpusBounds /\ DistillBounds /\ LossBounds

VARIABLES
    batches,    \* the calibration batches of this pipeline run
    phase,      \* where the layer's phases are
    trial,      \* attempts at the layer; its captures carry this number
    kills,      \* kills so far
    files,      \* on disk, by writer: input shards, companions, manifest
    written,    \* in memory, by writer: rows of the shards written so far
    buffer,     \* in memory, by writer: rows not yet in a shard
    seen,       \* in memory, by writer: batches forwarded, rows captured
    at,         \* the writer that captures or finalizes
    shared,     \* companions it has written so far
    snapshot,   \* pre-merge copies of experts, by expert
    bank,       \* the experts of the layer: where their weights come from
    taught,     \* ghost: what each distilled expert was taught by
    toMerge,    \* groups that are still to be merged or distilled
    plateau,    \* [step, count] of the distillation of one group
    split,      \* by writer, the training shards of its manifest
    step,       \* training steps taken
    trained,    \* ghost: rows that trained the block
    loss,       \* ghost: holdout losses by step they were measured at
    best,       \* step of the best snapshot
    waits,      \* evaluations since an improvement
    live        \* steps whose weights the layer's experts and router hold
trialState == <<batches, trial, kills>>
capture == <<written, buffer, seen>>
merging == <<snapshot, bank, taught, toMerge, plateau>>
healing == <<split, step, trained, loss, best, waits, live>>
healVars == <<phase, at, trialState, files, capture, shared, merging, healing>>

-----------------------------------------------------------------------------
GroupedExperts == UNION {Groups[c] : c \in DOMAIN Groups}
MergedGroups == {c \in DOMAIN Groups : Cardinality(Groups[c]) > 1}

Unmerged(e) == [from |-> {e}, distilled |-> FALSE]

\* Row n of the capture of writer w: which attempt captured it, and whether
\* the block was still unmerged.
Row(w, n) == [run |-> trial, writer |-> w, row |-> n,
              unmerged |-> \A e \in GroupedExperts : bank[e] = Unmerged(e)]

NoFiles == [inputs |-> <<>>, shared |-> <<>>, manifest |-> {}]

Put(f, i, x) == [j \in DOMAIN f \cup {i} |-> IF j = i THEN x ELSE f[j]]

Less(a, b) == a # NaN /\ b # NaN /\ a < b
Improves(a, b) == a # NaN /\ b # NaN /\ a * 100 < b * (100 - DeltaPct)

\* Shards of the writer's own attempt; stale ones of a killed attempt may lie
\* beyond them.
Shards(w) == DOMAIN written[w]

\* A whole-shard split: at least one shard trains, at least one is held out.
TrainCount(n) ==
    LET floor == (TrainPct * n) \div 100
        some == IF floor < 1 THEN 1 ELSE floor
    IN  IF some >= n THEN n - 1 ELSE some

\* What reading shard i gives: inputs and outputs with their companion.
Read(w, i) == [rows |-> files[w].inputs[i], shared |-> files[w].shared[i]]

Fresh ==
    /\ written' = [w \in Writers |-> <<>>] /\ buffer' = [w \in Writers |-> <<>>]
    /\ seen' = [w \in Writers |-> [batches |-> 0, rows |-> 0]]
    /\ snapshot' = <<>> /\ bank' = [e \in GroupedExperts |-> Unmerged(e)]
    /\ taught' = <<>> /\ toMerge' = {} /\ plateau' = [step |-> 0, count |-> 0]
    /\ split' = [w \in Writers |-> {}] /\ step' = 0 /\ trained' = {} /\ loss' = <<>>
    /\ best' = 0 /\ waits' = 0 /\ live' = [experts |-> 0, router |-> 0]

HealInit ==
    /\ batches \in Corpora
    /\ phase = "snapshot" /\ at = "nemo" /\ shared = 0 /\ trial = 1 /\ kills = 0 /\ files = [w \in Writers |-> NoFiles]
    /\ written = [w \in Writers |-> <<>>] /\ buffer = [w \in Writers |-> <<>>]
    /\ seen = [w \in Writers |-> [batches |-> 0, rows |-> 0]]
    /\ snapshot = <<>> /\ bank = [e \in GroupedExperts |-> Unmerged(e)]
    /\ taught = <<>> /\ toMerge = {} /\ plateau = [step |-> 0, count |-> 0]
    /\ split = [w \in Writers |-> {}] /\ step = 0 /\ trained = {} /\ loss = <<>>
    /\ best = 0 /\ waits = 0 /\ live = [experts |-> 0, router |-> 0]

-----------------------------------------------------------------------------
(* Before the merge *)

\* Distillation copies the experts of the groups; healing captures only when
\* some group has more than one member.
Snapshot ==
    /\ phase = "snapshot"
    /\ snapshot' = IF DistillSteps > 0 THEN [e \in GroupedExperts |-> bank[e]] ELSE <<>>
    /\ phase' = IF MergedGroups = {} THEN "merge" ELSE "capture"
    /\ toMerge' = IF MergedGroups = {} THEN {} ELSE toMerge
    /\ UNCHANGED <<files, bank, taught, plateau, at, shared, trialState, capture, healing>>

Capturing(w) == seen[w].batches < Len(batches[w]) /\ seen[w].rows < Pool[w]

\* A buffer of rows after cutting full shards off its front.
Cut(b) == [full |-> [i \in 1 .. Len(b) \div ShardRows |->
                        SubSeq(b, (i - 1) * ShardRows + 1, i * ShardRows)],
           rest |-> SubSeq(b, (Len(b) \div ShardRows) * ShardRows + 1, Len(b))]

\* New input shards overwrite files of the same number.
Flush(w, shards) ==
    LET n == Len(written[w])
    IN  /\ files' = [files EXCEPT ![w].inputs =
                        [j \in DOMAIN files[w].inputs \cup (n + 1 .. n + Len(shards)) |->
                            IF j > n /\ j <= n + Len(shards) THEN shards[j - n]
                            ELSE files[w].inputs[j]]]
        /\ written' = [written EXCEPT ![w] = @ \o [i \in DOMAIN shards |-> Len(shards[i])]]

\* One calibration batch passes the hook of the block: its rows up to the
\* token cap, cut into shards.
Forward(w) ==
    /\ phase = "capture" /\ at = w /\ Capturing(w)
    /\ LET n == Min({batches[w][seen[w].batches + 1], Pool[w] - seen[w].rows})
           cut == Cut(buffer[w] \o [i \in 1 .. n |-> Row(w, seen[w].rows + i)])
       IN  /\ Flush(w, cut.full)
           /\ buffer' = [buffer EXCEPT ![w] = cut.rest]
           /\ seen' = [seen EXCEPT ![w] = [batches |-> @.batches + 1, rows |-> @.rows + n]]
    /\ UNCHANGED <<phase, at, shared, trialState, merging, healing>>

\* A finished capture writes its last, short shard; no row at all is an error.
\* The cross-domain capture follows the first.
ClosePending(w) ==
    /\ phase = "capture" /\ at = w /\ ~Capturing(w)
    /\ IF buffer[w] # <<>> THEN Flush(w, <<buffer[w]>>) ELSE UNCHANGED <<files, written>>
    /\ buffer' = [buffer EXCEPT ![w] = <<>>]
    /\ at' = IF w = "nemo" /\ "xd" \in Writers THEN "xd" ELSE "nemo"
    /\ phase' = IF seen[w].rows = 0 THEN "failed" ELSE IF at' = "nemo" THEN "merge" ELSE phase
    /\ UNCHANGED <<seen, shared, trialState, merging, healing>>

-----------------------------------------------------------------------------
(* Merge and distillation *)

MergeExperts ==
    /\ phase = "merge"
    /\ bank' = [e \in GroupedExperts |->
                   IF e \in MergedGroups
                   THEN [from |-> UNION {bank[x].from : x \in Groups[e]}, distilled |-> FALSE]
                   ELSE bank[e]]
    /\ toMerge' = IF DistillSteps > 0 THEN MergedGroups ELSE {}
    /\ plateau' = [step |-> 0, count |-> 0]
    /\ phase' = "distill"
    /\ UNCHANGED <<files, snapshot, taught, at, shared, trialState, capture, healing>>

\* The members of a group as the snapshot has them.
Teacher(c) == {snapshot[e] : e \in Groups[c]}

\* One optimizer step of the distillation of a group.  PlateauSteps losses in
\* a row below the threshold end it; the expert is written back at the end.
Distill(c) ==
    /\ phase = "distill" /\ c \in toMerge /\ \A x \in toMerge : c <= x
    /\ \E low \in BOOLEAN :
          LET now == [step |-> plateau.step + 1, count |-> IF low THEN plateau.count + 1 ELSE 0]
              ends == now.count >= PlateauSteps \/ now.step = DistillSteps
          IN  /\ plateau' = IF ends THEN [step |-> 0, count |-> 0] ELSE now
              /\ bank' = IF ends THEN [bank EXCEPT ![c].distilled = TRUE] ELSE bank
              /\ taught' = IF ends THEN Put(taught, c, Teacher(c)) ELSE taught
              /\ toMerge' = IF ends THEN toMerge \ {c} ELSE toMerge
    /\ UNCHANGED <<phase, files, snapshot, at, shared, trialState, capture, healing>>

\* The layer is cut to its centroids; without a capture there is no healing.
CutDown ==
    /\ phase = "distill" /\ toMerge = {}
    /\ bank' = [c \in DOMAIN Groups |-> bank[c]]
    /\ phase' = IF MergedGroups = {} THEN "done" ELSE "companions"
    /\ UNCHANGED <<files, snapshot, taught, toMerge, plateau, at, shared, trialState, capture, healing>>

-----------------------------------------------------------------------------
(* Healing *)

\* Fault: a companion that exists is taken to be this attempt's.
CompanionIfMissing(w, i) ==
    IF i \in DOMAIN files[w].shared THEN files[w].shared[i] ELSE files[w].inputs[i]

\* The shared expert's output for the rows of a shard.
CompanionOf(w, i) == files[w].inputs[i]

Companion(w) ==
    /\ phase = "companions" /\ at = w /\ shared < Len(written[w])
    /\ files' = [files EXCEPT ![w].shared = Put(@, shared + 1, CompanionOf(w, shared + 1))]
    /\ shared' = shared + 1
    /\ UNCHANGED <<phase, at, trialState, capture, merging, healing>>

\* The manifest: a permutation of the writer's own shards, cut at TrainCount.
\* Fewer than two shards cannot be split: the error passes the clean-up.
Finalize(w) ==
    /\ phase = "companions" /\ at = w /\ shared = Len(written[w])
    /\ IF Cardinality(Shards(w)) < 2
       THEN phase' = "raised" /\ UNCHANGED <<at, shared, files, split>>
       ELSE /\ \E T \in kSubset(TrainCount(Cardinality(Shards(w))), Shards(w)) :
                  split' = [split EXCEPT ![w] = T]
            /\ files' = [files EXCEPT ![w].manifest = Shards(w)]
            /\ at' = IF w = "nemo" /\ "xd" \in Writers THEN "xd" ELSE "nemo"
            /\ phase' = IF at' = "nemo" THEN "heal" ELSE phase
            /\ shared' = 0
    /\ UNCHANGED <<step, trained, loss, best, waits, live, trialState, capture, merging>>

Held(w) == Shards(w) \ split[w]

\* The datasets are opened, and the plain merged block is evaluated and saved.
Open ==
    /\ phase = "heal"
    /\ \E h \in Losses \cup {NaN} : loss' = Put(<<>>, 0, h)
    /\ phase' = IF \A w \in Writers : Shards(w) \subseteq DOMAIN files[w].shared
             THEN "train" ELSE "raised"
    /\ UNCHANGED <<files, split, step, trained, best, waits, live, at, shared, trialState, capture, merging>>

\* The rows a training step can draw: from as many training shards as the
\* smallest of them suggests.
MinRows == Min({written["nemo"][i] : i \in split["nemo"]})
DrawShards == Min({(Minibatch + MinRows - 1) \div MinRows, Cardinality(split["nemo"])})
RowsOf(S) == UNION {Range(files["nemo"].inputs[i]) : i \in S}

\* A snapshot is taken of every strict improvement.
Best(h) == IF Less(h, loss[best]) THEN step + 1 ELSE best

Stops(h) == waits' >= Patience \/ step + 1 = MaxSteps

\* One training step; every EvalInterval steps an evaluation on the holdout.
\* A draw that yields too few rows is an error.
Train ==
    /\ phase = "train"
    /\ \E S \in kSubset(DrawShards, split["nemo"]) :
          IF Cardinality(RowsOf(S)) < Minibatch
          THEN /\ phase' = "raised"
               /\ UNCHANGED <<step, trained, loss, best, waits>>
          ELSE /\ trained' = trained \cup RowsOf(S) /\ step' = step + 1
               /\ IF (step + 1) % EvalInterval # 0
                  THEN /\ phase' = IF step + 1 = MaxSteps THEN "restore" ELSE phase
                       /\ UNCHANGED <<loss, best, waits>>
                  ELSE \E h \in Losses \cup {NaN} :
                          /\ loss' = Put(loss, step + 1, h)
                          /\ best' = Best(h)
                          /\ waits' = IF Improves(h, loss[best]) THEN 0 ELSE waits + 1
                          /\ phase' = IF Stops(h) THEN "restore" ELSE phase
    /\ UNCHANGED <<files, split, live, at, shared, trialState, capture, merging>>

\* Accepted or not, the layer's experts and router are written back together.
Accepted == Less(loss[best], loss[0])

RouterOf(s) == IF TrainRouter THEN s ELSE 0

Restore ==
    /\ phase = "restore"
    /\ live' = LET s == IF Accepted THEN best ELSE 0
               IN  [experts |-> s, router |-> RouterOf(s)]
    /\ phase' = "cleanup"
    /\ UNCHANGED <<files, split, step, trained, loss, best, waits, at, shared, trialState, capture, merging>>

\* The writers whose directories are removed.
CleanedUp == IF KeepShards THEN {} ELSE Writers

\* The shard directories go, whether healing ended or raised.
Cleanup ==
    /\ phase \in {"cleanup", "raised"}
    /\ files' = [w \in Writers |-> IF w \in CleanedUp THEN NoFiles ELSE files[w]]
    /\ phase' = IF phase = "raised" THEN "failed" ELSE "done"
    /\ UNCHANGED <<at, shared, trialState, capture, merging, healing>>

-----------------------------------------------------------------------------
Kill ==
    /\ kills < MaxKills /\ phase \notin {"dead", "done", "failed"}
    /\ kills' = kills + 1 /\ phase' = "dead" /\ at' = "nemo" /\ shared' = 0
    /\ UNCHANGED <<batches, trial, files>> /\ Fresh

\* The run is started again and comes back to this layer with its original
\* experts; nothing removes the files of the earlier attempt.
Restart ==
    /\ phase = "dead" /\ phase' = "snapshot" /\ trial' = trial + 1
    /\ UNCHANGED <<batches, kills, files, at, shared, capture, merging, healing>>

HealEnded == phase \in {"done", "failed"} /\ UNCHANGED healVars

HealingWork ==
    \/ Snapshot \/ MergeExperts \/ CutDown \/ Open \/ Train \/ Restore
    \/ Cleanup \/ Restart
    \/ \E w \in Writers : Forward(w) \/ ClosePending(w) \/ Companion(w) \/ Finalize(w)
    \/ \E c \in DOMAIN Groups : Distill(c)

HealNext == HealingWork \/ Kill \/ HealEnded

HealSpec == HealInit /\ [][HealNext]_healVars /\ WF_healVars(HealingWork)

-----------------------------------------------------------------------------
(* Properties *)

\* The rows of shard i when seen[w].rows have been captured by this attempt.
Slice(w, i) ==
    [j \in 1 .. Min({ShardRows, seen[w].rows - (i - 1) * ShardRows}) |->
        [run |-> trial, writer |-> w, row |-> (i - 1) * ShardRows + j, unmerged |-> TRUE]]

\* The shards of the manifest are the capture: every row of this attempt once,
\* in order, measured on the unmerged block, each shard with its own companion,
\* whatever an earlier attempt left in the directory.
CaptureExact ==
    phase \in {"train", "restore"} =>
        \A w \in Writers : LET n == Len(written[w]) IN
            /\ files[w].manifest = 1 .. n
            /\ (n - 1) * ShardRows < seen[w].rows /\ seen[w].rows <= n * ShardRows
            /\ \A i \in 1 .. n : Read(w, i) = [rows |-> Slice(w, i), shared |-> Slice(w, i)]

\* No row that judges the healing has trained it, and something does judge it.
HoldoutUntouched ==
    phase \in {"train", "restore"} =>
        /\ Held("nemo") # {}
        /\ trained \cap RowsOf(Held("nemo")) = {}
        /\ \A r \in trained : r.writer = "nemo"

\* The layer ends with the weights that were measured best on the holdout,
\* experts and router of the same step, and with the plain merge when nothing
\* measured was better.
NeverWorse ==
    phase = "done" /\ MergedGroups # {} =>
        /\ \A s \in DOMAIN loss : ~Less(loss[s], loss[live.experts])
        /\ live.experts # 0 => Less(loss[live.experts], loss[0])
        /\ live.router = RouterOf(live.experts)

\* A merged expert is taught by the members as they were before the merge.
TaughtByOriginals ==
    \A c \in DOMAIN taught : taught[c] = {Unmerged(e) : e \in Groups[c]}

\* Whether healing ended or raised, no shard outlives it unless asked for.
ShardsGone ==
    phase \in {"done", "failed"} /\ ~KeepShards /\ (\E w \in Writers : split[w] # {}) =>
        files = [w \in Writers |-> NoFiles]

\* The shards are exactly the capture of this attempt, the holdout does not
\* train, merged experts are taught by the originals, no shard outlives the
\* layer, and of plain merge and healed states the layer keeps the one
\* measured best.
HealSound == CaptureExact /\ HoldoutUntouched /\ TaughtByOriginals /\ ShardsGone /\ NeverWorse
=============================================================================
