------------------------------ MODULE Ablations ------------------------------
(***************************************************************************)
(* The ablation harness (run_ablations.py): Stage 1 is run once for all    *)
(* rows, and every row is seeded from its artifacts, runs Stage 2 and      *)
(* Stage 6 in processes of their own, and is published to a bucket by a    *)
(* background thread while the next row runs.  What is on the volume       *)
(* decides what is skipped: the harness may be killed at any moment and    *)
(* started again.                                                          *)
(***************************************************************************)
EXTENDS Integers, Sequences, FiniteSets, FiniteSetsExt, SequencesExt

CONSTANTS
    Table,      \* the rows, in their order
    Baseline,   \* the row that has to leave the teacher's cache, "A0"
    Artifacts,  \* number of artifacts of Stage 1, in the order it saves them
    MaxFaults   \* bound on failures of processes, services and threads

ASSUME RowsAssumption == Table \in Seq(ToSet(Table)) /\ Table # <<>> /\ IsInjective(Table)
ASSUME ArtifactsAssumption == Artifacts \in Nat \ {0}

VARIABLES
    shared,      \* volume, _shared/: the run of Stage 1 that wrote each artifact, 0 for none
    teacher,     \* volume, _shared/: whether the teacher's cache is there
    dir,         \* volume, by row: what its directory holds
    bucket,      \* what has been published
    harness,     \* the harness process
    uploads,     \* its upload threads
    stage1Runs,  \* runs of Stage 1 so far
    faults       \* failures so far
volume == <<shared, teacher, dir>>
process == <<harness, uploads>>
harnessVars == <<volume, bucket, process, stage1Runs, faults>>

-----------------------------------------------------------------------------
RowIds == ToSet(Table)
NoArtifacts == [i \in 1 .. Artifacts |-> 0]
Complete(seeds) == \A i \in DOMAIN seeds : seeds[i] # 0

\* What may be left of a checkpoint: part of it; all of its weights, with the
\* config that is written after them; and the tokenizer, which comes last.
Models == {"none", "torn", "bare", "whole"}
EmptyDir == [seeds |-> NoArtifacts, pruned |-> "none", final |-> "none",
             result |-> {}, flags |-> {}]
NoDirs == [r \in RowIds |-> EmptyDir]
NoProcess == [pc |-> "off", todo |-> <<>>, skip |-> FALSE, only |-> FALSE, ok |-> TRUE,
              done |-> {}, failed |-> {}, first |-> TRUE]
Invoked(rows, skip, only) ==
    [NoProcess EXCEPT !.pc = "preflight", !.todo = rows, !.skip = skip, !.only = only]

Fault == faults < MaxFaults /\ faults' = faults + 1

\* The bucket as an earlier volume left it: Stage 1 (with the teacher's cache,
\* if the baseline is there too), and the results of some rows.
Earlier(seeds, rows) ==
    [shared |-> seeds, teacher |-> Baseline \in rows, pruned |-> [r \in RowIds |-> "none"],
     result |-> [r \in RowIds |-> IF r \in rows THEN {1} ELSE {}]]

HarnessInit ==
    /\ stage1Runs = 1 /\ faults = 0 /\ teacher = FALSE
    /\ shared = NoArtifacts /\ dir = NoDirs
    /\ bucket \in {Earlier(NoArtifacts, {}), Earlier([i \in 1 .. Artifacts |-> 1], {Baseline})}
    /\ harness = NoProcess /\ uploads = {}

-----------------------------------------------------------------------------
(* Stage 1, once for all rows *)

\* All artifacts there: nothing to do.  One missing: Stage 1 from the start.
Preflight ==
    /\ harness.pc = "preflight"
    /\ IF Complete(shared)
       THEN /\ harness' = [harness EXCEPT !.pc = IF harness.only THEN "exit" ELSE "rows"]
            /\ UNCHANGED stage1Runs
       ELSE harness' = [harness EXCEPT !.pc = "stage1"] /\ stage1Runs' = stage1Runs + 1
    /\ UNCHANGED <<volume, bucket, uploads, faults>>

ToDerive == {i \in 1 .. Artifacts : shared[i] # stage1Runs}
Derive ==
    /\ harness.pc = "stage1"
    /\ IF ToDerive = {}
       THEN harness' = [harness EXCEPT !.pc = IF harness.only THEN "exit" ELSE "rows"]
            /\ UNCHANGED shared
       ELSE shared' = [shared EXCEPT ![Min(ToDerive)] = stage1Runs] /\ UNCHANGED harness
    /\ UNCHANGED <<teacher, dir, bucket, uploads, stage1Runs, faults>>

DeriveFails ==
    /\ harness.pc = "stage1" /\ Fault
    /\ harness' = [harness EXCEPT !.pc = "exit", !.ok = FALSE]
    /\ UNCHANGED <<volume, bucket, uploads, stage1Runs>>

-----------------------------------------------------------------------------
(* A row *)

Row == Head(harness.todo)
Thread(row, phase) ==
    [row |-> row, phase |-> phase, at |-> IF harness.first THEN "shared" ELSE "artifact"]

\* The row has a result.  The baseline is then refused if the teacher's cache
\* is not there: it stays in the results, is a failure as well, and is not
\* published; the rows after it run all the same.
Landed(phase, cached) ==
    IF Row = Baseline /\ ~cached
    THEN /\ harness' = [harness EXCEPT !.pc = "rows", !.todo = Tail(@), !.done = @ \cup {Row},
                                       !.failed = @ \cup {Row}]
         /\ UNCHANGED uploads
    ELSE /\ harness' = [harness EXCEPT !.pc = "rows", !.todo = Tail(@), !.done = @ \cup {Row},
                                       !.first = FALSE]
         /\ uploads' = uploads \cup {Thread(Row, phase)}

Failed == harness' = [harness EXCEPT !.pc = "rows", !.todo = Tail(@), !.failed = @ \cup {Row}]

\* _is_complete: the result of an earlier run is loaded, and published again.
LoadResult ==
    /\ harness.pc = "rows" /\ harness.todo # <<>>
    /\ dir[Row].result # {} /\ Landed("complete", teacher)
    /\ UNCHANGED <<volume, bucket, stage1Runs, faults>>

\* Any stage2_pruned/ will do.
StageTwoThere(d) == d.pruned # "none" /\ d.final = "none"
\* Only config.json and the index are looked for: the tokenizer may be missing.
StageTwoDone(d) == d.pruned \in {"bare", "whole"} /\ d.final = "none"

\* --skip-stage2p5, and Stage 2 is done and was not continued.
KeepStageTwo ==
    /\ harness.pc = "rows" /\ harness.todo # <<>>
    /\ dir[Row].result = {} /\ harness.skip /\ StageTwoDone(dir[Row])
    /\ Landed("stage2", teacher)
    /\ UNCHANGED <<volume, bucket, stage1Runs, faults>>

\* _seed_stage1_artifacts: what the row has already is kept.
Seeded(seeds) == [i \in DOMAIN seeds |-> IF seeds[i] # 0 THEN seeds[i] ELSE shared[i]]

BeginRow ==
    /\ harness.pc = "rows" /\ harness.todo # <<>>
    /\ dir[Row].result = {} /\ ~(harness.skip /\ StageTwoDone(dir[Row]))
    /\ dir' = [dir EXCEPT ![Row].seeds = Seeded(@)]
    /\ harness' = [harness EXCEPT !.pc = "stage2"]
    /\ UNCHANGED <<shared, teacher, bucket, uploads, stage1Runs, faults>>

\* The process that runs Stage 2, and Stage 2.5 unless that is skipped, starts
\* from the last checkpoint of the row that is there, in whatever state it is.
Loads(d) == IF d.final # "none" THEN d.final = "whole" ELSE d.pruned \in {"none", "whole"}
Advanced(d) ==
    IF d.final # "none" THEN d
    ELSE [d EXCEPT !.pruned = "whole", !.final = IF harness.skip THEN "none" ELSE "whole"]
StageTwo ==
    /\ harness.pc = "stage2" /\ Loads(dir[Row])
    /\ dir' = [dir EXCEPT ![Row] = Advanced(@)]
    /\ IF harness.skip THEN Landed("stage2", teacher)
       ELSE harness' = [harness EXCEPT !.pc = "stage6"] /\ UNCHANGED uploads
    /\ UNCHANGED <<shared, teacher, bucket, stage1Runs, faults>>

\* A checkpoint that does not load is never written again: the row fails.
StageTwoRefuses ==
    /\ harness.pc = "stage2" /\ ~Loads(dir[Row]) /\ Failed
    /\ UNCHANGED <<volume, bucket, uploads, stage1Runs, faults>>

\* What the process leaves of the row when it does not come to its end.
Unfinished(d) ==
    IF d.final # "none" \/ ~Loads(d) THEN {d}
    ELSE {[d EXCEPT !.pruned = m] : m \in IF d.pruned = "none" THEN Models ELSE {"whole"}}
         \cup {[d EXCEPT !.pruned = "whole", !.final = m] :
                    m \in IF harness.skip THEN {"none"} ELSE Models}
StageTwoFails ==
    /\ harness.pc = "stage2" /\ Loads(dir[Row]) /\ Fault /\ Failed
    /\ \E d \in Unfinished(dir[Row]) : dir' = [dir EXCEPT ![Row] = d]
    /\ UNCHANGED <<shared, teacher, bucket, uploads, stage1Runs>>

\* The process that evaluates the row; the first one scores the teacher and
\* keeps the scores, if it can.
StageSix ==
    /\ harness.pc = "stage6"
    /\ \E written \in {TRUE, FALSE} :
          /\ teacher' = (teacher \/ written)
          /\ IF teacher' THEN UNCHANGED faults ELSE Fault
    /\ dir' = [dir EXCEPT ![Row].result = ToSet(dir[Row].seeds)]
    /\ Landed("complete", teacher')
    /\ UNCHANGED <<shared, bucket, stage1Runs>>

StageSixFails ==
    /\ harness.pc = "stage6" /\ Fault /\ Failed
    /\ UNCHANGED <<volume, bucket, uploads, stage1Runs>>

-----------------------------------------------------------------------------
(* Publishing *)

\* One request of an upload thread; the flag is left on the volume after the
\* last one.
Send(t) ==
    \/ /\ t.at = "shared"
       /\ bucket' = [bucket EXCEPT !.shared = shared, !.teacher = @ \/ teacher]
       /\ uploads' = (uploads \ {t}) \cup {[t EXCEPT !.at = "artifact"]}
       /\ UNCHANGED dir
    \/ /\ t.at = "artifact"
       /\ bucket' = IF t.phase = "stage2"
                    THEN [bucket EXCEPT !.pruned[t.row] = dir[t.row].pruned]
                    ELSE [bucket EXCEPT !.result[t.row] = dir[t.row].result]
       /\ uploads' = (uploads \ {t}) \cup {[t EXCEPT !.at = "flag"]}
       /\ UNCHANGED dir
    \/ /\ t.at = "flag"
       /\ dir' = [dir EXCEPT ![t.row].flags = @ \cup {t.phase}]
       /\ uploads' = uploads \ {t} /\ UNCHANGED bucket

Upload ==
    /\ \E t \in uploads : Send(t)
    /\ UNCHANGED <<shared, teacher, harness, stage1Runs, faults>>

\* An error ends the thread, and nobody hears of it.
UploadFails ==
    /\ Fault
    /\ \E t \in uploads : uploads' = uploads \ {t}
    /\ UNCHANGED <<volume, bucket, harness, stage1Runs>>

\* The threads are joined, each for so long; those that remain end with the
\* process.
Exit ==
    /\ harness.pc = "rows" /\ harness.todo = <<>>
    /\ IF uploads = {} THEN UNCHANGED faults ELSE Fault
    /\ harness' = [harness EXCEPT !.pc = "exit", !.ok = harness.failed = {}]
    /\ uploads' = {}
    /\ UNCHANGED <<volume, bucket, stage1Runs>>

HarnessNext ==
    \/ Preflight \/ Derive \/ DeriveFails
    \/ LoadResult \/ KeepStageTwo \/ BeginRow
    \/ StageTwo \/ StageTwoRefuses \/ StageTwoFails \/ StageSix \/ StageSixFails
    \/ Upload \/ UploadFails \/ Exit

\* The process is gone and its threads with it; a process in the middle of
\* Stage 2 leaves what it has written.
HarnessKilled ==
    /\ harness' = NoProcess /\ uploads' = {}
    /\ IF harness.pc = "stage2"
       THEN \E d \in Unfinished(dir[Row]) : dir' = [dir EXCEPT ![Row] = d]
       ELSE UNCHANGED dir

-----------------------------------------------------------------------------
(* Properties *)

\* All rows are from one Stage 1: those with a result were computed from the
\* same artifacts ("shared Stage 1 (blacklist + budgets, identical across
\* ablations)", run_ablations.py:862), whichever machine computed them.
RowsComparable ==
    \A r, q \in RowIds : dir[r].result # {} /\ dir[q].result # {} => dir[r].result = dir[q].result

\* The rows that a volume computes, and did not pull, are from the Stage 1 that
\* is on it, complete: however often the harness was killed in the middle of
\* Stage 1, of a seed or of a row, whatever was in the bucket by then.
MadeFromShared ==
    \A r \in RowIds : LET computed == dir[r].result IN
        computed # {} /\ computed = ToSet(dir[r].seeds) => Complete(shared) /\ computed = ToSet(shared)

\* A flag on the volume says that the bucket has the row: all the weights of a
\* pruned model, or the very result that is on the volume; not what a killed
\* process, a failed thread or a torn directory left.
FlagsHonest ==
    \A r \in RowIds :
        /\ "stage2" \in dir[r].flags => bucket.pruned[r] \in {"bare", "whole"}
        /\ "complete" \in dir[r].flags => bucket.result[r] = dir[r].result /\ dir[r].result # {}

\* What a row computed here, and what a flag says, is what it should be.
RowsHonest == MadeFromShared /\ FlagsHonest
=============================================================================
