---------------------------- MODULE CorpusReplay ----------------------------
(***************************************************************************)
(* The replay of a corpus through the teacher to capture its statistics:   *)
(* _run_replay, build_self_traces_calib_vllm.py, one process per shard of  *)
(* the corpus.                                                             *)
(*                                                                         *)
(* Each chunk is forwarded, then the checkpoint of each writer is saved,   *)
(* then <shard>.jsonl.replay.ckpt with the rows consumed and the rows      *)
(* captured.  A resumed process skips the rows consumed and holds each     *)
(* writer's checkpoint against the rows captured.                          *)
(***************************************************************************)
EXTENDS CaptureWriters, Sequences, SequencesExt

CONSTANTS
    TooLong,     \* rows longer than --max-model-len
    Demanded,    \* the code rows and the science rows: sets of rows
    ReplayChunk  \* --chunk-size

ASSUME ReplayAssumption ==
    /\ TooLong \subseteq 1..Rows /\ ReplayChunk \in Nat \ {0}
    /\ \A S \in Demanded : S \subseteq 1..Rows

VARIABLES
    shards,  \* the rows of each shard file
    store,   \* per shard: the files next to it
    rep      \* per shard: the process that replays it

Shards == DOMAIN shards

NoStore == [rows |-> 0, captured |-> 0,   \* the replay checkpoint, 0: no file
            ckpt |-> [s \in 1..Signals |-> NoCheckpoint],
            side |-> [s \in 1..Signals |-> NoSidecar]]
Ended == [pc |-> "done", next |-> 1, captured |-> 0, seen |-> {}, sig |-> 1,
          acc |-> [s \in 1..Signals |-> Fresh]]
Failed == [Ended EXCEPT !.pc = "failed"]

\* A row longer than the context is not replayed.
Fits(S) == S \ TooLong

\* A process starts: nothing to do if every row is consumed.
Replaying(k, resume) ==
    LET rows == IF resume THEN store[k].rows ELSE 0
        base == IF resume THEN store[k].captured ELSE 0
    IN IF rows >= Len(shards[k]) THEN Ended
       ELSE IF Missing(store[k].ckpt, base) # {} THEN Failed
       ELSE [Ended EXCEPT !.pc = "chunk", !.next = rows + 1, !.captured = base,
                          !.acc = Hydrated(store[k].ckpt, base, resume)]
StoreAtStart(k, resume) ==
    LET rows == IF resume THEN store[k].rows ELSE 0
        base == IF resume THEN store[k].captured ELSE 0
    IN IF rows >= Len(shards[k]) THEN store[k]
       ELSE [store[k] EXCEPT !.ckpt = LeftAfterSetup(@, base, resume)]

In(k, pc) == rep[k].pc = pc
NextStart(k) ==
    IF rep[k].next + ReplayChunk <= Len(shards[k]) THEN rep[k].next + ReplayChunk
    ELSE Len(shards[k]) + 1
ChunkRows(k) == {shards[k][i] : i \in rep[k].next..(NextStart(k) - 1)}

\* _write_replay_ckpt, atomic.
Marked(k, next, captured) == [store[k] EXCEPT !.rows = next - 1, !.captured = captured]

\* A chunk of rows that are all too long is only marked.  Otherwise the rows
\* that fit are forwarded; then every capture must have seen something.
Replay(k) ==
    LET fit == Fits(ChunkRows(k)) IN
    /\ In(k, "chunk") /\ rep[k].next <= Len(shards[k])
    /\ IF fit = {}
       THEN /\ store' = [store EXCEPT ![k] = Marked(k, NextStart(k), rep[k].captured)]
            /\ rep' = [rep EXCEPT ![k].next = NextStart(k)]
       ELSE /\ rep' = [rep EXCEPT ![k] =
                 IF SomeEmpty(Forwarded(rep[k].acc, fit)) THEN Failed
                 ELSE [rep[k] EXCEPT !.pc = "ckpt", !.next = NextStart(k),
                                     !.captured = rep[k].captured + Cardinality(fit),
                                     !.seen = rep[k].seen \cup fit,
                                     !.acc = Forwarded(rep[k].acc, fit)]]
            /\ UNCHANGED store
    /\ UNCHANGED <<shards, silent, failures>>
SaveWriter(k, ok) ==
    LET s == rep[k].sig IN
    /\ In(k, "ckpt") /\ Attempt(ok)
    /\ store' = IF ok THEN [store EXCEPT ![k].ckpt[s] =
                              [at |-> rep[k].captured, stat |-> rep[k].acc[s]]]
                ELSE store
    /\ rep' = [rep EXCEPT ![k] = NextSignal(@, "mark")]
    /\ UNCHANGED <<shards, silent>>

MarkChunk(k) ==
    /\ In(k, "mark")
    /\ store' = [store EXCEPT ![k] = Marked(k, rep[k].next, rep[k].captured)]
    /\ rep' = [rep EXCEPT ![k].pc = "chunk"]
    /\ UNCHANGED <<shards, silent, failures>>

\* _assert_code_science_nonzero, over the rows this very process replayed.
KindMissing(seen) == \E S \in Demanded : S \cap seen = {}

\* After the last chunk: no kind of row is missing, no capture is empty.
Checked(k) ==
    /\ In(k, "chunk") /\ rep[k].next > Len(shards[k])
    /\ rep' = [rep EXCEPT ![k] =
          IF KindMissing(@.seen) \/ SomeEmpty(@.acc)
          THEN Failed ELSE [@ EXCEPT !.pc = "dump"]]
    /\ UNCHANGED <<shards, store, silent, failures>>

\* A sidecar is dumped and its checkpoint deleted; an exception is logged.
DumpSignal(k, ok) ==
    LET s == rep[k].sig IN
    /\ In(k, "dump") /\ Attempt(ok)
    /\ store' = IF ok THEN [store EXCEPT ![k].side[s] = [there |-> TRUE, stat |-> rep[k].acc[s]],
                                         ![k].ckpt[s] = NoCheckpoint]
                ELSE store
    /\ rep' = [rep EXCEPT ![k] = NextSignal(@, "unlink")]
    /\ UNCHANGED <<shards, silent>>

EndReplay(k) ==
    /\ In(k, "unlink")
    /\ store' = [store EXCEPT ![k].rows = 0, ![k].captured = 0]
    /\ rep' = [rep EXCEPT ![k] = Ended]
    /\ UNCHANGED <<shards, silent, failures>>

KillReplay(k) ==
    /\ rep[k].pc \notin {"done", "failed"} /\ failures < MaxFailures
    /\ rep' = [rep EXCEPT ![k] = Failed]
    /\ failures' = failures + 1
    /\ UNCHANGED <<shards, store, silent>>

Replayer(k) ==
    \/ Replay(k) \/ MarkChunk(k) \/ Checked(k) \/ EndReplay(k)
    \/ \E ok \in BOOLEAN : SaveWriter(k, ok) \/ DumpSignal(k, ok)
=============================================================================
