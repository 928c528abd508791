--------------------------- MODULE TraceGeneration ---------------------------
(***************************************************************************)
(* The generation of the teacher's self-traces: build_self_traces_calib.py *)
(* (engine "hf") and build_self_traces_calib_vllm.py (engine "vllm").      *)
(*                                                                         *)
(* A process works through its slice of the prompts in chunks.  The rows   *)
(* of a chunk go to <out>.jsonl.tmp one by one, those of teacher-forced    *)
(* prompts first, and the file is renamed to <out>.jsonl at the end.       *)
(* --resume takes the number of rows in the file for the number of prompts *)
(* done.  In data-parallel generation each process has a slice of its own  *)
(* (--num-prompts, --prev-num-prompts) and its own output.                 *)
(*                                                                         *)
(* A machine may go down at any step, the page cache with it.              *)
(***************************************************************************)
EXTENDS CaptureWriters, Sequences, SequencesExt

CONSTANTS
    Forced,     \* prompts with the policy TEACHER_FORCED
    Unanswered, \* prompts the Hugging Face engine decodes to an empty answer
    ChunkSize,  \* --chunk-size, --batch-size
    Ladders,    \* ways to cut the prompts into slices: <<C_0, ..., C_N>>
    Engines     \* engines to consider

ASSUME TracesAssumption ==
    /\ Forced \subseteq 1..Rows /\ Unanswered \subseteq 1..Rows
    /\ ChunkSize \in Nat \ {0} /\ Engines \subseteq {"hf", "vllm"}
    /\ \A l \in Ladders : /\ l \in Seq(0..Rows) /\ Len(l) > 1
                          /\ l[1] = 0 /\ l[Len(l)] = Rows
                          /\ \A k \in 1..(Len(l) - 1) : l[k] < l[k + 1]

VARIABLES
    engine, ladder,  \* fixed for a behaviour
    syncs,   \* fixed: the file system of the output takes an fsync
    trace,   \* per slice: the files of its output directory
    gen      \* per slice: the process that generates it

Slices == 1..(Len(ladder) - 1)
Size(k) == ladder[k + 1] - ladder[k]

\* _attempt_idx counts the prompts of the process, from 1 here.
Row(k, i) == [key |-> i, prompt |-> ladder[k] + i]
Torn == [key |-> 0, prompt |-> 0]   \* a line that is no JSON

NoTrace == [tmp |-> <<>>,    \* <out>.jsonl.tmp
            synced |-> 0,    \* lines of it that are on the device
            out |-> <<>>,    \* <out>.jsonl, published
            ckpt |-> [s \in 1..Signals |-> NoCheckpoint],
            side |-> [s \in 1..Signals |-> NoSidecar]]
Idle == [pc |-> "down", next |-> 1, forced |-> {}, asked |-> {}, sig |-> 1,
         acc |-> [s \in 1..Signals |-> Fresh]]

GenInit ==
    /\ engine \in Engines /\ ladder \in Ladders /\ syncs \in BOOLEAN
    /\ trace = [k \in Slices |-> NoTrace]
    /\ gen = [k \in Slices |-> Idle]

setting == <<engine, ladder, syncs, silent>>

-----------------------------------------------------------------------------
(* Start and resume *)

\* The rows before the first torn line.
Readable(lines) ==
    LET bad == {i \in DOMAIN lines : lines[i] = Torn}
    IN SubSeq(lines, 1, IF bad = {} THEN Len(lines)
                        ELSE (CHOOSE i \in bad : \A j \in bad : i <= j) - 1)

Launchable(k) == gen[k].pc \in {"down", "failed"} /\ trace[k].out = <<>>

\* The guards of the Hugging Face engine: the first and the last row in the
\* file are those of the prompts that would have been done.
Misaligned(k, rows) ==
    /\ engine = "hf" /\ rows # <<>>
    /\ \/ rows[1].prompt # ladder[k] + 1
       \/ Last(rows).prompt # ladder[k] + Len(rows)

\* Every prompt has a row: the file is published as it is, no sidecar is
\* written.  vLLM cuts the file after the last readable row.
PublishComplete(k, rows) ==
    /\ trace' = [trace EXCEPT ![k].out = IF engine = "vllm" THEN rows ELSE trace[k].tmp,
                              ![k].tmp = <<>>, ![k].synced = 0]
    /\ gen' = [gen EXCEPT ![k] = [Idle EXCEPT !.pc = "done"]]

\* The process opens the file to append, or anew if no row is done.  The
\* Hugging Face engine leaves a torn line where it is.
OpenTrace(k, rows, resume) ==
    LET files == [trace[k] EXCEPT
                    !.tmp = IF rows = <<>> THEN <<>>
                            ELSE IF engine = "vllm" THEN rows ELSE @,
                    !.synced = IF @ < Len(rows) THEN @ ELSE Len(rows)]
        base == Len(rows)
    IN IF engine = "hf"
       THEN /\ trace' = [trace EXCEPT ![k] = files]
            /\ gen' = [gen EXCEPT ![k] = [Idle EXCEPT !.pc = "chunk", !.next = base + 1]]
       ELSE /\ trace' = [trace EXCEPT ![k] =
                  [files EXCEPT !.ckpt = LeftAfterSetup(@, base, resume)]]
            /\ gen' = [gen EXCEPT ![k] =
                  IF Missing(trace[k].ckpt, base) # {}
                  THEN [Idle EXCEPT !.pc = "failed"]
                  ELSE [Idle EXCEPT !.pc = "chunk", !.next = base + 1,
                            !.acc = Hydrated(trace[k].ckpt, base, resume)]]

Generate(k, resume) ==
    LET rows == IF resume THEN Readable(trace[k].tmp) ELSE <<>>
    IN /\ Launchable(k)
       /\ CASE Misaligned(k, rows) ->
                 gen' = [gen EXCEPT ![k].pc = "failed"] /\ UNCHANGED trace
            [] ~Misaligned(k, rows) /\ Len(rows) >= Size(k) -> PublishComplete(k, rows)
            [] OTHER -> OpenTrace(k, rows, resume)
       /\ UNCHANGED <<setting, failures>>

-----------------------------------------------------------------------------
(* A chunk *)

At(k, pc) == gen[k].pc = pc

ChunkEnd(k) ==
    IF gen[k].next + ChunkSize - 1 <= Size(k) THEN gen[k].next + ChunkSize - 1 ELSE Size(k)
ChunkOf(k) == gen[k].next..ChunkEnd(k)
IsForced(k, i) == ladder[k] + i \in Forced
Answered(k, i) == engine = "vllm" \/ ladder[k] + i \notin Unanswered

\* The rows of the teacher-forced prompts wait to be written, then the others
\* are given to the model.
BeginChunk(k) ==
    /\ At(k, "chunk") /\ gen[k].next <= Size(k)
    /\ gen' = [gen EXCEPT ![k].pc = "write", ![k].next = ChunkEnd(k) + 1,
                          ![k].forced = {i \in ChunkOf(k) : IsForced(k, i)},
                          ![k].asked = {i \in ChunkOf(k) : ~IsForced(k, i)}]
    /\ UNCHANGED <<setting, trace, failures>>

\* A row appended to a torn line makes one line that is no JSON either.
Appended(lines, row) ==
    IF lines # <<>> /\ Last(lines) = Torn THEN lines ELSE Append(lines, row)

\* The rows that wait are written in the order of their prompts.
WriteRow(k) ==
    LET first == Min(gen[k].forced) IN
    /\ At(k, "write") /\ gen[k].forced # {}
    /\ trace' = [trace EXCEPT ![k].tmp = Appended(@, Row(k, first))]
    /\ gen' = [gen EXCEPT ![k].forced = @ \ {first}]
    /\ UNCHANGED <<setting, failures>>

\* llm.generate: the hooks see every prompt it is given, and each answer waits
\* for its row.  The Hugging Face engine drops an empty answer.
AskModel(k) ==
    /\ At(k, "write") /\ gen[k].forced = {} /\ gen[k].asked # {}
    /\ gen' = [gen EXCEPT
          ![k].forced = {i \in gen[k].asked : Answered(k, i)},
          ![k].asked = {},
          ![k].acc = IF engine = "hf" THEN @
                     ELSE Forwarded(@, {ladder[k] + i : i \in gen[k].asked})]
    /\ UNCHANGED <<setting, trace, failures>>

\* Fault: the file is flushed, not synced.
NotSynced(k) == trace[k].synced
\* os.fsync of the file; a file system that does not know it (EINVAL, ENOTSUP)
\* is passed over, and nothing is known to be on the device.
SyncedLines(k) == IF syncs THEN Len(trace[k].tmp) ELSE trace[k].synced

\* The chunk is in the file.  vLLM asks for it to be synced, and after a chunk
\* with generated rows looks whether each capture has seen something.
ChunkAsked(k) ==
    \E i \in 1..Size(k) : /\ (i - 1) \div ChunkSize = (gen[k].next - 2) \div ChunkSize
                          /\ ~IsForced(k, i)
EndChunk(k) ==
    /\ At(k, "write") /\ gen[k].forced = {} /\ gen[k].asked = {}
    /\ IF engine = "hf" THEN gen' = [gen EXCEPT ![k].pc = "chunk"] /\ UNCHANGED trace
       ELSE /\ trace' = [trace EXCEPT ![k].synced = SyncedLines(k)]
            /\ gen' = [gen EXCEPT ![k] =
                  IF ChunkAsked(k) /\ SomeEmpty(gen[k].acc)
                  THEN [Idle EXCEPT !.pc = "failed"]
                  ELSE [gen[k] EXCEPT !.pc = "ckpt"]]
    /\ UNCHANGED <<setting, failures>>

\* dump_<signal>_checkpoint with the counter set to the rows in the file; an
\* exception is logged, the checkpoint stays as it was.
SaveCheckpoint(k, ok) ==
    /\ At(k, "ckpt") /\ Attempt(ok)
    /\ trace' = IF ok THEN [trace EXCEPT ![k].ckpt[gen[k].sig] =
                              [at |-> Len(trace[k].tmp), stat |-> gen[k].acc[gen[k].sig]]]
                ELSE trace
    /\ gen' = [gen EXCEPT ![k] = NextSignal(@, "chunk")]
    /\ UNCHANGED setting

\* After the last chunk each sidecar is dumped and its checkpoint deleted; an
\* exception is logged, the other signals follow.
DumpSidecar(k, ok) ==
    /\ engine = "vllm" /\ At(k, "chunk") /\ gen[k].next > Size(k) /\ Attempt(ok)
    /\ LET s == gen[k].sig IN
       trace' = IF ok THEN [trace EXCEPT ![k].side[s] = [there |-> TRUE, stat |-> gen[k].acc[s]],
                                         ![k].ckpt[s] = NoCheckpoint]
                ELSE trace
    /\ gen' = [gen EXCEPT ![k] = NextSignal(@, "publish")]
    /\ UNCHANGED setting

Publish(k) ==
    /\ \/ At(k, "publish")
       \/ engine = "hf" /\ At(k, "chunk") /\ gen[k].next > Size(k)
    /\ trace' = [trace EXCEPT ![k].out = trace[k].tmp, ![k].tmp = <<>>, ![k].synced = 0]
    /\ gen' = [gen EXCEPT ![k] = [Idle EXCEPT !.pc = "done"]]
    /\ UNCHANGED <<setting, failures>>

-----------------------------------------------------------------------------
(* Failures *)

\* The process or its machine goes down: the lines that are not on the device
\* may be lost, and the last one left may be torn.
KillGenerator(k) ==
    /\ gen[k].pc \notin {"down", "failed", "done"} /\ failures < MaxFailures
    /\ \E n \in trace[k].synced..Len(trace[k].tmp) :
         LET lines == SubSeq(trace[k].tmp, 1, n)
             cut == n < Len(trace[k].tmp) \/ gen[k].forced # {}
         IN \E left \in {lines} \cup IF cut THEN {Append(lines, Torn)} ELSE {} :
              trace' = [trace EXCEPT ![k].tmp = left, ![k].synced = Len(left)]
    /\ gen' = [gen EXCEPT ![k] = [Idle EXCEPT !.pc = "failed"]]
    /\ failures' = failures + 1
    /\ UNCHANGED setting

Generator(k) ==
    \/ BeginChunk(k) \/ WriteRow(k) \/ AskModel(k) \/ EndChunk(k) \/ Publish(k)
    \/ \E ok \in BOOLEAN : SaveCheckpoint(k, ok) \/ DumpSidecar(k, ok)

GenNext ==
    \E k \in Slices :
        \/ Generator(k)
        \/ Generate(k, TRUE) \/ Generate(k, FALSE)
        \/ KillGenerator(k)
=============================================================================
