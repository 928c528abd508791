--------------------------- MODULE CaptureWriters ---------------------------
(***************************************************************************)
(* The capture writers a calibration process carries: one accumulator per  *)
(* enabled signal (--capture-reap-scores, --capture-input-covariance, ...) *)
(* which every forwarded row is added to, and its checkpoint on disk,      *)
(* <corpus>.<signal>.ckpt (_setup_all_writers,                             *)
(* build_self_traces_calib_vllm.py).                                       *)
(*                                                                         *)
(* A statistic is abstracted to how often it holds each row.  A checkpoint *)
(* also has the prompt counter it was saved with.  The signals are treated *)
(* in the order of the code, written 1..Signals.                           *)
(***************************************************************************)
EXTENDS Naturals, FiniteSets

CONSTANTS
    Rows,       \* rows of the corpus, numbered from 1
    Signals,    \* number of enabled signals
    MaxFailures \* bound: processes that go down, checkpoints and sidecars that
                \* cannot be written

ASSUME WritersAssumption ==
    /\ Rows \in Nat /\ Signals \in Nat \ {0}
    /\ MaxFailures \in Nat

VARIABLES
    silent,   \* signals whose hooks never fire with this model, fixed
    failures

Nothing == [r \in 1..Rows |-> 0]

\* The flags are for the properties: a checkpoint went into the statistic whose
\* counter was behind, or ahead of, the rows on disk when it was loaded.
Fresh == [held |-> Nothing, behind |-> FALSE, ahead |-> FALSE]

\* One checkpoint per signal; at = 0 stands for a missing file.
NoCheckpoint == [at |-> 0, stat |-> Fresh]
NoSidecar == [there |-> FALSE, stat |-> Fresh]

-----------------------------------------------------------------------------
(* The start of a process: base rows are already done, ckpt is on disk. *)

\* Fault: a fresh start is asked for its checkpoints as well.
MissingAtFreshStart(ckpt, base) == {s \in 1..Signals : ckpt[s].at = 0}
\* _ckpt_existence_check: raises at a signal with rows but no checkpoint, which
\* ends the process; the signals before it have been treated.
Missing(ckpt, base) ==
    IF base = 0 THEN {} ELSE {s \in 1..Signals : ckpt[s].at = 0}
Treated(ckpt, base) ==
    {s \in 1..Signals : \A q \in Missing(ckpt, base) : s < q}

\* The accumulators are hydrated before _ckpt_counter_check looks at the
\* counter; its ValueError is caught, logged, and the file deleted.  The process
\* goes on with what it hydrated.
Loads(ckpt, base, resume) ==
    {s \in Treated(ckpt, base) : resume /\ ckpt[s].at > 0}

Hydrated(ckpt, base, resume) ==
    [s \in 1..Signals |->
        IF s \in Loads(ckpt, base, resume)
        THEN [ckpt[s].stat EXCEPT !.behind = @ \/ ckpt[s].at < base,
                                   !.ahead = @ \/ ckpt[s].at > base]
        ELSE Fresh]
LeftAfterSetup(ckpt, base, resume) ==
    [s \in 1..Signals |->
        IF s \in Loads(ckpt, base, resume) /\ ckpt[s].at # base
        THEN NoCheckpoint ELSE ckpt[s]]

-----------------------------------------------------------------------------
(* A forward pass over the rows in S: every hook that fires adds each of   *)
(* them once.  Those of the silent signals never do: the model runs        *)
(* through a path that does not carry them.                                *)

Forwarded(acc, S) ==
    [s \in 1..Signals |->
        IF s \in silent THEN acc[s]
        ELSE [acc[s] EXCEPT !.held =
                [r \in 1..Rows |-> acc[s].held[r] + IF r \in S THEN 1 ELSE 0]]]

\* assert_enabled_captures_nonempty: SystemExit(2).
SomeEmpty(acc) == \E s \in 1..Signals : acc[s].held = Nothing

\* A write succeeds, or its exception is logged and the process goes on.
Attempt(ok) ==
    \/ ok /\ UNCHANGED failures
    \/ ~ok /\ failures < MaxFailures /\ failures' = failures + 1

\* The signals are saved or dumped one after the other.
NextSignal(p, after) ==
    IF p.sig < Signals THEN [p EXCEPT !.sig = @ + 1]
    ELSE [p EXCEPT !.pc = after, !.sig = 1]

\* The statistic stands for the rows of S: it holds none outside the rows in
\* whole, none twice or too early unless a checkpoint ahead of the rows went
\* into it, and lacks none unless one behind them did.
Stands(stat, S, whole) ==
    /\ \A r \in (1..Rows) \ whole : stat.held[r] = 0
    /\ ~stat.ahead => \A r \in 1..Rows : stat.held[r] <= (IF r \in S THEN 1 ELSE 0)
    /\ ~stat.behind => \A r \in S : stat.held[r] >= 1
=============================================================================
