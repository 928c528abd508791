----------------------------- MODULE MCPipeline -----------------------------
(***************************************************************************)
(* How the stages hand their results on, one behaviour for each way: one   *)
(* artifact, saved and loaded again by several processes (SidecarStore),   *)
(* and the driver with the checkpoint directories of its stages            *)
(* (Pipeline).                                                             *)
(***************************************************************************)
EXTENDS SidecarStore, Pipeline

\* Saves of different sizes, and two of the same size.
MCSizeOf == [s \in Saves |-> IF s = 3 THEN 1 ELSE s]

Cmd(from, to) == [from |-> from, to |-> to, noResume |-> FALSE, skip25 |-> FALSE,
                  skipMid |-> FALSE, shards |-> 1]
\* The whole pipeline, every resume of it, and --no-resume for Stage 2.
MCResumes == {Cmd(n, 6) : n \in 1..6} \cup {[Cmd(2, 6) EXCEPT !.noResume = TRUE]}
\* Stage 2 alone for another machine, the screening run, a larger model, and
\* Stage 4 from the start.
MCOthers == {[Cmd(2, 2) EXCEPT !.skip25 = TRUE], [Cmd(1, 6) EXCEPT !.skipMid = TRUE],
             [Cmd(1, 6) EXCEPT !.shards = 2], [Cmd(4, 4) EXCEPT !.noResume = TRUE]}
MCCommands == MCResumes \cup MCOthers
\* The first of two shards has no layer that was compressed differently.
MCCommon == {<<1, 2>>}

----------------------------------------------------------------------------
VARIABLE view  \* "artifact" or "driver"
storing == vars
both == <<view, storing, driving>>

MCInit ==
    /\ Init /\ DriverInit
    /\ view = "artifact" \/ (view = "driver" /\ artifact = Signal)
StoreStep == view = "artifact" /\ Next /\ UNCHANGED <<view, driving>>
DriverStep == view = "driver" /\ DriverNext /\ UNCHANGED <<view, storing>>
DriverWork == view = "driver" /\ Work /\ UNCHANGED <<view, storing>>
MCSpec == MCInit /\ [][StoreStep \/ DriverStep]_both /\ WF_both(DriverWork)

----------------------------------------------------------------------------
\* An operator who resumes the interrupted stage, with --no-resume after a
\* loading error, gets to the end of the pipeline.
Recovers == <>(view = "artifact" \/ rewinds # 0 \/ reached = 70)
=============================================================================
