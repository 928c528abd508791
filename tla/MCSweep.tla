------------------------------- MODULE MCSweep -------------------------------
(***************************************************************************)
(* What an ablation sweep consists of beside Stage 2, a behaviour is of    *)
(* one: "jobs", the launcher, the container and the harness (two rows, two *)
(* artifacts of Stage 1, two commands, two failures); "stage1" (two layers *)
(* of four experts, eight configurations); "evaluation", Stage 6 and the   *)
(* thermometer (nine configurations, two processes).                       *)
(***************************************************************************)
EXTENDS MCJobs, MCStage1, MCEvaluation

VARIABLE part
sweepVars == <<part, jobVars, stage1Vars, vars>>

\* The parts a behaviour is not about stay at one of their initial states.
SweepInit ==
    /\ part \in {"jobs", "stage1", "evaluation"}
    /\ JobsInit /\ Stage1Init /\ Init
    /\ part # "jobs" => job = "split" /\ bucket = Earlier(NoArtifacts, {})
    /\ part # "stage1" => inp = CHOOSE i \in Inputs : TRUE
    /\ part # "evaluation" => cfg = CHOOSE c \in Configs : TRUE
    /\ part # "evaluation" => student = CHOOSE s \in Students : TRUE
    /\ revision = CHOOSE r \in Revisions : TRUE   \* the two are alike

JobsPart(A) == part = "jobs" /\ A /\ UNCHANGED <<part, stage1Vars, vars>>
Stage1Part(A) == part = "stage1" /\ A /\ UNCHANGED <<part, jobVars, vars>>
EvaluationPart(A) == part = "evaluation" /\ A /\ UNCHANGED <<part, jobVars, stage1Vars>>

\* Nobody is at work, and the operator may leave it at that.
AtRest == script = "off" /\ launcher.pc = "stopped" /\ UNCHANGED jobVars
SweepNext == JobsPart(JobsNext \/ AtRest) \/ Stage1Part(Stage1Next) \/ EvaluationPart(Next)
\* Every process goes on as far as its own part says.  No behaviour changes
\* state for ever, so fairness of the steps together is enough.
Working ==
    \/ JobsPart(LauncherNext)
    \/ Stage1Part(Stage1Next)
    \/ EvaluationPart(Main \/ Read \/ Convert \/ \E r \in Replicas : ReplicaEnds(r))
SweepSpec == SweepInit /\ [][SweepNext]_sweepVars /\ WF_sweepVars(Working)

----------------------------------------------------------------------------
\* A command of the launcher ends, whatever the machines do; Stage 1 ends,
\* however often it backs off and thaws; and the last evaluation, which nothing
\* disturbs, writes its report.
Busy == CASE part = "jobs" -> launcher.pc # "stopped"
          [] part = "stage1" -> stagePc \notin {"done", "failed"}
          [] OTHER -> ~(run = MaxRuns /\ pc = "done")
SweepEnds == Busy ~> ~Busy
=============================================================================
