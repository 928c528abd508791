-------------------------------- MODULE Jobs --------------------------------
(***************************************************************************)
(* How the work gets to a GPU.  docker/spheron_launch.py rents a machine   *)
(* for every phase of the split run (preparation, Stage 2 on a cheap GPU,  *)
(* Stage 2.5 and Stage 6 on a large one), attaches the same volume to each *)
(* of them, starts a bootstrap script on it over SSH and polls the volume  *)
(* for a status file, until it tears the machine down and goes on.  In the *)
(* container, run_sh_split.sh seeds Stage 1 and runs the harness for one   *)
(* row.  docker/bootstrap.sh runs the harness for all rows in a container  *)
(* that somebody else rents.  The rental service, the machines and the     *)
(* bucket are external; they may fail, and so may the person at the        *)
(* keyboard.                                                               *)
(***************************************************************************)
EXTENDS Ablations

CONSTANTS
    SplitRow,    \* the row of the split run
    Plans,       \* phases that a command of the launcher runs
    MaxSessions, \* bound on the commands of the operator
    MaxMachines  \* bound on the machines rented

ASSUME SplitAssumption == SplitRow \in ToSet(Table)
ASSUME PlansAssumption == \A p \in Plans : p # <<>> /\ p \in Seq({"phase0", "stage2", "stage2p5"})

VARIABLES
    job,       \* "split": the launcher; "whole": bootstrap.sh
    launcher,  \* the launcher process
    machines,  \* the machines rented so far, the last one last
    flag,      \* the status file on the volume
    script,    \* where the container's script is
    sessions   \* commands started so far
rental == <<launcher, machines, sessions>>
jobVars == <<job, rental, flag, script, harnessVars>>

NoFlag == [phase |-> "none", rc |-> 0]
NoLauncher == [pc |-> "stopped", plan |-> <<>>, keep |-> FALSE, clean |-> TRUE, outcome |-> "none"]
Machine(phase) == [up |-> TRUE, host |-> "blank", phase |-> phase, rc |-> -1]

JobsInit ==
    /\ HarnessInit /\ job \in {"split", "whole"}
    /\ launcher = NoLauncher /\ machines = <<>> /\ flag = NoFlag
    /\ script = "off" /\ sessions = 0

-----------------------------------------------------------------------------
(* The container's script *)

InUse == {m \in DOMAIN machines : machines[m].up /\ machines[m].host = "running"}

\* The script ends, and the machine's bootstrap writes the status file.
Finish(rc) ==
    /\ script' = "off" /\ harness' = NoProcess /\ uploads' = {}
    /\ \E m \in InUse :
          /\ flag' = [phase |-> machines[m].phase, rc |-> rc]
          /\ machines' = [machines EXCEPT ![m].host = "done", ![m].rc = rc]
    /\ UNCHANGED <<job, launcher, sessions, bucket, stage1Runs>>

\* The files of Stage 1 that a download has brought.
Pull(files) == shared' = [i \in 1 .. Artifacts |-> IF i \in files THEN bucket.shared[i] ELSE shared[i]]

\* phase0_prep.py pulls the artifacts that are missing; or fails: the bucket
\* has not all of them, or cannot be listed, or the download stops half way.
Lacking == {i \in 1 .. Artifacts : shared[i] = 0}
Offered == \A i \in Lacking : bucket.shared[i] # 0
Prepare ==
    /\ script = "pull"
    /\ \/ Offered /\ Pull(Lacking) /\ script' = "pulled" /\ UNCHANGED faults
       \/ ~Offered /\ Pull({}) /\ script' = "refused" /\ UNCHANGED faults
       \/ /\ Lacking # {} /\ Fault /\ script' = "refused"
          /\ \E files \in IF Offered THEN SUBSET Lacking ELSE {{}} : Pull(files)
    /\ UNCHANGED <<job, rental, flag, teacher, dir, bucket, process, stage1Runs>>

\* The seed asks for the bucket's whole _shared/, and the teacher's cache with
\* it, if the artifacts are not all here, and all there.
Wanted == IF Complete(shared) \/ ~Complete(bucket.shared) THEN {} ELSE 1 .. Artifacts
SharedPulled == Pull(Wanted) /\ teacher' = (teacher \/ (Wanted # {} /\ bucket.teacher))
\* The download stops half way.
SharedTorn ==
    /\ \E files \in SUBSET Wanted : Pull(files)
    /\ teacher' \in {teacher, teacher \/ (Wanted # {} /\ bucket.teacher)}
\* The bucket cannot be listed: the seed is left out.
Unlisted == UNCHANGED <<shared, teacher>>

SplitSeed ==
    /\ job = "split" /\ script = "seed"
    /\ \/ SharedPulled /\ UNCHANGED faults
       \/ Unlisted /\ Fault
    /\ harness' = Invoked(<<>>, FALSE, TRUE) /\ script' = "preflight"
    /\ UNCHANGED <<job, rental, flag, dir, bucket, uploads, stage1Runs>>

SplitSeedFails ==
    /\ job = "split" /\ script = "seed"
    /\ SharedTorn /\ Fault /\ Finish(1) /\ UNCHANGED dir

RunRow ==
    /\ script = "preflight" /\ harness.pc = "exit" /\ harness.ok
    /\ \E m \in InUse :
          harness' = Invoked(<<SplitRow>>, machines[m].phase = "stage2", FALSE)
    /\ script' = "row"
    /\ UNCHANGED <<job, rental, flag, volume, bucket, uploads, stage1Runs, faults>>

\* What a phase must have left for its script to end well.
Left(phase) == IF phase = "stage2" THEN dir[SplitRow].pruned # "none"
               ELSE dir[SplitRow].result # {}

ScriptEnds ==
    /\ \/ script = "pulled" /\ Finish(0)
       \/ script = "refused" /\ Finish(1)
       \/ /\ job = "split" /\ script \in {"preflight", "row"} /\ harness.pc = "exit"
          /\ script = "row" \/ ~harness.ok
          /\ \E m \in InUse : Finish(IF harness.ok /\ Left(machines[m].phase) THEN 0 ELSE 1)
    /\ UNCHANGED <<volume, faults>>

-----------------------------------------------------------------------------
(* bootstrap.sh *)

\* The container is rented with the volume of the last one, or with a fresh
\* volume: only the bucket is left then.
StartWhole ==
    /\ job = "whole" /\ script = "off" /\ sessions < MaxSessions
    /\ script' = "seed" /\ sessions' = sessions + 1
    /\ \/ UNCHANGED volume
       \/ shared' = NoArtifacts /\ teacher' = FALSE /\ dir' = NoDirs
    /\ UNCHANGED <<job, launcher, machines, flag, bucket, process, stage1Runs, faults>>

\* Stage 1 as above; and the result of every row that has none here, whichever
\* Stage 1 it is from.
RowsWanted == {r \in RowIds : dir[r].result = {} /\ bucket.result[r] # {}}
PullRows(rows) ==
    dir' = [r \in RowIds |-> IF r \in rows THEN [dir[r] EXCEPT !.result = bucket.result[r]]
                             ELSE dir[r]]
WholeSeed ==
    /\ job = "whole" /\ script = "seed"
    /\ \/ SharedPulled /\ PullRows(RowsWanted) /\ UNCHANGED faults
       \/ Unlisted /\ PullRows({}) /\ Fault
    /\ harness' = Invoked(Table, FALSE, FALSE) /\ script' = "rows"
    /\ UNCHANGED <<job, rental, flag, bucket, uploads, stage1Runs>>

WholeSeedFails ==
    /\ job = "whole" /\ script = "seed" /\ Fault
    /\ SharedTorn /\ \E rows \in SUBSET RowsWanted : PullRows(rows)
    /\ script' = "off"
    /\ UNCHANGED <<job, rental, flag, bucket, process, stage1Runs>>

\* The last sync sends what the threads did not; it deletes nothing.
Synced ==
    [bucket EXCEPT !.shared = shared, !.teacher = @ \/ teacher,
                   !.result = [r \in RowIds |-> IF dir[r].result # {} THEN dir[r].result ELSE @[r]]]
WholeEnds ==
    /\ script = "rows" /\ harness.pc = "exit"
    /\ bucket' \in IF harness.ok THEN {bucket, Synced} ELSE {bucket}
    /\ script' = "off" /\ harness' = NoProcess
    /\ UNCHANGED <<job, rental, flag, volume, uploads, stage1Runs, faults>>

WholeKilled ==
    /\ job = "whole" /\ script # "off" /\ Fault
    /\ HarnessKilled /\ script' = "off"
    /\ UNCHANGED <<job, rental, flag, shared, teacher, bucket, stage1Runs>>

-----------------------------------------------------------------------------
(* A machine *)

Newest == Len(machines)

\* The bootstrap script, which nobody waits for: the volume is mounted or it
\* gives up; Docker is installed; a GPU answers or it gives up; and only then
\* the old status file goes and the container starts.
BootFails(m) ==
    /\ machines[m].up /\ machines[m].host = "booting" /\ Fault
    /\ machines' = [machines EXCEPT ![m].host = "dead"]
    /\ UNCHANGED <<job, launcher, sessions, flag, script, volume, bucket, process, stage1Runs>>

Boot(m) ==
    /\ machines[m].up /\ machines[m].host = "booting"
    /\ flag' = NoFlag
    /\ machines' = [machines EXCEPT ![m].host = "running"]
    /\ script' = IF machines[m].phase = "phase0" THEN "pull" ELSE "seed"
    /\ harness' = NoProcess
    /\ UNCHANGED <<job, launcher, sessions, volume, bucket, uploads, stage1Runs, faults>>

\* A machine is given back: its container stops with it.
Stop(m) ==
    /\ machines' = [machines EXCEPT ![m].up = FALSE]
    /\ IF machines[m].host = "running" THEN HarnessKilled /\ script' = "off"
       ELSE UNCHANGED <<dir, process, script>>
    /\ UNCHANGED <<shared, teacher, bucket, stage1Runs>>

Stay == UNCHANGED <<machines, volume, bucket, process, script, stage1Runs>>

-----------------------------------------------------------------------------
(* The launcher *)

Phase == Head(launcher.plan)
End(l, outcome) == [l EXCEPT !.pc = "stopped", !.outcome = outcome]
Ended(outcome) == launcher' = End(launcher, outcome)

\* _safe_teardown: a request that fails is only logged.  next: what the
\* launcher is then.
TearDown(next) ==
    \/ Stop(Newest) /\ launcher' = next /\ UNCHANGED faults
    \/ Stay /\ Fault /\ launcher' = [next EXCEPT !.clean = FALSE]

StartPhases ==
    /\ job = "split" /\ launcher.pc = "stopped" /\ sessions < MaxSessions
    /\ \E plan \in Plans, keep \in BOOLEAN :
          /\ keep => Len(plan) = 1
          /\ Newest + Len(plan) <= MaxMachines
          /\ launcher' = [pc |-> "check", plan |-> plan, keep |-> keep, clean |-> TRUE, outcome |-> "none"]
    /\ sessions' = sessions + 1
    /\ UNCHANGED <<job, machines, flag, script, harnessVars>>

\* Fault: only a machine whose container runs is in the way.
AttachedRunning == {m \in DOMAIN machines : machines[m].up /\ machines[m].host = "running"}
Attached == {m \in DOMAIN machines : machines[m].up}

\* _check_no_active_deployment_on_volume
Check ==
    /\ launcher.pc = "check"
    /\ IF Attached # {} THEN Ended("refused")
       ELSE launcher' = [launcher EXCEPT !.pc = "create"]
    /\ UNCHANGED <<job, machines, sessions, flag, script, harnessVars>>

\* The request to rent is answered; or it fails; or its answer is lost, and
\* the machine is there.
Create ==
    /\ launcher.pc = "create"
    /\ \/ /\ machines' = Append(machines, Machine(Phase))
          /\ launcher' = [launcher EXCEPT !.pc = "ready"] /\ UNCHANGED faults
       \/ Ended("failed") /\ Fault /\ UNCHANGED machines
       \/ Ended("lost") /\ Fault /\ machines' = Append(machines, Machine(Phase))
    /\ UNCHANGED <<job, sessions, flag, script, volume, bucket, process, stage1Runs>>

\* Address, SSH, attachment, restart and SSH again; the volume is mounted;
\* the bootstrap is sent and started.
Provision ==
    /\ \/ /\ launcher.pc = "ready"
          /\ launcher' = [launcher EXCEPT !.pc = "attached"]
          /\ UNCHANGED machines
       \/ /\ launcher.pc = "attached"
          /\ machines' = [machines EXCEPT ![Newest].host = "mounted"]
          /\ launcher' = [launcher EXCEPT !.pc = "mounted"]
       \/ /\ launcher.pc = "mounted"
          /\ machines' = [machines EXCEPT ![Newest].host = "booting"]
          /\ launcher' = [launcher EXCEPT !.pc = "poll"]
    /\ UNCHANGED <<job, sessions, flag, script, harnessVars>>

Provisioning == {"ready", "attached", "mounted"}

\* A step of it fails or takes too long: the machine is given back.
ProvisionFails ==
    /\ launcher.pc \in Provisioning
    /\ TearDown(End(launcher, "failed"))
    /\ UNCHANGED <<job, sessions, flag>>

Continued ==
    IF Len(launcher.plan) = 1 THEN End(launcher, "done")
    ELSE [launcher EXCEPT !.pc = "check", !.plan = Tail(@)]

\* Any status that can be read ends the wait.  Success: the machine is given
\* back, and the next phase follows whether that worked or not.
PollDone ==
    /\ launcher.pc = "poll" /\ flag # NoFlag /\ flag.rc = 0
    /\ IF launcher.keep THEN Ended("kept") /\ Stay /\ UNCHANGED faults
       ELSE TearDown(Continued)
    /\ UNCHANGED <<job, sessions, flag>>

\* Failure: the machine is left for somebody to look at.
PollFailure ==
    /\ launcher.pc = "poll" /\ flag # NoFlag /\ flag.rc # 0
    /\ Ended("diagnose")
    /\ UNCHANGED <<job, machines, sessions, flag, script, harnessVars>>

\* Fault: a machine whose bootstrap has given up is waited for.
PollTimeoutAlive ==
    /\ launcher.pc = "poll" /\ flag = NoFlag /\ machines[Newest].host # "dead"
    /\ TearDown(End(launcher, "failed"))
    /\ UNCHANGED <<job, sessions, flag>>

\* No status before the phase's time is over, or an interrupt.
PollTimeout ==
    /\ launcher.pc = "poll" /\ flag = NoFlag
    /\ TearDown(End(launcher, "failed"))
    /\ UNCHANGED <<job, sessions, flag>>

LauncherNext ==
    Check \/ Create \/ Provision \/ ProvisionFails \/ PollDone \/ PollFailure \/ PollTimeout

\* Ctrl-C while a machine is being provisioned is no Exception, and the
\* launcher may be killed: the machine stays.
Interrupted ==
    /\ launcher.pc \in Provisioning \cup {"create", "check", "poll"} /\ Fault
    /\ Ended("interrupted")
    /\ UNCHANGED <<job, machines, sessions, flag, script, volume, bucket, process, stage1Runs>>

\* The teardown command.
Teardown ==
    /\ job = "split" /\ launcher.pc = "stopped" /\ sessions < MaxSessions
    /\ \E m \in Attached : Stop(m)
    /\ sessions' = sessions + 1
    /\ UNCHANGED <<job, launcher, flag, faults>>

-----------------------------------------------------------------------------
Container ==
    /\ script \in {"preflight", "row", "rows"} /\ HarnessNext
    /\ UNCHANGED <<job, rental, flag, script>>

Bootstrap == \E m \in DOMAIN machines : Boot(m) \/ BootFails(m)

JobsNext ==
    \/ Container \/ Prepare \/ SplitSeed \/ SplitSeedFails \/ RunRow \/ ScriptEnds
    \/ StartWhole \/ WholeSeed \/ WholeSeedFails \/ WholeEnds \/ WholeKilled
    \/ Bootstrap
    \/ StartPhases \/ LauncherNext \/ Interrupted \/ Teardown

\* Every wait of the launcher has its time: it goes on whatever the others do.
JobsSpec == JobsInit /\ [][JobsNext]_jobVars /\ WF_jobVars(LauncherNext)

-----------------------------------------------------------------------------
(* Properties *)

\* Never are two machines rented that hold the volume: not after an interrupt,
\* a failed teardown, a lost answer or a restart of the launcher ("Two phases
\* on the same volume would corrupt Stage 2 output", spheron_launch.py:721).
OneMachine == \A m, n \in DOMAIN machines : machines[m].up /\ machines[n].up => m = n

\* No machine is paid for in silence: when the launcher has ended by itself and
\* no teardown failed, a machine is left only because it was asked for, or was
\* there before, or reported a failure.
NothingLeft ==
    launcher.pc = "stopped" /\ launcher.outcome \in {"failed", "done"} /\ launcher.clean
        => \A m \in DOMAIN machines : ~machines[m].up

\* One machine at a time, and none forgotten.
MachinesHeld == OneMachine /\ NothingLeft
=============================================================================
