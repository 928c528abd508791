----------------------------- MODULE Jobs_proofs -----------------------------
(***************************************************************************)
(* Proofs about Jobs and the ablation harness it drives (Ablations), for   *)
(* any table of rows, any number of artifacts, machines, commands and      *)
(* failures, and any plans; and, in the second part, about Stage 1, which  *)
(* every row of the ablation shares, for any number of layers and experts  *)
(* and any measurements (Stage1, ExpertBudget).                            *)
(*                                                                         *)
(* Jobs.  The two properties hang together.  That a row's flag tells the   *)
(* truth needs the harness to be alone with the volume, which is so        *)
(* because the launcher never holds two machines; and what a volume has    *)
(* computed is from the Stage 1 on it because nothing rewrites a complete  *)
(* one, and no row is seeded before it is complete.                        *)
(*                                                                         *)
(* Stage 1.  What Allocate, Settle and Shed answer is shown first, about   *)
(* tables and sums over the layers; then that every step keeps GRAPE's     *)
(* tables exact, and an account of its iterations: every thaw is paid for  *)
(* by a merge before it, so the bound on the iterations is never reached.  *)
(***************************************************************************)
EXTENDS Jobs, Stage1, SetSums_proofs, SequenceTheorems

----------------------------------------------------------------------------
(* The inductive invariant                                                 *)

ArtifactSet == [1 .. Artifacts -> Nat]
PhaseNames == {"stage2", "complete"}
Commands == {"phase0", "stage2", "stage2p5"}

Results == SUBSET (Nat \ {0})

\* Stage 2.5 goes on from a whole checkpoint of Stage 2.
RowDirs == {d \in [seeds: ArtifactSet, pruned: Models, final: Models, result: Results,
                   flags: SUBSET PhaseNames] : d.final # "none" => d.pruned = "whole"}
Buckets == [shared: ArtifactSet, teacher: BOOLEAN, pruned: [RowIds -> Models],
            result: [RowIds -> Results]]
TypeVolume ==
    /\ shared \in ArtifactSet /\ teacher \in BOOLEAN
    /\ dir \in [RowIds -> RowDirs] /\ bucket \in Buckets
Processes ==
    [pc: {"off", "preflight", "stage1", "rows", "stage2", "stage6", "exit"}, todo: Seq(RowIds),
     skip: BOOLEAN, only: BOOLEAN, ok: BOOLEAN, done: SUBSET RowIds, failed: SUBSET RowIds,
     first: BOOLEAN]
UploadThreads == [row: RowIds, phase: PhaseNames, at: {"shared", "artifact", "flag"}]
TypeProcess ==
    /\ harness \in Processes /\ uploads \in SUBSET UploadThreads
    /\ stage1Runs \in Nat \ {0}
Launchers ==
    [pc: {"stopped", "check", "create", "ready", "attached", "mounted", "poll"},
     plan: Seq(Commands), keep: BOOLEAN, clean: BOOLEAN,
     outcome: {"none", "refused", "failed", "lost", "done", "kept", "diagnose", "interrupted"}]
Machines == [up: BOOLEAN, host: {"blank", "mounted", "booting", "running", "dead", "done"},
             phase: Commands, rc: {-1, 0, 1}]
TypeRental ==
    /\ launcher \in Launchers
    /\ launcher.pc # "stopped" => launcher.plan # <<>>
    /\ machines \in Seq(Machines)
    /\ flag \in [phase: Commands \cup {"none"}, rc: {0, 1}] /\ sessions \in Nat
TypeControl ==
    /\ job \in {"split", "whole"} /\ faults \in Nat
    /\ script \in {"off", "pull", "pulled", "refused", "seed", "preflight", "row", "rows"}
TypeOK == TypeVolume /\ TypeProcess /\ TypeRental /\ TypeControl

\* Only the launcher's newest machine is ever up beside it; when it rents, none is.
Held == /\ OneMachine /\ NothingLeft
        /\ launcher.pc = "create" => Attached = {}
        /\ launcher.pc \in Provisioning \cup {"poll"} => Attached \subseteq {Newest}
        /\ launcher.pc \in Provisioning =>
              machines # <<>> /\ machines[Newest].host \in {"blank", "mounted"}

\* A harness runs in a script, a script on a machine; threads only while the
\* harness is at its rows.
Alone ==
    /\ script \in {"off", "pull", "pulled", "refused", "seed"} => harness.pc = "off"
    /\ uploads # {} => harness.pc \in {"rows", "stage2", "stage6"}
    /\ job = "split" /\ script # "off" => InUse # {}
    /\ job = "whole" => machines = <<>> /\ launcher.pc = "stopped"
                        /\ script \in {"off", "seed", "rows"}

\* No row was seeded yet; or Stage 1 is complete and every row was seeded with it.
Unseeded == \A r \in RowIds : dir[r].seeds = NoArtifacts
SeededAlike == Complete(shared) /\ \A r \in RowIds : dir[r].seeds \in {NoArtifacts, shared}
Comparable ==
    /\ Unseeded \/ SeededAlike
    /\ harness.pc = "stage1" => Unseeded
    /\ harness.pc \in {"rows", "stage2", "stage6"} => Complete(shared)
    /\ harness.pc \in {"stage2", "stage6"} =>
          harness.todo # <<>> /\ dir[Row].seeds = shared /\ dir[Row].result = {}

Published == {"bare", "whole"}

\* A row is handled once; what its thread is about to publish stays as it is.
Threads ==
    /\ IsInjective(harness.todo)
    /\ \A t \in uploads :
          /\ t.row \notin ToSet(harness.todo)
          /\ t.phase = "stage2" => dir[t.row].pruned \in Published
          /\ t.phase = "complete" => dir[t.row].result # {}
          /\ t.at = "flag" => IF t.phase = "stage2" THEN bucket.pruned[t.row] \in Published
                              ELSE bucket.result[t.row] = dir[t.row].result

IInv == TypeOK /\ Held /\ Alone /\ Comparable /\ Threads /\ FlagsHonest

----------------------------------------------------------------------------
(* Lemmas on the types                                                     *)

LEMMA TheRows ==
    /\ Table \in Seq(RowIds) /\ IsInjective(Table) /\ SplitRow \in RowIds
    /\ Artifacts \in Nat \ {0}
BY RowsAssumption, SplitAssumption, ArtifactsAssumption DEF RowIds

LEMMA RowIsRow ==
    ASSUME TypeOK, harness.todo # <<>>
    PROVE  Row \in RowIds /\ Tail(harness.todo) \in Seq(RowIds)
<1>1. harness.todo \in Seq(RowIds)
  BY DEF TypeOK, TypeProcess, Processes
<1> QED
  BY <1>1 DEF Row

LEMMA InjectiveTail ==
    ASSUME NEW S, NEW s \in Seq(S), s # <<>>, IsInjective(s)
    PROVE  /\ IsInjective(Tail(s)) /\ Head(s) \notin ToSet(Tail(s))
           /\ ToSet(Tail(s)) \subseteq ToSet(s)
<1>1. Len(s) \in Nat \ {0} /\ DOMAIN s = 1 .. Len(s)
  OBVIOUS
<1>2. DOMAIN Tail(s) = 1 .. Len(s) - 1 /\ \A i \in 1 .. Len(s) - 1 : Tail(s)[i] = s[i + 1]
  BY <1>1
<1>3. \A i, j \in DOMAIN s : s[i] = s[j] => i = j
  BY DEF IsInjective
<1>4. IsInjective(Tail(s))
  BY <1>1, <1>2, <1>3 DEF IsInjective
<1>5. Head(s) \notin ToSet(Tail(s))
  BY <1>1, <1>2, <1>3 DEF ToSet
<1>6. ToSet(Tail(s)) \subseteq ToSet(s)
  BY <1>1, <1>2 DEF ToSet
<1> QED
  BY <1>4, <1>5, <1>6

----------------------------------------------------------------------------
(* What the scripts, the machines and the launcher do to the harness       *)

Unmoved == UNCHANGED <<volume, bucket, process, stage1Runs>>
Killed == HarnessKilled /\ UNCHANGED <<shared, teacher, bucket, stage1Runs>>
Wiped ==
    /\ harness' = NoProcess /\ uploads' = {} /\ UNCHANGED <<volume, stage1Runs>>
    /\ bucket' \in {bucket, Synced}
Fetched ==
    \/ UNCHANGED shared
    \/ ~Complete(shared) /\ \E files \in SUBSET (1 .. Artifacts) : Pull(files)
RowsFetched == UNCHANGED dir \/ \E rows \in SUBSET RowsWanted : PullRows(rows)
Filled ==
    /\ harness.pc = "off" /\ uploads = {} /\ uploads' = {}
    /\ harness' \in {harness, NoProcess} /\ teacher' \in BOOLEAN
    /\ UNCHANGED <<bucket, stage1Runs>> /\ Fetched /\ RowsFetched
Launched ==
    /\ harness.pc \in {"off", "exit"} /\ uploads = {} /\ uploads' = {}
    /\ teacher' \in BOOLEAN /\ UNCHANGED <<bucket, stage1Runs>>
    /\ \E rows \in {<<>>, <<SplitRow>>, Table}, skip, only \in BOOLEAN :
          harness' = Invoked(rows, skip, only)
    /\ Fetched /\ RowsFetched
Renewed ==
    /\ harness.pc = "off" /\ UNCHANGED <<bucket, process, stage1Runs>>
    /\ shared' = NoArtifacts /\ teacher' = FALSE /\ dir' = NoDirs

\* A download leaves a complete Stage 1 as it is.
LEMMA OnlyTheMissing ==
    ASSUME TypeOK, NEW files \in SUBSET (1 .. Artifacts), Pull(files),
           files # {} => ~Complete(shared)
    PROVE  Fetched
<1>1. CASE files = {}
  <2>1. shared' = [i \in 1 .. Artifacts |-> shared[i]]
    BY <1>1 DEF Pull
  <2> QED
    BY <2>1 DEF Fetched, TypeOK, TypeVolume, ArtifactSet
<1>2. CASE files # {}
  BY <1>2 DEF Fetched
<1> QED
  BY <1>1, <1>2

LEMMA SeedFetches ==
    ASSUME TypeOK, SharedPulled \/ SharedTorn \/ Unlisted
    PROVE  Fetched /\ teacher' \in BOOLEAN
<1>1. Wanted \in SUBSET (1 .. Artifacts) /\ (Wanted # {} => ~Complete(shared))
  BY DEF Wanted
<1>2. teacher \in BOOLEAN
  BY DEF TypeOK, TypeVolume
<1>3. teacher' \in BOOLEAN
  BY <1>2 DEF SharedPulled, SharedTorn, Unlisted
<1>4. CASE SharedPulled
  BY <1>1, <1>3, <1>4, OnlyTheMissing DEF SharedPulled
<1>5. CASE SharedTorn
  <2>1. PICK files \in SUBSET Wanted : Pull(files)
    BY <1>5 DEF SharedTorn
  <2> QED
    BY <1>1, <1>3, <2>1, OnlyTheMissing
<1>6. CASE Unlisted
  BY <1>3, <1>6 DEF Unlisted, Fetched
<1> QED
  BY <1>3, <1>4, <1>5, <1>6

LEMMA PrepareFetches == ASSUME TypeOK, Prepare PROVE Fetched
<1>1. Lacking \in SUBSET (1 .. Artifacts) /\ (Lacking # {} => ~Complete(shared))
  BY DEF Lacking, Complete, TypeOK, TypeVolume, ArtifactSet
<1>2. \E files \in SUBSET Lacking : Pull(files)
  BY DEF Prepare
<1> QED
  BY <1>1, <1>2, OnlyTheMissing

LEMMA Effects ==
    ASSUME TypeOK, Held, Alone, [JobsNext]_jobVars
    PROVE  HarnessNext \/ Unmoved \/ Killed \/ Wiped \/ Filled \/ Launched \/ Renewed
<1>1. CASE Container
  BY <1>1 DEF Container
<1>2. CASE Prepare
  <2>1. harness.pc = "off" /\ uploads = {}
    BY <1>2 DEF Prepare, Alone
  <2>2. UNCHANGED <<teacher, dir, bucket, process, stage1Runs>>
    BY <1>2 DEF Prepare
  <2> QED
    BY <1>2, <2>1, <2>2, PrepareFetches DEF Filled, RowsFetched, process, TypeOK, TypeVolume
<1>3. CASE SplitSeed \/ WholeSeed \/ SplitSeedFails \/ WholeSeedFails
  <2>1. harness.pc = "off" /\ uploads = {}
    BY <1>3 DEF SplitSeed, WholeSeed, SplitSeedFails, WholeSeedFails, Alone
  <2>2. Fetched /\ teacher' \in BOOLEAN
    BY <1>3, SeedFetches DEF SplitSeed, WholeSeed, SplitSeedFails, WholeSeedFails
  <2>3. UNCHANGED <<bucket, stage1Runs>>
    BY <1>3 DEF SplitSeed, WholeSeed, SplitSeedFails, WholeSeedFails, Finish
  <2>4. CASE SplitSeed
    <3>1. harness' = Invoked(<<>>, FALSE, TRUE) /\ UNCHANGED <<dir, uploads>>
      BY <2>4 DEF SplitSeed
    <3> QED
      BY <2>1, <2>2, <2>3, <3>1 DEF Launched, RowsFetched
  <2>5. CASE WholeSeed
    <3>1. harness' = Invoked(Table, FALSE, FALSE) /\ UNCHANGED uploads
      BY <2>5 DEF WholeSeed
    <3>2. RowsFetched
      BY <2>5 DEF WholeSeed, RowsFetched
    <3> QED
      BY <2>1, <2>2, <2>3, <3>1, <3>2 DEF Launched
  <2>6. CASE SplitSeedFails
    <3>1. harness' = NoProcess /\ uploads' = {} /\ UNCHANGED dir
      BY <2>6 DEF SplitSeedFails, Finish
    <3> QED
      BY <2>1, <2>2, <2>3, <3>1 DEF Filled, RowsFetched
  <2>7. CASE WholeSeedFails
    <3>1. RowsFetched /\ UNCHANGED process
      BY <2>7 DEF WholeSeedFails, RowsFetched
    <3> QED
      BY <2>1, <2>2, <2>3, <3>1 DEF Filled, process
  <2> QED
    BY <1>3, <2>4, <2>5, <2>6, <2>7
<1>4. CASE RunRow
  <2>1. /\ harness.pc = "exit" /\ uploads = {} /\ uploads' = {}
        /\ UNCHANGED <<volume, bucket, stage1Runs>>
    BY <1>4 DEF RunRow, Alone
  <2>2. PICK m \in InUse : harness' = Invoked(<<SplitRow>>, machines[m].phase = "stage2", FALSE)
    BY <1>4 DEF RunRow
  <2> DEFINE skip == machines[m].phase = "stage2"
  <2>3. skip \in BOOLEAN
    OBVIOUS
  <2>4. harness' = Invoked(<<SplitRow>>, skip, FALSE)
    BY <2>2
  <2> HIDE DEF skip
  <2>5. \E rows \in {<<>>, <<SplitRow>>, Table}, s, only \in BOOLEAN :
           harness' = Invoked(rows, s, only)
    BY <2>3, <2>4
  <2> QED
    BY <2>1, <2>5 DEF Launched, Fetched, RowsFetched, volume, TypeOK, TypeVolume
<1>5. CASE ScriptEnds
  <2>1. harness' = NoProcess /\ uploads' = {} /\ UNCHANGED <<bucket, stage1Runs>>
    BY <1>5 DEF ScriptEnds, Finish
  <2> QED
    BY <1>5, <2>1 DEF ScriptEnds, Wiped
<1>6. CASE WholeEnds
  <2>1. uploads = {}
    BY <1>6 DEF WholeEnds, Alone
  <2> QED
    BY <1>6, <2>1 DEF WholeEnds, Wiped
<1>7. CASE WholeKilled
  BY <1>7 DEF WholeKilled, Killed
<1>8. CASE Bootstrap
  <2>1. PICK m \in DOMAIN machines : Boot(m) \/ BootFails(m)
    BY <1>8 DEF Bootstrap
  <2>2. CASE BootFails(m)
    BY <2>2 DEF BootFails, Unmoved
  <2>3. CASE Boot(m)
    <3>1. InUse = {} /\ machines # <<>>
      BY <2>3 DEF Boot, InUse, Held, OneMachine
    <3>2. script = "off"
      BY <3>1 DEF Alone, TypeOK, TypeControl
    <3>3. uploads = {}
      BY <3>2 DEF Alone
    <3> QED
      BY <2>3, <3>3 DEF Boot, Wiped
  <2> QED
    BY <2>1, <2>2, <2>3
<1>9. CASE StartPhases \/ Check \/ Create \/ Provision \/ PollFailure \/ Interrupted
           \/ UNCHANGED jobVars
  BY <1>9 DEF StartPhases, Check, Create, Provision, PollFailure, Interrupted, Unmoved, harnessVars,
              jobVars
<1>11. CASE StartWhole
  <2>1. harness.pc = "off" /\ UNCHANGED <<bucket, process, stage1Runs>>
    BY <1>11 DEF StartWhole, Alone
  <2> QED
    BY <1>11, <2>1 DEF StartWhole, Unmoved, Renewed
<1>10. CASE ProvisionFails \/ PollDone \/ PollTimeout \/ Teardown
  <2>1. \A m : Stop(m) => Unmoved \/ Killed
    BY DEF Stop, Unmoved, Killed, volume, process
  <2>2. Stay => Unmoved
    BY DEF Stay, Unmoved
  <2> QED
    BY <1>10, <2>1, <2>2 DEF ProvisionFails, PollDone, PollTimeout, Teardown, TearDown
<1> QED
  BY <1>1, <1>2, <1>3, <1>4, <1>5, <1>6, <1>7, <1>8, <1>9, <1>10, <1>11 DEF JobsNext, LauncherNext

----------------------------------------------------------------------------
(* Types                                                                   *)

LEMMA SeededTyped ==
    ASSUME TypeOK, NEW seeds \in ArtifactSet
    PROVE  Seeded(seeds) \in ArtifactSet
BY DEF Seeded, ArtifactSet, TypeOK, TypeVolume

LEMMA LandedTyped ==
    ASSUME TypeOK, harness.todo # <<>>, NEW phase \in PhaseNames, NEW cached, Landed(phase, cached)
    PROVE  /\ harness'.pc = "rows" /\ harness'.todo = Tail(harness.todo)
           /\ harness' \in Processes
           /\ Thread(Row, phase) \in UploadThreads
           /\ \/ UNCHANGED uploads
              \/ uploads' = uploads \cup {Thread(Row, phase)}
<1>1. Row \in RowIds /\ Tail(harness.todo) \in Seq(RowIds) /\ harness \in Processes
  BY RowIsRow DEF TypeOK, TypeProcess
<1>2. Thread(Row, phase) \in UploadThreads
  BY <1>1 DEF Thread, UploadThreads
<1>3. CASE Row = Baseline /\ ~cached
  <2>1. harness' = [harness EXCEPT !.pc = "rows", !.todo = Tail(@), !.done = @ \cup {Row},
                                   !.failed = @ \cup {Row}]
        /\ UNCHANGED uploads
    BY <1>3 DEF Landed
  <2>2. harness' \in Processes /\ harness'.pc = "rows" /\ harness'.todo = Tail(harness.todo)
    BY <1>1, <2>1 DEF Processes
  <2> QED
    BY <1>2, <2>1, <2>2
<1>4. CASE ~(Row = Baseline /\ ~cached)
  <2>1. /\ harness' = [harness EXCEPT !.pc = "rows", !.todo = Tail(@), !.done = @ \cup {Row},
                                      !.first = FALSE]
        /\ uploads' = uploads \cup {Thread(Row, phase)}
    BY <1>4 DEF Landed
  <2>2. harness' \in Processes /\ harness'.pc = "rows" /\ harness'.todo = Tail(harness.todo)
    BY <1>1, <2>1 DEF Processes
  <2> QED
    BY <1>2, <2>1, <2>2
<1> QED
  BY <1>3, <1>4

LEMMA Blank == NoProcess \in Processes /\ EmptyDir.seeds = NoArtifacts /\ NoArtifacts \in ArtifactSet
<1>1. <<>> \in Seq(RowIds)
  OBVIOUS
<1> QED
  BY <1>1 DEF NoProcess, Processes, EmptyDir, NoArtifacts, ArtifactSet

LEMMA InvokedTyped ==
    ASSUME NEW rows \in {<<>>, <<SplitRow>>, Table}, NEW skip \in BOOLEAN, NEW only \in BOOLEAN
    PROVE  /\ Invoked(rows, skip, only) \in Processes
           /\ Invoked(rows, skip, only).pc = "preflight"
           /\ Invoked(rows, skip, only).todo = rows /\ IsInjective(rows)
<1>1. rows \in Seq(RowIds) /\ IsInjective(rows)
  <2>1. CASE rows = Table
    BY <2>1, TheRows
  <2>2. CASE rows = <<>>
    BY <2>2 DEF IsInjective
  <2>3. CASE rows = <<SplitRow>>
    <3>1. rows \in Seq(RowIds) /\ DOMAIN rows = {1}
      BY <2>3, TheRows
    <3> QED
      BY <3>1 DEF IsInjective
  <2> QED
    BY <2>1, <2>2, <2>3
<1> QED
  BY <1>1 DEF Invoked, NoProcess, Processes

\* What a process leaves of a row is a row, with the same seeds, result and flags.
SameRow(d, e) == e.seeds = d.seeds /\ e.result = d.result /\ e.flags = d.flags

LEMMA UnfinishedLike ==
    ASSUME NEW d \in RowDirs, NEW e \in Unfinished(d)
    PROVE  e \in RowDirs /\ SameRow(d, e)
<1>1. CASE e = d
  BY <1>1 DEF SameRow
<1>2. CASE e # d
  <2>1. d.final = "none"
    BY <1>2 DEF Unfinished
  <2>2. \E p, f \in Models : /\ e = [d EXCEPT !.pruned = p, !.final = f]
                             /\ f # "none" => p = "whole"
    <3>1. ASSUME NEW p \in Models, e = [d EXCEPT !.pruned = p]
          PROVE  e = [d EXCEPT !.pruned = p, !.final = "none"]
      BY <2>1, <3>1 DEF RowDirs
    <3>2. ASSUME NEW f \in Models, e = [d EXCEPT !.pruned = "whole", !.final = f]
          PROVE  \E p, g \in Models : /\ e = [d EXCEPT !.pruned = p, !.final = g]
                                      /\ g # "none" => p = "whole"
      BY <3>2 DEF Models
    <3>3. \/ \E p \in Models : e = [d EXCEPT !.pruned = p]
          \/ \E f \in Models : e = [d EXCEPT !.pruned = "whole", !.final = f]
      BY <1>2 DEF Unfinished, Models
    <3>4. "none" \in Models
      BY DEF Models
    <3> QED
      BY <3>1, <3>2, <3>3, <3>4
  <2> QED
    BY <2>2 DEF RowDirs, SameRow
<1> QED
  BY <1>1, <1>2

LEMMA AdvancedLike ==
    ASSUME NEW d \in RowDirs, harness.skip \in BOOLEAN
    PROVE  Advanced(d) \in RowDirs /\ SameRow(d, Advanced(d)) /\ Advanced(d).pruned = "whole"
<1>1. CASE d.final # "none"
  BY <1>1 DEF Advanced, RowDirs, SameRow
<1>2. CASE d.final = "none"
  <2>1. PICK f \in Models : Advanced(d) = [d EXCEPT !.pruned = "whole", !.final = f]
    BY <1>2 DEF Advanced, Models
  <2> QED
    BY <2>1 DEF RowDirs, SameRow, Models
<1> QED
  BY <1>1, <1>2

\* Of a row that is in the middle of Stage 2; of the others nothing changes.
LEMMA RowLeft ==
    ASSUME TypeOK, NEW d, harness.todo # <<>>, d \in Unfinished(dir[Row]),
           dir' = [dir EXCEPT ![Row] = d]
    PROVE  /\ dir' \in [RowIds -> RowDirs] /\ \A r \in RowIds : SameRow(dir[r], dir'[r])
           /\ \A r \in RowIds \ {Row} : dir'[r] = dir[r]
<1>1. Row \in RowIds /\ dir \in [RowIds -> RowDirs]
  BY RowIsRow DEF TypeOK, TypeVolume
<1>2. d \in RowDirs /\ SameRow(dir[Row], d)
  BY <1>1, UnfinishedLike
<1> QED
  BY <1>1, <1>2 DEF SameRow

LEMMA KilledLeaves ==
    ASSUME TypeOK, Comparable, HarnessKilled
    PROVE  dir' \in [RowIds -> RowDirs] /\ \A r \in RowIds : SameRow(dir[r], dir'[r])
<1>1. CASE harness.pc = "stage2"
  <2>1. harness.todo # <<>>
    BY <1>1 DEF Comparable
  <2>2. PICK d \in Unfinished(dir[Row]) : dir' = [dir EXCEPT ![Row] = d]
    BY <1>1 DEF HarnessKilled
  <2> QED
    BY <2>1, <2>2, RowLeft
<1>2. CASE harness.pc # "stage2"
  BY <1>2 DEF HarnessKilled, SameRow, TypeOK, TypeVolume
<1> QED
  BY <1>1, <1>2

LEMMA KilledTyped == ASSUME TypeOK, Comparable, Killed PROVE TypeVolume' /\ TypeProcess'
<1>1. TypeProcess'
  BY Blank DEF Killed, HarnessKilled, TypeProcess, TypeOK
<1>2. TypeVolume'
  BY KilledLeaves DEF Killed, TypeOK, TypeVolume
<1> QED
  BY <1>1, <1>2

LEMMA HarnessTyped == ASSUME TypeOK, Comparable, HarnessNext PROVE TypeVolume' /\ TypeProcess'
<1> USE DEF TypeOK, TypeVolume, TypeProcess
<1>1. CASE Preflight \/ DeriveFails \/ Exit \/ UploadFails
  <2>1. TypeVolume'
    BY <1>1 DEF Preflight, DeriveFails, Exit, UploadFails, volume
  <2>2. harness' \in Processes
    <3>1. CASE Preflight \/ DeriveFails \/ UploadFails
      BY <3>1 DEF Preflight, DeriveFails, UploadFails, Processes
    <3>2. CASE Exit
      <4> DEFINE ok == harness.failed = {}
      <4>1. ok \in BOOLEAN
        OBVIOUS
      <4>2. harness' = [harness EXCEPT !.pc = "exit", !.ok = ok]
        BY <3>2 DEF Exit
      <4> HIDE DEF ok
      <4> QED
        BY <4>1, <4>2 DEF Processes
    <3> QED
      BY <1>1, <3>1, <3>2
  <2>3. uploads' \in SUBSET UploadThreads /\ stage1Runs' \in Nat \ {0}
    BY <1>1 DEF Preflight, DeriveFails, Exit, UploadFails
  <2> QED
    BY <2>1, <2>2, <2>3
<1>2. CASE Derive
  <2>1. shared' \in ArtifactSet
    BY <1>2 DEF Derive, ArtifactSet
  <2>2. harness' \in Processes
    BY <1>2 DEF Derive, Processes
  <2> QED
    BY <1>2, <2>1, <2>2 DEF Derive
<1>3. CASE LoadResult
  <2>1. harness' \in Processes /\ uploads' \in SUBSET UploadThreads
    BY <1>3, LandedTyped DEF LoadResult, PhaseNames
  <2> QED
    BY <1>3, <2>1 DEF LoadResult, volume
<1>4. CASE KeepStageTwo
  <2>1. harness' \in Processes /\ uploads' \in SUBSET UploadThreads
    BY <1>4, LandedTyped DEF KeepStageTwo, PhaseNames
  <2> QED
    BY <1>4, <2>1 DEF KeepStageTwo, volume
<1>5. CASE BeginRow
  <2>1. harness' \in Processes
    BY <1>5 DEF BeginRow, Processes
  <2>2. Row \in RowIds
    BY <1>5, RowIsRow DEF BeginRow
  <2>3. Seeded(dir[Row].seeds) \in ArtifactSet
    BY <2>2, SeededTyped DEF RowDirs
  <2>4. dir' = [dir EXCEPT ![Row].seeds = Seeded(dir[Row].seeds)]
    BY <1>5, <2>2 DEF BeginRow
  <2> QED
    BY <1>5, <2>1, <2>2, <2>3, <2>4 DEF BeginRow, RowDirs
<1>6. CASE StageTwo
  <2>1. harness.todo # <<>> /\ Row \in RowIds
    BY <1>6, RowIsRow DEF StageTwo, Comparable
  <2>2. harness' \in Processes /\ uploads' \in SUBSET UploadThreads
    <3>1. CASE harness.skip
      BY <1>6, <2>1, <3>1, LandedTyped DEF StageTwo, PhaseNames
    <3>2. CASE ~harness.skip
      BY <1>6, <3>2 DEF StageTwo, Processes
    <3> QED
      BY <3>1, <3>2
  <2>3. Advanced(dir[Row]) \in RowDirs
    BY <2>1, AdvancedLike DEF Processes
  <2>4. dir' = [dir EXCEPT ![Row] = Advanced(dir[Row])]
    BY <1>6, <2>1 DEF StageTwo
  <2> QED
    BY <1>6, <2>2, <2>3, <2>4 DEF StageTwo
<1>7. CASE StageTwoFails \/ StageTwoRefuses \/ StageSixFails
  <2>1. harness.todo # <<>> /\ Row \in RowIds /\ Tail(harness.todo) \in Seq(RowIds)
    BY <1>7, RowIsRow DEF StageTwoFails, StageTwoRefuses, StageSixFails, Comparable
  <2>2. harness' = [harness EXCEPT !.pc = "rows", !.todo = Tail(@), !.failed = @ \cup {Row}]
    BY <1>7 DEF StageTwoFails, StageTwoRefuses, StageSixFails, Failed
  <2>3. harness' \in Processes
    BY <2>1, <2>2 DEF Processes
  <2>4. TypeVolume'
    <3>1. CASE StageSixFails \/ StageTwoRefuses
      BY <3>1 DEF StageSixFails, StageTwoRefuses, volume
    <3>2. CASE StageTwoFails
      BY <2>1, <3>2, RowLeft DEF StageTwoFails
    <3> QED
      BY <1>7, <3>1, <3>2
  <2> QED
    BY <1>7, <2>3, <2>4 DEF StageTwoFails, StageTwoRefuses, StageSixFails
<1>8. CASE StageSix
  <2>1. harness.todo # <<>> /\ Row \in RowIds
    BY <1>8, RowIsRow DEF StageSix, Comparable
  <2>2. harness' \in Processes /\ uploads' \in SUBSET UploadThreads
    BY <1>8, <2>1, LandedTyped DEF StageSix, PhaseNames
  <2>3. ToSet(dir[Row].seeds) \in Results
    <3>1. dir[Row].seeds = shared /\ Complete(shared)
      BY <1>8 DEF StageSix, Comparable
    <3>2. shared \in [1 .. Artifacts -> Nat] /\ \A i \in 1 .. Artifacts : shared[i] # 0
      BY <3>1 DEF Complete, ArtifactSet
    <3> QED
      BY <3>1, <3>2 DEF ToSet, Results
  <2>4. teacher' \in BOOLEAN
    BY <1>8 DEF StageSix
  <2>5. dir' = [dir EXCEPT ![Row].result = ToSet(dir[Row].seeds)]
    BY <1>8 DEF StageSix
  <2>6. TypeVolume'
    BY <1>8, <2>1, <2>3, <2>4, <2>5 DEF StageSix, RowDirs
  <2> QED
    BY <1>8, <2>2, <2>6 DEF StageSix
<1>9. CASE Upload
  <2>1. PICK t \in uploads : Send(t)
    BY <1>9 DEF Upload
  <2>2. t \in UploadThreads /\ t.row \in RowIds /\ t.phase \in PhaseNames
    BY <2>1 DEF UploadThreads
  <2>3. CASE t.at = "shared"
    <3>1. [t EXCEPT !.at = "artifact"] \in UploadThreads
      BY <2>2 DEF UploadThreads
    <3> QED
      BY <1>9, <2>1, <2>2, <2>3, <3>1 DEF Send, Upload, Buckets
  <2>4. CASE t.at = "artifact"
    <3>1. [t EXCEPT !.at = "flag"] \in UploadThreads
      BY <2>2 DEF UploadThreads
    <3>2. bucket' \in Buckets
      <4>1. dir[t.row].pruned \in Models /\ dir[t.row].result \in Results
        BY <2>2 DEF RowDirs
      <4>2. bucket' = [bucket EXCEPT !.pruned = [@ EXCEPT ![t.row] = dir[t.row].pruned]]
            \/ bucket' = [bucket EXCEPT !.result = [@ EXCEPT ![t.row] = dir[t.row].result]]
        BY <2>1, <2>4 DEF Send
      <4> QED
        BY <2>2, <4>1, <4>2 DEF Buckets
    <3>3. TypeVolume'
      BY <1>9, <2>1, <2>4, <3>2 DEF Send, Upload
    <3> QED
      BY <1>9, <2>1, <2>2, <2>4, <3>1, <3>3 DEF Send, Upload
  <2>5. CASE t.at = "flag"
    <3>1. TypeVolume'
      BY <1>9, <2>1, <2>2, <2>5 DEF Send, Upload, RowDirs
    <3> QED
      BY <1>9, <2>1, <2>2, <2>5, <3>1 DEF Send, Upload
  <2> QED
    BY <2>2, <2>3, <2>4, <2>5 DEF UploadThreads
<1> QED
  BY <1>1, <1>2, <1>3, <1>4, <1>5, <1>6, <1>7, <1>8, <1>9 DEF HarnessNext

\* What the downloads leave.
LEMMA Pulled ==
    ASSUME TypeOK, Fetched, RowsFetched
    PROVE  /\ shared' \in ArtifactSet /\ dir' \in [RowIds -> RowDirs]
           /\ shared' = shared \/ ~Complete(shared)
           /\ \A r \in RowIds : /\ dir'[r].seeds = dir[r].seeds /\ dir'[r].flags = dir[r].flags
                                /\ dir[r].result # {} => dir'[r].result = dir[r].result
<1>0. /\ shared \in ArtifactSet /\ dir \in [RowIds -> RowDirs] /\ bucket.shared \in ArtifactSet
      /\ bucket.result \in [RowIds -> Results]
  BY DEF TypeOK, TypeVolume, Buckets
<1>1. shared' \in ArtifactSet /\ (shared' = shared \/ ~Complete(shared))
  BY <1>0 DEF Fetched, Pull, ArtifactSet
<1>2. CASE UNCHANGED dir
  BY <1>0, <1>1, <1>2
<1>3. ASSUME NEW rows \in SUBSET RowsWanted, PullRows(rows)
      PROVE  /\ dir' \in [RowIds -> RowDirs]
             /\ \A r \in RowIds : /\ dir'[r].seeds = dir[r].seeds /\ dir'[r].flags = dir[r].flags
                                  /\ dir[r].result # {} => dir'[r].result = dir[r].result
  <2>1. ASSUME NEW r \in RowIds
        PROVE  /\ [dir[r] EXCEPT !.result = bucket.result[r]] \in RowDirs
               /\ [dir[r] EXCEPT !.result = bucket.result[r]].seeds = dir[r].seeds
               /\ [dir[r] EXCEPT !.result = bucket.result[r]].flags = dir[r].flags
    BY <1>0 DEF RowDirs
  <2>2. \A r \in rows : dir[r].result = {}
    BY DEF RowsWanted
  <2> QED
    BY <1>0, <1>3, <2>1, <2>2 DEF PullRows
<1> QED
  BY <1>1, <1>2, <1>3 DEF RowsFetched

LEMMA NewVolume == NoArtifacts \in ArtifactSet /\ NoDirs \in [RowIds -> RowDirs]
<1>1. NoArtifacts \in ArtifactSet
  BY Blank
<1>2. EmptyDir \in RowDirs
  BY <1>1 DEF EmptyDir, RowDirs, Models, Results
<1> QED
  BY <1>1, <1>2 DEF NoDirs

LEMMA StateTyped ==
    ASSUME TypeOK, Held, Alone, Comparable, [JobsNext]_jobVars
    PROVE  TypeVolume' /\ TypeProcess'
<1> USE DEF TypeOK, TypeVolume, TypeProcess
<1>1. CASE Unmoved
  BY <1>1 DEF Unmoved, volume, process
<1>2. CASE Wiped
  <2>1. TypeProcess'
    BY <1>2, Blank DEF Wiped
  <2>2. bucket' \in Buckets
    <3> DEFINE results == [r \in RowIds |-> IF dir[r].result # {} THEN dir[r].result
                                            ELSE bucket.result[r]]
               cached == bucket.teacher \/ teacher
    <3>1. results \in [RowIds -> Results] /\ cached \in BOOLEAN
      BY DEF RowDirs, Buckets
    <3>2. Synced = [bucket EXCEPT !.shared = shared, !.teacher = cached, !.result = results]
      BY DEF Synced
    <3> HIDE DEF results, cached
    <3>3. Synced \in Buckets
      BY <3>1, <3>2 DEF Buckets
    <3> QED
      BY <1>2, <3>3 DEF Wiped
  <2> QED
    BY <1>2, <2>1, <2>2 DEF Wiped, volume
<1>3. CASE Filled
  <2>1. harness' \in Processes
    BY <1>3, Blank DEF Filled
  <2> QED
    BY <1>3, <2>1, Pulled DEF Filled
<1>4. CASE Launched
  <2>1. TypeProcess'
    <3>1. PICK rows \in {<<>>, <<SplitRow>>, Table}, skip \in BOOLEAN, only \in BOOLEAN :
                 harness' = Invoked(rows, skip, only)
      BY <1>4 DEF Launched
    <3> QED
      BY <1>4, <3>1, InvokedTyped DEF Launched
  <2>2. TypeVolume'
    BY <1>4, Pulled DEF Launched
  <2> QED
    BY <2>1, <2>2
<1>5. CASE Renewed
  BY <1>5, NewVolume DEF Renewed, process
<1> QED
  BY <1>1, <1>2, <1>3, <1>4, <1>5, Effects, KilledTyped, HarnessTyped

----------------------------------------------------------------------------
(* The rental: one machine, and a harness that is alone                    *)

LEMMA ControlTyped == ASSUME TypeOK, [JobsNext]_jobVars PROVE TypeControl'
<1> USE DEF TypeOK, TypeControl
<1>1. job' = job
  BY DEF JobsNext, Container, Prepare, SplitSeed, SplitSeedFails, RunRow, ScriptEnds, Finish,
         StartWhole, WholeSeed, WholeSeedFails, WholeEnds, WholeKilled,
         Bootstrap, Boot, BootFails, StartPhases, LauncherNext, Check, Create, Provision,
         ProvisionFails, PollDone, PollFailure, PollTimeout, Interrupted, Teardown, jobVars
<1>2. faults' = faults \/ Fault
  <2>1. HarnessNext => faults' = faults \/ Fault
    BY DEF HarnessNext, Preflight, Derive, DeriveFails, LoadResult, KeepStageTwo, BeginRow, StageTwo,
           StageTwoRefuses, StageTwoFails, StageSix, StageSixFails, Upload, UploadFails, Exit
  <2>2. LauncherNext => faults' = faults \/ Fault
    BY DEF LauncherNext, Check, Create, Provision, ProvisionFails, PollDone, PollFailure, PollTimeout,
           TearDown, harnessVars
  <2> QED
    BY <2>1, <2>2 DEF JobsNext, Container, Prepare, SplitSeed, SplitSeedFails, RunRow, ScriptEnds,
         StartWhole, WholeSeed, WholeSeedFails, WholeEnds, WholeKilled,
         Bootstrap, Boot, BootFails, StartPhases, Interrupted, Teardown, jobVars,
         harnessVars
<1>3. script' = script \/ script' \in {"off", "pull", "pulled", "refused", "seed", "preflight", "row", "rows"}
  <2>1. \A m : Stop(m) => script' \in {script, "off"}
    BY DEF Stop
  <2>2. LauncherNext \/ Teardown => script' \in {script, "off"}
    BY <2>1 DEF LauncherNext, Check, Create, Provision, ProvisionFails, PollDone, PollFailure, PollTimeout,
           TearDown, Stay, Teardown
  <2> QED
    BY <2>2 DEF JobsNext, Container, Prepare, SplitSeed, SplitSeedFails, RunRow, ScriptEnds, Finish,
         StartWhole, WholeSeed, WholeSeedFails, WholeEnds, WholeKilled,
         Bootstrap, Boot, BootFails, StartPhases, Interrupted, jobVars
<1> QED
  BY <1>1, <1>2, <1>3 DEF Fault

LEMMA HostChanged ==
    ASSUME TypeOK, NEW m \in DOMAIN machines,
           NEW h \in {"blank", "mounted", "booting", "running", "dead", "done"},
           \/ machines' = [machines EXCEPT ![m].host = h]
           \/ \E rc \in {0, 1} : machines' = [machines EXCEPT ![m].host = h, ![m].rc = rc]
    PROVE  /\ machines' \in Seq(Machines)
           /\ Newest' = Newest /\ DOMAIN machines' = DOMAIN machines /\ machines' # <<>>
           /\ Attached' = Attached /\ machines'[m].host = h
           /\ \A n \in DOMAIN machines : /\ machines'[n].up = machines[n].up
                                         /\ n # m => machines'[n] = machines[n]
<1>1. machines \in Seq(Machines)
  BY DEF TypeOK, TypeRental
<1>2. PICK v \in Machines : /\ machines' = [machines EXCEPT ![m] = v]
                            /\ v.host = h /\ v.up = machines[m].up
  <2>1. machines[m] \in Machines
    BY <1>1
  <2>2. CASE machines' = [machines EXCEPT ![m].host = h]
    <3> DEFINE v == [machines[m] EXCEPT !.host = h]
    <3>1. v \in Machines /\ v.host = h /\ v.up = machines[m].up
      BY <2>1 DEF Machines
    <3>2. machines' = [machines EXCEPT ![m] = v]
      BY <2>2
    <3> HIDE DEF v
    <3> QED
      BY <3>1, <3>2
  <2>3. ASSUME NEW rc \in {0, 1}, machines' = [machines EXCEPT ![m].host = h, ![m].rc = rc]
        PROVE  \E v \in Machines : /\ machines' = [machines EXCEPT ![m] = v]
                                   /\ v.host = h /\ v.up = machines[m].up
    <3> DEFINE v == [machines[m] EXCEPT !.host = h, !.rc = rc]
    <3>1. v \in Machines /\ v.host = h /\ v.up = machines[m].up
      BY <2>1 DEF Machines
    <3>2. machines' = [machines EXCEPT ![m] = v]
      BY <1>1, <2>1, <2>3 DEF Machines
    <3> HIDE DEF v
    <3> QED
      BY <3>1, <3>2
  <2> QED
    BY <2>2, <2>3
<1>3. /\ machines' \in Seq(Machines)
      /\ Newest' = Newest /\ DOMAIN machines' = DOMAIN machines /\ machines' # <<>>
  BY <1>1, <1>2 DEF Newest
<1>4. /\ machines'[m].host = h
      /\ \A n \in DOMAIN machines : /\ machines'[n].up = machines[n].up
                                    /\ n # m => machines'[n] = machines[n]
  BY <1>1, <1>2
<1>5. Attached' = Attached
  BY <1>3, <1>4 DEF Attached
<1> QED
  BY <1>3, <1>4, <1>5

LEMMA Stopped ==
    ASSUME TypeOK, NEW m, Stop(m)
    PROVE  /\ machines' \in Seq(Machines)
           /\ Newest' = Newest /\ Attached' = Attached \ {m} /\ DOMAIN machines' = DOMAIN machines
           /\ \A n \in DOMAIN machines : machines'[n].host = machines[n].host
           /\ InUse' = InUse \ {m}
<1>1. machines \in Seq(Machines)
  BY DEF TypeOK, TypeRental
<1>2. machines' = [machines EXCEPT ![m].up = FALSE]
  BY DEF Stop
<1>3. machines' \in Seq(Machines) /\ Newest' = Newest /\ DOMAIN machines' = DOMAIN machines
  <2>1. CASE m \in DOMAIN machines
    <3> DEFINE v == [machines[m] EXCEPT !.up = FALSE]
    <3>0. machines[m] \in Machines
      BY <1>1, <2>1
    <3>1. v \in Machines
      BY <3>0 DEF Machines
    <3>2. machines' = [machines EXCEPT ![m] = v]
      BY <1>2
    <3> HIDE DEF v
    <3> QED
      BY <1>1, <2>1, <3>1, <3>2 DEF Newest
  <2>2. CASE m \notin DOMAIN machines
    <3>1. machines = [n \in DOMAIN machines |-> machines[n]]
      BY <1>1
    <3>2. machines' = [n \in DOMAIN machines |-> machines[n]]
      BY <1>2, <2>2
    <3> QED
      BY <1>1, <3>1, <3>2 DEF Newest
  <2> QED
    BY <2>1, <2>2
<1>4. \A n \in DOMAIN machines : /\ machines'[n].host = machines[n].host
                                 /\ machines'[n].up <=> machines[n].up /\ n # m
  BY <1>1, <1>2 DEF Machines
<1> QED
  BY <1>3, <1>4 DEF Attached, InUse

LEMMA LauncherEnded ==
    ASSUME TypeOK, NEW outcome \in {"refused", "failed", "lost", "done", "kept", "diagnose",
                                    "interrupted"}
    PROVE  /\ End(launcher, outcome) \in Launchers
           /\ End(launcher, outcome).pc = "stopped" /\ End(launcher, outcome).outcome = outcome
           /\ End(launcher, outcome).clean = launcher.clean
BY DEF End, TypeOK, TypeRental, Launchers

\* What Held asks for, by the set of attached machines.
LEMMA HeldNext ==
    ASSUME \A m, n \in Attached' : m = n,
           \/ launcher'.pc # "stopped" \/ launcher'.outcome \notin {"failed", "done"}
           \/ ~launcher'.clean \/ Attached' = {},
           launcher'.pc = "create" => Attached' = {},
           launcher'.pc \in Provisioning \cup {"poll"} => Attached' \subseteq {Newest'},
           launcher'.pc \in Provisioning =>
              machines' # <<>> /\ machines'[Newest'].host \in {"blank", "mounted"}
    PROVE  Held'
<1>1. OneMachine'
  BY DEF OneMachine, Attached
<1>2. NothingLeft'
  BY DEF NothingLeft, Attached
<1> QED
  BY <1>1, <1>2 DEF Held

LEMMA HeldNow ==
    ASSUME Held
    PROVE  /\ \A m, n \in Attached : m = n
           /\ \/ launcher.pc # "stopped" \/ launcher.outcome \notin {"failed", "done"}
              \/ ~launcher.clean \/ Attached = {}
           /\ launcher.pc = "create" => Attached = {}
           /\ launcher.pc \in Provisioning \cup {"poll"} => Attached \subseteq {Newest}
           /\ launcher.pc \in Provisioning =>
                 machines # <<>> /\ machines[Newest].host \in {"blank", "mounted"}
<1>1. \A m, n \in Attached : m = n
  BY DEF Held, OneMachine, Attached
<1>2. \/ launcher.pc # "stopped" \/ launcher.outcome \notin {"failed", "done"}
      \/ ~launcher.clean \/ Attached = {}
  BY DEF Held, NothingLeft, Attached
<1> QED
  BY <1>1, <1>2 DEF Held

LEMMA TornDown ==
    ASSUME TypeOK, Held, launcher.pc \in Provisioning \cup {"poll"}, NEW next \in Launchers,
           next.pc \in {"stopped", "check"}, next.pc # "stopped" => next.plan # <<>>,
           TearDown(next)
    PROVE  /\ machines' \in Seq(Machines) /\ launcher' \in Launchers
           /\ launcher'.pc # "stopped" => launcher'.plan # <<>>
           /\ Held'
<1>1. Attached \subseteq {Newest} /\ \A m, n \in Attached : m = n
  BY HeldNow
<1>2. CASE Stop(Newest) /\ launcher' = next
  <2>1. machines' \in Seq(Machines) /\ Attached' = {}
    BY <1>1, <1>2, Stopped
  <2> QED
    BY <1>2, <2>1, HeldNext DEF Provisioning
<1>3. CASE Stay /\ launcher' = [next EXCEPT !.clean = FALSE]
  <2>1. /\ launcher' \in Launchers /\ launcher'.pc = next.pc /\ launcher'.plan = next.plan
        /\ ~launcher'.clean
    BY <1>3 DEF Launchers
  <2>2. machines' = machines /\ Attached' = Attached
    BY <1>3 DEF Stay, Attached
  <2>3. Held'
    BY <1>1, <2>1, <2>2, HeldNext DEF Provisioning
  <2> QED
    BY <2>1, <2>2, <2>3 DEF TypeOK, TypeRental
<1> QED
  BY <1>2, <1>3 DEF TearDown

LEMMA RentalStep == ASSUME TypeOK, Held, Alone, [JobsNext]_jobVars PROVE TypeRental' /\ Held'
<1> USE DEF TypeOK, TypeRental
<1>1. CASE UNCHANGED <<launcher, machines, sessions, flag>>
  BY <1>1 DEF Held, OneMachine, NothingLeft, Attached, Newest
<1>2. CASE Container \/ Prepare \/ SplitSeed \/ RunRow \/ WholeSeed \/ WholeSeedFails \/ WholeEnds
           \/ WholeKilled \/ UNCHANGED jobVars
  BY <1>1, <1>2 DEF Container, Prepare, SplitSeed, RunRow, WholeSeed, WholeSeedFails, WholeEnds,
                    WholeKilled, rental, jobVars
<1>3. ASSUME NEW m \in DOMAIN machines,
             NEW h \in {"mounted", "booting", "running", "dead", "done"},
             \/ machines' = [machines EXCEPT ![m].host = h]
             \/ \E rc \in {0, 1} : machines' = [machines EXCEPT ![m].host = h, ![m].rc = rc],
             UNCHANGED launcher,
             machines[m].host \in {"booting", "running"}
      PROVE  machines' \in Seq(Machines) /\ Held'
  <2>1. /\ machines' \in Seq(Machines)
        /\ Newest' = Newest /\ DOMAIN machines' = DOMAIN machines /\ machines' # <<>>
        /\ Attached' = Attached
        /\ \A n \in DOMAIN machines : n # m => machines'[n] = machines[n]
    BY <1>3, HostChanged
  <2>2. launcher.pc \in Provisioning =>
           machines # <<>> /\ machines[Newest].host \in {"blank", "mounted"}
    BY HeldNow
  <2>3. launcher.pc \in Provisioning => Newest \in DOMAIN machines /\ Newest # m
    BY <1>3, <2>2 DEF Newest
  <2> QED
    BY <1>3, <2>1, <2>2, <2>3, HeldNow, HeldNext
<1>4. CASE ScriptEnds \/ SplitSeedFails
  <2>1. PICK m \in InUse, rc \in {0, 1} :
               /\ flag' = [phase |-> machines[m].phase, rc |-> rc]
               /\ machines' = [machines EXCEPT ![m].host = "done", ![m].rc = rc]
    BY <1>4 DEF ScriptEnds, SplitSeedFails, Finish
  <2>2. m \in DOMAIN machines /\ machines[m].host = "running" /\ machines[m] \in Machines
    BY DEF InUse
  <2>3. UNCHANGED <<launcher, sessions>>
    BY <1>4 DEF ScriptEnds, SplitSeedFails, Finish
  <2>4. machines' \in Seq(Machines) /\ Held'
    BY <1>3, <2>1, <2>2, <2>3
  <2>5. flag' \in [phase: Commands \cup {"none"}, rc: {0, 1}]
    BY <2>1, <2>2 DEF Machines
  <2> QED
    BY <2>3, <2>4, <2>5
<1>5. CASE Bootstrap
  <2>1. PICK m \in DOMAIN machines : Boot(m) \/ BootFails(m)
    BY <1>5 DEF Bootstrap
  <2>2. machines' \in Seq(Machines) /\ Held'
    BY <1>3, <2>1 DEF Boot, BootFails
  <2> QED
    BY <2>1, <2>2 DEF Boot, BootFails, NoFlag
<1>6. CASE StartWhole
  BY <1>6 DEF StartWhole, Held, OneMachine, NothingLeft, Attached, Newest
<1>7. CASE StartPhases
  <2>1. PICK chosen \in Plans, keep \in BOOLEAN :
               launcher' = [pc |-> "check", plan |-> chosen, keep |-> keep, clean |-> TRUE,
                            outcome |-> "none"]
    BY <1>7 DEF StartPhases
  <2>2. chosen # <<>> /\ chosen \in Seq(Commands)
    BY PlansAssumption DEF Commands
  <2>3. UNCHANGED <<machines, flag>> /\ sessions' = sessions + 1
    BY <1>7 DEF StartPhases
  <2>4. Attached' = Attached
    BY <2>3 DEF Attached
  <2>5. Held'
    BY <2>1, <2>4, HeldNow, HeldNext DEF Provisioning
  <2> QED
    BY <2>1, <2>2, <2>3, <2>5 DEF Launchers
<1>8. CASE Check
  <2>1. UNCHANGED <<machines, flag, sessions>> /\ Attached' = Attached
    BY <1>8 DEF Check, Attached
  <2>2. CASE Attached # {}
    <3>1. launcher' = End(launcher, "refused")
      BY <1>8, <2>2 DEF Check, Ended
    <3> QED
      BY <2>1, <3>1, LauncherEnded, HeldNow, HeldNext DEF Provisioning
  <2>3. CASE Attached = {}
    <3>1. launcher' = [launcher EXCEPT !.pc = "create"] /\ launcher.plan # <<>>
      BY <1>8, <2>3 DEF Check
    <3>2. launcher' \in Launchers /\ launcher'.pc = "create" /\ launcher'.plan = launcher.plan
      BY <3>1 DEF Launchers
    <3>3. Held'
      BY <2>1, <2>3, <3>2, HeldNext DEF Provisioning
    <3> QED
      BY <2>1, <3>1, <3>2, <3>3
  <2> QED
    BY <2>2, <2>3

<1>9. CASE Create
  <2>1. Attached = {} /\ UNCHANGED <<sessions, flag>> /\ launcher.plan # <<>>
    BY <1>9, HeldNow DEF Create
  <2>2. Phase \in Commands
    BY <2>1 DEF Phase, Launchers
  <2>3. Machine(Phase) \in Machines /\ Machine(Phase).host = "blank"
    BY <2>2 DEF Machine, Machines
  <2>4. ASSUME machines' = Append(machines, Machine(Phase))
        PROVE  /\ machines' \in Seq(Machines) /\ machines' # <<>>
               /\ Attached' \subseteq {Newest'} /\ machines'[Newest'].host = "blank"
    <3> DEFINE m == Machine(Phase)
    <3>1. m \in Machines /\ m.host = "blank" /\ machines' = Append(machines, m)
      BY <2>3, <2>4
    <3> HIDE DEF m
    <3>2. /\ machines' \in Seq(Machines) /\ machines' # <<>> /\ Newest' = Newest + 1
          /\ machines'[Newest'] = m /\ \A n \in DOMAIN machines : machines'[n] = machines[n]
          /\ DOMAIN machines' = DOMAIN machines \cup {Newest'}
      BY <3>1 DEF Newest
    <3> QED
      BY <2>1, <3>1, <3>2 DEF Attached
  <2>5. CASE machines' = Append(machines, Machine(Phase)) /\ launcher' = [launcher EXCEPT !.pc = "ready"]
    <3>1. launcher' \in Launchers /\ launcher'.pc = "ready" /\ launcher'.plan # <<>>
      BY <2>1, <2>5 DEF Launchers
    <3>2. Held'
      BY <2>4, <2>5, <3>1, HeldNext
    <3> QED
      BY <2>1, <2>4, <2>5, <3>1, <3>2
  <2>6. CASE Ended("failed") /\ UNCHANGED machines
    <3>1. Attached' = {}
      BY <2>1, <2>6 DEF Attached
    <3> QED
      BY <2>1, <2>6, <3>1, LauncherEnded, HeldNext DEF Ended, Provisioning
  <2>7. CASE Ended("lost") /\ machines' = Append(machines, Machine(Phase))
    BY <2>1, <2>4, <2>7, LauncherEnded, HeldNext DEF Ended, Provisioning
  <2> QED
    BY <1>9, <2>5, <2>6, <2>7 DEF Create
<1>10. CASE Provision
  <2>1. launcher.pc \in Provisioning /\ UNCHANGED <<sessions, flag>>
    BY <1>10 DEF Provision, Provisioning
  <2>2. /\ launcher' \in Launchers /\ launcher'.plan # <<>>
        /\ launcher'.pc \in {"attached", "mounted", "poll"}
    BY <1>10 DEF Provision, Launchers
  <2>3. machines # <<>> /\ Newest \in DOMAIN machines /\ Attached \subseteq {Newest}
    BY <2>1, HeldNow DEF Newest
  <2>4. CASE UNCHANGED machines /\ launcher'.pc # "poll"
    <3>1. Attached' = Attached /\ Newest' = Newest
      BY <2>4 DEF Attached, Newest
    <3>2. Held'
      BY <2>1, <2>2, <2>4, <3>1, HeldNow, HeldNext DEF Provisioning
    <3> QED
      BY <2>1, <2>2, <2>4, <3>2
  <2>5. ASSUME NEW h \in {"mounted", "booting"}, machines' = [machines EXCEPT ![Newest].host = h],
               launcher'.pc = IF h = "mounted" THEN "mounted" ELSE "poll"
        PROVE  TypeRental' /\ Held'
    <3>1. /\ machines' \in Seq(Machines) /\ Newest' = Newest /\ machines' # <<>>
          /\ Attached' = Attached /\ machines'[Newest].host = h
      BY <2>3, <2>5, HostChanged
    <3>2. Held'
      BY <2>1, <2>2, <2>3, <2>5, <3>1, HeldNow, HeldNext DEF Provisioning
    <3> QED
      BY <2>1, <2>2, <3>1, <3>2
  <2> QED
    BY <1>10, <2>4, <2>5 DEF Provision, Launchers
<1>11. CASE ProvisionFails \/ PollTimeout
  <2>1. /\ TearDown(End(launcher, "failed")) /\ launcher.pc \in Provisioning \cup {"poll"}
        /\ UNCHANGED <<sessions, flag>>
    BY <1>11 DEF ProvisionFails, PollTimeout
  <2> QED
    BY <2>1, LauncherEnded, TornDown
<1>12. CASE PollDone
  <2>1. UNCHANGED <<sessions, flag>> /\ launcher.pc = "poll" /\ launcher.plan # <<>>
    BY <1>12 DEF PollDone
  <2>2. CASE launcher.keep
    <3>1. launcher' = End(launcher, "kept") /\ UNCHANGED machines
      BY <1>12, <2>2 DEF PollDone, Ended, Stay
    <3>2. Attached' = Attached
      BY <3>1 DEF Attached
    <3> QED
      BY <2>1, <3>1, <3>2, LauncherEnded, HeldNow, HeldNext DEF Provisioning
  <2>3. CASE ~launcher.keep
    <3>1. TearDown(Continued)
      BY <1>12, <2>3 DEF PollDone
    <3>2. /\ Continued \in Launchers /\ Continued.pc \in {"stopped", "check"}
          /\ Continued.pc # "stopped" => Continued.plan # <<>>
      <4>1. CASE Len(launcher.plan) = 1
        BY <4>1, LauncherEnded DEF Continued
      <4>2. CASE Len(launcher.plan) # 1
        <5>1. launcher.plan \in Seq(Commands)
          BY DEF Launchers
        <5>2. Tail(launcher.plan) \in Seq(Commands) /\ Tail(launcher.plan) # <<>>
          <6> DEFINE p == launcher.plan
          <6>1. p \in Seq(Commands) /\ p # <<>> /\ Len(p) # 1
            BY <2>1, <4>2, <5>1
          <6> HIDE DEF p
          <6>2. Len(p) \in Nat /\ Len(p) # 0
            BY <6>1
          <6>3. Tail(p) \in Seq(Commands) /\ Len(Tail(p)) = Len(p) - 1
            BY <6>1
          <6>4. Len(Tail(p)) # 0
            BY <6>1, <6>2, <6>3
          <6>5. Tail(p) # <<>>
            BY <6>4, EmptySeq, Zenon
          <6> QED
            BY <6>3, <6>5 DEF p
        <5> QED
          BY <4>2, <5>2 DEF Continued, Launchers
      <4> QED
        BY <4>1, <4>2
    <3> QED
      BY <2>1, <3>1, <3>2, TornDown
  <2> QED
    BY <2>2, <2>3
<1>13. CASE PollFailure \/ Interrupted
  <2>1. /\ launcher' \in {End(launcher, "diagnose"), End(launcher, "interrupted")}
        /\ UNCHANGED <<machines, sessions, flag>>
    BY <1>13 DEF PollFailure, Interrupted, Ended
  <2>2. Attached' = Attached
    BY <2>1 DEF Attached
  <2> QED
    BY <2>1, <2>2, LauncherEnded, HeldNow, HeldNext DEF Provisioning
<1>14. CASE Teardown
  <2>1. PICK m \in Attached : Stop(m)
    BY <1>14 DEF Teardown
  <2>2. machines' \in Seq(Machines) /\ Attached' = {}
    BY <2>1, Stopped, HeldNow
  <2>3. UNCHANGED <<launcher, flag>> /\ sessions' = sessions + 1 /\ launcher.pc = "stopped"
    BY <1>14 DEF Teardown
  <2>4. Held'
    BY <2>2, <2>3, HeldNext DEF Provisioning
  <2> QED
    BY <2>2, <2>3, <2>4
<1> QED
  BY <1>2, <1>4, <1>5, <1>6, <1>7, <1>8, <1>9, <1>10, <1>11, <1>12, <1>13, <1>14
     DEF JobsNext, LauncherNext

LEMMA AloneStep == ASSUME TypeOK, Held, Alone, [JobsNext]_jobVars PROVE Alone'
<1> USE DEF TypeOK, TypeControl
<1>0. job' = job
  BY DEF JobsNext, Container, Prepare, SplitSeed, SplitSeedFails, RunRow, ScriptEnds, Finish,
         StartWhole, WholeSeed, WholeSeedFails, WholeEnds, WholeKilled,
         Bootstrap, Boot, BootFails, StartPhases, LauncherNext, Check, Create, Provision,
         ProvisionFails, PollDone, PollFailure, PollTimeout, Interrupted, Teardown, jobVars
<1>1. CASE Container
  <2>1. UNCHANGED <<machines, launcher, script>> /\ script \in {"preflight", "row", "rows"}
    BY <1>1 DEF Container, rental
  <2>2. InUse' = InUse
    BY <2>1 DEF InUse
  <2>3. uploads' # {} => harness'.pc \in {"rows", "stage2", "stage6"}
    <3>1. HarnessNext
      BY <1>1 DEF Container
    <3> USE DEF TypeProcess, Processes
    <3>2. CASE Preflight \/ Derive \/ DeriveFails \/ BeginRow
      BY <3>2 DEF Preflight, Derive, DeriveFails, BeginRow, Alone
    <3>3. CASE LoadResult \/ KeepStageTwo
      BY <3>3 DEF LoadResult, KeepStageTwo, Landed
    <3>4. CASE StageTwo \/ StageSix
      BY <3>4 DEF StageTwo, StageSix, Landed
    <3>5. CASE StageTwoFails \/ StageTwoRefuses \/ StageSixFails
      BY <3>5 DEF StageTwoFails, StageTwoRefuses, StageSixFails, Failed
    <3>6. CASE Upload \/ UploadFails \/ Exit
      BY <3>6 DEF Upload, UploadFails, Exit, Alone
    <3> QED
      BY <3>1, <3>2, <3>3, <3>4, <3>5, <3>6 DEF HarnessNext
  <2> QED
    BY <1>0, <2>1, <2>2, <2>3 DEF Alone
<1>2. CASE Prepare
  BY <1>0, <1>2 DEF Prepare, Alone, InUse, rental, process
<1>3. CASE SplitSeed \/ RunRow \/ WholeSeed
  <2>1. UNCHANGED <<machines, launcher, uploads>> /\ script' \in {"preflight", "row", "rows"}
        /\ script # "off" /\ (script' = "rows" \/ job = "split")
    BY <1>3 DEF SplitSeed, RunRow, WholeSeed, rental, Alone
  <2>2. InUse' = InUse /\ uploads = {}
    BY <1>3, <2>1 DEF SplitSeed, RunRow, WholeSeed, InUse, Alone
  <2> QED
    BY <1>0, <2>1, <2>2 DEF Alone
<1>4. CASE ScriptEnds \/ SplitSeedFails \/ WholeSeedFails \/ WholeEnds \/ WholeKilled
  <2>1. harness'.pc = "off" /\ uploads' = {} /\ script' = "off"
    <3>1. CASE ScriptEnds \/ SplitSeedFails \/ WholeEnds \/ WholeKilled
      BY <3>1 DEF ScriptEnds, SplitSeedFails, Finish, WholeEnds, WholeKilled, HarnessKilled, Alone,
                  NoProcess
    <3>2. CASE WholeSeedFails
      BY <3>2 DEF WholeSeedFails, Alone, process
    <3> QED
      BY <1>4, <3>1, <3>2
  <2>2. job = "whole" => UNCHANGED <<machines, launcher>>
    BY <1>4 DEF ScriptEnds, SplitSeedFails, WholeSeedFails, WholeEnds, WholeKilled, rental, Alone
  <2> QED
    BY <1>0, <2>1, <2>2 DEF Alone
<1>5. CASE StartWhole
  BY <1>0, <1>5 DEF StartWhole, Alone, InUse, harnessVars, process
<1>6. CASE Bootstrap
  <2>1. PICK m \in DOMAIN machines : Boot(m) \/ BootFails(m)
    BY <1>6 DEF Bootstrap
  <2>2. job = "split" /\ m \in Attached /\ machines \in Seq(Machines)
    BY <2>1 DEF Boot, BootFails, Attached, Alone, TypeRental
  <2>3. InUse = {}
    BY <2>1, <2>2, HeldNow DEF Boot, BootFails, InUse, Attached
  <2>4. script = "off" /\ harness.pc = "off" /\ uploads = {}
    BY <2>2, <2>3 DEF Alone
  <2>5. CASE BootFails(m)
    BY <1>0, <2>2, <2>4, <2>5 DEF BootFails, Alone, process
  <2>6. CASE Boot(m)
    <3>1. /\ DOMAIN machines' = DOMAIN machines /\ machines'[m].host = "running"
          /\ machines'[m].up = machines[m].up
      BY <2>1, <2>6, HostChanged DEF Boot
    <3>2. m \in InUse'
      BY <2>1, <2>6, <3>1 DEF Boot, InUse
    <3> QED
      BY <1>0, <2>2, <2>4, <2>6, <3>2 DEF Boot, Alone, NoProcess
  <2> QED
    BY <2>1, <2>5, <2>6
<1>7. ASSUME NEW m, Stop(m), job = "split",
             \/ m \in Attached
             \/ m = Newest /\ Attached \subseteq {Newest}
      PROVE  Alone'
  <2>1. InUse \subseteq {m} /\ InUse' = {}
    BY <1>7, HeldNow, Stopped DEF InUse, Attached
  <2>2. CASE machines[m].host = "running"
    BY <1>0, <1>7, <2>2 DEF Stop, HarnessKilled, Alone, NoProcess
  <2>3. CASE machines[m].host # "running"
    <3>1. InUse = {}
      BY <2>1, <2>3 DEF InUse
    <3>2. script = "off" /\ harness.pc = "off" /\ uploads = {}
      BY <1>7, <3>1 DEF Alone
    <3> QED
      BY <1>0, <1>7, <2>3, <3>2 DEF Stop, Alone, process
  <2> QED
    BY <2>2, <2>3
<1>8. ASSUME UNCHANGED <<script, harness, uploads>>, InUse' = InUse \/ script = "off",
             job = "split"
      PROVE  Alone'
  BY <1>0, <1>8 DEF Alone
<1>9. CASE StartPhases \/ Check \/ PollFailure \/ Interrupted
  <2>1. UNCHANGED <<machines, script, harness, uploads>> /\ job = "split"
    <3>1. CASE StartPhases
      BY <3>1 DEF StartPhases, harnessVars, process
    <3>2. CASE Check \/ PollFailure
      BY <3>2 DEF Check, PollFailure, harnessVars, process, Alone
    <3>3. CASE Interrupted
      BY <3>3 DEF Interrupted, Provisioning, process, Alone
    <3> QED
      BY <1>9, <3>1, <3>2, <3>3
  <2>2. InUse' = InUse
    BY <2>1 DEF InUse
  <2> QED
    BY <1>8, <2>1, <2>2
<1>10. CASE Create
  <2>1. UNCHANGED <<script, harness, uploads>> /\ job = "split" /\ Attached = {}
    BY <1>10, HeldNow DEF Create, process, Alone
  <2>2. script = "off"
    BY <2>1 DEF Alone, InUse, Attached
  <2> QED
    BY <1>8, <2>1, <2>2
<1>11. CASE Provision
  <2>1. /\ UNCHANGED <<script, harness, uploads>> /\ job = "split"
        /\ launcher.pc \in Provisioning
    BY <1>11 DEF Provision, Provisioning, harnessVars, process, Alone
  <2>2. InUse = {}
    BY <2>1, HeldNow DEF InUse, Attached
  <2>3. script = "off"
    BY <2>1, <2>2 DEF Alone
  <2> QED
    BY <1>8, <2>1, <2>3
<1>12. CASE ProvisionFails \/ PollDone \/ PollTimeout
  <2>1. job = "split" /\ launcher.pc \in Provisioning \cup {"poll"}
    BY <1>12 DEF ProvisionFails, PollDone, PollTimeout, Provisioning, Alone
  <2>2. Attached \subseteq {Newest}
    BY <2>1, HeldNow
  <2>3. Stop(Newest) \/ Stay
    BY <1>12 DEF ProvisionFails, PollDone, PollTimeout, TearDown
  <2>4. CASE Stay
    BY <1>8, <2>1, <2>4 DEF Stay, process, InUse
  <2> QED
    BY <1>7, <2>1, <2>2, <2>3, <2>4
<1>13. CASE Teardown
  BY <1>7, <1>13 DEF Teardown
<1>14. CASE UNCHANGED jobVars
  BY <1>14 DEF jobVars, rental, harnessVars, process, Alone, InUse
<1> QED
  BY <1>1, <1>2, <1>3, <1>4, <1>5, <1>6, <1>9, <1>10, <1>11, <1>12, <1>13, <1>14
     DEF JobsNext, LauncherNext

----------------------------------------------------------------------------
(* One Stage 1 for all rows                                                *)

LEMMA Whole ==
    ASSUME TypeOK, Complete(shared)
    PROVE  /\ shared # NoArtifacts /\ ToSet(shared) # {}
           /\ \A seeds \in {NoArtifacts, shared} : Seeded(seeds) = shared
<1>1. shared \in [1 .. Artifacts -> Nat] /\ \A i \in 1 .. Artifacts : shared[i] # 0
  BY DEF Complete, TypeOK, TypeVolume, ArtifactSet
<1>2. 1 \in 1 .. Artifacts
  BY TheRows
<1>3. shared # NoArtifacts
  BY <1>1, <1>2 DEF NoArtifacts
<1>4. ToSet(shared) # {}
  BY <1>1, <1>2 DEF ToSet
<1>5. ASSUME NEW seeds \in {NoArtifacts, shared} PROVE Seeded(seeds) = shared
  <2>1. DOMAIN seeds = 1 .. Artifacts /\ \A i \in 1 .. Artifacts : seeds[i] \in {0, shared[i]}
    BY <1>1 DEF NoArtifacts
  <2>2. Seeded(seeds) = [i \in 1 .. Artifacts |-> shared[i]]
    BY <2>1 DEF Seeded
  <2> QED
    BY <1>1, <2>2
<1> QED
  BY <1>3, <1>4, <1>5

\* The seeds stay while Stage 1 does, or while there are none.
LEMMA SeedsKept ==
    ASSUME Unseeded \/ SeededAlike,
           shared' = shared \/ (Unseeded /\ ~SeededAlike),
           \A r \in RowIds : dir'[r].seeds = dir[r].seeds
    PROVE  (Unseeded \/ SeededAlike)' /\ (Unseeded => Unseeded')
<1>1. Unseeded => Unseeded'
  BY DEF Unseeded
<1>2. ASSUME SeededAlike, shared' = shared PROVE SeededAlike'
  BY <1>2 DEF SeededAlike, Complete
<1> QED
  BY <1>1, <1>2

LEMMA Moves ==
    ASSUME TypeOK
    PROVE  /\ Preflight => /\ harness'.todo = harness.todo
                           /\ harness'.pc \in IF Complete(shared) THEN {"rows", "exit"} ELSE {"stage1"}
           /\ Derive => /\ harness'.todo = harness.todo
                        /\ IF ToDerive = {} THEN harness'.pc \in {"rows", "exit"}
                           ELSE harness' = harness
           /\ DeriveFails \/ Exit => harness'.pc = "exit" /\ harness'.todo = harness.todo
           /\ BeginRow => harness'.pc = "stage2" /\ harness'.todo = harness.todo
           /\ StageTwo /\ ~harness.skip => harness'.pc = "stage6" /\ harness'.todo = harness.todo
           /\ StageTwoFails \/ StageTwoRefuses \/ StageSixFails =>
                 harness'.pc = "rows" /\ harness'.todo = Tail(harness.todo)
<1>0. harness \in Processes
  BY DEF TypeOK, TypeProcess
<1>1. ASSUME NEW p, harness' = [harness EXCEPT !.pc = p]
      PROVE  harness'.pc = p /\ harness'.todo = harness.todo
  BY <1>0, <1>1 DEF Processes
<1>2. ASSUME Preflight
      PROVE  /\ harness'.todo = harness.todo
             /\ harness'.pc \in IF Complete(shared) THEN {"rows", "exit"} ELSE {"stage1"}
  BY <1>1, <1>2 DEF Preflight
<1>3. ASSUME Derive
      PROVE  /\ harness'.todo = harness.todo
             /\ IF ToDerive = {} THEN harness'.pc \in {"rows", "exit"} ELSE harness' = harness
  BY <1>1, <1>3 DEF Derive
<1>4. ASSUME DeriveFails \/ Exit PROVE harness'.pc = "exit" /\ harness'.todo = harness.todo
  <2>1. PICK ok : harness' = [harness EXCEPT !.pc = "exit", !.ok = ok]
    BY <1>4 DEF DeriveFails, Exit
  <2> QED
    BY <1>0, <2>1 DEF Processes
<1>5. BeginRow => harness'.pc = "stage2" /\ harness'.todo = harness.todo
  BY <1>1 DEF BeginRow
<1>6. StageTwo /\ ~harness.skip => harness'.pc = "stage6" /\ harness'.todo = harness.todo
  BY <1>1 DEF StageTwo
<1>7. ASSUME StageTwoFails \/ StageTwoRefuses \/ StageSixFails
      PROVE  harness'.pc = "rows" /\ harness'.todo = Tail(harness.todo)
  <2>1. harness' = [harness EXCEPT !.pc = "rows", !.todo = Tail(@), !.failed = @ \cup {Row}]
    BY <1>7 DEF StageTwoFails, StageTwoRefuses, StageSixFails, Failed
  <2> QED
    BY <1>0, <2>1 DEF Processes
<1> QED
  BY <1>2, <1>3, <1>4, <1>5, <1>6, <1>7

LEMMA ComparableStep ==
    ASSUME TypeOK, Held, Alone, Comparable, [JobsNext]_jobVars
    PROVE  Comparable'
<1>0. /\ shared \in ArtifactSet /\ dir \in [RowIds -> RowDirs] /\ bucket \in Buckets
      /\ harness \in Processes /\ (Unseeded \/ SeededAlike)
  BY DEF TypeOK, TypeVolume, TypeProcess, Comparable
<1>2. ASSUME (Unseeded \/ SeededAlike)', harness'.pc \notin {"stage1", "rows", "stage2", "stage6"}
      PROVE  Comparable'
  BY <1>2 DEF Comparable
<1>3. CASE Unmoved
  BY <1>3 DEF Unmoved, volume, process, Comparable, Unseeded, SeededAlike, Complete, Row
<1>4. CASE Killed
  <2>1. harness'.pc = "off" /\ shared' = shared
    BY <1>4 DEF Killed, HarnessKilled, NoProcess
  <2>2. \A r \in RowIds : dir'[r].seeds = dir[r].seeds
    BY <1>4, KilledLeaves DEF Killed, SameRow
  <2> QED
    BY <1>0, <1>2, <2>1, <2>2, SeedsKept
<1>5. CASE Wiped
  <2>1. harness'.pc = "off" /\ shared' = shared /\ dir' = dir
    BY <1>5 DEF Wiped, NoProcess, volume
  <2> QED
    BY <1>0, <1>2, <2>1, SeedsKept
<1>6. CASE Filled \/ Launched
  <2>1. harness'.pc \in {"off", "preflight"}
    BY <1>6, InvokedTyped DEF Filled, Launched, NoProcess
  <2>2. Fetched /\ RowsFetched
    BY <1>6 DEF Filled, Launched
  <2>3. /\ \A r \in RowIds : dir'[r].seeds = dir[r].seeds
        /\ shared' = shared \/ ~Complete(shared)
    BY <2>2, Pulled
  <2>4. SeededAlike => Complete(shared)
    BY DEF SeededAlike
  <2> QED
    BY <1>0, <1>2, <2>1, <2>3, <2>4, SeedsKept
<1>7. CASE Renewed
  <2>1. harness'.pc = "off" /\ \A r \in RowIds : dir'[r].seeds = NoArtifacts
    BY <1>7, Blank DEF Renewed, process, NoDirs
  <2> QED
    BY <1>2, <2>1 DEF Unseeded
<1>8. CASE Preflight
  <2>1. UNCHANGED <<shared, dir, bucket>> /\ (Unseeded \/ SeededAlike)' /\ (Unseeded => Unseeded')
    BY <1>0, <1>8, SeedsKept DEF Preflight, volume
  <2>2. CASE Complete(shared)
    <3>1. harness'.pc \in {"rows", "exit"} /\ Complete(shared)'
      BY <1>8, <2>1, <2>2, Moves DEF Complete
    <3> QED
      BY <2>1, <3>1 DEF Comparable
  <2>3. CASE ~Complete(shared)
    <3>1. harness'.pc = "stage1" /\ Unseeded
      BY <1>0, <1>8, <2>3, Moves DEF SeededAlike
    <3> QED
      BY <2>1, <3>1 DEF Comparable
  <2> QED
    BY <2>2, <2>3
<1>9. CASE Derive
  <2>1. Unseeded /\ Unseeded' /\ UNCHANGED <<dir, bucket>>
    BY <1>9 DEF Derive, Comparable, Unseeded
  <2>2. CASE ToDerive = {}
    <3>1. \A i \in 1 .. Artifacts : shared[i] # 0
      BY <2>2 DEF ToDerive, TypeOK, TypeProcess
    <3>2. harness'.pc \in {"rows", "exit"} /\ shared' = shared
      BY <1>9, <2>2, Moves DEF Derive
    <3>3. Complete(shared)'
      BY <1>0, <3>1, <3>2 DEF Complete, ArtifactSet
    <3> QED
      BY <2>1, <3>2, <3>3 DEF Comparable
  <2>3. CASE ToDerive # {}
    BY <1>9, <2>1, <2>3 DEF Derive, Comparable
  <2> QED
    BY <2>2, <2>3
<1>10. CASE DeriveFails \/ Exit
  <2>1. harness'.pc = "exit" /\ UNCHANGED <<shared, dir, bucket>>
    BY <1>10, Moves DEF DeriveFails, Exit, volume
  <2> QED
    BY <1>0, <1>2, <2>1, SeedsKept
<1>11. ASSUME harness'.pc = "rows", harness.pc \in {"rows", "stage2", "stage6"}, shared' = shared,
              \A r \in RowIds : dir'[r].seeds = dir[r].seeds
       PROVE  Comparable'
  <2>1. Complete(shared)'
    BY <1>11 DEF Comparable, Complete
  <2> QED
    BY <1>0, <1>11, <2>1, SeedsKept DEF Comparable
<1>12. CASE LoadResult \/ KeepStageTwo
  <2>1. harness'.pc = "rows"
    BY <1>12, LandedTyped DEF LoadResult, KeepStageTwo, PhaseNames
  <2> QED
    BY <1>11, <1>12, <2>1 DEF LoadResult, KeepStageTwo, volume
<1>13. CASE BeginRow
  <2>1. Row \in RowIds /\ Complete(shared) /\ harness.todo # <<>>
    BY <1>13, RowIsRow DEF BeginRow, Comparable
  <2>2. /\ harness'.pc = "stage2" /\ harness'.todo = harness.todo /\ UNCHANGED <<shared, bucket>>
    BY <1>13, Moves DEF BeginRow
  <2>3. Seeded(dir[Row].seeds) = shared
    BY <1>0, <2>1, Whole DEF Unseeded, SeededAlike
  <2>4. /\ dir'[Row].seeds = shared /\ \A r \in RowIds : dir'[r].result = dir[r].result
        /\ \A r \in RowIds : dir'[r].seeds \in {dir[r].seeds, shared}
    BY <1>0, <1>13, <2>1, <2>3 DEF BeginRow, RowDirs
  <2>5. \A r \in RowIds : dir[r].seeds \in {NoArtifacts, shared}
    BY <1>0 DEF Unseeded, SeededAlike
  <2>6. SeededAlike' /\ Complete(shared)'
    BY <2>1, <2>2, <2>4, <2>5 DEF SeededAlike, Complete
  <2>7. dir[Row].result = {} /\ Row' = Row
    BY <1>13, <2>2 DEF BeginRow, Row
  <2> QED
    BY <2>1, <2>2, <2>4, <2>6, <2>7 DEF Comparable
<1>14. CASE StageTwo
  <2>1. /\ Row \in RowIds /\ harness.todo # <<>> /\ Complete(shared)
        /\ dir[Row].seeds = shared /\ dir[Row].result = {}
    BY <1>14, RowIsRow DEF StageTwo, Comparable
  <2>2. \A r \in RowIds : dir'[r].seeds = dir[r].seeds /\ dir'[r].result = dir[r].result
    BY <1>0, <1>14, <2>1, AdvancedLike DEF StageTwo, SameRow, Processes
  <2>3. UNCHANGED <<shared, bucket>>
    BY <1>14 DEF StageTwo
  <2>4. CASE harness.skip
    <3>1. harness'.pc = "rows"
      BY <1>14, <2>1, <2>4, LandedTyped DEF StageTwo, PhaseNames
    <3> QED
      BY <1>11, <1>14, <2>2, <2>3, <3>1 DEF StageTwo
  <2>5. CASE ~harness.skip
    <3>1. harness'.pc = "stage6" /\ harness'.todo = harness.todo
      BY <1>14, <2>5, Moves
    <3>2. (Unseeded \/ SeededAlike)' /\ Complete(shared)' /\ Row' = Row
      BY <1>0, <2>1, <2>2, <2>3, <3>1, SeedsKept DEF Complete, Row
    <3> QED
      BY <2>1, <2>2, <2>3, <3>1, <3>2 DEF Comparable
  <2> QED
    BY <2>4, <2>5
<1>15. CASE StageTwoFails \/ StageTwoRefuses \/ StageSixFails
  <2>1. harness'.pc = "rows" /\ harness.todo # <<>>
    BY <1>15, Moves DEF StageTwoFails, StageTwoRefuses, StageSixFails, Comparable
  <2>2. \A r \in RowIds : dir'[r].seeds = dir[r].seeds
    BY <1>15, <2>1, RowLeft DEF StageTwoFails, StageTwoRefuses, StageSixFails, SameRow, volume
  <2> QED
    BY <1>11, <1>15, <2>1, <2>2 DEF StageTwoFails, StageTwoRefuses, StageSixFails, volume
<1>16. CASE StageSix
  <2>1. /\ Row \in RowIds /\ harness.todo # <<>> /\ Complete(shared)
        /\ dir[Row].seeds = shared /\ dir[Row].result = {}
    BY <1>16, RowIsRow DEF StageSix, Comparable
  <2>2. SeededAlike
    BY <1>0, <2>1, Whole DEF Unseeded
  <2>3. harness'.pc = "rows" /\ shared' = shared
    BY <1>16, <2>1, LandedTyped DEF StageSix, PhaseNames
  <2>4. \A r \in RowIds : dir'[r].seeds = dir[r].seeds
    BY <1>0, <1>16, <2>1 DEF StageSix, RowDirs
  <2>5. SeededAlike' /\ Complete(shared)'
    BY <2>2, <2>3, <2>4 DEF SeededAlike, Complete
  <2> QED
    BY <2>3, <2>5 DEF Comparable
<1>17. CASE Upload
  <2>1. PICK t \in uploads : Send(t)
    BY <1>17 DEF Upload
  <2>2. t.row \in RowIds
    BY <2>1 DEF TypeOK, TypeProcess, UploadThreads
  <2>3. UNCHANGED <<shared, harness>>
    BY <1>17 DEF Upload
  <2>4. \A r \in RowIds : dir'[r].seeds = dir[r].seeds /\ dir'[r].result = dir[r].result
    BY <1>0, <2>1, <2>2 DEF Send, RowDirs
  <2>6. (Unseeded \/ SeededAlike)' /\ (Unseeded => Unseeded')
    BY <1>0, <2>3, <2>4, SeedsKept
  <2>7. Complete(shared)' <=> Complete(shared)
    BY <2>3 DEF Complete
  <2>8. harness.pc \in {"stage2", "stage6"} => Row \in RowIds
    BY RowIsRow DEF Comparable
  <2> QED
    BY <2>3, <2>4, <2>6, <2>7, <2>8 DEF Comparable, Row
<1>18. CASE UploadFails
  BY <1>18 DEF UploadFails, volume, Comparable, Unseeded, SeededAlike, Complete, Row
<1> QED
  BY <1>3, <1>4, <1>5, <1>6, <1>7, <1>8, <1>9, <1>10, <1>12, <1>13, <1>14, <1>15, <1>16, <1>17, <1>18,
     Effects DEF HarnessNext

----------------------------------------------------------------------------
(* What the threads publish                                                *)

\* A row without a thread may change; a published row does not.
LEMMA ThreadsKept ==
    ASSUME Threads, IsInjective(harness'.todo), ToSet(harness'.todo) \subseteq ToSet(harness.todo),
           uploads' \subseteq uploads, bucket' = bucket,
           \A t \in uploads : dir'[t.row].pruned = dir[t.row].pruned
                              /\ dir'[t.row].result = dir[t.row].result
    PROVE  Threads'
<1>1. ASSUME NEW t \in uploads'
      PROVE  /\ t.row \notin ToSet(harness'.todo)
             /\ t.phase = "stage2" => dir'[t.row].pruned \in Published
             /\ t.phase = "complete" => dir'[t.row].result # {}
             /\ t.at = "flag" => IF t.phase = "stage2" THEN bucket'.pruned[t.row] \in Published
                                 ELSE bucket'.result[t.row] = dir'[t.row].result
  BY DEF Threads
<1> QED
  BY <1>1 DEF Threads

\* The row's thread starts when the row is done with.
LEMMA ThreadStarted ==
    ASSUME TypeOK, Threads, harness.todo # <<>>, NEW phase \in PhaseNames, NEW cached,
           Landed(phase, cached), bucket' = bucket,
           \A r \in RowIds \ {Row} : dir'[r] = dir[r],
           phase = "stage2" => dir'[Row].pruned \in Published,
           phase = "complete" => dir'[Row].result # {}
    PROVE  Threads'
<1>1. /\ harness.todo \in Seq(RowIds) /\ IsInjective(harness.todo) /\ Row \in RowIds
      /\ \A t \in uploads : t.row \in RowIds
  BY RowIsRow DEF TypeOK, TypeProcess, Processes, UploadThreads, Threads
<1>2. /\ IsInjective(Tail(harness.todo)) /\ Row \notin ToSet(Tail(harness.todo))
      /\ ToSet(Tail(harness.todo)) \subseteq ToSet(harness.todo)
  BY <1>1, InjectiveTail DEF Row
<1>3. harness'.todo = Tail(harness.todo) /\ uploads' \subseteq uploads \cup {Thread(Row, phase)}
  BY LandedTyped
<1>4. Row \in ToSet(harness.todo)
  BY <1>1 DEF Row, ToSet
<1>5. ASSUME NEW t \in uploads
      PROVE  /\ t.row \notin ToSet(harness'.todo)
             /\ t.phase = "stage2" => dir'[t.row].pruned \in Published
             /\ t.phase = "complete" => dir'[t.row].result # {}
             /\ t.at = "flag" => IF t.phase = "stage2" THEN bucket'.pruned[t.row] \in Published
                                 ELSE bucket'.result[t.row] = dir'[t.row].result
  <2>1. t.row \notin ToSet(harness.todo) /\ t.row \in RowIds \ {Row}
    BY <1>1, <1>4 DEF Threads
  <2> QED
    BY <1>2, <1>3, <2>1 DEF Threads
<1>6. /\ Thread(Row, phase).row = Row /\ Thread(Row, phase).phase = phase
      /\ Thread(Row, phase).at # "flag"
  BY DEF Thread
<1>7. ASSUME NEW t \in uploads'
      PROVE  /\ t.row \notin ToSet(harness'.todo)
             /\ t.phase = "stage2" => dir'[t.row].pruned \in Published
             /\ t.phase = "complete" => dir'[t.row].result # {}
             /\ t.at = "flag" => IF t.phase = "stage2" THEN bucket'.pruned[t.row] \in Published
                                 ELSE bucket'.result[t.row] = dir'[t.row].result
  <2>1. CASE t \in uploads
    BY <1>5, <2>1
  <2>2. CASE t = Thread(Row, phase)
    BY <1>2, <1>3, <1>6, <2>2
  <2> QED
    BY <1>3, <2>1, <2>2
<1> QED
  BY <1>2, <1>3, <1>7 DEF Threads

LEMMA Sent ==
    ASSUME TypeOK, Threads, FlagsHonest, NEW t \in uploads, Send(t), UNCHANGED harness
    PROVE  Threads' /\ FlagsHonest'
<1>0. /\ dir \in [RowIds -> RowDirs] /\ bucket \in Buckets /\ t \in UploadThreads
      /\ t.row \in RowIds /\ t.phase \in PhaseNames /\ t.at \in {"shared", "artifact", "flag"}
      /\ \A u \in uploads : u.row \in RowIds
  BY DEF TypeOK, TypeVolume, TypeProcess, UploadThreads
<1>1. /\ t.row \notin ToSet(harness.todo)
      /\ t.phase = "stage2" => dir[t.row].pruned \in Published
      /\ t.phase = "complete" => dir[t.row].result # {}
      /\ t.at = "flag" => IF t.phase = "stage2" THEN bucket.pruned[t.row] \in Published
                          ELSE bucket.result[t.row] = dir[t.row].result
  BY DEF Threads
<1>2. \A r \in RowIds : dir'[r].pruned = dir[r].pruned /\ dir'[r].result = dir[r].result
  BY <1>0 DEF Send, RowDirs
<1>3. \A r \in RowIds : /\ bucket'.pruned[r] = bucket.pruned[r]
                           \/ (r = t.row /\ t.phase = "stage2" /\ bucket'.pruned[r] \in Published)
                        /\ bucket'.result[r] \in {bucket.result[r], dir[r].result}
  <2>1. CASE t.at # "artifact"
    <3>1. bucket'.pruned = bucket.pruned /\ bucket'.result = bucket.result
      BY <1>0, <2>1 DEF Send, Buckets
    <3> QED
      BY <3>1
  <2>2. CASE t.at = "artifact" /\ t.phase = "stage2"
    <3>1. /\ bucket'.pruned = [bucket.pruned EXCEPT ![t.row] = dir[t.row].pruned]
          /\ bucket'.result = bucket.result
      BY <1>0, <2>2 DEF Send, Buckets
    <3> QED
      BY <1>0, <1>1, <2>2, <3>1 DEF Buckets
  <2>3. CASE t.at = "artifact" /\ t.phase # "stage2"
    <3>1. /\ bucket'.result = [bucket.result EXCEPT ![t.row] = dir[t.row].result]
          /\ bucket'.pruned = bucket.pruned
      BY <1>0, <2>3 DEF Send, Buckets
    <3> QED
      BY <1>0, <3>1 DEF Buckets
  <2> QED
    BY <2>1, <2>2, <2>3
<1>4. t.at = "artifact" => IF t.phase = "stage2" THEN bucket'.pruned[t.row] \in Published
                           ELSE bucket'.result[t.row] = dir[t.row].result
  BY <1>0, <1>1 DEF Send, Buckets
<1>5. \A u \in uploads' : \/ u \in uploads
                          \/ /\ u.row = t.row /\ u.phase = t.phase
                             /\ u.at = "flag" => t.at = "artifact"
  BY <1>0 DEF Send, UploadThreads
<1>6. ASSUME NEW u \in uploads'
      PROVE  /\ u.row \notin ToSet(harness'.todo)
             /\ u.phase = "stage2" => dir'[u.row].pruned \in Published
             /\ u.phase = "complete" => dir'[u.row].result # {}
             /\ u.at = "flag" => IF u.phase = "stage2" THEN bucket'.pruned[u.row] \in Published
                                 ELSE bucket'.result[u.row] = dir'[u.row].result
  <2>1. CASE u \in uploads
    <3>1. u.row \in RowIds
      BY <1>0, <2>1
    <3> QED
      BY <1>2, <1>3, <2>1, <3>1 DEF Threads
  <2>2. CASE /\ u.row = t.row /\ u.phase = t.phase
             /\ u.at = "flag" => t.at = "artifact"
    BY <1>0, <1>1, <1>2, <1>4, <2>2
  <2> QED
    BY <1>5, <2>1, <2>2
<1>7. Threads'
  BY <1>6 DEF Threads
<1>8. \A r \in RowIds : \/ dir'[r].flags = dir[r].flags
                        \/ /\ r = t.row /\ t.at = "flag" /\ bucket' = bucket
                           /\ dir'[r].flags = dir[r].flags \cup {t.phase}
  BY <1>0 DEF Send, RowDirs
<1>9. FlagsHonest'
  <2> SUFFICES ASSUME NEW r \in RowIds
               PROVE  /\ "stage2" \in dir'[r].flags => bucket'.pruned[r] \in Published
                      /\ "complete" \in dir'[r].flags =>
                            bucket'.result[r] = dir'[r].result /\ dir'[r].result # {}
    BY DEF FlagsHonest, Published
  <2>1. /\ "stage2" \in dir[r].flags => bucket.pruned[r] \in Published
        /\ "complete" \in dir[r].flags => bucket.result[r] = dir[r].result /\ dir[r].result # {}
    BY DEF FlagsHonest, Published
  <2>2. CASE dir'[r].flags = dir[r].flags
    BY <1>2, <1>3, <2>1, <2>2
  <2>3. CASE /\ r = t.row /\ t.at = "flag" /\ bucket' = bucket
             /\ dir'[r].flags = dir[r].flags \cup {t.phase}
    BY <1>0, <1>1, <1>2, <2>1, <2>3 DEF PhaseNames
  <2> QED
    BY <1>8, <2>2, <2>3
<1> QED
  BY <1>7, <1>9

\* Without a thread there is nothing to keep but that no row is handled twice.
LEMMA NoThreads == ASSUME uploads' = {}, IsInjective(harness'.todo) PROVE Threads'
BY DEF Threads

LEMMA ThreadsStep ==
    ASSUME TypeOK, Held, Alone, Comparable, Threads, FlagsHonest, [JobsNext]_jobVars
    PROVE  Threads'
<1>0. /\ dir \in [RowIds -> RowDirs] /\ harness \in Processes /\ harness.todo \in Seq(RowIds)
      /\ IsInjective(harness.todo) /\ \A t \in uploads : t.row \in RowIds
      /\ \A t \in uploads : t.row \notin ToSet(harness.todo)
  BY DEF TypeOK, TypeVolume, TypeProcess, Processes, UploadThreads, Threads
<1>1. harness.todo # <<>> => Row \in ToSet(harness.todo)
  BY <1>0 DEF Row, ToSet
<1>2. harness.todo # <<>> =>
         /\ IsInjective(Tail(harness.todo))
         /\ ToSet(Tail(harness.todo)) \subseteq ToSet(harness.todo)
  BY <1>0, InjectiveTail
<1>3. CASE Unmoved
  <2>1. UNCHANGED <<harness, uploads, dir, bucket>>
    BY <1>3 DEF Unmoved, volume, process
  <2> QED
    BY <1>0, <2>1, ThreadsKept
<1>4. CASE Killed \/ Wiped
  <2>1. uploads' = {} /\ harness'.todo = <<>>
    BY <1>4 DEF Killed, Wiped, HarnessKilled, NoProcess
  <2>2. IsInjective(<<>>)
    BY DEF IsInjective
  <2> QED
    BY <2>1, <2>2, NoThreads
<1>5. CASE Launched \/ Filled \/ Renewed
  <2>1. uploads' = {}
    BY <1>5 DEF Launched, Filled, Renewed, process, Alone
  <2>3. NoProcess.todo = <<>> /\ IsInjective(<<>>)
    BY DEF NoProcess, IsInjective
  <2>2. IsInjective(harness'.todo)
    BY <1>0, <1>5, <2>3, InvokedTyped DEF Launched, Filled, Renewed, process
  <2> QED
    BY <2>1, <2>2, NoThreads
<1>6. CASE Preflight \/ Derive \/ DeriveFails \/ UploadFails
  <2>1. harness'.todo = harness.todo
    BY <1>6, Moves DEF Derive, UploadFails
  <2>2. uploads' \subseteq uploads /\ UNCHANGED <<dir, bucket>>
    BY <1>6 DEF Preflight, Derive, DeriveFails, UploadFails, volume
  <2> QED
    BY <1>0, <2>1, <2>2, ThreadsKept
<1>7. CASE Exit
  BY <1>0, <1>7, Moves, NoThreads DEF Exit
<1>8. CASE LoadResult \/ KeepStageTwo
  <2>1. PICK phase \in PhaseNames : /\ harness.todo # <<>> /\ Landed(phase, teacher)
                                    /\ phase = "stage2" => dir[Row].pruned \in Published
                                    /\ phase = "complete" => dir[Row].result # {}
    BY <1>8 DEF LoadResult, KeepStageTwo, StageTwoDone, PhaseNames, Published
  <2>2. UNCHANGED <<dir, bucket>>
    BY <1>8 DEF LoadResult, KeepStageTwo, volume
  <2> QED
    BY <2>1, <2>2, ThreadStarted
<1>9. CASE BeginRow
  <2>1. /\ harness'.todo = harness.todo /\ UNCHANGED <<uploads, bucket>>
        /\ harness.todo # <<>>
    BY <1>9, Moves DEF BeginRow
  <2>2. \A t \in uploads : dir'[t.row] = dir[t.row]
    BY <1>0, <1>1, <1>9, <2>1 DEF BeginRow
  <2> QED
    BY <1>0, <2>1, <2>2, ThreadsKept
<1>10. CASE StageTwo
  <2>1. harness.todo # <<>> /\ Row \in RowIds /\ bucket' = bucket
    BY <1>10, RowIsRow DEF StageTwo, Comparable
  <2>2. /\ \A r \in RowIds \ {Row} : dir'[r] = dir[r]
        /\ dir'[Row].pruned \in Published
    BY <1>0, <1>10, <2>1, AdvancedLike DEF StageTwo, Published, Processes
  <2>3. CASE harness.skip
    BY <1>10, <2>1, <2>2, <2>3, ThreadStarted DEF StageTwo, PhaseNames
  <2>4. CASE ~harness.skip
    <3>1. harness'.todo = harness.todo /\ UNCHANGED uploads
      BY <1>10, <2>4, Moves DEF StageTwo
    <3>2. \A t \in uploads : t.row \in RowIds \ {Row}
      BY <1>0, <1>1, <2>1
    <3> QED
      BY <1>0, <2>1, <2>2, <3>1, <3>2, ThreadsKept
  <2> QED
    BY <2>3, <2>4
<1>11. CASE StageTwoFails \/ StageTwoRefuses \/ StageSixFails
  <2>1. /\ harness.todo # <<>> /\ UNCHANGED <<uploads, bucket>>
        /\ harness'.todo = Tail(harness.todo)
    BY <1>11, Moves DEF StageTwoFails, StageTwoRefuses, StageSixFails, Comparable
  <2>2. \A t \in uploads : dir'[t.row] = dir[t.row]
    <3>1. \A t \in uploads : t.row \in RowIds \ {Row}
      BY <1>0, <1>1, <2>1
    <3> QED
      BY <1>11, <2>1, <3>1, RowLeft DEF StageTwoFails, StageTwoRefuses, StageSixFails, volume
  <2> QED
    BY <1>2, <2>1, <2>2, ThreadsKept
<1>12. CASE StageSix
  <2>1. /\ Row \in RowIds /\ harness.todo # <<>> /\ bucket' = bucket
        /\ Complete(shared) /\ dir[Row].seeds = shared
    BY <1>12, RowIsRow DEF StageSix, Comparable
  <2>2. /\ \A r \in RowIds \ {Row} : dir'[r] = dir[r]
        /\ dir'[Row].result = ToSet(shared)
    BY <1>0, <1>12, <2>1 DEF StageSix, RowDirs
  <2>3. dir'[Row].result # {}
    BY <2>1, <2>2, Whole
  <2>4. Landed("complete", teacher')
    BY <1>12 DEF StageSix
  <2> QED
    BY <2>1, <2>2, <2>3, <2>4, ThreadStarted DEF PhaseNames
<1>13. CASE Upload
  BY <1>13, Sent DEF Upload
<1> QED
  BY <1>3, <1>4, <1>5, <1>6, <1>7, <1>8, <1>9, <1>10, <1>11, <1>12, <1>13, Effects DEF HarnessNext

----------------------------------------------------------------------------
(* What the flags say                                                      *)

\* A flag stays true while the bucket and the row's result do not change, and
\* when the bucket gets all results at once.
LEMMA HonestKept ==
    ASSUME FlagsHonest,
           \A r \in RowIds : /\ dir'[r].flags = dir[r].flags
                             /\ dir[r].result # {} => dir'[r].result = dir[r].result
                             /\ bucket'.pruned[r] = bucket.pruned[r]
                             /\ bucket'.result[r] \in {bucket.result[r], dir[r].result}
    PROVE  FlagsHonest'
<1> SUFFICES ASSUME NEW r \in RowIds
             PROVE  /\ "stage2" \in dir'[r].flags => bucket'.pruned[r] \in Published
                    /\ "complete" \in dir'[r].flags =>
                          bucket'.result[r] = dir'[r].result /\ dir'[r].result # {}
  BY DEF FlagsHonest, Published
<1>1. /\ "stage2" \in dir[r].flags => bucket.pruned[r] \in Published
      /\ "complete" \in dir[r].flags => bucket.result[r] = dir[r].result /\ dir[r].result # {}
  BY DEF FlagsHonest, Published
<1> QED
  BY <1>1

LEMMA HonestStep ==
    ASSUME TypeOK, Held, Alone, Comparable, Threads, FlagsHonest, [JobsNext]_jobVars
    PROVE  FlagsHonest'
<1>0. /\ dir \in [RowIds -> RowDirs] /\ bucket \in Buckets
  BY DEF TypeOK, TypeVolume
<1>1. CASE UNCHANGED <<dir, bucket>>
  BY <1>1, HonestKept
<1>2. CASE Unmoved \/ Preflight \/ Derive \/ DeriveFails \/ LoadResult \/ KeepStageTwo
           \/ StageTwoRefuses \/ StageSixFails \/ UploadFails \/ Exit
  BY <1>1, <1>2 DEF Unmoved, Preflight, Derive, DeriveFails, LoadResult, KeepStageTwo, StageTwoRefuses,
                    StageSixFails, UploadFails, Exit, volume
<1>3. CASE Killed \/ StageTwoFails
  <2>1. bucket' = bucket /\ \A r \in RowIds : SameRow(dir[r], dir'[r])
    BY <1>3, KilledLeaves, RowLeft DEF Killed, StageTwoFails, Comparable
  <2> QED
    BY <2>1, HonestKept DEF SameRow
<1>4. CASE Wiped
  <2>1. dir' = dir
    BY <1>4 DEF Wiped, volume
  <2>2. Synced.pruned = bucket.pruned
    BY <1>0 DEF Synced, Buckets
  <2>3. \A r \in RowIds : Synced.result[r] \in {bucket.result[r], dir[r].result}
    BY <1>0 DEF Synced, Buckets
  <2>4. bucket' \in {bucket, Synced}
    BY <1>4 DEF Wiped
  <2> QED
    BY <2>1, <2>2, <2>3, <2>4, HonestKept
<1>5. CASE Launched \/ Filled
  <2>1. bucket' = bucket /\ Fetched /\ RowsFetched
    BY <1>5 DEF Launched, Filled
  <2> QED
    BY <2>1, Pulled, HonestKept
<1>9. CASE Renewed
  <2>1. \A r \in RowIds : dir'[r].flags = {}
    BY <1>9 DEF Renewed, NoDirs, EmptyDir
  <2> QED
    BY <2>1 DEF FlagsHonest, Published
<1>6. CASE BeginRow
  <2>1. Row \in RowIds /\ bucket' = bucket
    BY <1>6, RowIsRow DEF BeginRow
  <2>2. \A r \in RowIds : dir'[r].flags = dir[r].flags /\ dir'[r].result = dir[r].result
    BY <1>0, <1>6, <2>1 DEF BeginRow, RowDirs
  <2> QED
    BY <2>1, <2>2, HonestKept
<1>7. CASE StageTwo \/ StageSix
  <2>1. Row \in RowIds /\ bucket' = bucket /\ dir[Row].result = {}
    BY <1>7, RowIsRow DEF StageTwo, StageSix, Comparable
  <2>2. \A r \in RowIds : /\ dir'[r].flags = dir[r].flags
                          /\ dir[r].result # {} => dir'[r].result = dir[r].result
    <3>1. CASE StageTwo
      BY <1>0, <2>1, <3>1, AdvancedLike DEF StageTwo, SameRow, TypeOK, TypeProcess, Processes
    <3>2. CASE StageSix
      BY <1>0, <2>1, <3>2 DEF StageSix, RowDirs
    <3> QED
      BY <1>7, <3>1, <3>2
  <2> QED
    BY <2>1, <2>2, HonestKept
<1>8. CASE Upload
  BY <1>8, Sent DEF Upload
<1> QED
  BY <1>2, <1>3, <1>4, <1>5, <1>6, <1>7, <1>8, <1>9, Effects DEF HarnessNext

----------------------------------------------------------------------------
(* The theorems                                                            *)

LEMMA AtTheStart == JobsInit => IInv
<1> SUFFICES ASSUME JobsInit PROVE IInv
  OBVIOUS
<1>0. Table \in Seq(RowIds) /\ Artifacts \in Nat \ {0}
  BY TheRows
<1>1. /\ shared = NoArtifacts /\ teacher = FALSE /\ dir = NoDirs
      /\ harness = NoProcess /\ uploads = {} /\ stage1Runs = 1 /\ faults = 0
      /\ launcher = NoLauncher /\ machines = <<>> /\ flag = NoFlag /\ script = "off"
      /\ sessions = 0 /\ job \in {"split", "whole"}
  BY DEF JobsInit, HarnessInit
<1>2. PICK seeds \in {NoArtifacts, [i \in 1 .. Artifacts |-> 1]}, rows \in {{}, {Baseline}} :
               bucket = Earlier(seeds, rows)
  BY DEF JobsInit, HarnessInit
<1>3. TypeVolume
  <2>1. seeds \in ArtifactSet
    BY <1>2, Blank DEF ArtifactSet
  <2>2. /\ (Baseline \in rows) \in BOOLEAN
        /\ [r \in RowIds |-> "none"] \in [RowIds -> Models]
        /\ [r \in RowIds |-> IF r \in rows THEN {1} ELSE {}] \in [RowIds -> Results]
    BY DEF Models, Results
  <2>3. bucket \in Buckets
    BY <1>2, <2>1, <2>2 DEF Earlier, Buckets
  <2> QED
    BY <1>1, <2>3, NewVolume DEF TypeVolume
<1>4. TypeProcess
  BY <1>1, Blank DEF TypeProcess
<1>5. TypeRental
  <2>1. NoLauncher \in Launchers /\ NoLauncher.pc = "stopped"
    BY DEF NoLauncher, Launchers
  <2> QED
    BY <1>1, <2>1 DEF TypeRental, NoFlag
<1>6. TypeControl
  BY <1>1 DEF TypeControl
<1>7. Held
  BY <1>1 DEF Held, OneMachine, NothingLeft, NoLauncher, Provisioning
<1>8. Alone
  BY <1>1 DEF Alone, NoProcess, NoLauncher
<1>9. Comparable
  BY <1>1, Blank DEF Comparable, Unseeded, NoDirs, NoProcess
<1>10. Threads
  <2>1. IsInjective(<<>>)
    BY DEF IsInjective
  <2> QED
    BY <1>1, <2>1 DEF Threads, NoProcess
<1>11. FlagsHonest
  BY <1>1 DEF FlagsHonest, NoDirs, EmptyDir
<1> QED
  BY <1>3, <1>4, <1>5, <1>6, <1>7, <1>8, <1>9, <1>10, <1>11 DEF IInv, TypeOK

LEMMA Inductive == IInv /\ [JobsNext]_jobVars => IInv'
<1> SUFFICES ASSUME TypeOK, Held, Alone, Comparable, Threads, FlagsHonest, [JobsNext]_jobVars PROVE IInv'
  BY DEF IInv
<1>1. TypeOK'
  BY StateTyped, RentalStep, ControlTyped DEF TypeOK
<1> QED
  BY <1>1, RentalStep, AloneStep, ComparableStep, ThreadsStep, HonestStep DEF IInv

\* The invariant that carries the others: who holds the volume, which Stage 1
\* the rows on it were seeded with, and what a thread is about to say.
THEOREM Invariant == JobsSpec => []IInv
BY AtTheStart, Inductive, PTL DEF JobsSpec

\* Every variable stays in its type, whatever the machines, the processes and
\* the service do.
THEOREM Typing == JobsSpec => []TypeOK
<1>1. IInv => TypeOK
  BY DEF IInv
<1> QED
  BY <1>1, Invariant, PTL

\* One machine at a time holds the volume and none is forgotten: the check
\* before every rental (spheron_launch.py) is enough, after interrupts, failed
\* teardowns, lost answers and restarts alike.
THEOREM OneMachineHoldsTheVolume == JobsSpec => []MachinesHeld
<1>1. IInv => MachinesHeld
  BY DEF IInv, Held, MachinesHeld
<1> QED
  BY <1>1, Invariant, PTL

\* What a volume has computed is from the complete Stage 1 that is on it, and a
\* flag says what the bucket has (run_ablations.py), however often containers,
\* harness and upload threads were killed, and whatever an earlier volume left
\* in the bucket for this one to pull.
THEOREM TheRowsAreHonest == JobsSpec => []RowsHonest
<1>1. IInv => MadeFromShared
  <2> SUFFICES ASSUME IInv, NEW r \in RowIds, dir[r].result # {},
                      dir[r].result = ToSet(dir[r].seeds)
               PROVE  Complete(shared) /\ dir[r].result = ToSet(shared)
    BY DEF MadeFromShared
  <2>1. 0 \notin dir[r].result
    BY DEF IInv, TypeOK, TypeVolume, RowDirs, Results
  <2>2. 0 \in ToSet(NoArtifacts)
    <3>1. 1 \in DOMAIN NoArtifacts /\ NoArtifacts[1] = 0
      BY TheRows DEF NoArtifacts
    <3> QED
      BY <3>1 DEF ToSet
  <2>3. dir[r].seeds # NoArtifacts
    BY <2>1, <2>2
  <2> QED
    BY <2>3 DEF IInv, Comparable, Unseeded, SeededAlike
<1>2. IInv => RowsHonest
  BY <1>1 DEF IInv, RowsHonest
<1> QED
  BY <1>2, Invariant, PTL
----------------------------------------------------------------------------
(* Stage 1: tables and recursive functions on 0 .. N                       *)

\* BestTable of the table of what the layers cost at least.
BestRow(options, damage, i, row, total) ==
    [b \in 0 .. total |->
        Lowest({row[b - k] + damage[i][k] : k \in {k \in options[i] : k <= b}} \cup {Inf})]
FirstRow(total) == [b \in 0 .. total |-> IF b = 0 THEN 0 ELSE Inf]
BestTable(options, damage, total, best) ==
    /\ best \in [0 .. NL -> [0 .. total -> Nat]]
    /\ best[0] = FirstRow(total)
    /\ \A i \in 1 .. NL : best[i] = BestRow(options, damage, i, best[i - 1], total)
Costly(options, damage) ==
    \A l \in Layers : options[l] \subseteq Nat /\ \A k \in options[l] : damage[l][k] \in Nat

\* A row of the table is a row of naturals.
LEMMA BestRowTyped ==
    ASSUME NEW options, NEW damage, Costly(options, damage), NEW total \in Nat,
           NEW i \in Layers, NEW row \in [0 .. total -> Nat]
    PROVE  LET new == BestRow(options, damage, i, row, total)
           IN  /\ new \in [0 .. total -> Nat]
               /\ \A b \in 0 .. total :
                     /\ new[b] <= Inf
                     /\ \A k \in options[i] : k <= b => new[b] <= row[b - k] + damage[i][k]
                     /\ new[b] < Inf => \E k \in options[i] : k <= b /\ new[b] = row[b - k] + damage[i][k]
<1> DEFINE sums(b) == {row[b - k] + damage[i][k] : k \in {k \in options[i] : k <= b}} \cup {Inf}
<1>1. ASSUME NEW b \in 0 .. total
      PROVE  sums(b) \subseteq Nat /\ sums(b) # {}
  BY ShapeAssumption DEF Costly
<1>2. ASSUME NEW b \in 0 .. total
      PROVE  Lowest(sums(b)) \in sums(b) /\ \A x \in sums(b) : Lowest(sums(b)) <= x
  <2> HIDE DEF sums
  <2> QED
    BY <1>1, MinOf DEF Lowest
<1>3. BestRow(options, damage, i, row, total) = [b \in 0 .. total |-> Lowest(sums(b))]
  BY DEF BestRow
<1>4. \A b \in 0 .. total : Lowest(sums(b)) \in Nat
  BY <1>1, <1>2
<1>5. ASSUME NEW b \in 0 .. total
      PROVE  /\ Lowest(sums(b)) <= Inf
             /\ \A k \in options[i] : k <= b => Lowest(sums(b)) <= row[b - k] + damage[i][k]
             /\ Lowest(sums(b)) < Inf =>
                   \E k \in options[i] : k <= b /\ Lowest(sums(b)) = row[b - k] + damage[i][k]
  <2> DEFINE low == Lowest(sums(b))
  <2>1. low \in sums(b) /\ low \in Nat /\ \A x \in sums(b) : low <= x
    BY <1>2, <1>4
  <2> HIDE DEF low
  <2>2. low <= Inf
    BY <2>1
  <2>3. ASSUME NEW k \in options[i], k <= b PROVE low <= row[b - k] + damage[i][k]
    BY <2>1, <2>3
  <2>4. ASSUME low < Inf
        PROVE  \E k \in options[i] : k <= b /\ low = row[b - k] + damage[i][k]
    BY <2>1, <2>4, ShapeAssumption
  <2> QED
    BY <2>2, <2>3, <2>4 DEF low
<1> HIDE DEF sums
<1> QED
  BY <1>3, <1>4, <1>5

\* The table exists, and Best is it.
LEMMA BestTables ==
    ASSUME NEW options, NEW damage, Costly(options, damage), NEW total \in Nat
    PROVE  BestTable(options, damage, total, Best(options, damage, total))
<1> DEFINE S == [0 .. total -> Nat]
           step == [i \in 1 .. NL |-> [row \in S |-> BestRow(options, damage, i, row, total)]]
           fits(best) == best = [i \in 0 .. NL |->
                [b \in 0 .. total |->
                    IF i = 0 THEN (IF b = 0 THEN 0 ELSE Inf)
                    ELSE Lowest({best[i - 1][b - k] + damage[i][k] : k \in {k \in options[i] : k <= b}}
                            \cup {Inf})]]
<1>1. FirstRow(total) \in S
  BY ShapeAssumption DEF FirstRow
<1>2. step \in [1 .. NL -> [S -> S]]
  BY BestRowTyped DEF Layers
<1>3. PICK f \in [0 .. NL -> S] : f[0] = FirstRow(total) /\ \A i \in 1 .. NL : f[i] = step[i][f[i - 1]]
  <2> HIDE DEF S, step
  <2>1. NL \in Nat
    BY ShapeAssumption
  <2>2. NL \in Nat /\ FirstRow(total) \in S /\ step \in [1 .. NL -> [S -> S]]
    BY <1>1, <1>2, <2>1
  <2>3. \E f : Iteration(NL, S, FirstRow(total), step, f)
    BY <2>2, Iterated
  <2> QED
    BY <2>3 DEF Iteration
<1>4. ASSUME NEW i \in 1 .. NL PROVE f[i] = BestRow(options, damage, i, f[i - 1], total)
  <2>1. i - 1 \in 0 .. NL
    BY ShapeAssumption
  <2>2. f[i - 1] \in S /\ f[i] = step[i][f[i - 1]]
    BY <1>3, <2>1
  <2> HIDE DEF S
  <2> QED
    BY <2>2
<1>5. fits(f)
  <2>1. f = [i \in 0 .. NL |-> f[i]]
    BY <1>3
  <2>2. ASSUME NEW i \in 0 .. NL
        PROVE  f[i] = [b \in 0 .. total |->
                    IF i = 0 THEN (IF b = 0 THEN 0 ELSE Inf)
                    ELSE Lowest({f[i - 1][b - k] + damage[i][k] : k \in {k \in options[i] : k <= b}}
                            \cup {Inf})]
    <3>1. CASE i = 0
      BY <3>1, <1>3 DEF FirstRow
    <3>2. CASE i # 0
      <4>1. i \in 1 .. NL
        BY <3>2
      <4>2. f[i] = BestRow(options, damage, i, f[i - 1], total)
        BY <4>1, <1>4
      <4> QED
        BY <3>2, <4>2 DEF BestRow
    <3> QED
      BY <3>1, <3>2
  <2> QED
    BY <2>1, <2>2
<1>6. Best(options, damage, total) = CHOOSE best : fits(best)
  BY DEF Best
<1>7. fits(Best(options, damage, total))
  <2> HIDE DEF fits
  <2> QED
    BY <1>5, <1>6
<1> DEFINE best == Best(options, damage, total)
<1>8. best[0] = FirstRow(total) /\ DOMAIN best = 0 .. NL
  BY <1>7, ShapeAssumption DEF FirstRow
<1>9. best = [i \in 0 .. NL |-> best[i]]
  BY <1>7
<1>10. ASSUME NEW i \in 1 .. NL PROVE best[i] = BestRow(options, damage, i, best[i - 1], total)
  <2>1. i \in 0 .. NL /\ i # 0
    OBVIOUS
  <2> QED
    BY <1>7, <2>1 DEF BestRow
<1> HIDE DEF best, fits
<1>11. \A i \in 0 .. NL : best[i] \in S
  <2> DEFINE bad == {i \in 0 .. NL : best[i] \notin S}
  <2>1. ASSUME bad # {} PROVE FALSE
    <3>1. bad \subseteq Nat
      OBVIOUS
    <3>2. PICK n \in bad : \A m \in bad : n <= m
      <4> HIDE DEF bad
      <4> QED
        BY <2>1, <3>1, LeastOf
    <3>3. n # 0
      BY <1>1, <1>8, <3>2
    <3>4. n - 1 \in 0 .. NL /\ n \in 1 .. NL
      BY <3>2, <3>3, ShapeAssumption
    <3>5. n - 1 \notin bad
      BY <3>2, <3>4
    <3>6. best[n - 1] \in S
      BY <3>4, <3>5
    <3>7. BestRow(options, damage, n, best[n - 1], total) \in S
      BY <3>4, <3>6, BestRowTyped DEF Layers
    <3>8. best[n] \in S
      BY <1>10, <3>4, <3>7
    <3> QED
      BY <3>2, <3>8
  <2> QED
    BY <2>1
<1> QED
  BY <1>8, <1>9, <1>10, <1>11 DEF BestTable, best

----------------------------------------------------------------------------
(* The exact allocation of a total over the layers                         *)

\* What the first layers add up to.
UpTo(f, i) == Over(On(f, 1 .. i))

\* The sum over the first layers grows layer by layer.
LEMMA UpToSteps ==
    ASSUME NEW f \in [Layers -> Int]
    PROVE  /\ UpTo(f, 0) = 0 /\ UpTo(f, NL) = Over(f)
           /\ \A i \in 0 .. NL : UpTo(f, i) \in Int
           /\ \A i \in 1 .. NL : UpTo(f, i) = UpTo(f, i - 1) + f[i]
<1>1. IsFiniteSet(Layers) /\ NL \in Nat
  BY UpToFacts, ShapeAssumption DEF Layers
<1>2. \A i \in 0 .. NL : 1 .. i \in SUBSET Layers
  BY <1>1 DEF Layers
<1>3. UpTo(f, 0) = 0 /\ UpTo(f, NL) = Over(f)
  <2>1. 1 .. 0 = {} /\ 1 .. NL = Layers
    BY DEF Layers
  <2> QED
    BY <1>1, <2>1, OnStep DEF UpTo
<1>4. \A i \in 0 .. NL : UpTo(f, i) \in Int
  BY <1>1, <1>2, OnStep DEF UpTo
<1>5. ASSUME NEW i \in 1 .. NL PROVE UpTo(f, i) = UpTo(f, i - 1) + f[i]
  <2>1. 1 .. i = (1 .. (i - 1)) \cup {i} /\ 1 .. (i - 1) \in SUBSET Layers /\ i \in Layers \ (1 .. (i - 1))
    BY <1>1 DEF Layers
  <2>2. \A A \in SUBSET Layers : \A x \in Layers \ A : Over(On(f, A \cup {x})) = Over(On(f, A)) + f[x]
    BY <1>1, OnStep
  <2>3. Over(On(f, (1 .. (i - 1)) \cup {i})) = Over(On(f, 1 .. (i - 1))) + f[i]
    BY <2>1, <2>2
  <2> QED
    BY <2>1, <2>3 DEF UpTo
<1> QED
  BY <1>3, <1>4, <1>5

\* A choice out of the options, and what it costs.
Chosen(options, w) == w \in [Layers -> Nat] /\ \A l \in Layers : w[l] \in options[l]
CostOf(damage, w) == [l \in Layers |-> damage[l][w[l]]]

\* The table is a lower bound of every choice.
LEMMA BestBelow ==
    ASSUME NEW options, NEW damage, Costly(options, damage), NEW total \in Nat,
           NEW best, BestTable(options, damage, total, best),
           NEW w, Chosen(options, w), Over(w) = total
    PROVE  /\ CostOf(damage, w) \in [Layers -> Nat]
           /\ best[NL][total] <= Over(CostOf(damage, w))
<1> DEFINE c == CostOf(damage, w)
<1>1. c \in [Layers -> Nat] /\ w \in [Layers -> Nat]
  BY DEF CostOf, Chosen, Costly
<1>2. c \in [Layers -> Int] /\ w \in [Layers -> Int]
  BY <1>1
<1> DEFINE fine(i) == /\ UpTo(w, i) \in Nat /\ UpTo(c, i) \in Nat
                      /\ UpTo(w, i) <= total => best[i][UpTo(w, i)] <= UpTo(c, i)
           bad == {i \in 0 .. NL : ~ fine(i)}
<1>3. fine(0)
  <2>1. UpTo(w, 0) = 0 /\ UpTo(c, 0) = 0
    BY <1>2, UpToSteps
  <2>2. best[0][0] = 0
    BY DEF BestTable, FirstRow
  <2> QED
    BY <2>1, <2>2
<1>4. ASSUME NEW i \in 1 .. NL, fine(i - 1) PROVE fine(i)
  <2>1. /\ UpTo(w, i) = UpTo(w, i - 1) + w[i]
        /\ UpTo(c, i) = UpTo(c, i - 1) + c[i]
    BY <1>2, UpToSteps
  <2>2. i \in Layers /\ w[i] \in options[i] /\ w[i] \in Nat /\ c[i] = damage[i][w[i]] /\ c[i] \in Nat
    BY <1>1 DEF Chosen, CostOf, Layers
  <2>3. UpTo(w, i) \in Nat /\ UpTo(c, i) \in Nat
    BY <1>4, <2>1, <2>2
  <2>4. ASSUME UpTo(w, i) <= total PROVE best[i][UpTo(w, i)] <= UpTo(c, i)
    <3> DEFINE b == UpTo(w, i)
    <3>1. best[i - 1] \in [0 .. total -> Nat] /\ best[i] = BestRow(options, damage, i, best[i - 1], total)
      <4>1. i - 1 \in 0 .. NL
        BY ShapeAssumption
      <4> QED
        BY <4>1 DEF BestTable
    <3>2. /\ best[i] \in [0 .. total -> Nat]
          /\ \A a \in 0 .. total : \A k \in options[i] :
                k <= a => best[i][a] <= best[i - 1][a - k] + damage[i][k]
      <4>1. /\ BestRow(options, damage, i, best[i - 1], total) \in [0 .. total -> Nat]
            /\ \A a \in 0 .. total : \A k \in options[i] :
                  k <= a => BestRow(options, damage, i, best[i - 1], total)[a]
                               <= best[i - 1][a - k] + damage[i][k]
        BY <2>2, <3>1, BestRowTyped, ZenonT(60)
      <4> QED
        BY <3>1, <4>1
    <3>3. b \in 0 .. total /\ w[i] <= b /\ b - w[i] = UpTo(w, i - 1)
      BY <1>4, <2>1, <2>2, <2>3, <2>4
    <3>4. best[i][b] <= best[i - 1][UpTo(w, i - 1)] + c[i]
      BY <2>2, <3>2, <3>3
    <3>5. best[i - 1][UpTo(w, i - 1)] <= UpTo(c, i - 1)
      BY <1>4, <2>1, <2>2, <2>4
    <3>8. UpTo(w, i - 1) \in 0 .. total
      BY <1>4, <2>1, <2>2, <2>4
    <3>6. best[i][b] \in Nat /\ best[i - 1][UpTo(w, i - 1)] \in Nat
      BY <3>1, <3>2, <3>3, <3>8
    <3>7. UpTo(c, i - 1) \in Nat /\ c[i] \in Nat /\ UpTo(c, i) = UpTo(c, i - 1) + c[i]
      BY <1>4, <2>1, <2>2
    <3> HIDE DEF c
    <3> QED
      BY <3>4, <3>5, <3>6, <3>7
  <2> QED
    BY <2>3, <2>4
<1> HIDE DEF fine
<1>5. ASSUME bad # {} PROVE FALSE
  <2>1. bad \subseteq Nat
    OBVIOUS
  <2>2. PICK n \in bad : \A m \in bad : n <= m
    <3> HIDE DEF bad
    <3> QED
      BY <1>5, <2>1, LeastOf
  <2>3. n # 0 /\ n \in 0 .. NL
    BY <1>3, <2>2
  <2>4. n - 1 \in 0 .. NL /\ n - 1 \notin bad /\ n \in 1 .. NL
    BY <2>2, <2>3, ShapeAssumption
  <2> QED
    BY <1>4, <2>2, <2>4
<1>6. fine(NL)
  BY <1>5, ShapeAssumption
<1>7. UpTo(w, NL) = total /\ UpTo(c, NL) = Over(c)
  BY <1>2, UpToSteps
<1> QED
  BY <1>1, <1>6, <1>7 DEF fine

\* What is picked for a layer attains the entry of the table.
LEMMA PickFacts ==
    ASSUME NEW options, NEW damage, Costly(options, damage), NEW total \in Nat,
           NEW best, BestTable(options, damage, total, best), NEW small \in BOOLEAN,
           NEW i \in Layers, NEW b \in 0 .. total, best[i][b] < Inf
    PROVE  LET k == Pick(options, damage, best, small, i, b)
           IN  /\ k \in options[i] /\ k \in 0 .. b /\ b - k \in 0 .. total
               /\ best[i][b] = best[i - 1][b - k] + damage[i][k]
               /\ damage[i][k] \in Nat /\ best[i - 1][b - k] \in Nat /\ best[i - 1][b - k] < Inf
<1>1. best[i - 1] \in [0 .. total -> Nat] /\ best[i] = BestRow(options, damage, i, best[i - 1], total)
  <2>1. i - 1 \in 0 .. NL /\ i \in 1 .. NL
    BY ShapeAssumption DEF Layers
  <2> QED
    BY <2>1 DEF BestTable
<1>2. \E k \in options[i] : k <= b /\ best[i][b] = best[i - 1][b - k] + damage[i][k]
  BY <1>1, BestRowTyped
<1> DEFINE P == Picks(options, damage, best, i, b)
<1>3. P # {} /\ P \subseteq Nat /\ \A k \in P : k <= b
  BY <1>2 DEF Picks, Costly
<1>4. Min(P) \in P /\ Max(P) \in P
  <2> HIDE DEF P
  <2>1. P \subseteq Int /\ P \subseteq Nat /\ P # {} /\ b \in Int /\ \A k \in P : k <= b
    BY <1>3
  <2>2. Min(P) \in P
    BY <2>1, MinOf
  <2>3. Max(P) \in P
    BY <2>1, MaxOf
  <2> QED
    BY <2>2, <2>3
<1>5. PICK k : k = Pick(options, damage, best, small, i, b) /\ k \in P
  BY <1>4 DEF Pick
<1>6. k \in options[i] /\ k \in Nat /\ k <= b /\ best[i - 1][b - k] + damage[i][k] = best[i][b] /\ damage[i][k] \in Nat
  BY <1>5 DEF Picks, Costly
<1>7. b - k \in 0 .. total
  BY <1>6
<1>8. best[i - 1][b - k] \in Nat
  BY <1>1, <1>7
<1>9. best[i - 1][b - k] < Inf
  BY <1>6, <1>8, ShapeAssumption
<1> QED
  BY <1>5, <1>6, <1>7, <1>8, <1>9

\* What is left, layer by layer from the last one on.
Leaves(options, damage, best, total, small, left) ==
    /\ left[NL] = total
    /\ \A i \in Layers : left[i - 1] = left[i] - Pick(options, damage, best, small, i, left[i])

\* What is left for the first layers is a function, walked from the last layer on.
LEMMA LeftoverExists ==
    ASSUME NEW options, NEW damage, Costly(options, damage), NEW total \in Nat,
           NEW best, BestTable(options, damage, total, best), NEW small \in BOOLEAN, best[NL][total] < Inf
    PROVE  Leaves(options, damage, best, total, small, Leftover(options, damage, best, total, small))
<1> DEFINE pick(i, b) == Pick(options, damage, best, small, i, b)
           S == {b \in Int : TRUE}
           go(i, b) == IF b \in 0 .. total /\ best[i][b] < Inf THEN b - pick(i, b) ELSE 0
           step == [j \in 1 .. NL |-> [b \in 0 .. total |-> go(NL - j + 1, b)]]
<1>1. ASSUME NEW i \in Layers, NEW b \in 0 .. total PROVE go(i, b) \in 0 .. total
  BY PickFacts
<1>2. NL \in Nat /\ total \in 0 .. total /\ step \in [1 .. NL -> [0 .. total -> 0 .. total]]
  <2>1. ASSUME NEW j \in 1 .. NL PROVE NL - j + 1 \in Layers
    BY ShapeAssumption DEF Layers
  <2> HIDE DEF go
  <2> QED
    BY <1>1, <2>1, ShapeAssumption
<1>3. PICK f : Iteration(NL, 0 .. total, total, step, f)
  <2> HIDE DEF step
  <2> QED
    BY <1>2, Iterated
<1> DEFINE left == [i \in 0 .. NL |-> f[NL - i]]
<1>4. left[NL] = total /\ \A i \in 0 .. NL : left[i] \in 0 .. total
  <2>1. NL - NL = 0 /\ NL \in 0 .. NL /\ \A i \in 0 .. NL : NL - i \in 0 .. NL
    BY <1>2
  <2>2. f[0] = total /\ \A j \in 0 .. NL : f[j] \in 0 .. total
    BY <1>3 DEF Iteration
  <2> QED
    BY <2>1, <2>2
<1>5. ASSUME NEW i \in Layers PROVE left[i - 1] = go(i, left[i])
  <2>1. NL - i + 1 \in 1 .. NL /\ i - 1 \in 0 .. NL /\ i \in 0 .. NL /\ NL - (i - 1) = NL - i + 1
        /\ (NL - i + 1) - 1 = NL - i /\ NL - (NL - i + 1) + 1 = i
    BY <1>2 DEF Layers
  <2>2. left[i - 1] = f[NL - i + 1] /\ left[i] = f[NL - i]
    BY <2>1
  <2>3. f[NL - i + 1] = step[NL - i + 1][f[NL - i]]
    <3>1. \A j \in 1 .. NL : f[j] = step[j][f[j - 1]]
      BY <1>3 DEF Iteration
    <3> HIDE DEF step
    <3> QED
      BY <2>1, <3>1
  <2>4. f[NL - i] \in 0 .. total
    BY <1>4, <2>1, <2>2
  <2>5. step[NL - i + 1][f[NL - i]] = go(NL - (NL - i + 1) + 1, f[NL - i])
    <3> HIDE DEF go
    <3> QED
      BY <2>1, <2>4
  <2> QED
    BY <2>1, <2>2, <2>3, <2>5
<1> HIDE DEF left
<1> DEFINE bad == {j \in 0 .. NL : ~ (best[NL - j][left[NL - j]] < Inf)}
<1>6. ASSUME bad # {} PROVE FALSE
  <2>1. bad \subseteq Nat
    OBVIOUS
  <2>2. PICK n \in bad : \A m \in bad : n <= m
    <3> HIDE DEF bad
    <3> QED
      BY <1>6, <2>1, LeastOf
  <2>3. n # 0
    BY <1>2, <1>4, <2>2
  <2>4. n - 1 \in 0 .. NL /\ n - 1 \notin bad /\ n \in 1 .. NL
    BY <2>2, <2>3, <1>2
  <2> DEFINE i == NL - (n - 1)
  <2>5. i \in Layers /\ i - 1 = NL - n /\ i \in 0 .. NL
    BY <1>2, <2>4 DEF Layers
  <2>6. best[i][left[i]] < Inf /\ left[i] \in 0 .. total
    BY <2>4, <2>5, <1>4
  <2> HIDE DEF i
  <2>7. best[i - 1][left[i] - pick(i, left[i])] < Inf
    BY <2>5, <2>6, PickFacts
  <2>8. left[i - 1] = left[i] - pick(i, left[i])
    BY <1>5, <2>5, <2>6
  <2> QED
    BY <2>2, <2>5, <2>7, <2>8
<1>7. ASSUME NEW i \in Layers PROVE left[i - 1] = left[i] - pick(i, left[i])
  <2>1. NL - i \in 0 .. NL /\ NL - (NL - i) = i /\ i \in 0 .. NL
    BY <1>2 DEF Layers
  <2>2. NL - i \notin bad
    BY <1>6
  <2>3. best[i][left[i]] < Inf
    BY <2>1, <2>2
  <2> QED
    BY <1>4, <1>5, <2>1, <2>3
<1> DEFINE fits(g) == g = [i \in 0 .. NL |->
               IF i = NL THEN total
               ELSE g[i + 1] - Pick(options, damage, best, small, i + 1, g[i + 1])]
<1>8. fits(left)
  <2>1. left = [i \in 0 .. NL |-> left[i]]
    BY DEF left
  <2>2. ASSUME NEW i \in 0 .. NL, i # NL
        PROVE  left[i] = left[i + 1] - pick(i + 1, left[i + 1])
    <3>1. i + 1 \in Layers /\ (i + 1) - 1 = i
      BY <1>2, <2>2 DEF Layers
    <3> QED
      BY <1>7, <3>1
  <2> QED
    BY <1>4, <2>1, <2>2
<1>9. fits(Leftover(options, damage, best, total, small))
  <2>1. Leftover(options, damage, best, total, small) = CHOOSE g : fits(g)
    BY DEF Leftover
  <2> HIDE DEF fits
  <2> QED
    BY <1>8, <2>1
<1> DEFINE result == Leftover(options, damage, best, total, small)
<1>10. result[NL] = total
  BY <1>2, <1>9
<1>11. ASSUME NEW i \in Layers PROVE result[i - 1] = result[i] - pick(i, result[i])
  <2>1. i - 1 \in 0 .. NL /\ i - 1 # NL /\ (i - 1) + 1 = i
    BY <1>2 DEF Layers
  <2> HIDE DEF result
  <2> QED
    BY <1>9, <2>1 DEF result
<1> QED
  BY <1>10, <1>11 DEF Leaves

\* The dynamic program is exact: what it returns is a choice of the total, and
\* none costs less; and it returns one when some choice costs less than infinity.
LEMMA AllocateFacts ==
    ASSUME NEW options, NEW damage, Costly(options, damage), NEW total \in Nat, NEW small \in BOOLEAN
    PROVE  /\ \A v \in Allocate(options, damage, total, small) :
                 /\ Chosen(options, v) /\ Over(v) = total
                 /\ \A w : Chosen(options, w) /\ Over(w) = total =>
                       Over(CostOf(damage, v)) <= Over(CostOf(damage, w))
           /\ \A w : Chosen(options, w) /\ Over(w) = total /\ Over(CostOf(damage, w)) < Inf =>
                 Allocate(options, damage, total, small) # {}
<1> DEFINE best == Best(options, damage, total)
           left == Leftover(options, damage, best, total, small)
           answer == [l \in Layers |-> Pick(options, damage, best, small, l, left[l])]
<1>1. Allocate(options, damage, total, small) = IF best[NL][total] >= Inf THEN {} ELSE {answer}
  BY DEF Allocate
<1>2. BestTable(options, damage, total, best)
  BY BestTables
<1>3. best[NL] \in [0 .. total -> Nat] /\ best[NL][total] \in Nat
  BY <1>2, ShapeAssumption DEF BestTable
<1> HIDE DEF best
<1>4. \A w : Chosen(options, w) /\ Over(w) = total =>
          best[NL][total] <= Over(CostOf(damage, w)) /\ Over(CostOf(damage, w)) \in Int
  <2> SUFFICES ASSUME NEW w, Chosen(options, w), Over(w) = total
               PROVE  best[NL][total] <= Over(CostOf(damage, w)) /\ Over(CostOf(damage, w)) \in Int
    OBVIOUS
  <2>1. CostOf(damage, w) \in [Layers -> Nat] /\ best[NL][total] <= Over(CostOf(damage, w))
    BY <1>2, BestBelow
  <2>2. CostOf(damage, w) \in [Layers -> Int] /\ IsFiniteSet(Layers)
    BY <2>1, UpToFacts, ShapeAssumption DEF Layers
  <2> QED
    BY <2>1, <2>2, SumStep
<1>5. ASSUME best[NL][total] < Inf
      PROVE  Chosen(options, answer) /\ Over(answer) = total /\ Over(CostOf(damage, answer)) = best[NL][total]
  <2>1. Leaves(options, damage, best, total, small, left)
    BY <1>2, <1>5, LeftoverExists
  <2> DEFINE fine(i) == left[i] \in 0 .. total /\ best[i][left[i]] < Inf
             bad == {j \in 0 .. NL : ~ fine(NL - j)}
  <2>2. fine(NL)
    BY <1>5, <2>1 DEF Leaves
  <2>3. ASSUME NEW i \in Layers, fine(i)
        PROVE  /\ fine(i - 1) /\ answer[i] \in options[i] /\ answer[i] \in Nat
               /\ left[i] = left[i - 1] + answer[i]
               /\ best[i][left[i]] = best[i - 1][left[i - 1]] + damage[i][answer[i]]
               /\ best[i - 1][left[i - 1]] \in Nat /\ damage[i][answer[i]] \in Nat
    <3> DEFINE k == Pick(options, damage, best, small, i, left[i])
    <3>1. /\ k \in options[i] /\ k \in 0 .. left[i] /\ left[i] - k \in 0 .. total
          /\ best[i][left[i]] = best[i - 1][left[i] - k] + damage[i][k]
          /\ damage[i][k] \in Nat /\ best[i - 1][left[i] - k] \in Nat /\ best[i - 1][left[i] - k] < Inf
      BY <1>2, <2>3, PickFacts
    <3>2. answer[i] = k
      OBVIOUS
    <3>3. left[i - 1] = left[i] - k
      BY <2>1 DEF Leaves
    <3> HIDE DEF k, left
    <3> QED
      BY <2>3, <3>1, <3>2, <3>3
  <2> HIDE DEF left, answer
  <2>4. ASSUME bad # {} PROVE FALSE
    <3>1. bad \subseteq Nat
      OBVIOUS
    <3>2. PICK n \in bad : \A m \in bad : n <= m
      <4> HIDE DEF bad
      <4> QED
        BY <2>4, <3>1, LeastOf
    <3>3. n \in 0 .. NL /\ ~ fine(NL - n)
      BY <3>2
    <3>4. n # 0
      BY <2>2, <3>3, ShapeAssumption
    <3>5. n - 1 \in 0 .. NL /\ n - 1 \notin bad
      BY <3>2, <3>3, <3>4, ShapeAssumption
    <3>6. fine(NL - (n - 1))
      BY <3>5
    <3>7. NL - (n - 1) \in Layers /\ (NL - (n - 1)) - 1 = NL - n
      BY <3>3, <3>4, ShapeAssumption DEF Layers
    <3> HIDE DEF fine
    <3> QED
      BY <2>3, <3>3, <3>6, <3>7
  <2>5. \A i \in 0 .. NL : fine(i)
    <3> SUFFICES ASSUME NEW i \in 0 .. NL PROVE fine(i)
      OBVIOUS
    <3>1. NL - i \in 0 .. NL /\ NL - (NL - i) = i
      BY ShapeAssumption
    <3>2. NL - i \notin bad
      BY <2>4
    <3> HIDE DEF fine
    <3> QED
      BY <3>1, <3>2
  <2>6. \A i \in Layers : /\ i \in 0 .. NL /\ i - 1 \in 0 .. NL /\ i \in 1 .. NL
    BY ShapeAssumption DEF Layers
  <2>7. \A i \in Layers : /\ answer[i] \in options[i] /\ answer[i] \in Nat
                          /\ left[i] = left[i - 1] + answer[i]
                          /\ best[i][left[i]] = best[i - 1][left[i - 1]] + damage[i][answer[i]]
                          /\ best[i - 1][left[i - 1]] \in Nat /\ damage[i][answer[i]] \in Nat
    BY <2>3, <2>5, <2>6
  <2>8. answer \in [Layers -> Nat]
    BY <2>7 DEF answer
  <2> DEFINE c == CostOf(damage, answer)
  <2>9. c \in [Layers -> Nat] /\ \A i \in Layers : c[i] = damage[i][answer[i]]
    BY <2>7 DEF CostOf
  <2> HIDE DEF c
  <2> DEFINE match(i) == /\ UpTo(answer, i) = left[i] - left[0]
                         /\ UpTo(c, i) = best[i][left[i]] - best[0][left[0]]
             off == {i \in 0 .. NL : ~ match(i)}
  <2>10. \A i \in 0 .. NL : left[i] \in Int /\ best[i][left[i]] \in Int
    <3>1. \A i \in 0 .. NL : best[i] \in [0 .. total -> Nat]
      BY <1>2 DEF BestTable
    <3> QED
      BY <2>5, <3>1
  <2>11. answer \in [Layers -> Int] /\ c \in [Layers -> Int]
    BY <2>8, <2>9
  <2>12. match(0)
    <3>1. UpTo(answer, 0) = 0 /\ UpTo(c, 0) = 0
      BY <2>11, UpToSteps
    <3>2. left[0] \in Int /\ best[0][left[0]] \in Int
      BY <2>10, ShapeAssumption
    <3> QED
      BY <3>1, <3>2
  <2>13. ASSUME NEW i \in Layers, match(i - 1) PROVE match(i)
    <3>1. UpTo(answer, i) = UpTo(answer, i - 1) + answer[i] /\ UpTo(c, i) = UpTo(c, i - 1) + c[i]
      BY <2>6, <2>11, UpToSteps
    <3>2. left[0] \in Int /\ best[0][left[0]] \in Int
      BY <2>10, ShapeAssumption
    <3>3. left[i - 1] \in Int /\ best[i - 1][left[i - 1]] \in Int /\ answer[i] \in Int /\ c[i] \in Int
      BY <2>6, <2>7, <2>9, <2>10
    <3> QED
      BY <2>7, <2>9, <2>13, <3>1, <3>2, <3>3
  <2>14. ASSUME off # {} PROVE FALSE
    <3>1. off \subseteq Nat
      OBVIOUS
    <3>2. PICK n \in off : \A m \in off : n <= m
      <4> HIDE DEF off
      <4> QED
        BY <2>14, <3>1, LeastOf
    <3>3. n \in 0 .. NL /\ ~ match(n)
      BY <3>2
    <3>4. n # 0
      BY <2>12, <3>3
    <3>5. n - 1 \in 0 .. NL /\ n - 1 \notin off /\ n \in Layers
      BY <3>2, <3>3, <3>4, ShapeAssumption DEF Layers
    <3>6. match(n - 1)
      BY <3>5
    <3> HIDE DEF match
    <3> QED
      BY <2>13, <3>3, <3>5, <3>6
  <2>15. match(NL)
    BY <2>14, ShapeAssumption
  <2>16. left[0] = 0 /\ best[0][left[0]] = 0
    <3>1. fine(0)
      BY <2>5, ShapeAssumption
    <3>2. best[0] = FirstRow(total)
      BY <1>2 DEF BestTable
    <3> QED
      BY <3>1, <3>2, ShapeAssumption DEF FirstRow
  <2>17. left[NL] = total
    BY <2>1 DEF Leaves, left
  <2>18. UpTo(answer, NL) = Over(answer) /\ UpTo(c, NL) = Over(c)
    BY <2>11, UpToSteps
  <2>19. Over(answer) = total /\ Over(c) = best[NL][total]
    BY <2>15, <2>16, <2>17, <2>18, <1>3
  <2> QED
    BY <2>7, <2>8, <2>19 DEF Chosen, c
<1> HIDE DEF answer, left
<1>6. ASSUME NEW v \in Allocate(options, damage, total, small)
      PROVE  v = answer /\ best[NL][total] < Inf
  BY <1>1, <1>3, ShapeAssumption
<1>7. ASSUME NEW v \in Allocate(options, damage, total, small)
      PROVE  /\ Chosen(options, v) /\ Over(v) = total
             /\ Over(CostOf(damage, v)) = best[NL][total]
  BY <1>5, <1>6
<1>8. ASSUME NEW w, Chosen(options, w), Over(w) = total, Over(CostOf(damage, w)) < Inf
      PROVE  Allocate(options, damage, total, small) # {}
  <2>1. best[NL][total] <= Over(CostOf(damage, w)) /\ Over(CostOf(damage, w)) \in Int
    BY <1>4, <1>8
  <2>2. ~ (best[NL][total] >= Inf)
    BY <1>3, <1>8, <2>1, ShapeAssumption
  <2> QED
    BY <1>1, <2>2
<1> QED
  BY <1>4, <1>7, <1>8

----------------------------------------------------------------------------
(* Totals, settling and shedding                                           *)

\* The totals are those of the choices.
LEMMA TotalsAre ==
    ASSUME NEW options, \A l \in Layers : options[l] \subseteq Nat
    PROVE  /\ \A t : t \in Totals(options) <=> \E w : Chosen(options, w) /\ Over(w) = t
           /\ Totals(options) \subseteq Nat
<1> DEFINE V == {v \in [Layers -> UNION {options[l] : l \in Layers}] :
                                          \A l \in Layers : v[l] \in options[l]}
<1>1. \A w : w \in V <=> Chosen(options, w)
  <2>1. ASSUME NEW w, w \in V PROVE Chosen(options, w)
    BY <2>1 DEF Chosen
  <2>2. ASSUME NEW w, Chosen(options, w) PROVE w \in V
    <3>1. w \in [Layers -> Nat] /\ \A l \in Layers : w[l] \in options[l]
      BY <2>2 DEF Chosen
    <3>2. \A l \in Layers : w[l] \in UNION {options[m] : m \in Layers}
      BY <3>1
    <3>3. w = [l \in Layers |-> w[l]]
      BY <3>1
    <3>4. w \in [Layers -> UNION {options[l] : l \in Layers}]
      BY <3>2, <3>3
    <3> QED
      BY <3>1, <3>4
  <2> QED
    BY <2>1, <2>2
<1>2. Totals(options) = {Over(v) : v \in V}
  BY DEF Totals
<1> HIDE DEF V
<1>3. \A t : t \in Totals(options) <=> \E w : Chosen(options, w) /\ Over(w) = t
  BY <1>1, <1>2
<1>4. ASSUME NEW w, Chosen(options, w) PROVE Over(w) \in Nat
  <2>1. w \in [Layers -> Nat] /\ IsFiniteSet(Layers)
    BY <1>4, UpToFacts, ShapeAssumption DEF Chosen, Layers
  <2> QED
    BY <2>1, SumNat
<1> QED
  BY <1>3, <1>4

\* The nearest total is one, and the wish itself when some choice meets it.
LEMMA NearestFacts ==
    ASSUME NEW options, Totals(options) \subseteq Nat, Totals(options) # {}, NEW wish \in Int
    PROVE  /\ Nearest(options, wish) \in Totals(options)
           /\ wish \in Totals(options) => Nearest(options, wish) = wish
<1> DEFINE T == Totals(options)
           far(t) == IF t > wish THEN t - wish ELSE wish - t
           nearer(t, u) == far(t) < far(u) \/ (far(t) = far(u) /\ t <= u)
           key(t) == 2 * far(t) + (IF t > wish THEN 1 ELSE 0)
           keys == {key(t) : t \in T}
<1>1. keys \subseteq Nat /\ keys # {}
  OBVIOUS
<1>2. PICK k \in keys : \A j \in keys : k <= j
  <2> HIDE DEF keys
  <2> QED
    BY <1>1, LeastOf
<1>3. PICK t \in T : k = key(t)
  BY <1>2
<1>4. ASSUME NEW u \in T PROVE nearer(t, u)
  <2>1. key(t) <= key(u)
    BY <1>2, <1>3
  <2> QED
    BY <2>1
<1>5. Nearest(options, wish) = CHOOSE x \in T : \A u \in T : nearer(x, u)
  BY DEF Nearest
<1>6. Nearest(options, wish) \in T /\ \A u \in T : nearer(Nearest(options, wish), u)
  <2> HIDE DEF T, nearer
  <2> QED
    BY <1>3, <1>4, <1>5
<1>7. ASSUME wish \in T PROVE Nearest(options, wish) = wish
  <2>1. nearer(Nearest(options, wish), wish) /\ Nearest(options, wish) \in Nat
    BY <1>6, <1>7
  <2> QED
    BY <2>1
<1> QED
  BY <1>6, <1>7

\* What RCO settles on: a choice, of the wished total if any has it, and none of
\* the same total costs less.
LEMMA SettleFacts ==
    ASSUME NEW options, NEW damage, Costly(options, damage), NEW wish \in Int,
           \E w : Chosen(options, w),
           \A w : Chosen(options, w) => Over(CostOf(damage, w)) < Inf,
           NEW v, v = Settle(options, damage, wish)
    PROVE  /\ Chosen(options, v)
           /\ Over(v) # wish => \A w : Chosen(options, w) => Over(w) # wish
           /\ \A w : Chosen(options, w) /\ Over(w) = Over(v) =>
                 Over(CostOf(damage, v)) <= Over(CostOf(damage, w))
<1> DEFINE t == Nearest(options, wish)
<1>1. /\ \A u : u \in Totals(options) <=> \E w : Chosen(options, w) /\ Over(w) = u
      /\ Totals(options) \subseteq Nat
  BY TotalsAre DEF Costly
<1>2. Totals(options) # {}
  BY <1>1
<1>3. t \in Totals(options) /\ (wish \in Totals(options) => t = wish)
  BY <1>1, <1>2, NearestFacts
<1> HIDE DEF t
<1>4. t \in Nat /\ \E w : Chosen(options, w) /\ Over(w) = t
  BY <1>1, <1>3
<1>5. /\ \A x \in Allocate(options, damage, t, FALSE) :
                 /\ Chosen(options, x) /\ Over(x) = t
                 /\ \A w : Chosen(options, w) /\ Over(w) = t =>
                       Over(CostOf(damage, x)) <= Over(CostOf(damage, w))
      /\ \A w : Chosen(options, w) /\ Over(w) = t /\ Over(CostOf(damage, w)) < Inf =>
                 Allocate(options, damage, t, FALSE) # {}
  BY <1>4, AllocateFacts
<1>6. Allocate(options, damage, t, FALSE) # {}
  BY <1>4, <1>5
<1>7. v = CHOOSE x \in Allocate(options, damage, t, FALSE) : TRUE
  <2>1. UNION {Allocate(options, damage, u, FALSE) : u \in {t}} = Allocate(options, damage, t, FALSE)
    OBVIOUS
  <2>2. v = CHOOSE x \in UNION {Allocate(options, damage, u, FALSE) : u \in {t}} : TRUE
    BY DEF Settle, t
  <2> QED
    BY <2>1, <2>2
<1>8. v \in Allocate(options, damage, t, FALSE)
  BY <1>6, <1>7
<1>9. Chosen(options, v) /\ Over(v) = t /\ \A w : Chosen(options, w) /\ Over(w) = t =>
                       Over(CostOf(damage, v)) <= Over(CostOf(damage, w))
  BY <1>5, <1>8
<1> QED
  BY <1>1, <1>3, <1>9

----------------------------------------------------------------------------
\* A sum over a part is at most the sum, and is the sum when the rest is zero.
LEMMA SumPart ==
    ASSUME NEW D, IsFiniteSet(D), NEW f \in [D -> Int], \A l \in D : f[l] >= 0, NEW A \in SUBSET D
    PROVE  /\ Over(On(f, A)) <= Over(f)
           /\ (\A l \in D \ A : f[l] = 0) => Over(On(f, A)) = Over(f)
<1> DEFINE s(B) == Over(On(f, A \cup B))
           good == {B \in SUBSET D : s({}) <= s(B) /\ ((\A l \in D \ A : f[l] = 0) => s({}) = s(B))}
<1>1. /\ On(f, D) = f
      /\ \A B \in SUBSET D : Over(On(f, B)) \in Int
      /\ \A B \in SUBSET D : \A x \in D \ B : Over(On(f, B \cup {x})) = Over(On(f, B)) + f[x]
  BY OnStep
<1>2. {} \in good
  BY <1>1
<1>3. ASSUME NEW B \in SUBSET D, NEW x \in D \ B, B \in good PROVE B \cup {x} \in good
  <2>0. A \cup B \in SUBSET D /\ s({}) \in Int /\ s(B) \in Int /\ f[x] \in Int /\ f[x] >= 0 /\ B \cup {x} \in SUBSET D
    <3>1. A \cup {} \in SUBSET D
      OBVIOUS
    <3> QED
      BY <1>1, <3>1
  <2>1. CASE x \in A
    <3>1. A \cup (B \cup {x}) = A \cup B
      BY <2>1
    <3>2. s(B \cup {x}) = s(B)
      BY <3>1
    <3> HIDE DEF s
    <3> QED
      BY <1>3, <2>0, <3>2
  <2>2. CASE x \notin A
    <3>1. A \cup (B \cup {x}) = (A \cup B) \cup {x} /\ x \in D \ (A \cup B)
      BY <2>2
    <3>2. Over(On(f, (A \cup B) \cup {x})) = Over(On(f, A \cup B)) + f[x]
      BY <1>1, <2>0, <3>1
    <3>3. s(B \cup {x}) = s(B) + f[x]
      BY <3>1, <3>2
    <3>4. (\A l \in D \ A : f[l] = 0) => f[x] = 0
      BY <2>2
    <3> HIDE DEF s
    <3> QED
      BY <1>3, <2>0, <3>3, <3>4
  <2> QED
    BY <2>1, <2>2
<1>4. D \in good
  <2> HIDE DEF good
  <2> QED
    BY <1>2, <1>3, GrowTo
<1>5. A \cup D = D /\ A \cup {} = A
  OBVIOUS
<1> QED
  BY <1>1, <1>4, <1>5

\* Of the elements of a finite set one has the least key, one the greatest.
LEMMA KeyBounds ==
    ASSUME NEW D, IsFiniteSet(D), D # {}, NEW key \in [D -> Nat]
    PROVE  /\ \E z \in D : \A m \in D : key[m] <= key[z]
           /\ \E z \in D : \A m \in D : key[z] <= key[m]
<1> DEFINE K == {key[m] : m \in D}
<1>1. K \subseteq Nat /\ K \subseteq Int /\ K # {} /\ \A k \in K : k <= Over(key)
  BY SumNat
<1>2. Over(key) \in Int
  BY SumNat
<1> HIDE DEF K
<1>3. Max(K) \in K /\ \A k \in K : k <= Max(K)
  BY <1>1, <1>2, MaxOf
<1>4. Min(K) \in K /\ \A k \in K : Min(K) <= k
  BY <1>1, MinOf
<1> QED
  BY <1>3, <1>4 DEF K

\* To give more to the cheaper costs less.
LEMMA Exchange ==
    \A a, b, x, y \in Nat : (a <= b /\ y <= x) \/ (b <= a /\ x <= y) =>
        a * x + b * y <= a * y + b * x
<1>1. ASSUME NEW a \in Nat, NEW b \in Nat, NEW x \in Nat, NEW y \in Nat, a <= b, y <= x
      PROVE  a * x + b * y <= a * y + b * x
  <2>1. PICK d \in Nat : b = a + d
    <3>1. b - a \in Nat /\ b = a + (b - a)
      BY <1>1
    <3> QED
      BY <3>1
  <2>2. PICK e \in Nat : x = y + e
    <3>1. x - y \in Nat /\ x = y + (x - y)
      BY <1>1
    <3> QED
      BY <3>1
  <2>3. d * e \in Nat /\ a * e \in Nat /\ a * y \in Nat /\ d * y \in Nat
    OBVIOUS
  <2>4. a * x = a * y + a * e /\ b * y = a * y + d * y /\ b * x = a * y + d * y + a * e + d * e
    BY <2>1, <2>2
  <2> QED
    BY <2>3, <2>4
<1>2. ASSUME NEW a \in Nat, NEW b \in Nat, NEW x \in Nat, NEW y \in Nat, b <= a, x <= y
      PROVE  a * x + b * y <= a * y + b * x
  <2>1. b * y + a * x <= b * x + a * y
    BY <1>1, <1>2
  <2>2. a * x \in Nat /\ b * y \in Nat /\ a * y \in Nat /\ b * x \in Nat
    OBVIOUS
  <2> QED
    BY <2>1, <2>2
<1> QED
  BY <1>1, <1>2

\* Shedding in the order of the keys, each layer down to its room, sheds the
\* whole number, and no other way of shedding it costs less.
Drained(D, room, n, key) ==
    [l \in D |-> Least(room[l], Most(0, n - Over(On(room, {m \in D : key[m] < key[l]}))))]
Cheapest(D, room, n, cost, x) ==
    /\ x \in [D -> Nat] /\ \A l \in D : x[l] <= room[l]
    /\ Over(x) = n
    /\ \A y \in [D -> Nat] : (\A l \in D : y[l] <= room[l]) /\ Over(y) = n =>
          Over([l \in D |-> cost[l] * x[l]]) <= Over([l \in D |-> cost[l] * y[l]])

\* Taking from the cheapest first, each as much as it has, costs the least.
LEMMA ShedInOrder ==
    ASSUME NEW D, IsFiniteSet(D), NEW room \in [D -> Nat], NEW n \in Nat, n <= Over(room),
           NEW key \in [D -> Nat], \A l, m \in D : key[l] = key[m] => l = m,
           NEW cost \in [D -> Nat], \A l, m \in D : key[l] <= key[m] => cost[l] <= cost[m],
           NEW x, x = Drained(D, room, n, key)
    PROVE  Cheapest(D, room, n, cost, x)
<1> DEFINE before(l) == {m \in D : key[m] < key[l]}
           P(l) == Over(On(room, before(l)))
<1>0. /\ \A l \in D : key[l] \in Nat /\ room[l] \in Nat /\ cost[l] \in Nat
      /\ room \in [D -> Int]
  OBVIOUS
<1>1. ASSUME NEW l \in D PROVE P(l) \in Nat
  <2>1. before(l) \subseteq D /\ IsFiniteSet(before(l))
    BY FS_Subset
  <2>2. On(room, before(l)) \in [before(l) -> Nat]
    BY <2>1 DEF On
  <2> QED
    BY <2>1, <2>2, SumNat
<1>2. ASSUME NEW l \in D
      PROVE  x[l] = Least(room[l], Most(0, n - P(l)))
  BY DEF Drained
<1>3. ASSUME NEW l \in D, NEW m \in D, key[l] < key[m] PROVE P(l) + room[l] <= P(m)
  <2> DEFINE A == before(l) \cup {l}
             g == On(room, before(m))
             f == [k \in before(m) |-> IF k \in A THEN room[k] ELSE 0]
  <2>1. before(l) \in SUBSET D /\ l \in D \ before(l) /\ before(m) \in SUBSET D /\ A \subseteq before(m)
        /\ IsFiniteSet(before(m))
    BY <1>0, <1>3, FS_Subset
  <2>2. Over(On(room, A)) = P(l) + room[l]
    <3>1. \A B \in SUBSET D : \A k \in D \ B : Over(On(room, B \cup {k})) = Over(On(room, B)) + room[k]
      BY <1>0, OnStep
    <3> QED
      BY <2>1, <3>1
  <2> HIDE DEF A
  <2>3. g \in [before(m) -> Int] /\ A \in SUBSET before(m)
    BY <1>0, <2>1 DEF On
  <2>4. On(g, A) = On(room, A)
    BY <2>3 DEF On
  <2>5. \A k \in before(m) : g[k] \in Nat
    BY <1>0, <2>1 DEF On
  <2> HIDE DEF g
  <2>6. Over(On(g, A)) <= Over(g)
    BY <2>1, <2>3, <2>5, SumPart
  <2> QED
    BY <2>2, <2>4, <2>6 DEF g
<1> HIDE DEF P
<1>4. /\ x \in [D -> Nat] /\ \A l \in D : x[l] <= room[l]
  <2>1. ASSUME NEW l \in D PROVE x[l] \in Nat /\ x[l] <= room[l]
    BY <1>0, <1>1, <1>2 DEF Least, Most
  <2> QED
    BY <2>1 DEF Drained
<1>5. \A l \in D : P(l) + room[l] <= n => x[l] = room[l]
  BY <1>0, <1>1, <1>2 DEF Least, Most
<1>6. ASSUME NEW l \in D, before(l) # {}
      PROVE  \E q \in before(l) : P(l) = P(q) + room[q]
  <2>1. IsFiniteSet(before(l)) /\ [m \in before(l) |-> key[m]] \in [before(l) -> Nat]
    BY <1>0, FS_Subset
  <2>2. PICK q \in before(l) : \A m \in before(l) : key[m] <= key[q]
    <3>1. \E q \in before(l) : \A m \in before(l) : [k \in before(l) |-> key[k]][m] <= [k \in before(l) |-> key[k]][q]
      <4> DEFINE B == before(l)
                 kk == [m \in B |-> key[m]]
      <4>1. IsFiniteSet(B) /\ B # {} /\ kk \in [B -> Nat]
        BY <1>6, <2>1
      <4> HIDE DEF B, kk
      <4>2. \E q \in B : \A m \in B : kk[m] <= kk[q]
        BY <4>1, KeyBounds
      <4> QED
        BY <4>2 DEF B, kk
    <3> QED
      BY <3>1
  <2>3. before(l) = before(q) \cup {q} /\ q \in D \ before(q) /\ before(q) \in SUBSET D
    BY <1>0, <2>2
  <2>4. \A B \in SUBSET D : \A k \in D \ B : Over(On(room, B \cup {k})) = Over(On(room, B)) + room[k]
    BY <1>0, OnStep
  <2>5. P(l) = P(q) + room[q]
    BY <2>3, <2>4 DEF P
  <2> QED
    BY <2>5
<1>7. \A l \in D : before(l) = {} => P(l) = 0
  BY <1>0, OnStep DEF P
<1>8. CASE \A l \in D : P(l) + room[l] <= n
  <2>1. x = room
    BY <1>4, <1>5, <1>8
  <2>2. Over(room) \in Nat
    BY SumNat
  <2>3. Over(room) = n
    <3>1. CASE D = {}
      <4>1. Over(room) = 0
        BY <1>0, <3>1, SumStep
      <4> QED
        BY <4>1
    <3>2. CASE D # {}
      <4>1. PICK z \in D : \A m \in D : key[m] <= key[z]
        BY <3>2, KeyBounds
      <4>2. D = before(z) \cup {z} /\ z \in D \ before(z) /\ before(z) \in SUBSET D
        BY <1>0, <4>1
      <4>3. \A B \in SUBSET D : \A k \in D \ B : Over(On(room, B \cup {k})) = Over(On(room, B)) + room[k]
        BY <1>0, OnStep
      <4>4. On(room, D) = room
        BY <1>0, OnStep
      <4>5. Over(room) = P(z) + room[z]
        BY <4>2, <4>3, <4>4 DEF P
      <4> QED
        BY <1>8, <2>2, <4>5
    <3> QED
      BY <3>1, <3>2
  <2>4. ASSUME NEW y \in [D -> Nat], \A l \in D : y[l] <= room[l], Over(y) = n PROVE y = x
    <3>1. y \in [D -> Int]
      OBVIOUS
    <3>2. (\E l \in D : y[l] < room[l]) => Over(y) < Over(room)
      BY <1>0, <2>4, <3>1, SumMonotone
    <3>3. \A l \in D : y[l] = room[l]
      BY <1>0, <2>3, <2>4, <3>2
    <3> QED
      BY <2>1, <3>3
  <2>5. Over([l \in D |-> cost[l] * x[l]]) \in Int
    <3>1. [l \in D |-> cost[l] * x[l]] \in [D -> Int]
      BY <1>0, <1>4, Multiplied
    <3> QED
      BY <3>1, SumStep
  <2>6. Over(x) = n
    BY <2>1, <2>3
  <2>7. ASSUME NEW y \in [D -> Nat], \A l \in D : y[l] <= room[l], Over(y) = n
        PROVE  Over([l \in D |-> cost[l] * x[l]]) <= Over([l \in D |-> cost[l] * y[l]])
    <3>1. y = x
      BY <2>4, <2>7
    <3> QED
      BY <2>5, <3>1
  <2> QED
    BY <1>4, <2>6, <2>7 DEF Cheapest
<1>9. CASE ~ \A l \in D : P(l) + room[l] <= n
  <2> DEFINE B == {l \in D : ~ (P(l) + room[l] <= n)}
  <2>1. PICK p \in B : \A m \in B : key[p] <= key[m]
    <3> DEFINE kk == [m \in B |-> key[m]]
    <3>1. IsFiniteSet(B) /\ B # {} /\ kk \in [B -> Nat]
      BY <1>0, <1>9, FS_Subset
    <3>2. \E z \in B : \A m \in B : kk[z] <= kk[m]
      <4> HIDE DEF B, kk
      <4> QED
        BY <3>1, KeyBounds
    <3> QED
      BY <3>2
  <2>2. p \in D /\ P(p) + room[p] > n /\ P(p) \in Nat
    BY <1>0, <1>1, <2>1
  <2>3. \A l \in before(p) : l \in D /\ P(l) + room[l] <= n
    BY <1>0, <2>1, <2>2
  <2>4. P(p) <= n
    BY <1>6, <1>7, <2>2, <2>3
  <2>5. x[p] = n - P(p)
    BY <1>0, <1>2, <2>2, <2>4 DEF Least, Most
  <2>6. \A l \in D : key[l] < key[p] => x[l] = room[l]
    BY <1>5, <2>3
  <2>7. ASSUME NEW l \in D, key[p] < key[l] PROVE x[l] = 0
    <3>1. P(p) + room[p] <= P(l) /\ P(l) \in Nat /\ room[p] \in Nat
      BY <1>0, <1>1, <1>3, <2>2, <2>7
    <3> QED
      BY <1>0, <1>2, <2>2, <3>1 DEF Least, Most
  <2>8. \A l \in D : l = p \/ key[l] < key[p] \/ key[p] < key[l]
    BY <1>0, <2>2
  <2> HIDE DEF B
  <2>9. x \in [D -> Int] /\ \A l \in D : x[l] >= 0
    BY <1>4
  <2>10. Over(x) = n
    <3> DEFINE A == before(p) \cup {p}
    <3>1. before(p) \in SUBSET D /\ p \in D \ before(p)
      BY <1>0, <2>2
    <3>2. \A C \in SUBSET D : \A k \in D \ C : Over(On(x, C \cup {k})) = Over(On(x, C)) + x[k]
      <4>1. IsFiniteSet(D) /\ x \in [D -> Int]
        BY <2>9
      <4> QED
        BY ONLY <4>1, OnStep
    <3>3. Over(On(x, A)) = Over(On(x, before(p))) + x[p]
      BY <3>1, <3>2
    <3>4. On(x, before(p)) = On(room, before(p))
      BY <2>6 DEF On
    <3>5. Over(On(x, A)) = P(p) + (n - P(p))
      BY <2>5, <3>3, <3>4 DEF P
    <3>6. A \in SUBSET D /\ \A l \in D \ A : x[l] = 0
      BY <2>7, <2>8, <3>1
    <3> HIDE DEF A
    <3>7. Over(On(x, A)) = Over(x)
      <4>1. IsFiniteSet(D) /\ x \in [D -> Int] /\ (\A l \in D : x[l] >= 0) /\ A \in SUBSET D
            /\ \A l \in D \ A : x[l] = 0
        BY <2>9, <3>6
      <4> QED
        BY ONLY <4>1, SumPart
    <3> QED
      BY <2>2, <3>5, <3>7
  <2>11. ASSUME NEW y \in [D -> Nat], \A l \in D : y[l] <= room[l], Over(y) = n
         PROVE  Over([l \in D |-> cost[l] * x[l]]) <= Over([l \in D |-> cost[l] * y[l]])
    <3> DEFINE f == [l \in D |-> cost[l] * x[l]]
               g == [l \in D |-> cost[l] * y[l]]
               fp == [l \in D |-> cost[p] * x[l]]
               gp == [l \in D |-> cost[p] * y[l]]
               left == [l \in D |-> f[l] + gp[l]]
               right == [l \in D |-> g[l] + fp[l]]
    <3>1. \A l \in D : x[l] \in Nat /\ y[l] \in Nat /\ cost[l] \in Nat
      BY <1>4
    <3>2. \A l, m \in D : cost[m] * x[l] \in Int /\ cost[m] * y[l] \in Int
      BY <3>1, Multiplied
    <3>3. f \in [D -> Int] /\ g \in [D -> Int] /\ fp \in [D -> Int] /\ gp \in [D -> Int]
      BY <2>2, <3>2
    <3>4. left \in [D -> Int] /\ right \in [D -> Int]
      <4>1. \A l \in D : f[l] \in Int /\ g[l] \in Int /\ fp[l] \in Int /\ gp[l] \in Int
        BY <3>3
      <4> HIDE DEF f, g, fp, gp
      <4> QED
        BY <4>1
    <3>5. ASSUME NEW l \in D PROVE left[l] <= right[l]
      <4>1. (cost[l] <= cost[p] /\ y[l] <= x[l]) \/ (cost[p] <= cost[l] /\ x[l] <= y[l])
        <5>1. CASE l = p
          BY <2>2, <3>1, <5>1
        <5>2. CASE key[l] < key[p]
          BY <1>0, <2>2, <2>6, <2>11, <5>2
        <5>3. CASE key[p] < key[l]
          BY <1>0, <2>2, <2>7, <3>1, <5>3
        <5> QED
          BY <2>8, <5>1, <5>2, <5>3
      <4>2. cost[l] * x[l] + cost[p] * y[l] <= cost[l] * y[l] + cost[p] * x[l]
        <5>1. cost[l] \in Nat /\ cost[p] \in Nat /\ x[l] \in Nat /\ y[l] \in Nat
          BY <2>2, <3>1
        <5> QED
          BY <4>1, <5>1, Exchange
      <4> QED
        BY <4>2
    <3>6. y \in [D -> Int]
      OBVIOUS
    <3>7. cost[p] \in Int /\ (\A l \in D : fp[l] = cost[p] * x[l]) /\ (\A l \in D : gp[l] = cost[p] * y[l])
          /\ (\A l \in D : left[l] = f[l] + gp[l]) /\ (\A l \in D : right[l] = g[l] + fp[l])
      BY <2>2, <3>1
    <3> HIDE DEF f, g, fp, gp, left, right
    <3>8. Over(fp) = cost[p] * Over(x)
      <4>1. IsFiniteSet(D) /\ x \in [D -> Int] /\ cost[p] \in Int /\ fp \in [D -> Int]
            /\ \A l \in D : fp[l] = cost[p] * x[l]
        BY <2>9, <3>3, <3>7
      <4> QED
        BY ONLY <4>1, SumScaled
    <3>9. Over(gp) = cost[p] * Over(y)
      <4>1. IsFiniteSet(D) /\ y \in [D -> Int] /\ cost[p] \in Int /\ gp \in [D -> Int]
            /\ \A l \in D : gp[l] = cost[p] * y[l]
        BY <3>3, <3>6, <3>7
      <4> QED
        BY ONLY <4>1, SumScaled
    <3>10. Over(left) = Over(f) + Over(gp)
      <4>1. IsFiniteSet(D) /\ f \in [D -> Int] /\ gp \in [D -> Int] /\ left \in [D -> Int]
            /\ \A l \in D : left[l] = f[l] + gp[l]
        BY <3>3, <3>4, <3>7
      <4> QED
        BY ONLY <4>1, SumOfTwo
    <3>11. Over(right) = Over(g) + Over(fp)
      <4>1. IsFiniteSet(D) /\ g \in [D -> Int] /\ fp \in [D -> Int] /\ right \in [D -> Int]
            /\ \A l \in D : right[l] = g[l] + fp[l]
        BY <3>3, <3>4, <3>7
      <4> QED
        BY ONLY <4>1, SumOfTwo
    <3>12. Over(left) <= Over(right)
      BY <3>4, <3>5, SumMonotone
    <3>13. Over(f) \in Int /\ Over(g) \in Int /\ Over(fp) \in Int
      BY <3>3, SumStep
    <3>14. Over(gp) = Over(fp)
      BY <2>10, <2>11, <3>8, <3>9
    <3>15. Over(f) <= Over(g)
      BY <3>10, <3>11, <3>12, <3>13, <3>14
    <3> QED
      BY <3>15 DEF f, g
  <2> QED
    BY <1>4, <2>10, <2>11 DEF Cheapest
<1> QED
  BY <1>8, <1>9

----------------------------------------------------------------------------
(* Stage 1: sizes, inputs, redundancies                                    *)

\* Max and Min of two numbers.
LEMMA PairBounds ==
    \A a, b \in Int : Max({a, b}) = Most(a, b) /\ Min({a, b}) = Least(a, b)
<1> SUFFICES ASSUME NEW a \in Int, NEW b \in Int
             PROVE  Max({a, b}) = Most(a, b) /\ Min({a, b}) = Least(a, b)
  OBVIOUS
<1> DEFINE S == {a, b}
<1>1. S \subseteq Int /\ S # {} /\ Most(a, b) \in Int /\ (\A x \in S : x <= Most(a, b))
  BY DEF Most
<1>2. Max(S) \in S /\ \A x \in S : x <= Max(S)
  <2> HIDE DEF S
  <2> QED
    BY <1>1, MaxOf
<1>3. Min(S) \in S /\ \A x \in S : Min(S) <= x
  <2>1. Least(a, b) \in S /\ \A x \in S : Least(a, b) <= x
    BY DEF Least
  <2> HIDE DEF S
  <2> QED
    BY <2>1 DEF Min
<1> QED
  BY <1>1, <1>2, <1>3 DEF Least, Most

\* The sizes of the sets.
LEMMA Sizes ==
    /\ IsFiniteSet(Layers) /\ Cardinality(Layers) = NL /\ Layers # {} /\ Layers \subseteq Nat \ {0}
    /\ IsFiniteSet(Experts) /\ Cardinality(Experts) = NE
    /\ NL \in Nat \ {0} /\ NE \in Nat \ {0} /\ Inf \in Nat
    /\ \A S \in SUBSET Experts : IsFiniteSet(S) /\ Cardinality(S) \in 0 .. NE
    /\ \A S \in SUBSET Experts : Cardinality(S) = NE => S = Experts
<1>1. NL \in Nat \ {0} /\ NE \in Nat \ {0} /\ Inf \in Nat
  BY ShapeAssumption
<1>2. /\ IsFiniteSet(Layers) /\ Cardinality(Layers) = NL /\ Layers # {} /\ Layers \subseteq Nat \ {0}
      /\ IsFiniteSet(Experts) /\ Cardinality(Experts) = NE
  BY <1>1, UpToFacts DEF Layers, Experts
<1>3. ASSUME NEW S \in SUBSET Experts
      PROVE  IsFiniteSet(S) /\ Cardinality(S) \in 0 .. NE /\ (Cardinality(S) = NE => S = Experts)
  BY <1>1, <1>2, <1>3, FS_Subset, FS_CardinalityType
<1> QED
  BY <1>1, <1>2, <1>3

\* A quotient of naturals does not exceed what was divided.
LEMMA PartOf == \A a \in Nat : \A b \in Nat \ {0} : a \div b \in 0 .. a
<1> SUFFICES ASSUME NEW a \in Nat, NEW b \in Nat \ {0} PROVE a \div b \in 0 .. a
  OBVIOUS
<1>1. PICK q \in Int : q = a \div b /\ b * q <= a /\ a < b * q + b
  BY Divided
<1>2. q >= 0
  <2>1. ASSUME q <= -1 PROVE FALSE
    <3>1. b * (-1 - q) \in Nat
      BY <2>1
    <3>2. b * (-1 - q) = -b - b * q
      OBVIOUS
    <3> QED
      BY <1>1, <3>1, <3>2
  <2> QED
    BY <2>1
<1>3. q <= b * q
  <2>1. (b - 1) * q \in Nat /\ (b - 1) * q = b * q - q
    BY <1>2
  <2> QED
    BY <2>1
<1>4. b * q \in Int
  OBVIOUS
<1> QED
  BY <1>1, <1>2, <1>3, <1>4

\* The distances of an input.
LEMMA InputFacts ==
    ASSUME NEW i \in Inputs
    PROVE  /\ i.target \in 1 .. 999 /\ i.ratio \in Nat \ {0} /\ i.minExperts \in Nat /\ i.div \in Nat \ {0}
           /\ \A l \in Layers : \A e, f \in Experts :
                 i.dist[l][e][f] \in Nat /\ i.dist[l][e][f] = i.dist[l][f][e] /\ i.dist[l][e][e] = 0
           /\ NE \div i.div \in 0 .. NE
<1>1. i.target \in 1 .. 999 /\ i.ratio \in Nat \ {0} /\ i.minExperts \in Nat /\ i.div \in Nat \ {0}
      /\ i.dist \in [Layers -> [Experts -> [Experts -> Nat]]]
  BY InputsAssumption
<1>2. \A l \in Layers : \A e, f \in Experts :
         i.dist[l][e][f] \in Nat /\ i.dist[l][e][f] = i.dist[l][f][e] /\ i.dist[l][e][e] = 0
  BY <1>1, DistancesAssumption
<1>3. NE \div i.div \in 0 .. NE
  BY <1>1, Sizes, PartOf
<1> QED
  BY <1>1, <1>2, <1>3

\* The redundancy of what is left after one expert more is gone.
Others(d, A, e) == [f \in A \ {e} |-> d[e][f]]
RowSums(d, A) == [e \in A |-> Over(Others(d, A, e))]

\* One expert less takes its distances out of the sum twice, as a row and as a column.
LEMMA OneGone ==
    ASSUME NEW A, IsFiniteSet(A), NEW j \in A, NEW d,
           \A e, f \in A : d[e][f] \in Nat /\ d[e][f] = d[f][e]
    PROVE  /\ Over(RowSums(d, A)) \in Nat /\ Over(RowSums(d, A \ {j})) \in Nat
           /\ Over(Others(d, A, j)) \in Nat
           /\ Over(RowSums(d, A)) = Over(RowSums(d, A \ {j})) + 2 * Over(Others(d, A, j))
<1> DEFINE B == A \ {j}
<1>1. IsFiniteSet(B) /\ B \subseteq A /\ j \notin B
  BY FS_Subset
<1>2. ASSUME NEW C, C \subseteq A, NEW e \in C
      PROVE  Others(d, C, e) \in [C \ {e} -> Nat] /\ Over(Others(d, C, e)) \in Nat
  <2>1. Others(d, C, e) \in [C \ {e} -> Nat] /\ IsFiniteSet(C \ {e})
    BY <1>2, FS_Subset DEF Others
  <2> QED
    BY <2>1, SumNat
<1>3. ASSUME NEW C, C \subseteq A
      PROVE  RowSums(d, C) \in [C -> Nat] /\ Over(RowSums(d, C)) \in Nat
  <2>1. RowSums(d, C) \in [C -> Nat] /\ IsFiniteSet(C)
    BY <1>2, <1>3, FS_Subset DEF RowSums
  <2> QED
    BY <2>1, SumNat
<1> DEFINE to == [e \in B |-> d[e][j]]
           mid == [e \in B |-> RowSums(d, A)[e]]
<1>4. to \in [B -> Int] /\ mid \in [B -> Int] /\ RowSums(d, B) \in [B -> Int] /\ RowSums(d, A) \in [A -> Int]
  BY <1>1, <1>3
<1>5. ASSUME NEW e \in B PROVE mid[e] = RowSums(d, B)[e] + to[e]
  <2> DEFINE g == Others(d, A, e)
  <2>1. IsFiniteSet(A \ {e}) /\ g \in [A \ {e} -> Int] /\ j \in A \ {e}
    <3>1. e \in A /\ A \ {e} \subseteq A /\ j # e
      OBVIOUS
    <3>2. g \in [A \ {e} -> Nat]
      BY <1>2, <3>1
    <3>3. IsFiniteSet(A \ {e})
      BY <3>1, FS_Subset
    <3> HIDE DEF g
    <3> QED
      BY <3>1, <3>2, <3>3
  <2>2. Over(g) = Over([y \in (A \ {e}) \ {j} |-> g[y]]) + g[j]
    <3> HIDE DEF g
    <3> QED
      BY <2>1, SumStep
  <2>3. [y \in (A \ {e}) \ {j} |-> g[y]] = Others(d, B, e) /\ g[j] = d[e][j]
    BY <2>1 DEF Others
  <2> QED
    BY <2>2, <2>3 DEF RowSums
<1>6. to = Others(d, A, j)
  BY DEF Others
<1>7. Over(mid) = Over(RowSums(d, B)) + Over(to)
  <2> HIDE DEF mid, to, B
  <2> QED
    BY <1>1, <1>4, <1>5, SumOfTwo
<1>8. Over(RowSums(d, A)) = Over(mid) + Over(Others(d, A, j))
  <2>1. \A x \in A : Over(RowSums(d, A)) = Over([y \in A \ {x} |-> RowSums(d, A)[y]]) + RowSums(d, A)[x]
    BY <1>4, SumStep
  <2> QED
    BY <2>1 DEF RowSums
<1>9. Over(Others(d, A, j)) \in Nat /\ Over(RowSums(d, A)) \in Nat /\ Over(RowSums(d, B)) \in Nat
  BY <1>1, <1>2, <1>3
<1> QED
  BY <1>6, <1>7, <1>8, <1>9

RedundancyIn(d, gone) == Over(RowSums(d, Experts \ gone))

\* The redundancy of a layer falls by the share of the expert that is absorbed.
LEMMA RedundancyFacts ==
    ASSUME inp \in Inputs, NEW l \in Layers, NEW gone \in SUBSET Experts
    PROVE  /\ Redundancy(l, gone) = RedundancyIn(inp.dist[l], gone)
           /\ Redundancy(l, gone) \in Nat
           /\ \A j \in Experts \ gone :
                 /\ PairShare(l, j, gone) \in Nat
                 /\ Redundancy(l, gone) = Redundancy(l, gone \cup {j}) + PairShare(l, j, gone)
                 /\ Redundancy(l, gone \cup {j}) \in Nat
<1> DEFINE d == inp.dist[l]
           A == Experts \ gone
<1>1. ASSUME NEW g PROVE Redundancy(l, g) = RedundancyIn(d, g)
  <2>1. \A e \in Experts \ g : Experts \ (g \cup {e}) = (Experts \ g) \ {e}
    OBVIOUS
  <2> QED
    BY <2>1 DEF Redundancy, RedundancyIn, RowSums, Others
<1>2. IsFiniteSet(A) /\ \A e, f \in A : d[e][f] \in Nat /\ d[e][f] = d[f][e]
  BY InputFacts, Sizes, FS_Subset
<1>3. ASSUME NEW j \in A
      PROVE  /\ PairShare(l, j, gone) \in Nat
             /\ Redundancy(l, gone) = Redundancy(l, gone \cup {j}) + PairShare(l, j, gone)
             /\ Redundancy(l, gone \cup {j}) \in Nat /\ Redundancy(l, gone) \in Nat
  <2>1. Experts \ (gone \cup {j}) = A \ {j}
    OBVIOUS
  <2>2. PairShare(l, j, gone) = 2 * Over(Others(d, A, j))
    BY <2>1 DEF PairShare, Others
  <2> HIDE DEF A, d
  <2>3. /\ Over(RowSums(d, A)) \in Nat /\ Over(RowSums(d, A \ {j})) \in Nat
        /\ Over(Others(d, A, j)) \in Nat
        /\ Over(RowSums(d, A)) = Over(RowSums(d, A \ {j})) + 2 * Over(Others(d, A, j))
    BY <1>2, OneGone
  <2>4. Redundancy(l, gone) = Over(RowSums(d, A)) /\ Redundancy(l, gone \cup {j}) = Over(RowSums(d, A \ {j}))
    BY <1>1, <2>1 DEF RedundancyIn, A
  <2> QED
    BY <2>2, <2>3, <2>4
<1>4. Redundancy(l, gone) \in Nat
  <2>1. CASE A = {}
    <3>1. RowSums(d, A) = [e \in {} |-> 0] /\ IsFiniteSet({}) /\ [e \in {} |-> 0] \in [{} -> Nat]
      BY <2>1, FS_EmptySet DEF RowSums
    <3>2. Over([e \in {} |-> 0]) \in Nat
      BY <3>1, SumNat
    <3> QED
      BY <1>1, <3>1, <3>2 DEF RedundancyIn
  <2>2. CASE A # {}
    BY <1>3, <2>2
  <2> QED
    BY <2>1, <2>2
<1> QED
  BY <1>1, <1>3, <1>4

----------------------------------------------------------------------------
(* Sums over the layers, curves, the knapsack                              *)

\* What the sums of layers are bounded by.
LEMMA LayerSums ==
    ASSUME NEW f \in [Layers -> 0 .. NE]
    PROVE  Over(f) \in 0 .. NL * NE /\ Over([l \in Layers |-> NE - f[l]]) = NL * NE - Over(f)
<1> DEFINE all == [l \in Layers |-> NE]
           rest == [l \in Layers |-> NE - f[l]]
<1>1. IsFiniteSet(Layers) /\ f \in [Layers -> Nat] /\ f \in [Layers -> Int] /\ all \in [Layers -> Int]
      /\ rest \in [Layers -> Int] /\ rest \in [Layers -> Nat] /\ NL * NE \in Int
  BY Sizes
<1>2. (\A l \in Layers : f[l] <= all[l]) /\ (\A l \in Layers : all[l] = f[l] + rest[l])
      /\ (\A l \in Layers : all[l] = NE)
  BY Sizes
<1> HIDE DEF all, rest
<1>3. Over(all) = NE * Cardinality(Layers)
  <2>1. IsFiniteSet(Layers) /\ NE \in Int /\ all \in [Layers -> Int] /\ \A l \in Layers : all[l] = NE
    BY <1>1, <1>2, Sizes
  <2> QED
    BY ONLY <2>1, SumConstant
<1>4. Over(f) <= Over(all) /\ Over(f) \in Nat /\ Over(rest) \in Nat
  BY <1>1, <1>2, SumMonotone, SumNat
<1>5. Over(all) = Over(f) + Over(rest)
  BY <1>1, <1>2, SumOfTwo
<1>6. Over(all) = NL * NE
  BY <1>3, Sizes
<1> QED
  BY <1>1, <1>4, <1>5, <1>6 DEF rest

\* How many experts are protected, and what that leaves.
LEMMA ListedFacts ==
    ASSUME inp \in Inputs, blacklist \in [Layers -> SUBSET Experts], plan \in Int
    PROVE  /\ \A l \in Layers :
                 /\ Listed(l) \in 0 .. NE
                 /\ LayerFloor(Listed(l), inp.div) = Most(NE \div inp.div, Listed(l))
                 /\ LayerFloor(Listed(l), inp.div) \in 0 .. NE
                 /\ Floor(l) = Most(NE \div inp.div - Listed(l), 0) /\ Floor(l) \in 0 .. NE
           /\ ListedTotal \in 0 .. NL * NE /\ Before \in Nat
           /\ Before = Over([l \in Layers |-> NE - Listed(l)])
           /\ Goal \in Nat /\ Goal = Most(0, plan - ListedTotal)
           /\ Room \in [Layers -> 0 .. NE] /\ Merges \in Nat
<1> DEFINE q == NE \div inp.div
<1>1. q \in 0 .. NE
  BY InputFacts
<1>2. \A l \in Layers : Listed(l) \in 0 .. NE
  BY Sizes DEF Listed
<1> HIDE DEF q
<1>3. ASSUME NEW l \in Layers
      PROVE  /\ LayerFloor(Listed(l), inp.div) = Most(q, Listed(l))
             /\ Floor(l) = Most(q - Listed(l), 0)
  <2>1. Listed(l) \in Int /\ q \in Int /\ q - Listed(l) \in Int /\ 0 \in Int
    BY <1>1, <1>2
  <2> QED
    BY <2>1, PairBounds DEF LayerFloor, Floor, MergeableFloor, q
<1>4. \A l \in Layers : LayerFloor(Listed(l), inp.div) \in 0 .. NE /\ Floor(l) \in 0 .. NE
  <2> SUFFICES ASSUME NEW l \in Layers
               PROVE LayerFloor(Listed(l), inp.div) \in 0 .. NE /\ Floor(l) \in 0 .. NE
    OBVIOUS
  <2>1. Listed(l) \in 0 .. NE /\ q \in 0 .. NE /\ NE \in Nat
    BY <1>1, <1>2, Sizes
  <2>2. Most(q, Listed(l)) \in 0 .. NE /\ Most(q - Listed(l), 0) \in 0 .. NE
    BY <2>1 DEF Most
  <2> QED
    BY <1>3, <2>2
<1>5. [l \in Layers |-> Listed(l)] \in [Layers -> 0 .. NE]
  BY <1>2
<1>6. ListedTotal \in 0 .. NL * NE /\ Over([l \in Layers |-> NE - Listed(l)]) = NL * NE - ListedTotal
  <2> DEFINE f == [l \in Layers |-> Listed(l)]
  <2>1. Over(f) \in 0 .. NL * NE /\ Over([l \in Layers |-> NE - f[l]]) = NL * NE - Over(f)
    <3> HIDE DEF f
    <3> QED
      BY <1>5, LayerSums DEF f
  <2>2. [l \in Layers |-> NE - f[l]] = [l \in Layers |-> NE - Listed(l)]
    OBVIOUS
  <2> QED
    BY <2>1, <2>2 DEF ListedTotal
<1>7. NL * NE \in Nat
  BY Sizes
<1>8. Before \in Nat /\ Before = Over([l \in Layers |-> NE - Listed(l)])
  BY <1>6, <1>7 DEF Before
<1>9. Goal = Most(0, plan - ListedTotal) /\ Goal \in Nat
  <2>1. plan - ListedTotal \in Int /\ 0 \in Int
    BY <1>6
  <2>2. Goal = Most(0, plan - ListedTotal)
    BY <2>1, PairBounds DEF Goal
  <2> QED
    BY <2>1, <2>2 DEF Most
<1>10. ASSUME NEW l \in Layers PROVE Room[l] \in 0 .. NE
  <2>1. NE - LayerFloor(Listed(l), inp.div) \in 0 .. NE
    BY <1>4, Sizes
  <2>2. Max({0, NE - LayerFloor(Listed(l), inp.div)}) = Most(0, NE - LayerFloor(Listed(l), inp.div))
    BY <2>1, PairBounds
  <2> QED
    BY <2>1, <2>2 DEF Room, MaxMerges, Most
<1>11. Room \in [Layers -> 0 .. NE]
  <2>1. Room = [l \in Layers |-> Room[l]]
    BY DEF Room
  <2> QED
    BY <1>10, <2>1
<1>12. Merges \in Nat
  <2>1. NL * NE - plan \in Int /\ NL * NE - ListedTotal \in Nat
    BY <1>6, <1>7
  <2>2. Max({0, NL * NE - plan}) = Most(0, NL * NE - plan)
    BY <2>1, PairBounds
  <2>3. Most(0, NL * NE - plan) \in Nat
    BY <2>1 DEF Most
  <2>4. Merges = Least(Most(0, NL * NE - plan), NL * NE - ListedTotal)
    <3>1. Most(0, NL * NE - plan) \in Int /\ NL * NE - ListedTotal \in Int
      BY <2>1, <2>3
    <3>2. Min({Most(0, NL * NE - plan), NL * NE - ListedTotal})
            = Least(Most(0, NL * NE - plan), NL * NE - ListedTotal)
      BY <3>1, PairBounds
    <3> QED
      BY <2>2, <3>2 DEF Merges
  <2> QED
    BY <2>1, <2>3, <2>4 DEF Least
<1> QED
  BY <1>2, <1>3, <1>4, <1>6, <1>8, <1>9, <1>11, <1>12 DEF q

\* The damage curves are typed.
LEMMA CurveTyped ==
    ASSUME inp \in Inputs, blacklist \in [Layers -> SUBSET Experts], plan \in Int
    PROVE  \A l \in Layers : Curves[l] \in [0 .. Room[l] -> Nat]
<1> SUFFICES ASSUME NEW l \in Layers PROVE Curves[l] \in [0 .. Room[l] -> Nat]
  OBVIOUS
<1> DEFINE d == inp.dist[l]
           pairs == {p \in Experts \X Experts : p[1] < p[2] /\ {p[1], p[2]} \cap blacklist[l] = {}}
           rank(p) == (d[p[1]][p[2]] * NE + p[1]) * (NE + 1) + p[2]
           cheapest(k) == {p \in pairs : Cardinality({q \in pairs : rank(q) < rank(p)}) < k}
<1>1. Curves[l] = [k \in 0 .. Room[l] |-> Over([p \in cheapest(k) |-> d[p[1]][p[2]]])]
  BY DEF Curves, DamageCurve
<1>2. IsFiniteSet(Experts \X Experts)
  BY Sizes, FS_Product
<1>3. \A k : cheapest(k) \subseteq pairs
  OBVIOUS
<1> HIDE DEF cheapest
<1>4. ASSUME NEW k PROVE Over([p \in cheapest(k) |-> d[p[1]][p[2]]]) \in Nat
  <2> DEFINE f == [p \in cheapest(k) |-> d[p[1]][p[2]]]
  <2>1. cheapest(k) \subseteq Experts \X Experts
    BY <1>3
  <2>2. IsFiniteSet(cheapest(k))
    BY <1>2, <2>1, FS_Subset
  <2>3. \A e, g \in Experts : d[e][g] \in Nat
    BY InputFacts
  <2>4. f \in [cheapest(k) -> Nat]
    BY <2>1, <2>3
  <2> HIDE DEF f
  <2> QED
    BY <2>2, <2>4, SumNat DEF f
<1> QED
  BY <1>1, <1>4

\* The placements the knapsack may choose from, and what it chooses.
PlaceOptions == [l \in Layers |-> 0 .. Room[l]]

\* The knapsack of the damage-curve plugin finds the cheapest placement.
LEMMA OptimumFacts ==
    ASSUME inp \in Inputs, blacklist \in [Layers -> SUBSET Experts], plan \in Int, NEW v \in Optimum
    PROVE  /\ v \in [Layers -> Nat] /\ \A l \in Layers : v[l] <= Room[l]
           /\ Over(v) = Least(Merges, Over(Room))
           /\ \A w \in [Layers -> Nat] : (\A l \in Layers : w[l] <= Room[l]) /\ Over(w) = Over(v) =>
                 Over([l \in Layers |-> Curves[l][v[l]]]) <= Over([l \in Layers |-> Curves[l][w[l]]])
<1>1. Room \in [Layers -> 0 .. NE] /\ Merges \in Nat
  BY ListedFacts
<1>2. Room \in [Layers -> Nat] /\ Room \in [Layers -> Int] /\ IsFiniteSet(Layers)
  BY <1>1, Sizes
<1>3. Over(Room) \in Nat
  BY <1>2, SumNat
<1>4. CASE Merges > Over(Room)
  <2>1. v = Room
    BY <1>4 DEF Optimum
  <2>2. ASSUME NEW w \in [Layers -> Nat], \A l \in Layers : w[l] <= Room[l], Over(w) = Over(Room)
        PROVE  w = Room
    <3>1. w \in [Layers -> Int]
      OBVIOUS
    <3>2. (\E l \in Layers : w[l] < Room[l]) => Over(w) < Over(Room)
      BY <1>2, <2>2, <3>1, SumMonotone
    <3>3. \A l \in Layers : w[l] = Room[l]
      BY <1>2, <1>3, <2>2, <3>2
    <3> QED
      BY <1>2, <3>3
  <2>3. Over([l \in Layers |-> Curves[l][v[l]]]) \in Int
    <3>1. [l \in Layers |-> Curves[l][v[l]]] \in [Layers -> Int]
      BY <1>2, <2>1, CurveTyped
    <3> QED
      BY <1>2, <3>1, SumStep
  <2>4. Over(v) = Least(Merges, Over(Room))
    BY <1>1, <1>3, <1>4, <2>1 DEF Least
  <2> QED
    BY <1>2, <2>1, <2>2, <2>3, <2>4
<1>5. CASE ~ (Merges > Over(Room))
  <2>1. v \in Allocate(PlaceOptions, Curves, Merges, TRUE)
    <3> DEFINE of(r, c, g) == Allocate([l \in Layers |-> 0 .. r[l]], c, g, TRUE)
               any == UNION {of(r, c, g) : r \in {Room}, c \in {Curves}, g \in {Merges}}
    <3>1. Optimum = any
      BY <1>5 DEF Optimum
    <3>2. of(Room, Curves, Merges) = Allocate(PlaceOptions, Curves, Merges, TRUE)
      BY DEF PlaceOptions
    <3> HIDE DEF of
    <3>3. any = of(Room, Curves, Merges)
      OBVIOUS
    <3> HIDE DEF any
    <3> QED
      BY <3>1, <3>2, <3>3
  <2>2. Costly(PlaceOptions, Curves)
    BY <1>2, CurveTyped DEF Costly, PlaceOptions
  <2>3. /\ Chosen(PlaceOptions, v) /\ Over(v) = Merges
        /\ \A w : Chosen(PlaceOptions, w) /\ Over(w) = Merges =>
              Over(CostOf(Curves, v)) <= Over(CostOf(Curves, w))
    BY <1>1, <2>1, <2>2, AllocateFacts
  <2>4. \A w : Chosen(PlaceOptions, w) <=> w \in [Layers -> Nat] /\ \A l \in Layers : w[l] <= Room[l]
    BY <1>2 DEF Chosen, PlaceOptions
  <2>5. Over(v) = Least(Merges, Over(Room))
    BY <1>1, <1>3, <1>5, <2>3 DEF Least
  <2> QED
    BY <2>3, <2>4, <2>5 DEF CostOf
<1> QED
  BY <1>4, <1>5

\* The prior of a placement is typed.
LEMMA PriorTyped ==
    ASSUME inp \in Inputs, blacklist \in [Layers -> SUBSET Experts], plan \in Int, NEW v \in Optimum
    PROVE  PriorOf(v) \in [Layers -> Nat]
<1>1. v \in [Layers -> Nat] /\ Room \in [Layers -> 0 .. NE]
  BY OptimumFacts, ListedFacts
<1>2. ASSUME NEW l \in Layers PROVE PriorOf(v)[l] \in Nat
  <2>1. CASE v[l] >= Room[l]
    BY <2>1, Sizes DEF PriorOf
  <2>2. CASE ~ (v[l] >= Room[l])
    <3>1. v[l] \in 0 .. Room[l] /\ v[l] + 1 \in 0 .. Room[l]
      BY <1>1, <2>2
    <3>2. Curves[l][v[l] + 1] \in Nat /\ Curves[l][v[l]] \in Nat
      BY <3>1, CurveTyped
    <3> DEFINE x == 1000 * (Curves[l][v[l] + 1] - Curves[l][v[l]])
    <3>3. x \in Int /\ Max({1, x}) = Most(1, x)
      <4>1. x \in Int
        BY <3>2
      <4> HIDE DEF x
      <4> QED
        BY <4>1, PairBounds
    <3>4. PriorOf(v)[l] = Max({1, x})
      BY <2>2 DEF PriorOf
    <3> HIDE DEF x
    <3> QED
      BY <3>3, <3>4 DEF Most
  <2> QED
    BY <2>1, <2>2
<1>3. PriorOf(v) = [l \in Layers |-> PriorOf(v)[l]]
  BY DEF PriorOf
<1> QED
  BY <1>2, <1>3

----------------------------------------------------------------------------
(* Bounds below infinity, and what RCO is given                            *)

\* Products of naturals are monotone.
LEMMA ProductMonotone ==
    \A a, b, c, d \in Nat : a <= b /\ c <= d => a * c <= b * d /\ a * c \in Nat /\ b * d \in Nat
<1> SUFFICES ASSUME NEW a \in Nat, NEW b \in Nat, NEW c \in Nat, NEW d \in Nat, a <= b, c <= d
             PROVE  a * c <= b * d /\ a * c \in Nat /\ b * d \in Nat
  OBVIOUS
<1>1. PICK x \in Nat : b = a + x
  <2>1. b - a \in Nat /\ b = a + (b - a)
    OBVIOUS
  <2> QED
    BY <2>1
<1>2. PICK y \in Nat : d = c + y
  <2>1. d - c \in Nat /\ d = c + (d - c)
    OBVIOUS
  <2> QED
    BY <2>1
<1>3. b * d = a * c + a * y + x * c + x * y
  BY <1>1, <1>2
<1>4. a * c \in Nat /\ a * y \in Nat /\ x * c \in Nat /\ x * y \in Nat
  OBVIOUS
<1> QED
  BY <1>3, <1>4

\* A sum of at most n terms of at most b is at most b * n.
LEMMA SumBounded ==
    ASSUME NEW D, IsFiniteSet(D), NEW n \in Nat, Cardinality(D) <= n, NEW b \in Nat, NEW f,
           f \in [D -> Nat], \A x \in D : f[x] <= b
    PROVE  Over(f) <= b * n
<1> DEFINE g == [x \in D |-> b]
<1>1. g \in [D -> Int] /\ f \in [D -> Int] /\ (\A x \in D : g[x] = b) /\ (\A x \in D : f[x] <= g[x])
  OBVIOUS
<1> HIDE DEF g
<1>2. Over(g) = b * Cardinality(D)
  <2>1. IsFiniteSet(D) /\ b \in Int /\ g \in [D -> Int] /\ \A x \in D : g[x] = b
    BY <1>1
  <2> QED
    BY ONLY <2>1, SumConstant
<1>3. Over(f) <= Over(g) /\ Over(f) \in Int /\ Over(g) \in Int
  BY <1>1, SumMonotone, SumStep
<1>4. Cardinality(D) \in Nat
  BY FS_CardinalityType
<1>5. b * Cardinality(D) <= b * n /\ b * Cardinality(D) \in Nat /\ b * n \in Nat
  BY <1>4, ProductMonotone
<1> QED
  BY <1>2, <1>3, <1>5

\* One number bounds the distances of an input, and what can be added up of it
\* is finite.
LEMMA DistanceBound ==
    ASSUME NEW i \in Inputs
    PROVE  \E D \in Nat : /\ \A l \in Layers : \A e, f \in Experts : i.dist[l][e][f] <= D
                          /\ 1000 * NL * NE * NE * NE * (D + 1) < Inf
<1> DEFINE P == Layers \X (Experts \X Experts)
           key == [p \in P |-> i.dist[p[1]][p[2][1]][p[2][2]]]
<1>1. IsFiniteSet(P) /\ P # {}
  <2>1. IsFiniteSet(Experts \X Experts)
    BY Sizes, FS_Product
  <2>2. IsFiniteSet(P)
    BY <2>1, Sizes, FS_Product
  <2>3. 1 \in Experts /\ 1 \in Layers
    BY Sizes DEF Experts, Layers
  <2>4. <<1, <<1, 1>>>> \in P
    BY <2>3
  <2> QED
    BY <2>2, <2>4
<1>2. key \in [P -> Nat]
  BY InputFacts
<1>3. PICK z \in P : \A p \in P : key[p] <= key[z]
  <2> HIDE DEF P, key
  <2> QED
    BY <1>1, <1>2, KeyBounds
<1>4. ASSUME NEW l \in Layers, NEW e \in Experts, NEW f \in Experts PROVE i.dist[l][e][f] <= key[z]
  <2>1. <<l, <<e, f>>>> \in P /\ key[<<l, <<e, f>>>>] = i.dist[l][e][f]
    OBVIOUS
  <2> HIDE DEF key, P
  <2> QED
    BY <1>3, <2>1
<1>5. key[z] \in Nat /\ 1000 * NL * NE * NE * NE * (key[z] + 1) < Inf
  <2>1. key[z] \in Nat
    BY <1>2
  <2>2. z[1] \in Layers /\ z[2][1] \in Experts /\ z[2][2] \in Experts
        /\ key[z] = i.dist[z[1]][z[2][1]][z[2][2]]
    OBVIOUS
  <2> QED
    BY <2>1, <2>2, InfinityAssumption
<1> QED
  BY <1>4, <1>5

\* The redundancies before any merge, and the range they span.
LEMMA RawFacts ==
    ASSUME inp \in Inputs, blacklist \in [Layers -> SUBSET Experts]
    PROVE  /\ \A l \in Layers : RawR[l] \in Nat /\ LowR <= RawR[l]
           /\ LowR \in Nat /\ SpreadR \in Nat \ {0}
           /\ \A X \in Nat : (\A l \in Layers : RawR[l] <= X) => SpreadR <= X + 1
<1> DEFINE S == {RawR[l] : l \in Layers}
<1>1. \A l \in Layers : RawR[l] \in Nat
  BY RedundancyFacts DEF RawR
<1>2. S \subseteq Nat /\ S \subseteq Int /\ S # {}
  <2>1. S \subseteq Nat
    BY <1>1
  <2>2. PICK l : l \in Layers
    BY Sizes
  <2>3. RawR[l] \in S
    BY <2>2
  <2> HIDE DEF S
  <2> QED
    BY <2>1, <2>3
<1>3. LowR \in S /\ \A x \in S : LowR <= x
  <2>1. LowR = Min(S)
    BY DEF LowR
  <2> HIDE DEF S
  <2> QED
    BY <1>2, <2>1, MinOf
<1>4. Max(S) \in S /\ \A x \in S : x <= Max(S)
  <2>1. PICK b \in Nat : \A x \in S : x <= b
    <3> DEFINE raw == [l \in Layers |-> RawR[l]]
    <3>1. raw \in [Layers -> Nat] /\ \A l \in Layers : raw[l] = RawR[l]
      BY <1>1
    <3> HIDE DEF raw
    <3>2. Over(raw) \in Nat /\ \A l \in Layers : raw[l] <= Over(raw)
      BY <3>1, Sizes, SumNat
    <3> QED
      BY <3>1, <3>2
  <2>2. b \in Int
    OBVIOUS
  <2> HIDE DEF S
  <2> QED
    BY <1>2, <2>1, <2>2, MaxOf
<1>6. Max(S) \in Nat /\ LowR \in Nat
  BY <1>2, <1>3, <1>4
<1>5. SpreadR = Most(1, Max(S) - LowR)
  <2>1. SpreadR = Max({1, Max(S) - LowR})
    BY DEF SpreadR
  <2> HIDE DEF S
  <2>2. Max(S) - LowR \in Int /\ 1 \in Int
    BY <1>6
  <2> QED
    BY <2>1, <2>2, PairBounds
<1>7. ASSUME NEW X \in Nat, \A l \in Layers : RawR[l] <= X PROVE SpreadR <= X + 1
  <2>1. Max(S) <= X
    BY <1>4, <1>7
  <2> HIDE DEF S
  <2> QED
    BY <1>5, <1>6, <2>1 DEF Most
<1>8. SpreadR \in Nat \ {0}
  <2> HIDE DEF S
  <2> QED
    BY <1>5, <1>6 DEF Most
<1> QED
  BY <1>1, <1>3, <1>6, <1>7, <1>8

\* RCO's options and damages: every choice costs less than infinity.
LEMMA RcoFacts ==
    ASSUME inp \in Inputs, blacklist \in [Layers -> SUBSET Experts]
    PROVE  /\ Costly(RcoOptions, RcoDamage)
           /\ \A l \in Layers : RcoOptions[l] \subseteq 0 .. NE
           /\ \E w : Chosen(RcoOptions, w)
           /\ \A w : Chosen(RcoOptions, w) => Over(CostOf(RcoDamage, w)) < Inf
<1>1. PICK D \in Nat : /\ \A l \in Layers : \A e, f \in Experts : inp.dist[l][e][f] <= D
                       /\ 1000 * NL * NE * NE * NE * (D + 1) < Inf
  BY DistanceBound
<1> DEFINE X == D * NE * NE
<1>2. X \in Nat /\ D * NE \in Nat
  BY Sizes, ProductMonotone
<1>3. ASSUME NEW l \in Layers PROVE RawR[l] <= X
  <2> DEFINE d == inp.dist[l]
             A == Experts \ blacklist[l]
  <2>1. IsFiniteSet(A) /\ Cardinality(A) <= NE /\ A \subseteq Experts
    BY Sizes
  <2>2. ASSUME NEW e \in A
        PROVE  Over(Others(d, A, e)) <= D * NE /\ Over(Others(d, A, e)) \in Nat
    <3>1. IsFiniteSet(A \ {e}) /\ Cardinality(A \ {e}) <= NE
      <4>1. A \ {e} \in SUBSET Experts
        OBVIOUS
      <4> HIDE DEF A
      <4> QED
        BY <4>1, Sizes
    <3>2. Others(d, A, e) \in [A \ {e} -> Nat] /\ \A x \in A \ {e} : Others(d, A, e)[x] <= D
      BY <1>1, InputFacts DEF Others
    <3> HIDE DEF A, d
    <3>3. NE \in Nat
      BY Sizes
    <3> QED
      BY <3>1, <3>2, <3>3, SumBounded, SumNat
  <2>3. RowSums(d, A) \in [A -> Nat] /\ \A e \in A : RowSums(d, A)[e] <= D * NE
    BY <2>2 DEF RowSums
  <2>4. Over(RowSums(d, A)) <= D * NE * NE
    <3>1. NE \in Nat /\ D * NE \in Nat /\ IsFiniteSet(A) /\ Cardinality(A) <= NE
      BY <1>2, <2>1, Sizes
    <3> HIDE DEF A, d
    <3> QED
      BY <2>3, <3>1, SumBounded
  <2>5. RawR[l] = Over(RowSums(d, A))
    BY RedundancyFacts DEF RawR, RedundancyIn
  <2> QED
    BY <2>4, <2>5
<1> HIDE DEF X
<1>4. /\ \A l \in Layers : RawR[l] \in Nat /\ LowR <= RawR[l]
      /\ LowR \in Nat /\ SpreadR \in Nat \ {0} /\ SpreadR <= X + 1
  BY <1>2, <1>3, RawFacts
<1>5. ASSUME NEW l \in Layers PROVE RcoOptions[l] \subseteq 0 .. NE /\ NE \in RcoOptions[l]
  <2>1. NE \div 2 \in 0 .. NE /\ NE \in Nat \ {0}
    BY Sizes, PartOf
  <2>2. Max({NE \div 2, 1}) = Most(NE \div 2, 1)
    <3>1. NE \div 2 \in Int /\ 1 \in Int
      BY <2>1
    <3> QED
      BY <3>1, PairBounds
  <2>3. Most(NE \div 2, 1) \in 1 .. NE
    BY <2>1 DEF Most
  <2>4. RcoOptions[l] = Most(NE \div 2, 1) .. NE
    BY <2>2 DEF RcoOptions
  <2> QED
    BY <2>1, <2>3, <2>4
<1>6. ASSUME NEW l \in Layers, NEW k \in 0 .. NE
      PROVE  RcoDamage[l][k] \in Nat /\ RcoDamage[l][k] <= (2 * X + 1) * NE
  <2> DEFINE m == RawR[l] - LowR + SpreadR
  <2>1. RcoDamage[l][k] = m * (NE - k)
    BY DEF RcoDamage
  <2>2. m \in Nat /\ m <= 2 * X + 1
    BY <1>2, <1>3, <1>4
  <2>3. NE - k \in Nat /\ NE - k <= NE /\ NE \in Nat /\ 2 * X + 1 \in Nat
    BY <1>2, Sizes
  <2> HIDE DEF m
  <2> QED
    BY <2>1, <2>2, <2>3, ProductMonotone
<1>7. Costly(RcoOptions, RcoDamage)
  BY <1>5, <1>6 DEF Costly
<1>8. Chosen(RcoOptions, [l \in Layers |-> NE])
  BY <1>5, Sizes DEF Chosen
<1> DEFINE Y == (2 * X + 1) * NE
<1>9. Y \in Nat /\ Y * NL < Inf
  <2>1. NE \in Nat \ {0} /\ NL \in Nat \ {0} /\ Inf \in Nat
    BY Sizes
  <2>2. PICK M \in Nat \ {0} : M = NE * NE
    BY <2>1, Multiplied
  <2>3. X = D * M
    BY <2>1, <2>2 DEF X
  <2>4. D * M \in Nat /\ M * (D + 1) \in Nat /\ M * (D + 1) = D * M + M
    BY <2>2
  <2>5. 2 * X + 1 <= 2 * (M * (D + 1)) /\ 2 * X + 1 \in Nat
    BY <2>2, <2>3, <2>4
  <2> DEFINE T == 2 * (M * (D + 1))
  <2>6. T \in Nat /\ 2 * X + 1 <= T
    BY <2>4, <2>5
  <2>7. (2 * X + 1) * NE <= T * NE /\ T * NE \in Nat /\ (2 * X + 1) * NE \in Nat
    <3> HIDE DEF T
    <3> QED
      BY <2>1, <2>5, <2>6, ProductMonotone
  <2>8. ((2 * X + 1) * NE) * NL <= (T * NE) * NL /\ (T * NE) * NL \in Nat
    <3> HIDE DEF T
    <3> QED
      BY <2>1, <2>7, ProductMonotone
  <2>9. 1000 * NL * NE * NE * NE * (D + 1) = 500 * ((T * NE) * NL)
    BY <2>1, <2>2
  <2> HIDE DEF T
  <2> QED
    BY <1>1, <2>1, <2>7, <2>8, <2>9
<1> HIDE DEF Y
<1>10. ASSUME NEW w, Chosen(RcoOptions, w) PROVE Over(CostOf(RcoDamage, w)) < Inf
  <2>1. CostOf(RcoDamage, w) \in [Layers -> Nat] /\ \A l \in Layers : CostOf(RcoDamage, w)[l] <= Y
    BY <1>5, <1>6, <1>10 DEF Chosen, CostOf, Y
  <2>2. Over(CostOf(RcoDamage, w)) <= Y * NL
    <3>1. IsFiniteSet(Layers) /\ NL \in Nat /\ Cardinality(Layers) <= NL
      BY Sizes
    <3> QED
      BY <1>9, <2>1, <3>1, SumBounded
  <2>3. Over(CostOf(RcoDamage, w)) \in Nat
    BY <2>1, Sizes, SumNat
  <2>4. Y * NL \in Nat /\ Inf \in Nat
    BY <1>9, Sizes
  <2> QED
    BY <1>9, <2>2, <2>3, <2>4
<1> QED
  BY <1>5, <1>7, <1>8, <1>10

----------------------------------------------------------------------------
(* What the retuning sheds, who donates, which pair is merged              *)

\* Keys that put the number of a layer behind its cost order by both.
LEMMA KeyOrder ==
    ASSUME NEW N \in Nat, NEW a \in Nat, NEW b \in Nat, NEW l \in 1 .. N, NEW m \in 1 .. N,
           a * (N + 1) + l <= b * (N + 1) + m
    PROVE  a <= b /\ (a * (N + 1) + l = b * (N + 1) + m => a = b /\ l = m)
<1>1. \A c, d \in Nat : c < d => c * (N + 1) + N + 1 <= d * (N + 1)
  <2> SUFFICES ASSUME NEW c \in Nat, NEW d \in Nat, c < d
               PROVE  c * (N + 1) + N + 1 <= d * (N + 1)
    OBVIOUS
  <2>1. (c + 1) * (N + 1) <= d * (N + 1)
    BY ProductMonotone
  <2>2. (c + 1) * (N + 1) = c * (N + 1) + N + 1
    OBVIOUS
  <2> QED
    BY <2>1, <2>2
<1>2. a * (N + 1) \in Nat /\ b * (N + 1) \in Nat
  BY Multiplied
<1>3. ASSUME b < a PROVE FALSE
  <2>1. b * (N + 1) + N + 1 <= a * (N + 1)
    BY <1>1, <1>3
  <2> QED
    BY <1>2, <2>1
<1>4. a <= b
  BY <1>3
<1>5. ASSUME a * (N + 1) + l = b * (N + 1) + m PROVE a = b /\ l = m
  <2>1. ASSUME a < b PROVE FALSE
    <3>1. a * (N + 1) + N + 1 <= b * (N + 1)
      BY <1>1, <2>1
    <3> QED
      BY <1>2, <1>5, <3>1
  <2>2. a = b
    BY <1>4, <2>1
  <2> QED
    BY <1>2, <1>5, <2>2
<1> QED
  BY <1>4, <1>5

\* The layers shed what is to go, down to their floors, and at the least cost.
LEMMA ShedFacts ==
    ASSUME NEW cost \in [Layers -> Nat], NEW floor \in [Layers -> 0 .. NE],
           NEW total \in Over(floor) .. NL * NE, NEW v, v = Shed(cost, floor, total)
    PROVE  /\ v \in [Layers -> 0 .. NE] /\ \A l \in Layers : floor[l] <= v[l]
           /\ Over(v) = total
           /\ \A w \in [Layers -> 0 .. NE] : (\A l \in Layers : w[l] >= floor[l]) /\ Over(w) = total =>
                 Damage(v, cost) <= Damage(w, cost)
<1> DEFINE room == [l \in Layers |-> NE - floor[l]]
           key == [l \in Layers |-> cost[l] * (NL + 1) + l]
           n == NL * NE - total
           x == Drained(Layers, room, n, key)
<1>1. Over(floor) \in 0 .. NL * NE /\ Over(room) = NL * NE - Over(floor) /\ total \in Int /\ NL * NE \in Nat
  BY LayerSums, Sizes
<1>2. n \in Nat /\ n <= Over(room)
  <2> HIDE DEF room
  <2> QED
    BY <1>1
<1>3. room \in [Layers -> Nat] /\ \A l \in Layers : room[l] = NE - floor[l] /\ room[l] <= NE
  BY Sizes
<1>4. ASSUME NEW l \in Layers PROVE key[l] \in Nat /\ cost[l] * (NL + 1) \in Nat
  BY Sizes, Multiplied
<1>5. ASSUME NEW l \in Layers, NEW m \in Layers
      PROVE  (key[l] <= key[m] => cost[l] <= cost[m]) /\ (key[l] = key[m] => l = m)
  <2>1. NL \in Nat /\ l \in 1 .. NL /\ m \in 1 .. NL /\ cost[l] \in Nat /\ cost[m] \in Nat
    BY Sizes DEF Layers
  <2>2. key[l] = cost[l] * (NL + 1) + l /\ key[m] = cost[m] * (NL + 1) + m /\ key[l] \in Nat /\ key[m] \in Nat
    BY <1>4
  <2>3. cost[l] * (NL + 1) + l <= cost[m] * (NL + 1) + m => cost[l] <= cost[m]
             /\ (cost[l] * (NL + 1) + l = cost[m] * (NL + 1) + m => l = m)
    BY <2>1, KeyOrder
  <2> HIDE DEF key
  <2> QED
    BY <2>2, <2>3
<1>6. key \in [Layers -> Nat]
  BY <1>4
<1> HIDE DEF room, key, n
<1>7. Cheapest(Layers, room, n, cost, x)
  <2>1. /\ IsFiniteSet(Layers) /\ room \in [Layers -> Nat] /\ n \in Nat /\ n <= Over(room)
        /\ key \in [Layers -> Nat] /\ (\A l, m \in Layers : key[l] = key[m] => l = m)
        /\ cost \in [Layers -> Nat] /\ (\A l, m \in Layers : key[l] <= key[m] => cost[l] <= cost[m])
    BY <1>2, <1>3, <1>5, <1>6, Sizes
  <2> QED
    BY <2>1, ShedInOrder
<1>8. v = [l \in Layers |-> NE - x[l]]
  <2>1. ASSUME NEW l \in Layers
        PROVE  [m \in {m \in Layers : cost[m] * (NL + 1) + m < cost[l] * (NL + 1) + l} |-> NE - floor[m]]
                 = On(room, {m \in Layers : key[m] < key[l]})
    BY DEF On, room, key
  <2> QED
    BY <2>1 DEF Shed, Drained, room, n
<1> HIDE DEF x
<1>13. /\ x \in [Layers -> Nat] /\ \A l \in Layers : x[l] <= room[l]
      /\ Over(x) = n
      /\ \A y \in [Layers -> Nat] : (\A l \in Layers : y[l] <= room[l]) /\ Over(y) = n =>
            Over([l \in Layers |-> cost[l] * x[l]]) <= Over([l \in Layers |-> cost[l] * y[l]])
  BY <1>7 DEF Cheapest
<1>9. ASSUME NEW l \in Layers PROVE v[l] \in 0 .. NE /\ floor[l] <= v[l] /\ NE - v[l] = x[l]
  <2>1. x[l] \in Nat /\ x[l] <= room[l] /\ room[l] = NE - floor[l] /\ floor[l] \in 0 .. NE /\ NE \in Nat
    BY <1>3, <1>13, Sizes
  <2> QED
    BY <1>8, <2>1
<1>10. v \in [Layers -> 0 .. NE]
  BY <1>8, <1>9
<1>11. Over(v) = total
  <2>1. [l \in Layers |-> NE - v[l]] = x
    BY <1>13, <1>9
  <2>2. Over(v) \in 0 .. NL * NE /\ Over([l \in Layers |-> NE - v[l]]) = NL * NE - Over(v)
    BY <1>10, LayerSums
  <2>3. Over(x) = NL * NE - Over(v)
    BY <2>1, <2>2
  <2> QED
    BY <1>1, <1>13, <2>2, <2>3 DEF n
<1>12. ASSUME NEW w \in [Layers -> 0 .. NE], \A l \in Layers : w[l] >= floor[l], Over(w) = total
       PROVE  Damage(v, cost) <= Damage(w, cost)
  <2> DEFINE y == [l \in Layers |-> NE - w[l]]
  <2>1. y \in [Layers -> Nat] /\ \A l \in Layers : y[l] <= room[l]
    BY <1>3, <1>12, Sizes
  <2>2. Over(y) = n
    BY <1>12, LayerSums DEF n
  <2>3. Damage(w, cost) = Over([l \in Layers |-> cost[l] * y[l]])
    BY DEF Damage
  <2>4. Damage(v, cost) = Over([l \in Layers |-> cost[l] * x[l]])
    <3>1. [l \in Layers |-> cost[l] * (NE - v[l])] = [l \in Layers |-> cost[l] * x[l]]
      BY <1>9
    <3> QED
      BY <3>1 DEF Damage
  <2> HIDE DEF y
  <2> QED
    BY <1>13, <2>1, <2>2, <2>3, <2>4
<1> QED
  BY <1>9, <1>10, <1>11, <1>12

----------------------------------------------------------------------------
\* The donor is one of the donors, the closest pair one of the pairs left.
LEMMA DonorFacts ==
    ASSUME redundancy \in [Layers -> Nat], \A p \in prior : p \in [Layers -> Nat], Donors # {}
    PROVE  Donor \in Donors
<1>1. Donors \subseteq Layers /\ IsFiniteSet(Donors)
  <2>1. Donors \subseteq Layers
    BY DEF Donors
  <2> QED
    BY <2>1, Sizes, FS_Subset
<1>2. ASSUME NEW l \in Layers PROVE Score(l) \in Nat
  <2>1. CASE prior = {}
    BY <2>1 DEF Score
  <2>2. CASE prior # {}
    <3>1. (CHOOSE p \in prior : TRUE) \in [Layers -> Nat]
      BY <2>2
    <3>2. (CHOOSE p \in prior : TRUE)[l] \in Nat /\ redundancy[l] \in Nat
      BY <3>1
    <3>3. Score(l) = redundancy[l] * (CHOOSE p \in prior : TRUE)[l]
      BY <2>2 DEF Score
    <3> QED
      BY <3>2, <3>3
  <2> QED
    BY <2>1, <2>2
<1> DEFINE key == [l \in Donors |-> Score(l) * (NL + 1) + l]
<1>3. key \in [Donors -> Nat]
  <2>1. ASSUME NEW l \in Donors PROVE Score(l) * (NL + 1) + l \in Nat
    <3>1. Score(l) \in Nat /\ NL + 1 \in Nat /\ l \in Nat
      BY <1>1, <1>2, Sizes
    <3> QED
      BY <3>1
  <2> QED
    BY <2>1
<1>4. PICK z \in Donors : \A m \in Donors : key[z] <= key[m]
  <2> HIDE DEF key
  <2> QED
    BY <1>1, <1>3, KeyBounds
<1>5. \A m \in Donors : Score(z) * (NL + 1) + z <= Score(m) * (NL + 1) + m
  BY <1>4
<1> QED
  BY <1>5 DEF Donor

\* The closest pair is a pair of two experts that are left.
LEMMA PairFacts ==
    ASSUME inp \in Inputs, NEW l \in Layers, PairsLeft(l) # {}
    PROVE  /\ ClosestPair(l) \in PairsLeft(l)
           /\ ClosestPair(l)[1] \in Experts \ absorbed[l] /\ ClosestPair(l)[2] \in Experts \ absorbed[l]
           /\ ClosestPair(l)[1] # ClosestPair(l)[2]
<1> DEFINE rank(r) == (inp.dist[l][r[1]][r[2]] * (NE + 1) + r[1]) * (NE + 1) + r[2]
           P == PairsLeft(l)
           key == [p \in P |-> rank(p)]
<1>1. P \subseteq Experts \X Experts /\ IsFiniteSet(P)
  <2>1. P \subseteq Experts \X Experts
    BY DEF PairsLeft
  <2>2. IsFiniteSet(Experts \X Experts)
    BY Sizes, FS_Product
  <2> QED
    BY <2>1, <2>2, FS_Subset
<1>2. ASSUME NEW p \in P PROVE rank(p) \in Nat
  <2>1. p[1] \in Experts /\ p[2] \in Experts
    BY <1>1
  <2>2. inp.dist[l][p[1]][p[2]] \in Nat /\ NE + 1 \in Nat /\ p[1] \in Nat /\ p[2] \in Nat
    BY <2>1, InputFacts, Sizes DEF Experts
  <2>3. inp.dist[l][p[1]][p[2]] * (NE + 1) + p[1] \in Nat
    BY <2>2
  <2>4. (inp.dist[l][p[1]][p[2]] * (NE + 1) + p[1]) * (NE + 1) \in Nat
    BY <2>2, <2>3
  <2> QED
    BY <2>2, <2>4
<1>3. key \in [P -> Nat]
  BY <1>2
<1>4. PICK z \in P : \A m \in P : key[z] <= key[m]
  <2> HIDE DEF key, P
  <2> QED
    BY <1>1, <1>3, KeyBounds DEF P
<1>5. \A m \in P : rank(z) <= rank(m)
  BY <1>4
<1>6. ClosestPair(l) \in P
  <2>1. ClosestPair(l) = CHOOSE p \in P : \A q \in P : rank(p) <= rank(q)
    BY DEF ClosestPair
  <2> HIDE DEF P, rank
  <2> QED
    BY <1>5, <2>1
<1> QED
  BY <1>6 DEF PairsLeft

----------------------------------------------------------------------------
(* The inductive invariant of Stage 1                                      *)

Early == {"solve", "phase_a", "sidecars", "detect", "filter", "curves", "grape_start"}
Late == {"rco", "write_blacklist", "write_filter", "write_budgets", "write_rco", "resolve",
         "stage2", "retune", "done"}
Listing == {"write_filter", "write_budgets", "write_rco", "resolve", "stage2", "retune", "done"}
Budgeted == {"write_rco", "resolve", "stage2", "retune", "done"}

Typed == /\ inp \in Inputs /\ stagePc \in Early \cup Late \cup {"grape", "failed"} /\ plan \in Int
         /\ solver \in [ep : Int, sp : Int, lastEp : Int, lastSp : Int, round : Int, kept : Int,
                        reduction : Int]
         /\ bag \in [Layers -> SUBSET Experts] /\ blacklist \in [Layers -> SUBSET Experts]
         /\ disk = [a \in Outputs |-> disk[a]]

\* Phase A: the samples counted are those passed, and all of them afterwards.
Passed == /\ attempt \in Nat /\ passed \in 0 .. Samples /\ seen \in Nat
          /\ stagePc = "solve" => passed = 0
          /\ stagePc \in {"solve", "phase_a"} => seen = passed
          /\ stagePc \notin {"solve", "phase_a", "failed"} => seen = Samples

\* The prior and the optimum are of the knapsack.
Priors == /\ stagePc \in Early \ {"grape_start"} => optimum = {} /\ prior = {}
          /\ stagePc = "grape_start" => optimum \subseteq Optimum
          /\ \A p \in prior : p \in [Layers -> Nat]

\* Where GRAPE has not begun, runs, or has ended.
Phases == /\ stagePc \in Early => exit = "none" /\ frozen = {} /\ structBlocked = {} /\ iters = 0
          /\ stagePc = "grape" => exit = "none"
          /\ stagePc \in Late => exit # "none"

\* GRAPE's tables, from its beginning on.
Kept(l) ==
    /\ counts[l] = NE - Cardinality(absorbed[l])
    /\ blacklist[l] \subseteq absorbed[l]
    /\ redundancy[l] = RedundancyIn(inp.dist[l], absorbed[l])
    /\ counts[l] + Cardinality(blacklist[l]) >= LayerFloor(Cardinality(blacklist[l]), inp.div)
    /\ counts[l] + Cardinality(blacklist[l]) >= 1
Tables == stagePc = "grape" \/ exit # "none" =>
    /\ counts \in [Layers -> Nat] /\ absorbed \in [Layers -> SUBSET Experts]
    /\ redundancy \in [Layers -> Nat] /\ \A l \in Layers : Kept(l)

\* While GRAPE runs: a blocked layer stays so; every thaw was paid for by a
\* merge before it; the total has not fallen below what is wanted.
Accounted == stagePc = "grape" =>
    /\ frozen \in SUBSET Layers /\ floorBlocked \in SUBSET Layers /\ structBlocked \in SUBSET Layers
    /\ \A l \in floorBlocked : counts[l] <= Floor(l)
    /\ \A l \in structBlocked : PairsLeft(l) = {} /\ counts[l] >= 1
    /\ Over(counts) <= Before /\ Over(counts) >= Least(Goal, Before)
    /\ iters \in Nat
    /\ iters + (IF frozen = {} THEN 0 ELSE 1)
           <= 2 * (Before - Over(counts)) + Cardinality(structBlocked)

\* What RCO answered, and what is on disk.
RcoAnswer ==
    /\ stagePc \in Early \cup {"grape", "rco"} => rcoVec = {}
    /\ stagePc = "write_blacklist" => \A v \in rcoVec : v = Settle(RcoOptions, RcoDamage, plan)
OnDisk ==
    /\ stagePc \in Listing => disk["blacklist"] = {blacklist}
    /\ stagePc \in Budgeted => disk["budgets"] = {Budgets}
    /\ stagePc # "done" => retuned = "none" /\ disk["retuned"] = {}
    /\ stagePc = "retune" => \E done \in SUBSET Layers : \E c \in [done -> Costs \cup {Inf}] : measured = {c}

\* Max and Min of two integers are integers.
LEMMA PairInt ==
    \A a, b \in Int : Max({a, b}) \in Int /\ Min({a, b}) \in Int
BY PairBounds DEF Most, Least

\* The quantities of the budget solver are integers, and what it divides by is positive.
LEMMA PoolTyped ==
    ASSUME inp \in Inputs, blacklist \in [Layers -> SUBSET Experts]
    PROVE  /\ Pool \in Int /\ All \in Nat \ {0} /\ NL * NE \in Nat \ {0}
           /\ \A ep \in Int : Survivors(ep) \in Int
           /\ \A k, sp \in Int : Projected(k, sp) \in Nat \ {0}
<1>1. NL * NE \in Nat \ {0} /\ All \in Nat \ {0}
  BY Sizes, Multiplied, SolverAssumption DEF All
<1> DEFINE listed(l) == IF stagePc = "resolve" THEN Cardinality(blacklist[l]) ELSE 0
           f == [l \in Layers |-> Max({inp.minExperts, listed(l)})]
<1>2. f \in [Layers -> Int]
  <2>1. ASSUME NEW l \in Layers PROVE Max({inp.minExperts, listed(l)}) \in Int
    <3>1. inp.minExperts \in Int /\ listed(l) \in Int
      BY InputFacts, Sizes
    <3> HIDE DEF listed
    <3> QED
      BY <3>1, PairInt
  <2> HIDE DEF listed
  <2> QED
    BY <2>1
<1>3. Protected \in Int
  <2>1. Protected = Over(f)
    BY DEF Protected
  <2> HIDE DEF f
  <2> QED
    BY <1>2, <2>1, Sizes, SumStep
<1>4. Pool \in Int
  <2>1. NL * NE - Protected \in Int /\ 0 \in Int
    BY <1>1, <1>3
  <2> QED
    BY <2>1, PairInt DEF Pool
<1>5. ASSUME NEW ep \in Int PROVE Survivors(ep) \in Int
  <2>1. ep * NL * NE \in Int
    BY Sizes, Multiplied
  <2>2. (ep * NL * NE) \div 1000 \in Int
    BY <2>1, Divided
  <2>3. Min({(ep * NL * NE) \div 1000, Pool}) \in Int
    <3> DEFINE x == (ep * NL * NE) \div 1000
    <3>1. x \in Int /\ Pool \in Int
      BY <1>4, <2>2
    <3> HIDE DEF x
    <3>2. Min({x, Pool}) \in Int
      BY <3>1, PairInt
    <3> QED
      BY <3>2 DEF x
  <2> QED
    BY <1>1, <2>3 DEF Survivors
<1>6. ASSUME NEW k \in Int, NEW sp \in Int PROVE Projected(k, sp) \in Nat \ {0}
  <2>1. 1000 * NL * NE - k * (1000 - sp) \in Int
    <3>1. k * (1000 - sp) \in Int /\ 1000 * NL * NE \in Int
      BY Sizes, Multiplied
    <3> QED
      BY <3>1
  <2>2. (1000 * NL * NE - k * (1000 - sp)) \div All \in Int
    BY <1>1, <2>1, Divided
  <2> QED
    BY <2>2 DEF Projected, Most
<1> QED
  BY <1>1, <1>4, <1>5, <1>6

SolverFields == [ep : Int, sp : Int, lastEp : Int, lastSp : Int, round : Int, kept : Int, reduction : Int]

\* The parts of the solver's state.
LEMMA SolverFacts ==
    ASSUME Typed
    PROVE  /\ solver \in SolverFields /\ Idle \in SolverFields /\ plan \in Int
           /\ solver.ep \in Int /\ solver.sp \in Int /\ solver.round \in Int /\ solver.kept \in Int
           /\ inp.target \in Nat /\ inp.ratio \in Nat /\ inp \in Inputs
<1>1. solver \in SolverFields /\ plan \in Int /\ inp \in Inputs
  BY DEF Typed, SolverFields
<1>2. Idle \in SolverFields
  BY DEF SolverFields, Idle
<1>3. solver.ep \in Int /\ solver.sp \in Int /\ solver.round \in Int /\ solver.kept \in Int
  BY <1>1 DEF SolverFields
<1>4. inp.target \in Nat /\ inp.ratio \in Nat
  BY <1>1, InputFacts
<1> QED
  BY <1>1, <1>2, <1>3, <1>4

\* The first round is a state of the solver.
LEMMA FirstRound ==
    \A r \in SolverFields : \A e, s \in Int : [r EXCEPT !.ep = e, !.sp = s, !.round = 1] \in SolverFields
<1> SUFFICES ASSUME NEW r \in SolverFields, NEW e \in Int, NEW s \in Int
             PROVE  [r EXCEPT !.ep = e, !.sp = s, !.round = 1] \in SolverFields
  OBVIOUS
<1> USE DEF SolverFields
<1>1. PICK a : a = [r EXCEPT !.ep = e, !.sp = s, !.round = 1]
  OBVIOUS
<1>2. a = [ep |-> e, sp |-> s, lastEp |-> r.lastEp, lastSp |-> r.lastSp, round |-> 1, kept |-> r.kept,
           reduction |-> r.reduction]
  BY <1>1
<1> QED
  BY <1>1, <1>2

\* The solver's start keeps its type.
LEMMA SolverStarts ==
    ASSUME Typed, SolveStart
    PROVE  solver' \in SolverFields
<1>1. solver \in SolverFields /\ Idle \in SolverFields /\ inp.target \in Nat /\ inp.ratio \in Nat
  BY SolverFacts
<1> DEFINE sp == Min({MaxSp, (inp.target * All * 100) \div (NL * NE * (inp.ratio + 100))})
           ep == Min({MaxEp, (sp * inp.ratio) \div 100})
<1>2. MaxSp \in Int /\ MaxEp \in Int
  BY SolverAssumption
<1>3. sp \in Int
  <2>1. inp.target * All * 100 \in Int /\ NL * NE * (inp.ratio + 100) \in Nat \ {0}
    BY <1>1, PoolTyped, Multiplied DEF Typed
  <2>2. (inp.target * All * 100) \div (NL * NE * (inp.ratio + 100)) \in Int
    BY <2>1, Divided
  <2> QED
    BY <1>2, <2>2, PairInt
<1>4. ep \in Int
  <2> HIDE DEF sp
  <2>1. sp * inp.ratio \in Int
    BY <1>1, <1>3, Multiplied
  <2>2. (sp * inp.ratio) \div 100 \in Int
    BY <2>1, Divided
  <2> QED
    BY <1>2, <2>2, PairInt
<1>5. solver' = [Idle EXCEPT !.ep = ep, !.sp = sp, !.round = 1] \/ solver' = solver
  BY DEF SolveStart
<1> HIDE DEF ep, sp
<1>6. [Idle EXCEPT !.ep = ep, !.sp = sp, !.round = 1] \in SolverFields
  BY <1>1, <1>3, <1>4, FirstRound
<1> QED
  BY <1>1, <1>5, <1>6

\* A round keeps its type: it divides by what is saved and by what survives, never by zero.
LEMMA SolverRounds ==
    ASSUME Typed, SolveRound
    PROVE  solver' \in SolverFields /\ plan' \in Int
<1>1. solver \in SolverFields /\ Idle \in SolverFields /\ inp.target \in Nat /\ plan \in Int
      /\ solver.ep \in Int /\ solver.sp \in Int /\ solver.round \in Int
  BY SolverFacts
<1>2. /\ Pool \in Int /\ All \in Nat \ {0} /\ NL * NE \in Nat \ {0}
      /\ \A ep \in Int : Survivors(ep) \in Int
      /\ \A k, sp \in Int : Projected(k, sp) \in Nat \ {0}
  BY PoolTyped DEF Typed
<1> DEFINE kept == Survivors(solver.ep)
           red == Projected(kept, solver.sp)
           ep2 == (solver.ep * inp.target) \div red
           sp2 == (solver.sp * inp.target) \div red
           epFloor == Min({MaxEp, (Pool * 1000) \div (NL * NE)})
           cut == (1000 * NL * NE - inp.target * All) \div Survivors(epFloor)
           spFloor == Max({0, Min({MaxSp, 1000 - cut})})
           next == IF ep2 * NL * NE > Pool * 1000 THEN <<epFloor, spFloor>>
                   ELSE <<Min({MaxEp, ep2}), Min({MaxSp, sp2})>>
<1>3. MaxSp \in 1 .. 999 /\ MaxEp \in 1 .. 999
  BY SolverAssumption
<1>4. kept \in Int /\ red \in Nat \ {0}
  BY <1>1, <1>2
<1>5. ep2 \in Int /\ sp2 \in Int
  <2> HIDE DEF kept, red
  <2>1. solver.ep * inp.target \in Int /\ solver.sp * inp.target \in Int
    BY <1>1, Multiplied
  <2> QED
    BY <1>4, <2>1, Divided
<1>6. epFloor \in Int /\ epFloor <= MaxEp
  <2> DEFINE most == (Pool * 1000) \div (NL * NE)
  <2>1. Pool * 1000 \in Int /\ NL * NE \in Nat \ {0}
    BY <1>2
  <2>2. most \in Int
    <3> DEFINE a == Pool * 1000
               b == NL * NE
    <3>1. a \in Int /\ b \in Nat \ {0}
      BY <2>1
    <3> HIDE DEF a, b
    <3>2. a \div b \in Int
      BY <3>1, Divided
    <3> QED
      BY <3>2 DEF a, b
  <2> HIDE DEF most
  <2>4. MaxEp \in Int
    BY <1>3
  <2>3. Min({MaxEp, most}) = Least(MaxEp, most)
    BY <2>2, <2>4, PairBounds
  <2>5. epFloor = Least(MaxEp, most)
    BY <2>3 DEF most
  <2> HIDE DEF epFloor
  <2> QED
    BY <2>2, <2>4, <2>5 DEF Least
<1>7. Survivors(epFloor) \in Nat \ {0}
  <2> HIDE DEF epFloor
  <2>1. epFloor <= 999
    BY <1>3, <1>6
  <2> DEFINE t == NL * NE
             x == (epFloor * NL * NE) \div 1000
  <2>2. epFloor * t <= 999 * t /\ epFloor * t \in Int
    <3>1. (999 - epFloor) * t \in Nat
      <4>1. 999 - epFloor \in Nat /\ t \in Nat
        BY <1>2, <1>6, <2>1
      <4> HIDE DEF t
      <4> QED
        BY <4>1
    <3>2. t \in Int
      BY <1>2
    <3> HIDE DEF t
    <3> QED
      BY <1>6, <3>1, <3>2
  <2>3. epFloor * NL * NE = epFloor * t
    BY <1>6, Sizes
  <2>4. x \in Int /\ x < t
    <3>1. t \in Nat \ {0}
      BY <1>2
    <3>2. x = (epFloor * t) \div 1000
      BY <2>3
    <3> HIDE DEF t, x
    <3> QED
      BY <2>2, <3>1, <3>2
  <2>5. Survivors(epFloor) = t - Least(x, Pool)
    <3> HIDE DEF t, x
    <3>1. Min({x, Pool}) = Least(x, Pool)
      BY <1>2, <2>4, PairBounds
    <3> QED
      BY <3>1 DEF Survivors, x, t
  <2> HIDE DEF t, x
  <2>6. t \in Nat
    BY <1>2 DEF t
  <2> QED
    BY <1>2, <2>4, <2>5, <2>6 DEF Least
<1>8. spFloor \in Int
  <2> HIDE DEF epFloor
  <2>1. 1000 * NL * NE - inp.target * All \in Int
    <3>1. inp.target * All \in Int /\ 1000 * NL * NE \in Int
      <4>3. inp.target \in Int
        BY <1>1
      <4>4. All \in Int
        BY <1>2
      <4>1. inp.target \in Int /\ All \in Int
        BY <4>3, <4>4
      <4>2. NL \in Int /\ NE \in Int
        BY Sizes
      <4> QED
        BY <4>1, <4>2, Multiplied
    <3> QED
      BY <3>1
  <2>2. cut \in Int
    BY <1>7, <2>1, Divided
  <2> HIDE DEF cut
  <2>3. Min({MaxSp, 1000 - cut}) \in Int
    <3>1. 1000 - cut \in Int /\ MaxSp \in Int
      BY <1>3, <2>2
    <3> QED
      BY <3>1, PairInt
  <2> QED
    BY <2>3, PairInt
<1>9. next[1] \in Int /\ next[2] \in Int
  <2>1. Min({MaxEp, ep2}) \in Int /\ Min({MaxSp, sp2}) \in Int
    <3>1. MaxEp \in Int /\ MaxSp \in Int
      BY <1>3
    <3> HIDE DEF ep2, sp2
    <3> QED
      BY <1>5, <3>1, PairInt
  <2> HIDE DEF ep2, sp2, epFloor, spFloor
  <2> QED
    BY <1>6, <1>8, <2>1
<1>10. \/ solver' = solver /\ plan' = plan
       \/ Answer(kept)
       \/ /\ solver' = [ep |-> next[1], sp |-> next[2], lastEp |-> solver.ep,
                        lastSp |-> solver.sp, round |-> solver.round + 1,
                        kept |-> kept, reduction |-> red]
          /\ plan' = plan
  BY DEF SolveRound
<1> HIDE DEF kept, red, next
<1>11. CASE Answer(kept)
  BY <1>1, <1>4, <1>11 DEF Answer
<1>12. [ep |-> next[1], sp |-> next[2], lastEp |-> solver.ep,
        lastSp |-> solver.sp, round |-> solver.round + 1,
        kept |-> kept, reduction |-> red] \in SolverFields
  BY <1>1, <1>4, <1>9 DEF SolverFields
<1> QED
  BY <1>1, <1>10, <1>11, <1>12

\* So does its end.
LEMMA SolverSettles ==
    ASSUME Typed, SolveSettled
    PROVE  solver' \in SolverFields /\ plan' \in Int
<1>1. solver \in SolverFields /\ Idle \in SolverFields /\ plan \in Int /\ solver.kept \in Int
  BY SolverFacts
<1> QED
  BY <1>1 DEF SolveSettled, Answer

----------------------------------------------------------------------------
(* What no step changes, and the types                                     *)

\* The input never changes; what GRAPE counts by does not once it runs.
LEMMA Frames ==
    ASSUME Typed, [Stage1Next]_stage1Vars
    PROVE  /\ inp' = inp
           /\ stagePc \notin Early => UNCHANGED <<plan, blacklist, optimum, prior>>
<1>1. CASE SolveStart BY <1>1 DEF SolveStart, detection, answers
<1>2. CASE SolveRound BY <1>2 DEF SolveRound, detection, answers, Answer, Early, Solving, Reject, ProceedTo
<1>3. CASE SolveSettled BY <1>3 DEF SolveSettled, detection, answers, Answer, Early, Solving, Reject, ProceedTo
<1>4. CASE StartPhaseA BY <1>4 DEF StartPhaseA, detection, answers
<1>5. CASE PhaseABatch BY <1>5 DEF PhaseABatch, detection, answers
<1>6. CASE OutOfMemory BY <1>6 DEF OutOfMemory, detection, answers
<1>7. CASE EndPhaseA BY <1>7 DEF EndPhaseA, answers
<1>8. CASE ReadSidecars BY <1>8 DEF ReadSidecars, answers
<1>9. CASE Detect BY <1>9 DEF Detect, answers
<1>10. CASE Filter BY <1>10 DEF Filter, Early
<1>11. CASE Curve BY <1>11 DEF Curve, Early
<1>12. CASE GrapeStart BY <1>12 DEF GrapeStart, detection, answers
<1>13. CASE GrapeStops BY <1>13 DEF GrapeStops, grapeFrame, detection, answers
<1>14. CASE GrapeThaws BY <1>14 DEF GrapeThaws, grapeFrame, detection, answers
<1>15. CASE GrapeNoPair BY <1>15 DEF GrapeNoPair, grapeFrame, detection, answers
<1>16. CASE GrapeMerges BY <1>16 DEF GrapeMerges, grapeFrame, detection, answers
<1>17. CASE Rco BY <1>17 DEF Rco, detection
<1>18. CASE WriteBlacklist BY <1>18 DEF WriteBlacklist, Wrote, detection, answers
<1>19. CASE WriteFilter BY <1>19 DEF WriteFilter, Wrote, detection, answers
<1>20. CASE WriteBudgets BY <1>20 DEF WriteBudgets, Wrote, detection, answers
<1>21. CASE WriteRco BY <1>21 DEF WriteRco, Wrote, detection, answers
<1>22. CASE Stage2Leaves BY <1>22 DEF Stage2Leaves, detection, answers
<1>23. CASE Retune BY <1>23 DEF Retune, detection, answers
<1>24. CASE UNCHANGED stage1Vars BY <1>24 DEF stage1Vars, detection, answers
<1> QED
  BY <1>1, <1>2, <1>3, <1>4, <1>5, <1>6, <1>7, <1>8, <1>9, <1>10, <1>11, <1>12, <1>13, <1>14, <1>15,
     <1>16, <1>17, <1>18, <1>19, <1>20, <1>21, <1>22, <1>23, <1>24 DEF Stage1Next

\* The retuning writes one artifact at most.
LEMMA RetuneWrites ==
    Retune => (disk' = disk \/ \E x : disk' = [disk EXCEPT !["retuned"] = x])
<1> SUFFICES ASSUME Retune PROVE disk' = disk \/ \E x : disk' = [disk EXCEPT !["retuned"] = x]
  OBVIOUS
<1> DEFINE X == {Shed(c, f, t) : c \in {Marginal}, f \in {Floors}, t \in {Over(Old)}}
<1>1. disk' = [disk EXCEPT !["retuned"] = X] \/ disk' = disk
  BY DEF Retune
<1> HIDE DEF X
<1> QED
  BY <1>1

\* Every step keeps the types.
LEMMA TypedStep ==
    ASSUME Typed, [Stage1Next]_stage1Vars
    PROVE  Typed'
<1> DEFINE PCs == Early \cup Late \cup {"grape", "failed"}
           marks == [Layers -> SUBSET Experts]
           whole == [a \in Outputs |-> disk[a]]
           TypedNow == /\ inp \in Inputs /\ stagePc \in PCs /\ plan \in Int /\ solver \in SolverFields
                 /\ bag \in marks /\ blacklist \in marks /\ disk = whole
<1>0. TypedNow /\ inp' = inp
  BY Frames DEF Typed, SolverFields
<1> DEFINE TypedNext == /\ stagePc' \in PCs /\ plan' \in Int /\ solver' \in SolverFields
                    /\ bag' \in marks /\ blacklist' \in marks /\ disk' = [a \in Outputs |-> disk'[a]]
<1> SUFFICES TypedNext
  BY <1>0 DEF Typed, SolverFields
<1> USE DEF Early, Late, ProceedTo, Reject, detection, answers, grape, phaseA, after
<1>1. CASE SolveStart
  <2>1. solver' \in SolverFields
    BY <1>1, SolverStarts
  <2> QED
    BY <1>0, <1>1, <2>1 DEF SolveStart, Solving
<1>2. CASE SolveRound
  <2>1. solver' \in SolverFields /\ plan' \in Int
    BY <1>2, SolverRounds
  <2>2. disk' = [a \in Outputs |-> disk'[a]] /\ stagePc' \in PCs
    BY <1>0, <1>2 DEF SolveRound, Answer
  <2> QED
    BY <1>0, <1>2, <2>1, <2>2 DEF SolveRound
<1>3. CASE SolveSettled
  <2>1. solver' \in SolverFields /\ plan' \in Int
    BY <1>3, SolverSettles
  <2>2. disk' = [a \in Outputs |-> disk'[a]] /\ stagePc' \in PCs
    BY <1>0, <1>3 DEF SolveSettled, Answer
  <2> QED
    BY <1>0, <1>3, <2>1, <2>2 DEF SolveSettled
<1>4. CASE StartPhaseA BY <1>0, <1>4 DEF StartPhaseA
<1>5. CASE PhaseABatch BY <1>0, <1>5 DEF PhaseABatch
<1>6. CASE OutOfMemory BY <1>0, <1>6 DEF OutOfMemory
<1>7. CASE EndPhaseA BY <1>0, <1>7 DEF EndPhaseA
<1>8. CASE ReadSidecars BY <1>0, <1>8 DEF ReadSidecars
<1>9. CASE Detect
  <2>1. bag' \in marks
    BY <1>9 DEF Detect
  <2> QED
    BY <1>0, <1>9, <2>1 DEF Detect
<1>10. CASE Filter
  <2>1. blacklist' \in marks
    BY <1>0, <1>10 DEF Filter
  <2> QED
    BY <1>0, <1>10, <2>1 DEF Filter
<1>11. CASE Curve BY <1>0, <1>11 DEF Curve
<1>12. CASE GrapeStart BY <1>0, <1>12 DEF GrapeStart
<1>13. CASE GrapeStops BY <1>0, <1>13 DEF GrapeStops, grapeFrame
<1>14. CASE GrapeThaws BY <1>0, <1>14 DEF GrapeThaws, grapeFrame
<1>15. CASE GrapeNoPair BY <1>0, <1>15 DEF GrapeNoPair, grapeFrame
<1>16. CASE GrapeMerges BY <1>0, <1>16 DEF GrapeMerges, grapeFrame
<1>17. CASE Rco BY <1>0, <1>17 DEF Rco
<1>18. CASE WriteBlacklist BY <1>0, <1>18 DEF WriteBlacklist, Wrote, Write
<1>19. CASE WriteFilter BY <1>0, <1>19 DEF WriteFilter, Wrote, Write
<1>20. CASE WriteBudgets BY <1>0, <1>20 DEF WriteBudgets, Wrote, Write
<1>21. CASE WriteRco BY <1>0, <1>21 DEF WriteRco, Wrote, Write
<1>22. CASE Stage2Leaves BY <1>0, <1>22 DEF Stage2Leaves
<1>23. CASE Retune
  <2>0. disk' = disk \/ \E x : disk' = [disk EXCEPT !["retuned"] = x]
    BY <1>23, RetuneWrites
  <2>1. disk' = [a \in Outputs |-> disk'[a]]
    BY <1>0, <2>0
  <2>2. stagePc' = "done" /\ UNCHANGED <<plan, solver, bag, blacklist>>
    BY <1>23 DEF Retune
  <2> QED
    BY <1>0, <2>1, <2>2
<1>24. CASE UNCHANGED stage1Vars BY <1>0, <1>24 DEF stage1Vars
<1> QED
  BY <1>1, <1>2, <1>3, <1>4, <1>5, <1>6, <1>7, <1>8, <1>9, <1>10, <1>11, <1>12, <1>13, <1>14, <1>15,
     <1>16, <1>17, <1>18, <1>19, <1>20, <1>21, <1>22, <1>23, <1>24 DEF Stage1Next

----------------------------------------------------------------------------
(* Phase A, priors and phases                                              *)

\* What RCO is given does not depend on GRAPE.
LEMMA SameRaw ==
    ASSUME inp' = inp, blacklist' = blacklist
    PROVE  RawR' = RawR /\ LowR' = LowR /\ SpreadR' = SpreadR /\ RcoOptions' = RcoOptions /\ RcoDamage' = RcoDamage
<1>1. RawR' = RawR
  BY DEF RawR, Redundancy
<1>2. LowR' = LowR /\ SpreadR' = SpreadR
  BY <1>1 DEF LowR, SpreadR
<1> QED
  BY <1>1, <1>2 DEF RcoOptions, RcoDamage

\* What the blacklist and the plan determine.
LEMMA SameLists ==
    ASSUME inp' = inp, UNCHANGED <<blacklist, plan>>
    PROVE  /\ ListedTotal' = ListedTotal /\ Before' = Before /\ Goal' = Goal
           /\ Room' = Room /\ Curves' = Curves /\ Merges' = Merges /\ Optimum' = Optimum
           /\ \A l \in Layers : Listed(l)' = Listed(l) /\ Floor(l)' = Floor(l)
<1>1. \A l \in Layers : Listed(l)' = Listed(l)
  BY DEF Listed
<1>2. ListedTotal' = ListedTotal
  BY DEF Listed, ListedTotal
<1>3. Before' = Before /\ Goal' = Goal /\ Merges' = Merges
  BY <1>2 DEF Before, Goal, Merges
<1>4. Room' = Room
  BY DEF Room, Listed
<1>5. Curves' = Curves
  BY <1>4 DEF Curves
<1>6. Optimum' = Optimum
  BY <1>3, <1>4, <1>5 DEF Optimum
<1>7. \A l \in Layers : Floor(l)' = Floor(l)
  BY <1>1 DEF Floor, Listed
<1> QED
  BY <1>1, <1>2, <1>3, <1>4, <1>5, <1>6, <1>7

\* Phase A counts every sample once, whatever batch sizes it tries.
LEMMA PassedStep ==
    ASSUME Typed, Passed, [Stage1Next]_stage1Vars
    PROVE  Passed'
<1>0. /\ attempt \in Nat /\ passed \in 0 .. Samples /\ seen \in Nat /\ Samples \in Nat /\ FloorBatch \in Nat
      /\ StartBatch \subseteq Nat
  BY BatchAssumption DEF Passed
<1> USE DEF ProceedTo, Reject, phaseA, Passed
<1>1. CASE SolveStart BY <1>0, <1>1 DEF SolveStart, Solving
<1>2. CASE SolveRound BY <1>0, <1>2 DEF SolveRound, Answer, Solving
<1>3. CASE SolveSettled BY <1>0, <1>3 DEF SolveSettled, Answer, Solving
<1>4. CASE StartPhaseA
  <2>1. PICK b \in StartBatch : attempt' = Max({b, FloorBatch})
    BY <1>4 DEF StartPhaseA
  <2>2. b \in Int /\ FloorBatch \in Int /\ b \in Nat
    BY <1>0
  <2>3. Max({b, FloorBatch}) = Most(b, FloorBatch)
    BY <2>2, PairBounds
  <2>4. attempt' \in Nat
    BY <1>0, <2>1, <2>2, <2>3 DEF Most
  <2> QED
    BY <1>0, <1>4, <2>4 DEF StartPhaseA
<1>5. CASE PhaseABatch
  <2>1. Min({Samples, passed + attempt}) = Least(Samples, passed + attempt)
    <3>1. Samples \in Int /\ passed + attempt \in Int
      BY <1>0
    <3> QED
      BY <3>1, PairBounds
  <2>2. passed' \in 0 .. Samples /\ passed' >= passed
    BY <1>0, <1>5, <2>1 DEF PhaseABatch, Least
  <2> QED
    BY <1>0, <1>5, <2>2 DEF PhaseABatch
<1>6. CASE OutOfMemory
  <2>1. CASE attempt <= FloorBatch
    BY <1>0, <1>6, <2>1 DEF OutOfMemory
  <2>2. CASE ~ (attempt <= FloorBatch)
    <3>1. BackOff(attempt) \in Nat
      <4> DEFINE q == (attempt * 3) \div 4
                 m == Min({q, attempt - 1})
      <4>1. q \in Int /\ attempt - 1 \in Int
        BY <1>0
      <4>2. m \in Int
        <5> HIDE DEF q
        <5> QED
          BY <4>1, PairInt
      <4>3. Max({m, FloorBatch}) = Most(m, FloorBatch)
        <5>1. FloorBatch \in Int
          BY <1>0
        <5> HIDE DEF m
        <5> QED
          BY <4>2, <5>1, PairBounds
      <4>4. BackOff(attempt) = Max({m, FloorBatch})
        BY DEF BackOff
      <4> HIDE DEF m
      <4> QED
        BY <1>0, <4>2, <4>3, <4>4 DEF Most
    <3>2. attempt' = BackOff(attempt) /\ passed' = 0 /\ seen' = 0 /\ stagePc = "phase_a" /\ stagePc' = stagePc
      BY <1>6, <2>2 DEF OutOfMemory, Retry
    <3> QED
      BY <1>0, <3>1, <3>2
  <2> QED
    BY <2>1, <2>2
<1>7. CASE EndPhaseA
  <2>1. passed = Samples /\ seen = Samples
    BY <1>0, <1>7 DEF EndPhaseA
  <2> QED
    BY <1>0, <1>7, <2>1 DEF EndPhaseA
<1>8. CASE ReadSidecars BY <1>0, <1>8 DEF ReadSidecars
<1>9. CASE Detect BY <1>0, <1>9 DEF Detect
<1>10. CASE Filter BY <1>0, <1>10 DEF Filter
<1>11. CASE Curve BY <1>0, <1>11 DEF Curve
<1>12. CASE GrapeStart BY <1>0, <1>12 DEF GrapeStart
<1>13. CASE GrapeStops BY <1>0, <1>13 DEF GrapeStops, grapeFrame, Looping
<1>14. CASE GrapeThaws BY <1>0, <1>14 DEF GrapeThaws, grapeFrame
<1>15. CASE GrapeNoPair BY <1>0, <1>15 DEF GrapeNoPair, grapeFrame
<1>16. CASE GrapeMerges BY <1>0, <1>16 DEF GrapeMerges, grapeFrame
<1>17. CASE Rco BY <1>0, <1>17 DEF Rco
<1>18. CASE WriteBlacklist BY <1>0, <1>18 DEF WriteBlacklist, Wrote, Write
<1>19. CASE WriteFilter BY <1>0, <1>19 DEF WriteFilter, Wrote, Write
<1>20. CASE WriteBudgets BY <1>0, <1>20 DEF WriteBudgets, Wrote, Write
<1>21. CASE WriteRco BY <1>0, <1>21 DEF WriteRco, Wrote, Write
<1>22. CASE Stage2Leaves BY <1>0, <1>22 DEF Stage2Leaves
<1>23. CASE Retune BY <1>0, <1>23 DEF Retune
<1>24. CASE UNCHANGED stage1Vars BY <1>0, <1>24 DEF stage1Vars
<1> QED
  BY <1>1, <1>2, <1>3, <1>4, <1>5, <1>6, <1>7, <1>8, <1>9, <1>10, <1>11, <1>12, <1>13, <1>14, <1>15,
     <1>16, <1>17, <1>18, <1>19, <1>20, <1>21, <1>22, <1>23, <1>24 DEF Stage1Next

\* Priors come from the knapsack alone.
LEMMA PriorsStep ==
    ASSUME Typed, Priors, [Stage1Next]_stage1Vars
    PROVE  Priors'
<1>0. stagePc \in Early \cup Late \cup {"grape", "failed"} /\ (\A p \in prior : p \in [Layers -> Nat])
  BY DEF Typed, Priors
<1>00. inp' = inp
  BY Frames
<1> USE DEF ProceedTo, Reject, Early, Late, answers, detection
<1>1. CASE SolveStart BY <1>1 DEF SolveStart, Solving, Priors
<1>2. CASE SolveRound BY <1>2 DEF SolveRound, Answer, Solving, Priors
<1>3. CASE SolveSettled BY <1>3 DEF SolveSettled, Answer, Solving, Priors
<1>4. CASE StartPhaseA BY <1>4 DEF StartPhaseA, Priors
<1>5. CASE PhaseABatch BY <1>5 DEF PhaseABatch, Priors
<1>6. CASE OutOfMemory BY <1>6 DEF OutOfMemory, Priors
<1>7. CASE EndPhaseA BY <1>7 DEF EndPhaseA, Priors
<1>8. CASE ReadSidecars BY <1>8 DEF ReadSidecars, Priors
<1>9. CASE Detect BY <1>9 DEF Detect, Priors
<1>10. CASE Filter BY <1>10 DEF Filter, Priors
<1>11. CASE Curve
  <2>1. UNCHANGED <<blacklist, plan>> /\ stagePc' = "grape_start" /\ stagePc = "curves"
    BY <1>11 DEF Curve
  <2>2. Optimum' = Optimum
    BY <1>00, <2>1, SameLists
  <2>3. optimum = {} /\ prior = {}
    BY <2>1 DEF Priors
  <2>4. CASE inp.dp
    <3>1. optimum' = Optimum /\ prior' = {PriorOf(v) : v \in optimum'}
      BY <1>11, <2>4 DEF Curve
    <3>2. \A v \in Optimum : PriorOf(v) \in [Layers -> Nat]
      BY PriorTyped DEF Typed
    <3>3. \A p \in prior' : p \in [Layers -> Nat]
      BY <3>1, <3>2
    <3> QED
      BY <2>1, <2>2, <3>1, <3>3 DEF Priors
  <2>5. CASE ~ inp.dp
    <3>1. optimum' = optimum /\ prior' = prior
      BY <1>11, <2>5 DEF Curve
    <3> QED
      BY <2>1, <2>3, <3>1 DEF Priors
  <2> QED
    BY <2>4, <2>5
<1>12. CASE GrapeStart BY <1>12 DEF GrapeStart, Priors
<1>13. CASE GrapeStops BY <1>13 DEF GrapeStops, grapeFrame, Priors
<1>14. CASE GrapeThaws BY <1>14 DEF GrapeThaws, grapeFrame, Priors, MayLoop, Looping
<1>15. CASE GrapeNoPair BY <1>15 DEF GrapeNoPair, grapeFrame, Priors, MayLoop, Looping
<1>16. CASE GrapeMerges BY <1>16 DEF GrapeMerges, grapeFrame, Priors, MayLoop, Looping
<1>17. CASE Rco BY <1>17 DEF Rco, Priors
<1>18. CASE WriteBlacklist BY <1>18 DEF WriteBlacklist, Wrote, Write, Priors
<1>19. CASE WriteFilter BY <1>19 DEF WriteFilter, Wrote, Write, Priors
<1>20. CASE WriteBudgets BY <1>20 DEF WriteBudgets, Wrote, Write, Priors
<1>21. CASE WriteRco BY <1>21 DEF WriteRco, Wrote, Write, Priors
<1>22. CASE Stage2Leaves BY <1>22 DEF Stage2Leaves, Priors
<1>23. CASE Retune BY <1>23 DEF Retune, Priors
<1>24. CASE UNCHANGED stage1Vars
  <2>1. Optimum' = Optimum
    BY <1>00, <1>24, SameLists DEF stage1Vars
  <2> QED
    BY <1>24, <2>1 DEF stage1Vars, Priors
<1> QED
  BY <1>1, <1>2, <1>3, <1>4, <1>5, <1>6, <1>7, <1>8, <1>9, <1>10, <1>11, <1>12, <1>13, <1>14, <1>15,
     <1>16, <1>17, <1>18, <1>19, <1>20, <1>21, <1>22, <1>23, <1>24 DEF Stage1Next

\* GRAPE's exit is set once, when it ends.
LEMMA PhasesStep ==
    ASSUME Typed, Phases, [Stage1Next]_stage1Vars
    PROVE  Phases'
<1>0. stagePc \in Early \cup Late \cup {"grape", "failed"}
  BY DEF Typed
<1> USE DEF ProceedTo, Reject, Early, Late, grape, Phases
<1>1. CASE SolveStart BY <1>0, <1>1 DEF SolveStart, Solving
<1>2. CASE SolveRound BY <1>0, <1>2 DEF SolveRound, Answer, Solving
<1>3. CASE SolveSettled BY <1>0, <1>3 DEF SolveSettled, Answer, Solving
<1>4. CASE StartPhaseA BY <1>4 DEF StartPhaseA
<1>5. CASE PhaseABatch BY <1>5 DEF PhaseABatch
<1>6. CASE OutOfMemory BY <1>6 DEF OutOfMemory
<1>7. CASE EndPhaseA BY <1>7 DEF EndPhaseA
<1>8. CASE ReadSidecars BY <1>8 DEF ReadSidecars
<1>9. CASE Detect BY <1>9 DEF Detect
<1>10. CASE Filter BY <1>10 DEF Filter
<1>11. CASE Curve BY <1>11 DEF Curve
<1>12. CASE GrapeStart BY <1>12 DEF GrapeStart
<1>13. CASE GrapeStops
  <2>1. stagePc' = "rco" /\ exit' \in {"empty", "max_iter", "budget", "no_layer"}
    BY <1>13 DEF GrapeStops
  <2> QED
    BY <2>1
<1>14. CASE GrapeThaws BY <1>14 DEF GrapeThaws, grapeFrame, MayLoop, Looping
<1>15. CASE GrapeNoPair BY <1>15 DEF GrapeNoPair, grapeFrame, MayLoop, Looping
<1>16. CASE GrapeMerges BY <1>16 DEF GrapeMerges, grapeFrame, MayLoop, Looping
<1>17. CASE Rco BY <1>17 DEF Rco
<1>18. CASE WriteBlacklist BY <1>18 DEF WriteBlacklist, Wrote, Write
<1>19. CASE WriteFilter BY <1>19 DEF WriteFilter, Wrote, Write
<1>20. CASE WriteBudgets BY <1>20 DEF WriteBudgets, Wrote, Write
<1>21. CASE WriteRco BY <1>21 DEF WriteRco, Wrote, Write
<1>22. CASE Stage2Leaves BY <1>22 DEF Stage2Leaves
<1>23. CASE Retune BY <1>23 DEF Retune
<1>24. CASE UNCHANGED stage1Vars BY <1>24 DEF stage1Vars
<1> QED
  BY <1>1, <1>2, <1>3, <1>4, <1>5, <1>6, <1>7, <1>8, <1>9, <1>10, <1>11, <1>12, <1>13, <1>14, <1>15,
     <1>16, <1>17, <1>18, <1>19, <1>20, <1>21, <1>22, <1>23, <1>24 DEF Stage1Next

----------------------------------------------------------------------------
(* What RCO answered and what is on disk                                   *)

\* RCO's answer is that of its solver.
LEMMA RcoAnswerStep ==
    ASSUME Typed, RcoAnswer, [Stage1Next]_stage1Vars
    PROVE  RcoAnswer'
<1>0. stagePc \in Early \cup Late \cup {"grape", "failed"} /\ inp' = inp
  BY Frames DEF Typed
<1>00. stagePc \in Early \cup {"grape", "rco"} => rcoVec = {}
  BY DEF RcoAnswer
<1> USE DEF ProceedTo, Reject, Early, Late, answers, detection
<1> DEFINE Plain == /\ stagePc' \in Early \cup {"grape", "rco"} => rcoVec' = {}
                    /\ stagePc' # "write_blacklist"
<1>99. Plain => RcoAnswer'
  BY DEF RcoAnswer
<1>1. CASE SolveStart BY <1>00, <1>1, <1>99 DEF SolveStart, Solving
<1>2. CASE SolveRound BY <1>00, <1>2, <1>99 DEF SolveRound, Answer, Solving
<1>3. CASE SolveSettled BY <1>00, <1>3, <1>99 DEF SolveSettled, Answer, Solving
<1>4. CASE StartPhaseA BY <1>00, <1>4, <1>99 DEF StartPhaseA
<1>5. CASE PhaseABatch BY <1>00, <1>5, <1>99 DEF PhaseABatch
<1>6. CASE OutOfMemory BY <1>00, <1>6, <1>99 DEF OutOfMemory
<1>7. CASE EndPhaseA BY <1>00, <1>7, <1>99 DEF EndPhaseA
<1>8. CASE ReadSidecars BY <1>00, <1>8, <1>99 DEF ReadSidecars
<1>9. CASE Detect BY <1>00, <1>9, <1>99 DEF Detect
<1>10. CASE Filter BY <1>00, <1>10, <1>99 DEF Filter
<1>11. CASE Curve BY <1>00, <1>11, <1>99 DEF Curve
<1>12. CASE GrapeStart BY <1>00, <1>12, <1>99 DEF GrapeStart
<1>13. CASE GrapeStops
  <2>1. stagePc = "grape" /\ stagePc' = "rco" /\ rcoVec' = rcoVec
    BY <1>13 DEF GrapeStops, grapeFrame, Looping
  <2> QED
    BY <1>00, <2>1, <1>99
<1>14. CASE GrapeThaws BY <1>00, <1>14, <1>99 DEF GrapeThaws, grapeFrame, MayLoop, Looping
<1>15. CASE GrapeNoPair BY <1>00, <1>15, <1>99 DEF GrapeNoPair, grapeFrame, MayLoop, Looping
<1>16. CASE GrapeMerges BY <1>00, <1>16, <1>99 DEF GrapeMerges, grapeFrame, MayLoop, Looping
<1>17. CASE Rco
  <2>1. UNCHANGED <<plan, blacklist>> /\ stagePc = "rco"
    BY <1>17 DEF Rco
  <2>2. RcoOptions' = RcoOptions /\ RcoDamage' = RcoDamage
    BY <1>0, <2>1, SameRaw
  <2>3. \A v \in rcoVec' : v = Settle(RcoOptions, RcoDamage, plan)
    BY <1>00, <1>17, <2>1 DEF Rco
  <2>4. \A v \in rcoVec' : v = Settle(RcoOptions, RcoDamage, plan)'
    BY <2>1, <2>2, <2>3
  <2>5. stagePc' \in {"write_blacklist", "failed"}
    BY <1>17 DEF Rco
  <2> QED
    BY <2>4, <2>5 DEF RcoAnswer
<1>18. CASE WriteBlacklist BY <1>00, <1>18, <1>99 DEF WriteBlacklist, Wrote, Write
<1>19. CASE WriteFilter BY <1>00, <1>19, <1>99 DEF WriteFilter, Wrote, Write
<1>20. CASE WriteBudgets BY <1>00, <1>20, <1>99 DEF WriteBudgets, Wrote, Write
<1>21. CASE WriteRco BY <1>00, <1>21, <1>99 DEF WriteRco, Wrote, Write
<1>22. CASE Stage2Leaves BY <1>00, <1>22, <1>99 DEF Stage2Leaves
<1>23. CASE Retune BY <1>00, <1>23, <1>99 DEF Retune
<1>24. CASE UNCHANGED stage1Vars
  <2>1. UNCHANGED <<plan, blacklist, stagePc, rcoVec>>
    BY <1>24 DEF stage1Vars
  <2>2. RcoOptions' = RcoOptions /\ RcoDamage' = RcoDamage
    BY <1>0, <2>1, SameRaw
  <2>3. Settle(RcoOptions, RcoDamage, plan)' = Settle(RcoOptions, RcoDamage, plan)
    BY <2>1, <2>2
  <2> QED
    BY <2>1, <2>3 DEF RcoAnswer
<1> QED
  BY <1>1, <1>2, <1>3, <1>4, <1>5, <1>6, <1>7, <1>8, <1>9, <1>10, <1>11, <1>12, <1>13, <1>14, <1>15,
     <1>16, <1>17, <1>18, <1>19, <1>20, <1>21, <1>22, <1>23, <1>24 DEF Stage1Next

\* What is on disk is what the stage holds.
LEMMA OnDiskStep ==
    ASSUME Typed, OnDisk, [Stage1Next]_stage1Vars
    PROVE  OnDisk'
<1>0. stagePc \in Early \cup Late \cup {"grape", "failed"} /\ disk = [a \in Outputs |-> disk[a]]
  BY DEF Typed
<1>00. inp' = inp /\ (stagePc \notin Early => UNCHANGED <<plan, blacklist>>)
  BY Frames
<1>01. UNCHANGED <<counts, blacklist>> => Budgets' = Budgets
  BY DEF Budgets, Listed
<1> USE DEF ProceedTo, Reject, Early, Late, Listing, Budgeted, after, grape, detection, answers
\* Before anything is listed only what is not yet answered counts.
<1> DEFINE Quiet == /\ stagePc' \notin Listing /\ retuned' = "none" /\ disk'["retuned"] = {}
           Clean == retuned = "none" /\ disk["retuned"] = {}
<1>99. Quiet => OnDisk'
  BY DEF OnDisk
<1>98. stagePc # "done" => Clean
  BY DEF OnDisk
<1>1. CASE SolveStart
  <2>1. /\ UNCHANGED <<disk, retuned, counts, blacklist, measured>> /\ (stagePc' = stagePc \/ stagePc' = "failed")
        /\ stagePc \in {"solve", "resolve"}
    BY <1>1 DEF SolveStart, Solving
  <2> QED
    BY <1>01, <2>1 DEF OnDisk
<1>2. CASE SolveRound
  <2>1. /\ UNCHANGED <<retuned, counts, blacklist, measured>> /\ stagePc \in {"solve", "resolve"}
        /\ \/ disk' = disk /\ stagePc' \in {stagePc, "failed"}
           \/ disk' = disk /\ stagePc' = "phase_a"
           \/ (\E k : disk' = [disk EXCEPT !["decomposition"] = {k}]) /\ stagePc' = "stage2" /\ stagePc = "resolve"
    BY <1>2 DEF SolveRound, Answer, Solving
  <2> QED
    BY <1>0, <1>01, <2>1 DEF OnDisk, Outputs
<1>3. CASE SolveSettled
  <2>1. /\ UNCHANGED <<retuned, counts, blacklist, measured>> /\ stagePc \in {"solve", "resolve"}
        /\ \/ disk' = disk /\ stagePc' \in {stagePc, "failed"}
           \/ disk' = disk /\ stagePc' = "phase_a"
           \/ (\E k : disk' = [disk EXCEPT !["decomposition"] = {k}]) /\ stagePc' = "stage2" /\ stagePc = "resolve"
    BY <1>3 DEF SolveSettled, Answer, Solving
  <2> QED
    BY <1>0, <1>01, <2>1 DEF OnDisk, Outputs
<1>4. CASE StartPhaseA BY <1>4, <1>98, <1>99 DEF StartPhaseA
<1>5. CASE PhaseABatch BY <1>5, <1>98, <1>99 DEF PhaseABatch
<1>6. CASE OutOfMemory BY <1>6, <1>98, <1>99 DEF OutOfMemory
<1>7. CASE EndPhaseA BY <1>7, <1>98, <1>99 DEF EndPhaseA
<1>8. CASE ReadSidecars BY <1>8, <1>98, <1>99 DEF ReadSidecars
<1>9. CASE Detect BY <1>9, <1>98, <1>99 DEF Detect
<1>10. CASE Filter BY <1>10, <1>98, <1>99 DEF Filter
<1>11. CASE Curve BY <1>11, <1>98, <1>99 DEF Curve
<1>12. CASE GrapeStart BY <1>12, <1>98, <1>99 DEF GrapeStart
<1>13. CASE GrapeStops
  <2>1. stagePc = "grape" /\ stagePc' = "rco" /\ UNCHANGED <<disk, retuned>>
    BY <1>13 DEF GrapeStops, grapeFrame, Looping
  <2> QED
    BY <2>1, <1>98, <1>99
<1>14. CASE GrapeThaws BY <1>14, <1>98, <1>99 DEF GrapeThaws, grapeFrame, MayLoop, Looping
<1>15. CASE GrapeNoPair BY <1>15, <1>98, <1>99 DEF GrapeNoPair, grapeFrame, MayLoop, Looping
<1>16. CASE GrapeMerges BY <1>16, <1>98, <1>99 DEF GrapeMerges, grapeFrame, MayLoop, Looping
<1>17. CASE Rco
  <2>1. stagePc = "rco" /\ stagePc' \in {"write_blacklist", "failed"} /\ UNCHANGED <<disk, retuned>>
    BY <1>17 DEF Rco
  <2> QED
    BY <2>1, <1>98, <1>99
<1>18. CASE WriteBlacklist
  <2>1. /\ stagePc = "write_blacklist" /\ stagePc' = "write_filter" /\ UNCHANGED <<retuned, blacklist>>
        /\ disk' = [disk EXCEPT !["blacklist"] = {blacklist}]
    BY <1>18 DEF WriteBlacklist, Wrote, Write
  <2> QED
    BY <1>0, <1>98, <2>1 DEF OnDisk, Outputs
<1>19. CASE WriteFilter
  <2>1. /\ stagePc = "write_filter" /\ UNCHANGED <<retuned, blacklist>>
        /\ \/ disk' = disk /\ stagePc' = "failed"
           \/ disk' = [disk EXCEPT !["filter"] = {bag}] /\ stagePc' = "write_budgets"
    BY <1>19 DEF WriteFilter, Wrote, Write
  <2> QED
    BY <1>0, <1>98, <2>1 DEF OnDisk, Outputs
<1>20. CASE WriteBudgets
  <2>1. /\ stagePc = "write_budgets" /\ stagePc' = "write_rco" /\ UNCHANGED <<retuned, blacklist, counts>>
        /\ disk' = [disk EXCEPT !["budgets"] = {Budgets}]
    BY <1>20 DEF WriteBudgets, Wrote, Write
  <2> QED
    BY <1>0, <1>01, <1>98, <2>1 DEF OnDisk, Outputs
<1>21. CASE WriteRco
  <2>1. /\ stagePc = "write_rco" /\ stagePc' = "resolve" /\ UNCHANGED <<retuned, blacklist, counts>>
        /\ (disk' = disk \/ disk' = [disk EXCEPT !["rco"] = rcoVec])
    BY <1>21 DEF WriteRco, Wrote, Write
  <2> QED
    BY <1>0, <1>01, <1>98, <2>1 DEF OnDisk, Outputs
<1>22. CASE Stage2Leaves
  <2>1. stagePc = "stage2" /\ stagePc' = "retune" /\ UNCHANGED <<retuned, blacklist, counts, disk>>
    BY <1>22 DEF Stage2Leaves
  <2>2. \E done \in SUBSET Layers : \E c \in [done -> Costs \cup {Inf}] : measured' = {c}
    BY <1>22 DEF Stage2Leaves
  <2> QED
    BY <1>01, <1>98, <2>1, <2>2 DEF OnDisk
<1>23. CASE Retune
  <2>1. stagePc = "retune" /\ stagePc' = "done" /\ UNCHANGED <<blacklist, counts>>
    BY <1>23 DEF Retune
  <2>0. disk' = disk \/ \E x : disk' = [disk EXCEPT !["retuned"] = x]
    BY <1>23, RetuneWrites
  <2> QED
    BY <1>0, <1>01, <2>0, <2>1 DEF OnDisk, Outputs
<1>24. CASE UNCHANGED stage1Vars BY <1>01, <1>24 DEF stage1Vars, OnDisk
<1> QED
  BY <1>1, <1>2, <1>3, <1>4, <1>5, <1>6, <1>7, <1>8, <1>9, <1>10, <1>11, <1>12, <1>13, <1>14, <1>15,
     <1>16, <1>17, <1>18, <1>19, <1>20, <1>21, <1>22, <1>23, <1>24 DEF Stage1Next

----------------------------------------------------------------------------
(* GRAPE: its tables                                                       *)

\* A sum falls by one when one layer does.
LEMMA SumLess ==
    ASSUME NEW f \in [Layers -> Nat], NEW l \in Layers, f[l] >= 1, NEW g, g = [f EXCEPT ![l] = @ - 1]
    PROVE  g \in [Layers -> Nat] /\ Over(f) \in Nat /\ Over(g) = Over(f) - 1
<1>1. g \in [Layers -> Nat] /\ g[l] = f[l] - 1 /\ \A m \in Layers \ {l} : g[m] = f[m]
  OBVIOUS
<1>2. IsFiniteSet(Layers) /\ f \in [Layers -> Int] /\ g \in [Layers -> Int]
  BY <1>1, Sizes
<1>3. Over(f) = Over([m \in Layers \ {l} |-> f[m]]) + f[l]
  BY <1>2, SumStep
<1>4. Over(g) = Over([m \in Layers \ {l} |-> g[m]]) + g[l]
  BY <1>2, SumStep
<1>5. [m \in Layers \ {l} |-> g[m]] = [m \in Layers \ {l} |-> f[m]]
  BY <1>1
<1>6. Over([m \in Layers \ {l} |-> f[m]]) \in Int
  <2> DEFINE h == [m \in Layers \ {l} |-> f[m]]
  <2>1. h \in [Layers \ {l} -> Int] /\ IsFiniteSet(Layers \ {l})
    BY Sizes, FS_Subset
  <2> HIDE DEF h
  <2>2. Over(h) \in Int
    BY <2>1, SumStep
  <2> QED
    BY <2>2 DEF h
<1>7. Over(f) \in Nat
  BY <1>2, SumNat
<1> QED
  BY <1>1, <1>3, <1>4, <1>5, <1>6, <1>7

GrapeSteps == GrapeStart \/ GrapeStops \/ GrapeThaws \/ GrapeNoPair \/ GrapeMerges

\* Only GRAPE's own steps touch its tables.
LEMMA Outside ==
    ASSUME Typed, [Stage1Next]_stage1Vars, ~ GrapeSteps
    PROVE  UNCHANGED grape /\ (stagePc' = "grape" => stagePc = "grape")
<1> USE DEF ProceedTo, Reject
<1>1. CASE SolveStart BY <1>1 DEF SolveStart, Solving
<1>2. CASE SolveRound BY <1>2 DEF SolveRound, Answer, Solving
<1>3. CASE SolveSettled BY <1>3 DEF SolveSettled, Answer, Solving
<1>4. CASE StartPhaseA BY <1>4 DEF StartPhaseA
<1>5. CASE PhaseABatch BY <1>5 DEF PhaseABatch
<1>6. CASE OutOfMemory BY <1>6 DEF OutOfMemory
<1>7. CASE EndPhaseA BY <1>7 DEF EndPhaseA
<1>8. CASE ReadSidecars BY <1>8 DEF ReadSidecars
<1>9. CASE Detect BY <1>9 DEF Detect
<1>10. CASE Filter BY <1>10 DEF Filter
<1>11. CASE Curve BY <1>11 DEF Curve
<1>17. CASE Rco BY <1>17 DEF Rco
<1>18. CASE WriteBlacklist BY <1>18 DEF WriteBlacklist, Wrote, Write
<1>19. CASE WriteFilter BY <1>19 DEF WriteFilter, Wrote, Write
<1>20. CASE WriteBudgets BY <1>20 DEF WriteBudgets, Wrote, Write
<1>21. CASE WriteRco BY <1>21 DEF WriteRco, Wrote, Write
<1>22. CASE Stage2Leaves BY <1>22 DEF Stage2Leaves
<1>23. CASE Retune BY <1>23 DEF Retune
<1>24. CASE UNCHANGED stage1Vars BY <1>24 DEF stage1Vars
<1> QED
  BY <1>1, <1>2, <1>3, <1>4, <1>5, <1>6, <1>7, <1>8, <1>9, <1>10, <1>11,
     <1>17, <1>18, <1>19, <1>20, <1>21, <1>22, <1>23, <1>24 DEF Stage1Next, GrapeSteps

\* A layer that donates is above its floor, and has two experts left when a
\* pair is merged; the redundancy falls by what the absorbed one added.
LEMMA MergeFacts ==
    ASSUME Typed, Priors, Tables, GrapeMerges
    PROVE  \E l \in Layers : \E j \in Experts \ absorbed[l] :
              /\ l \notin structBlocked /\ counts[l] > Floor(l) /\ counts[l] >= 2
              /\ counts' = [counts EXCEPT ![l] = @ - 1] /\ absorbed' = [absorbed EXCEPT ![l] = @ \cup {j}]
              /\ redundancy' = [redundancy EXCEPT ![l] = Redundancy(l, absorbed[l] \cup {j})]
              /\ frozen' \in {Thawed, Thawed \cup {l}}
<1> DEFINE l == Donor
           j == ClosestPair(l)[2]
           i == ClosestPair(l)[1]
<1>1. /\ stagePc = "grape" /\ Donors # {} /\ PairsLeft(l) # {}
      /\ counts' = [counts EXCEPT ![l] = @ - 1] /\ absorbed' = [absorbed EXCEPT ![l] = @ \cup {j}]
      /\ redundancy' = [redundancy EXCEPT ![l] = Max({0, @ - PairShare(l, j, absorbed[l])})]
      /\ frozen' \in {Thawed, Thawed \cup {l}}
  BY DEF GrapeMerges, MayLoop, Looping
<1>2. /\ counts \in [Layers -> Nat] /\ absorbed \in [Layers -> SUBSET Experts]
      /\ redundancy \in [Layers -> Nat] /\ \A m \in Layers : Kept(m)
  BY <1>1 DEF Tables
<1>3. inp \in Inputs /\ blacklist \in [Layers -> SUBSET Experts] /\ plan \in Int /\ \A p \in prior : p \in [Layers -> Nat]
  BY DEF Typed, Priors
<1>4. l \in Donors
  BY <1>1, <1>2, <1>3, DonorFacts
<1>5. l \in Layers /\ l \notin structBlocked /\ ~ (counts[l] <= Floor(l))
  BY <1>4 DEF Donors, AtFloor
<1> HIDE DEF l
<1>6. i \in Experts \ absorbed[l] /\ j \in Experts \ absorbed[l] /\ i # j
  BY <1>1, <1>3, <1>5, PairFacts
<1>7. counts[l] \in Nat /\ Floor(l) \in Int /\ counts[l] = NE - Cardinality(absorbed[l])
      /\ redundancy[l] = RedundancyIn(inp.dist[l], absorbed[l])
  BY <1>2, <1>3, <1>5, ListedFacts DEF Kept
<1> HIDE DEF i, j
<1>8. counts[l] >= 2
  <2> DEFINE A == absorbed[l]
  <2>1. A \in SUBSET Experts
    BY <1>2, <1>5
  <2>2. IsFiniteSet(A) /\ Cardinality(A) \in Nat
    BY <2>1, Sizes
  <2>3. A \cup {i} \in SUBSET Experts /\ IsFiniteSet(A \cup {i}) /\ Cardinality(A \cup {i}) = Cardinality(A) + 1
    BY <1>6, <2>1, <2>2, FS_AddElement
  <2>4. Cardinality((A \cup {i}) \cup {j}) = Cardinality(A \cup {i}) + 1 /\ (A \cup {i}) \cup {j} \in SUBSET Experts
    BY <1>6, <2>1, <2>3, FS_AddElement
  <2>5. Cardinality((A \cup {i}) \cup {j}) <= NE /\ NE \in Nat
    BY <2>4, Sizes
  <2> QED
    BY <1>7, <2>2, <2>3, <2>4, <2>5
<1>9. Max({0, redundancy[l] - PairShare(l, j, absorbed[l])}) = Redundancy(l, absorbed[l] \cup {j})
  <2>1. absorbed[l] \in SUBSET Experts
    BY <1>2, <1>5
  <2>2. /\ Redundancy(l, absorbed[l]) = RedundancyIn(inp.dist[l], absorbed[l])
        /\ PairShare(l, j, absorbed[l]) \in Nat
        /\ Redundancy(l, absorbed[l]) = Redundancy(l, absorbed[l] \cup {j}) + PairShare(l, j, absorbed[l])
        /\ Redundancy(l, absorbed[l] \cup {j}) \in Nat
    BY <1>3, <1>5, <1>6, <2>1, RedundancyFacts
  <2>3. redundancy[l] - PairShare(l, j, absorbed[l]) = Redundancy(l, absorbed[l] \cup {j})
    BY <1>7, <2>2
  <2>4. Max({0, Redundancy(l, absorbed[l] \cup {j})}) = Most(0, Redundancy(l, absorbed[l] \cup {j}))
    <3>1. 0 \in Int /\ Redundancy(l, absorbed[l] \cup {j}) \in Int
      BY <2>2
    <3> QED
      BY <3>1, PairBounds
  <2>5. Max({0, redundancy[l] - PairShare(l, j, absorbed[l])}) = Max({0, Redundancy(l, absorbed[l] \cup {j})})
    BY <2>3
  <2>6. Most(0, Redundancy(l, absorbed[l] \cup {j})) = Redundancy(l, absorbed[l] \cup {j})
    BY <2>2 DEF Most
  <2> QED
    BY <2>4, <2>5, <2>6
<1>10. redundancy' = [redundancy EXCEPT ![l] = Redundancy(l, absorbed[l] \cup {j})]
  <2>1. redundancy' = [redundancy EXCEPT ![l] = Max({0, redundancy[l] - PairShare(l, j, absorbed[l])})]
    BY <1>1
  <2> QED
    BY <1>9, <2>1
<1>11. counts[l] > Floor(l)
  BY <1>5, <1>7
<1>12. /\ l \in Layers /\ j \in Experts \ absorbed[l]
       /\ l \notin structBlocked /\ counts[l] > Floor(l) /\ counts[l] >= 2
       /\ counts' = [counts EXCEPT ![l] = @ - 1] /\ absorbed' = [absorbed EXCEPT ![l] = @ \cup {j}]
       /\ redundancy' = [redundancy EXCEPT ![l] = Redundancy(l, absorbed[l] \cup {j})]
       /\ frozen' \in {Thawed, Thawed \cup {l}}
  BY <1>1, <1>5, <1>6, <1>8, <1>10, <1>11
<1> QED
  BY <1>12

\* GRAPE's tables stay exact, merge by merge.
LEMMA TablesStep ==
    ASSUME Typed, Priors, Phases, Tables, [Stage1Next]_stage1Vars
    PROVE  Tables'
<1>0. inp' = inp /\ (stagePc \notin Early => UNCHANGED blacklist) /\ (stagePc = "grape" => stagePc \notin Early)
  BY Frames DEF Early
<1>00. inp \in Inputs /\ blacklist \in [Layers -> SUBSET Experts] /\ plan \in Int
  BY DEF Typed
<1> DEFINE Begun == stagePc = "grape" \/ exit # "none"
<1>01. Begun => /\ counts \in [Layers -> Nat] /\ absorbed \in [Layers -> SUBSET Experts]
              /\ redundancy \in [Layers -> Nat] /\ \A l \in Layers : Kept(l)
  BY DEF Tables
<1>02. Begun => stagePc \notin Early
  BY <1>0 DEF Phases
<1>03. ASSUME Begun, UNCHANGED <<counts, absorbed, redundancy>> PROVE Tables'
  <2>1. UNCHANGED <<inp, blacklist>>
    BY <1>0, <1>02, <1>03
  <2>2. \A l \in Layers : Kept(l)'
    BY <1>01, <1>03, <2>1 DEF Kept
  <2> QED
    BY <1>01, <1>03, <2>2 DEF Tables
<1>1. CASE ~ GrapeSteps
  <2>1. UNCHANGED grape /\ (stagePc' = "grape" => stagePc = "grape")
    BY <1>1, Outside
  <2>2. CASE Begun
    BY <1>03, <2>1, <2>2 DEF grape
  <2>3. CASE ~ Begun
    BY <2>1, <2>3 DEF Tables, grape
  <2> QED
    BY <2>2, <2>3
<1>2. CASE GrapeStart
  <2>1. /\ counts' = [l \in Layers |-> NE - Listed(l)] /\ absorbed' = blacklist
        /\ redundancy' = [l \in Layers |-> Redundancy(l, blacklist[l])] /\ blacklist' = blacklist
    BY <1>2 DEF GrapeStart, detection
  <2>2. ASSUME NEW l \in Layers
        PROVE  Kept(l)' /\ counts'[l] \in Nat /\ redundancy'[l] \in Nat
    <3>1. Listed(l) \in 0 .. NE /\ LayerFloor(Listed(l), inp.div) \in 0 .. NE /\ NE \in Nat \ {0}
      BY <1>00, ListedFacts, Sizes
    <3>2. Redundancy(l, blacklist[l]) = RedundancyIn(inp.dist[l], blacklist[l]) /\ Redundancy(l, blacklist[l]) \in Nat
      BY <1>00, RedundancyFacts
    <3>3. counts'[l] = NE - Cardinality(blacklist[l]) /\ redundancy'[l] = Redundancy(l, blacklist[l])
      BY <2>1 DEF Listed
    <3> QED
      BY <1>0, <2>1, <3>1, <3>2, <3>3 DEF Kept, Listed
  <2> QED
    BY <1>00, <2>1, <2>2 DEF Tables
<1>3. CASE GrapeStops
  BY <1>3, <1>03 DEF GrapeStops, Looping
<1>4. CASE GrapeThaws
  BY <1>4, <1>03 DEF GrapeThaws, MayLoop, Looping
<1>5. CASE GrapeNoPair
  BY <1>5, <1>03 DEF GrapeNoPair, MayLoop, Looping
<1>6. CASE GrapeMerges
  <2>1. stagePc = "grape"
    BY <1>6 DEF GrapeMerges, MayLoop, Looping
  <2>2. blacklist' = blacklist
    BY <1>0, <2>1
  <2>a. PICK l \in Layers : \E j \in Experts \ absorbed[l] :
              /\ counts[l] > Floor(l) /\ counts[l] >= 2
              /\ counts' = [counts EXCEPT ![l] = @ - 1] /\ absorbed' = [absorbed EXCEPT ![l] = @ \cup {j}]
              /\ redundancy' = [redundancy EXCEPT ![l] = Redundancy(l, absorbed[l] \cup {j})]
    BY <1>6, MergeFacts
  <2>3. PICK j \in Experts \ absorbed[l] :
              /\ counts[l] > Floor(l) /\ counts[l] >= 2
              /\ counts' = [counts EXCEPT ![l] = @ - 1] /\ absorbed' = [absorbed EXCEPT ![l] = @ \cup {j}]
              /\ redundancy' = [redundancy EXCEPT ![l] = Redundancy(l, absorbed[l] \cup {j})]
    BY <2>a
  <2>4. /\ counts \in [Layers -> Nat] /\ absorbed \in [Layers -> SUBSET Experts]
        /\ redundancy \in [Layers -> Nat] /\ \A m \in Layers : Kept(m)
    BY <1>01, <2>1
  <2>5. absorbed[l] \in SUBSET Experts
    BY <2>4
  <2>6. /\ Redundancy(l, absorbed[l] \cup {j}) = RedundancyIn(inp.dist[l], absorbed[l] \cup {j})
        /\ Redundancy(l, absorbed[l] \cup {j}) \in Nat
    <3>1. absorbed[l] \cup {j} \in SUBSET Experts
      BY <2>5
    <3> QED
      BY <1>00, <3>1, RedundancyFacts
  <2>7. counts' \in [Layers -> Nat] /\ absorbed' \in [Layers -> SUBSET Experts] /\ redundancy' \in [Layers -> Nat]
    BY <2>3, <2>4, <2>5, <2>6
  <2>8. ASSUME NEW m \in Layers, m # l PROVE Kept(m)'
    <3>1. counts'[m] = counts[m] /\ absorbed'[m] = absorbed[m] /\ redundancy'[m] = redundancy[m] /\ Kept(m)
      BY <2>3, <2>4, <2>8
    <3> QED
      BY <1>0, <2>2, <3>1 DEF Kept
  <2>9. Kept(l)'
    <3>1. counts'[l] = counts[l] - 1 /\ absorbed'[l] = absorbed[l] \cup {j}
          /\ redundancy'[l] = RedundancyIn(inp.dist[l], absorbed[l] \cup {j})
      BY <2>3, <2>4, <2>6
    <3>2. Cardinality(absorbed[l] \cup {j}) = Cardinality(absorbed[l]) + 1 /\ Cardinality(absorbed[l]) \in Nat
      BY <2>5, Sizes, FS_AddElement
    <3>3. /\ counts[l] = NE - Cardinality(absorbed[l]) /\ blacklist[l] \subseteq absorbed[l] /\ counts[l] \in Nat
          /\ NE \in Nat
      BY <2>4, Sizes DEF Kept
    <3>4. /\ Listed(l) \in 0 .. NE /\ LayerFloor(Listed(l), inp.div) = Most(NE \div inp.div, Listed(l))
          /\ Floor(l) = Most(NE \div inp.div - Listed(l), 0) /\ NE \div inp.div \in 0 .. NE
      BY <1>00, ListedFacts, InputFacts
    <3>5. counts[l] - 1 + Listed(l) >= LayerFloor(Listed(l), inp.div) /\ counts[l] - 1 + Listed(l) >= 1
      <4> DEFINE q == NE \div inp.div
                 n == Listed(l)
                 c == counts[l]
      <4>1. q \in Nat /\ n \in Nat /\ c \in Nat /\ c > Most(q - n, 0) /\ c >= 2
        BY <2>3, <3>3, <3>4
      <4> HIDE DEF q, n, c
      <4>2. c - 1 + n >= Most(q, n) /\ c - 1 + n >= 1
        BY <4>1 DEF Most
      <4> QED
        BY <3>4, <4>2 DEF q, n, c
    <3> QED
      BY <1>0, <2>2, <3>1, <3>2, <3>3, <3>5 DEF Kept, Listed
  <2> QED
    BY <2>7, <2>8, <2>9 DEF Tables
<1> QED
  BY <1>1, <1>2, <1>3, <1>4, <1>5, <1>6 DEF GrapeSteps

----------------------------------------------------------------------------
(* GRAPE: the bound on its iterations, and where it stops                  *)

\* GRAPE's account holds: a thaw needs a merge before it.
LEMMA AccountedStep ==
    ASSUME Typed, Priors, Phases, Tables, Accounted, [Stage1Next]_stage1Vars
    PROVE  Accounted'
<1>0. inp' = inp /\ (stagePc \notin Early => UNCHANGED <<plan, blacklist, prior>>)
  BY Frames
<1>00. inp \in Inputs /\ blacklist \in [Layers -> SUBSET Experts] /\ plan \in Int
  BY DEF Typed
<1>01. /\ \A l \in Layers : Floor(l) \in 0 .. NE /\ Listed(l) \in 0 .. NE
       /\ Before \in Nat /\ Before = Over([l \in Layers |-> NE - Listed(l)]) /\ Goal \in Nat
  BY <1>00, ListedFacts
<1>02. stagePc = "grape" =>
         /\ counts \in [Layers -> Nat] /\ absorbed \in [Layers -> SUBSET Experts]
         /\ UNCHANGED <<plan, blacklist>>
         /\ Before' = Before /\ Goal' = Goal
         /\ \A l \in Layers : Floor(l)' = Floor(l) /\ Listed(l)' = Listed(l)
  BY <1>0, SameLists DEF Tables, Early
<1>03. stagePc = "grape" =>
         /\ frozen \in SUBSET Layers /\ floorBlocked \in SUBSET Layers /\ structBlocked \in SUBSET Layers
         /\ \A l \in floorBlocked : counts[l] <= Floor(l)
         /\ \A l \in structBlocked : PairsLeft(l) = {} /\ counts[l] >= 1
         /\ Over(counts) <= Before /\ Over(counts) >= Least(Goal, Before)
         /\ iters \in Nat
         /\ iters + (IF frozen = {} THEN 0 ELSE 1)
                <= 2 * (Before - Over(counts)) + Cardinality(structBlocked)
  BY DEF Accounted
<1>04. stagePc = "grape" => /\ Over(counts) \in Nat /\ Cardinality(structBlocked) \in Nat
                            /\ Thawed \in SUBSET Layers /\ Thawed \subseteq frozen
                            /\ AtFloor \in SUBSET Layers /\ \A l \in AtFloor : counts[l] <= Floor(l)
  <2> SUFFICES ASSUME stagePc = "grape"
               PROVE  /\ Over(counts) \in Nat /\ Cardinality(structBlocked) \in Nat
                      /\ Thawed \in SUBSET Layers /\ Thawed \subseteq frozen
                      /\ AtFloor \in SUBSET Layers /\ \A l \in AtFloor : counts[l] <= Floor(l)
    OBVIOUS
  <2>1. Over(counts) \in Nat
    BY <1>02, Sizes, SumNat
  <2>2. Cardinality(structBlocked) \in Nat
    <3>1. structBlocked \in SUBSET Layers /\ IsFiniteSet(Layers)
      BY <1>03, Sizes
    <3>2. IsFiniteSet(structBlocked)
      BY <3>1, FS_Subset
    <3> QED
      BY <3>2, FS_CardinalityType
  <2> QED
    BY <1>03, <2>1, <2>2 DEF Thawed, AtFloor
<1>05. ASSUME stagePc = "grape", absorbed' = absorbed PROVE \A l \in Layers : PairsLeft(l)' = PairsLeft(l)
  BY <1>05 DEF PairsLeft
<1>1. CASE ~ GrapeSteps
  <2>1. UNCHANGED grape /\ (stagePc' = "grape" => stagePc = "grape")
    BY <1>1, Outside
  <2>2. CASE stagePc = "grape"
    <3>1. UNCHANGED <<counts, absorbed, frozen, floorBlocked, structBlocked, iters>>
      BY <2>1 DEF grape
    <3>2. \A l \in Layers : PairsLeft(l)' = PairsLeft(l)
      BY <1>05, <2>2, <3>1
    <3> QED
      BY <1>02, <1>03, <2>2, <3>1, <3>2 DEF Accounted
  <2> QED
    BY <2>1, <2>2 DEF Accounted
<1>2. CASE GrapeStart
  <2>1. /\ counts' = [l \in Layers |-> NE - Listed(l)]
        /\ floorBlocked' = {l \in Layers : NE - Listed(l) <= Floor(l)}
        /\ UNCHANGED <<frozen, structBlocked, iters, plan, blacklist>> /\ stagePc = "grape_start"
    BY <1>2 DEF GrapeStart, detection
  <2>2. frozen = {} /\ structBlocked = {} /\ iters = 0
    BY <2>1 DEF Phases, Early
  <2>3. Before' = Before /\ Goal' = Goal /\ \A l \in Layers : Floor(l)' = Floor(l)
    BY <1>0, <2>1, SameLists
  <2>4. Over(counts') = Before
    BY <1>01, <2>1
  <2>5. Cardinality({}) = 0
    BY FS_EmptySet
  <2>6. Least(Goal, Before) <= Before
    BY <1>01 DEF Least
  <2>7. \A l \in floorBlocked' : counts'[l] <= Floor(l)'
    BY <2>1, <2>3
  <2> QED
    BY <1>01, <2>1, <2>2, <2>3, <2>4, <2>5, <2>6, <2>7 DEF Accounted
<1>3. CASE GrapeStops
  BY <1>3 DEF GrapeStops, ProceedTo, Accounted
<1>4. CASE GrapeThaws
  <2>1. /\ stagePc = "grape" /\ Stuck(Thawed, Blocked) /\ frozen' = {} /\ floorBlocked' = floorBlocked \cup AtFloor
        /\ iters' = iters + 1 /\ UNCHANGED <<counts, absorbed, structBlocked>>
    BY <1>4 DEF GrapeThaws, MayLoop, Looping
  <2>2. frozen # {}
    <3>1. Blocked \in SUBSET Layers
      BY <1>03, <1>04, <2>1 DEF Blocked
    <3>2. Blocked # Layers /\ Layers \ Blocked \subseteq Thawed
      BY <2>1 DEF Stuck
    <3> QED
      BY <1>04, <2>1, <3>1, <3>2
  <2>3. \A l \in Layers : PairsLeft(l)' = PairsLeft(l)
    BY <1>05, <2>1
  <2>4. \A l \in floorBlocked' : counts[l] <= Floor(l)
    BY <1>03, <1>04, <2>1
  <2>5. iters' \in Nat /\ iters' + 0 <= 2 * (Before - Over(counts)) + Cardinality(structBlocked)
    BY <1>03, <2>1, <2>2
  <2>6. floorBlocked' \in SUBSET Layers
    BY <1>03, <1>04, <2>1
  <2> QED
    BY <1>02, <1>03, <2>1, <2>3, <2>4, <2>5, <2>6 DEF Accounted
<1>5. CASE GrapeNoPair
  <2>1. /\ stagePc = "grape" /\ Donors # {} /\ PairsLeft(Donor) = {}
        /\ structBlocked' = structBlocked \cup {Donor}
        /\ frozen' = Thawed /\ floorBlocked' = floorBlocked \cup AtFloor /\ iters' = iters + 1
        /\ UNCHANGED <<counts, absorbed>>
    BY <1>5 DEF GrapeNoPair, MayLoop, Looping
  <2>2. Donor \in Donors
    <3>1. redundancy \in [Layers -> Nat] /\ \A p \in prior : p \in [Layers -> Nat]
      BY <2>1 DEF Tables, Priors
    <3> QED
      BY <2>1, <3>1, DonorFacts
  <2>3. Donor \in Layers /\ Donor \notin structBlocked /\ ~ (counts[Donor] <= Floor(Donor))
    BY <2>2 DEF Donors, AtFloor
  <2>4. counts[Donor] >= 1
    <3>1. counts[Donor] \in Nat /\ Floor(Donor) \in Nat
      BY <1>01, <1>02, <2>1, <2>3
    <3> QED
      BY <2>3, <3>1
  <2>5. Cardinality(structBlocked') = Cardinality(structBlocked) + 1
    <3>1. IsFiniteSet(structBlocked)
      BY <1>03, <2>1, Sizes, FS_Subset
    <3> QED
      BY <2>1, <2>3, <3>1, FS_AddElement
  <2>6. \A l \in Layers : PairsLeft(l)' = PairsLeft(l)
    BY <1>05, <2>1
  <2>7. \A l \in floorBlocked' : counts[l] <= Floor(l)
    BY <1>03, <1>04, <2>1
  <2>8. iters' \in Nat /\ iters' + (IF frozen' = {} THEN 0 ELSE 1)
                             <= 2 * (Before - Over(counts)) + Cardinality(structBlocked')
    <3>1. frozen' # {} => frozen # {}
      BY <1>04, <2>1
    <3> QED
      BY <1>01, <1>03, <1>04, <2>1, <2>5, <3>1
  <2>9. frozen' \in SUBSET Layers /\ floorBlocked' \in SUBSET Layers /\ structBlocked' \in SUBSET Layers
    BY <1>03, <1>04, <2>1, <2>3
  <2>10. \A l \in structBlocked' : PairsLeft(l)' = {} /\ counts'[l] >= 1
    BY <1>03, <2>1, <2>3, <2>4, <2>6
  <2> QED
    BY <1>02, <1>03, <2>1, <2>7, <2>8, <2>9, <2>10 DEF Accounted
<1>6. CASE GrapeMerges
  <2>1. /\ stagePc = "grape" /\ Over(counts) > Goal /\ floorBlocked' = floorBlocked \cup AtFloor
        /\ iters' = iters + 1 /\ UNCHANGED structBlocked
    BY <1>6 DEF GrapeMerges, MayLoop, Looping
  <2>2. PICK l \in Layers : \E j \in Experts \ absorbed[l] :
              /\ l \notin structBlocked /\ counts[l] > Floor(l) /\ counts[l] >= 2
              /\ counts' = [counts EXCEPT ![l] = @ - 1] /\ absorbed' = [absorbed EXCEPT ![l] = @ \cup {j}]
              /\ frozen' \in {Thawed, Thawed \cup {l}}
    BY <1>6, MergeFacts
  <2>3. PICK j \in Experts \ absorbed[l] : absorbed' = [absorbed EXCEPT ![l] = @ \cup {j}]
    BY <2>2
  <2>4. /\ counts' = [counts EXCEPT ![l] = @ - 1] /\ l \notin structBlocked /\ counts[l] >= 2
        /\ frozen' \in {Thawed, Thawed \cup {l}}
    BY <2>2
  <2>5. counts \in [Layers -> Nat] /\ absorbed \in [Layers -> SUBSET Experts]
    BY <1>02, <2>1
  <2>6. counts[l] >= 1
    BY <2>4, <2>5
  <2>7. counts' \in [Layers -> Nat] /\ Over(counts') = Over(counts) - 1
    BY <2>4, <2>5, <2>6, SumLess
  <2>8. \A m \in Layers : counts'[m] <= counts[m] /\ counts'[m] \in Nat /\ (m # l => counts'[m] = counts[m] /\ absorbed'[m] = absorbed[m])
    BY <2>3, <2>4, <2>5, <2>6, <2>7
  <2>9. \A m \in floorBlocked' : counts'[m] <= Floor(m)
    <3>1. \A m \in floorBlocked' : m \in Layers /\ counts[m] <= Floor(m)
      BY <1>03, <1>04, <2>1
    <3>2. ASSUME NEW m \in floorBlocked' PROVE counts'[m] <= Floor(m)
      <4>1. counts[m] <= Floor(m) /\ counts'[m] <= counts[m] /\ counts[m] \in Nat /\ counts'[m] \in Nat /\ Floor(m) \in Int
        BY <1>01, <2>5, <2>8, <3>1
      <4> QED
        BY <4>1
    <3> QED
      BY <3>2
  <2>10. \A m \in structBlocked : PairsLeft(m)' = {} /\ counts'[m] >= 1
    <3>1. \A m \in structBlocked : m \in Layers /\ m # l /\ PairsLeft(m) = {} /\ counts[m] >= 1
      BY <1>03, <2>1, <2>4
    <3> QED
      BY <2>8, <3>1 DEF PairsLeft
  <2>11. Over(counts') <= Before /\ Over(counts') >= Least(Goal, Before)
    BY <1>01, <1>03, <1>04, <2>1, <2>7 DEF Least
  <2>12. iters' \in Nat /\ iters' + (IF frozen' = {} THEN 0 ELSE 1)
                             <= 2 * (Before - Over(counts')) + Cardinality(structBlocked')
    BY <1>01, <1>03, <1>04, <2>1, <2>7
  <2>13. frozen' \in SUBSET Layers /\ floorBlocked' \in SUBSET Layers
    BY <1>03, <1>04, <2>1, <2>4
  <2> QED
    BY <1>02, <1>03, <2>1, <2>9, <2>10, <2>11, <2>12, <2>13 DEF Accounted
<1> QED
  BY <1>1, <1>2, <1>3, <1>4, <1>5, <1>6 DEF GrapeSteps

\* Where GRAPE stops nothing more could be merged, or nothing need be.
LEMMA ReachedStep ==
    ASSUME Typed, Phases, Tables, Accounted, BudgetReached, [Stage1Next]_stage1Vars
    PROVE  BudgetReached'
<1>0. inp' = inp /\ (stagePc \notin Early => UNCHANGED <<plan, blacklist, prior>>)
  BY Frames
<1>00. inp \in Inputs /\ blacklist \in [Layers -> SUBSET Experts] /\ plan \in Int
  BY DEF Typed
<1>01. /\ \A l \in Layers : Floor(l) \in 0 .. NE /\ Listed(l) \in 0 .. NE
       /\ Before \in Nat /\ Goal \in Nat
  BY <1>00, ListedFacts
<1>02. Min({Goal, Before}) = Least(Goal, Before)
  BY <1>01, PairBounds
<1>03. ASSUME stagePc \notin Early, UNCHANGED <<counts, absorbed>>
       PROVE  /\ UNCHANGED prior /\ Before' = Before /\ Goal' = Goal
              /\ \A l \in Layers : Floor(l)' = Floor(l) /\ PairsLeft(l)' = PairsLeft(l)
  BY <1>0, <1>03, SameLists DEF PairsLeft
<1>1. CASE ~ GrapeSteps
  <2>1. UNCHANGED <<counts, absorbed, exit>>
    BY <1>1, Outside DEF grape
  <2>2. exit # "none" => stagePc \notin Early
    BY DEF Phases
  <2> QED
    BY <1>03, <2>1, <2>2 DEF BudgetReached
<1>2. CASE GrapeStart
  BY <1>2 DEF GrapeStart, Phases, Early, BudgetReached
<1>3. CASE GrapeStops
  <2>1. stagePc = "grape" /\ exit = "none" /\ Looping /\ (MayLoop => Donors = {} /\ ~ Stuck(Thawed, Blocked))
        /\ UNCHANGED <<counts, absorbed>>
    BY <1>3 DEF GrapeStops, Looping
  <2>2. /\ frozen \in SUBSET Layers /\ floorBlocked \in SUBSET Layers /\ structBlocked \in SUBSET Layers
        /\ \A l \in floorBlocked : counts[l] <= Floor(l)
        /\ \A l \in structBlocked : PairsLeft(l) = {} /\ counts[l] >= 1
        /\ Over(counts) <= Before /\ Over(counts) >= Least(Goal, Before)
        /\ iters \in Nat
        /\ iters + (IF frozen = {} THEN 0 ELSE 1)
               <= 2 * (Before - Over(counts)) + Cardinality(structBlocked)
    BY <2>1 DEF Accounted
  <2>3. counts \in [Layers -> Nat] /\ Over(counts) \in Nat
    <3>1. counts \in [Layers -> Nat]
      BY <2>1 DEF Tables
    <3> QED
      BY <3>1, Sizes, SumNat
  <2>4. stagePc \notin Early
    BY <2>1 DEF Early
  <2>5. CASE Over(counts) <= Goal
    <3>1. Over(counts) = Min({Goal, Before})
      BY <1>01, <1>02, <2>2, <2>3, <2>5 DEF Least
    <3>2. Over(counts') = Min({Goal, Before})'
      BY <1>03, <2>1, <2>4, <3>1
    <3> QED
      BY <3>2 DEF BudgetReached
  <2>6. ASSUME ~ (Over(counts) <= Goal), ~ (iters < 2 * NL * Before) PROVE FALSE
    <3>1. Cardinality(structBlocked) <= Over(counts) /\ Cardinality(structBlocked) \in Int
      <4> DEFINE h == [l \in Layers |-> IF l \in structBlocked THEN 1 ELSE 0]
      <4>1. h \in [Layers -> Int] /\ counts \in [Layers -> Int] /\ \A l \in Layers : h[l] <= counts[l]
        BY <2>2, <2>3
      <4>2. \A x \in Layers : h[x] = IF x \in structBlocked THEN 1 ELSE 0
        OBVIOUS
      <4> HIDE DEF h
      <4>3. Over(h) = Cardinality(structBlocked)
        <5>1. /\ IsFiniteSet(Layers) /\ structBlocked \in SUBSET Layers /\ h \in [Layers -> Int]
              /\ \A x \in Layers : h[x] = IF x \in structBlocked THEN 1 ELSE 0
          BY <2>2, <4>1, <4>2, Sizes
        <5> QED
          BY ONLY <5>1, SumIndicator
      <4>4. Over(h) <= Over(counts) /\ Over(h) \in Int
        BY <4>1, Sizes, SumMonotone, SumStep
      <4> QED
        BY <4>3, <4>4
    <3>2. iters < 2 * Before
      BY <1>01, <2>2, <2>3, <2>6, <3>1
    <3>3. 2 * Before <= 2 * NL * Before /\ 2 * NL * Before \in Nat
      <4>1. 1 <= NL /\ NL \in Nat /\ Before \in Nat
        BY <1>01, Sizes
      <4>2. 1 * Before <= NL * Before /\ NL * Before \in Nat
        BY <4>1, ProductMonotone
      <4>3. 2 * NL * Before = 2 * (NL * Before) /\ 1 * Before = Before
        BY <4>1
      <4> QED
        BY <4>1, <4>2, <4>3
    <3> QED
      BY <1>01, <2>2, <2>6, <3>2, <3>3
  <2>7. ASSUME ~ (Over(counts) <= Goal), iters < 2 * NL * Before, \A p \in prior : \A l \in Layers : p[l] < Inf
        PROVE  \A l \in Layers : counts[l] <= Floor(l) \/ PairsLeft(l) = {}
    <3>1. Over(counts) > Goal
      BY <1>01, <2>3, <2>7
    <3>2. Donors = {} /\ ~ Stuck(Thawed, Blocked)
      BY <2>1, <2>7, <3>1 DEF MayLoop
    <3>3. Layers \ (structBlocked \cup Thawed \cup AtFloor) = {}
      BY <2>7, <3>2 DEF Donors
    <3>4. Blocked = Layers
      BY <3>2, <3>3 DEF Stuck, Blocked
    <3> QED
      BY <2>2, <3>4 DEF Blocked, AtFloor
  <2>8. CASE ~ (Over(counts) <= Goal)
    <3>1. Over(counts) > Goal
      BY <1>01, <2>3, <2>8
    <3>2. (\A p \in prior : \A l \in Layers : p[l] < Inf) =>
              \A l \in Layers : counts[l] <= Floor(l) \/ PairsLeft(l) = {}
      BY <2>6, <2>7, <2>8
    <3> QED
      BY <1>03, <2>1, <2>4, <3>1, <3>2 DEF BudgetReached
  <2> QED
    BY <2>5, <2>8
<1>4. CASE GrapeThaws
  BY <1>4 DEF GrapeThaws, MayLoop, Looping, BudgetReached
<1>5. CASE GrapeNoPair
  BY <1>5 DEF GrapeNoPair, MayLoop, Looping, BudgetReached
<1>6. CASE GrapeMerges
  BY <1>6 DEF GrapeMerges, MayLoop, Looping, BudgetReached
<1> QED
  BY <1>1, <1>2, <1>3, <1>4, <1>5, <1>6 DEF GrapeSteps

----------------------------------------------------------------------------
(* The budgets and the retuning                                            *)

\* The budgets GRAPE leaves are fit to be retuned.
LEMMA BudgetFacts ==
    ASSUME Typed, Tables, exit # "none"
    PROVE  /\ Budgets \in [Layers -> 0 .. NE]
           /\ \A l \in Layers : Budgets[l] \in 1 .. NE /\ Budgets[l] >= LayerFloor(Listed(l), inp.div)
<1>1. inp \in Inputs /\ blacklist \in [Layers -> SUBSET Experts] /\ plan \in Int
  BY DEF Typed
<1>2. /\ counts \in [Layers -> Nat] /\ absorbed \in [Layers -> SUBSET Experts] /\ \A l \in Layers : Kept(l)
  BY DEF Tables
<1>3. ASSUME NEW l \in Layers
      PROVE  /\ Budgets[l] \in 0 .. NE /\ Budgets[l] \in 1 .. NE
             /\ Budgets[l] >= LayerFloor(Listed(l), inp.div)
  <2>1. Budgets[l] = counts[l] + Listed(l)
    BY DEF Budgets
  <2>2. absorbed[l] \in SUBSET Experts /\ blacklist[l] \subseteq absorbed[l] /\ counts[l] = NE - Cardinality(absorbed[l])
    BY <1>2 DEF Kept
  <2>3. IsFiniteSet(absorbed[l]) /\ Cardinality(absorbed[l]) \in 0 .. NE /\ NE \in Nat
    BY <2>2, Sizes
  <2>4. Listed(l) <= Cardinality(absorbed[l])
    BY <2>2, <2>3, FS_Subset DEF Listed
  <2>5. Listed(l) \in 0 .. NE
    BY <1>1, ListedFacts
  <2>6. counts[l] + Listed(l) >= LayerFloor(Listed(l), inp.div) /\ counts[l] + Listed(l) >= 1
    BY <1>2 DEF Kept, Listed
  <2> QED
    BY <2>1, <2>2, <2>3, <2>4, <2>5, <2>6
<1>4. Budgets \in [Layers -> 0 .. NE]
  BY <1>3 DEF Budgets
<1> QED
  BY <1>3, <1>4

\* The marginal costs the retuning sorts by are naturals.
LEMMA MarginalTyped ==
    ASSUME inp \in Inputs, blacklist \in [Layers -> SUBSET Experts],
           Cost \in [Layers -> Nat], Signal # {}
    PROVE  Marginal \in [Layers -> Nat]
<1> DEFINE S == {Cost[l] : l \in Signal}
<1>1. Signal \subseteq Layers /\ S \subseteq Nat /\ S # {}
  BY DEF Signal
<1>2. \A x \in S : x <= Inf
  BY Sizes DEF Signal
<1>3. CostLo \in Nat /\ CostHi \in Nat /\ CostLo <= CostHi
  <2>1. CostLo = Min(S) /\ CostHi = Max(S)
    BY DEF CostLo, CostHi
  <2>2. S \subseteq Int /\ Inf \in Int
    BY <1>1, Sizes
  <2> HIDE DEF S
  <2>3. Min(S) \in S /\ \A x \in S : Min(S) <= x
    BY <1>1, MinOf
  <2>4. Max(S) \in S
    BY <1>1, <1>2, <2>2, MaxOf
  <2> QED
    BY <1>1, <2>1, <2>3, <2>4
<1>4. ASSUME NEW l \in Layers PROVE Marginal[l] \in Nat
  <2>1. RawR[l] \in Nat /\ LowR \in Nat /\ LowR <= RawR[l] /\ SpreadR \in Nat
    BY RawFacts
  <2>2. RawR[l] - LowR \in Nat /\ CostHi - CostLo \in Nat
    BY <1>3, <2>1
  <2>3. \A a, b \in Nat : a * b \in Nat
    OBVIOUS
  <2>4. Cost[l] * SpreadR \in Nat /\ CostLo * SpreadR \in Nat /\ (CostHi - CostLo) * (RawR[l] - LowR) \in Nat
    BY <1>3, <2>1, <2>2, <2>3
  <2>5. Marginal[l] = IF l \in Signal THEN Cost[l] * SpreadR
                      ELSE CostLo * SpreadR + (CostHi - CostLo) * (RawR[l] - LowR)
    BY DEF Marginal
  <2> QED
    BY <2>4, <2>5
<1>5. Marginal = [l \in Layers |-> Marginal[l]]
  BY DEF Marginal
<1> QED
  BY <1>4, <1>5

\* What the retuning answers, and what it writes.
LEMMA RetuneFacts ==
    ASSUME Typed, Phases, Tables, OnDisk, Retune
    PROVE  /\ retuned' \notin {"unsound", "infeasible"}
           /\ \A v \in disk'["retuned"] :
                 /\ v \in [Layers -> 0 .. NE] /\ Over(v) = Over(Budgets)
                 /\ \A l \in Layers : v[l] >= LayerFloor(Listed(l), inp.div)
                 /\ \A w \in [Layers -> 0 .. NE] :
                       (\A l \in Layers : w[l] >= LayerFloor(Listed(l), inp.div)) /\ Over(w) = Over(Budgets) =>
                          Damage(v, Marginal) <= Damage(w, Marginal)
<1>1. stagePc = "retune"
  BY DEF Retune
<1>2. /\ disk["blacklist"] = {blacklist} /\ disk["budgets"] = {Budgets} /\ disk["retuned"] = {}
      /\ \E done \in SUBSET Layers : \E c \in [done -> Costs \cup {Inf}] : measured = {c}
      /\ exit # "none"
  BY <1>1 DEF OnDisk, Listing, Budgeted, Phases, Late
<1>3. inp \in Inputs /\ blacklist \in [Layers -> SUBSET Experts] /\ plan \in Int /\ disk = [a \in Outputs |-> disk[a]]
  BY DEF Typed
<1>4. Old = Budgets
  BY <1>2 DEF Old
<1>5. ASSUME NEW l \in Layers
      PROVE  /\ Floors[l] = LayerFloor(Listed(l), inp.div) /\ Floors[l] \in 0 .. NE
             /\ Budgets[l] \in 1 .. NE /\ Budgets[l] >= Floors[l]
  <2>1. (CHOOSE b \in disk["blacklist"] : TRUE) = blacklist
    BY <1>2
  <2>2. Floors[l] = LayerFloor(Listed(l), inp.div)
    BY <2>1 DEF Floors, RetuneFloor, LayerFloor, Listed
  <2>3. LayerFloor(Listed(l), inp.div) \in 0 .. NE
    BY <1>3, ListedFacts
  <2>4. Budgets[l] \in 1 .. NE /\ Budgets[l] >= LayerFloor(Listed(l), inp.div)
    BY <1>2, BudgetFacts
  <2> QED
    BY <2>2, <2>3, <2>4
<1>6. Floors = [l \in Layers |-> Floors[l]]
  BY DEF Floors
<1>7. Floors \in [Layers -> 0 .. NE] /\ Budgets \in [Layers -> 0 .. NE]
  BY <1>2, <1>5, <1>6, BudgetFacts
<1>8. Over(Budgets) \in Over(Floors) .. NL * NE
  <2>1. Over(Budgets) \in 0 .. NL * NE /\ Over(Floors) \in 0 .. NL * NE
    BY <1>7, LayerSums
  <2>2. Floors \in [Layers -> Int] /\ Budgets \in [Layers -> Int] /\ \A x \in Layers : Floors[x] <= Budgets[x]
    <3>1. \A x \in Layers : Floors[x] \in Int /\ Budgets[x] \in Int /\ Floors[x] <= Budgets[x]
      BY <1>5
    <3> QED
      BY <1>7, <3>1
  <2>3. Over(Floors) <= Over(Budgets)
    BY <2>2, Sizes, SumMonotone
  <2>4. NL * NE \in Int
    BY Sizes
  <2> QED
    BY <2>1, <2>3, <2>4
<1> DEFINE hurt == \E l \in Layers : Old[l] \notin 1 .. NE \/ Old[l] < Floors[l]
           missed == Over(Old) \notin Over(Floors) .. NL * NE
           X == {Shed(c, f, t) : c \in {Marginal}, f \in {Floors}, t \in {Over(Old)}}
           answer == IF DOMAIN Cost = {} THEN "no_partials"
                     ELSE IF DOMAIN Cost # Layers THEN "mismatch"
                     ELSE IF hurt THEN "unsound"
                     ELSE IF Signal = {} THEN "no_signal"
                     ELSE IF missed THEN "infeasible"
                     ELSE "written"
<1>9. retuned' = answer /\ disk' = IF answer = "written" THEN [disk EXCEPT !["retuned"] = X] ELSE disk
  BY DEF Retune
<1>10. ~ hurt
  <2>1. \A l \in Layers : Budgets[l] \in Int /\ Floors[l] \in Int /\ Budgets[l] \in 1 .. NE /\ Budgets[l] >= Floors[l]
    BY <1>5
  <2> QED
    BY <1>4, <2>1
<1>11. ~ missed
  BY <1>4, <1>8
<1> HIDE DEF hurt, missed, X
<1>12. answer \in {"no_partials", "mismatch", "no_signal", "written"}
  BY <1>10, <1>11
<1>13. CASE answer # "written"
  BY <1>2, <1>9, <1>12, <1>13
<1>14. CASE answer = "written"
  <2>1. DOMAIN Cost = Layers /\ Signal # {}
    BY <1>14
  <2>2. Cost \in [Layers -> Nat]
    <3>a. PICK done \in SUBSET Layers : \E c \in [done -> Costs \cup {Inf}] : measured = {c}
      BY <1>2
    <3>1. PICK c \in [done -> Costs \cup {Inf}] : measured = {c}
      BY <3>a
    <3>2. Cost = c
      BY <3>1 DEF Cost
    <3>3. Costs \cup {Inf} \subseteq Nat
      BY BatchAssumption, Sizes
    <3> QED
      BY <2>1, <3>2, <3>3
  <2>3. Marginal \in [Layers -> Nat]
    BY <1>3, <2>1, <2>2, MarginalTyped
  <2>4. disk'["retuned"] = X
    BY <1>3, <1>9, <1>14 DEF Outputs
  <2>5. ASSUME NEW v \in X
        PROVE  /\ v \in [Layers -> 0 .. NE] /\ \A l \in Layers : Floors[l] <= v[l]
               /\ Over(v) = Over(Budgets)
               /\ \A w \in [Layers -> 0 .. NE] : (\A l \in Layers : w[l] >= Floors[l]) /\ Over(w) = Over(Budgets) =>
                     Damage(v, Marginal) <= Damage(w, Marginal)
    <3>1. v = Shed(Marginal, Floors, Over(Budgets))
      BY <1>4 DEF X
    <3> QED
      BY <1>7, <1>8, <2>3, <3>1, ShedFacts
  <2>6. ASSUME NEW v \in X
        PROVE  /\ v \in [Layers -> 0 .. NE] /\ Over(v) = Over(Budgets)
               /\ \A l \in Layers : v[l] >= LayerFloor(Listed(l), inp.div)
               /\ \A w \in [Layers -> 0 .. NE] :
                     (\A l \in Layers : w[l] >= LayerFloor(Listed(l), inp.div)) /\ Over(w) = Over(Budgets) =>
                          Damage(v, Marginal) <= Damage(w, Marginal)
    <3>1. \A l \in Layers : v[l] >= LayerFloor(Listed(l), inp.div)
      <4>1. \A l \in Layers : Floors[l] <= v[l] /\ Floors[l] \in Int /\ v[l] \in Int /\ Floors[l] = LayerFloor(Listed(l), inp.div)
        BY <1>5, <2>5
      <4> QED
        BY <4>1
    <3>2. ASSUME NEW w \in [Layers -> 0 .. NE], \A l \in Layers : w[l] >= LayerFloor(Listed(l), inp.div)
          PROVE  \A l \in Layers : w[l] >= Floors[l]
      BY <1>5, <3>2
    <3> QED
      BY <2>5, <3>1, <3>2
  <2>7. retuned' = "written"
    BY <1>9, <1>14
  <2> QED
    BY <2>4, <2>6, <2>7
<1> QED
  BY <1>13, <1>14

----------------------------------------------------------------------------
(* The invariant, and what follows from it                                 *)

\* Only the retuning ends the run.
LEMMA LastStep ==
    ASSUME [Stage1Next]_stage1Vars
    PROVE  stagePc' # "done" \/ Retune \/ UNCHANGED stage1Vars
<1> USE DEF ProceedTo, Reject
<1>1. CASE SolveStart BY <1>1 DEF SolveStart, Solving
<1>2. CASE SolveRound BY <1>2 DEF SolveRound, Answer, Solving
<1>3. CASE SolveSettled BY <1>3 DEF SolveSettled, Answer, Solving
<1>4. CASE StartPhaseA BY <1>4 DEF StartPhaseA
<1>5. CASE PhaseABatch BY <1>5 DEF PhaseABatch
<1>6. CASE OutOfMemory BY <1>6 DEF OutOfMemory
<1>7. CASE EndPhaseA BY <1>7 DEF EndPhaseA
<1>8. CASE ReadSidecars BY <1>8 DEF ReadSidecars
<1>9. CASE Detect BY <1>9 DEF Detect
<1>10. CASE Filter BY <1>10 DEF Filter
<1>11. CASE Curve BY <1>11 DEF Curve
<1>12. CASE GrapeStart BY <1>12 DEF GrapeStart
<1>13. CASE GrapeStops BY <1>13 DEF GrapeStops
<1>14. CASE GrapeThaws BY <1>14 DEF GrapeThaws, MayLoop, Looping
<1>15. CASE GrapeNoPair BY <1>15 DEF GrapeNoPair, MayLoop, Looping
<1>16. CASE GrapeMerges BY <1>16 DEF GrapeMerges, MayLoop, Looping
<1>17. CASE Rco BY <1>17 DEF Rco
<1>18. CASE WriteBlacklist BY <1>18 DEF WriteBlacklist
<1>19. CASE WriteFilter BY <1>19 DEF WriteFilter
<1>20. CASE WriteBudgets BY <1>20 DEF WriteBudgets
<1>21. CASE WriteRco BY <1>21 DEF WriteRco
<1>22. CASE Stage2Leaves BY <1>22 DEF Stage2Leaves
<1> QED
  BY <1>1, <1>2, <1>3, <1>4, <1>5, <1>6, <1>7, <1>8, <1>9, <1>10, <1>11, <1>12, <1>13, <1>14, <1>15,
     <1>16, <1>17, <1>18, <1>19, <1>20, <1>21, <1>22 DEF Stage1Next

\* What the retuning wrote stays sound.
LEMMA RetuneStep ==
    ASSUME Typed, Phases, Tables, OnDisk, OnDisk', RetuneSound, [Stage1Next]_stage1Vars
    PROVE  RetuneSound'
<1>1. CASE stagePc' # "done"
  BY <1>1 DEF RetuneSound, OnDisk
<1>2. CASE Retune
  <2>1. UNCHANGED <<inp, blacklist, counts, measured>> /\ stagePc = "retune"
    BY <1>2 DEF Retune, detection, grape
  <2>2. Budgets' = Budgets /\ \A l \in Layers : Listed(l)' = Listed(l)
    BY <2>1 DEF Budgets, Listed
  <2>3. Marginal' = Marginal
    <3>1. RawR' = RawR /\ LowR' = LowR /\ SpreadR' = SpreadR
      BY <2>1, SameRaw
    <3>2. Cost' = Cost
      BY <2>1 DEF Cost
    <3>3. Signal' = Signal
      BY <3>2 DEF Signal
    <3>4. CostLo' = CostLo /\ CostHi' = CostHi
      BY <3>2, <3>3 DEF CostLo, CostHi
    <3> QED
      BY <3>1, <3>2, <3>3, <3>4 DEF Marginal
  <2>4. /\ retuned' \notin {"unsound", "infeasible"}
        /\ \A v \in disk'["retuned"] :
              /\ v \in [Layers -> 0 .. NE] /\ Over(v) = Over(Budgets)
              /\ \A l \in Layers : v[l] >= LayerFloor(Listed(l), inp.div)
              /\ \A w \in [Layers -> 0 .. NE] :
                    (\A l \in Layers : w[l] >= LayerFloor(Listed(l), inp.div)) /\ Over(w) = Over(Budgets) =>
                       Damage(v, Marginal) <= Damage(w, Marginal)
    BY <1>2, RetuneFacts
  <2>5. disk'["budgets"] = {Budgets}
    <3>1. stagePc' = "done"
      BY <1>2 DEF Retune, ProceedTo
    <3> QED
      BY <2>2, <3>1 DEF OnDisk, Budgeted
  <2>6. Budgets \in [Layers -> 0 .. NE] /\ \A l \in Layers : Budgets[l] >= LayerFloor(Listed(l), inp.div)
    <3>1. exit # "none"
      BY <2>1 DEF Phases, Late
    <3> QED
      BY <3>1, BudgetFacts
  <2>7. ASSUME NEW v \in disk'["retuned"]
        PROVE  \A c \in {Marginal'}, old \in disk'["budgets"] :
                  LET all == {w \in [Layers -> 0 .. NE] :
                                 Over(w) = Over(old)
                                     /\ \A l \in Layers : w[l] >= LayerFloor(Listed(l)', inp'.div)}
                  IN  v \in all /\ old \in all /\ \A w \in all : Damage(v, c) <= Damage(w, c)
    BY <2>1, <2>2, <2>3, <2>4, <2>5, <2>6, <2>7
  <2> QED
    BY <2>4, <2>7 DEF RetuneSound
<1>3. CASE UNCHANGED stage1Vars
  <2>1. UNCHANGED <<inp, blacklist, disk, retuned, measured>>
    BY <1>3 DEF stage1Vars, detection, after
  <2>2. \A l \in Layers : Listed(l)' = Listed(l)
    BY <2>1 DEF Listed
  <2>3. Marginal' = Marginal
    <3>1. RawR' = RawR /\ LowR' = LowR /\ SpreadR' = SpreadR
      BY <2>1, SameRaw
    <3>2. Cost' = Cost
      BY <2>1 DEF Cost
    <3>3. Signal' = Signal
      BY <3>2 DEF Signal
    <3>4. CostLo' = CostLo /\ CostHi' = CostHi
      BY <3>2, <3>3 DEF CostLo, CostHi
    <3> QED
      BY <3>1, <3>2, <3>3, <3>4 DEF Marginal
  <2> QED
    BY <2>1, <2>2, <2>3 DEF RetuneSound
<1> QED
  BY <1>1, <1>2, <1>3, LastStep

----------------------------------------------------------------------------
\* The inductive invariant.
Stage1Inv == /\ Typed /\ Passed /\ Priors /\ Phases /\ Tables /\ Accounted /\ BudgetReached
         /\ RcoAnswer /\ OnDisk /\ RetuneSound

\* The invariant holds at the start.
LEMMA Stage1Starts == Stage1Init => Stage1Inv
<1> SUFFICES ASSUME Stage1Init PROVE Stage1Inv
  OBVIOUS
<1>1. Typed
  BY DEF Stage1Init, Typed, Early, Idle, Nowhere
<1>2. Passed
  BY BatchAssumption DEF Stage1Init, Passed
<1>3. Priors
  BY DEF Stage1Init, Priors, Early
<1>4. Phases /\ Tables /\ Accounted /\ BudgetReached
  BY DEF Stage1Init, Phases, Tables, Accounted, BudgetReached, Late
<1>5. RcoAnswer /\ OnDisk /\ RetuneSound
  BY DEF Stage1Init, RcoAnswer, OnDisk, RetuneSound, Listing, Budgeted, Outputs
<1> QED
  BY <1>1, <1>2, <1>3, <1>4, <1>5 DEF Stage1Inv

\* Every step keeps it.
LEMMA Stage1Keeps == Stage1Inv /\ [Stage1Next]_stage1Vars => Stage1Inv'
<1> SUFFICES ASSUME Stage1Inv, [Stage1Next]_stage1Vars PROVE Stage1Inv'
  OBVIOUS
<1>1. /\ Typed /\ Passed /\ Priors /\ Phases /\ Tables /\ Accounted /\ BudgetReached
      /\ RcoAnswer /\ OnDisk /\ RetuneSound
  BY DEF Stage1Inv
<1>2. Typed'
  BY <1>1, TypedStep
<1>3. Passed'
  BY <1>1, PassedStep
<1>4. Priors' /\ Phases'
  BY <1>1, PriorsStep, PhasesStep
<1>5. Tables'
  BY <1>1, TablesStep
<1>6. Accounted'
  BY <1>1, AccountedStep
<1>7. BudgetReached'
  BY <1>1, ReachedStep
<1>8. RcoAnswer'
  BY <1>1, RcoAnswerStep
<1>9. OnDisk'
  BY <1>1, OnDiskStep
<1>10. RetuneSound'
  BY <1>1, <1>9, RetuneStep
<1> QED
  BY <1>2, <1>3, <1>4, <1>5, <1>6, <1>7, <1>8, <1>9, <1>10 DEF Stage1Inv

\* The invariant of Stage 1 holds all along: the solver, Phase A, GRAPE's tables
\* and account, what RCO answered, what is on disk and what the retuning wrote.
THEOREM Stage1Invariant == Stage1Spec => []Stage1Inv
BY Stage1Starts, Stage1Keeps, PTL DEF Stage1Spec

\* Samples, counts and redundancies are exact wherever the invariant holds.
LEMMA CountsFollow == Stage1Inv => CountsExact
<1> SUFFICES ASSUME Stage1Inv PROVE CountsExact
  OBVIOUS
<1>1. Typed /\ Passed /\ Tables
  BY DEF Stage1Inv
<1>2. StatsWhole
  BY <1>1 DEF Passed, StatsWhole
<1>3. Bookkeeping
  <2> SUFFICES ASSUME stagePc = "grape", NEW l \in Layers
               PROVE  /\ counts[l] = NE - Cardinality(absorbed[l])
                      /\ blacklist[l] \subseteq absorbed[l]
                      /\ redundancy[l] = Redundancy(l, absorbed[l])
                      /\ counts[l] + Listed(l) >= LayerFloor(Listed(l), inp.div)
    BY DEF Bookkeeping
  <2>1. Kept(l) /\ absorbed[l] \in SUBSET Experts /\ inp \in Inputs
    BY <1>1 DEF Tables, Typed
  <2>2. Redundancy(l, absorbed[l]) = RedundancyIn(inp.dist[l], absorbed[l])
    BY <2>1, RedundancyFacts
  <2> QED
    BY <2>1, <2>2 DEF Kept, Listed
<1> QED
  BY <1>2, <1>3 DEF CountsExact

\* What Stage 1 counts is exact at any moment, for any number of layers and
\* experts, any calibration set, batch sizes and back-off, and any distances:
\* every calibration sample is counted once, and all through GRAPE the counts,
\* the experts absorbed and the redundancies agree (ma_detection.py,
\* utils/auto_batch.py, grape_merge.py).
THEOREM CountsAreExact == Stage1Spec => []CountsExact
BY Stage1Invariant, CountsFollow, PTL

\* Both dynamic programs answer optimally wherever the invariant holds.
LEMMA AllocationsFollow == Stage1Inv => AllocationsOptimal
<1> SUFFICES ASSUME Stage1Inv PROVE AllocationsOptimal
  OBVIOUS
<1>1. Typed /\ Priors /\ RcoAnswer
  BY DEF Stage1Inv
<1>2. inp \in Inputs /\ blacklist \in [Layers -> SUBSET Experts] /\ plan \in Int
  BY <1>1 DEF Typed
<1>3. ASSUME stagePc = "grape_start", NEW v \in optimum
      PROVE  \A c \in {Curves}, r \in {Room} :
               LET cost(w) == Over([l \in Layers |-> c[l][w[l]]])
                   all == {w \in [Layers -> 0 .. NE] :
                              Over(w) = Min({Merges, Over(r)}) /\ \A l \in Layers : w[l] <= r[l]}
               IN  v \in all /\ \A w \in all : cost(v) <= cost(w)
  <2>1. v \in Optimum
    BY <1>1, <1>3 DEF Priors
  <2>2. /\ v \in [Layers -> Nat] /\ \A l \in Layers : v[l] <= Room[l]
        /\ Over(v) = Least(Merges, Over(Room))
        /\ \A w \in [Layers -> Nat] : (\A l \in Layers : w[l] <= Room[l]) /\ Over(w) = Over(v) =>
              Over([l \in Layers |-> Curves[l][v[l]]]) <= Over([l \in Layers |-> Curves[l][w[l]]])
    BY <1>2, <2>1, OptimumFacts
  <2>3. Room \in [Layers -> 0 .. NE] /\ Merges \in Nat
    BY <1>2, ListedFacts
  <2>4. Min({Merges, Over(Room)}) = Least(Merges, Over(Room))
    <3>1. Merges \in Int /\ Over(Room) \in Int
      <4>1. Over(Room) \in 0 .. NL * NE
        BY <2>3, LayerSums
      <4>2. NL * NE \in Int
        BY Sizes
      <4> QED
        BY <2>3, <4>1, <4>2
    <3> QED
      BY <3>1, PairBounds
  <2>5. v \in [Layers -> 0 .. NE]
    <3>1. \A l \in Layers : v[l] \in Nat /\ v[l] <= Room[l] /\ Room[l] \in 0 .. NE /\ NE \in Nat
      BY <2>2, <2>3, Sizes
    <3>2. \A l \in Layers : v[l] \in 0 .. NE
      BY <3>1
    <3> QED
      BY <2>2, <3>2
  <2>6. \A w \in [Layers -> 0 .. NE] : w \in [Layers -> Nat]
    OBVIOUS
  <2> QED
    BY <2>2, <2>4, <2>5, <2>6
<1>4. ASSUME stagePc = "write_blacklist", NEW v \in rcoVec
      PROVE  \A d \in {RcoDamage} :
               LET cost(w) == Over([l \in Layers |-> d[l][w[l]]])
                   all == {w \in [Layers -> 0 .. NE] : \A l \in Layers : w[l] \in RcoOptions[l]}
               IN  /\ v \in all
                   /\ Over(v) # plan => \A w \in all : Over(w) # plan
                   /\ \A w \in all : Over(w) = Over(v) => cost(v) <= cost(w)
  <2>1. v = Settle(RcoOptions, RcoDamage, plan)
    BY <1>1, <1>4 DEF RcoAnswer
  <2>2. /\ Costly(RcoOptions, RcoDamage) /\ plan \in Int
        /\ \A l \in Layers : RcoOptions[l] \subseteq 0 .. NE
        /\ \E w : Chosen(RcoOptions, w)
        /\ \A w : Chosen(RcoOptions, w) => Over(CostOf(RcoDamage, w)) < Inf
    BY <1>2, RcoFacts
  <2>3. /\ Chosen(RcoOptions, v)
        /\ Over(v) # plan => \A w : Chosen(RcoOptions, w) => Over(w) # plan
        /\ \A w : Chosen(RcoOptions, w) /\ Over(w) = Over(v) =>
              Over(CostOf(RcoDamage, v)) <= Over(CostOf(RcoDamage, w))
    BY ONLY <2>1, <2>2, SettleFacts
  <2>4. ASSUME NEW w \in [Layers -> 0 .. NE], \A l \in Layers : w[l] \in RcoOptions[l]
        PROVE  Chosen(RcoOptions, w)
    BY <2>4 DEF Chosen
  <2>5. v \in [Layers -> 0 .. NE] /\ \A l \in Layers : v[l] \in RcoOptions[l]
    BY <2>2, <2>3 DEF Chosen
  <2> QED
    BY <2>3, <2>4, <2>5 DEF CostOf
<1> QED
  BY <1>3, <1>4 DEF AllocationsOptimal

\* So the budgets are sound.
LEMMA BudgetsFollow == Stage1Inv => BudgetsSound
BY AllocationsFollow DEF Stage1Inv, BudgetsSound

\* GRAPE stops only where the budget is met or nothing can be merged any more:
\* freezing for the entropy and the bound on its iterations never end it early.
\* The knapsack of the damage curves and RCO's discrete solve are optimal, and
\* budget_retune keeps the total and every floor and is never worse than what
\* Stage 1 wrote (grape_merge.py, damage_curve_dp.py, rco_budget.py,
\* budget_retune.py).
THEOREM BudgetsAreSound == Stage1Spec => []BudgetsSound
BY Stage1Invariant, BudgetsFollow, PTL
=============================================================================
