------------------------ MODULE Stage2Partial_proofs ------------------------
(***************************************************************************)
(* Proofs about Stage2Partial for any number of layers and of runs, about  *)
(* ProfileDp for any number of layers, workers, sequences and faults       *)
(* (second part), about MergeHeal for any groups, corpora, shard sizes and *)
(* number of kills (third part), and about Stage2Assign and MergeSolvers   *)
(* for any number of layers and experts, budgets, costs, configurations    *)
(* and thresholds (fourth part).                                           *)
(*                                                                         *)
(* The safety properties are not inductive: whether the files of a layer   *)
(* belong together depends on where the process is and on what replay has  *)
(* put in memory.  IInv adds that, in four parts.                          *)
(***************************************************************************)
EXTENDS Stage2Partial, ProfileDp, MergeHeal, Stage2Assign, SetSums_proofs, SequenceTheorems

----------------------------------------------------------------------------
(* The inductive invariant                                                 *)

\* The files of layer l are those of the run that decided p.
Sound(l, p) ==
    /\ pt[l] = p.run
    /\ l \in Sampled => means[l] = p.run
    /\ HealEnabled /\ l \in Merging => heal[l] = p.run

\* A JSON vouches for the files beside it.
Disk ==
    ~ragged => \A l \in Layers :
        /\ l \in Covered /\ json[l] # NoPlan => Sound(l, json[l])
        /\ l \notin Covered => pt[l] = NoRun

\* Where the process is, and what is in memory then.
Control ==
    /\ pc # "down" => run \in Runs
    /\ pc \in {"orphans", "replay", "write"} => resuming
    /\ pc = "forget" => ~resuming
    /\ pc \in {"forget", "orphans"} =>
          cur = 0 /\ history = {} /\ \A l \in Layers : ~Merged(l)
    /\ pc = "replay" => \A l \in Layers : l < cur /\ Complete(l) => Merged(l)
    /\ pc \in {"layer", "write"} /\ resuming =>
          \A l \in Layers : Complete(l) => Merged(l)
    /\ pc \in {"layer", "write"} => \A l \in Layers : l < cur => Merged(l)
    /\ pc \in {"unvouch", "cov", "vouch", "meta", "shards", "map", "clean"}
          => \A l \in Layers : Merged(l)

\* Between the merge of a layer and its JSON.
Writing ==
    pc = "write" =>
        /\ cur \in Layers /\ Merged(cur) /\ model[cur].plan.run = run
        /\ "json" \in todo
        /\ cur \in Covered /\ "pt" \notin todo => pt[cur] = run
        /\ cur \in Sampled /\ "means" \notin todo => means[cur] = run
        /\ HealEnabled /\ cur \in Merging /\ "heal" \notin todo => heal[cur] = run
        /\ cur \notin Covered => "pt" \notin todo
        /\ ~ragged /\ cur \in Covered => json[cur] = NoPlan

\* The recorded plans were decided by runs up to this one, and those a replay
\* finds by earlier ones.
Earlier ==
    \A l \in Layers :
        /\ json[l].run <= run
        /\ pc \in {"forget", "orphans", "replay"} => json[l].run < run

\* The published files.
Published ==
    /\ map <= run /\ meta <= run
    /\ pc \in {"forget", "orphans", "replay", "layer", "write",
               "unvouch", "cov", "vouch", "meta", "shards", "map"} => map < run
    /\ pc \in {"shards", "map"} => meta = run
    /\ pc = "map" => weights = run

IInv == TypeOK /\ Disk /\ Control /\ Writing /\ Earlier /\ Published
        /\ ReplayFaithful /\ AuditedPairWhole

----------------------------------------------------------------------------
(* Types                                                                   *)

\* A plan is never mistaken for the absence of one.
LEMMA NoPlanFact ==
    /\ NoPlan \notin Plan /\ NoPlan.counted = FALSE
    /\ \A p \in Plan : p.run \in Runs /\ p # NoPlan
BY DEF NoPlan, Plan, Runs, NoRun

\* The initial state is typed.
LEMMA TypeInit == Init => TypeOK
<1> SUFFICES ASSUME Init PROVE TypeOK
  OBVIOUS
<1>1. NoRun \in Stamp /\ 0 \in 0 .. NumLayers
  BY SizesAssumption DEF Stamp
<1>2. Original \in Layer
  BY <1>1 DEF Original, Layer
<1>3. NoFile \in [Layers -> Stamp] /\ [l \in Layers |-> NoPlan] \in [Layers -> Plan \cup {NoPlan}]
  BY <1>1 DEF NoFile
<1> QED
  BY <1>1, <1>2, <1>3 DEF Init, TypeOK

\* A position below NumLayers is a layer, and the next one a position.
LEMMA AtLayer ==
    ASSUME TypeOK, cur < NumLayers
    PROVE  cur \in Layers /\ cur + 1 \in 0 .. NumLayers
BY SizesAssumption DEF TypeOK, Layers

\* What Merge decides is a plan.
LEMMA DecidedType ==
    ASSUME TypeOK, NEW l \in Layers, NEW c \in BOOLEAN, run \in Runs
    PROVE  Decided(l, c) \in Plan
<1>1. \A k \in Layers : model[k].plan.run \in Stamp
  BY DEF TypeOK, Layer, Plan, NoPlan, Stamp
<1>2. [k \in Layers |-> IF k < l THEN model[k].plan.run ELSE NoRun] \in [Layers -> Stamp]
  BY <1>1 DEF Stamp
<1> QED
  BY <1>2 DEF Decided, Plan, Basis, TypeOK

\* What replay reads from the disk is a layer.
LEMMA ReplayedType ==
    ASSUME TypeOK, NEW l \in Layers
    PROVE  Replayed(l) \in Layer
BY DEF Replayed, Averaged, Layer, TypeOK, Stamp

\* Every step keeps the types.
LEMMA TypeStep == ASSUME IInv, [Next]_vars PROVE TypeOK'
<1> USE DEF TypeOK, partial, published, process
<1>0. TypeOK /\ (pc # "down" => run \in Runs) /\ (pc = "write" => cur \in Layers)
  BY DEF IInv, Control, Writing
<1> USE <1>0
<1>1. CASE \E resume \in BOOLEAN : Start(resume)
  <2> PICK resume \in BOOLEAN : Start(resume)
    BY <1>1
  <2>1. Original \in Layer
    BY DEF Original, Layer, Stamp
  <2>2. run' \in Stamp /\ 0 \in 0 .. NumLayers
    BY SizesAssumption DEF Start, Stamp, Runs, NoRun
  <2> QED
    BY <2>1, <2>2 DEF Start
<1>2. ASSUME NEW l \in Layers, NEW kind \in Kinds, RemoveFile(l, kind)
      PROVE  TypeOK'
  <2>1. NoRun \in Stamp
    BY DEF Stamp
  <2> QED
    BY <1>2, <2>1 DEF RemoveFile
<1>9. CASE Lost
  <2>1. Original \in Layer
    BY DEF Original, Layer, Stamp
  <2> QED
    BY <1>9, <2>1, SizesAssumption DEF Lost
<1>3. CASE Recover
  <2>1. CASE \E l \in Layers, kind \in Kinds : ForgetFile(l, kind)
    BY <1>2, <2>1 DEF ForgetFile
  <2>2. CASE Forgotten
    BY <2>2 DEF Forgotten
  <2>3. CASE \E l \in Layers : DeleteOrphan(l)
    BY <2>3 DEF DeleteOrphan, Stamp
  <2>4. CASE OrphansDeleted
    BY <2>4 DEF OrphansDeleted
  <2>5. CASE Replay
    <3>1. cur \in Layers /\ cur' \in 0 .. NumLayers
      BY <2>5, AtLayer DEF Replay
    <3>2. model' \in [Layers -> Layer] /\ history' \in SUBSET Layers
      BY <2>5, <3>1, ReplayedType DEF Replay
    <3> QED
      BY <2>5, <3>1, <3>2 DEF Replay
  <2>6. CASE ReplayDone
    BY <2>6, SizesAssumption DEF ReplayDone
  <2>7. CASE ReplayRefused
    BY <2>7, <1>9 DEF ReplayRefused
  <2> QED
    BY <1>3, <2>1, <2>2, <2>3, <2>4, <2>5, <2>6, <2>7 DEF Recover
<1>4. CASE LayerLoop
  <2>1. CASE Skip
    BY <2>1, SizesAssumption DEF Skip
  <2>2. CASE \E c \in BOOLEAN : Merge(c)
    <3> PICK c \in BOOLEAN : Merge(c)
      BY <2>2
    <3>1. cur \in Layers /\ cur + 1 \in 0 .. NumLayers
      BY AtLayer DEF Merge
    <3>2. run \in Runs /\ run \in Stamp /\ NoRun \in Stamp
      BY DEF Merge, Stamp
    <3>3. Decided(cur, c) \in Plan
      BY <3>1, <3>2, DecidedType
    <3>4. model' \in [Layers -> Layer]
      BY <3>1, <3>2, <3>3 DEF Merge, Layer
    <3>5. history' \in SUBSET Layers /\ todo' \in SUBSET Kinds /\ cur' \in 0 .. NumLayers
      BY <3>1 DEF Merge, Artifacts, Kinds
    <3>6. pc' \in {"layer", "write"}
      BY DEF Merge
    <3> QED
      BY <3>4, <3>5, <3>6 DEF Merge
  <2>3. CASE WritePt
    BY <2>3 DEF WritePt
  <2>4. CASE WriteMeans
    BY <2>4 DEF WriteMeans
  <2>5. CASE WriteHeal
    BY <2>5 DEF WriteHeal
  <2>6. CASE WriteJson
    <3>1. model[cur].plan \in Plan \cup {NoPlan} /\ cur + 1 \in 0 .. NumLayers
      BY <2>6, SizesAssumption DEF WriteJson, Layer, Layers
    <3> QED
      BY <2>6, <3>1 DEF WriteJson
  <2>7. CASE LoopDone
    BY <2>7 DEF LoopDone
  <2> QED
    BY <1>4, <2>1, <2>2, <2>3, <2>4, <2>5, <2>6, <2>7 DEF LayerLoop
<1>5. CASE Publish
  <2>1. CASE \E l \in Layers, kind \in Kinds : CleanFile(l, kind)
    BY <1>2, <2>1 DEF CleanFile
  <2> QED
    BY <1>5, <2>1 DEF Publish, Unvouch, SaveCov, Vouch, SaveMeta, SaveShards,
       SaveMap, Cleaned, Step, KeepsProcess, Stamp
<1>6. CASE Exit
  BY <1>6 DEF Exit
<1>7. CASE Crash
  BY <1>7, <1>9 DEF Crash
<1>8. CASE UNCHANGED vars
  BY <1>8 DEF vars
<1> QED
  BY <1>1, <1>3, <1>4, <1>5, <1>6, <1>7, <1>8 DEF Next, Progress, Finished

----------------------------------------------------------------------------
(* Where the process is                                                    *)

\* RemoveFile touches neither the process nor what is published.
LEMMA RemoveFileFrame ==
    ASSUME NEW l \in Layers, NEW kind \in Kinds, RemoveFile(l, kind)
    PROVE  ragged' /\ UNCHANGED <<published, process>>
BY DEF RemoveFile

\* Nothing is completed that the process has not merged, once it replayed.
LEMMA ControlStep == ASSUME IInv, [Next]_vars PROVE Control'
<1> USE DEF published, process, partial
<1>0. TypeOK /\ Control /\ Writing
  BY DEF IInv
<1>1. CASE \E resume \in BOOLEAN : Start(resume)
  <2> PICK resume \in BOOLEAN : Start(resume)
    BY <1>1
  <2>1. run' \in Runs /\ cur' = 0 /\ pc' \in {"orphans", "forget"}
    BY <1>0, SizesAssumption DEF Start, TypeOK, Stamp, Runs, NoRun
  <2>2. resuming' = (pc' = "orphans")
    BY DEF Start
  <2>3. history' = {} /\ \A l \in Layers : ~Merged(l)'
    BY DEF Start, Merged, Original
  <2> QED
    BY <2>1, <2>2, <2>3 DEF Control
<1>2. CASE Recover
  <2>1. CASE \E l \in Layers, kind \in Kinds : ForgetFile(l, kind)
    <3>1. pc = "forget" /\ UNCHANGED process
      BY <2>1, RemoveFileFrame DEF ForgetFile
    <3> QED
      BY <3>1, <1>0 DEF Control, Merged
  <2>2. CASE Forgotten
    BY <2>2, <1>0 DEF Forgotten, Control, Merged, Layers
  <2>3. CASE \E l \in Layers : DeleteOrphan(l)
    BY <2>3, <1>0 DEF DeleteOrphan, Control, Merged
  <2>4. CASE OrphansDeleted
    BY <2>4, <1>0 DEF OrphansDeleted, Control, Merged, Layers
  <2>5. CASE Replay
    <3>1. cur \in Layers /\ UNCHANGED <<pt, json, run, resuming, pc>>
      BY <2>5, <1>0, AtLayer DEF Replay
    <3>2. \A l \in Layers : l # cur => model'[l] = model[l]
      BY <2>5, <1>0 DEF Replay, TypeOK
    <3>3. Complete(cur) => model'[cur].plan # NoPlan
      BY <2>5, <3>1, <1>0 DEF Replay, TypeOK, Replayed, Complete
    <3>4. \A l \in Layers : l < cur' /\ Complete(l)' => Merged(l)'
      BY <2>5, <3>1, <3>2, <3>3, <1>0 DEF Replay, Control, Complete, Merged, TypeOK, Layers
    <3> QED
      BY <2>5, <3>1, <3>4, <1>0 DEF Replay, Control
  <2>6. CASE ReplayDone
    <3>1. \A l \in Layers : Complete(l) => Merged(l)
      BY <2>6, <1>0, SizesAssumption DEF ReplayDone, Control, Layers
    <3> QED
      BY <2>6, <3>1, <1>0 DEF ReplayDone, Control, Complete, Merged, Layers
  <2>7. CASE ReplayRefused
    BY <2>7 DEF ReplayRefused, Lost, Control
  <2> QED
    BY <1>2, <2>1, <2>2, <2>3, <2>4, <2>5, <2>6, <2>7 DEF Recover
<1>3. CASE LayerLoop
  <2>1. CASE Skip
    BY <2>1, <1>0 DEF Skip, Control, Merged, Complete, Layers, TypeOK
  <2>2. CASE \E c \in BOOLEAN : Merge(c)
    <3> PICK c \in BOOLEAN : Merge(c)
      BY <2>2
    <3>1. cur \in Layers /\ run \in Runs /\ UNCHANGED <<pt, json, run, resuming>>
      BY <1>0, AtLayer DEF Merge, Control
    <3>2. \A l \in Layers : l # cur => model'[l] = model[l]
      BY <1>0 DEF Merge, TypeOK
    <3>3. model'[cur].plan # NoPlan
      BY <3>1, <1>0, DecidedType, NoPlanFact DEF Merge, TypeOK
    <3>4. \A l \in Layers : Merged(l) => Merged(l)'
      BY <3>2, <3>3 DEF Merged
    <3>5. \A l \in Layers : l < cur' => Merged(l)'
      <4>1. \A l \in Layers : l < cur' => l < cur \/ l = cur
        BY <3>1, SizesAssumption DEF Merge, Layers
      <4>2. \A l \in Layers : l < cur => Merged(l)
        BY <1>0 DEF Merge, Control
      <4> QED
        BY <3>3, <3>4, <4>1, <4>2 DEF Merged
    <3>6. pc' \in {"layer", "write"} /\ (pc' = "write" => resuming)
      BY <1>0 DEF Merge
    <3> QED
      BY <3>1, <3>4, <3>5, <3>6, <1>0 DEF Merge, Control, Complete
  <2>3. CASE WritePt
    BY <2>3, <1>0 DEF WritePt, Control, Merged, Complete, Writing, TypeOK
  <2>4. CASE WriteMeans
    BY <2>4, <1>0 DEF WriteMeans, Control, Merged, Complete
  <2>5. CASE WriteHeal
    BY <2>5, <1>0 DEF WriteHeal, Control, Merged, Complete
  <2>6. CASE WriteJson
    <3>1. \A l \in Layers : l < cur + 1 => Merged(l)
      BY <2>6, <1>0 DEF WriteJson, Control, Writing, Layers
    <3> QED
      BY <2>6, <3>1, <1>0 DEF WriteJson, Control, Merged, Complete, Writing, TypeOK
  <2>7. CASE LoopDone
    BY <2>7, <1>0, SizesAssumption DEF LoopDone, Control, Merged, Layers
  <2> QED
    BY <1>3, <2>1, <2>2, <2>3, <2>4, <2>5, <2>6, <2>7 DEF LayerLoop
<1>4. CASE Publish
  <2>1. CASE \E l \in Layers, kind \in Kinds : CleanFile(l, kind)
    <3>1. pc = "clean" /\ UNCHANGED process
      BY <2>1, RemoveFileFrame DEF CleanFile
    <3> QED
      BY <3>1, <1>0 DEF Control, Merged
  <2> QED
    BY <1>4, <2>1, <1>0 DEF Publish, Unvouch, SaveCov, Vouch, SaveMeta, SaveShards,
       SaveMap, Cleaned, Step, KeepsProcess, Control, Merged
<1>5. CASE Exit
  BY <1>5 DEF Exit, Control
<1>6. CASE Crash
  BY <1>6 DEF Crash, Lost, Control
<1>7. CASE UNCHANGED vars
  BY <1>7, <1>0 DEF vars, Control, Merged, Complete
<1> QED
  BY <1>1, <1>2, <1>3, <1>4, <1>5, <1>6, <1>7 DEF Next, Progress, Finished

----------------------------------------------------------------------------
(* A layer being written                                                   *)

\* The files of the layer at hand are those of this run, one after the other.
LEMMA WritingStep == ASSUME IInv, [Next]_vars PROVE Writing'
<1> USE DEF published, process, partial, HealEnabled, Lost
<1>0. TypeOK /\ Control /\ Writing /\ Disk
  BY DEF IInv
<1>1. CASE \E c \in BOOLEAN : Merge(c)
  <2> PICK c \in BOOLEAN : Merge(c)
    BY <1>1
  <2> SUFFICES ASSUME pc' = "write" PROVE Writing'
    BY DEF Writing
  <2>1. cur \in Layers /\ run \in Runs /\ cur' = cur /\ resuming /\ ~Merged(cur)
    BY <1>0, AtLayer DEF Merge, Control
  <2>2. todo' = Artifacts(cur)
    BY DEF Merge
  <2>3. model'[cur].plan = Decided(cur, c) /\ model'[cur].plan.run = run
    BY <2>1, <1>0 DEF Merge, TypeOK, Decided
  <2>4. Merged(cur)'
    BY <2>1, <2>3, <1>0, DecidedType, NoPlanFact DEF Merged
  <2>5. ~Complete(cur)
    BY <2>1, <1>0 DEF Merge, Control
  <2>6. ~ragged /\ cur \in Covered => json[cur] = NoPlan
    <3> SUFFICES ASSUME ~ragged, cur \in Covered, json[cur] # NoPlan PROVE FALSE
      OBVIOUS
    <3>1. pt[cur] = json[cur].run
      BY <2>1, <1>0 DEF Disk, Sound
    <3>2. json[cur] \in Plan
      BY <2>1, <1>0 DEF TypeOK
    <3> QED
      BY <3>1, <3>2, <2>5, NoPlanFact DEF Complete, Runs, NoRun
  <2> QED
    BY <2>1, <2>2, <2>3, <2>4, <2>6 DEF Writing, Artifacts, Merge
<1>2. CASE WritePt
  BY <1>2, <1>0 DEF WritePt, Writing, Merged, TypeOK
<1>3. CASE WriteMeans
  BY <1>3, <1>0 DEF WriteMeans, Writing, Merged, TypeOK
<1>4. CASE WriteHeal
  BY <1>4, <1>0 DEF WriteHeal, Writing, Merged, TypeOK
<1>5. CASE pc' # "write"
  BY <1>5 DEF Writing
<1>6. CASE UNCHANGED vars
  BY <1>6, <1>0 DEF vars, Writing, Merged
<1>7. CASE Publish
  <2>1. CASE \E l \in Layers, kind \in Kinds : CleanFile(l, kind)
    BY <2>1, <1>5, RemoveFileFrame DEF CleanFile
  <2> QED
    BY <1>7, <1>5, <2>1 DEF Publish, Unvouch, SaveCov, Vouch, SaveMeta, SaveShards,
       SaveMap, Cleaned, Step
<1>8. CASE Recover
  <2>1. CASE \E l \in Layers, kind \in Kinds : ForgetFile(l, kind)
    BY <2>1, <1>5, RemoveFileFrame DEF ForgetFile
  <2> QED
    BY <1>8, <1>5, <2>1 DEF Recover, Forgotten, DeleteOrphan, OrphansDeleted, Replay, ReplayRefused, ReplayDone
<1> QED
  BY <1>1, <1>2, <1>3, <1>4, <1>5, <1>6, <1>7, <1>8
     DEF Next, Progress, LayerLoop, Start, Skip, WriteJson, LoopDone, Exit, Crash, Finished

----------------------------------------------------------------------------
(* What lies on the disk, in memory and in the published directory         *)

\* A JSON keeps vouching for the files beside it.
LEMMA DiskStep == ASSUME IInv, [Next]_vars PROVE Disk'
<1> USE DEF published, process, partial, HealEnabled, Lost
<1>0. TypeOK /\ Writing /\ Disk
  BY DEF IInv
<1>1. CASE ragged'
  BY <1>1 DEF Disk
<1>2. CASE \E resume \in BOOLEAN : Start(resume)
  BY <1>2, <1>0 DEF Start, Disk, Sound, PartialEmpty, NoFile
<1>3. CASE Forgotten
  BY <1>3, <1>0 DEF Forgotten, Disk, Sound, PartialEmpty, NoFile
<1>4. CASE \E l \in Layers : DeleteOrphan(l)
  BY <1>4, <1>0 DEF DeleteOrphan, Disk, Sound, TypeOK
<1>5. CASE WritePt
  BY <1>5, <1>0 DEF WritePt, Disk, Sound, Writing, TypeOK
<1>6. CASE WriteMeans
  BY <1>6, <1>0 DEF WriteMeans, Disk, Sound, Writing, TypeOK
<1>7. CASE WriteHeal
  BY <1>7, <1>0 DEF WriteHeal, Disk, Sound, Writing, TypeOK
<1>8. CASE WriteJson
  BY <1>8, <1>0 DEF WriteJson, Disk, Sound, Writing, TypeOK
<1>9. CASE UNCHANGED <<partial, ragged, setting>>
  BY <1>9, <1>0 DEF Disk, Sound
<1>10. \A l \in Layers, kind \in Kinds : RemoveFile(l, kind) => ragged'
  BY DEF RemoveFile
<1>11. Recover => ragged' \/ Forgotten \/ (\E l \in Layers : DeleteOrphan(l)) \/ UNCHANGED <<partial, ragged, setting>>
  BY <1>10 DEF Recover, ForgetFile, OrphansDeleted, Replay, ReplayRefused, ReplayDone
<1>12. LayerLoop => WritePt \/ WriteMeans \/ WriteHeal \/ WriteJson \/ UNCHANGED <<partial, ragged, setting>>
  BY DEF LayerLoop, Skip, Merge, LoopDone
<1>13. Publish => ragged' \/ UNCHANGED <<partial, ragged, setting>>
  BY <1>10 DEF Publish, Unvouch, SaveCov, Vouch, SaveMeta, SaveShards, SaveMap, CleanFile, Cleaned, KeepsProcess
<1> QED
  BY <1>1, <1>2, <1>3, <1>4, <1>5, <1>6, <1>7, <1>8, <1>9, <1>11, <1>12, <1>13
     DEF Next, Progress, Exit, Crash, Finished, vars

\* Replay and merge leave a faithful model behind.
LEMMA FaithfulStep == ASSUME IInv, [Next]_vars PROVE ReplayFaithful'
<1> USE DEF published, process, partial, HealEnabled, Lossy, AsDecided, Lost
<1>0. TypeOK /\ Control /\ Disk /\ Earlier /\ ReplayFaithful
  BY DEF IInv
<1>1. CASE ragged'
  BY <1>1 DEF ReplayFaithful
<1>2. CASE \A l \in Layers : model'[l] = Original
  BY <1>2 DEF ReplayFaithful, Merged, Original
<1>3. CASE Forgotten
  BY <1>3, <1>0 DEF Forgotten, ReplayFaithful, Merged, Control
<1>4. CASE Replay
  <2>1. cur \in Layers /\ ragged' = ragged
    BY <1>4, <1>0, AtLayer DEF Replay
  <2>2. \A l \in Layers : model'[l] = IF l = cur /\ Complete(cur) THEN Replayed(cur) ELSE model[l]
    BY <1>4, <2>1, <1>0 DEF Replay, TypeOK
  <2>3. ~ragged /\ Complete(cur) => cur \in Covered /\ Sound(cur, json[cur])
    BY <2>1, <1>0 DEF Disk, Complete
  <2>4. json[cur].run < run /\ UNCHANGED <<setting, run>>
    BY <1>4, <2>1, <1>0 DEF Replay, Earlier
  <2>5. Averaged(cur) = "average" => Lossy /\ cur \in Merging
    BY DEF Averaged
  <2> QED
    BY <2>1, <2>2, <2>3, <2>4, <2>5, <1>0 DEF ReplayFaithful, Merged, Replayed, Sound
<1>5. CASE \E c \in BOOLEAN : Merge(c)
  <2> PICK c \in BOOLEAN : Merge(c)
    BY <1>5
  <2>1. cur \in Layers /\ UNCHANGED <<ragged, run, setting>>
    BY <1>0, AtLayer DEF Merge
  <2>2. \A l \in Layers : l # cur => model'[l] = model[l]
    BY <1>0 DEF Merge, TypeOK
  <2>3. model'[cur] = [plan |-> Decided(cur, c),
             cov  |-> IF cur \in Covered THEN run ELSE NoRun,
             means |-> IF cur \in Sampled THEN run ELSE NoRun,
             heal |-> IF HealEnabled /\ cur \in Merging THEN run ELSE NoRun,
             by |-> IF cur \in Merging THEN "configured" ELSE "none"]
    BY <2>1, <1>0 DEF Merge, TypeOK
  <2>4. Decided(cur, c).run = run
    BY DEF Decided
  <2> QED
    BY <2>1, <2>2, <2>3, <2>4, <1>0 DEF ReplayFaithful, Merged
<1>6. CASE UNCHANGED <<model, ragged, run, setting>>
  BY <1>6, <1>0 DEF ReplayFaithful, Merged
<1>7. \A l \in Layers, kind \in Kinds : RemoveFile(l, kind) => ragged'
  BY DEF RemoveFile
<1>8. Recover => ragged' \/ Forgotten \/ Replay \/ ReplayRefused \/ UNCHANGED <<model, ragged, run, setting>>
  BY <1>7 DEF Recover, ForgetFile, DeleteOrphan, OrphansDeleted, ReplayDone
<1>9. LayerLoop => (\E c \in BOOLEAN : Merge(c)) \/ UNCHANGED <<model, ragged, run, setting>>
  BY DEF LayerLoop, Skip, WritePt, WriteMeans, WriteHeal, WriteJson, LoopDone
<1>10. Publish => ragged' \/ UNCHANGED <<model, ragged, run, setting>>
  BY <1>7 DEF Publish, Unvouch, SaveCov, Vouch, SaveMeta, SaveShards, SaveMap, CleanFile, Cleaned, KeepsProcess
<1> QED
  BY <1>1, <1>2, <1>3, <1>4, <1>5, <1>6, <1>8, <1>9, <1>10
     DEF Next, Progress, Start, Exit, Crash, Finished, ReplayRefused, vars

\* Plans are recorded by the run at hand, after it has replayed those it found.
LEMMA EarlierStep == ASSUME IInv, [Next]_vars PROVE Earlier'
<1> USE DEF published, process, partial, Lost
<1>0. TypeOK /\ Earlier /\ Writing /\ (pc # "down" => run \in Runs)
  BY DEF IInv, Control
<1>1. run \in Nat /\ \A l \in Layers : json[l].run \in Nat
  BY <1>0 DEF TypeOK, Stamp, Runs, NoRun, Plan, NoPlan
<1>2. NoPlan.run = 0
  BY DEF NoPlan, NoRun
<1>3. CASE \E resume \in BOOLEAN : Start(resume)
  BY <1>3, <1>0, <1>1 DEF Start, Earlier
<1>4. ASSUME NEW l \in Layers, NEW kind \in Kinds, RemoveFile(l, kind)
      PROVE  Earlier'
  <2>1. \A k \in Layers : json'[k] = json[k] \/ json'[k] = NoPlan
    BY <1>4, <1>0 DEF RemoveFile, TypeOK
  <2>2. pc' = pc /\ run' = run /\ (pc \in {"forget", "orphans", "replay"} => run > 0)
    BY <1>4, <1>0 DEF RemoveFile, Runs
  <2> QED
    BY <2>1, <2>2, <1>0, <1>1, <1>2 DEF Earlier
<1>5. CASE WriteJson
  <2>1. json'[cur].run = run /\ \A k \in Layers : k # cur => json'[k] = json[k]
    BY <1>5, <1>0 DEF WriteJson, Writing, TypeOK
  <2>2. pc' = "layer" /\ run' = run
    BY <1>5 DEF WriteJson
  <2> QED
    BY <2>1, <2>2, <1>0, <1>1 DEF Earlier
<1>6. CASE /\ UNCHANGED <<json, run>>
           /\ pc' \in {"forget", "orphans", "replay"} => pc \in {"forget", "orphans", "replay"}
  BY <1>6, <1>0 DEF Earlier
<1>7. CASE Recover
  BY <1>7, <1>4, <1>6 DEF Recover, ForgetFile, Forgotten, DeleteOrphan, OrphansDeleted,
     Replay, ReplayRefused, ReplayDone
<1>8. CASE LayerLoop
  BY <1>8, <1>5, <1>6 DEF LayerLoop, Skip, Merge, WritePt, WriteMeans, WriteHeal, LoopDone
<1>9. CASE Publish
  BY <1>9, <1>4, <1>6 DEF Publish, Unvouch, SaveCov, Vouch, SaveMeta, SaveShards,
     SaveMap, CleanFile, Cleaned, Step, KeepsProcess
<1> QED
  BY <1>3, <1>6, <1>7, <1>8, <1>9 DEF Next, Progress, Exit, Crash, Finished, vars

\* The run that publishes writes the map last, above everything it vouches for.
LEMMA PublishedStep == ASSUME IInv, [Next]_vars PROVE Published' /\ AuditedPairWhole'
<1> USE DEF published, process, partial, Lost
<1>0. TypeOK /\ Published /\ AuditedPairWhole /\ (pc # "down" => run \in Runs)
  BY DEF IInv, Control
<1>1. CASE \E resume \in BOOLEAN : Start(resume)
  <2>1. run \in Nat /\ map \in Nat /\ meta \in Nat
    BY <1>0 DEF TypeOK, Stamp, Runs, NoRun
  <2> QED
    BY <1>1, <1>0, <2>1 DEF Start, Published, AuditedPairWhole
<1>2. CASE UNCHANGED <<published, run>> /\ (pc' = pc \/ pc' \in {"down", "done"}
             \/ (pc = "clean" /\ pc' = "clean")
             \/ (pc \in {"forget", "orphans", "replay", "layer", "write"}
                 /\ pc' \in {"forget", "orphans", "replay", "layer", "write", "unvouch"}))
  BY <1>2, <1>0 DEF Published, AuditedPairWhole
<1>3. CASE Publish
  <2>0. run \in Nat /\ map \in Nat /\ meta \in Nat
    BY <1>0 DEF TypeOK, Stamp, Runs, NoRun
  <2>1. CASE \E l \in Layers, kind \in Kinds : CleanFile(l, kind)
    BY <2>1, <1>2, RemoveFileFrame DEF CleanFile
  <2>2. CASE Unvouch \/ SaveCov \/ Vouch
    BY <2>2, <1>0 DEF Unvouch, SaveCov, Vouch, Step, KeepsProcess, Published, AuditedPairWhole
  <2>3. CASE SaveMeta
    BY <2>3, <2>0, <1>0 DEF SaveMeta, Step, KeepsProcess, Published, AuditedPairWhole
  <2>4. CASE SaveShards
    BY <2>4, <2>0, <1>0 DEF SaveShards, Step, KeepsProcess, Published, AuditedPairWhole
  <2>5. CASE SaveMap
    BY <2>5, <2>0, <1>0 DEF SaveMap, KeepsProcess, Published, AuditedPairWhole
  <2>6. CASE Cleaned
    BY <2>6, <1>2 DEF Cleaned, Step, KeepsProcess
  <2> QED
    BY <1>3, <2>1, <2>2, <2>3, <2>4, <2>5, <2>6 DEF Publish
<1>4. CASE Recover
  <2>1. CASE \E l \in Layers, kind \in Kinds : ForgetFile(l, kind)
    BY <2>1, <1>2, RemoveFileFrame DEF ForgetFile
  <2> QED
    BY <1>4, <2>1, <1>2 DEF Recover, Forgotten, DeleteOrphan, OrphansDeleted, Replay, ReplayRefused, ReplayDone
<1>5. CASE LayerLoop
  <2>1. CASE \E c \in BOOLEAN : Merge(c)
    BY <2>1, <1>2 DEF Merge
  <2>2. CASE WritePt \/ WriteMeans \/ WriteHeal \/ WriteJson
    BY <2>2, <1>2 DEF WritePt, WriteMeans, WriteHeal, WriteJson
  <2> QED
    BY <1>5, <2>1, <2>2, <1>2 DEF LayerLoop, Skip, LoopDone
<1> QED
  BY <1>1, <1>2, <1>3, <1>4, <1>5 DEF Next, Progress, Exit, Crash, Finished, vars

----------------------------------------------------------------------------
(* Theorems                                                                *)

\* IInv holds in every reachable state.
THEOREM Invariant == Spec => []IInv
<1>1. Init => IInv
  <2> SUFFICES ASSUME Init PROVE IInv
    OBVIOUS
  <2>1. TypeOK
    BY TypeInit
  <2>2. Disk /\ Control /\ Writing /\ Published /\ ReplayFaithful /\ AuditedPairWhole
    BY DEF Init, Disk, Sound, NoFile, Control, Writing, Published, ReplayFaithful,
           Merged, Original, AuditedPairWhole, NoRun
  <2>3. Earlier
    BY DEF Init, Earlier, NoPlan, NoRun
  <2> QED
    BY <2>1, <2>2, <2>3 DEF IInv
<1>2. IInv /\ [Next]_vars => IInv'
  BY TypeStep, ControlStep, WritingStep, DiskStep, FaithfulStep, EarlierStep, PublishedStep
     DEF IInv
<1> QED
  BY <1>1, <1>2, PTL DEF Spec

\* Every variable keeps its type, whatever the number of layers and runs.
THEOREM Typing == Spec => []TypeOK
BY Invariant, PTL DEF IInv

\* What discovery takes for a completed layer is the output of one run: the
\* covariance, the means, the healed weights and the plan (resume.py).
THEOREM CompletedFromOneRun == Spec => []CompletedWhole
<1>1. IInv => CompletedWhole
  BY DEF IInv, Disk, Sound, CompletedWhole, Complete
<1> QED
  BY <1>1, Invariant, PTL

\* A resumed run has in memory the covariance, the means and the weights of the
\* run that decided each plan, but for the weights of a layer of an earlier run
\* that was not healed and whose configured merge is not the average.
THEOREM ResumeFaithful == Spec => []ReplayFaithful
BY Invariant, PTL DEF IInv

\* The checkpoint and merge map that the audit pairs are complete and of one run.
THEOREM AuditedPair == Spec => []AuditedPairWhole
BY Invariant, PTL DEF IInv

\* Nothing is published before every layer is merged.
THEOREM PublishedAfterMerge == Spec => []PublishedMerged
<1>1. IInv => PublishedMerged
  BY DEF IInv, Control, PublishedMerged
<1> QED
  BY <1>1, Invariant, PTL

\* A layer once recorded is never lost or decided again while no rmtree of the
\* partial directory is interrupted.
THEOREM CommittedStays == Spec => CommittedKept
<1> USE DEF published, process, partial, Lost
<1>1. IInv /\ [Next]_vars => [\A l \in Layers : Complete(l) =>
           (Complete(l)' /\ json'[l] = json[l]) \/ ragged']_vars
  <2> SUFFICES ASSUME IInv, Next, NEW l \in Layers, Complete(l), ~ragged'
               PROVE  Complete(l)' /\ json'[l] = json[l]
    OBVIOUS
  <2>0. TypeOK /\ Writing /\ Control
    BY DEF IInv
  <2>1. CASE UNCHANGED <<pt, json>>
    BY <2>1 DEF Complete
  <2>2. CASE \E k \in Layers : DeleteOrphan(k)
    BY <2>2, <2>0 DEF DeleteOrphan, Complete, TypeOK
  <2>3. CASE WritePt
    BY <2>3, <2>0 DEF WritePt, Complete, TypeOK, Writing, Control, Runs, NoRun
  <2>4. CASE WriteJson
    <3>1. cur # l
      <4>1. ~ragged /\ (cur \in Covered => json[cur] = NoPlan)
        BY <2>4, <2>0 DEF WriteJson, Writing
      <4>2. cur \notin Covered => pt[cur] = NoRun
        BY <2>4, <4>1, <2>0 DEF WriteJson, Writing, IInv, Disk
      <4> QED
        BY <4>1, <4>2 DEF Complete
    <3> QED
      BY <2>4, <3>1, <2>0 DEF WriteJson, Complete, TypeOK
  <2>5. \A k \in Layers, kind \in Kinds : RemoveFile(k, kind) => ragged'
    BY DEF RemoveFile
  <2>6. Recover => (\E k \in Layers : DeleteOrphan(k)) \/ UNCHANGED <<pt, json>>
    BY <2>5 DEF Recover, ForgetFile, Forgotten, OrphansDeleted, Replay, ReplayRefused, ReplayDone
  <2>7. LayerLoop => WritePt \/ WriteJson \/ UNCHANGED <<pt, json>>
    BY DEF LayerLoop, Skip, Merge, WriteMeans, WriteHeal, LoopDone
  <2>8. Publish => UNCHANGED <<pt, json>>
    BY <2>5 DEF Publish, Unvouch, SaveCov, Vouch, SaveMeta, SaveShards, SaveMap, CleanFile, Cleaned, KeepsProcess
  <2> QED
    BY <2>1, <2>2, <2>3, <2>4, <2>6, <2>7, <2>8
       DEF Next, Progress, Start, Exit, Crash, Finished, vars
<1> QED
  BY <1>1, Invariant, PTL DEF Spec, CommittedKept

----------------------------------------------------------------------------
(* Coherence of the stack of merges                                        *)

\* Every recorded plan was decided on the recorded plans below it.
Recorded ==
    \A l \in Layers : json[l] # NoPlan =>
        /\ \A k \in Layers : k < l => json[k] # NoPlan /\ json[l].basis.plans[k] = json[k].run
        /\ json[l].basis.costs = {k \in Layers : k < l /\ json[k].counted}

\* The cost history holds the counted layers of the model.
Counted == pc # "down" => history = {k \in Layers : model[k].plan.counted}

\* The model in memory is the record, up to the layer the process is at.
InStep ==
    /\ pc = "replay" =>
          \A l \in Layers : model[l].plan = IF l < cur THEN json[l] ELSE NoPlan
    /\ pc = "layer" /\ resuming => \A l \in Layers : model[l].plan = json[l]
    /\ pc = "layer" /\ ~resuming => \A l \in Layers : l >= cur => ~Merged(l)
    /\ pc = "write" => \A l \in Layers : l # cur => model[l].plan = json[l]

\* What StackCoherent says of one layer of the model.
Coherent(l) ==
    Merged(l) =>
        /\ \A k \in Layers : k < l =>
              Merged(k) /\ model[l].plan.basis.plans[k] = model[k].plan.run
        /\ model[l].plan.basis.costs = {k \in Layers : k < l /\ model[k].plan.counted}

Stack ==
    ~ragged /\ Covered = Layers =>
        Recorded /\ Counted /\ InStep /\ \A l \in Layers : Coherent(l)

\* An empty model is coherent, and so is an empty record.
LEMMA EmptyStack ==
    ASSUME \A l \in Layers : ~Merged(l), history = {}
    PROVE  /\ Counted /\ \A l \in Layers : model[l].plan = NoPlan /\ Coherent(l)
           /\ (\A l \in Layers : json[l] = NoPlan) => Recorded
BY NoPlanFact DEF Recorded, Counted, Coherent, Merged

\* Without covariance there is no claim, so discovery misses no record.
LEMMA RecordComplete ==
    ASSUME TypeOK, Disk, ~ragged, Covered = Layers, NEW l \in Layers
    PROVE  Complete(l) <=> json[l] # NoPlan
BY NoPlanFact DEF Disk, Sound, Complete, TypeOK, Runs, NoRun

\* A replayed layer is coherent because its record is.
LEMMA StackReplay ==
    ASSUME IInv, Stack, Replay, ~ragged, Covered = Layers
    PROVE  Stack'
<1>0. TypeOK /\ Disk /\ Recorded /\ Counted /\ InStep /\ \A l \in Layers : Coherent(l)
  BY DEF IInv, Stack
<1>1. /\ cur \in Layers /\ cur' = cur + 1 /\ pc = "replay"
      /\ UNCHANGED <<json, pc, resuming>>
  BY <1>0, AtLayer DEF Replay, partial
<1>2. \A l \in Layers : model'[l].plan = IF l < cur + 1 THEN json[l] ELSE NoPlan
  <2>1. \A l \in Layers : l # cur => model'[l] = model[l]
    BY <1>0 DEF Replay, TypeOK
  <2>2. model'[cur].plan = json[cur]
    <3>1. CASE json[cur] # NoPlan
      BY <3>1, <1>0, <1>1, RecordComplete DEF Replay, Replayed, TypeOK
    <3>2. CASE json[cur] = NoPlan
      <4>1. ~Complete(cur)
        BY <3>2 DEF Complete
      <4> QED
        BY <3>2, <4>1, <1>0, <1>1 DEF Replay, InStep, Layers
    <3> QED
      BY <3>1, <3>2
  <2>3. \A l \in Layers : l < cur + 1 <=> l < cur \/ l = cur
    BY <1>1, SizesAssumption DEF Layers
  <2> QED
    BY <2>1, <2>2, <2>3, <1>0, <1>1 DEF InStep
<1>3. history' = {k \in Layers : model'[k].plan.counted}
  <2>1. history = {k \in Layers : k < cur /\ json[k].counted}
    BY <1>0, <1>1 DEF Counted, InStep, NoPlan
  <2>2. history' = {k \in Layers : k < cur + 1 /\ json[k].counted}
    <3>1. \A k \in Layers : k < cur + 1 <=> k < cur \/ k = cur
      BY <1>1, SizesAssumption DEF Layers
    <3>2. json[cur].counted => Complete(cur)
      BY <1>0, <1>1, RecordComplete DEF NoPlan
    <3> QED
      BY <2>1, <3>1, <3>2, <1>1 DEF Replay
  <2> QED
    BY <1>2, <2>2 DEF NoPlan
<1>4. ASSUME NEW l \in Layers, model'[l].plan # NoPlan
      PROVE  /\ \A k \in Layers : k < l => /\ model'[k].plan # NoPlan
                  /\ model'[l].plan.basis.plans[k] = model'[k].plan.run
             /\ model'[l].plan.basis.costs = {k \in Layers : k < l /\ model'[k].plan.counted}
  <2>1. l < cur + 1 /\ model'[l].plan = json[l] /\ json[l] # NoPlan
    BY <1>2, <1>4
  <2>2. \A k \in Layers : k < l => model'[k].plan = json[k]
    BY <1>1, <1>2, <2>1, SizesAssumption DEF Layers
  <2> QED
    BY <1>0, <2>1, <2>2 DEF Recorded
<1> QED
  BY <1>0, <1>1, <1>2, <1>3, <1>4 DEF Stack, Recorded, Counted, InStep, Coherent, Merged

\* A layer is decided on the layers below it, which are all merged.
LEMMA StackMerge ==
    ASSUME IInv, Stack, NEW c \in BOOLEAN, Merge(c), ~ragged, Covered = Layers
    PROVE  Stack'
<1>0. TypeOK /\ Control /\ Recorded /\ Counted /\ InStep /\ \A l \in Layers : Coherent(l)
  BY DEF IInv, Stack
<1>1. cur \in Layers /\ pc = "layer" /\ run \in Runs /\ UNCHANGED <<json, resuming>>
  BY <1>0, AtLayer DEF Merge, Control, partial
<1>2. /\ \A l \in Layers : l # cur => model'[l] = model[l]
      /\ model'[cur].plan = Decided(cur, c)
  BY <1>0, <1>1 DEF Merge, TypeOK
<1>3. \A l \in Layers : l < cur => Merged(l)
  BY <1>0, <1>1 DEF Control
<1>4. \A l \in Layers : l >= cur => ~Merged(l)
  <2>1. CASE resuming
    <3>1. json[cur] = NoPlan /\ \A l \in Layers : model[l].plan = json[l]
      BY <2>1, <1>0, <1>1 DEF InStep, Merge, Merged
    <3>2. \A l \in Layers : l >= cur => l = cur \/ cur < l
      BY <1>1, SizesAssumption DEF Layers
    <3>3. \A l \in Layers : cur < l => json[l] = NoPlan
      BY <3>1, <1>0, <1>1 DEF Recorded
    <3> QED
      BY <3>1, <3>2, <3>3 DEF Merged
  <2>2. CASE ~resuming
    BY <2>2, <1>0, <1>1 DEF InStep
  <2> QED
    BY <2>1, <2>2
<1>5. history = {k \in Layers : k < cur /\ model[k].plan.counted}
  <2>1. \A k \in Layers : model[k].plan.counted => k < cur
    BY <1>1, <1>4, SizesAssumption DEF Merged, NoPlan, Layers
  <2> QED
    BY <2>1, <1>0, <1>1 DEF Counted
<1>6. Decided(cur, c) # NoPlan /\ Decided(cur, c).counted = c
  BY <1>0, <1>1, DecidedType, NoPlanFact DEF Decided
<1>7. history' = {k \in Layers : model'[k].plan.counted}
  <2>1. history = {k \in Layers : model[k].plan.counted} /\ cur \notin history
    BY <1>0, <1>1, <1>5 DEF Counted, Layers
  <2> QED
    BY <2>1, <1>1, <1>2, <1>6 DEF Merge
<1>8. ASSUME NEW l \in Layers, model'[l].plan # NoPlan
      PROVE  /\ \A k \in Layers : k < l => /\ model'[k].plan # NoPlan
                  /\ model'[l].plan.basis.plans[k] = model'[k].plan.run
             /\ model'[l].plan.basis.costs = {k \in Layers : k < l /\ model'[k].plan.counted}
  <2>1. l <= cur
    BY <1>1, <1>2, <1>4, <1>8, SizesAssumption DEF Merged, Layers
  <2>2. \A k \in Layers : k < l => k # cur /\ model'[k] = model[k]
    BY <2>1, <1>1, <1>2, SizesAssumption DEF Layers
  <2>3. CASE l = cur
    <3>1. \A k \in Layers : k < cur => Decided(cur, c).basis.plans[k] = model[k].plan.run
      BY DEF Decided
    <3>2. Decided(cur, c).basis.costs = history
      BY DEF Decided
    <3> QED
      BY <2>2, <2>3, <3>1, <3>2, <1>2, <1>3, <1>5 DEF Merged
  <2>4. CASE l # cur
    <3>1. model'[l] = model[l]
      BY <2>4, <1>2
    <3> QED
      BY <2>2, <3>1, <1>0, <1>8 DEF Coherent, Merged
  <2> QED
    BY <2>3, <2>4
<1>9. InStep'
  <2>1. CASE resuming
    BY <2>1, <1>0, <1>1, <1>2 DEF Merge, InStep
  <2>2. CASE ~resuming
    <3>1. cur' = cur + 1 /\ pc' = "layer"
      BY <2>2, <1>1 DEF Merge
    <3>2. \A l \in Layers : l >= cur + 1 => l # cur /\ l >= cur
      BY <1>1, SizesAssumption DEF Layers
    <3> QED
      BY <2>2, <3>1, <3>2, <1>1, <1>2, <1>4 DEF InStep, Merged
  <2> QED
    BY <2>1, <2>2
<1> QED
  BY <1>0, <1>1, <1>7, <1>8, <1>9 DEF Stack, Recorded, Counted, Coherent, Merged

\* The record of a layer says what the model in memory says.
LEMMA StackWriteJson ==
    ASSUME IInv, Stack, WriteJson, ~ragged, Covered = Layers
    PROVE  Stack'
<1>0. TypeOK /\ Control /\ Writing /\ Recorded /\ Counted /\ InStep /\ \A l \in Layers : Coherent(l)
  BY DEF IInv, Stack
<1>1. /\ cur \in Layers /\ Merged(cur) /\ json[cur] = NoPlan /\ pc = "write" /\ resuming
      /\ UNCHANGED <<model, history, resuming>> /\ pc' = "layer"
  BY <1>0 DEF WriteJson, Writing, Control
<1>2. /\ \A l \in Layers : l # cur => json'[l] = json[l]
      /\ json'[cur] = model[cur].plan
  BY <1>0, <1>1 DEF WriteJson, TypeOK
<1>3. \A l \in Layers : model[l].plan = json'[l]
  BY <1>0, <1>1, <1>2 DEF InStep
<1>4. Recorded'
  BY <1>0, <1>3 DEF Recorded, Coherent, Merged
<1> QED
  BY <1>0, <1>1, <1>3, <1>4 DEF Stack, Counted, InStep, Coherent, Merged

\* The merges in the model and on the disk stay one coherent stack.
LEMMA StackStep == ASSUME IInv, Stack, [Next]_vars PROVE Stack'
<1> SUFFICES ASSUME ~ragged', Covered = Layers PROVE Stack'
  BY DEF Stack
<1> USE DEF published, process, partial
<1>0. TypeOK /\ Control /\ Disk /\ Writing
  BY DEF IInv
<1>1. CASE \E resume \in BOOLEAN : Start(resume)
  <2> PICK resume \in BOOLEAN : Start(resume)
    BY <1>1
  <2>1. /\ \A l \in Layers : model'[l].plan = NoPlan
        /\ history' = {} /\ pc' \in {"orphans", "forget"} /\ json' = json
    BY DEF Start, Original
  <2>2. Recorded'
    <3>1. CASE ragged
      BY <2>1, <3>1 DEF Start, PartialEmpty, Recorded
    <3>2. CASE ~ragged
      BY <2>1, <3>2 DEF Stack, Recorded
    <3> QED
      BY <3>1, <3>2
  <2> QED
    BY <2>1, <2>2, NoPlanFact DEF Stack, Counted, InStep, Coherent, Merged
<1>2. CASE Forgotten
  <2>1. /\ ~resuming /\ (\A l \in Layers : ~Merged(l)) /\ history = {} /\ pc' = "layer"
        /\ UNCHANGED <<json, model, history, resuming>>
    BY <1>2, <1>0 DEF Forgotten, Control
  <2>2. Counted /\ \A l \in Layers : model[l].plan = NoPlan /\ Coherent(l)
    BY <2>1, EmptyStack
  <2>3. Recorded
    BY <1>2 DEF Forgotten, PartialEmpty, Stack, Recorded
  <2> QED
    BY <2>1, <2>2, <2>3, NoPlanFact DEF Stack, Recorded, Counted, InStep, Coherent, Merged
<1>3. CASE Replay
  BY <1>3, StackReplay DEF Replay
<1>4. CASE \E c \in BOOLEAN : Merge(c)
  <2> PICK c \in BOOLEAN : Merge(c)
    BY <1>4
  <2>1. ~ragged
    BY DEF Merge
  <2> QED
    BY <2>1, StackMerge
<1>5. CASE WriteJson
  BY <1>5, StackWriteJson DEF WriteJson
<1>6. CASE /\ UNCHANGED <<json, model, history, resuming, ragged>>
           /\ \/ UNCHANGED <<pc, cur>>
              \/ pc' \notin {"replay", "layer", "write"} /\ pc # "down"
  BY <1>6 DEF Stack, Recorded, Counted, InStep, Coherent, Merged
<1>7. CASE OrphansDeleted
  <2>1. \A l \in Layers : model[l].plan = NoPlan
    BY <1>7, <1>0 DEF OrphansDeleted, Control, Merged
  <2>2. cur = 0 /\ pc' = "replay" /\ UNCHANGED <<json, model, history, resuming, ragged, cur>>
    BY <1>7, <1>0 DEF OrphansDeleted, Control
  <2>3. \A l \in Layers : ~(l < 0)
    BY SizesAssumption DEF Layers
  <2> QED
    BY <1>7, <2>1, <2>2, <2>3 DEF OrphansDeleted, Stack, Recorded, Counted, InStep, Coherent, Merged
<1>8. CASE ReplayDone
  <2>1. \A l \in Layers : l < cur
    BY <1>8, SizesAssumption DEF ReplayDone, Layers
  <2>2. resuming
    BY <1>8, <1>0 DEF ReplayDone, Control
  <2> QED
    BY <1>8, <2>1, <2>2 DEF ReplayDone, Stack, Recorded, Counted, InStep, Coherent, Merged
<1>9. CASE Skip
  <2>1. cur \in Layers /\ \A l \in Layers : l >= cur + 1 => l >= cur
    BY <1>9, <1>0, AtLayer, SizesAssumption DEF Skip, Layers
  <2> QED
    BY <1>9, <2>1 DEF Skip, Stack, Recorded, Counted, InStep, Coherent, Merged
<1>10. CASE Lost
  <2>1. /\ \A l \in Layers : model'[l].plan = NoPlan
        /\ pc' = "down" /\ UNCHANGED <<json, ragged>>
    BY <1>10 DEF Lost, Original
  <2> QED
    BY <2>1 DEF Stack, Recorded, Counted, InStep, Coherent, Merged
<1>11. CASE Exit
  BY <1>11 DEF Exit, Stack, Recorded, Counted, InStep, Coherent, Merged
<1>12. \A l \in Layers, kind \in Kinds : ~RemoveFile(l, kind)
  BY DEF RemoveFile
<1>13. CASE Recover
  BY <1>13, <1>2, <1>3, <1>6, <1>7, <1>8, <1>10, <1>12
     DEF Recover, ForgetFile, DeleteOrphan, ReplayRefused
<1>14. CASE LayerLoop
  BY <1>14, <1>4, <1>5, <1>6, <1>9 DEF LayerLoop, WritePt, WriteMeans, WriteHeal, LoopDone
<1>15. CASE Publish
  BY <1>15, <1>6, <1>12 DEF Publish, Unvouch, SaveCov, Vouch, SaveMeta, SaveShards,
     SaveMap, CleanFile, Cleaned, Step, KeepsProcess
<1>16. CASE UNCHANGED vars
  BY <1>16, <1>6 DEF vars
<1> QED
  BY <1>1, <1>10, <1>11, <1>13, <1>14, <1>15, <1>16 DEF Next, Progress, Crash, Finished

\* Every merge a run makes or replays was decided on the merges below it, with
\* the cost history of an uninterrupted run: layers are recorded in order, and
\* a crash leaves a prefix of them (orchestrator run(), resume.py).
THEOREM StackStays == Spec => []StackCoherent
<1>1. Init => Stack
  <2> SUFFICES ASSUME Init PROVE Stack
    OBVIOUS
  <2>1. (\A l \in Layers : ~Merged(l)) /\ history = {} /\ \A l \in Layers : json[l] = NoPlan
    BY DEF Init, Merged, Original
  <2>2. pc = "down"
    BY DEF Init
  <2> QED
    BY <2>1, <2>2, EmptyStack DEF Stack, InStep
<1>2. IInv /\ Stack /\ [Next]_vars => Stack'
  BY StackStep
<1>3. Stack => StackCoherent
  BY DEF Stack, Coherent, StackCoherent
<1> QED
  BY <1>1, <1>2, <1>3, Invariant, PTL DEF Spec
----------------------------------------------------------------------------
(* Second part: the data-parallel profiling                                *)
(*                                                                         *)
(* ProfilesSound says nothing of a worker in the middle of a barrier.  The *)
(* invariant says for each place of the parent what every worker that is   *)
(* alive may be doing and which merges it has replayed (Crew), and that    *)
(* the answers counted and queued come from different workers, each of     *)
(* which has done what was asked (Barrier).                                *)

\* Sidecars that keep no merge from the workers and no layer half covered: a
\* full hit has no profiled layer after it, unless it is of the first layer.
OuterHits ==
    /\ \A h \in HitSets, l, k \in MoeLayers : l \notin h /\ 0 < k /\ k <= l => k \notin h
    /\ Reservoirs \subseteq {TRUE}

MessageKinds == {"RESYNC", "PROFILE", "SHUTDOWN", "ACK", "DONE", "ERROR"}
Messages == [kind : MessageKinds, layer : 0 .. NumMoe]
Mains == {"layer", "merge", "acks", "dones", "shutdown", "join", "done", "raised"}
Places == {"load", "idle", "replay", "profile", "spilled"} \cup Dead

ProfileType ==
    /\ config \in Configs /\ pool = DpEnabled(config)
    /\ main \in Mains /\ current \in 0 .. NumMoe /\ (main \in {"merge", "acks", "dones"} => current < NumMoe)
    /\ got \in Nat /\ failed \in BOOLEAN /\ bad \in BOOLEAN /\ joined \in 0 .. Replicas
    /\ counted \in [MoeLayers -> [Seqs -> Nat]]
    /\ through \in [MoeLayers -> SUBSET SUBSET MoeLayers]
    /\ wpc \in [Workers -> Places] /\ atLayer \in [Workers -> 0 .. NumMoe]
    /\ upstream \in [Workers -> SUBSET (0 .. NumMoe)]
    /\ spill \in [Workers -> [MoeLayers -> SUBSET SUBSET MoeLayers]]
    /\ cmds \in [Workers -> Seq(Messages)] /\ answers \in Seq(Messages)

\* The layers merged, the one whose merge the workers hear of next, and where
\* a failed run can be.
LoopProgress ==
    /\ merged = config.completed \cup Below(current)
    /\ pool => config.completed = {} /\ prev = (IF current = 0 THEN NoLayer ELSE current - 1)
    /\ ~pool => /\ \A r \in Workers : wpc[r] = "exited"
                /\ main \in {"layer", "merge", "done", "raised"}
    /\ failed => main \in {"shutdown", "join", "raised"}

\* What has been merged, or is about to be, was profiled well.
WellProfiled(l) == (\A s \in Seqs : counted[l][s] = 1) /\ (FullHit(l) \/ through[l] = {Below(l)})
Profiles ==
    /\ \A l \in Below(current) \ config.completed : WellProfiled(l)
    /\ main = "merge" => current \notin config.completed /\ WellProfiled(current)

\* A layer the workers may still be asked to profile.
Due(l) == l < NumMoe /\ l \notin config.hits
Alive(r) == wpc[r] \notin Dead

\* Worker r with nothing to do, having replayed the layers below l.
Waits(r, l) == cmds[r] = <<>> /\ upstream[r] = Below(l)
\* Worker r, not yet at, at, or done with the command of this barrier.
Told(r, kind, l) == wpc[r] \in {"load", "idle"} /\ cmds[r] = <<Msg(kind, l)>>
Resyncing(r) ==
    \/ Told(r, "RESYNC", prev) /\ upstream[r] = Below(prev)
    \/ wpc[r] = "replay" /\ atLayer[r] = prev /\ Waits(r, prev)
    \/ wpc[r] = "idle" /\ Waits(r, current)
Profiling(r) ==
    \/ Told(r, "PROFILE", current) /\ upstream[r] = Below(current)
    \/ wpc[r] = "profile" /\ atLayer[r] = current /\ Waits(r, current)
    \/ wpc[r] = "spilled" /\ atLayer[r] = current /\ Waits(r, current) /\ spill[r][current] = {Below(current)}
    \/ wpc[r] = "idle" /\ Waits(r, current) /\ spill[r][current] = {Below(current)}

Between == pool /\ ~failed /\ main \in {"layer", "merge"}
Leaving == pool /\ ~failed /\ main \in {"shutdown", "join"}
Calm(r) ==
    /\ wpc[r] \in {"load", "idle"}
    /\ cmds[r] = <<>> \/ (main = "join" /\ cmds[r] = <<Msg("SHUTDOWN", NoLayer)>>)
Crew ==
    /\ Between \/ Leaving => \A r \in Workers : Alive(r) => Calm(r)
    /\ Between => got = 0
    /\ Between /\ main = "layer" /\ (current = 0 \/ Due(current)) =>
          \A r \in Workers : Alive(r) => upstream[r] = Below(current - 1)
    /\ Between /\ main = "merge" /\ Due(current + 1) =>
          \A r \in Workers : Alive(r) => upstream[r] = Below(current)
    /\ main \in {"acks", "dones"} => pool /\ ~failed /\ Due(current)
    /\ main = "acks" => current > 0 /\ \A r \in Workers : Alive(r) => Resyncing(r)
    /\ main = "dones" => \A r \in Workers : Alive(r) => Profiling(r)

\* A worker that has answered the barrier, and may have died since.
Answered(r) ==
    /\ wpc[r] \in {"idle", "killed"} /\ Waits(r, current)
    /\ main = "dones" => spill[r][current] = {Below(current)}
Expected == IF main = "acks" THEN Msg("ACK", prev) ELSE Msg("DONE", current)

\* The answers counted are of B, and who[i] sent the i-th of the queue: they
\* are different workers, each of which has answered.
Barrier ==
    ~failed => \E B \in SUBSET Workers, who \in [1 .. Len(answers) -> Workers] :
        /\ Cardinality(B) = got /\ (B = {} \/ main \in {"acks", "dones"})
        /\ \A r \in B : Answered(r)
        /\ \A i \in 1 .. Len(answers) : answers[i].kind # "ERROR" =>
              /\ main \in {"acks", "dones"} /\ answers[i] = Expected
              /\ who[i] \notin B /\ Answered(who[i])
              /\ \A j \in 1 .. Len(answers) : j # i /\ answers[j].kind # "ERROR" => who[j] # who[i]

\* What shutdown has seen of the workers.
Seen ==
    /\ main = "join" => \A r \in 0 .. joined - 1 : wpc[r] \in Dead /\ (~bad => wpc[r] = "exited")
    /\ main = "done" => \A r \in Workers : wpc[r] = "exited"
    /\ main = "raised" => \A r \in Workers : wpc[r] \in Dead
    /\ main \in {"layer", "merge", "acks", "dones", "shutdown"} => joined = 0

ProfileInv == ProfileType /\ LoopProgress /\ Profiles /\ Crew /\ Barrier /\ Seen

----------------------------------------------------------------------------
(* Basic facts                                                             *)

LEMMA TheWorkers ==
    /\ Replicas \in Nat \ {0} /\ Replicas <= NumSeqs /\ NumSeqs \in Nat /\ NumMoe \in Nat \ {0}
    /\ Workers # {} /\ IsFiniteSet(Workers) /\ Cardinality(Workers) = Replicas
    /\ \A r \in Workers : r \in Nat /\ r < Replicas
<1>1. Replicas \in Nat \ {0} /\ Replicas <= NumSeqs /\ NumSeqs \in Nat /\ NumMoe \in Nat \ {0}
  BY ProfileAssumption DEF Replicas
<1>2. IsFiniteSet(Workers) /\ Cardinality(Workers) = Replicas
  BY <1>1, FS_Interval DEF Workers
<1>3. 0 \in Workers /\ \A r \in Workers : r \in Nat /\ r < Replicas
  BY <1>1 DEF Workers
<1> QED
  BY <1>1, <1>2, <1>3

LEMMA Messaging ==
    /\ \A kind \in MessageKinds, l \in 0 .. NumMoe : Msg(kind, l) \in Messages
    /\ \A m \in Messages : m.kind \in MessageKinds /\ m.layer \in 0 .. NumMoe
    /\ \A kind, l : Msg(kind, l).kind = kind /\ Msg(kind, l).layer = l
    /\ NoLayer \in 0 .. NumMoe
  BY TheWorkers DEF Msg, Messages, NoLayer

\* A step of worker r that leaves the parent and the other workers alone.
Alone(r) ==
    /\ KeepsParent
    /\ \A q \in Workers : q # r =>
          /\ wpc'[q] = wpc[q] /\ atLayer'[q] = atLayer[q] /\ upstream'[q] = upstream[q]
          /\ spill'[q] = spill[q] /\ cmds'[q] = cmds[q]

\* What worker r may be found doing.
Fits(r) ==
    /\ Between \/ Leaving => Calm(r)
    /\ Between /\ main = "layer" /\ (current = 0 \/ Due(current)) => upstream[r] = Below(current - 1)
    /\ Between /\ main = "merge" /\ Due(current + 1) => upstream[r] = Below(current)
    /\ main = "acks" => Resyncing(r)
    /\ main = "dones" => Profiling(r)

\* What worker r may answer: an error, or what the barrier waits for, once.
Sends(r) ==
    \/ answers' = answers
    \/ \E m \in Messages :
          /\ answers' = Append(answers, m)
          /\ ~failed /\ m.kind # "ERROR" =>
                /\ main \in {"acks", "dones"} /\ m = Expected
                /\ ~Answered(r) /\ Answered(r)'

LEMMA CrewFits ==
    ASSUME Crew, NEW r \in Workers, Alive(r) PROVE Fits(r)
  BY DEF Crew, Fits

LEMMA SameParent ==
    ASSUME KeepsParent
    PROVE  /\ UNCHANGED <<config, pool, main, current, prev, merged, got, counted, through, failed, joined, bad>>
           /\ UNCHANGED <<Between, Leaving, Expected>> /\ \A l : Due(l)' = Due(l)
  BY DEF KeepsParent, parent, Between, Leaving, Expected, Due

\* The barrier, when worker r answers or does not.
LEMMA BarrierKeeps ==
    ASSUME Barrier, answers \in Seq(Messages), NEW r \in Workers, Alone(r), Sends(r),
           ~failed /\ main \in {"acks", "dones"} /\ Answered(r) => Answered(r)'
    PROVE  Barrier'
<1> SUFFICES ASSUME ~failed' PROVE Barrier'
  BY DEF Barrier
<1>1. /\ UNCHANGED <<main, current, prev, got, failed, Expected>> /\ ~failed
  BY SameParent DEF Alone
<1>2. PICK B \in SUBSET Workers, who \in [1 .. Len(answers) -> Workers] :
        /\ Cardinality(B) = got /\ (B = {} \/ main \in {"acks", "dones"})
        /\ \A q \in B : Answered(q)
        /\ \A i \in 1 .. Len(answers) : answers[i].kind # "ERROR" =>
              /\ main \in {"acks", "dones"} /\ answers[i] = Expected
              /\ who[i] \notin B /\ Answered(who[i])
              /\ \A j \in 1 .. Len(answers) : j # i /\ answers[j].kind # "ERROR" => who[j] # who[i]
  BY <1>1 DEF Barrier
<1>3. ASSUME NEW q \in Workers, Answered(q), main \in {"acks", "dones"} PROVE Answered(q)'
  <2>1. CASE q = r
    BY <1>1, <1>3, <2>1
  <2>2. CASE q # r
    BY <1>1, <1>3, <2>2 DEF Alone, Answered, Waits
  <2> QED
    BY <2>1, <2>2
<1>4. CASE answers' = answers
  <2>1. /\ who \in [1 .. Len(answers') -> Workers] /\ Cardinality(B) = got'
        /\ (B = {} \/ main' \in {"acks", "dones"}) /\ \A q \in B : Answered(q)'
    BY <1>1, <1>2, <1>3, <1>4
  <2>2. ASSUME NEW i \in 1 .. Len(answers'), answers'[i].kind # "ERROR"
        PROVE  /\ main' \in {"acks", "dones"} /\ answers'[i] = Expected'
               /\ who[i] \notin B /\ Answered(who[i])'
               /\ \A j \in 1 .. Len(answers') : j # i /\ answers'[j].kind # "ERROR" => who[j] # who[i]
    <3>1. /\ main \in {"acks", "dones"} /\ answers[i] = Expected /\ who[i] \notin B /\ Answered(who[i])
          /\ \A j \in 1 .. Len(answers') : j # i /\ answers'[j].kind # "ERROR" => who[j] # who[i]
      BY <1>2, <1>4, <2>2
    <3>2. who[i] \in Workers
      BY <1>4, <2>2
    <3> QED
      BY <1>1, <1>3, <1>4, <3>1, <3>2
  <2> QED
    BY <2>1, <2>2 DEF Barrier
<1>5. CASE \E m \in Messages :
          /\ answers' = Append(answers, m)
          /\ ~failed /\ m.kind # "ERROR" =>
                /\ main \in {"acks", "dones"} /\ m = Expected
                /\ ~Answered(r) /\ Answered(r)'
  <2>1. PICK m \in Messages :
          /\ answers' = Append(answers, m)
          /\ m.kind # "ERROR" =>
                /\ main \in {"acks", "dones"} /\ m = Expected
                /\ ~Answered(r) /\ Answered(r)'
    BY <1>1, <1>5
  <2>n. PICK n \in Nat : n = Len(answers)
    OBVIOUS
  <2>2. /\ Len(answers') = n + 1 /\ answers'[n + 1] = m
        /\ \A i \in 1 .. n : answers'[i] = answers[i]
    BY <2>1, <2>n
  <2>w. PICK them \in [1 .. n + 1 -> Workers] : them = [i \in 1 .. n + 1 |-> IF i = n + 1 THEN r ELSE who[i]]
    <3>1. [i \in 1 .. n + 1 |-> IF i = n + 1 THEN r ELSE who[i]] \in [1 .. n + 1 -> Workers]
      BY <2>n
    <3> QED
      BY <3>1
  <2>3. them[n + 1] = r /\ \A i \in 1 .. n : them[i] = who[i]
    BY <2>w
  <2>4. ASSUME NEW i \in 1 .. n + 1, answers'[i].kind # "ERROR"
        PROVE  /\ main \in {"acks", "dones"} /\ answers'[i] = Expected
               /\ them[i] \notin B /\ Answered(them[i])'
               /\ \A j \in 1 .. n + 1 : j # i /\ answers'[j].kind # "ERROR" => them[j] # them[i]
    <3>1. CASE i = n + 1
      <4>1. main \in {"acks", "dones"} /\ m = Expected /\ ~Answered(r) /\ Answered(r)'
        BY <2>1, <2>2, <2>4, <3>1
      <4>2. r \notin B
        BY <1>2, <4>1
      <4>3. ASSUME NEW j \in 1 .. n + 1, j # i, answers'[j].kind # "ERROR" PROVE them[j] # r
        <5>1. j \in 1 .. n
          BY <3>1, <4>3
        <5>2. Answered(who[j])
          BY <1>2, <2>2, <2>n, <4>3, <5>1
        <5> QED
          BY <2>3, <4>1, <5>1, <5>2
      <4> QED
        BY <2>2, <2>3, <3>1, <4>1, <4>2, <4>3
    <3>2. CASE i \in 1 .. n
      <4>1. /\ main \in {"acks", "dones"} /\ answers[i] = Expected /\ who[i] \notin B /\ Answered(who[i])
            /\ \A j \in 1 .. n : j # i /\ answers[j].kind # "ERROR" => who[j] # who[i]
        BY <1>2, <2>2, <2>4, <2>n, <3>2
      <4>2. ASSUME NEW j \in 1 .. n + 1, j # i, answers'[j].kind # "ERROR" PROVE them[j] # them[i]
        <5>1. CASE j = n + 1
          <6>1. ~Answered(r)
            BY <2>1, <2>2, <4>2, <5>1
          <6> QED
            BY <2>3, <3>2, <4>1, <5>1, <6>1
        <5>2. CASE j \in 1 .. n
          BY <2>2, <2>3, <3>2, <4>1, <4>2, <5>2
        <5> QED
          BY <2>n, <5>1, <5>2
      <4>3. who[i] \in Workers /\ Answered(who[i])'
        BY <1>3, <2>n, <3>2, <4>1
      <4> QED
        BY <2>2, <2>3, <3>2, <4>1, <4>2, <4>3
    <3> QED
      BY <2>n, <3>1, <3>2
  <2>5. \A q \in B : Answered(q)'
    BY <1>2, <1>3
  <2>6. them \in [1 .. Len(answers') -> Workers] /\ Cardinality(B) = got' /\ (B = {} \/ main' \in {"acks", "dones"})
    BY <1>1, <1>2, <2>2
  <2>7. \A i \in 1 .. Len(answers') : answers'[i].kind # "ERROR" =>
              /\ main' \in {"acks", "dones"} /\ answers'[i] = Expected'
              /\ them[i] \notin B /\ Answered(them[i])'
              /\ \A j \in 1 .. Len(answers') : j # i /\ answers'[j].kind # "ERROR" => them[j] # them[i]
    BY <1>1, <2>2, <2>4
  <2> QED
    BY <2>5, <2>6, <2>7 DEF Barrier
<1> QED
  BY <1>4, <1>5 DEF Sends

\* What a step of a worker must see to.
LEMMA WorkerKeeps ==
    ASSUME ProfileInv, NEW r \in Workers, Alive(r), Alone(r), ProfileType', Sends(r),
           Alive(r)' => Fits(r)',
           ~failed /\ main \in {"acks", "dones"} /\ Answered(r) => Answered(r)'
    PROVE  ProfileInv'
<1>1. /\ UNCHANGED <<config, pool, main, current, prev, merged, got, counted, through, failed, joined, bad>>
      /\ UNCHANGED <<Between, Leaving, Expected>> /\ \A l : Due(l)' = Due(l)
  BY SameParent DEF Alone
<1>2. pool
  BY DEF ProfileInv, LoopProgress, Alive, Dead
<1>3. LoopProgress'
  BY <1>1, <1>2 DEF ProfileInv, LoopProgress, NoLayer
<1>4. Profiles'
  BY <1>1 DEF ProfileInv, Profiles, WellProfiled, FullHit, Hydrated
<1>5. Crew'
  <2>1. \A q \in Workers : q # r =>
            /\ Alive(q)' = Alive(q) /\ Calm(q)' = Calm(q) /\ upstream'[q] = upstream[q]
            /\ Resyncing(q)' = Resyncing(q) /\ Profiling(q)' = Profiling(q)
    BY <1>1 DEF Alone, Alive, Calm, Resyncing, Profiling, Told, Waits
  <2>2. \A q \in Workers : Alive(q)' => Fits(q)'
    BY <1>1, <2>1, CrewFits DEF ProfileInv, Fits
  <2> QED
    BY <1>1, <2>2 DEF ProfileInv, Crew, Fits
<1>6. Barrier'
  BY BarrierKeeps DEF ProfileInv, ProfileType
<1>7. Seen'
  <2>1. \A q \in Workers : wpc[q] \in Dead => wpc'[q] = wpc[q]
    BY DEF Alone, Alive
  <2>2. main = "join" => \A q \in 0 .. joined - 1 : q \in Workers
    BY TheWorkers DEF ProfileInv, ProfileType, Workers
  <2>3. "exited" \in Dead
    BY DEF Dead
  <2> QED
    BY <1>1, <2>1, <2>2, <2>3 DEF ProfileInv, Seen
<1> QED
  BY <1>3, <1>4, <1>5, <1>6, <1>7 DEF ProfileInv

----------------------------------------------------------------------------
(* The workers                                                             *)

\* The part of the type invariant that workers change.
LEMMA WorkerTypes ==
    ASSUME ProfileType, KeepsParent,
           wpc' \in [Workers -> Places], atLayer' \in [Workers -> 0 .. NumMoe],
           upstream' \in [Workers -> SUBSET (0 .. NumMoe)],
           spill' \in [Workers -> [MoeLayers -> SUBSET SUBSET MoeLayers]],
           cmds' \in [Workers -> Seq(Messages)], answers' \in Seq(Messages)
    PROVE  ProfileType'
  BY DEF ProfileType, KeepsParent, parent

LEMMA LoadedKeeps ==
    ASSUME ProfileInv, NEW r \in Workers, Loaded(r) PROVE ProfileInv'
<1>1. /\ wpc[r] = "load" /\ wpc' = [wpc EXCEPT ![r] = "idle"] /\ KeepsParent
      /\ UNCHANGED <<atLayer, upstream, spill, cmds, answers>> /\ wpc \in [Workers -> Places]
  BY DEF Loaded, GoTo, queues, ProfileInv, ProfileType
<1>2. wpc'[r] = "idle" /\ wpc' \in [Workers -> Places]
  BY <1>1 DEF Places
<1>3. ProfileType'
  BY <1>1, <1>2, WorkerTypes DEF ProfileInv, ProfileType
<1>4. Alive(r) /\ Alone(r) /\ Sends(r)
  BY <1>1 DEF Alive, Dead, Alone, Sends
<1>5. Fits(r)
  BY <1>4, CrewFits DEF ProfileInv
<1>6. Fits(r)'
  <2>1. UNCHANGED <<main, current, prev, Between, Leaving>> /\ \A l : Due(l)' = Due(l)
    BY <1>1, SameParent
  <2> QED
    BY <1>1, <1>2, <1>5, <2>1 DEF Fits, Calm, Resyncing, Profiling, Told, Waits
<1>7. ~Answered(r)
  BY <1>1 DEF Answered
<1> QED
  BY <1>3, <1>4, <1>6, <1>7, WorkerKeeps

\* A worker that fetches finds what the barrier sent.
LEMMA Fetches ==
    ASSUME ProfileInv, NEW r \in Workers, NEW kind \in MessageKinds, Fetch(r, kind)
    PROVE  /\ Alive(r) /\ ~Answered(r) /\ Fits(r) /\ wpc[r] = "idle" /\ wpc \in [Workers -> Places]
           /\ cmds' \in [Workers -> Seq(Messages)] /\ cmds'[r] = Tail(cmds[r])
           /\ \A q \in Workers : q # r => cmds'[q] = cmds[q]
           /\ atLayer' \in [Workers -> 0 .. NumMoe]
           /\ \A q \in Workers : q # r => atLayer'[q] = atLayer[q]
           /\ kind # "SHUTDOWN" => atLayer'[r] = Head(cmds[r]).layer
           /\ cmds[r] # <<>> /\ Head(cmds[r]).kind = kind
<1>1. /\ wpc[r] = "idle" /\ cmds[r] # <<>> /\ Head(cmds[r]).kind = kind
      /\ cmds' = [cmds EXCEPT ![r] = Tail(cmds[r])]
      /\ atLayer' = [atLayer EXCEPT ![r] = IF kind = "SHUTDOWN" THEN atLayer[r] ELSE Head(cmds[r]).layer]
      /\ cmds \in [Workers -> Seq(Messages)] /\ atLayer \in [Workers -> 0 .. NumMoe]
      /\ wpc \in [Workers -> Places]
  BY DEF Fetch, ProfileInv, ProfileType
<1>2. Alive(r) /\ ~Answered(r)
  BY <1>1 DEF Alive, Dead, Answered, Waits
<1>3. Tail(cmds[r]) \in Seq(Messages) /\ Head(cmds[r]) \in Messages
  BY <1>1
<1>4. Head(cmds[r]).layer \in 0 .. NumMoe /\ atLayer[r] \in 0 .. NumMoe
  BY <1>1, <1>3, Messaging
<1>5. /\ cmds' \in [Workers -> Seq(Messages)] /\ cmds'[r] = Tail(cmds[r])
      /\ \A q \in Workers : q # r => cmds'[q] = cmds[q]
  BY <1>1, <1>3
<1>6. /\ atLayer' \in [Workers -> 0 .. NumMoe] /\ \A q \in Workers : q # r => atLayer'[q] = atLayer[q]
      /\ kind # "SHUTDOWN" => atLayer'[r] = Head(cmds[r]).layer
  BY <1>1, <1>4
<1>7. Fits(r)
  BY <1>2, CrewFits DEF ProfileInv
<1> QED
  BY <1>1, <1>2, <1>5, <1>6, <1>7

LEMMA FetchResyncKeeps ==
    ASSUME ProfileInv, NEW r \in Workers, FetchResync(r) PROVE ProfileInv'
<1>1. /\ Fetch(r, "RESYNC") /\ wpc' = [wpc EXCEPT ![r] = "replay"] /\ KeepsParent
      /\ UNCHANGED <<upstream, spill, answers>> /\ "RESYNC" \in MessageKinds
  BY DEF FetchResync, GoTo, MessageKinds
<1>2. /\ Alive(r) /\ ~Answered(r) /\ Fits(r) /\ wpc[r] = "idle" /\ wpc \in [Workers -> Places]
      /\ cmds' \in [Workers -> Seq(Messages)] /\ cmds'[r] = Tail(cmds[r])
      /\ \A q \in Workers : q # r => cmds'[q] = cmds[q]
      /\ atLayer' \in [Workers -> 0 .. NumMoe] /\ \A q \in Workers : q # r => atLayer'[q] = atLayer[q]
      /\ atLayer'[r] = Head(cmds[r]).layer /\ cmds[r] # <<>> /\ Head(cmds[r]).kind = "RESYNC"
  BY <1>1, Fetches
<1>3. wpc'[r] = "replay" /\ wpc' \in [Workers -> Places]
  BY <1>1, <1>2 DEF Places
<1>4. ProfileType'
  BY <1>1, <1>2, <1>3, WorkerTypes DEF ProfileInv, ProfileType
<1>5. Alone(r) /\ Sends(r)
  BY <1>1, <1>2 DEF Alone, Sends
<1>6. Fits(r)'
  <2>1. UNCHANGED <<main, current, prev, Between, Leaving>> /\ \A l : Due(l)' = Due(l)
    BY <1>1, SameParent
  <2>2. ~(Between \/ Leaving) /\ main # "dones"
    BY <1>2, Messaging DEF Fits, Calm, Profiling, Told, Waits, MessageKinds
  <2>3. ASSUME main = "acks" PROVE Resyncing(r)'
    <3>1. cmds[r] = <<Msg("RESYNC", prev)>> /\ upstream[r] = Below(prev)
      BY <1>2, <2>3 DEF Fits, Resyncing, Told, Waits
    <3>2. Head(cmds[r]).layer = prev /\ Tail(cmds[r]) = <<>>
      BY <3>1, Messaging
    <3> QED
      BY <1>1, <1>2, <1>3, <2>1, <3>1, <3>2 DEF Resyncing, Waits
  <2> QED
    BY <2>1, <2>2, <2>3 DEF Fits, Between
<1> QED
  BY <1>2, <1>4, <1>5, <1>6, WorkerKeeps

LEMMA FetchProfileKeeps ==
    ASSUME ProfileInv, NEW r \in Workers, FetchProfile(r) PROVE ProfileInv'
<1>1. /\ Fetch(r, "PROFILE") /\ wpc' = [wpc EXCEPT ![r] = "profile"] /\ KeepsParent
      /\ UNCHANGED <<upstream, spill, answers>> /\ "PROFILE" \in MessageKinds
  BY DEF FetchProfile, GoTo, MessageKinds
<1>2. /\ Alive(r) /\ ~Answered(r) /\ Fits(r) /\ wpc[r] = "idle" /\ wpc \in [Workers -> Places]
      /\ cmds' \in [Workers -> Seq(Messages)] /\ cmds'[r] = Tail(cmds[r])
      /\ \A q \in Workers : q # r => cmds'[q] = cmds[q]
      /\ atLayer' \in [Workers -> 0 .. NumMoe] /\ \A q \in Workers : q # r => atLayer'[q] = atLayer[q]
      /\ atLayer'[r] = Head(cmds[r]).layer /\ cmds[r] # <<>> /\ Head(cmds[r]).kind = "PROFILE"
  BY <1>1, Fetches
<1>3. wpc'[r] = "profile" /\ wpc' \in [Workers -> Places]
  BY <1>1, <1>2 DEF Places
<1>4. ProfileType'
  BY <1>1, <1>2, <1>3, WorkerTypes DEF ProfileInv, ProfileType
<1>5. Alone(r) /\ Sends(r)
  BY <1>1, <1>2 DEF Alone, Sends
<1>6. Fits(r)'
  <2>1. UNCHANGED <<main, current, prev, Between, Leaving>> /\ \A l : Due(l)' = Due(l)
    BY <1>1, SameParent
  <2>2. ~(Between \/ Leaving) /\ main # "acks"
    BY <1>2, Messaging DEF Fits, Calm, Resyncing, Told, Waits, MessageKinds
  <2>3. ASSUME main = "dones" PROVE Profiling(r)'
    <3>1. cmds[r] = <<Msg("PROFILE", current)>> /\ upstream[r] = Below(current)
      BY <1>2, <2>3 DEF Fits, Profiling, Told, Waits
    <3>2. Head(cmds[r]).layer = current /\ Tail(cmds[r]) = <<>>
      BY <3>1, Messaging
    <3> QED
      BY <1>1, <1>2, <1>3, <2>1, <3>1, <3>2 DEF Profiling, Waits
  <2> QED
    BY <2>1, <2>2, <2>3 DEF Fits, Between
<1> QED
  BY <1>2, <1>4, <1>5, <1>6, WorkerKeeps

LEMMA FetchShutdownKeeps ==
    ASSUME ProfileInv, NEW r \in Workers, FetchShutdown(r) PROVE ProfileInv'
<1>1. /\ Fetch(r, "SHUTDOWN") /\ wpc' = [wpc EXCEPT ![r] = "exited"] /\ KeepsParent
      /\ UNCHANGED <<upstream, spill, answers>> /\ "SHUTDOWN" \in MessageKinds
  BY DEF FetchShutdown, GoTo, MessageKinds
<1>2. /\ Alive(r) /\ ~Answered(r) /\ wpc \in [Workers -> Places]
      /\ cmds' \in [Workers -> Seq(Messages)] /\ \A q \in Workers : q # r => cmds'[q] = cmds[q]
      /\ atLayer' \in [Workers -> 0 .. NumMoe] /\ \A q \in Workers : q # r => atLayer'[q] = atLayer[q]
  BY <1>1, Fetches
<1>3. wpc'[r] = "exited" /\ wpc' \in [Workers -> Places]
  BY <1>1, <1>2 DEF Places, Dead
<1>4. ProfileType'
  BY <1>1, <1>2, <1>3, WorkerTypes DEF ProfileInv, ProfileType
<1>5. Alone(r) /\ Sends(r) /\ ~Alive(r)'
  BY <1>1, <1>2, <1>3 DEF Alone, Sends, Alive, Dead
<1> QED
  BY <1>2, <1>4, <1>5, WorkerKeeps

LEMMA ReplayKeeps ==
    ASSUME ProfileInv, NEW r \in Workers, ReplayMerge(r) PROVE ProfileInv'
<1>1. /\ wpc[r] = "replay" /\ wpc' = [wpc EXCEPT ![r] = "idle"] /\ KeepsParent
      /\ upstream' = [upstream EXCEPT ![r] = upstream[r] \cup {atLayer[r]}]
      /\ answers' = Append(answers, Msg("ACK", atLayer[r])) /\ UNCHANGED <<atLayer, spill, cmds>>
  BY DEF ReplayMerge, GoTo, Answers
<1>t. /\ wpc \in [Workers -> Places] /\ upstream \in [Workers -> SUBSET (0 .. NumMoe)]
      /\ atLayer[r] \in 0 .. NumMoe /\ answers \in Seq(Messages)
  BY DEF ProfileInv, ProfileType
<1>2. /\ wpc'[r] = "idle" /\ wpc' \in [Workers -> Places]
      /\ upstream' \in [Workers -> SUBSET (0 .. NumMoe)] /\ upstream'[r] = upstream[r] \cup {atLayer[r]}
      /\ \A q \in Workers : q # r => wpc'[q] = wpc[q] /\ upstream'[q] = upstream[q]
  BY <1>1, <1>t DEF Places
<1>m. Msg("ACK", atLayer[r]) \in Messages /\ answers' \in Seq(Messages)
  BY <1>1, <1>t, Messaging DEF MessageKinds
<1>3. ProfileType'
  BY <1>1, <1>2, <1>m, WorkerTypes DEF ProfileInv, ProfileType
<1>4. Alive(r) /\ Alone(r)
  BY <1>1, <1>2 DEF Alive, Dead, Alone
<1>5. Fits(r)
  BY <1>4, CrewFits DEF ProfileInv
<1>p. UNCHANGED <<main, current, prev, Between, Leaving, failed>> /\ \A l : Due(l)' = Due(l)
  BY <1>1, SameParent
<1>6. ~(Between \/ Leaving) /\ main # "dones"
  BY <1>1, <1>5 DEF Fits, Calm, Profiling, Told
<1>7. ASSUME main = "acks" PROVE Resyncing(r)' /\ Msg("ACK", atLayer[r]) = Expected /\ Answered(r)'
  <2>1. atLayer[r] = prev /\ cmds[r] = <<>> /\ upstream[r] = Below(prev)
    BY <1>1, <1>5, <1>7 DEF Fits, Resyncing, Told, Waits
  <2>2. prev = current - 1 /\ current \in Nat /\ current > 0
    BY <1>7 DEF ProfileInv, LoopProgress, ProfileType, Crew
  <2>3. upstream'[r] = Below(current)
    <3>1. PICK c \in Nat : c = current /\ c > 0
      BY <2>2
    <3>2. upstream'[r] = (0 .. c - 1 - 1) \cup {c - 1}
      BY <1>2, <2>1, <2>2, <3>1 DEF Below
    <3>3. (0 .. c - 1 - 1) \cup {c - 1} = 0 .. c - 1
      BY <3>1
    <3> QED
      BY <3>1, <3>2, <3>3 DEF Below
  <2> QED
    BY <1>1, <1>2, <1>7, <1>p, <2>1, <2>3 DEF Resyncing, Waits, Expected, Answered
<1>8. Fits(r)'
  BY <1>6, <1>7, <1>p DEF Fits, Between
<1>9. ~Answered(r)
  BY <1>1 DEF Answered
<1>10. ~failed => main = "acks"
  <2>1. pool /\ main \notin {"done", "raised"}
    <3>1. pool
      BY <1>4 DEF ProfileInv, LoopProgress, Alive, Dead
    <3>2. "exited" \in Dead
      BY DEF Dead
    <3> QED
      BY <1>4, <3>1, <3>2 DEF ProfileInv, Seen, Alive
  <2> QED
    BY <1>6, <2>1 DEF ProfileInv, ProfileType, Mains, Between, Leaving
<1>11. Sends(r)
  BY <1>1, <1>m, <1>7, <1>9, <1>10 DEF Sends
<1> QED
  BY <1>3, <1>4, <1>8, <1>9, <1>11, WorkerKeeps

LEMMA ProfileKeeps ==
    ASSUME ProfileInv, NEW r \in Workers, Profile(r) PROVE ProfileInv'
<1>1. /\ wpc[r] = "profile" /\ wpc' = [wpc EXCEPT ![r] = "spilled"] /\ KeepsParent
      /\ spill' = [spill EXCEPT ![r][atLayer[r]] = {upstream[r] \cap Below(atLayer[r])}]
      /\ UNCHANGED <<atLayer, upstream, cmds, answers>>
  BY DEF Profile, GoTo, queues
<1>t. /\ wpc \in [Workers -> Places] /\ spill \in [Workers -> [MoeLayers -> SUBSET SUBSET MoeLayers]]
      /\ atLayer[r] \in 0 .. NumMoe
  BY DEF ProfileInv, ProfileType
<1>b. upstream[r] \cap Below(atLayer[r]) \in SUBSET MoeLayers
  BY <1>t, TheWorkers DEF Below, MoeLayers
<1>2. /\ wpc'[r] = "spilled" /\ wpc' \in [Workers -> Places]
      /\ spill' \in [Workers -> [MoeLayers -> SUBSET SUBSET MoeLayers]]
      /\ atLayer[r] \in MoeLayers => spill'[r][atLayer[r]] = {upstream[r] \cap Below(atLayer[r])}
      /\ \A q \in Workers : q # r => wpc'[q] = wpc[q] /\ spill'[q] = spill[q]
  <2>1. wpc'[r] = "spilled" /\ wpc' \in [Workers -> Places] /\ \A q \in Workers : q # r => wpc'[q] = wpc[q]
    BY <1>1, <1>t DEF Places
  <2>2. PICK v, a : v = {upstream[r] \cap Below(atLayer[r])} /\ a = atLayer[r]
    OBVIOUS
  <2>3. v \in SUBSET SUBSET MoeLayers /\ spill' = [spill EXCEPT ![r][a] = v]
    BY <1>1, <1>b, <2>2
  <2>4. /\ spill' \in [Workers -> [MoeLayers -> SUBSET SUBSET MoeLayers]]
        /\ a \in MoeLayers => spill'[r][a] = v
        /\ \A q \in Workers : q # r => spill'[q] = spill[q]
    BY <1>t, <2>3
  <2> QED
    BY <2>1, <2>2, <2>4
<1>3. ProfileType'
  BY <1>1, <1>2, WorkerTypes DEF ProfileInv, ProfileType
<1>4. Alive(r) /\ Alone(r) /\ Sends(r)
  BY <1>1, <1>2 DEF Alive, Dead, Alone, Sends
<1>5. Fits(r)
  BY <1>4, CrewFits DEF ProfileInv
<1>p. UNCHANGED <<main, current, prev, Between, Leaving, failed>> /\ \A l : Due(l)' = Due(l)
  BY <1>1, SameParent
<1>6. ~(Between \/ Leaving) /\ main # "acks"
  BY <1>1, <1>5 DEF Fits, Calm, Resyncing, Told
<1>7. ASSUME main = "dones" PROVE Profiling(r)'
  <2>1. atLayer[r] = current /\ cmds[r] = <<>> /\ upstream[r] = Below(current)
    BY <1>1, <1>5, <1>7 DEF Fits, Profiling, Told, Waits
  <2>2. current \in MoeLayers
    BY <1>7, TheWorkers DEF ProfileInv, ProfileType, MoeLayers
  <2>3. spill'[r][current] = {upstream[r] \cap Below(current)}
    <3>1. PICK c : c = atLayer[r]
      OBVIOUS
    <3>2. c = current /\ spill'[r][c] = {upstream[r] \cap Below(c)}
      BY <1>2, <2>1, <2>2, <3>1
    <3> QED
      BY <3>2
  <2>4. upstream[r] \cap Below(current) = Below(current)
    BY <2>1
  <2> QED
    BY <1>1, <1>2, <1>p, <2>1, <2>3, <2>4 DEF Profiling, Waits
<1>8. Fits(r)'
  BY <1>6, <1>7, <1>p DEF Fits, Between
<1>9. ~Answered(r)
  BY <1>1 DEF Answered
<1> QED
  BY <1>3, <1>4, <1>8, <1>9, WorkerKeeps

LEMMA DoneKeeps ==
    ASSUME ProfileInv, NEW r \in Workers, Done(r) PROVE ProfileInv'
<1>1. /\ wpc[r] = "spilled" /\ wpc' = [wpc EXCEPT ![r] = "idle"] /\ KeepsParent
      /\ answers' = Append(answers, Msg("DONE", atLayer[r])) /\ UNCHANGED <<atLayer, upstream, spill, cmds>>
  BY DEF Done, GoTo, Answers
<1>t. /\ wpc \in [Workers -> Places] /\ atLayer[r] \in 0 .. NumMoe /\ answers \in Seq(Messages)
  BY DEF ProfileInv, ProfileType
<1>2. /\ wpc'[r] = "idle" /\ wpc' \in [Workers -> Places]
      /\ \A q \in Workers : q # r => wpc'[q] = wpc[q]
  BY <1>1, <1>t DEF Places
<1>m. Msg("DONE", atLayer[r]) \in Messages /\ answers' \in Seq(Messages)
  BY <1>1, <1>t, Messaging DEF MessageKinds
<1>3. ProfileType'
  BY <1>1, <1>2, <1>m, WorkerTypes DEF ProfileInv, ProfileType
<1>4. Alive(r) /\ Alone(r)
  BY <1>1, <1>2 DEF Alive, Dead, Alone
<1>5. Fits(r)
  BY <1>4, CrewFits DEF ProfileInv
<1>p. UNCHANGED <<main, current, prev, Between, Leaving, failed>> /\ \A l : Due(l)' = Due(l)
  BY <1>1, SameParent
<1>6. ~(Between \/ Leaving) /\ main # "acks"
  BY <1>1, <1>5 DEF Fits, Calm, Resyncing, Told
<1>7. ASSUME main = "dones" PROVE Profiling(r)' /\ Msg("DONE", atLayer[r]) = Expected /\ Answered(r)'
  <2>1. atLayer[r] = current /\ Waits(r, current) /\ spill[r][current] = {Below(current)}
    BY <1>1, <1>5, <1>7 DEF Fits, Profiling, Told
  <2> QED
    BY <1>1, <1>2, <1>7, <1>p, <2>1 DEF Profiling, Waits, Expected, Answered
<1>8. Fits(r)'
  BY <1>6, <1>7, <1>p DEF Fits, Between
<1>9. ~Answered(r)
  BY <1>1 DEF Answered
<1>10. ~failed => main = "dones"
  <2>1. pool /\ main \notin {"done", "raised"}
    <3>1. pool
      BY <1>4 DEF ProfileInv, LoopProgress, Alive, Dead
    <3>2. "exited" \in Dead
      BY DEF Dead
    <3> QED
      BY <1>4, <3>1, <3>2 DEF ProfileInv, Seen, Alive
  <2> QED
    BY <1>6, <2>1 DEF ProfileInv, ProfileType, Mains, Between, Leaving
<1>11. Sends(r)
  BY <1>1, <1>m, <1>7, <1>9, <1>10 DEF Sends
<1> QED
  BY <1>3, <1>4, <1>8, <1>9, <1>11, WorkerKeeps

LEMMA RaiseKeeps ==
    ASSUME ProfileInv, NEW r \in Workers, Raise(r) PROVE ProfileInv'
<1>1. /\ wpc[r] \in {"load", "replay", "profile", "spilled"} /\ wpc' = [wpc EXCEPT ![r] = "errored"]
      /\ KeepsParent /\ answers' = Append(answers, Msg("ERROR", atLayer[r]))
      /\ UNCHANGED <<atLayer, upstream, spill, cmds>>
  BY DEF Raise, GoTo, Answers
<1>t. /\ wpc \in [Workers -> Places] /\ atLayer[r] \in 0 .. NumMoe /\ answers \in Seq(Messages)
  BY DEF ProfileInv, ProfileType
<1>2. /\ wpc'[r] = "errored" /\ wpc' \in [Workers -> Places]
      /\ \A q \in Workers : q # r => wpc'[q] = wpc[q]
  BY <1>1, <1>t DEF Places, Dead
<1>m. Msg("ERROR", atLayer[r]) \in Messages /\ Msg("ERROR", atLayer[r]).kind = "ERROR" /\ answers' \in Seq(Messages)
  BY <1>1, <1>t, Messaging DEF MessageKinds
<1>3. ProfileType'
  BY <1>1, <1>2, <1>m, WorkerTypes DEF ProfileInv, ProfileType
<1>4. Alive(r) /\ Alone(r) /\ ~Alive(r)' /\ ~Answered(r)
  BY <1>1, <1>2 DEF Alive, Dead, Alone, Answered
<1>5. Sends(r)
  BY <1>1, <1>m DEF Sends
<1> QED
  BY <1>3, <1>4, <1>5, WorkerKeeps

LEMMA KillKeeps ==
    ASSUME ProfileInv, NEW r \in Workers, KillWorker(r) PROVE ProfileInv'
<1>1. /\ wpc[r] \notin Dead /\ wpc' = [wpc EXCEPT ![r] = "killed"] /\ KeepsParent
      /\ UNCHANGED <<atLayer, upstream, spill, cmds, answers>> /\ wpc \in [Workers -> Places]
  BY DEF KillWorker, GoTo, queues, ProfileInv, ProfileType
<1>2. wpc'[r] = "killed" /\ wpc' \in [Workers -> Places]
  BY <1>1 DEF Places, Dead
<1>3. ProfileType'
  BY <1>1, <1>2, WorkerTypes DEF ProfileInv, ProfileType
<1>4. Alive(r) /\ Alone(r) /\ Sends(r) /\ ~Alive(r)'
  BY <1>1, <1>2 DEF Alive, Dead, Alone, Sends
<1>5. Answered(r) => Answered(r)'
  <2>1. UNCHANGED <<main, current>>
    BY <1>1, SameParent
  <2> QED
    BY <1>1, <1>2, <2>1 DEF Answered, Waits
<1> QED
  BY <1>3, <1>4, <1>5, WorkerKeeps

----------------------------------------------------------------------------
(* The parent                                                              *)

LEMMA BelowNext ==
    ASSUME NEW n \in Nat PROVE Below(n + 1) = Below(n) \cup {n} /\ n \notin Below(n)
  BY DEF Below

\* Outside of a barrier nothing has been counted, and only errors are queued.
LEMMA QuietNow ==
    ASSUME ProfileInv, ~failed, main \notin {"acks", "dones"}
    PROVE  got = 0 /\ \A i \in 1 .. Len(answers) : answers[i].kind = "ERROR"
<1>1. PICK B \in SUBSET Workers, who \in [1 .. Len(answers) -> Workers] :
        /\ Cardinality(B) = got /\ (B = {} \/ main \in {"acks", "dones"})
        /\ \A i \in 1 .. Len(answers) : answers[i].kind # "ERROR" => main \in {"acks", "dones"}
  BY DEF ProfileInv, Barrier
<1> QED
  BY <1>1, FS_EmptySet

LEMMA QuietThen ==
    ASSUME answers' \in Seq(Messages),
           ~failed' => got' = 0 /\ \A i \in 1 .. Len(answers') : answers'[i].kind = "ERROR"
    PROVE  Barrier'
<1> SUFFICES ASSUME ~failed' PROVE Barrier'
  BY DEF Barrier
<1>1. PICK n \in Nat : n = Len(answers')
  OBVIOUS
<1>2. 0 \in Workers
  BY TheWorkers DEF Workers
<1>3. [i \in 1 .. n |-> 0] \in [1 .. n -> Workers]
  BY <1>2
<1>4. PICK who \in [1 .. n -> Workers] : TRUE
  BY <1>3
<1>5. {} \in SUBSET Workers /\ Cardinality({}) = got'
  BY FS_EmptySet
<1> QED
  BY <1>1, <1>4, <1>5 DEF Barrier

\* When all have answered, everybody is where the barrier wants him, and no
\* answer is left over.
LEMMA AllAnswered ==
    ASSUME ProfileInv, main \in {"acks", "dones"}, got = Replicas
    PROVE  /\ ~failed /\ \A r \in Workers : Answered(r)
           /\ \A i \in 1 .. Len(answers) : answers[i].kind = "ERROR"
<1>1. ~failed
  BY DEF ProfileInv, Crew
<1>2. PICK B \in SUBSET Workers, who \in [1 .. Len(answers) -> Workers] :
        /\ Cardinality(B) = got /\ \A r \in B : Answered(r)
        /\ \A i \in 1 .. Len(answers) : answers[i].kind # "ERROR" => who[i] \notin B
  BY <1>1 DEF ProfileInv, Barrier
<1>3. B = Workers
  BY <1>2, TheWorkers, FS_Subset
<1>4. ASSUME NEW i \in 1 .. Len(answers) PROVE who[i] \in Workers
  BY <1>2
<1> QED
  BY <1>1, <1>2, <1>3, <1>4

\* Counting an answer: its sender has not been counted before.
LEMMA TakeKeeps ==
    ASSUME ProfileInv, NEW kind \in MessageKinds, main \in {"acks", "dones"}, Expected.kind = kind, Take(kind),
           UNCHANGED <<config, pool, main, current, prev, merged, counted, through, failed, joined, bad, workers, cmds>>
    PROVE  ProfileInv'
<1>f. ~failed /\ got \in Nat /\ answers \in Seq(Messages) /\ UNCHANGED <<wpc, atLayer, upstream, spill>>
  BY DEF ProfileInv, Crew, ProfileType, workers
<1>1. PICK B \in SUBSET Workers, who \in [1 .. Len(answers) -> Workers] :
        /\ Cardinality(B) = got /\ (B = {} \/ main \in {"acks", "dones"})
        /\ \A q \in B : Answered(q)
        /\ \A i \in 1 .. Len(answers) : answers[i].kind # "ERROR" =>
              /\ main \in {"acks", "dones"} /\ answers[i] = Expected
              /\ who[i] \notin B /\ Answered(who[i])
              /\ \A j \in 1 .. Len(answers) : j # i /\ answers[j].kind # "ERROR" => who[j] # who[i]
  BY <1>f DEF ProfileInv, Barrier
<1>n. PICK n \in Nat : Len(answers) = n + 1
  <2>1. Len(answers) \in Nat /\ Len(answers) # 0
    BY <1>f DEF Take
  <2>2. Len(answers) - 1 \in Nat /\ Len(answers) = (Len(answers) - 1) + 1
    BY <2>1
  <2> QED
    BY <2>2
<1>2. /\ answers' \in Seq(Messages) /\ Len(answers') = n
      /\ \A i \in 1 .. n : answers'[i] = answers[i + 1]
      /\ answers[1].kind # "ERROR" /\ answers[1] = Head(answers)
  BY <1>f, <1>n DEF Take
<1>3. answers[1] = Expected /\ who[1] \notin B /\ who[1] \in Workers /\ Answered(who[1])
      /\ \A j \in 2 .. n + 1 : answers[j].kind # "ERROR" => who[j] # who[1]
  BY <1>1, <1>2, <1>n
<1>4. got' = got + 1
  BY <1>2, <1>3 DEF Take
<1>5. Cardinality(B \cup {who[1]}) = got' /\ B \cup {who[1]} \in SUBSET Workers
  <2>1. IsFiniteSet(B)
    BY <1>1, TheWorkers, FS_Subset
  <2> QED
    BY <1>1, <1>3, <1>4, <2>1, FS_AddElement
<1>6. PICK C, them : C = B \cup {who[1]} /\ them = [i \in 1 .. n |-> who[i + 1]]
  OBVIOUS
<1>7. them \in [1 .. n -> Workers] /\ \A i \in 1 .. n : them[i] = who[i + 1] /\ i + 1 \in 2 .. n + 1
  BY <1>1, <1>n, <1>6
<1>8. \A q : Answered(q)' = Answered(q)
  BY <1>f DEF Answered, Waits
<1>9. Expected' = Expected
  BY DEF Expected
<1>10. ASSUME NEW i \in 1 .. n, answers'[i].kind # "ERROR"
       PROVE  /\ answers'[i] = Expected /\ them[i] \notin C /\ Answered(them[i])
              /\ \A j \in 1 .. n : j # i /\ answers'[j].kind # "ERROR" => them[j] # them[i]
  <2>1. i + 1 \in 1 .. Len(answers) /\ answers[i + 1].kind # "ERROR"
    BY <1>2, <1>n, <1>10
  <2>2. /\ answers[i + 1] = Expected /\ who[i + 1] \notin B /\ Answered(who[i + 1])
        /\ \A j \in 1 .. Len(answers) : j # i + 1 /\ answers[j].kind # "ERROR" => who[j] # who[i + 1]
    BY <1>1, <2>1
  <2>3. who[i + 1] # who[1]
    BY <1>3, <1>7, <2>1
  <2>4. ASSUME NEW j \in 1 .. n, j # i, answers'[j].kind # "ERROR" PROVE them[j] # them[i]
    <3>1. j + 1 \in 1 .. Len(answers) /\ j + 1 # i + 1 /\ answers[j + 1].kind # "ERROR"
      BY <1>2, <1>n, <2>4
    <3> QED
      BY <1>7, <2>2, <3>1
  <2> QED
    BY <1>2, <1>6, <1>7, <2>2, <2>3, <2>4
<1>11. \A q \in C : Answered(q)
  BY <1>1, <1>3, <1>6
<1>12. Barrier'
  <2>1. C \in SUBSET Workers /\ Cardinality(C) = got' /\ main' \in {"acks", "dones"}
    BY <1>5, <1>6
  <2>2. them \in [1 .. Len(answers') -> Workers] /\ \A q \in C : Answered(q)'
    BY <1>2, <1>7, <1>8, <1>11
  <2>3. \A i \in 1 .. Len(answers') : answers'[i].kind # "ERROR" =>
              /\ main' \in {"acks", "dones"} /\ answers'[i] = Expected'
              /\ them[i] \notin C /\ Answered(them[i])'
              /\ \A j \in 1 .. Len(answers') : j # i /\ answers'[j].kind # "ERROR" => them[j] # them[i]
    BY <1>2, <1>8, <1>9, <1>10, <2>1
  <2> QED
    BY <2>1, <2>2, <2>3 DEF Barrier
<1>13. ProfileType'
  BY <1>2, <1>4, <1>f DEF ProfileInv, ProfileType
<1>14. LoopProgress' /\ Profiles' /\ Seen'
  BY <1>f DEF ProfileInv, LoopProgress, NoLayer, Profiles, WellProfiled, FullHit, Hydrated, Seen
<1>15. Crew'
  <2>1. \A q : Alive(q)' = Alive(q) /\ Resyncing(q)' = Resyncing(q) /\ Profiling(q)' = Profiling(q)
    BY <1>f DEF Alive, Resyncing, Profiling, Told, Waits
  <2>2. ~Between /\ ~Between' /\ ~Leaving /\ ~Leaving' /\ Due(current)' = Due(current)
    BY DEF Between, Leaving, Due
  <2> QED
    BY <1>f, <2>1, <2>2 DEF ProfileInv, Crew
<1> QED
  BY <1>12, <1>13, <1>14, <1>15 DEF ProfileInv

LEMMA CountAckKeeps ==
    ASSUME ProfileInv, CountAck PROVE ProfileInv'
<1>1. Expected.kind = "ACK"
  BY Messaging DEF CountAck, Expected
<1> QED
  BY <1>1, TakeKeeps DEF CountAck, MessageKinds

LEMMA CountDoneKeeps ==
    ASSUME ProfileInv, CountDone PROVE ProfileInv'
<1>1. Expected.kind = "DONE"
  BY Messaging DEF CountDone, Expected
<1> QED
  BY <1>1, TakeKeeps DEF CountDone, MessageKinds

\* What the configuration implies where there is a pool, and where not.
LEMMA Configured ==
    ASSUME ProfileInv
    PROVE  /\ config.hits \in HitSets /\ config.reservoir \in Reservoirs
           /\ config.completed \in {Below(l) : l \in MoeLayers}
           /\ pool => ~config.output /\ config.completed = {} /\ \A l : FullHit(l) <=> l \in config.hits
  BY DEF ProfileInv, ProfileType, Configs, DpEnabled, FullHit, Hydrated

\* A step of the parent between two barriers, workers and queues untouched.
LEMMA SkipKeeps ==
    ASSUME ProfileInv, SkipReplayed PROVE ProfileInv'
<1>1. /\ main = "layer" /\ current \in Nat /\ current < NumMoe /\ current \in config.completed /\ current' = current + 1
      /\ UNCHANGED <<config, pool, main, prev, merged, got, counted, through, failed, joined, bad, wpc, atLayer, upstream, spill, cmds, answers>>
  BY DEF SkipReplayed, ProfileInv, ProfileType, workers, queues
<1>2. ~pool /\ ~failed
  BY <1>1, Configured DEF ProfileInv, LoopProgress
<1>3. Below(current + 1) = Below(current) \cup {current}
  BY <1>1, BelowNext
<1>4. ProfileType'
  BY <1>1, TheWorkers DEF ProfileInv, ProfileType
<1>5. LoopProgress'
  BY <1>1, <1>2, <1>3 DEF ProfileInv, LoopProgress
<1>6. Profiles'
  <2>1. \A l : WellProfiled(l)' = WellProfiled(l)
    BY <1>1 DEF WellProfiled, FullHit, Hydrated
  <2>2. Below(current') \ config'.completed \subseteq Below(current) \ config.completed
    BY <1>1, <1>3
  <2> QED
    BY <1>1, <2>1, <2>2 DEF ProfileInv, Profiles
<1>7. Crew' /\ Seen'
  BY <1>1, <1>2 DEF ProfileInv, Crew, Seen, Between, Leaving
<1>8. Barrier'
  <2>1. got = 0 /\ \A i \in 1 .. Len(answers) : answers[i].kind = "ERROR"
    BY <1>1, <1>2, QuietNow
  <2> QED
    BY <1>1, <2>1, QuietThen DEF ProfileInv, ProfileType
<1> QED
  BY <1>4, <1>5, <1>6, <1>7, <1>8 DEF ProfileInv

\* The profile of a layer not yet merged is set.
LEMMA ProfileSet ==
    ASSUME ProfileInv, current \in MoeLayers, NEW c \in [Seqs -> Nat], NEW t \in SUBSET SUBSET MoeLayers,
           counted' = [counted EXCEPT ![current] = c],
           through' = through \/ through' = [through EXCEPT ![current] = t],
           UNCHANGED <<config, current>>,
           main' = "merge" => /\ current \notin config.completed /\ \A s \in Seqs : c[s] = 1
                              /\ FullHit(current) \/ (through'[current] = {Below(current)})
    PROVE  Profiles' /\ counted' \in [MoeLayers -> [Seqs -> Nat]] /\ through' \in [MoeLayers -> SUBSET SUBSET MoeLayers]
<1>1. counted \in [MoeLayers -> [Seqs -> Nat]] /\ through \in [MoeLayers -> SUBSET SUBSET MoeLayers]
  BY DEF ProfileInv, ProfileType
<1>2. /\ counted' \in [MoeLayers -> [Seqs -> Nat]] /\ through' \in [MoeLayers -> SUBSET SUBSET MoeLayers]
      /\ counted'[current] = c
      /\ \A l \in MoeLayers : l # current => counted'[l] = counted[l] /\ through'[l] = through[l]
  BY <1>1
<1>3. ASSUME NEW l \in Below(current) \ config.completed PROVE WellProfiled(l)'
  <2>1. l \in MoeLayers /\ l # current
    BY TheWorkers DEF Below, MoeLayers
  <2>2. WellProfiled(l)
    BY <1>3 DEF ProfileInv, Profiles
  <2> QED
    BY <1>2, <2>1, <2>2 DEF WellProfiled, FullHit, Hydrated
<1>4. main' = "merge" => WellProfiled(current)'
  BY <1>2 DEF WellProfiled, FullHit, Hydrated
<1> QED
  BY <1>2, <1>3, <1>4 DEF Profiles

LEMMA HitKeeps ==
    ASSUME OuterHits, ProfileInv, Hit PROVE ProfileInv'
<1>1. /\ main = "layer" /\ current \in MoeLayers /\ current \notin config.completed /\ FullHit(current) /\ main' = "merge"
      /\ counted' = [counted EXCEPT ![current] = Hydration(current)]
      /\ UNCHANGED <<config, pool, current, prev, merged, got, through, failed, joined, bad, wpc, atLayer, upstream, spill, cmds, answers>>
  BY TheWorkers DEF Hit, AtLiveLayer, ProfileInv, ProfileType, MoeLayers, workers, queues
<1>2. Hydration(current) \in [Seqs -> Nat] /\ \A s \in Seqs : Hydration(current)[s] = 1
  BY <1>1 DEF Hydration, FullHit
<1>3. Profiles' /\ counted' \in [MoeLayers -> [Seqs -> Nat]] /\ through' \in [MoeLayers -> SUBSET SUBSET MoeLayers]
  BY <1>1, <1>2, ProfileSet
<1>4. ~failed
  BY <1>1 DEF ProfileInv, LoopProgress
<1>5. current \in Nat /\ current < NumMoe
  BY <1>1, TheWorkers DEF MoeLayers
<1>6. ProfileType'
  BY <1>1, <1>3, <1>5 DEF ProfileInv, ProfileType, Mains
<1>7. LoopProgress' /\ Seen'
  BY <1>1, <1>4 DEF ProfileInv, LoopProgress, Seen, NoLayer
<1>8. Barrier'
  <2>1. got = 0 /\ \A i \in 1 .. Len(answers) : answers[i].kind = "ERROR"
    BY <1>1, <1>4, QuietNow
  <2> QED
    BY <1>1, <2>1, QuietThen DEF ProfileInv, ProfileType
<1>9. Crew'
  <2>1. \A q : Alive(q)' = Alive(q) /\ (main' = "merge" /\ Calm(q) => Calm(q)')
    BY <1>1 DEF Alive, Calm
  <2>2. Between' = Between /\ ~Leaving' /\ ~Leaving /\ Due(current + 1)' = Due(current + 1)
    BY <1>1 DEF Between, Leaving, Due
  <2>3. ASSUME Between, Due(current + 1), NEW q \in Workers, Alive(q) PROVE upstream[q] = Below(current)
    <3>1. pool /\ current \in config.hits /\ current + 1 \notin config.hits /\ current + 1 \in MoeLayers
      BY <1>1, <1>5, <2>3, Configured, TheWorkers DEF Between, Due, MoeLayers
    <3>2. current = 0
      BY <1>1, <1>5, <3>1, Configured DEF OuterHits
    <3>3. upstream[q] = Below(0 - 1)
      BY <1>1, <2>3, <3>2 DEF ProfileInv, Crew
    <3> QED
      BY <3>2, <3>3 DEF Below
  <2>4. Between => got = 0 /\ \A q \in Workers : Alive(q) => Calm(q)
    BY DEF ProfileInv, Crew
  <2> QED
    BY <1>1, <2>1, <2>2, <2>3, <2>4 DEF Crew
<1> QED
  BY <1>3, <1>6, <1>7, <1>8, <1>9 DEF ProfileInv

LEMMA SerialKeeps ==
    ASSUME OuterHits, ProfileInv, Serial PROVE ProfileInv'
<1>1. /\ main = "layer" /\ current \in MoeLayers /\ current \notin config.completed /\ ~FullHit(current) /\ main' = "merge" /\ ~pool
      /\ counted' = [counted EXCEPT ![current] = [s \in Seqs |-> Hydration(current)[s] + 1]]
      /\ through' = [through EXCEPT ![current] = {merged}]
      /\ UNCHANGED <<config, pool, current, prev, merged, got, failed, joined, bad, wpc, atLayer, upstream, spill, cmds, answers>>
  BY TheWorkers DEF Serial, AtLiveLayer, ProfileInv, ProfileType, MoeLayers, workers, queues
<1>2. ~Hydrated(current)
  BY <1>1, Configured DEF OuterHits, FullHit
<1>3. PICK c : c = [s \in Seqs |-> Hydration(current)[s] + 1]
  OBVIOUS
<1>4. c \in [Seqs -> Nat] /\ \A s \in Seqs : c[s] = 1
  BY <1>2, <1>3 DEF Hydration
<1>5. current \in Nat /\ current < NumMoe
  BY <1>1, TheWorkers DEF MoeLayers
<1>6. merged = Below(current)
  <2>1. PICK k \in MoeLayers : config.completed = Below(k)
    BY Configured
  <2>2. Below(k) \subseteq Below(current)
    BY <1>1, <1>5, <2>1 DEF Below, MoeLayers
  <2> QED
    BY <2>1, <2>2 DEF ProfileInv, LoopProgress
<1>7. {merged} \in SUBSET SUBSET MoeLayers
  BY <1>5, <1>6, TheWorkers DEF Below, MoeLayers
<1>8. through'[current] = {merged}
  BY <1>1 DEF ProfileInv, ProfileType
<1>9. Profiles' /\ counted' \in [MoeLayers -> [Seqs -> Nat]] /\ through' \in [MoeLayers -> SUBSET SUBSET MoeLayers]
  BY <1>1, <1>3, <1>4, <1>6, <1>7, <1>8, ProfileSet
<1>10. ~failed
  BY <1>1 DEF ProfileInv, LoopProgress
<1>11. ProfileType'
  BY <1>1, <1>5, <1>9 DEF ProfileInv, ProfileType, Mains
<1>12. LoopProgress' /\ Seen' /\ Crew'
  BY <1>1, <1>10 DEF ProfileInv, LoopProgress, Seen, NoLayer, Crew, Between, Leaving
<1>13. Barrier'
  <2>1. got = 0 /\ \A i \in 1 .. Len(answers) : answers[i].kind = "ERROR"
    BY <1>1, <1>10, QuietNow
  <2> QED
    BY <1>1, <2>1, QuietThen DEF ProfileInv, ProfileType
<1> QED
  BY <1>9, <1>11, <1>12, <1>13 DEF ProfileInv

----------------------------------------------------------------------------
(* The shards of the workers                                               *)

LEMMA Quotient ==
    ASSUME NEW a \in Nat, NEW b \in Nat \ {0}
    PROVE  a \div b \in Nat /\ (a \div b) * b <= a /\ a < (a \div b) * b + b
  OBVIOUS

\* Products of naturals grow with either factor.
LEMMA Times ==
    ASSUME NEW a \in Nat, NEW b \in Nat, NEW c \in Nat, a <= b
    PROVE  a * c \in Nat /\ b * c \in Nat /\ a * c <= b * c
  OBVIOUS

\* Every sequence is in the shard of one worker.
LEMMA OneShard ==
    ASSUME NEW s \in Seqs
    PROVE  \E r \in Workers : s \in Shard(r) /\ \A q \in Workers : s \in Shard(q) => q = r
<1>w. PICK n : n = Replicas
  OBVIOUS
<1>n. NumSeqs \in Nat \ {0} /\ n \in Nat \ {0} /\ n <= NumSeqs /\ s \in Nat /\ s < NumSeqs
  BY <1>w, TheWorkers, ProfileAssumption DEF Seqs
<1>W. Workers = 0 .. n - 1
  BY <1>w DEF Workers
<1>b. PICK b : b = NumSeqs \div n
  OBVIOUS
<1>1. b \in Nat /\ NumSeqs < b * n + n
  BY <1>n, <1>b, Quotient
<1>2. b # 0
  BY <1>n, <1>1
<1>3. ASSUME NEW r \in Workers
      PROVE  s \in Shard(r) <=> r * b <= s /\ (r # n - 1 => s < (r + 1) * b)
  <2>1. r * b \in Nat /\ (r + 1) * b \in Nat
    BY <1>n, <1>1, <1>W
  <2> QED
    BY <1>n, <1>1, <1>b, <1>w, <2>1 DEF Shard, Workers
<1>4. ASSUME NEW r \in Workers, NEW q \in Workers, s \in Shard(r), s \in Shard(q), r < q
      PROVE  FALSE
  <2>1. r # n - 1 /\ r + 1 <= q /\ r + 1 \in Nat /\ q \in Nat
    BY <1>n, <1>4, <1>W
  <2>2. s < (r + 1) * b /\ q * b <= s
    BY <1>3, <1>4, <2>1
  <2>3. (r + 1) * b <= q * b /\ (r + 1) * b \in Nat /\ q * b \in Nat
    BY <1>1, <2>1, Times
  <2>4. PICK x, y : x = (r + 1) * b /\ y = q * b
    OBVIOUS
  <2>5. x \in Nat /\ y \in Nat /\ x <= y /\ s < x /\ y <= s
    BY <2>2, <2>3, <2>4
  <2> QED
    BY <1>n, <2>5
<1>5. SUFFICES \E r \in Workers : s \in Shard(r)
  <2>1. PICK r \in Workers : s \in Shard(r)
    BY <1>5
  <2>2. ASSUME NEW q \in Workers, s \in Shard(q) PROVE q = r
    <3>1. ~(r < q) /\ ~(q < r)
      BY <1>4, <2>1, <2>2
    <3> QED
      BY <1>n, <1>W, <3>1
  <2> QED
    BY <2>1, <2>2
<1>6. (n - 1) * b \in Nat
  BY <1>n, <1>1
<1>7. CASE (n - 1) * b <= s
  <2>1. n - 1 \in Workers
    BY <1>n, <1>W
  <2> QED
    BY <1>3, <1>7, <2>1
<1>8. CASE ~((n - 1) * b <= s)
  <2>q. PICK q : q = s \div b
    OBVIOUS
  <2>1. q \in Nat /\ q * b <= s /\ s < q * b + b
    BY <1>n, <1>1, <1>2, <2>q, Quotient
  <2>2. q < n - 1
    <3>1. ASSUME n - 1 <= q PROVE FALSE
      <4>1. (n - 1) * b <= q * b /\ q * b \in Nat
        BY <1>n, <1>1, <2>1, <3>1, Times
      <4>2. PICK x, y : x = (n - 1) * b /\ y = q * b
        OBVIOUS
      <4>3. x \in Nat /\ y \in Nat /\ x <= y /\ y <= s /\ ~(x <= s)
        BY <1>6, <1>8, <2>1, <4>1, <4>2
      <4> QED
        BY <1>n, <4>3
    <3> QED
      BY <1>n, <2>1, <3>1
  <2>3. (q + 1) * b = q * b + b
    BY <1>1, <2>1
  <2>4. q \in Workers /\ q # n - 1 /\ s < (q + 1) * b
    BY <1>n, <1>W, <2>1, <2>2, <2>3
  <2> QED
    BY <1>3, <2>1, <2>4
<1> QED
  BY <1>7, <1>8


LEMMA ReduceKeeps ==
    ASSUME ProfileInv, Reduce PROVE ProfileInv'
<1>c. PICK c, t : c = [s \in Seqs |-> Cardinality(Spilled(s))] /\ t = UNION {spill[r][current] : r \in Workers}
  OBVIOUS
<1>1. /\ main = "dones" /\ got = Replicas /\ main' = "merge" /\ got' = 0
      /\ counted' = [counted EXCEPT ![current] = c] /\ through' = [through EXCEPT ![current] = t]
      /\ UNCHANGED <<config, pool, current, prev, merged, failed, joined, bad, wpc, atLayer, upstream, spill, cmds, answers>>
  BY <1>c DEF Reduce, workers, queues
<1>2. /\ ~failed /\ \A r \in Workers : Answered(r)
      /\ \A i \in 1 .. Len(answers) : answers[i].kind = "ERROR"
  BY <1>1, AllAnswered
<1>3. /\ current \in MoeLayers /\ current \in Nat /\ current < NumMoe /\ pool /\ config.completed = {}
  BY <1>1, TheWorkers, Configured DEF ProfileInv, ProfileType, Crew, MoeLayers
<1>4. \A r \in Workers : spill[r][current] = {Below(current)}
  BY <1>1, <1>2 DEF Answered
<1>5. ASSUME NEW s \in Seqs PROVE Cardinality(Spilled(s)) = 1
  <2>1. PICK r \in Workers : s \in Shard(r) /\ \A q \in Workers : s \in Shard(q) => q = r
    BY OneShard
  <2>2. \A q \in Workers : spill[q][current] # {}
    BY <1>4
  <2>3. Spilled(s) = {r}
    BY <2>1, <2>2 DEF Spilled
  <2> QED
    BY <2>3, FS_Singleton
<1>6. c \in [Seqs -> Nat] /\ \A s \in Seqs : c[s] = 1
  BY <1>c, <1>5
<1>7. t = {Below(current)} /\ Below(current) \subseteq MoeLayers
  <2>1. {spill[r][current] : r \in Workers} = {{Below(current)}}
    BY <1>4, TheWorkers
  <2>2. t = {Below(current)}
    BY <1>c, <2>1
  <2>3. Below(current) \subseteq MoeLayers
    BY <1>3, TheWorkers DEF Below, MoeLayers
  <2> QED
    BY <2>2, <2>3
<1>8. t \in SUBSET SUBSET MoeLayers
  BY <1>7
<1>9. through'[current] = {Below(current)}
  BY <1>1, <1>3, <1>7 DEF ProfileInv, ProfileType
<1>10. Profiles' /\ counted' \in [MoeLayers -> [Seqs -> Nat]] /\ through' \in [MoeLayers -> SUBSET SUBSET MoeLayers]
  BY <1>1, <1>3, <1>6, <1>8, <1>9, ProfileSet
<1>11. ProfileType'
  BY <1>1, <1>3, <1>10 DEF ProfileInv, ProfileType, Mains
<1>12. LoopProgress' /\ Seen'
  BY <1>1, <1>2, <1>3 DEF ProfileInv, LoopProgress, Seen, NoLayer
<1>13. Barrier'
  BY <1>1, <1>2, QuietThen DEF ProfileInv, ProfileType
<1>14. Crew'
  <2>1. ASSUME NEW r \in Workers, Alive(r)' PROVE Calm(r)' /\ upstream'[r] = Below(current)
    <3>1. wpc[r] \in {"idle", "killed"} /\ wpc[r] \notin Dead /\ cmds[r] = <<>> /\ upstream[r] = Below(current)
      BY <1>1, <1>2, <2>1 DEF Alive, Answered, Waits
    <3> QED
      BY <1>1, <3>1 DEF Calm, Dead
  <2> QED
    BY <1>1, <2>1 DEF Crew, Between, Leaving
<1> QED
  BY <1>10, <1>11, <1>12, <1>13, <1>14 DEF ProfileInv

LEMMA SendTypes ==
    ASSUME cmds \in [Workers -> Seq(Messages)], NEW m \in Messages, Send(m)
    PROVE  cmds' \in [Workers -> Seq(Messages)] /\ \A r \in Workers : cmds'[r] = Append(cmds[r], m)
  BY DEF Send

LEMMA ResyncedKeeps ==
    ASSUME ProfileInv, Resynced PROVE ProfileInv'
<1>1. /\ main = "acks" /\ got = Replicas /\ main' = "dones" /\ got' = 0 /\ Send(Msg("PROFILE", current))
      /\ UNCHANGED <<config, pool, current, prev, merged, counted, through, failed, joined, bad, wpc, atLayer, upstream, spill, answers>>
  BY DEF Resynced, workers
<1>2. /\ ~failed /\ \A r \in Workers : Answered(r)
      /\ \A i \in 1 .. Len(answers) : answers[i].kind = "ERROR"
  BY <1>1, AllAnswered
<1>3. current < NumMoe /\ Msg("PROFILE", current) \in Messages
  BY <1>1, Messaging DEF ProfileInv, ProfileType, MessageKinds
<1>4. cmds' \in [Workers -> Seq(Messages)] /\ \A r \in Workers : cmds'[r] = Append(cmds[r], Msg("PROFILE", current))
  BY <1>1, <1>3, SendTypes DEF ProfileInv, ProfileType
<1>5. ProfileType'
  BY <1>1, <1>3, <1>4 DEF ProfileInv, ProfileType, Mains
<1>6. LoopProgress' /\ Profiles' /\ Seen'
  BY <1>1, <1>2 DEF ProfileInv, LoopProgress, NoLayer, Profiles, WellProfiled, FullHit, Hydrated, Seen, Crew
<1>7. Barrier'
  BY <1>1, <1>2, QuietThen DEF ProfileInv, ProfileType
<1>8. Crew'
  <2>1. ASSUME NEW r \in Workers, Alive(r)' PROVE Profiling(r)'
    <3>1. wpc[r] \in {"idle", "killed"} /\ wpc[r] \notin Dead /\ cmds[r] = <<>> /\ upstream[r] = Below(current)
      BY <1>1, <1>2, <2>1 DEF Alive, Answered, Waits
    <3>2. wpc'[r] = "idle" /\ cmds'[r] = <<Msg("PROFILE", current)>>
      <4>1. cmds'[r] = Append(<<>>, Msg("PROFILE", current))
        BY <1>4, <3>1
      <4> QED
        BY <1>1, <3>1, <4>1 DEF Dead
    <3> QED
      BY <1>1, <3>1, <3>2 DEF Profiling, Told
  <2>2. pool /\ Due(current)'
    BY <1>1 DEF ProfileInv, Crew, Due
  <2> QED
    BY <1>1, <1>2, <2>1, <2>2 DEF Crew, Between, Leaving
<1> QED
  BY <1>5, <1>6, <1>7, <1>8 DEF ProfileInv

LEMMA BroadcastKeeps ==
    ASSUME ProfileInv, Broadcast PROVE ProfileInv'
<1>1. /\ main = "layer" /\ current \in Nat /\ current < NumMoe /\ pool /\ current \notin config.hits /\ got' = 0
      /\ UNCHANGED <<config, pool, current, prev, merged, counted, through, failed, joined, bad, wpc, atLayer, upstream, spill, answers>>
  BY Configured DEF Broadcast, AtLiveLayer, workers, ProfileInv, ProfileType
<1>2. IF current = 0 THEN main' = "dones" /\ Send(Msg("PROFILE", current))
                     ELSE main' = "acks" /\ Send(Msg("RESYNC", prev)) /\ prev = current - 1
  <2>1. prev = (IF current = 0 THEN NoLayer ELSE current - 1) /\ current - 1 # NoLayer
    BY <1>1, TheWorkers DEF ProfileInv, LoopProgress, NoLayer
  <2> QED
    BY <2>1 DEF Broadcast
<1>3. ~failed /\ Between
  BY <1>1 DEF ProfileInv, LoopProgress, Between
<1>4. got = 0 /\ \A i \in 1 .. Len(answers) : answers[i].kind = "ERROR"
  BY <1>1, <1>3, QuietNow
<1>5. \A r \in Workers : Alive(r) => wpc[r] \in {"load", "idle"} /\ cmds[r] = <<>> /\ upstream[r] = Below(current - 1)
  <2>1. Due(current)
    BY <1>1 DEF Due
  <2> QED
    BY <1>1, <1>3, <2>1 DEF ProfileInv, Crew, Calm
<1>6. PICK kind \in {"RESYNC", "PROFILE"}, l \in 0 .. NumMoe :
          /\ Send(Msg(kind, l)) /\ kind = (IF current = 0 THEN "PROFILE" ELSE "RESYNC")
          /\ l = (IF current = 0 THEN current ELSE prev)
  <2>1. CASE current = 0
    BY <1>1, <1>2, <2>1, TheWorkers
  <2>2. CASE current # 0
    <3>1. prev \in 0 .. NumMoe
      BY <1>1, <1>2, <2>2, TheWorkers
    <3> QED
      BY <1>2, <2>2, <3>1
  <2> QED
    BY <2>1, <2>2
<1>7. Msg(kind, l) \in Messages
  BY Messaging DEF MessageKinds
<1>8. cmds' \in [Workers -> Seq(Messages)] /\ \A r \in Workers : cmds'[r] = Append(cmds[r], Msg(kind, l))
  BY <1>6, <1>7, SendTypes DEF ProfileInv, ProfileType
<1>9. ProfileType'
  BY <1>1, <1>2, <1>8 DEF ProfileInv, ProfileType, Mains
<1>10. LoopProgress' /\ Profiles' /\ Seen'
  BY <1>1, <1>2, <1>3 DEF ProfileInv, LoopProgress, NoLayer, Profiles, WellProfiled, FullHit, Hydrated, Seen
<1>11. Barrier'
  BY <1>1, <1>4, QuietThen DEF ProfileInv, ProfileType
<1>12. ASSUME NEW r \in Workers, Alive(r)' PROVE Told(r, kind, l)' /\ upstream'[r] = Below(current - 1)
  <2>1. wpc[r] \in {"load", "idle"} /\ cmds[r] = <<>> /\ upstream[r] = Below(current - 1)
    BY <1>1, <1>5, <1>12 DEF Alive
  <2>2. cmds'[r] = <<Msg(kind, l)>>
    BY <1>8, <2>1
  <2> QED
    BY <1>1, <2>1, <2>2 DEF Told
<1>13. Crew'
  <2>1. Due(current)' /\ ~Between' /\ ~Leaving'
    BY <1>1, <1>2 DEF Due, Between, Leaving
  <2>2. CASE current = 0
    <3>1. Below(current - 1) = Below(current)
      BY <2>2 DEF Below
    <3>2. \A r \in Workers : Alive(r)' => Profiling(r)'
      BY <1>1, <1>6, <1>12, <2>2, <3>1 DEF Profiling
    <3> QED
      BY <1>1, <1>2, <1>3, <2>1, <2>2, <3>2 DEF Crew
  <2>3. CASE current # 0
    <3>1. \A r \in Workers : Alive(r)' => Resyncing(r)'
      BY <1>1, <1>2, <1>6, <1>12, <2>3 DEF Resyncing
    <3> QED
      BY <1>1, <1>2, <1>3, <2>1, <2>3, <3>1 DEF Crew
  <2> QED
    BY <2>2, <2>3
<1> QED
  BY <1>9, <1>10, <1>11, <1>13 DEF ProfileInv

LEMMA MergeLayerKeeps ==
    ASSUME ProfileInv, MergeLayer PROVE ProfileInv'
<1>1. /\ main = "merge" /\ current \in Nat /\ current < NumMoe /\ main' = "layer" /\ current' = current + 1
      /\ merged' = merged \cup {current} /\ prev' = (IF pool THEN current ELSE prev)
      /\ UNCHANGED <<config, pool, got, counted, through, failed, joined, bad, wpc, atLayer, upstream, spill, cmds, answers>>
  BY DEF MergeLayer, workers, queues, ProfileInv, ProfileType
<1>2. Below(current + 1) = Below(current) \cup {current}
  BY <1>1, BelowNext
<1>3. ~failed
  BY <1>1 DEF ProfileInv, LoopProgress
<1>4. ProfileType'
  BY <1>1, TheWorkers DEF ProfileInv, ProfileType, Mains
<1>5. LoopProgress' /\ Seen'
  <2>1. merged' = config.completed \cup Below(current + 1)
    BY <1>1, <1>2 DEF ProfileInv, LoopProgress
  <2>2. current + 1 # 0 /\ (current + 1) - 1 = current
    BY <1>1
  <2> QED
    BY <1>1, <1>3, <2>1, <2>2 DEF ProfileInv, LoopProgress, Seen
<1>6. Profiles'
  <2>1. \A l : WellProfiled(l)' = WellProfiled(l)
    BY <1>1 DEF WellProfiled, FullHit, Hydrated
  <2> QED
    BY <1>1, <1>2, <2>1 DEF ProfileInv, Profiles
<1>7. Barrier'
  <2>1. got = 0 /\ \A i \in 1 .. Len(answers) : answers[i].kind = "ERROR"
    BY <1>1, <1>3, QuietNow
  <2> QED
    BY <1>1, <2>1, QuietThen DEF ProfileInv, ProfileType
<1>8. Crew'
  <2>1. \A q : Alive(q)' = Alive(q) /\ (Calm(q) => Calm(q)')
    BY <1>1 DEF Alive, Calm
  <2>2. Between' = Between /\ ~Leaving' /\ Due(current)' = Due(current + 1) /\ (current + 1) - 1 = current /\ current + 1 # 0
    BY <1>1 DEF Between, Leaving, Due
  <2>3. /\ Between => got = 0 /\ \A q \in Workers : Alive(q) => Calm(q)
        /\ Between /\ Due(current + 1) => \A r \in Workers : Alive(r) => upstream[r] = Below(current)
    BY <1>1 DEF ProfileInv, Crew
  <2> QED
    BY <1>1, <2>1, <2>2, <2>3 DEF Crew
<1> QED
  BY <1>4, <1>5, <1>6, <1>7, <1>8 DEF ProfileInv

----------------------------------------------------------------------------
(* The end of the loop                                                     *)

\* What stays the same when the parent only moves on.
Sitting == UNCHANGED <<config, pool, current, prev, merged, counted, through, upstream, spill, atLayer>>

LEMMA SittingKeeps ==
    ASSUME ProfileInv, Sitting, main' \notin {"merge", "acks", "dones"},
           failed' => main' \in {"shutdown", "join", "raised"},
           ~pool => main' \in {"layer", "done", "raised"} /\ UNCHANGED wpc
    PROVE  LoopProgress' /\ Profiles'
<1>1. \A l : WellProfiled(l)' = WellProfiled(l)
  BY DEF Sitting, WellProfiled, FullHit, Hydrated
<1> QED
  BY <1>1 DEF Sitting, ProfileInv, LoopProgress, NoLayer, Profiles

LEMMA LeaveKeeps ==
    ASSUME ProfileInv, NEW withError \in BOOLEAN, Leave(withError), UNCHANGED cmds,
           answers' \in Seq(Messages), answers' = answers \/ withError,
           main \in {"layer", "merge", "acks", "dones"}, ~withError => main = "layer"
    PROVE  ProfileInv'
<1>1. /\ failed' = withError /\ main' = (IF pool THEN "shutdown" ELSE IF withError THEN "raised" ELSE "done")
      /\ Sitting /\ UNCHANGED <<config, pool, current, prev, got, joined, bad, wpc, upstream, spill, atLayer, merged, counted, through>>
  BY DEF Leave, workers, Sitting
<1>2. LoopProgress' /\ Profiles'
  BY <1>1, SittingKeeps
<1>3. ProfileType'
  BY <1>1 DEF ProfileInv, ProfileType, Mains
<1>4. Barrier'
  <2>1. ASSUME ~withError PROVE got' = 0 /\ \A i \in 1 .. Len(answers') : answers'[i].kind = "ERROR"
    <3>1. main = "layer" /\ ~failed /\ answers' = answers
      BY <2>1 DEF ProfileInv, LoopProgress
    <3> QED
      BY <1>1, <3>1, QuietNow
  <2> QED
    BY <1>1, <2>1, QuietThen
<1>5. Crew'
  <2>1. ASSUME Leaving' PROVE \A r \in Workers : Alive(r)' => Calm(r)'
    <3>1. pool /\ main = "layer" /\ ~failed
      BY <1>1, <2>1 DEF Leaving, ProfileInv, LoopProgress
    <3>2. \A r \in Workers : Alive(r) => Calm(r)
      BY <3>1 DEF ProfileInv, Crew, Between
    <3> QED
      BY <1>1, <3>1, <3>2 DEF Alive, Calm
  <2>2. ~Between' /\ main' \notin {"acks", "dones"}
    BY <1>1 DEF Between
  <2> QED
    BY <2>1, <2>2 DEF Crew
<1>6. Seen'
  <2>1. pool => joined = 0 /\ main' = "shutdown"
    BY <1>1 DEF ProfileInv, Seen
  <2>2. ~pool => \A r \in Workers : wpc'[r] = "exited" /\ wpc'[r] \in Dead
    BY <1>1 DEF ProfileInv, LoopProgress, Dead
  <2> QED
    BY <1>1, <2>1, <2>2 DEF Seen
<1> QED
  BY <1>2, <1>3, <1>4, <1>5, <1>6 DEF ProfileInv

LEMMA ErrorRaisedKeeps ==
    ASSUME ProfileInv, WorkerErrorRaised PROVE ProfileInv'
<1>1. answers' \in Seq(Messages)
  BY DEF ProfileInv, ProfileType, WorkerErrorRaised
<1> QED
  BY <1>1, LeaveKeeps DEF WorkerErrorRaised

LEMMA ParentRaisesKeeps ==
    ASSUME ProfileInv, ParentRaises PROVE ProfileInv'
<1>1. answers' = answers /\ cmds' = cmds /\ answers \in Seq(Messages) /\ main \in {"layer", "merge"}
  BY DEF ProfileInv, ProfileType, ParentRaises, AtLiveLayer, queues
<1> QED
  BY <1>1, LeaveKeeps DEF ParentRaises

LEMMA LayersDoneKeeps ==
    ASSUME ProfileInv, LayersDone PROVE ProfileInv'
<1>1. answers' = answers /\ cmds' = cmds /\ answers \in Seq(Messages)
  BY DEF ProfileInv, ProfileType, LayersDone, queues
<1> QED
  BY <1>1, LeaveKeeps DEF LayersDone

LEMMA ShutdownKeeps ==
    ASSUME ProfileInv, Shutdown PROVE ProfileInv'
<1>1. /\ main = "shutdown" /\ main' = "join" /\ Send(Msg("SHUTDOWN", NoLayer)) /\ answers' = <<>> /\ Sitting
      /\ UNCHANGED <<config, pool, current, prev, merged, got, counted, through, failed, joined, bad, wpc, atLayer, upstream, spill>>
  BY DEF Shutdown, workers, Sitting
<1>2. pool
  BY <1>1 DEF ProfileInv, LoopProgress
<1>3. LoopProgress' /\ Profiles'
  BY <1>1, <1>2, SittingKeeps
<1>4. Msg("SHUTDOWN", NoLayer) \in Messages
  BY Messaging DEF MessageKinds
<1>5. cmds' \in [Workers -> Seq(Messages)] /\ \A r \in Workers : cmds'[r] = Append(cmds[r], Msg("SHUTDOWN", NoLayer))
  BY <1>1, <1>4, SendTypes DEF ProfileInv, ProfileType
<1>6. ProfileType'
  BY <1>1, <1>5 DEF ProfileInv, ProfileType, Mains
<1>7. Barrier'
  <2>1. ~failed => got = 0
    BY <1>1, QuietNow
  <2> QED
    BY <1>1, <1>6, <2>1, QuietThen
<1>8. Crew'
  <2>1. ASSUME Leaving', NEW r \in Workers, Alive(r)' PROVE Calm(r)'
    <3>1. Leaving /\ Alive(r)
      BY <1>1, <2>1 DEF Leaving, Alive
    <3>2. wpc[r] \in {"load", "idle"} /\ cmds[r] = <<>>
      BY <1>1, <3>1 DEF ProfileInv, Crew, Calm
    <3>3. cmds'[r] = <<Msg("SHUTDOWN", NoLayer)>>
      BY <1>5, <3>2
    <3>4. NoLayer' = NoLayer
      BY DEF NoLayer
    <3> QED
      BY <1>1, <3>2, <3>3, <3>4 DEF Calm
  <2> QED
    BY <1>1, <2>1 DEF Crew, Between
<1>9. Seen'
  <2>1. joined' = 0
    BY <1>1 DEF ProfileInv, Seen
  <2> QED
    BY <1>1, <2>1 DEF Seen
<1> QED
  BY <1>3, <1>6, <1>7, <1>8, <1>9 DEF ProfileInv

\* Joining a worker that has ended, or ending it.
LEMMA JoinedKeeps ==
    ASSUME ProfileInv, main = "join", UNCHANGED <<main, failed, got, cmds, answers>>, Sitting,
           joined \in Workers, joined' = joined + 1, wpc' \in [Workers -> Places], bad' \in BOOLEAN,
           \A r \in Workers : r # joined => wpc'[r] = wpc[r],
           wpc'[joined] \in Dead, bad \/ wpc'[joined] # "exited" => bad'
    PROVE  ProfileInv'
<1>1. pool
  BY DEF ProfileInv, LoopProgress
<1>2. LoopProgress' /\ Profiles'
  <2>1. failed' => main' \in {"shutdown", "join", "raised"}
    OBVIOUS
  <2> QED
    BY <1>1, <2>1, SittingKeeps
<1>3. joined' \in 0 .. Replicas
  BY TheWorkers
<1>4. ProfileType'
  BY <1>3 DEF ProfileInv, ProfileType, Sitting
<1>5. Barrier'
  <2>1. ~failed => got = 0 /\ \A i \in 1 .. Len(answers) : answers[i].kind = "ERROR"
    BY QuietNow
  <2> QED
    BY <1>4, <2>1, QuietThen DEF ProfileType
<1>6. Crew'
  <2>1. ASSUME Leaving', NEW r \in Workers, Alive(r)' PROVE Calm(r)'
    <3>1. Leaving /\ r # joined
      BY <2>1 DEF Leaving, Sitting, Alive
    <3>2. wpc'[r] = wpc[r] /\ Alive(r)
      BY <2>1, <3>1 DEF Alive
    <3>3. Calm(r)
      BY <3>1, <3>2 DEF ProfileInv, Crew
    <3> QED
      BY <3>2, <3>3 DEF Calm, NoLayer
  <2> QED
    BY <2>1 DEF Crew, Between
<1>7. Seen'
  <2>1. ASSUME NEW r \in 0 .. joined' - 1 PROVE wpc'[r] \in Dead /\ (~bad' => wpc'[r] = "exited")
    <3>1. r \in Workers /\ (r = joined \/ r \in 0 .. joined - 1)
      BY <1>3, TheWorkers DEF Workers
    <3>2. r \in 0 .. joined - 1 => wpc[r] \in Dead /\ (~bad => wpc[r] = "exited")
      BY DEF ProfileInv, Seen
    <3>3. r # joined => wpc'[r] = wpc[r]
      BY <3>1
    <3>4. ~bad' => ~bad /\ wpc'[joined] = "exited"
      BY DEF ProfileInv, ProfileType
    <3> QED
      BY <3>1, <3>2, <3>3, <3>4
  <2> QED
    BY <2>1 DEF Seen
<1> QED
  BY <1>2, <1>4, <1>5, <1>6, <1>7 DEF ProfileInv

LEMMA JoinKeeps ==
    ASSUME ProfileInv, Join PROVE ProfileInv'
<1>1. /\ main = "join" /\ joined < Replicas /\ wpc[joined] \in Dead /\ joined' = joined + 1
      /\ bad' = (bad \/ wpc[joined] # "exited") /\ Sitting /\ UNCHANGED <<main, failed, got, wpc, cmds, answers>>
  BY DEF Join, Sitting, workers, queues
<1>2. joined \in Workers /\ wpc \in [Workers -> Places] /\ bad \in BOOLEAN
  BY <1>1, TheWorkers DEF ProfileInv, ProfileType, Workers
<1>3. bad' \in BOOLEAN /\ (bad \/ wpc'[joined] # "exited" => bad')
  BY <1>1, <1>2
<1> QED
  BY <1>1, <1>2, <1>3, JoinedKeeps

LEMMA JoinTimesOutKeeps ==
    ASSUME ProfileInv, JoinTimesOut PROVE ProfileInv'
<1>1. /\ main = "join" /\ joined < Replicas /\ joined' = joined + 1 /\ bad' = TRUE
      /\ wpc' = [wpc EXCEPT ![joined] = "terminated"] /\ Sitting /\ UNCHANGED <<main, failed, got, cmds, answers>>
  BY DEF JoinTimesOut, Sitting, queues
<1>2. joined \in Workers /\ wpc \in [Workers -> Places]
  BY <1>1, TheWorkers DEF ProfileInv, ProfileType, Workers
<1>3. /\ wpc' \in [Workers -> Places] /\ wpc'[joined] \in Dead
      /\ \A r \in Workers : r # joined => wpc'[r] = wpc[r]
  BY <1>1, <1>2 DEF Places, Dead
<1> QED
  BY <1>1, <1>2, <1>3, JoinedKeeps

LEMMA ShutdownDoneKeeps ==
    ASSUME ProfileInv, ShutdownDone PROVE ProfileInv'
<1>1. /\ main = "join" /\ joined = Replicas /\ main' = (IF bad \/ failed THEN "raised" ELSE "done") /\ Sitting
      /\ UNCHANGED <<config, pool, current, prev, merged, counted, through, got, failed, joined, bad, wpc, atLayer, upstream, spill, cmds, answers>>
  BY DEF ShutdownDone, Sitting, workers, queues
<1>2. pool
  BY <1>1 DEF ProfileInv, LoopProgress
<1>3. LoopProgress' /\ Profiles'
  BY <1>1, <1>2, SittingKeeps
<1>4. ProfileType'
  BY <1>1 DEF ProfileInv, ProfileType, Mains
<1>5. Barrier'
  <2>1. ~failed => got = 0 /\ \A i \in 1 .. Len(answers) : answers[i].kind = "ERROR"
    BY <1>1, QuietNow
  <2> QED
    BY <1>1, <1>4, <2>1, QuietThen DEF ProfileType
<1>6. Crew'
  BY <1>1 DEF Crew, Between, Leaving
<1>7. Seen'
  <2>1. \A r \in Workers : wpc[r] \in Dead /\ (~bad => wpc[r] = "exited")
    BY <1>1 DEF ProfileInv, Seen, Workers
  <2> QED
    BY <1>1, <2>1 DEF Seen
<1> QED
  BY <1>3, <1>4, <1>5, <1>6, <1>7 DEF ProfileInv

----------------------------------------------------------------------------
(* Together                                                                *)

LEMMA ProfileStarts ==
    ASSUME ProfileInit PROVE ProfileInv
<1>1. /\ config \in Configs /\ pool = DpEnabled(config) /\ main = "layer" /\ current = 0 /\ prev = NoLayer
      /\ merged = config.completed /\ got = 0 /\ counted = [l \in MoeLayers |-> [s \in Seqs |-> 0]]
      /\ through = [l \in MoeLayers |-> {}] /\ failed = FALSE /\ joined = 0 /\ bad = FALSE
      /\ wpc = [r \in Workers |-> IF pool THEN "load" ELSE "exited"] /\ atLayer = [r \in Workers |-> NoLayer]
      /\ upstream = [r \in Workers |-> {}] /\ spill = [r \in Workers |-> [l \in MoeLayers |-> {}]]
      /\ cmds = [r \in Workers |-> <<>>] /\ answers = <<>>
  BY DEF ProfileInit
<1>2. Below(0) = {} /\ Below(0 - 1) = {}
  BY DEF Below
<1>3. ProfileType
  <2>1. /\ main \in Mains /\ current \in 0 .. NumMoe /\ joined \in 0 .. Replicas /\ NoLayer \in 0 .. NumMoe
        /\ main \notin {"merge", "acks", "dones"}
    BY <1>1, TheWorkers DEF Mains, NoLayer
  <2>2. /\ counted \in [MoeLayers -> [Seqs -> Nat]] /\ through \in [MoeLayers -> SUBSET SUBSET MoeLayers]
        /\ wpc \in [Workers -> Places]
    BY <1>1 DEF Places, Dead
  <2>3. /\ atLayer \in [Workers -> 0 .. NumMoe] /\ upstream \in [Workers -> SUBSET (0 .. NumMoe)]
        /\ spill \in [Workers -> [MoeLayers -> SUBSET SUBSET MoeLayers]]
        /\ cmds \in [Workers -> Seq(Messages)] /\ answers \in Seq(Messages)
    BY <1>1, <2>1
  <2> QED
    BY <1>1, <2>1, <2>2, <2>3 DEF ProfileType
<1>4. LoopProgress
  BY <1>1, <1>2 DEF LoopProgress, DpEnabled
<1>5. Profiles
  BY <1>1, <1>2 DEF Profiles
<1>6. Crew
  BY <1>1, <1>2 DEF Crew, Between, Leaving, Alive, Dead, Calm
<1>7. Barrier
  <2>1. {} \in SUBSET Workers /\ Cardinality({}) = 0
    BY FS_EmptySet
  <2>2. Len(answers) = 0
    BY <1>1
  <2>3. [i \in 1 .. 0 |-> 0] \in [1 .. 0 -> Workers]
    OBVIOUS
  <2>4. PICK who \in [1 .. 0 -> Workers] : TRUE
    BY <2>3
  <2>5. who \in [1 .. Len(answers) -> Workers] /\ 1 .. Len(answers) = {}
    BY <2>2, <2>4
  <2> QED
    BY <1>1, <2>1, <2>5 DEF Barrier
<1>8. Seen
  BY <1>1 DEF Seen
<1> QED
  BY <1>3, <1>4, <1>5, <1>6, <1>7, <1>8 DEF ProfileInv

LEMMA ProfileStutter ==
    ASSUME ProfileInv, UNCHANGED profileVars PROVE ProfileInv'
<1>1. UNCHANGED <<config, pool, main, current, prev, merged, got, counted, through, failed, joined, bad>>
  BY DEF profileVars, parent
<1>2. UNCHANGED <<wpc, atLayer, upstream, spill, cmds, answers>>
  BY DEF profileVars, workers, queues
<1>3. \A r : /\ Alive(r)' = Alive(r) /\ Calm(r)' = Calm(r) /\ Resyncing(r)' = Resyncing(r)
             /\ Profiling(r)' = Profiling(r) /\ Answered(r)' = Answered(r)
  BY <1>1, <1>2 DEF Alive, Calm, Resyncing, Profiling, Answered, Told, Waits, NoLayer
<1>4. /\ UNCHANGED <<Between, Leaving, Expected>> /\ \A l : Due(l)' = Due(l) /\ WellProfiled(l)' = WellProfiled(l)
  BY <1>1 DEF Between, Leaving, Expected, Due, WellProfiled, FullHit, Hydrated
<1>5. ProfileType' /\ LoopProgress' /\ Profiles' /\ Seen'
  BY <1>1, <1>2, <1>4 DEF ProfileInv, ProfileType, LoopProgress, NoLayer, Profiles, Seen
<1>6. Crew'
  BY <1>1, <1>2, <1>3, <1>4 DEF ProfileInv, Crew
<1>7. Barrier'
  BY <1>1, <1>2, <1>3, <1>4 DEF ProfileInv, Barrier
<1> QED
  BY <1>5, <1>6, <1>7 DEF ProfileInv

LEMMA ProfileStep ==
    ASSUME OuterHits, ProfileInv, [ProfileNext]_profileVars PROVE ProfileInv'
<1>1. CASE ParentStep
  BY <1>1, SkipKeeps, HitKeeps, SerialKeeps, BroadcastKeeps, CountAckKeeps, ResyncedKeeps, CountDoneKeeps,
     ReduceKeeps, MergeLayerKeeps, ErrorRaisedKeeps, LayersDoneKeeps, ShutdownKeeps, JoinKeeps, ShutdownDoneKeeps
     DEF ParentStep
<1>2. ASSUME NEW r \in Workers, WorkerStep(r) PROVE ProfileInv'
  BY <1>2, LoadedKeeps, FetchResyncKeeps, ReplayKeeps, FetchProfileKeeps, ProfileKeeps, DoneKeeps, FetchShutdownKeeps
     DEF WorkerStep
<1>3. CASE Fault
  BY <1>3, ParentRaisesKeeps, JoinTimesOutKeeps, RaiseKeeps, KillKeeps DEF Fault
<1>4. CASE Terminated \/ Stuck \/ UNCHANGED profileVars
  BY <1>4, ProfileStutter DEF Terminated, Stuck
<1> QED
  BY <1>1, <1>2, <1>3, <1>4 DEF ProfileNext

\* What the invariant says of the property.
LEMMA ProfileInvSound ==
    ASSUME ProfileInv PROVE ProfilesSound
<1>1. ProfileExact
  BY DEF ProfileInv, LoopProgress, Profiles, WellProfiled, ProfileExact
<1>2. AnswersFresh
  BY DEF ProfileInv, Barrier, Expected, AnswersFresh
<1>3. FailureSurfaces
  BY DEF ProfileInv, Seen, FailureSurfaces
<1>4. NoneLeft
  BY DEF ProfileInv, Seen, NoneLeft, LoopEnded, Dead
<1> QED
  BY <1>1, <1>2, <1>3, <1>4 DEF ProfilesSound

\* ProfilesSound of ProfileDp: for any number of layers, sequences, workers and
\* faults, every profile a layer is merged by counts every sequence once,
\* through exactly the merges below it; the answers a barrier counts are those
\* of this barrier; the loop ends well only if all workers did, and leaves none
\* behind.  The sidecar must not end a run of full hits inside the model:
\* without OuterHits the workers miss a merge.
THEOREM ProfilesAlwaysSound ==
    ASSUME OuterHits PROVE ProfileSpec => []ProfilesSound
<1>1. ProfileInit => ProfileInv
  BY ProfileStarts
<1>2. ProfileInv /\ [ProfileNext]_profileVars => ProfileInv'
  BY ProfileStep
<1>3. ProfileInv => ProfilesSound
  BY ProfileInvSound
<1> QED
  BY <1>1, <1>2, <1>3, PTL DEF ProfileSpec

----------------------------------------------------------------------------
(* Third part: the healing                                                 *)
(*                                                                         *)
(* HealSound speaks of the shards once they are complete.  The invariant   *)
(* follows them from the first row: full shards in order on disk and a     *)
(* rest in memory (Underway), then a short last shard (Closed), their      *)
(* companions one by one, the manifests writer by writer.                  *)

\* Before the capture of the healing, or while the layer is down.
Nothing ==
    phase \in {"dead", "snapshot"} =>
        /\ written = [w \in Writers |-> <<>>] /\ buffer = [w \in Writers |-> <<>>]
        /\ seen = [w \in Writers |-> [batches |-> 0, rows |-> 0]]
        /\ at = "nemo" /\ shared = 0

\* Every writer's directory has its three kinds of files.
Directories ==
    files = [w \in Writers |-> [inputs |-> files[w].inputs, shared |-> files[w].shared,
                                manifest |-> files[w].manifest]]

HealTypes ==
    /\ phase \in {"dead", "snapshot", "capture", "merge", "distill", "companions", "heal",
                  "train", "restore", "cleanup", "raised", "done", "failed"}
    /\ batches \in Corpora
    /\ Directories
    /\ written \in [Writers -> Seq(Nat)] /\ buffer = [w \in Writers |-> buffer[w]]
    /\ seen \in [Writers -> [batches : Nat, rows : Nat]]
    /\ at \in Writers /\ shared \in Nat
    /\ split \in [Writers -> SUBSET Nat]

\* Teachers are copies of the unmerged experts.
Teachers ==
    /\ phase \in {"dead", "snapshot", "capture"} =>
          \A e \in GroupedExperts : bank[e] = Unmerged(e)
    /\ phase \in {"capture", "merge", "distill"} /\ DistillSteps > 0 =>
          snapshot = [e \in GroupedExperts |-> Unmerged(e)]
    /\ toMerge \subseteq DOMAIN Groups
    /\ phase = "distill" /\ toMerge # {} => DistillSteps > 0
    /\ TaughtByOriginals

\* Row n of this attempt, as it must be captured.
GoodRow(w, n) == [run |-> trial, writer |-> w, row |-> n, unmerged |-> TRUE]

\* The n rows after the first base, and k full shards of rows after them.
InOrder(w, base, n) == [j \in 1 .. n |-> GoodRow(w, base + j)]
InShards(w, base, k) == [i \in 1 .. k |-> InOrder(w, base + (i - 1) * ShardRows, ShardRows)]

\* The shards of this attempt are on disk, whatever lies beyond them.
InputsOnDisk(w) ==
    \A i \in 1 .. Len(written[w]) :
        i \in DOMAIN files[w].inputs /\ files[w].inputs[i] = Slice(w, i)

\* A capture under way: full shards, and a rest in memory.
Underway(w) ==
    LET n == Len(written[w]) * ShardRows
    IN  /\ n <= seen[w].rows /\ seen[w].rows < n + ShardRows
        /\ buffer[w] = InOrder(w, n, seen[w].rows - n)

\* A finished one: the last shard may be short.
Closed(w) ==
    LET n == Len(written[w])
    IN  (n - 1) * ShardRows < seen[w].rows /\ seen[w].rows <= n * ShardRows

Capture ==
    /\ phase = "capture" =>
          /\ shared = 0
          /\ \A w \in Writers : InputsOnDisk(w)
          /\ \A w \in Writers : IF w = "nemo" /\ at = "xd" THEN Closed(w) ELSE Underway(w)
    /\ phase \in {"merge", "distill", "companions", "heal", "train", "restore"} /\ MergedGroups # {} =>
          \A w \in Writers : InputsOnDisk(w) /\ Closed(w)

\* The companions of the first n shards are their own.
Companions(w, n) ==
    \A i \in 1 .. n : i \in DOMAIN files[w].shared /\ files[w].shared[i] = files[w].inputs[i]

\* A writer with its manifest, some of its shards held out.
Finalized(w) ==
    /\ Companions(w, Len(written[w]))
    /\ files[w].manifest = 1 .. Len(written[w])
    /\ split[w] \subseteq 1 .. Len(written[w]) /\ split[w] # 1 .. Len(written[w])

Manifests ==
    /\ phase \in {"merge", "distill"} => at = "nemo" /\ shared = 0
    /\ phase = "companions" =>
          /\ shared <= Len(written[at]) /\ Companions(at, shared)
          /\ at # "nemo" => Finalized("nemo")
    /\ phase \in {"companions", "heal", "train", "restore", "cleanup"} => MergedGroups # {}
    /\ phase \in {"heal", "train", "restore"} => \A w \in Writers : Finalized(w)
    /\ phase \in {"dead", "snapshot", "capture", "merge", "distill"} => \A w \in Writers : split[w] = {}
    /\ ShardsGone

\* The holdout losses, the best of them, and what is kept.
Losing ==
    /\ \A s \in DOMAIN loss : s \in 0 .. step /\ loss[s] \in Losses \cup {NaN}
    /\ 0 \in DOMAIN loss /\ best \in DOMAIN loss
    /\ \A s \in DOMAIN loss : ~Less(loss[s], loss[best])
    /\ best # 0 => Less(loss[best], loss[0])

Training ==
    /\ phase \in {"dead", "snapshot", "capture", "merge", "distill", "companions", "heal"} =>
          step = 0 /\ trained = {} /\ best = 0
    /\ phase \in {"train", "restore"} => trained \subseteq RowsOf(split["nemo"])
    /\ step \in Nat
    /\ phase \in {"train", "restore", "cleanup"} => Losing
    /\ phase = "done" /\ MergedGroups # {} => Losing
    /\ phase \in {"cleanup", "done"} /\ MergedGroups # {} =>
          live.experts = best /\ live.router = RouterOf(best)

HealInv == HealTypes /\ Nothing /\ Teachers /\ Capture /\ Manifests /\ Training
----------------------------------------------------------------------------
(* The captures                                                            *)

LEMMA MinPair ==
    ASSUME NEW a \in Int, NEW b \in Int
    PROVE  Min({a, b}) = IF a <= b THEN a ELSE b
<1>1. \E x \in {a, b} : \A y \in {a, b} : x <= y
  OBVIOUS
<1>2. Min({a, b}) \in {a, b} /\ \A y \in {a, b} : Min({a, b}) <= y
  BY <1>1 DEF Min
<1> QED
  BY <1>2

\* Shards of lower numbers hold lower rows.
LEMMA ShardsBelow ==
    ASSUME NEW i \in Nat, NEW k \in Nat, i <= k
    PROVE  i * ShardRows <= k * ShardRows
<1>1. ShardRows \in Nat
  BY HealAssumption DEF CaptureBounds
<1>2. PICK d \in Nat : k = i + d
  <2> WITNESS k - i \in Nat
  <2> QED
    OBVIOUS
<1> DEFINE r == ShardRows
<1>3. d * r >= 0 /\ (i + d) * r = i * r + d * r
  <2> HIDE DEF r
  <2>1. r \in Nat
    BY <1>1 DEF r
  <2> QED
    BY <2>1, SMT
<1>4. i * r \in Nat /\ d * r \in Nat
  BY <1>1
<1> QED
  BY <1>2, <1>3, <1>4

LEMMA TimesRows ==
    ASSUME NEW i \in Int
    PROVE  /\ i * ShardRows \in Int /\ (i - 1) * ShardRows = i * ShardRows - ShardRows
           /\ (i + 1) * ShardRows = i * ShardRows + ShardRows /\ ShardRows \in Nat \ {0}
           /\ 0 * ShardRows = 0
<1>1. ShardRows \in Nat \ {0}
  BY HealAssumption DEF CaptureBounds
<1>2. ShardRows \in Int
  BY <1>1
<1> QED
  BY <1>1, <1>2, SMT

LEMMA SumTimes ==
    ASSUME NEW i \in Nat, NEW k \in Nat
    PROVE  (i + k) * ShardRows = i * ShardRows + k * ShardRows /\ i * ShardRows \in Nat /\ k * ShardRows \in Nat
<1>1. ShardRows \in Nat
  BY HealAssumption DEF CaptureBounds
<1> QED
  BY <1>1, SMT

LEMMA Divides ==
    ASSUME NEW n \in Nat
    PROVE  LET q == n \div ShardRows IN
           q \in Nat /\ q * ShardRows <= n /\ n < q * ShardRows + ShardRows
<1>1. ShardRows \in Nat \ {0}
  BY HealAssumption DEF CaptureBounds
<1> DEFINE r == ShardRows q == n \div r
<1>2. q \in Int /\ r * q <= n /\ n < r * (q + 1)
  <2> HIDE DEF r
  <2>1. r \in Nat \ {0}
    BY <1>1 DEF r
  <2> QED
    BY <2>1, SMT
<1>3. q >= 0
  <2> HIDE DEF r
  <2>1. r \in Nat \ {0}
    BY <1>1 DEF r
  <2> QED
    BY <2>1, SMT
<1>4. q * r = r * q /\ r * (q + 1) = q * r + r
  <2> HIDE DEF q, r
  <2>1. r \in Nat
    BY <1>1 DEF r
  <2>2. q \in Int
    BY <1>2
  <2> QED
    BY <2>1, <2>2, SMT
<1> QED
  BY <1>2, <1>3, <1>4

\* The rows of a full shard, and of a short last one.
LEMMA FullShard ==
    ASSUME NEW i \in Nat \ {0}, NEW r \in Nat, i * ShardRows <= r
    PROVE  Min({ShardRows, r - (i - 1) * ShardRows}) = ShardRows
<1>1. /\ i * ShardRows \in Int /\ (i - 1) * ShardRows = i * ShardRows - ShardRows
      /\ ShardRows \in Nat
  BY TimesRows
<1>2. ShardRows <= r - (i - 1) * ShardRows /\ r - (i - 1) * ShardRows \in Int
  BY <1>1
<1> QED
  BY <1>1, <1>2, MinPair

LEMMA ShortShard ==
    ASSUME NEW i \in Nat \ {0}, NEW r \in Nat, r <= i * ShardRows
    PROVE  Min({ShardRows, r - (i - 1) * ShardRows}) = r - (i - 1) * ShardRows
<1>1. /\ i * ShardRows \in Int /\ (i - 1) * ShardRows = i * ShardRows - ShardRows
      /\ ShardRows \in Nat
  BY TimesRows
<1>2. r - (i - 1) * ShardRows <= ShardRows /\ r - (i - 1) * ShardRows \in Int
  BY <1>1
<1>3. ShardRows <= r - (i - 1) * ShardRows => ShardRows = r - (i - 1) * ShardRows
  BY <1>1, <1>2
<1> QED
  BY <1>1, <1>2, <1>3, MinPair

\* Cutting rows in order leaves rows in order.
LEMMA CutInOrder ==
    ASSUME NEW w, NEW base \in Nat, NEW n \in Nat, NEW b, b = InOrder(w, base, n),
           NEW q, q = n \div ShardRows
    PROVE  Cut(b) = [full |-> InShards(w, base, q),
                     rest |-> InOrder(w, base + q * ShardRows, n - q * ShardRows)]
<1> USE DEF InOrder
<1>1. Len(b) = n
  OBVIOUS
<1>2. q \in Nat /\ q * ShardRows <= n /\ n < q * ShardRows + ShardRows
  BY Divides
<1>3. ShardRows \in Nat \ {0} /\ q * ShardRows \in Nat
  BY <1>2, TimesRows, SumTimes
<1>4. ASSUME NEW i \in 1 .. q
      PROVE  SubSeq(b, (i - 1) * ShardRows + 1, i * ShardRows)
                = [j \in 1 .. ShardRows |-> GoodRow(w, base + (i - 1) * ShardRows + j)]
  <2> DEFINE a == (i - 1) * ShardRows
  <2>1. a \in Nat /\ i * ShardRows = a + ShardRows /\ a + ShardRows <= n
    <3>1. i * ShardRows <= q * ShardRows
      BY <1>2, ShardsBelow
    <3>2. a \in Nat
      BY SumTimes, i - 1 \in Nat
    <3>3. i * ShardRows \in Int /\ a = i * ShardRows - ShardRows
      BY TimesRows
    <3> QED
      BY <1>2, <1>3, <3>1, <3>2, <3>3
  <2> HIDE DEF a
  <2>2. SubSeq(b, a + 1, a + ShardRows) = [j \in 1 .. ShardRows |-> b[j + a]]
    <3>1. 1 + (a + ShardRows) - (a + 1) = ShardRows
      BY <2>1, <1>3
    <3>2. SubSeq(b, a + 1, a + ShardRows)
             = [j \in 1 .. (1 + (a + ShardRows) - (a + 1)) |-> b[j + (a + 1) - 1]]
      BY <1>3, <2>1
    <3>3. \A j \in 1 .. ShardRows : j + (a + 1) - 1 = j + a
      BY <2>1
    <3> QED
      BY <3>1, <3>2, <3>3
  <2>3. ASSUME NEW j \in 1 .. ShardRows PROVE b[j + a] = GoodRow(w, base + a + j)
    <3>1. j + a \in 1 .. n /\ base + (j + a) = base + a + j
      BY <1>3, <2>1
    <3> QED
      BY <3>1
  <2> QED
    BY <2>1, <2>2, <2>3 DEF a
<1>5. SubSeq(b, q * ShardRows + 1, n)
         = [j \in 1 .. n - q * ShardRows |-> GoodRow(w, base + q * ShardRows + j)]
  <2> DEFINE a == q * ShardRows
  <2>0. a \in Nat /\ a <= n
    BY <1>2, <1>3
  <2> HIDE DEF a
  <2>1. SubSeq(b, a + 1, n) = [j \in 1 .. (1 + n - (a + 1)) |-> b[j + (a + 1) - 1]]
    BY <2>0
  <2>2. 1 + n - (a + 1) = n - a /\ \A j \in 1 .. n - a : j + (a + 1) - 1 = j + a
    BY <2>0
  <2>3. ASSUME NEW j \in 1 .. n - a PROVE b[j + a] = GoodRow(w, base + a + j)
    <3>1. j + a \in 1 .. n /\ base + (j + a) = base + a + j
      BY <2>0
    <3> QED
      BY <3>1
  <2>4. [j \in 1 .. (1 + n - (a + 1)) |-> b[j + (a + 1) - 1]] = [j \in 1 .. n - a |-> GoodRow(w, base + a + j)]
    BY <2>2, <2>3
  <2>5. SubSeq(b, a + 1, n) = [j \in 1 .. n - a |-> GoodRow(w, base + a + j)]
    BY <2>1, <2>4
  <2> QED
    BY <2>5 DEF a
<1> QED
  BY <1>1, <1>4, <1>5 DEF Cut, InShards

LEMMA FiniteSeq ==
    ASSUME NEW S, NEW n \in Nat, NEW s \in [1 .. n -> S]
    PROVE  s \in Seq(S) /\ Len(s) = n
<1>1. \A i \in 1 .. n : s[i] \in S
  OBVIOUS
<1>2. [i \in 1 .. n |-> s[i]] \in Seq(S)
  BY <1>1
<1>3. s = [i \in 1 .. n |-> s[i]]
  OBVIOUS
<1> QED
  BY <1>2, <1>3

\* What writing k shards does to the files and to the memory of their writer.
Lengthens(w, k, shards) ==
    LET n == Len(written[w])
    IN  /\ written' \in [Writers -> Seq(Nat)] /\ Len(written'[w]) = n + k
        /\ \A v \in Writers \ {w} : written'[v] = written[v] /\ files'[v] = files[v]
        /\ files' = [v \in Writers |-> [inputs |-> files'[v].inputs, shared |-> files[v].shared,
                                       manifest |-> files[v].manifest]]
        /\ \A i \in (1 .. n) \cap DOMAIN files[w].inputs :
              i \in DOMAIN files'[w].inputs /\ files'[w].inputs[i] = files[w].inputs[i]
        /\ \A i \in n + 1 .. n + k :
              i \in DOMAIN files'[w].inputs /\ files'[w].inputs[i] = shards[i - n]

LEMMA Flushed ==
    ASSUME HealTypes, NEW w \in Writers, NEW shards, NEW k \in Nat, Flush(w, shards),
           Len(shards) = k, DOMAIN shards = 1 .. k, \A i \in 1 .. k : Len(shards[i]) \in Nat
    PROVE  Lengthens(w, k, shards)
<1> DEFINE n == Len(written[w])
           new == [j \in DOMAIN files[w].inputs \cup (n + 1 .. n + k) |->
                      IF j > n /\ j <= n + k THEN shards[j - n] ELSE files[w].inputs[j]]
           lens == [i \in 1 .. k |-> Len(shards[i])]
<1>1. /\ files' = [files EXCEPT ![w].inputs = new]
      /\ written' = [written EXCEPT ![w] = @ \o lens]
  BY DEF Flush
<1>2. n \in Nat /\ written[w] \in Seq(Nat) /\ lens \in Seq(Nat) /\ Len(lens) = k
  <2>1. written[w] \in Seq(Nat)
    BY DEF HealTypes
  <2>2. lens \in [1 .. k -> Nat]
    OBVIOUS
  <2> HIDE DEF lens
  <2>3. lens \in Seq(Nat) /\ Len(lens) = k
    BY <2>2, FiniteSeq
  <2> QED
    BY <2>1, <2>3
<1>3. files = [v \in Writers |-> [inputs |-> files[v].inputs, shared |-> files[v].shared,
                                   manifest |-> files[v].manifest]]
  <2>1. Directories
    BY DEF HealTypes
  <2> QED
    BY <2>1, Zenon DEF Directories
<1> HIDE DEF n, new, lens
<1>4. written' \in [Writers -> Seq(Nat)] /\ Len(written'[w]) = n + k
      /\ \A v \in Writers \ {w} : written'[v] = written[v]
  <2>1. written \in [Writers -> Seq(Nat)]
    BY DEF HealTypes
  <2>2. written[w] \o lens \in Seq(Nat) /\ Len(written[w] \o lens) = n + k
    <3> DEFINE a == written[w]
    <3>1. a \in Seq(Nat) /\ n = Len(a)
      BY <1>2 DEF n
    <3> HIDE DEF a
    <3>2. a \o lens \in Seq(Nat) /\ Len(a \o lens) = n + k
      BY <1>2, <3>1, ConcatProperties
    <3> QED
      BY <3>2 DEF a
  <2> QED
    BY <1>1, <2>1, <2>2
<1>5. files' = [v \in Writers |-> IF v = w THEN [inputs |-> new, shared |-> files[w].shared,
                                                 manifest |-> files[w].manifest] ELSE files[v]]
  BY <1>1, <1>3
<1>6. ASSUME NEW i \in (1 .. n) \cap DOMAIN files[w].inputs
      PROVE  i \in DOMAIN new /\ new[i] = files[w].inputs[i]
  <2>1. ~(i > n /\ i <= n + k)
    BY <1>2
  <2> QED
    BY <2>1 DEF new
<1>7. ASSUME NEW i \in n + 1 .. n + k PROVE i \in DOMAIN new /\ new[i] = shards[i - n]
  BY <1>2 DEF new
<1>8. \A v \in Writers \ {w} : files'[v] = files[v]
  BY <1>5
<1>9. files' = [v \in Writers |-> [inputs |-> files'[v].inputs, shared |-> files[v].shared,
                                    manifest |-> files[v].manifest]]
  <2>1. ASSUME NEW v \in Writers
        PROVE  files'[v] = [inputs |-> files'[v].inputs, shared |-> files[v].shared,
                            manifest |-> files[v].manifest]
    BY <1>3, <1>5
  <2> QED
    BY <2>1, <1>5
<1> QED
  <2>1. files'[w].inputs = new
    BY <1>5
  <2> QED
    BY <1>4, <1>6, <1>7, <1>8, <1>9, <2>1 DEF n, Lengthens

LEMMA TheWriters == "nemo" \in Writers /\ \A w \in Writers : w \in {"nemo", "xd"}
  BY HealAssumption DEF CaptureBounds

\* The rows a batch adds to the capture.
LEMMA BatchRows ==
    ASSUME HealTypes, NEW w \in Writers, Capturing(w)
    PROVE  LET n == Min({batches[w][seen[w].batches + 1], Pool[w] - seen[w].rows})
           IN  n \in Nat /\ seen[w].batches + 1 \in Nat /\ seen[w].rows + n \in Nat
<1>1. batches[w] \in Seq(Nat)
  BY HealAssumption DEF CorpusBounds, HealTypes
<1>2. seen[w].batches \in Nat /\ seen[w].rows \in Nat /\ Pool[w] \in Nat
  BY HealAssumption DEF CaptureBounds, HealTypes
<1>3. Pool[w] - seen[w].rows \in Nat
  BY <1>2 DEF Capturing
<1>4. batches[w][seen[w].batches + 1] \in Nat
  <2>1. seen[w].batches + 1 \in 1 .. Len(batches[w])
    BY <1>1, <1>2 DEF Capturing
  <2> QED
    BY <1>1, <2>1
<1> QED
  BY <1>2, <1>3, <1>4, MinPair

\* One batch of m rows fills k shards: they follow the old ones, the rest
\* stays in memory.
Forwards(w, k, m, shards) ==
    LET n == Len(written[w]) * ShardRows
    IN  /\ k * ShardRows <= seen[w].rows + m - n
        /\ seen[w].rows + m - n < k * ShardRows + ShardRows
        /\ Flush(w, shards)
        /\ shards = InShards(w, n, k)
        /\ buffer' = [buffer EXCEPT ![w] = InOrder(w, n + k * ShardRows, (seen[w].rows + m - n) - k * ShardRows)]
        /\ seen' = [seen EXCEPT ![w] = [batches |-> seen[w].batches + 1, rows |-> seen[w].rows + m]]

LEMMA ForwardShards ==
    ASSUME HealInv, NEW w \in Writers, Forward(w)
    PROVE  \E k \in Nat : \E m \in Nat : \E shards : Forwards(w, k, m, shards)
<1> DEFINE n == Len(written[w]) * ShardRows
           m == Min({batches[w][seen[w].batches + 1], Pool[w] - seen[w].rows})
           rows == seen[w].rows
           l == rows + m - n
           k == l \div ShardRows
           b == buffer[w] \o [i \in 1 .. m |-> Row(w, rows + i)]
<1> USE DEF HealInv
<1>1. m \in Nat /\ rows \in Nat
  <2>1. Capturing(w)
    BY DEF Forward
  <2> QED
    BY <2>1, BatchRows DEF HealTypes
<1>2. n \in Nat /\ n <= rows
      /\ buffer[w] = InOrder(w, n, rows - n)
  <2>1. Underway(w)
    BY TheWriters DEF Capture, Forward
  <2>2. Len(written[w]) \in Nat
    BY DEF HealTypes
  <2> QED
    BY <2>1, <2>2, SumTimes DEF Underway
<1>3. \A i \in 1 .. m : Row(w, rows + i) = GoodRow(w, rows + i)
  BY DEF Row, GoodRow, Teachers, Forward
<1> HIDE DEF n, m, rows
<1>4. b = InOrder(w, n, l) /\ l \in Nat
  <2> DEFINE S == {GoodRow(w, i) : i \in Nat}
             d == rows - n
             s == [j \in 1 .. d |-> GoodRow(w, n + j)]
             t == [i \in 1 .. m |-> GoodRow(w, rows + i)]
             g == [j \in 1 .. l |-> GoodRow(w, n + j)]
  <2>1. l \in Nat /\ d \in Nat /\ l = d + m /\ rows = n + d
    BY <1>1, <1>2
  <2>2. s \in Seq(S) /\ Len(s) = d
    <3>1. s \in [1 .. d -> S]
      BY <1>2
    <3> QED
      BY <2>1, <3>1, FiniteSeq
  <2>3. t \in Seq(S) /\ Len(t) = m
    <3>1. t \in [1 .. m -> S]
      BY <1>1
    <3> QED
      BY <1>1, <3>1, FiniteSeq
  <2>4. g \in Seq(S) /\ Len(g) = l
    <3>1. g \in [1 .. l -> S]
      BY <1>2
    <3> QED
      BY <2>1, <3>1, FiniteSeq
  <2>5. b = s \o t
    BY <1>2, <1>3 DEF b, InOrder
  <2>6. ASSUME NEW j \in 1 .. l
        PROVE  (IF j <= d THEN s[j] ELSE t[j - d]) = g[j]
    <3>1. CASE j <= d
      BY <2>1, <3>1
    <3>2. CASE ~(j <= d)
      <4>1. j - d \in 1 .. m /\ rows + (j - d) = n + j
        BY <1>1, <1>2, <2>1, <3>2
      <4> QED
        BY <3>2, <4>1
    <3> QED
      BY <3>1, <3>2
  <2> HIDE DEF S, s, t, g, b, d
  <2>7. s \o t \in Seq(S) /\ Len(s \o t) = l
        /\ \A j \in 1 .. l : (s \o t)[j] = IF j <= d THEN s[j] ELSE t[j - d]
    BY <2>1, <2>2, <2>3, ConcatProperties
  <2>8. s \o t = g
    BY <2>4, <2>6, <2>7, SeqEqual
  <2> QED
    BY <2>1, <2>5, <2>8 DEF g, InOrder
<1> HIDE DEF l
<1>5. k \in Nat /\ k * ShardRows <= l /\ l < k * ShardRows + ShardRows
  BY <1>4, Divides
<1> DEFINE shards == InShards(w, n, k)
           rest == InOrder(w, n + k * ShardRows, l - k * ShardRows)
<1>6. Cut(b).full = shards /\ Cut(b).rest = rest
  <2> HIDE DEF b, k
  <2>0. k = l \div ShardRows
    BY DEF k
  <2>1. Cut(b) = [full |-> shards, rest |-> rest]
    BY <1>2, <1>4, <2>0, CutInOrder
  <2> QED
    BY <2>1
<1>7. /\ Flush(w, Cut(b).full)
      /\ buffer' = [buffer EXCEPT ![w] = Cut(b).rest]
      /\ seen' = [seen EXCEPT ![w] = [batches |-> seen[w].batches + 1, rows |-> rows + m]]
  BY DEF Forward, b, m, rows
<1> HIDE DEF b, k, shards, rest
<1>8. Flush(w, shards) /\ buffer' = [buffer EXCEPT ![w] = rest]
  BY <1>6, <1>7
<1>9. Forwards(w, k, m, shards)
  <2>1. shards = InShards(w, Len(written[w]) * ShardRows, k)
    BY DEF shards, n
  <2>2. buffer' = [buffer EXCEPT ![w] = InOrder(w, Len(written[w]) * ShardRows + k * ShardRows,
                      (seen[w].rows + m - Len(written[w]) * ShardRows) - k * ShardRows)]
    BY <1>8, Zenon DEF rest, n, l, rows
  <2>3. seen' = [seen EXCEPT ![w] = [batches |-> seen[w].batches + 1, rows |-> seen[w].rows + m]]
    BY <1>7 DEF rows
  <2>4. /\ k * ShardRows <= seen[w].rows + m - Len(written[w]) * ShardRows
        /\ seen[w].rows + m - Len(written[w]) * ShardRows < k * ShardRows + ShardRows
    BY <1>5 DEF n, l, rows
  <2> QED
    BY <1>8, <2>1, <2>2, <2>3, <2>4, Zenon DEF Forwards
<1> QED
  BY <1>1, <1>5, <1>9

LEMMA InShardsShape ==
    ASSUME NEW w, NEW base \in Nat, NEW k \in Nat
    PROVE  /\ Len(InShards(w, base, k)) = k /\ DOMAIN InShards(w, base, k) = 1 .. k
           /\ \A i \in 1 .. k : Len(InShards(w, base, k)[i]) \in Nat
<1>1. ShardRows \in Nat
  BY TimesRows, 0 \in Int
<1>2. ASSUME NEW i \in 1 .. k PROVE Len(InShards(w, base, k)[i]) \in Nat
  <2>1. Len(InOrder(w, base + (i - 1) * ShardRows, ShardRows)) = ShardRows
    BY <1>1 DEF InOrder
  <2> QED
    BY <1>1, <2>1 DEF InShards
<1> QED
  BY <1>2 DEF InShards

\* What a capture is does not depend on the other writers.
LEMMA SameCapture ==
    ASSUME NEW v \in Writers, files'[v].inputs = files[v].inputs, written'[v] = written[v],
           seen'[v] = seen[v], trial' = trial
    PROVE  /\ InputsOnDisk(v) => InputsOnDisk(v)'
           /\ Closed(v) => Closed(v)'
           /\ buffer'[v] = buffer[v] /\ Underway(v) => Underway(v)'
<1>1. \A i : Slice(v, i)' = Slice(v, i)
  BY DEF Slice
<1>2. \A a, n : InOrder(v, a, n)' = InOrder(v, a, n)
  BY DEF InOrder, GoodRow
<1>3. InputsOnDisk(v) => InputsOnDisk(v)'
  BY <1>1 DEF InputsOnDisk
<1>4. Closed(v) => Closed(v)'
  BY DEF Closed
<1>5. buffer'[v] = buffer[v] /\ Underway(v) => Underway(v)'
  BY <1>2 DEF Underway
<1> QED
  BY <1>3, <1>4, <1>5

LEMMA ForwardKeeps ==
    ASSUME HealInv, NEW w \in Writers, Forward(w) PROVE HealTypes' /\ Capture'
<1> USE DEF HealInv
<1> DEFINE n == Len(written[w])
           rows == seen[w].rows
<1>1. PICK k \in Nat : \E m \in Nat : \E shards : Forwards(w, k, m, shards)
  BY ForwardShards
<1>2. PICK m \in Nat : \E shards : Forwards(w, k, m, shards)
  BY <1>1
<1>3. PICK shards : Forwards(w, k, m, shards)
  BY <1>2
<1>4. n \in Nat /\ rows \in Nat /\ n * ShardRows \in Nat /\ k * ShardRows \in Nat
      /\ (n + k) * ShardRows = n * ShardRows + k * ShardRows
  <2>1. n \in Nat /\ rows \in Nat
    BY DEF HealTypes
  <2> HIDE DEF n, rows
  <2> QED
    BY <2>1, SumTimes
<1>5. shards = InShards(w, n * ShardRows, k) /\ Flush(w, shards)
  BY <1>3 DEF Forwards
<1>6. Len(shards) = k /\ DOMAIN shards = 1 .. k /\ \A i \in 1 .. k : Len(shards[i]) \in Nat
  BY <1>4, <1>5, InShardsShape
<1>7. /\ written' \in [Writers -> Seq(Nat)] /\ Len(written'[w]) = n + k
      /\ \A v \in Writers \ {w} : written'[v] = written[v] /\ files'[v] = files[v]
      /\ files' = [v \in Writers |-> [inputs |-> files'[v].inputs, shared |-> files[v].shared,
                                      manifest |-> files[v].manifest]]
      /\ \A i \in (1 .. n) \cap DOMAIN files[w].inputs :
            i \in DOMAIN files'[w].inputs /\ files'[w].inputs[i] = files[w].inputs[i]
      /\ \A i \in n + 1 .. n + k :
            i \in DOMAIN files'[w].inputs /\ files'[w].inputs[i] = shards[i - n]
  <2>1. Lengthens(w, k, shards)
    BY <1>5, <1>6, Flushed
  <2> QED
    BY <2>1 DEF Lengthens
<1>8. /\ phase' = phase /\ at' = at /\ shared' = shared /\ trial' = trial /\ batches' = batches
      /\ split' = split /\ phase = "capture" /\ at = w
  BY DEF Forward, trialState, healing
<1>9. seen' = [seen EXCEPT ![w] = [batches |-> seen[w].batches + 1, rows |-> rows + m]]
      /\ buffer' = [buffer EXCEPT ![w] = InOrder(w, n * ShardRows + k * ShardRows,
                                                 (rows + m - n * ShardRows) - k * ShardRows)]
      /\ k * ShardRows <= rows + m - n * ShardRows
      /\ rows + m - n * ShardRows < k * ShardRows + ShardRows
  BY <1>3 DEF Forwards
<1>10. seen' \in [Writers -> [batches : Nat, rows : Nat]] /\ seen'[w].rows = rows + m
       /\ \A v \in Writers \ {w} : seen'[v] = seen[v]
  <2>1. seen \in [Writers -> [batches : Nat, rows : Nat]] /\ seen[w].batches + 1 \in Nat
    BY DEF HealTypes
  <2>2. rows + m \in Nat
    BY <1>4
  <2> HIDE DEF rows
  <2> QED
    BY <1>9, <2>1, <2>2
<1>11. \A v \in Writers \ {w} : buffer'[v] = buffer[v]
  BY <1>9 DEF HealTypes
<1>12. HealTypes'
  <2>1. Directories'
    <3>1. \A v \in Writers : files'[v] = [inputs |-> files'[v].inputs, shared |-> files'[v].shared,
                                          manifest |-> files'[v].manifest]
      BY <1>7
    <3>2. files' = [v \in Writers |-> files'[v]]
      BY <1>7
    <3> QED
      BY <3>1, <3>2, Zenon DEF Directories
  <2>2. (buffer = [v \in Writers |-> buffer[v]])'
    BY <1>9 DEF HealTypes
  <2> QED
    BY <1>7, <1>8, <1>10, <2>1, <2>2 DEF HealTypes
<1>13. \A a, b : InOrder(w, a, b)' = InOrder(w, a, b)
  BY <1>8 DEF InOrder, GoodRow
<1>14. ShardRows \in Nat
  BY TimesRows, 0 \in Int
<1>15. Underway(w) /\ InputsOnDisk(w)
  BY <1>8, TheWriters DEF Capture
<1> HIDE DEF n, rows
<1>16. Underway(w)'
  <2>1. buffer'[w] = InOrder(w, (n + k) * ShardRows, (rows + m) - (n + k) * ShardRows)
    <3>1. (rows + m - n * ShardRows) - k * ShardRows = (rows + m) - (n + k) * ShardRows
      BY <1>4
    <3>2. buffer'[w] = InOrder(w, n * ShardRows + k * ShardRows,
                                  (rows + m - n * ShardRows) - k * ShardRows)
      BY <1>9 DEF HealTypes
    <3> QED
      BY <1>4, <3>1, <3>2
  <2>2. (n + k) * ShardRows <= rows + m /\ rows + m < (n + k) * ShardRows + ShardRows
    BY <1>4, <1>9, <1>14
  <2> QED
    BY <1>7, <1>10, <1>13, <2>1, <2>2 DEF Underway
<1>17. InputsOnDisk(w)'
  <2>1. SUFFICES ASSUME NEW i \in 1 .. n + k
                 PROVE  i \in DOMAIN files'[w].inputs /\ files'[w].inputs[i] = Slice(w, i)'
    BY <1>7 DEF InputsOnDisk
  <2>2. i \in Nat \ {0} /\ (n + k) * ShardRows <= rows + m /\ rows + m \in Nat
    BY <1>4, <1>9
  <2>3. Slice(w, i)' = InOrder(w, (i - 1) * ShardRows, ShardRows)
    <3>1. i * ShardRows <= (n + k) * ShardRows
      BY <1>4, ShardsBelow
    <3>2. i * ShardRows <= rows + m
      BY <1>4, <2>2, <3>1, TimesRows
    <3>3. Min({ShardRows, seen'[w].rows - (i - 1) * ShardRows}) = ShardRows
      BY <1>10, <2>2, <3>2, FullShard
    <3> QED
      BY <1>8, <3>3 DEF Slice, InOrder, GoodRow
  <2>4. CASE i <= n
    <3>1. i * ShardRows <= n * ShardRows
      BY <1>4, <2>4, ShardsBelow
    <3>2. i * ShardRows <= rows
      <4>1. n * ShardRows <= rows
        BY <1>15 DEF Underway, n, rows
      <4> QED
        BY <1>4, <2>2, <3>1, <4>1, TimesRows
    <3>3. Min({ShardRows, seen[w].rows - (i - 1) * ShardRows}) = ShardRows
      BY <1>4, <2>2, <3>2, FullShard DEF rows
    <3>4. Slice(w, i) = InOrder(w, (i - 1) * ShardRows, ShardRows)
      BY <3>3 DEF Slice, InOrder, GoodRow
    <3>5. i \in 1 .. n /\ i \in DOMAIN files[w].inputs /\ files[w].inputs[i] = Slice(w, i)
      BY <1>15, <2>4 DEF InputsOnDisk, n
    <3> QED
      BY <1>7, <2>3, <3>4, <3>5
  <2>5. CASE ~(i <= n)
    <3>1. i \in n + 1 .. n + k /\ i - n \in 1 .. k
      BY <1>4, <2>5
    <3>2. shards[i - n] = InOrder(w, n * ShardRows + (i - n - 1) * ShardRows, ShardRows)
      BY <1>5, <3>1 DEF InShards
    <3>3. n * ShardRows + (i - n - 1) * ShardRows = (i - 1) * ShardRows
      <4>1. i - n - 1 \in Nat /\ n + (i - n - 1) = i - 1
        BY <1>4, <3>1
      <4> QED
        BY <1>4, <4>1, SumTimes
    <3> QED
      BY <1>7, <2>3, <3>1, <3>2, <3>3
  <2> QED
    BY <2>4, <2>5
<1>18. \A v \in Writers \ {w} :
          /\ InputsOnDisk(v) => InputsOnDisk(v)'
          /\ Closed(v) => Closed(v)'
          /\ Underway(v) => Underway(v)'
  BY <1>7, <1>8, <1>10, <1>11, SameCapture
<1>19. Capture'
  <2>1. \A v \in Writers : InputsOnDisk(v)'
    BY <1>8, <1>17, <1>18 DEF Capture
  <2>2. \A v \in Writers : (IF v = "nemo" /\ at = "xd" THEN Closed(v) ELSE Underway(v))'
    BY <1>8, <1>16, <1>18 DEF Capture
  <2> QED
    BY <1>8, <2>1, <2>2 DEF Capture
<1> QED
  BY <1>12, <1>19

LEMMA ClosePendingKeeps ==
    ASSUME HealInv, NEW w \in Writers, ClosePending(w) PROVE HealTypes' /\ Capture'
<1> USE DEF HealInv
<1> DEFINE n == Len(written[w])
           rows == seen[w].rows
<1>1. /\ phase = "capture" /\ at = w /\ shared' = shared /\ shared = 0 /\ trial' = trial
      /\ batches' = batches /\ split' = split /\ seen' = seen
      /\ at' = IF w = "nemo" /\ "xd" \in Writers THEN "xd" ELSE "nemo"
      /\ buffer' = [buffer EXCEPT ![w] = <<>>]
      /\ phase' = IF seen[w].rows = 0 THEN "failed" ELSE IF at' = "nemo" THEN "merge" ELSE phase
  BY DEF ClosePending, trialState, healing, Capture
<1>2. n \in Nat /\ rows \in Nat /\ n * ShardRows \in Nat
      /\ (n + 1) * ShardRows = n * ShardRows + ShardRows
      /\ (n - 1) * ShardRows = n * ShardRows - ShardRows /\ ShardRows \in Nat \ {0}
  <2>1. n \in Nat /\ rows \in Nat
    BY DEF HealTypes
  <2> HIDE DEF n, rows
  <2> QED
    BY <2>1, SumTimes, TimesRows
<1>3. Underway(w) /\ InputsOnDisk(w)
  BY <1>1, TheWriters DEF Capture
<1>4. /\ n * ShardRows <= rows /\ rows < n * ShardRows + ShardRows
      /\ buffer[w] = InOrder(w, n * ShardRows, rows - n * ShardRows)
  BY <1>3 DEF Underway
<1>5. \A v \in Writers : buffer'[v] = IF v = w THEN <<>> ELSE buffer[v]
  BY <1>1 DEF HealTypes
<1>6. \A v \in Writers : (InputsOnDisk(v) /\ files'[v].inputs = files[v].inputs /\ written'[v] = written[v])
                            => InputsOnDisk(v)'
  BY <1>1, SameCapture
<1>7. \A v \in Writers \ {w} : files'[v].inputs = files[v].inputs /\ written'[v] = written[v] =>
          (Closed(v) => Closed(v)') /\ (Underway(v) => Underway(v)')
  BY <1>1, <1>5, SameCapture
<1> HIDE DEF n, rows
<1>8. buffer[w] \in Seq({GoodRow(w, i) : i \in Nat}) /\ Len(buffer[w]) = rows - n * ShardRows
  <2>1. buffer[w] \in [1 .. rows - n * ShardRows -> {GoodRow(w, i) : i \in Nat}]
    <3>1. \A j \in 1 .. rows - n * ShardRows : n * ShardRows + j \in Nat
      BY <1>2
    <3> QED
      BY <1>4, <3>1 DEF InOrder
  <2>2. rows - n * ShardRows \in Nat
    BY <1>2, <1>4
  <2> QED
    BY <2>1, <2>2, FiniteSeq
<1>9. /\ written' \in [Writers -> Seq(Nat)] /\ Directories'
      /\ \A v \in Writers \ {w} : files'[v].inputs = files[v].inputs /\ written'[v] = written[v]
      /\ InputsOnDisk(w)' /\ Closed(w)'
  <2>1. CASE buffer[w] = <<>>
    <3>1. files' = files /\ written' = written
      BY <2>1 DEF ClosePending
    <3>2. rows = n * ShardRows
      BY <1>2, <1>8, <2>1
    <3>3. Closed(w)
      BY <1>2, <3>2 DEF Closed, n, rows
    <3>4. Closed(w)'
      BY <1>1, <3>1, <3>3 DEF Closed
    <3> QED
      BY <1>3, <1>6, <3>1, <3>4 DEF HealTypes, Directories
  <2>2. CASE buffer[w] # <<>>
    <3> DEFINE shards == <<buffer[w]>>
    <3>1. Flush(w, shards)
      BY <2>2 DEF ClosePending
    <3>2. Len(shards) = 1 /\ DOMAIN shards = 1 .. 1 /\ \A i \in 1 .. 1 : Len(shards[i]) \in Nat
      BY <1>2, <1>4, <1>8
    <3>3. shards[1] = buffer[w]
      OBVIOUS
    <3> HIDE DEF shards
    <3>4. /\ written' \in [Writers -> Seq(Nat)] /\ Len(written'[w]) = n + 1
          /\ \A v \in Writers \ {w} : written'[v] = written[v] /\ files'[v] = files[v]
          /\ files' = [v \in Writers |-> [inputs |-> files'[v].inputs, shared |-> files[v].shared,
                                          manifest |-> files[v].manifest]]
          /\ \A i \in (1 .. n) \cap DOMAIN files[w].inputs :
                i \in DOMAIN files'[w].inputs /\ files'[w].inputs[i] = files[w].inputs[i]
          /\ \A i \in n + 1 .. n + 1 :
                i \in DOMAIN files'[w].inputs /\ files'[w].inputs[i] = shards[i - n]
      <4>1. PICK k \in Nat : k = 1
        OBVIOUS
      <4>2. Len(shards) = k /\ DOMAIN shards = 1 .. k /\ \A i \in 1 .. k : Len(shards[i]) \in Nat
        BY <3>2, <4>1
      <4>3. /\ written' \in [Writers -> Seq(Nat)] /\ Len(written'[w]) = n + k
            /\ \A v \in Writers \ {w} : written'[v] = written[v] /\ files'[v] = files[v]
            /\ files' = [v \in Writers |-> [inputs |-> files'[v].inputs, shared |-> files[v].shared,
                                            manifest |-> files[v].manifest]]
            /\ \A i \in (1 .. n) \cap DOMAIN files[w].inputs :
                  i \in DOMAIN files'[w].inputs /\ files'[w].inputs[i] = files[w].inputs[i]
            /\ \A i \in n + 1 .. n + k :
                  i \in DOMAIN files'[w].inputs /\ files'[w].inputs[i] = shards[i - n]
        <5>1. Lengthens(w, k, shards)
          BY <3>1, <4>2, Flushed
        <5> QED
          BY <5>1 DEF Lengthens, n
      <4> QED
        BY <4>1, <4>3
    <3>5. Directories'
      <4>1. \A v \in Writers : files'[v] = [inputs |-> files'[v].inputs, shared |-> files'[v].shared,
                                            manifest |-> files'[v].manifest]
        BY <3>4
      <4>2. files' = [v \in Writers |-> files'[v]]
        BY <3>4
      <4> QED
        BY <4>1, <4>2, Zenon DEF Directories
    <3>6. rows > n * ShardRows
      <4>1. buffer[w] # <<>> => Len(buffer[w]) # 0
        BY <1>8, EmptySeq
      <4> QED
        BY <1>2, <1>4, <1>8, <2>2, <4>1
    <3>7. Closed(w)'
      <4>1. (n + 1) - 1 = n /\ n * ShardRows < rows /\ rows <= (n + 1) * ShardRows
        BY <1>2, <1>4, <3>6
      <4> QED
        BY <1>1, <3>4, <4>1 DEF Closed, rows
    <3>8. ASSUME NEW i \in 1 .. n + 1
          PROVE  i \in DOMAIN files'[w].inputs /\ files'[w].inputs[i] = Slice(w, i)'
      <4>1. Slice(w, i)' = Slice(w, i)
        BY <1>1 DEF Slice
      <4>2. CASE i \in 1 .. n
        BY <1>3, <3>4, <4>1, <4>2 DEF InputsOnDisk, n
      <4>3. CASE i = n + 1
        <5>1. i - n = 1 /\ i \in n + 1 .. n + 1 /\ i - 1 = n
          BY <1>2, <4>3
        <5>2. Min({ShardRows, rows - (i - 1) * ShardRows}) = rows - (i - 1) * ShardRows
          <6>1. rows <= i * ShardRows /\ i \in Nat \ {0}
            BY <1>2, <1>4, <4>3
          <6> QED
            BY <1>2, <6>1, ShortShard
        <5>3. Slice(w, i) = InOrder(w, n * ShardRows, rows - n * ShardRows)
          BY <5>1, <5>2 DEF Slice, InOrder, GoodRow, rows
        <5> QED
          BY <1>4, <3>3, <3>4, <4>1, <5>1, <5>3
      <4> QED
        BY <1>2, <4>2, <4>3
    <3>9. InputsOnDisk(w)'
      BY <3>4, <3>8 DEF InputsOnDisk
    <3> QED
      BY <3>4, <3>5, <3>7, <3>9
  <2> QED
    BY <2>1, <2>2
<1>10. at' \in Writers /\ phase' \in {"failed", "merge", "capture"}
  BY <1>1, TheWriters
<1>11. HealTypes'
  <2>1. (buffer = [v \in Writers |-> buffer[v]])'
    BY <1>1 DEF HealTypes
  <2> QED
    BY <1>1, <1>9, <1>10, <2>1 DEF HealTypes
<1>12. \A v \in Writers : InputsOnDisk(v)'
  BY <1>1, <1>6, <1>9 DEF Capture
<1>13. CASE phase' = "capture"
  <2>1. at' = "xd" /\ w = "nemo"
    BY <1>1, <1>13
  <2>2. \A v \in Writers \ {w} : Underway(v)'
    BY <1>1, <1>7, <1>9, <2>1 DEF Capture
  <2> QED
    BY <1>1, <1>9, <1>11, <1>12, <1>13, <2>1, <2>2 DEF Capture
<1>14. CASE phase' = "merge"
  <2>1. \A v \in Writers \ {w} : Closed(v)
    BY <1>1, <1>14, TheWriters DEF Capture
  <2>2. \A v \in Writers : Closed(v)'
    BY <1>7, <1>9, <2>1
  <2> QED
    BY <1>11, <1>12, <1>14, <2>2 DEF Capture
<1>15. CASE phase' = "failed"
  BY <1>11, <1>15 DEF Capture
<1> QED
  BY <1>10, <1>11, <1>13, <1>14, <1>15

\* The steps that leave the captures alone.
Elsewhere ==
    /\ written' = written /\ buffer' = buffer /\ seen' = seen /\ trial' = trial
    /\ batches' = batches /\ \A v \in Writers : files'[v].inputs = files[v].inputs

LEMMA ElsewhereKeeps ==
    ASSUME Elsewhere, NEW v \in Writers, InputsOnDisk(v)
    PROVE  InputsOnDisk(v)' /\ (Closed(v) => Closed(v)')
  BY SameCapture DEF Elsewhere

LEMMA CaptureStep == ASSUME HealInv, [HealNext]_healVars PROVE HealTypes' /\ Capture'
<1> USE DEF HealInv
<1>0. \A n \in Nat : n * ShardRows \in Nat /\ ShardRows \in Nat \ {0} /\ 0 * ShardRows = 0
  BY SumTimes, TimesRows
<1>1. CASE Snapshot
  <2>1. /\ written' = written /\ buffer' = buffer /\ seen' = seen /\ trial' = trial
        /\ batches' = batches /\ files' = files /\ at' = at /\ shared' = shared /\ split' = split
        /\ phase = "snapshot" /\ phase' = IF MergedGroups = {} THEN "merge" ELSE "capture"
    BY <1>1 DEF Snapshot, trialState, capture, healing
  <2>2. HealTypes'
    BY <2>1 DEF HealTypes, Directories
  <2>3. /\ written = [w \in Writers |-> <<>>] /\ buffer = [w \in Writers |-> <<>>]
        /\ seen = [w \in Writers |-> [batches |-> 0, rows |-> 0]] /\ at = "nemo" /\ shared = 0
    BY <2>1 DEF Nothing
  <2>4. ASSUME NEW v \in Writers PROVE InputsOnDisk(v)' /\ Underway(v)'
    <3>1. written'[v] = <<>> /\ seen'[v].rows = 0 /\ buffer'[v] = <<>> /\ Len(<<>>) = 0
      BY <2>1, <2>3
    <3>2. InputsOnDisk(v)'
      BY <3>1 DEF InputsOnDisk
    <3>3. InOrder(v, 0, 0)' = <<>>
      BY DEF InOrder
    <3>4. Len(written'[v]) * ShardRows = 0 /\ seen'[v].rows - 0 = 0
      BY <1>0, <3>1
    <3>5. Underway(v)'
      BY <1>0, <3>1, <3>3, <3>4 DEF Underway
    <3> QED
      BY <3>2, <3>5
  <2> QED
    BY <2>1, <2>2, <2>3, <2>4 DEF Capture
<1>2. CASE MergeExperts \/ CutDown \/ Open \/ Train \/ Restore \/ \E c \in DOMAIN Groups : Distill(c)
  <2>1. Elsewhere /\ files' = files /\ at' = at /\ shared' = shared /\ split' = split
    BY <1>2 DEF MergeExperts, CutDown, Open, Train, Restore, Distill, Elsewhere, trialState, capture, healing
  <2>2. /\ phase \in {"merge", "distill", "companions", "heal", "train", "restore"}
        /\ phase' \in {"merge", "distill", "companions", "heal", "train", "restore", "cleanup",
                       "raised", "done"}
    BY <1>2 DEF MergeExperts, CutDown, Open, Train, Restore, Distill
  <2>3. HealTypes'
    BY <2>1, <2>2 DEF HealTypes, Directories, Elsewhere
  <2>4. ASSUME MergedGroups # {}, NEW v \in Writers PROVE InputsOnDisk(v)' /\ Closed(v)'
    BY <2>1, <2>2, <2>4, ElsewhereKeeps DEF Capture
  <2> QED
    BY <2>2, <2>3, <2>4 DEF Capture
<1>3. CASE \E w \in Writers : Companion(w) \/ Finalize(w)
  <2>1. PICK w \in Writers : Companion(w) \/ Finalize(w)
    BY <1>3
  <2>2. /\ written' = written /\ buffer' = buffer /\ seen' = seen /\ trial' = trial /\ batches' = batches
        /\ phase = "companions" /\ phase' \in {"companions", "heal", "raised"}
    BY <2>1 DEF Companion, Finalize, trialState, capture
  <2>3. /\ files' = [v \in Writers |-> [inputs |-> files[v].inputs, shared |-> files'[v].shared,
                                        manifest |-> files'[v].manifest]]
        /\ at' \in Writers /\ shared' \in Nat /\ split' \in [Writers -> SUBSET Nat]
    <3>1. Directories /\ split \in [Writers -> SUBSET Nat] /\ shared \in Nat /\ at \in Writers
          /\ Shards(w) \subseteq Nat
      BY DEF HealTypes, Shards
    <3>2. CASE Companion(w)
      <4>1. PICK x : files' = [files EXCEPT ![w].shared = x]
        BY <3>2 DEF Companion
      <4>2. files' = [v \in Writers |-> [inputs |-> files[v].inputs, shared |-> files'[v].shared,
                                         manifest |-> files'[v].manifest]]
        BY <3>1, <4>1 DEF Directories
      <4> QED
        BY <3>1, <3>2, <4>2 DEF Companion, healing
    <3>3. CASE Finalize(w)
      <4>1. files' = files \/ \E x : files' = [files EXCEPT ![w].manifest = x]
        BY <3>3 DEF Finalize
      <4>2. files' = [v \in Writers |-> [inputs |-> files[v].inputs, shared |-> files'[v].shared,
                                         manifest |-> files'[v].manifest]]
        BY <3>1, <4>1 DEF Directories
      <4>3. split' = split \/ \E T \in SUBSET Shards(w) : split' = [split EXCEPT ![w] = T]
        BY <3>3 DEF Finalize, kSubset
      <4>4. split' \in [Writers -> SUBSET Nat]
        BY <3>1, <4>3
      <4>5. at' \in Writers /\ shared' \in Nat
        BY <3>1, <3>3, TheWriters DEF Finalize
      <4> QED
        BY <4>2, <4>4, <4>5
    <3> QED
      BY <2>1, <3>2, <3>3
  <2>4. Directories'
    <3>1. \A v \in Writers : files'[v] = [inputs |-> files'[v].inputs, shared |-> files'[v].shared,
                                          manifest |-> files'[v].manifest]
      BY <2>3
    <3>2. files' = [v \in Writers |-> files'[v]]
      BY <2>3
    <3> QED
      BY <3>1, <3>2, Zenon DEF Directories
  <2>5. HealTypes'
    BY <2>2, <2>3, <2>4 DEF HealTypes
  <2>6. Elsewhere
    BY <2>2, <2>3 DEF Elsewhere
  <2>7. ASSUME MergedGroups # {}, NEW v \in Writers PROVE InputsOnDisk(v)' /\ Closed(v)'
    BY <2>2, <2>6, <2>7, ElsewhereKeeps DEF Capture
  <2> QED
    BY <2>2, <2>5, <2>7 DEF Capture
<1>4. CASE Cleanup
  <2>1. /\ written' = written /\ buffer' = buffer /\ seen' = seen /\ batches' = batches
        /\ at' = at /\ shared' = shared /\ split' = split /\ phase' \in {"done", "failed"}
        /\ files' = [w \in Writers |-> IF w \in CleanedUp THEN NoFiles ELSE files[w]]
    BY <1>4 DEF Cleanup, trialState, capture, healing
  <2>2. Directories'
    BY <2>1 DEF HealTypes, Directories, NoFiles
  <2> QED
    BY <2>1, <2>2 DEF HealTypes, Capture
<1>5. CASE Kill \/ Restart
  <2>1. batches' = batches /\ files' = files /\ phase' \in {"dead", "snapshot"}
    BY <1>5 DEF Kill, Restart
  <2>2. at' \in Writers /\ shared' \in Nat /\ split' \in [Writers -> SUBSET Nat]
        /\ written' \in [Writers -> Seq(Nat)] /\ buffer' = [w \in Writers |-> buffer'[w]]
        /\ seen' \in [Writers -> [batches : Nat, rows : Nat]]
    <3>1. CASE Kill
      BY <3>1, TheWriters DEF Kill, Fresh
    <3>2. CASE Restart
      BY <3>2 DEF Restart, HealTypes, capture, healing
    <3> QED
      BY <1>5, <3>1, <3>2
  <2>3. Directories'
    BY <2>1 DEF HealTypes, Directories
  <2> QED
    BY <2>1, <2>2, <2>3 DEF HealTypes, Capture
<1>6. CASE UNCHANGED healVars
  <2>1. Elsewhere /\ files' = files /\ at' = at /\ shared' = shared /\ split' = split /\ phase' = phase
    BY <1>6 DEF healVars, Elsewhere, trialState, capture, healing
  <2>2. HealTypes'
    BY <2>1 DEF HealTypes, Directories, Elsewhere
  <2>3. ASSUME NEW v \in Writers, InputsOnDisk(v)
        PROVE  InputsOnDisk(v)' /\ (Closed(v) => Closed(v)') /\ (Underway(v) => Underway(v)')
    BY <2>1, <2>3, SameCapture DEF Elsewhere
  <2> QED
    BY <2>1, <2>2, <2>3 DEF Capture
<1>7. CASE \E w \in Writers : Forward(w) \/ ClosePending(w)
  BY <1>7, ForwardKeeps, ClosePendingKeeps
<1> QED
  BY <1>1, <1>2, <1>3, <1>4, <1>5, <1>6, <1>7 DEF HealNext, HealingWork, HealEnded

----------------------------------------------------------------------------
(* The teachers, the manifests and the training                            *)

LEMMA NothingStep == ASSUME HealInv, [HealNext]_healVars PROVE Nothing'
<1> SUFFICES ASSUME phase' \in {"dead", "snapshot"} PROVE Nothing'
  BY DEF Nothing
<1>1. CASE Kill
  BY <1>1 DEF Kill, Fresh, Nothing
<1>2. CASE Restart
  BY <1>2 DEF Restart, HealInv, Nothing, capture
<1>3. CASE UNCHANGED healVars
  BY <1>3 DEF healVars, HealInv, Nothing, capture
<1>4. CASE Snapshot \/ MergeExperts \/ CutDown \/ Open \/ Train \/ Restore \/ Cleanup
           \/ \E c \in DOMAIN Groups : Distill(c)
  BY <1>4 DEF Snapshot, MergeExperts, CutDown, Open, Train, Restore, Cleanup, Distill
<1>5. CASE \E w \in Writers : Forward(w) \/ ClosePending(w) \/ Companion(w) \/ Finalize(w)
  BY <1>5 DEF Forward, ClosePending, Companion, Finalize
<1> QED
  BY <1>1, <1>2, <1>3, <1>4, <1>5 DEF HealNext, HealingWork, HealEnded

LEMMA TeachersStep == ASSUME HealInv, [HealNext]_healVars PROVE Teachers'
<1> USE DEF HealInv
<1>1. CASE Kill
  BY <1>1 DEF Kill, Fresh, Teachers, TaughtByOriginals
<1>2. CASE Snapshot
  <2>1. /\ phase = "snapshot" /\ phase' \in {"merge", "capture"} /\ bank' = bank /\ taught' = taught
        /\ toMerge' \in {{}, toMerge}
        /\ DistillSteps > 0 => snapshot' = [e \in GroupedExperts |-> bank[e]]
    BY <1>2 DEF Snapshot
  <2>2. DistillSteps > 0 => snapshot' = [e \in GroupedExperts |-> Unmerged(e)]
    BY <2>1 DEF Teachers
  <2> QED
    BY <2>1, <2>2 DEF Teachers, TaughtByOriginals
<1>3. CASE MergeExperts
  <2>1. /\ phase = "merge" /\ phase' = "distill" /\ snapshot' = snapshot /\ taught' = taught
        /\ toMerge' = IF DistillSteps > 0 THEN MergedGroups ELSE {}
    BY <1>3 DEF MergeExperts
  <2>2. toMerge' \subseteq DOMAIN Groups
    BY <2>1 DEF MergedGroups
  <2> QED
    BY <2>1, <2>2 DEF Teachers, TaughtByOriginals
<1>4. CASE \E c \in DOMAIN Groups : Distill(c)
  <2>1. PICK c \in DOMAIN Groups : Distill(c)
    BY <1>4
  <2>2. /\ phase = "distill" /\ phase' = phase /\ snapshot' = snapshot /\ c \in toMerge
        /\ toMerge' \in {toMerge, toMerge \ {c}} /\ taught' \in {taught, Put(taught, c, Teacher(c))}
    BY <2>1 DEF Distill
  <2>3. Teacher(c) = {Unmerged(e) : e \in Groups[c]}
    <3>1. snapshot = [e \in GroupedExperts |-> Unmerged(e)]
      BY <2>2 DEF Teachers
    <3>2. Groups[c] \subseteq GroupedExperts
      BY DEF GroupedExperts
    <3> QED
      BY <3>1, <3>2 DEF Teacher
  <2>4. TaughtByOriginals'
    <3>1. CASE taught' = taught
      BY <3>1 DEF Teachers, TaughtByOriginals
    <3>2. CASE taught' = Put(taught, c, Teacher(c))
      BY <2>3, <3>2 DEF Teachers, TaughtByOriginals, Put
    <3> QED
      BY <2>2, <3>1, <3>2
  <2>5. toMerge' \subseteq DOMAIN Groups /\ (toMerge' # {} => toMerge # {})
    BY <2>2 DEF Teachers
  <2> QED
    BY <2>2, <2>4, <2>5 DEF Teachers
<1>5. CASE CutDown \/ Open \/ Train \/ Restore \/ Cleanup
  <2>1. /\ taught' = taught /\ toMerge' = toMerge
        /\ phase' \notin {"dead", "snapshot", "capture", "merge", "distill"}
    BY <1>5 DEF CutDown, Open, Train, Restore, Cleanup, merging, HealTypes
  <2> QED
    BY <2>1 DEF Teachers, TaughtByOriginals
<1>6. CASE \E w \in Writers : Forward(w) \/ ClosePending(w) \/ Companion(w) \/ Finalize(w)
  <2>1. /\ taught' = taught /\ toMerge' = toMerge /\ bank' = bank /\ snapshot' = snapshot
        /\ phase' \in {"capture", "merge"} => phase = "capture"
        /\ phase' \notin {"dead", "snapshot", "distill"}
    BY <1>6 DEF Forward, ClosePending, Companion, Finalize, merging
  <2> QED
    BY <2>1 DEF Teachers, TaughtByOriginals
<1>7. CASE Restart \/ UNCHANGED healVars
  <2>1. /\ taught' = taught /\ toMerge' = toMerge /\ bank' = bank /\ snapshot' = snapshot
        /\ phase' = phase \/ (phase = "dead" /\ phase' = "snapshot")
    BY <1>7 DEF Restart, healVars, merging
  <2> QED
    BY <2>1 DEF Teachers, TaughtByOriginals
<1> QED
  BY <1>1, <1>2, <1>3, <1>4, <1>5, <1>6, <1>7 DEF HealNext, HealingWork, HealEnded

LEMMA SameManifest ==
    ASSUME NEW v \in Writers, files'[v] = files[v], written'[v] = written[v], split'[v] = split[v],
           Finalized(v)
    PROVE  Finalized(v)'
  BY DEF Finalized, Companions

\* A split leaves a shard out.
LEMMA SplitProper ==
    ASSUME NEW n \in Nat, n >= 2, NEW T \in kSubset(TrainCount(n), 1 .. n) PROVE T # 1 .. n
<1>1. Cardinality(T) = TrainCount(n)
  BY DEF kSubset
<1>2. TrainCount(n) # n
  <2>1. TrainPct * n \in Int /\ (TrainPct * n) \div 100 \in Int
    <3>1. TrainPct \in Int
      BY HealAssumption DEF LoopBounds
    <3>2. TrainPct * n \in Int
      BY <3>1
    <3> DEFINE x == TrainPct * n
    <3> HIDE DEF x
    <3>3. x \in Int => x \div 100 \in Int
      OBVIOUS
    <3> QED
      BY <3>2, <3>3 DEF x
  <2> DEFINE floor == (TrainPct * n) \div 100
             some == IF floor < 1 THEN 1 ELSE floor
  <2>2. TrainCount(n) = IF some >= n THEN n - 1 ELSE some
    BY DEF TrainCount
  <2>3. some \in Int
    BY <2>1
  <2> HIDE DEF some
  <2> QED
    BY <2>2, <2>3
<1>3. Cardinality(1 .. n) = n
  BY FS_Interval
<1> QED
  BY <1>1, <1>2, <1>3

LEMMA ManifestsStep == ASSUME HealInv, [HealNext]_healVars PROVE Manifests'
<1> USE DEF HealInv
<1>1. CASE Snapshot
  <2>1. /\ at' = "nemo" /\ shared' = 0 /\ phase = "snapshot" /\ phase' \in {"merge", "capture"}
        /\ split' = split
    BY <1>1 DEF Snapshot, Nothing, healing
  <2> QED
    BY <2>1 DEF Manifests, ShardsGone
<1>2. CASE \E w \in Writers : Forward(w)
  <2>1. phase = "capture" /\ phase' = phase /\ split' = split
    BY <1>2 DEF Forward, healing
  <2> QED
    BY <2>1 DEF Manifests, ShardsGone
<1>3. CASE \E w \in Writers : ClosePending(w)
  <2>1. /\ phase = "capture" /\ split' = split /\ shared' = 0
        /\ phase' \in {"failed", "capture"} \/ (phase' = "merge" /\ at' = "nemo")
    BY <1>3 DEF ClosePending, healing, Capture
  <2>2. \A w \in Writers : split'[w] = {}
    BY <2>1 DEF Manifests
  <2> QED
    BY <2>1, <2>2 DEF Manifests, ShardsGone
<1>4. CASE MergeExperts \/ \E c \in DOMAIN Groups : Distill(c)
  <2>1. /\ phase \in {"merge", "distill"} /\ phase' = "distill" /\ at' = at /\ shared' = shared
        /\ split' = split
    BY <1>4 DEF MergeExperts, Distill, healing
  <2> QED
    BY <2>1 DEF Manifests, ShardsGone
<1>5. CASE CutDown
  <2>1. /\ phase = "distill" /\ split' = split /\ at' = at /\ shared' = shared /\ written' = written
        /\ phase' = IF MergedGroups = {} THEN "done" ELSE "companions"
    BY <1>5 DEF CutDown, healing, capture
  <2>2. at = "nemo" /\ shared = 0 /\ \A w \in Writers : split[w] = {}
    BY <2>1 DEF Manifests
  <2>3. Len(written'["nemo"]) \in Nat
    BY <2>1, TheWriters DEF HealTypes
  <2>4. Companions("nemo", 0)'
    BY DEF Companions
  <2> QED
    BY <2>1, <2>2, <2>3, <2>4 DEF Manifests, ShardsGone
<1>6. ASSUME NEW w \in Writers, Companion(w) PROVE Manifests'
  <2>1. /\ phase = "companions" /\ at = w /\ shared < Len(written[w]) /\ phase' = phase /\ at' = at
        /\ split' = split /\ written' = written /\ shared' = shared + 1
        /\ files' = [files EXCEPT ![w].shared = Put(@, shared + 1, CompanionOf(w, shared + 1))]
    BY <1>6 DEF Companion, healing, capture
  <2>2. shared \in Nat /\ Len(written[w]) \in Nat /\ Companions(w, shared) /\ MergedGroups # {}
        /\ (w # "nemo" => Finalized("nemo"))
    BY <2>1 DEF HealTypes, Manifests
  <2>3. /\ files'[w].inputs = files[w].inputs
        /\ files'[w].shared = Put(files[w].shared, shared + 1, files[w].inputs[shared + 1])
        /\ \A v \in Writers \ {w} : files'[v] = files[v]
    <3>1. Directories
      BY DEF HealTypes
    <3> QED
      BY <2>1, <3>1 DEF Directories, CompanionOf
  <2>4. Companions(w, shared)'
    <3>1. SUFFICES ASSUME NEW i \in 1 .. shared + 1
                   PROVE  i \in DOMAIN files'[w].shared /\ files'[w].shared[i] = files'[w].inputs[i]
      BY <2>1 DEF Companions
    <3>2. CASE i = shared + 1
      BY <2>3, <3>2 DEF Put
    <3>3. CASE i # shared + 1
      <4>1. i \in 1 .. shared
        BY <2>2, <3>3
      <4> QED
        BY <2>2, <2>3, <3>3, <4>1 DEF Companions, Put
    <3> QED
      BY <3>2, <3>3
  <2>5. w # "nemo" => Finalized("nemo")'
    BY <2>1, <2>2, <2>3, SameManifest, TheWriters
  <2>6. Companions(at, shared)' /\ shared' <= Len(written'[at'])
    <3>1. shared + 1 <= Len(written[w])
      BY <2>1, <2>2
    <3> QED
      BY <2>1, <2>4, <3>1 DEF Companions
  <2> QED
    BY <2>1, <2>2, <2>5, <2>6 DEF Manifests, ShardsGone
<1>7. ASSUME NEW w \in Writers, Finalize(w) PROVE Manifests'
  <2>1. /\ phase = "companions" /\ at = w /\ shared = Len(written[w]) /\ written' = written
        /\ Companions(w, shared) /\ MergedGroups # {} /\ (w # "nemo" => Finalized("nemo"))
    BY <1>7 DEF Finalize, capture, Manifests
  <2> DEFINE n == Len(written[w])
  <2>2. n \in Nat /\ Shards(w) = 1 .. n /\ Cardinality(Shards(w)) = n
    <3>1. written[w] \in Seq(Nat)
      BY DEF HealTypes
    <3>2. n \in Nat /\ Shards(w) = 1 .. n
      BY <3>1 DEF Shards
    <3> QED
      BY <3>2, FS_Interval
  <2> HIDE DEF n
  <2>3. CASE phase' = "raised"
    BY <2>3 DEF Manifests, ShardsGone
  <2>4. CASE phase' # "raised"
    <3>1. /\ n >= 2 /\ shared' = 0 /\ files' = [files EXCEPT ![w].manifest = 1 .. n]
          /\ \E T \in kSubset(TrainCount(n), 1 .. n) : split' = [split EXCEPT ![w] = T]
          /\ at' = IF w = "nemo" /\ "xd" \in Writers THEN "xd" ELSE "nemo"
          /\ phase' = IF at' = "nemo" THEN "heal" ELSE phase
      BY <1>7, <2>2, <2>4 DEF Finalize
    <3>2. PICK T \in kSubset(TrainCount(n), 1 .. n) : split' = [split EXCEPT ![w] = T]
      BY <3>1
    <3>3. T \subseteq 1 .. n /\ T # 1 .. n
      <4>1. T \subseteq 1 .. n
        BY DEF kSubset
      <4> QED
        BY <2>2, <3>1, <4>1, SplitProper
    <3>4. /\ files'[w] = [inputs |-> files[w].inputs, shared |-> files[w].shared, manifest |-> 1 .. n]
          /\ \A v \in Writers \ {w} : files'[v] = files[v]
      <4>1. Directories
        BY DEF HealTypes
      <4> QED
        BY <3>1, <4>1 DEF Directories
    <3>5. split'[w] = T /\ \A v \in Writers \ {w} : split'[v] = split[v]
      BY <3>2 DEF HealTypes
    <3>6. Finalized(w)'
      <4>1. Companions(w, Len(written[w]))'
        BY <2>1, <3>4 DEF Companions
      <4>2. Len(written'[w]) = n /\ files'[w].manifest = 1 .. n
        BY <2>1, <3>4 DEF n
      <4> QED
        BY <3>3, <3>5, <4>1, <4>2 DEF Finalized
    <3>7. w # "nemo" => Finalized("nemo")'
      BY <2>1, <3>4, <3>5, SameManifest, TheWriters
    <3>8. CASE at' = "nemo"
      <4>1. \A v \in Writers : v \in {w, "nemo"}
        BY <3>1, <3>8, TheWriters
      <4>2. \A v \in Writers : Finalized(v)'
        BY <3>6, <3>7, <4>1
      <4> QED
        BY <2>1, <3>1, <3>8, <4>2 DEF Manifests, ShardsGone
    <3>9. CASE at' = "xd"
      <4>1. w = "nemo" /\ "xd" \in Writers /\ phase' = "companions"
        BY <2>1, <3>1, <3>9
      <4>2. Companions("xd", 0)' /\ Len(written'["xd"]) \in Nat
        BY <2>1, <4>1 DEF Companions, HealTypes
      <4> QED
        BY <2>1, <3>1, <3>6, <3>9, <4>1, <4>2 DEF Manifests, ShardsGone
    <3> QED
      BY <3>1, <3>8, <3>9
  <2> QED
    BY <2>3, <2>4
<1>8. CASE Open \/ Train \/ Restore
  <2>1. /\ files' = files /\ written' = written /\ split' = split
        /\ phase \in {"heal", "train", "restore"}
        /\ phase' \in {"train", "restore", "raised", "cleanup"}
        /\ phase = "restore" => phase' = "cleanup"
    BY <1>8 DEF Open, Train, Restore, capture
  <2>2. \A v \in Writers : Finalized(v)'
    BY <2>1, SameManifest DEF Manifests
  <2> QED
    BY <2>1, <2>2 DEF Manifests, ShardsGone
<1>9. CASE Cleanup
  <2>1. /\ phase' \in {"done", "failed"}
        /\ ~KeepShards => files' = [w \in Writers |-> NoFiles]
    BY <1>9 DEF Cleanup, CleanedUp
  <2> QED
    BY <2>1 DEF Manifests, ShardsGone
<1>10. CASE Kill
  <2>1. phase' = "dead" /\ \A w \in Writers : split'[w] = {}
    BY <1>10 DEF Kill, Fresh
  <2> QED
    BY <2>1 DEF Manifests, ShardsGone
<1>11. CASE Restart
  <2>1. phase = "dead" /\ phase' = "snapshot" /\ split' = split
    BY <1>11 DEF Restart, healing
  <2> QED
    BY <2>1 DEF Manifests, ShardsGone
<1>12. CASE UNCHANGED healVars
  <2>1. /\ files' = files /\ written' = written /\ split' = split /\ phase' = phase /\ at' = at
        /\ shared' = shared
    BY <1>12 DEF healVars, capture, healing
  <2> QED
    BY <2>1 DEF Manifests, ShardsGone, Finalized, Companions
<1> QED
  BY <1>1, <1>2, <1>3, <1>4, <1>5, <1>6, <1>7, <1>8, <1>9, <1>10, <1>11, <1>12
     DEF HealNext, HealingWork, HealEnded

LEMMA LessOrders ==
    ASSUME NEW a \in Losses \cup {NaN}, NEW b \in Losses \cup {NaN}, NEW c \in Losses \cup {NaN}
    PROVE  /\ ~Less(a, a)
           /\ Less(a, b) /\ Less(b, c) => Less(a, c)
           /\ Less(a, b) => ~Less(b, a)
<1>1. \A x \in Losses \cup {NaN} : x = NaN \/ x \in Nat
  BY HealAssumption DEF LossBounds
<1> QED
  BY <1>1 DEF Less

\* A training step that does not fail, on the shards S.
LEMMA TrainKeeps ==
    ASSUME HealInv, Train, phase' # "raised" PROVE Training'
<1> USE DEF HealInv
<1>1. /\ phase = "train" /\ files' = files /\ split' = split
      /\ step \in Nat /\ Losing /\ trained \subseteq RowsOf(split["nemo"])
  BY DEF Train, Training
<1>2. PICK S \in kSubset(DrawShards, split["nemo"]) :
         /\ trained' = trained \cup RowsOf(S) /\ step' = step + 1
         /\ IF (step + 1) % EvalInterval # 0
            THEN /\ phase' = IF step + 1 = MaxSteps THEN "restore" ELSE phase
                 /\ UNCHANGED <<loss, best, waits>>
            ELSE \E h \in Losses \cup {NaN} :
                    /\ loss' = Put(loss, step + 1, h)
                    /\ best' = Best(h)
                    /\ waits' = IF Improves(h, loss[best]) THEN 0 ELSE waits + 1
                    /\ phase' = IF Stops(h) THEN "restore" ELSE phase
  BY DEF Train
<1>3. phase' \in {"train", "restore"}
  BY <1>1, <1>2
<1>4. trained' \subseteq RowsOf(split["nemo"])'
  <2>1. S \subseteq split["nemo"]
    BY DEF kSubset
  <2>2. RowsOf(S) \subseteq RowsOf(split["nemo"])
    BY <2>1 DEF RowsOf
  <2>3. RowsOf(split["nemo"])' = RowsOf(split["nemo"])
    BY <1>1 DEF RowsOf
  <2> QED
    BY <1>1, <1>2, <2>2, <2>3
<1>5. Losing'
  <2>1. CASE loss' = loss /\ best' = best
    BY <1>1, <1>2, <2>1 DEF Losing
  <2>2. ASSUME NEW h \in Losses \cup {NaN}, loss' = Put(loss, step + 1, h), best' = Best(h)
        PROVE  Losing'
    <3>1. /\ DOMAIN loss' = DOMAIN loss \cup {step + 1} /\ loss'[step + 1] = h
          /\ \A s \in DOMAIN loss : loss'[s] = loss[s] /\ s \in 0 .. step
      <4>1. \A s \in DOMAIN loss : s \in 0 .. step /\ s # step + 1
        BY <1>1 DEF Losing
      <4> QED
        BY <2>2, <4>1 DEF Put
    <3>2. \A s \in DOMAIN loss' : s \in 0 .. step' /\ loss'[s] \in Losses \cup {NaN}
      <4>1. 0 .. step \subseteq 0 .. step + 1 /\ step + 1 \in 0 .. step + 1
        BY <1>1
      <4> QED
        BY <1>1, <1>2, <3>1, <4>1 DEF Losing
    <3>3. 0 \in DOMAIN loss' /\ loss'[0] = loss[0] /\ best \in DOMAIN loss /\ loss'[best] = loss[best]
          /\ best \in DOMAIN loss'
      BY <1>1, <3>1 DEF Losing
    <3>4. CASE Less(h, loss[best])
      <4>1. best' = step + 1 /\ loss'[best'] = h /\ best' \in DOMAIN loss' /\ best' # 0
        BY <1>1, <2>2, <3>1, <3>4 DEF Best
      <4>2. ASSUME NEW s \in DOMAIN loss' PROVE ~Less(loss'[s], loss'[best'])
        <5>1. CASE s = step + 1
          BY <3>1, <4>1, <5>1, LessOrders
        <5>2. CASE s \in DOMAIN loss
          <6>1. loss[s] \in Losses \cup {NaN} /\ loss[best] \in Losses \cup {NaN}
                /\ ~Less(loss[s], loss[best])
            BY <1>1, <5>2 DEF Losing
          <6>2. ~Less(loss[s], h)
            BY <3>4, <6>1, LessOrders
          <6> QED
            BY <3>1, <4>1, <5>2, <6>2
        <5> QED
          BY <3>1, <5>1, <5>2
      <4>3. Less(loss'[best'], loss'[0])
        <5>1. loss[0] \in Losses \cup {NaN} /\ loss[best] \in Losses \cup {NaN}
              /\ (best # 0 => Less(loss[best], loss[0]))
          BY <1>1 DEF Losing
        <5> QED
          BY <3>3, <3>4, <4>1, <5>1, LessOrders
      <4> QED
        BY <3>2, <3>3, <4>1, <4>2, <4>3 DEF Losing
    <3>5. CASE ~Less(h, loss[best])
      <4>1. best' = best
        BY <2>2, <3>5 DEF Best
      <4>2. ASSUME NEW s \in DOMAIN loss' PROVE ~Less(loss'[s], loss'[best'])
        BY <1>1, <3>1, <3>3, <3>5, <4>1 DEF Losing
      <4>3. best' # 0 => Less(loss'[best'], loss'[0])
        BY <1>1, <3>3, <4>1 DEF Losing
      <4> QED
        BY <3>2, <3>3, <4>1, <4>2, <4>3 DEF Losing
    <3> QED
      BY <3>4, <3>5
  <2> QED
    BY <1>2, <2>1, <2>2
<1> QED
  BY <1>1, <1>2, <1>3, <1>4, <1>5 DEF Training

LEMMA TrainingStep == ASSUME HealInv, [HealNext]_healVars PROVE Training'
<1> USE DEF HealInv
<1>1. CASE Kill
  BY <1>1 DEF Kill, Fresh, Training
<1>2. CASE \/ Snapshot \/ MergeExperts \/ CutDown \/ Restart \/ \E c \in DOMAIN Groups : Distill(c)
           \/ \E w \in Writers : Forward(w) \/ ClosePending(w) \/ Companion(w) \/ Finalize(w)
  <2>1. /\ step' = step /\ trained' = trained /\ best' = best
        /\ phase \in {"dead", "snapshot", "capture", "merge", "distill", "companions"}
        /\ \/ phase' \in {"dead", "snapshot", "capture", "merge", "distill", "companions", "heal",
                          "raised", "failed"}
           \/ phase' = "done" /\ MergedGroups = {}
    BY <1>2 DEF Snapshot, MergeExperts, CutDown, Restart, Distill, Forward, ClosePending, Companion,
                Finalize, healing
  <2> QED
    BY <2>1 DEF Training
<1>3. CASE Open
  <2>1. PICK h \in Losses \cup {NaN} : loss' = Put(<<>>, 0, h)
    BY <1>3 DEF Open
  <2>2. /\ step' = step /\ trained' = trained /\ best' = best /\ phase = "heal"
        /\ phase' \in {"train", "raised"}
    BY <1>3 DEF Open
  <2>3. step = 0 /\ trained = {} /\ best = 0
    BY <2>2 DEF Training
  <2>4. DOMAIN loss' = {0} /\ loss'[0] = h
    BY <2>1 DEF Put
  <2>5. Losing'
    BY <2>2, <2>3, <2>4, LessOrders DEF Losing
  <2> QED
    BY <2>2, <2>3, <2>5 DEF Training
<1>4. CASE Train
  <2>1. CASE phase' = "raised"
    BY <1>4, <2>1 DEF Train, Training
  <2> QED
    BY <1>4, <2>1, TrainKeeps
<1>5. CASE Restore
  <2>1. /\ phase = "restore" /\ phase' = "cleanup" /\ step' = step /\ best' = best /\ loss' = loss
        /\ live' = [experts |-> IF Accepted THEN best ELSE 0,
                    router |-> RouterOf(IF Accepted THEN best ELSE 0)]
    BY <1>5 DEF Restore
  <2>2. Losing /\ step \in Nat
    BY <2>1 DEF Training
  <2>3. (IF Accepted THEN best ELSE 0) = best
    BY <2>2 DEF Accepted, Losing
  <2>4. Losing'
    BY <2>1, <2>2 DEF Losing
  <2>5. live'.experts = best' /\ live'.router = RouterOf(best')
    BY <2>1, <2>3
  <2> QED
    BY <2>1, <2>2, <2>4, <2>5 DEF Training, RouterOf
<1>6. CASE Cleanup
  <2>1. /\ step' = step /\ best' = best /\ loss' = loss /\ live' = live
        /\ (phase = "cleanup" /\ phase' = "done") \/ phase' = "failed"
    BY <1>6 DEF Cleanup, healing
  <2> QED
    BY <2>1 DEF Training, Losing, RouterOf
<1>7. CASE UNCHANGED healVars
  <2>1. /\ step' = step /\ best' = best /\ loss' = loss /\ live' = live /\ trained' = trained
        /\ phase' = phase /\ files' = files /\ split' = split
    BY <1>7 DEF healVars, healing
  <2> QED
    BY <2>1 DEF Training, Losing, RouterOf, RowsOf
<1> QED
  BY <1>1, <1>2, <1>3, <1>4, <1>5, <1>6, <1>7 DEF HealNext, HealingWork, HealEnded

LEMMA HealStarts == HealInit => HealInv
<1> SUFFICES ASSUME HealInit PROVE HealInv
  OBVIOUS
<1>1. HealTypes
  <2>1. Directories
    BY DEF HealInit, Directories, NoFiles
  <2>2. written \in [Writers -> Seq(Nat)] /\ split \in [Writers -> SUBSET Nat]
        /\ seen \in [Writers -> [batches : Nat, rows : Nat]]
    BY DEF HealInit
  <2> QED
    BY <2>1, <2>2, TheWriters DEF HealTypes, HealInit
<1>2. Nothing /\ Teachers
  BY DEF HealInit, Nothing, Teachers, TaughtByOriginals
<1>3. Capture /\ Manifests /\ Training
  BY DEF HealInit, Capture, Manifests, Training, ShardsGone
<1> QED
  BY <1>1, <1>2, <1>3 DEF HealInv

\* Rows of different shards are different.
LEMMA ShardsApart ==
    ASSUME HealTypes, NEW w \in Writers, NEW i \in Nat, NEW k \in Nat, i # 0, k # 0, i < k
    PROVE  Range(Slice(w, i)) \cap Range(Slice(w, k)) = {}
<1>1. /\ i * ShardRows <= (k - 1) * ShardRows /\ i * ShardRows \in Int /\ (k - 1) * ShardRows \in Int
      /\ (i - 1) * ShardRows = i * ShardRows - ShardRows /\ ShardRows \in Int
  <2>1. k - 1 \in Nat /\ i <= k - 1
    OBVIOUS
  <2>2. i * ShardRows <= (k - 1) * ShardRows
    BY <2>1, ShardsBelow
  <2>3. (k - 1) * ShardRows \in Int
    BY <2>1, TimesRows
  <2> QED
    BY <2>2, <2>3, TimesRows
<1>2. ASSUME NEW m \in Nat \ {0}
      PROVE  \A x \in Range(Slice(w, m)) :
                x.row \in Int /\ (m - 1) * ShardRows < x.row /\ x.row <= (m - 1) * ShardRows + ShardRows
  <2>1. (m - 1) * ShardRows \in Int
    BY TimesRows, m - 1 \in Int
  <2>2. seen[w].rows \in Nat
    BY DEF HealTypes
  <2> DEFINE a == (m - 1) * ShardRows
             d == Min({ShardRows, seen[w].rows - a})
  <2>3. d \in Int /\ d <= ShardRows
    <3> HIDE DEF a
    <3>1. a \in Int
      BY <2>1 DEF a
    <3> QED
      BY <1>1, <2>2, <3>1, MinPair
  <2>4. ASSUME NEW x \in Range(Slice(w, m)) PROVE \E j \in 1 .. d : x.row = a + j
    <3>1. Slice(w, m) = [j \in 1 .. d |-> [run |-> trial, writer |-> w, row |-> a + j, unmerged |-> TRUE]]
      BY DEF Slice
    <3> HIDE DEF a, d
    <3>2. PICK j \in 1 .. d : x = [run |-> trial, writer |-> w, row |-> a + j, unmerged |-> TRUE]
      BY <3>1 DEF Range
    <3> QED
      BY <3>2
  <2> HIDE DEF a, d
  <2>5. a \in Int
    BY <2>1 DEF a
  <2>6. ASSUME NEW x \in Range(Slice(w, m)) PROVE x.row \in Int /\ a < x.row /\ x.row <= a + ShardRows
    BY <1>1, <2>3, <2>4, <2>5
  <2> QED
    BY <2>6 DEF a
<1> DEFINE a == (i - 1) * ShardRows
           b == (k - 1) * ShardRows
<1>3. a + ShardRows <= b /\ a \in Int /\ b \in Int
  BY <1>1
<1>4. ASSUME NEW x, x \in Range(Slice(w, i)), x \in Range(Slice(w, k)) PROVE FALSE
  <2>1. x.row \in Int /\ x.row <= a + ShardRows
    BY <1>2, <1>4
  <2>2. b < x.row
    BY <1>2, <1>4
  <2> HIDE DEF a, b
  <2> QED
    BY <1>1, <1>3, <2>1, <2>2
<1> QED
  BY <1>4

LEMMA Judged == ASSUME HealInv PROVE HoldoutUntouched
<1> USE DEF HealInv
<1> SUFFICES ASSUME phase \in {"train", "restore"} PROVE HoldoutUntouched
  BY DEF HoldoutUntouched
<1> DEFINE n == Len(written["nemo"])
           s == split["nemo"]
<1>1. Finalized("nemo") /\ InputsOnDisk("nemo") /\ trained \subseteq RowsOf(s)
  BY TheWriters DEF Manifests, Capture, Training
<1>2. n \in Nat /\ Shards("nemo") = 1 .. n
  <2>1. written["nemo"] \in Seq(Nat)
    BY TheWriters DEF HealTypes
  <2> QED
    BY <2>1 DEF Shards
<1>3. s \subseteq 1 .. n /\ s # 1 .. n /\ \A i \in 1 .. n : files["nemo"].inputs[i] = Slice("nemo", i)
  BY <1>1 DEF Finalized, InputsOnDisk
<1> HIDE DEF n, s
<1>4. Held("nemo") = (1 .. n) \ s
  BY <1>2 DEF Held, s
<1>5. RowsOf(s) \cap RowsOf(Held("nemo")) = {}
  <2>1. SUFFICES ASSUME NEW i \in s, NEW k \in (1 .. n) \ s,
                        NEW x, x \in Range(Slice("nemo", i)), x \in Range(Slice("nemo", k))
                 PROVE  FALSE
    BY <1>3, <1>4 DEF RowsOf
  <2>2. i \in Nat /\ k \in Nat /\ i # 0 /\ k # 0 /\ (i < k \/ k < i)
    BY <1>2, <1>3
  <2> QED
    BY <2>1, <2>2, ShardsApart, TheWriters
<1>6. \A x \in RowsOf(s) : x.writer = "nemo"
  <2>1. \A i : \A x \in Range(Slice("nemo", i)) : x.writer = "nemo"
    BY DEF Range, Slice
  <2> QED
    BY <1>3, <2>1 DEF RowsOf
<1> QED
  BY <1>1, <1>3, <1>4, <1>5, <1>6 DEF HoldoutUntouched

LEMMA Captured == ASSUME HealInv PROVE CaptureExact
<1> USE DEF HealInv
<1> SUFFICES ASSUME phase \in {"train", "restore"}, NEW w \in Writers
             PROVE  LET n == Len(written[w]) IN
                    /\ files[w].manifest = 1 .. n
                    /\ (n - 1) * ShardRows < seen[w].rows /\ seen[w].rows <= n * ShardRows
                    /\ \A i \in 1 .. n : Read(w, i) = [rows |-> Slice(w, i), shared |-> Slice(w, i)]
  BY DEF CaptureExact
<1>1. MergedGroups # {} /\ Finalized(w)
  BY DEF Manifests
<1>2. InputsOnDisk(w) /\ Closed(w)
  BY <1>1 DEF Capture
<1> QED
  BY <1>1, <1>2 DEF Finalized, Companions, InputsOnDisk, Closed, Read

LEMMA KeptBest == ASSUME HealInv PROVE NeverWorse
<1> SUFFICES ASSUME phase = "done", MergedGroups # {} PROVE NeverWorse
  BY DEF NeverWorse
<1>1. Losing /\ live.experts = best /\ live.router = RouterOf(best)
  BY DEF HealInv, Training
<1> QED
  BY <1>1 DEF NeverWorse, Losing

\* Killed at any moment and restarted any number of times, a layer that is
\* healed trains on its own capture only, never on what judges it, from
\* teachers as they were before the merge, and ends with the weights that were
\* measured best, its shards gone.
THEOREM HealingSound == HealSpec => []HealSound
<1>1. HealInv /\ [HealNext]_healVars => HealInv'
  <2> SUFFICES ASSUME HealInv, [HealNext]_healVars PROVE HealInv'
    OBVIOUS
  <2>1. HealTypes' /\ Capture'
    BY CaptureStep
  <2>2. Nothing' /\ Teachers' /\ Manifests' /\ Training'
    BY NothingStep, TeachersStep, ManifestsStep, TrainingStep
  <2> QED
    BY <2>1, <2>2 DEF HealInv
<1>2. HealInv => HealSound
  BY Captured, Judged, KeptBest DEF HealInv, HealSound, Teachers, Manifests
<1> QED
  BY <1>1, <1>2, HealStarts, PTL DEF HealSpec

----------------------------------------------------------------------------
(* Fourth part: the assignment and the bump loop                           *)
(*                                                                         *)
(* A solver promises allowed pairs and, but for Sinkhorn's rounding, the   *)
(* cap; 2-opt moves keep the promise.  Centroids and children divide the   *)
(* unprotected experts, so the groups settled on cover them without        *)
(* overlap, and folding the groups in place, in any order, finds every     *)
(* member as it was.  The target rises with every attempt, so the attempts *)
(* do not run out before the target has reached all experts.               *)

----------------------------------------------------------------------------
(* Solvers                                                                 *)

\* A cost matrix of n children and m centroids, an assignment without
\* forbidden pairs, and one that keeps the cap.
Matrix(n, m) == [1 .. n -> [1 .. m -> Nat]]
Allowed(d, n, m, a) ==
    a \in [1 .. n -> 0 .. m] /\ \A i \in 1 .. n : a[i] # 0 => d[i][a[i]] < Inf
Capped(n, m, cap, a) == \A k \in 1 .. m : Cardinality(Group(a, k)) <= cap

\* The first cheapest of some centroids is one of them.
LEMMA CheapestIsOne ==
    ASSUME NEW d, NEW i, NEW m \in Nat, d[i] \in [1 .. m -> Nat],
           NEW K \in SUBSET (1 .. m), K # {}
    PROVE  FirstCheapest(d, i, K) \in K
<1> DEFINE costs == {d[i][k] : k \in K}
<1>1. PICK c \in costs : \A x \in costs : c <= x
  <2>1. costs \subseteq Nat /\ costs # {}
    OBVIOUS
  <2> QED
    BY <2>1, LeastOf
<1> DEFINE top == {k \in K : d[i][k] = c}
<1>2. PICK k \in top : \A j \in top : k <= j
  <2>1. \E k \in K : d[i][k] = c
    BY <1>1
  <2>2. top # {}
    BY <2>1
  <2>3. top \subseteq K
    OBVIOUS
  <2>4. K \subseteq Nat
    OBVIOUS
  <2> QED
    BY <2>2, <2>3, <2>4, LeastOf
<1>3. k \in K /\ \A j \in K : d[i][k] < d[i][j] \/ (d[i][k] = d[i][j] /\ k <= j)
  <2>1. ASSUME NEW j \in K PROVE d[i][k] < d[i][j] \/ (d[i][k] = d[i][j] /\ k <= j)
    <3>1. c \in Nat /\ d[i][j] \in Nat /\ d[i][k] = c /\ c <= d[i][j]
      BY <1>1, <1>2
    <3>2. CASE d[i][j] = c
      BY <1>2, <3>1, <3>2
    <3> QED
      BY <3>1, <3>2
  <2> QED
    BY <1>2, <2>1
<1> QED
  BY <1>3 DEF FirstCheapest

\* Groups of an assignment are finite.
LEMMA GroupFinite ==
    ASSUME NEW n \in Nat, NEW m \in Nat, NEW a, a \in [1 .. n -> 0 .. m], NEW k
    PROVE  /\ Group(a, k) \subseteq 1 .. n /\ IsFiniteSet(Group(a, k))
           /\ Cardinality(Group(a, k)) \in Nat
<1>1. IsFiniteSet(1 .. n) /\ Cardinality(1 .. n) = n
  BY UpToFacts
<1>2. Group(a, k) \in SUBSET (1 .. n)
  BY DEF Group
<1>3. IsFiniteSet(Group(a, k)) /\ Cardinality(Group(a, k)) <= n
  BY <1>1, <1>2, FS_Subset
<1>4. Cardinality(Group(a, k)) \in Nat
  BY <1>3, FS_CardinalityType
<1> QED
  BY <1>2, <1>3, <1>4

\* Nobody is placed.
LEMMA NobodyPlaced ==
    ASSUME NEW n \in Nat, NEW m \in Nat, NEW d \in Matrix(n, m), NEW cap \in Nat
    PROVE  LET a == [i \in 1 .. n |-> 0] IN Allowed(d, n, m, a) /\ Capped(n, m, cap, a)
<1> DEFINE a == [i \in 1 .. n |-> 0]
<1>1. \A k \in 1 .. m : Group(a, k) = {}
  BY DEF Group
<1>2. Capped(n, m, cap, a)
  BY <1>1, FS_EmptySet DEF Capped
<1> QED
  BY <1>2 DEF Allowed

\* The greedy solver without a cap.
LEMMA FreeIsAllowed ==
    ASSUME NEW n \in Nat, NEW m \in Nat, NEW d \in Matrix(n, m)
    PROVE  Allowed(d, n, m, GreedyFree(d))
<1>1. DOMAIN d = 1 .. n
  BY DEF Matrix
<1>2. ASSUME NEW i \in 1 .. n, Finite(d, i) # {} PROVE FirstCheapest(d, i, Finite(d, i)) \in Finite(d, i)
  <2>1. Finite(d, i) \in SUBSET (1 .. m) /\ d[i] \in [1 .. m -> Nat]
    BY DEF Finite, Matrix
  <2> QED
    BY <1>2, <2>1, CheapestIsOne
<1>3. ASSUME NEW i \in 1 .. n
      PROVE  /\ GreedyFree(d)[i] \in 0 .. m
             /\ GreedyFree(d)[i] # 0 => d[i][GreedyFree(d)[i]] < Inf
  <2>1. CASE Finite(d, i) = {}
    BY <1>1, <2>1 DEF GreedyFree
  <2>2. CASE Finite(d, i) # {}
    <3>1. GreedyFree(d)[i] \in Finite(d, i)
      BY <1>1, <1>2, <2>2 DEF GreedyFree
    <3>2. DOMAIN d[i] = 1 .. m
      BY DEF Matrix
    <3> QED
      BY <3>1, <3>2 DEF Finite
  <2> QED
    BY <2>1, <2>2
<1> QED
  BY <1>1, <1>3 DEF Allowed, GreedyFree

\* What a centroid takes is at most the cap.
LEMMA TakesAtMost ==
    ASSUME NEW n \in Nat, NEW m \in Nat, NEW d \in Matrix(n, m), NEW k \in 1 .. m,
           NEW cap \in Nat, NEW free \in SUBSET (1 .. n)
    PROVE  /\ Takes(d, k, cap, free) \subseteq free
           /\ IsFiniteSet(Takes(d, k, cap, free))
           /\ Cardinality(Takes(d, k, cap, free)) <= cap
<1> DEFINE R == {p \in free \X free : p[1] # p[2] /\ NoDearer(d, k, p[1], p[2])}
<1>1. IsFiniteSet(free)
  BY UpToFacts, FS_Subset
<1>2. \A i \in free : i \in Nat /\ d[i][k] \in Nat
  BY DEF Matrix
<1>3. \A i, j \in free : <<i, j>> \in R <=> i # j /\ NoDearer(d, k, i, j)
  OBVIOUS
<1> HIDE DEF R
<1>4. Strict(R, free)
  <2>1. \A p \in free : <<p, p>> \notin R
    BY <1>3
  <2>2. \A p, q, r \in free : <<p, q>> \in R /\ <<q, r>> \in R => <<p, r>> \in R
    BY <1>2, <1>3 DEF NoDearer
  <2>3. \A p, q \in free : p # q => <<p, q>> \in R \/ <<q, p>> \in R
    BY <1>2, <1>3 DEF NoDearer
  <2> QED
    BY <2>1, <2>2, <2>3 DEF Strict
<1>5. ASSUME NEW i \in free
      PROVE  Cardinality({j \in free : NoDearer(d, k, j, i)}) <= cap
                <=> Cardinality(Ahead(free, R, i)) < cap
  <2>1. {j \in free : NoDearer(d, k, j, i)} = Ahead(free, R, i) \cup {i}
    <3>1. NoDearer(d, k, i, i)
      BY <1>2 DEF NoDearer
    <3>2. \A j \in free : j \in Ahead(free, R, i) <=> j # i /\ NoDearer(d, k, j, i)
      BY <1>3 DEF Ahead
    <3>3. Ahead(free, R, i) \subseteq free
      BY DEF Ahead
    <3> QED
      BY <3>1, <3>2, <3>3
  <2>2. i \notin Ahead(free, R, i) /\ Ahead(free, R, i) \in SUBSET free
    BY <1>3 DEF Ahead
  <2>3. IsFiniteSet(Ahead(free, R, i))
    BY <1>1, <2>2, FS_Subset
  <2>4. Cardinality(Ahead(free, R, i) \cup {i}) = Cardinality(Ahead(free, R, i)) + 1
    BY <2>2, <2>3, FS_AddElement
  <2>5. Cardinality(Ahead(free, R, i)) \in Nat
    BY <2>3, FS_CardinalityType
  <2> QED
    BY <2>1, <2>4, <2>5
<1>6. Takes(d, k, cap, free) = First(free, R, cap)
  BY <1>5 DEF Takes, First
<1>7. /\ First(free, R, cap) \subseteq free /\ IsFiniteSet(First(free, R, cap))
      /\ Cardinality(First(free, R, cap)) = Least(cap, Cardinality(free))
  BY <1>1, <1>4, FirstFacts
<1>8. Cardinality(free) \in Nat
  BY <1>1, FS_CardinalityType
<1> QED
  BY <1>6, <1>7, <1>8 DEF Least

\* One centroid's turn.
Turned(n, m, cap, d, k, a) ==
    /\ Allowed(d, n, m, a) /\ Capped(n, m, cap, a)
    /\ \A i \in 1 .. n : a[i] <= k
\* Centroid k takes children while it has room: the assignment stays within its
\* promise.
LEMMA TurnTaken ==
    ASSUME NEW n \in Nat, NEW m \in Nat, NEW d \in Matrix(n, m), NEW k \in 1 .. m,
           NEW cap \in Nat, NEW a, Turned(n, m, cap, d, k - 1, a)
    PROVE  Turned(n, m, cap, d, k, Chosen(d, k, cap, a))
<1> DEFINE free == {i \in DOMAIN d : a[i] = 0 /\ d[i][k] < Inf}
           T == Takes(d, k, cap, free)
           b == [i \in 1 .. n |-> IF i \in T THEN k ELSE a[i]]
<1>1. DOMAIN d = 1 .. n
  BY DEF Matrix
<1>2. Chosen(d, k, cap, a) = b
  BY <1>1 DEF Chosen
<1>3. a \in [1 .. n -> 0 .. m] /\ \A i \in 1 .. n : a[i] <= k - 1 /\ (a[i] # 0 => d[i][a[i]] < Inf)
  BY DEF Turned, Allowed
<1>4. T \subseteq free /\ Cardinality(T) <= cap
  BY <1>1, TakesAtMost
<1>5. \A i \in T : i \in 1 .. n /\ d[i][k] < Inf /\ a[i] = 0
  BY <1>1, <1>4
<1> HIDE DEF T
<1>6. b \in [1 .. n -> 0 .. m] /\ \A i \in 1 .. n : b[i] <= k /\ (b[i] # 0 => d[i][b[i]] < Inf)
  BY <1>3, <1>5
<1>7. Group(b, k) = T
  BY <1>3, <1>5 DEF Group
<1>8. \A j \in 1 .. m \ {k} : Group(b, j) = Group(a, j)
  BY <1>3, <1>5 DEF Group
<1>9. \A j \in 1 .. m : Cardinality(Group(b, j)) <= cap
  BY <1>4, <1>7, <1>8 DEF Turned, Capped
<1> HIDE DEF b
<1> QED
  BY <1>2, <1>6, <1>9 DEF Turned, Allowed, Capped

\* The greedy solver with a cap.
LEMMA GreedyCappedFits ==
    ASSUME NEW n \in Nat, NEW m \in Nat, NEW d \in Matrix(n, m), NEW cap \in Nat
    PROVE  /\ Allowed(d, n, m, GreedyCapped(d, m, cap))
           /\ Capped(n, m, cap, GreedyCapped(d, m, cap))
<1> DEFINE none == [i \in 1 .. n |-> 0]
           S(k) == {a \in [1 .. n -> 0 .. m] : Turned(n, m, cap, d, k, a)}
           A == [1 .. n -> 0 .. m]
           turn == [k \in 1 .. m |-> [a \in A |-> Chosen(d, k, cap, a)]]
           fits(c) == c = [k \in 0 .. m |-> IF k = 0 THEN [i \in DOMAIN d |-> 0]
                                            ELSE Chosen(d, k, cap, c[k - 1])]
<1>1. DOMAIN d = 1 .. n
  BY DEF Matrix
<1>2. none \in S(0) /\ none \in A
  <2>1. Allowed(d, n, m, none) /\ Capped(n, m, cap, none)
    BY NobodyPlaced
  <2> QED
    BY <2>1 DEF Turned, Allowed
<1>3. ASSUME NEW k \in 1 .. m, NEW a \in S(k - 1) PROVE Chosen(d, k, cap, a) \in S(k)
  <2>1. Turned(n, m, cap, d, k, Chosen(d, k, cap, a))
    BY TurnTaken
  <2> QED
    BY <2>1 DEF Turned, Allowed
<1> HIDE DEF S
<1>4. turn \in [1 .. m -> [A -> A]]
  <2>1. ASSUME NEW k \in 1 .. m, NEW a \in A PROVE Chosen(d, k, cap, a) \in A
    BY <1>1 DEF Chosen
  <2> HIDE DEF A
  <2> QED
    BY <2>1
<1>5. PICK c : Iteration(m, A, none, turn, c)
  <2> HIDE DEF A, turn, none
  <2> QED
    BY <1>2, <1>4, Iterated
<1> HIDE DEF none
<1>6. c \in [0 .. m -> A] /\ c[0] = none /\ \A k \in 1 .. m : c[k] = turn[k][c[k - 1]]
  BY <1>5 DEF Iteration
<1>7. fits(c)
  <2>1. ASSUME NEW k \in 1 .. m PROVE c[k] = Chosen(d, k, cap, c[k - 1])
    <3>1. k - 1 \in 0 .. m
      OBVIOUS
    <3>2. c[k - 1] \in A
      BY <1>6, <3>1
    <3> HIDE DEF A
    <3> QED
      BY <1>6, <3>2
  <2>2. c[0] = [i \in DOMAIN d |-> 0]
    BY <1>1, <1>6 DEF none
  <2>3. c = [k \in 0 .. m |-> c[k]]
    BY <1>6
  <2>4. \A k \in 0 .. m : k # 0 => k \in 1 .. m
    OBVIOUS
  <2> QED
    BY <2>1, <2>2, <2>3, <2>4
<1> DEFINE g == CHOOSE x : fits(x)
<1>8. GreedyCapped(d, m, cap) = g[m]
  BY DEF GreedyCapped
<1>9. fits(g)
  <2> HIDE DEF fits
  <2> QED
    BY <1>7
<1> HIDE DEF g
<1>10. \A k \in 0 .. m : g[k] \in S(k)
  <2> DEFINE wrong == {k \in 0 .. m : g[k] \notin S(k)}
  <2>1. ASSUME wrong # {} PROVE FALSE
    <3>1. wrong \subseteq Nat
      OBVIOUS
    <3>2. PICK k \in wrong : \A j \in wrong : k <= j
      <4> HIDE DEF wrong
      <4> QED
        BY <2>1, <3>1, LeastOf
    <3>3. g[0] = none
      BY <1>1, <1>9 DEF none
    <3>4. k # 0 /\ k \in 0 .. m
      BY <1>2, <3>2, <3>3
    <3>5. k \in 1 .. m /\ k - 1 \in 0 .. m /\ k - 1 \notin wrong
      BY <3>2, <3>4
    <3>6. g[k - 1] \in S(k - 1)
      BY <3>5
    <3>7. g[k] = Chosen(d, k, cap, g[k - 1])
      BY <1>9, <3>4
    <3> QED
      BY <1>3, <3>2, <3>5, <3>6, <3>7
  <2> QED
    BY <2>1
<1>11. g[m] \in S(m)
  BY <1>10
<1> QED
  BY <1>8, <1>11 DEF S, Turned

\* What a solver promises: no forbidden pair and, under a cap, no group above it.
Promised(d, n, m, cap, a) == Allowed(d, n, m, a) /\ (cap # 0 => Capped(n, m, cap, a))

\* The greedy solver.
LEMMA GreedyFits ==
    ASSUME NEW n \in Nat, NEW m \in Nat, NEW d \in Matrix(n, m), NEW cap \in Nat
    PROVE  Promised(d, n, m, cap, Greedy(d, m, cap))
<1>1. DOMAIN d = 1 .. n
  BY DEF Matrix
<1>2. CASE m = 0
  BY <1>1, <1>2, NobodyPlaced DEF Greedy, Promised
<1>3. CASE m # 0 /\ cap = 0
  BY <1>3, FreeIsAllowed DEF Greedy, Promised
<1>4. CASE m # 0 /\ cap # 0
  BY <1>4, GreedyCappedFits DEF Greedy, Promised
<1> QED
  BY <1>2, <1>3, <1>4

\* The min-cost flow, which falls back to the greedy solver.
LEMMA McfFits ==
    ASSUME NEW n \in Nat, NEW m \in Nat, NEW d \in Matrix(n, m), NEW cap \in Nat,
           NEW a \in Mcf(d, m, cap)
    PROVE  Promised(d, n, m, cap, a)
<1> DEFINE arcs == IF cap < 1 THEN Cardinality(DOMAIN d) ELSE cap
<1>1. DOMAIN d = 1 .. n
  BY DEF Matrix
<1>2. CASE a = Greedy(d, m, cap)
  BY <1>2, GreedyFits
<1>3. CASE a \in Flows(d, m, arcs)
  <2>1. /\ a \in [1 .. n -> 1 .. m]
        /\ \A i \in 1 .. n : d[i][a[i]] < Inf
        /\ \A k \in 1 .. m : Cardinality(Group(a, k)) <= arcs
    BY <1>1, <1>3 DEF Flows
  <2>2. a \in [1 .. n -> 0 .. m]
    BY <2>1
  <2>3. cap # 0 => arcs = cap
    OBVIOUS
  <2> QED
    BY <2>1, <2>2, <2>3 DEF Promised, Allowed, Capped
<1>4. a \in {Greedy(d, m, cap)} \cup Cheapest(d, Flows(d, m, arcs))
  BY DEF Mcf
<1> QED
  BY <1>2, <1>3, <1>4 DEF Cheapest

\* A matching puts at most one child with a centroid.
LEMMA MatchingFits ==
    ASSUME NEW n \in Nat, NEW m \in Nat, NEW d \in Matrix(n, m), NEW cap \in Nat,
           NEW a \in Matchings(d, m)
    PROVE  Promised(d, n, m, cap, a)
<1>1. DOMAIN d = 1 .. n
  BY DEF Matrix
<1>2. /\ a \in [1 .. n -> 0 .. m]
      /\ \A i \in 1 .. n : a[i] > 0 => d[i][a[i]] < Inf
      /\ \A i, j \in 1 .. n : a[i] > 0 /\ a[j] > 0 /\ a[i] = a[j] => i = j
  BY <1>1 DEF Matchings, Assigned
<1>3. ASSUME NEW k \in 1 .. m, cap # 0 PROVE Cardinality(Group(a, k)) <= cap
  <2>1. \A i, j \in Group(a, k) : i = j
    BY <1>2 DEF Group
  <2>2. Group(a, k) = {} \/ \E i : Group(a, k) = {i}
    BY <2>1
  <2>3. Cardinality(Group(a, k)) \in {0, 1}
    BY <2>2, FS_EmptySet, FS_Singleton
  <2> QED
    BY <1>3, <2>3
<1>4. \A i \in 1 .. n : a[i] # 0 => a[i] > 0
  BY <1>2
<1> QED
  BY <1>2, <1>3, <1>4 DEF Promised, Allowed, Capped

\* Hungarian matching, which falls back to the flow.
LEMMA HungarianFits ==
    ASSUME NEW n \in Nat, NEW m \in Nat, NEW d \in Matrix(n, m), NEW cap \in Nat,
           NEW a \in Hungarian(d, m, cap)
    PROVE  Promised(d, n, m, cap, a)
<1>1. a \in Mcf(d, m, cap) \/ a \in Matchings(d, m)
  BY DEF Hungarian, Cheapest
<1> QED
  BY <1>1, McfFits, MatchingFits

\* Every solver; the Sinkhorn rounding does not promise the cap.
Solvers == {"greedy", "hungarian", "mcf", "auto", "sinkhorn"}
LEMMA SolutionsFit ==
    ASSUME NEW n \in Nat, NEW m \in Nat, NEW d \in Matrix(n, m), NEW cap \in Nat,
           NEW solver \in Solvers, NEW a \in Solutions(solver, d, m, cap)
    PROVE  /\ Allowed(d, n, m, a)
           /\ solver # "sinkhorn" => Promised(d, n, m, cap, a)
<1>1. DOMAIN d = 1 .. n /\ \A i \in 1 .. n : DOMAIN d[i] = 1 .. m
  BY DEF Matrix
<1>2. CASE DOMAIN d = {} \/ m = 0
  BY <1>1, <1>2, NobodyPlaced DEF Solutions, Promised
<1>3. CASE ~(DOMAIN d = {} \/ m = 0)
  <2>1. CASE solver = "greedy"
    BY <1>3, <2>1, GreedyFits DEF Solutions, Promised
  <2>2. CASE solver = "hungarian"
    BY <1>3, <2>2, HungarianFits DEF Solutions, Promised
  <2>3. CASE solver = "mcf"
    BY <1>3, <2>3, McfFits DEF Solutions, Promised
  <2>4. CASE solver = "auto"
    <3>1. a \in AutoSolver(d, m, cap)
      BY <1>3, <2>4 DEF Solutions
    <3>2. a \in Hungarian(d, m, cap) \/ a \in Mcf(d, m, cap)
      BY <3>1 DEF AutoSolver
    <3> QED
      BY <3>2, HungarianFits, McfFits DEF Promised
  <2>5. CASE solver = "sinkhorn"
    <3> DEFINE room == IF cap < 1 THEN Cardinality(DOMAIN d) ELSE cap
    <3>1. a \in Sinkhorn(d, m, cap)
      BY <1>3, <2>5 DEF Solutions
    <3>2. room \in Nat
      BY <1>1, UpToFacts
    <3>3. CASE a = Greedy(d, m, room)
      <4>1. Promised(d, n, m, room, a)
        BY <3>2, <3>3, GreedyFits
      <4> QED
        BY <2>5, <4>1 DEF Promised
    <3>4. CASE /\ a \in [DOMAIN d -> 0 .. m]
               /\ \A i \in DOMAIN d : IF Finite(d, i) = {} THEN a[i] = 0
                                      ELSE a[i] \in Finite(d, i)
      BY <1>1, <2>5, <3>4 DEF Allowed, Finite
    <3> QED
      BY <3>1, <3>3, <3>4 DEF Sinkhorn
  <2> QED
    BY <2>1, <2>2, <2>3, <2>4, <2>5 DEF Solvers
<1> QED
  BY <1>2, <1>3

----------------------------------------------------------------------------
(* 2-opt                                                                   *)

\* A child that moves to a better centroid, or changes places with another.
LEMMA RelocationFits ==
    ASSUME NEW n \in Nat, NEW m \in Nat, NEW d \in Matrix(n, m), NEW cap \in Nat,
           NEW a, Promised(d, n, m, cap, a), NEW b \in Relocations(d, a, cap)
    PROVE  Promised(d, n, m, cap, b)
<1>1. a \in [1 .. n -> 0 .. m] /\ \A i \in 1 .. n : a[i] # 0 => d[i][a[i]] < Inf
  BY DEF Promised, Allowed
<1>2. PICK i \in Assigned(a) :
          Better(d, a, cap, i) # {} /\ b = [a EXCEPT ![i] = FirstCheapest(d, i, Better(d, a, cap, i))]
  BY DEF Relocations
<1>3. i \in 1 .. n /\ a[i] # 0 /\ d[i] \in [1 .. m -> Nat]
  <2>1. i \in 1 .. n /\ a[i] > 0
    BY <1>1, <1>2 DEF Assigned
  <2>2. a[i] \in 0 .. m
    BY <1>1, <2>1
  <2>3. d[i] \in [1 .. m -> Nat]
    BY <2>1 DEF Matrix
  <2> QED
    BY <2>1, <2>2, <2>3
<1>4. FirstCheapest(d, i, Better(d, a, cap, i)) \in Better(d, a, cap, i)
  <2>1. Better(d, a, cap, i) \in SUBSET (1 .. m)
    BY <1>3 DEF Better
  <2> QED
    BY <1>2, <1>3, <2>1, CheapestIsOne
<1>5. PICK k : k \in Better(d, a, cap, i) /\ b = [a EXCEPT ![i] = k]
  BY <1>2, <1>4
<1>6. k \in 1 .. m /\ k # a[i] /\ Cardinality(Group(a, k)) < CapOf(a, cap) /\ d[i][k] < d[i][a[i]]
  BY <1>3, <1>5 DEF Better
<1>7. d[i][k] < Inf
  <2>1. d[i][k] \in Nat /\ d[i][a[i]] \in Nat /\ d[i][a[i]] < Inf
    BY <1>1, <1>3, <1>6
  <2> QED
    BY <1>6, <2>1, InfAssumption
<1>8. Allowed(d, n, m, b)
  <2>1. b \in [1 .. n -> 0 .. m]
    BY <1>1, <1>3, <1>5, <1>6
  <2>2. b[i] = k /\ \A x \in 1 .. n \ {i} : b[x] = a[x]
    BY <1>1, <1>3, <1>5
  <2>3. \A x \in 1 .. n : b[x] # 0 => d[x][b[x]] < Inf
    BY <1>1, <1>7, <2>2
  <2> QED
    BY <2>1, <2>3 DEF Allowed
<1>9. ASSUME cap # 0, NEW j \in 1 .. m PROVE Cardinality(Group(b, j)) <= cap
  <2>1. Cardinality(Group(a, j)) <= cap
    BY <1>9 DEF Promised, Capped
  <2>2. IsFiniteSet(Group(a, j)) /\ Cardinality(Group(a, j)) \in Nat
    BY <1>1, GroupFinite
  <2>3. CASE j = k
    <3>1. Group(b, j) = Group(a, j) \cup {i}
      BY <1>1, <1>3, <1>5, <2>3 DEF Group
    <3>2. Cardinality(Group(b, j)) <= Cardinality(Group(a, j)) + 1
      <4>1. Cardinality(Group(a, j) \cup {i}) =
                IF i \in Group(a, j) THEN Cardinality(Group(a, j)) ELSE Cardinality(Group(a, j)) + 1
        BY <2>2, FS_AddElement
      <4> QED
        BY <2>2, <3>1, <4>1
    <3>3. CapOf(a, cap) = cap
      BY <1>9 DEF CapOf
    <3>4. Cardinality(Group(a, j)) < cap
      BY <1>6, <2>3, <3>3
    <3>5. Cardinality(Group(b, j)) \in Nat
      BY <1>8, GroupFinite DEF Allowed
    <3> QED
      BY <2>2, <3>2, <3>4, <3>5
  <2>4. CASE j # k
    <3>1. Group(b, j) \in SUBSET Group(a, j)
      BY <1>1, <1>3, <1>5, <2>4 DEF Group
    <3>2. Cardinality(Group(b, j)) <= Cardinality(Group(a, j))
      BY <2>2, <3>1, FS_Subset
    <3>3. Cardinality(Group(b, j)) \in Nat
      BY <1>8, GroupFinite DEF Allowed
    <3> QED
      BY <2>1, <2>2, <3>2, <3>3
  <2> QED
    BY <2>3, <2>4
<1> QED
  BY <1>8, <1>9 DEF Promised, Capped

\* Two children that change places.
LEMMA SwapFits ==
    ASSUME NEW n \in Nat, NEW m \in Nat, NEW d \in Matrix(n, m), NEW cap \in Nat,
           NEW a, Promised(d, n, m, cap, a), NEW b \in Swaps(d, a)
    PROVE  Promised(d, n, m, cap, b)
<1>1. a \in [1 .. n -> 0 .. m] /\ \A i \in 1 .. n : a[i] # 0 => d[i][a[i]] < Inf
  BY DEF Promised, Allowed
<1>2. PICK p \in Assigned(a) \X Assigned(a) :
          /\ p[1] < p[2] /\ a[p[1]] # a[p[2]]
          /\ d[p[1]][a[p[2]]] < Inf /\ d[p[2]][a[p[1]]] < Inf
          /\ b = [a EXCEPT ![p[1]] = a[p[2]], ![p[2]] = a[p[1]]]
  BY DEF Swaps
<1>3. PICK i, j : /\ i = p[1] /\ j = p[2] /\ i \in 1 .. n /\ j \in 1 .. n
                  /\ i # j /\ a[i] # a[j] /\ d[i][a[j]] < Inf /\ d[j][a[i]] < Inf
                  /\ b = [a EXCEPT ![i] = a[j], ![j] = a[i]]
  BY <1>1, <1>2 DEF Assigned
<1>4. b \in [1 .. n -> 0 .. m] /\ b[i] = a[j] /\ b[j] = a[i] /\ \A x \in 1 .. n \ {i, j} : b[x] = a[x]
  BY <1>1, <1>3
<1>5. Allowed(d, n, m, b)
  BY <1>1, <1>3, <1>4 DEF Allowed
<1>6. ASSUME cap # 0, NEW k \in 1 .. m PROVE Cardinality(Group(b, k)) <= cap
  <2>1. Cardinality(Group(a, k)) <= cap
    BY <1>6 DEF Promised, Capped
  <2>2. IsFiniteSet(Group(a, k)) /\ Cardinality(Group(a, k)) \in Nat
    BY <1>1, GroupFinite
  <2>3. CASE k # a[i] /\ k # a[j]
    <3>1. Group(b, k) = Group(a, k)
      BY <1>1, <1>4, <2>3 DEF Group
    <3> QED
      BY <2>1, <3>1
  <2>4. ASSUME NEW x \in {i, j}, NEW y \in {i, j}, x # y, k = a[x]
        PROVE  Cardinality(Group(b, k)) <= cap
    <3>1. b[y] = a[x] /\ b[x] = a[y] /\ a[x] # a[y]
      BY <1>3, <1>4, <2>4
    <3>2. Group(b, k) = (Group(a, k) \ {x}) \cup {y}
      BY <1>1, <1>3, <1>4, <2>4, <3>1 DEF Group
    <3>3. x \in Group(a, k) /\ y \notin Group(a, k)
      BY <1>1, <1>3, <2>4, <3>1 DEF Group
    <3>4. IsFiniteSet(Group(a, k) \ {x}) /\ Cardinality(Group(a, k) \ {x}) = Cardinality(Group(a, k)) - 1
      BY <2>2, <3>3, FS_RemoveElement
    <3>5. Cardinality(Group(b, k)) = Cardinality(Group(a, k))
      <4>1. y \notin Group(a, k) \ {x}
        BY <3>3
      <4>2. Cardinality((Group(a, k) \ {x}) \cup {y}) = Cardinality(Group(a, k) \ {x}) + 1
        BY <3>4, <4>1, FS_AddElement
      <4> QED
        BY <2>2, <3>2, <3>4, <4>2
    <3> QED
      BY <2>1, <3>5
  <2> QED
    BY <1>3, <2>3, <2>4
<1> QED
  BY <1>5, <1>6 DEF Promised, Capped

----------------------------------------------------------------------------
(* Experts in order                                                        *)

Rank(S, e) == Cardinality({x \in S : x <= e})

\* A sequence that lists a set, each element once.
Lists(q, S) ==
    /\ q \in Seq(S) /\ \A e \in S : \E i \in 1 .. Len(q) : q[i] = e
    /\ \A i, j \in 1 .. Len(q) : q[i] = q[j] => i = j

\* Experts have different ranks, and every rank is taken.
LEMMA Ranks ==
    ASSUME NEW S \in SUBSET Experts
    PROVE  /\ IsFiniteSet(S) /\ Cardinality(S) \in Nat
           /\ \A e \in S : Rank(S, e) \in 1 .. Cardinality(S)
           /\ \A e, f \in S : Rank(S, e) = Rank(S, f) => e = f
           /\ \A i \in 1 .. Cardinality(S) : \E e \in S : Rank(S, e) = i
<1> DEFINE n == Cardinality(S)
           rank == [e \in S |-> Rank(S, e)]
<1>1. IsFiniteSet(S) /\ \A e \in S : e \in Nat
  <2>1. IsFiniteSet(1 .. NE) /\ S \in SUBSET (1 .. NE)
    BY UpToFacts, DepthAssumption DEF Experts
  <2>2. IsFiniteSet(S)
    BY <2>1, FS_Subset
  <2>3. \A e \in S : e \in Nat
    BY <2>1
  <2> QED
    BY <2>2, <2>3
<1>2. n \in Nat
  BY <1>1, FS_CardinalityType
<1>3. ASSUME NEW e \in S
      PROVE  /\ IsFiniteSet({x \in S : x <= e}) /\ Rank(S, e) \in 1 .. n
             /\ e \in {x \in S : x <= e}
  <2> DEFINE below == {x \in S : x <= e}
  <2>1. below \in SUBSET S /\ e \in below
    BY <1>1
  <2> HIDE DEF below
  <2>2. IsFiniteSet(below) /\ Cardinality(below) <= n
    BY <1>1, <2>1, FS_Subset
  <2>3. Cardinality(below) \in Nat /\ Cardinality(below) # 0
    BY <2>1, <2>2, FS_CardinalityType, FS_EmptySet
  <2>4. Cardinality(below) \in 1 .. n
    BY <1>2, <2>2, <2>3
  <2> QED
    BY <2>1, <2>2, <2>4 DEF Rank, below
<1>4. ASSUME NEW e \in S, NEW f \in S, e < f PROVE Rank(S, e) < Rank(S, f)
  <2> DEFINE U == {x \in S : x <= e}
             V == {x \in S : x <= f}
  <2>1. U \in SUBSET V /\ f \in V /\ f \notin U
    BY <1>1, <1>4
  <2>2. IsFiniteSet(U) /\ IsFiniteSet(V)
    BY <1>3
  <2> HIDE DEF U, V
  <2>3. Cardinality(U) <= Cardinality(V) /\ (Cardinality(V) = Cardinality(U) => V = U)
    BY <2>1, <2>2, FS_Subset
  <2>4. Cardinality(U) \in Nat /\ Cardinality(V) \in Nat
    BY <2>2, FS_CardinalityType
  <2>5. Cardinality(U) < Cardinality(V)
    BY <2>1, <2>3, <2>4
  <2> QED
    BY <2>5 DEF U, V, Rank
<1>5. ASSUME NEW e \in S, NEW f \in S, Rank(S, e) = Rank(S, f) PROVE e = f
  <2>1. Rank(S, e) \in Int /\ Rank(S, f) \in Int
    <3>1. Rank(S, e) \in 1 .. n /\ Rank(S, f) \in 1 .. n
      BY <1>3
    <3> QED
      BY <1>2, <3>1
  <2>2. ~(e < f) /\ ~(f < e)
    BY <1>4, <1>5, <2>1
  <2> QED
    BY <1>1, <2>2
<1>6. \A i \in 1 .. n : \E e \in S : Rank(S, e) = i
  <2>1. IsFiniteSet(1 .. n) /\ Cardinality(1 .. n) = n
    BY <1>2, UpToFacts
  <2>2. rank \in Injection(S, 1 .. n)
    BY <1>3, <1>5 DEF Injection, IsInjective
  <2>3. rank \in Surjection(S, 1 .. n)
    BY <2>1, <2>2, FS_Injection
  <2> QED
    BY <2>3 DEF Surjection
<1> QED
  BY <1>1, <1>2, <1>3, <1>5, <1>6

\* The elements in ascending order list the set.
LEMMA AscendingLists ==
    ASSUME NEW S \in SUBSET Experts
    PROVE  /\ Lists(Ascending(S), S) /\ Len(Ascending(S)) = Cardinality(S)
           /\ \A i \in 1 .. Cardinality(S) : Rank(S, Ascending(S)[i]) = i
<1> DEFINE n == Cardinality(S)
           a == Ascending(S)
<1>1. n \in Nat
  BY Ranks
<1>2. a = [i \in 1 .. n |-> CHOOSE e \in S : Rank(S, e) = i]
  BY DEF Ascending, Rank
<1>3. ASSUME NEW i \in 1 .. n PROVE a[i] \in S /\ Rank(S, a[i]) = i
  <2>1. \E e \in S : Rank(S, e) = i
    BY Ranks
  <2>2. a[i] = CHOOSE e \in S : Rank(S, e) = i
    BY <1>2
  <2> HIDE DEF a
  <2> QED
    BY <2>1, <2>2
<1>4. a \in [1 .. n -> S]
  BY <1>2, <1>3
<1> HIDE DEF a
<1>5. a \in Seq(S) /\ Len(a) = n
  BY <1>1, <1>4, IsASeq, LenProperties
<1>6. ASSUME NEW e \in S PROVE \E i \in 1 .. n : a[i] = e
  <2>1. Rank(S, e) \in 1 .. n
    BY Ranks
  <2>2. a[Rank(S, e)] \in S /\ Rank(S, a[Rank(S, e)]) = Rank(S, e)
    BY <1>3, <2>1
  <2>3. a[Rank(S, e)] = e
    BY <2>2, Ranks
  <2> QED
    BY <2>1, <2>3
<1>7. \A i, j \in 1 .. n : a[i] = a[j] => i = j
  BY <1>3
<1> QED
  BY <1>3, <1>5, <1>6, <1>7 DEF Lists, a

\* There are n of the first n.
LEMMA FirstOnes ==
    ASSUME NEW S \in SUBSET Experts, NEW n \in 0 .. Cardinality(S)
    PROVE  Cardinality({e \in S : Rank(S, e) <= n}) = n
<1> DEFINE F == {e \in S : Rank(S, e) <= n}
           h == [i \in 1 .. n |-> Ascending(S)[i]]
<1>1. Cardinality(S) \in Nat /\ n \in Nat
  BY Ranks
<1>2. Ascending(S) \in Seq(S) /\ Len(Ascending(S)) = Cardinality(S)
  BY AscendingLists DEF Lists
<1>3. \A i \in 1 .. n : i \in 1 .. Cardinality(S)
  BY <1>1
<1>4. \A i \in 1 .. n : Ascending(S)[i] \in S /\ Rank(S, Ascending(S)[i]) = i
  BY <1>2, <1>3, AscendingLists
<1>5. h \in [1 .. n -> F]
  BY <1>1, <1>4
<1>6. \A i, j \in 1 .. n : h[i] = h[j] => i = j
  BY <1>4
<1>7. ASSUME NEW e \in F PROVE \E i \in 1 .. n : h[i] = e
  <2>1. Rank(S, e) \in 1 .. n
    BY <1>1, Ranks
  <2>2. h[Rank(S, e)] \in S /\ Rank(S, h[Rank(S, e)]) = Rank(S, e)
    BY <1>4, <2>1
  <2>3. h[Rank(S, e)] = e
    BY <2>2, Ranks
  <2> QED
    BY <2>1, <2>3
<1> HIDE DEF h, F
<1>8. h \in Bijection(1 .. n, F)
  BY <1>5, <1>6, <1>7 DEF Bijection, Injection, Surjection, IsInjective
<1>9. ExistsBijection(1 .. n, F)
  BY <1>8 DEF ExistsBijection
<1>10. IsFiniteSet(1 .. n) /\ Cardinality(1 .. n) = n
  BY <1>1, UpToFacts
<1>11. Cardinality(F) = n
  BY <1>9, <1>10, FS_Bijection
<1> QED
  BY <1>11 DEF F

----------------------------------------------------------------------------
(* The inductive invariant.  Between the gates and the groups lies the     *)
(* result of the last attempt: which experts it kept, what its matrix      *)
(* allows, and what the solver promised of the answer.                     *)

Tasks == {"setup", "attempt", "cost", "solve", "twoopt", "em", "gate", "bump", "settle",
          "merge", "keep", "done", "failed"}
Looking == task \in {"cost", "solve", "twoopt", "em", "gate"}
Deciding == Looking \/ task \in {"attempt", "bump", "settle"}

AssignTypes ==
    /\ cfg \in Options /\ task \in Tasks /\ setup \in Setups \cup {NoSetup}
    /\ effective \in Nat /\ attempt \in Nat /\ bFail \in BOOLEAN /\ cFail \in BOOLEAN
    /\ DOMAIN pair \subseteq Experts \X Experts /\ pair \in [DOMAIN pair -> Costs]
    /\ meanCosts \in Seq(Nat)

\* The target rises with every attempt, and a closed gate is of this layer.
Gates ==
    /\ Deciding => setup \in Setups /\ setup.target <= effective /\ effective <= NE
    /\ Deciding => cfg.mode = "merge"
    /\ task = "setup" => ~bFail /\ ~cFail
    /\ task = "attempt" => setup.target + attempt <= effective
    /\ Looking \/ task = "bump" => setup.target + attempt <= effective + 1 /\ ReamTarget > 0
    /\ Looking => ~bFail /\ ~cFail
    /\ task = "bump" => bFail \/ cFail
    /\ task = "attempt" /\ ReamTarget = 0 => ~bFail /\ ~cFail
    /\ task = "settle" /\ (bFail \/ cFail) => effective = NE

\* Centroids and children divide the unprotected experts.
Split ==
    \E C \in SUBSET Unprotected : Lists(centroids, C) /\ Lists(children, Unprotected \ C)
Solved ==
    /\ delta \in Matrix(NC, NK) /\ Allowed(delta, NC, NK, asg)
    /\ cfg.solver # "sinkhorn" => Promised(delta, NC, NK, cfg.cap, asg)
Drawn == \A i \in 1 .. NC, k \in 1 .. NK : <<children[i], centroids[k]>> \in DOMAIN pair

Results ==
    /\ Looking \/ task = "bump" \/ (task = "settle" /\ ~Emptied) => Split
    /\ task = "solve" => delta \in Matrix(NC, NK)
    /\ task \in {"solve", "twoopt", "em"} => Drawn
    /\ task \in {"twoopt", "em", "gate"} => Solved
    /\ task = "bump" \/ (task = "settle" /\ ~Emptied) =>
          (bFail => NC > 0) /\ (~bFail => Solved)
    /\ task = "settle" /\ ~Emptied /\ ~bFail /\ ~cFail => ~TooCostly(meanCosts)

\* The groups of a layer do not overlap; each is led by a member.
Grouping ==
    /\ DOMAIN groups \subseteq Experts /\ setup \in Setups
    /\ \A c \in DOMAIN groups : c \in groups[c] /\ groups[c] \subseteq Experts
    /\ \A c, e \in DOMAIN groups : c # e => groups[c] \cap groups[e] = {}
    /\ cfg.mode = "merge" => DOMAIN groups \cap setup.protected = {}
    /\ cfg.mode = "merge" /\ ~Emptied =>
          \A e \in Unprotected : \E c \in DOMAIN groups : e \in groups[c]
    /\ cfg.mode = "faithful_prune" =>
          /\ \A c \in DOMAIN groups : groups[c] = {c}
          /\ setup.protected \subseteq DOMAIN groups
          /\ Cardinality(DOMAIN groups) = NE - cfg.prune
Folded ==
    contents = [e \in Experts |-> IF e \in DOMAIN groups \ pending THEN groups[e] ELSE {e}]

Folds ==
    /\ task \in {"merge", "keep"} => Grouping /\ Folded /\ pending \subseteq DOMAIN groups
    /\ task = "merge" => MergesAllowed
    /\ task # "merge" => pending = {}
    /\ task = "setup" \/ Deciding => contents = Untouched
    /\ task = "keep" => kept = Kept

AssignInv == AssignTypes /\ Gates /\ Results /\ Folds /\ HistoryHonest

----------------------------------------------------------------------------
(* Types of a layer, its means and its bumps                               *)

\* What the assumptions say of a configuration and of a layer's setup.
LEMMA SetupTyped ==
    ASSUME AssignTypes
    PROVE  /\ cfg.cap \in Nat /\ cfg.solver \in Solvers /\ cfg.prune \in 0 .. NE
           /\ cfg.mode \in {"merge", "faithful_prune"}
           /\ setup.target \in Nat /\ setup.protected \in SUBSET Experts
           /\ Cardinality(setup.protected) \in Nat
           /\ Unprotected \in SUBSET Experts
           /\ ReamTarget \in Nat /\ OriginalReamTarget \in Nat
<1>1. cfg \in Options
  BY DEF AssignTypes
<1>2. cfg.cap \in Nat /\ cfg.solver \in Solvers /\ cfg.prune \in 0 .. NE
      /\ cfg.mode \in {"merge", "faithful_prune"}
  BY <1>1, ConfigsAssumption DEF Solvers
<1>3. setup \in Setups \/ setup = NoSetup
  BY DEF AssignTypes
<1>4. setup.target \in Nat /\ setup.protected \in SUBSET Experts
  BY <1>3, SetupAssumption DEF NoSetup, Experts
<1>5. Cardinality(setup.protected) \in Nat
  BY <1>4, Ranks
<1>6. effective \in Nat
  BY DEF AssignTypes
<1>7. ReamTarget \in Nat /\ OriginalReamTarget \in Nat
  BY <1>4, <1>5, <1>6 DEF ReamTarget, OriginalReamTarget, Larger
<1> QED
  BY <1>2, <1>4, <1>5, <1>7 DEF Unprotected

\* The sizes the provers need to know of.
LEMMA NumExperts == NE \in Nat \ {0} /\ HistoryMin \in Nat \ {0} /\ SigmaPct \in Nat /\ BumpPct \in Nat
BY DepthAssumption

\* The size of a division.
LEMMA SplitFacts ==
    ASSUME AssignTypes, Split
    PROVE  /\ NC \in Nat /\ NK \in Nat
           /\ \A i \in 1 .. NC : children[i] \in Unprotected
           /\ \A k \in 1 .. NK : centroids[k] \in Unprotected
           /\ \A i \in 1 .. NC, k \in 1 .. NK : children[i] # centroids[k]
           /\ \A i, j \in 1 .. NC : children[i] = children[j] => i = j
           /\ \A k, l \in 1 .. NK : centroids[k] = centroids[l] => k = l
           /\ \A e \in Unprotected : \/ \E i \in 1 .. NC : children[i] = e
                                     \/ \E k \in 1 .. NK : centroids[k] = e
<1>1. PICK C \in SUBSET Unprotected : Lists(centroids, C) /\ Lists(children, Unprotected \ C)
  BY DEF Split
<1>2. centroids \in Seq(C) /\ children \in Seq(Unprotected \ C)
  BY <1>1 DEF Lists
<1>3. NC \in Nat /\ NK \in Nat
  BY <1>2 DEF NC, NK
<1>4. /\ \A i \in 1 .. NC : children[i] \in Unprotected \ C
      /\ \A k \in 1 .. NK : centroids[k] \in C
  BY <1>2, ElementOfSeq DEF NC, NK
<1>5. /\ \A i, j \in 1 .. NC : children[i] = children[j] => i = j
      /\ \A k, l \in 1 .. NK : centroids[k] = centroids[l] => k = l
      /\ \A e \in C : \E k \in 1 .. NK : centroids[k] = e
      /\ \A e \in Unprotected \ C : \E i \in 1 .. NC : children[i] = e
  BY <1>1 DEF Lists, NC, NK
<1> QED
  BY <1>1, <1>3, <1>4, <1>5

\* The mean cost of an assignment is a number.
LEMMA MeanTyped ==
    ASSUME AssignTypes, Split, Solved, Assigned(asg) # {}
    PROVE  Mean(TotalCost(delta, asg), Cardinality(Assigned(asg))) \in Int /\ NC > 0
<1>1. NC \in Nat /\ NK \in Nat
  BY SplitFacts
<1>2. delta \in Matrix(NC, NK) /\ asg \in [1 .. NC -> 0 .. NK]
  BY DEF Solved, Allowed
<1> DEFINE A == Assigned(asg)
           f == [i \in A |-> delta[i][asg[i]]]
<1>3. A \in SUBSET (1 .. NC) /\ \A i \in A : asg[i] \in 1 .. NK
  BY <1>1, <1>2 DEF Assigned
<1>4. IsFiniteSet(1 .. NC)
  BY <1>1, UpToFacts
<1>5. IsFiniteSet(A) /\ Cardinality(A) \in Nat /\ Cardinality(A) # 0
  BY <1>3, <1>4, FS_Subset, FS_CardinalityType, FS_EmptySet
<1>6. f \in [A -> Nat]
  <2>1. \A i \in A : delta[i] \in [1 .. NK -> Nat]
    BY <1>2, <1>3 DEF Matrix
  <2> HIDE DEF A
  <2> QED
    BY <1>3, <2>1
<1>7. Over(f) \in Nat
  BY <1>5, <1>6, SumNat
<1>8. TotalCost(delta, asg) \in Nat
  BY <1>7 DEF TotalCost
<1>9. NC > 0
  BY <1>1, <1>3
<1> DEFINE t == TotalCost(delta, asg)
           c == Cardinality(A)
<1>10. t \in Nat /\ c \in Nat \ {0}
  BY <1>5, <1>8
<1> HIDE DEF t, c
<1>11. t * Scale \in Int
  BY <1>10, ScaleAssumption
<1>12. Mean(t, c) \in Int
  BY <1>10, <1>11, Divided DEF Mean
<1> QED
  BY <1>9, <1>12 DEF t, c

\* What enters the history.
LEMMA RememberedFacts ==
    ASSUME AssignTypes, Results, task = "settle"
    PROVE  \/ Remembered = meanCosts
           \/ /\ ~Emptied /\ ~AllAlone /\ Assigned(asg) # {} /\ Split /\ Solved /\ ~bFail
              /\ Mean(TotalCost(delta, asg), Cardinality(Assigned(asg))) \in Nat
              /\ ~(cFail /\ effective >= NE)
              /\ Remembered = Append(meanCosts, Mean(TotalCost(delta, asg), Cardinality(Assigned(asg))))
<1>1. CASE Emptied \/ AllAlone \/ Assigned(asg) = {}
  BY <1>1 DEF Remembered
<1>2. CASE ~(Emptied \/ AllAlone \/ Assigned(asg) = {})
  <2> DEFINE mean == Mean(TotalCost(delta, asg), Cardinality(Assigned(asg)))
  <2>1. Split /\ (bFail => NC > 0)
    BY <1>2 DEF Results
  <2>2. ~bFail /\ Solved
    BY <1>2, <2>1 DEF Results, AllAlone
  <2>3. mean \in Int
    BY <1>2, <2>1, <2>2, MeanTyped
  <2>4. Remembered = IF mean > 0 /\ ~(cFail /\ effective >= NE) THEN Append(meanCosts, mean) ELSE meanCosts
    BY <1>2 DEF Remembered
  <2> HIDE DEF mean
  <2>5. CASE mean > 0 /\ ~(cFail /\ effective >= NE)
    <3>1. mean \in Nat /\ Remembered = Append(meanCosts, mean)
      BY <2>3, <2>4, <2>5
    <3> QED
      BY <1>2, <2>1, <2>2, <2>5, <3>1 DEF mean
  <2> QED
    BY <2>4, <2>5
<1> QED
  BY <1>1, <1>2

\* The remembered means are numbers.
LEMMA HistoryTyped ==
    ASSUME AssignTypes, Results, task = "settle"
    PROVE  Remembered \in Seq(Nat)
<1>1. meanCosts \in Seq(Nat)
  BY DEF AssignTypes
<1>2. Remembered = meanCosts \/ \E x \in Nat : Remembered = Append(meanCosts, x)
  BY RememberedFacts
<1> QED
  BY <1>1, <1>2

\* The next target is higher, and at most all experts.
LEMMA BumpedFacts ==
    ASSUME effective \in Nat, effective <= NE
    PROVE  Bumped \in Nat /\ effective <= Bumped /\ Bumped <= NE /\ (Bumped < NE => effective + 1 <= Bumped)
<1> DEFINE raise == Larger(1, (effective * BumpPct + 99) \div 100)
<1>1. effective * BumpPct + 99 \in Int
  BY NumExperts
<1>2. (effective * BumpPct + 99) \div 100 \in Int
  BY <1>1, Divided
<1>3. raise \in Int /\ raise >= 1
  BY <1>2 DEF Larger
<1>4. Bumped = Smaller(effective + raise, NE)
  BY DEF Bumped
<1> HIDE DEF raise
<1> QED
  BY <1>3, <1>4, NumExperts DEF Smaller

----------------------------------------------------------------------------
(* What the steps keep: types and gates                                    *)

\* The actions of an attempt that leave the layer and its gates alone.
LEMMA LookingSteps ==
    ASSUME Cost \/ Solve \/ TwoOptMove \/ TwoOptDone \/ EmRound \/ EmDone
    PROVE  /\ Looking /\ task # "gate" /\ task' \in {"cost", "solve", "twoopt", "em", "gate"}
           /\ UNCHANGED <<cfg, layer, setup, effective, attempt, centroids, children, bFail, cFail,
                          meanCosts, groups, contents, pending, kept, topk>>
BY DEF Cost, Solve, TwoOptMove, TwoOptDone, EmRound, EmDone, Looking

\* The actions after the groups are settled.
LEMMA SettledSteps ==
    ASSUME MergeGroup \/ Resize \/ NextLayer \/ Ended
    PROVE  /\ task \in {"merge", "keep", "done", "failed"} /\ task' \in {"merge", "keep", "done", "failed", "setup"}
           /\ UNCHANGED <<cfg, meanCosts>>
BY DEF MergeGroup, Resize, NextLayer, Ended, assignVars

\* The costs of pairs.
LEMMA PairStep ==
    ASSUME AssignTypes, Split, Cost
    PROVE  /\ DOMAIN pair' \subseteq Experts \X Experts /\ pair' \in [DOMAIN pair' -> Costs]
           /\ \A i \in 1 .. NC, k \in 1 .. NK : <<children[i], centroids[k]>> \in DOMAIN pair'
<1>1. PICK fresh \in [Pairs \ DOMAIN pair -> Costs] :
         pair' = [p \in Pairs \cup DOMAIN pair |-> IF p \in DOMAIN pair THEN pair[p] ELSE fresh[p]]
  BY DEF Cost
<1>2. Pairs \subseteq Experts \X Experts
  BY SplitFacts, SetupTyped DEF Pairs
<1>3. DOMAIN pair \subseteq Experts \X Experts /\ pair \in [DOMAIN pair -> Costs]
  BY DEF AssignTypes
<1>4. DOMAIN pair' = Pairs \cup DOMAIN pair /\ \A p \in DOMAIN pair' : pair'[p] \in Costs
  BY <1>1, <1>3
<1>5. pair' \in [DOMAIN pair' -> Costs]
  BY <1>1, <1>4
<1>6. \A i \in 1 .. NC, k \in 1 .. NK : <<children[i], centroids[k]>> \in Pairs
  BY DEF Pairs
<1> QED
  BY <1>2, <1>3, <1>4, <1>5, <1>6

\* The types are kept.
LEMMA TypesStep ==
    ASSUME AssignInv, [AssignNext]_assignVars
    PROVE  AssignTypes'
<1>0. AssignTypes /\ Gates /\ Results
  BY DEF AssignInv
<1>1. CASE UNCHANGED assignVars
  BY <1>0, <1>1 DEF AssignTypes, assignVars
<1>2. CASE Setup
  <2>1. setup' \in Setups /\ setup'.target \in Nat
    BY <1>2, SetupAssumption DEF Setup
  <2> QED
    BY <1>0, <1>2, <2>1 DEF Setup, AssignTypes, Tasks
<1>3. CASE Attempt
  <2>1. attempt' \in Nat
    BY <1>0, <1>3 DEF Attempt, AssignTypes
  <2>2. bFail' \in BOOLEAN /\ cFail' \in BOOLEAN /\ task' \in Tasks
    BY <1>0, <1>3 DEF Attempt, AssignTypes, Tasks
  <2> QED
    BY <1>0, <1>3, <2>1, <2>2 DEF Attempt, AssignTypes
<1>4. CASE Cost
  <2>1. Split
    BY <1>0, <1>4 DEF Results, Cost, Looking
  <2>2. DOMAIN pair' \subseteq Experts \X Experts /\ pair' \in [DOMAIN pair' -> Costs]
    BY <1>0, <1>4, <2>1, PairStep
  <2>3. task' \in Tasks
    BY <1>4, LookingSteps DEF Tasks
  <2> QED
    BY <1>0, <1>4, <2>2, <2>3, LookingSteps DEF AssignTypes
<1>5. CASE Solve \/ TwoOptMove \/ TwoOptDone \/ EmRound \/ EmDone
  <2>1. UNCHANGED pair
    BY <1>5 DEF Solve, TwoOptMove, TwoOptDone, EmRound, EmDone
  <2> QED
    BY <1>0, <1>5, <2>1, LookingSteps DEF AssignTypes, Tasks
<1>6. CASE Gate
  <2>1. cFail' \in BOOLEAN
    BY <1>6 DEF Gate, TooCostly
  <2> QED
    BY <1>0, <1>6, <2>1 DEF Gate, AssignTypes, Tasks
<1>7. CASE Bump
  <2>1. effective' \in Nat
    BY <1>0, <1>7, BumpedFacts DEF Bump, Gates, Deciding, AssignTypes
  <2> QED
    BY <1>0, <1>7, <2>1 DEF Bump, AssignTypes, Tasks
<1>8. CASE Settle
  <2>1. meanCosts' \in Seq(Nat)
    BY <1>0, <1>8, HistoryTyped DEF Settle, AssignTypes
  <2>2. task' \in Tasks
    BY <1>8 DEF Settle, Tasks
  <2> QED
    BY <1>0, <1>8, <2>1, <2>2 DEF Settle, AssignTypes
<1>9. CASE FaithfulPrune
  <2>1. setup' \in Setups /\ task' \in Tasks
    BY <1>9 DEF FaithfulPrune, Tasks
  <2> QED
    BY <1>0, <1>9, <2>1 DEF FaithfulPrune, AssignTypes
<1>10. CASE MergeGroup
  BY <1>0, <1>10 DEF MergeGroup, AssignTypes
<1>11. CASE Resize
  BY <1>0, <1>11 DEF Resize, AssignTypes, Tasks
<1>12. CASE NextLayer
  <2>1. UNCHANGED <<cfg, meanCosts>> /\ task' \in Tasks
    BY <1>12 DEF NextLayer, Tasks
  <2>2. UNCHANGED <<setup, effective, attempt, bFail, cFail, pair>> \/
           /\ setup' = NoSetup /\ effective' = 0 /\ attempt' = 0 /\ bFail' = FALSE /\ cFail' = FALSE
           /\ pair' = <<>>
    BY <1>12 DEF NextLayer
  <2>3. pair' = <<>> => DOMAIN pair' = {} /\ pair' \in [{} -> Costs]
    OBVIOUS
  <2>4. DOMAIN pair' \subseteq Experts \X Experts /\ pair' \in [DOMAIN pair' -> Costs]
    BY <1>0, <2>2, <2>3 DEF AssignTypes
  <2>5. setup' \in Setups \cup {NoSetup} /\ effective' \in Nat /\ attempt' \in Nat
    BY <1>0, <2>2 DEF AssignTypes
  <2>6. bFail' \in BOOLEAN /\ cFail' \in BOOLEAN
    BY <1>0, <2>2 DEF AssignTypes
  <2> QED
    BY <1>0, <2>1, <2>4, <2>5, <2>6 DEF AssignTypes
<1>13. CASE Ended
  BY <1>0, <1>13 DEF Ended, AssignTypes, assignVars
<1> QED
  BY <1>1, <1>2, <1>3, <1>4, <1>5, <1>6, <1>7, <1>8, <1>9, <1>10, <1>11, <1>12, <1>13 DEF AssignNext

\* Target, attempts and gates along every step.
LEMMA GatesStep ==
    ASSUME AssignInv, [AssignNext]_assignVars
    PROVE  Gates'
<1>0. AssignTypes /\ Gates
  BY DEF AssignInv
<1>1. CASE UNCHANGED assignVars
  BY <1>0, <1>1 DEF Gates, Deciding, Looking, ReamTarget, assignVars
<1>2. CASE Setup
  <2>1. setup' \in Setups /\ setup'.target \in Nat /\ effective' = setup'.target /\ attempt' = 0
    BY <1>2, SetupAssumption DEF Setup
  <2>2. ~bFail' /\ ~cFail' /\ task' \in {"failed", "attempt"} /\ cfg'.mode = "merge"
    BY <1>0, <1>2 DEF Setup, Gates
  <2>3. task' = "attempt" => setup'.target <= NE
    BY <1>2, <2>1, NumExperts DEF Setup
  <2> QED
    BY <2>1, <2>2, <2>3 DEF Gates, Deciding, Looking
<1>3. CASE Attempt
  <2>1. /\ setup \in Setups /\ setup.target <= effective /\ effective <= NE /\ cfg.mode = "merge"
        /\ setup.target + attempt <= effective /\ attempt' = attempt + 1
        /\ UNCHANGED <<cfg, setup, effective>> /\ (ReamTarget = 0 => ~bFail /\ ~cFail)
    BY <1>0, <1>3 DEF Attempt, Gates, Deciding
  <2>2. attempt \in Nat /\ effective \in Nat /\ setup.target \in Nat /\ ReamTarget \in Nat
    BY <1>0, SetupTyped DEF AssignTypes
  <2>3. setup'.target + attempt' <= effective' + 1
    BY <2>1, <2>2
  <2>4. CASE ReamTarget = 0
    <3>1. task' = "settle" /\ UNCHANGED <<bFail, cFail>>
      BY <1>3, <2>4 DEF Attempt
    <3> QED
      BY <2>1, <2>4, <3>1 DEF Gates, Deciding, Looking
  <2>5. CASE ReamTarget # 0
    <3>1. task' = (IF bFail' THEN "bump" ELSE "cost") /\ ~cFail'
      BY <1>3, <2>5 DEF Attempt
    <3>2. ReamTarget' = ReamTarget
      BY <2>1 DEF ReamTarget
    <3>3. ReamTarget' > 0
      BY <2>2, <2>5, <3>2
    <3> QED
      BY <2>1, <2>3, <3>1, <3>3 DEF Gates, Deciding, Looking
  <2> QED
    BY <2>4, <2>5
<1>4. CASE Cost \/ Solve \/ TwoOptMove \/ TwoOptDone \/ EmRound \/ EmDone
  <2>1. Looking /\ Looking' /\ UNCHANGED <<cfg, setup, effective, attempt, bFail, cFail>>
    BY <1>4, LookingSteps DEF Looking
  <2>2. task' # "bump" /\ task' # "attempt" /\ task' # "settle" /\ task' # "setup"
    BY <1>4, LookingSteps
  <2>3. ReamTarget' = ReamTarget
    BY <2>1 DEF ReamTarget
  <2> QED
    BY <1>0, <2>1, <2>2, <2>3 DEF Gates, Deciding
<1>5. CASE Gate
  <2>1. /\ task = "gate" /\ task' = (IF cFail' THEN "bump" ELSE "settle")
        /\ UNCHANGED <<cfg, setup, effective, attempt, bFail>>
    BY <1>5 DEF Gate
  <2>2. ReamTarget' = ReamTarget
    BY <2>1 DEF ReamTarget
  <2> QED
    BY <1>0, <2>1, <2>2 DEF Gates, Deciding, Looking
<1>6. CASE Bump
  <2>1. /\ setup \in Setups /\ setup.target <= effective /\ effective <= NE /\ cfg.mode = "merge"
        /\ setup.target + attempt <= effective + 1 /\ ReamTarget > 0
    BY <1>0, <1>6 DEF Bump, Gates, Deciding
  <2>2. /\ attempt \in Nat /\ effective \in Nat /\ setup.target \in Nat
        /\ Cardinality(setup.protected) \in Nat
    BY <1>0, SetupTyped DEF AssignTypes
  <2>3. /\ effective' \in Nat /\ effective <= effective' /\ effective' <= NE
        /\ effective' < NE => effective + 1 <= effective'
    BY <1>6, <2>1, <2>2, BumpedFacts DEF Bump
  <2>4. /\ task' = IF effective' >= NE \/ attempt = NE - setup.target + 1 THEN "settle" ELSE "attempt"
        /\ UNCHANGED <<cfg, setup, attempt, bFail, cFail>>
    BY <1>6 DEF Bump
  <2>5. ReamTarget' > 0
    BY <2>1, <2>2, <2>3, <2>4 DEF ReamTarget, Larger
  <2>6. setup'.target + attempt' <= effective' \/ effective' = NE
    BY <2>1, <2>2, <2>3, <2>4, NumExperts
  <2>7. task' = "attempt" => effective' # NE
    BY <2>2, <2>3, <2>4, NumExperts
  <2>8. task' = "settle" => effective' = NE
    <3>1. CASE effective' >= NE
      BY <2>3, <3>1, NumExperts
    <3>2. CASE effective' < NE /\ attempt = NE - setup.target + 1
      BY <2>1, <2>2, <2>3, <3>2, NumExperts
    <3> QED
      BY <2>3, <2>4, <3>1, <3>2, NumExperts
  <2>9. setup'.target <= effective' /\ ReamTarget' # 0
    BY <2>1, <2>2, <2>3, <2>4, <2>5, NumExperts
  <2>10. task' \in {"settle", "attempt"}
    BY <2>4
  <2> QED
    BY <2>1, <2>3, <2>4, <2>6, <2>7, <2>8, <2>9, <2>10 DEF Gates, Deciding, Looking
<1>7. CASE Settle \/ FaithfulPrune
  <2>1. task' \in {"merge", "failed"}
    BY <1>7 DEF Settle, FaithfulPrune
  <2> QED
    BY <2>1 DEF Gates, Deciding, Looking
<1>8. CASE MergeGroup \/ Resize \/ Ended
  <2>1. task' \in {"merge", "keep", "done", "failed"}
    BY <1>8 DEF MergeGroup, Resize, Ended, assignVars
  <2> QED
    BY <2>1 DEF Gates, Deciding, Looking
<1>9. CASE NextLayer
  <2>1. task' = "done" \/ (task' = "setup" /\ ~bFail' /\ ~cFail')
    BY <1>9 DEF NextLayer
  <2> QED
    BY <2>1 DEF Gates, Deciding, Looking
<1> QED
  BY <1>1, <1>2, <1>3, <1>4, <1>5, <1>6, <1>7, <1>8, <1>9 DEF AssignNext

----------------------------------------------------------------------------
(* What the steps keep: matrices, solutions and the history                *)

\* What is masked of a matrix of drawn costs is a matrix.
LEMMA MatrixTyped ==
    ASSUME NC \in Nat, NK \in Nat, NEW c, \A i \in 1 .. NC, k \in 1 .. NK : c[<<children[i], centroids[k]>>] \in Costs,
           NEW way, NEW d \in Matrices(c, way), NEW e \in Masked(d)
    PROVE  e \in Matrix(NC, NK)
<1> DEFINE n == NC
           m == NK
           width == IF way = "pre" THEN NK ELSE Smaller(cfg.topk, NK)
<1>1. Inf \in Nat
  BY InfAssumption
<1>2. PICK S \in [1 .. n -> kSubset(width, 1 .. m)] :
          d = [i \in 1 .. n |-> [k \in 1 .. m |-> IF k \in S[i] THEN c[<<children[i], centroids[k]>>] ELSE Inf]]
  BY DEF Matrices
<1>3. d \in [1 .. n -> [1 .. m -> Nat]]
  <2>1. \A x \in Costs : x \in Nat
    BY CostsAssumption, InfAssumption
  <2>2. \A i \in 1 .. n, k \in 1 .. m : c[<<children[i], centroids[k]>>] \in Nat
    BY <2>1
  <2> HIDE DEF n, m
  <2> QED
    BY <1>1, <1>2, <2>2
<1>4. CASE e = d
  BY <1>3, <1>4 DEF Matrix
<1>5. CASE e # d
  <2> DEFINE values == {d[i][k] : i \in 1 .. NC, k \in 1 .. NK} \ {Inf}
             cut(p) == [i \in 1 .. NC |-> [k \in 1 .. NK |-> IF d[i][k] > p THEN Inf ELSE d[i][k]]]
  <2>1. PICK p : e = [i \in 1 .. n |-> [k \in 1 .. m |-> IF d[i][k] > p THEN Inf ELSE d[i][k]]]
    <3>1. Masked(d) = IF ~cfg.skip \/ values = {} THEN {d} ELSE {cut(p) : p \in values}
      BY DEF Masked
    <3> HIDE DEF values, cut
    <3>2. \E p \in values : e = cut(p)
      BY <1>5, <3>1
    <3> QED
      BY <3>2 DEF cut
  <2> HIDE DEF n, m
  <2>2. e \in [1 .. n -> [1 .. m -> Nat]]
    BY <1>1, <1>3, <2>1
  <2> QED
    BY <2>2 DEF Matrix, n, m
<1> QED
  BY <1>4, <1>5

\* What a step of an attempt has to keep of the division.
LEMMA SameSplit ==
    ASSUME UNCHANGED <<setup, centroids, children>>
    PROVE  NC' = NC /\ NK' = NK /\ Split' = Split /\ Emptied' = Emptied /\ Unprotected' = Unprotected
BY DEF NC, NK, Split, Emptied, OriginalReamTarget, Unprotected

\* A new solution of a new matrix.
LEMMA SolvedStep ==
    ASSUME AssignTypes, Split, UNCHANGED <<cfg, setup, centroids, children>>,
           delta' \in Matrix(NC, NK), asg' \in Solutions(cfg.solver, delta', NK, cfg.cap)
    PROVE  Solved'
<1>1. PICK d, a : d = delta' /\ a = asg'
  OBVIOUS
<1>2. NC \in Nat /\ NK \in Nat /\ cfg.cap \in Nat /\ cfg.solver \in Solvers
  BY SplitFacts, SetupTyped
<1>3. d \in Matrix(NC, NK) /\ a \in Solutions(cfg.solver, d, NK, cfg.cap)
  BY <1>1
<1>4. Allowed(d, NC, NK, a) /\ (cfg.solver # "sinkhorn" => Promised(d, NC, NK, cfg.cap, a))
  BY <1>2, <1>3, SolutionsFit
<1> QED
  BY <1>1, <1>3, <1>4, SameSplit DEF Solved

\* One 2-opt move.
LEMMA MovedStep ==
    ASSUME AssignTypes, Split, Solved, TwoOptMove
    PROVE  Solved'
<1>1. cfg.solver = "greedy" /\ asg' \in Relocations(delta, asg, cfg.cap) \cup Swaps(delta, asg)
  BY DEF TwoOptMove, Moves
<1>2. PICK a : a = asg'
  OBVIOUS
<1>3. NC \in Nat /\ NK \in Nat /\ cfg.cap \in Nat
  BY SplitFacts, SetupTyped
<1>4. delta \in Matrix(NC, NK) /\ Promised(delta, NC, NK, cfg.cap, asg)
  BY <1>1 DEF Solved
<1>5. Promised(delta, NC, NK, cfg.cap, a)
  <2>1. CASE a \in Relocations(delta, asg, cfg.cap)
    BY <1>3, <1>4, <2>1, RelocationFits
  <2>2. CASE a \in Swaps(delta, asg)
    BY <1>3, <1>4, <2>2, SwapFits
  <2> QED
    BY <1>1, <1>2, <2>1, <2>2
<1>6. UNCHANGED <<cfg, setup, centroids, children, delta>>
  BY DEF TwoOptMove
<1> QED
  BY <1>2, <1>4, <1>5, <1>6, SameSplit DEF Solved, Promised

\* A new attempt divides the unprotected experts.
LEMMA AttemptSplits ==
    ASSUME AssignTypes, Attempt, ReamTarget # 0
    PROVE  /\ Split' /\ (bFail' => NC' > 0)
           /\ UNCHANGED <<cfg, setup, effective, meanCosts>>
<1> DEFINE C == SelectCentroids(ReamTarget)
           rest == Unprotected \ C
<1>1. /\ centroids' = Ascending(C) /\ children' = Ascending(rest)
      /\ bFail' = (cfg.cap > 0 /\ Cardinality(rest) > Cardinality(C) * cfg.cap)
      /\ UNCHANGED <<cfg, setup, effective, meanCosts>>
  BY DEF Attempt
<1>2. C \in SUBSET Unprotected /\ rest \in SUBSET Unprotected /\ Unprotected \in SUBSET Experts
  BY SetupTyped DEF SelectCentroids
<1> HIDE DEF C
<1>3. Lists(Ascending(C), C) /\ Lists(Ascending(rest), rest) /\ Len(Ascending(rest)) = Cardinality(rest)
  BY <1>2, AscendingLists
<1>4. Unprotected' = Unprotected
  BY <1>1 DEF Unprotected
<1>5. Split'
  BY <1>1, <1>2, <1>3, <1>4 DEF Split
<1>6. Cardinality(rest) \in Nat /\ Cardinality(C) \in Nat /\ cfg.cap \in Nat
  BY <1>2, Ranks, SetupTyped
<1>7. bFail' => Cardinality(rest) > 0
  <2>1. Cardinality(C) * cfg.cap \in Nat
    BY <1>6
  <2>2. bFail' => Cardinality(rest) > Cardinality(C) * cfg.cap
    BY <1>1
  <2> QED
    BY <1>6, <2>1, <2>2
<1>8. NC' = Cardinality(rest)
  BY <1>1, <1>3 DEF NC
<1> QED
  BY <1>1, <1>5, <1>7, <1>8

\* The results of an attempt along every step.
LEMMA ResultsStep ==
    ASSUME AssignInv, [AssignNext]_assignVars
    PROVE  Results'
<1>0. AssignTypes /\ Gates /\ Results
  BY DEF AssignInv
<1>1. CASE UNCHANGED assignVars
  BY <1>0, <1>1 DEF Results, Looking, Split, Solved, Drawn, Emptied, OriginalReamTarget, Unprotected,
                    NC, NK, TooCostly, assignVars
<1>2. CASE Attempt
  <2>1. CASE ReamTarget = 0
    <3>1. task' = "settle" /\ UNCHANGED <<setup, effective>> /\ setup.target <= effective
      BY <1>0, <1>2, <2>1 DEF Attempt, Gates, Deciding
    <3>2. /\ setup.target \in Nat /\ effective \in Nat /\ Cardinality(setup.protected) \in Nat
      BY <1>0, SetupTyped DEF AssignTypes
    <3>3. OriginalReamTarget = 0
      BY <2>1, <3>1, <3>2 DEF ReamTarget, OriginalReamTarget, Larger
    <3>4. Emptied'
      BY <3>1, <3>3 DEF Emptied, OriginalReamTarget
    <3> QED
      BY <3>1, <3>4 DEF Results, Looking
  <2>2. CASE ReamTarget # 0
    <3>1. Split' /\ (bFail' => NC' > 0)
      BY <1>0, <1>2, <2>2, AttemptSplits
    <3>2. task' = (IF bFail' THEN "bump" ELSE "cost")
      BY <1>2, <2>2 DEF Attempt
    <3> QED
      BY <3>1, <3>2 DEF Results, Looking
  <2> QED
    BY <2>1, <2>2
<1>3. CASE Cost
  <2>1. Split /\ UNCHANGED <<cfg, setup, centroids, children>> /\ task' = "solve"
    BY <1>0, <1>3 DEF Cost, Results, Looking
  <2>2. pair' \in [DOMAIN pair' -> Costs]
        /\ \A i \in 1 .. NC, k \in 1 .. NK : <<children[i], centroids[k]>> \in DOMAIN pair'
    BY <1>0, <1>3, <2>1, PairStep
  <2>3. PICK c, e, way : c = pair' /\ e = delta' /\ way = alignment'
    OBVIOUS
  <2>4. PICK d \in Matrices(c, way) : e \in Masked(d)
    BY <1>3, <2>3 DEF Cost
  <2>5. \A i \in 1 .. NC, k \in 1 .. NK : c[<<children[i], centroids[k]>>] \in Costs
    BY <2>2, <2>3
  <2>6. e \in Matrix(NC, NK)
    BY <1>0, <2>1, <2>4, <2>5, MatrixTyped, SplitFacts
  <2>7. delta' \in Matrix(NC', NK')
    BY <2>1, <2>3, <2>6, SameSplit
  <2>8. Drawn'
    BY <2>1, <2>2, SameSplit DEF Drawn
  <2> QED
    BY <2>1, <2>7, <2>8, SameSplit DEF Results, Looking
<1>4. CASE Solve
  <2>1. /\ Split /\ UNCHANGED <<cfg, setup, centroids, children, pair, delta>> /\ task' = "twoopt"
        /\ delta \in Matrix(NC, NK) /\ asg' \in Solutions(cfg.solver, delta', NK, cfg.cap) /\ Drawn
    BY <1>0, <1>4 DEF Solve, Results, Looking
  <2>2. Solved'
    BY <1>0, <2>1, SolvedStep
  <2>3. Drawn'
    BY <2>1, SameSplit DEF Drawn
  <2> QED
    BY <2>1, <2>2, <2>3, SameSplit DEF Results, Looking
<1>5. CASE TwoOptMove
  <2>1. /\ Split /\ Solved /\ Drawn /\ task' = "twoopt"
        /\ UNCHANGED <<cfg, setup, centroids, children, pair, delta>>
    BY <1>0, <1>5 DEF TwoOptMove, Results, Looking
  <2>2. Solved'
    BY <1>0, <1>5, <2>1, MovedStep
  <2>3. Drawn'
    BY <2>1, SameSplit DEF Drawn
  <2> QED
    BY <2>1, <2>2, <2>3, SameSplit DEF Results, Looking
<1>6. CASE TwoOptDone \/ EmDone
  <2>1. /\ Split /\ Solved /\ Drawn /\ task' \in {"em", "gate"}
        /\ UNCHANGED <<cfg, setup, centroids, children, pair, delta, asg>>
    BY <1>0, <1>6 DEF TwoOptDone, EmDone, Results, Looking
  <2>2. Solved' /\ Drawn'
    BY <2>1, SameSplit DEF Drawn, Solved
  <2> QED
    BY <2>1, <2>2, SameSplit DEF Results, Looking
<1>7. CASE EmRound
  <2>1. /\ Split /\ Solved /\ Drawn /\ task' \in {"em", "gate"}
        /\ UNCHANGED <<cfg, setup, centroids, children, pair>>
    BY <1>0, <1>7 DEF EmRound, Results, Looking
  <2> DEFINE moved == Pairs \cap (Experts \X {centroids[asg[i]] : i \in Assigned(asg)})
  <2>2. PICK fresh \in [moved -> Costs] :
           \E d \in Matrices([p \in DOMAIN pair |-> IF p \in moved THEN fresh[p] ELSE pair[p]], "post") :
              delta' \in Masked(d)
    BY <1>7 DEF EmRound
  <2>3. PICK c : c = [p \in DOMAIN pair |-> IF p \in moved THEN fresh[p] ELSE pair[p]]
    OBVIOUS
  <2>4. PICK e : e = delta'
    OBVIOUS
  <2>5. PICK d \in Matrices(c, "post") : e \in Masked(d)
    BY <2>2, <2>3, <2>4
  <2>6. \A i \in 1 .. NC, k \in 1 .. NK : c[<<children[i], centroids[k]>>] \in Costs
    <3> HIDE DEF moved
    <3>1. pair \in [DOMAIN pair -> Costs]
      BY <1>0 DEF AssignTypes
    <3>2. \A p \in DOMAIN pair : c[p] \in Costs
      BY <2>3, <3>1
    <3> QED
      BY <2>1, <3>2 DEF Drawn
  <2>7. e \in Matrix(NC, NK)
    BY <1>0, <2>1, <2>5, <2>6, MatrixTyped, SplitFacts
  <2>8. asg' \in Solutions(cfg.solver, delta', NK, cfg.cap)
    BY <1>7 DEF EmRound
  <2>9. Solved'
    BY <1>0, <2>1, <2>4, <2>7, <2>8, SolvedStep
  <2>10. Drawn'
    BY <2>1, SameSplit DEF Drawn
  <2> QED
    BY <2>1, <2>9, <2>10, SameSplit DEF Results, Looking
<1>8. CASE Gate
  <2>1. /\ Split /\ Solved /\ ~bFail /\ task' = (IF cFail' THEN "bump" ELSE "settle")
        /\ UNCHANGED <<cfg, setup, centroids, children, delta, asg, bFail, meanCosts>>
        /\ cFail' = TooCostly(meanCosts)
    BY <1>0, <1>8 DEF Gate, Results, Gates, Looking
  <2>2. Solved' /\ TooCostly(meanCosts)' = TooCostly(meanCosts)
    BY <2>1, SameSplit DEF Solved, TooCostly
  <2>3. ~cFail' => ~TooCostly(meanCosts)'
    BY <2>1, <2>2
  <2> QED
    BY <2>1, <2>2, <2>3, SameSplit DEF Results, Looking
<1>9. CASE Bump
  <2>1. /\ Split /\ (bFail => NC > 0) /\ (~bFail => Solved) /\ task' \in {"settle", "attempt"}
        /\ UNCHANGED <<cfg, setup, centroids, children, delta, asg, bFail, cFail, meanCosts>>
    BY <1>0, <1>9 DEF Bump, Results
  <2>2. ~bFail => Solved'
    BY <2>1, SameSplit DEF Solved
  <2>3. bFail \/ cFail
    BY <1>0, <1>9 DEF Gates, Bump
  <2> QED
    BY <2>1, <2>2, <2>3, SameSplit DEF Results, Looking
<1>10. CASE Setup \/ Settle \/ FaithfulPrune \/ MergeGroup \/ Resize \/ NextLayer \/ Ended
  <2>1. task' \in {"failed", "attempt", "merge", "keep", "done", "setup"}
    BY <1>10 DEF Setup, Settle, FaithfulPrune, MergeGroup, Resize, NextLayer, Ended, assignVars
  <2> QED
    BY <2>1 DEF Results, Looking
<1> QED
  BY <1>1, <1>2, <1>3, <1>4, <1>5, <1>6, <1>7, <1>8, <1>9, <1>10 DEF AssignNext

\* The mean costs remembered so far are kept, and a new one is at the end.
LEMMA HistoryStep ==
    ASSUME AssignInv, [AssignNext]_assignVars
    PROVE  HistoryHonest'
<1>0. AssignTypes /\ Gates /\ Results /\ HistoryHonest
  BY DEF AssignInv
<1>1. CASE UNCHANGED meanCosts
  BY <1>0, <1>1 DEF HistoryHonest
<1>2. CASE meanCosts' # meanCosts
  <2>1. Settle /\ meanCosts' = Remembered
    BY <1>2 DEF AssignNext, assignVars, Setup, Attempt, Cost, Solve, TwoOptMove, TwoOptDone, EmRound,
                EmDone, Gate, Bump, Settle, FaithfulPrune, MergeGroup, Resize, NextLayer, Ended
  <2> DEFINE mean == Mean(TotalCost(delta, asg), Cardinality(Assigned(asg)))
  <2>2. /\ ~Emptied /\ Assigned(asg) # {} /\ ~bFail /\ ~(cFail /\ effective >= NE)
        /\ Split /\ Solved /\ mean \in Nat /\ meanCosts' = Append(meanCosts, mean)
    BY <1>0, <1>2, <2>1, RememberedFacts DEF Settle
  <2>3. ~cFail
    BY <1>0, <2>1, <2>2, NumExperts DEF Gates, Settle
  <2>4. ~TooCostly(meanCosts)
    BY <1>0, <2>1, <2>2, <2>3 DEF Results, Settle
  <2>5. PICK n : n = Len(meanCosts)
    OBVIOUS
  <2>6. meanCosts \in Seq(Nat) /\ n \in Nat /\ NC > 0
    BY <1>0, <2>2, <2>5, MeanTyped DEF AssignTypes
  <2>7. n >= HistoryMin => ~(mean * 100 * n > Over(meanCosts) * (100 + SigmaPct))
    BY <2>2, <2>4, <2>5, <2>6 DEF TooCostly
  <2> HIDE DEF mean
  <2>8. Over(meanCosts) \in Nat
    <3>1. meanCosts \in [1 .. n -> Nat] /\ IsFiniteSet(1 .. n)
      BY <2>5, <2>6, LenProperties, UpToFacts
    <3> QED
      BY <3>1, SumNat
  <2>9. n >= HistoryMin => mean * 100 * n <= Over(meanCosts) * (100 + SigmaPct)
    <3>1. PICK x, y : x = mean * 100 * n /\ y = Over(meanCosts) * (100 + SigmaPct) /\ x \in Int /\ y \in Int
      <4>1. mean * 100 * n \in Int
        BY <2>2, <2>6
      <4>2. Over(meanCosts) * (100 + SigmaPct) \in Int
        BY <2>8, NumExperts
      <4> QED
        BY <4>1, <4>2
    <3> QED
      BY <2>7, <3>1
  <2>10. /\ Len(meanCosts') = n + 1 /\ meanCosts'[n + 1] = mean
         /\ \A i \in 1 .. n : meanCosts'[i] = meanCosts[i]
    BY <2>2, <2>5, <2>6
  <2>11. ASSUME NEW i \in HistoryMin + 1 .. n + 1
         PROVE  SubSeq(meanCosts', 1, i - 1) = SubSeq(meanCosts, 1, i - 1)
    <3>1. i - 1 \in 0 .. n
      BY <2>6, NumExperts
    <3> QED
      BY <2>2, <2>5, <2>6, <3>1
  <2>12. SubSeq(meanCosts, 1, n) = meanCosts
    BY <2>5, <2>6
  <2>13. ASSUME NEW i \in HistoryMin + 1 .. n + 1
         PROVE  meanCosts'[i] * 100 * (i - 1) <= Over(SubSeq(meanCosts', 1, i - 1)) * (100 + SigmaPct)
    <3>1. CASE i = n + 1
      <4>1. i - 1 = n /\ n >= HistoryMin
        BY <2>6, <3>1, NumExperts
      <4>2. SubSeq(meanCosts', 1, i - 1) = meanCosts
        BY <2>11, <2>12, <4>1
      <4> QED
        BY <2>9, <2>10, <3>1, <4>1, <4>2
    <3>2. CASE i # n + 1
      <4>1. i \in HistoryMin + 1 .. Len(meanCosts) /\ i \in 1 .. n
        BY <2>5, <2>6, <3>2, NumExperts
      <4>2. meanCosts[i] * 100 * (i - 1) <= Over(SubSeq(meanCosts, 1, i - 1)) * (100 + SigmaPct)
        BY <1>0, <4>1 DEF HistoryHonest
      <4>3. meanCosts'[i] = meanCosts[i] /\ SubSeq(meanCosts', 1, i - 1) = SubSeq(meanCosts, 1, i - 1)
        BY <2>10, <2>11, <4>1
      <4> QED
        BY <4>2, <4>3
    <3> QED
      BY <3>1, <3>2
  <2> QED
    BY <2>10, <2>13 DEF HistoryHonest
<1> QED
  BY <1>1, <1>2

----------------------------------------------------------------------------
(* The groups                                                              *)

\* Who leads and who joins, when the last attempt stands.
LEMMA Joined ==
    ASSUME AssignTypes, Split, Solved, ~Emptied, ~bFail, ~AllAlone
    PROVE  /\ Leaders = {centroids[k] : k \in 1 .. NK} \cup {children[i] : i \in Group(asg, 0)}
           /\ \A k \in 1 .. NK : Grouped[centroids[k]] = {centroids[k]} \cup Members(k)
           /\ \A i \in Group(asg, 0) : Grouped[children[i]] = {children[i]}
<1>1. /\ NC \in Nat /\ NK \in Nat /\ asg \in [1 .. NC -> 0 .. NK]
      /\ \A i \in 1 .. NC, k \in 1 .. NK : children[i] # centroids[k]
      /\ \A k, l \in 1 .. NK : centroids[k] = centroids[l] => k = l
  BY SplitFacts DEF Solved, Allowed
<1>2. ~(NK = 0 /\ NC > 0)
  BY DEF AllAlone
<1>3. Leaders = {centroids[k] : k \in 1 .. NK} \cup {children[i] : i \in Group(asg, 0)}
  BY <1>2 DEF Leaders
<1>4. ASSUME NEW k \in 1 .. NK
      PROVE  Grouped[centroids[k]] = {centroids[k]} \cup Members(k)
  <2>1. centroids[k] \in Leaders
    BY <1>3
  <2>2. {j \in 1 .. NK : centroids[j] = centroids[k]} = {k}
    BY <1>1
  <2>3. UNION {Members(j) : j \in {k}} = Members(k)
    OBVIOUS
  <2>4. Grouped[centroids[k]] = {centroids[k]} \cup UNION {Members(j) : j \in {j \in 1 .. NK : centroids[j] = centroids[k]}}
    BY <2>1 DEF Grouped
  <2> QED
    BY <2>2, <2>3, <2>4
<1>5. ASSUME NEW i \in Group(asg, 0)
      PROVE  Grouped[children[i]] = {children[i]}
  <2>1. children[i] \in Leaders /\ i \in 1 .. NC
    BY <1>1, <1>3 DEF Group
  <2>2. \A k \in 1 .. NK : centroids[k] # children[i]
    BY <1>1, <2>1
  <2> QED
    BY <2>1, <2>2 DEF Grouped
<1> QED
  BY <1>3, <1>4, <1>5

\* Everybody leads himself, when the cap could not be met or nobody was active.
LEMMA ByThemselves ==
    ASSUME AssignTypes, Split, AllAlone
    PROVE  Leaders = Unprotected /\ Grouped = [c \in Unprotected |-> {c}]
<1>1. NC \in Nat /\ NK \in Nat /\ ~Emptied /\ NC > 0 /\ (bFail \/ NK = 0)
  BY SplitFacts DEF AllAlone
<1>2. Leaders = Unprotected
  <2>1. CASE bFail
    BY <1>1, <2>1 DEF Leaders
  <2>2. CASE ~bFail
    <3>1. 1 .. NK = {}
      BY <1>1, <2>2
    <3>2. Leaders = {children[i] : i \in 1 .. NC}
      BY <1>1, <2>2 DEF Leaders
    <3>3. \A e \in Unprotected : \E i \in 1 .. NC : children[i] = e
      BY <3>1, SplitFacts
    <3>4. \A i \in 1 .. NC : children[i] \in Unprotected
      BY SplitFacts
    <3> QED
      BY <3>2, <3>3, <3>4
  <2> QED
    BY <2>1, <2>2
<1> QED
  BY <1>2 DEF Grouped

\* The groups settled on: they cover the unprotected experts, do not overlap,
\* join only what the matrix allows and keep the cap.
Covering ==
    /\ Leaders \subseteq Unprotected /\ DOMAIN Grouped = Leaders
    /\ \A c \in Leaders : c \in Grouped[c] /\ Grouped[c] \subseteq Unprotected
    /\ \A c, e \in Leaders : c # e => Grouped[c] \cap Grouped[e] = {}
    /\ ~Emptied => \A e \in Unprotected : \E c \in Leaders : e \in Grouped[c]
    /\ \A c \in Leaders :
          /\ IsFiniteSet(Grouped[c])
          /\ cfg.cap > 0 /\ cfg.solver # "sinkhorn" => Cardinality(Grouped[c]) <= cfg.cap + 1
          /\ \A e \in Grouped[c] \ {c} : \E i \in 1 .. NC, k \in 1 .. NK :
                children[i] = e /\ centroids[k] = c /\ delta[i][k] < Inf

\* When every unprotected expert stays by itself.
LEMMA AloneCovering ==
    ASSUME AssignTypes, Leaders \subseteq Unprotected, Grouped = [c \in Leaders |-> {c}],
           ~Emptied => Leaders = Unprotected
    PROVE  Covering
<1>1. \A c \in Leaders : Grouped[c] = {c}
  BY Zenon
<1>2. \A c \in Leaders : IsFiniteSet(Grouped[c]) /\ Cardinality(Grouped[c]) = 1
  BY <1>1, FS_Singleton
<1>3. cfg.cap \in Nat /\ DOMAIN Grouped = Leaders
  BY SetupTyped
<1> QED
  BY <1>1, <1>2, <1>3 DEF Covering

\* When the children join the centroids the last answer gave them.
LEMMA JoinedCovering ==
    ASSUME AssignTypes, Split, Solved, ~Emptied, ~bFail, ~AllAlone
    PROVE  Covering
<1>1. /\ NC \in Nat /\ NK \in Nat /\ asg \in [1 .. NC -> 0 .. NK]
      /\ \A i \in 1 .. NC : children[i] \in Unprotected
      /\ \A k \in 1 .. NK : centroids[k] \in Unprotected
      /\ \A i \in 1 .. NC, k \in 1 .. NK : children[i] # centroids[k]
      /\ \A i, j \in 1 .. NC : children[i] = children[j] => i = j
      /\ \A k, l \in 1 .. NK : centroids[k] = centroids[l] => k = l
      /\ \A e \in Unprotected : \/ \E i \in 1 .. NC : children[i] = e
                                \/ \E k \in 1 .. NK : centroids[k] = e
  BY SplitFacts DEF Solved, Allowed
<1>2. /\ Leaders = {centroids[k] : k \in 1 .. NK} \cup {children[i] : i \in Group(asg, 0)}
      /\ \A k \in 1 .. NK : Grouped[centroids[k]] = {centroids[k]} \cup Members(k)
      /\ \A i \in Group(asg, 0) : Grouped[children[i]] = {children[i]}
  BY Joined
<1>3. /\ \A i \in Group(asg, 0) : i \in 1 .. NC /\ asg[i] = 0
      /\ \A i \in 1 .. NC : asg[i] = 0 => i \in Group(asg, 0)
  BY <1>1 DEF Group
<1>4. ASSUME NEW k \in 1 .. NK
      PROVE  /\ \A e \in Members(k) : \E i \in 1 .. NC : asg[i] = k /\ children[i] = e
             /\ \A i \in 1 .. NC : asg[i] = k => children[i] \in Members(k)
  BY <1>1 DEF Members, Group
<1>5. DOMAIN Grouped = Leaders
  BY DEF Grouped
<1>6. ASSUME NEW c \in Leaders
      PROVE  \/ \E k \in 1 .. NK : c = centroids[k] /\ Grouped[c] = {centroids[k]} \cup Members(k)
             \/ \E i \in 1 .. NC : c = children[i] /\ asg[i] = 0 /\ Grouped[c] = {children[i]}
  BY <1>2, <1>3
<1>7. Leaders \subseteq Unprotected
  BY <1>1, <1>2, <1>3
<1>8. ASSUME NEW c \in Leaders PROVE c \in Grouped[c] /\ Grouped[c] \subseteq Unprotected
  BY <1>1, <1>4, <1>6
<1>9. ASSUME NEW c \in Leaders, NEW e \in Leaders, c # e PROVE Grouped[c] \cap Grouped[e] = {}
  <2> SUFFICES ASSUME NEW x \in Grouped[c], x \in Grouped[e] PROVE FALSE
    OBVIOUS
  <2>1. ASSUME NEW k \in 1 .. NK, c = centroids[k], Grouped[c] = {centroids[k]} \cup Members(k),
               NEW l \in 1 .. NK, e = centroids[l], Grouped[e] = {centroids[l]} \cup Members(l)
        PROVE  FALSE
    <3>1. k # l /\ centroids[k] # centroids[l]
      BY <1>9, <2>1
    <3>2. CASE x = centroids[k]
      <4>1. PICK i \in 1 .. NC : children[i] = centroids[k]
        BY <1>4, <2>1, <3>1, <3>2
      <4> QED
        BY <1>1, <4>1
    <3>3. CASE x # centroids[k]
      <4>1. PICK i \in 1 .. NC : asg[i] = k /\ children[i] = x
        BY <1>4, <2>1, <3>3
      <4>2. x # centroids[l]
        BY <1>1, <4>1
      <4>3. PICK j \in 1 .. NC : asg[j] = l /\ children[j] = x
        BY <1>4, <2>1, <4>2
      <4> QED
        BY <1>1, <3>1, <4>1, <4>3
    <3> QED
      BY <3>2, <3>3
  <2>2. ASSUME NEW k \in 1 .. NK, NEW i \in 1 .. NC, asg[i] = 0, x = children[i],
               x \in {centroids[k]} \cup Members(k)
        PROVE  FALSE
    <3>1. x # centroids[k]
      BY <1>1, <2>2
    <3>2. PICK j \in 1 .. NC : asg[j] = k /\ children[j] = x
      BY <1>4, <2>2, <3>1
    <3> QED
      BY <1>1, <2>2, <3>2
  <2>3. ASSUME NEW i \in 1 .. NC, c = children[i], Grouped[c] = {children[i]},
               NEW j \in 1 .. NC, e = children[j], Grouped[e] = {children[j]}
        PROVE  FALSE
    BY <1>9, <2>3
  <2> QED
    BY <1>6, <2>1, <2>2, <2>3
<1>10. ASSUME NEW e \in Unprotected PROVE \E c \in Leaders : e \in Grouped[c]
  <2>1. CASE \E k \in 1 .. NK : centroids[k] = e
    BY <1>2, <2>1
  <2>2. ASSUME NEW i \in 1 .. NC, children[i] = e PROVE \E c \in Leaders : e \in Grouped[c]
    <3>1. CASE asg[i] = 0
      BY <1>2, <1>3, <2>2, <3>1
    <3>2. CASE asg[i] # 0
      <4>1. asg[i] \in 1 .. NK
        BY <1>1, <3>2
      <4>2. children[i] \in Members(asg[i]) /\ centroids[asg[i]] \in Leaders
        BY <1>2, <1>4, <4>1
      <4> QED
        BY <1>2, <2>2, <4>1, <4>2
    <3> QED
      BY <3>1, <3>2
  <2> QED
    BY <1>1, <2>1, <2>2
<1>11. ASSUME NEW c \in Leaders, NEW e \in Grouped[c] \ {c}
       PROVE  \E i \in 1 .. NC, k \in 1 .. NK : children[i] = e /\ centroids[k] = c /\ delta[i][k] < Inf
  <2>1. PICK k \in 1 .. NK : c = centroids[k] /\ e \in Members(k)
    BY <1>6
  <2>2. PICK i \in 1 .. NC : asg[i] = k /\ children[i] = e
    BY <1>4, <2>1
  <2>3. asg[i] # 0
    BY <2>2
  <2>4. delta[i][k] < Inf
    BY <2>2, <2>3 DEF Solved, Allowed
  <2> QED
    BY <2>1, <2>2, <2>4
<1>12. ASSUME NEW c \in Leaders
       PROVE  /\ IsFiniteSet(Grouped[c])
              /\ cfg.cap > 0 /\ cfg.solver # "sinkhorn" => Cardinality(Grouped[c]) <= cfg.cap + 1
  <2>1. cfg.cap \in Nat
    BY SetupTyped
  <2>2. ASSUME NEW i \in 1 .. NC, Grouped[c] = {children[i]}
        PROVE  IsFiniteSet(Grouped[c]) /\ (cfg.cap > 0 => Cardinality(Grouped[c]) <= cfg.cap + 1)
    <3>1. IsFiniteSet(Grouped[c]) /\ Cardinality(Grouped[c]) = 1
      BY <2>2, FS_Singleton
    <3> QED
      BY <2>1, <3>1
  <2>3. ASSUME NEW k \in 1 .. NK, Grouped[c] = {centroids[k]} \cup Members(k)
        PROVE  /\ IsFiniteSet(Grouped[c])
               /\ cfg.cap > 0 /\ cfg.solver # "sinkhorn" => Cardinality(Grouped[c]) <= cfg.cap + 1
    <3> DEFINE G == Group(asg, k)
               M == Members(k)
    <3>1. IsFiniteSet(G) /\ Cardinality(G) \in Nat
      BY <1>1, GroupFinite
    <3>2. IsFiniteSet(M) /\ Cardinality(M) <= Cardinality(G)
      <4>1. [i \in G |-> children[i]] \in Surjection(G, M)
        BY DEF Surjection, Members
      <4> HIDE DEF G, M
      <4> QED
        BY <3>1, <4>1, FS_Surjection
    <3>3. Cardinality(M) \in Nat
      BY <3>2, FS_CardinalityType
    <3>4. Grouped[c] = M \cup {centroids[k]}
      BY <2>3
    <3> HIDE DEF M
    <3>5. /\ IsFiniteSet(M \cup {centroids[k]})
          /\ Cardinality(M \cup {centroids[k]}) =
                IF centroids[k] \in M THEN Cardinality(M) ELSE Cardinality(M) + 1
      BY <3>2, FS_AddElement
    <3>6. Cardinality(Grouped[c]) <= Cardinality(G) + 1
      <4> HIDE DEF G
      <4> QED
        BY <3>1, <3>2, <3>3, <3>4, <3>5
    <3>7. cfg.cap > 0 /\ cfg.solver # "sinkhorn" => Cardinality(G) <= cfg.cap
      BY <2>1 DEF Solved, Promised, Capped
    <3>8. Cardinality(Grouped[c]) \in Nat
      BY <3>4, <3>5, FS_CardinalityType
    <3> HIDE DEF G
    <3> QED
      BY <2>1, <3>1, <3>4, <3>5, <3>6, <3>7, <3>8
  <2> QED
    BY <1>6, <2>2, <2>3
<1> QED
  BY <1>5, <1>7, <1>8, <1>9, <1>10, <1>11, <1>12 DEF Covering

\* Either way the groups cover the unprotected experts.
LEMMA Covers ==
    ASSUME AssignTypes, Gates, Results, task = "settle"
    PROVE  Covering
<1>1. CASE Emptied
  <2>1. Leaders = {} /\ Grouped = [c \in {} |-> {c}]
    BY <1>1 DEF Leaders, Grouped
  <2> QED
    BY <1>1, <2>1, AloneCovering
<1>2. CASE ~Emptied
  <2>1. Split /\ (bFail => NC > 0) /\ (~bFail => Solved)
    BY <1>2 DEF Results
  <2>2. CASE AllAlone
    BY <1>2, <2>1, <2>2, ByThemselves, AloneCovering
  <2>3. CASE ~AllAlone
    <3>1. ~bFail
      BY <1>2, <2>1, <2>3 DEF AllAlone
    <3> QED
      BY <1>2, <2>1, <2>3, <3>1, JoinedCovering
  <2> QED
    BY <2>2, <2>3
<1> QED
  BY <1>1, <1>2

----------------------------------------------------------------------------
(* What the steps keep: groups and contents                                *)

\* The groups the loop settles on.
LEMMA SettleStep ==
    ASSUME AssignInv, Settle, task' = "merge"
    PROVE  /\ Grouping' /\ Folded' /\ (pending \subseteq DOMAIN groups)' /\ MergesAllowed'
<1>1. AssignTypes /\ Gates /\ Results /\ Folds
  BY DEF AssignInv
<1>2. /\ task = "settle" /\ groups' = Grouped /\ pending' = {c \in Leaders : Cardinality(Grouped[c]) > 1}
      /\ UNCHANGED <<cfg, setup, centroids, children, delta, contents>>
  BY DEF Settle
<1>3. Covering
  BY <1>1, <1>2, Covers
<1>4. setup \in Setups /\ cfg.mode = "merge" /\ contents = Untouched
  BY <1>1, <1>2 DEF Gates, Deciding, Folds
<1>5. /\ setup.protected \in SUBSET Experts /\ Unprotected = Experts \ setup.protected
      /\ Unprotected' = Unprotected /\ Emptied' = Emptied
  BY <1>1, <1>2, SetupTyped DEF Unprotected, Emptied, OriginalReamTarget
<1>6. DOMAIN groups' = Leaders /\ \A c \in Leaders : groups'[c] = Grouped[c]
  BY <1>2, <1>3 DEF Covering
<1>7. Grouping'
  BY <1>2, <1>3, <1>4, <1>5, <1>6 DEF Grouping, Covering
<1>8. ASSUME NEW e \in Leaders, e \notin pending' PROVE groups'[e] = {e}
  <2>1. e \in Grouped[e] /\ IsFiniteSet(Grouped[e]) /\ ~(Cardinality(Grouped[e]) > 1)
    BY <1>2, <1>3, <1>8 DEF Covering
  <2>2. Cardinality(Grouped[e]) \in Nat /\ Cardinality(Grouped[e]) # 0
    BY <2>1, FS_CardinalityType, FS_EmptySet
  <2>3. Cardinality(Grouped[e]) = 1
    BY <2>1, <2>2
  <2>4. PICK x : Grouped[e] = {x}
    BY <2>1, <2>3, FS_Singleton
  <2> QED
    BY <1>6, <2>1, <2>4
<1>9. Folded'
  <2>1. contents' = [e \in Experts |-> {e}]
    BY <1>2, <1>4 DEF Untouched
  <2>2. \A e \in Experts : {e} = IF e \in DOMAIN groups' \ pending' THEN groups'[e] ELSE {e}
    BY <1>6, <1>8
  <2> QED
    BY <2>1, <2>2 DEF Folded
<1>10. MergesAllowed'
  <2>1. NC' = NC /\ NK' = NK
    BY <1>2 DEF NC, NK
  <2>2. ASSUME NEW c \in Leaders
        PROVE  /\ cfg.cap > 0 /\ cfg.solver # "sinkhorn" => Cardinality(groups'[c]) <= cfg.cap + 1
               /\ \A e \in groups'[c] \ {c} : \E i \in 1 .. NC, k \in 1 .. NK :
                     children[i] = e /\ centroids[k] = c /\ delta[i][k] < Inf
    BY <1>3, <1>6 DEF Covering
  <2> QED
    BY <1>2, <1>6, <2>1, <2>2 DEF MergesAllowed
<1>11. (pending \subseteq DOMAIN groups)'
  BY <1>2, <1>6
<1> QED
  BY <1>7, <1>9, <1>10, <1>11

\* What pure pruning keeps.
LEMMA PruneStep ==
    ASSUME AssignInv, FaithfulPrune, task' = "merge"
    PROVE  /\ Grouping' /\ Folded' /\ (pending \subseteq DOMAIN groups)' /\ MergesAllowed'
<1>1. AssignTypes /\ Folds /\ task = "setup" /\ cfg.mode = "faithful_prune"
  BY DEF AssignInv, FaithfulPrune
<1>2. pending = {} /\ contents = Untouched /\ UNCHANGED <<cfg, pending, contents>>
  BY <1>1 DEF Folds, FaithfulPrune
<1> DEFINE X == Experts \ setup'.protected
           rest == NE - cfg.prune - Cardinality(setup'.protected)
           top == {e \in X : Rank(X, e) <= rest}
           stay == setup'.protected \cup top
<1>3. /\ setup' \in Setups /\ ~(rest < 0) /\ groups' = [c \in stay |-> {c}]
  <2>1. PICK s \in Setups :
           LET P == s.protected
               r == NE - cfg.prune - Cardinality(P)
               kept1 == P \cup {e \in Experts \ P : Cardinality({x \in Experts \ P : x <= e}) <= r}
           IN  /\ setup' = s
               /\ IF r < 0 \/ kept1 = {}
                  THEN task' = "failed" /\ UNCHANGED groups
                  ELSE task' = "merge" /\ groups' = [c \in kept1 |-> {c}]
    BY DEF FaithfulPrune
  <2>2. setup' = s
    BY <2>1
  <2> QED
    BY <2>1, <2>2 DEF Rank
<1>4. setup'.protected \in SUBSET Experts /\ X \in SUBSET Experts
  BY <1>3, SetupAssumption DEF Experts
<1>5. /\ IsFiniteSet(setup'.protected) /\ Cardinality(setup'.protected) \in Nat
      /\ IsFiniteSet(X) /\ Cardinality(X) \in Nat /\ IsFiniteSet(Experts) /\ Cardinality(Experts) = NE
  <2>1. IsFiniteSet(Experts) /\ Cardinality(Experts) = NE
    BY UpToFacts, NumExperts DEF Experts
  <2> QED
    BY <1>4, <2>1, Ranks
<1> DEFINE p == Cardinality(setup'.protected)
<1>6. Cardinality(X) = NE - p
  <2>1. setup'.protected \cap X = {} /\ setup'.protected \cup X = Experts
    BY <1>4
  <2>2. Cardinality(setup'.protected \cup X) = Cardinality(setup'.protected) + Cardinality(X) - Cardinality(setup'.protected \cap X)
    BY <1>5, FS_Union
  <2> QED
    BY <1>5, <2>1, <2>2, FS_EmptySet
<1>7. cfg.prune \in 0 .. NE /\ NE \in Nat
  BY <1>1, SetupTyped, NumExperts
<1>8. rest \in 0 .. Cardinality(X)
  BY <1>3, <1>5, <1>6, <1>7
<1>9. Cardinality(top) = rest
  <2> HIDE DEF X, rest
  <2> QED
    BY <1>4, <1>8, FirstOnes
<1>10. Cardinality(stay) = NE - cfg.prune
  <2>1. top \subseteq X /\ IsFiniteSet(top) /\ setup'.protected \cap top = {}
    <3>1. top \in SUBSET X
      OBVIOUS
    <3>2. setup'.protected \cap top = {}
      BY <3>1
    <3> HIDE DEF X, top
    <3> QED
      BY <1>5, <3>1, <3>2, FS_Subset
  <2>2. Cardinality(stay) = Cardinality(setup'.protected) + Cardinality(top) - Cardinality(setup'.protected \cap top)
    <3> HIDE DEF top
    <3> QED
      BY <1>5, <2>1, FS_Union
  <2> QED
    BY <1>5, <1>7, <1>9, <2>1, <2>2, FS_EmptySet
<1>11. stay \subseteq Experts /\ setup'.protected \subseteq stay
  BY <1>4
<1> HIDE DEF stay, top, rest, X, p
<1>12. DOMAIN groups' = stay /\ \A c \in stay : groups'[c] = {c}
  BY <1>3
<1>13. Grouping'
  BY <1>1, <1>2, <1>3, <1>10, <1>11, <1>12 DEF Grouping
<1>14. Folded'
  BY <1>2, <1>12 DEF Folded, Untouched
<1>15. MergesAllowed'
  <2>1. \A c \in stay : Cardinality(groups'[c]) = 1 /\ groups'[c] \ {c} = {}
    BY <1>12, FS_Singleton
  <2>2. cfg.cap \in Nat
    BY <1>1, SetupTyped
  <2> QED
    BY <1>2, <1>12, <2>1, <2>2 DEF MergesAllowed
<1> QED
  BY <1>2, <1>13, <1>14, <1>15

\* A centroid takes in the members of its group, none of which was merged before.
LEMMA FoldStep ==
    ASSUME AssignInv, MergeGroup
    PROVE  Folded' /\ pending' \subseteq DOMAIN groups
<1>1. Grouping /\ Folded /\ pending \subseteq DOMAIN groups
  BY DEF AssignInv, Folds, MergeGroup
<1>2. PICK c \in pending : /\ contents' = [contents EXCEPT ![c] = UNION {contents[m] : m \in groups[c]}]
                           /\ pending' = pending \ {c} /\ UNCHANGED groups
  BY DEF MergeGroup
<1>3. /\ c \in DOMAIN groups /\ DOMAIN groups \subseteq Experts /\ c \in Experts
      /\ \A e \in DOMAIN groups : e \in groups[e] /\ groups[e] \subseteq Experts
      /\ \A e \in DOMAIN groups : c # e => groups[c] \cap groups[e] = {}
  BY <1>1, <1>2 DEF Grouping
<1>4. \A e \in Experts : contents[e] = IF e \in DOMAIN groups \ pending THEN groups[e] ELSE {e}
  BY <1>1, Zenon DEF Folded
<1>5. ASSUME NEW m \in groups[c] PROVE contents[m] = {m}
  <2>1. m \in Experts
    BY <1>3
  <2>2. m \notin DOMAIN groups \ pending
    <3>1. CASE m = c
      BY <1>2, <3>1
    <3>2. CASE m # c
      BY <1>3, <3>2
    <3> QED
      BY <3>1, <3>2
  <2> QED
    BY <1>4, <2>1, <2>2
<1>6. UNION {contents[m] : m \in groups[c]} = groups[c]
  BY <1>5
<1>7. contents' = [contents EXCEPT ![c] = groups[c]]
  BY <1>2, <1>6
<1>8. DOMAIN contents = Experts
  BY <1>1 DEF Folded
<1>9. \A e \in Experts : contents'[e] = IF e \in DOMAIN groups \ pending' THEN groups[e] ELSE {e}
  BY <1>2, <1>3, <1>4, <1>7, <1>8
<1>10. contents' = [e \in Experts |-> contents'[e]]
  BY <1>7, <1>8
<1>11. Folded'
  BY <1>2, <1>9, <1>10 DEF Folded
<1> QED
  BY <1>1, <1>2, <1>11

\* Groups and contents along every step.
LEMMA FoldsStep ==
    ASSUME AssignInv, [AssignNext]_assignVars
    PROVE  Folds'
<1>0. AssignTypes /\ Gates /\ Folds
  BY DEF AssignInv
<1> USE DEF Untouched
<1>1. CASE UNCHANGED assignVars
  BY <1>0, <1>1 DEF assignVars, Folds, Grouping, Folded, MergesAllowed, Kept, Emptied,
     OriginalReamTarget, Unprotected, Deciding, Looking, NC, NK
<1>2. CASE Setup \/ Attempt \/ Cost \/ Solve \/ TwoOptMove \/ TwoOptDone \/ EmRound \/ EmDone
           \/ Gate \/ Bump
  <2>1. /\ task = "setup" \/ Deciding
        /\ task' \notin {"merge", "keep"}
        /\ UNCHANGED <<contents, pending>>
    <3>1. CASE Setup
      BY <3>1 DEF Setup
    <3>2. CASE Attempt
      <4>1. task' \in {"settle", "bump", "cost"}
        BY <3>2 DEF Attempt
      <4> QED
        BY <3>2, <4>1 DEF Attempt, Deciding
    <3>3. CASE Cost \/ Solve \/ TwoOptMove \/ TwoOptDone \/ EmRound \/ EmDone
      BY <3>3, LookingSteps DEF Deciding
    <3>4. CASE Gate
      BY <3>4 DEF Gate, Deciding, Looking
    <3>5. CASE Bump
      BY <3>5 DEF Bump, Deciding
    <3> QED
      BY <1>2, <3>1, <3>2, <3>3, <3>4, <3>5
  <2>2. task # "merge" /\ pending = {} /\ contents = Untouched
    BY <1>0, <2>1 DEF Folds, Deciding, Looking
  <2> QED
    BY <2>1, <2>2 DEF Folds
<1>3. CASE Settle
  <2>1. task = "settle" /\ pending = {}
    BY <1>0, <1>3 DEF Settle, Folds
  <2>2. CASE task' = "merge"
    <3>1. Grouping' /\ Folded' /\ (pending \subseteq DOMAIN groups)' /\ MergesAllowed'
      BY <1>3, <2>2, SettleStep
    <3> QED
      BY <2>2, <3>1 DEF Folds, Deciding, Looking
  <2>3. CASE task' # "merge"
    <3>1. task' = "failed" /\ UNCHANGED pending
      BY <1>3, <2>3 DEF Settle
    <3> QED
      BY <2>1, <3>1 DEF Folds, Deciding, Looking
  <2> QED
    BY <2>2, <2>3
<1>4. CASE FaithfulPrune
  <2>1. task = "setup" /\ pending' = {} /\ task' \in {"failed", "merge"}
    BY <1>0, <1>4 DEF FaithfulPrune, Folds
  <2>2. CASE task' = "merge"
    <3>1. Grouping' /\ Folded' /\ (pending \subseteq DOMAIN groups)' /\ MergesAllowed'
      BY <1>4, <2>2, PruneStep
    <3> QED
      BY <2>2, <3>1 DEF Folds, Deciding, Looking
  <2>3. CASE task' = "failed"
    BY <2>1, <2>3 DEF Folds, Deciding, Looking
  <2> QED
    BY <2>1, <2>2, <2>3
<1>5. CASE MergeGroup
  <2>1. /\ task = "merge" /\ task' = "merge"
        /\ UNCHANGED <<cfg, setup, centroids, children, delta, groups>>
    BY <1>5 DEF MergeGroup
  <2>2. Grouping'
    BY <1>0, <2>1 DEF Folds, Grouping, Emptied, OriginalReamTarget, Unprotected
  <2>3. MergesAllowed'
    BY <1>0, <2>1 DEF Folds, MergesAllowed, NC, NK
  <2>4. Folded' /\ pending' \subseteq DOMAIN groups'
    BY <1>5, <2>1, FoldStep
  <2> QED
    BY <2>1, <2>2, <2>3, <2>4 DEF Folds, Deciding, Looking
<1>6. CASE Resize
  <2>1. /\ task = "merge" /\ pending = {} /\ kept' = Kept /\ task' \in {"failed", "keep"}
        /\ UNCHANGED <<cfg, setup, groups, contents, pending>>
    BY <1>6 DEF Resize
  <2>2. Grouping' /\ Folded' /\ pending' \subseteq DOMAIN groups'
    BY <1>0, <2>1 DEF Folds, Grouping, Folded, Emptied, OriginalReamTarget, Unprotected
  <2>3. kept' = Kept'
    BY <2>1 DEF Kept
  <2> QED
    BY <2>1, <2>2, <2>3 DEF Folds, Deciding, Looking
<1>7. CASE NextLayer
  <2>1. task = "keep" /\ pending' = {}
    BY <1>0, <1>7 DEF NextLayer, Folds
  <2>2. task' = "done" \/ (task' = "setup" /\ contents' = Untouched)
    BY <1>7 DEF NextLayer
  <2> QED
    BY <2>1, <2>2 DEF Folds, Deciding, Looking
<1>8. CASE Ended
  BY <1>1, <1>8 DEF Ended
<1> QED
  BY <1>1, <1>2, <1>3, <1>4, <1>5, <1>6, <1>7, <1>8 DEF AssignNext

----------------------------------------------------------------------------
(* The invariant, and what follows from it                                 *)

\* The invariant holds at first.
LEMMA AssignStarts ==
    ASSUME AssignInit
    PROVE  AssignInv
<1>1. /\ cfg \in Options /\ task = "setup" /\ setup = NoSetup /\ effective = 0 /\ attempt = 0
      /\ pair = <<>> /\ bFail = FALSE /\ cFail = FALSE /\ meanCosts = <<>>
      /\ contents = Untouched /\ pending = {}
  BY DEF AssignInit
<1>2. DOMAIN pair = {} /\ pair \in [{} -> Costs]
  BY <1>1
<1>3. AssignTypes
  <2>1. <<>> \in Seq(Nat)
    OBVIOUS
  <2>2. meanCosts \in Seq(Nat)
    BY <1>1, <2>1
  <2>3. DOMAIN pair \subseteq Experts \X Experts /\ pair \in [DOMAIN pair -> Costs]
    BY <1>2
  <2> QED
    BY <1>1, <2>2, <2>3 DEF AssignTypes, Tasks
<1>4. Gates /\ Results /\ Folds
  BY <1>1 DEF Gates, Results, Folds, Deciding, Looking
<1>5. HistoryHonest
  <2>1. Len(meanCosts) = 0 /\ HistoryMin \in Nat
    BY <1>1, NumExperts
  <2>2. HistoryMin + 1 .. Len(meanCosts) = {}
    BY <2>1
  <2> QED
    BY <2>2 DEF HistoryHonest
<1> QED
  BY <1>3, <1>4, <1>5 DEF AssignInv

\* Once merged, every expert is somewhere, and nowhere twice.
LEMMA LandsOnce ==
    ASSUME AssignTypes, Folds, task = "keep", cfg.mode = "merge", ~Emptied, NEW e \in Unprotected
    PROVE  Cardinality({k \in kept : e \in contents[k]}) = 1
<1>1. /\ Grouping /\ kept = setup.protected \cup DOMAIN groups
      /\ contents = [x \in Experts |-> IF x \in DOMAIN groups THEN groups[x] ELSE {x}]
  BY DEF Folds, Folded, Kept
<1>2. setup.protected \in SUBSET Experts /\ e \in Experts /\ e \notin setup.protected
  BY SetupTyped DEF Unprotected
<1>3. PICK c \in DOMAIN groups : e \in groups[c]
  BY <1>1 DEF Grouping
<1>4. \A k \in kept : e \in contents[k] <=> k = c
  <2>1. ASSUME NEW k \in kept, k \notin DOMAIN groups PROVE e \notin contents[k] /\ k # c
    BY <1>1, <1>2, <2>1
  <2>2. ASSUME NEW k \in DOMAIN groups PROVE e \in contents[k] <=> k = c
    <3>1. k \in Experts /\ contents[k] = groups[k] /\ (k # c => groups[c] \cap groups[k] = {})
      BY <1>1 DEF Grouping
    <3> QED
      BY <1>3, <3>1
  <2> QED
    BY <2>1, <2>2
<1>5. {k \in kept : e \in contents[k]} = {c}
  BY <1>1, <1>4
<1> QED
  BY <1>5, FS_Singleton

\* What a layer keeps.
LEMMA KeptSound ==
    ASSUME AssignTypes, Folds
    PROVE  NothingLost
<1> SUFFICES ASSUME task = "keep" PROVE NothingLost
  BY DEF NothingLost
<1>1. /\ Grouping /\ kept = setup.protected \cup DOMAIN groups
      /\ contents = [x \in Experts |-> IF x \in DOMAIN groups THEN groups[x] ELSE {x}]
  BY DEF Folds, Folded, Kept
<1>2. /\ setup.protected \in SUBSET Experts /\ cfg.mode \in {"merge", "faithful_prune"}
      /\ \A e \in Unprotected : e \in Experts
  BY SetupTyped
<1>3. ASSUME NEW e \in setup.protected PROVE e \in kept /\ contents[e] = {e}
  <2>1. e \notin DOMAIN groups \/ groups[e] = {e}
    BY <1>1, <1>2 DEF Grouping
  <2> QED
    BY <1>1, <1>2, <2>1
<1>4. CASE cfg.mode = "merge"
  BY <1>3, <1>4, LandsOnce DEF NothingLost
<1>5. CASE cfg.mode = "faithful_prune"
  <2>1. kept = DOMAIN groups /\ Cardinality(DOMAIN groups) = NE - cfg.prune
    BY <1>1, <1>5 DEF Grouping
  <2> QED
    BY <1>3, <1>5, <2>1 DEF NothingLost
<1> QED
  BY <1>2, <1>4, <1>5

\* What the gates, the solver and the settled groups leave each other holds
\* from the bump loop (_run_assignment) to the merge of the layer.
THEOREM AssignInvariant == AssignSpec => []AssignInv
<1>1. AssignInit => AssignInv
  BY AssignStarts
<1>2. AssignInv /\ [AssignNext]_assignVars => AssignInv'
  BY TypesStep, GatesStep, ResultsStep, FoldsStep, HistoryStep DEF AssignInv
<1> QED
  BY <1>1, <1>2, PTL DEF AssignSpec

\* Through bumps, masks, refinements and in-place merges every unprotected
\* expert ends in exactly one kept expert and protected experts stay as they
\* were; only allowed pairs are merged, within the cap (_run_assignment,
\* _merge_experts_inplace).
THEOREM AssignmentIsSound == AssignSpec => []AssignmentSound
<1>1. AssignInv => AssignmentSound
  <2>1. ASSUME AssignInv PROVE NothingLost
    BY <2>1, KeptSound DEF AssignInv
  <2>2. ASSUME AssignInv PROVE MergesAllowed
    <3>1. Folds
      BY <2>2 DEF AssignInv
    <3> QED
      BY <3>1 DEF Folds, MergesAllowed
  <2> QED
    BY <2>1, <2>2 DEF AssignmentSound
<1> QED
  BY <1>1, AssignInvariant, PTL

\* The cost gate compares with means that were themselves accepted under an
\* open gate, and a closed one is overruled only at the full number of experts
\* (_run_assignment).
THEOREM BumpsAreHonest == AssignSpec => []BumpsHonest
<1>1. AssignInv => BumpsHonest
  BY DEF AssignInv, Gates, LastResort, BumpsHonest
<1> QED
  BY <1>1, AssignInvariant, PTL
=============================================================================
