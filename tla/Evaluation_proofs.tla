-------------------------- MODULE Evaluation_proofs --------------------------
(***************************************************************************)
(* Proofs about Evaluation, for any configurations, students, revisions,   *)
(* numbers, replicas and failures: the importance matrix is the student's, *)
(* the shares of the replicas add up to what one GPU would measure, and a  *)
(* report that passes is true.                                             *)
(***************************************************************************)
EXTENDS Evaluation, TLAPS, SequenceTheorems, FiniteSetTheorems, WellFoundedInduction

----------------------------------------------------------------------------
(* The inductive invariant                                                 *)

Phases == {"off", "setup", "materialize", "corpus", "measure", "replicas", "evaluated", "lookup",
           "free", "convert", "teacher", "save_cache", "imatrix", "converting", "llama", "report",
           "done", "failed", "crashed"}

\* What the GPU holds in each phase: the student alone while it is evaluated,
\* then the teacher until the process ends, with a student that could not be
\* moved, and llama-imatrix beside them.
OnGpu ==
    /\ pc \in Phases /\ side \in {"student", "teacher"}
    /\ gpu \subseteq {"student", "teacher", "llama"}
    /\ "llama" \in gpu => pc \in {"llama", "failed"}
    /\ pc = "llama" => "llama" \in gpu
    /\ pc \in {"setup", "materialize", "corpus", "replicas", "evaluated", "lookup"} =>
          side = "student" /\ gpu = {"student"}
    /\ pc = "measure" /\ side = "student" => gpu = {"student"}
    /\ pc \in {"measure", "save_cache"} /\ side = "teacher" => "teacher" \in gpu
    /\ pc = "free" => gpu = {"student"}
    /\ pc = "save_cache" => side = "teacher"
    /\ pc \in {"convert", "teacher"} => gpu \subseteq {"student"}
    /\ pc \in {"off", "crashed"} => gpu = {}

\* Once a converter has replaced model_f16.gguf nothing else does, and the
\* matrix is made after it.
Converting ==
    /\ conv \in {"off", "works", "replaced", "published", "ended"} /\ skipped \in BOOLEAN
    /\ conv \in {"replaced", "published"} => f16 = {student}
    /\ pc \in {"converting", "llama"} => conv \in {"off", "published", "ended"}
    /\ pc = "converting" => conv # "published"
    /\ pc = "llama" => f16 = {student}
    /\ made \in {{}, {student}} /\ (skipped = FALSE \/ made = {})
    /\ skipped = TRUE \/ made # {} => pc \in {"report", "done", "failed", "crashed"}

\* A number is the true one, or none, or that of a scoring that was cut off.
TrueNumbers(ns, true) ==
    \A m \in DOMAIN ns :
        /\ m \in Metrics \cup {"bpt", "acc"}
        /\ \/ ns[m] = true[m] \/ ns[m] = NonFinite
           \/ Full /\ m = "pass" /\ ns[m] = 0
Known ==
    /\ cfg \in Configs /\ revision \in Revisions /\ student \in Students
    /\ DOMAIN res = {"student", "teacher"}
    /\ TrueNumbers(res["student"], StudentNumber[student])
    /\ TrueNumbers(res["teacher"], TeacherNumber[revision])
    /\ \A c \in cache : c.key \in Revisions /\ TrueNumbers(c.numbers, TeacherNumber[c.key])
    /\ pc \in {"measure", "replicas"} => at \in 1 .. Len(Plan)
    /\ pc = "corpus" => ~Full
Reported ==
    pc = "done" => report = {IF Full THEN FullReport(res["student"], res["teacher"])
                             ELSE [student |-> student, gaps |-> Gaps(res["student"], res["teacher"])]}

\* What was measured is what one GPU would have measured.
Measured(s, e, term) ==
    /\ term.with = Whole(e) /\ (s = "student" => term.by = {student})
    /\ e \in Generative => term.env = Generating
Terms ==
    /\ DOMAIN terms = {"student", "teacher"}
    /\ \A s \in {"student", "teacher"} : \A e \in DOMAIN terms[s] : Measured(s, e, terms[s][e])

\* A replica that ended has left its share, of this student.
Replicating ==
    /\ DOMAIN shard = Generative \cup {"wikitext2"}
    /\ \A e \in DOMAIN shard : DOMAIN shard[e] = Replicas
    /\ rep \in [Replicas -> {"off", "works", "done", "failed"}]
    /\ pc = "replicas" =>
        /\ Share(E) > 1 /\ side = "student" /\ (E \in Generative => env = Generating)
        /\ \A r \in Replicas :
            /\ rep[r] = "off" <=> r > Len(Bounds(E, Share(E)))
            /\ rep[r] = "done" => shard[E][r] = <<Bounds(E, Share(E))[r],
                    [student |-> student, with |-> Together(E, Bounds(E, Share(E))[r])]>>

IInv == OnGpu /\ Converting /\ Known /\ Reported /\ Terms /\ Replicating

----------------------------------------------------------------------------
(* The importance matrix                                                   *)

LEMMA Shares == ASSUME Share(E) > 1 PROVE side = "student"
BY DEF Share

LEMMA OnGpuStep == ASSUME OnGpu, [Next]_vars PROVE OnGpu'
<1> USE DEF OnGpu, Phases, GoTo
<1>1. CASE UNCHANGED <<pc, side, gpu>>
  BY <1>1
<1>2. CASE Start
  BY <1>2 DEF Start
<1>3. CASE SetUp \/ ThermoSetUp \/ Materialize \/ BuildCorpus
  BY <1>3 DEF SetUp, ThermoSetUp, Materialize, BuildCorpus, Fail
<1>4. CASE EvaluateHere
  BY <1>4 DEF EvaluateHere, NextEval, After
<1>5. CASE EvaluationRaises \/ JoinFails
  BY <1>5 DEF EvaluationRaises, JoinFails, Fail
<1>6. CASE SpawnReplicas
  BY <1>6, Shares DEF SpawnReplicas
<1>7. CASE MergeShards
  BY <1>7 DEF MergeShards, NextEval, After, Fail
<1>8. CASE CleanSource \/ CacheHit \/ ThermoHit
  BY <1>8 DEF CleanSource, CacheHit, ThermoHit, TakeNumbers
<1>9. CASE CacheMiss \/ ThermoMiss \/ StartConvert \/ LoadTeacher
  <2>1. \A on \in StudentMoved : on \subseteq gpu
    BY DEF StudentMoved
  <2>2. CASE CacheMiss
    BY <2>1, <2>2 DEF CacheMiss
  <2>3. CASE ThermoMiss
    BY <2>1, <2>3 DEF ThermoMiss
  <2>4. CASE StartConvert \/ LoadTeacher
    BY <2>4 DEF StartConvert, LoadTeacher
  <2> QED
    BY <1>9, <2>2, <2>3, <2>4
<1>10. CASE SaveCache \/ ThermoSave \/ FreeStudent
  BY <1>10 DEF SaveCache, ThermoSave, FreeStudent, StudentMoved, Fail
<1>11. CASE NoImatrix \/ SkipImatrix \/ UsePublished \/ ConvertHere \/ Converted \/ RunLlama
  BY <1>11 DEF NoImatrix, SkipImatrix, UsePublished, ConvertHere, Converted, RunLlama
<1>12. CASE WriteReport \/ ThermoReport
  BY <1>12 DEF WriteReport, ThermoReport
<1>13. CASE Crash
  BY <1>13 DEF Crash
<1>14. CASE Read \/ Convert \/ Finished \/ \E r \in Replicas : ReplicaEnds(r) \/ ReplicaFails(r)
  BY <1>1, <1>14 DEF Read, Convert, Finished, ReplicaEnds, ReplicaFails, vars
<1> QED
  BY <1>1, <1>2, <1>3, <1>4, <1>5, <1>6, <1>7, <1>8, <1>9, <1>10, <1>11, <1>12, <1>13, <1>14
     DEF Next, Main, vars

LEMMA ConvertingStep == ASSUME Converting, [Next]_vars PROVE Converting'
<1> USE DEF Converting, GoTo
<1>1. CASE UNCHANGED <<pc, student, conv, outputs>>
  BY <1>1 DEF outputs
<1>2. CASE Start
  BY <1>2 DEF Start
<1>3. CASE SetUp \/ ThermoSetUp \/ Materialize \/ BuildCorpus
  BY <1>3 DEF SetUp, ThermoSetUp, Materialize, BuildCorpus, Fail, settings, threads, outputs
<1>4. CASE EvaluateHere \/ EvaluationRaises
  BY <1>4 DEF EvaluateHere, EvaluationRaises, NextEval, After, Fail, settings, threads, outputs
<1>5. CASE SpawnReplicas \/ JoinFails
  BY <1>5 DEF SpawnReplicas, JoinFails, Fail, settings, threads, outputs
<1>6. CASE MergeShards
  BY <1>6 DEF MergeShards, NextEval, After, Fail, settings, threads, outputs
<1>7. CASE CleanSource \/ CacheHit \/ ThermoHit
  BY <1>7 DEF CleanSource, CacheHit, ThermoHit, TakeNumbers, settings, threads, outputs
<1>8. CASE CacheMiss \/ ThermoMiss \/ StartConvert \/ LoadTeacher
  BY <1>8 DEF CacheMiss, ThermoMiss, StartConvert, LoadTeacher, settings, threads, outputs
<1>9. CASE SaveCache \/ ThermoSave \/ FreeStudent
  BY <1>9 DEF SaveCache, ThermoSave, FreeStudent, Fail, settings, threads, outputs
<1>10. CASE NoImatrix \/ SkipImatrix \/ UsePublished
  BY <1>10 DEF NoImatrix, SkipImatrix, UsePublished, Converted16, settings, threads, outputs
<1>11. CASE ConvertHere \/ Converted \/ RunLlama
  BY <1>11 DEF ConvertHere, Converted, RunLlama, MayConvert, settings, threads, outputs
<1>12. CASE WriteReport \/ ThermoReport
  BY <1>12 DEF WriteReport, ThermoReport, settings, threads, outputs
<1>13. CASE Crash
  BY <1>13 DEF Crash, settings, outputs
<1>14. CASE Convert
  BY <1>14 DEF Convert, settings
<1>15. CASE Read \/ Finished \/ \E r \in Replicas : ReplicaEnds(r) \/ ReplicaFails(r)
  BY <1>1, <1>15 DEF Read, Finished, ReplicaEnds, ReplicaFails, vars, settings, threads, outputs
<1> QED
  BY <1>1, <1>2, <1>3, <1>4, <1>5, <1>6, <1>7, <1>8, <1>9, <1>10, <1>11, <1>12, <1>13, <1>14,
     <1>15 DEF Next, Main, vars, settings, threads, outputs

----------------------------------------------------------------------------
(* The numbers                                                             *)

LEMMA PlanOf ==
    ASSUME cfg \in Configs
    PROVE  /\ Full => Plan \in Seq({"wikitext2", "zero_shot", "humaneval", "math500"})
           /\ ~Full => Plan \in Seq({"bpt", "subset"}) /\ Len(Plan) > 0
<1>1. CASE Full
  <2> DEFINE S == {"wikitext2", "zero_shot", "humaneval", "math500"}
  <2> HIDE DEF S
  <2>1. ASSUME NEW e \in S PROVE Enabled(e) \in Seq(S)
    <3>1. <<e>> \in Seq(S) /\ <<>> \in Seq(S)
      OBVIOUS
    <3> QED
      BY <3>1 DEF Enabled
  <2>2. ASSUME NEW a \in Seq(S), NEW b \in Seq(S) PROVE a \o b \in Seq(S)
    BY ConcatProperties
  <2>3. {"wikitext2", "zero_shot", "humaneval", "math500"} = S
    BY DEF S
  <2>4. /\ Enabled("wikitext2") \in Seq(S) /\ Enabled("zero_shot") \in Seq(S)
        /\ Enabled("humaneval") \in Seq(S) /\ Enabled("math500") \in Seq(S)
    BY <2>1, <2>3
  <2>5. Enabled("wikitext2") \o Enabled("zero_shot") \o Enabled("humaneval") \in Seq(S)
    BY <2>2, <2>4
  <2> QED
    BY <1>1, <2>2, <2>3, <2>4, <2>5 DEF Plan
<1>2. CASE ~Full
  <2>1. cfg.evals = {"bpt", "subset"}
    BY <1>2, GateAssumption DEF Full
  <2>2. Enabled("bpt") = <<"bpt">> /\ Enabled("subset") = <<"subset">>
    BY <2>1 DEF Enabled
  <2>3. Plan = <<"bpt">> \o <<"subset">>
    BY <1>2, <2>2 DEF Plan
  <2> HIDE DEF Plan
  <2>4. <<"bpt">> \in Seq({"bpt", "subset"}) /\ <<"subset">> \in Seq({"bpt", "subset"})
        /\ Len(<<"bpt">>) = 1 /\ Len(<<"subset">>) = 1
    OBVIOUS
  <2>5. Plan \in Seq({"bpt", "subset"}) /\ Len(Plan) = Len(<<"bpt">>) + Len(<<"subset">>)
    BY <2>3, <2>4, ConcatProperties
  <2> QED
    BY <1>2, <2>4, <2>5
<1> QED
  BY <1>1, <1>2

LEMMA Planned ==
    ASSUME Known, pc \in {"measure", "replicas"}
    PROVE  /\ at \in 1 .. Len(Plan) /\ Len(Plan) \in Nat
           /\ Full => E \in {"wikitext2", "zero_shot", "humaneval", "math500"}
           /\ ~Full => E \in {"bpt", "subset"}
<1>1. cfg \in Configs /\ at \in 1 .. Len(Plan)
  BY DEF Known
<1> QED
  BY <1>1, PlanOf DEF E

TrueOf(s) == IF s = "student" THEN StudentNumber[student] ELSE TeacherNumber[revision]

LEMMA Overlaid ==
    ASSUME NEW f, NEW g, NEW t, TrueNumbers(f, t), TrueNumbers(g, t)
    PROVE  TrueNumbers(Above(f, g), t)
BY DEF TrueNumbers, Above

LEMMA NumbersTrue ==
    ASSUME Known, pc \in {"measure", "replicas"}, NEW out \in Outcomes(E)
    PROVE  TrueNumbers(Numbers(E, out), TrueOf(side))
<1>1. out \in {"measured", "batch", "inputs", "cut"} /\ (out = "cut" => E = "humaneval")
  BY Planned DEF Outcomes, WikitextOutcomes, BptOutcomes, LmEvalOutcomes, SubsetOutcomes,
                 HumanevalOutcomes, Math500Outcomes, Scoring, Unloaded
<1>2. MetricsOf(E) \subseteq Metrics \cup {"bpt", "acc"} /\ (E = "humaneval" => MetricsOf(E) = {"pass"})
  BY Planned DEF MetricsOf, Metrics
<1>3. \A m : NumberOf(m, out) \in {TrueOf(side)[m], NonFinite, 0}
             /\ (out # "cut" => NumberOf(m, out) \in {TrueOf(side)[m], NonFinite})
  BY <1>1 DEF NumberOf, Number, TrueOf
<1>4. E = "humaneval" => Full
  BY Planned
<1>5. Numbers(E, out) = <<>> \/ Numbers(E, out) = [m \in MetricsOf(E) |-> NumberOf(m, out)]
  BY DEF Numbers
<1>6. TrueNumbers(<<>>, TrueOf(side))
  BY DEF TrueNumbers
<1>7. TrueNumbers([m \in MetricsOf(E) |-> NumberOf(m, out)], TrueOf(side))
  BY <1>1, <1>2, <1>3, <1>4 DEF TrueNumbers
<1> QED
  BY <1>5, <1>6, <1>7

\* The numbers of an evaluation are recorded.
LEMMA Recorded ==
    ASSUME Known, OnGpu, pc \in {"measure", "replicas"}, NEW out \in Outcomes(E), NEW with, NEW by,
           Record(E, out, with, by), UNCHANGED <<settings, cache>>
    PROVE  /\ DOMAIN res' = {"student", "teacher"}
           /\ TrueNumbers(res["student"], StudentNumber[student])'
           /\ TrueNumbers(res["teacher"], TeacherNumber[revision])'
<1>1. res' = [res EXCEPT ![side] = Above(Numbers(E, out), res[side])]
  BY DEF Record
<1>2. TrueNumbers(Above(Numbers(E, out), res[side]), TrueOf(side))
  BY NumbersTrue, Overlaid DEF Known, OnGpu, TrueOf
<1>3. \A s \in {"student", "teacher"} : TrueNumbers(res'[s], TrueOf(s))
  BY <1>1, <1>2 DEF Known, TrueOf
<1>4. Full' = Full /\ student' = student /\ revision' = revision
  BY DEF Full, settings
<1> QED
  BY <1>1, <1>3, <1>4 DEF Known, TrueOf, TrueNumbers

LEMMA Advance ==
    ASSUME Known, pc \in {"measure", "replicas"}, NEW p, p \notin {"measure", "replicas"},
           NextEval(p), UNCHANGED settings
    PROVE  pc' \in {"measure", p} /\ (pc' = "measure" => at' \in 1 .. Len(Plan)')
<1>1. at \in 1 .. Len(Plan) /\ Len(Plan) \in Nat
  BY Planned
<1>2. Plan' = Plan
  BY DEF Plan, Full, Enabled, settings
<1> QED
  BY <1>1, <1>2 DEF NextEval, GoTo

LEMMA FirstEval ==
    ASSUME Known, Plan # <<>>
    PROVE  1 \in 1 .. Len(Plan)
<1>1. Plan \in Seq({"wikitext2", "zero_shot", "humaneval", "math500"}) \/ Plan \in Seq({"bpt", "subset"})
  BY PlanOf DEF Known
<1>2. Len(Plan) \in Nat /\ Len(Plan) # 0
  BY <1>1, EmptySeq
<1> QED
  BY <1>2

LEMMA SameCfg == [Next]_vars => UNCHANGED cfg
BY DEF Next, Main, vars, settings, Start, SetUp, ThermoSetUp, Materialize, BuildCorpus, EvaluateHere,
       SpawnReplicas, JoinFails, MergeShards, CleanSource, CacheHit, ThermoHit, CacheMiss, ThermoMiss,
       StartConvert, LoadTeacher, SaveCache, ThermoSave, FreeStudent, NoImatrix, SkipImatrix,
       UsePublished, ConvertHere, Converted, RunLlama, WriteReport, ThermoReport, EvaluationRaises,
       Read, Convert, Crash, Finished, ReplicaEnds, ReplicaFails, TakeNumbers

LEMMA KnownStep == ASSUME Known, OnGpu, [Next]_vars PROVE Known'
<1>0. Full' = Full /\ Plan' = Plan /\ cfg' = cfg
  BY SameCfg DEF Full, Plan, Enabled
<1>1. ASSUME UNCHANGED <<settings, res, cache>>,
             pc' \in {"measure", "replicas"} => at' \in 1 .. Len(Plan),
             pc' = "corpus" => ~Full
      PROVE  Known'
  BY <1>0, <1>1 DEF Known, TrueNumbers, settings
<1>2. CASE UNCHANGED <<settings, pc, at, res, cache>>
  BY <1>1, <1>2 DEF Known
<1>3. CASE Start
  <2>1. /\ revision' \in Revisions /\ student' \in Students /\ res' = NoNumbers
        /\ pc' = "setup" /\ UNCHANGED cache
    BY <1>3 DEF Start, GoTo
  <2> QED
    BY <1>0, <2>1 DEF Known, TrueNumbers, NoNumbers
<1>4. CASE SetUp \/ ThermoSetUp
  BY <1>1, <1>4 DEF SetUp, ThermoSetUp, GoTo, numbers
<1>5. CASE Materialize
  BY <1>1, <1>5, FirstEval DEF Materialize, GoTo, numbers
<1>6. CASE BuildCorpus
  <2>1. Len(Plan) > 0 /\ Len(Plan) \in Nat
    BY <1>6, PlanOf DEF BuildCorpus, Known
  <2> QED
    BY <1>1, <1>6, <2>1 DEF BuildCorpus, GoTo, Fail, numbers
<1>7. CASE EvaluateHere
  <2>1. pc = "measure" /\ UNCHANGED <<settings, cache>> /\ NextEval(After)
    BY <1>7 DEF EvaluateHere
  <2>2. PICK out \in Outcomes(E) : Record(E, out, Whole(E), {student})
    BY <1>7 DEF EvaluateHere
  <2>3. After \notin {"measure", "replicas", "corpus"}
    BY DEF After
  <2> QED
    BY <1>0, <2>1, <2>2, <2>3, Recorded, Advance DEF Known, TrueNumbers, settings
<1>8. CASE EvaluationRaises \/ JoinFails
  BY <1>1, <1>8 DEF EvaluationRaises, JoinFails, Fail, numbers
<1>9. CASE SpawnReplicas
  BY <1>1, <1>9 DEF SpawnReplicas, numbers, Known
<1>10. CASE MergeShards
  <2>1. pc = "replicas" /\ UNCHANGED <<settings, cache>>
    BY <1>10 DEF MergeShards
  <2>2. CASE Fail /\ UNCHANGED res
    BY <1>1, <2>1, <2>2 DEF Fail
  <2>3. ASSUME NEW out \in Outcomes(E), NEW with, NEW by, Record(E, out, with, by), NextEval(After)
        PROVE  Known'
    <3>1. After \notin {"measure", "replicas", "corpus"}
      BY DEF After
    <3> QED
      BY <1>0, <2>1, <2>3, <3>1, Recorded, Advance DEF Known, TrueNumbers, settings
  <2> QED
    BY <1>10, <2>2, <2>3 DEF MergeShards
<1>11. CASE CacheHit \/ ThermoHit
  <2>1. /\ pc' \in {"free", "report"} /\ UNCHANGED <<settings, cache>>
        /\ \E c \in Usable : res' = [res EXCEPT !["teacher"] = c.numbers]
    BY <1>11 DEF CacheHit, ThermoHit, TakeNumbers, GoTo
  <2>2. \A c \in Usable : c \in cache /\ c.key = revision
    BY DEF Usable, Key
  <2> QED
    BY <1>0, <2>1, <2>2 DEF Known, TrueNumbers, settings
<1>12. CASE CleanSource \/ CacheMiss \/ StartConvert
  BY <1>1, <1>12 DEF CleanSource, CacheMiss, StartConvert, GoTo, numbers
<1>13. CASE ThermoMiss
  <2>1. Len(Plan) > 0 /\ Len(Plan) \in Nat
    BY <1>13, PlanOf DEF ThermoMiss, Known
  <2> QED
    BY <1>1, <1>13, <2>1 DEF ThermoMiss, GoTo, numbers
<1>14. CASE LoadTeacher
  BY <1>1, <1>14, FirstEval DEF LoadTeacher, GoTo, numbers
<1>15. CASE SaveCache \/ ThermoSave
  <2>1. UNCHANGED <<settings, res>> /\ pc' \notin {"measure", "replicas", "corpus"}
        /\ (SaveNumbers \/ UNCHANGED cache)
    BY <1>15 DEF SaveCache, ThermoSave, GoTo, Fail
  <2>2. CASE UNCHANGED cache
    BY <1>1, <2>1, <2>2
  <2>3. CASE SaveNumbers
    BY <1>0, <2>1, <2>3 DEF SaveNumbers, Key, Known, TrueNumbers, settings
  <2> QED
    BY <2>1, <2>2, <2>3
<1>16. CASE FreeStudent \/ NoImatrix \/ SkipImatrix \/ UsePublished
  BY <1>1, <1>16 DEF FreeStudent, NoImatrix, SkipImatrix, UsePublished, GoTo, numbers
<1>17. CASE ConvertHere \/ Converted \/ RunLlama \/ WriteReport \/ ThermoReport
  BY <1>1, <1>17 DEF ConvertHere, Converted, RunLlama, WriteReport, ThermoReport, GoTo, numbers
<1>18. CASE Crash
  BY <1>1, <1>18 DEF Crash, numbers
<1>19. CASE Read \/ Convert \/ Finished \/ \E r \in Replicas : ReplicaEnds(r) \/ ReplicaFails(r)
  BY <1>2, <1>19 DEF Read, Convert, Finished, ReplicaEnds, ReplicaFails, vars, numbers
<1> QED
  BY <1>2, <1>3, <1>4, <1>5, <1>6, <1>7, <1>8, <1>9, <1>10, <1>11, <1>12, <1>13, <1>14, <1>15,
     <1>16, <1>17, <1>18, <1>19 DEF Next, Main, vars, numbers

----------------------------------------------------------------------------
(* The report                                                              *)

LEMMA Frozen ==
    ASSUME UNCHANGED <<settings, res, counted, skipped>>
    PROVE  /\ FullReport(res["student"], res["teacher"])' = FullReport(res["student"], res["teacher"])
           /\ Gaps(res["student"], res["teacher"])' = Gaps(res["student"], res["teacher"])
           /\ Full' = Full /\ student' = student
<1>1. EnabledMetrics' = EnabledMetrics
  BY DEF EnabledMetrics, settings
<1> QED
  BY <1>1 DEF FullReport, Gaps, Full, settings

LEMMA ReportedStep == ASSUME Reported, [Next]_vars PROVE Reported'
<1>1. CASE UNCHANGED <<settings, pc, res, counted, skipped, report>>
  <2>1. CASE pc = "done"
    BY <1>1, <2>1, Frozen DEF Reported, settings
  <2>2. CASE pc # "done"
    BY <1>1, <2>2 DEF Reported
  <2> QED
    BY <2>1, <2>2
<1>2. CASE WriteReport
  <2>1. UNCHANGED <<settings, res, counted, skipped>> /\ Full
        /\ report' = {FullReport(res["student"], res["teacher"])}
    BY <1>2 DEF WriteReport, numbers, outputs
  <2> QED
    BY <2>1, Frozen DEF Reported
<1>3. CASE ThermoReport
  <2>1. UNCHANGED <<settings, res, counted, skipped>> /\ ~Full
        /\ report' = {[student |-> student, gaps |-> Gaps(res["student"], res["teacher"])]}
    BY <1>3 DEF ThermoReport, numbers, outputs
  <2> QED
    BY <2>1, Frozen DEF Reported
<1>4. CASE pc' # "done"
  BY <1>4 DEF Reported
<1>5. CASE Start \/ SetUp \/ ThermoSetUp \/ Materialize \/ BuildCorpus
  BY <1>4, <1>5 DEF Start, SetUp, ThermoSetUp, Materialize, BuildCorpus, GoTo, Fail
<1>6. CASE EvaluateHere \/ EvaluationRaises \/ SpawnReplicas \/ JoinFails
  BY <1>4, <1>6 DEF EvaluateHere, EvaluationRaises, SpawnReplicas, JoinFails, NextEval, After, GoTo, Fail
<1>7. CASE MergeShards
  BY <1>4, <1>7 DEF MergeShards, NextEval, After, GoTo, Fail
<1>8. CASE CleanSource \/ CacheHit \/ ThermoHit \/ CacheMiss \/ ThermoMiss \/ StartConvert
  BY <1>4, <1>8 DEF CleanSource, CacheHit, ThermoHit, CacheMiss, ThermoMiss, StartConvert, TakeNumbers, GoTo
<1>9. CASE LoadTeacher \/ SaveCache \/ ThermoSave \/ FreeStudent \/ NoImatrix \/ SkipImatrix
  BY <1>4, <1>9 DEF LoadTeacher, SaveCache, ThermoSave, FreeStudent, NoImatrix, SkipImatrix, GoTo, Fail
<1>10. CASE UsePublished \/ ConvertHere \/ Converted \/ RunLlama \/ Crash
  BY <1>4, <1>10 DEF UsePublished, ConvertHere, Converted, RunLlama, Crash, GoTo
<1>11. CASE Read \/ Convert \/ Finished \/ \E r \in Replicas : ReplicaEnds(r) \/ ReplicaFails(r)
  BY <1>1, <1>11 DEF Read, Convert, Finished, ReplicaEnds, ReplicaFails, vars, numbers, outputs
<1> QED
  BY <1>1, <1>2, <1>3, <1>5, <1>6, <1>7, <1>8, <1>9, <1>10, <1>11 DEF Next, Main, vars, numbers, outputs

LEMMA ReportIs ==
    ASSUME NEW s, NEW t
    PROVE  LET checks == Checks(s, t, cfg.thresholds, EnabledMetrics, Saved[student], counted)
           IN  FullReport(s, t) = [student |-> student, checks |-> checks,
                                   pass |-> Verdict(checks), skipped |-> skipped]
<1> DEFINE checks == Checks(s, t, cfg.thresholds, EnabledMetrics, Saved[student], counted)
<1> HIDE DEF checks
<1> DEFINE full == [student |-> student, checks |-> checks, pass |-> Verdict(checks), skipped |-> skipped]
<1>1. FullReport(s, t) = CHOOSE f \in {[student |-> student, checks |-> c, pass |-> Verdict(c),
                                        skipped |-> skipped] : c \in {checks}} : TRUE
  BY DEF FullReport, checks
<1>2. {[student |-> student, checks |-> c, pass |-> Verdict(c), skipped |-> skipped] : c \in {checks}}
      = {full}
  OBVIOUS
<1> HIDE DEF full
<1>3. (CHOOSE f \in {full} : TRUE) = full
  OBVIOUS
<1> QED
  BY <1>1, <1>2, <1>3 DEF full, checks

\* What the report says of a metric.
LEMMA Checked ==
    ASSUME NEW s, NEW t, NEW thresholds, NEW enabled, NEW saved, NEW known
    PROVE  LET checks == Checks(s, t, thresholds, enabled, saved, known)
           IN  /\ DOMAIN checks \ {"reduction"}
                    = (DOMAIN thresholds \cap Metrics) \cup (Broken(s, t) \cap {"ppl"})
               /\ \A m \in DOMAIN checks \ {"reduction"} :
                    checks[m] = CheckOf(m, s, t, thresholds, enabled)
BY DEF Checks, Above, Metrics

LEMMA Honest == ASSUME Known, Reported PROVE ReportHonest
<1> DEFINE s == res["student"]
           t == res["teacher"]
           checks == Checks(s, t, cfg.thresholds, EnabledMetrics, Saved[student], counted)
<1>1. /\ cfg \in Configs /\ revision \in Revisions /\ student \in Students
      /\ TrueNumbers(s, StudentNumber[student]) /\ TrueNumbers(t, TeacherNumber[revision])
  BY DEF Known
<1>2. /\ StudentNumber[student] \in [Metrics \cup {"bpt", "acc"} -> Nat \ {NonFinite}]
      /\ TeacherNumber[revision] \in [Metrics \cup {"bpt", "acc"} -> Nat \ {NonFinite}]
      /\ TeacherNumber[revision]["ppl"] > 0
      /\ \A m \in DOMAIN cfg.thresholds : cfg.thresholds[m] \in Int
  BY <1>1, NumbersAssumption, GateAssumption
<1>3. ASSUME pc = "done", Full
      PROVE  report = {[student |-> student, checks |-> checks, pass |-> Verdict(checks),
                        skipped |-> skipped]}
  BY <1>3, ReportIs DEF Reported
<1>4. /\ DOMAIN checks \ {"reduction"}
            = (DOMAIN cfg.thresholds \cap Metrics) \cup (Broken(s, t) \cap {"ppl"})
      /\ \A m \in DOMAIN checks \ {"reduction"} :
            checks[m] = CheckOf(m, s, t, cfg.thresholds, EnabledMetrics)
  BY Checked
<1> HIDE DEF checks
<1>5. ASSUME pc = "done", Full, Verdict(checks), NEW m \in DOMAIN cfg.thresholds \cap Metrics
      PROVE  \/ checks[m] = "skipped" \/ m \in Cut
             \/ Within(m, StudentNumber[student][m], TeacherNumber[revision][m], cfg.thresholds[m])
  <2>1. m # "reduction" /\ m \in DOMAIN checks /\ checks[m] # "failed"
    BY <1>4, <1>5 DEF Metrics, Verdict
  <2>2. CASE m \in Deltas(s, t) /\ checks[m] # "skipped" /\ m \notin Cut
    <3>1. Within(m, s[m], t[m], cfg.thresholds[m])
      BY <1>4, <1>5, <2>1, <2>2 DEF CheckOf
    <3>2. m \in DOMAIN s /\ m \in DOMAIN t /\ s[m] # NonFinite /\ t[m] # NonFinite
      BY <2>2 DEF Deltas, Both
    <3>3. s[m] = StudentNumber[student][m] \/ (m = "pass" /\ s[m] = 0)
      BY <1>1, <3>2 DEF TrueNumbers
    <3>4. t[m] = TeacherNumber[revision][m]
      BY <1>1, <2>2, <3>2 DEF TrueNumbers, Cut
    <3>5. cfg.thresholds[m] \in Int /\ StudentNumber[student][m] \in Nat
          /\ TeacherNumber[revision][m] \in Nat
      BY <1>2, <1>5
    <3>6. CASE s[m] = StudentNumber[student][m]
      BY <3>1, <3>4, <3>6
    <3>7. CASE m = "pass" /\ s[m] = 0
      BY <3>1, <3>4, <3>5, <3>7 DEF Within
    <3> QED
      BY <3>3, <3>6, <3>7
  <2>3. CASE m \notin Deltas(s, t)
    <3>1. checks[m] \in {"failed", "skipped"}
      BY <1>4, <2>1, <2>3 DEF CheckOf
    <3> QED
      BY <2>1, <3>1
  <2> QED
    BY <2>2, <2>3
<1>6. ASSUME pc = "done", ~Full, NEW m \in Deltas(s, t)
      PROVE  s[m] - t[m] = StudentNumber[student][m] - TeacherNumber[revision][m]
  BY <1>1, <1>6 DEF TrueNumbers, Deltas, Both
<1>7. ReportTrue
  <2> SUFFICES ASSUME pc = "done", NEW r \in report
      PROVE  /\ r.student = student
             /\ Full /\ r.pass => \A m \in DOMAIN cfg.thresholds \cap Metrics :
                  \/ r.checks[m] = "skipped"
                  \/ m \in Cut
                  \/ Within(m, StudentNumber[student][m], TeacherNumber[revision][m], cfg.thresholds[m])
             /\ ~Full => \A m \in DOMAIN r.gaps :
                  r.gaps[m] = StudentNumber[student][m] - TeacherNumber[revision][m]
    BY DEF ReportTrue
  <2>1. CASE Full
    <3>1. /\ r.student = student /\ r.checks = checks /\ r.pass = Verdict(checks)
      BY <1>3, <2>1
    <3> QED
      BY <1>5, <2>1, <3>1
  <2>2. CASE ~Full
    <3>1. r = [student |-> student, gaps |-> Gaps(s, t)]
      BY <2>2 DEF Reported
    <3> QED
      BY <1>6, <2>2, <3>1 DEF Gaps
  <2> QED
    BY <2>1, <2>2
<1>8. NothingPassedOver
  <2> SUFFICES ASSUME pc = "done", Full, NEW r \in report, NEW m \in DOMAIN r.checks \cap EnabledMetrics,
                      r.checks[m] = "skipped"
               PROVE  Finite("student", m) /\ ~Finite("teacher", m) /\ m \in DOMAIN res["teacher"]
    BY DEF NothingPassedOver
  <2>1. r.checks = checks
    BY <1>3
  <2>2. m \in Metrics /\ m # "reduction"
    <3>1. cfg.evals \subseteq {"wikitext2", "zero_shot", "humaneval", "math500"}
      BY <1>1, GateAssumption DEF Full
    <3>2. \A e \in cfg.evals \ Generative : MetricsOf(e) \subseteq Metrics
      BY <3>1 DEF Generative, MetricsOf, Metrics
    <3>3. m \in Metrics
      BY <3>2 DEF EnabledMetrics, Metrics
    <3> QED
      BY <3>3 DEF Metrics
  <2>3. /\ m \in (DOMAIN cfg.thresholds \cap Metrics) \cup (Broken(s, t) \cap {"ppl"})
        /\ CheckOf(m, s, t, cfg.thresholds, EnabledMetrics) = "skipped"
    BY <1>4, <2>1, <2>2
  <2>4. m \in Deltas(s, t) => m \notin Broken(s, t) /\ m \in DOMAIN cfg.thresholds
    BY <2>3 DEF Deltas, Broken
  <2>5. m = "ppl" /\ m \in Deltas(s, t) => t[m] > 0
    BY <1>1, <1>2 DEF Deltas, Both, TrueNumbers
  <2>6. m \notin Deltas(s, t)
    <3> SUFFICES ASSUME m \in Deltas(s, t) PROVE FALSE
      OBVIOUS
    <3>1. ~(m = "ppl" /\ t[m] <= 0)
      <4>1. m = "ppl" => t[m] \in Int
        BY <1>1, <1>2 DEF Deltas, Both, TrueNumbers
      <4> QED
        BY <2>5, <4>1
    <3>2. CheckOf(m, s, t, cfg.thresholds, EnabledMetrics)
            = IF Within(m, s[m], t[m], cfg.thresholds[m]) THEN "ok" ELSE "failed"
      BY <2>4, <3>1 DEF CheckOf, TeacherBroken
    <3> QED
      BY <2>3, <3>2
  <2>7. m \in TeacherBroken(s, t)
    BY <2>3, <2>6 DEF CheckOf
  <2> QED
    BY <2>7 DEF TeacherBroken, Broken, Deltas, Both, Finite
<1> QED
  BY <1>7, <1>8 DEF ReportHonest

----------------------------------------------------------------------------
(* The shares of the replicas                                              *)

LEMMA Divided ==
    ASSUME NEW x \in Int, NEW d \in Nat \ {0}
    PROVE  x \div d \in Int /\ x = (x \div d) * d + (x % d) /\ x % d \in 0 .. d - 1
OBVIOUS

LEMMA Quotient ==
    ASSUME NEW x \in Int, NEW d \in Nat \ {0}, NEW q \in Int, NEW r \in 0 .. d - 1, x = q * d + r
    PROVE  x \div d = q
OBVIOUS

LEMMA Scaled ==
    ASSUME NEW a \in Int, NEW b \in Int, NEW d \in Nat, a <= b
    PROVE  a * d <= b * d /\ a * d \in Int /\ b * d \in Int
OBVIOUS

LEMMA Shifted ==
    ASSUME NEW x \in Int, NEW c \in Int, NEW d \in Nat \ {0}
    PROVE  (x - c * d) \div d = (x \div d) - c
<1>1. x \div d \in Int /\ x = (x \div d) * d + (x % d) /\ x % d \in 0 .. d - 1
  BY Divided
<1>2. /\ x - c * d = ((x \div d) - c) * d + (x % d)
      /\ x - c * d \in Int /\ (x \div d) - c \in Int
  BY <1>1
<1> DEFINE y == x - c * d
           q == (x \div d) - c
           r == x % d
<1>3. y \in Int /\ q \in Int /\ r \in 0 .. d - 1 /\ y = q * d + r
  BY <1>1, <1>2
<1> HIDE DEF y, q, r
<1>4. y \div d = q
  BY <1>3, Quotient
<1> QED
  BY <1>4 DEF y, q

\* The pieces of size base, the last one up to n.
Pieces(n, k, base) == [i \in 1 .. k |-> <<(i - 1) * base, IF i = k THEN n ELSE i * base>>]

\* They lie in 0 .. n and cover it.
LEMMA Tiled ==
    ASSUME NEW n \in Nat, NEW k \in Nat \ {0}, NEW base \in Nat \ {0}, (k - 1) * base <= n
    PROVE  /\ \A i \in 1 .. k : /\ (i - 1) * base \in Nat /\ i * base \in Nat
                                /\ (IF i = k THEN n ELSE i * base) \in 0 .. n
           /\ \A j \in 1 .. n : \E i \in 1 .. k :
                 j \in (i - 1) * base + 1 .. (IF i = k THEN n ELSE i * base)
<1>1. ASSUME NEW i \in 1 .. k
      PROVE  /\ (i - 1) * base \in Nat /\ i * base \in Nat
             /\ (IF i = k THEN n ELSE i * base) \in 0 .. n
  <2>1. (i - 1) * base \in Nat /\ i * base \in Nat
    BY <1>1
  <2>2. i # k => i * base <= (k - 1) * base
    BY <1>1, Scaled
  <2>3. (k - 1) * base \in Int
    OBVIOUS
  <2> QED
    BY <2>1, <2>2, <2>3
<1>2. ASSUME NEW j \in 1 .. n
      PROVE  \E i \in 1 .. k : j \in (i - 1) * base + 1 .. (IF i = k THEN n ELSE i * base)
  <2> DEFINE q == (j - 1) \div base
  <2>1. q \in Int /\ j - 1 = q * base + ((j - 1) % base) /\ (j - 1) % base \in 0 .. base - 1
    BY Divided
  <2>2. q >= 0
    BY <1>2, <2>1
  <2> HIDE DEF q
  <2>3. CASE q < k - 1
    <3>1. q + 1 \in 1 .. k /\ q + 1 # k /\ (q + 1) - 1 = q
      BY <2>1, <2>2, <2>3
    <3>2. q * base \in Int /\ (q + 1) * base = q * base + base
      BY <2>1
    <3>3. j \in q * base + 1 .. (q + 1) * base
      BY <2>1, <3>2
    <3> QED
      BY <3>1, <3>3
  <2>4. CASE q >= k - 1
    <3>1. (k - 1) * base <= q * base /\ (k - 1) * base \in Int /\ q * base \in Int
      BY <2>1, <2>4, Scaled
    <3>2. j \in (k - 1) * base + 1 .. n
      BY <1>2, <2>1, <3>1
    <3> QED
      BY <3>2
  <2> QED
    BY <2>1, <2>3, <2>4
<1> QED
  BY <1>1, <1>2

\* A batch of a share that starts and ends with a group is one of the whole.
LEMMA SameBatch ==
    ASSUME NEW n \in Nat, NEW c \in Nat, NEW c2 \in Nat, NEW hi \in 0 .. n, hi = n \/ hi = c2 * Group,
           NEW i \in c * Group + 1 .. hi
    PROVE  Batches(<<c * Group, hi>>)[i] = Batches(<<0, n>>)[i]
<1>0. Group \in Nat \ {0} /\ c * Group \in Nat /\ c2 * Group \in Nat
  BY GroupAssumption
<1> DEFINE lo == c * Group
           q == (i - 1) \div Group
<1>1. ASSUME NEW j \in Int PROVE (j - 1 - lo) \div Group = ((j - 1) \div Group) - c
  <2>1. j - 1 \in Int
    OBVIOUS
  <2>2. ((j - 1) - c * Group) \div Group = ((j - 1) \div Group) - c
    <3> DEFINE x == j - 1
    <3>1. x \in Int /\ c \in Int /\ Group \in Nat \ {0}
      BY <1>0, <2>1
    <3> HIDE DEF x
    <3>2. (x - c * Group) \div Group = (x \div Group) - c
      BY <3>1, Shifted, Zenon
    <3> QED
      BY <3>2 DEF x
  <2> QED
    BY <2>2
<1>2. q \in Int /\ i - 1 = q * Group + ((i - 1) % Group) /\ (i - 1) % Group \in 0 .. Group - 1
  BY <1>0, Divided
<1>3. c <= q
  <2> SUFFICES ASSUME q + 1 <= c PROVE FALSE
    BY <1>2
  <2>1. (q + 1) * Group <= lo
    BY <1>0, <1>2, Scaled
  <2> QED
    BY <1>0, <1>2, <2>1
<1>4. hi = n \/ q + 1 <= c2
  <2> SUFFICES ASSUME hi = c2 * Group, c2 <= q PROVE FALSE
    BY <1>2
  <2>1. c2 * Group <= q * Group /\ q * Group \in Int
    BY <1>0, <1>2, Scaled
  <2> QED
    BY <1>0, <1>2, <2>1
<1>5. ASSUME NEW j \in 1 .. n, (j - 1) \div Group = q PROVE j \in lo + 1 .. hi
  <2>1. j - 1 = q * Group + ((j - 1) % Group) /\ (j - 1) % Group \in 0 .. Group - 1
    <3>1. j - 1 \in Int
      OBVIOUS
    <3>2. j - 1 = ((j - 1) \div Group) * Group + ((j - 1) % Group) /\ (j - 1) % Group \in 0 .. Group - 1
      BY <1>0, <3>1, Divided
    <3> HIDE DEF q
    <3> QED
      BY <1>5, <3>2
  <2>2. lo <= q * Group /\ q * Group \in Int
    BY <1>0, <1>2, <1>3, Scaled
  <2>3. CASE hi = n
    BY <1>0, <2>1, <2>2, <2>3
  <2>4. CASE q + 1 <= c2 /\ hi = c2 * Group
    <3>1. (q + 1) * Group <= c2 * Group
      BY <1>0, <1>2, <2>4, Scaled
    <3> QED
      BY <1>0, <1>2, <2>1, <2>2, <2>4, <3>1
  <2> QED
    BY <1>4, <2>3, <2>4
<1>6. \A j \in 1 .. n : (j - 1 - 0) \div Group = (j - 1) \div Group
  OBVIOUS
<1>7. lo + 1 .. hi \subseteq 1 .. n /\ lo + 1 .. hi \subseteq Int /\ i \in 1 .. n
  BY <1>0
<1>8. Batches(<<lo, hi>>)[i] = {j \in lo + 1 .. hi : (j - 1 - lo) \div Group = (i - 1 - lo) \div Group}
  BY DEF Batches
<1>9. Batches(<<0, n>>)[i] = {j \in 1 .. n : (j - 1) \div Group = q}
  BY <1>6, <1>7 DEF Batches
<1>10. (i - 1 - lo) \div Group = q - c
  BY <1>1, <1>7
<1>11. \A j \in 1 .. n : (j - 1) \div Group \in Int
  BY <1>0
<1> HIDE DEF lo, q
<1>12. \A j \in lo + 1 .. hi : (j - 1 - lo) \div Group = (i - 1 - lo) \div Group <=> (j - 1) \div Group = q
  BY <1>1, <1>2, <1>7, <1>10, <1>11
<1>13. Batches(<<lo, hi>>)[i] = Batches(<<0, n>>)[i]
  BY <1>5, <1>7, <1>8, <1>9, <1>12
<1> QED
  BY <1>13 DEF lo

LEMMA LessWellFounded ==
    \E R : IsWellFoundedOn(R, Nat) /\ \A x, y \in Nat : x < y => <<x, y>> \in R
<1>1. \A x, y \in Nat : x < y => <<x, y>> \in OpToRel(<, Nat)
  BY DEF OpToRel
<1> QED
  BY <1>1, NatLessThanWellFounded, Zenon

LEMMA MinOf ==
    ASSUME NEW S, S \subseteq Nat, S # {}
    PROVE  Min(S) \in S /\ \A y \in S : Min(S) <= y
<1>1. PICK R : IsWellFoundedOn(R, Nat) /\ \A x, y \in Nat : x < y => <<x, y>> \in R
  BY LessWellFounded
<1>2. IsWellFoundedOn(R, Nat) /\ S \subseteq Nat
  BY <1>1
<1>3. PICK x \in S : \A y \in S : ~ (<<y, x>> \in R)
  BY <1>2, WFMin, Zenon
<1>4. \A y \in S : ~ (y < x)
  BY <1>1, <1>3, Zenon
<1>5. \A y \in S : x <= y
  BY <1>4
<1> QED
  BY <1>5 DEF Min

\* Shares of pieces, whatever is done with each.
LEMMA PiecesLen ==
    ASSUME NEW n \in Nat, NEW k \in Nat \ {0}, NEW base \in Nat
    PROVE  Len(Pieces(n, k, base)) = k /\ DOMAIN Pieces(n, k, base) = 1 .. k
<1> DEFINE S == {Pieces(n, k, base)[i] : i \in 1 .. k}
<1>1. DOMAIN Pieces(n, k, base) = 1 .. k
  BY DEF Pieces
<1>2. Pieces(n, k, base) \in [1 .. k -> S]
  BY DEF Pieces
<1>3. Pieces(n, k, base) \in Seq(S)
  <2> HIDE DEF S
  <2> QED
    BY <1>2
<1> QED
  BY <1>1, <1>3, LenProperties

LEMMA GroupPieces ==
    ASSUME NEW n \in Nat \ {0}, NEW r \in Nat, r > 1
    PROVE  \E k \in 1 .. r, q \in Nat \ {0}, base \in Nat \ {0} :
              /\ GroupSplit(n, r) = Pieces(n, k, base)
              /\ base = q * Group /\ (k - 1) * base <= n
<1>0. Group \in Nat \ {0}
  BY GroupAssumption
<1> DEFINE groups == (n + Group - 1) \div Group
           k == Min({r, groups})
           q == groups \div k
<1>1. GroupSplit(n, r) = Pieces(n, k, q * Group)
  BY DEF GroupSplit, Pieces
<1>2. /\ groups \in Int /\ n + Group - 1 = groups * Group + ((n + Group - 1) % Group)
      /\ (n + Group - 1) % Group \in 0 .. Group - 1
  <2>1. n + Group - 1 \in Int
    BY <1>0
  <2> QED
    BY <1>0, <2>1, Divided
<1> HIDE DEF groups
<1>3. groups >= 1
  <2> SUFFICES ASSUME groups <= 0 PROVE FALSE
    BY <1>2
  <2>1. groups * Group <= 0 * Group /\ groups * Group \in Int
    BY <1>0, <1>2, Scaled
  <2> QED
    BY <1>0, <1>2, <2>1
<1>4. groups * Group \in Int /\ (groups - 1) * Group = groups * Group - Group /\ (groups - 1) * Group <= n
  BY <1>0, <1>2
<1>5. k \in 1 .. r /\ k <= groups
  <2>1. {r, groups} \subseteq Nat /\ {r, groups} # {}
    BY <1>2, <1>3
  <2> QED
    BY <1>3, <2>1, MinOf
<1> HIDE DEF k
<1>6. q \in Int /\ groups = q * k + (groups % k) /\ groups % k \in 0 .. k - 1
  BY <1>2, <1>5, Divided
<1> HIDE DEF q
<1>7. q >= 1
  <2> SUFFICES ASSUME q <= 0 PROVE FALSE
    BY <1>6
  <2>1. q * k <= 0 * k /\ q * k \in Int
    BY <1>5, <1>6, Scaled
  <2> QED
    BY <1>2, <1>5, <1>6, <2>1
<1>8. (k - 1) * q <= groups - 1 /\ (k - 1) * q \in Int
  <2>1. (k - 1) * q = q * k - q /\ q * k \in Int
    BY <1>5, <1>6
  <2> QED
    BY <1>2, <1>5, <1>6, <1>7, <2>1
<1>9. ((k - 1) * q) * Group <= (groups - 1) * Group /\ ((k - 1) * q) * Group \in Int
  <2> DEFINE a == (k - 1) * q
  <2>1. a \in Int /\ groups - 1 \in Int /\ a <= groups - 1
    BY <1>2, <1>8
  <2> HIDE DEF a
  <2>2. a * Group <= (groups - 1) * Group /\ a * Group \in Int
    BY <1>0, <2>1, Scaled
  <2> QED
    BY <2>2 DEF a
<1>10. (k - 1) * (q * Group) = ((k - 1) * q) * Group /\ q * Group \in Nat \ {0}
  BY <1>0, <1>5, <1>6, <1>7
<1> DEFINE base == q * Group
           room == (k - 1) * base
           top == (groups - 1) * Group
<1>11. room <= n
  <2> DEFINE same == ((k - 1) * q) * Group
  <2>1. same \in Int /\ same <= top /\ top <= n
    BY <1>4, <1>9
  <2>2. room = same
    BY <1>10
  <2>3. top \in Int
    BY <1>0, <1>2
  <2> HIDE DEF room, top, same
  <2> QED
    BY <2>1, <2>2, <2>3
<1>12. k \in 1 .. r /\ q \in Nat \ {0}
  BY <1>5, <1>6, <1>7
<1>13. base \in Nat \ {0} /\ base = q * Group /\ (k - 1) * base <= n /\ GroupSplit(n, r) = Pieces(n, k, base)
  BY <1>1, <1>10, <1>11
<1> HIDE DEF base
<1> QED
  BY <1>12, <1>13

LEMMA EvenPieces ==
    ASSUME NEW n \in Nat \ {0}, NEW r \in Nat, r > 1
    PROVE  \E k \in 1 .. r, q \in Nat \ {0} :
              EvenSplit(n, r) = Pieces(n, k, q) /\ (k - 1) * q <= n
<1> DEFINE k == Min({r, n})
           q == n \div k
<1>1. EvenSplit(n, r) = Pieces(n, k, q)
  BY DEF EvenSplit, Pieces
<1>2. k \in 1 .. r /\ k <= n
  <2>1. {r, n} \subseteq Nat /\ {r, n} # {}
    OBVIOUS
  <2> QED
    BY <2>1, MinOf
<1> HIDE DEF k
<1>3. q \in Int /\ n = q * k + (n % k) /\ n % k \in 0 .. k - 1
  BY <1>2, Divided
<1> HIDE DEF q
<1>4. q >= 1
  <2> SUFFICES ASSUME q <= 0 PROVE FALSE
    BY <1>3
  <2>1. q * k <= 0 * k /\ q * k \in Int
    BY <1>2, <1>3, Scaled
  <2> QED
    BY <1>2, <1>3, <2>1
<1>5. (k - 1) * q <= n
  <2>1. (k - 1) * q = q * k - q /\ q * k \in Int
    BY <1>2, <1>3
  <2> QED
    BY <1>2, <1>3, <1>4, <2>1
<1>6. k \in 1 .. r /\ q \in Nat \ {0}
  BY <1>2, <1>3, <1>4
<1> QED
  BY <1>1, <1>5, <1>6

\* The shares of an evaluation: together they measure what one GPU would.
SharesWhole(e, B) ==
    /\ Len(B) \in Nat \ {0} /\ DOMAIN B = 1 .. Len(B)
    /\ \A i \in 1 .. Len(B) : \A j \in DOMAIN Together(e, B[i]) :
          j \in 1 .. Size(e) /\ Together(e, B[i])[j] = Whole(e)[j]
    /\ \A j \in 1 .. Size(e) : \E i \in 1 .. Len(B) : j \in DOMAIN Together(e, B[i])

LEMMA GenerativeShares ==
    ASSUME NEW e \in Generative, NEW r \in Nat, r > 1
    PROVE  SharesWhole(e, Bounds(e, r)) /\ Len(Bounds(e, r)) <= r
<1> DEFINE n == NumPrompts
<1>1. Size(e) = n /\ n \in Nat \ {0} /\ Bounds(e, r) = GroupSplit(n, r) /\ \A b : Together(e, b) = Batches(b)
  BY NumbersAssumption DEF Size, Bounds, Together, Generative
<1> HIDE DEF n
<1>2. PICK k \in 1 .. r, q \in Nat \ {0}, base \in Nat \ {0} :
              /\ GroupSplit(n, r) = Pieces(n, k, base)
              /\ base = q * Group /\ (k - 1) * base <= n
  BY <1>1, GroupPieces
<1> DEFINE B == Pieces(n, k, base)
           lo(i) == (i - 1) * base
           hi(i) == IF i = k THEN n ELSE i * base
<1>20. k \in Nat \ {0} /\ n \in Nat /\ base \in Nat
  BY <1>1
<1>3. Len(B) = k /\ DOMAIN B = 1 .. k
  BY <1>20, PiecesLen
<1>4. \A i \in 1 .. k : B[i] = <<lo(i), hi(i)>>
  BY DEF Pieces
<1>5. /\ \A i \in 1 .. k : lo(i) \in Nat /\ i * base \in Nat /\ hi(i) \in 0 .. n
      /\ \A j \in 1 .. n : \E i \in 1 .. k : j \in lo(i) + 1 .. hi(i)
  <2>1. (k - 1) * base <= n
    BY <1>2
  <2> QED
    BY <1>20, <2>1, Tiled
<1>6. \A i \in 1 .. k : DOMAIN Batches(B[i]) = lo(i) + 1 .. hi(i)
  BY <1>4 DEF Batches
<1>7. ASSUME NEW i \in 1 .. k, NEW j \in lo(i) + 1 .. hi(i)
      PROVE  j \in 1 .. n /\ Batches(B[i])[j] = Whole(e)[j]
  <2>0. Group \in Nat \ {0}
    BY GroupAssumption
  <2>1. lo(i) = ((i - 1) * q) * Group /\ (i - 1) * q \in Nat
    BY <1>2, <2>0
  <2>2. i * base = (i * q) * Group /\ i * q \in Nat
    BY <1>2, <2>0
  <2>3. hi(i) \in 0 .. n /\ (hi(i) = n \/ hi(i) = (i * q) * Group)
    BY <1>5, <2>2
  <2> DEFINE c == (i - 1) * q
             c2 == i * q
             h == hi(i)
  <2>4. /\ c \in Nat /\ c2 \in Nat /\ h \in 0 .. n /\ (h = n \/ h = c2 * Group)
        /\ j \in c * Group + 1 .. h /\ B[i] = <<c * Group, h>>
    BY <1>4, <1>7, <2>1, <2>2, <2>3
  <2> HIDE DEF c, c2, h, B
  <2>5. Batches(<<c * Group, h>>)[j] = Batches(<<0, n>>)[j]
    BY <1>20, <2>4, SameBatch
  <2>6. Whole(e) = Batches(<<0, n>>)
    BY <1>1 DEF Whole
  <2>7. c * Group \in Nat
    BY <2>0, <2>4
  <2> DEFINE start == c * Group
  <2>8. start \in Nat /\ h \in 0 .. n /\ j \in start + 1 .. h
    BY <2>4, <2>7
  <2> HIDE DEF start
  <2>9. j \in 1 .. n
    BY <1>20, <2>8
  <2> QED
    BY <2>4, <2>5, <2>6, <2>9
<1> HIDE DEF B, lo, hi
<1>8. SharesWhole(e, B)
  <2>1. \A i \in 1 .. k : DOMAIN Together(e, B[i]) = lo(i) + 1 .. hi(i)
    BY <1>1, <1>6
  <2>2. ASSUME NEW i \in 1 .. k, NEW j \in DOMAIN Together(e, B[i])
        PROVE  j \in 1 .. Size(e) /\ Together(e, B[i])[j] = Whole(e)[j]
    BY <1>1, <1>7, <2>1, <2>2
  <2>3. \A j \in 1 .. Size(e) : \E i \in 1 .. k : j \in DOMAIN Together(e, B[i])
    BY <1>1, <1>5, <2>1
  <2> QED
    BY <1>3, <1>20, <2>2, <2>3 DEF SharesWhole
<1> QED
  BY <1>1, <1>2, <1>3, <1>8 DEF B

LEMMA WikitextShares ==
    ASSUME NEW r \in Nat, r > 1
    PROVE  SharesWhole("wikitext2", Bounds("wikitext2", r)) /\ Len(Bounds("wikitext2", r)) <= r
<1> DEFINE n == NumRows
           e == "wikitext2"
<1>1. Size(e) = n /\ n \in Nat \ {0} /\ Bounds(e, r) = EvenSplit(n, r) /\ \A b : Together(e, b) = Rows(b)
  BY NumbersAssumption DEF Size, Bounds, Together, Generative
<1> HIDE DEF n, e
<1>2. PICK k \in 1 .. r, q \in Nat \ {0} :
              EvenSplit(n, r) = Pieces(n, k, q) /\ (k - 1) * q <= n
  BY <1>1, EvenPieces
<1> DEFINE B == Pieces(n, k, q)
           lo(i) == (i - 1) * q
           hi(i) == IF i = k THEN n ELSE i * q
<1>20. k \in Nat \ {0} /\ n \in Nat /\ q \in Nat
  BY <1>1
<1>3. Len(B) = k /\ DOMAIN B = 1 .. k
  BY <1>20, PiecesLen
<1>4. \A i \in 1 .. k : B[i] = <<lo(i), hi(i)>>
  BY DEF Pieces
<1>5. /\ \A i \in 1 .. k : lo(i) \in Nat /\ hi(i) \in 0 .. n
      /\ \A j \in 1 .. n : \E i \in 1 .. k : j \in lo(i) + 1 .. hi(i)
  BY <1>20, <1>2, Tiled
<1>6. \A i \in 1 .. k : Rows(B[i]) = [j \in lo(i) + 1 .. hi(i) |-> {j}]
  BY <1>4 DEF Rows
<1>7. Whole(e) = [j \in 1 .. n |-> {j}]
  <2>1. Whole(e) = Rows(<<0, n>>)
    BY <1>1 DEF Whole
  <2>2. Rows(<<0, n>>) = [j \in 0 + 1 .. n |-> {j}]
    BY DEF Rows
  <2>3. 0 + 1 = 1
    OBVIOUS
  <2> QED
    BY <2>1, <2>2, <2>3
<1> HIDE DEF B, lo, hi
<1>8. ASSUME NEW i \in 1 .. k, NEW j \in lo(i) + 1 .. hi(i)
      PROVE  j \in 1 .. n /\ Rows(B[i])[j] = Whole(e)[j]
  <2>1. lo(i) \in Nat /\ hi(i) \in 0 .. n
    BY <1>5
  <2>2. j \in 1 .. n
    BY <1>1, <1>8, <2>1
  <2> QED
    BY <1>6, <1>7, <2>2
<1>9. SharesWhole(e, B)
  <2>1. \A i \in 1 .. k : DOMAIN Together(e, B[i]) = lo(i) + 1 .. hi(i)
    BY <1>1, <1>6
  <2>2. ASSUME NEW i \in 1 .. k, NEW j \in DOMAIN Together(e, B[i])
        PROVE  j \in 1 .. Size(e) /\ Together(e, B[i])[j] = Whole(e)[j]
    BY <1>1, <1>8, <2>1, <2>2
  <2>3. \A j \in 1 .. Size(e) : \E i \in 1 .. k : j \in DOMAIN Together(e, B[i])
    BY <1>1, <1>5, <2>1
  <2> QED
    BY <1>3, <1>20, <2>2, <2>3 DEF SharesWhole
<1> QED
  BY <1>1, <1>2, <1>3, <1>9 DEF B, e

LEMMA Shared ==
    ASSUME Known, Share(E) > 1
    PROVE  /\ E \in Generative \cup {"wikitext2"} /\ side = "student"
           /\ SharesWhole(E, Bounds(E, Share(E)))
           /\ 1 .. Len(Bounds(E, Share(E))) \subseteq Replicas
<1>1. /\ cfg.replicas \in Nat /\ 1 .. cfg.replicas \subseteq Replicas /\ cfg.devices \in Nat
  BY GateAssumption DEF Known
<1>2. E \in Generative \cup {"wikitext2"} /\ side = "student"
  BY DEF Share
<1>3. Size(E) \in Nat \ {0}
  BY NumbersAssumption DEF Size
<1> DEFINE n == Size(E)
           aligned == E \in Generative
           S == {cfg.replicas, cfg.devices, n} \cup IF aligned THEN {(n + Group - 1) \div Group} ELSE {}
           k == Min(S)
<1>4. Share(E) = k
  BY <1>2 DEF Share, Effective
<1>5. (n + Group - 1) \div Group \in Nat
  <2> DEFINE x == n + Group - 1
             q == x \div Group
  <2>1. x \in Nat /\ Group \in Nat \ {0}
    BY <1>3, GroupAssumption
  <2> HIDE DEF x
  <2>2. q \in Int /\ x = q * Group + (x % Group) /\ x % Group \in 0 .. Group - 1
    BY <2>1, Divided
  <2> HIDE DEF q
  <2>3. q >= 0
    <3> SUFFICES ASSUME q + 1 <= 0 PROVE FALSE
      BY <2>2
    <3>1. (q + 1) * Group <= 0 * Group
      BY <2>1, <2>2, Scaled
    <3> QED
      BY <2>1, <2>2, <3>1
  <2>4. q \in Nat
    BY <2>2, <2>3
  <2> QED
    BY <2>4 DEF q, x
<1>6. S \subseteq Nat /\ cfg.replicas \in S
  <2> HIDE DEF n
  <2> QED
    BY <1>1, <1>3, <1>5 DEF n
<1> HIDE DEF S, n
<1>7. k \in Nat /\ k <= cfg.replicas
  BY <1>6, MinOf
<1> HIDE DEF k
<1>8. SharesWhole(E, Bounds(E, k)) /\ Len(Bounds(E, k)) <= k
  <2>1. k > 1
    BY <1>4
  <2> QED
    BY <1>2, <1>7, <2>1, GenerativeShares, WikitextShares
<1>9. Len(Bounds(E, k)) \in Nat
  BY <1>8 DEF SharesWhole
<1>10. 1 .. Len(Bounds(E, k)) \subseteq Replicas
  BY <1>1, <1>7, <1>8, <1>9
<1> QED
  BY <1>2, <1>4, <1>8, <1>10

----------------------------------------------------------------------------
(* What was measured                                                       *)

\* The files of replicas that all ended well make up the whole.
LEMMA Merged ==
    ASSUME Known, Replicating, pc = "replicas", AllExited,
           NEW files, files = [r \in Used |-> shard[E][r]]
    PROVE  /\ [i \in UNION {DOMAIN files[r][2].with : r \in Used} |->
                 files[CHOOSE r \in Used : i \in DOMAIN files[r][2].with][2].with[i]] = Whole(E)
           /\ {files[r][2].student : r \in Used} = {student}
<1> DEFINE k == Share(E)
           B == Bounds(E, k)
           part(i) == CHOOSE r \in Used : i \in DOMAIN files[r][2].with
<1>1. k > 1 /\ \A r \in Replicas : /\ rep[r] = "off" <=> r > Len(B)
                                   /\ rep[r] = "done" => shard[E][r] = <<B[r], [student |-> student, with |-> Together(E, B[r])]>>
  BY DEF Replicating
<1> HIDE DEF k
<1>2. SharesWhole(E, B) /\ 1 .. Len(B) \subseteq Replicas
  BY <1>1, Shared DEF k
<1> HIDE DEF B
<1>3. Len(B) \in Nat \ {0}
  BY <1>2 DEF SharesWhole
<1>4. Used = 1 .. Len(B)
  <2>1. \A r \in Replicas : r \in Int /\ 1 <= r
    BY DEF Replicas
  <2>2. ASSUME NEW r \in Replicas PROVE rep[r] # "off" <=> r <= Len(B)
    <3>1. rep[r] = "off" <=> r > Len(B)
      BY <1>1
    <3>2. r \in Int /\ Len(B) \in Int
      BY <1>3, <2>1
    <3> QED
      BY <3>1, <3>2
  <2>3. \A r \in Used : r \in 1 .. Len(B)
    BY <1>3, <2>1, <2>2 DEF Used
  <2>4. \A r \in 1 .. Len(B) : r \in Used
    BY <1>2, <1>3, <2>2 DEF Used
  <2> QED
    BY <2>3, <2>4
<1>5. ASSUME NEW r \in Used
      PROVE  files[r] = <<B[r], [student |-> student, with |-> Together(E, B[r])]>>
  <2>1. files[r] = shard[E][r]
    OBVIOUS
  <2>2. r \in Replicas /\ rep[r] = "done"
    BY DEF AllExited, Used
  <2> QED
    BY <1>1, <2>1, <2>2
<1>6. ASSUME NEW r \in Used
      PROVE  files[r][2].student = student /\ files[r][2].with = Together(E, B[r])
  <2>1. files[r] = <<B[r], [student |-> student, with |-> Together(E, B[r])]>>
    BY <1>5
  <2>2. files[r][2] = [student |-> student, with |-> Together(E, B[r])]
    BY <2>1
  <2> QED
    BY <2>2
<1>7. {files[r][2].student : r \in Used} = {student}
  BY <1>3, <1>4, <1>6
<1>8. UNION {DOMAIN files[r][2].with : r \in Used} = 1 .. Size(E)
  <2>1. \A i \in 1 .. Size(E) : \E r \in Used : i \in DOMAIN files[r][2].with
    BY <1>2, <1>4, <1>6 DEF SharesWhole
  <2>2. \A r \in Used : DOMAIN files[r][2].with \subseteq 1 .. Size(E)
    BY <1>2, <1>4, <1>6 DEF SharesWhole
  <2> QED
    BY <2>1, <2>2
<1>9. ASSUME NEW i \in 1 .. Size(E) PROVE files[part(i)][2].with[i] = Whole(E)[i]
  <2>1. \E r \in Used : i \in DOMAIN files[r][2].with
    BY <1>2, <1>4, <1>6 DEF SharesWhole
  <2>2. part(i) \in Used /\ i \in DOMAIN files[part(i)][2].with
    BY <2>1
  <2> HIDE DEF part
  <2> QED
    BY <1>2, <1>4, <1>6, <2>2 DEF SharesWhole
<1>10. Whole(E) = [i \in 1 .. Size(E) |-> Whole(E)[i]]
  <2>1. E \in Generative \cup {"wikitext2"}
    BY <1>1, Shared DEF k
  <2>2. 0 + 1 = 1
    OBVIOUS
  <2> QED
    BY <2>1, <2>2 DEF Whole, Together, Batches, Rows
<1> QED
  BY <1>7, <1>8, <1>9, <1>10

\* A measurement that agrees is recorded.
LEMMA TermRecorded ==
    ASSUME Terms, OnGpu, NEW out, NEW by,
           Record(E, out, Whole(E), by), by = {student}, E \in Generative => env' = Generating,
           UNCHANGED settings
    PROVE  Terms'
<1> DEFINE term == [env |-> env', with |-> Whole(E), by |-> by, out |-> out]
           e == E
<1>1. terms' = [terms EXCEPT ![side] = Above([x \in {e} |-> term], terms[side])]
  BY DEF Record
<1>2. term.env = env' /\ term.with = Whole(e) /\ term.by = {student}
  OBVIOUS
<1>3. Measured(side, e, term)
  BY <1>2 DEF Measured
<1> HIDE DEF term, e
<1>4. student' = student
  BY DEF settings
<1>5. DOMAIN terms' = {"student", "teacher"}
  BY <1>1 DEF Terms
<1>6. ASSUME NEW s \in {"student", "teacher"}, NEW x \in DOMAIN terms'[s]
      PROVE  Measured(s, x, terms'[s][x])
  <2>1. CASE s = side
    <3>1. terms'[s] = Above([y \in {e} |-> term], terms[side])
      BY <1>1, <1>6, <2>1 DEF Terms
    <3>2. CASE x = e
      <4>1. terms'[s][x] = term
        BY <1>6, <3>1, <3>2 DEF Above
      <4> QED
        BY <1>3, <2>1, <3>2, <4>1
    <3>3. CASE x # e
      <4>1. x \in DOMAIN terms[s] /\ terms'[s][x] = terms[s][x]
        BY <1>6, <2>1, <3>1, <3>3 DEF Above
      <4> QED
        BY <1>6, <4>1 DEF Terms
    <3> QED
      BY <3>2, <3>3
  <2>2. CASE s # side
    <3>1. terms'[s] = terms[s]
      BY <1>1, <1>6, <2>2 DEF Terms
    <3> QED
      BY <1>6, <3>1 DEF Terms
  <2> QED
    BY <2>1, <2>2
<1> QED
  BY <1>4, <1>5, <1>6 DEF Terms, Measured

LEMMA TermsStep ==
    ASSUME Terms, Known, OnGpu, Replicating, [Next]_vars
    PROVE  Terms'
<1>1. CASE UNCHANGED <<settings, terms>>
  BY <1>1 DEF Terms, Measured, settings
<1>2. CASE Start
  BY <1>2 DEF Start, NoNumbers, Terms
<1>3. CASE EvaluateHere
  <2>1. PICK out \in Outcomes(E) : Record(E, out, Whole(E), {student})
    BY <1>3 DEF EvaluateHere
  <2>2. UNCHANGED settings /\ (E \in Generative => env' = Generating)
    BY <1>3 DEF EvaluateHere, Prepared
  <2> QED
    BY <2>1, <2>2, TermRecorded
<1>4. CASE MergeShards
  <2>1. pc = "replicas" /\ AllExited /\ UNCHANGED <<env, settings>>
    BY <1>4 DEF MergeShards
  <2> DEFINE files == [r \in Used |-> shard[E][r]]
             with == [i \in UNION {DOMAIN files[r][2].with : r \in Used} |->
                         files[CHOOSE r \in Used : i \in DOMAIN files[r][2].with][2].with[i]]
             by == {files[r][2].student : r \in Used}
  <2>2. with = Whole(E) /\ by = {student}
    <3> DEFINE f == files
    <3>1. f = [r \in Used |-> shard[E][r]]
      OBVIOUS
    <3> QED
      BY <2>1, <3>1, Merged
  <2>3. \/ \E out \in Outcomes(E) \ {"inputs"} : Record(E, out, with, by)
        \/ UNCHANGED terms
    <3>1. PICK f \in {files} :
            \/ \E out \in Outcomes(E) \ {"inputs"} :
                  Record(E, out, [i \in UNION {DOMAIN f[r][2].with : r \in Used} |->
                                    f[CHOOSE r \in Used : i \in DOMAIN f[r][2].with][2].with[i]],
                         {f[r][2].student : r \in Used})
            \/ UNCHANGED terms
      <4> HIDE DEF files
      <4>1. \E f \in {[r \in Used |-> shard[E][r]]} :
            \/ \E out \in Outcomes(E) \ {"inputs"} :
                  Record(E, out, [i \in UNION {DOMAIN f[r][2].with : r \in Used} |->
                                    f[CHOOSE r \in Used : i \in DOMAIN f[r][2].with][2].with[i]],
                         {f[r][2].student : r \in Used})
            \/ UNCHANGED terms
        BY <1>4, Zenon DEF MergeShards
      <4> QED
        BY <4>1 DEF files
    <3>2. f = files
      OBVIOUS
    <3> QED
      BY <3>1, <3>2
  <2>4. E \in Generative => env' = Generating
    BY <2>1 DEF Replicating
  <2> HIDE DEF with, by
  <2>5. CASE UNCHANGED terms
    BY <1>1, <2>1, <2>5
  <2>6. ASSUME NEW out, Record(E, out, with, by) PROVE Terms'
    <3>1. Record(E, out, Whole(E), by)
      BY <2>2, <2>6
    <3> QED
      BY <2>1, <2>2, <2>4, <3>1, TermRecorded
  <2> QED
    BY <2>3, <2>5, <2>6
<1>5. CASE SetUp \/ ThermoSetUp \/ Materialize \/ BuildCorpus \/ EvaluationRaises \/ SpawnReplicas \/ JoinFails
  BY <1>1, <1>5 DEF SetUp, ThermoSetUp, Materialize, BuildCorpus, EvaluationRaises, SpawnReplicas, JoinFails, numbers
<1>6. CASE CleanSource \/ CacheHit \/ ThermoHit \/ CacheMiss \/ ThermoMiss \/ StartConvert \/ LoadTeacher
  BY <1>1, <1>6 DEF CleanSource, CacheHit, ThermoHit, TakeNumbers, CacheMiss, ThermoMiss, StartConvert, LoadTeacher, numbers
<1>7. CASE SaveCache \/ ThermoSave \/ FreeStudent \/ NoImatrix \/ SkipImatrix \/ UsePublished
  BY <1>1, <1>7 DEF SaveCache, ThermoSave, FreeStudent, NoImatrix, SkipImatrix, UsePublished, numbers
<1>8. CASE ConvertHere \/ Converted \/ RunLlama \/ WriteReport \/ ThermoReport \/ Crash
  BY <1>1, <1>8 DEF ConvertHere, Converted, RunLlama, WriteReport, ThermoReport, Crash, numbers
<1>9. CASE Read \/ Convert \/ Finished \/ \E r \in Replicas : ReplicaEnds(r) \/ ReplicaFails(r)
  BY <1>1, <1>9 DEF Read, Convert, Finished, ReplicaEnds, ReplicaFails, vars, numbers
<1> QED
  BY <1>1, <1>2, <1>3, <1>4, <1>5, <1>6, <1>7, <1>8, <1>9 DEF Next, Main, vars, numbers

LEMMA SameShare ==
    ASSUME UNCHANGED <<settings, at, side, source>>
    PROVE  E' = E /\ Share(E)' = Share(E)
BY DEF E, Plan, Full, Enabled, Share, settings

LEMMA ReplicatingStep ==
    ASSUME Replicating, Known, OnGpu, [Next]_vars
    PROVE  Replicating'
<1>1. ASSUME UNCHANGED shard, rep' \in [Replicas -> {"off", "works", "done", "failed"}], pc' # "replicas"
      PROVE  Replicating'
  BY <1>1 DEF Replicating
<1>2. rep \in [Replicas -> {"off", "works", "done", "failed"}] /\ Nobody \in [Replicas -> {"off", "works", "done", "failed"}]
  BY DEF Replicating, Nobody
<1>3. CASE UNCHANGED <<settings, pc, at, side, env, source, rep, shard>>
  <2>1. E' = E /\ Share(E)' = Share(E) /\ student' = student
    BY <1>3, SameShare DEF settings
  <2> QED
    BY <1>3, <2>1 DEF Replicating
<1>4. CASE Start
  BY <1>1, <1>2, <1>4 DEF Start, GoTo
<1>5. CASE SetUp \/ ThermoSetUp \/ Materialize \/ BuildCorpus
  BY <1>1, <1>2, <1>5 DEF SetUp, ThermoSetUp, Materialize, BuildCorpus, GoTo, Fail, workers
<1>6. CASE EvaluateHere \/ EvaluationRaises \/ JoinFails
  BY <1>1, <1>2, <1>6 DEF EvaluateHere, EvaluationRaises, JoinFails, NextEval, After, GoTo, Fail, workers
<1>7. CASE SpawnReplicas
  <2>1. /\ Share(E) > 1 /\ env' = Prepared(E) /\ pc' = "replicas"
        /\ rep' = [r \in Replicas |-> IF r <= Len(Bounds(E, Share(E))) THEN "works" ELSE "off"]
        /\ UNCHANGED <<settings, at, side, source, shard>>
    BY <1>7 DEF SpawnReplicas
  <2>2. E' = E /\ Share(E)' = Share(E)
    BY <2>1, SameShare
  <2>3. side = "student" /\ Len(Bounds(E, Share(E))) \in Nat
    BY <2>1, Shared DEF SharesWhole
  <2> DEFINE n == Len(Bounds(E, Share(E)))
  <2>4. \A r \in Replicas : r \in Int
    BY DEF Replicas
  <2> HIDE DEF n
  <2>5. rep' = [r \in Replicas |-> IF r <= n THEN "works" ELSE "off"] /\ n \in Nat
    BY <2>1, <2>3 DEF n
  <2>6. /\ rep' \in [Replicas -> {"off", "works", "done", "failed"}]
        /\ \A r \in Replicas : rep'[r] # "done" /\ (rep'[r] = "off" <=> r > n)
    BY <2>4, <2>5
  <2>7. E \in Generative => env' = Generating
    BY <2>1 DEF Prepared
  <2> QED
    BY <2>1, <2>2, <2>3, <2>6, <2>7 DEF Replicating, n
<1>8. CASE MergeShards
  BY <1>1, <1>2, <1>8 DEF MergeShards, NextEval, After, GoTo, Fail
<1>9. ASSUME NEW r \in Replicas, ReplicaEnds(r) PROVE Replicating'
  <2> DEFINE B == Bounds(E, Share(E))
             file == <<B[r], [student |-> student, with |-> Together(E, B[r])]>>
  <2>1. /\ rep' = [rep EXCEPT ![r] = "done"] /\ shard' = [shard EXCEPT ![E][r] = file]
        /\ UNCHANGED <<settings, pc, at, side, env, source>>
    BY <1>9 DEF ReplicaEnds
  <2>2. E' = E /\ Share(E)' = Share(E) /\ student' = student
    BY <2>1, SameShare DEF settings
  <2> DEFINE e == E
  <2> HIDE DEF file, e
  <2>3. shard' = [shard EXCEPT ![e][r] = file]
    BY <2>1 DEF e
  <2>4. /\ DOMAIN shard' = DOMAIN shard
        /\ \A f \in DOMAIN shard : DOMAIN shard'[f] = DOMAIN shard[f]
    BY <2>3
  <2>5. pc = "replicas" => e \in DOMAIN shard /\ r \in DOMAIN shard[e]
    <3> SUFFICES ASSUME pc = "replicas" PROVE e \in DOMAIN shard
      BY DEF Replicating
    <3>1. Share(E) > 1
      BY DEF Replicating
    <3> QED
      BY <3>1, Shared DEF Replicating, e
  <2>6. ASSUME pc = "replicas", NEW q \in Replicas, q # r PROVE shard'[e][q] = shard[e][q]
    BY <2>3, <2>5, <2>6
  <2>7. pc = "replicas" => shard'[e][r] = file
    BY <2>3, <2>5
  <2>8. rep' \in [Replicas -> {"off", "works", "done", "failed"}]
        /\ \A q \in Replicas : rep'[q] = IF q = r THEN "done" ELSE rep[q]
    BY <1>2, <2>1
  <2>9. rep[r] = "works"
    BY <1>9 DEF ReplicaEnds
  <2>10. CASE pc # "replicas"
    BY <2>1, <2>4, <2>8, <2>10 DEF Replicating
  <2>11. CASE pc = "replicas"
    <3>1. \A q \in Replicas :
             /\ rep[q] = "off" <=> q > Len(B)
             /\ rep[q] = "done" => shard[e][q] = <<B[q], [student |-> student, with |-> Together(E, B[q])]>>
      BY <2>11 DEF Replicating, e
    <3>2. ASSUME NEW q \in Replicas
          PROVE  /\ rep'[q] = "off" <=> q > Len(B)
                 /\ rep'[q] = "done" => shard'[e][q] = <<B[q], [student |-> student, with |-> Together(E, B[q])]>>
      <4>1. CASE q = r
        BY <2>7, <2>8, <2>9, <2>11, <3>1, <4>1 DEF file
      <4>2. CASE q # r
        BY <2>6, <2>8, <2>11, <3>1, <4>2
      <4> QED
        BY <4>1, <4>2
    <3>3. \A q \in Replicas :
             /\ rep'[q] = "off" <=> q > Len(B)
             /\ rep'[q] = "done" => shard'[E][q] = <<B[q], [student |-> student, with |-> Together(E, B[q])]>>
      BY <3>2 DEF e
    <3> QED
      BY <2>1, <2>2, <2>4, <2>8, <2>11, <3>3 DEF Replicating
  <2> QED
    BY <2>10, <2>11
<1>10. ASSUME NEW r \in Replicas, ReplicaFails(r) PROVE Replicating'
  <2>1. /\ rep[r] = "works" /\ rep' = [rep EXCEPT ![r] = "failed"]
        /\ UNCHANGED <<settings, pc, at, side, env, source, shard>>
    BY <1>10 DEF ReplicaFails
  <2>2. E' = E /\ Share(E)' = Share(E) /\ student' = student
    BY <2>1, SameShare DEF settings
  <2>3. rep' \in [Replicas -> {"off", "works", "done", "failed"}]
        /\ \A q \in Replicas : rep'[q] = IF q = r THEN "failed" ELSE rep[q]
    BY <1>2, <2>1
  <2> QED
    BY <2>1, <2>2, <2>3 DEF Replicating
<1>11. CASE CleanSource \/ CacheHit \/ ThermoHit \/ CacheMiss \/ ThermoMiss \/ StartConvert \/ LoadTeacher
  BY <1>1, <1>2, <1>11 DEF CleanSource, CacheHit, ThermoHit, TakeNumbers, CacheMiss, ThermoMiss,
       StartConvert, LoadTeacher, GoTo, workers
<1>12. CASE SaveCache \/ ThermoSave \/ FreeStudent \/ NoImatrix \/ SkipImatrix \/ UsePublished
  BY <1>1, <1>2, <1>12 DEF SaveCache, ThermoSave, FreeStudent, NoImatrix, SkipImatrix, UsePublished, GoTo,
       Fail, workers
<1>13. CASE ConvertHere \/ Converted \/ RunLlama \/ WriteReport \/ ThermoReport \/ Crash
  BY <1>1, <1>2, <1>13 DEF ConvertHere, Converted, RunLlama, WriteReport, ThermoReport, Crash, GoTo, workers
<1>14. CASE Read \/ Convert \/ Finished
  BY <1>3, <1>14 DEF Read, Convert, Finished, vars, workers, settings
<1> QED
  BY <1>3, <1>4, <1>5, <1>6, <1>7, <1>8, <1>9, <1>10, <1>11, <1>12, <1>13, <1>14
     DEF Next, Main, vars, workers

----------------------------------------------------------------------------
(* The theorems                                                            *)

LEMMA Starts == Init => IInv
<1> SUFFICES ASSUME Init PROVE IInv
  OBVIOUS
<1>1. OnGpu /\ Converting /\ Reported
  BY DEF Init, Blank, OnGpu, Phases, Converting, Reported
<1>2. Known
  BY DEF Init, Blank, NoNumbers, Known, TrueNumbers
<1>3. Terms
  BY DEF Init, Blank, NoNumbers, Terms
<1>4. Replicating
  BY DEF Init, Blank, Nobody, Replicating
<1> QED
  BY <1>1, <1>2, <1>3, <1>4 DEF IInv

LEMMA Step == IInv /\ [Next]_vars => IInv'
BY OnGpuStep, ConvertingStep, KnownStep, ReportedStep, TermsStep, ReplicatingStep DEF IInv

\* What the GPU holds in each phase (the teacher is never freed), who writes model_f16.gguf, which numbers
\* are known and what the replicas have left belong together.
THEOREM Invariant == Spec => []IInv
<1> QED
  BY Starts, Step, PTL DEF Spec

\* One converter of a process writes model_f16.gguf, and the matrix this process
\* made is that of its student (imatrix_export.py).
THEOREM TheMatrixIsTheStudents == Spec => []ImatrixSound
<1>1. IInv => ImatrixSound
  <2> SUFFICES ASSUME IInv PROVE ImatrixSound
    OBVIOUS
  <2>1. ~ (conv \in {"works", "replaced"} /\ pc \in {"converting", "llama"})
    BY DEF IInv, Converting
  <2>2. ImatrixFresh
    BY DEF IInv, Converting, ImatrixFresh
  <2> QED
    BY <2>1, <2>2 DEF ImatrixSound, OneConverter
<1> QED
  BY <1>1, Invariant, PTL

\* Whatever the replicas, every prompt was generated with the prompts it would
\* have had on one GPU, every row counted once, by the student of this process,
\* with the same forward on both sides (eval_shard.py).
THEOREM BothSidesAreMeasuredAlike == Spec => []MeasuredAlike
<1>1. IInv => MeasuredAlike
  BY DEF IInv, Terms, Measured, MeasuredAlike, ShardsExact, SameTerms
<1> QED
  BY <1>1, Invariant, PTL

\* A report that passes tells the truth about every enabled metric
\* (validation_report.py).
THEOREM TheReportIsHonest == Spec => []ReportHonest
<1>1. IInv => ReportHonest
  BY Honest DEF IInv
<1> QED
  BY <1>1, Invariant, PTL

==============================================================================
