------------------------------ MODULE Evaluation ------------------------------
(***************************************************************************)
(* Stage 6: the compressed model (student) is measured against the         *)
(* original (teacher).                                                     *)
(*                                                                         *)
(* The full gate runs up to four evaluations on the student, some of them  *)
(* in replica processes, looks the teacher's numbers up in a cache or      *)
(* loads the teacher (a thread reads it ahead) and runs the same           *)
(* evaluations on it, has a second thread convert the student to GGUF      *)
(* meanwhile, computes the importance matrix, and writes a report with a   *)
(* verdict.  The thermometer (Stage 6alt) is the short form: bits per      *)
(* token, a zero-shot subset and the teacher's cache.                      *)
(*                                                                         *)
(* A process evaluates what stage5_final holds when it starts; the next    *)
(* one may find another student, or another dataset revision in the        *)
(* configuration.  Environment variables stay the same.                    *)
(***************************************************************************)
EXTENDS EvalGate

CONSTANTS
    Configs, Revisions,
    Students,        \* versions of stage5_final
    StudentNumber,   \* of each version and metric
    TeacherNumber,   \* of each revision and metric
    Saved,           \* share of the parameters each version saves
    NumPrompts, NumRows,
    MaxRuns          \* bound: processes, of which the last is left alone

Replicas == 1 .. Max({c.replicas : c \in Configs} \cup {1})

ASSUME NumbersAssumption ==
    /\ MaxRuns \in Nat \ {0} /\ NumPrompts \in Nat \ {0} /\ NumRows \in Nat \ {0}
    /\ \A v \in Students : StudentNumber[v] \in [Metrics \cup {"bpt", "acc"} -> Nat \ {NonFinite}]
    /\ \A r \in Revisions : TeacherNumber[r] \in [Metrics \cup {"bpt", "acc"} -> Nat \ {NonFinite}]
    /\ \A r \in Revisions : TeacherNumber[r]["ppl"] > 0
ASSUME GateAssumption ==
    \A c \in Configs :
        /\ c.gate \in {"full", "thermometer"} /\ c.devices \in Nat
        /\ c.replicas \in Nat /\ 1 .. c.replicas \subseteq Replicas
        /\ \A m \in DOMAIN c.thresholds : c.thresholds[m] \in Int
        /\ {c.compile, c.cache, c.imatrix, c.llama, c.four, c.shardRows, c.generative} \subseteq BOOLEAN
        /\ c.gate = "thermometer" => c.cache /\ c.evals = {"bpt", "subset"}
        /\ c.gate = "full" => c.evals \subseteq {"wikitext2", "zero_shot", "humaneval", "math500"}
        /\ c.generative \/ c.evals \cap Generative = {}

VARIABLES
    cfg, revision, student, run,
    pc, at,     \* where the process is, and the number of the evaluation
    side,       \* whose evaluations run: "student" or "teacher"
    env,        \* forward and experts implementation of that model
    source,     \* the student is on disk for the replicas
    prebuilt,   \* evaluations whose inputs the student's side has prepared
    res,        \* the numbers of both sides
    terms,      \* how each was measured: env, what each example went with, by which student
    counted,    \* the teacher's parameters are known
    gpu,        \* whose memory is held on the GPU
    rep, shard, \* the replicas, and the result file each leaves
    preload,    \* thread that reads the teacher: "off", "reads", "ready" or "ended"
    conv,       \* thread that converts: "off", "works", "replaced", "published" or "ended"
    skipped,    \* imatrix_skipped
    made,       \* the importance matrix this process made was computed from
    f16, cache, report  \* files: model_f16.gguf, the teacher's numbers, the report

settings == <<cfg, revision, student, run>>
numbers == <<prebuilt, res, terms, counted>>
workers == <<rep, shard, source>>
threads == <<preload, conv>>
outputs == <<skipped, made, f16>>
vars == <<settings, pc, at, side, env, numbers, workers, threads, gpu, outputs, cache, report>>

Full == cfg.gate = "full"
Enabled(e) == IF e \in cfg.evals THEN <<e>> ELSE <<>>
Plan ==
    IF Full
    THEN Enabled("wikitext2") \o Enabled("zero_shot") \o Enabled("humaneval") \o Enabled("math500")
    ELSE Enabled("bpt") \o Enabled("subset")
E == Plan[at]
Nobody == [r \in Replicas |-> "off"]
NoNumbers == [s \in {"student", "teacher"} |-> <<>>]
Prefill == [forward |-> "plain", impl |-> "prefill"]
Generating == [forward |-> "plain", impl |-> "generative"]

\* What a new process has in memory.
Blank ==
    /\ side = "student" /\ env = Prefill /\ source = FALSE /\ prebuilt = {}
    /\ res = NoNumbers /\ terms = NoNumbers /\ counted = FALSE
    /\ gpu = {} /\ rep = Nobody /\ preload = "off" /\ conv = "off"
    /\ skipped = FALSE /\ made = {}
Init ==
    /\ cfg \in Configs /\ revision \in Revisions /\ student \in Students /\ run = 0
    /\ pc = "off" /\ at = 1 /\ Blank
    /\ shard = [e \in Generative \cup {"wikitext2"} |-> [r \in Replicas |-> <<>>]]
    /\ f16 = {} /\ cache = {} /\ report = {}

GoTo(p) == pc' = p /\ at' = 1
Fail == pc' = "failed" /\ UNCHANGED at
NextEval(p) == IF at < Len(Plan) THEN at' = at + 1 /\ pc' = "measure" ELSE GoTo(p)

Start ==
    /\ pc \in {"off", "failed", "crashed", "done"} /\ run < MaxRuns
    /\ \A r \in Replicas : rep[r] # "works"
    /\ run' = run + 1 /\ GoTo("setup") /\ UNCHANGED <<cfg, shard, f16, cache, report>>
    /\ revision' \in Revisions /\ student' \in {v \in Students : v >= student}
    /\ side' = "student" /\ env' = Prefill /\ source' = FALSE /\ prebuilt' = {}
    /\ res' = NoNumbers /\ terms' = NoNumbers /\ counted' = FALSE
    /\ gpu' = {"student"} /\ rep' = Nobody /\ preload' = "off" /\ conv' = "off"
    /\ skipped' = FALSE /\ made' = {}

----------------------------------------------------------------------------
\* Kernel patches, experts implementation and torch.compile, which may fail.
Compiled == IF cfg.compile THEN {[Prefill EXCEPT !.forward = "compiled"]} ELSE {}
SetUp ==
    /\ pc = "setup" /\ Full /\ env' \in {Prefill} \cup Compiled /\ GoTo("materialize")
    /\ UNCHANGED <<settings, side, numbers, workers, threads, gpu, outputs, cache, report>>
ThermoSetUp ==
    /\ pc = "setup" /\ ~Full /\ env' = Prefill /\ GoTo("corpus")
    /\ UNCHANGED <<settings, side, numbers, workers, threads, gpu, outputs, cache, report>>
\* The student is saved for the replicas; when that fails there are none.
Materialize ==
    /\ pc = "materialize" /\ GoTo(IF Plan = <<>> THEN "evaluated" ELSE "measure")
    /\ source' \in {cfg.replicas > 1} \cup {FALSE}
    /\ UNCHANGED <<settings, side, env, numbers, rep, shard, threads, gpu, outputs, cache, report>>
\* The thermometer builds its corpus once, for both sides, or cannot.
BuildCorpus ==
    /\ pc = "corpus"
    /\ GoTo("measure") \/ (cfg.flaky # {} /\ run < MaxRuns /\ Fail)
    /\ UNCHANGED <<settings, side, env, numbers, workers, threads, gpu, outputs, cache, report>>

----------------------------------------------------------------------------
\* One evaluation of one side.
Size(e) == IF e = "wikitext2" THEN NumRows ELSE NumPrompts
Number(s, m) == IF s = "student" THEN StudentNumber[student][m] ELSE TeacherNumber[revision][m]

\* How one may end: with its number; without inputs (no dataset, no lm-eval),
\* which cannot happen to inputs the student's side has prepared; with a batch
\* skipped; with tests cut off by the deadline of the scoring.
Reused(e) == side = "teacher" /\ e \in prebuilt
Unloaded(e) == IF Reused(e) THEN {} ELSE {"inputs"}
WikitextOutcomes == {"batch"} \cup Unloaded("wikitext2")
BptOutcomes == {"batch"}
LmEvalOutcomes == {"inputs"}
SubsetOutcomes == LmEvalOutcomes
Scoring == {"cut"}
HumanevalOutcomes == Scoring \cup Unloaded("humaneval")
Math500Outcomes == Unloaded("math500")
Outcomes(e) ==
    {"measured"} \cup
    IF e \notin cfg.flaky THEN {}
    ELSE CASE e = "wikitext2" -> WikitextOutcomes
           [] e = "zero_shot" -> LmEvalOutcomes
           [] e = "humaneval" -> HumanevalOutcomes
           [] e = "math500" -> Math500Outcomes
           [] e = "bpt" -> BptOutcomes
           [] e = "subset" -> SubsetOutcomes
NumberOf(m, out) ==
    CASE out = "measured" -> Number(side, m) [] out = "cut" -> 0 [] OTHER -> NonFinite
Numbers(e, out) ==
    IF out = "inputs" /\ e \in {"zero_shot", "subset"} THEN <<>>
    ELSE [m \in MetricsOf(e) |-> NumberOf(m, out)]
Record(e, out, with, by) ==
    /\ res' = [res EXCEPT ![side] = Above(Numbers(e, out), @)]
    /\ terms' = [terms EXCEPT ![side] =
          Above([x \in {e} |-> [env |-> env', with |-> with, by |-> by, out |-> out]], @)]
    /\ prebuilt' = IF side = "student" /\ out # "inputs" /\ e \in Generative \cup {"wikitext2"}
                   THEN prebuilt \cup {e} ELSE prebuilt

\* Generation needs the uncompiled forward and its own experts implementation.
Prepared(e) == IF e \in Generative THEN Generating ELSE env
Together(e, b) == IF e \in Generative THEN Batches(b) ELSE IF e = "wikitext2" THEN Rows(b) ELSE <<>>
Whole(e) == Together(e, <<0, Size(e)>>)
Bounds(e, k) == IF e \in Generative THEN GroupSplit(NumPrompts, k) ELSE EvenSplit(NumRows, k)
Share(e) ==
    IF side = "student" /\ source /\ (e \in Generative \/ (e = "wikitext2" /\ cfg.shardRows))
    THEN Effective(cfg.replicas, cfg.devices, Size(e), e \in Generative) ELSE 0
After == IF side = "student" THEN IF Full THEN "evaluated" ELSE "lookup" ELSE "save_cache"

EvaluateHere ==
    /\ pc = "measure" /\ env' = Prepared(E)
    /\ \E out \in Outcomes(E) :
        /\ Share(E) > 1 => out = "inputs"
        /\ Record(E, out, Whole(E), {student})
    /\ NextEval(After)
    /\ UNCHANGED <<settings, side, counted, workers, threads, gpu, outputs, cache, report>>
EvaluationRaises ==
    /\ pc = "measure" /\ E \in cfg.flaky /\ run < MaxRuns /\ Fail
    /\ UNCHANGED <<settings, side, env, numbers, workers, threads, gpu, outputs, cache, report>>

SpawnReplicas ==
    /\ pc = "measure" /\ Share(E) > 1
    /\ env' = Prepared(E) /\ pc' = "replicas" /\ UNCHANGED at
    /\ rep' = [r \in Replicas |-> IF r <= Len(Bounds(E, Share(E))) THEN "works" ELSE "off"]
    /\ UNCHANGED <<settings, side, numbers, shard, source, threads, gpu, outputs, cache, report>>
\* A replica leaves its share in a file, or dies.
ReplicaEnds(r) ==
    /\ rep[r] = "works" /\ rep' = [rep EXCEPT ![r] = "done"]
    /\ \E e \in {E}, b \in {Bounds(E, Share(E))[r]} :
          shard' = [shard EXCEPT ![e][r] = <<b, [student |-> student, with |-> Together(e, b)]>>]
    /\ UNCHANGED <<settings, pc, at, side, env, numbers, source, threads, gpu, outputs, cache, report>>
ReplicaFails(r) ==
    /\ rep[r] = "works" /\ E \in cfg.flaky /\ run < MaxRuns /\ rep' = [rep EXCEPT ![r] = "failed"]
    /\ UNCHANGED <<settings, pc, at, side, env, numbers, shard, source, threads, gpu, outputs, cache, report>>

\* The processes are joined in order; the files are read when all have exited
\* well, and put together when they are contiguous.
Used == {r \in Replicas : rep[r] # "off"}
JoinFails ==
    /\ pc = "replicas" /\ \E r \in Used : rep[r] = "failed" /\ \A q \in 1 .. r - 1 : rep[q] = "done"
    /\ Fail
    /\ UNCHANGED <<settings, side, env, numbers, workers, threads, gpu, outputs, cache, report>>
AllExited == \A r \in Used : rep[r] = "done"
MergeShards ==
    /\ pc = "replicas" /\ AllExited /\ rep' = Nobody /\ UNCHANGED env
    /\ \E files \in {[r \in Used |-> shard[E][r]]} :
        LET contiguous == /\ files[1][1][1] = 0
                          /\ \A r \in Used \ {1} : files[r][1][1] = files[r - 1][1][2]
            part(i) == CHOOSE r \in Used : i \in DOMAIN files[r][2].with
            with == [i \in UNION {DOMAIN files[r][2].with : r \in Used} |-> files[part(i)][2].with[i]]
        IN  \/ /\ contiguous /\ NextEval(After)
               /\ \E out \in Outcomes(E) \ {"inputs"} :
                     Record(E, out, with, {files[r][2].student : r \in Used})
            \/ ~contiguous /\ Fail /\ UNCHANGED <<prebuilt, res, terms>>
    /\ UNCHANGED <<settings, side, counted, shard, source, threads, gpu, outputs, cache, report>>

----------------------------------------------------------------------------
\* The teacher's numbers, from the cache if its key (the revision) is this one.
Key == revision
\* Fault: whatever the cache holds is used.
UsableAny == IF cfg.cache THEN cache ELSE {}
Usable == IF cfg.cache THEN {c \in cache : c.key = Key} ELSE {}
TakeNumbers(p) ==
    /\ \E c \in Usable : res' = [res EXCEPT !["teacher"] = c.numbers]
    /\ counted' = TRUE /\ side' = "teacher" /\ GoTo(p)
    /\ UNCHANGED <<settings, env, prebuilt, terms, workers, threads, gpu, outputs, cache, report>>
CleanSource ==
    /\ pc = "evaluated" /\ GoTo("lookup") /\ source' = FALSE
    /\ UNCHANGED <<settings, side, env, numbers, rep, shard, threads, gpu, outputs, cache, report>>
CacheHit == pc = "lookup" /\ Full /\ TakeNumbers("free")
ThermoHit == pc = "lookup" /\ ~Full /\ TakeNumbers("report")
\* The student is moved off the GPU; when that fails it stays, with a warning.
StudentMoved == {gpu \ {"student"}} \cup IF run < MaxRuns THEN {gpu} ELSE {}
\* A teacher in 4 bits is not read ahead; the thermometer has no thread.
CacheMiss ==
    /\ pc = "lookup" /\ Full /\ Usable = {}
    /\ preload' = (IF cfg.four THEN "ended" ELSE "reads")
    /\ gpu' \in StudentMoved /\ GoTo(IF cfg.imatrix THEN "convert" ELSE "teacher")
    /\ UNCHANGED <<settings, side, env, numbers, workers, conv, outputs, cache, report>>
ThermoMiss ==
    /\ pc = "lookup" /\ ~Full /\ Usable = {}
    /\ gpu' \in {on \cup {"teacher"} : on \in StudentMoved} /\ side' = "teacher" /\ env' = Prefill
    /\ GoTo("measure")
    /\ UNCHANGED <<settings, numbers, workers, threads, outputs, cache, report>>
StartConvert ==
    /\ pc = "convert" /\ conv' = (IF cfg.llama THEN "works" ELSE "ended") /\ GoTo("teacher")
    /\ UNCHANGED <<settings, side, env, numbers, workers, preload, gpu, outputs, cache, report>>

\* The threads, which end with their process.
Running == pc \notin {"off", "failed", "crashed"}
Read ==
    /\ preload = "reads" /\ Running /\ preload' \in {"ready"} \cup IF run < MaxRuns THEN {"ended"} ELSE {}
    /\ UNCHANGED <<settings, pc, at, side, env, numbers, workers, conv, gpu, outputs, cache, report>>
Convert ==
    /\ Running
    /\ \/ conv = "works" /\ conv' = "replaced" /\ f16' = {student}
       \/ conv = "works" /\ conv' = "ended" /\ run < MaxRuns /\ UNCHANGED f16
       \/ conv = "replaced" /\ conv' = "published" /\ UNCHANGED f16
    /\ UNCHANGED <<settings, pc, at, side, env, numbers, workers, preload, gpu, skipped, made,
                   cache, report>>

\* The main thread waits for the teacher's thread for so long, and takes the
\* teacher it has read, or reads it itself.
LoadTeacher ==
    /\ pc = "teacher" /\ (preload = "reads" => run < MaxRuns)
    /\ preload' = (IF preload = "ready" THEN "ended" ELSE preload)
    /\ gpu' = gpu \cup {"teacher"} /\ side' = "teacher"
    /\ env' \in {Prefill} \cup Compiled
    /\ GoTo(IF Plan = <<>> THEN "save_cache" ELSE "measure")
    /\ UNCHANGED <<settings, numbers, workers, conv, outputs, cache, report>>
\* Saving may fail: the full gate goes on, the thermometer does not.  The full
\* gate leaves the teacher's memory with the process; the thermometer drops the
\* teacher and moves the student back if it can.
SaveNumbers == cache' = {[key |-> Key, numbers |-> res["teacher"]]}
SaveCache ==
    /\ pc = "save_cache" /\ Full /\ counted' = TRUE /\ GoTo("imatrix")
    /\ \/ cfg.cache /\ SaveNumbers
       \/ (cfg.cache => run < MaxRuns) /\ UNCHANGED cache
    /\ UNCHANGED <<settings, side, env, prebuilt, res, terms, workers, threads, gpu, outputs, report>>
ThermoSave ==
    /\ pc = "save_cache" /\ ~Full /\ UNCHANGED counted
    /\ \/ SaveNumbers /\ GoTo("report") /\ gpu' \in {gpu \ {"teacher"}, {"student"}}
       \/ run < MaxRuns /\ Fail /\ UNCHANGED <<cache, gpu>>
    /\ UNCHANGED <<settings, side, env, prebuilt, res, terms, workers, threads, outputs, report>>
\* Without a teacher the student is still on the GPU.
FreeStudent ==
    /\ pc = "free" /\ gpu' \in StudentMoved /\ GoTo("imatrix")
    /\ UNCHANGED <<settings, side, env, numbers, workers, threads, outputs, cache, report>>

----------------------------------------------------------------------------
\* The importance matrix.  Fault: a conversion that goes on is not waited for
\* any longer, and started again.
ConvertAgain == conv \in {"off", "works", "published", "ended"}
MayConvert == conv \in {"off", "ended"}
NoImatrix ==
    /\ pc = "imatrix" /\ ~cfg.imatrix /\ GoTo("report")
    /\ UNCHANGED <<settings, side, env, numbers, workers, threads, gpu, outputs, cache, report>>
\* The thread is still at work when the time is up.
SkipImatrix ==
    /\ pc = "imatrix" /\ cfg.imatrix /\ conv \in {"works", "replaced"} /\ run < MaxRuns
    /\ skipped' = TRUE /\ GoTo("report")
    /\ UNCHANGED <<settings, side, env, numbers, workers, threads, gpu, made, f16, cache, report>>
Converted16 == conv = "published"
UsePublished ==
    /\ pc = "imatrix" /\ cfg.imatrix /\ Converted16
    /\ \/ GoTo("llama") /\ gpu' = gpu \cup {"llama"}
       \/ run < MaxRuns /\ GoTo("report") /\ UNCHANGED gpu  \* no corpus
    /\ UNCHANGED <<settings, side, env, numbers, workers, threads, outputs, cache, report>>
\* No thread, or one without a result: convert here, if there is llama.cpp, a
\* corpus and disk space.
ConvertHere ==
    /\ pc = "imatrix" /\ cfg.imatrix /\ MayConvert
    /\ \/ ~cfg.llama /\ skipped' = TRUE /\ GoTo("report")
       \/ cfg.llama /\ GoTo("converting") /\ UNCHANGED skipped
       \/ cfg.llama /\ run < MaxRuns /\ GoTo("report") /\ UNCHANGED skipped
    /\ UNCHANGED <<settings, side, env, numbers, workers, threads, gpu, made, f16, cache, report>>
Converted ==
    /\ pc = "converting"
    /\ \/ f16' = {student} /\ GoTo("llama") /\ gpu' = gpu \cup {"llama"}
       \/ run < MaxRuns /\ GoTo("report") /\ UNCHANGED <<f16, gpu>>
    /\ UNCHANGED <<settings, side, env, numbers, workers, threads, skipped, made, cache, report>>
\* It may fail, for want of memory or otherwise, which is only reported.
RunLlama ==
    /\ pc = "llama" /\ GoTo("report") /\ gpu' = gpu \ {"llama"}
    /\ made' \in {f16, made}
    /\ UNCHANGED <<settings, side, env, numbers, workers, threads, skipped, f16, cache, report>>

----------------------------------------------------------------------------
\* The report.
EnabledMetrics ==
    (UNION {MetricsOf(e) : e \in cfg.evals \ Generative})
    \cup IF cfg.generative THEN {"pass", "math"} ELSE {}
\* The thermometer reports the gap of each number, none when there is not both.
Gaps(s, t) == [m \in Deltas(s, t) |-> s[m] - t[m]]
FullReport(s, t) ==
    CHOOSE full \in {[student |-> student, checks |-> checks, pass |-> Verdict(checks), skipped |-> skipped] :
                        checks \in {Checks(s, t, cfg.thresholds, EnabledMetrics, Saved[student], counted)}} : TRUE
WriteReport ==
    /\ pc = "report" /\ Full /\ GoTo("done")
    /\ report' = {FullReport(res["student"], res["teacher"])}
    /\ UNCHANGED <<settings, side, env, numbers, workers, threads, gpu, outputs, cache>>
ThermoReport ==
    /\ pc = "report" /\ ~Full /\ GoTo("done")
    /\ report' = {[student |-> student, gaps |-> Gaps(res["student"], res["teacher"])]}
    /\ UNCHANGED <<settings, side, env, numbers, workers, threads, gpu, outputs, cache>>

\* The process is killed, with its threads and replicas.
Crash ==
    /\ pc \notin {"off", "done", "failed", "crashed"} /\ run < MaxRuns
    /\ pc' = "crashed" /\ at' = 1
    /\ gpu' = {} /\ rep' = Nobody /\ preload' = "off" /\ conv' = "off"
    /\ UNCHANGED <<settings, side, env, numbers, source, shard, outputs, cache, report>>

Main ==
    \/ Start \/ SetUp \/ ThermoSetUp \/ Materialize \/ BuildCorpus \/ EvaluateHere \/ SpawnReplicas \/ JoinFails \/ MergeShards
    \/ CleanSource \/ CacheHit \/ ThermoHit \/ CacheMiss \/ ThermoMiss \/ StartConvert \/ LoadTeacher \/ SaveCache
    \/ ThermoSave \/ FreeStudent \/ NoImatrix \/ SkipImatrix \/ UsePublished \/ ConvertHere \/ Converted
    \/ RunLlama \/ WriteReport \/ ThermoReport
Finished == (pc = "done" \/ (pc = "failed" /\ run = MaxRuns)) /\ UNCHANGED vars
Next ==
    \/ Main \/ EvaluationRaises \/ Read \/ Convert \/ Crash \/ Finished
    \/ \E r \in Replicas : ReplicaEnds(r) \/ ReplicaFails(r)
Spec == Init /\ [][Next]_vars
FairSpec ==
    /\ Spec /\ WF_vars(Main) /\ WF_vars(Read) /\ WF_vars(Convert)
    /\ \A r \in Replicas : WF_vars(ReplicaEnds(r))
----------------------------------------------------------------------------
\* One converter of this process writes model_f16.gguf, and none while
\* llama-imatrix reads it.
OneConverter == ~(conv \in {"works", "replaced"} /\ pc \in {"converting", "llama"})

\* Whatever the replicas, every prompt was generated with the prompts it would
\* have had on one GPU, every row counted once, by the student of this process.
ShardsExact ==
    \A s \in {"student", "teacher"} : \A e \in DOMAIN terms[s] :
        terms[s][e].with = Whole(e) /\ (s = "student" => terms[s][e].by = {student})

\* Both sides generate with the same forward and experts implementation.
SameTerms ==
    \A s \in {"student", "teacher"} : \A e \in Generative \cap DOMAIN terms[s] : terms[s][e].env = Generating

\* A matrix made by this process is the matrix of this student, and a report
\* that says it was skipped is not about a process that made one.
ImatrixFresh == made \subseteq {student} /\ (skipped => made = {})

\* A verdict "passed" means that the true numbers of this student are within
\* the thresholds of this revision's teacher, except where the teacher gave no
\* number or its scoring was cut off; the gaps of the thermometer are the true
\* ones.
Cut == {m \in DOMAIN res["teacher"] \cap {"pass"} : res["teacher"][m] = 0}
ReportTrue ==
    pc = "done" => \A r \in report :
        /\ r.student = student
        /\ Full /\ r.pass => \A m \in DOMAIN cfg.thresholds \cap Metrics :
              \/ r.checks[m] = "skipped"
              \/ m \in Cut
              \/ Within(m, StudentNumber[student][m], TeacherNumber[revision][m], cfg.thresholds[m])
        /\ ~Full => \A m \in DOMAIN r.gaps :
              r.gaps[m] = StudentNumber[student][m] - TeacherNumber[revision][m]

\* The check of an enabled metric is passed over only if the student has a
\* number and the teacher was measured and gave none.
Finite(s, m) == m \in DOMAIN res[s] /\ res[s][m] # NonFinite
NothingPassedOver ==
    pc = "done" /\ Full => \A r \in report : \A m \in DOMAIN r.checks \cap EnabledMetrics :
        r.checks[m] = "skipped" => Finite("student", m) /\ ~Finite("teacher", m) /\ m \in DOMAIN res["teacher"]

\* The matrix is made by one converter, of this process's student.
ImatrixSound == OneConverter /\ ImatrixFresh

\* Both sides are measured as one GPU would measure them.
MeasuredAlike == ShardsExact /\ SameTerms

\* A report that passes tells the truth about every enabled metric.
ReportHonest == ReportTrue /\ NothingPassedOver
=============================================================================
