----------------------------- MODULE MCEvaluation -----------------------------
(* The instance TLC checks: two students, two dataset revisions, groups of two. *)
EXTENDS Evaluation

MCStudents == {1, 2}
MCRevisions == {1, 2}
MCStudentNumber == <<[ppl |-> 11, arc |-> 48, hellaswag |-> 60, pass |-> 40, math |-> 50, bpt |-> 9, acc |-> 90],
                     [ppl |-> 14, arc |-> 50, hellaswag |-> 55, pass |-> 30, math |-> 47, bpt |-> 8, acc |-> 80]>>
MCTeacherNumber == <<[ppl |-> 10, arc |-> 50, hellaswag |-> 61, pass |-> 45, math |-> 52, bpt |-> 7, acc |-> 95],
                     [ppl |-> 8, arc |-> 50, hellaswag |-> 58, pass |-> 39, math |-> 60, bpt |-> 6, acc |-> 85]>>
MCSaved == <<20, 35>>
Thresholds == [ppl |-> 20, arc |-> 3, hellaswag |-> 3, pass |-> 6, math |-> 4, reduction |-> 20]

Base == [gate |-> "full", evals |-> {"wikitext2", "zero_shot", "humaneval", "math500"}, generative |-> TRUE,
         compile |-> FALSE, replicas |-> 0, devices |-> 1, shardRows |-> FALSE, cache |-> TRUE,
         imatrix |-> FALSE, llama |-> TRUE, four |-> FALSE, flaky |-> {}, thresholds |-> Thresholds]
MCConfigs == {
    [Base EXCEPT !.flaky = {"humaneval"}],
    [Base EXCEPT !.flaky = {"zero_shot", "math500"}, !.evals = {"zero_shot", "math500"},
                 !.compile = TRUE, !.four = TRUE],
    [Base EXCEPT !.evals = {"humaneval", "math500"}, !.replicas = 3, !.devices = 2,
                 !.flaky = {"humaneval"}, !.thresholds = [pass |-> 6, math |-> 4]],
    [Base EXCEPT !.evals = {"wikitext2"}, !.generative = FALSE, !.replicas = 3, !.devices = 4, !.shardRows = TRUE,
                 !.flaky = {"wikitext2"}, !.thresholds = <<>>],
    [Base EXCEPT !.evals = {"math500"}, !.replicas = 3, !.devices = 4, !.flaky = {"math500"}],
    [Base EXCEPT !.evals = {"wikitext2"}, !.generative = FALSE, !.imatrix = TRUE, !.compile = TRUE,
                 !.cache = FALSE],
    [Base EXCEPT !.evals = {"humaneval"}, !.imatrix = TRUE, !.compile = TRUE],
    [Base EXCEPT !.evals = {}, !.generative = FALSE, !.imatrix = TRUE, !.llama = FALSE],
    [Base EXCEPT !.gate = "thermometer", !.evals = {"bpt", "subset"}, !.flaky = {"bpt", "subset"}]}
=============================================================================
