------------------------------- MODULE EvalGate -------------------------------
(***************************************************************************)
(* The arithmetic of the evaluation: how prompts and rows are divided over *)
(* replicas, and how the numbers of the student and the teacher become     *)
(* differences, checks and a verdict.  Numbers are integers (an accuracy   *)
(* in points, a perplexity as it is); a number that is not finite is       *)
(* NonFinite, a metric nobody measured is not in the domain.               *)
(***************************************************************************)
EXTENDS Integers, FiniteSets, FiniteSetsExt, Sequences

CONSTANTS Group,     \* PINNED_GEN_BATCH_SIZE
          NonFinite

ASSUME GroupAssumption == Group \in Nat \ {0}

\* The entries of f, and those of g that f has no entry for.
Above(f, g) == [x \in DOMAIN f \cup DOMAIN g |-> IF x \in DOMAIN f THEN f[x] ELSE g[x]]

Metrics == {"ppl", "arc", "hellaswag", "pass", "math"}
Generative == {"humaneval", "math500"}
MetricsOf(e) == CASE e = "wikitext2" -> {"ppl"}
                  [] e = "zero_shot" -> {"arc", "hellaswag"}
                  [] e = "humaneval" -> {"pass"}
                  [] e = "math500" -> {"math"}
                  [] e = "bpt" -> {"bpt"}
                  [] e = "subset" -> {"acc"}

----------------------------------------------------------------------------
\* Contiguous shares of 1..n for at most r replicas, as (first - 1, last).
EvenSplit(n, r) ==
    IF r <= 1 \/ n = 0 THEN <<<<0, n>>>>
    ELSE LET k == Min({r, n}) IN
         [i \in 1 .. k |-> <<(i - 1) * (n \div k), IF i = k THEN n ELSE i * (n \div k)>>]
\* Fault: a group may be cut.
GroupSplitEven(n, r) == EvenSplit(n, r)
\* Fault: a share starts one after the end of the share before it.
GroupSplitGap(n, r) ==
    [i \in DOMAIN GroupSplitEven(n, r) |->
        <<GroupSplitEven(n, r)[i][1] + (IF i = 1 THEN 0 ELSE 1), GroupSplitEven(n, r)[i][2]>>]
GroupSplit(n, r) ==
    IF r <= 1 \/ n = 0 THEN <<<<0, n>>>>
    ELSE LET groups == (n + Group - 1) \div Group
             k == Min({r, groups})
             base == (groups \div k) * Group
         IN  [i \in 1 .. k |-> <<(i - 1) * base, IF i = k THEN n ELSE i * base>>]
\* How many replicas are used for n examples, 0 for none.
Effective(replicas, devices, n, aligned) ==
    IF replicas <= 1 \/ n = 0 \/ devices < 2 THEN 0
    ELSE LET k == Min({replicas, devices, n} \cup IF aligned THEN {(n + Group - 1) \div Group} ELSE {})
         IN  IF k > 1 THEN k ELSE 0
\* What a model that generates for b[1] + 1 .. b[2] makes each prompt's
\* completion of: the batch the prompt is padded with.
Batches(b) ==
    [i \in b[1] + 1 .. b[2] |->
        {j \in b[1] + 1 .. b[2] : (j - 1 - b[1]) \div Group = (i - 1 - b[1]) \div Group}]
Rows(b) == [i \in b[1] + 1 .. b[2] |-> {i}]

----------------------------------------------------------------------------
\* Both sides' numbers of a metric, the metrics the student, or only the
\* teacher, has no finite number of.
Both(s, t) == DOMAIN s \cap DOMAIN t
Broken(s, t) == {m \in Both(s, t) : s[m] = NonFinite}
Deltas(s, t) == {m \in Both(s, t) : s[m] # NonFinite /\ t[m] # NonFinite}
TeacherBroken(s, t) == Both(s, t) \ (Broken(s, t) \cup Deltas(s, t))

\* The perplexity may rise by a share of the teacher's, the others may drop by
\* so many points.
Within(m, s, t, most) ==
    IF m = "ppl" THEN 100 * (s - t) <= most * t ELSE t - s <= most

\* The checks of the report: "ok", "failed" or "skipped".  A metric without a
\* threshold has no check, except for a perplexity the student has none of.
CheckOf(m, s, t, thresholds, enabled) ==
    CASE m \in Deltas(s, t) /\ m \in DOMAIN thresholds ->
            IF m = "ppl" /\ t[m] <= 0 THEN "skipped"
            ELSE IF Within(m, s[m], t[m], thresholds[m]) THEN "ok" ELSE "failed"
      [] m \in Broken(s, t) -> "failed"
      [] m \in TeacherBroken(s, t) -> "skipped"
      [] OTHER -> IF m \in enabled THEN "failed" ELSE "skipped"
\* The share of parameters saved, which is unknown without the teacher's count.
ReductionCheck(saved, least, counted) ==
    IF ~counted THEN "skipped" ELSE IF saved >= least THEN "ok" ELSE "failed"
Checks(s, t, thresholds, enabled, saved, counted) ==
    LET checked == (DOMAIN thresholds \cap Metrics) \cup (Broken(s, t) \cap {"ppl"}) IN
    Above([m \in checked |-> CheckOf(m, s, t, thresholds, enabled)],
         [m \in DOMAIN thresholds \cap {"reduction"} |->
            ReductionCheck(saved, thresholds["reduction"], counted)])
\* A report without a single check that was made does not pass.
Verdict(checks) ==
    /\ \E m \in DOMAIN checks : checks[m] # "skipped"
    /\ \A m \in DOMAIN checks : checks[m] # "failed"
=============================================================================
