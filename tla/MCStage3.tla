----------------------------- MODULE MCStage3 --------------------------------
(***************************************************************************)
(* Stage 3 and Stage 4; a behaviour is of one of two parts.                *)
(*                                                                         *)
(* "cov": the covariances of two layers over three sequences, in process   *)
(* or on two replicas, in three runs under two configurations.             *)
(* "factor": the factorization of two layers of three experts with two     *)
(* matrices, from complete covariances, and their compensation.            *)
(***************************************************************************)
EXTENDS Factorize, Stage3Cov

MCShape == <<[out |-> 6, in |-> 8], [out |-> 8, in |-> 5]>>

\* Weights of the four groups, and scores of the three experts of a group.
Weights == {[g \in Groups |-> w[2 * g[1] + g[2] - 2]] :
                w \in {<<1, 1, 1, 1>>, <<1, 2, 3, 4>>, <<9, 1, 1, 1>>, <<2, 7, 7, 3>>, <<1, 30, 1, 1>>}}
Flat == [g \in Groups |-> [e \in Experts |-> 5]]
Steep == [g \in Groups |-> [e \in Experts |-> IF e = g[1] THEN 7 ELSE 1 + ((e + g[2]) % 2)]]
Rising == [g \in Groups |-> [e \in Experts |-> 2 * e + g[2]]]
Scores == [a \in 0 .. NumAlphas |-> CASE a = 0 -> Flat [] a = 1 -> Steep [] a = 2 -> Rising [] a = 3 -> Flat]

Errors == <<<<5, 3>>, <<4, 6>>, <<4, 1>>>>
Base == [weight |-> [g \in Groups |-> g[1] + g[2]], percent |-> 40, search |-> "none",
         perType |-> FALSE, ppl |-> <<3, 2, 2>>, err |-> Errors, score |-> Scores,
         refine |-> FALSE, cached |-> {}, wanda |-> "off", extra |-> 50, limit |-> 2,
         whitening |-> "anchor"]
\* Divisions of the ranks, with no search or the proxy.
Divisions == {[Base EXCEPT !.weight = w, !.percent = p, !.search = s, !.extra = 100, !.limit = 8] :
                 w \in Weights, p \in {0, 15, 40, 65, 99}, s \in {"none", "proxy"}}
\* The validation search, refinement and the rest of the run.
Searches == {[Base EXCEPT !.search = "validation", !.ppl = v, !.perType = t] :
                v \in {<<3, 2, 2>>, <<1, 4, 9>>, <<Inf, Inf, Inf>>, <<Inf, 5, 4>>}, t \in {FALSE}}
Refinements == {[Base EXCEPT !.search = "proxy", !.perType = TRUE, !.refine = TRUE, !.cached = {2},
                             !.wanda = "live", !.whitening = "shift"],
                [Base EXCEPT !.refine = TRUE, !.wanda = "cached", !.whitening = "anchored_adaptive"],
                [Base EXCEPT !.search = "validation", !.perType = TRUE, !.refine = TRUE]}
MCConfigs == Divisions \cup Searches \cup Refinements

----------------------------------------------------------------------------
VARIABLE part  \* "cov" or "factor"
all == <<part, vars, covVars>>

\* The part a behaviour is not about stays at one of its initial states.
Stage3Init ==
    /\ part \in {"cov", "factor"} /\ Init /\ CovInit
    /\ part = "cov" => cfg = CHOOSE c \in Configs : TRUE
FactorStep == part = "factor" /\ Next /\ UNCHANGED <<part, covVars>>
FactorWork == part = "factor" /\ Work /\ UNCHANGED <<part, covVars>>
CovStep == part = "cov" /\ CovNext /\ UNCHANGED <<part, vars>>
CollectWork == part = "cov" /\ CovWork /\ UNCHANGED <<part, vars>>
Stage3Spec == Stage3Init /\ [][FactorStep \/ CovStep]_all /\ WF_all(FactorWork \/ CollectWork)

----------------------------------------------------------------------------
\* Whatever dies, Stage 4 publishes at last; and every run of the covariances
\* that is interrupted is completed by a later one.
Completed == IF part = "factor" THEN disk.ranks4 # {} ELSE Succeeded
Recovers == ~Completed ~> Completed
=============================================================================
