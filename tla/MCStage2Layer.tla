---------------------------- MODULE MCStage2Layer ----------------------------
(***************************************************************************)
(* The three parts of Stage 2's work on its layers, a behaviour is of one. *)
(*                                                                         *)
(* "profile": three layers profiled by three workers over four sequences,  *)
(* fresh or resumed, with no sidecar or one for the first or last layer.   *)
(* "assign": deciding which experts to merge, two layers of four experts.  *)
(* "heal": merging, distilling and healing them, a layer of five experts   *)
(* in three groups, one a singleton.  The calibration batches fill shards  *)
(* of 2 rows, the token cap of 7 cuts the last batch and leaves a short    *)
(* shard; the cross-domain capture fills two, one or none.  A kill leaves  *)
(* shards of the earlier attempt behind.                                   *)
(***************************************************************************)
EXTENDS Stage2Assign, ProfileDp, MergeHeal

Base == [mode |-> "merge", prune |-> 0, solver |-> "greedy", cap |-> 1, alignment |-> "pre",
         topk |-> 1, skip |-> FALSE, twoOpt |-> FALSE, emRounds |-> 0, emBreak |-> TRUE,
         exact |-> FALSE]

MCConfigs ==
    { [Base EXCEPT !.twoOpt = TRUE],
      [Base EXCEPT !.cap = 0, !.twoOpt = TRUE, !.skip = TRUE],
      [Base EXCEPT !.solver = "auto", !.cap = 2, !.alignment = "post", !.topk = 1,
                   !.emRounds = 2],
      [Base EXCEPT !.solver = "hungarian", !.alignment = "output", !.exact = TRUE],
      [Base EXCEPT !.solver = "sinkhorn", !.skip = TRUE],
      [Base EXCEPT !.solver = "mcf", !.cap = 2],
      [Base EXCEPT !.mode = "faithful_prune", !.prune = 2] }

MCSetups ==
    LET S(t, P, A) == [target |-> t, protected |-> P, active |-> A]
    IN  {S(1, {}, 1 .. NE), S(1, {2}, 1 .. NE), S(2, {}, 2 .. NE), S(2, {2}, 1 .. NE),
         S(2, {}, 1 .. NE), S(2, {}, {}), S(3, {1, 2, 4}, {3}), S(NE + 1, {}, 1 .. NE)}

MCCosts == {0, 1}

----------------------------------------------------------------------------
MCHitSets == {{}, {0}, {2}}

MCGroups == [c \in {1, 3, 5} |-> IF c = 1 THEN {1, 2} ELSE IF c = 3 THEN {3, 4} ELSE {5}]
MCCorpora ==
    {[w \in Writers |-> IF w = "nemo" THEN n ELSE x] :
        n \in {<<3, 1, 4>>, <<1>>}, x \in {<<3>>, <<2>>, <<>>}}
MCPool == [w \in Writers |-> IF w = "nemo" THEN 7 ELSE 4]

VARIABLE part   \* "profile", "assign" or "heal"
all == <<part, assignVars, healVars, profileVars>>

\* The parts a behaviour is not about stay at one of their initial states.
LayerInit ==
    /\ part \in {"profile", "assign", "heal"}
    /\ AssignInit /\ HealInit /\ ProfileInit
    /\ part # "assign" => cfg = CHOOSE c \in Options : TRUE
    /\ part # "heal" => batches = CHOOSE c \in MCCorpora : TRUE
    /\ part # "profile" => config = CHOOSE c \in Configs : TRUE
AssignStep == part = "assign" /\ AssignNext /\ UNCHANGED <<part, healVars, profileVars>>
HealStep == part = "heal" /\ HealNext /\ UNCHANGED <<part, assignVars, profileVars>>
HealWork == part = "heal" /\ HealingWork /\ UNCHANGED <<part, assignVars, profileVars>>
ProfileStep == part = "profile" /\ ProfileNext /\ UNCHANGED <<part, assignVars, healVars>>
ProfilingWork == part = "profile" /\ ProfileWork /\ UNCHANGED <<part, assignVars, healVars>>
LayerSpec ==
    /\ LayerInit /\ [][AssignStep \/ HealStep \/ ProfileStep]_all
    /\ WF_all(AssignStep \/ HealWork \/ ProfilingWork)

----------------------------------------------------------------------------
\* Deciding a layer ends, whatever the solvers, bumps and refinements do; so
\* does healing it, however often it is killed; and so does profiling, unless
\* a worker is killed without a word.
LayerEnds ==
    <>(CASE part = "assign" -> task \in {"done", "failed"}
         [] part = "heal" -> phase \in {"done", "failed"}
         [] OTHER -> OverOrKilled)
=============================================================================
