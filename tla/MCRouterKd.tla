----------------------------- MODULE MCRouterKd -----------------------------
(***************************************************************************)
(* Router distillation in its two worlds, one behaviour for each: the      *)
(* training loop of one process with its checkpoint writer, killed and     *)
(* started again (RouterKd); and three rank workers under one parent       *)
(* (RouterKdDdp), one of whom may fail anywhere.                           *)
(***************************************************************************)
EXTENDS RouterKd, RouterKdDdp

VARIABLE world \* "single" or "ranks"
both == <<world, vars, distributed>>

MCInit ==
    /\ Init /\ RanksInit
    /\ \/ /\ world = "single"
          /\ kept = {} /\ noResume = FALSE
       \/ /\ world = "ranks"
          /\ ga = 1 /\ async = TRUE /\ every = 1
SingleStep == world = "single" /\ Next /\ UNCHANGED <<world, distributed>>
SingleWork == world = "single" /\ (Training \/ Writer) /\ UNCHANGED <<world, distributed>>
RankedStep == world = "ranks" /\ RanksNext /\ UNCHANGED <<world, vars>>
RankedWork == world = "ranks" /\ Work /\ UNCHANGED <<world, vars>>

\* Every thread and process goes on until it returns, raises or is killed.  No
\* behaviour is infinite, so fairness of all of them together is enough.
MCSpec == MCInit /\ [][SingleStep \/ RankedStep]_both /\ WF_both(SingleWork \/ RankedWork)

----------------------------------------------------------------------------
\* Neither the training thread and its writer nor the ranks and their parent
\* wait for each other for ever: every run ends.
Busy == IF world = "single" THEN pc \notin {"down", "done"} ELSE ~Ended
EveryRunEnds == Busy ~> ~Busy
=============================================================================
