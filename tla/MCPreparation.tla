---------------------------- MODULE MCPreparation ----------------------------
(* Small instances of Preparation for TLC. *)
EXTENDS Preparation

MCWhole == {<<0, 4>>}
MCSliced == {<<0, 2, 4>>}
MCDemanded == {{1, 3}}
MCFingerprints == {[matrices |-> {"gate", "down"}, seed |-> 1],
                   [matrices |-> {"gate"}, seed |-> 2]}

\* Once the corpus is made nothing depends on the files and the process that
\* made it.
MCView == <<IF stage = "generate" THEN <<syncs, trace, gen>> ELSE <<>>,
            engine, ladder, silent, failures, stage, corpus, merged, replay, offloading>>
=============================================================================
