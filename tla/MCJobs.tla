------------------------------- MODULE MCJobs -------------------------------
(* Small instances of Jobs for TLC. *)
EXTENDS Jobs

MCTable == <<"A0", "SH">>
MCPlans == {<<"phase0", "stage2", "stage2p5">>, <<"stage2", "stage2p5">>, <<"stage2p5">>}
=============================================================================
