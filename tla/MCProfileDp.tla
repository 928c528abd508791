---------------------------- MODULE MCProfileDp ----------------------------
(***************************************************************************)
(* Data-parallel profiling with a sidecar that covers a layer in the       *)
(* middle.                                                                 *)
(***************************************************************************)
EXTENDS ProfileDp
InnerHits == {{1}}
=============================================================================
