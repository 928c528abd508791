-------------------------- MODULE MCStage2Partial --------------------------
(* Small instances of Stage2Partial for TLC. *)
EXTENDS Stage2Partial

\* Every layer loses an expert and has covariance, every one but the first has
\* neuron means.
MCLayers == Layers
MCNotFirst == Layers \ {0}

\* The default merge; RegMean with and without healing; saliency weights.
MCSettings ==
    {[step |-> "freq_weighted", saliency |-> FALSE, distill |-> FALSE, heal |-> FALSE],
     [step |-> "regmean", saliency |-> FALSE, distill |-> FALSE, heal |-> TRUE],
     [step |-> "regmean", saliency |-> FALSE, distill |-> FALSE, heal |-> FALSE],
     [step |-> "freq_weighted", saliency |-> TRUE, distill |-> FALSE, heal |-> FALSE]}
=============================================================================
