\* A sidecar that covers a layer in the middle; no fault is needed.
SPECIFICATION ProfileSpec
CONSTANTS
    NumMoe = 3
    NumSeqs = 2
    Requested = 2
    HitSets <- InnerHits
    Alignments = {FALSE}
    Reservoirs = {TRUE}
    MaxFaults = 0
INVARIANT ProfileExact
