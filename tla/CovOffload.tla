----------------------------- MODULE CovOffload -----------------------------
(***************************************************************************)
(* The capture of the input covariance of all layers by windows that fit   *)
(* the GPU: _run_input_cov_offload, build_self_traces_calib_vllm.py, with  *)
(* utils/input_cov_offload.py.                                             *)
(*                                                                         *)
(* The whole corpus is forwarded once per window of layers, and each layer *)
(* and matrix of the window gets a shard in a staging directory.  _meta.pt *)
(* there has the fingerprint of the options.  At the end every shard found *)
(* is assembled into the covariance sidecar.  A shard is abstracted to the *)
(* fingerprint of the run that wrote it, {} if there is none; the teacher, *)
(* its dtype, the context length and the corpus are not part of it.        *)
(***************************************************************************)
EXTENDS CaptureWriters

CONSTANTS
    Layers,       \* number of MoE layers
    Fingerprints, \* options of a run: [matrices, seed]
    Windows       \* sizes of a window

ASSUME OffloadAssumption ==
    /\ Layers \in Nat \ {0} /\ Windows \subseteq 1..Layers
    /\ \A f \in Fingerprints : f.matrices # {} /\ f.matrices \subseteq {"gate", "down"}

VARIABLES
    meta,      \* _meta.pt: {} or the fingerprint in it
    staged,    \* the shard of each layer and matrix
    leftover,  \* for the properties: shards that a removal could not delete
    offload,   \* the process
    covariance \* the sidecar: what each layer and matrix was assembled from

Parts == (1..Layers) \X {"gate", "down"}
NoParts == [p \in Parts |-> {}]
\* options is the fingerprint of the process, low the first layer of its
\* window, todo what is left to write of it, scanned the shards found at start.
Waiting == [pc |-> "down", options |-> {}, size |-> 0, low |-> 1, todo |-> {},
            scanned |-> {}]

OffloadInit ==
    /\ meta = {} /\ staged = NoParts /\ leftover = {} /\ covariance = NoParts
    /\ offload = Waiting

Present(parts) == {p \in Parts : parts[p] # {}}
PartsOf(options, layers) == {p \in layers \X {"gate", "down"} : p[2] \in options.matrices}
Options == CHOOSE f \in Fingerprints : offload.options = {f}
Window == {l \in offload.low..(offload.low + offload.size - 1) : l <= Layers}

\* --resume, and the fingerprint of the staging directory is that of the run.
Continues(resume, f) == resume /\ meta = {f}

StartOffload(f, size, resume) ==
    /\ offload.pc = "down"
    /\ IF Continues(resume, f)
       THEN offload' = [Waiting EXCEPT !.pc = "window", !.options = {f}, !.size = size,
                                       !.scanned = Present(staged)]
       ELSE offload' = [Waiting EXCEPT !.pc = "wipe", !.options = {f}, !.size = size]
    /\ UNCHANGED <<meta, staged, leftover, covariance, silent, failures>>

\* The staging directory is removed, and made again with the new _meta.pt.  A
\* shard that cannot be removed stays: errors of the removal are ignored.
Wipe ==
    /\ offload.pc = "wipe"
    /\ \E left \in SUBSET Present(staged) :
         /\ Attempt(left = {})
         /\ staged' = [p \in Parts |-> IF p \in left THEN staged[p] ELSE {}]
         /\ leftover' = left
    /\ meta' = offload.options
    /\ offload' = [offload EXCEPT !.pc = "window"]
    /\ UNCHANGED <<covariance, silent>>

\* A window all of whose shards were found at the start is skipped.
SkipWindow ==
    /\ offload.pc = "window" /\ Window # {}
    /\ PartsOf(Options, Window) \subseteq offload.scanned
    /\ offload' = [offload EXCEPT !.low = @ + offload.size]
    /\ UNCHANGED <<meta, staged, leftover, covariance, silent, failures>>

\* Otherwise the corpus is forwarded: the Grams of the window do not fit, or
\* no token reached them, and the run gives up, or its shards are to write.
ForwardWindow ==
    /\ offload.pc = "window" /\ Window # {}
    /\ ~(PartsOf(Options, Window) \subseteq offload.scanned)
    /\ \/ /\ offload' = [offload EXCEPT !.pc = "shards", !.todo = PartsOf(Options, Window)]
          /\ UNCHANGED failures
       \/ /\ failures < MaxFailures /\ failures' = failures + 1
          /\ offload' = Waiting
    /\ UNCHANGED <<meta, staged, leftover, covariance, silent>>

\* write_layer_shard, atomic; the window is left after its last shard.
WriteShard(p) ==
    /\ offload.pc = "shards" /\ p \in offload.todo
    /\ staged' = [staged EXCEPT ![p] = offload.options]
    /\ leftover' = leftover \ {p}
    /\ offload' = IF offload.todo = {p}
                  THEN [offload EXCEPT !.pc = "window", !.todo = {}, !.low = @ + offload.size]
                  ELSE [offload EXCEPT !.todo = @ \ {p}]
    /\ UNCHANGED <<meta, covariance, silent, failures>>

\* assemble_covariance takes every shard in the directory.
Assemble ==
    /\ offload.pc = "window" /\ Window = {}
    /\ covariance' = staged
    /\ offload' = [Waiting EXCEPT !.pc = "done", !.options = offload.options]
    /\ UNCHANGED <<meta, staged, leftover, silent, failures>>

\* The process goes down; a removal of the staging directory it was at has
\* taken any part of it.
KillOffload ==
    /\ offload.pc \in {"wipe", "window", "shards"} /\ failures < MaxFailures
    /\ failures' = failures + 1
    /\ offload' = Waiting
    /\ IF offload.pc = "wipe"
       THEN \E gone \in SUBSET Present(staged), metaGone \in BOOLEAN :
              /\ staged' = [p \in Parts |-> IF p \in gone THEN {} ELSE staged[p]]
              /\ leftover' = leftover \ gone
              /\ meta' = IF metaGone THEN {} ELSE meta
       ELSE UNCHANGED <<meta, staged, leftover>>
    /\ UNCHANGED <<covariance, silent>>

OffloadNext ==
    \/ \E f \in Fingerprints, size \in Windows, resume \in BOOLEAN :
           StartOffload(f, size, resume)
    \/ Wipe \/ SkipWindow \/ ForwardWindow \/ Assemble \/ KillOffload
    \/ \E p \in Parts : WriteShard(p)
=============================================================================
