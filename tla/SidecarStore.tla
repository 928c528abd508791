---------------------------- MODULE SidecarStore ----------------------------
(***************************************************************************)
(* An artifact of one stage, stored as a payload and a manifest of its     *)
(* size, and its loads by later stages: utils/atomic_io.py and the         *)
(* protocols built on it by the writers of sidecars, covariances,          *)
(* snapshots and caches.                                                   *)
(*                                                                         *)
(* All of them write the payload to a temporary file, fsync it, rename it, *)
(* fsync the directory and describe it in the manifest last.  They differ  *)
(* in when they remove the manifest of the payload they replace, and in    *)
(* what they make of an artifact without a manifest.  A payload is         *)
(* abstracted to the number of its save, a manifest to the save it         *)
(* describes.  The directory has what processes see (file) and what        *)
(* may outlive the machine (images).                                       *)
(***************************************************************************)
EXTENDS Naturals

CONSTANTS
    Readers,     \* processes that load the artifact
    MaxSaves,    \* bound: saves begun
    MaxFaults,   \* bound: kills, machines lost, manifests that cannot be removed
    SizeOf       \* bytes of the payload of each save

Saves == 1..MaxSaves
ASSUME StoreAssumption == MaxSaves \in Nat \ {0} /\ MaxFaults \in Nat /\ SizeOf \in [Saves -> Nat]

Absent == 0                \* no such file; what a load of nothing returns
Torn == MaxSaves + 1       \* a payload some of whose blocks were never written
Refused == MaxSaves + 2    \* a load that raised

VARIABLES
    artifact,  \* which artifact this is
    file,      \* payload and manifest in the directory, as processes see them
    images,    \* what the directory may be after the machine goes down
    written,   \* the saves whose blocks are on disk
    writer,    \* [pc, save] of the process that writes
    hindered,  \* a manifest could not be removed
    reader,    \* per reader [pc, described, got, overlapped]
    saves,     \* saves begun
    faults     \* faults so far

vars == <<artifact, file, images, written, writer, hindered, reader, saves, faults>>

----------------------------------------------------------------------------
(* The artifacts                                                           *)

\* When a save removes the old manifest; whether a load needs one, and
\* checks it; whether a save is left out when a valid pair is there.
Signal == [removes |-> "first", needs |-> FALSE, checks |-> TRUE, reuses |-> FALSE]
Stage2Profile == Signal
BlockHidden == Signal
WandaScore == Signal
Stage2Covariance == Signal
OriginalWeights == Signal
TeacherLogits == [Signal EXCEPT !.reuses = TRUE]
WandaRow == [Signal EXCEPT !.removes = "never", !.needs = TRUE]
ShiftCovariance == [Signal EXCEPT !.removes = "late"]
TeacherEval == [Signal EXCEPT !.checks = FALSE]
PhaseB == TeacherEval
Artifacts == {Signal, Stage2Profile, BlockHidden, WandaScore, Stage2Covariance,
              OriginalWeights, TeacherLogits, WandaRow, ShiftCovariance, TeacherEval, PhaseB}

Sizes(save) == IF save \in Saves THEN SizeOf[save] ELSE 0

\* read_and_validate_manifest accepts the pair.
Describes(manifest, payload) == manifest \in Saves /\ Sizes(manifest) = Sizes(payload)

NoFiles == [payload |-> Absent, manifest |-> Absent]
Idle == [pc |-> "idle", described |-> Absent, got |-> Absent, overlapped |-> FALSE]
Loading(r) == reader[r].pc # "idle"

Init ==
    /\ artifact \in Artifacts
    /\ file = NoFiles /\ images = {NoFiles} /\ written = {}
    /\ writer = [pc |-> "idle", save |-> Absent]
    /\ hindered = FALSE
    /\ reader = [r \in Readers |-> Idle]
    /\ saves = 0 /\ faults = 0

----------------------------------------------------------------------------
(* The writer                                                              *)

\* Fault: the manifest of the payload to replace is left in place.
RemovesNever(when) == FALSE
\* The protocol removes the old manifest before it replaces the payload.
RemovesBefore(when) == when = "first"

Begin ==
    /\ writer.pc = "idle" /\ saves < MaxSaves
    /\ artifact.reuses => ~(file.payload # Absent /\ Describes(file.manifest, file.payload))
    /\ saves' = saves + 1
    /\ writer' = [pc |-> IF RemovesBefore(artifact.removes) THEN "remove" ELSE "write",
                  save |-> saves']
    /\ reader' = [r \in Readers |-> [reader[r] EXCEPT !.overlapped = Loading(r)]]
    /\ UNCHANGED <<artifact, file, images, written, hindered, faults>>

\* The old manifest is unlinked, an OSError is passed over.
Remove ==
    /\ writer.pc = "remove"
    /\ \/ /\ file' = [file EXCEPT !.manifest = Absent]
          /\ UNCHANGED <<hindered, faults>>
       \/ /\ file.manifest # Absent
          /\ faults < MaxFaults /\ faults' = faults + 1
          /\ hindered' = TRUE /\ UNCHANGED file
    /\ images' = images \cup {file'}
    /\ writer' = [writer EXCEPT !.pc = IF file.payload = writer.save THEN "describe"
                                       ELSE "write"]
    /\ UNCHANGED <<artifact, written, reader, saves>>

Synced == written' = written \cup {writer.save}

\* torch.save to the temporary file, and its fsync; it may raise, and the
\* temporary file is removed.
Write ==
    /\ writer.pc = "write"
    /\ \/ Synced /\ writer' = [writer EXCEPT !.pc = "rename"]
       \/ UNCHANGED written /\ writer' = [writer EXCEPT !.pc = "idle"]
    /\ UNCHANGED <<artifact, file, images, hindered, reader, saves, faults>>

Rename ==
    /\ writer.pc = "rename"
    /\ file' = [file EXCEPT !.payload = writer.save] /\ images' = images \cup {file'}
    /\ writer' = [writer EXCEPT !.pc = "sync"]
    /\ UNCHANGED <<artifact, written, hindered, reader, saves, faults>>

\* _fsync_dir: what the directory is now outlives the machine.
SyncDirectory == images' = {file}

\* The directory is synced after the rename of the payload.
SyncPayload ==
    /\ writer.pc = "sync" /\ SyncDirectory
    /\ writer' = [writer EXCEPT !.pc = IF artifact.removes = "late" THEN "remove"
                                       ELSE "describe"]
    /\ UNCHANGED <<artifact, file, written, hindered, reader, saves, faults>>

\* write_manifest_last: the size of the payload found there.
Describe ==
    /\ writer.pc = "describe"
    /\ file' = [file EXCEPT !.manifest = file.payload] /\ images' = images \cup {file'}
    /\ writer' = [writer EXCEPT !.pc = "end"]
    /\ UNCHANGED <<artifact, written, hindered, reader, saves, faults>>

\* The directory is synced after the rename of the manifest.
SyncManifest ==
    /\ writer.pc = "end" /\ SyncDirectory
    /\ writer' = [writer EXCEPT !.pc = "done"]
    /\ UNCHANGED <<artifact, file, written, hindered, reader, saves, faults>>

End ==
    /\ writer.pc = "done"
    /\ writer' = [writer EXCEPT !.pc = "idle"]
    /\ UNCHANGED <<artifact, file, images, written, hindered, reader, saves, faults>>

\* SIGKILL of the writer.
Kill ==
    /\ writer.pc # "idle" /\ faults < MaxFaults /\ faults' = faults + 1
    /\ writer' = [writer EXCEPT !.pc = "idle"]
    /\ UNCHANGED <<artifact, file, images, written, hindered, reader, saves>>

\* A payload whose blocks never reached the disk is torn.
Whole(files) == [files EXCEPT !.payload = IF @ = Absent \/ @ \in written THEN @ ELSE Torn]

LoseMachine ==
    /\ faults < MaxFaults /\ faults' = faults + 1
    /\ \E left \in images : file' = Whole(left)
    /\ images' = {file'}
    /\ writer' = [writer EXCEPT !.pc = "idle"]
    /\ reader' = [r \in Readers |-> Idle]
    /\ UNCHANGED <<artifact, written, hindered, saves>>

----------------------------------------------------------------------------
(* The readers                                                             *)

Finish(r, got) == reader' = [reader EXCEPT ![r] = [Idle EXCEPT !.got = got]]
Goes(r, to, described) ==
    reader' = [reader EXCEPT ![r] = [@ EXCEPT !.pc = to, !.described = described]]
Reads == UNCHANGED <<artifact, file, images, written, writer, hindered, saves, faults>>

\* _resolve_sidecar_for_load: no payload, no load.
Resolve(r) ==
    /\ ~Loading(r)
    /\ IF file.payload = Absent THEN Finish(r, Absent)
       ELSE reader' = [reader EXCEPT ![r] = [pc |-> IF artifact.checks THEN "exists" ELSE "load",
                        described |-> Absent, got |-> Absent, overlapped |-> writer.pc # "idle"]]
    /\ Reads

\* An artifact without a manifest is loaded with a warning, or refused.
Exists(r) ==
    /\ reader[r].pc = "exists"
    /\ IF file.manifest # Absent THEN Goes(r, "open", Absent)
       ELSE IF artifact.needs THEN Finish(r, Refused)
       ELSE Goes(r, "load", Absent)
    /\ Reads

\* The manifest is read; gone by now, it cannot be.
Open(r) ==
    /\ reader[r].pc = "open"
    /\ IF file.manifest = Absent THEN Finish(r, Refused) ELSE Goes(r, "stat", file.manifest)
    /\ Reads

\* The size of the payload is that of the manifest.
Stat(r) ==
    /\ reader[r].pc = "stat"
    /\ IF Describes(reader[r].described, file.payload) THEN Goes(r, "load", reader[r].described)
       ELSE Finish(r, Refused)
    /\ Reads

\* torch.load, and the schema version in the payload.
Load(r) == reader[r].pc = "load" /\ Finish(r, file.payload) /\ Reads

----------------------------------------------------------------------------
Next ==
    \/ Begin \/ Remove \/ Write \/ Rename \/ SyncPayload \/ Describe \/ SyncManifest
    \/ End \/ Kill \/ LoseMachine
    \/ \E r \in Readers : Resolve(r) \/ Exists(r) \/ Open(r) \/ Stat(r) \/ Load(r)

Spec == Init /\ [][Next]_vars

----------------------------------------------------------------------------
(* Properties                                                              *)

Payloads == Saves \cup {Absent}
Files == [payload : Payloads, manifest : Payloads]
Reader == [pc : {"idle", "exists", "open", "stat", "load"}, described : Payloads,
           got : Payloads \cup {Refused}, overlapped : BOOLEAN]

\* Types.  A payload is never torn, neither for a process nor after a loss.
TypeOK ==
    /\ artifact \in Artifacts
    /\ file \in Files /\ images \subseteq Files /\ written \subseteq Saves
    /\ writer \in [pc : {"idle", "remove", "write", "rename", "sync", "describe", "end", "done"},
                   save : Payloads]
    /\ hindered \in BOOLEAN
    /\ reader \in [Readers -> Reader]
    /\ saves \in 0..MaxSaves /\ faults \in 0..MaxFaults

\* A load would be refused although nothing runs.
Unloadable ==
    /\ file.payload # Absent /\ artifact.checks
    /\ \/ file.manifest # Absent /\ ~Describes(file.manifest, file.payload)
       \/ file.manifest = Absent /\ artifact.needs

Fragile == artifact.removes # "first" \/ hindered

Register == INSTANCE SidecarRegister WITH
    Values <- Saves, Empty <- Absent,
    value <- file.payload,
    durable <- {f.payload : f \in images},
    saving <- writer.pc # "idle",
    fragile <- Fragile,
    spoiled <- writer.pc = "idle" /\ Unloadable,
    load <- [r \in Readers |-> [loading |-> Loading(r), overlapped |-> reader[r].overlapped,
                               got |-> reader[r].got]]

\* The files and their protocol implement the register: a load returns the
\* whole payload of some save that was stored while it ran, is refused only
\* beside a save or after a cut save of a fragile protocol, and what a
\* completed save stored is there after any kill or loss of the machine
\* (_write_payload_and_manifest with _validate_manifest_or_warn).
IsRegister == Register!Spec
============================================================================
