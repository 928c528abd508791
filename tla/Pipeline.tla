------------------------------ MODULE Pipeline ------------------------------
(***************************************************************************)
(* The pipeline driver (run_pipeline.py) and the checkpoints its stages    *)
(* hand to each other (save_compressed_checkpoint and                      *)
(* load_compressed_model, utils/model_io.py).                              *)
(*                                                                         *)
(* A command names the first and the last stage.  The driver loads the     *)
(* model the first stage starts from, runs the stages one after the other  *)
(* on the model in memory, and each of them leaves a checkpoint directory. *)
(* A process may be killed at every step; the operator then starts another *)
(* command over what is on disk.                                           *)
(*                                                                         *)
(* Stage numbers are in tenths: 25 is Stage 2.5.  A set of weights is      *)
(* abstracted to its lineage: which stage of which run made it, from the   *)
(* original model.  A model put together from the files of several saves   *)
(* is the set of their lineages.                                           *)
(***************************************************************************)
EXTENDS Naturals, Sequences, FiniteSets, FiniteSetsExt

CONSTANTS
    Commands,    \* command lines the operator uses
    NumLayers,   \* MoE layers Stage 4 compensates
    Common,      \* the shards that fit the metadata of any other layout, too
    MaxRuns,     \* bound: commands started
    MaxCrashes,  \* bound: killed processes
    MaxRewinds   \* bound: commands that do not just resume the interrupted stage

Stages == {10, 20, 25, 30, 40, 50, 60}
Dirs == {20, 25, 30, 40, 50}       \* stage2_pruned/ ... stage5_final/
MaxShards == 2

\* The window of a command, --no-resume, --skip-stage2p5,
\* pipeline.skip_intermediate_stages, and what the budgets of its config make
\* of the model: the number of 5 GB shards of a compressed checkpoint.
Command == [from: 1..6, to: 1..6, noResume: BOOLEAN, skip25: BOOLEAN,
            skipMid: BOOLEAN, shards: 1..MaxShards]

\* The second line is _parse's.
ASSUME CommandsAssumption ==
    /\ Commands \subseteq Command
    /\ \A c \in Commands : c.skip25 => c.from <= 2 /\ 2 <= c.to
    /\ NumLayers \in Nat /\ MaxRuns \in Nat
    /\ MaxCrashes \in Nat /\ MaxRewinds \in Nat

VARIABLES
    dirs,      \* the checkpoint directories
    blacklist, budgets, decomposition,  \* Stage 1: the run that wrote each, or 0
    planned,   \* the shards the budgets stand for
    cov,       \* _stage2_input_covariance.pt: the run that wrote it, or 0
    orig,      \* _stage3_original_weights.pt: the model it holds, {} if absent
    spills,    \* _stage4_partial/: the weights of each layer in it, {} if absent
    eora,      \* stage4_eora/eora_ranks.json is there
    cmd, run,  \* the command, and its number
    pc, todo,  \* what the driver does next, and the stages it has left
    model, size, tok,  \* the model in memory, its shards, its tokenizer is usable
    decomp,    \* the budget decomposition in memory: a run, or 0 for None
    at,        \* progress in the step pc: layers or halves of shards done
    mended,    \* Stage 4: what the layers done are made of
    reached,   \* the stage the operator has to resume, 70 when all is done
    raised,    \* the last command ended in an error
    crashes, rewinds

disk == <<dirs, blacklist, budgets, decomposition, planned, cov, orig, spills, eora>>
memory == <<model, size, tok, decomp, at, mended>>
operator == <<reached, raised, crashes, rewinds>>
driving == <<disk, cmd, run, pc, todo, memory, operator>>

-----------------------------------------------------------------------------
(* Lineages and checkpoint directories *)

\* The steps <<stage, run>> applied to the original model, in order.
Original == <<>>
Applied(m, s, r) == {Append(l, <<s, r>>) : l \in m}
Apply(m, s) == Applied(m, s, run)
\* The run that did stage s of a lineage, 0 if none did.
RunOf(l, s) == Max({0} \cup {l[i][2] : i \in {j \in DOMAIN l : l[j][1] = s}})

\* model-<i>-of-<n>.safetensors; one still being written holds {}.
ShardFiles == {f \in (1..MaxShards) \X (1..MaxShards) : f[1] <= f[2]}
FilesOf(n) == {f \in ShardFiles : f[2] = n}

\* Layouts differ in the shape of some tensor, and all files of one layout
\* together hold every tensor.
ASSUME CommonAssumption ==
    /\ Common \subseteq ShardFiles
    /\ \A n \in 1..MaxShards : ~(FilesOf(n) \subseteq Common)

\* meta is the layout compressed_metadata.json declares (0: no such file).
\* saved and done, the model last saved here and whether that save got to its
\* end, and partial, the layouts of which a save may have left some shards
\* only, are for the properties: the code has no such record.
NoDir == [made |-> FALSE, meta |-> 0, shards |-> [f \in {} |-> {}], config |-> FALSE,
          tok |-> FALSE, saved |-> {}, done |-> FALSE, partial |-> {}]

\* A tensor is taken from the last file that has it: where shards of two
\* layouts load, the result is of both.
Content(d) == UNION {d.shards[f] : f \in DOMAIN d.shards}

\* load_compressed_model: metadata and config are there, every file
\* model-*.safetensors of the directory, whichever save left it, is readable
\* and has the shapes the metadata declares, and no key is missing.  The index
\* is not read.
Loadable(d) ==
    /\ d.meta # 0 /\ d.config /\ FilesOf(d.meta) \subseteq DOMAIN d.shards
    /\ DOMAIN d.shards \subseteq FilesOf(d.meta) \cup Common
    /\ \A f \in DOMAIN d.shards : d.shards[f] # {}

-----------------------------------------------------------------------------
(* The driver *)

InWindow(c, n) == c.from <= n /\ n <= c.to

\* Fault: --no-resume does not defeat the shortcut.
ShortcutAlways(c) ==
    IF c.from # 2 THEN 0 ELSE Max({0} \cup {s \in {20, 25} : dirs[s].made})
\* --no-resume absent, start at Stage 2, and an output of it exists.
Shortcut(c) ==
    IF c.from # 2 \/ c.noResume THEN 0
    ELSE Max({0} \cup {s \in {20, 25} : dirs[s].made})

\* The stages a command asks for, and those left after the shortcut.
Window(c) ==
    {s \in Stages :
        /\ InWindow(c, s \div 10)
        /\ s \in {25, 30, 40, 50} => ~c.skipMid
        /\ s > 20 => ~c.skip25}
\* Fault: skip_stage25 is forgotten for an existing stage2p5_final/.
PlannedTwice(c) ==
    Window(c) \ IF Shortcut(c) = 0 THEN {} ELSE {20}
Planned(c) ==
    Window(c) \ {s \in {20, 25} : s <= Shortcut(c)}

\* _load_for_stage: the directory a command starts from, 0 for the original
\* model, or 1 if there is none to load.
FirstOf(cands) ==
    LET I == {i \in DOMAIN cands : dirs[cands[i]].made}
    IN IF I = {} THEN 1 ELSE cands[Min(I)]
Source(c) ==
    CASE c.from <= 2 -> Shortcut(c)
      [] c.from = 3 -> FirstOf(<<25, 20>>)
      [] c.from = 4 -> FirstOf(<<30>>)
      [] c.from = 5 -> FirstOf(<<40>>)
      [] c.from = 6 -> FirstOf(<<50, 25, 20>>)

\* The operator just resumes: the command starts at the interrupted stage and
\* asks for it, with --no-resume if and only if loading failed before.  (One
\* whose window the shortcut empties, over a torn stage2_pruned/ say, resumes
\* nothing.)
Resumes(c) ==
    /\ c.from = reached \div 10 /\ reached \in Window(c) /\ Planned(c) # {}
    /\ c.noResume <=> raised

DriverInit ==
    /\ dirs = [s \in Dirs |-> NoDir]
    /\ blacklist = 0 /\ budgets = 0 /\ decomposition = 0 /\ planned = 0
    /\ cov = 0 /\ orig = {} /\ spills = [k \in 1..NumLayers |-> {}] /\ eora = FALSE
    /\ cmd = (CHOOSE c \in Commands : TRUE) /\ run = 0 /\ pc = "idle" /\ todo = {}
    /\ model = {} /\ size = 0 /\ tok = TRUE /\ decomp = 0 /\ at = 0 /\ mended = {}
    /\ reached = 10 /\ raised = FALSE /\ crashes = 0 /\ rewinds = 0

Now == Min(todo)
After(s) == Min({t \in Stages \cup {70} : t > s})
At(step, s) == pc = step /\ Now = s
GoTo(step) == pc' = step /\ at' = 0

\* The process is gone.
Forget ==
    /\ pc' = "idle" /\ todo' = {} /\ model' = {} /\ size' = 0 /\ tok' = TRUE
    /\ decomp' = 0 /\ at' = 0 /\ mended' = {}
Raise ==
    /\ Forget /\ raised' = TRUE
    /\ UNCHANGED <<disk, cmd, run, reached, crashes, rewinds>>

\* main() up to the first stage.
LoadSource(c, src) ==
    /\ IF src = 0
       THEN model' = {Original} /\ size' = 0 /\ tok' = TRUE
       ELSE /\ src \in Dirs /\ Loadable(dirs[src])
            /\ model' = Content(dirs[src]) /\ size' = dirs[src].meta
            /\ tok' = dirs[src].tok
    /\ decomp' = IF c.from = 1 THEN 0 ELSE decomposition
    /\ mended' = {} /\ raised' = FALSE
    /\ todo' = Planned(c) /\ Planned(c) # {}
    /\ GoTo("work") /\ reached' = Min(Planned(c))
CannotLoad(c, src) ==
    /\ src # 0 /\ ~(src \in Dirs /\ Loadable(dirs[src]))
    /\ Forget /\ raised' = TRUE /\ reached' = reached
\* The shortcut leaves nothing of the window.
NothingToDo(c) ==
    /\ Planned(c) = {} /\ Forget /\ raised' = FALSE /\ reached' = reached
Start(c) ==
    /\ pc = "idle" /\ run < MaxRuns /\ reached # 70
    /\ \/ Resumes(c) /\ rewinds' = rewinds
       \/ ~Resumes(c) /\ rewinds < MaxRewinds /\ rewinds' = rewinds + 1
    /\ run' = run + 1 /\ cmd' = c
    /\ \/ LoadSource(c, Source(c))
       \/ CannotLoad(c, Source(c))
       \/ NothingToDo(c)
    /\ UNCHANGED <<disk, crashes>>

\* A stage is finished; the driver goes on with the next one it has to do.
FinishStage ==
    /\ pc = "finish"
    /\ LET rest == todo \ {Now} IN
       \/ /\ rest = {} /\ Forget /\ reached' = After(Now)
       \/ /\ rest # {} /\ todo' = rest /\ reached' = Min(rest)
          /\ GoTo("work") /\ UNCHANGED <<model, size, tok, decomp, mended>>
    /\ UNCHANGED <<disk, cmd, run, raised, crashes, rewinds>>

\* A process is killed, or its machine reclaimed.
Crash ==
    /\ pc # "idle" /\ crashes < MaxCrashes /\ crashes' = crashes + 1
    /\ Forget /\ UNCHANGED <<disk, cmd, run, reached, raised, rewinds>>

\* A step of a running stage: the command goes on.
Running == UNCHANGED <<cmd, run, todo, operator>>

-----------------------------------------------------------------------------
(* The stages *)

\* Stage 1 writes three files; the last is main()'s.
WriteBlacklist ==
    /\ At("work", 10) /\ Running
    /\ blacklist' = run /\ GoTo("budgets")
    /\ UNCHANGED <<dirs, budgets, decomposition, planned, cov, orig, spills, eora,
                   model, size, tok, decomp, mended>>
WriteBudgets ==
    /\ pc = "budgets" /\ Running
    /\ budgets' = run /\ planned' = cmd.shards /\ GoTo("decomposition")
    /\ UNCHANGED <<dirs, blacklist, decomposition, cov, orig, spills, eora,
                   model, size, tok, decomp, mended>>
WriteDecomposition ==
    /\ pc = "decomposition" /\ Running
    /\ decomposition' = run /\ decomp' = run /\ GoTo("finish")
    /\ UNCHANGED <<dirs, blacklist, budgets, planned, cov, orig, spills, eora,
                   model, size, tok, mended>>

\* Stage 2 merges by the budgets on disk and publishes the covariance (its
\* own crash-resume is module Stage2Partial).
Stage1Missing == cmd.from >= 2 /\ 0 \in {blacklist, budgets, decomposition}
\* Fault: a covariance that is there is kept.
PruneKeepsCov ==
    /\ At("work", 20) /\ ~Stage1Missing /\ Running
    /\ model' = Apply({Append(l, <<10, budgets>>) : l \in model}, 20)
    /\ size' = planned /\ cov' = (IF cov = 0 THEN run ELSE cov) /\ GoTo("mkdir")
    /\ UNCHANGED <<dirs, blacklist, budgets, decomposition, planned, orig, spills,
                   eora, tok, decomp, mended>>
Prune ==
    /\ At("work", 20) /\ ~Stage1Missing /\ Running
    /\ model' = Apply({Append(l, <<10, budgets>>) : l \in model}, 20)
    /\ size' = planned /\ cov' = run /\ GoTo("mkdir")
    /\ UNCHANGED <<dirs, blacklist, budgets, decomposition, planned, orig, spills,
                   eora, tok, decomp, mended>>
PruneRefused == At("work", 20) /\ Stage1Missing /\ Raise

\* Router-KD, after the merge (2.5) or at the end (5).
Distil ==
    /\ pc = "work" /\ Now \in {25, 50} /\ Running
    /\ model' = Apply(model, Now) /\ GoTo("mkdir")
    /\ UNCHANGED <<disk, size, tok, decomp, mended>>

\* Stage 3 snapshots the weights it is about to factor.  Rank allocation needs
\* the decomposition, which every merged model on this disk comes with; without
\* a covariance it goes on.
SnapshotOriginals ==
    /\ At("work", 30) /\ decomp # 0 /\ Running
    /\ orig' = model /\ GoTo("factor")
    /\ UNCHANGED <<dirs, blacklist, budgets, decomposition, planned, cov, spills, eora,
                   model, size, tok, decomp, mended>>
Factor ==
    /\ pc = "factor" /\ Running
    /\ model' = Apply(model, 30) /\ GoTo("mkdir")
    /\ UNCHANGED <<disk, size, tok, decomp, mended>>

\* Stage 4 compensates layer after layer, reusing the spilled ones.
LoadOriginals ==
    /\ At("work", 40) /\ orig # {} /\ Running
    /\ mended' = {} /\ GoTo("layers")
    /\ UNCHANGED <<disk, model, size, tok, decomp>>
\* The double-widen guard tells the operator that Stage 4 is through.  (The
\* other error, no originals and no ranks, cannot occur on one disk: originals
\* are there before stage3_svd/, and removed after the ranks are written.)
AlreadyWidened ==
    /\ At("work", 40) /\ orig = {} /\ eora
    /\ Forget /\ raised' = FALSE /\ reached' = 50
    /\ UNCHANGED <<disk, cmd, run, crashes, rewinds>>
Compensate ==
    /\ pc = "layers" /\ at < NumLayers /\ Running
    /\ cmd.noResume \/ spills[at + 1] = {}
    /\ mended' = mended \cup Apply(model, 40)
    /\ spills' = IF cmd.noResume THEN spills
                 ELSE [spills EXCEPT ![at + 1] = Apply(model, 40)]
    /\ at' = at + 1 /\ pc' = pc
    /\ UNCHANGED <<dirs, blacklist, budgets, decomposition, planned, cov, orig, eora,
                   model, size, tok, decomp>>
ReuseSpill ==
    /\ pc = "layers" /\ at < NumLayers /\ Running
    /\ ~cmd.noResume /\ spills[at + 1] # {}
    /\ mended' = mended \cup spills[at + 1]
    /\ at' = at + 1 /\ pc' = pc
    /\ UNCHANGED <<disk, model, size, tok, decomp>>
Compensated ==
    /\ pc = "layers" /\ at = NumLayers /\ Running
    /\ model' = mended /\ GoTo("mkdir")
    /\ UNCHANGED <<disk, size, tok, decomp, mended>>

\* Stage 6 only reads the model.
Evaluate ==
    /\ At("work", 60) /\ Running
    /\ GoTo("finish") /\ UNCHANGED <<disk, model, size, tok, decomp, mended>>

-----------------------------------------------------------------------------
(* save_compressed_checkpoint, over whatever the directory holds: files of *)
(* another layout stay.                                                    *)

Saving(d) ==
    /\ dirs' = [dirs EXCEPT ![Now] = d] /\ Running
    /\ UNCHANGED <<blacklist, budgets, decomposition, planned, cov, orig, spills, eora,
                   model, size, tok, decomp, mended>>
Dir == dirs[Now]

MakeDir ==
    /\ pc = "mkdir"
    /\ Saving([Dir EXCEPT !.made = TRUE, !.saved = model, !.done = FALSE])
    /\ GoTo("metadata")
WriteMetadata ==
    /\ pc = "metadata"
    /\ Saving([Dir EXCEPT !.meta = size]) /\ GoTo("shards")

\* save_file truncates the file and fills it; one file is in flight.
Shard == <<at \div 2 + 1, size>>
WithShard(m) ==
    [Dir EXCEPT !.shards = [f \in DOMAIN @ \cup {Shard} |-> IF f = Shard THEN m ELSE @[f]]]
OpenShard ==
    /\ pc = "shards" /\ at < 2 * size /\ at % 2 = 0
    /\ Saving([WithShard({}) EXCEPT !.partial = @ \cup {size}])
    /\ at' = at + 1 /\ pc' = pc
FillShard ==
    /\ pc = "shards" /\ at < 2 * size /\ at % 2 = 1
    /\ Saving(WithShard(model))
    /\ at' = at + 1 /\ pc' = pc
\* The index and config.json, which a loader cannot do without.
WriteConfig ==
    /\ pc = "shards" /\ at = 2 * size
    /\ Saving([Dir EXCEPT !.config = TRUE, !.partial = @ \ {size}]) /\ GoTo("tokenizer")
WriteTokenizer ==
    /\ pc = "tokenizer"
    /\ Saving([Dir EXCEPT !.tok = tok, !.done = TRUE])
    /\ GoTo(IF Now = 40 THEN "ranks" ELSE "finish")

\* Stage 4 then clears what only it reads.
WriteRanks ==
    /\ pc = "ranks" /\ Running
    /\ eora' = TRUE /\ GoTo("unspill")
    /\ UNCHANGED <<dirs, blacklist, budgets, decomposition, planned, cov, orig, spills,
                   model, size, tok, decomp, mended>>
RemoveSpill(k) ==
    /\ pc = "unspill" /\ ~cmd.noResume /\ spills[k] # {} /\ Running
    /\ spills' = [spills EXCEPT ![k] = {}] /\ UNCHANGED <<pc, at>>
    /\ UNCHANGED <<dirs, blacklist, budgets, decomposition, planned, cov, orig, eora,
                   model, size, tok, decomp, mended>>
SpillsRemoved ==
    /\ pc = "unspill" /\ Running
    /\ cmd.noResume \/ \A k \in 1..NumLayers : spills[k] = {}
    /\ GoTo("originals") /\ UNCHANGED <<disk, model, size, tok, decomp, mended>>
RemoveOriginals ==
    /\ pc = "originals" /\ Running
    /\ orig' = {} /\ GoTo("covariance")
    /\ UNCHANGED <<dirs, blacklist, budgets, decomposition, planned, cov, spills, eora,
                   model, size, tok, decomp, mended>>
RemoveCovariance ==
    /\ pc = "covariance" /\ Running
    /\ cov' = 0 /\ GoTo("finish")
    /\ UNCHANGED <<dirs, blacklist, budgets, decomposition, planned, orig, spills, eora,
                   model, size, tok, decomp, mended>>

Step ==
    \/ WriteBlacklist \/ WriteBudgets \/ WriteDecomposition
    \/ Prune \/ PruneRefused \/ Distil
    \/ SnapshotOriginals \/ Factor
    \/ LoadOriginals \/ AlreadyWidened
    \/ Compensate \/ ReuseSpill \/ Compensated \/ Evaluate
    \/ MakeDir \/ WriteMetadata \/ OpenShard \/ FillShard \/ WriteConfig \/ WriteTokenizer
    \/ WriteRanks \/ SpillsRemoved \/ RemoveOriginals \/ RemoveCovariance
    \/ \E k \in 1..NumLayers : RemoveSpill(k)
    \/ FinishStage

DriverNext == Step \/ Crash \/ \E c \in Commands : Start(c)

DriverSpec == DriverInit /\ [][DriverNext]_driving

\* A started process runs on; an interrupted pipeline is resumed.
Work == Step \/ \E c \in Commands : Resumes(c) /\ Start(c)

-----------------------------------------------------------------------------
(* Properties *)

\* No stage is applied twice to a model (no second pruning, no second
\* widening) nor out of order, whatever commands, shortcuts, fallbacks and
\* torn directories led to it; and nothing but Stage 2.5 and, on the way to
\* the evaluation, the stages before it are left out.
Ordered(l) ==
    /\ \A i, j \in DOMAIN l : i < j => l[i][1] < l[j][1]
    /\ RunOf(l, 30) # 0 => RunOf(l, 20) # 0
    /\ RunOf(l, 40) # 0 => RunOf(l, 30) # 0
    /\ RunOf(l, 50) # 0 => RunOf(l, 40) # 0
StagesOnce == \A l \in model \cup UNION {Content(dirs[s]) : s \in Dirs} : Ordered(l)

\* A directory whose last save got to its end loads as the model that was
\* saved, or is refused, unless a killed save of another layout left some of
\* its shards there: those of a complete one never pass for the new model's.
FinishedLoadsExact ==
    \A s \in Dirs : dirs[s].done /\ dirs[s].partial = {} /\ Loadable(dirs[s])
                       => Content(dirs[s]) = dirs[s].saved

\* If the operator only ever resumes the interrupted stage, a stage works on
\* inputs of one history: Stage 2 on a blacklist, budgets and decomposition of
\* one run, Stages 3 and 4 on the covariance, decomposition, originals and
\* spilled layers that belong to the model in memory.
InputsMatch ==
    rewinds = 0 =>
      /\ At("work", 20) => blacklist = budgets /\ budgets = decomposition
      /\ pc \in {"factor", "layers"} =>
           /\ Cardinality(model) = 1
           /\ \A l \in model : cov = RunOf(l, 20)
           /\ pc = "factor" => \A l \in model : decomp = RunOf(l, 10)
           /\ pc = "layers" =>
                /\ \E r \in 1..run : model = Applied(orig, 30, r)
                /\ \A k \in 1..NumLayers :
                      spills[k] # {} => \E r \in 1..run : spills[k] = Applied(model, 40, r)

\* A finished directory loads as what was saved or is refused, and a resumed
\* stage finds inputs of one history.
HandedOverExact == FinishedLoadsExact /\ InputsMatch
=============================================================================
