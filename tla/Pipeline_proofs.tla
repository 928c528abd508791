--------------------------- MODULE Pipeline_proofs ---------------------------
(***************************************************************************)
(* Proofs about Pipeline, for any command lines, layers, runs, kills and   *)
(* rewinds: no stage is applied twice or out of order, a finished          *)
(* directory without remnants of a killed save loads as what was saved or  *)
(* is refused, and a pipeline that is only resumed works on inputs of one  *)
(* history.  A second part is about SidecarStore, the files the stages     *)
(* hand each other.                                                        *)
(***************************************************************************)
EXTENDS SidecarStore, Pipeline, TLAPS, FiniteSetTheorems, WellFoundedInduction

----------------------------------------------------------------------------
(* The inductive invariant                                                 *)

\* A lineage that ends with stage s: merged first, in order, with no stage
\* left out on the way but 2.5.
Passed(l, s) ==
    /\ l \in Seq(Nat \X Nat) /\ Len(l) >= 2
    /\ l[1][1] = 10 /\ l[2][1] = 20 /\ l[Len(l)][1] = s
    /\ \A i, j \in 1 .. Len(l) : i < j => l[i][1] < l[j][1]
    /\ \A i \in 1 .. Len(l) : l[i][1] # 10 => l[i][2] # 0
    /\ \A t \in {30, 40} : t <= s => \E i \in 1 .. Len(l) : l[i][1] = t
Past(m, s) == \A l \in m : Passed(l, s)

\* The stages of the steps, and the command they belong to.
SaveSteps == {"mkdir", "metadata", "shards", "tokenizer"}
ClearSteps == {"ranks", "unspill", "originals", "covariance"}
Stepping ==
    /\ pc \in {"idle", "work", "finish", "budgets", "decomposition", "factor", "layers"}
               \cup SaveSteps \cup ClearSteps
    /\ reached \in Stages \cup {70} /\ (raised = TRUE => pc = "idle")
    /\ run \in Nat /\ {blacklist, budgets, decomposition, cov} \subseteq Nat /\ rewinds \in Nat
    /\ budgets # 0 => planned \in 1 .. MaxShards
    /\ pc # "idle" =>
          /\ cmd \in Commands /\ run # 0 /\ reached = Now
          /\ todo # {} /\ todo \subseteq Window(cmd)
          /\ \A t \in Window(cmd) : Now <= t => t \in todo
    /\ pc \in {"budgets", "decomposition"} => Now = 10
    /\ pc = "factor" => Now = 30
    /\ pc \in {"layers"} \cup ClearSteps => Now = 40
    /\ pc \in SaveSteps => Now \in Dirs
    /\ pc = "budgets" => blacklist = run
    /\ pc = "decomposition" => blacklist = run /\ budgets = run
    /\ pc = "finish" /\ Now = 10 => blacklist = run /\ budgets = run /\ decomposition = run
    /\ pc = "work" /\ Now = 20 /\ cmd.from = 1 => blacklist = run /\ budgets = run /\ decomposition = run
    /\ pc # "idle" /\ (Now # 10 \/ pc = "finish") => decomp = decomposition
    /\ pc # "idle" /\ (Now \in {25, 30, 40, 50} \/ (Now = 20 /\ pc # "work")) => size \in 1 .. MaxShards

\* The model in memory has passed the stages before the one at work.
Ready(s) ==
    \/ s \in {10, 20} /\ model = {Original}
    \/ s = 25 /\ Past(model, 20)
    \/ s = 30 /\ (Past(model, 20) \/ Past(model, 25))
    \/ s = 40 /\ Past(model, 30)
    \/ s = 50 /\ Past(model, 40)
    \/ s = 60 /\ \E t \in Dirs : Past(model, t)
Lineages ==
    /\ pc = "idle" => model = {}
    /\ pc \in {"work", "budgets", "decomposition", "factor", "layers"} => Ready(Now)
    /\ pc = "finish" /\ Now \in {10, 60} => Ready(Now)
    /\ pc \in SaveSteps \cup ClearSteps \/ (pc = "finish" /\ Now \in Dirs) => Past(model, Now)
    /\ Past(mended, 40)
    /\ DOMAIN spills = 1 .. NumLayers /\ \A k \in 1 .. NumLayers : Past(spills[k], 40)
    /\ \A s \in Dirs : \A f \in DOMAIN dirs[s].shards : Past(dirs[s].shards[f], s)

Marks == {"made", "meta", "shards", "config", "tok", "saved", "done", "partial"}

\* The shards of every layout that no save left in the middle: all or none.
Entire(d) ==
    /\ d.partial \subseteq 1 .. MaxShards
    /\ \A n \in (1 .. MaxShards) \ d.partial :
          FilesOf(n) \subseteq DOMAIN d.shards \/ FilesOf(n) \cap DOMAIN d.shards = {}

\* A directory that is being saved, and one whose save got to its end.
Filled(d, n, k, m) ==
    \A i \in 1 .. k : <<i, n>> \in DOMAIN d.shards /\ d.shards[<<i, n>>] = m
Directories ==
    /\ DOMAIN dirs = Dirs
    /\ \A s \in Dirs :
          /\ DOMAIN dirs[s] = Marks
          /\ {dirs[s].made, dirs[s].config, dirs[s].done} \subseteq BOOLEAN
          /\ dirs[s].meta \in 0 .. MaxShards
          /\ dirs[s].made = FALSE =>
                dirs[s].config = FALSE /\ dirs[s].done = FALSE /\ DOMAIN dirs[s].shards = {}
          /\ DOMAIN dirs[s].shards \subseteq ShardFiles /\ Entire(dirs[s])
          /\ dirs[s].done = TRUE =>
                dirs[s].meta # 0 /\ Filled(dirs[s], dirs[s].meta, dirs[s].meta, dirs[s].saved)
    /\ pc \in SaveSteps \ {"mkdir"} =>
          dirs[Now].made = TRUE /\ dirs[Now].saved = model /\ dirs[Now].done = FALSE
    /\ pc \in {"shards", "tokenizer"} => dirs[Now].meta = size
    /\ pc = "shards" =>
          /\ at \in 0 .. 2 * size /\ Filled(dirs[Now], size, at \div 2, model)
          /\ at # 0 => size \in dirs[Now].partial
    /\ pc = "tokenizer" => Filled(dirs[Now], size, size, model)
    /\ pc = "finish" /\ Now = 30 => dirs[30].done = TRUE /\ dirs[30].saved = model
    /\ pc = "layers" => at \in 0 .. NumLayers

\* What resumes keep, as long as the operator does nothing else.  A model of
\* the decomposition and the covariance on disk:
MergedBy(m, b, c) ==
    \E l : m = {l} /\ l[1] = <<10, b>> /\ l[2] = <<20, c>>
Related(m) == MergedBy(m, decomposition, cov)
\* a directory that loads as such a model:
Holds(d, n, b, c) ==
    /\ d.meta = n /\ DOMAIN d.shards = FilesOf(n)
    /\ \E m : MergedBy(m, b, c) /\ Filled(d, n, n, m)
WholeDir(s) == Holds(dirs[s], planned, decomposition, cov)
\* and one that Stage 4 may work on, with its originals and spills, if the
\* originals are still there.
Applicable(m) ==
    /\ \E l : m = {l}
    /\ orig # {} => Related(m) /\ \E r \in 1 .. run : m = Applied(orig, 30, r)
    /\ \A k \in 1 .. NumLayers : spills[k] # {} => \E r \in 1 .. run : spills[k] = Applied(m, 40, r)
\* The merge may be done again: no later directory can be taken for its result.
Remergeable ==
    dirs[25].config = FALSE /\ (dirs[20].config = TRUE => dirs[25].made = TRUE)
Merging == {"work", "mkdir", "metadata", "shards"}

Budgeted ==
    /\ reached = 10 => \A s \in Dirs : dirs[s].made = FALSE
    /\ reached # 10 => blacklist = budgets /\ budgets = decomposition /\ budgets # 0
    /\ reached \in {10, 20, 25, 30} => \A k \in 1 .. NumLayers : spills[k] = {}
Merged ==
    /\ reached \in {20, 25, 30} =>
          /\ dirs[20].config = TRUE /\ dirs[25].made = FALSE => WholeDir(20)
          /\ dirs[25].config = TRUE => WholeDir(25)
    /\ reached # 10 => \A s \in {20, 25, 30} : DOMAIN dirs[s].shards \subseteq FilesOf(planned)
    /\ raised = TRUE /\ reached \in {20, 25} => Remergeable
    /\ pc \in Merging /\ Now = 20 => Remergeable
    /\ pc # "idle" /\ Now = 20 => dirs[25].config = FALSE
    /\ pc \in Merging /\ Now = 25 => dirs[25].config = FALSE
    /\ pc # "idle" /\ (Now = 25 \/ (Now = 20 /\ pc # "work")) => size = planned /\ Related(model)
Factored ==
    /\ pc # "idle" /\ Now = 30 => size = planned
    /\ pc \in {"work", "factor"} /\ Now = 30 => Related(model)
    /\ pc = "factor" => orig = model
    /\ pc \in SaveSteps \cup {"finish"} /\ Now = 30 => Applicable(model)
    /\ reached = 40 => dirs[30].done = TRUE /\ Applicable(dirs[30].saved)
    /\ pc \in {"work", "layers"} /\ Now = 40 => model = dirs[30].saved
    /\ pc = "layers" => orig # {}
    /\ pc = "covariance" \/ (pc = "finish" /\ Now = 40) => orig = {}
OneHistory == rewinds = 0 => Budgeted /\ Merged /\ Factored

IInv == Stepping /\ Lineages /\ Directories /\ OneHistory

----------------------------------------------------------------------------
(* Stages, windows and sources                                             *)

\* A set of stages that is not empty has a least one.
LEMMA LeastStage ==
    ASSUME NEW S, S \subseteq Stages \cup {70}, S # {}
    PROVE  Min(S) \in S /\ \A t \in S : Min(S) <= t
<1>1. \E s \in S : \A t \in S : s <= t
  <2>1. PICK a \in S : TRUE
    OBVIOUS
  <2>2. CASE 10 \in S
    BY <2>2 DEF Stages
  <2>3. CASE 10 \notin S /\ 20 \in S
    BY <2>3 DEF Stages
  <2>4. CASE S \cap {10, 20} = {} /\ 25 \in S
    BY <2>4 DEF Stages
  <2>5. CASE S \cap {10, 20, 25} = {} /\ 30 \in S
    BY <2>5 DEF Stages
  <2>6. CASE S \cap {10, 20, 25, 30} = {} /\ 40 \in S
    BY <2>6 DEF Stages
  <2>7. CASE S \cap {10, 20, 25, 30, 40} = {} /\ 50 \in S
    BY <2>7 DEF Stages
  <2>8. CASE S \cap {10, 20, 25, 30, 40, 50} = {} /\ 60 \in S
    BY <2>8 DEF Stages
  <2>9. CASE S \cap {10, 20, 25, 30, 40, 50, 60} = {}
    BY <2>1, <2>9 DEF Stages
  <2> QED
    BY <2>2, <2>3, <2>4, <2>5, <2>6, <2>7, <2>8, <2>9
<1> QED
  BY <1>1 DEF Min

\* The stage at work is the first of those left.
LEMMA NowFacts ==
    ASSUME Stepping, pc # "idle"
    PROVE  /\ Now \in todo /\ Now \in Window(cmd) /\ Now \in Stages
           /\ \A t \in todo : Now <= t
<1>1. todo # {} /\ todo \subseteq Window(cmd) /\ Window(cmd) \subseteq Stages
  BY DEF Stepping, Window
<1>2. Now \in todo /\ \A t \in todo : Now <= t
  BY <1>1, LeastStage DEF Now
<1> QED
  BY <1>1, <1>2

\* The fields of a command line, and the stages of its window.
LEMMA WindowIs ==
    ASSUME NEW c \in Commands
    PROVE  /\ c.from \in 1 .. 6 /\ c.to \in 1 .. 6 /\ c.shards \in 1 .. MaxShards
           /\ c.noResume \in BOOLEAN /\ c.skip25 \in BOOLEAN /\ c.skipMid \in BOOLEAN
           /\ Window(c) \subseteq Stages
           /\ 10 \in Window(c) <=> c.from = 1
           /\ 20 \in Window(c) <=> c.from <= 2 /\ 2 <= c.to
           /\ 25 \in Window(c) <=>
                c.from <= 2 /\ 2 <= c.to /\ c.skip25 = FALSE /\ c.skipMid = FALSE
           /\ 30 \in Window(c) <=>
                c.from <= 3 /\ 3 <= c.to /\ c.skip25 = FALSE /\ c.skipMid = FALSE
           /\ 40 \in Window(c) <=>
                c.from <= 4 /\ 4 <= c.to /\ c.skip25 = FALSE /\ c.skipMid = FALSE
           /\ 50 \in Window(c) <=>
                c.from <= 5 /\ 5 <= c.to /\ c.skip25 = FALSE /\ c.skipMid = FALSE
           /\ 60 \in Window(c) <=> 6 <= c.to /\ c.skip25 = FALSE
           /\ \A s \in Window(c) : 10 * c.from <= s
           /\ c.skip25 = TRUE => c.from <= 2
<1>1. c \in [from : 1..6, to : 1..6, noResume : BOOLEAN, skip25 : BOOLEAN,
             skipMid : BOOLEAN, shards : 1..MaxShards]
  BY CommandsAssumption DEF Command
<1>2. /\ c.from \in 1 .. 6 /\ c.to \in 1 .. 6 /\ c.shards \in 1 .. MaxShards
      /\ c.noResume \in BOOLEAN /\ c.skip25 \in BOOLEAN /\ c.skipMid \in BOOLEAN
  BY <1>1
<1>3. c.skip25 = TRUE => c.from <= 2
  BY CommandsAssumption
<1>4. Window(c) \subseteq Stages
  BY DEF Window
<1>5. /\ 10 \in Window(c) <=> c.from = 1
      /\ 20 \in Window(c) <=> c.from <= 2 /\ 2 <= c.to
  BY <1>2 DEF Window, Stages, InWindow
<1>6. /\ 25 \in Window(c) <=>
            c.from <= 2 /\ 2 <= c.to /\ c.skip25 = FALSE /\ c.skipMid = FALSE
      /\ 30 \in Window(c) <=>
            c.from <= 3 /\ 3 <= c.to /\ c.skip25 = FALSE /\ c.skipMid = FALSE
  BY <1>2 DEF Window, Stages, InWindow
<1>7. /\ 40 \in Window(c) <=>
            c.from <= 4 /\ 4 <= c.to /\ c.skip25 = FALSE /\ c.skipMid = FALSE
      /\ 50 \in Window(c) <=>
            c.from <= 5 /\ 5 <= c.to /\ c.skip25 = FALSE /\ c.skipMid = FALSE
  BY <1>2 DEF Window, Stages, InWindow
<1>8. 60 \in Window(c) <=> 6 <= c.to /\ c.skip25 = FALSE
  BY <1>2 DEF Window, Stages, InWindow
<1>9. \A s \in Window(c) : 10 * c.from <= s
  BY <1>2 DEF Window, Stages, InWindow
<1> QED
  BY <1>2, <1>3, <1>4, <1>5, <1>6, <1>7, <1>8, <1>9

\* The stage after the one at work.
LEMMA FollowedBy ==
    ASSUME Stepping, pc # "idle", todo \ {Now} # {}
    PROVE  LET t == Min(todo \ {Now}) IN
           /\ t \in todo /\ Now < t /\ \A u \in todo \ {Now} : t <= u
           /\ \/ Now = 10 /\ t = 20
              \/ Now = 20 /\ t \in {25, 60}
              \/ Now = 25 /\ t = 30
              \/ Now = 30 /\ t = 40
              \/ Now = 40 /\ t = 50
              \/ Now = 50 /\ t = 60
<1> DEFINE t == Min(todo \ {Now})
<1>1. /\ Now \in todo /\ Now \in Window(cmd) /\ Now \in Stages /\ cmd \in Commands
      /\ todo \subseteq Window(cmd) /\ Window(cmd) \subseteq Stages
      /\ \A u \in Window(cmd) : Now <= u => u \in todo
      /\ \A u \in todo : Now <= u
  BY NowFacts, WindowIs DEF Stepping
<1>2. t \in todo \ {Now} /\ \A u \in todo \ {Now} : t <= u
  BY <1>1, LeastStage
<1> HIDE DEF t
<1>3. t \in Window(cmd) /\ t \in Stages /\ Now < t
  BY <1>1, <1>2 DEF Stages
<1>4. \A u \in Window(cmd) : Now < u => t <= u
  BY <1>1, <1>2 DEF Stages
<1>5. \/ Now = 10 /\ t = 20
      \/ Now = 20 /\ t \in {25, 60}
      \/ Now = 25 /\ t = 30
      \/ Now = 30 /\ t = 40
      \/ Now = 40 /\ t = 50
      \/ Now = 50 /\ t = 60
  <2> DEFINE c == cmd
             n == Now
             W == Window(cmd)
  <2>1. /\ c.from \in 1 .. 6 /\ c.to \in 1 .. 6
        /\ c.skip25 \in BOOLEAN /\ c.skipMid \in BOOLEAN
        /\ 10 \in W <=> c.from = 1
        /\ 20 \in W <=> c.from <= 2 /\ 2 <= c.to
        /\ 25 \in W <=> c.from <= 2 /\ 2 <= c.to /\ c.skip25 = FALSE /\ c.skipMid = FALSE
        /\ 30 \in W <=> c.from <= 3 /\ 3 <= c.to /\ c.skip25 = FALSE /\ c.skipMid = FALSE
        /\ 40 \in W <=> c.from <= 4 /\ 4 <= c.to /\ c.skip25 = FALSE /\ c.skipMid = FALSE
        /\ 50 \in W <=> c.from <= 5 /\ 5 <= c.to /\ c.skip25 = FALSE /\ c.skipMid = FALSE
        /\ 60 \in W <=> 6 <= c.to /\ c.skip25 = FALSE
    BY <1>1, WindowIs
  <2>2. n \in W /\ n \in Stages /\ t \in W /\ t \in Stages /\ n < t /\ \A u \in W : n < u => t <= u
    BY <1>1, <1>3, <1>4
  <2> HIDE DEF c, n, W
  <2>3. CASE n = 10
    BY <2>1, <2>2, <2>3 DEF Stages, n
  <2>4. CASE n = 20
    BY <2>1, <2>2, <2>4 DEF Stages, n
  <2>5. CASE n = 25
    BY <2>1, <2>2, <2>5 DEF Stages, n
  <2>6. CASE n = 30
    BY <2>1, <2>2, <2>6 DEF Stages, n
  <2>7. CASE n = 40
    BY <2>1, <2>2, <2>7 DEF Stages, n
  <2>8. CASE n = 50
    BY <2>1, <2>2, <2>8 DEF Stages, n
  <2>9. CASE n = 60
    BY <2>1, <2>2, <2>9 DEF Stages, n
  <2> QED
    BY <2>2, <2>3, <2>4, <2>5, <2>6, <2>7, <2>8, <2>9 DEF Stages
<1> QED
  BY <1>2, <1>3, <1>5 DEF t

\* Where a command may start, and from what.
LEMMA StartsAt ==
    ASSUME NEW c \in Commands, Planned(c) # {}, Directories
    PROVE  LET t == Min(Planned(c)) IN
           /\ t \in Planned(c) /\ Planned(c) \subseteq Window(c)
           /\ \A u \in Window(c) : t <= u => u \in Planned(c)
           /\ \/ c.from = 1 /\ Source(c) = 0 /\ t = 10
              \/ /\ c.from = 2 /\ Source(c) = 0 /\ t = 20
                 /\ c.noResume = FALSE => dirs[20].made = FALSE /\ dirs[25].made = FALSE
              \/ c.from = 2 /\ Source(c) = 20 /\ t \in {25, 60} /\ dirs[25].made = FALSE
              \/ c.from = 2 /\ Source(c) = 25 /\ t \in {30, 60} /\ dirs[25].made = TRUE
              \/ c.from = 3 /\ Source(c) = 1 /\ t \in {30, 60}
              \/ c.from = 3 /\ Source(c) = 20 /\ t \in {30, 60} /\ dirs[25].made = FALSE
              \/ c.from = 3 /\ Source(c) = 25 /\ t \in {30, 60}
              \/ c.from = 4 /\ Source(c) \in {1, 30} /\ t \in {40, 60}
              \/ c.from = 5 /\ Source(c) \in {1, 40} /\ t \in {50, 60}
              \/ c.from = 6 /\ Source(c) \in {1, 50, 25, 20} /\ t = 60
<1> DEFINE t == Min(Planned(c))
<1>1. Planned(c) \subseteq Window(c) /\ Window(c) \subseteq Stages
  BY WindowIs DEF Planned
<1>2. t \in Planned(c) /\ \A u \in Planned(c) : t <= u
  BY <1>1, LeastStage
<1> HIDE DEF t
<1>3. {dirs[20].made, dirs[25].made} \subseteq BOOLEAN
  BY DEF Directories, Dirs
<1>4. /\ c.from # 2 \/ c.noResume = TRUE => Shortcut(c) = 0
      /\ c.from = 2 /\ c.noResume = FALSE =>
            Shortcut(c) = IF dirs[25].made = TRUE THEN 25 ELSE IF dirs[20].made = TRUE THEN 20 ELSE 0
  <2>1. CASE c.from # 2 \/ c.noResume = TRUE
    BY <2>1 DEF Shortcut
  <2>2. CASE c.from = 2 /\ c.noResume = FALSE
    <3> DEFINE S == {0} \cup {s \in {20, 25} : dirs[s].made}
    <3>1. Shortcut(c) = Max(S)
      BY <2>2 DEF Shortcut
    <3>2. CASE dirs[25].made = TRUE
      <4>1. 25 \in S /\ \A x \in S : x <= 25 /\ x \in Nat
        BY <3>2
      <4> HIDE DEF S
      <4>2. Max(S) = 25
        BY <4>1 DEF Max
      <4> QED
        BY <2>2, <3>1, <3>2, <4>2
    <3>3. CASE dirs[25].made = FALSE /\ dirs[20].made = TRUE
      <4>1. 20 \in S /\ \A x \in S : x <= 20 /\ x \in Nat
        BY <3>3
      <4> HIDE DEF S
      <4>2. Max(S) = 20
        BY <4>1 DEF Max
      <4> QED
        BY <2>2, <3>1, <3>3, <4>2
    <3>4. CASE dirs[25].made = FALSE /\ dirs[20].made = FALSE
      <4>1. S = {0}
        BY <3>4
      <4> HIDE DEF S
      <4>2. Max(S) = 0
        BY <4>1 DEF Max
      <4> QED
        BY <2>2, <3>1, <3>4, <4>2
    <3> QED
      BY <1>3, <3>2, <3>3, <3>4
  <2> QED
    BY <2>1, <2>2, WindowIs
<1>5. Planned(c) = {s \in Window(c) : s \in {20, 25} => ~ (s <= Shortcut(c))}
  BY DEF Planned
<1>20. /\ c.from \in 1 .. 6 /\ c.to \in 1 .. 6 /\ c.noResume \in BOOLEAN
       /\ c.skip25 \in BOOLEAN /\ c.skipMid \in BOOLEAN
       /\ 10 \in Window(c) <=> c.from = 1
       /\ 20 \in Window(c) <=> c.from <= 2 /\ 2 <= c.to
       /\ 25 \in Window(c) <=> c.from <= 2 /\ 2 <= c.to /\ c.skip25 = FALSE /\ c.skipMid = FALSE
       /\ 30 \in Window(c) <=> c.from <= 3 /\ 3 <= c.to /\ c.skip25 = FALSE /\ c.skipMid = FALSE
       /\ 40 \in Window(c) <=> c.from <= 4 /\ 4 <= c.to /\ c.skip25 = FALSE /\ c.skipMid = FALSE
       /\ 50 \in Window(c) <=> c.from <= 5 /\ 5 <= c.to /\ c.skip25 = FALSE /\ c.skipMid = FALSE
       /\ 60 \in Window(c) <=> 6 <= c.to /\ c.skip25 = FALSE
       /\ \A s \in Window(c) : 10 * c.from <= s
       /\ c.skip25 = TRUE => c.from <= 2
  BY WindowIs
<1> DEFINE sc == Shortcut(c)
           W == Window(c)
           P == Planned(c)
<1>21. sc \in {0, 20, 25} /\ P = {s \in W : s \in {20, 25} => ~ (s <= sc)} /\ t \in P
       /\ W \subseteq Stages /\ (\A u \in P : t <= u) /\ (sc # 0 => ~ (10 \in W))
  BY <1>1, <1>2, <1>3, <1>4, <1>5, <1>20
<1> HIDE DEF sc, W, P
<1>6. \A u \in W : t <= u => u \in P
  <2>1. CASE sc = 0
    BY <1>21, <2>1 DEF Stages
  <2>2. CASE sc = 20
    BY <1>21, <2>2 DEF Stages
  <2>3. CASE sc = 25
    BY <1>21, <2>3 DEF Stages
  <2> QED
    BY <1>21, <2>1, <2>2, <2>3
<1>7. /\ c.from <= 2 => Source(c) = Shortcut(c)
      /\ c.from = 3 => Source(c) = FirstOf(<<25, 20>>)
      /\ c.from = 4 => Source(c) = FirstOf(<<30>>)
      /\ c.from = 5 => Source(c) = FirstOf(<<40>>)
      /\ c.from = 6 => Source(c) = FirstOf(<<50, 25, 20>>)
  BY WindowIs DEF Source
<1>8. FirstOf(<<25, 20>>) = IF dirs[25].made = TRUE THEN 25 ELSE IF dirs[20].made = TRUE THEN 20 ELSE 1
  <2> DEFINE I == {i \in DOMAIN <<25, 20>> : dirs[<<25, 20>>[i]].made}
  <2>1. I = {i \in {1, 2} : dirs[IF i = 1 THEN 25 ELSE 20].made = TRUE}
    BY <1>3
  <2>2. FirstOf(<<25, 20>>) = IF I = {} THEN 1 ELSE <<25, 20>>[Min(I)]
    BY DEF FirstOf
  <2>3. CASE dirs[25].made = TRUE
    <3>1. 1 \in I /\ \A i \in I : 1 <= i /\ i \in Nat
      BY <2>1, <2>3
    <3> HIDE DEF I
    <3>2. Min(I) = 1
      BY <3>1 DEF Min
    <3> QED
      BY <2>2, <2>3, <3>1, <3>2
  <2>4. CASE dirs[25].made = FALSE /\ dirs[20].made = TRUE
    <3>1. I = {2}
      BY <2>1, <2>4
    <3> HIDE DEF I
    <3>2. Min(I) = 2
      BY <3>1 DEF Min
    <3> QED
      BY <2>2, <2>4, <3>1, <3>2
  <2>5. CASE dirs[25].made = FALSE /\ dirs[20].made = FALSE
    <3>1. I = {}
      BY <2>1, <2>5
    <3> QED
      BY <2>2, <2>5, <3>1
  <2> QED
    BY <1>3, <2>3, <2>4, <2>5
<1>9. FirstOf(<<30>>) \in {1, 30} /\ FirstOf(<<40>>) \in {1, 40}
  <2>1. ASSUME NEW d PROVE FirstOf(<<d>>) \in {1, d}
    <3> DEFINE I == {i \in DOMAIN <<d>> : dirs[<<d>>[i]].made}
    <3>1. I \subseteq {1}
      OBVIOUS
    <3>2. FirstOf(<<d>>) = IF I = {} THEN 1 ELSE <<d>>[Min(I)]
      BY DEF FirstOf
    <3> HIDE DEF I
    <3>3. I # {} => Min(I) = 1
      <4>1. ASSUME I # {} PROVE I = {1}
        BY <3>1, <4>1
      <4> QED
        BY <4>1 DEF Min
    <3> QED
      BY <3>2, <3>3
  <2> QED
    BY <2>1
<1>10. FirstOf(<<50, 25, 20>>) \in {1, 50, 25, 20}
  <2> DEFINE I == {i \in DOMAIN <<50, 25, 20>> : dirs[<<50, 25, 20>>[i]].made}
  <2>1. I \subseteq {1, 2, 3}
    OBVIOUS
  <2>2. FirstOf(<<50, 25, 20>>) = IF I = {} THEN 1 ELSE <<50, 25, 20>>[Min(I)]
    BY DEF FirstOf
  <2> HIDE DEF I
  <2>3. I # {} => Min(I) \in I
    <3>1. ASSUME I # {} PROVE \E i \in I : \A j \in I : i <= j
      <4>1. CASE 1 \in I
        BY <2>1, <4>1
      <4>2. CASE 1 \notin I /\ 2 \in I
        BY <2>1, <4>2
      <4>3. CASE 1 \notin I /\ 2 \notin I
        <5>1. I = {3}
          BY <2>1, <3>1, <4>3
        <5> QED
          BY <5>1
      <4> QED
        BY <4>1, <4>2, <4>3
    <3> QED
      BY <3>1 DEF Min
  <2>4. <<50, 25, 20>>[1] = 50 /\ <<50, 25, 20>>[2] = 25 /\ <<50, 25, 20>>[3] = 20
    OBVIOUS
  <2>5. I # {} => Min(I) = 1 \/ Min(I) = 2 \/ Min(I) = 3
    BY <2>1, <2>3
  <2> QED
    BY <2>2, <2>4, <2>5
<1>11. CASE c.from = 1
  <2>1. 10 \in P
    BY <1>4, <1>11, <1>20, <1>21 DEF W, Stages
  <2>2. t = 10
    BY <1>21, <2>1 DEF Stages
  <2> QED
    BY <1>4, <1>7, <1>11, <1>21, <1>6, <1>1, <2>2 DEF t, W, P
<1>12. CASE c.from = 2
  <2>1. CASE sc = 0
    <3>1. \E s \in P : s <= 60
      BY <1>21, <2>1 DEF Stages
    <3>2. 20 \in P
      BY <1>12, <1>20, <1>21, <2>1, <3>1 DEF W, Stages
    <3>3. t = 20
      BY <1>12, <1>20, <1>21, <3>2 DEF W, Stages
    <3> QED
      BY <1>3, <1>4, <1>7, <1>12, <1>21, <1>6, <1>1, <2>1, <3>3 DEF t, W, P, sc
  <2>2. CASE sc = 20
    <3>1. t \in {25, 60}
      BY <1>12, <1>20, <1>21, <2>2 DEF W, Stages
    <3> QED
      BY <1>3, <1>4, <1>7, <1>12, <1>20, <1>21, <1>6, <1>1, <2>2, <3>1 DEF t, W, P, sc
  <2>3. CASE sc = 25
    <3>1. t \in {30, 60}
      BY <1>12, <1>20, <1>21, <2>3 DEF W, Stages
    <3> QED
      BY <1>3, <1>4, <1>7, <1>12, <1>20, <1>21, <1>6, <1>1, <2>3, <3>1 DEF t, W, P, sc
  <2> QED
    BY <1>21, <2>1, <2>2, <2>3
<1>13. CASE c.from = 3
  <2>1. t \in {30, 60}
    BY <1>13, <1>20, <1>21 DEF W, Stages
  <2> QED
    BY <1>1, <1>3, <1>6, <1>7, <1>8, <1>13, <1>21, <2>1 DEF t, W, P
<1>14. CASE c.from = 4
  <2>1. t \in {40, 60}
    BY <1>14, <1>20, <1>21 DEF W, Stages
  <2> QED
    BY <1>1, <1>6, <1>7, <1>9, <1>14, <1>21, <2>1 DEF t, W, P
<1>15. CASE c.from = 5
  <2>1. t \in {50, 60}
    BY <1>15, <1>20, <1>21 DEF W, Stages
  <2> QED
    BY <1>1, <1>6, <1>7, <1>9, <1>15, <1>21, <2>1 DEF t, W, P
<1>16. CASE c.from = 6
  <2>1. t = 60
    BY <1>16, <1>20, <1>21 DEF W, Stages
  <2> QED
    BY <1>1, <1>6, <1>7, <1>10, <1>16, <1>21, <2>1 DEF t, W, P
<1>17. c.from = 1 \/ c.from = 2 \/ c.from = 3 \/ c.from = 4 \/ c.from = 5 \/ c.from = 6
  BY <1>20
<1> QED
  BY <1>11, <1>12, <1>13, <1>14, <1>15, <1>16, <1>17, Zenon

----------------------------------------------------------------------------
(* Lineages                                                                *)

\* Stages follow one another: 25 may be left out.
Follows(s, t) ==
    \/ s = 20 /\ t \in {25, 30}
    \/ s = 25 /\ t = 30
    \/ s = 30 /\ t = 40
    \/ s = 40 /\ t = 50

SameMerge(l, k) == k[1] = l[1] /\ k[2] = l[2]

LEMMA PassedNext ==
    ASSUME NEW l, NEW s, NEW t, Follows(s, t), Passed(l, s), NEW r \in Nat \ {0}
    PROVE  Passed(Append(l, <<t, r>>), t) /\ SameMerge(l, Append(l, <<t, r>>))
<1> DEFINE k == Append(l, <<t, r>>)
<1>1. /\ l \in Seq(Nat \X Nat) /\ Len(l) \in Nat /\ Len(l) >= 2
      /\ l[1][1] = 10 /\ l[2][1] = 20 /\ l[Len(l)][1] = s
      /\ \A i, j \in 1 .. Len(l) : i < j => l[i][1] < l[j][1]
      /\ \A i \in 1 .. Len(l) : l[i][1] # 10 => l[i][2] # 0
      /\ \A u \in {30, 40} : u <= s => \E i \in 1 .. Len(l) : l[i][1] = u
      /\ \A i \in 1 .. Len(l) : l[i] \in Nat \X Nat
  BY DEF Passed
<1>2. s \in Nat /\ t \in Nat /\ s < t
  BY DEF Follows
<1>3. <<t, r>> \in Nat \X Nat
  BY <1>2
<1>4. /\ k \in Seq(Nat \X Nat) /\ Len(k) = Len(l) + 1
      /\ \A i \in 1 .. Len(l) : k[i] = l[i]
      /\ k[Len(l) + 1] = <<t, r>>
  BY <1>1, <1>3
<1> HIDE DEF k
<1>5. /\ Len(k) >= 2 /\ k[1] = l[1] /\ k[2] = l[2] /\ k[Len(k)][1] = t
      /\ k[Len(l) + 1][1] = t /\ k[Len(l) + 1][2] = r
  BY <1>1, <1>4
<1>6. ASSUME NEW i \in 1 .. Len(k), NEW j \in 1 .. Len(k), i < j PROVE k[i][1] < k[j][1]
  <2>1. i \in 1 .. Len(l)
    BY <1>1, <1>4, <1>6
  <2>2. CASE j \in 1 .. Len(l)
    BY <1>1, <1>4, <1>6, <2>1, <2>2
  <2>3. CASE j = Len(l) + 1
    <3>1. l[i][1] <= s
      <4>1. CASE i = Len(l)
        BY <1>1, <1>2, <4>1
      <4>2. CASE i < Len(l)
        <5>1. Len(l) \in 1 .. Len(l)
          BY <1>1
        <5>2. l[i][1] < l[Len(l)][1] /\ l[i] \in Nat \X Nat
          BY <1>1, <2>1, <4>2, <5>1
        <5> QED
          BY <1>1, <1>2, <5>2
      <4> QED
        BY <1>1, <2>1, <4>1, <4>2
    <3>2. l[i][1] \in Nat
      BY <1>1, <2>1
    <3> QED
      BY <1>2, <1>4, <1>5, <2>1, <2>3, <3>1, <3>2
  <2> QED
    BY <1>1, <1>4, <2>2, <2>3
<1>7. \A i \in 1 .. Len(k) : k[i][1] # 10 => k[i][2] # 0
  <2>1. ASSUME NEW i \in 1 .. Len(k), k[i][1] # 10 PROVE k[i][2] # 0
    <3>1. CASE i \in 1 .. Len(l)
      BY <1>1, <1>4, <2>1, <3>1
    <3>2. CASE i = Len(l) + 1
      BY <1>5, <3>2
    <3> QED
      BY <1>1, <1>4, <3>1, <3>2
  <2> QED
    BY <2>1
<1>8. ASSUME NEW u \in {30, 40}, u <= t PROVE \E i \in 1 .. Len(k) : k[i][1] = u
  <2>1. CASE u = t
    <3>1. Len(l) + 1 \in 1 .. Len(k) /\ k[Len(l) + 1][1] = u
      BY <1>1, <1>4, <1>5, <2>1
    <3> QED
      BY <3>1
  <2>2. CASE u # t
    <3>1. u <= s
      BY <1>8, <2>2 DEF Follows
    <3>2. PICK i \in 1 .. Len(l) : l[i][1] = u
      BY <1>1, <3>1
    <3>3. i \in 1 .. Len(k)
      BY <1>1, <1>4, <3>2
    <3>4. k[i] = l[i]
      BY <1>4, <3>2
    <3>5. k[i][1] = u
      BY <3>2, <3>4
    <3> QED
      BY <3>3, <3>5
  <2> QED
    BY <2>1, <2>2
<1>9. k[1][1] = 10 /\ k[2][1] = 20
  BY <1>1, <1>5
<1> QED
  BY <1>4, <1>5, <1>6, <1>7, <1>8, <1>9 DEF Passed, SameMerge, k

LEMMA PastNext ==
    ASSUME NEW m, NEW s, NEW t, Follows(s, t), Past(m, s), NEW r \in Nat \ {0}
    PROVE  Past(Applied(m, t, r), t)
<1> SUFFICES ASSUME NEW k \in Applied(m, t, r) PROVE Passed(k, t)
  BY DEF Past
<1>1. PICK l \in m : k = Append(l, <<t, r>>)
  BY DEF Applied
<1>2. Passed(l, s)
  BY <1>1 DEF Past
<1> QED
  BY <1>1, <1>2, PassedNext

\* The lineage of a merge.
LEMMA PastMerge ==
    ASSUME NEW b \in Nat, NEW r \in Nat \ {0}
    PROVE  /\ Passed(<< <<10, b>>, <<20, r>> >>, 20)
           /\ Applied({Append(l, <<10, b>>) : l \in {Original}}, 20, r)
                = {<< <<10, b>>, <<20, r>> >>}
<1> DEFINE l == << <<10, b>>, <<20, r>> >>
<1>1. /\ l \in Seq(Nat \X Nat) /\ Len(l) = 2
      /\ l[1] = <<10, b>> /\ l[2] = <<20, r>>
  OBVIOUS
<1>2. Append(Append(Original, <<10, b>>), <<20, r>>) = l
  <2> DEFINE x == <<10, b>>
             y == <<20, r>>
  <2> HIDE DEF x, y
  <2>1. Append(<<>>, x) = <<x>>
    OBVIOUS
  <2>2. Append(<<x>>, y) = <<x, y>>
    <3> DEFINE p == <<x>>
               q == Append(p, y)
    <3>1. p \in Seq({x, y}) /\ Len(p) = 1 /\ p[1] = x
      OBVIOUS
    <3> HIDE DEF p
    <3>2. q \in Seq({x, y}) /\ Len(q) = 2 /\ q[1] = x /\ q[2] = y
      <4> DEFINE S == {x, y}
      <4>1. p \in Seq(S) /\ y \in S
        BY <3>1
      <4> HIDE DEF S
      <4>2. q \in Seq(S) /\ Len(q) = Len(p) + 1 /\ q[Len(p) + 1] = y
        BY <4>1
      <4>3. 1 \in 1 .. Len(p) /\ (\A i \in 1 .. Len(p) : q[i] = p[i])
        BY <3>1, <4>1
      <4>4. q[1] = x
        BY <3>1, <4>3
      <4>5. q \in Seq(S) /\ Len(q) = 2 /\ q[1] = x /\ q[2] = y
        BY <3>1, <4>2, <4>4
      <4> QED
        BY <4>5 DEF S
    <3> HIDE DEF q
    <3>3. q = <<x, y>>
      BY <3>2
    <3> QED
      BY <3>3 DEF q, p
  <2> QED
    BY <2>1, <2>2 DEF Original, x, y
<1>3. Applied({Append(k, <<10, b>>) : k \in {Original}}, 20, r) = {l}
  BY <1>2 DEF Applied
<1> HIDE DEF l
<1>4. Passed(l, 20)
  BY <1>1 DEF Passed
<1> QED
  BY <1>3, <1>4 DEF l

\* The run of a step in a lineage.
LEMMA RunOfStep ==
    ASSUME NEW l, NEW s, Passed(l, s)
    PROVE  /\ \A i \in 1 .. Len(l) : RunOf(l, l[i][1]) = l[i][2]
           /\ \A t : (\A i \in 1 .. Len(l) : l[i][1] # t) => RunOf(l, t) = 0
<1>1. /\ l \in Seq(Nat \X Nat) /\ Len(l) \in Nat
      /\ \A i, j \in 1 .. Len(l) : i < j => l[i][1] < l[j][1]
      /\ \A i \in 1 .. Len(l) : l[i] \in Nat \X Nat
      /\ DOMAIN l = 1 .. Len(l)
  BY DEF Passed
<1>2. ASSUME NEW i \in 1 .. Len(l) PROVE RunOf(l, l[i][1]) = l[i][2]
  <2> DEFINE S == {0} \cup {l[k][2] : k \in {j \in DOMAIN l : l[j][1] = l[i][1]}}
  <2>1. \A j \in 1 .. Len(l) : l[j][1] = l[i][1] => j = i
    <3>1. ASSUME NEW j \in 1 .. Len(l), l[j][1] = l[i][1], j # i PROVE FALSE
      <4>1. l[j][1] \in Nat /\ l[i][1] \in Nat
        BY <1>1
      <4>2. j < i \/ i < j
        BY <3>1
      <4> QED
        BY <1>1, <3>1, <4>1, <4>2
    <3> QED
      BY <3>1
  <2>2. S = {0, l[i][2]}
    BY <1>1, <2>1
  <2>3. l[i][2] \in Nat
    BY <1>1
  <2>4. RunOf(l, l[i][1]) = Max(S)
    BY DEF RunOf
  <2> HIDE DEF S
  <2>5. Max(S) = l[i][2]
    BY <2>2, <2>3 DEF Max
  <2> QED
    BY <2>4, <2>5
<1>3. ASSUME NEW t, \A i \in 1 .. Len(l) : l[i][1] # t PROVE RunOf(l, t) = 0
  <2> DEFINE S == {0} \cup {l[k][2] : k \in {j \in DOMAIN l : l[j][1] = t}}
  <2>1. S = {0}
    BY <1>1, <1>3
  <2>2. RunOf(l, t) = Max(S)
    BY DEF RunOf
  <2> HIDE DEF S
  <2>3. Max(S) = 0
    BY <2>1 DEF Max
  <2> QED
    BY <2>2, <2>3
<1> QED
  BY <1>2, <1>3

LEMMA OrderedPast ==
    ASSUME NEW l, NEW s \in Dirs, Passed(l, s)
    PROVE  Ordered(l)
<1>1. /\ l \in Seq(Nat \X Nat) /\ Len(l) \in Nat /\ Len(l) >= 2 /\ DOMAIN l = 1 .. Len(l)
      /\ l[1][1] = 10 /\ l[2][1] = 20 /\ l[Len(l)][1] = s
      /\ \A i, j \in 1 .. Len(l) : i < j => l[i][1] < l[j][1]
      /\ \A i \in 1 .. Len(l) : l[i][1] # 10 => l[i][2] # 0
      /\ \A u \in {30, 40} : u <= s => \E i \in 1 .. Len(l) : l[i][1] = u
      /\ \A i \in 1 .. Len(l) : l[i][1] \in Nat
  BY DEF Passed
<1>2. RunOf(l, 20) # 0
  <2>1. 2 \in 1 .. Len(l)
    BY <1>1
  <2>2. RunOf(l, l[2][1]) = l[2][2]
    BY <2>1, RunOfStep
  <2>3. l[2][2] # 0
    BY <1>1, <2>1
  <2> QED
    BY <1>1, <2>2, <2>3
\* A step that was run is not after the last one.
<1>3. ASSUME NEW t \in {40, 50}, RunOf(l, t) # 0 PROVE t <= s
  <2>1. PICK i \in 1 .. Len(l) : l[i][1] = t
    BY <1>3, RunOfStep
  <2>2. CASE i = Len(l)
    BY <1>1, <1>3, <2>1, <2>2
  <2>3. CASE i < Len(l)
    <3>1. Len(l) \in 1 .. Len(l)
      BY <1>1
    <3>2. l[i][1] < l[Len(l)][1]
      BY <1>1, <2>3, <3>1
    <3> QED
      BY <1>1, <2>1, <3>2 DEF Dirs
  <2>4. i = Len(l) \/ i < Len(l)
    <3>1. Len(l) \in Nat /\ i \in 1 .. Len(l)
      BY <1>1, <2>1
    <3> QED
      BY <3>1
  <2> QED
    BY <2>2, <2>3, <2>4
<1>4. ASSUME NEW u \in {30, 40}, u <= s PROVE RunOf(l, u) # 0
  <2>1. PICK i \in 1 .. Len(l) : l[i][1] = u
    BY <1>1, <1>4
  <2>2. RunOf(l, l[i][1]) = l[i][2] /\ l[i][2] # 0
    BY <1>1, <2>1, RunOfStep
  <2> QED
    BY <2>1, <2>2
<1>5. RunOf(l, 40) # 0 => RunOf(l, 30) # 0
  BY <1>3, <1>4 DEF Dirs
<1>6. RunOf(l, 50) # 0 => RunOf(l, 40) # 0
  BY <1>3, <1>4 DEF Dirs
<1> QED
  BY <1>1, <1>2, <1>5, <1>6 DEF Ordered

LEMMA OrderedOriginal == Ordered(Original)
<1>1. DOMAIN Original = {}
  BY DEF Original
<1>2. ASSUME NEW t PROVE RunOf(Original, t) = 0
  <2> DEFINE S == {0} \cup {Original[k][2] : k \in {j \in DOMAIN Original : Original[j][1] = t}}
  <2>1. S = {0}
    BY <1>1
  <2>2. RunOf(Original, t) = Max(S)
    BY DEF RunOf
  <2> HIDE DEF S
  <2>3. Max(S) = 0
    BY <2>1 DEF Max
  <2> QED
    BY <2>2, <2>3
<1> QED
  BY <1>1, <1>2 DEF Ordered

----------------------------------------------------------------------------
(* Every step keeps the invariant                                          *)

LEMMA Initially == DriverInit => IInv
<1> SUFFICES ASSUME DriverInit PROVE IInv
  OBVIOUS
<1>1. Stepping
  BY DEF DriverInit, Stepping, SaveSteps, ClearSteps, Stages
<1>2. Lineages
  BY DEF DriverInit, Lineages, SaveSteps, ClearSteps, Past, NoDir
<1>3. Directories
  <2>1. DOMAIN dirs = Dirs /\ \A s \in Dirs : dirs[s] = NoDir
    BY DEF DriverInit
  <2>2. /\ DOMAIN NoDir = Marks
        /\ {NoDir.made, NoDir.config, NoDir.done} \subseteq BOOLEAN
        /\ NoDir.meta = 0 /\ DOMAIN NoDir.shards = {} /\ NoDir.made = FALSE
        /\ NoDir.config = FALSE /\ NoDir.done = FALSE /\ NoDir.partial = {}
    BY DEF NoDir, Marks
  <2>3. pc = "idle"
    BY DEF DriverInit
  <2> QED
    BY <2>1, <2>2, <2>3 DEF Directories, SaveSteps, MaxShards, Entire
<1>4. OneHistory
  <2>1. /\ \A s \in Dirs : dirs[s].made = FALSE
        /\ \A k \in 1 .. NumLayers : spills[k] = {}
        /\ reached = 10 /\ raised = FALSE /\ pc = "idle"
    BY DEF DriverInit, NoDir
  <2> QED
    BY <2>1 DEF OneHistory, Budgeted, Merged, Factored, Merging, SaveSteps
<1> QED
  BY <1>1, <1>2, <1>3, <1>4 DEF IInv

LEMMA Stage1Writes ==
    ASSUME IInv, WriteBlacklist \/ WriteBudgets \/ WriteDecomposition
    PROVE  IInv'
<1>1. /\ pc # "idle" /\ cmd' = cmd /\ run' = run /\ todo' = todo /\ Now' = Now /\ Now = 10
      /\ reached' = reached /\ raised' = raised /\ rewinds' = rewinds /\ reached = 10
      /\ dirs' = dirs /\ cov' = cov /\ orig' = orig /\ spills' = spills /\ model' = model
      /\ mended' = mended /\ size' = size /\ cmd \in Commands /\ run \in Nat
  BY DEF IInv, Stepping, WriteBlacklist, WriteBudgets, WriteDecomposition, Running, operator, At,
         Now
<1>2. \/ WriteBlacklist
      \/ WriteBudgets /\ cmd.shards \in 1 .. MaxShards
      \/ WriteDecomposition
  BY <1>1, WindowIs
<1>3. Stepping'
  BY <1>1, <1>2 DEF IInv, Stepping, WriteBlacklist, WriteBudgets, WriteDecomposition, GoTo, At,
         SaveSteps, ClearSteps
<1>4. Lineages'
  BY <1>1, <1>2 DEF IInv, Lineages, Ready, WriteBlacklist, WriteBudgets, WriteDecomposition, GoTo,
         At, SaveSteps, ClearSteps, Dirs
<1>5. Directories'
  BY <1>1, <1>2 DEF IInv, Directories, WriteBlacklist, WriteBudgets, WriteDecomposition, GoTo, At,
         SaveSteps
<1>6. OneHistory'
  BY <1>1, <1>2 DEF IInv, OneHistory, Budgeted, Merged, Factored, WriteBlacklist, WriteBudgets,
         WriteDecomposition, GoTo, At, SaveSteps, Merging, Stages
<1> QED
  BY <1>3, <1>4, <1>5, <1>6 DEF IInv

LEMMA PruneKeeps ==
    ASSUME IInv, Prune
    PROVE  IInv'
<1> DEFINE n == {Append(l, <<10, budgets>>) : l \in model}
<1>1. /\ pc # "idle" /\ cmd' = cmd /\ run' = run /\ todo' = todo /\ Now' = Now /\ Now = 20
      /\ reached' = reached /\ raised' = raised /\ rewinds' = rewinds /\ reached = 20
      /\ dirs' = dirs /\ orig' = orig /\ spills' = spills /\ planned' = planned /\ size' = planned
      /\ blacklist' = blacklist /\ budgets' = budgets /\ decomposition' = decomposition
      /\ mended' = mended /\ cmd \in Commands /\ run \in Nat \ {0} /\ budgets \in Nat
      /\ pc = "work" /\ pc' = "mkdir" /\ cov' = run /\ at' = 0 /\ model = {Original}
      /\ decomp' = decomp /\ rewinds \in Nat
  BY DEF IInv, Stepping, Lineages, Ready, Prune, Running, operator, At, Now, GoTo
<1>2. model' = {<< <<10, budgets>>, <<20, run>> >>} /\ Past(model', 20)
  <2>1. model' = Applied({Append(l, <<10, budgets>>) : l \in {Original}}, 20, run)
    BY <1>1 DEF Prune, Apply
  <2>2. /\ Passed(<< <<10, budgets>>, <<20, run>> >>, 20)
        /\ Applied({Append(l, <<10, budgets>>) : l \in {Original}}, 20, run)
             = {<< <<10, budgets>>, <<20, run>> >>}
    BY <1>1, PastMerge
  <2> QED
    BY <2>1, <2>2 DEF Past
\* The budgets that Stage 2 does not refuse were written.
<1>3. budgets # 0 /\ decomp = decomposition
  <2>1. ~Stage1Missing
    BY DEF Prune
  <2>2. cmd.from \in 1 .. 6
    BY <1>1, WindowIs
  <2>3. cmd.from >= 2 => budgets # 0
    BY <2>1 DEF Stage1Missing
  <2>4. cmd.from = 1 => budgets # 0
    BY <1>1 DEF IInv, Stepping
  <2>5. cmd.from = 1 \/ cmd.from >= 2
    BY <2>2
  <2>6. decomp = decomposition
    BY <1>1 DEF IInv, Stepping
  <2> QED
    BY <2>3, <2>4, <2>5, <2>6
<1>4. Stepping'
  BY <1>1, <1>3 DEF IInv, Stepping, SaveSteps, ClearSteps, Dirs
<1>5. Lineages'
  BY <1>1, <1>2 DEF IInv, Lineages, SaveSteps, ClearSteps, Dirs
<1>6. Directories'
  BY <1>1 DEF IInv, Directories, SaveSteps
<1>7. OneHistory'
  <2> SUFFICES ASSUME rewinds = 0 PROVE Budgeted' /\ Merged' /\ Factored'
    BY <1>1 DEF OneHistory
  <2>1. Budgeted /\ Merged /\ Factored
    BY DEF IInv, OneHistory
  <2>2. Budgeted'
    BY <1>1, <2>1 DEF Budgeted
  <2>3. Related(model)'
    <3>1. budgets = decomposition
      BY <1>1, <2>1 DEF Budgeted
    <3>2. /\ << <<10, budgets>>, <<20, run>> >>[1] = <<10, budgets>>
          /\ << <<10, budgets>>, <<20, run>> >>[2] = <<20, run>>
      OBVIOUS
    <3> QED
      BY <1>1, <1>2, <3>1, <3>2 DEF Related, MergedBy
  <2>4. Remergeable /\ Remergeable'
    BY <1>1, <2>1 DEF Merged, Merging, Remergeable
  <2>5. Merged'
    BY <1>1, <2>1, <2>3, <2>4 DEF Merged, Merging, Remergeable
  <2>6. Factored'
    BY <1>1 DEF Factored, SaveSteps
  <2> QED
    BY <2>2, <2>5, <2>6
<1> QED
  BY <1>4, <1>5, <1>6, <1>7 DEF IInv

\* What is left when the process is gone.
LEMMA ForgetKeeps ==
    ASSUME IInv, pc # "idle", Forget, UNCHANGED <<disk, cmd, run, rewinds>>,
           \/ /\ reached' = reached
              /\ raised' = raised \/ (pc = "work" /\ Now = 20)
           \/ reached = 40 /\ reached' = 50 /\ raised' = FALSE
           \/ pc = "finish" /\ reached' = 70 /\ raised' = FALSE
    PROVE  IInv'
<1>1. /\ dirs' = dirs /\ cov' = cov /\ orig' = orig /\ spills' = spills /\ planned' = planned
      /\ blacklist' = blacklist /\ budgets' = budgets /\ decomposition' = decomposition
      /\ run' = run /\ rewinds' = rewinds
      /\ pc' = "idle" /\ model' = {} /\ mended' = {}
      /\ raised' = TRUE => raised = TRUE \/ (pc = "work" /\ Now = 20)
  BY DEF Forget, disk
<1>2. Stepping'
  BY <1>1 DEF IInv, Stepping, SaveSteps, ClearSteps, Stages
<1>3. Lineages'
  BY <1>1 DEF IInv, Lineages, Past, SaveSteps, ClearSteps
<1>4. Directories'
  BY <1>1 DEF IInv, Directories, SaveSteps
<1>5. OneHistory'
  <2> SUFFICES ASSUME rewinds = 0 PROVE Budgeted' /\ Merged' /\ Factored'
    BY <1>1 DEF OneHistory
  <2>1. Budgeted /\ Merged /\ Factored
    BY DEF IInv, OneHistory
  <2>2. /\ raised # TRUE /\ reached = Now /\ run # 0
        /\ pc = "finish" /\ Now = 10 => blacklist = run /\ budgets = run /\ decomposition = run
    BY DEF IInv, Stepping
  <2>3. \/ reached' = reached
        \/ reached = 40 /\ reached' = 50
        \/ pc = "finish" /\ reached' = 70
    OBVIOUS
  <2>4. Budgeted'
    BY <1>1, <2>1, <2>2, <2>3 DEF Budgeted
  <2>5. Merged'
    <3>1. /\ reached' \in {20, 25, 30} =>
                /\ dirs[20].config = TRUE /\ dirs[25].made = FALSE => WholeDir(20)'
                /\ dirs[25].config = TRUE => WholeDir(25)'
          /\ reached' # 10 => reached # 10 \/ pc = "finish"
      BY <1>1, <2>1, <2>3 DEF Merged, WholeDir, Related
    <3>2. reached' # 10 => \A s \in {20, 25, 30} : DOMAIN dirs[s].shards \subseteq FilesOf(planned)
      <4>1. ASSUME reached = 10 PROVE \A s \in {20, 25, 30} : DOMAIN dirs[s].shards = {}
        BY <2>1, <4>1 DEF Budgeted, IInv, Directories, Dirs
      <4> QED
        BY <2>1, <4>1 DEF Merged
    <3>3. raised' = TRUE /\ reached' \in {20, 25} => Remergeable'
      BY <1>1, <2>1, <2>2, <2>3 DEF Merged, Merging, Remergeable
    <3> QED
      BY <1>1, <3>1, <3>2, <3>3 DEF Merged, Merging
  <2>6. Factored'
    <3>1. reached = 40 => dirs[30].done = TRUE /\ Applicable(dirs[30].saved)
      BY <2>1 DEF Factored
    <3>2. Applicable(dirs[30].saved) => Applicable(dirs[30].saved)'
      BY <1>1 DEF Applicable, Related
    <3>3. reached' = 40 => reached = 40
      BY <2>3
    <3> QED
      BY <1>1, <3>1, <3>2, <3>3 DEF Factored, SaveSteps
  <2> QED
    BY <2>4, <2>5, <2>6
<1> QED
  BY <1>2, <1>3, <1>4, <1>5 DEF IInv

LEMMA LostOrRefused ==
    ASSUME IInv, Crash \/ PruneRefused \/ AlreadyWidened
    PROVE  IInv'
<1>1. CASE Crash
  BY <1>1, ForgetKeeps DEF Crash
<1>2. CASE PruneRefused
  BY <1>2, ForgetKeeps DEF PruneRefused, Raise, At
<1>3. CASE AlreadyWidened
  <2>1. reached = 40 /\ pc # "idle"
    BY <1>3 DEF IInv, Stepping, AlreadyWidened, At
  <2> QED
    BY <1>3, <2>1, ForgetKeeps DEF AlreadyWidened
<1> QED
  BY <1>1, <1>2, <1>3

LEMMA DistilKeeps ==
    ASSUME IInv, Distil
    PROVE  IInv'
<1>1. /\ pc = "work" /\ cmd' = cmd /\ run' = run /\ todo' = todo /\ Now' = Now /\ Now \in {25, 50}
      /\ reached' = reached /\ raised' = raised /\ rewinds' = rewinds /\ reached = Now
      /\ dirs' = dirs /\ orig' = orig /\ spills' = spills /\ planned' = planned /\ size' = size
      /\ blacklist' = blacklist /\ budgets' = budgets /\ decomposition' = decomposition
      /\ cov' = cov /\ decomp' = decomp /\ mended' = mended /\ run \in Nat \ {0}
      /\ pc' = "mkdir" /\ at' = 0 /\ model' = Applied(model, Now, run)
  BY DEF IInv, Stepping, Distil, Running, operator, Now, GoTo, disk, Apply
<1>2. (Now = 25 => Past(model, 20)) /\ (Now = 50 => Past(model, 40))
  BY <1>1 DEF IInv, Lineages, Ready
<1>3. Past(model', Now)
  <2>1. Follows(20, 25) /\ Follows(40, 50)
    BY DEF Follows
  <2>2. CASE Now = 25
    BY <1>1, <1>2, <2>1, <2>2, PastNext
  <2>3. CASE Now = 50
    BY <1>1, <1>2, <2>1, <2>3, PastNext
  <2> QED
    BY <1>1, <2>2, <2>3
<1>4. Stepping'
  BY <1>1 DEF IInv, Stepping, SaveSteps, ClearSteps, Dirs
<1>5. Lineages'
  BY <1>1, <1>3 DEF IInv, Lineages, SaveSteps, ClearSteps, Dirs
<1>6. Directories'
  BY <1>1 DEF IInv, Directories, SaveSteps
<1>7. OneHistory'
  <2> SUFFICES ASSUME rewinds = 0 PROVE Budgeted' /\ Merged' /\ Factored'
    BY <1>1 DEF OneHistory
  <2>1. Budgeted /\ Merged /\ Factored
    BY DEF IInv, OneHistory
  <2>2. Budgeted'
    BY <1>1, <2>1 DEF Budgeted
  <2>3. Now = 25 => Related(model)'
    <3>1. ASSUME Now = 25 PROVE Related(model)'
      <4>1. PICK l : model = {l} /\ l[1] = <<10, decomposition>> /\ l[2] = <<20, cov>>
        BY <1>1, <2>1, <3>1 DEF Merged, Related, MergedBy
      <4>2. Passed(l, 20)
        BY <1>2, <3>1, <4>1 DEF Past
      <4>3. SameMerge(l, Append(l, <<25, run>>))
        <5>1. Follows(20, 25)
          BY DEF Follows
        <5>2. run \in Nat \ {0}
          BY <1>1
        <5> QED
          BY <4>2, <5>1, <5>2, PassedNext, Zenon
      <4>4. model' = {Append(l, <<25, run>>)}
        BY <1>1, <3>1, <4>1 DEF Applied
      <4> QED
        BY <1>1, <4>1, <4>3, <4>4 DEF Related, MergedBy, SameMerge
    <3> QED
      BY <3>1
  <2>4. Merged'
    BY <1>1, <2>1, <2>3 DEF Merged, Merging, Remergeable, WholeDir, Related
  <2>5. Factored'
    BY <1>1, <2>1 DEF Factored, SaveSteps
  <2> QED
    BY <2>2, <2>4, <2>5
<1> QED
  BY <1>4, <1>5, <1>6, <1>7 DEF IInv

LEMMA SnapshotKeeps ==
    ASSUME IInv, SnapshotOriginals
    PROVE  IInv'
<1>1. /\ pc = "work" /\ cmd' = cmd /\ run' = run /\ todo' = todo /\ Now' = Now /\ Now = 30
      /\ reached' = reached /\ raised' = raised /\ rewinds' = rewinds /\ reached = Now
      /\ dirs' = dirs /\ spills' = spills /\ planned' = planned /\ size' = size
      /\ blacklist' = blacklist /\ budgets' = budgets /\ decomposition' = decomposition
      /\ cov' = cov /\ decomp' = decomp /\ mended' = mended
      /\ pc' = "factor" /\ at' = 0 /\ model' = model /\ orig' = model
  BY DEF IInv, Stepping, SnapshotOriginals, Running, operator, At, Now, GoTo
<1>2. Stepping'
  BY <1>1 DEF IInv, Stepping, SaveSteps, ClearSteps
<1>3. Lineages'
  BY <1>1 DEF IInv, Lineages, Ready, SaveSteps, ClearSteps
<1>4. Directories'
  BY <1>1 DEF IInv, Directories, SaveSteps
<1>5. OneHistory'
  <2> SUFFICES ASSUME rewinds = 0 PROVE Budgeted' /\ Merged' /\ Factored'
    BY <1>1 DEF OneHistory
  <2>1. Budgeted /\ Merged /\ Factored
    BY DEF IInv, OneHistory
  <2>2. Budgeted'
    BY <1>1, <2>1 DEF Budgeted
  <2>3. Merged'
    BY <1>1, <2>1 DEF Merged, Merging, Remergeable, WholeDir, Related
  <2>4. Factored'
    BY <1>1, <2>1 DEF Factored, SaveSteps, Related
  <2> QED
    BY <2>2, <2>3, <2>4
<1> QED
  BY <1>2, <1>3, <1>4, <1>5 DEF IInv

LEMMA FactorKeeps ==
    ASSUME IInv, Factor
    PROVE  IInv'
<1>1. /\ pc = "factor" /\ cmd' = cmd /\ run' = run /\ todo' = todo /\ Now' = Now /\ Now = 30
      /\ reached' = reached /\ raised' = raised /\ rewinds' = rewinds /\ reached = Now
      /\ dirs' = dirs /\ spills' = spills /\ planned' = planned /\ size' = size
      /\ blacklist' = blacklist /\ budgets' = budgets /\ decomposition' = decomposition
      /\ cov' = cov /\ decomp' = decomp /\ mended' = mended /\ orig' = orig
      /\ pc' = "mkdir" /\ at' = 0 /\ model' = Applied(model, 30, run) /\ run \in Nat \ {0}
  BY DEF IInv, Stepping, Factor, Running, operator, Now, GoTo, disk, Apply
<1>2. Past(model, 20) \/ Past(model, 25)
  BY <1>1 DEF IInv, Lineages, Ready
<1>3. Past(model', 30)
  BY <1>1, <1>2, PastNext DEF Follows
<1>4. Stepping'
  BY <1>1 DEF IInv, Stepping, SaveSteps, ClearSteps, Dirs
<1>5. Lineages'
  BY <1>1, <1>3 DEF IInv, Lineages, SaveSteps, ClearSteps, Dirs
<1>6. Directories'
  BY <1>1 DEF IInv, Directories, SaveSteps
<1>7. OneHistory'
  <2> SUFFICES ASSUME rewinds = 0 PROVE Budgeted' /\ Merged' /\ Factored'
    BY <1>1 DEF OneHistory
  <2>1. Budgeted /\ Merged /\ Factored
    BY DEF IInv, OneHistory
  <2>2. Budgeted'
    BY <1>1, <2>1 DEF Budgeted
  <2>3. Merged'
    BY <1>1, <2>1 DEF Merged, Merging, Remergeable, WholeDir, Related
  <2>4. Applicable(model)'
    <3>1. orig = model
      BY <1>1, <2>1 DEF Factored
    <3>2. PICK l : model = {l} /\ l[1] = <<10, decomposition>> /\ l[2] = <<20, cov>>
      BY <1>1, <2>1 DEF Factored, Related, MergedBy
    <3>3. Passed(l, 20) \/ Passed(l, 25)
      BY <1>2, <3>2 DEF Past
    <3>4. SameMerge(l, Append(l, <<30, run>>))
      <4>1. Follows(20, 30) /\ Follows(25, 30)
        BY DEF Follows
      <4>2. run \in Nat \ {0}
        BY <1>1
      <4> QED
        BY <3>3, <4>1, <4>2, PassedNext, Zenon
    <3>5. model' = {Append(l, <<30, run>>)}
      BY <1>1, <3>2 DEF Applied
    <3>6. Related(model)'
      BY <1>1, <3>2, <3>4, <3>5 DEF Related, MergedBy, SameMerge
    <3>7. run \in 1 .. run /\ model' = Applied(orig, 30, run)
      BY <1>1, <3>1
    <3>8. \A k \in 1 .. NumLayers : spills[k] = {}
      BY <1>1, <2>1 DEF Budgeted
    <3> QED
      BY <1>1, <3>5, <3>6, <3>7, <3>8 DEF Applicable
  <2>5. Factored'
    <3>1. size' = planned' /\ reached' # 40
      BY <1>1, <2>1 DEF Factored
    <3> QED
      BY <1>1, <2>4, <3>1 DEF Factored, SaveSteps
  <2> QED
    BY <2>2, <2>3, <2>5
<1> QED
  BY <1>4, <1>5, <1>6, <1>7 DEF IInv

\* The steps of Stage 4, and the evaluation, over directories they leave alone.
LEMMA LoadOriginalsKeeps ==
    ASSUME IInv, LoadOriginals
    PROVE  IInv'
<1>1. /\ pc = "work" /\ cmd' = cmd /\ run' = run /\ todo' = todo /\ Now' = Now /\ Now = 40
      /\ reached' = reached /\ raised' = raised /\ rewinds' = rewinds /\ reached = Now
      /\ dirs' = dirs /\ spills' = spills /\ planned' = planned /\ size' = size
      /\ blacklist' = blacklist /\ budgets' = budgets /\ decomposition' = decomposition
      /\ cov' = cov /\ decomp' = decomp /\ mended' = {} /\ orig' = orig /\ orig # {}
      /\ pc' = "layers" /\ at' = 0 /\ model' = model
  BY DEF IInv, Stepping, LoadOriginals, Running, operator, At, Now, GoTo, disk
<1>2. Stepping'
  BY <1>1 DEF IInv, Stepping, SaveSteps, ClearSteps
<1>3. Lineages'
  BY <1>1 DEF IInv, Lineages, Ready, SaveSteps, ClearSteps, Past
<1>4. Directories'
  BY <1>1, CommandsAssumption DEF IInv, Directories, SaveSteps
<1>5. OneHistory'
  <2> SUFFICES ASSUME rewinds = 0 PROVE Budgeted' /\ Merged' /\ Factored'
    BY <1>1 DEF OneHistory
  <2>1. Budgeted /\ Merged /\ Factored
    BY DEF IInv, OneHistory
  <2>2. Budgeted'
    BY <1>1, <2>1 DEF Budgeted
  <2>3. Merged'
    BY <1>1, <2>1 DEF Merged, Merging, Remergeable, WholeDir
  <2>4. Factored'
    <3>1. /\ dirs[30].done = TRUE /\ Applicable(dirs[30].saved)
          /\ model = dirs[30].saved
      BY <1>1, <2>1 DEF Factored
    <3>2. Applicable(dirs[30].saved)'
      BY <1>1, <3>1 DEF Applicable, Related
    <3> QED
      BY <1>1, <3>1, <3>2 DEF Factored, SaveSteps
  <2> QED
    BY <2>2, <2>3, <2>4
<1> QED
  BY <1>2, <1>3, <1>4, <1>5 DEF IInv

LEMMA CompensateKeeps ==
    ASSUME IInv, Compensate \/ ReuseSpill
    PROVE  IInv'
<1>1. /\ pc = "layers" /\ cmd' = cmd /\ run' = run /\ todo' = todo /\ Now' = Now /\ Now = 40
      /\ reached' = reached /\ raised' = raised /\ rewinds' = rewinds /\ reached = Now
      /\ dirs' = dirs /\ planned' = planned /\ size' = size
      /\ blacklist' = blacklist /\ budgets' = budgets /\ decomposition' = decomposition
      /\ cov' = cov /\ decomp' = decomp /\ orig' = orig
      /\ pc' = "layers" /\ at' = at + 1 /\ model' = model /\ run \in Nat \ {0}
  BY DEF IInv, Stepping, Compensate, ReuseSpill, Running, operator, Now, disk
<1>2. at \in 0 .. NumLayers /\ at < NumLayers /\ NumLayers \in Nat
  BY <1>1, CommandsAssumption DEF IInv, Directories, Compensate, ReuseSpill
<1>3. at + 1 \in 1 .. NumLayers /\ at' \in 0 .. NumLayers
  BY <1>1, <1>2
\* What is added, and what is spilled, are weights of the model compensated.
<1> DEFINE n == Applied(model, 40, run)
<1>4. Past(n, 40)
  <2>1. Past(model, 30)
    BY <1>1 DEF IInv, Lineages, Ready
  <2>2. Follows(30, 40) /\ run \in Nat \ {0}
    BY <1>1 DEF Follows
  <2> QED
    BY <2>1, <2>2, PastNext, Zenon
<1>5. DOMAIN spills = 1 .. NumLayers /\ \A k \in 1 .. NumLayers : Past(spills[k], 40)
  BY DEF IInv, Lineages
<1>6. \/ mended' = mended \cup n /\ spills' = spills
      \/ mended' = mended \cup n /\ spills' = [spills EXCEPT ![at + 1] = n]
      \/ mended' = mended \cup spills[at + 1] /\ spills' = spills
  BY DEF Compensate, ReuseSpill, Apply, disk
<1> HIDE DEF n
<1>7. /\ DOMAIN spills' = 1 .. NumLayers
      /\ \A k \in 1 .. NumLayers : spills'[k] = spills[k] \/ spills'[k] = n
  BY <1>3, <1>5, <1>6
<1>8. Past(mended', 40)
  <2>1. Past(mended, 40) /\ Past(spills[at + 1], 40)
    BY <1>3, <1>5 DEF IInv, Lineages
  <2> QED
    BY <1>4, <1>6, <2>1 DEF Past
<1>9. Stepping'
  BY <1>1 DEF IInv, Stepping, SaveSteps, ClearSteps
<1>10. Lineages'
  BY <1>1, <1>4, <1>5, <1>7, <1>8 DEF IInv, Lineages, Ready, SaveSteps, ClearSteps
<1>11. Directories'
  BY <1>1, <1>3 DEF IInv, Directories, SaveSteps
<1>12. OneHistory'
  <2> SUFFICES ASSUME rewinds = 0 PROVE Budgeted' /\ Merged' /\ Factored'
    BY <1>1 DEF OneHistory
  <2>1. Budgeted /\ Merged /\ Factored
    BY DEF IInv, OneHistory
  <2>2. Budgeted'
    BY <1>1, <2>1 DEF Budgeted
  <2>3. Merged'
    BY <1>1, <2>1 DEF Merged, Merging, Remergeable, WholeDir
  <2>4. Factored'
    <3>1. /\ dirs[30].done = TRUE /\ Applicable(dirs[30].saved)
          /\ model = dirs[30].saved /\ orig # {}
      BY <1>1, <2>1 DEF Factored
    <3>2. run \in 1 .. run /\ n = Applied(model, 40, run)
      BY <1>1 DEF n
    <3>3. Applicable(dirs[30].saved)'
      <4>1. /\ \E l : model = {l}
            /\ orig # {} => Related(model) /\ \E r \in 1 .. run : model = Applied(orig, 30, r)
        BY <3>1 DEF Applicable
      <4>2. \A k \in 1 .. NumLayers :
               spills[k] # {} => \E r \in 1 .. run : spills[k] = Applied(model, 40, r)
        BY <3>1 DEF Applicable
      <4>3. \A k \in 1 .. NumLayers :
               spills'[k] # {} => \E r \in 1 .. run : spills'[k] = Applied(model, 40, r)
        BY <1>7, <3>2, <4>2
      <4>4. Related(model) => Related(model)'
        BY <1>1 DEF Related
      <4> QED
        BY <1>1, <3>1, <4>1, <4>3, <4>4 DEF Applicable
    <3> QED
      BY <1>1, <3>1, <3>3 DEF Factored, SaveSteps
  <2> QED
    BY <2>2, <2>3, <2>4
<1> QED
  BY <1>9, <1>10, <1>11, <1>12 DEF IInv

LEMMA CompensatedKeeps ==
    ASSUME IInv, Compensated \/ Evaluate
    PROVE  IInv'
<1>1. /\ pc # "idle" /\ cmd' = cmd /\ run' = run /\ todo' = todo /\ Now' = Now
      /\ reached' = reached /\ raised' = raised /\ rewinds' = rewinds /\ reached = Now
      /\ dirs' = dirs /\ spills' = spills /\ planned' = planned /\ size' = size
      /\ blacklist' = blacklist /\ budgets' = budgets /\ decomposition' = decomposition
      /\ cov' = cov /\ decomp' = decomp /\ mended' = mended /\ orig' = orig /\ at' = 0
      /\ \/ pc = "layers" /\ Now = 40 /\ pc' = "mkdir" /\ model' = mended
         \/ pc = "work" /\ Now = 60 /\ pc' = "finish" /\ model' = model
  BY DEF IInv, Stepping, Compensated, Evaluate, Running, operator, At, Now, GoTo, disk
<1>2. Stepping'
  BY <1>1 DEF IInv, Stepping, SaveSteps, ClearSteps, Dirs
<1>3. Lineages'
  BY <1>1 DEF IInv, Lineages, Ready, SaveSteps, ClearSteps, Dirs
<1>4. Directories'
  BY <1>1 DEF IInv, Directories, SaveSteps
<1>5. OneHistory'
  <2> SUFFICES ASSUME rewinds = 0 PROVE Budgeted' /\ Merged' /\ Factored'
    BY <1>1 DEF OneHistory
  <2>1. Budgeted /\ Merged /\ Factored
    BY DEF IInv, OneHistory
  <2>2. Budgeted'
    BY <1>1, <2>1 DEF Budgeted
  <2>3. Merged'
    BY <1>1, <2>1 DEF Merged, Merging, Remergeable, WholeDir
  <2>4. Factored'
    <3>1. reached = 40 => dirs[30].done = TRUE /\ Applicable(dirs[30].saved)
      BY <2>1 DEF Factored
    <3>2. Applicable(dirs[30].saved) => Applicable(dirs[30].saved)'
      BY <1>1 DEF Applicable, Related
    <3> QED
      BY <1>1, <3>1, <3>2 DEF Factored, SaveSteps
  <2> QED
    BY <2>2, <2>3, <2>4
<1> QED
  BY <1>2, <1>3, <1>4, <1>5 DEF IInv

\* A step of a save: one directory changes, and the rest of the memory and of
\* the disk stays.
LEMMA SavingFrame ==
    ASSUME IInv, NEW d, Saving(d), pc \in SaveSteps
    PROVE  /\ pc # "idle" /\ cmd' = cmd /\ run' = run /\ todo' = todo /\ Now' = Now /\ Now \in Dirs
           /\ reached' = reached /\ raised' = raised /\ rewinds' = rewinds /\ reached = Now
           /\ raised # TRUE /\ spills' = spills /\ planned' = planned /\ size' = size
           /\ blacklist' = blacklist /\ budgets' = budgets /\ decomposition' = decomposition
           /\ cov' = cov /\ decomp' = decomp /\ mended' = mended /\ orig' = orig /\ model' = model
           /\ DOMAIN dirs' = Dirs /\ dirs'[Now] = d
           /\ \A s \in Dirs : s # Now => dirs'[s] = dirs[s]
           /\ size \in 1 .. MaxShards /\ Past(model, Now)
           /\ DOMAIN Dir = Marks
           /\ Now = 20 => dirs[20] = Dir
           /\ Now = 25 => dirs[25] = Dir
<1>1. /\ pc # "idle" /\ Now \in Dirs /\ reached = Now /\ raised # TRUE
      /\ size \in 1 .. MaxShards
  BY DEF IInv, Stepping, SaveSteps, Dirs
<1>2. DOMAIN dirs = Dirs /\ Past(model, Now)
  BY DEF IInv, Directories, Lineages
<1>3. DOMAIN Dir = Marks
  BY <1>1 DEF Dir, IInv, Directories
<1> QED
  BY <1>1, <1>2, <1>3 DEF Saving, Running, operator, Now, Dir

\* The marks and the files a directory has after such a step, by the step that
\* comes next.
Shelved(d) ==
    /\ DOMAIN d = Marks
    /\ d.made = TRUE /\ d.saved = model /\ d.config \in BOOLEAN /\ d.meta \in 0 .. MaxShards
    /\ DOMAIN d.shards \subseteq ShardFiles /\ Entire(d)
    /\ \A f \in DOMAIN d.shards : Past(d.shards[f], Now)
    /\ DOMAIN d.shards \subseteq DOMAIN Dir.shards \cup FilesOf(size)
    /\ d.config = Dir.config \/ pc' = "tokenizer"
    /\ \/ pc' \in {"metadata", "shards"} /\ pc # "tokenizer" /\ d.done = FALSE
       \/ pc' = "tokenizer" /\ d.done = FALSE /\ Filled(d, size, size, model)
       \/ /\ pc = "tokenizer" /\ pc' = IF Now = 40 THEN "ranks" ELSE "finish"
          /\ d.done = TRUE /\ d.meta = size /\ Filled(d, size, size, model)
    /\ pc' \in {"shards", "tokenizer"} => d.meta = size
    /\ pc' = "shards" =>
          /\ at' \in 0 .. 2 * size /\ Filled(d, size, at' \div 2, model)
          /\ at' # 0 => size \in d.partial

LEMMA SavingKeeps ==
    ASSUME IInv, NEW d, Saving(d), pc \in SaveSteps, Shelved(d)
    PROVE  IInv'
<1>1. /\ pc # "idle" /\ cmd' = cmd /\ run' = run /\ todo' = todo /\ Now' = Now /\ Now \in Dirs
      /\ reached' = reached /\ raised' = raised /\ rewinds' = rewinds /\ reached = Now
      /\ raised # TRUE /\ spills' = spills /\ planned' = planned /\ size' = size
      /\ blacklist' = blacklist /\ budgets' = budgets /\ decomposition' = decomposition
      /\ cov' = cov /\ decomp' = decomp /\ mended' = mended /\ orig' = orig /\ model' = model
      /\ DOMAIN dirs' = Dirs /\ dirs'[Now] = d
      /\ \A s \in Dirs : s # Now => dirs'[s] = dirs[s]
      /\ size \in 1 .. MaxShards /\ Past(model, Now)
      /\ Now = 20 => dirs[20] = Dir
      /\ Now = 25 => dirs[25] = Dir
  BY SavingFrame
<1>2. \/ pc' \in {"metadata", "shards"} /\ pc \in Merging
      \/ pc' = "tokenizer"
      \/ pc = "tokenizer" /\ pc' = IF Now = 40 THEN "ranks" ELSE "finish"
  BY DEF SaveSteps, Merging, Shelved
<1>3. Stepping'
  BY <1>1, <1>2 DEF IInv, Stepping, SaveSteps, ClearSteps, Dirs
<1>4. Lineages'
  BY <1>1, <1>2 DEF IInv, Lineages, SaveSteps, ClearSteps, Dirs, Shelved
<1>5. Directories'
  <2>1. ASSUME NEW s \in Dirs
        PROVE  /\ DOMAIN dirs'[s] = Marks
               /\ {dirs'[s].made, dirs'[s].config, dirs'[s].done} \subseteq BOOLEAN
               /\ dirs'[s].meta \in 0 .. MaxShards
               /\ dirs'[s].made = FALSE =>
                     /\ dirs'[s].config = FALSE /\ dirs'[s].done = FALSE
                     /\ DOMAIN dirs'[s].shards = {}
               /\ DOMAIN dirs'[s].shards \subseteq ShardFiles /\ Entire(dirs'[s])
               /\ dirs'[s].done = TRUE =>
                     /\ dirs'[s].meta # 0
                     /\ Filled(dirs'[s], dirs'[s].meta, dirs'[s].meta, dirs'[s].saved)
    <3>1. CASE s = Now
      <4>1. /\ d.done \in BOOLEAN
            /\ d.done = TRUE => d.meta = size /\ Filled(d, size, size, model)
        BY DEF Shelved
      <4>2. size # 0 /\ dirs'[s] = d
        BY <1>1, <3>1
      <4> QED
        BY <4>1, <4>2 DEF Shelved
    <3>2. CASE s # Now
      BY <1>1, <3>2 DEF IInv, Directories
    <3> QED
      BY <3>1, <3>2
  <2>2. pc' = "finish" /\ Now = 30 => d.done = TRUE
    BY <1>2 DEF Shelved
  <2> QED
    BY <1>1, <1>2, <2>1, <2>2 DEF Directories, SaveSteps, Shelved
<1>6. OneHistory'
  <2> SUFFICES ASSUME rewinds = 0 PROVE Budgeted' /\ Merged' /\ Factored'
    BY <1>1 DEF OneHistory
  <2>1. Budgeted /\ Merged /\ Factored
    BY DEF IInv, OneHistory
  <2>2. /\ 20 \in Dirs /\ 25 \in Dirs /\ 30 \in Dirs /\ dirs[20].config \in BOOLEAN
        /\ dirs[25].config \in BOOLEAN
    BY DEF IInv, Directories, Dirs
  <2>3. Budgeted'
    BY <1>1, <2>1 DEF Budgeted, Dirs
  \* The merge is being redone over a directory that nothing starts from.
  <2>4. CASE Now = 20
    <3>1. /\ dirs'[20] = d /\ dirs'[25] = dirs[25] /\ dirs[20] = Dir
          /\ dirs[25].config = FALSE /\ size = planned /\ Related(model)
          /\ pc \in Merging => Remergeable
          /\ \A s \in {20, 25, 30} : DOMAIN dirs[s].shards \subseteq FilesOf(planned)
          /\ dirs[20].config = TRUE /\ dirs[25].made = FALSE => WholeDir(20)
          /\ dirs'[30] = dirs[30]
      BY <1>1, <2>1, <2>2, <2>4 DEF Merged, SaveSteps
    <3>2. \A s \in {20, 25, 30} : DOMAIN dirs'[s].shards \subseteq FilesOf(planned)
      BY <3>1 DEF Shelved
    <3>3. d.config = TRUE /\ dirs[25].made = FALSE => WholeDir(20)'
      <4>1. CASE pc' = "tokenizer" \/ pc = "tokenizer"
        <5>1. d.meta = size /\ Filled(d, size, size, model)
          BY <4>1 DEF Shelved
        <5>2. DOMAIN d.shards = FilesOf(planned)
          BY <3>1, <5>1, <1>1 DEF Shelved, Filled, FilesOf, ShardFiles, MaxShards
        <5> QED
          BY <1>1, <3>1, <5>1, <5>2 DEF WholeDir, Related, Holds
      <4>2. CASE pc' # "tokenizer" /\ pc \in Merging
        BY <3>1, <4>2 DEF Remergeable, Shelved
      <4> QED
        BY <1>2, <4>1, <4>2
    <3>4. pc' \in Merging => Remergeable'
      <4>1. pc' \in Merging => pc \in Merging /\ d.config = Dir.config
        BY <1>2 DEF Merging, Shelved
      <4> QED
        BY <3>1, <4>1 DEF Remergeable
    <3>5. Related(model)'
      BY <1>1, <3>1 DEF Related
    <3> QED
      <4>1. /\ Now' = 20 /\ reached' = 20 /\ raised' # TRUE /\ planned' = planned
            /\ size' = planned /\ dirs'[25].config = FALSE /\ dirs'[20].config = d.config
            /\ dirs'[25].made = dirs[25].made /\ pc' \notin {"factor", "layers", "covariance"}
        BY <1>1, <1>2, <2>4, <3>1
      <4>2. Merged'
        BY <4>1, <3>2, <3>3, <3>4, <3>5 DEF Merged
      <4>3. Factored'
        BY <4>1 DEF Factored
      <4> QED
        BY <2>3, <4>2, <4>3
  <2>5. CASE Now = 25
    <3>1. /\ dirs'[25] = d /\ dirs'[20] = dirs[20] /\ dirs[25] = Dir
          /\ size = planned /\ Related(model) /\ d.made = TRUE
          /\ pc \in Merging => Dir.config = FALSE
          /\ dirs'[30] = dirs[30]
          /\ \A s \in {20, 25, 30} : DOMAIN dirs[s].shards \subseteq FilesOf(planned)
      BY <1>1, <2>1, <2>2, <2>5 DEF Merged, SaveSteps, Shelved
    <3>2. \A s \in {20, 25, 30} : DOMAIN dirs'[s].shards \subseteq FilesOf(planned)
      BY <3>1 DEF Shelved
    <3>3. d.config = TRUE => WholeDir(25)'
      <4>1. CASE pc' = "tokenizer" \/ pc = "tokenizer"
        <5>1. d.meta = size /\ Filled(d, size, size, model)
          BY <4>1 DEF Shelved
        <5>2. DOMAIN d.shards = FilesOf(planned)
          BY <3>1, <5>1, <1>1 DEF Shelved, Filled, FilesOf, ShardFiles, MaxShards
        <5> QED
          BY <1>1, <3>1, <5>1, <5>2 DEF WholeDir, Related, Holds
      <4>2. CASE pc' # "tokenizer" /\ pc \in Merging
        BY <3>1, <4>2 DEF Shelved
      <4> QED
        BY <1>2, <4>1, <4>2
    <3>4. pc' \in Merging => d.config = FALSE
      <4>1. pc' \in Merging => pc \in Merging /\ d.config = Dir.config
        BY <1>2 DEF Merging, Shelved
      <4> QED
        BY <3>1, <4>1
    <3>5. Related(model)'
      BY <1>1, <3>1 DEF Related
    <3> QED
      <4>1. /\ Now' = 25 /\ reached' = 25 /\ raised' # TRUE /\ planned' = planned
            /\ size' = planned /\ dirs'[25].config = d.config /\ dirs'[25].made = TRUE
            /\ pc' \notin {"factor", "layers", "covariance"}
        BY <1>1, <1>2, <2>5, <3>1
      <4>2. Now # 20 /\ Now' # 20
        BY <1>1, <2>5
      <4>3. Merged'
        BY <4>1, <4>2, <3>2, <3>3, <3>4, <3>5 DEF Merged
      <4>4. Factored'
        BY <4>1 DEF Factored
      <4> QED
        BY <2>3, <4>3, <4>4
  <2>6. CASE Now \in {30, 40, 50}
    <3>1. /\ dirs'[25] = dirs[25] /\ dirs'[20] = dirs[20] /\ Now' = Now /\ reached' = Now
          /\ raised' # TRUE /\ reached = Now /\ planned' = planned /\ cov' = cov
          /\ decomposition' = decomposition /\ orig' = orig /\ spills' = spills
          /\ model' = model /\ run' = run
      <4>1. 20 # Now /\ 25 # Now
        BY <2>6
      <4> QED
        BY <1>1, <2>2, <4>1
    <3>7. Now = 30 => size = planned /\ size' = planned'
      BY <1>1, <2>1 DEF Factored
    <3>4. \A s \in {20, 25, 30} : DOMAIN dirs'[s].shards \subseteq FilesOf(planned)
      <4>1. \A s \in {20, 25, 30} : DOMAIN dirs[s].shards \subseteq FilesOf(planned)
        BY <2>1, <2>6, <3>1 DEF Merged
      <4>2. CASE Now = 30
        <5>1. dirs'[30] = d /\ Dir = dirs[30]
          BY <1>1, <4>2 DEF Dir
        <5>2. DOMAIN d.shards \subseteq FilesOf(planned)
          BY <3>7, <4>1, <4>2, <5>1 DEF Shelved
        <5> QED
          BY <3>1, <4>1, <5>1, <5>2
      <4>3. CASE Now # 30
        <5>1. dirs'[30] = dirs[30]
          BY <1>1, <2>2, <4>3
        <5> QED
          BY <3>1, <4>1, <5>1
      <4> QED
        BY <4>2, <4>3
    <3>2. Merged'
      BY <2>1, <2>6, <3>1, <3>4 DEF Merged, WholeDir
    <3>3. Factored'
      <4>1. /\ Now = 30 => Applicable(model)
            /\ Now = 40 => dirs[30].done = TRUE /\ Applicable(dirs[30].saved)
        BY <2>1, <3>1 DEF Factored
      <4>2. Applicable(model) => Applicable(model)'
        BY <3>1 DEF Applicable, Related
      <4>3. Now = 40 => dirs'[30] = dirs[30]
        BY <1>1, <2>2
      <4>4. Applicable(dirs[30].saved) /\ dirs'[30] = dirs[30] => Applicable(dirs[30].saved)'
        BY <3>1 DEF Applicable, Related
      <4>5. pc' \notin {"work", "factor", "layers", "covariance"}
        BY <1>2
      <4>6. pc' = "finish" => Now # 40
        BY <1>2
      <4> QED
        BY <2>6, <3>1, <3>7, <4>1, <4>2, <4>3, <4>4, <4>5, <4>6 DEF Factored
    <3> QED
      BY <2>3, <3>2, <3>3
  <2> QED
    BY <1>1, <2>4, <2>5, <2>6 DEF Dirs
<1> QED
  BY <1>3, <1>4, <1>5, <1>6 DEF IInv

\* The directory that is being saved, before a step.
LEMMA DirIs ==
    ASSUME IInv, pc \in SaveSteps
    PROVE  /\ DOMAIN Dir = Marks
           /\ Dir.config \in BOOLEAN /\ Dir.meta \in 0 .. MaxShards
           /\ DOMAIN Dir.shards \subseteq ShardFiles /\ Entire(Dir)
           /\ \A f \in DOMAIN Dir.shards : Past(Dir.shards[f], Now)
           /\ pc # "mkdir" => Dir.made = TRUE /\ Dir.saved = model /\ Dir.done = FALSE
           /\ pc \in {"shards", "tokenizer"} => Dir.meta = size
           /\ pc = "shards" => at \in 0 .. 2 * size /\ Filled(Dir, size, at \div 2, model)
           /\ pc = "shards" /\ at # 0 => size \in Dir.partial
           /\ pc = "tokenizer" => Filled(Dir, size, size, model)
           /\ size \in 1 .. MaxShards /\ Past(model, Now) /\ Now \in Dirs
<1>1. Now \in Dirs /\ size \in 1 .. MaxShards
  BY DEF IInv, Stepping, SaveSteps, Dirs
<1>2. Past(model, Now) /\ \A f \in DOMAIN Dir.shards : Past(Dir.shards[f], Now)
  BY <1>1 DEF IInv, Lineages, Dir
<1> QED
  BY <1>1, <1>2 DEF IInv, Directories, Dir, SaveSteps

LEMMA MakeDirKeeps == ASSUME IInv, MakeDir PROVE IInv'
<1> DEFINE d == [Dir EXCEPT !.made = TRUE, !.saved = model, !.done = FALSE]
<1>1. Saving(d) /\ pc = "mkdir" /\ pc \in SaveSteps /\ pc' = "metadata"
  BY DEF MakeDir, SaveSteps, GoTo
<1>2. DOMAIN Dir = Marks
  BY <1>1, DirIs
<1>3. /\ DOMAIN d = Marks
      /\ d.made = TRUE /\ d.saved = model /\ d.done = FALSE
      /\ d.meta = Dir.meta /\ d.shards = Dir.shards /\ d.config = Dir.config
      /\ d.partial = Dir.partial
  BY <1>2 DEF Marks
<1> HIDE DEF d
<1>4. Shelved(d)
  BY <1>1, <1>3, DirIs DEF Shelved, Entire
<1> QED
  BY <1>1, <1>4, SavingKeeps

LEMMA WriteMetadataKeeps == ASSUME IInv, WriteMetadata PROVE IInv'
<1> DEFINE d == [Dir EXCEPT !.meta = size]
<1>1. Saving(d) /\ pc = "metadata" /\ pc \in SaveSteps /\ pc' = "shards" /\ at' = 0
  BY DEF WriteMetadata, SaveSteps, GoTo
<1>2. DOMAIN Dir = Marks
  BY <1>1, DirIs
<1>3. /\ DOMAIN d = Marks
      /\ d.made = Dir.made /\ d.saved = Dir.saved /\ d.done = Dir.done
      /\ d.meta = size /\ d.shards = Dir.shards /\ d.config = Dir.config
      /\ d.partial = Dir.partial
  BY <1>2 DEF Marks
<1> HIDE DEF d
<1>4. size \in 1 .. MaxShards /\ size \in 0 .. MaxShards /\ 0 \in 0 .. 2 * size /\ 0 \div 2 = 0
  BY <1>1, DirIs DEF MaxShards
<1>5. Filled(d, size, 0, model)
  BY DEF Filled
<1>6. Shelved(d)
  BY <1>1, <1>3, <1>4, <1>5, DirIs DEF Shelved, Entire
<1> QED
  BY <1>1, <1>6, SavingKeeps

\* A shard is opened in the even steps and filled in the odd ones.
LEMMA ShardKeeps == ASSUME IInv, OpenShard \/ FillShard PROVE IInv'
<1> DEFINE m == IF at % 2 = 0 THEN {} ELSE model
           d == IF at % 2 = 0 THEN [WithShard(m) EXCEPT !.partial = Dir.partial \cup {size}]
                ELSE WithShard(m)
<1>1. pc = "shards" /\ pc \in SaveSteps /\ pc' = "shards" /\ at' = at + 1 /\ at < 2 * size
  BY DEF OpenShard, FillShard, SaveSteps
<1>2. Saving(d)
  <2>1. CASE OpenShard
    <3>1. /\ at % 2 = 0 /\ WithShard({}).partial = Dir.partial
          /\ Saving([WithShard({}) EXCEPT !.partial = WithShard({}).partial \cup {size}])
      BY <2>1 DEF OpenShard, WithShard
    <3> QED
      BY <3>1
  <2>2. CASE FillShard
    <3>1. at % 2 # 0 /\ Saving(WithShard(model))
      BY <2>2 DEF FillShard
    <3> QED
      BY <3>1
  <2> QED
    BY <2>1, <2>2
<1>3. /\ DOMAIN Dir = Marks
      /\ at \in 0 .. 2 * size /\ size \in 1 .. MaxShards /\ Filled(Dir, size, at \div 2, model)
      /\ Dir.meta = size /\ Past(model, Now)
      /\ DOMAIN Dir.shards \subseteq ShardFiles
      /\ \A f \in DOMAIN Dir.shards : Past(Dir.shards[f], Now)
  BY <1>1, DirIs
<1>4. /\ DOMAIN d = Marks
      /\ d.made = Dir.made /\ d.saved = Dir.saved /\ d.done = Dir.done
      /\ d.meta = Dir.meta /\ d.config = Dir.config
      /\ DOMAIN d.shards = DOMAIN Dir.shards \cup {Shard}
      /\ \A f \in DOMAIN d.shards : d.shards[f] = IF f = Shard THEN m ELSE Dir.shards[f]
      /\ d.partial = IF at % 2 = 0 THEN Dir.partial \cup {size} ELSE Dir.partial
  <2> DEFINE w == WithShard(m)
  <2>1. /\ DOMAIN w = Marks /\ w.made = Dir.made /\ w.saved = Dir.saved /\ w.done = Dir.done
        /\ w.meta = Dir.meta /\ w.config = Dir.config /\ w.partial = Dir.partial
        /\ DOMAIN w.shards = DOMAIN Dir.shards \cup {Shard}
        /\ \A f \in DOMAIN w.shards : w.shards[f] = IF f = Shard THEN m ELSE Dir.shards[f]
    BY <1>3 DEF WithShard, Marks
  <2> HIDE DEF w
  <2>2. d = IF at % 2 = 0 THEN [w EXCEPT !.partial = Dir.partial \cup {size}] ELSE w
    BY DEF w
  <2>3. CASE at % 2 = 0
    <3>1. d = [w EXCEPT !.partial = Dir.partial \cup {size}]
      BY <2>2, <2>3
    <3> HIDE DEF d, m
    <3>2. d.shards = w.shards
      BY <2>1, <3>1 DEF Marks
    <3> QED
      BY <2>1, <2>3, <3>1, <3>2 DEF Marks
  <2>4. CASE at % 2 # 0
    <3>1. d = w
      BY <2>2, <2>4
    <3> HIDE DEF d, m
    <3> QED
      BY <2>1, <2>4, <3>1 DEF Marks
  <2> HIDE DEF d, m
  <2> QED
    BY <2>3, <2>4
<1> HIDE DEF d
<1>5. Shard = <<at \div 2 + 1, size>> /\ Shard \in ShardFiles /\ Shard \in FilesOf(size)
  BY <1>1, <1>3 DEF Shard, ShardFiles, FilesOf, MaxShards
<1>6. Filled(d, size, at' \div 2, model)
  <2>1. ASSUME NEW i \in 1 .. at' \div 2
        PROVE  <<i, size>> \in DOMAIN d.shards /\ d.shards[<<i, size>>] = model
    <3>1. CASE i \in 1 .. at \div 2
      <4>1. <<i, size>> # Shard
        BY <1>3, <1>5, <3>1
      <4>2. <<i, size>> \in DOMAIN Dir.shards /\ Dir.shards[<<i, size>>] = model
        BY <1>3, <3>1 DEF Filled
      <4> QED
        BY <1>4, <4>1, <4>2
    <3>2. CASE i \notin 1 .. at \div 2
      <4>1. at % 2 = 1 /\ i = at \div 2 + 1
        BY <1>1, <1>3, <2>1, <3>2 DEF MaxShards
      <4>2. m = model /\ <<i, size>> = Shard
        BY <1>5, <4>1
      <4> QED
        BY <1>4, <4>2
    <3> QED
      BY <3>1, <3>2
  <2> QED
    BY <2>1 DEF Filled
<1>7. \A f \in DOMAIN d.shards : Past(d.shards[f], Now)
  BY <1>3, <1>4 DEF Past
<1>8. at' \in 0 .. 2 * size
  BY <1>1, <1>3 DEF MaxShards
<1> HIDE DEF m
<1>10. size \in d.partial /\ Entire(d)
  <2>1. /\ Entire(Dir) /\ (at # 0 => size \in Dir.partial)
        /\ at % 2 # 0 => at # 0
    BY <1>1, <1>3, DirIs DEF MaxShards
  <2>2. size \in d.partial /\ d.partial \subseteq 1 .. MaxShards /\ Dir.partial \subseteq d.partial
    BY <1>3, <1>4, <2>1 DEF Entire
  <2>3. \A n \in 1 .. MaxShards : n # size => Shard \notin FilesOf(n)
    BY <1>5 DEF FilesOf
  <2>4. ASSUME NEW n \in (1 .. MaxShards) \ d.partial
        PROVE  FilesOf(n) \subseteq DOMAIN d.shards \/ FilesOf(n) \cap DOMAIN d.shards = {}
    <3>1. n # size /\ n \in (1 .. MaxShards) \ Dir.partial
      BY <2>2
    <3>2. FilesOf(n) \subseteq DOMAIN Dir.shards \/ FilesOf(n) \cap DOMAIN Dir.shards = {}
      BY <2>1, <3>1 DEF Entire
    <3> QED
      BY <1>4, <2>3, <3>1, <3>2
  <2> QED
    BY <2>2, <2>4 DEF Entire
<1>9. Shelved(d)
  BY <1>1, <1>4, <1>5, <1>6, <1>7, <1>8, <1>10, DirIs DEF Shelved
<1> QED
  BY <1>1, <1>2, <1>9, SavingKeeps

LEMMA WriteConfigKeeps == ASSUME IInv, WriteConfig PROVE IInv'
<1> DEFINE d == [Dir EXCEPT !.config = TRUE, !.partial = Dir.partial \ {size}]
<1>1. Saving(d) /\ pc = "shards" /\ pc \in SaveSteps /\ pc' = "tokenizer" /\ at = 2 * size
  BY DEF WriteConfig, SaveSteps, GoTo
<1>2. DOMAIN Dir = Marks
  BY <1>1, DirIs
<1>3. /\ DOMAIN d = Marks
      /\ d.made = Dir.made /\ d.saved = Dir.saved /\ d.done = Dir.done
      /\ d.meta = Dir.meta /\ d.shards = Dir.shards /\ d.config = TRUE
      /\ d.partial = Dir.partial \ {size}
  BY <1>2 DEF Marks
<1> HIDE DEF d
<1>4. Filled(d, size, size, model)
  <2>1. size \in 1 .. MaxShards /\ Filled(Dir, size, at \div 2, model)
    BY <1>1, DirIs
  <2>2. at \div 2 = size
    BY <1>1, <2>1 DEF MaxShards
  <2> QED
    BY <1>3, <2>1, <2>2 DEF Filled
<1>5. Entire(d)
  <2>1. Entire(Dir) /\ size \in 1 .. MaxShards
    BY <1>1, DirIs
  <2>2. FilesOf(size) \subseteq DOMAIN d.shards
    BY <1>4, <2>1 DEF Filled, FilesOf, ShardFiles, MaxShards
  <2>3. ASSUME NEW n \in (1 .. MaxShards) \ d.partial
        PROVE  FilesOf(n) \subseteq DOMAIN d.shards \/ FilesOf(n) \cap DOMAIN d.shards = {}
    BY <1>3, <2>1, <2>2 DEF Entire
  <2> QED
    BY <1>3, <2>1, <2>3 DEF Entire
<1>6. Shelved(d)
  BY <1>1, <1>3, <1>4, <1>5, DirIs DEF Shelved
<1> QED
  BY <1>1, <1>6, SavingKeeps

LEMMA WriteTokenizerKeeps == ASSUME IInv, WriteTokenizer PROVE IInv'
<1> DEFINE d == [Dir EXCEPT !.tok = tok, !.done = TRUE]
<1>1. /\ Saving(d) /\ pc = "tokenizer" /\ pc \in SaveSteps
      /\ pc' = IF Now = 40 THEN "ranks" ELSE "finish"
  BY DEF WriteTokenizer, SaveSteps, GoTo
<1>2. DOMAIN Dir = Marks
  BY <1>1, DirIs
<1>3. /\ DOMAIN d = Marks
      /\ d.made = Dir.made /\ d.saved = Dir.saved /\ d.done = TRUE
      /\ d.meta = Dir.meta /\ d.shards = Dir.shards /\ d.config = Dir.config
      /\ d.partial = Dir.partial
  BY <1>2 DEF Marks
<1> HIDE DEF d
<1>4. Filled(d, size, size, model)
  BY <1>1, <1>3, DirIs DEF Filled
<1>5. Shelved(d)
  BY <1>1, <1>3, <1>4, DirIs DEF Shelved, Entire
<1> QED
  BY <1>1, <1>5, SavingKeeps

\* Stage 4 clears what only it reads, the originals before the covariance.
LEMMA ClearKeeps ==
    ASSUME IInv, \/ WriteRanks \/ SpillsRemoved \/ RemoveOriginals \/ RemoveCovariance
                 \/ \E k \in 1 .. NumLayers : RemoveSpill(k)
    PROVE  IInv'
<1>1. /\ pc \in ClearSteps /\ cmd' = cmd /\ run' = run /\ todo' = todo /\ Now' = Now /\ Now = 40
      /\ reached' = reached /\ raised' = raised /\ rewinds' = rewinds /\ reached = Now
      /\ dirs' = dirs /\ planned' = planned /\ size' = size
      /\ blacklist' = blacklist /\ budgets' = budgets /\ decomposition' = decomposition
      /\ decomp' = decomp /\ mended' = mended /\ model' = model
  BY DEF IInv, Stepping, WriteRanks, SpillsRemoved, RemoveOriginals, RemoveCovariance, RemoveSpill,
         Running, operator, Now, disk, ClearSteps
<1>2. /\ \/ pc' \in {"unspill", "originals"} /\ orig' = orig /\ cov' = cov
         \/ pc' = "covariance" /\ orig' = {} /\ cov' = cov
         \/ pc = "covariance" /\ pc' = "finish" /\ orig' = orig /\ cov' = 0
      /\ \/ spills' = spills
         \/ \E k \in 1 .. NumLayers : spills' = [spills EXCEPT ![k] = {}]
  BY DEF WriteRanks, SpillsRemoved, RemoveOriginals, RemoveCovariance, RemoveSpill, GoTo, disk
<1>3. DOMAIN spills = 1 .. NumLayers /\ \A k \in 1 .. NumLayers : Past(spills[k], 40)
  BY DEF IInv, Lineages
<1>4. /\ DOMAIN spills' = 1 .. NumLayers
      /\ \A k \in 1 .. NumLayers : spills'[k] = spills[k] \/ spills'[k] = {}
  BY <1>2, <1>3
<1>5. pc' \in ClearSteps \/ pc' = "finish"
  BY <1>2 DEF ClearSteps
<1>6. Stepping'
  BY <1>1, <1>2, <1>5 DEF IInv, Stepping, SaveSteps, ClearSteps
<1>7. Lineages'
  <2>1. \A k \in 1 .. NumLayers : Past(spills'[k], 40)
    BY <1>3, <1>4 DEF Past
  <2>2. Past(model, 40) /\ Past(mended, 40)
    BY <1>1 DEF IInv, Lineages
  <2>3. \A s \in Dirs : \A f \in DOMAIN dirs[s].shards : Past(dirs[s].shards[f], s)
    BY DEF IInv, Lineages
  <2> QED
    BY <1>1, <1>4, <1>5, <2>1, <2>2, <2>3 DEF Lineages, ClearSteps
<1>8. Directories'
  BY <1>1, <1>5 DEF IInv, Directories, SaveSteps, ClearSteps
<1>9. OneHistory'
  <2> SUFFICES ASSUME rewinds = 0 PROVE Budgeted' /\ Merged' /\ Factored'
    BY <1>1 DEF OneHistory
  <2>1. Budgeted /\ Merged /\ Factored
    BY DEF IInv, OneHistory
  <2>2. Budgeted'
    BY <1>1, <2>1 DEF Budgeted
  <2>3. Merged'
    BY <1>1, <2>1 DEF Merged
  <2>4. Factored'
    <3>1. dirs[30].done = TRUE /\ Applicable(dirs[30].saved)
      BY <1>1, <2>1 DEF Factored
    <3>2. pc = "covariance" => orig = {}
      BY <2>1 DEF Factored
    <3>3. orig' # {} => orig' = orig /\ cov' = cov
      BY <1>2, <3>2
    <3>4. Applicable(dirs[30].saved)'
      <4> DEFINE m == dirs[30].saved
      <4>1. dirs'[30].saved = m
        BY <1>1
      <4> HIDE DEF m
      <4>2. /\ \E l : m = {l}
            /\ orig # {} => Related(m) /\ \E r \in 1 .. run : m = Applied(orig, 30, r)
            /\ \A k \in 1 .. NumLayers :
                  spills[k] # {} => \E r \in 1 .. run : spills[k] = Applied(m, 40, r)
        BY <3>1 DEF Applicable, m
      <4>3. orig' # {} => MergedBy(m, decomposition', cov') /\ \E r \in 1 .. run : m = Applied(orig', 30, r)
        BY <1>1, <3>3, <4>2 DEF Related
      <4>4. \A k \in 1 .. NumLayers :
               spills'[k] # {} => \E r \in 1 .. run : spills'[k] = Applied(m, 40, r)
        BY <1>4, <4>2
      <4> QED
        BY <1>1, <4>1, <4>2, <4>3, <4>4 DEF Applicable, Related
    <3>5. pc' = "covariance" \/ pc' = "finish" => orig' = {}
      BY <1>2, <3>2
    <3> QED
      BY <1>1, <1>5, <3>1, <3>4, <3>5 DEF Factored, ClearSteps, SaveSteps
  <2> QED
    BY <2>2, <2>3, <2>4
<1> QED
  BY <1>6, <1>7, <1>8, <1>9 DEF IInv

\* The stage the operator has to resume after one is finished.
Succeeds(s, t) ==
    \/ s = 10 /\ t = 20
    \/ s = 20 /\ t \in {25, 60}
    \/ s = 25 /\ t = 30
    \/ s = 30 /\ t = 40
    \/ s = 40 /\ t = 50
    \/ s = 50 /\ t = 60
    \/ s = 60 /\ t = 70

LEMMA AfterIs == ASSUME NEW s \in Stages PROVE Succeeds(s, After(s))
<1> DEFINE S == {t \in Stages \cup {70} : t > s}
<1>1. S \subseteq Stages \cup {70} /\ 70 \in S
  BY DEF Stages
<1>2. Min(S) \in S /\ \A t \in S : Min(S) <= t
  BY <1>1, LeastStage
<1> DEFINE a == Min(S)
<1>3. a = After(s)
  BY DEF After
<1>4. /\ a \in Stages \cup {70} /\ a > s
      /\ \A t \in Stages \cup {70} : t > s => a <= t
  BY <1>2
<1> HIDE DEF a
<1> QED
  BY <1>3, <1>4 DEF Stages, Succeeds

\* What is on disk after a finished stage is what the next one may start from.
LEMMA HandsOver ==
    ASSUME IInv, pc = "finish", UNCHANGED <<disk, run, rewinds, raised>>,
           Succeeds(Now, reached'),
           \/ pc' = "idle"
           \/ pc' = "work" /\ Now' = reached' /\ model' = model /\ size' = size
    PROVE  OneHistory'
<1>1. /\ dirs' = dirs /\ cov' = cov /\ orig' = orig /\ spills' = spills /\ planned' = planned
      /\ blacklist' = blacklist /\ budgets' = budgets /\ decomposition' = decomposition
      /\ run' = run /\ rewinds' = rewinds /\ raised' = raised
  BY DEF disk
<1>2. /\ raised # TRUE /\ reached = Now /\ run # 0
      /\ pc = "finish" /\ Now = 10 => blacklist = run /\ budgets = run /\ decomposition = run
      /\ \/ pc' = "idle"
         \/ pc' = "work" /\ Now' = reached' /\ model' = model /\ size' = size
      /\ pc = "finish"
  BY DEF IInv, Stepping
<1> SUFFICES ASSUME rewinds = 0 PROVE Budgeted' /\ Merged' /\ Factored'
  BY <1>1 DEF OneHistory
<1>3. Budgeted /\ Merged /\ Factored
  BY DEF IInv, OneHistory
<1>4. CASE Now = 10 /\ reached' = 20
  <2>1. /\ \A s \in Dirs : dirs[s].made = FALSE
        /\ \A k \in 1 .. NumLayers : spills[k] = {}
    BY <1>2, <1>3, <1>4 DEF Budgeted
  <2>2. \A s \in {20, 25, 30} : dirs[s].config = FALSE /\ DOMAIN dirs[s].shards = {}
    BY <2>1 DEF IInv, Directories, Dirs
  <2>3. Budgeted'
    BY <1>1, <1>2, <1>4, <2>1 DEF Budgeted
  <2>4. Merged'
    BY <1>1, <1>2, <1>4, <2>2 DEF Merged, Remergeable, Merging
  <2>5. Factored'
    BY <1>1, <1>2, <1>4 DEF Factored, SaveSteps
  <2> QED
    BY <2>3, <2>4, <2>5
<1>5. CASE Now = 20 /\ reached' \in {25, 60}
  <2>1. Budgeted'
    BY <1>1, <1>2, <1>3, <1>5 DEF Budgeted
  <2>2. Merged'
    BY <1>1, <1>2, <1>3, <1>5 DEF Merged, Remergeable, Merging, WholeDir, Related
  <2>3. Factored'
    BY <1>1, <1>2, <1>5 DEF Factored, SaveSteps
  <2> QED
    BY <2>1, <2>2, <2>3
<1>6. CASE Now = 25 /\ reached' = 30
  <2>1. Budgeted'
    BY <1>1, <1>2, <1>3, <1>6 DEF Budgeted
  <2>2. Merged'
    BY <1>1, <1>2, <1>3, <1>6 DEF Merged, Remergeable, Merging, WholeDir
  <2>3. Factored'
    BY <1>1, <1>2, <1>3, <1>6 DEF Factored, SaveSteps, Merged, Related
  <2> QED
    BY <2>1, <2>2, <2>3
<1>7. CASE Now = 30 /\ reached' = 40
  <2>1. Budgeted'
    BY <1>1, <1>2, <1>3, <1>7 DEF Budgeted
  <2>2. Merged'
    BY <1>1, <1>2, <1>3, <1>7 DEF Merged, Remergeable, Merging, WholeDir
  <2>3. dirs[30].done = TRUE /\ dirs[30].saved = model /\ Applicable(model)
    BY <1>2, <1>3, <1>7 DEF IInv, Directories, Factored
  <2>4. Applicable(dirs[30].saved) => Applicable(dirs[30].saved)'
    BY <1>1 DEF Applicable, Related
  <2>5. Factored'
    BY <1>1, <1>2, <1>7, <2>3, <2>4 DEF Factored, SaveSteps
  <2> QED
    BY <2>1, <2>2, <2>5
<1>8. CASE Now \in {40, 50, 60} /\ reached' \in {50, 60, 70}
  <2>1. Budgeted'
    BY <1>1, <1>2, <1>3, <1>8 DEF Budgeted
  <2>2. Merged'
    BY <1>1, <1>2, <1>3, <1>8 DEF Merged, Merging
  <2>3. Factored'
    BY <1>1, <1>2, <1>8 DEF Factored, SaveSteps
  <2> QED
    BY <2>1, <2>2, <2>3
<1> QED
  BY <1>4, <1>5, <1>6, <1>7, <1>8 DEF Succeeds

LEMMA FinishKeeps == ASSUME IInv, FinishStage PROVE IInv'
<1> DEFINE rest == todo \ {Now}
<1>1. /\ pc = "finish" /\ UNCHANGED <<disk, cmd, run, raised, crashes, rewinds>>
      /\ \/ rest = {} /\ Forget /\ reached' = After(Now)
         \/ /\ rest # {} /\ todo' = rest /\ reached' = Min(rest) /\ pc' = "work"
            /\ UNCHANGED <<model, size, tok, decomp, mended>>
  BY DEF FinishStage, GoTo
<1>2. Stepping /\ pc # "idle" /\ Now \in todo /\ Now \in Stages
  BY <1>1, NowFacts DEF IInv
<1>3. CASE rest = {}
  <2>1. Succeeds(Now, reached') /\ Forget
    BY <1>1, <1>2, <1>3, AfterIs
  <2>2. OneHistory'
    BY <1>1, <2>1, HandsOver DEF Forget
  <2>3. /\ dirs' = dirs /\ cov' = cov /\ orig' = orig /\ spills' = spills /\ planned' = planned
        /\ blacklist' = blacklist /\ budgets' = budgets /\ decomposition' = decomposition
        /\ run' = run /\ rewinds' = rewinds /\ raised' = raised
        /\ pc' = "idle" /\ model' = {} /\ mended' = {}
    BY <1>1, <2>1 DEF Forget, disk
  <2>4. reached' \in Stages \cup {70}
    BY <2>1 DEF Succeeds, Stages
  <2>5. Stepping'
    BY <2>3, <2>4 DEF IInv, Stepping, SaveSteps, ClearSteps
  <2>6. Lineages'
    BY <2>3 DEF IInv, Lineages, Past, SaveSteps, ClearSteps
  <2>7. Directories'
    BY <2>3 DEF IInv, Directories, SaveSteps
  <2> QED
    BY <2>2, <2>5, <2>6, <2>7 DEF IInv
<1>4. CASE rest # {}
  <2> DEFINE t == Min(rest)
  <2>1. /\ t \in todo /\ Now < t /\ \A u \in rest : t <= u
        /\ \/ Now = 10 /\ t = 20
           \/ Now = 20 /\ t \in {25, 60}
           \/ Now = 25 /\ t = 30
           \/ Now = 30 /\ t = 40
           \/ Now = 40 /\ t = 50
           \/ Now = 50 /\ t = 60
    BY <1>2, <1>4, FollowedBy
  <2>2. Now' = t /\ reached' = t /\ todo' = rest
    BY <1>1, <1>4 DEF Now
  <2> HIDE DEF t
  <2>3. /\ dirs' = dirs /\ cov' = cov /\ orig' = orig /\ spills' = spills /\ planned' = planned
        /\ blacklist' = blacklist /\ budgets' = budgets /\ decomposition' = decomposition
        /\ run' = run /\ rewinds' = rewinds /\ raised' = raised /\ cmd' = cmd
        /\ pc' = "work" /\ model' = model /\ mended' = mended /\ size' = size /\ decomp' = decomp
    BY <1>1, <1>4 DEF disk
  <2>4. Succeeds(Now, reached')
    BY <2>1, <2>2 DEF Succeeds
  <2>5. OneHistory'
    <3>1. Now' = reached' /\ pc' = "work" /\ model' = model /\ size' = size
      BY <2>2, <2>3
    <3> QED
      BY <1>1, <2>4, <3>1, HandsOver
  <2>6. Stepping'
    <3>1. t \in Stages
      BY <2>1 DEF Stages
    <3>2. /\ cmd \in Commands /\ todo \subseteq Window(cmd) /\ Window(cmd) \subseteq Stages
          /\ \A u \in Window(cmd) : Now <= u => u \in todo
      BY <1>2, WindowIs DEF Stepping
    <3>3. \A u \in Window(cmd) : t <= u => u \in rest
      BY <1>2, <2>1, <3>1, <3>2 DEF Stages
    <3>4. rest # {} /\ rest \subseteq Window(cmd)
      BY <1>4, <3>2
    <3> HIDE DEF rest
    <3>5. decomp = decomposition /\ raised # TRUE
      BY <1>1 DEF IInv, Stepping
    <3>6. Now' = 20 /\ cmd.from = 1 => blacklist = run /\ budgets = run /\ decomposition = run
      BY <1>1, <2>1, <2>2 DEF IInv, Stepping
    <3>7. Now' \in {25, 30, 40, 50} => size \in 1 .. MaxShards
      BY <1>1, <2>1, <2>2 DEF IInv, Stepping
    <3>8. /\ run \in Nat /\ {blacklist, budgets, decomposition, cov} \subseteq Nat /\ rewinds \in Nat
          /\ budgets # 0 => planned \in 1 .. MaxShards
          /\ run # 0
      BY <1>1 DEF IInv, Stepping
    <3> QED
      BY <2>2, <2>3, <3>1, <3>2, <3>3, <3>4, <3>5, <3>6, <3>7, <3>8
      DEF Stepping, SaveSteps, ClearSteps
  <2>7. Lineages'
    <3>1. /\ Now = 10 => model = {Original}
          /\ Now \in Dirs => Past(model, Now)
      BY <1>1 DEF IInv, Lineages, Ready, Dirs
    <3>2. Ready(Now)'
      BY <2>1, <2>2, <2>3, <3>1 DEF Ready, Dirs
    <3> QED
      BY <2>3, <3>2 DEF IInv, Lineages, SaveSteps, ClearSteps
  <2>8. Directories'
    BY <2>3 DEF IInv, Directories, SaveSteps
  <2> QED
    BY <2>5, <2>6, <2>7, <2>8 DEF IInv
<1> QED
  BY <1>3, <1>4

\* A directory that holds one model, in every file of one layout.
LEMMA FilledContent ==
    ASSUME NEW d, NEW n \in 1 .. MaxShards, NEW m, DOMAIN d.shards = FilesOf(n), Filled(d, n, n, m)
    PROVE  Content(d) = m /\ \A f \in DOMAIN d.shards : d.shards[f] = m
<1>1. \A f \in DOMAIN d.shards : d.shards[f] = m
  <2>1. ASSUME NEW f \in FilesOf(n) PROVE f = <<f[1], n>> /\ f[1] \in 1 .. n
    BY DEF FilesOf, ShardFiles, MaxShards
  <2>2. ASSUME NEW f \in FilesOf(n) PROVE d.shards[f] = m
    <3>1. PICK i \in 1 .. n : f = <<i, n>>
      BY <2>1
    <3> QED
      BY <3>1 DEF Filled
  <2> QED
    BY <2>2
<1>2. <<1, n>> \in DOMAIN d.shards
  BY DEF FilesOf, ShardFiles, MaxShards
<1> QED
  BY <1>1, <1>2 DEF Content

\* A directory of the budgets on disk loads, as a model of the decomposition
\* and of the covariance on disk.
LEMMA WholeLoads ==
    ASSUME NEW s \in Dirs, WholeDir(s), planned \in 1 .. MaxShards
    PROVE  /\ dirs[s].config = TRUE => Loadable(dirs[s])
           /\ dirs[s].meta = planned /\ Related(Content(dirs[s]))
<1> DEFINE d == dirs[s]
           n == planned
<1>1. PICK m : MergedBy(m, decomposition, cov) /\ Filled(d, n, n, m)
  BY DEF WholeDir, Holds
<1>2. d.meta = n /\ DOMAIN d.shards = FilesOf(n) /\ n \in 1 .. MaxShards
  BY DEF WholeDir, Holds
<1> HIDE DEF d, n
<1>3. Content(d) = m /\ \A f \in DOMAIN d.shards : d.shards[f] = m
  BY <1>1, <1>2, FilledContent
<1>4. m # {}
  BY <1>1 DEF MergedBy
<1>5. d.config = TRUE => Loadable(d)
  BY <1>2, <1>3, <1>4 DEF Loadable, MaxShards
<1> QED
  BY <1>1, <1>2, <1>3, <1>5 DEF Related, d, n

\* A finished directory loads as what was saved, if it has the shards of one
\* layout.
LEMMA FinishedLoads ==
    ASSUME Directories, NEW s \in Dirs, dirs[s].done = TRUE,
           DOMAIN dirs[s].shards = FilesOf(dirs[s].meta)
    PROVE  Content(dirs[s]) = dirs[s].saved
<1> DEFINE d == dirs[s]
<1>1. /\ d.meta \in 0 .. MaxShards /\ d.meta # 0 /\ Filled(d, d.meta, d.meta, d.saved)
      /\ DOMAIN d.shards = FilesOf(d.meta)
  BY DEF Directories
<1> HIDE DEF d
<1>2. d.meta \in 1 .. MaxShards
  BY <1>1 DEF MaxShards
<1>3. Content(d) = d.saved
  BY <1>1, <1>2, FilledContent
<1> QED
  BY <1>3 DEF d

\* What loads and has no part of another layout has the shards of one: all
\* those of another do not fit the metadata.
LEMMA OneLayout ==
    ASSUME Directories, NEW s \in Dirs, Loadable(dirs[s]), dirs[s].partial = {}
    PROVE  DOMAIN dirs[s].shards = FilesOf(dirs[s].meta)
<1> DEFINE d == dirs[s]
<1>1. /\ Entire(d) /\ d.partial = {} /\ DOMAIN d.shards \subseteq ShardFiles
      /\ FilesOf(d.meta) \subseteq DOMAIN d.shards
      /\ DOMAIN d.shards \subseteq FilesOf(d.meta) \cup Common
  BY DEF Directories, Loadable
<1> HIDE DEF d
<1>2. ASSUME NEW f \in DOMAIN d.shards, f \notin FilesOf(d.meta) PROVE FALSE
  <2>1. f \in ShardFiles
    BY <1>1, <1>2
  <2>2. PICK n \in 1 .. MaxShards : f \in FilesOf(n)
    BY <2>1 DEF FilesOf, ShardFiles
  <2>3. n # d.meta
    BY <1>2, <2>2
  <2>4. FilesOf(n) \subseteq DOMAIN d.shards
    BY <1>1, <1>2, <2>2 DEF Entire
  <2>5. \A g \in FilesOf(n) : g \notin FilesOf(d.meta)
    BY <2>3 DEF FilesOf
  <2>6. FilesOf(n) \subseteq Common
    BY <1>1, <2>4, <2>5
  <2> QED
    BY <2>6, CommonAssumption
<1> QED
  BY <1>1, <1>2 DEF d

\* What is loaded has passed the stage whose directory it is.
LEMMA LoadedPast ==
    ASSUME Lineages, NEW s \in Dirs
    PROVE  Past(Content(dirs[s]), s)
BY DEF Lineages, Content, Past

\* A command that does not get to its first stage.
LEMMA StartsNothing ==
    ASSUME IInv, NEW c \in Commands, Start(c), CannotLoad(c, Source(c)) \/ NothingToDo(c)
    PROVE  IInv'
<1>1. /\ dirs' = dirs /\ cov' = cov /\ orig' = orig /\ spills' = spills /\ planned' = planned
      /\ blacklist' = blacklist /\ budgets' = budgets /\ decomposition' = decomposition
      /\ run' = run + 1 /\ reached' = reached /\ pc = "idle"
      /\ pc' = "idle" /\ model' = {} /\ mended' = {}
      /\ \/ Resumes(c) /\ rewinds' = rewinds
         \/ rewinds' = rewinds + 1
      /\ run \in Nat /\ rewinds \in Nat
  BY DEF Start, CannotLoad, NothingToDo, Forget, disk, IInv, Stepping
<1>2. Stepping'
  BY <1>1 DEF IInv, Stepping, SaveSteps, ClearSteps
<1>3. Lineages'
  BY <1>1 DEF IInv, Lineages, Past, SaveSteps, ClearSteps
<1>4. Directories'
  BY <1>1 DEF IInv, Directories, SaveSteps
<1>5. OneHistory'
  <2> SUFFICES ASSUME rewinds' = 0 PROVE Budgeted' /\ Merged' /\ Factored'
    BY DEF OneHistory
  <2>1. rewinds = 0 /\ Resumes(c)
    BY <1>1
  <2>2. Budgeted /\ Merged /\ Factored
    BY <2>1 DEF IInv, OneHistory
  <2>3. CannotLoad(c, Source(c))
    BY <2>1 DEF Resumes, NothingToDo
  <2>4. Budgeted'
    BY <1>1, <2>2 DEF Budgeted
  <2>5. reached \in {20, 25} => Remergeable
    <3> SUFFICES ASSUME reached \in {20, 25} PROVE Remergeable
      OBVIOUS
    <3>1. planned \in 1 .. MaxShards
      BY <2>2 DEF Budgeted, IInv, Stepping
    <3>2. /\ {dirs[20].made, dirs[20].config, dirs[25].made, dirs[25].config} \subseteq BOOLEAN
          /\ dirs[20].made = FALSE => dirs[20].config = FALSE
          /\ dirs[25].made = FALSE => dirs[25].config = FALSE
          /\ 20 \in Dirs /\ 25 \in Dirs
      BY DEF IInv, Directories, Dirs
    <3>3. Source(c) # 0 /\ ~ (Source(c) \in Dirs /\ Loadable(dirs[Source(c)]))
      BY <2>3 DEF CannotLoad
    <3>4. c.from = 2 /\ Planned(c) # {}
      BY <2>1 DEF Resumes
    <3>5. \/ Source(c) = 20 /\ dirs[25].made = FALSE
          \/ Source(c) = 25 /\ dirs[25].made = TRUE
      <4>1. Directories
        BY DEF IInv
      <4> DEFINE t == Min(Planned(c))
      <4>2. \/ c.from = 1
            \/ c.from = 2 /\ Source(c) = 0
            \/ c.from = 2 /\ Source(c) = 20 /\ dirs[25].made = FALSE
            \/ c.from = 2 /\ Source(c) = 25 /\ dirs[25].made = TRUE
            \/ c.from \in {3, 4, 5, 6}
        BY <3>4, <4>1, StartsAt
      <4> QED
        BY <3>3, <3>4, <4>2
    <3>6. CASE Source(c) = 20 /\ dirs[25].made = FALSE
      <4>1. dirs[20].config = TRUE => WholeDir(20)
        BY <2>2, <3>6 DEF Merged
      <4>2. dirs[20].config = TRUE => Loadable(dirs[20])
        BY <3>1, <3>2, <4>1, WholeLoads
      <4> QED
        BY <3>2, <3>3, <3>6, <4>2 DEF Remergeable
    <3>7. CASE Source(c) = 25 /\ dirs[25].made = TRUE
      <4>1. dirs[25].config = TRUE => WholeDir(25)
        BY <2>2 DEF Merged
      <4>2. dirs[25].config = TRUE => Loadable(dirs[25])
        BY <3>1, <3>2, <4>1, WholeLoads
      <4> QED
        BY <3>2, <3>3, <3>7, <4>2 DEF Remergeable
    <3> QED
      BY <3>5, <3>6, <3>7
  <2>6. Merged'
    BY <1>1, <2>2, <2>5 DEF Merged, Merging, Remergeable, WholeDir
  <2>7. Factored'
    <3>1. reached = 40 => dirs[30].done = TRUE /\ Applicable(dirs[30].saved)
      BY <2>2 DEF Factored
    <3>2. 1 .. run \subseteq 1 .. run'
      BY <1>1
    <3>3. Applicable(dirs[30].saved) => Applicable(dirs[30].saved)'
      BY <1>1, <3>2 DEF Applicable, Related
    <3> QED
      BY <1>1, <3>1, <3>3 DEF Factored, SaveSteps
  <2> QED
    BY <2>4, <2>6, <2>7
<1> QED
  BY <1>2, <1>3, <1>4, <1>5 DEF IInv

\* A command that loads its source and goes to work.
LEMMA StartsWork ==
    ASSUME IInv, NEW c \in Commands, Start(c), LoadSource(c, Source(c))
    PROVE  IInv'
<1> DEFINE t == Min(Planned(c))
           src == Source(c)
           Loads == src \in Dirs /\ Loadable(dirs[src]) /\ model' = Content(dirs[src])
<1>1. /\ dirs' = dirs /\ cov' = cov /\ orig' = orig /\ spills' = spills /\ planned' = planned
      /\ blacklist' = blacklist /\ budgets' = budgets /\ decomposition' = decomposition
      /\ run' = run + 1 /\ pc = "idle" /\ cmd' = c /\ raised' = FALSE /\ mended' = {}
      /\ pc' = "work" /\ todo' = Planned(c) /\ Planned(c) # {} /\ reached' = t
      /\ decomp' = (IF c.from = 1 THEN 0 ELSE decomposition)
      /\ run \in Nat /\ rewinds \in Nat /\ reached # 70
      /\ \/ Resumes(c) /\ rewinds' = rewinds
         \/ rewinds' = rewinds + 1
  BY DEF Start, LoadSource, GoTo, disk, IInv, Stepping
<1>2. Now' = t
  BY <1>1 DEF Now
<1>3. \/ src = 0 /\ model' = {Original}
      \/ Loads /\ size' = dirs[src].meta
  BY DEF LoadSource
<1>4. Directories /\ Lineages
  BY DEF IInv
<1>5. /\ t \in Planned(c) /\ Planned(c) \subseteq Window(c)
      /\ \A u \in Window(c) : t <= u => u \in Planned(c)
      /\ \/ c.from = 1 /\ src = 0 /\ t = 10
         \/ /\ c.from = 2 /\ src = 0 /\ t = 20
            /\ c.noResume = FALSE => dirs[20].made = FALSE /\ dirs[25].made = FALSE
         \/ c.from = 2 /\ src = 20 /\ t \in {25, 60} /\ dirs[25].made = FALSE
         \/ c.from = 2 /\ src = 25 /\ t \in {30, 60}
         \/ c.from = 3 /\ src = 1 /\ t \in {30, 60}
         \/ c.from = 3 /\ src = 20 /\ t \in {30, 60} /\ dirs[25].made = FALSE
         \/ c.from = 3 /\ src = 25 /\ t \in {30, 60}
         \/ c.from = 4 /\ src \in {1, 30} /\ t \in {40, 60}
         \/ c.from = 5 /\ src \in {1, 40} /\ t \in {50, 60}
         \/ c.from = 6 /\ src \in {1, 50, 25, 20} /\ t = 60
  BY <1>1, <1>4, StartsAt
<1> HIDE DEF t, src
<1>6. \/ c.from = 1 /\ src = 0 /\ t = 10 /\ model' = {Original}
      \/ /\ c.from = 2 /\ src = 0 /\ t = 20 /\ model' = {Original}
         /\ c.noResume = FALSE => dirs[20].made = FALSE /\ dirs[25].made = FALSE
      \/ c.from \in {2, 3} /\ src = 20 /\ t \in {25, 30, 60} /\ dirs[25].made = FALSE /\ Loads
      \/ c.from \in {2, 3} /\ src = 25 /\ t \in {30, 60} /\ Loads
      \/ c.from = 4 /\ src = 30 /\ t \in {40, 60} /\ Loads
      \/ c.from = 5 /\ src = 40 /\ t \in {50, 60} /\ Loads
      \/ c.from = 6 /\ src \in {50, 25, 20} /\ t = 60 /\ Loads
  BY <1>3, <1>5 DEF Dirs
<1>7. src = 0 \/ size' \in 1 .. MaxShards
  <2>1. ASSUME src \in Dirs, Loadable(dirs[src]), size' = dirs[src].meta
        PROVE  size' \in 1 .. MaxShards
    BY <1>4, <2>1 DEF Directories, Loadable, MaxShards
  <2> QED
    BY <1>3, <2>1
<1>8. Loads => Past(model', src)
  BY <1>4, LoadedPast
<1> HIDE DEF Loads
<1>9. Stepping'
  <2>1. t \in Stages /\ (t = 10 <=> c.from = 1) /\ (t = 20 => c.from = 2)
        /\ (t \in {25, 30, 40, 50} => src # 0)
    BY <1>6 DEF Stages
  <2> QED
    BY <1>1, <1>2, <1>5, <1>7, <2>1 DEF IInv, Stepping, SaveSteps, ClearSteps
<1>10. Lineages'
  <2>1. Ready(Now)'
    BY <1>2, <1>6, <1>8 DEF Ready, Dirs
  <2> QED
    BY <1>1, <2>1 DEF IInv, Lineages, SaveSteps, ClearSteps, Past
<1>11. Directories'
  BY <1>1 DEF IInv, Directories, SaveSteps
<1>12. OneHistory'
  <2> SUFFICES ASSUME rewinds' = 0 PROVE Budgeted' /\ Merged' /\ Factored'
    BY DEF OneHistory
  <2>1. rewinds = 0 /\ Resumes(c)
    BY <1>1
  <2>2. Budgeted /\ Merged /\ Factored
    BY <2>1 DEF IInv, OneHistory
  <2>3. /\ c.noResume = TRUE <=> raised = TRUE
        /\ c.from = 1 => reached = 10
        /\ c.from = 2 => reached \in {20, 25}
        /\ c.from = 3 => reached = 30
        /\ c.from = 4 => reached = 40
        /\ c.from \in {5, 6} => reached \in {50, 60}
        /\ c.noResume \in BOOLEAN
    <3>1. reached \in Stages /\ c.from = reached \div 10
      BY <1>1, <2>1 DEF IInv, Stepping, Resumes
    <3>2. c.noResume \in BOOLEAN /\ (c.noResume <=> raised)
      BY <2>1, WindowIs DEF Resumes
    <3> QED
      BY <3>1, <3>2 DEF Stages
  <2>4. /\ {dirs[20].made, dirs[20].config, dirs[25].made, dirs[25].config} \subseteq BOOLEAN
        /\ dirs[20].made = FALSE => dirs[20].config = FALSE
        /\ dirs[25].made = FALSE => dirs[25].config = FALSE
        /\ 20 \in Dirs /\ 25 \in Dirs /\ 30 \in Dirs
    BY <1>4 DEF Directories, Dirs
  <2>5. /\ reached' = 10 => reached = 10
        /\ reached' # 10 => reached # 10
        /\ reached' \in {20, 25} => reached \in {20, 25}
        /\ reached' = 30 => reached \in {20, 25, 30}
        /\ reached' = 40 => reached = 40
    <3>1. reached' = t
      BY <1>1
    <3>2. \/ c.from = 1 /\ t = 10
          \/ c.from = 2 /\ t \in {20, 25, 30, 60}
          \/ c.from = 3 /\ t \in {25, 30, 60}
          \/ c.from = 4 /\ t \in {40, 60}
          \/ c.from = 5 /\ t \in {50, 60}
          \/ c.from = 6 /\ t = 60
      BY <1>6
    <3>3. c.from = 3 => t \in {30, 60}
      BY <1>5
    <3> QED
      BY <2>3, <3>1, <3>2, <3>3
  <2>6. Budgeted'
    BY <1>1, <2>2, <2>5 DEF Budgeted
  <2>7. reached # 10 => planned \in 1 .. MaxShards
    BY <2>2 DEF Budgeted, IInv, Stepping
  \* A merge is only loaded whole.
  <2>8. t \in {25, 30} => Related(model') /\ size' = planned
    <3> SUFFICES ASSUME t \in {25, 30} PROVE Related(model') /\ size' = planned
      OBVIOUS
    <3>1. /\ (src = 20 /\ dirs[25].made = FALSE) \/ src = 25
          /\ Loads /\ reached \in {20, 25, 30}
      BY <1>6, <2>3
    <3>2. WholeDir(src) /\ src \in Dirs /\ size' = dirs[src].meta /\ model' = Content(dirs[src])
      <4>1. Loadable(dirs[src]) /\ size' = dirs[src].meta /\ model' = Content(dirs[src])
        BY <1>3, <3>1, <2>4 DEF Loads, Dirs
      <4>2. dirs[src].config = TRUE
        BY <2>4, <3>1, <4>1 DEF Loadable
      <4> QED
        BY <2>2, <2>4, <3>1, <4>1, <4>2 DEF Merged
    <3>3. planned \in 1 .. MaxShards
      BY <2>7, <3>1
    <3>4. Related(Content(dirs[src])) /\ dirs[src].meta = planned
      BY <3>2, <3>3, WholeLoads
    <3> QED
      BY <3>2, <3>4 DEF Related
  <2>9. t = 20 => Remergeable /\ dirs[25].config = FALSE
    <3>1. ASSUME t = 20, c.noResume = FALSE PROVE Remergeable
      BY <1>6, <2>4, <3>1 DEF Remergeable
    <3>2. ASSUME t = 20, c.noResume = TRUE PROVE Remergeable
      BY <1>6, <2>2, <2>3, <3>2 DEF Merged
    <3> QED
      BY <2>3, <3>1, <3>2 DEF Remergeable
  <2>10. Merged'
    <3>1. t = 25 => dirs[25].config = FALSE
      BY <1>6, <2>4
    <3>2. Remergeable => Remergeable'
      BY <1>1 DEF Remergeable
    <3>3. /\ WholeDir(20) => WholeDir(20)'
          /\ WholeDir(25) => WholeDir(25)'
          /\ t = 25 => Related(model)' /\ size' = planned'
      BY <1>1, <2>8 DEF WholeDir, Related
    <3>4. reached' \in {20, 25, 30} =>
             /\ dirs[20].config = TRUE /\ dirs[25].made = FALSE => WholeDir(20)'
             /\ dirs[25].config = TRUE => WholeDir(25)'
      BY <2>2, <2>5, <3>3 DEF Merged
    <3>5. reached' # 10 => \A s \in {20, 25, 30} : DOMAIN dirs[s].shards \subseteq FilesOf(planned)
      BY <2>2, <2>5 DEF Merged
    <3>6. dirs' = dirs /\ planned' = planned /\ raised' # TRUE /\ pc' = "work" /\ Now' = t
      BY <1>1, <1>2
    <3> QED
      BY <2>9, <3>1, <3>2, <3>3, <3>4, <3>5, <3>6 DEF Merged
  <2>11. Factored'
    <3>1. reached' = 40 => dirs[30].done = TRUE /\ Applicable(dirs[30].saved)
      BY <2>2, <2>5 DEF Factored
    <3>8. reached' # 10 => \A s \in {20, 25, 30} : DOMAIN dirs[s].shards \subseteq FilesOf(planned)
      BY <2>2, <2>5 DEF Merged
    <3>2. 1 .. run \subseteq 1 .. run'
      BY <1>1
    <3>3. Applicable(dirs[30].saved) => Applicable(dirs[30].saved)'
      BY <1>1, <3>2 DEF Applicable, Related
    <3>4. t = 40 => model' = dirs[30].saved
      <4>1. ASSUME t = 40 PROVE model' = dirs[30].saved
        <5>1. src = 30 /\ Loads
          BY <1>6, <4>1
        <5>2. Loadable(dirs[30]) /\ model' = Content(dirs[30])
          BY <5>1 DEF Loads
        <5>3. dirs[30].done = TRUE
          BY <1>1, <3>1, <4>1
        <5>4. DOMAIN dirs[30].shards = FilesOf(dirs[30].meta)
          <6>1. /\ FilesOf(dirs[30].meta) \subseteq DOMAIN dirs[30].shards /\ dirs[30].meta # 0
                /\ dirs[30].meta \in 0 .. MaxShards
            BY <1>4, <5>2 DEF Loadable, Directories, Dirs
          <6>2. DOMAIN dirs[30].shards \subseteq FilesOf(planned)
            BY <1>1, <1>2, <3>8, <4>1
          <6>3. dirs[30].meta = planned
            <7>1. PICK n \in 1 .. MaxShards : n = dirs[30].meta
              BY <6>1 DEF MaxShards
            <7>2. <<1, n>> \in FilesOf(n)
              BY DEF FilesOf, ShardFiles, MaxShards
            <7>3. \A f \in FilesOf(planned) : f[2] = planned
              BY DEF FilesOf
            <7> QED
              BY <6>1, <6>2, <7>1, <7>2, <7>3
          <6> QED
            BY <6>1, <6>2, <6>3
        <5> QED
          BY <1>4, <2>4, <5>3, <5>2, <5>4, FinishedLoads
      <4> QED
        BY <4>1
    <3>5. t = 30 => Related(model)'
      BY <1>1, <2>8 DEF Related
    <3>6. dirs' = dirs /\ pc' = "work" /\ Now' = t
      BY <1>1, <1>2
    <3>7. t = 30 => size' = planned'
      BY <1>1, <2>8
    <3> QED
      BY <3>1, <3>3, <3>4, <3>5, <3>6, <3>7 DEF Factored, SaveSteps
  <2> QED
    BY <2>6, <2>10, <2>11
<1> QED
  BY <1>9, <1>10, <1>11, <1>12 DEF IInv

\* Nothing happens.
LEMMA Stutters == ASSUME IInv, UNCHANGED driving PROVE IInv'
<1>1. /\ dirs' = dirs /\ cov' = cov /\ orig' = orig /\ spills' = spills /\ planned' = planned
      /\ blacklist' = blacklist /\ budgets' = budgets /\ decomposition' = decomposition
      /\ run' = run /\ rewinds' = rewinds /\ raised' = raised /\ cmd' = cmd /\ reached' = reached
      /\ pc' = pc /\ model' = model /\ mended' = mended /\ size' = size /\ decomp' = decomp
      /\ at' = at /\ Now' = Now /\ todo' = todo
  BY DEF driving, disk, memory, operator, Now
<1>2. Stepping'
  BY <1>1 DEF IInv, Stepping, SaveSteps, ClearSteps
<1>3. Lineages'
  BY <1>1 DEF IInv, Lineages, Ready, SaveSteps, ClearSteps
<1>4. Directories'
  BY <1>1 DEF IInv, Directories, SaveSteps
<1>5. OneHistory'
  <2>1. Applicable(model) => Applicable(model)'
    BY <1>1 DEF Applicable, Related
  <2>2. Applicable(dirs[30].saved) => Applicable(dirs[30].saved)'
    BY <1>1 DEF Applicable, Related
  <2>3. Budgeted => Budgeted'
    BY <1>1 DEF Budgeted
  <2>4. Merged => Merged'
    BY <1>1 DEF Merged, Merging, Remergeable, WholeDir, Related
  <2>5. Factored => Factored'
    BY <1>1, <2>1, <2>2 DEF Factored, SaveSteps, Related
  <2> QED
    BY <1>1, <2>3, <2>4, <2>5 DEF IInv, OneHistory
<1> QED
  BY <1>2, <1>3, <1>4, <1>5 DEF IInv

----------------------------------------------------------------------------
(* The theorems                                                            *)

\* What every state of the driver satisfies, whatever commands are given and
\* wherever processes are killed: what each step of a stage may rely on in
\* memory, the lineage of every weight in memory and on disk, the state of
\* every checkpoint directory, and, as long as the operator only resumes, that
\* what is on disk belongs to one history.
THEOREM Invariant == DriverSpec => []IInv
<1>1. DriverInit => IInv
  BY Initially
<1>2. IInv /\ [DriverNext]_driving => IInv'
  <2> SUFFICES ASSUME IInv, [DriverNext]_driving PROVE IInv'
    OBVIOUS
  <2>1. CASE Step
    BY <2>1, Stage1Writes, PruneKeeps, LostOrRefused, DistilKeeps, SnapshotKeeps, FactorKeeps,
       LoadOriginalsKeeps, CompensateKeeps, CompensatedKeeps, MakeDirKeeps, WriteMetadataKeeps,
       ShardKeeps, WriteConfigKeeps, WriteTokenizerKeeps, ClearKeeps, FinishKeeps, Zenon DEF Step
  <2>2. CASE Crash
    BY <2>2, LostOrRefused
  <2>3. ASSUME NEW c \in Commands, Start(c) PROVE IInv'
    BY <2>3, StartsNothing, StartsWork DEF Start
  <2>4. CASE UNCHANGED driving
    BY <2>4, Stutters
  <2> QED
    BY <2>1, <2>2, <2>3, <2>4 DEF DriverNext
<1> QED
  BY <1>1, <1>2, PTL DEF DriverSpec

\* No stage is applied twice to a model, in memory or in any directory, nor
\* out of order, and none but 2.5 is left out on the way, whatever commands,
\* shortcuts, fallbacks, kills and torn directories led to it.
THEOREM NoStageTwice == DriverSpec => []StagesOnce
<1>1. IInv => StagesOnce
  <2> SUFFICES ASSUME IInv PROVE StagesOnce
    OBVIOUS
  <2>1. ASSUME NEW s \in Dirs, NEW l \in Content(dirs[s]) PROVE Ordered(l)
    BY <2>1, LoadedPast, OrderedPast DEF IInv, Past
  <2>2. ASSUME NEW l \in model PROVE Ordered(l)
    <3>1. \/ model = {Original}
          \/ \E s \in Dirs : Past(model, s)
      <4>1. CASE pc = "idle"
        BY <2>2, <4>1 DEF IInv, Lineages
      <4>2. CASE pc \in SaveSteps \cup ClearSteps \/ (pc = "finish" /\ Now \in Dirs)
        <5>1. Now \in Dirs
          BY <4>2 DEF IInv, Stepping, Dirs, ClearSteps, SaveSteps
        <5> QED
          BY <4>2, <5>1 DEF IInv, Lineages
      <4>3. CASE \/ pc \in {"work", "budgets", "decomposition", "factor", "layers"}
                 \/ pc = "finish" /\ Now \in {10, 60}
        BY <4>3 DEF IInv, Lineages, Ready, Dirs
      <4>4. pc = "finish" => Now \in Stages
        BY NowFacts DEF IInv
      <4> QED
        BY <4>1, <4>2, <4>3, <4>4 DEF IInv, Stepping, Stages, Dirs
    <3>2. CASE model = {Original}
      BY <2>2, <3>2, OrderedOriginal
    <3>3. CASE \E s \in Dirs : Past(model, s)
      BY <2>2, <3>3, OrderedPast DEF Past
    <3> QED
      BY <3>1, <3>2, <3>3
  <2> QED
    BY <2>1, <2>2 DEF StagesOnce
<1> QED
  BY <1>1, Invariant, PTL

\* A finished directory loads as what was saved, or is refused, whatever
\* complete saves left in it, if no killed one left some shards only; and if
\* the operator only ever resumes the interrupted stage, a stage works on inputs
\* of one history.
THEOREM HandedOver == DriverSpec => []HandedOverExact
<1>1. IInv => FinishedLoadsExact
  <2> SUFFICES ASSUME IInv, NEW s \in Dirs, dirs[s].done, dirs[s].partial = {}, Loadable(dirs[s])
               PROVE  Content(dirs[s]) = dirs[s].saved
    BY DEF FinishedLoadsExact
  <2>1. Directories /\ dirs[s].done = TRUE
    BY DEF IInv, Directories
  <2> QED
    BY <2>1, OneLayout, FinishedLoads
<1>2. IInv => InputsMatch
  <2> SUFFICES ASSUME IInv, rewinds = 0
      PROVE  /\ At("work", 20) => blacklist = budgets /\ budgets = decomposition
             /\ pc \in {"factor", "layers"} =>
                  /\ Cardinality(model) = 1
                  /\ \A l \in model : cov = RunOf(l, 20)
                  /\ pc = "factor" => \A l \in model : decomp = RunOf(l, 10)
                  /\ pc = "layers" =>
                       /\ \E r \in 1 .. run : model = Applied(orig, 30, r)
                       /\ \A k \in 1 .. NumLayers :
                             spills[k] # {} => \E r \in 1 .. run : spills[k] = Applied(model, 40, r)
    BY DEF InputsMatch
  <2>1. Budgeted /\ Merged /\ Factored
    BY DEF IInv, OneHistory
  <2>2. At("work", 20) => blacklist = budgets /\ budgets = decomposition
    <3>1. pc # "idle" => reached = Now
      BY DEF IInv, Stepping
    <3> QED
      BY <2>1, <3>1 DEF Budgeted, At
  <2>3. pc \in {"factor", "layers"} => Related(model)
    <3>1. pc = "factor" => Now = 30
      BY DEF IInv, Stepping
    <3>2. pc = "layers" => Now = 40 /\ reached = 40
      BY DEF IInv, Stepping, ClearSteps
    <3>3. pc = "layers" => Related(model)
      BY <2>1, <3>2 DEF Factored, Applicable
    <3> QED
      BY <2>1, <3>1, <3>3 DEF Factored
  <2>4. pc \in {"factor", "layers"} =>
          /\ Cardinality(model) = 1
          /\ \A l \in model : cov = RunOf(l, 20) /\ decomposition = RunOf(l, 10)
    <3> SUFFICES ASSUME pc \in {"factor", "layers"}
        PROVE  /\ Cardinality(model) = 1
               /\ \A l \in model : cov = RunOf(l, 20) /\ decomposition = RunOf(l, 10)
      OBVIOUS
    <3>1. PICK l : model = {l} /\ l[1] = <<10, decomposition>> /\ l[2] = <<20, cov>>
      BY <2>3 DEF Related, MergedBy
    <3>2. Cardinality({l}) = 1
      BY FS_Singleton
    <3>3. \E s : Passed(l, s)
      <4>1. Ready(Now) /\ Now \in {30, 40}
        BY DEF IInv, Lineages, Stepping, ClearSteps
      <4> QED
        BY <3>1, <4>1 DEF Ready, Past
    <3>4. PICK s : Passed(l, s)
      BY <3>3
    <3>5. 1 \in 1 .. Len(l) /\ 2 \in 1 .. Len(l)
      BY <3>4 DEF Passed
    <3>6. RunOf(l, l[1][1]) = l[1][2] /\ RunOf(l, l[2][1]) = l[2][2]
      BY <3>4, <3>5, RunOfStep
    <3>7. l[1][1] = 10 /\ l[1][2] = decomposition /\ l[2][1] = 20 /\ l[2][2] = cov
      BY <3>1
    <3> QED
      BY <3>1, <3>2, <3>6, <3>7
  <2>5. pc = "factor" => decomp = decomposition
    BY DEF IInv, Stepping
  <2>6. pc = "layers" =>
          /\ \E r \in 1 .. run : model = Applied(orig, 30, r)
          /\ \A k \in 1 .. NumLayers :
                spills[k] # {} => \E r \in 1 .. run : spills[k] = Applied(model, 40, r)
    <3>1. pc = "layers" => Now = 40 /\ reached = 40
      BY DEF IInv, Stepping, ClearSteps
    <3> QED
      BY <2>1, <3>1 DEF Factored, Applicable
  <2> QED
    BY <2>2, <2>4, <2>5, <2>6
<1> QED
  BY <1>1, <1>2, Invariant, PTL DEF HandedOverExact


----------------------------------------------------------------------------
(* Second part: SidecarStore implements SidecarRegister, for any readers,   *)
(* any number of saves and of faults and any sizes.  The steps of the files  *)
(* map to those of the register only in states where the files, the writer   *)
(* and the readers fit each other: StoreInv says how.                        *)

\* The directory now is one of those that may survive, and every payload of
\* them is on disk.
Durable ==
    /\ file \in images
    /\ \A f \in images : f.payload \in written \cup {Absent}

\* A protocol that is not fragile never leaves a manifest of another payload.
Paired ==
    ~Fragile =>
        /\ \A f \in images : f.manifest \in {Absent, f.payload}
        /\ writer.pc \in {"write", "rename"} => file.manifest = Absent

\* What the writer has done by now.
Progress ==
    /\ writer.pc # "idle" => writer.save \in Saves
    /\ writer.pc = "rename" => writer.save \in written
    /\ writer.pc \in {"sync", "describe"} => file.payload = writer.save
    /\ writer.pc \in {"end", "done"} => file.payload \in Saves /\ file.manifest = file.payload
    /\ writer.pc = "done" => images = {file}

\* A load that no save overlaps has seen the files as they still are.
Fits(load) ==
    /\ load.pc = "idle" => ~load.overlapped
    /\ load.pc # "idle" /\ ~load.overlapped =>
          /\ writer.pc = "idle" /\ file.payload # Absent
          /\ load.pc \in {"exists", "open", "stat"} => artifact.checks
          /\ load.pc \in {"open", "stat"} => file.manifest # Absent
          /\ load.pc = "stat" => load.described = file.manifest

Current == \A r \in Readers : Fits(reader[r])

StoreInv == TypeOK /\ Durable /\ Paired /\ Progress /\ Current

----------------------------------------------------------------------------
(* Facts                                                                   *)

\* A save is neither the absence of one nor the outcome of a refused load.
LEMMA SaveFacts ==
    /\ Absent \notin Saves /\ Refused \notin Payloads /\ Torn \notin Payloads
    /\ MaxSaves \in Nat /\ MaxFaults \in Nat
    /\ \A s \in Saves : s \in Nat /\ s <= MaxSaves /\ 1 <= s
BY StoreAssumption DEF Saves, Absent, Refused, Torn, Payloads

\* What the artifacts are.
LEMMA ArtifactFacts ==
    \A a \in Artifacts :
        /\ a.removes \in {"first", "late", "never"}
        /\ a.needs \in BOOLEAN /\ a.checks \in BOOLEAN /\ a.reuses \in BOOLEAN
        /\ a.removes = "first" => ~a.needs
<1>1. Signal.removes = "first" /\ Signal.needs = FALSE /\ Signal.checks = TRUE
      /\ Signal.reuses = FALSE /\ Signal = [removes |-> "first", needs |-> FALSE,
                                          checks |-> TRUE, reuses |-> FALSE]
  BY DEF Signal
<1>2. TeacherLogits.removes = "first" /\ TeacherLogits.needs = FALSE
      /\ TeacherLogits.checks = TRUE /\ TeacherLogits.reuses = TRUE
  BY <1>1 DEF TeacherLogits
<1>3. WandaRow.removes = "never" /\ WandaRow.needs = TRUE /\ WandaRow.checks = TRUE
      /\ WandaRow.reuses = FALSE
  BY <1>1 DEF WandaRow
<1>4. ShiftCovariance.removes = "late" /\ ShiftCovariance.needs = FALSE
      /\ ShiftCovariance.checks = TRUE /\ ShiftCovariance.reuses = FALSE
  BY <1>1 DEF ShiftCovariance
<1>5. TeacherEval.removes = "first" /\ TeacherEval.needs = FALSE
      /\ TeacherEval.checks = FALSE /\ TeacherEval.reuses = FALSE
  BY <1>1 DEF TeacherEval
<1> QED
  BY <1>1, <1>2, <1>3, <1>4, <1>5 DEF Artifacts, Stage2Profile, BlockHidden, WandaScore,
     Stage2Covariance, OriginalWeights, PhaseB

\* A pair of a payload and its manifest is described; one of a protocol that
\* is not fragile can always be loaded.
LEMMA PairedLoads ==
    ASSUME file.manifest = file.payload, file.payload \in Saves
    PROVE  ~Unloadable
BY SaveFacts DEF Unloadable, Describes

LEMMA SturdyLoads ==
    ASSUME TypeOK, ~Fragile, file.manifest \in {Absent, file.payload}
    PROVE  ~Unloadable
<1>1. ~artifact.needs
  BY ArtifactFacts DEF TypeOK, Fragile
<1>2. CASE file.manifest = Absent
  BY <1>1, <1>2 DEF Unloadable
<1>3. CASE file.manifest = file.payload /\ file.payload # Absent
  <2>1. file.payload \in Saves
    BY <1>3 DEF TypeOK, Files, Payloads
  <2> QED BY <1>3, <2>1, PairedLoads
<1> QED BY <1>2, <1>3

----------------------------------------------------------------------------
(* The invariant                                                           *)

LEMMA InitInv == Init => StoreInv
<1> SUFFICES ASSUME Init PROVE StoreInv
  OBVIOUS
<1> USE SaveFacts DEF Init, NoFiles, Idle, Loading
<1>1. TypeOK
  <2>1. Idle \in Reader
    BY DEF Payloads, Reader
  <2>2. NoFiles \in Files /\ 0 \in 0..MaxSaves /\ 0 \in 0..MaxFaults
    BY DEF Files, Payloads
  <2>3. reader \in [Readers -> Reader]
    BY <2>1
  <2> QED BY <2>2, <2>3 DEF TypeOK, Payloads
<1>2. Durable /\ Paired /\ Progress /\ Current
  BY DEF Durable, Paired, Progress, Current, Fits
<1> QED BY <1>1, <1>2 DEF StoreInv

\* The writer's steps.
LEMMA WriterInv == StoreInv /\ (Begin \/ Remove \/ Write \/ Rename \/ SyncPayload \/ Describe
                            \/ SyncManifest \/ End \/ Kill) => StoreInv'
<1> SUFFICES ASSUME StoreInv, Begin \/ Remove \/ Write \/ Rename \/ SyncPayload \/ Describe
                          \/ SyncManifest \/ End \/ Kill
             PROVE StoreInv'
  OBVIOUS
<1> USE SaveFacts DEF StoreInv
<1>1. CASE Begin
  <2> USE <1>1 DEF Begin
  <2>1. TypeOK'
    <3>1. saves' \in Saves /\ saves' \in 0..MaxSaves
      BY DEF TypeOK, Saves
    <3>2. reader' \in [Readers -> Reader]
      BY DEF TypeOK, Loading, Reader
    <3> QED BY <3>1, <3>2 DEF TypeOK, Payloads
  <2>2. Durable'
    BY DEF Durable
  <2>3. Paired'
    BY DEF Paired, Fragile, RemovesBefore
  <2>4. Progress'
    BY DEF Progress, TypeOK, Saves
  <2>5. Current'
    BY DEF Current, Fits, Loading, TypeOK, Reader
  <2> QED BY <2>1, <2>2, <2>3, <2>4, <2>5
<1>2. CASE Remove
  <2> USE <1>2 DEF Remove
  <2>0. file' \in Files /\ file'.payload = file.payload
        /\ file'.manifest \in {file.manifest, Absent}
    BY DEF TypeOK, Files, Payloads
  <2>1. TypeOK'
    <3>1. faults' \in 0..MaxFaults
      BY DEF TypeOK
    <3> QED BY <2>0, <3>1 DEF TypeOK
  <2>2. Durable'
    BY <2>0 DEF Durable
  <2>3. Paired'
    BY <2>0 DEF Paired, Fragile, Durable, TypeOK, Files
  <2>4. Progress'
    BY <2>0 DEF Progress, TypeOK
  <2>5. Current'
    BY DEF Current, Fits, Loading, TypeOK, Reader
  <2> QED BY <2>1, <2>2, <2>3, <2>4, <2>5
<1>3. CASE Write
  <2> USE <1>3 DEF Write, Synced
  <2>1. TypeOK'
    BY DEF TypeOK, Progress
  <2>2. Durable'
    BY DEF Durable
  <2>3. Paired'
    BY DEF Paired, Fragile, TypeOK
  <2>4. Progress'
    BY DEF Progress, TypeOK
  <2>5. Current'
    BY DEF Current, Fits, Loading, TypeOK, Reader
  <2> QED BY <2>1, <2>2, <2>3, <2>4, <2>5
<1>4. CASE Rename
  <2> USE <1>4 DEF Rename
  <2>0. file' \in Files /\ file'.payload = writer.save /\ file'.manifest = file.manifest
    BY DEF TypeOK, Files, Payloads
  <2>1. TypeOK'
    BY <2>0 DEF TypeOK
  <2>2. Durable'
    BY <2>0 DEF Durable, Progress
  <2>3. Paired'
    BY <2>0 DEF Paired, Fragile, TypeOK
  <2>4. Progress'
    BY <2>0 DEF Progress, TypeOK
  <2>5. Current'
    BY DEF Current, Fits, Loading, TypeOK, Reader
  <2> QED BY <2>1, <2>2, <2>3, <2>4, <2>5
<1>5. CASE SyncPayload
  <2> USE <1>5 DEF SyncPayload, SyncDirectory
  <2>1. TypeOK'
    BY DEF TypeOK
  <2>2. Durable'
    BY DEF Durable
  <2>3. Paired'
    BY DEF Paired, Fragile, Durable, TypeOK
  <2>4. Progress'
    BY DEF Progress, TypeOK
  <2>5. Current'
    BY DEF Current, Fits, Loading, TypeOK, Reader
  <2> QED BY <2>1, <2>2, <2>3, <2>4, <2>5
<1>6. CASE Describe
  <2> USE <1>6 DEF Describe
  <2>0. file' \in Files /\ file'.payload = file.payload /\ file'.manifest = file.payload
    BY DEF TypeOK, Files, Payloads
  <2>1. TypeOK'
    BY <2>0 DEF TypeOK
  <2>2. Durable'
    BY <2>0 DEF Durable
  <2>3. Paired'
    BY <2>0 DEF Paired, Fragile, TypeOK
  <2>4. Progress'
    BY <2>0 DEF Progress, TypeOK
  <2>5. Current'
    BY DEF Current, Fits, Loading, TypeOK, Reader
  <2> QED BY <2>1, <2>2, <2>3, <2>4, <2>5
<1>7. CASE SyncManifest
  <2> USE <1>7 DEF SyncManifest, SyncDirectory
  <2>1. TypeOK'
    BY DEF TypeOK
  <2>2. Durable'
    BY DEF Durable
  <2>3. Paired'
    BY DEF Paired, Fragile, Durable, TypeOK
  <2>4. Progress'
    BY DEF Progress, TypeOK
  <2>5. Current'
    BY DEF Current, Fits, Loading, TypeOK, Reader
  <2> QED BY <2>1, <2>2, <2>3, <2>4, <2>5
<1>8. CASE End \/ Kill
  <2> USE <1>8 DEF End, Kill
  <2>1. TypeOK'
    <3>1. faults' \in 0..MaxFaults
      BY DEF TypeOK
    <3> QED BY <3>1 DEF TypeOK
  <2>2. Durable'
    BY DEF Durable
  <2>3. Paired'
    BY DEF Paired, Fragile, TypeOK
  <2>4. Progress'
    BY DEF Progress, TypeOK
  <2>5. Current'
    BY DEF Current, Fits, Loading, TypeOK, Reader
  <2> QED BY <2>1, <2>2, <2>3, <2>4, <2>5
<1> QED BY <1>1, <1>2, <1>3, <1>4, <1>5, <1>6, <1>7, <1>8

\* The loss of the machine.
LEMMA LossInv == StoreInv /\ LoseMachine => StoreInv'
<1> SUFFICES ASSUME StoreInv, LoseMachine PROVE StoreInv'
  OBVIOUS
<1> USE SaveFacts DEF StoreInv, LoseMachine
<1>0. PICK left \in images : file' = Whole(left)
  OBVIOUS
<1>1. left \in Files /\ Whole(left) = left
  BY DEF TypeOK, Durable, Whole, Files, Payloads
<1>2. TypeOK'
  <2>1. Idle \in Reader
    BY DEF Payloads, Idle, Reader
  <2>2. reader' \in [Readers -> Reader]
    BY <2>1
  <2>3. faults' \in 0..MaxFaults
    BY DEF TypeOK
  <2> QED BY <1>0, <1>1, <2>2, <2>3 DEF TypeOK
<1>3. Durable' /\ Paired' /\ Progress'
  BY <1>0, <1>1 DEF Durable, Paired, Fragile, Progress, TypeOK
<1>4. Current'
  BY DEF Current, Fits, Idle
<1> QED BY <1>2, <1>3, <1>4

\* What the two ends of a reader's step leave.
LEMMA FinishTyped ==
    ASSUME TypeOK, NEW r \in Readers, NEW got \in Payloads \cup {Refused}, Finish(r, got)
    PROVE  /\ reader' \in [Readers -> Reader]
           /\ reader'[r] = [Idle EXCEPT !.got = got]
           /\ \A s \in Readers \ {r} : reader'[s] = reader[s]
<1>1. [Idle EXCEPT !.got = got] \in Reader
  BY DEF Idle, Reader, Payloads
<1> QED BY <1>1 DEF Finish, TypeOK

LEMMA GoesTyped ==
    ASSUME TypeOK, NEW r \in Readers, NEW to \in {"open", "stat", "load"},
           NEW described \in Payloads, Goes(r, to, described)
    PROVE  /\ reader' \in [Readers -> Reader]
           /\ reader'[r] = [reader[r] EXCEPT !.pc = to, !.described = described]
           /\ \A s \in Readers \ {r} : reader'[s] = reader[s]
<1>1. [reader[r] EXCEPT !.pc = to, !.described = described] \in Reader
  BY DEF TypeOK, Reader
<1> QED BY <1>1 DEF Goes, TypeOK

\* The readers' steps.
LEMMA ReaderInv ==
    ASSUME NEW r \in Readers, StoreInv,
           Resolve(r) \/ Exists(r) \/ Open(r) \/ Stat(r) \/ Load(r)
    PROVE  StoreInv'
<1> USE SaveFacts DEF StoreInv, Reads
<1>1. UNCHANGED <<artifact, file, images, written, writer, hindered, saves, faults>>
  BY DEF Resolve, Exists, Open, Stat, Load
<1>2. Durable' /\ Paired' /\ Progress'
  BY <1>1 DEF Durable, Paired, Fragile, Progress
<1>3. TypeOK'
  <2>1. reader' \in [Readers -> Reader]
    <3>1. CASE Resolve(r)
      <4>1. file.payload = Absent => Finish(r, Absent)
        BY <3>1 DEF Resolve
      <4>2. ASSUME file.payload # Absent PROVE reader' \in [Readers -> Reader]
        <5>1. [pc |-> IF artifact.checks THEN "exists" ELSE "load", described |-> Absent,
               got |-> Absent, overlapped |-> writer.pc # "idle"] \in Reader
          BY DEF Reader, Payloads
        <5> QED BY <3>1, <4>2, <5>1 DEF Resolve, TypeOK
      <4> QED BY <4>1, <4>2, FinishTyped DEF Payloads
    <3>2. CASE Exists(r)
      BY <3>2, FinishTyped, GoesTyped DEF Exists, Payloads
    <3>3. CASE Open(r)
      BY <3>3, FinishTyped, GoesTyped DEF Open, TypeOK, Files
    <3>4. CASE Stat(r)
      BY <3>4, FinishTyped, GoesTyped DEF Stat, TypeOK, Reader
    <3>5. CASE Load(r)
      BY <3>5, FinishTyped DEF Load, TypeOK, Files
    <3> QED BY <3>1, <3>2, <3>3, <3>4, <3>5
  <2> QED BY <1>1, <2>1 DEF TypeOK
<1>4. Current'
  <2>1. ASSUME NEW got \in Payloads \cup {Refused}, Finish(r, got)
        PROVE  /\ Fits(reader'[r])
               /\ \A s \in Readers \ {r} : reader'[s] = reader[s]
    <3>1. reader'[r] = [Idle EXCEPT !.got = got]
          /\ \A s \in Readers \ {r} : reader'[s] = reader[s]
      BY <2>1, FinishTyped
    <3> QED BY <3>1 DEF Fits, Idle
  <2>2. Fits(reader[r])
    BY DEF Current
  <2>3. reader[r] \in Reader
    BY DEF TypeOK
  <2>4. /\ Fits(reader'[r])
        /\ \A s \in Readers \ {r} : reader'[s] = reader[s]
    <3>1. CASE Resolve(r)
      <4>1. CASE file.payload = Absent
        BY <2>1, <3>1, <4>1 DEF Resolve, Payloads
      <4>2. CASE file.payload # Absent
        <5>1. reader' = [reader EXCEPT ![r] =
                           [pc |-> IF artifact.checks THEN "exists" ELSE "load",
                            described |-> Absent, got |-> Absent,
                            overlapped |-> writer.pc # "idle"]]
          BY <3>1, <4>2 DEF Resolve
        <5> QED BY <4>2, <5>1 DEF Fits, TypeOK
      <4> QED BY <4>1, <4>2
    <3>2. CASE Exists(r)
      <4>1. CASE file.manifest # Absent
        <5>1. Goes(r, "open", Absent)
          BY <3>2, <4>1 DEF Exists
        <5>2. reader'[r] = [reader[r] EXCEPT !.pc = "open", !.described = Absent]
              /\ \A s \in Readers \ {r} : reader'[s] = reader[s]
          BY <5>1, GoesTyped DEF Payloads
        <5> QED BY <2>2, <2>3, <3>2, <4>1, <5>2 DEF Exists, Fits, Reader
      <4>2. CASE file.manifest = Absent /\ artifact.needs
        BY <2>1, <3>2, <4>2 DEF Exists
      <4>3. CASE file.manifest = Absent /\ ~artifact.needs
        <5>1. Goes(r, "load", Absent)
          BY <3>2, <4>3 DEF Exists
        <5>2. reader'[r] = [reader[r] EXCEPT !.pc = "load", !.described = Absent]
              /\ \A s \in Readers \ {r} : reader'[s] = reader[s]
          BY <5>1, GoesTyped DEF Payloads
        <5> QED BY <2>2, <2>3, <3>2, <5>2 DEF Exists, Fits, Reader
      <4> QED BY <4>1, <4>2, <4>3
    <3>3. CASE Open(r)
      <4>1. CASE file.manifest = Absent
        BY <2>1, <3>3, <4>1 DEF Open
      <4>2. CASE file.manifest # Absent
        <5>1. Goes(r, "stat", file.manifest) /\ file.manifest \in Payloads
          BY <3>3, <4>2 DEF Open, TypeOK, Files
        <5>2. reader'[r] = [reader[r] EXCEPT !.pc = "stat", !.described = file.manifest]
              /\ \A s \in Readers \ {r} : reader'[s] = reader[s]
          BY <5>1, GoesTyped
        <5> QED BY <2>2, <2>3, <3>3, <4>2, <5>2 DEF Open, Fits, Reader
      <4> QED BY <4>1, <4>2
    <3>4. CASE Stat(r)
      <4>1. CASE Describes(reader[r].described, file.payload)
        <5>1. Goes(r, "load", reader[r].described) /\ reader[r].described \in Payloads
          BY <2>3, <3>4, <4>1 DEF Stat, Reader
        <5>2. reader'[r] = [reader[r] EXCEPT !.pc = "load", !.described = reader[r].described]
              /\ \A s \in Readers \ {r} : reader'[s] = reader[s]
          BY <5>1, GoesTyped
        <5> QED BY <2>2, <2>3, <3>4, <5>2 DEF Stat, Fits, Reader
      <4>2. CASE ~Describes(reader[r].described, file.payload)
        BY <2>1, <3>4, <4>2 DEF Stat
      <4> QED BY <4>1, <4>2
    <3>5. CASE Load(r)
      BY <2>1, <3>5 DEF Load, TypeOK, Files
    <3> QED BY <3>1, <3>2, <3>3, <3>4, <3>5
  <2> QED BY <1>1, <2>4 DEF Current, Fits
<1> QED BY <1>2, <1>3, <1>4

LEMMA NextInv == StoreInv /\ [Next]_vars => StoreInv'
<1> SUFFICES ASSUME StoreInv, [Next]_vars PROVE StoreInv'
  OBVIOUS
<1>1. CASE UNCHANGED vars
  BY <1>1 DEF vars, StoreInv, TypeOK, Durable, Paired, Fragile, Progress, Current, Fits
<1>2. CASE Next
  BY <1>2, WriterInv, LossInv, ReaderInv DEF Next
<1> QED BY <1>1, <1>2

\* The types hold, and no payload is ever torn.
THEOREM TypeCorrect == Spec => []TypeOK
<1>1. Init => StoreInv
  BY InitInv
<1>2. StoreInv /\ [Next]_vars => StoreInv'
  BY NextInv
<1>3. StoreInv => TypeOK
  BY DEF StoreInv
<1> QED BY <1>1, <1>2, <1>3, PTL DEF Spec

----------------------------------------------------------------------------
(* The refinement                                                          *)

LoadOf(r) == [loading |-> Loading(r), overlapped |-> reader[r].overlapped,
              got |-> reader[r].got]

LEMMA InitMaps == Init => Register!Init
<1> SUFFICES ASSUME Init PROVE Register!Init
  OBVIOUS
<1> USE DEF Init, NoFiles, Idle, Loading
<1>1. {f.payload : f \in images} = {Absent}
  OBVIOUS
<1>2. Fragile \in BOOLEAN /\ (writer.pc = "idle" /\ Unloadable) = FALSE
  BY DEF Fragile, Unloadable
<1> QED BY <1>1, <1>2 DEF Register!Init, Register!NotLoading

\* Whether what a cut save leaves is refused depends on its protocol only.
LEMMA CutSpoils ==
    ASSUME StoreInv, StoreInv', Fragile' = Fragile
    PROVE  (writer.pc = "idle" /\ Unloadable)' \in {FALSE, Fragile}
<1>1. CASE Fragile
  BY <1>1 DEF Fragile, Unloadable
<1>2. CASE ~Fragile
  <2>1. file'.manifest \in {Absent, file'.payload}
    BY <1>2 DEF StoreInv, Paired, Durable
  <2>2. ~Unloadable'
    <3>1. ~artifact'.needs
      BY <1>2, ArtifactFacts DEF StoreInv, TypeOK, Fragile
    <3>2. file'.manifest # Absent => file'.payload \in Saves
      BY <2>1 DEF StoreInv, TypeOK, Files, Payloads
    <3> QED BY <2>1, <3>1, <3>2, SaveFacts DEF Unloadable, Describes
  <2> QED BY <1>2, <2>2
<1> QED BY <1>1, <1>2

\* The writer's steps are steps of the register.
LEMMA WriterMaps ==
    ASSUME StoreInv, StoreInv', Begin \/ Remove \/ Write \/ Rename \/ SyncPayload \/ Describe
                        \/ SyncManifest \/ End \/ Kill
    PROVE  [Register!Next]_(Register!vars)
<1> USE SaveFacts
<1>0. Fragile \in BOOLEAN
  BY DEF Fragile, StoreInv, TypeOK
<1>1. CASE Begin
  <2>1. [r \in Readers |-> LoadOf(r)]' =
          [r \in Readers |-> IF LoadOf(r).loading THEN [LoadOf(r) EXCEPT !.overlapped = TRUE]
                            ELSE LoadOf(r)]
    <3> SUFFICES ASSUME NEW r \in Readers
                 PROVE  LoadOf(r)' = IF LoadOf(r).loading
                                     THEN [LoadOf(r) EXCEPT !.overlapped = TRUE] ELSE LoadOf(r)
      OBVIOUS
    <3>1. reader[r] \in Reader /\ Fits(reader[r])
      BY DEF StoreInv, TypeOK, Current
    <3>2. reader'[r] = [reader[r] EXCEPT !.overlapped = Loading(r)]
      BY <1>1 DEF Begin
    <3>3. reader'[r].pc = reader[r].pc /\ reader'[r].got = reader[r].got
          /\ reader'[r].overlapped = (reader[r].pc # "idle")
      BY <3>1, <3>2 DEF Reader, Loading
    <3> QED BY <3>1, <3>3 DEF LoadOf, Loading, Fits, Reader
  <2>2. Register!BeginSave
    BY <1>1, <2>1 DEF Begin, Register!BeginSave, Register!Overlap, LoadOf, Loading, Fragile,
       RemovesBefore
  <2> QED BY <2>2 DEF Register!Next
<1>2. CASE Remove
  <2>1. file'.payload = file.payload /\ file \in images /\ images' = images \cup {file'}
    BY <1>2 DEF Remove, StoreInv, TypeOK, Files, Durable
  <2>2. {f.payload : f \in images'} = {f.payload : f \in images}
    BY <2>1
  <2>3. CASE hindered' = hindered
    BY <1>2, <2>1, <2>2, <2>3 DEF Remove, Register!vars, Fragile, Loading
  <2>4. CASE hindered' = TRUE
    <3>1. Register!Hinder
      BY <1>2, <2>1, <2>2, <2>4 DEF Remove, Register!Hinder, Fragile, Loading
    <3> QED BY <3>1 DEF Register!Next
  <2> QED BY <1>2, <2>3, <2>4 DEF Remove
<1>3. CASE Write
  <2>1. CASE writer' = [writer EXCEPT !.pc = "rename"]
    BY <1>3, <2>1 DEF Write, Register!vars, Fragile, Loading, StoreInv, TypeOK
  <2>2. CASE writer' = [writer EXCEPT !.pc = "idle"]
    <3>1. (writer.pc = "idle" /\ Unloadable)' \in {FALSE, Fragile}
      BY <1>3, CutSpoils DEF Write, Fragile
    <3>2. Register!CutSave
      BY <1>3, <2>2, <3>1 DEF Write, Register!CutSave, Fragile, Loading, StoreInv, TypeOK
    <3> QED BY <3>2 DEF Register!Next
  <2> QED BY <1>3, <2>1, <2>2 DEF Write
<1>4. CASE Rename
  <2>1. file'.payload = writer.save /\ writer.save \in Saves
    BY <1>4 DEF Rename, StoreInv, TypeOK, Files, Progress
  <2>2. {f.payload : f \in images'} = {f.payload : f \in images} \cup {file'.payload}
    BY <1>4 DEF Rename
  <2>3. Register!Publish
    BY <1>4, <2>1, <2>2 DEF Rename, Register!Publish, Fragile, Loading, StoreInv, TypeOK
  <2> QED BY <2>3 DEF Register!Next
<1>5. CASE SyncPayload \/ SyncManifest
  <2>1. {f.payload : f \in images'} = {file.payload}
    BY <1>5 DEF SyncPayload, SyncManifest, SyncDirectory
  <2>2. Register!Settle
    BY <1>5, <2>1 DEF SyncPayload, SyncManifest, Register!Settle, Fragile, Loading, StoreInv, TypeOK
  <2> QED BY <2>2 DEF Register!Next
<1>6. CASE Describe
  <2>1. file'.payload = file.payload /\ file \in images /\ images' = images \cup {file'}
    BY <1>6 DEF Describe, StoreInv, TypeOK, Files, Durable
  <2>2. {f.payload : f \in images'} = {f.payload : f \in images}
    BY <2>1
  <2> QED BY <1>6, <2>1, <2>2 DEF Describe, Register!vars, Fragile, Loading, StoreInv, TypeOK
<1>7. CASE End
  <2>1. images = {file} /\ file.manifest = file.payload /\ file.payload \in Saves
    BY <1>7 DEF End, StoreInv, Progress
  <2>2. {f.payload : f \in images} = {file.payload} /\ ~Unloadable
    BY <2>1, PairedLoads
  <2>3. ~Unloadable'
    BY <1>7, <2>2 DEF End, Unloadable
  <2>4. Register!EndSave
    BY <1>7, <2>2, <2>3 DEF End, Register!EndSave, Fragile, Loading, StoreInv, TypeOK
  <2> QED BY <2>4 DEF Register!Next
<1>8. CASE Kill
  <2>1. (writer.pc = "idle" /\ Unloadable)' \in {FALSE, Fragile}
    BY <1>8, CutSpoils DEF Kill, Fragile
  <2>2. Register!CutSave
    BY <1>8, <2>1 DEF Kill, Register!CutSave, Fragile, Loading, StoreInv, TypeOK
  <2> QED BY <2>2 DEF Register!Next
<1> QED BY <1>1, <1>2, <1>3, <1>4, <1>5, <1>6, <1>7, <1>8

LEMMA LossMaps ==
    ASSUME StoreInv, StoreInv', LoseMachine
    PROVE  Register!Next
<1>1. PICK left \in images : file' = Whole(left)
  BY DEF LoseMachine
<1>2. file' = left /\ {f.payload : f \in images'} = {file'.payload}
  BY <1>1 DEF LoseMachine, StoreInv, TypeOK, Durable, Whole, Files, Payloads
<1>3. (writer.pc = "idle" /\ Unloadable)' \in {FALSE, Fragile}
  BY CutSpoils DEF LoseMachine, Fragile
<1>4. [r \in Readers |-> LoadOf(r)]' =
        [r \in Readers |-> [loading |-> FALSE, overlapped |-> FALSE, got |-> Absent]]
  BY DEF LoseMachine, LoadOf, Loading, Idle
<1>5. Register!Lose
  BY <1>2, <1>3, <1>4 DEF LoseMachine, Register!Lose, Register!NotLoading, LoadOf, Loading,
     Fragile, StoreInv, TypeOK
<1> QED BY <1>5 DEF Register!Next

\* A load ends in the register as it does here.
LEMMA EndsMaps ==
    ASSUME StoreInv, NEW r \in Readers, NEW got \in Payloads \cup {Refused},
           Finish(r, got), Reads
    PROVE  Register!Ends(r, got)
<1>1. reader'[r] = [Idle EXCEPT !.got = got]
      /\ (\A s \in Readers \ {r} : reader'[s] = reader[s])
  BY FinishTyped DEF StoreInv
<1>2. [s \in Readers |-> LoadOf(s)]' =
        [[s \in Readers |-> LoadOf(s)] EXCEPT ![r] =
           [[loading |-> FALSE, overlapped |-> FALSE, got |-> Absent] EXCEPT !.got = got]]
  BY <1>1 DEF LoadOf, Loading, Idle
<1> QED BY <1>2 DEF Register!Ends, Register!NotLoading, LoadOf, Loading, Reads, Fragile, Unloadable

LEMMA ReaderMaps ==
    ASSUME StoreInv, NEW r \in Readers,
           Resolve(r) \/ Exists(r) \/ Open(r) \/ Stat(r) \/ Load(r)
    PROVE  [Register!Next]_(Register!vars)
<1> USE SaveFacts
<1>0. reader[r] \in Reader /\ Fits(reader[r]) /\ TypeOK
  BY DEF StoreInv, TypeOK, Current
<1>1. \A got \in Payloads \cup {Refused} : Finish(r, got) /\ Reads => Register!Ends(r, got)
  BY EndsMaps
<1>2. ASSUME NEW to \in {"open", "stat", "load"}, NEW described \in Payloads,
             Loading(r), Goes(r, to, described), Reads
      PROVE  UNCHANGED Register!vars
  <2>1. reader'[r] = [reader[r] EXCEPT !.pc = to, !.described = described]
        /\ (\A s \in Readers \ {r} : reader'[s] = reader[s])
    BY <1>0, <1>2 DEF Goes, TypeOK
  <2>2. \A s \in Readers : LoadOf(s)' = LoadOf(s)
    BY <1>0, <1>2, <2>1 DEF LoadOf, Loading, Reader
  <2> QED BY <1>2, <2>2 DEF Register!vars, LoadOf, Loading, Reads, Fragile, Unloadable
<1>3. ASSUME Loading(r), Finish(r, Refused), Reads,
             ~reader[r].overlapped => Unloadable /\ writer.pc = "idle"
      PROVE  Register!Refuse(r)
  BY <1>1, <1>3 DEF Register!Refuse, LoadOf, Loading
<1>4. CASE Resolve(r)
  <2>1. CASE file.payload = Absent
    <3>1. Register!Miss(r)
      BY <1>1, <1>4, <2>1 DEF Resolve, Register!Miss, Payloads
    <3> QED BY <3>1 DEF Register!Next
  <2>2. CASE file.payload # Absent
    <3>1. reader' = [reader EXCEPT ![r] =
                       [pc |-> IF artifact.checks THEN "exists" ELSE "load", described |-> Absent,
                        got |-> Absent, overlapped |-> writer.pc # "idle"]]
      BY <1>4, <2>2 DEF Resolve
    <3>2. [s \in Readers |-> LoadOf(s)]' =
            [[s \in Readers |-> LoadOf(s)] EXCEPT ![r] =
               [loading |-> TRUE, overlapped |-> writer.pc # "idle", got |-> Absent]]
      BY <1>0, <3>1 DEF LoadOf, Loading, TypeOK
    <3>3. Register!StartLoad(r)
      BY <1>4, <2>2, <3>2 DEF Resolve, Reads, Register!StartLoad, LoadOf, Loading, Fragile,
         Unloadable
    <3> QED BY <3>3 DEF Register!Next
  <2> QED BY <2>1, <2>2
<1>5. CASE Exists(r)
  <2>1. CASE file.manifest # Absent
    BY <1>2, <1>5, <2>1 DEF Exists, Loading, Payloads
  <2>2. CASE file.manifest = Absent /\ artifact.needs
    <3>1. ~reader[r].overlapped => Unloadable /\ writer.pc = "idle"
      BY <1>0, <1>5, <2>2 DEF Exists, Fits, Unloadable
    <3>2. Register!Refuse(r)
      BY <1>3, <1>5, <2>2, <3>1 DEF Exists, Loading
    <3> QED BY <3>2 DEF Register!Next
  <2>3. CASE file.manifest = Absent /\ ~artifact.needs
    BY <1>2, <1>5, <2>3 DEF Exists, Loading, Payloads
  <2> QED BY <2>1, <2>2, <2>3
<1>6. CASE Open(r)
  <2>1. CASE file.manifest = Absent
    <3>1. reader[r].overlapped
      BY <1>0, <1>6, <2>1 DEF Open, Fits, Reader
    <3>2. Register!Refuse(r)
      BY <1>3, <1>6, <2>1, <3>1 DEF Open, Loading
    <3> QED BY <3>2 DEF Register!Next
  <2>2. CASE file.manifest # Absent
    BY <1>0, <1>2, <1>6, <2>2 DEF Open, Loading, TypeOK, Files
  <2> QED BY <2>1, <2>2
<1>7. CASE Stat(r)
  <2>1. CASE Describes(reader[r].described, file.payload)
    BY <1>0, <1>2, <1>7, <2>1 DEF Stat, Loading, Reader
  <2>2. CASE ~Describes(reader[r].described, file.payload)
    <3>1. ~reader[r].overlapped => Unloadable /\ writer.pc = "idle"
      BY <1>0, <1>7, <2>2 DEF Stat, Fits, Unloadable, Reader
    <3>2. Register!Refuse(r)
      BY <1>3, <1>7, <2>2, <3>1 DEF Stat, Loading
    <3> QED BY <3>2 DEF Register!Next
  <2> QED BY <2>1, <2>2
<1>8. CASE Load(r)
  <2>1. Loading(r) /\ file.payload \in Payloads /\ Finish(r, file.payload) /\ Reads
    BY <1>0, <1>8 DEF Load, Loading, TypeOK, Files
  <2>2. [s \in Readers |-> LoadOf(s)]' =
          [[s \in Readers |-> LoadOf(s)] EXCEPT ![r] =
             [[loading |-> FALSE, overlapped |-> FALSE, got |-> Absent]
                EXCEPT !.got = file.payload]]
    BY <1>0, <2>1 DEF Finish, LoadOf, Loading, Idle, TypeOK
  <2>3. Register!Return(r)
    BY <2>1, <2>2 DEF Register!Return, Register!Ends, Register!NotLoading, LoadOf, Loading,
       Reads, Fragile, Unloadable
  <2> QED BY <2>3 DEF Register!Next
<1> QED BY <1>4, <1>5, <1>6, <1>7, <1>8

\* An artifact is a register: its loads return whole payloads that were
\* stored while they ran, are refused only beside a save or after a cut save
\* of a fragile protocol, and a completed save is never lost.
THEOREM Refines == Spec => IsRegister
<1>1. Init => StoreInv /\ Register!Init
  BY InitInv, InitMaps
<1>2. StoreInv /\ [Next]_vars => StoreInv'
  BY NextInv
<1>3. StoreInv /\ [Next]_vars => [Register!Next]_(Register!vars)
  <2> SUFFICES ASSUME StoreInv, [Next]_vars PROVE [Register!Next]_(Register!vars)
    OBVIOUS
  <2>1. StoreInv'
    BY <1>2
  <2>2. CASE UNCHANGED vars
    BY <2>2 DEF vars, Register!vars, Fragile, Unloadable, Loading
  <2>3. CASE Next
    BY <2>1, <2>3, WriterMaps, LossMaps, ReaderMaps DEF Next
  <2> QED BY <2>2, <2>3
<1> QED BY <1>1, <1>2, <1>3, PTL DEF Spec, IsRegister, Register!Spec
=============================================================================
