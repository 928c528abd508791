--------------------------- MODULE RouterKd_proofs ---------------------------
(***************************************************************************)
(* Proofs about RouterKd for any number of batches, epochs and runs, any   *)
(* gradient accumulation and any checkpoint period.                        *)
(*                                                                         *)
(* None of the properties is inductive: they relate the weights in memory, *)
(* the writer's queue and the files, and a crash and a resume turn one     *)
(* into the other.  IInv says of every payload - in a file, in the queue,  *)
(* in the writer's hands - what it says of the state in memory.            *)
(*                                                                         *)
(* The second part is about RouterKdDdp for any number of ranks, batches   *)
(* and failures.  Abreast says that one script of collectives exists, each *)
(* point with its batch and its step, of which every rank has entered a    *)
(* prefix; each rank's own state is then a function of how far it got.     *)
(***************************************************************************)
EXTENDS RouterKd, RouterKdDdp, TLAPS, FiniteSetTheorems, WellFoundedInduction

----------------------------------------------------------------------------
(* The inductive invariant                                                 *)

Submitted == Payload \cup {StopJob}

TypeDisk ==
    /\ ckpts \in [Steps -> Payload \cup {Absent}]
    /\ bestFile \in [step: Steps, ema: Emas, weights: Seq(Window)] \cup {Absent}
    /\ final \in Seq(Window) \cup {Absent}
TypeControl ==
    /\ pc \in {"down", "clear", "restore", "train", "log", "save", "put", "stop", "join",
               "last", "close", "closing", "reload", "export", "done"}
    /\ runs \in Nat /\ failures \in Nat /\ failed \in BOOLEAN /\ ragged \in BOOLEAN
    /\ ga \in GradAccums /\ async \in BOOLEAN /\ every \in CkptEverys
TypeLoop ==
    /\ epoch \in 0 .. Epochs /\ at \in 0 .. Batches /\ step \in Steps
    /\ weights \in Seq(Window) /\ grads \in SUBSET Positions
TypeTracker ==
    /\ emas \in Seq(Emas) /\ best \in 1 .. Inf /\ bestStep \in Steps
    /\ noImp \in Nat /\ esRef \in 1 .. Inf /\ stop \in BOOLEAN
TypeWriter ==
    /\ queue = <<>> \/ \E p \in Submitted : queue = <<p>>
    /\ job \in Payload \cup {Absent}
    /\ wpc \in {"idle", "write", "prune", "stopped"} /\ error \in BOOLEAN
TypeOK == TypeDisk /\ TypeControl /\ TypeLoop /\ TypeTracker /\ TypeWriter

\* The training thread and the writer: who waits for whom, and where an error
\* of the writer can still be unseen.
Handshake ==
    /\ wpc \in {"write", "prune"} <=> job # Absent
    /\ pc \in {"put", "join", "close", "closing"} => async
    /\ ~async \/ pc \in {"down", "clear", "restore"} => queue = <<>> /\ wpc = "idle" /\ ~error
    /\ queue = <<StopJob>> => pc = "closing"
    /\ wpc = "stopped" => queue = <<>> /\ pc \in {"closing", "reload", "export", "done"}
    /\ pc = "closing" => queue = <<StopJob>> \/ (queue = <<>> /\ wpc = "stopped")
    /\ pc = "last" => queue = <<>> /\ wpc = "idle" /\ ~error
    /\ pc \in {"reload", "export", "done"} =>
          queue = <<>> /\ wpc \in {"idle", "stopped"} /\ ~error
    /\ failed => pc = "down" \/ error

\* Optimizer steps in one epoch.
Each(g) == Batches \div g

\* In epoch e, with q windows of it done, the s-th step has been taken.
Counted(e, q, s, g) == q \in 0 .. Each(g) /\ s = e * Each(g) + q

\* The loop's position says how many steps were taken and which gradients are
\* in the accumulators.
Placed ==
    /\ pc \in {"down", "clear", "restore"} =>
          epoch = 0 /\ at = 0 /\ step = 0 /\ grads = {} /\ weights = <<>> /\ emas = <<>>
    /\ pc = "train" =>
          \E q \in 0 .. Batches :
              /\ Counted(epoch, q, step, ga) /\ q * ga <= at /\ at < q * ga + ga
              /\ grads = q * ga .. at - 1
              /\ epoch = Epochs => at = 0
    /\ pc \in {"log", "save", "put", "stop", "join", "last"} =>
          /\ epoch < Epochs /\ at < Batches /\ grads = {}
          /\ \E q \in 1 .. Batches : Counted(epoch, q, step, ga) /\ at + 1 = q * ga

\* w is what s undisturbed steps with gradient accumulation g make.
Trained(w, s, g) == Len(w) = s /\ Undisturbed(w, g)

\* b is what Lowest stands for, k what Newest(Improving) stands for.
IsLowest(b, es) ==
    /\ \A i \in DOMAIN es : b <= es[i]
    /\ b = Inf \/ \E i \in DOMAIN es : es[i] = b
IsNewest(k, S) == k \in S /\ \A t \in S : t <= k
Tracked(es, b, n, r) ==
    /\ SaveBest => IsLowest(b, es)
    /\ Patience > 0 => /\ IsLowest(r, es)
                       /\ \/ es = <<>> /\ n = 0
                          \/ \E k \in DOMAIN es : IsNewest(k, Improving(es)) /\ n = Len(es) - k

\* A payload is a state the undisturbed run passes through.
Sound(p) ==
    /\ Trained(p.weights, p.step, p.ga)
    /\ \E q \in 1 .. Batches : Counted(p.epoch, q, p.step, p.ga) /\ p.at + 1 = q * p.ga
    /\ Tracked(p.emas, p.best, p.noImp, p.esRef)

Faithful == pc \notin {"export", "done"} => Trained(weights, step, ga)
Following == /\ Tracked(emas, best, noImp, esRef)
             /\ stop => Patience > 0 /\ Patience <= noImp /\ emas # <<>>
             /\ stop => pc \in {"save", "put", "stop", "join", "last", "close", "closing",
                                "reload", "export", "done"}

\* Payloads on their way to the disk.
Queued == {queue[i] : i \in DOMAIN queue} \ {StopJob}
InHand == {job} \ {Absent}

Stored == /\ \A s \in Saved : ckpts[s].step = s /\ Sound(ckpts[s])
          /\ \A p \in Queued \cup InHand : Sound(p)

\* Files, the writer's payload, the queue and the memory are in the order of
\* training; the best EMA only falls.
Before(p, s, b) == p.step <= s /\ b <= p.best
Ordered ==
    /\ \A s, t \in Saved : s <= t => ckpts[t].best <= ckpts[s].best
    /\ \A p \in Queued \cup InHand, s \in Saved : Before(ckpts[s], p.step, p.best)
    /\ \A p \in InHand, r \in Queued : Before(p, r.step, r.best)
    /\ Up => /\ \A s \in Saved : Before(ckpts[s], step, best)
             /\ \A p \in Queued \cup InHand : Before(p, step, best)
    /\ wpc = "prune" => job.step \in Saved

\* best.pt is at least as good as what was seen on the way to any payload.
Beaten(es, b) == es # <<>> => bestFile # Absent /\ bestFile.ema <= b
BestKept ==
    SaveBest /\ ~ragged =>
        /\ Beaten(emas, best)
        /\ \A s \in Saved : Beaten(ckpts[s].emas, ckpts[s].best)
        /\ \A p \in Queued \cup InHand : Beaten(p.emas, p.best)
BestLoaded ==
    pc = "export" /\ SaveBest /\ emas # <<>> /\ ~ragged => weights = bestFile.weights

\* Of the steps up to Decided it is settled whether a checkpoint is due.
Decided == IF pc \in {"log", "save", "put"} THEN step - 1 ELSE step
NoneDue(a, b, n) == \A k \in a + 1 .. b : k % n # 0
Reached(s) == \E t \in Saved \cup {0} : s <= t + every
Lagging ==
    Up /\ ~failed =>
        /\ \A p \in InHand : Reached(p.step)
        /\ \A p \in Queued : Reached(p.step) \/ \E r \in InHand : p.step <= r.step + every
        /\ \E a \in Saved \cup {0} \cup {p.step : p \in Queued \cup InHand} :
              a <= step /\ NoneDue(a, Decided, every)

IInv == /\ TypeOK /\ Handshake /\ Placed /\ Faithful /\ Following /\ Stored /\ Ordered
        /\ BestKept /\ BestLoaded /\ Lagging

----------------------------------------------------------------------------
(* Lemmas on numbers and sets                                              *)

LEMMA DivMod ==
    ASSUME NEW a \in Nat, NEW b \in Nat \ {0}
    PROVE  /\ a \div b \in Nat /\ a % b \in 0 .. b - 1
           /\ a = (a \div b) * b + (a % b)
OBVIOUS

LEMMA DivModUnique ==
    ASSUME NEW b \in Nat \ {0}, NEW q \in Nat, NEW r \in 0 .. b - 1
    PROVE  (q * b + r) \div b = q /\ (q * b + r) % b = r
OBVIOUS

\* Among m consecutive numbers one is a multiple of m.
LEMMA GapBound ==
    ASSUME NEW m \in Nat \ {0}, NEW a \in Nat, NEW b \in Nat,
           \A n \in a + 1 .. b : n % m # 0
    PROVE  b < a + m
<1> DEFINE n == ((a \div m) + 1) * m
<1>1. a \div m \in Nat /\ a % m \in 0 .. m - 1 /\ a = (a \div m) * m + (a % m)
  BY DivMod
<1>2. n \in Nat /\ a + 1 <= n /\ n <= a + m
  BY <1>1
<1>3. n % m = 0
  BY <1>1, <1>2
<1> QED
  BY <1>2, <1>3

LEMMA LessWellFounded ==
    \E R : IsWellFoundedOn(R, Nat) /\ \A x, y \in Nat : x < y => <<x, y>> \in R
<1>1. \A x, y \in Nat : x < y => <<x, y>> \in OpToRel(<, Nat)
  BY DEF OpToRel
<1> QED
  BY <1>1, NatLessThanWellFounded, Zenon

LEMMA OldestExists ==
    ASSUME NEW S \in SUBSET Nat, S # {}
    PROVE  Oldest(S) \in S /\ \A t \in S : Oldest(S) <= t
<1>1. PICK R : IsWellFoundedOn(R, Nat) /\ \A x, y \in Nat : x < y => <<x, y>> \in R
  BY LessWellFounded
<1>2. IsWellFoundedOn(R, Nat) /\ S \subseteq Nat
  BY <1>1
<1>3. PICK x \in S : \A y \in S : ~(<<y, x>> \in R)
  BY <1>2, WFMin, Zenon
<1>4. \A y \in S : ~(y < x)
  BY <1>1, <1>3, Zenon
<1>5. \A y \in S : x <= y
  BY <1>4
<1> QED
  BY <1>5 DEF Oldest

LEMMA NewestExists ==
    ASSUME NEW n \in Nat, NEW S \in SUBSET (0 .. n), S # {}
    PROVE  Newest(S) \in S /\ \A t \in S : t <= Newest(S)
<1> DEFINE T == {k \in 0 .. n : n - k \in S}
<1>1. PICK s \in S : TRUE
  OBVIOUS
<1>2. n - s \in T
  BY <1>1
<1>3. T \in SUBSET Nat /\ T # {}
  BY <1>2
<1>4. Oldest(T) \in T /\ \A k \in T : Oldest(T) <= k
  BY <1>3, OldestExists
<1>5. n - Oldest(T) \in S /\ \A t \in S : n - t \in T
  BY <1>4
<1>6. \A t \in S : t <= n - Oldest(T)
  BY <1>4, <1>5
<1> QED
  BY <1>5, <1>6 DEF Newest

LEMMA NewestIs ==
    ASSUME NEW S \in SUBSET Nat, NEW k, IsNewest(k, S)
    PROVE  Newest(S) = k
<1>1. k \in S /\ \A t \in S : t <= k
  BY DEF IsNewest
<1>2. \A m \in S : (\A t \in S : t <= m) => m = k
  BY <1>1
<1> QED
  BY <1>1, <1>2 DEF Newest

----------------------------------------------------------------------------
(* Lemmas on positions and payloads                                        *)

LEMMA SizeFacts ==
    /\ Batches \in Nat \ {0} /\ Epochs \in Nat \ {0} /\ LogEvery \in Nat \ {0}
    /\ \A n \in CkptEverys : n \in Nat \ {0}
    /\ Inf \in Nat \ {0} /\ \A b \in 1 .. Inf : b \in Nat
    /\ \A g \in GradAccums :
          /\ g \in Nat \ {0} /\ g <= Batches
          /\ Each(g) \in Nat \ {0} /\ Each(g) <= Batches
          /\ Each(g) * g <= Batches /\ Batches < Each(g) * g + g
<1>1. \A g \in GradAccums : g \in Nat \ {0} /\ g <= Batches
  BY SizesAssumption
<1>2. ASSUME NEW g \in Nat \ {0}, g <= Batches
      PROVE  /\ Each(g) \in Nat \ {0} /\ Each(g) <= Batches
             /\ Each(g) * g <= Batches /\ Batches < Each(g) * g + g
  <2>1. /\ Batches \in Nat /\ Each(g) \in Nat /\ Batches % g \in 0 .. g - 1
        /\ Batches = Each(g) * g + (Batches % g)
    BY <1>2, SizesAssumption, DivMod DEF Each
  <2>2. Each(g) # 0
    BY <2>1, <1>2
  <2>3. Each(g) <= Each(g) * g
    BY <2>1
  <2> QED
    BY <2>1, <2>2, <2>3
<1> QED
  BY <1>1, <1>2, SizesAssumption DEF Inf

LEMMA WindowCount ==
    ASSUME NEW g \in GradAccums, NEW q \in Nat, q * g <= Batches
    PROVE  q <= Each(g)
<1>1. /\ g \in Nat \ {0} /\ Each(g) \in Nat /\ Batches \in Nat
      /\ Batches < Each(g) * g + g
  BY SizeFacts
<1>2. q * g < (Each(g) + 1) * g
  BY <1>1
<1> QED
  BY <1>1, <1>2

LEMMA StepBound ==
    ASSUME NEW g \in GradAccums, NEW e \in 0 .. Epochs - 1, NEW q \in 0 .. Each(g)
    PROVE  e * Each(g) + q \in Steps
<1>1. /\ Each(g) \in Nat /\ Batches \in Nat /\ Epochs \in Nat /\ Each(g) <= Batches
  BY SizeFacts
<1>2. e * Each(g) + q <= (e + 1) * Each(g)
  BY <1>1
<1>3. (e + 1) * Each(g) <= Epochs * Each(g)
  BY <1>1
<1>4. Epochs * Each(g) <= Batches * Epochs
  BY <1>1
<1>5. e * Each(g) + q \in Nat /\ (e + 1) * Each(g) \in Nat /\ Epochs * Each(g) \in Nat
      /\ Batches * Epochs \in Nat
  BY <1>1
<1> QED
  BY <1>2, <1>3, <1>4, <1>5 DEF Steps

\* The step at the end of window q of epoch e is the one Nth describes.
LEMMA NthWindow ==
    ASSUME NEW g \in GradAccums, NEW e \in 0 .. Epochs - 1, NEW q \in 0 .. Each(g) - 1
    PROVE  Nth(e * Each(g) + q + 1, g) = [epoch |-> e, of |-> q * g .. q * g + g - 1]
<1> DEFINE k == e * Each(g) + q
<1>1. Each(g) \in Nat \ {0} /\ g \in Nat \ {0} /\ e \in Nat /\ q \in Nat
  BY SizeFacts
<1>2. k \in Nat /\ k \div Each(g) = e /\ k % Each(g) = q
  <2>1. k \in Nat
    BY <1>1
  <2>2. k \div Each(g) = e /\ k % Each(g) = q
    BY <1>1, DivModUnique, Zenon
  <2> QED
    BY <2>1, <2>2
<1>3. q * g \in Nat
  BY <1>1
<1>4. {q * g + j : j \in 0 .. g - 1} = q * g .. q * g + g - 1
  <2> DEFINE a == q * g
  <2>1. a \in Nat
    BY <1>3
  <2> HIDE DEF a
  <2>2. \A x \in a .. a + g - 1 : x - a \in 0 .. g - 1 /\ x = a + (x - a)
    BY <1>1, <2>1
  <2>3. \A j \in 0 .. g - 1 : a + j \in a .. a + g - 1
    BY <1>1, <2>1
  <2>4. {a + j : j \in 0 .. g - 1} = a .. a + g - 1
    BY <2>2, <2>3
  <2> QED
    BY <2>4 DEF a
<1> HIDE DEF k
<1>5. (k + 1) - 1 = k
  BY <1>2
<1>6. Nth(k + 1, g) = [epoch |-> k \div Each(g),
                       of |-> {(k % Each(g)) * g + j : j \in 0 .. g - 1}]
  BY <1>5, Zenon DEF Nth, Each
<1>7. Nth(k + 1, g) = [epoch |-> e, of |-> {q * g + j : j \in 0 .. g - 1}]
  BY <1>2, <1>6, Zenon
<1> QED
  BY <1>4, <1>7 DEF k

\* A window that ends at a boundary is complete.
LEMMA BoundaryCloses ==
    ASSUME NEW g \in GradAccums, NEW q \in Nat, NEW n \in Nat,
           q * g <= n, n < q * g + g, (n + 1) % g = 0
    PROVE  n + 1 = (q + 1) * g
<1>1. g \in Nat \ {0}
  BY SizeFacts
<1>2. /\ (n + 1) \div g \in Nat /\ n + 1 = ((n + 1) \div g) * g + ((n + 1) % g)
  BY <1>1, DivMod
<1> DEFINE d == (n + 1) \div g
<1>3. d \in Nat /\ n + 1 = d * g
  BY <1>2, <1>1
<1> HIDE DEF d
<1>4. q * g < d * g /\ d * g <= (q + 1) * g
  BY <1>1, <1>3
<1>5. q < d /\ d <= q + 1
  BY <1>1, <1>3, <1>4
<1> QED
  BY <1>3, <1>5

LEMMA BoundaryOpens ==
    ASSUME NEW g \in GradAccums, NEW q \in Nat, NEW n \in Nat,
           q * g <= n, n < q * g + g, (n + 1) % g # 0
    PROVE  n + 1 < q * g + g
<1>1. g \in Nat \ {0}
  BY SizeFacts
<1>2. ((q + 1) * g) % g = 0
  <2>1. 0 \in 0 .. g - 1 /\ q + 1 \in Nat /\ (q + 1) * g + 0 = (q + 1) * g
    BY <1>1
  <2> QED
    BY <1>1, <2>1, DivModUnique
<1>3. q * g + g = (q + 1) * g
  BY <1>1
<1> QED
  BY <1>1, <1>2, <1>3

----------------------------------------------------------------------------
(* The steps                                                               *)

LEMMA StepKinds ==
    ASSUME [Next]_vars
    PROVE  \/ \E g \in GradAccums, a \in Asyncs, n \in CkptEverys, resume \in BOOLEAN :
                 Start(g, a, n, resume)
           \/ ClearFile \/ Cleared \/ NothingSaved \/ Restore \/ Raise
           \/ Accumulate \/ OptimizerStep \/ EndEpoch \/ AllTrained
           \/ \E e \in Emas : LogWindow(e)
           \/ NotDue \/ SubmitPasses \/ Put \/ SaveSync \/ GoOn \/ StopEarly \/ Join
           \/ SaveLast \/ SaveFails \/ Close \/ Closed \/ Take \/ Write \/ WriteFails
           \/ Prune \/ TaskDone \/ Reload \/ Export \/ UNCHANGED vars
BY DEF Next, Training, Recover, Train, Checkpoint, Writer, Refuse, SubmitRaises, JoinRaises,
       CloseRaises, Crash, Finished

\* What the prune leaves: the newest two, and so the newest.
LEMMA PrunedKeeps ==
    ASSUME NEW c \in [Steps -> Payload \cup {Absent}]
    PROVE  /\ Pruned(c) \in [Steps -> Payload \cup {Absent}]
           /\ \A s \in Steps : Pruned(c)[s] \in {c[s], Absent}
           /\ \A s \in Steps : (\A t \in Steps : c[t] # Absent => t <= s) => Pruned(c)[s] = c[s]
<1>1. Pruned(c) \in [Steps -> Payload \cup {Absent}]
      /\ \A s \in Steps : Pruned(c)[s] \in {c[s], Absent}
  BY DEF Pruned
<1>2. ASSUME NEW s \in Steps, \A t \in Steps : c[t] # Absent => t <= s
      PROVE  Pruned(c)[s] = c[s]
  <2> DEFINE saved == {t \in Steps : c[t] # Absent}
  <2>1. {t \in saved : t > s} = {}
    BY <1>2, SizeFacts DEF Steps
  <2>2. Cardinality({t \in saved : t > s}) = 0
    BY <2>1, FS_EmptySet, Zenon
  <2>3. Pruned(c)[s] = IF Cardinality({t \in saved : t > s}) >= 2 THEN Absent ELSE c[s]
    BY DEF Pruned
  <2> QED
    BY <2>2, <2>3
<1> QED
  BY <1>1, <1>2

\* Of more than two files the oldest is not the newest.
LEMMA OldestSpared ==
    ASSUME NEW S \in SUBSET Steps, Cardinality(S) > 2
    PROVE  /\ Oldest(S) \in S /\ \A t \in S : Oldest(S) <= t
           /\ \E t \in S : t # Oldest(S) /\ Oldest(S) <= t
<1>1. Steps \subseteq Nat /\ IsFiniteSet(Steps)
  BY SizeFacts, FS_Interval DEF Steps
<1>2. IsFiniteSet(S)
  BY <1>1, FS_Subset
<1>3. S # {}
  BY FS_EmptySet
<1>4. Oldest(S) \in S /\ \A t \in S : Oldest(S) <= t
  BY <1>1, <1>3, OldestExists
<1>5. S # {Oldest(S)}
  BY FS_Singleton
<1>6. PICK t \in S : t # Oldest(S)
  BY <1>3, <1>5
<1> QED
  BY <1>4, <1>6

LEMMA Sentinels == Absent \notin Payload /\ StopJob \notin Payload /\ Absent # StopJob
BY SentinelsAssumption

\* A checkpoint is written where the step it is named after was taken.
LEMMA SnapshotTyped ==
    ASSUME TypeOK, Placed, pc \in {"save", "put", "last"}
    PROVE  /\ Snapshot \in Payload
           /\ Snapshot.step = step /\ Snapshot.emas = emas /\ Snapshot.best = best
<1>1. epoch \in 0 .. Epochs - 1 /\ at \in Positions
  BY SizeFacts DEF TypeOK, TypeLoop, Placed, Positions
<1>2. /\ step \in Steps /\ ga \in GradAccums /\ weights \in Seq(Window) /\ emas \in Seq(Emas)
      /\ best \in 1 .. Inf /\ bestStep \in Steps /\ noImp \in Nat /\ esRef \in 1 .. Inf
  BY DEF TypeOK, TypeControl, TypeLoop, TypeTracker
<1> QED
  BY <1>1, <1>2 DEF Snapshot, Payload

\* A write on the training thread: the state in memory, beside older files.
LEMMA SavedHere ==
    ASSUME TypeOK, Placed, SaveSync \/ SaveLast \/ SaveFails
    PROVE  /\ Snapshot \in Payload /\ Snapshot.step = step
           /\ Snapshot.emas = emas /\ Snapshot.best = best
           /\ \A s \in Saved' : \/ s \in Saved /\ ckpts'[s] = ckpts[s]
                                \/ s = step /\ ckpts'[s] = Snapshot
           /\ (SaveSync \/ SaveLast) /\ (\A s \in Saved : s <= step) => step \in Saved'
<1>0. /\ ckpts \in [Steps -> Payload \cup {Absent}]
      /\ Saved = {s \in Steps : ckpts[s] # Absent} /\ Saved' = {s \in Steps : ckpts'[s] # Absent}
      /\ step \in Steps /\ \A s \in Steps : s \in Nat
  BY SizeFacts DEF TypeOK, TypeDisk, TypeLoop, Saved, Steps
<1>1. /\ Snapshot \in Payload /\ Snapshot.step = step
      /\ Snapshot.emas = emas /\ Snapshot.best = best
  BY SnapshotTyped DEF SaveSync, SaveLast, SaveFails
<1> DEFINE c == [ckpts EXCEPT ![step] = Snapshot]
<1>2. c \in [Steps -> Payload \cup {Absent}] /\ c[step] = Snapshot
      /\ \A s \in Steps \ {step} : c[s] = ckpts[s]
  BY <1>0, <1>1
<1>3. SaveSync \/ SaveLast => ckpts' = Pruned(c)
  BY DEF SaveSync, SaveLast, WriteHere
<1>4. SaveFails => ckpts' \in {ckpts, c}
  BY DEF SaveFails
<1> HIDE DEF c
<1>5. \A s \in Steps : ckpts'[s] \in {c[s], ckpts[s], Absent}
  BY <1>0, <1>2, <1>3, <1>4, PrunedKeeps
<1>6. ASSUME SaveSync \/ SaveLast, \A s \in Saved : s <= step PROVE step \in Saved'
  <2>1. \A s \in Steps : c[s] # Absent => s <= step
    BY <1>0, <1>2, <1>6
  <2>2. ckpts'[step] = Snapshot
    BY <1>0, <1>2, <1>3, <1>6, <2>1, PrunedKeeps
  <2> QED
    BY <1>0, <1>1, <2>2, Sentinels
<1>7. \A s \in Saved' : \/ s \in Saved /\ ckpts'[s] = ckpts[s]
                        \/ s = step /\ ckpts'[s] = Snapshot
  <2> TAKE s \in Saved'
  <2>1. s \in Steps /\ ckpts'[s] # Absent /\ (ckpts[s] # Absent => s \in Saved)
    BY <1>0
  <2>2. ckpts'[s] = c[s] \/ ckpts'[s] = ckpts[s]
    BY <1>5, <2>1
  <2>3. c[s] = ckpts[s] \/ (s = step /\ c[s] = Snapshot)
    BY <1>2, <2>1
  <2> QED
    BY <2>1, <2>2, <2>3
<1> QED
  BY <1>1, <1>6, <1>7

LEMMA SnapshotSound ==
    ASSUME TypeOK, Placed, Faithful, Following, pc \in {"save", "put", "last"}
    PROVE  Sound(Snapshot)
<1>1. Trained(weights, step, ga) /\ Tracked(emas, best, noImp, esRef)
  BY DEF Faithful, Following
<1>2. \E q \in 1 .. Batches : Counted(epoch, q, step, ga) /\ at + 1 = q * ga
  BY DEF Placed
<1> QED
  BY <1>1, <1>2 DEF Sound, Snapshot

LEMMA NewestSaved ==
    ASSUME TypeOK, Saved # {}
    PROVE  /\ Newest(Saved) \in Saved /\ \A t \in Saved : t <= Newest(Saved)
           /\ ckpts[Newest(Saved)] \in Payload
<1>1. Batches * Epochs \in Nat /\ Saved \in SUBSET (0 .. Batches * Epochs)
  BY SizeFacts DEF Saved, Steps
<1>2. Newest(Saved) \in Saved /\ \A t \in Saved : t <= Newest(Saved)
  BY <1>1, NewestExists
<1> QED
  BY <1>2 DEF TypeOK, TypeDisk, Saved

LEMMA ControlTyped == ASSUME TypeOK, [Next]_vars PROVE TypeControl'
<1> USE DEF TypeControl, setting
<1>0. TypeControl
  BY DEF TypeOK
<1> USE <1>0
<1>1. CASE \E g \in GradAccums, a \in Asyncs, n \in CkptEverys, resume \in BOOLEAN :
                Start(g, a, n, resume)
  <2>1. PICK g \in GradAccums, a \in Asyncs, n \in CkptEverys, resume \in BOOLEAN :
                Start(g, a, n, resume)
    BY <1>1, Zenon
  <2>2. a \in BOOLEAN
    BY SwitchesAssumption, Zenon
  <2>3. pc' \in {"restore", "clear"} /\ runs' \in Nat
    BY <2>1 DEF Start
  <2>4. UNCHANGED <<failures, ragged>> /\ failed' = FALSE /\ ga' = g /\ async' = a /\ every' = n
    BY <2>1, Zenon DEF Start
  <2> QED
    BY <2>2, <2>3, <2>4
<1>2. CASE ClearFile \/ Cleared \/ NothingSaved \/ Restore \/ Raise
  BY <1>2 DEF ClearFile, Cleared, NothingSaved, Restore, Loaded, Raise
<1>3. CASE Accumulate \/ OptimizerStep \/ EndEpoch \/ AllTrained \/ \E e \in Emas : LogWindow(e)
  BY <1>3 DEF Accumulate, OptimizerStep, EndEpoch, AllTrained, LogWindow
<1>4. CASE NotDue \/ SubmitPasses \/ Put \/ SaveSync \/ GoOn \/ StopEarly
  BY <1>4 DEF NotDue, SubmitPasses, Put, SaveSync, GoOn, StopEarly
<1>5. CASE Join \/ SaveLast \/ Close \/ Closed \/ Reload \/ Export
  BY <1>5 DEF Join, SaveLast, Close, Closed, Reload, Export
<1>6. CASE SaveFails
  <2>1. pc' = "down" /\ failures' \in Nat
    BY <1>6 DEF SaveFails
  <2>2. failed' = TRUE /\ UNCHANGED <<runs, setting, ragged>>
    BY <1>6, Zenon DEF SaveFails
  <2> QED
    BY <2>1, <2>2
<1>7. CASE WriteFails
  <2>1. failures' \in Nat
    BY <1>7 DEF WriteFails
  <2>2. failed' = TRUE /\ UNCHANGED <<runs, pc, setting, ragged>>
    BY <1>7, Zenon DEF WriteFails
  <2> QED
    BY <2>1, <2>2
<1>8. CASE Take \/ Write \/ Prune \/ TaskDone
  BY <1>8 DEF Take, Write, Prune, TaskDone
<1>9. CASE UNCHANGED vars
  BY <1>9 DEF vars
<1> QED
  BY <1>1, <1>2, <1>3, <1>4, <1>5, <1>6, <1>7, <1>8, <1>9, StepKinds

LEMMA DiskTyped == ASSUME TypeOK, Handshake, Placed, [Next]_vars PROVE TypeDisk'
<1> USE DEF TypeDisk, disk
<1>0. TypeDisk
  BY DEF TypeOK
<1> USE <1>0
<1>1. CASE UNCHANGED disk
  BY <1>1
<1>2. CASE ClearFile
  BY <1>2 DEF ClearFile, Saved
<1>3. CASE \E e \in Emas : LogWindow(e)
  BY <1>3 DEF LogWindow, TypeOK, TypeLoop
<1>4. CASE SaveSync \/ SaveLast
  <2>1. Snapshot \in Payload
    BY <1>4, SnapshotTyped DEF SaveSync, SaveLast
  <2>2. ckpts' \in [Steps -> Payload \cup {Absent}]
    BY <1>4, <2>1, PrunedKeeps DEF SaveSync, SaveLast, WriteHere
  <2> QED
    BY <1>4, <2>2 DEF SaveSync, SaveLast
<1>5. CASE SaveFails
  <2>1. Snapshot \in Payload
    BY <1>5, SnapshotTyped DEF SaveFails
  <2> QED
    BY <1>5, <2>1 DEF SaveFails
<1>6. CASE Write \/ WriteFails
  <2>1. job \in Payload
    BY <1>6 DEF Write, WriteFails, Handshake, TypeOK, TypeWriter
  <2> QED
    BY <1>6, <2>1 DEF Write, WriteFails
<1>7. CASE Prune
  BY <1>7 DEF Prune
<1>8. CASE Export
  BY <1>8 DEF Export, TypeOK, TypeLoop
<1> QED
  BY <1>1, <1>2, <1>3, <1>4, <1>5, <1>6, <1>7, <1>8, StepKinds
     DEF Start, Cleared, NothingSaved, Restore, Loaded, Raise, Accumulate, OptimizerStep, EndEpoch,
         AllTrained, NotDue, SubmitPasses, Put, GoOn, StopEarly, Join, Close, Closed, Take, TaskDone,
         Reload, vars

LEMMA FreshTyped == ASSUME Fresh PROVE TypeLoop' /\ TypeTracker' /\ TypeWriter'
<1>1. 0 \in Steps /\ 0 \in 0 .. Epochs /\ 0 \in 0 .. Batches /\ Inf \in 1 .. Inf
  BY SizeFacts DEF Steps
<1>2. TypeLoop'
  BY <1>1 DEF Fresh, TypeLoop
<1>3. TypeTracker'
  <2>1. /\ emas' = <<>> /\ best' = Inf /\ bestStep' = 0 /\ noImp' = 0 /\ esRef' = Inf
        /\ stop' = FALSE
    BY Zenon DEF Fresh
  <2>2. emas' \in Seq(Emas)
    BY <2>1
  <2>3. best' \in 1 .. Inf /\ bestStep' \in Steps /\ esRef' \in 1 .. Inf
    BY <1>1, <2>1, Zenon
  <2>4. noImp' \in Nat /\ stop' \in BOOLEAN
    BY <2>1
  <2> QED
    BY <2>2, <2>3, <2>4 DEF TypeTracker
<1>4. TypeWriter'
  BY <1>1 DEF Fresh, TypeWriter
<1> QED
  BY <1>2, <1>3, <1>4

\* The boundary of window q + 1 ends a complete window; its step is step + 1.
LEMMA AtBoundary ==
    ASSUME TypeOK, Placed, OptimizerStep
    PROVE  /\ step + 1 \in Steps /\ epoch \in 0 .. Epochs - 1 /\ at \in Positions
           /\ \E q \in 0 .. Batches - 1 :
                 /\ q \in 0 .. Each(ga) - 1 /\ step = epoch * Each(ga) + q
                 /\ at + 1 = (q + 1) * ga
                 /\ grads \cup {at} = q * ga .. q * ga + ga - 1
<1>1. epoch \in 0 .. Epochs - 1 /\ at \in Positions /\ ga \in GradAccums /\ (at + 1) % ga = 0
  BY SizeFacts DEF TypeOK, TypeLoop, TypeControl, OptimizerStep, Boundary, Positions
<1>2. PICK q \in 0 .. Batches : /\ Counted(epoch, q, step, ga) /\ q * ga <= at /\ at < q * ga + ga
                                /\ grads = q * ga .. at - 1
  BY DEF Placed, OptimizerStep
<1>3. ga \in Nat \ {0} /\ q \in Nat /\ at \in Nat /\ Batches \in Nat /\ Each(ga) \in Nat
      /\ Each(ga) <= Batches
  BY <1>1, SizeFacts DEF Positions
<1>4. at + 1 = (q + 1) * ga
  BY <1>1, <1>2, <1>3, BoundaryCloses
<1>5. q + 1 <= Each(ga)
  <2>1. (q + 1) * ga <= Batches
    <3>1. at + 1 <= Batches
      BY <1>1, <1>3 DEF Positions
    <3> QED
      BY <1>4, <3>1
  <2> QED
    BY <1>1, <1>3, <2>1, WindowCount
<1>6. step = epoch * Each(ga) + q
  BY <1>2 DEF Counted
<1>7. step + 1 = epoch * Each(ga) + (q + 1)
  BY <1>1, <1>3, <1>6
<1>8. step + 1 \in Steps
  BY <1>1, <1>3, <1>5, <1>7, StepBound
<1>9. grads \cup {at} = q * ga .. q * ga + ga - 1
  <2>1. q * ga \in Nat /\ at = q * ga + ga - 1
    BY <1>3, <1>4
  <2> QED
    BY <1>2, <1>3, <2>1
<1> QED
  BY <1>1, <1>3, <1>4, <1>5, <1>6, <1>8, <1>9

LEMMA LoopTyped == ASSUME TypeOK, Placed, [Next]_vars PROVE TypeLoop'
<1> USE DEF TypeLoop, loop
<1>0. TypeLoop
  BY DEF TypeOK
<1> USE <1>0
<1>1. CASE UNCHANGED loop
  BY <1>1
<1>2. CASE Fresh
  BY <1>2, FreshTyped
<1>3. CASE Restore
  <2> DEFINE p == ckpts[Newest(Saved)]
  <2>1. p \in Payload
    BY <1>3, NewestSaved DEF Restore
  <2>2. /\ epoch' = p.epoch /\ at' = p.at + 1 /\ step' = p.step /\ weights' = p.weights
        /\ grads' = {}
    BY <1>3, Zenon DEF Restore, Loaded
  <2> HIDE DEF p
  <2>3. /\ p.epoch \in 0 .. Epochs - 1 /\ p.at \in 0 .. Batches - 1 /\ p.step \in Steps
        /\ p.weights \in Seq(Window)
    BY <2>1 DEF Payload, Positions
  <2>4. p.epoch \in 0 .. Epochs /\ p.at + 1 \in 0 .. Batches
    BY <2>3, SizesAssumption
  <2> QED
    BY <2>2, <2>3, <2>4
<1>4. CASE Accumulate
  BY <1>4, SizeFacts DEF Accumulate, Positions
<1>5. CASE OptimizerStep
  <2>1. step + 1 \in Steps /\ epoch \in 0 .. Epochs - 1 /\ at \in Positions
    BY <1>5, AtBoundary
  <2>2. [epoch |-> epoch, of |-> grads \cup {at}] \in Window
    BY <2>1 DEF Window
  <2> QED
    BY <1>5, <2>1, <2>2 DEF OptimizerStep
<1>6. CASE EndEpoch
  BY <1>6, SizeFacts DEF EndEpoch, Positions
<1>7. CASE GoOn
  BY <1>7, SizeFacts DEF GoOn, Placed
<1>8. CASE Reload
  BY <1>8 DEF Reload, TypeOK, TypeDisk
<1> QED
  BY <1>1, <1>2, <1>3, <1>4, <1>5, <1>6, <1>7, <1>8, StepKinds
     DEF Start, ClearFile, Cleared, NothingSaved, Raise, AllTrained, LogWindow, NotDue,
         SubmitPasses, Put, SaveSync, StopEarly, Join, SaveLast, SaveFails, Close, Closed, Take,
         Write, WriteFails, Prune, TaskDone, Export, vars

LEMMA TrackerTyped == ASSUME TypeOK, [Next]_vars PROVE TypeTracker'
<1> USE DEF TypeTracker, tracker
<1>0. TypeTracker
  BY DEF TypeOK
<1> USE <1>0
<1>1. CASE UNCHANGED tracker
  BY <1>1
<1>2. CASE Fresh
  BY <1>2, FreshTyped
<1>3. CASE Restore
  <2>1. ckpts[Newest(Saved)] \in Payload
    BY <1>3, NewestSaved DEF Restore
  <2> QED
    BY <1>3, <2>1 DEF Restore, Loaded, Payload
<1>4. ASSUME NEW e \in Emas, LogWindow(e) PROVE TypeTracker'
  <2>1. e \in 1 .. Inf /\ Inf \in Nat /\ step \in Steps
    BY SizesAssumption DEF Emas, Inf, TypeOK, TypeLoop
  <2>2. /\ emas' = Append(emas, e) /\ best' \in {e, best} /\ bestStep' \in {step, bestStep}
        /\ noImp' \in {0, noImp + 1, noImp} /\ esRef' \in {e, esRef}
    BY <1>4 DEF LogWindow, Min2
  <2>3. stop' \in BOOLEAN
    BY <1>4 DEF LogWindow
  <2> QED
    BY <2>1, <2>2, <2>3
<1> QED
  BY <1>1, <1>2, <1>3, <1>4, StepKinds
     DEF Start, ClearFile, Cleared, NothingSaved, Raise, Accumulate, OptimizerStep, EndEpoch,
         AllTrained, NotDue, SubmitPasses, Put, SaveSync, GoOn, StopEarly, Join, SaveLast,
         SaveFails, Close, Closed, Take, Write, WriteFails, Prune, TaskDone, Reload, Export, vars

LEMMA WriterTyped == ASSUME TypeOK, Placed, [Next]_vars PROVE TypeWriter'
<1> USE DEF TypeWriter, writer
<1>0. TypeWriter
  BY DEF TypeOK
<1> USE <1>0
<1>1. CASE UNCHANGED writer
  BY <1>1
<1>2. CASE Fresh
  BY <1>2, FreshTyped
<1>3. CASE Put
  BY <1>3, SnapshotTyped DEF Put, Submitted
<1>4. CASE Close
  BY <1>4 DEF Close, Submitted
<1>5. CASE Take
  BY <1>5 DEF Take, Submitted
<1>6. CASE Write \/ WriteFails \/ TaskDone
  BY <1>6 DEF Write, WriteFails, TaskDone
<1> QED
  BY <1>1, <1>2, <1>3, <1>4, <1>5, <1>6, StepKinds
     DEF Start, ClearFile, Cleared, NothingSaved, Restore, Loaded, Raise, Accumulate,
         OptimizerStep, EndEpoch, AllTrained, LogWindow, NotDue, SubmitPasses, SaveSync, GoOn,
         StopEarly, Join, SaveLast, SaveFails, Closed, Prune, Reload, Export, vars

LEMMA FreshHandshake ==
    ASSUME Fresh, pc' \in {"down", "clear", "restore"}, failed' => pc' = "down"
    PROVE  Handshake'
BY Sentinels DEF Fresh, Handshake

LEMMA HandshakeStep == ASSUME TypeOK, Handshake, Placed, [Next]_vars PROVE Handshake'
<1> USE DEF Handshake, writer, setting
<1>0. TypeControl /\ TypeWriter
  BY DEF TypeOK
<1>1. CASE \E g \in GradAccums, a \in Asyncs, n \in CkptEverys, resume \in BOOLEAN :
                Start(g, a, n, resume)
  BY <1>1, FreshHandshake DEF Start
<1>2. CASE Raise \/ SaveFails
  BY <1>2, FreshHandshake DEF Raise, SaveFails
<1>3. CASE ClearFile \/ Cleared \/ NothingSaved \/ Restore
  BY <1>3 DEF ClearFile, Cleared, NothingSaved, Restore, Loaded
<1>4. CASE Accumulate \/ OptimizerStep \/ EndEpoch \/ AllTrained \/ \E e \in Emas : LogWindow(e)
  BY <1>4 DEF Accumulate, OptimizerStep, EndEpoch, AllTrained, LogWindow
<1>5. CASE NotDue \/ SubmitPasses \/ SaveSync \/ GoOn \/ StopEarly
  BY <1>5 DEF NotDue, SubmitPasses, SaveSync, GoOn, StopEarly
<1>6. CASE Put
  <2>1. Snapshot # StopJob
    BY <1>6, Sentinels, SnapshotTyped DEF Put
  <2> QED
    BY <1>6, <2>1 DEF Put
<1>7. CASE Join \/ SaveLast \/ Reload \/ Export
  BY <1>7 DEF Join, Drained, SaveLast, Reload, Export
<1>8. CASE Close \/ Closed
  BY <1>8 DEF Close, Closed
<1>9. CASE Take
  <2>1. PICK p \in Submitted : queue = <<p>>
    BY <1>0, <1>9 DEF Take, TypeWriter
  <2>2. queue' = <<>> /\ Head(queue) = p
    BY <1>9, <2>1 DEF Take
  <2>3. CASE p = StopJob
    BY <1>9, <2>1, <2>2, <2>3 DEF Take
  <2>4. CASE p # StopJob
    <3>1. p # Absent /\ job' = p /\ wpc' = "write"
      BY <1>9, <2>2, <2>4, Sentinels DEF Take, Submitted
    <3> QED
      BY <1>9, <2>1, <2>2, <2>4, <3>1 DEF Take
  <2> QED
    BY <2>3, <2>4
<1>10. CASE Write \/ WriteFails \/ Prune \/ TaskDone
  BY <1>10 DEF Write, WriteFails, Prune, TaskDone
<1>11. CASE UNCHANGED vars
  BY <1>11 DEF vars
<1> QED
  BY <1>1, <1>2, <1>3, <1>4, <1>5, <1>6, <1>7, <1>8, <1>9, <1>10, <1>11, StepKinds

\* The loop stands at the start of window q of epoch e.
LEMMA AtWindow ==
    ASSUME NEW g \in GradAccums, NEW q \in Nat
    PROVE  q * g \in Nat /\ q * g < q * g + g /\ q * g .. q * g - 1 = {}
<1>1. g \in Nat \ {0}
  BY SizeFacts
<1>2. q * g \in Nat
  BY <1>1
<1> DEFINE a == q * g
<1> HIDE DEF a
<1>3. a \in Nat => a < a + g /\ a .. a - 1 = {}
  BY <1>1
<1> QED
  BY <1>2, <1>3 DEF a

LEMMA StartsPlaced ==
    ASSUME TypeControl, ga' = ga, epoch' = 0, at' = 0, step' = 0, grads' = {}, pc' = "train"
    PROVE  Placed'
<1>1. ga \in GradAccums /\ Each(ga) \in Nat \ {0} /\ Batches \in Nat /\ ga \in Nat \ {0}
  BY SizeFacts DEF TypeControl
<1>2. 0 * Each(ga) + 0 = 0 /\ 0 * ga = 0 /\ 0 * ga .. 0 - 1 = {}
  BY <1>1, AtWindow
<1>3. Counted(epoch', 0, step', ga')
  BY <1>1, <1>2 DEF Counted
<1>4. 0 \in 0 .. Batches
  BY <1>1
<1>5. 0 * ga' <= at' /\ at' < 0 * ga' + ga' /\ grads' = 0 * ga' .. at' - 1
  BY <1>1, <1>2
<1> QED
  BY <1>3, <1>4, <1>5 DEF Placed

LEMMA PlacedStep == ASSUME TypeOK, Placed, Stored, [Next]_vars PROVE Placed'
<1> USE DEF loop, setting, tracker
<1>0. TypeControl /\ TypeLoop /\ Placed
  BY DEF TypeOK
<1>1. CASE \E g \in GradAccums, a \in Asyncs, n \in CkptEverys, resume \in BOOLEAN :
                Start(g, a, n, resume)
  BY <1>1 DEF Start, Fresh, Placed
<1>2. CASE Raise \/ SaveFails
  BY <1>2 DEF Raise, SaveFails, Fresh, Placed
<1>3. CASE Cleared \/ NothingSaved
  <2>1. /\ ga' = ga /\ epoch' = 0 /\ at' = 0 /\ step' = 0 /\ grads' = {}
        /\ pc' = "train"
    BY <1>3, <1>0 DEF Cleared, NothingSaved, Placed
  <2> QED
    BY <2>1, <1>0, StartsPlaced
<1>4. CASE Restore
  <2> DEFINE p == ckpts[Newest(Saved)]
  <2>1. p \in Payload /\ Sound(p)
    BY <1>4, NewestSaved DEF Restore, Stored
  <2>2. /\ p.ga = ga /\ pc' = "train" /\ ga' = ga
        /\ epoch' = p.epoch /\ at' = p.at + 1 /\ step' = p.step /\ grads' = {}
    BY <1>4, Zenon DEF Restore, Loaded
  <2> HIDE DEF p
  <2>3. PICK q \in 1 .. Batches : Counted(p.epoch, q, p.step, p.ga) /\ p.at + 1 = q * p.ga
    BY <2>1 DEF Sound
  <2>4. q \in 0 .. Batches /\ q \in Nat
    BY SizeFacts
  <2>5. q * ga <= at' /\ at' < q * ga + ga /\ q * ga .. at' - 1 = {}
    BY <1>0, <2>2, <2>3, <2>4, AtWindow DEF TypeControl
  <2>6. epoch' # Epochs
    BY <2>1, <2>2, SizeFacts DEF Payload
  <2> QED
    BY <2>2, <2>3, <2>4, <2>5, <2>6 DEF Placed
<1>5. CASE Accumulate
  <2>1. PICK q \in 0 .. Batches :
          /\ Counted(epoch, q, step, ga) /\ q * ga <= at /\ at < q * ga + ga
          /\ grads = q * ga .. at - 1
    BY <1>5, <1>0 DEF Accumulate, Placed
  <2>2. /\ UNCHANGED <<pc, ga, epoch, step>> /\ at' = at + 1 /\ grads' = grads \cup {at}
        /\ pc = "train" /\ epoch < Epochs /\ (at + 1) % ga # 0
    BY <1>5 DEF Accumulate, Boundary
  <2>3. ga \in GradAccums /\ ga \in Nat /\ q \in Nat /\ at \in Nat /\ q * ga \in Nat
    <3>1. ga \in GradAccums /\ at \in 0 .. Batches /\ Batches \in Nat /\ ga \in Nat
      BY <1>0, SizeFacts DEF TypeControl, TypeLoop
    <3>2. q \in Nat /\ at \in Nat
      BY <3>1
    <3> QED
      BY <3>1, <3>2, AtWindow
  <2>4. q * ga <= at' /\ at' < q * ga + ga
    BY <2>1, <2>2, <2>3, BoundaryOpens
  <2>5. grads' = q * ga .. at' - 1
    BY <2>1, <2>2, <2>3
  <2>6. epoch' # Epochs
    BY <1>0, <2>2, SizeFacts DEF TypeLoop
  <2> QED
    BY <2>1, <2>2, <2>4, <2>5, <2>6 DEF Placed
<1>6. CASE OptimizerStep
  <2>1. PICK q \in 0 .. Batches - 1 :
          /\ q \in 0 .. Each(ga) - 1 /\ step = epoch * Each(ga) + q
          /\ at + 1 = (q + 1) * ga
    BY <1>6, <1>0, AtBoundary
  <2>2. /\ UNCHANGED <<ga, epoch, at>> /\ pc' \in {"log", "save"} /\ grads' = {}
        /\ step' = step + 1 /\ epoch < Epochs /\ at < Batches
    BY <1>6 DEF OptimizerStep
  <2>3. q + 1 \in 1 .. Batches /\ q + 1 \in 0 .. Each(ga)
    BY <1>0, <2>1, SizeFacts DEF TypeControl
  <2>4. step' = epoch' * Each(ga') + (q + 1)
    BY <1>0, <2>1, <2>2, SizeFacts DEF TypeControl, TypeLoop
  <2>5. Counted(epoch', q + 1, step', ga') /\ at' + 1 = (q + 1) * ga'
    BY <2>1, <2>2, <2>3, <2>4 DEF Counted
  <2> QED
    BY <2>2, <2>3, <2>5 DEF Placed
<1>7. CASE EndEpoch
  <2>1. PICK q \in 0 .. Batches :
          Counted(epoch, q, step, ga) /\ q * ga <= at /\ at < q * ga + ga
    BY <1>7, <1>0 DEF EndEpoch, Placed
  <2>2. /\ UNCHANGED <<ga, step, pc>> /\ pc = "train" /\ epoch' = epoch + 1 /\ at' = 0
        /\ grads' = {} /\ at = Batches
    BY <1>7 DEF EndEpoch
  <2>3. /\ ga \in GradAccums /\ ga \in Nat \ {0} /\ q \in Nat /\ epoch \in Nat
        /\ Each(ga) \in Nat /\ Each(ga) * ga <= Batches /\ Batches \in Nat
    BY <1>0, SizeFacts DEF TypeControl, TypeLoop
  <2>4. q = Each(ga)
    <3>1. Each(ga) * ga < (q + 1) * ga
      BY <2>1, <2>2, <2>3
    <3>2. Each(ga) < q + 1
      BY <2>3, <3>1
    <3> QED
      BY <2>1, <2>3, <3>2 DEF Counted
  <2>5. step' = epoch' * Each(ga') + 0
    BY <2>1, <2>2, <2>3, <2>4 DEF Counted
  <2>6. Counted(epoch', 0, step', ga')
    BY <2>2, <2>3, <2>5 DEF Counted
  <2>7. 0 * ga' = 0 /\ 0 * ga' .. at' - 1 = {}
    BY <2>2, <2>3
  <2>8. 0 * ga' <= at' /\ at' < 0 * ga' + ga' /\ 0 \in 0 .. Batches
    BY <2>2, <2>3, <2>7
  <2> QED
    BY <2>2, <2>6, <2>7, <2>8 DEF Placed
<1>8. CASE GoOn
  <2>1. PICK q \in 1 .. Batches : Counted(epoch, q, step, ga) /\ at + 1 = q * ga
    BY <1>8, <1>0 DEF GoOn, Placed
  <2>2. /\ UNCHANGED <<ga, epoch, step, grads>> /\ at' = at + 1 /\ grads = {} /\ epoch < Epochs
        /\ pc' = "train"
    BY <1>8, <1>0 DEF GoOn, Placed
  <2>3. ga \in GradAccums /\ q \in 0 .. Batches /\ q \in Nat
    BY <1>0, SizeFacts DEF TypeControl
  <2>4. q * ga <= at' /\ at' < q * ga + ga /\ q * ga .. at' - 1 = {}
    BY <2>1, <2>2, <2>3, AtWindow
  <2>5. epoch' # Epochs
    BY <1>0, <2>2, SizeFacts DEF TypeLoop
  <2> QED
    BY <2>1, <2>2, <2>3, <2>4, <2>5 DEF Placed
<1>9. CASE \E e \in Emas : LogWindow(e)
  BY <1>9, <1>0 DEF LogWindow, Placed
<1>10. CASE UNCHANGED <<loop, setting, tracker>> /\ pc' = pc
  BY <1>10, <1>0 DEF Placed
<1>11. CASE /\ UNCHANGED <<loop, setting, tracker>>
            /\ \/ /\ pc \in {"save", "put", "stop", "join"}
                  /\ pc' \in {"put", "stop", "join", "last"}
               \/ pc' \in {"close", "closing", "reload", "export", "done"}
  BY <1>11, <1>0 DEF Placed
<1>12. CASE Reload
  BY <1>12, <1>0 DEF Reload, Placed
<1>13. CASE AllTrained
  BY <1>13 DEF AllTrained, Placed
<1>14. CASE NotDue \/ SubmitPasses \/ Put \/ SaveSync \/ StopEarly \/ Join
  BY <1>11, <1>14 DEF NotDue, SubmitPasses, Put, SaveSync, StopEarly, Join
<1>15. CASE SaveLast \/ Close \/ Closed \/ Export
  BY <1>11, <1>15 DEF SaveLast, Close, Closed, Export
<1>16. CASE ClearFile \/ Take \/ Write \/ WriteFails \/ Prune \/ TaskDone \/ UNCHANGED vars
  BY <1>10, <1>16 DEF ClearFile, Take, Write, WriteFails, Prune, TaskDone, vars
<1> QED
  BY <1>1, <1>2, <1>3, <1>4, <1>5, <1>6, <1>7, <1>8, <1>9, <1>12, <1>13, <1>14,
     <1>15, <1>16, StepKinds

LEMMA NoneTrained == ASSUME NEW g PROVE Trained(<<>>, 0, g)
BY DEF Trained, Undisturbed

LEMMA FaithfulStep == ASSUME TypeOK, Placed, Stored, Faithful, [Next]_vars PROVE Faithful'
<1> USE DEF loop, setting
<1>1. CASE Fresh
  BY <1>1, NoneTrained DEF Fresh, Faithful
<1>2. CASE Restore
  <2> DEFINE p == ckpts[Newest(Saved)]
  <2>1. Sound(p)
    BY <1>2, NewestSaved DEF Restore, Stored
  <2>2. p.ga = ga /\ ga' = ga /\ step' = p.step /\ weights' = p.weights
    BY <1>2, Zenon DEF Restore, Loaded
  <2> QED
    BY <2>1, <2>2 DEF Sound, Faithful
<1>3. CASE OptimizerStep
  <2> DEFINE w == [epoch |-> epoch, of |-> grads \cup {at}]
  <2>1. PICK q \in 0 .. Batches - 1 :
          /\ q \in 0 .. Each(ga) - 1 /\ step = epoch * Each(ga) + q
          /\ grads \cup {at} = q * ga .. q * ga + ga - 1
    BY <1>3, AtBoundary
  <2>2. epoch \in 0 .. Epochs - 1 /\ ga \in GradAccums /\ step \in Nat /\ weights \in Seq(Window)
        /\ w \in Window
    BY <1>3, AtBoundary, SizeFacts DEF TypeOK, TypeControl, TypeLoop, Window, Steps
  <2>3. w = Nth(step + 1, ga)
    BY <2>1, <2>2, NthWindow
  <2>4. Len(weights) = step /\ Undisturbed(weights, ga)
    BY <1>3 DEF OptimizerStep, Faithful, Trained
  <2>5. weights' = Append(weights, w) /\ step' = step + 1 /\ ga' = ga
    BY <1>3 DEF OptimizerStep
  <2> HIDE DEF w
  <2>6. /\ Len(weights') = step' /\ weights'[step + 1] = w /\ DOMAIN weights' = 1 .. step + 1
        /\ \A k \in 1 .. step : weights'[k] = weights[k]
    BY <2>2, <2>4, <2>5
  <2>7. \A k \in 1 .. step : weights[k] = Nth(k, ga)
    BY <2>2, <2>4 DEF Undisturbed
  <2>8. \A k \in 1 .. step + 1 : k \in 1 .. step \/ k = step + 1
    BY <2>2
  <2>9. \A k \in DOMAIN weights' : weights'[k] = Nth(k, ga)
    BY <2>3, <2>6, <2>7, <2>8
  <2> QED
    BY <2>5, <2>6, <2>9 DEF Faithful, Trained, Undisturbed
<1>4. CASE Reload \/ Export
  BY <1>4 DEF Reload, Export, Faithful
<1>5. CASE UNCHANGED <<weights, step, ga>> /\ (pc' \in {"export", "done"} \/ pc \notin {"export", "done"})
  BY <1>5 DEF Faithful
<1>6. CASE ClearFile \/ Cleared \/ NothingSaved \/ Accumulate \/ EndEpoch \/ AllTrained
           \/ \E e \in Emas : LogWindow(e)
  BY <1>5, <1>6 DEF ClearFile, Cleared, NothingSaved, Accumulate, EndEpoch, AllTrained, LogWindow
<1>7. CASE NotDue \/ SubmitPasses \/ Put \/ SaveSync \/ GoOn \/ StopEarly \/ Join \/ SaveLast
           \/ Close \/ Closed
  BY <1>5, <1>7 DEF NotDue, SubmitPasses, Put, SaveSync, GoOn, StopEarly, Join, SaveLast, Close,
                    Closed
<1>8. CASE Take \/ Write \/ WriteFails \/ Prune \/ TaskDone \/ UNCHANGED vars
  BY <1>5, <1>8 DEF Take, Write, WriteFails, Prune, TaskDone, vars
<1>9. CASE \/ Raise \/ SaveFails
           \/ \E g \in GradAccums, a \in Asyncs, n \in CkptEverys, resume \in BOOLEAN :
                Start(g, a, n, resume)
  BY <1>1, <1>9 DEF Raise, SaveFails, Start
<1> QED
  BY <1>2, <1>3, <1>4, <1>6, <1>7, <1>8, <1>9, StepKinds

\* A new EMA is an improvement when it is below all others; the older
\* improvements stay what they were.
LEMMA ImprovingAppend ==
    ASSUME NEW es \in Seq(Emas), NEW e \in Emas, NEW i
    PROVE  i \in Improving(Append(es, e)) <=>
               i \in Improving(es) \/ (i = Len(es) + 1 /\ \A j \in DOMAIN es : e < es[j])
<1> DEFINE n == Len(es)
           x == Append(es, e)
<1>1. /\ n \in Nat /\ DOMAIN es = 1 .. n /\ DOMAIN x = 1 .. n + 1 /\ x[n + 1] = e
      /\ \A k \in 1 .. n : x[k] = es[k]
  OBVIOUS
<1>2. /\ i \in Improving(x) <=> i \in DOMAIN x /\ \A j \in 1 .. i - 1 : x[i] < x[j]
      /\ i \in Improving(es) <=> i \in DOMAIN es /\ \A j \in 1 .. i - 1 : es[i] < es[j]
  BY DEF Improving
<1> HIDE DEF n, x
<1>3. CASE i \in 1 .. n
  <2>1. /\ i \in 1 .. n + 1 /\ i # n + 1 /\ x[i] = es[i]
        /\ \A j \in 1 .. i - 1 : j \in 1 .. n /\ x[j] = es[j]
    BY <1>1, <1>3
  <2>2. (\A j \in 1 .. i - 1 : x[i] < x[j]) <=> (\A j \in 1 .. i - 1 : es[i] < es[j])
    BY <2>1
  <2> QED
    BY <1>1, <1>2, <1>3, <2>1, <2>2 DEF n, x
<1>4. CASE i = n + 1
  <2>1. i - 1 = n /\ i \in 1 .. n + 1 /\ i \notin 1 .. n
    BY <1>1, <1>4
  <2>2. (\A j \in 1 .. n : x[i] < x[j]) <=> (\A j \in 1 .. n : e < es[j])
    BY <1>1, <1>4
  <2> QED
    BY <1>1, <1>2, <1>4, <2>1, <2>2 DEF n, x
<1>5. CASE i \notin 1 .. n + 1
  <2>1. i \notin 1 .. n /\ i # n + 1
    BY <1>1, <1>5
  <2> QED
    BY <1>1, <1>2, <1>5, <2>1 DEF n, x
<1>6. i \in 1 .. n + 1 => i \in 1 .. n \/ i = n + 1
  BY <1>1
<1> QED
  BY <1>3, <1>4, <1>5, <1>6

LEMMA LowestAppend ==
    ASSUME NEW es \in Seq(Emas), NEW e \in Emas, NEW b \in 1 .. Inf, IsLowest(b, es)
    PROVE  IsLowest(IF e < b THEN e ELSE b, Append(es, e))
<1>1. Len(es) \in Nat /\ DOMAIN es = 1 .. Len(es) /\ \A i \in 1 .. Len(es) : es[i] \in Emas
  OBVIOUS
<1>2. DOMAIN Append(es, e) = 1 .. Len(es) + 1 /\ Append(es, e)[Len(es) + 1] = e
      /\ \A i \in 1 .. Len(es) : Append(es, e)[i] = es[i]
  OBVIOUS
<1>3. e \in Nat /\ b \in Nat /\ \A i \in 1 .. Len(es) : es[i] \in Nat
  BY <1>1, SizesAssumption DEF Emas, Inf
<1>4. Len(es) + 1 \in 1 .. Len(es) + 1 /\ 1 .. Len(es) \subseteq 1 .. Len(es) + 1
      /\ \A i \in 1 .. Len(es) + 1 : i \in 1 .. Len(es) \/ i = Len(es) + 1
  BY <1>1
<1> QED
  BY <1>1, <1>2, <1>3, <1>4 DEF IsLowest

\* The patience counter after one more log window with EMA e.
LEMMA PatienceAppend ==
    ASSUME NEW es \in Seq(Emas), NEW e \in Emas, NEW r \in 1 .. Inf, NEW n \in Nat, IsLowest(r, es),
           \/ es = <<>> /\ n = 0
           \/ \E k \in DOMAIN es : IsNewest(k, Improving(es)) /\ n = Len(es) - k
    PROVE  \E k \in DOMAIN Append(es, e) :
              /\ IsNewest(k, Improving(Append(es, e)))
              /\ (IF e < r THEN 0 ELSE n + 1) = Len(Append(es, e)) - k
<1>1. e \in Nat /\ r \in Nat /\ Emas \subseteq Nat /\ e < Inf
  BY SizesAssumption DEF Emas, Inf
<1>3. /\ Len(es) \in Nat /\ DOMAIN es = 1 .. Len(es) /\ Len(Append(es, e)) = Len(es) + 1
      /\ DOMAIN Append(es, e) = 1 .. Len(es) + 1 /\ \A j \in DOMAIN es : es[j] \in Nat
  <2>1. /\ Len(es) \in Nat /\ DOMAIN es = 1 .. Len(es) /\ Len(Append(es, e)) = Len(es) + 1
        /\ DOMAIN Append(es, e) = 1 .. Len(es) + 1 /\ \A j \in DOMAIN es : es[j] \in Emas
    OBVIOUS
  <2> QED
    BY <1>1, <2>1
<1>4. \A i : i \in Improving(Append(es, e)) <=>
                i \in Improving(es) \/ (i = Len(es) + 1 /\ \A j \in DOMAIN es : e < es[j])
  BY ImprovingAppend
<1>5. \A i \in Improving(es) : i \in DOMAIN es
  BY DEF Improving
<1>6. CASE e < r
  <2>1. \A j \in DOMAIN es : e < es[j]
    BY <1>1, <1>3, <1>6 DEF IsLowest
  <2>2. IsNewest(Len(es) + 1, Improving(Append(es, e)))
    BY <1>3, <1>4, <1>5, <2>1 DEF IsNewest
  <2>3. Len(es) + 1 \in DOMAIN Append(es, e) /\ 0 = Len(Append(es, e)) - (Len(es) + 1)
    BY <1>3
  <2> QED
    BY <1>6, <2>2, <2>3
<1>7. CASE ~(e < r)
  <2>1. PICK j \in DOMAIN es : es[j] = r
    BY <1>1, <1>7, SizesAssumption DEF IsLowest, Inf
  <2>2. es # <<>>
    BY <2>1
  <2>3. PICK k \in DOMAIN es : IsNewest(k, Improving(es)) /\ n = Len(es) - k
    BY <2>2
  <2>4. ~(\A i \in DOMAIN es : e < es[i])
    BY <1>7, <2>1
  <2>5. IsNewest(k, Improving(Append(es, e)))
    BY <1>4, <2>3, <2>4 DEF IsNewest
  <2>6. k \in DOMAIN Append(es, e) /\ n + 1 = Len(Append(es, e)) - k
    BY <1>3, <2>3
  <2> QED
    BY <1>7, <2>5, <2>6
<1> QED
  BY <1>6, <1>7

LEMMA NothingTracked == ASSUME NEW b, NEW r, b = Inf, r = Inf PROVE Tracked(<<>>, b, 0, r)
BY DEF Tracked, IsLowest

LEMMA FollowingStep == ASSUME TypeOK, Stored, Following, [Next]_vars PROVE Following'
<1> USE DEF tracker
<1>0. TypeTracker
  BY DEF TypeOK
<1>1. CASE Fresh
  BY <1>1, NothingTracked DEF Fresh, Following
<1>2. CASE Restore
  <2> DEFINE p == ckpts[Newest(Saved)]
  <2>1. Sound(p)
    BY <1>2, NewestSaved DEF Restore, Stored
  <2>2. emas' = p.emas /\ best' = p.best /\ noImp' = p.noImp /\ esRef' = p.esRef /\ stop' = FALSE
    BY <1>2, Zenon DEF Restore, Loaded
  <2> QED
    BY <2>1, <2>2 DEF Sound, Following
<1>3. ASSUME NEW e \in Emas, LogWindow(e) PROVE Following'
  <2>1. emas \in Seq(Emas) /\ best \in 1 .. Inf /\ esRef \in 1 .. Inf /\ noImp \in Nat
        /\ Tracked(emas, best, noImp, esRef)
    BY <1>0 DEF TypeTracker, Following
  <2>2. /\ emas' = Append(emas, e) /\ pc' = "save"
        /\ SaveBest => best' = IF e < best THEN e ELSE best
        /\ Patience > 0 => /\ esRef' = IF e < esRef THEN e ELSE esRef
                           /\ noImp' = IF e < esRef THEN 0 ELSE noImp + 1
        /\ stop' <=> (Patience > 0 /\ noImp' >= Patience)
    <3>1. emas' = Append(emas, e) /\ pc' = "save"
      BY <1>3 DEF LogWindow
    <3>2. SaveBest => best' = IF e < best THEN e ELSE best
      BY <1>3, Zenon DEF LogWindow
    <3>3. Patience > 0 => /\ esRef' = IF e < esRef THEN e ELSE esRef
                          /\ noImp' = IF e < esRef THEN 0 ELSE noImp + 1
      <4>1. e \in Nat /\ esRef \in Nat
        BY <2>1, SizesAssumption DEF Emas, Inf
      <4> QED
        BY <1>3, <4>1 DEF LogWindow, Min2
    <3>4. stop' <=> (Patience > 0 /\ noImp' >= Patience)
      BY <1>3, Zenon DEF LogWindow
    <3> QED
      BY <3>1, <3>2, <3>3, <3>4
  <2>3. SaveBest => IsLowest(best', emas')
    BY <2>1, <2>2, LowestAppend DEF Tracked
  <2>4. Patience > 0 => IsLowest(esRef', emas')
    BY <2>1, <2>2, LowestAppend DEF Tracked
  <2>5. Patience > 0 => \E k \in DOMAIN emas' :
                            IsNewest(k, Improving(emas')) /\ noImp' = Len(emas') - k
    BY <2>1, <2>2, PatienceAppend DEF Tracked
  <2>6. emas' # <<>>
    BY <2>1, <2>2
  <2>7. Tracked(emas', best', noImp', esRef')
    BY <2>3, <2>4, <2>5 DEF Tracked
  <2>8. stop' => Patience > 0 /\ Patience <= noImp' /\ emas' # <<>>
    BY <2>2, <2>6
  <2> QED
    BY <2>2, <2>7, <2>8 DEF Following
<1>4. CASE UNCHANGED tracker /\ (stop => pc' \in {"save", "put", "stop", "join", "last", "close",
                                                 "closing", "reload", "export", "done"})
  BY <1>4 DEF Following
<1>5. CASE ClearFile \/ Cleared \/ NothingSaved \/ Accumulate \/ OptimizerStep \/ EndEpoch
           \/ AllTrained
  BY <1>4, <1>5 DEF ClearFile, Cleared, NothingSaved, Accumulate, OptimizerStep, EndEpoch, AllTrained,
                    Following
<1>6. CASE NotDue \/ SubmitPasses \/ Put \/ SaveSync \/ GoOn \/ StopEarly \/ Join
  BY <1>4, <1>6 DEF NotDue, SubmitPasses, Put, SaveSync, GoOn, StopEarly, Join
<1>7. CASE SaveLast \/ Close \/ Closed \/ Reload \/ Export
  BY <1>4, <1>7 DEF SaveLast, Close, Closed, Reload, Export
<1>8. CASE Take \/ Write \/ WriteFails \/ Prune \/ TaskDone \/ UNCHANGED vars
  BY <1>4, <1>8 DEF Take, Write, WriteFails, Prune, TaskDone, vars, Following
<1>9. CASE \/ Raise \/ SaveFails
           \/ \E g \in GradAccums, a \in Asyncs, n \in CkptEverys, resume \in BOOLEAN :
                Start(g, a, n, resume)
  BY <1>1, <1>9 DEF Raise, SaveFails, Start
<1> QED
  BY <1>2, <1>3, <1>5, <1>6, <1>7, <1>8, <1>9, StepKinds

\* How the payloads that are not on the disk move.
LEMMA Pending ==
    ASSUME TypeOK, Handshake, Placed
    PROVE  /\ wpc \in {"write", "prune"} => job \in Payload /\ InHand = {job}
           /\ wpc \notin {"write", "prune"} => InHand = {}
           /\ queue = <<>> => Queued = {}
           /\ UNCHANGED <<queue, job>> => Queued' = Queued /\ InHand' = InHand
           /\ Fresh => Queued' = {} /\ InHand' = {}
           /\ Put => Queued = {} /\ Queued' = {Snapshot} /\ InHand' = InHand
           /\ SaveSync \/ SaveLast \/ ClearFile => Queued = {} /\ InHand = {} /\ UNCHANGED <<queue, job>>
           /\ Close => Queued' = Queued /\ InHand' = InHand
           /\ Take => InHand = {} /\ InHand' = Queued /\ Queued' = {}
           /\ WriteFails \/ TaskDone => Queued' = Queued /\ InHand' = {}
<1>1. /\ queue = <<>> \/ \E p \in Submitted : queue = <<p>>
      /\ job \in Payload \cup {Absent}
      /\ async \in BOOLEAN
  BY DEF TypeOK, TypeWriter, TypeControl
<1>2. /\ queue = <<>> => Queued = {}
      /\ queue' = <<>> => Queued' = {}
      /\ \A p : queue = <<p>> => Queued = {p} \ {StopJob}
      /\ \A p : queue' = <<p>> => Queued' = {p} \ {StopJob}
  BY DEF Queued
<1>3. (job = Absent => InHand = {}) /\ (job # Absent => InHand = {job})
      /\ (job' = Absent => InHand' = {}) /\ (job' # Absent => InHand' = {job'})
  BY DEF InHand
<1>4. wpc \in {"write", "prune"} <=> job # Absent
  BY DEF Handshake
<1>5. UNCHANGED <<queue, job>> => Queued' = Queued /\ InHand' = InHand
  BY DEF Queued, InHand
<1>6. Fresh => Queued' = {} /\ InHand' = {}
  BY <1>2, <1>3 DEF Fresh
<1>7. Put => Queued = {} /\ Queued' = {Snapshot} /\ InHand' = InHand
  <2> SUFFICES ASSUME Put PROVE Queued = {} /\ Queued' = {Snapshot} /\ InHand' = InHand
    OBVIOUS
  <2>1. queue = <<>> /\ queue' = <<Snapshot>> /\ job' = job /\ Snapshot # StopJob
    BY SnapshotTyped, Sentinels DEF Put
  <2> QED
    BY <1>2, <1>3, <2>1
<1>8. SaveSync \/ SaveLast \/ ClearFile => Queued = {} /\ InHand = {} /\ UNCHANGED <<queue, job>>
  BY <1>2, <1>3, <1>4 DEF SaveSync, SaveLast, ClearFile, Handshake, writer
<1>9. Close => Queued' = Queued /\ InHand' = InHand
  BY <1>2, <1>3 DEF Close
<1>10. Take => InHand = {} /\ InHand' = Queued /\ Queued' = {}
  <2> SUFFICES ASSUME Take PROVE InHand = {} /\ InHand' = Queued /\ Queued' = {}
    OBVIOUS
  <2>1. PICK p \in Submitted : queue = <<p>>
    BY <1>1 DEF Take
  <2>2. queue' = <<>> /\ Head(queue) = p /\ job = Absent
    BY <1>4, <2>1 DEF Take
  <2>3. CASE p = StopJob
    <3>1. job' = job
      BY <2>2, <2>3 DEF Take
    <3> QED
      BY <1>2, <1>3, <2>1, <2>2, <2>3, <3>1
  <2>4. CASE p # StopJob
    <3>1. p # Absent /\ job' = p
      BY <2>2, <2>4, Sentinels DEF Take, Submitted
    <3> QED
      BY <1>2, <1>3, <2>1, <2>2, <2>4, <3>1
  <2> QED
    BY <2>3, <2>4
<1>11. WriteFails \/ TaskDone => Queued' = Queued /\ InHand' = {}
  BY <1>3 DEF WriteFails, TaskDone, Queued
<1> QED
  BY <1>1, <1>2, <1>3, <1>4, <1>5, <1>6, <1>7, <1>8, <1>9, <1>10, <1>11

LEMMA StoredStep ==
    ASSUME TypeOK, Handshake, Placed, Faithful, Following, Stored, [Next]_vars
    PROVE  Stored'
<1>0. /\ ckpts \in [Steps -> Payload \cup {Absent}]
      /\ Saved = {s \in Steps : ckpts[s] # Absent} /\ Saved' = {s \in Steps : ckpts'[s] # Absent}
      /\ step \in Steps
  BY DEF TypeOK, TypeDisk, TypeLoop, Saved
<1>1. CASE /\ \A s \in Saved' : s \in Saved /\ ckpts'[s] = ckpts[s]
           /\ \A p \in Queued' \cup InHand' : p \in Queued \cup InHand
  <2>1. \A s \in Saved' : ckpts'[s].step = s /\ Sound(ckpts'[s])
    BY <1>1 DEF Stored
  <2>2. \A p \in Queued' \cup InHand' : Sound(p)
    BY <1>1 DEF Stored
  <2> QED
    BY <2>1, <2>2 DEF Stored
<1>2. CASE Put
  <2>1. Sound(Snapshot)
    BY <1>2, SnapshotSound DEF Put
  <2>2. UNCHANGED ckpts /\ Saved' = Saved
    BY <1>2 DEF Put, disk, Saved
  <2> QED
    BY <1>2, <2>1, <2>2, Pending DEF Stored
<1>3. CASE SaveSync \/ SaveLast \/ SaveFails
  <2>1. Sound(Snapshot)
    BY <1>3, SnapshotSound DEF SaveSync, SaveLast, SaveFails
  <2>2. \A p \in Queued' \cup InHand' : p \in Queued \cup InHand
    BY <1>3, Pending DEF SaveFails
  <2>3. \A s \in Saved' : ckpts'[s].step = s /\ Sound(ckpts'[s])
    BY <1>3, <2>1, SavedHere DEF Stored
  <2> QED
    BY <2>2, <2>3 DEF Stored
<1>4. CASE Write \/ WriteFails
  <2>1. job \in Payload /\ Sound(job) /\ job.step \in Steps
    BY <1>4, Pending DEF Write, WriteFails, Stored, Payload
  <2>2. \A p \in Queued' \cup InHand' : p \in Queued \cup InHand
    BY <1>4, Pending DEF Write, WriteFails
  <2>3. \A s \in Steps : ckpts'[s] = ckpts[s] \/ (s = job.step /\ ckpts'[s] = job)
    BY <1>0, <1>4, <2>1 DEF Write, WriteFails
  <2>4. \A s \in Saved' : ckpts'[s].step = s /\ Sound(ckpts'[s])
    BY <1>0, <2>1, <2>3 DEF Stored
  <2> QED
    BY <2>2, <2>4 DEF Stored
<1>5. CASE ClearFile \/ Prune
  <2>1. \A s \in Saved' : s \in Saved /\ ckpts'[s] = ckpts[s]
    BY <1>0, <1>5 DEF ClearFile, Prune
  <2>2. Queued' = Queued /\ InHand' = InHand
    BY <1>5, Pending DEF ClearFile, Prune, writer
  <2> QED
    BY <1>1, <2>1, <2>2
<1>6. CASE UNCHANGED ckpts /\ UNCHANGED <<queue, job>>
  BY <1>0, <1>1, <1>6, Pending
<1>7. CASE UNCHANGED ckpts /\ (Fresh \/ Take \/ Close \/ TaskDone)
  <2>1. \A p \in Queued' \cup InHand' : p \in Queued \cup InHand
    BY <1>7, Pending
  <2> QED
    BY <1>0, <1>1, <1>7, <2>1
<1>8. CASE Cleared \/ NothingSaved \/ Restore \/ Accumulate \/ OptimizerStep \/ EndEpoch
           \/ AllTrained \/ \E e \in Emas : LogWindow(e)
  BY <1>6, <1>8 DEF Cleared, NothingSaved, Restore, Loaded, Accumulate, OptimizerStep, EndEpoch,
                    AllTrained, LogWindow, disk, writer
<1>9. CASE NotDue \/ SubmitPasses \/ GoOn \/ StopEarly \/ Join \/ Closed \/ Reload \/ Export
           \/ UNCHANGED vars
  BY <1>6, <1>9 DEF NotDue, SubmitPasses, GoOn, StopEarly, Join, Closed, Reload, Export, disk,
                    writer, vars
<1>10. CASE \/ Raise \/ Close \/ Take \/ TaskDone
            \/ \E g \in GradAccums, a \in Asyncs, n \in CkptEverys, resume \in BOOLEAN :
                 Start(g, a, n, resume)
  BY <1>7, <1>10 DEF Raise, Start, Close, Take, TaskDone, disk
<1> QED
  BY <1>2, <1>3, <1>4, <1>5, <1>8, <1>9, <1>10, StepKinds

LEMMA PayloadFacts ==
    ASSUME TypeOK
    PROVE  /\ \A p \in Payload : p.step \in Nat /\ p.best \in Nat
           /\ \A s \in Saved : ckpts[s] \in Payload /\ s \in Steps /\ s \in Nat
           /\ Queued \cup InHand \subseteq Payload
           /\ step \in Nat /\ best \in Nat
<1>1. Steps \subseteq Nat /\ 1 .. Inf \subseteq Nat
  BY SizeFacts DEF Steps
<1>2. \A p \in Payload : p.step \in Nat /\ p.best \in Nat
  BY <1>1 DEF Payload
<1>3. \A s \in Saved : ckpts[s] \in Payload /\ s \in Steps /\ s \in Nat
  BY <1>1 DEF TypeOK, TypeDisk, Saved
<1>4. Queued \cup InHand \subseteq Payload
  BY DEF TypeOK, TypeWriter, Queued, InHand, Submitted
<1>5. step \in Nat /\ best \in Nat
  BY <1>1 DEF TypeOK, TypeLoop, TypeTracker
<1> QED
  BY <1>2, <1>3, <1>4, <1>5

\* Nothing new on the disk or on its way there.
LEMMA OrderKept ==
    ASSUME TypeOK, TypeOK', Handshake, Ordered,
           \A s \in Saved' : s \in Saved /\ ckpts'[s] = ckpts[s],
           Queued' \cup InHand' \subseteq Queued \cup InHand,
           \/ Queued' = {} \/ InHand' = {}
           \/ Queued' \subseteq Queued /\ InHand' \subseteq InHand,
           Up' => Up /\ step <= step' /\ best' <= best,
           wpc' = "prune" => job'.step \in Saved'
    PROVE  Ordered'
<1>1. step' \in Nat /\ best' \in Nat /\ step \in Nat /\ best \in Nat
      /\ (\A p \in Payload : p.step \in Nat /\ p.best \in Nat)
      /\ (\A s \in Saved : ckpts[s] \in Payload) /\ Queued \cup InHand \subseteq Payload
  <2>1. step' \in Nat /\ best' \in Nat
    BY SizeFacts DEF TypeOK, TypeLoop, TypeTracker, Steps
  <2> QED
    BY <2>1, PayloadFacts
<1>2. \A s, t \in Saved' : s <= t => ckpts'[t].best <= ckpts'[s].best
  BY DEF Ordered
<1>3. \A p \in Queued' \cup InHand', s \in Saved' : Before(ckpts'[s], p.step, p.best)
  BY DEF Ordered
<1>4. \A p \in InHand', r \in Queued' : Before(p, r.step, r.best)
  BY DEF Ordered
<1>5. Up' => \A s \in Saved' : Before(ckpts'[s], step', best')
  <2> SUFFICES ASSUME Up', NEW s \in Saved' PROVE Before(ckpts'[s], step', best')
    OBVIOUS
  <2>1. Before(ckpts[s], step, best) /\ ckpts'[s] = ckpts[s] /\ ckpts[s] \in Payload
    BY <1>1 DEF Ordered
  <2> QED
    BY <1>1, <2>1 DEF Before
<1>6. Up' => \A p \in Queued' \cup InHand' : Before(p, step', best')
  <2> SUFFICES ASSUME Up', NEW p \in Queued' \cup InHand' PROVE Before(p, step', best')
    OBVIOUS
  <2>1. Before(p, step, best) /\ p \in Payload
    BY <1>1 DEF Ordered
  <2> QED
    BY <1>1, <2>1 DEF Before
<1> QED
  BY <1>2, <1>3, <1>4, <1>5, <1>6 DEF Ordered

\* One of the payloads p of the run comes to the disk, which has nothing newer.
LEMMA OrderWritten ==
    ASSUME TypeOK, TypeOK', Stored', Ordered, NEW p \in Payload,
           \A s \in Saved' : (s \in Saved /\ ckpts'[s] = ckpts[s]) \/ ckpts'[s] = p,
           \A s \in Saved : Before(ckpts[s], p.step, p.best) /\ ckpts[s].step = s
    PROVE  \A s, t \in Saved' : s <= t => ckpts'[t].best <= ckpts'[s].best
<1> SUFFICES ASSUME NEW s \in Saved', NEW t \in Saved', s <= t
             PROVE  ckpts'[t].best <= ckpts'[s].best
  OBVIOUS
<1>1. /\ p.step \in Nat /\ p.best \in Nat /\ s \in Nat /\ t \in Nat
      /\ ckpts'[s].step = s /\ ckpts'[t].step = t
      /\ ckpts'[s].best \in Nat /\ ckpts'[t].best \in Nat
  BY PayloadFacts DEF Stored
<1>2. CASE ckpts'[s] = ckpts[s] /\ ckpts'[t] = ckpts[t] /\ s \in Saved /\ t \in Saved
  BY <1>2 DEF Ordered
<1>3. CASE ckpts'[t] = p /\ ckpts'[s] = ckpts[s] /\ s \in Saved
  BY <1>3 DEF Before
<1>4. CASE ckpts'[s] = p /\ ckpts'[t] = ckpts[t] /\ t \in Saved
  <2>1. t <= p.step /\ s = p.step
    BY <1>1, <1>4 DEF Before
  <2>2. s = t
    BY <1>1, <2>1
  <2> QED
    BY <1>1, <2>2
<1>5. CASE ckpts'[s] = p /\ ckpts'[t] = p
  BY <1>1, <1>5
<1> QED
  BY <1>2, <1>3, <1>4, <1>5

LEMMA OrderedStep ==
    ASSUME TypeOK, TypeOK', Handshake, Placed, Stored, Stored', Ordered, [Next]_vars
    PROVE  Ordered'
<1>0. /\ ckpts \in [Steps -> Payload \cup {Absent}]
      /\ Saved = {s \in Steps : ckpts[s] # Absent} /\ Saved' = {s \in Steps : ckpts'[s] # Absent}
      /\ step \in Steps
  BY DEF TypeOK, TypeDisk, TypeLoop, Saved
<1>1. CASE \/ Raise
           \/ \E g \in GradAccums, a \in Asyncs, n \in CkptEverys, resume \in BOOLEAN :
                Start(g, a, n, resume)
  <2>1. Fresh /\ ~Up' /\ UNCHANGED ckpts /\ wpc' # "prune"
    BY <1>1 DEF Raise, Start, Up, Fresh, disk
  <2>2. Queued' = {} /\ InHand' = {}
    BY <2>1, Pending
  <2> QED
    BY <1>0, <2>1, <2>2, OrderKept
<1>2. CASE SaveFails
  <2>1. /\ Snapshot \in Payload /\ Snapshot.step = step /\ Snapshot.best = best /\ Up
        /\ Fresh /\ ~Up' /\ wpc' # "prune"
    BY <1>2, SavedHere DEF SaveFails, Up, Fresh
  <2>2. Queued' = {} /\ InHand' = {}
    BY <2>1, Pending
  <2>3. \A s \in Saved' : (s \in Saved /\ ckpts'[s] = ckpts[s]) \/ ckpts'[s] = Snapshot
    BY <1>2, SavedHere
  <2>4. \A s \in Saved : Before(ckpts[s], step, best) /\ ckpts[s].step = s
    BY <2>1 DEF Ordered, Stored
  <2>5. \A s, t \in Saved' : s <= t => ckpts'[t].best <= ckpts'[s].best
    BY <2>1, <2>3, <2>4, OrderWritten
  <2> QED
    BY <2>1, <2>2, <2>5 DEF Ordered
<1>3. CASE SaveSync \/ SaveLast
  <2>1. /\ Snapshot \in Payload /\ Snapshot.step = step /\ Snapshot.best = best /\ Up
        /\ UNCHANGED <<step, best, wpc, queue, job>> /\ wpc # "prune"
    BY <1>3, SavedHere DEF SaveSync, SaveLast, Up, loop, tracker, writer, Handshake
  <2>2. Queued' = {} /\ InHand' = {}
    BY <1>3, Pending
  <2>3. \A s \in Saved' : (s \in Saved /\ ckpts'[s] = ckpts[s]) \/ ckpts'[s] = Snapshot
    BY <1>3, SavedHere
  <2>4. \A s \in Saved : Before(ckpts[s], step, best) /\ ckpts[s].step = s
    BY <2>1 DEF Ordered, Stored
  <2>5. \A s, t \in Saved' : s <= t => ckpts'[t].best <= ckpts'[s].best
    BY <2>1, <2>3, <2>4, OrderWritten
  <2>6. Before(Snapshot, step, best)
    BY <2>1, PayloadFacts DEF Before
  <2>7. \A s \in Saved' : Before(ckpts'[s], step', best')
    BY <2>1, <2>3, <2>4, <2>6
  <2> QED
    BY <2>1, <2>2, <2>5, <2>7 DEF Ordered
<1>4. CASE Put
  <2>1. /\ Snapshot.step = step /\ Snapshot.best = best /\ Up
        /\ UNCHANGED <<ckpts, step, best, wpc, job>>
    BY <1>4, SnapshotTyped DEF Put, Up, loop, tracker, disk
  <2>2. Queued = {} /\ Queued' = {Snapshot} /\ InHand' = InHand /\ Saved' = Saved
    BY <1>4, <2>1, Pending DEF Saved
  <2>3. Before(Snapshot, step, best)
    BY <2>1, PayloadFacts DEF Before
  <2> QED
    BY <2>1, <2>2, <2>3 DEF Ordered
<1>5. CASE Write \/ WriteFails
  <2>1. /\ job \in Payload /\ InHand = {job} /\ job \in InHand
        /\ UNCHANGED <<step, best, pc, queue>>
    BY <1>5, Pending DEF Write, WriteFails, loop, tracker
  <2>2. \A s \in Saved' : (s \in Saved /\ ckpts'[s] = ckpts[s]) \/ ckpts'[s] = job
    BY <1>0, <1>5 DEF Write, WriteFails
  <2>3. \A s \in Saved : Before(ckpts[s], job.step, job.best) /\ ckpts[s].step = s
    BY <2>1 DEF Ordered, Stored
  <2>4. \A s, t \in Saved' : s <= t => ckpts'[t].best <= ckpts'[s].best
    BY <2>1, <2>2, <2>3, OrderWritten
  <2>5. Queued' = Queued /\ InHand' \subseteq {job}
    BY <1>5, <2>1, Pending DEF Write, WriteFails, InHand, Queued
  <2>6. Before(job, job.step, job.best)
    BY <2>1, PayloadFacts DEF Before
  <2>7. \A p \in Queued' \cup InHand', s \in Saved' : Before(ckpts'[s], p.step, p.best)
    BY <2>1, <2>2, <2>5, <2>6 DEF Ordered
  <2>8. \A p \in InHand', r \in Queued' : Before(p, r.step, r.best)
    BY <2>1, <2>5 DEF Ordered
  <2>9. Up' => Up
    BY <2>1 DEF Up
  <2>10. Up' => /\ \A s \in Saved' : Before(ckpts'[s], step', best')
                /\ \A p \in Queued' \cup InHand' : Before(p, step', best')
    BY <2>1, <2>2, <2>5, <2>9 DEF Ordered
  <2>11. wpc' = "prune" => job'.step \in Saved'
    <3>1. CASE WriteFails
      BY <3>1 DEF WriteFails
    <3>2. CASE Write
      <4>1. job' = job /\ job.step \in Steps /\ ckpts'[job.step] = job /\ job # Absent
        BY <1>0, <2>1, <3>2, Sentinels DEF Write, Payload
      <4> QED
        BY <1>0, <4>1
    <3> QED
      BY <1>5, <3>1, <3>2
  <2> QED
    BY <2>4, <2>7, <2>8, <2>10, <2>11 DEF Ordered
<1>6. CASE Prune
  <2>1. /\ UNCHANGED <<step, best, pc, queue, job, wpc>> /\ wpc = "prune"
        /\ Cardinality(Saved) > 2 /\ ckpts' = [ckpts EXCEPT ![Oldest(Saved)] = Absent]
    BY <1>6 DEF Prune, loop, tracker, writer
  <2>2. job \in InHand /\ job.step \in Saved
    BY <2>1, Pending DEF Ordered
  <2>3. PICK t \in Saved : t # Oldest(Saved) /\ Oldest(Saved) <= t
    BY <1>0, <2>1, OldestSpared
  <2>4. t <= job.step /\ Oldest(Saved) \in Saved
    BY <1>0, <2>1, <2>2, OldestSpared DEF Ordered, Before, Stored
  <2>5. Oldest(Saved) # job.step
    BY <2>2, <2>3, <2>4, PayloadFacts
  <2>6. /\ \A s \in Saved' : s \in Saved /\ ckpts'[s] = ckpts[s]
        /\ job'.step \in Saved'
    BY <1>0, <2>1, <2>2, <2>5
  <2>7. Queued' = Queued /\ InHand' = InHand
    BY <2>1, Pending
  <2>8. Up' => Up /\ step <= step' /\ best' <= best
    BY <2>1, PayloadFacts DEF Up
  <2> QED
    BY <2>6, <2>7, <2>8, OrderKept
<1>7. CASE ClearFile
  <2>1. \A s \in Saved' : s \in Saved /\ ckpts'[s] = ckpts[s]
    BY <1>0, <1>7 DEF ClearFile
  <2>2. Queued' = Queued /\ InHand' = InHand /\ ~Up' /\ wpc' # "prune"
    BY <1>7, Pending DEF ClearFile, Up, writer, Handshake
  <2> QED
    BY <2>1, <2>2, OrderKept
<1>8. CASE Cleared \/ NothingSaved
  <2>1. Saved' = {} /\ queue = <<>> /\ wpc = "idle" /\ UNCHANGED <<queue, job, wpc>>
    BY <1>8 DEF Cleared, NothingSaved, Handshake, disk, writer, Saved
  <2>2. Queued' = {} /\ InHand' = {}
    BY <2>1, Pending
  <2> QED
    BY <2>1, <2>2 DEF Ordered
<1>9. CASE Restore
  <2> DEFINE n == Newest(Saved)
             p == ckpts[n]
  <2>1. /\ step' = p.step /\ best' = p.best /\ UNCHANGED <<ckpts, queue, job, wpc>>
        /\ pc = "restore" /\ Saved # {}
    BY <1>9, Zenon DEF Restore, Loaded, disk, writer
  <2>2. n \in Saved /\ \A s \in Saved : s <= n
    BY <2>1, NewestSaved
  <2>3. Queued' = {} /\ InHand' = {} /\ wpc' # "prune"
    BY <2>1, Pending DEF Handshake
  <2>4. \A s \in Saved : Before(ckpts[s], p.step, p.best)
    BY <2>2 DEF Ordered, Stored, Before
  <2> QED
    BY <1>0, <2>1, <2>3, <2>4 DEF Ordered
<1>10. CASE /\ UNCHANGED ckpts
            /\ wpc' # "prune" \/ (wpc' = wpc /\ job' = job)
            /\ \/ UNCHANGED <<queue, job>>
               \/ Take \/ TaskDone \/ Close
            /\ Up' => Up /\ step <= step' /\ best' <= best
  <2>1. \A s \in Saved' : s \in Saved /\ ckpts'[s] = ckpts[s]
    BY <1>0, <1>10
  <2>2. Queued' \cup InHand' \subseteq Queued \cup InHand
        /\ \/ Queued' = {} \/ InHand' = {}
           \/ Queued' \subseteq Queued /\ InHand' \subseteq InHand
    BY <1>10, Pending
  <2>3. wpc' = "prune" => job'.step \in Saved'
    BY <1>0, <1>10 DEF Ordered
  <2> QED
    BY <1>10, <2>1, <2>2, <2>3, OrderKept
<1>11. \A e \in Emas : LogWindow(e) => best' <= best
  BY PayloadFacts, SizesAssumption DEF LogWindow, Emas
<1>12. step \in Nat /\ best \in Nat
  BY PayloadFacts
<1>13. CASE Accumulate \/ OptimizerStep \/ EndEpoch \/ AllTrained \/ \E e \in Emas : LogWindow(e)
  BY <1>10, <1>11, <1>12, <1>13 DEF Accumulate, OptimizerStep, EndEpoch, AllTrained, LogWindow, disk,
                                     writer, loop, tracker, Up
<1>14. CASE NotDue \/ SubmitPasses \/ GoOn \/ StopEarly \/ Join \/ Close \/ Closed
  BY <1>10, <1>12, <1>14 DEF NotDue, SubmitPasses, GoOn, StopEarly, Join, Close, Closed, disk, writer,
                              loop, tracker, Up
<1>15. CASE Take \/ TaskDone \/ Reload \/ Export \/ UNCHANGED vars
  BY <1>10, <1>12, <1>15 DEF Take, TaskDone, Reload, Export, disk, writer, loop, tracker, Up, vars
<1> QED
  BY <1>1, <1>2, <1>3, <1>4, <1>5, <1>6, <1>7, <1>8, <1>9, <1>13, <1>14, <1>15, StepKinds

\* Every payload was there before the step or is the state in memory.
LEMMA Origin ==
    ASSUME TypeOK, Handshake, Placed, [Next]_vars
    PROVE  /\ \A s \in Saved' : \/ s \in Saved /\ ckpts'[s] = ckpts[s]
                                \/ ckpts'[s] \in InHand
                                \/ ckpts'[s].emas = emas /\ ckpts'[s].best = best
           /\ \A p \in Queued' \cup InHand' : \/ p \in Queued \cup InHand
                                              \/ p.emas = emas /\ p.best = best
<1>0. /\ ckpts \in [Steps -> Payload \cup {Absent}]
      /\ Saved = {s \in Steps : ckpts[s] # Absent} /\ Saved' = {s \in Steps : ckpts'[s] # Absent}
      /\ step \in Steps
  BY DEF TypeOK, TypeDisk, TypeLoop, Saved
<1>1. CASE SaveSync \/ SaveLast \/ SaveFails
  <2>1. Queued' \cup InHand' \subseteq Queued \cup InHand
    BY <1>1, Pending DEF SaveFails
  <2> QED
    BY <1>1, <2>1, SavedHere
<1>2. CASE Put
  <2>1. Snapshot.emas = emas /\ Snapshot.best = best /\ UNCHANGED ckpts
    BY <1>2, SnapshotTyped DEF Put, disk
  <2> QED
    BY <1>0, <1>2, <2>1, Pending
<1>3. CASE Write \/ WriteFails
  <2>1. job \in Payload /\ job \in InHand
    BY <1>3, Pending DEF Write, WriteFails
  <2>2. \A s \in Steps : ckpts'[s] = ckpts[s] \/ ckpts'[s] = job
    BY <1>0, <1>3 DEF Write, WriteFails
  <2>3. Queued' \cup InHand' \subseteq Queued \cup InHand
    BY <1>3, Pending DEF Write, WriteFails
  <2> QED
    BY <1>0, <2>1, <2>2, <2>3
<1>4. CASE ClearFile \/ Prune
  <2>1. \A s \in Saved' : s \in Saved /\ ckpts'[s] = ckpts[s]
    BY <1>0, <1>4 DEF ClearFile, Prune
  <2>2. Queued' = Queued /\ InHand' = InHand
    BY <1>4, Pending DEF ClearFile, Prune, writer
  <2> QED
    BY <2>1, <2>2
<1>5. CASE UNCHANGED ckpts /\ (UNCHANGED <<queue, job>> \/ Fresh \/ Take \/ Close \/ TaskDone)
  <2>1. Queued' \cup InHand' \subseteq Queued \cup InHand
    BY <1>5, Pending
  <2> QED
    BY <1>0, <1>5, <2>1
<1>6. CASE Cleared \/ NothingSaved \/ Restore \/ Accumulate \/ OptimizerStep \/ EndEpoch
           \/ AllTrained \/ \E e \in Emas : LogWindow(e)
  BY <1>5, <1>6 DEF Cleared, NothingSaved, Restore, Loaded, Accumulate, OptimizerStep, EndEpoch,
                    AllTrained, LogWindow, disk, writer
<1>7. CASE NotDue \/ SubmitPasses \/ GoOn \/ StopEarly \/ Join \/ Closed \/ Reload \/ Export
           \/ UNCHANGED vars
  BY <1>5, <1>7 DEF NotDue, SubmitPasses, GoOn, StopEarly, Join, Closed, Reload, Export, disk,
                    writer, vars
<1>8. CASE \/ Raise \/ Close \/ Take \/ TaskDone
           \/ \E g \in GradAccums, a \in Asyncs, n \in CkptEverys, resume \in BOOLEAN :
                 Start(g, a, n, resume)
  BY <1>5, <1>8 DEF Raise, Start, Close, Take, TaskDone, disk
<1> QED
  BY <1>1, <1>2, <1>3, <1>4, <1>6, <1>7, <1>8, StepKinds

\* The memory goes on from a state that best.pt covers.
LEMMA BestSame ==
    ASSUME TypeOK, Handshake, Placed, BestKept, [Next]_vars, bestFile' = bestFile,
           ragged' = ragged,
           \/ emas' = <<>>
           \/ emas' = emas /\ best' = best
           \/ \E s \in Saved : emas' = ckpts[s].emas /\ best' = ckpts[s].best
    PROVE  BestKept'
<1> SUFFICES ASSUME SaveBest, ~ragged PROVE BestKept'
  BY DEF BestKept
<1>1. /\ Beaten(emas, best)
      /\ \A s \in Saved : Beaten(ckpts[s].emas, ckpts[s].best)
      /\ \A p \in Queued \cup InHand : Beaten(p.emas, p.best)
  BY DEF BestKept
<1>2. Beaten(emas, best)'
  BY <1>1 DEF Beaten
<1>3. \A s \in Saved' : Beaten(ckpts[s].emas, ckpts[s].best)'
  BY <1>1, Origin DEF Beaten
<1>4. \A p \in Queued' \cup InHand' : p.emas # <<>> => bestFile' # Absent /\ bestFile'.ema <= p.best
  BY <1>1, Origin DEF Beaten
<1> QED
  BY <1>2, <1>3, <1>4 DEF BestKept, Beaten

LEMMA BestStep ==
    ASSUME TypeOK, Handshake, Placed, Following, Ordered, BestKept, BestLoaded, [Next]_vars
    PROVE  BestKept' /\ BestLoaded'
<1> USE DEF disk, tracker, loop
<1>1. ASSUME NEW e \in Emas, LogWindow(e) PROVE BestKept' /\ BestLoaded'
  <2>1. BestLoaded'
    BY <1>1 DEF LogWindow, BestLoaded
  <2>2. CASE SaveBest /\ ~ragged
    <3>1. e \in Nat /\ e < Inf /\ best \in Nat /\ UNCHANGED <<ckpts, Saved, Queued, InHand>>
      BY <1>1, SizesAssumption, PayloadFacts, Pending DEF LogWindow, Emas, Inf, writer, Saved
    <3>2. /\ Up /\ \A s \in Saved : best <= ckpts[s].best
          /\ \A p \in Queued \cup InHand : best <= p.best
      BY <1>1 DEF LogWindow, Up, Ordered, Before
    <3>3. bestFile' # Absent /\ bestFile'.ema <= best' /\ best' <= best
      <4>1. CASE e < best
        <5>1. best' = e /\ bestFile' = [step |-> step, ema |-> e, weights |-> weights]
          BY <1>1, <2>2, <4>1 DEF LogWindow
        <5>2. bestFile' \in [step: Steps, ema: Emas, weights: Seq(Window)]
          BY <5>1 DEF TypeOK, TypeLoop
        <5> QED
          BY <3>1, <4>1, <5>1, <5>2, SentinelsAssumption
      <4>2. CASE ~(e < best)
        <5>1. best' = best /\ bestFile' = bestFile
          BY <1>1, <4>2 DEF LogWindow
        <5>2. emas # <<>>
          BY <2>2, <3>1, <4>2 DEF Following, Tracked, IsLowest
        <5> QED
          BY <2>2, <3>1, <5>1, <5>2 DEF BestKept, Beaten
      <4> QED
        BY <4>1, <4>2
    <3>4. bestFile' \in [step: Steps, ema: Emas, weights: Seq(Window)] \cup {Absent}
          /\ Emas \subseteq Nat /\ best' \in Nat
      <4>1. TypeDisk' /\ TypeTracker'
        BY DiskTyped, TrackerTyped
      <4> QED
        BY <4>1, SizesAssumption DEF TypeDisk, TypeTracker, Emas, Inf
    <3>5. bestFile'.ema \in Nat
      BY <3>3, <3>4
    <3>6. \A s \in Saved : bestFile'.ema <= ckpts[s].best
      BY <3>1, <3>2, <3>3, <3>4, <3>5, PayloadFacts
    <3>7. \A p \in Queued \cup InHand : bestFile'.ema <= p.best
      BY <3>1, <3>2, <3>3, <3>4, <3>5, PayloadFacts
    <3>8. Beaten(emas, best)' /\ \A s \in Saved' : Beaten(ckpts[s].emas, ckpts[s].best)'
      BY <3>1, <3>3, <3>6 DEF Beaten
    <3>9. \A p \in Queued' \cup InHand' :
             p.emas # <<>> => bestFile' # Absent /\ bestFile'.ema <= p.best
      BY <3>1, <3>3, <3>7
    <3> QED
      BY <2>1, <3>8, <3>9 DEF BestKept, Beaten
  <2>3. CASE ~(SaveBest /\ ~ragged)
    <3>1. ragged' = ragged
      BY <1>1 DEF LogWindow
    <3> QED
      BY <2>1, <2>3, <3>1 DEF BestKept
  <2> QED
    BY <2>2, <2>3
<1>2. CASE ClearFile
  BY <1>2 DEF ClearFile, BestKept, BestLoaded
<1>3. CASE Cleared
  <2>1. emas' = <<>> /\ Saved' = {} /\ queue = <<>> /\ wpc = "idle" /\ UNCHANGED <<queue, job>>
    BY <1>3 DEF Cleared, Placed, Handshake, writer, Saved
  <2>2. Queued' = {} /\ InHand' = {}
    BY <2>1, Pending
  <2> QED
    BY <1>3, <2>1, <2>2 DEF BestKept, Beaten, BestLoaded, Cleared
<1>4. CASE \/ Raise \/ SaveFails
           \/ \E g \in GradAccums, a \in Asyncs, n \in CkptEverys, resume \in BOOLEAN :
                Start(g, a, n, resume)
  <2>1. emas' = <<>> /\ bestFile' = bestFile /\ ragged' = ragged
    BY <1>4 DEF Raise, SaveFails, Start, Fresh
  <2> QED
    BY <2>1, BestSame DEF BestLoaded
<1>5. CASE Restore
  <2> DEFINE p == ckpts[Newest(Saved)]
  <2>1. /\ emas' = p.emas /\ best' = p.best /\ bestFile' = bestFile /\ ragged' = ragged
        /\ pc' = "train" /\ Saved # {}
    BY <1>5, Zenon DEF Restore, Loaded
  <2>2. Newest(Saved) \in Saved
    BY <2>1, NewestSaved
  <2> QED
    BY <2>1, <2>2, BestSame DEF BestLoaded
<1>6. CASE Reload
  <2>1. UNCHANGED <<bestFile, ragged, emas, best>>
    BY <1>6 DEF Reload
  <2>2. BestLoaded'
    BY <1>6, <2>1 DEF Reload, BestLoaded, BestKept, Beaten
  <2> QED
    BY <2>1, <2>2, BestSame
<1>7. CASE /\ UNCHANGED <<bestFile, ragged, emas, best>>
           /\ pc' # "export" \/ (pc' = pc /\ UNCHANGED weights)
  BY <1>7, BestSame DEF BestLoaded
<1>8. CASE NothingSaved \/ Accumulate \/ OptimizerStep \/ EndEpoch \/ AllTrained
  BY <1>7, <1>8 DEF NothingSaved, Accumulate, OptimizerStep, EndEpoch, AllTrained
<1>9. CASE NotDue \/ SubmitPasses \/ Put \/ SaveSync \/ GoOn \/ StopEarly \/ Join
  BY <1>7, <1>9 DEF NotDue, SubmitPasses, Put, SaveSync, GoOn, StopEarly, Join
<1>10. CASE SaveLast \/ Close \/ Closed \/ Export
  BY <1>7, <1>10 DEF SaveLast, Close, Closed, Export
<1>11. CASE Take \/ Write \/ WriteFails \/ Prune \/ TaskDone \/ UNCHANGED vars
  BY <1>7, <1>11 DEF Take, Write, WriteFails, Prune, TaskDone, vars
<1> QED
  BY <1>1, <1>2, <1>3, <1>4, <1>5, <1>6, <1>8, <1>9, <1>10, <1>11, StepKinds

\* Nothing moves to the disk; the loop goes on.
LEMMA LaggingKept ==
    ASSUME TypeOK, Lagging, Up' /\ ~failed' => Up /\ ~failed,
           UNCHANGED <<ckpts, every>>, Queued' = Queued, InHand' = InHand,
           step' \in {step, step + 1},
           Decided' = Decided \/ (Decided' = step /\ Decided = step - 1 /\ step % every # 0)
    PROVE  Lagging'
<1> SUFFICES ASSUME Up', ~failed' PROVE Lagging'
  BY DEF Lagging
<1>1. Saved' = Saved /\ step \in Nat /\ every' = every
  BY PayloadFacts DEF Saved
<1>2. /\ \A p \in InHand : Reached(p.step)
      /\ \A p \in Queued : Reached(p.step) \/ \E r \in InHand : p.step <= r.step + every
  BY DEF Lagging
<1>3. PICK a \in Saved \cup {0} \cup {p.step : p \in Queued \cup InHand} :
             a <= step /\ NoneDue(a, Decided, every)
  BY DEF Lagging
<1>4. a \in Nat /\ a <= step'
  BY <1>1, <1>3, PayloadFacts
<1>5. NoneDue(a, Decided', every)
  <2>1. CASE Decided' = Decided
    BY <1>3, <2>1
  <2>2. CASE Decided' = step /\ Decided = step - 1 /\ step % every # 0
    <3>1. \A n \in a + 1 .. step : n \in a + 1 .. step - 1 \/ n = step
      BY <1>1, <1>4
    <3> QED
      BY <1>3, <2>2, <3>1 DEF NoneDue
  <2> QED
    BY <2>1, <2>2
<1>6. \A p \in InHand' : Reached(p.step)'
  BY <1>1, <1>2 DEF Reached
<1>7. \A p \in Queued' : Reached(p.step)' \/ \E r \in InHand' : p.step <= r.step + every'
  BY <1>1, <1>2 DEF Reached
<1>8. \E b \in Saved' \cup {0} \cup {p.step : p \in Queued' \cup InHand'} :
           b <= step' /\ NoneDue(b, Decided', every')
  BY <1>1, <1>3, <1>4, <1>5
<1> QED
  BY <1>6, <1>7, <1>8 DEF Lagging

LEMMA LaggingStep ==
    ASSUME TypeOK, Handshake, Placed, Stored, Ordered, Lagging, [Next]_vars
    PROVE  Lagging'
<1>0. /\ ckpts \in [Steps -> Payload \cup {Absent}]
      /\ Saved = {s \in Steps : ckpts[s] # Absent} /\ Saved' = {s \in Steps : ckpts'[s] # Absent}
      /\ step \in Steps /\ step \in Nat /\ every \in Nat \ {0}
      /\ \A s \in Saved : s \in Nat
      /\ \A p \in Queued \cup InHand : p.step \in Nat
  BY PayloadFacts, SizeFacts DEF TypeOK, TypeDisk, TypeLoop, TypeControl, Saved
<1>1. \A s \in Saved : Up => s <= step
  BY DEF Ordered, Before, Stored
<1>2. CASE Put
  <2> SUFFICES ASSUME ~failed PROVE Lagging'
    BY <1>2 DEF Lagging, Put
  <2>1. /\ Up /\ pc = "put" /\ pc' = "stop" /\ Snapshot.step = step
        /\ UNCHANGED <<ckpts, every, step>> /\ Saved' = Saved /\ step # 0
    BY <1>0, <1>2, SnapshotTyped, SizeFacts
       DEF Put, Up, disk, setting, loop, Saved, Placed, Counted, TypeOK, TypeControl, TypeLoop
  <2>2. Queued = {} /\ Queued' = {Snapshot} /\ InHand' = InHand
    BY <1>2, Pending
  <2>3. \A p \in InHand : Reached(p.step)
    BY <2>1 DEF Lagging
  <2>4. PICK a \in Saved \cup {0} \cup {p.step : p \in InHand} : NoneDue(a, step - 1, every)
    BY <2>1, <2>2 DEF Lagging, Decided
  <2>5. a \in Nat /\ step - 1 \in Nat
    BY <1>0, <2>1, <2>4
  <2>6. step - 1 < a + every
    BY <1>0, <2>4, <2>5, GapBound DEF NoneDue
  <2>7. step <= a + every
    BY <1>0, <2>5, <2>6
  <2>8. \A p \in InHand' : Reached(p.step)'
    BY <2>1, <2>2, <2>3 DEF Reached
  <2>9. Reached(step)' \/ \E r \in InHand' : step <= r.step + every'
    BY <2>1, <2>2, <2>4, <2>7 DEF Reached
  <2>10. step' <= step' /\ NoneDue(step', Decided', every')
    BY <1>0, <2>1 DEF NoneDue, Decided
  <2>11. \E b \in Saved' \cup {0} \cup {p.step : p \in Queued' \cup InHand'} :
            b <= step' /\ NoneDue(b, Decided', every')
    BY <2>1, <2>2, <2>10
  <2> QED
    BY <2>1, <2>2, <2>8, <2>9, <2>11 DEF Lagging
<1>3. CASE SaveSync \/ SaveLast
  <2>1. /\ Up /\ UNCHANGED <<step, every>> /\ pc' \in {"stop", "close", "reload"}
    BY <1>3 DEF SaveSync, SaveLast, Up, loop, setting
  <2>2. Queued' = {} /\ InHand' = {}
    BY <1>3, Pending
  <2>3. step' \in Saved'
    BY <1>1, <1>3, <2>1, SavedHere
  <2>4. step' <= step' /\ NoneDue(step', Decided', every')
    BY <1>0, <2>1 DEF NoneDue, Decided
  <2> QED
    BY <2>2, <2>3, <2>4 DEF Lagging
<1>4. CASE Restore
  <2> DEFINE n == Newest(Saved)
  <2>1. /\ step' = ckpts[n].step /\ UNCHANGED <<ckpts, queue, job, wpc, every>>
        /\ pc = "restore" /\ pc' = "train" /\ Saved # {}
    BY <1>4, Zenon DEF Restore, Loaded, disk, writer, setting
  <2>2. n \in Saved /\ ckpts[n].step = n
    BY <2>1, NewestSaved DEF Stored
  <2>3. Queued' = {} /\ InHand' = {}
    BY <2>1, Pending DEF Handshake
  <2>4. step' \in Saved' /\ step' \in Nat
    BY <1>0, <2>1, <2>2
  <2>5. step' <= step' /\ NoneDue(step', Decided', every')
    BY <2>1, <2>4 DEF NoneDue, Decided
  <2> QED
    BY <2>3, <2>4, <2>5 DEF Lagging
<1>5. CASE Cleared \/ NothingSaved
  <2>1. step' = 0 /\ queue = <<>> /\ wpc = "idle" /\ UNCHANGED <<queue, job, wpc>> /\ pc' = "train"
    BY <1>5 DEF Cleared, NothingSaved, Placed, Handshake, disk, writer, loop
  <2>2. Queued' = {} /\ InHand' = {}
    BY <2>1, Pending
  <2>3. 0 <= step' /\ NoneDue(0, Decided', every')
    BY <2>1 DEF NoneDue, Decided
  <2> QED
    BY <2>2, <2>3 DEF Lagging

<1>6. CASE UNCHANGED <<pc, step, every, failed>> /\ (Take \/ Write \/ Prune \/ TaskDone)
  <2> SUFFICES ASSUME Up, ~failed PROVE Lagging'
    BY <1>6 DEF Lagging, Up
  <2>1. /\ \A p \in InHand : Reached(p.step)
        /\ \A p \in Queued : Reached(p.step) \/ \E r \in InHand : p.step <= r.step + every
    BY DEF Lagging
  <2>2. PICK a \in Saved \cup {0} \cup {p.step : p \in Queued \cup InHand} :
               a <= step /\ NoneDue(a, Decided, every)
    BY DEF Lagging
  <2>3. Decided' = Decided /\ step' = step /\ every' = every
    BY <1>6 DEF Decided
  <2>4. CASE Take
    <3>1. Saved' = Saved /\ InHand = {} /\ InHand' = Queued /\ Queued' = {}
      BY <1>0, <2>4, Pending DEF Take, disk
    <3>2. \A p \in InHand' : Reached(p.step)'
      BY <2>1, <2>3, <3>1 DEF Reached
    <3>3. a \in Saved' \cup {0} \cup {p.step : p \in Queued' \cup InHand'}
      BY <2>2, <3>1
    <3> QED
      BY <2>2, <2>3, <3>1, <3>2, <3>3 DEF Lagging
  <2>5. CASE Write
    <3>1. UNCHANGED <<queue, job>> /\ job \in Payload
      BY <2>5, Pending DEF Write
    <3>2. Queued' = Queued /\ InHand' = InHand /\ Saved \subseteq Saved'
      BY <1>0, <2>5, <3>1, Pending, Sentinels DEF Write
    <3>3. \A p \in InHand' : Reached(p.step)'
      BY <2>1, <2>3, <3>2 DEF Reached
    <3>4. \A p \in Queued' : Reached(p.step)' \/ \E r \in InHand' : p.step <= r.step + every'
      BY <2>1, <2>3, <3>2 DEF Reached
    <3>5. a \in Saved' \cup {0} \cup {p.step : p \in Queued' \cup InHand'}
      BY <2>2, <3>2
    <3> QED
      BY <2>2, <2>3, <3>3, <3>4, <3>5 DEF Lagging
  <2>6. CASE Prune
    <3> DEFINE o == Oldest(Saved)
    <3>1. Queued' = Queued /\ InHand' = InHand
      BY <2>6, Pending DEF Prune, writer
    <3>2. /\ o \in Saved /\ \A t \in Saved : o <= t
          /\ \E t \in Saved : t # o /\ o <= t
      BY <1>0, <2>6, OldestSpared DEF Prune
    <3>3. PICK t \in Saved : t # o /\ o <= t
      BY <3>2
    <3>4. ckpts' = [ckpts EXCEPT ![o] = Absent]
      BY <2>6 DEF Prune
    <3> HIDE DEF o
    <3>5. Saved' = Saved \ {o}
      BY <1>0, <3>2, <3>4
    <3>6. t \in Saved' /\ t <= step
      BY <1>1, <3>3, <3>5
    <3>7. ASSUME NEW s \in Nat, Reached(s) PROVE Reached(s)'
      <4>1. PICK u \in Saved \cup {0} : s <= u + every
        BY <3>7 DEF Reached
      <4>2. CASE u \in Saved' \cup {0}
        BY <2>3, <4>1, <4>2 DEF Reached
      <4>3. CASE u = o
        <5>1. s <= t + every
          BY <1>0, <3>2, <3>3, <4>1, <4>3
        <5> QED
          BY <2>3, <3>6, <5>1 DEF Reached
      <4> QED
        BY <3>5, <4>1, <4>2, <4>3
    <3>8. \A p \in InHand' : Reached(p.step)'
      BY <1>0, <2>1, <3>1, <3>7
    <3>9. \A p \in Queued' : Reached(p.step)' \/ \E r \in InHand' : p.step <= r.step + every'
      BY <1>0, <2>1, <2>3, <3>1, <3>7
    <3>10. \E b \in Saved' \cup {0} \cup {p.step : p \in Queued' \cup InHand'} :
              b <= step' /\ NoneDue(b, Decided', every')
      <4>1. CASE a = o
        <5>1. \A k : k \in t + 1 .. Decided => k \in a + 1 .. Decided
          BY <1>0, <3>2, <3>3, <4>1 DEF Decided
        <5>2. NoneDue(t, Decided, every)
          BY <2>2, <5>1 DEF NoneDue
        <5> QED
          BY <2>3, <3>6, <5>2
      <4>2. CASE a # o
        <5>1. a \in Saved' \cup {0} \cup {p.step : p \in Queued' \cup InHand'}
          BY <2>2, <3>1, <3>5, <4>2
        <5> QED
          BY <2>2, <2>3, <5>1
      <4> QED
        BY <4>1, <4>2
    <3> QED
      BY <3>8, <3>9, <3>10 DEF Lagging
  <2>7. CASE TaskDone
    <3>1. /\ Queued' = Queued /\ InHand' = {} /\ InHand = {job} /\ Saved' = Saved
          /\ job.step \in Saved
      BY <1>0, <2>7, Pending DEF TaskDone, disk, Ordered
    <3>2. \A p \in Queued' : Reached(p.step)'
      BY <2>1, <2>3, <3>1 DEF Reached
    <3>3. a \in Saved' \cup {0} \cup {p.step : p \in Queued' \cup InHand'}
      BY <2>2, <3>1
    <3> QED
      BY <2>2, <2>3, <3>1, <3>2, <3>3 DEF Lagging
  <2> QED
    BY <1>6, <2>4, <2>5, <2>6, <2>7
<1>7. CASE Take \/ Write \/ Prune \/ TaskDone
  BY <1>6, <1>7 DEF Take, Write, Prune, TaskDone, loop, setting
<1>8. CASE \/ Raise \/ SaveFails \/ ClearFile \/ Export \/ WriteFails
           \/ \E g \in GradAccums, a \in Asyncs, n \in CkptEverys, resume \in BOOLEAN :
                Start(g, a, n, resume)
  BY <1>8 DEF Raise, SaveFails, ClearFile, Export, WriteFails, Start, Lagging, Up
<1>9. CASE \/ Accumulate \/ OptimizerStep \/ EndEpoch \/ AllTrained
           \/ \E e \in Emas : LogWindow(e)
  <2>1. /\ UNCHANGED <<ckpts, every, failed, queue, job>> /\ Up /\ step' \in {step, step + 1}
        /\ Decided' = Decided
    BY <1>0, <1>9 DEF Accumulate, OptimizerStep, EndEpoch, AllTrained, LogWindow, disk, setting,
                      writer, loop, Up, Decided
  <2> QED
    BY <2>1, Pending, LaggingKept
<1>10. CASE NotDue \/ SubmitPasses \/ GoOn \/ StopEarly \/ Join \/ Closed \/ Reload \/ UNCHANGED vars
  <2>1. /\ UNCHANGED <<ckpts, every, failed, queue, job>> /\ (Up' => Up) /\ step' = step
        /\ Decided' = Decided \/ (Decided' = step /\ Decided = step - 1 /\ step % every # 0)
    <3>1. CASE NotDue
      BY <1>0, <3>1 DEF NotDue, disk, setting, writer, loop, Up, Decided
    <3>2. CASE SubmitPasses \/ GoOn \/ StopEarly
      BY <1>0, <3>2 DEF SubmitPasses, GoOn, StopEarly, disk, setting, writer, loop, Up, Decided
    <3>3. CASE Join \/ Closed \/ Reload
      BY <1>0, <3>3 DEF Join, Closed, Reload, disk, setting, writer, loop, Up, Decided
    <3>4. CASE UNCHANGED vars
      BY <1>0, <3>4 DEF disk, setting, writer, loop, Up, Decided, vars
    <3> QED
      BY <1>10, <3>1, <3>2, <3>3, <3>4
  <2>2. Queued' = Queued /\ InHand' = InHand
    BY <2>1, Pending
  <2>3. UNCHANGED <<ckpts, every>> /\ (Up' /\ ~failed' => Up /\ ~failed) /\ step' \in {step, step + 1}
    BY <2>1
  <2> QED
    BY <2>1, <2>2, <2>3, LaggingKept
<1>11. CASE Close
  <2>1. UNCHANGED <<ckpts, every, failed>> /\ Up /\ step' = step /\ Decided' = Decided
    BY <1>0, <1>11 DEF Close, disk, setting, loop, Up, Decided
  <2>2. Queued' = Queued /\ InHand' = InHand
    BY <1>11, Pending
  <2> QED
    BY <2>1, <2>2, LaggingKept
<1> QED
  BY <1>2, <1>3, <1>4, <1>5, <1>7, <1>8, <1>9, <1>10, <1>11, StepKinds

----------------------------------------------------------------------------
(* The theorems                                                            *)

LEMMA InitInv == ASSUME Init PROVE IInv
<1> USE DEF Init
<1>1. Saved = {} /\ Queued = {} /\ InHand = {}
  BY DEF Saved, Queued, InHand
<1>2. TypeOK
  <2>1. TypeDisk
    BY DEF TypeDisk
  <2>2. TypeControl
    BY SwitchesAssumption DEF TypeControl
  <2>3. TypeLoop /\ TypeTracker
    <3>1. Batches * Epochs \in Nat /\ Inf \in 1 .. Inf /\ 0 \in 0 .. Epochs /\ 0 \in 0 .. Batches
      BY SizeFacts
    <3>2. 0 \in Steps
      BY <3>1 DEF Steps
    <3>3. <<>> \in Seq(Window) /\ <<>> \in Seq(Emas)
      OBVIOUS
    <3> QED
      BY <3>1, <3>2, <3>3 DEF TypeLoop, TypeTracker
  <2>4. TypeWriter
    BY DEF TypeWriter
  <2> QED
    BY <2>1, <2>2, <2>3, <2>4 DEF TypeOK
<1>3. Handshake /\ Placed
  BY DEF Handshake, Placed
<1>4. Faithful /\ Following
  BY NoneTrained, NothingTracked DEF Faithful, Following
<1>5. Stored /\ Ordered /\ BestKept /\ BestLoaded /\ Lagging
  BY <1>1 DEF Stored, Ordered, BestKept, BestLoaded, Beaten, Lagging, Up
<1> QED
  BY <1>2, <1>3, <1>4, <1>5 DEF IInv

LEMMA NextInv == ASSUME IInv, [Next]_vars PROVE IInv'
<1> USE DEF IInv
<1>1. TypeOK'
  BY ControlTyped, DiskTyped, LoopTyped, TrackerTyped, WriterTyped DEF TypeOK
<1>2. Stored'
  BY StoredStep
<1> QED
  BY <1>1, <1>2, HandshakeStep, PlacedStep, FaithfulStep, FollowingStep, OrderedStep, BestStep,
     LaggingStep

\* Training thread and writer, files and memory stay typed and in step.
THEOREM Typing == Spec => []TypeOK
<1>1. IInv => TypeOK
  BY DEF IInv
<1> QED
  BY <1>1, InitInv, NextInv, PTL DEF Spec

THEOREM Invariant == Spec => []IInv
BY InitInv, NextInv, PTL DEF Spec

LEMMA LowestIs ==
    ASSUME NEW es \in Seq(Emas), NEW b \in 1 .. Inf, IsLowest(b, es)
    PROVE  Lowest(es) = b
<1>1. Emas \subseteq Nat /\ Inf \in Nat /\ \A e \in Emas : e < Inf
  BY SizesAssumption DEF Emas, Inf
<1>2. \A i \in DOMAIN es : es[i] \in Emas
  OBVIOUS
<1>3. /\ \A i \in DOMAIN es : b <= es[i]
      /\ b = Inf \/ \E i \in DOMAIN es : es[i] = b
  BY DEF IsLowest
<1>4. \A m \in 1 .. Inf : /\ \A i \in DOMAIN es : m <= es[i]
                          /\ m = Inf \/ \E i \in DOMAIN es : es[i] = m
                          => m = b
  BY <1>1, <1>2, <1>3
<1> QED
  BY <1>3, <1>4 DEF Lowest

LEMMA ImprovingIs ==
    ASSUME NEW es \in Seq(Emas), NEW k, IsNewest(k, Improving(es))
    PROVE  Newest(Improving(es)) = k
BY NewestIs DEF Improving

LEMMA Exact == ASSUME IInv PROVE ResumeExact
<1> USE DEF IInv
<1>1. TrainedOnce
  BY DEF TrainedOnce, Up, Faithful, Trained, Stored, Sound
<1>2. TrackerExact
  <2>1. /\ emas \in Seq(Emas) /\ best \in 1 .. Inf /\ esRef \in 1 .. Inf
        /\ Tracked(emas, best, noImp, esRef)
    BY DEF TypeOK, TypeTracker, Following
  <2>2. SaveBest => best = Lowest(emas)
    BY <2>1, LowestIs DEF Tracked
  <2>3. Patience > 0 => esRef = Lowest(emas)
    BY <2>1, LowestIs DEF Tracked
  <2>4. Patience > 0 => \/ emas = <<>> /\ noImp = 0
                        \/ noImp = Len(emas) - Newest(Improving(emas))
    BY <2>1, ImprovingIs DEF Tracked
  <2> QED
    BY <2>2, <2>3, <2>4 DEF TrackerExact
<1> QED
  BY <1>1, <1>2 DEF ResumeExact

\* Crashes and resumes, in any number and at any point, neither skip nor repeat
\* a batch, and the tracker is what the log windows behind the weights say.
THEOREM ResumesExactly == Spec => []ResumeExact
BY InitInv, NextInv, Exact, PTL DEF Spec

LEMMA Exported == ASSUME IInv PROVE ExportedBest
<1> USE DEF IInv
<1>1. /\ emas \in Seq(Emas) /\ best \in 1 .. Inf
      /\ Tracked(emas, best, noImp, esRef)
  BY DEF TypeOK, TypeTracker, Following
<1>2. ASSUME pc = "export", SaveBest, emas # <<>>, ~ragged
      PROVE  bestFile # Absent /\ weights = bestFile.weights /\ bestFile.ema <= Lowest(emas)
  <2>1. best = Lowest(emas)
    BY <1>1, <1>2, LowestIs DEF Tracked
  <2> QED
    BY <1>2, <2>1 DEF BestKept, BestLoaded, Beaten
<1>3. ASSUME stop PROVE Len(emas) - Newest(Improving(emas)) >= Patience
  <2>1. Patience > 0 /\ Patience <= noImp /\ emas # <<>>
    BY <1>3 DEF Following
  <2>2. PICK k \in DOMAIN emas : IsNewest(k, Improving(emas)) /\ noImp = Len(emas) - k
    BY <1>1, <2>1 DEF Tracked
  <2>3. Newest(Improving(emas)) = k
    BY <1>1, <2>2, ImprovingIs
  <2>4. Len(emas) - k >= Patience
    BY <1>1, <2>1, <2>2, SizesAssumption
  <2> QED
    BY <2>3, <2>4
<1> QED
  BY <1>2, <1>3 DEF ExportedBest

\* What is exported is at least as good as every log window behind it, and
\* early stopping has seen Patience windows without improvement.
THEOREM ExportsTheBest == Spec => []ExportedBest
BY InitInv, NextInv, Exported, PTL DEF Spec

LEMMA Bounded == ASSUME IInv PROVE NoSilentLoss
<1> USE DEF IInv
<1>1. FailureHalts
  BY DEF FailureHalts, Handshake
<1>2. ASSUME Up, ~failed PROVE \E s \in Saved \cup {0} : step <= s + 3 * every
  <2>1. /\ step \in Nat /\ every \in Nat \ {0} /\ \A s \in Saved : s \in Nat
        /\ \A p \in Queued \cup InHand : p.step \in Nat
    BY PayloadFacts, SizeFacts DEF TypeOK, TypeControl
  <2>2. PICK a \in Saved \cup {0} \cup {p.step : p \in Queued \cup InHand} :
               a <= step /\ NoneDue(a, Decided, every)
    BY <1>2 DEF Lagging
  <2>3. a \in Nat
    BY <2>1, <2>2
  <2>4. step <= a + every
    <3>1. CASE step = 0
      BY <2>1, <2>3, <3>1
    <3>2. CASE step # 0
      <4>1. Decided \in Nat /\ step <= Decided + 1
        BY <2>1, <3>2 DEF Decided
      <4>2. Decided < a + every
        BY <2>1, <2>2, <2>3, <4>1, GapBound DEF NoneDue
      <4> QED
        BY <2>1, <2>3, <4>1, <4>2
    <3> QED
      BY <3>1, <3>2
  <2>5. \A p \in InHand : Reached(p.step)
    BY <1>2 DEF Lagging
  <2>6. \A p \in Queued : Reached(p.step) \/ \E r \in InHand : p.step <= r.step + every
    BY <1>2 DEF Lagging
  <2>7. \E s \in Saved \cup {0} : a <= s + 2 * every
    <3>1. CASE a \in Saved \cup {0}
      BY <2>1, <3>1
    <3>2. CASE Reached(a)
      BY <2>1, <2>3, <3>2 DEF Reached
    <3>3. CASE \E r \in InHand : a <= r.step + every
      BY <2>1, <2>3, <2>5, <3>3 DEF Reached
    <3> QED
      BY <2>2, <2>5, <2>6, <3>1, <3>2, <3>3
  <2> QED
    BY <2>1, <2>3, <2>4, <2>7
<1> QED
  BY <1>1, <1>2 DEF NoSilentLoss, LossBounded

\* A crash costs at most three checkpoint periods, and a run one of whose
\* writes failed never exports.
THEOREM LosesLittle == Spec => []NoSilentLoss
BY InitInv, NextInv, Bounded, PTL DEF Spec

LEMMA NewestStaysStep ==
    ASSUME IInv, [Next]_vars, pc # "clear", Saved # {}
    PROVE  Saved' # {} /\ Newest(Saved') >= Newest(Saved)
<1> USE DEF IInv
<1> DEFINE n == Newest(Saved)
<1>0. /\ ckpts \in [Steps -> Payload \cup {Absent}]
      /\ Saved = {s \in Steps : ckpts[s] # Absent} /\ Saved' = {s \in Steps : ckpts'[s] # Absent}
      /\ step \in Steps
  BY DEF TypeOK, TypeDisk, TypeLoop, Saved
<1>1. n \in Saved /\ (\A t \in Saved : t <= n) /\ n \in Nat
  BY NewestSaved, PayloadFacts
<1> SUFFICES Saved' # {} /\ Newest(Saved') >= n
  OBVIOUS
<1> HIDE DEF n
<1>2. ASSUME \E s \in Saved' : n <= s PROVE Saved' # {} /\ Newest(Saved') >= n
  <2>1. PICK s \in Saved' : n <= s
    BY <1>2
  <2> DEFINE m == Batches * Epochs
  <2>2. m \in Nat /\ Saved' \in SUBSET (0 .. m)
    BY <1>0, SizeFacts DEF Steps
  <2> HIDE DEF m
  <2>3. Newest(Saved') \in Saved' /\ \A t \in Saved' : t <= Newest(Saved')
    BY <2>1, <2>2, NewestExists
  <2>4. Newest(Saved') \in Nat /\ s \in Nat
    <3>1. \A t \in Saved' : t \in Nat
      BY <2>2
    <3> QED
      BY <2>1, <2>3, <3>1
  <2> QED
    BY <1>1, <2>1, <2>3, <2>4
<1>3. CASE n \in Saved'
  BY <1>1, <1>2, <1>3
<1>4. CASE Prune
  <2> DEFINE o == Oldest(Saved)
  <2>1. \E t \in Saved : t # o /\ o <= t
    BY <1>0, <1>4, OldestSpared DEF Prune
  <2>2. ckpts' = [ckpts EXCEPT ![o] = Absent] /\ \A t \in Saved : o <= t
    BY <1>0, <1>4, OldestSpared DEF Prune
  <2> HIDE DEF o
  <2>3. o # n
    BY <1>0, <1>1, <2>1, <2>2, PayloadFacts
  <2> QED
    BY <1>0, <1>1, <1>3, <2>2, <2>3
<1>5. CASE SaveSync \/ SaveLast
  <2>1. Up
    BY <1>5 DEF SaveSync, SaveLast, Up
  <2>2. \A s \in Saved : s <= step
    BY <2>1 DEF Ordered, Before, Stored
  <2>3. step \in Saved'
    BY <1>5, <2>2, SavedHere
  <2> QED
    BY <1>1, <1>2, <2>2, <2>3
<1>6. CASE SaveFails
  <2>1. Snapshot # Absent
    BY <1>6, SnapshotTyped, Sentinels DEF SaveFails
  <2> QED
    BY <1>0, <1>1, <1>3, <1>6, <2>1 DEF SaveFails
<1>7. CASE Write \/ WriteFails
  <2>1. job # Absent /\ job.step \in Steps
    BY <1>7, Pending, Sentinels DEF Write, WriteFails, Payload
  <2> QED
    BY <1>0, <1>1, <1>3, <1>7, <2>1 DEF Write, WriteFails
<1>8. CASE UNCHANGED ckpts
  BY <1>0, <1>1, <1>3, <1>8
<1>9. CASE \/ Raise \/ Cleared \/ NothingSaved \/ Restore
           \/ \E g \in GradAccums, a \in Asyncs, k \in CkptEverys, resume \in BOOLEAN :
                Start(g, a, k, resume)
  BY <1>8, <1>9 DEF Raise, Cleared, NothingSaved, Restore, Loaded, Start, disk
<1>10. CASE \/ Accumulate \/ OptimizerStep \/ EndEpoch \/ AllTrained
            \/ \E e \in Emas : LogWindow(e)
  BY <1>8, <1>10 DEF Accumulate, OptimizerStep, EndEpoch, AllTrained, LogWindow, disk
<1>11. CASE NotDue \/ SubmitPasses \/ Put \/ GoOn \/ StopEarly \/ Join \/ Close \/ Closed
  BY <1>8, <1>11 DEF NotDue, SubmitPasses, Put, GoOn, StopEarly, Join, Close, Closed, disk
<1>12. CASE Take \/ TaskDone \/ Reload \/ Export \/ UNCHANGED vars
  BY <1>8, <1>12 DEF Take, TaskDone, Reload, Export, disk, vars
<1>13. ~ClearFile
  BY DEF ClearFile
<1> QED
  BY <1>4, <1>5, <1>6, <1>7, <1>9, <1>10, <1>11, <1>12, <1>13, StepKinds

\* The point a crash would resume from never moves backwards.
THEOREM NeverBackwards == Spec => NewestStays
<1>1. IInv /\ [Next]_vars =>
         [pc # "clear" /\ Saved # {} => Saved' # {} /\ Newest(Saved') >= Newest(Saved)]_vars
  BY NewestStaysStep
<1> QED
  BY <1>1, InitInv, NextInv, PTL DEF Spec, NewestStays

----------------------------------------------------------------------------
(* The ranks                                                               *)

Places == {"spawn", "restore", "batch", "save", "finish", "export", "teardown"} \cup Collectives \cup Dead
Messages == {"ok", "err"} \X Ranks
Calls == [kind: Collectives, value: Nat]
TypeFiles == kept \subseteq Nat /\ bestAt \in Nat /\ exported \in Nat /\ noResume \in BOOLEAN
TypeRun ==
    /\ where \in [Ranks -> Places] /\ batch \in [Ranks -> Nat] /\ steps \in [Ranks -> Nat]
    /\ params \in [Ranks -> Nat] /\ stopping \in [Ranks -> BOOLEAN] /\ loaded \in [Ranks -> Nat]
TypeOps == ops \in [Ranks -> Seq(Calls)]
TypeReport ==
    /\ results \in Seq(Messages)
    /\ outcome = <<"running">> \/ outcome \in Messages
    /\ faults \in Nat /\ culprits \subseteq Ranks
TypeRanks == TypeFiles /\ TypeRun /\ TypeOps /\ TypeReport

\* A point of the training run: the next collective, and the batch and the
\* optimizer step at which it is entered.
Point(k, b, s) == [kind |-> k, at |-> b, step |-> s]
Points == [kind: Collectives, at: Nat, step: Nat]

\* What comes when b batches are done, and after a point: only a stop flag
\* leaves a choice, and that is in what rank 0 brought to it.
AfterBatch(b, s) == Point(IF b = RunBatches THEN "share" ELSE "finite", b, s)
Succ(p, v) ==
    CASE p.kind = "wrap" -> AfterBatch(p.at, p.step)
      [] p.kind = "finite" -> IF (p.at + 1) % GradAccum = 0 THEN Point("grads", p.at, p.step)
                              ELSE AfterBatch(p.at + 1, p.step)
      [] p.kind = "grads" -> IF (p.step + 1) % LogPeriod = 0 THEN Point("mean", p.at, p.step + 1)
                             ELSE AfterBatch(p.at + 1, p.step + 1)
      [] p.kind = "mean" -> Point("flag", p.at, p.step)
      [] p.kind = "flag" -> IF v = 1 THEN Point("share", p.at + 1, p.step)
                            ELSE AfterBatch(p.at + 1, p.step)
      [] OTHER -> p
After(S, n) == Succ(S[n], ops[0][n].value)

\* A script of the run, as far as the first rank got: every rank has entered a
\* prefix of its collectives.
Script(S) ==
    /\ S \in Seq(Points)
    /\ \A n \in 1 .. Len(S) : (S[n].kind = "init" <=> n = 1) /\ (S[n].kind = "wrap" <=> n = 2)
    /\ Len(S) >= 1 => S[1] = Point("init", 0, 0)
    /\ Len(S) >= 2 => S[2].at = S[2].step * GradAccum
    /\ \A n \in 2 .. Len(S) : n < Len(S) =>
          /\ S[n].kind # "share" /\ (S[n].kind = "flag" => n <= Len(ops[0]))
          /\ S[n + 1] = After(S, n)
    /\ \A r \in Ranks : Len(ops[r]) <= Len(S)
          /\ \A n \in 1 .. Len(ops[r]) : ops[r][n].kind = S[n].kind

\* What rank r will enter next, outside of the collectives.
Coming(r) ==
    CASE where[r] = "batch" -> AfterBatch(batch[r], steps[r])
      [] where[r] = "finish" -> Point("share", batch[r], steps[r])
      [] OTHER -> IF stopping[r] THEN Point("share", batch[r] + 1, steps[r])
                  ELSE AfterBatch(batch[r] + 1, steps[r])

\* Where rank r is in the script.
At(S, r) ==
    LET n == Len(ops[r])
    IN /\ where[r] = "spawn" => n = 0
       /\ where[r] = "restore" => n = 1
       /\ where[r] \in {"spawn", "init", "restore"} => batch[r] = 0 /\ steps[r] = 0 /\ params[r] = 0
       /\ where[r] \in Collectives => n >= 1 /\ S[n] = Point(where[r], batch[r], steps[r])
       /\ where[r] \in {"batch", "save", "finish"} =>
             /\ n >= 2 /\ S[n].kind # "share" /\ (S[n].kind = "flag" => n <= Len(ops[0]))
             /\ After(S, n) = Coming(r)
       /\ where[r] \in {"export", "exited"} => n >= 2 /\ S[n].kind = "share"
       /\ where[r] \in {"spawn", "init", "restore", "wrap", "batch", "finite", "grads", "mean", "flag"}
             => stopping[r] = FALSE

\* Until the last rank has looked for its checkpoint no rank goes beyond the
\* wrapping, and what it will find is what the others found.
Wrapping == \E r \in Ranks : Len(ops[r]) < 2
Source == IF noResume THEN 0 ELSE NewestKept
Resumed(S) ==
    /\ \A r \in Ranks : Len(ops[r]) >= 2 =>
          loaded[r] = S[2].step /\ ops[r][2].value = S[2].step
    /\ Wrapping =>
          /\ kept = {} \/ \E s \in kept : \A t \in kept : t <= s
          /\ Len(S) <= 2 /\ (Len(S) = 2 => S[2].step = Source)
          /\ \A r \in Ranks : where[r] \notin {"batch", "save", "finish"}

Joined == \E S \in Seq(Points) : Script(S) /\ Resumed(S) /\ \A r \in Ranks : At(S, r)

\* The weights are those of the steps behind them, but for the export, which
\* is of what rank 0 shared: its best.
Weighed ==
    /\ \A r \in Ranks :
          /\ where[r] \in {"wrap", "batch", "finite", "grads", "mean", "flag", "save", "finish"} =>
                params[r] = steps[r]
          /\ where[r] = "export" =>
                Len(ops[r]) <= Len(ops[0]) /\ params[r] = ops[0][Len(ops[r])].value
    /\ where[0] = "share" => ops[0][Len(ops[0])].value = params[0]
    /\ where[0] \in {"share", "export", "exited"} => bestAt = 0 \/ params[0] = bestAt
    /\ exported # 0 => where[0] = "exited"
    /\ where[0] = "exited" => exported = params[0]

\* Who failed, who was dragged along, and what the parent will be told.
Broken == {"teardown", "failed", "killed"}
Victim(r) ==
    \E n \in DOMAIN ops[r] :
        ops[r][n].kind = "finite" /\ \E q \in Ranks : n \in DOMAIN ops[q] /\ ops[q][n].value = 0
Silent == \E r \in culprits : where[r] = "killed"
Blamed(r) == r \in culprits \/ Victim(r) \/ Silent
Told ==
    /\ \A r \in culprits :
          \/ where[r] \in Broken
          \/ where[r] = "finite" /\ ops[r][Len(ops[r])].value = 0
    /\ \A r \in Ranks : \A n \in 1 .. Len(ops[r]) :
          ops[r][n].kind = "finite" /\ ops[r][n].value = 0 => r \in culprits
    /\ \A r \in Ranks : where[r] \in Broken => culprits # {}
    /\ \A r \in Ranks : where[r] \in {"teardown", "failed"} => \E n \in Errors : results[n][2] = r
    /\ \A n \in Errors : where[results[n][2]] \in Broken
    /\ \A n \in Errors : Blamed(results[n][2]) \/ \E m \in Errors : m < n
    /\ Errors = {} /\ (\E r \in Ranks : where[r] = "killed") => Silent
Judged ==
    /\ Ended => \A r \in Ranks : where[r] \in Dead
    /\ outcome[1] = "ok" => culprits = {} /\ \A r \in Ranks : where[r] = "exited"
    /\ outcome[1] = "err" => culprits # {} /\ Blamed(outcome[2])

Abreast == TypeRanks /\ Joined /\ Weighed /\ Told /\ Judged

----------------------------------------------------------------------------
(* Points and scripts                                                      *)

\* A set of numbers that is not empty has a least one.
LEMMA LeastNumber ==
    ASSUME NEW S, S \subseteq Nat, S # {}
    PROVE  \E x \in S : \A y \in S : x <= y
BY OldestExists

LEMMA TheRanks == 0 \in Ranks /\ Ranks \subseteq Nat /\ GradAccum \in Nat \ {0} /\ LogPeriod \in Nat \ {0}
                  /\ RunBatches \in Nat
BY WorldAssumption DEF Ranks

LEMMA PointParts ==
    ASSUME NEW k, NEW b, NEW s
    PROVE  /\ Point(k, b, s).kind = k /\ Point(k, b, s).at = b /\ Point(k, b, s).step = s
           /\ k \in Collectives /\ b \in Nat /\ s \in Nat => Point(k, b, s) \in Points
BY DEF Point, Points

LEMMA AfterBatchParts ==
    ASSUME NEW b \in Nat, NEW s \in Nat
    PROVE  /\ AfterBatch(b, s) \in Points /\ AfterBatch(b, s).kind \in {"share", "finite"}
           /\ AfterBatch(b, s).at = b /\ AfterBatch(b, s).step = s
           /\ b = RunBatches => AfterBatch(b, s) = Point("share", b, s)
           /\ b # RunBatches => AfterBatch(b, s) = Point("finite", b, s)
BY DEF AfterBatch, Point, Points, Collectives

\* The successor of a point at each kind, and which points do not depend on
\* what rank 0 brings.
LEMMA SuccParts ==
    ASSUME NEW k, NEW b, NEW s, NEW v
    PROVE  /\ k = "wrap" => Succ(Point(k, b, s), v) = AfterBatch(b, s)
           /\ k = "finite" => Succ(Point(k, b, s), v) =
                  IF (b + 1) % GradAccum = 0 THEN Point("grads", b, s) ELSE AfterBatch(b + 1, s)
           /\ k = "grads" => Succ(Point(k, b, s), v) =
                  IF (s + 1) % LogPeriod = 0 THEN Point("mean", b, s + 1)
                  ELSE AfterBatch(b + 1, s + 1)
           /\ k = "mean" => Succ(Point(k, b, s), v) = Point("flag", b, s)
           /\ k = "flag" => Succ(Point(k, b, s), v) =
                  IF v = 1 THEN Point("share", b + 1, s) ELSE AfterBatch(b + 1, s)
BY PointParts DEF Succ

LEMMA SuccIgnores ==
    ASSUME NEW p, NEW v, NEW w, p.kind # "flag"
    PROVE  Succ(p, v) = Succ(p, w)
BY DEF Succ

LEMMA Appended ==
    ASSUME TypeRanks, NEW r \in Ranks, NEW k \in Collectives, NEW v \in Nat,
           ops' = [ops EXCEPT ![r] = Append(ops[r], [kind |-> k, value |-> v])]
    PROVE  /\ Len(ops'[r]) = Len(ops[r]) + 1
           /\ ops'[r][Len(ops[r]) + 1] = [kind |-> k, value |-> v]
           /\ \A n \in 1 .. Len(ops[r]) : ops'[r][n] = ops[r][n]
           /\ \A q \in Ranks : q # r => ops'[q] = ops[q]
<1>1. ops[r] \in Seq(Calls) /\ ops'[r] = Append(ops[r], [kind |-> k, value |-> v])
  BY DEF TypeRanks, TypeOps
<1>2. \A q \in Ranks : q # r => ops'[q] = ops[q]
  BY DEF TypeRanks, TypeOps
<1>3. [kind |-> k, value |-> v] \in Calls
  BY DEF Calls
<1> QED
  BY <1>1, <1>2, <1>3

LEMMA Lengths ==
    ASSUME TypeRanks
    PROVE  \A r \in Ranks : Len(ops[r]) \in Nat /\ DOMAIN ops[r] = 1 .. Len(ops[r])
BY DEF TypeRanks, TypeOps

LEMMA LengthsThen ==
    ASSUME TypeRanks'
    PROVE  \A r \in Ranks : Len(ops'[r]) \in Nat /\ DOMAIN ops'[r] = 1 .. Len(ops'[r])
BY DEF TypeRanks, TypeOps

LEMMA EnteredNext ==
    ASSUME TypeRanks, NEW r \in Ranks, NEW M \in Points, NEW v \in Nat,
           ops' = [ops EXCEPT ![r] = Append(ops[r], [kind |-> M.kind, value |-> v])]
    PROVE  /\ Len(ops'[r]) = Len(ops[r]) + 1
           /\ ops'[r][Len(ops[r]) + 1] = [kind |-> M.kind, value |-> v]
           /\ \A n \in 1 .. Len(ops[r]) : ops'[r][n] = ops[r][n]
           /\ \A q \in Ranks : q # r => ops'[q] = ops[q]
<1>1. PICK k : k = M.kind
  OBVIOUS
<1>2. k \in Collectives /\ ops' = [ops EXCEPT ![r] = Append(ops[r], [kind |-> k, value |-> v])]
  BY <1>1 DEF Points
<1> QED
  BY <1>1, <1>2, Appended

\* Point M is the next for rank r, and script T is S with it.
IsNext(S, r, M) ==
    /\ Len(ops[r]) < Len(S) => M = S[Len(ops[r]) + 1]
    /\ Len(ops[r]) = 0 => M = Point("init", 0, 0)
    /\ Len(ops[r]) = 1 => M.kind = "wrap" /\ M.at = M.step * GradAccum
    /\ Len(ops[r]) >= 2 =>
          /\ M = After(S, Len(ops[r])) /\ S[Len(ops[r])].kind # "share"
          /\ S[Len(ops[r])].kind = "flag" => Len(ops[r]) <= Len(ops[0])
          /\ M.kind \notin {"init", "wrap"}
SameAfter(S, T) ==
    /\ \A n \in 1 .. Len(S) : T[n] = S[n]
    /\ \A n \in 1 .. Len(S) :
          (S[n].kind = "flag" => n <= Len(ops[0])) => Succ(T[n], ops'[0][n].value) = After(S, n)
Grows(S, T, r, M) ==
    /\ T \in Seq(Points) /\ Len(T) >= Len(S) /\ Len(T) >= Len(ops[r]) + 1
    /\ Len(T) = Len(S) \/ Len(T) = Len(ops[r]) + 1
    /\ T[Len(ops[r]) + 1] = M /\ SameAfter(S, T)
Brings(r, k, v) == ops' = [ops EXCEPT ![r] = Append(ops[r], [kind |-> k, value |-> v])]

\* Rank r enters the next point of the script, which grows with it if r is
\* the first to get there.
LEMMA Extends ==
    ASSUME TypeRanks, NEW S, Script(S), NEW r \in Ranks, NEW M \in Points, NEW v \in Nat,
           Brings(r, M.kind, v), IsNext(S, r, M)
    PROVE  \E T : Script(T)' /\ Grows(S, T, r, M)
<1>n. PICK n : n = Len(ops[r])
  OBVIOUS
<1>t. PICK T : T = IF n < Len(S) THEN S ELSE Append(S, M)
  OBVIOUS
<1>1. M.kind \in Collectives
  BY DEF Points
<1>0. /\ Len(ops'[r]) = Len(ops[r]) + 1
      /\ ops'[r][Len(ops[r]) + 1] = [kind |-> M.kind, value |-> v]
      /\ \A k \in 1 .. Len(ops[r]) : ops'[r][k] = ops[r][k]
      /\ \A q \in Ranks : q # r => ops'[q] = ops[q]
  BY EnteredNext DEF Brings
<1>2. /\ Len(ops'[r]) = n + 1 /\ ops'[r][n + 1].kind = M.kind
      /\ \A k \in 1 .. n : ops'[r][k] = ops[r][k]
      /\ \A q \in Ranks : q # r => ops'[q] = ops[q]
  BY <1>0, <1>n
<1>3. S \in Seq(Points) /\ n \in Nat /\ Len(S) \in Nat /\ n <= Len(S)
  BY <1>n, Lengths DEF Script
<1>4. T \in Seq(Points) /\ Len(T) \in Nat /\ Len(T) = IF n < Len(S) THEN Len(S) ELSE n + 1
  BY <1>3, <1>t
<1>5. \A k \in 1 .. Len(S) : T[k] = S[k]
  BY <1>3, <1>t
<1>6. T[n + 1] = M
  BY <1>3, <1>n, <1>t DEF IsNext
<1>7. 0 \in Ranks /\ \A q \in Ranks : Len(ops[q]) \in Nat
  BY TheRanks, Lengths
<1>8. \A q \in Ranks : /\ Len(ops'[q]) >= Len(ops[q]) /\ Len(ops'[q]) \in Nat
                       /\ \A k \in 1 .. Len(ops[q]) : ops'[q][k] = ops[q][k]
  BY <1>2, <1>3, <1>7, <1>n
<1>9. \A k \in 1 .. Len(S) :
         (S[k].kind = "flag" => k <= Len(ops[0])) => Succ(T[k], ops'[0][k].value) = After(S, k)
  <2>1. SUFFICES ASSUME NEW k \in 1 .. Len(S), S[k].kind = "flag" => k <= Len(ops[0])
                 PROVE  Succ(S[k], ops'[0][k].value) = Succ(S[k], ops[0][k].value)
    BY <1>5 DEF After
  <2>2. CASE S[k].kind = "flag"
    BY <2>1, <2>2, <1>7, <1>8
  <2>3. CASE S[k].kind # "flag"
    BY <2>3, SuccIgnores
  <2> QED
    BY <2>2, <2>3
<1>10. \A k \in 1 .. Len(T) : k \in 1 .. Len(S) \/ (k = n + 1 /\ n = Len(S))
  BY <1>3, <1>4
<1>11. \A k \in 1 .. Len(T) : (T[k].kind = "init" <=> k = 1) /\ (T[k].kind = "wrap" <=> k = 2)
  <2>1. ASSUME NEW k \in 1 .. Len(S) PROVE (T[k].kind = "init" <=> k = 1) /\ (T[k].kind = "wrap" <=> k = 2)
    BY <1>5 DEF Script
  <2>2. (M.kind = "init" <=> n + 1 = 1) /\ (M.kind = "wrap" <=> n + 1 = 2)
    <3>1. CASE n = 0
      BY <1>n, <3>1 DEF Point, IsNext
    <3>2. CASE n = 1
      BY <1>n, <3>2 DEF IsNext
    <3>3. CASE n >= 2
      BY <1>n, <3>3 DEF IsNext
    <3> QED
      BY <1>3, <3>1, <3>2, <3>3
  <2> QED
    BY <1>6, <1>10, <2>1, <2>2
<1>12. (Len(T) >= 1 => T[1] = Point("init", 0, 0)) /\ (Len(T) >= 2 => T[2].at = T[2].step * GradAccum)
  <2>1. Len(T) >= 1 => T[1] = Point("init", 0, 0)
    <3>1. CASE Len(S) >= 1
      BY <1>3, <1>5, <3>1 DEF Script
    <3>2. CASE Len(S) = 0
      BY <1>3, <1>6, <1>n, <3>2 DEF IsNext
    <3> QED
      BY <1>3, <3>1, <3>2
  <2>2. Len(T) >= 2 => T[2].at = T[2].step * GradAccum
    <3>1. CASE Len(S) >= 2
      BY <1>3, <1>5, <3>1 DEF Script
    <3>2. CASE Len(S) < 2 /\ Len(T) >= 2
      <4>1. n = 1
        BY <1>3, <1>4, <3>2
      <4> QED
        BY <4>1, <1>6, <1>n DEF IsNext
    <3> QED
      BY <1>3, <1>4, <3>1, <3>2
  <2> QED
    BY <2>1, <2>2
<1>13. ASSUME NEW k \in 2 .. Len(T), k < Len(T)
       PROVE  /\ T[k].kind # "share" /\ (T[k].kind = "flag" => k <= Len(ops'[0]))
              /\ T[k + 1] = Succ(T[k], ops'[0][k].value)
  <2>1. k \in 1 .. Len(S) /\ T[k] = S[k] /\ k \in 2 .. Len(S)
    BY <1>3, <1>4, <1>5, <1>13
  <2>2. CASE k < Len(S)
    <3>1. S[k].kind # "share" /\ (S[k].kind = "flag" => k <= Len(ops[0])) /\ S[k + 1] = After(S, k)
      BY <2>1, <2>2 DEF Script
    <3>2. T[k + 1] = S[k + 1]
      BY <1>3, <1>5, <2>1, <2>2
    <3> QED
      BY <1>7, <1>8, <1>9, <2>1, <3>1, <3>2
  <2>3. CASE k = Len(S)
    <3>1. n = k /\ n >= 2
      BY <1>3, <1>4, <1>13, <2>1, <2>3
    <3> QED
      BY <1>6, <1>7, <1>8, <1>9, <1>n, <2>1, <3>1 DEF IsNext
  <2> QED
    BY <1>3, <2>1, <2>2, <2>3
<1>14. ASSUME NEW q \in Ranks
       PROVE  Len(ops'[q]) <= Len(T) /\ \A k \in 1 .. Len(ops'[q]) : ops'[q][k].kind = T[k].kind
  <2>1. Len(ops[q]) <= Len(S) /\ \A k \in 1 .. Len(ops[q]) : ops[q][k].kind = S[k].kind
    BY DEF Script
  <2>2. \A k \in 1 .. Len(ops[q]) : k \in 1 .. Len(S) /\ ops'[q][k] = ops[q][k] /\ T[k] = S[k]
    BY <1>3, <1>5, <1>7, <1>8, <2>1
  <2>3. CASE q # r
    BY <1>2, <1>3, <1>4, <1>7, <2>1, <2>2, <2>3
  <2>4. CASE q = r
    <3>1. \A k \in 1 .. Len(ops'[q]) : k \in 1 .. Len(ops[q]) \/ k = n + 1
      BY <1>2, <1>3, <1>n, <2>4
    <3>2. \A k \in 1 .. Len(ops'[q]) : ops'[q][k].kind = T[k].kind
      <4>1. ASSUME NEW k \in 1 .. Len(ops[q]) PROVE ops'[q][k].kind = T[k].kind
        BY <2>1, <2>2
      <4>2. ops'[q][n + 1].kind = T[n + 1].kind
        BY <1>2, <1>6, <2>4
      <4> QED
        BY <3>1, <4>1, <4>2
    <3>3. Len(ops'[q]) <= Len(T)
      BY <1>2, <1>3, <1>4, <2>4
    <3> QED
      BY <3>2, <3>3
  <2> QED
    BY <2>3, <2>4
<1>15. Script(T)'
  BY <1>4, <1>11, <1>12, <1>13, <1>14 DEF Script, After
<1>16. Len(T) >= Len(S) /\ Len(T) >= n + 1 /\ (Len(T) = Len(S) \/ Len(T) = n + 1)
  BY <1>3, <1>4
<1> QED
  BY <1>4, <1>5, <1>6, <1>9, <1>15, <1>16, <1>n DEF Grows, SameAfter

\* The other ranks stay where they are in the script.
LEMMA OthersStay ==
    ASSUME TypeRanks, TypeRanks', NEW S, NEW T, Script(S), NEW q \in Ranks, At(S, q),
           SameAfter(S, T),
           ops'[q] = ops[q], Len(ops[0]) <= Len(ops'[0]),
           where'[q] = where[q], batch'[q] = batch[q], steps'[q] = steps[q],
           params'[q] = params[q], stopping'[q] = stopping[q]
    PROVE  At(T, q)'
<1>n. PICK n : n = Len(ops[q])
  OBVIOUS
<1>0. Len(S) \in Nat /\ Len(ops[q]) <= Len(S)
  BY DEF Script
<1>1. n \in Nat /\ n <= Len(S) /\ Len(S) \in Nat /\ Len(ops[0]) \in Nat /\ Len(ops'[0]) \in Nat
  BY <1>0, <1>n, Lengths, LengthsThen, TheRanks
<1>2. n >= 1 => T[n] = S[n]
  BY <1>1 DEF SameAfter
<1>3. where[q] \in {"batch", "save", "finish"} => (After(T, n))' = Coming(q)
  BY <1>1, <1>n DEF At, SameAfter, After
<1>4. Coming(q)' = Coming(q)
  BY DEF Coming
<1>5. where[q] \in {"batch", "save", "finish"} =>
         n >= 2 /\ T[n].kind # "share" /\ (T[n].kind = "flag" => n <= Len(ops'[0]))
  BY <1>1, <1>n, <1>2 DEF At
<1>6. where[q] \in Collectives => n >= 1 /\ T[n] = Point(where[q], batch[q], steps[q])
  BY <1>1, <1>n, <1>2 DEF At
<1>7. where[q] \in {"export", "exited"} => n >= 2 /\ T[n].kind = "share"
  BY <1>1, <1>n, <1>2 DEF At
<1> QED
  BY <1>3, <1>4, <1>5, <1>6, <1>7, <1>n DEF At

\* Nobody is beyond the wrapping while a rank is before it.
LEMMA Beyond ==
    ASSUME TypeRanks, NEW S, Script(S), Resumed(S), NEW r \in Ranks, At(S, r),
           where[r] \in {"batch", "save", "finish", "finite", "grads", "mean", "flag", "share",
                         "export", "exited"}
    PROVE  ~Wrapping
<1>1. CASE where[r] \in {"batch", "save", "finish"}
  BY <1>1 DEF Resumed
<1>2. CASE where[r] \notin {"batch", "save", "finish"}
  <2>1. Len(ops[r]) >= 1 /\ S[Len(ops[r])].kind \notin {"init", "wrap"}
    BY <1>2, PointParts DEF At, Collectives
  <2>2. Len(ops[r]) \in Nat /\ Len(ops[r]) <= Len(S) /\ Len(S) \in Nat
    BY Lengths DEF Script
  <2>3. Len(ops[r]) >= 3
    BY <2>1, <2>2 DEF Script
  <2> QED
    BY <2>2, <2>3 DEF Resumed
<1> QED
  BY <1>1, <1>2

\* Once all ranks are wrapped, what is left of Resumed is that nobody looks
\* for a checkpoint again.
LEMMA WrappedForGood ==
    ASSUME TypeRanks, TypeRanks', NEW S, NEW T, Script(S), Resumed(S), ~Wrapping,
           SameAfter(S, T), loaded' = loaded,
           \A q \in Ranks : Len(ops'[q]) >= Len(ops[q]) /\ (Len(ops[q]) >= 2 => ops'[q][2] = ops[q][2])
    PROVE  Resumed(T)'
<1>1. \A q \in Ranks : Len(ops[q]) \in Nat /\ Len(ops'[q]) \in Nat /\ Len(ops[q]) >= 2
  BY Lengths, LengthsThen DEF Wrapping
<1>2. T[2] = S[2]
  <2>1. Len(S) >= 2 /\ Len(S) \in Nat
    BY <1>1, TheRanks DEF Script
  <2> QED
    BY <2>1 DEF SameAfter
<1>3. Wrapping' = FALSE
  BY <1>1 DEF Wrapping
<1> QED
  BY <1>1, <1>2, <1>3 DEF Resumed

LEMMA SameScript ==
    ASSUME NEW S, Script(S), ops' = ops
    PROVE  Script(S)' /\ SameAfter(S, S)
BY DEF Script, After, SameAfter

\* The other ranks are not touched.
OthersKeep(r) ==
    \A q \in Ranks : q # r =>
        /\ where'[q] = where[q] /\ batch'[q] = batch[q] /\ steps'[q] = steps[q]
        /\ params'[q] = params[q] /\ stopping'[q] = stopping[q]

\* A rank goes on without entering a collective.
LEMMA GoesOn ==
    ASSUME TypeRanks, TypeRanks', NEW S, Script(S), Resumed(S), \A q \in Ranks : At(S, q),
           NEW r \in Ranks, ~Wrapping, ops' = ops, loaded' = loaded,
           OthersKeep(r),
           At(S, r)'
    PROVE  Joined'
<1>1. Script(S)' /\ SameAfter(S, S)
  BY SameScript
<1>2. Resumed(S)'
  <2>1. \A q \in Ranks : Len(ops'[q]) >= Len(ops[q]) /\ (Len(ops[q]) >= 2 => ops'[q][2] = ops[q][2])
    BY Lengths
  <2> QED
    BY <1>1, <2>1, WrappedForGood
<1>3. ASSUME NEW q \in Ranks, q # r PROVE At(S, q)'
  <2>1. Len(ops[0]) <= Len(ops'[0])
    BY Lengths, TheRanks
  <2> QED
    BY <1>1, <1>3, <2>1, OthersStay DEF OthersKeep
<1>4. S \in Seq(Points)
  BY DEF Script
<1> QED
  BY <1>1, <1>2, <1>3, <1>4 DEF Joined

\* A rank enters the collective that is due.
LEMMA Enters ==
    ASSUME TypeRanks, TypeRanks', NEW S, Script(S), Resumed(S), \A q \in Ranks : At(S, q),
           NEW r \in Ranks, ~Wrapping, NEW v \in Nat, NEW M \in Points,
           M = After(S, Len(ops[r])), S[Len(ops[r])].kind # "share",
           S[Len(ops[r])].kind = "flag" => Len(ops[r]) <= Len(ops[0]),
           M.kind \notin {"init", "wrap"},
           Brings(r, M.kind, v), loaded' = loaded,
           OthersKeep(r),
           where'[r] = M.kind, batch'[r] = M.at, steps'[r] = M.step,
           M.kind = "share" \/ stopping'[r] = FALSE
    PROVE  Joined'
<1>n. PICK n : n = Len(ops[r])
  OBVIOUS
<1>1. n \in Nat /\ n >= 2 /\ n <= Len(S) /\ Len(S) \in Nat
  BY <1>n, Lengths DEF Wrapping, Script
<1>2. M.kind \in Collectives
  BY DEF Points
<1>3. IsNext(S, r, M)
  BY <1>1, <1>n DEF Script, IsNext
<1>4. PICK T : Script(T)' /\ Grows(S, T, r, M)
  BY <1>3, Extends, Zenon
<1>5. /\ Len(ops'[r]) = Len(ops[r]) + 1
      /\ \A k \in 1 .. Len(ops[r]) : ops'[r][k] = ops[r][k]
      /\ \A q \in Ranks : q # r => ops'[q] = ops[q]
  BY EnteredNext, Zenon DEF Brings
<1>6. \A q \in Ranks : Len(ops'[q]) >= Len(ops[q]) /\ (Len(ops[q]) >= 2 => ops'[q][2] = ops[q][2])
  BY <1>1, <1>5, <1>n, Lengths
<1>7. Resumed(T)'
  BY <1>4, <1>6, WrappedForGood DEF Grows
<1>8. ASSUME NEW q \in Ranks, q # r PROVE At(T, q)'
  <2>1. Len(ops[0]) <= Len(ops'[0]) /\ ops'[q] = ops[q]
    BY <1>5, <1>6, <1>8, Lengths, LengthsThen, TheRanks
  <2> QED
    BY <1>4, <1>8, <2>1, OthersStay DEF Grows, OthersKeep
<1>9. At(T, r)'
  <2>1. M = Point(M.kind, M.at, M.step)
    BY DEF Points, Point
  <2>2. M.kind \notin {"spawn", "restore", "batch", "save", "finish", "export", "exited"}
    BY <1>2 DEF Collectives
  <2> QED
    BY <1>1, <1>2, <1>4, <1>5, <1>n, <2>1, <2>2 DEF At, Grows
<1> QED
  BY <1>4, <1>7, <1>8, <1>9 DEF Joined, Grows

----------------------------------------------------------------------------
(* Types                                                                   *)

\* In a collective, a rank has entered it.
LEMMA InCollective ==
    ASSUME TypeRanks, NEW S, Script(S), NEW r \in Ranks, At(S, r), where[r] \in Collectives
    PROVE  /\ Len(ops[r]) \in Nat /\ Len(ops[r]) >= 1 /\ Len(ops[r]) <= Len(S) /\ Len(S) \in Nat
           /\ S[Len(ops[r])] = Point(where[r], batch[r], steps[r])
           /\ S[Len(ops[r])].kind = where[r] /\ ops[r][Len(ops[r])].kind = where[r]
<1>1. /\ Len(ops[r]) \in Nat /\ Len(ops[r]) >= 1 /\ Len(ops[r]) <= Len(S) /\ Len(S) \in Nat
      /\ S[Len(ops[r])] = Point(where[r], batch[r], steps[r])
  BY Lengths DEF At, Script
<1> QED
  BY <1>1, PointParts DEF Script

LEMMA FirstValue ==
    ASSUME TypeRanks, NEW r \in Ranks, Len(ops[r]) >= 1, Len(ops[0]) >= Len(ops[r])
    PROVE  FromRank0(r) \in Nat
<1>1. 0 \in Ranks /\ ops[0] \in Seq(Calls) /\ Len(ops[r]) \in Nat
  BY TheRanks DEF TypeRanks, TypeOps
<1>2. ops[0][Len(ops[r])] \in Calls
  BY <1>1
<1> QED
  BY <1>2 DEF FromRank0, Calls

LEMMA SourceIsNat ==
    ASSUME TypeRanks, kept = {} \/ \E s \in kept : \A t \in kept : t <= s
    PROVE  Source \in Nat /\ (~noResume => Source = NewestKept) /\ (noResume => Source = 0)
<1>1. NewestKept \in Nat
  <2>1. CASE kept = {}
    BY <2>1 DEF NewestKept
  <2>2. CASE kept # {}
    <3>1. NewestKept \in kept
      BY <2>2 DEF NewestKept
    <3> QED
      BY <3>1 DEF TypeRanks, TypeFiles
  <2> QED
    BY <2>1, <2>2
<1> QED
  BY <1>1 DEF Source

LEMMA EnteredType ==
    ASSUME TypeRanks, NEW r \in Ranks, NEW k \in Collectives, NEW v \in Nat, Enter(r, k, v)
    PROVE  /\ ops' \in [Ranks -> Seq(Calls)]
           /\ where' \in [Ranks -> Places]
           /\ where' = [where EXCEPT ![r] = k] /\ Brings(r, k, v)
<1>1. Append(ops[r], [kind |-> k, value |-> v]) \in Seq(Calls)
  <2>1. ops[r] \in Seq(Calls) /\ [kind |-> k, value |-> v] \in Calls
    BY DEF TypeRanks, TypeOps, Calls
  <2> QED
    BY <2>1
<1>2. k \in Places
  BY DEF Places
<1> QED
  BY <1>1, <1>2 DEF TypeRanks, TypeOps, TypeRun, Enter, Entered, Go, Brings

\* What a step that ends or breaks a rank leaves alone.
Breaks(r) ==
    \/ ProbeFails(r) \/ NotFinite(r) \/ Fail(r) \/ Kill(r) \/ Teardown(r) \/ PeerLost(r) \/ Aborted(r)
LEMMA BreaksOnly ==
    ASSUME TypeRanks, NEW r \in Ranks, Breaks(r)
    PROVE  /\ where' = [where EXCEPT ![r] = where'[r]] /\ where'[r] \in Broken
           /\ UNCHANGED <<files, batch, steps, params, stopping, loaded, ops, noResume, outcome>>
           /\ results' = results \/ results' = Append(results, <<"err", r>>)
           /\ faults' \in Nat /\ culprits' \in {culprits, culprits \cup {r}}
<1> USE DEF RankRaises, Go, Broken
<1>0. r \in DOMAIN where /\ faults \in Nat
  BY DEF TypeRanks, TypeRun, TypeReport
<1>1. CASE ProbeFails(r)
  BY <1>0, <1>1 DEF ProbeFails
<1>2. CASE NotFinite(r)
  BY <1>0, <1>2 DEF NotFinite
<1>3. CASE Fail(r)
  BY <1>0, <1>3 DEF Fail
<1>4. CASE Kill(r)
  BY <1>0, <1>4 DEF Kill
<1>5. CASE Teardown(r)
  BY <1>0, <1>5 DEF Teardown
<1>6. CASE PeerLost(r)
  BY <1>0, <1>6 DEF PeerLost
<1>7. CASE Aborted(r)
  BY <1>0, <1>7 DEF Aborted
<1> QED
  BY <1>1, <1>2, <1>3, <1>4, <1>5, <1>6, <1>7 DEF Breaks

LEMMA MessageType ==
    ASSUME TypeRanks, NEW r \in Ranks
    PROVE  /\ <<"ok", r>> \in Messages /\ <<"err", r>> \in Messages
           /\ Append(results, <<"ok", r>>) \in Seq(Messages)
           /\ Append(results, <<"err", r>>) \in Seq(Messages)
<1>1. <<"ok", r>> \in Messages /\ <<"err", r>> \in Messages /\ results \in Seq(Messages)
  BY DEF Messages, TypeRanks, TypeReport
<1> QED
  BY <1>1

LEMMA TypeRanksStep ==
    ASSUME TypeRanks, Joined, [RanksNext]_distributed
    PROVE  TypeRanks'
<1>0. PICK S \in Seq(Points) : Script(S) /\ Resumed(S) /\ \A r \in Ranks : At(S, r)
  BY DEF Joined
<1>a. 0 \in Ranks /\ TypeFiles /\ TypeRun /\ TypeOps /\ TypeReport
  BY TheRanks DEF TypeRanks
<1>b. {"restore", "batch", "save", "finish", "export", "exited"} \subseteq Places
  BY DEF Places, Dead
<1> USE DEF Go, Others, files
<1>1. ASSUME NEW r \in Ranks, RankStep(r) \/ PeerFailure(r) \/ ProbeFails(r) \/ Fail(r) \/ Kill(r)
      PROVE  TypeRanks'
  <2>1. CASE Bootstrap(r)
    <3>1. Enter(r, "init", 0) /\ "init" \in Collectives /\ 0 \in Nat
      BY <2>1 DEF Bootstrap, Collectives
    <3>2. TypeOps' /\ where' \in [Ranks -> Places]
      BY <1>a, <3>1, EnteredType DEF TypeOps
    <3>3. TypeFiles'
      BY <1>a, <2>1 DEF Bootstrap, TypeFiles
    <3>4. TypeRun'
      BY <1>a, <2>1, <3>2 DEF Bootstrap, TypeRun
    <3>5. TypeReport'
      BY <1>a, <2>1 DEF Bootstrap, TypeReport
    <3> QED
      BY <3>2, <3>3, <3>4, <3>5 DEF TypeRanks
  <2>2. CASE Initialized(r)
    <3>11. TypeFiles'
      BY <1>a, <2>2 DEF Initialized, TypeFiles
    <3>12. TypeRun'
      BY <1>a, <1>b, <2>2 DEF Initialized, TypeRun
    <3>13. TypeOps'
      BY <1>a, <2>2 DEF Initialized, TypeOps
    <3>14. TypeReport'
      BY <1>a, <2>2 DEF Initialized, TypeReport
    <3> QED
      BY <3>11, <3>12, <3>13, <3>14 DEF TypeRanks
  <2>3. CASE RankRestore(r)
    <3>0. where[r] = "restore" /\ Len(ops[r]) = 1
      BY <1>0, <2>3 DEF RankRestore, At
    <3>w. Wrapping
      <4>1. Len(ops[r]) < 2
        BY <3>0
      <4> QED
        BY <4>1 DEF Wrapping
    <3>s. Source \in Nat /\ Source = IF noResume THEN 0 ELSE NewestKept
      BY <1>0, <3>w, SourceIsNat DEF Resumed, Source
    <3>1. Enter(r, "wrap", Source) /\ "wrap" \in Collectives
      BY <2>3, <3>s DEF RankRestore, Collectives
    <3>2. TypeOps' /\ where' \in [Ranks -> Places]
      BY <1>a, <3>1, <3>s, EnteredType DEF TypeOps
    <3>8. (kept' = {} /\ bestAt' = 0) \/ (kept' = kept /\ bestAt' = bestAt)
      BY <2>3 DEF RankRestore
    <3>9. UNCHANGED <<exported, noResume>>
      BY <2>3 DEF RankRestore
    <3>10. kept' \subseteq Nat /\ bestAt' \in Nat
      <4>1. CASE kept' = {} /\ bestAt' = 0
        BY <4>1
      <4>2. CASE kept' = kept /\ bestAt' = bestAt
        BY <1>a, <4>2 DEF TypeFiles
      <4> QED
        BY <3>8, <4>1, <4>2
    <3>3. TypeFiles'
      BY <1>a, <3>9, <3>10 DEF TypeFiles
    <3>6. /\ loaded' = [loaded EXCEPT ![r] = Source] /\ steps' = [steps EXCEPT ![r] = Source]
          /\ batch' = [batch EXCEPT ![r] = Source * GradAccum]
          /\ params' = [params EXCEPT ![r] = Source] /\ stopping' = stopping
      BY <2>3, <3>s DEF RankRestore
    <3>7. Source * GradAccum \in Nat
      BY <3>s, TheRanks
    <3>4. TypeRun'
      BY <1>a, <3>2, <3>6, <3>7, <3>s DEF TypeRun
    <3>5. TypeReport'
      BY <1>a, <2>3 DEF RankRestore, TypeReport
    <3> QED
      BY <3>2, <3>3, <3>4, <3>5 DEF TypeRanks
  <2>4. CASE Wrapped(r)
    <3>1. Len(ops[r]) >= 1 /\ Len(ops[0]) >= Len(ops[r])
      BY <1>0, <1>a, <2>4, InCollective DEF Wrapped, Collectives
    <3>2. FromRank0(r) \in Nat
      BY <3>1, FirstValue
    <3>11. TypeFiles'
      BY <1>a, <2>4, <3>2 DEF Wrapped, TypeFiles
    <3>12. TypeRun'
      BY <1>a, <1>b, <2>4, <3>2 DEF Wrapped, TypeRun
    <3>13. TypeOps'
      BY <1>a, <2>4, <3>2 DEF Wrapped, TypeOps
    <3>14. TypeReport'
      BY <1>a, <2>4, <3>2 DEF Wrapped, TypeReport
    <3> QED
      BY <3>11, <3>12, <3>13, <3>14 DEF TypeRanks
  <2>5. ASSUME NEW finite \in BOOLEAN, Forward(r, finite) PROVE TypeRanks'
    <3>1. Enter(r, "finite", Bit(finite)) /\ "finite" \in Collectives /\ Bit(finite) \in Nat
      BY <2>5 DEF Forward, Collectives, Bit
    <3>2. TypeOps' /\ where' \in [Ranks -> Places]
      BY <1>a, <3>1, EnteredType DEF TypeOps
    <3>3. TypeFiles'
      BY <1>a, <2>5 DEF Forward, TypeFiles
    <3>4. TypeRun'
      BY <1>a, <2>5, <3>2 DEF Forward, TypeRun
    <3>5. TypeReport'
      BY <1>a, <2>5 DEF Forward, TypeReport
    <3> QED
      BY <3>2, <3>3, <3>4, <3>5 DEF TypeRanks
  <2>6. CASE Finite(r)
    <3>1. CASE WindowEnds(r)
      <4>1. Enter(r, "grads", 0) /\ "grads" \in Collectives /\ 0 \in Nat
        BY <2>6, <3>1 DEF Finite, Collectives
      <4>2. TypeOps' /\ where' \in [Ranks -> Places]
        BY <1>a, <4>1, EnteredType DEF TypeOps
      <4>3. TypeFiles'
        BY <1>a, <2>6, <3>1 DEF Finite, TypeFiles
      <4>4. TypeRun'
        BY <1>a, <2>6, <3>1, <4>2 DEF Finite, TypeRun
      <4>5. TypeReport'
        BY <1>a, <2>6, <3>1 DEF Finite, TypeReport
      <4> QED
        BY <4>2, <4>3, <4>4, <4>5 DEF TypeRanks
    <3>2. CASE ~WindowEnds(r)
      <4>1. batch' = [batch EXCEPT ![r] = batch[r] + 1] /\ where' = [where EXCEPT ![r] = "batch"]
            /\ UNCHANGED <<steps, params, stopping, loaded>>
        BY <2>6, <3>2 DEF Finite
      <4>11. TypeFiles'
        BY <1>a, <2>6, <3>2 DEF Finite, TypeFiles
      <4>12. TypeRun'
        BY <1>a, <1>b, <4>1 DEF TypeRun
      <4>13. TypeOps'
        BY <1>a, <2>6, <3>2 DEF Finite, TypeOps
      <4>14. TypeReport'
        BY <1>a, <2>6, <3>2 DEF Finite, TypeReport
      <4> QED
        BY <4>11, <4>12, <4>13, <4>14 DEF TypeRanks
    <3> QED
      BY <3>1, <3>2
  <2>7. CASE StepTogether(r)
    <3>0. /\ steps' = [steps EXCEPT ![r] = steps[r] + 1] /\ params' = [params EXCEPT ![r] = params[r] + 1]
          /\ UNCHANGED <<batch, stopping, loaded>>
      BY <2>7 DEF StepTogether
    <3>4. /\ steps' \in [Ranks -> Nat] /\ params' \in [Ranks -> Nat] /\ batch' \in [Ranks -> Nat]
          /\ stopping' \in [Ranks -> BOOLEAN] /\ loaded' \in [Ranks -> Nat]
      BY <1>a, <3>0 DEF TypeRun
    <3>1. CASE (steps[r] + 1) % LogPeriod = 0
      <4>1. Enter(r, "mean", 0) /\ "mean" \in Collectives /\ 0 \in Nat
        BY <2>7, <3>1 DEF StepTogether, Collectives
      <4>2. TypeOps' /\ where' \in [Ranks -> Places]
        BY <1>a, <4>1, EnteredType DEF TypeOps
      <4>3. TypeFiles'
        BY <1>a, <2>7, <3>1 DEF StepTogether, TypeFiles
      <4>4. TypeRun'
        BY <3>4, <4>2 DEF TypeRun
      <4>5. TypeReport'
        BY <1>a, <2>7, <3>1 DEF StepTogether, TypeReport
      <4> QED
        BY <4>2, <4>3, <4>4, <4>5 DEF TypeRanks
    <3>2. CASE (steps[r] + 1) % LogPeriod # 0
      <4>1. where' = [where EXCEPT ![r] = "save"]
        BY <2>7, <3>2 DEF StepTogether
      <4>11. TypeFiles'
        BY <1>a, <2>7, <3>2 DEF StepTogether, TypeFiles
      <4>12. TypeRun'
        BY <1>a, <1>b, <3>4, <4>1 DEF TypeRun
      <4>13. TypeOps'
        BY <1>a, <2>7, <3>2 DEF StepTogether, TypeOps
      <4>14. TypeReport'
        BY <1>a, <2>7, <3>2 DEF StepTogether, TypeReport
      <4> QED
        BY <4>11, <4>12, <4>13, <4>14 DEF TypeRanks
    <3> QED
      BY <3>1, <3>2
  <2>8. ASSUME NEW improved \in BOOLEAN, NEW stopNow \in BOOLEAN, Track(improved, stopNow)
        PROVE  TypeRanks'
    <3>1. Enter(0, "flag", Bit(stopNow)) /\ "flag" \in Collectives /\ Bit(stopNow) \in Nat
      BY <2>8 DEF Track, Collectives, Bit
    <3>2. TypeOps' /\ where' \in [Ranks -> Places]
      BY <1>a, <3>1, EnteredType DEF TypeOps
    <3>6. bestAt' \in {steps[0], bestAt} /\ steps[0] \in Nat
      BY <1>a, <2>8 DEF Track, TypeRun
    <3>3. TypeFiles'
      BY <1>a, <2>8, <3>6 DEF Track, TypeFiles
    <3>4. TypeRun'
      BY <1>a, <2>8, <3>6, <3>2 DEF Track, TypeRun
    <3>5. TypeReport'
      BY <1>a, <2>8, <3>6 DEF Track, TypeReport
    <3> QED
      BY <3>2, <3>3, <3>4, <3>5 DEF TypeRanks
  <2>9. CASE NoTrack(r)
    <3>1. Enter(r, "flag", 0) /\ "flag" \in Collectives /\ 0 \in Nat
      BY <2>9 DEF NoTrack, Collectives
    <3>2. TypeOps' /\ where' \in [Ranks -> Places]
      BY <1>a, <3>1, EnteredType DEF TypeOps
    <3>3. TypeFiles'
      BY <1>a, <2>9 DEF NoTrack, TypeFiles
    <3>4. TypeRun'
      BY <1>a, <2>9, <3>2 DEF NoTrack, TypeRun
    <3>5. TypeReport'
      BY <1>a, <2>9 DEF NoTrack, TypeReport
    <3> QED
      BY <3>2, <3>3, <3>4, <3>5 DEF TypeRanks
  <2>10. CASE Flag(r)
    <3>11. TypeFiles'
      BY <1>a, <2>10 DEF Flag, TypeFiles
    <3>12. TypeRun'
      BY <1>a, <1>b, <2>10 DEF Flag, TypeRun
    <3>13. TypeOps'
      BY <1>a, <2>10 DEF Flag, TypeOps
    <3>14. TypeReport'
      BY <1>a, <2>10 DEF Flag, TypeReport
    <3> QED
      BY <3>11, <3>12, <3>13, <3>14 DEF TypeRanks
  <2>11. CASE Save(r)
    <3>1. kept' \subseteq kept \cup {steps[r]} /\ steps[r] \in Nat
      BY <1>a, <2>11 DEF Save, TypeRun
    <3>11. TypeFiles'
      BY <1>a, <2>11, <3>1 DEF Save, TypeFiles
    <3>12. TypeRun'
      BY <1>a, <1>b, <2>11, <3>1 DEF Save, TypeRun
    <3>13. TypeOps'
      BY <1>a, <2>11, <3>1 DEF Save, TypeOps
    <3>14. TypeReport'
      BY <1>a, <2>11, <3>1 DEF Save, TypeReport
    <3> QED
      BY <3>11, <3>12, <3>13, <3>14 DEF TypeRanks
  <2>12. CASE LastBatch(r)
    <3>11. TypeFiles'
      BY <1>a, <2>12 DEF LastBatch, TypeFiles
    <3>12. TypeRun'
      BY <1>a, <1>b, <2>12 DEF LastBatch, TypeRun
    <3>13. TypeOps'
      BY <1>a, <2>12 DEF LastBatch, TypeOps
    <3>14. TypeReport'
      BY <1>a, <2>12 DEF LastBatch, TypeReport
    <3> QED
      BY <3>11, <3>12, <3>13, <3>14 DEF TypeRanks
  <2>13. CASE Finish(r)
    <3>0. params' \in [Ranks -> Nat]
      BY <1>a, <2>13 DEF Finish, TypeRun, TypeFiles
    <3>1. Enter(r, "share", params'[r]) /\ "share" \in Collectives /\ params'[r] \in Nat
      BY <2>13, <3>0 DEF Finish, Collectives
    <3>2. TypeOps' /\ where' \in [Ranks -> Places]
      BY <1>a, <3>1, EnteredType DEF TypeOps
    <3>3. TypeFiles'
      BY <1>a, <2>13, <3>0 DEF Finish, TypeFiles
    <3>4. TypeRun'
      BY <1>a, <2>13, <3>0, <3>2 DEF Finish, TypeRun
    <3>5. TypeReport'
      BY <1>a, <2>13, <3>0 DEF Finish, TypeReport
    <3> QED
      BY <3>2, <3>3, <3>4, <3>5 DEF TypeRanks
  <2>14. CASE Share(r)
    <3>1. Len(ops[r]) >= 1 /\ Len(ops[0]) >= Len(ops[r])
      BY <1>0, <1>a, <2>14, InCollective DEF Share, Arrived, Broadcasts, Collectives
    <3>2. FromRank0(r) \in Nat
      BY <3>1, FirstValue
    <3>11. TypeFiles'
      BY <1>a, <2>14, <3>2 DEF Share, TypeFiles
    <3>12. TypeRun'
      BY <1>a, <1>b, <2>14, <3>2 DEF Share, TypeRun
    <3>13. TypeOps'
      BY <1>a, <2>14, <3>2 DEF Share, TypeOps
    <3>14. TypeReport'
      BY <1>a, <2>14, <3>2 DEF Share, TypeReport
    <3> QED
      BY <3>11, <3>12, <3>13, <3>14 DEF TypeRanks
  <2>15. CASE RankExport(r)
    <3>1. results' = results \/ results' = Append(results, <<"ok", 0>>)
      BY <2>15 DEF RankExport
    <3>2. results' \in Seq(Messages)
      BY <1>a, <3>1, MessageType DEF TypeReport
    <3>11. TypeFiles'
      BY <1>a, <2>15 DEF RankExport, TypeFiles, TypeRun
    <3>12. TypeRun'
      BY <1>a, <1>b, <2>15 DEF RankExport, TypeRun
    <3>13. TypeOps'
      BY <1>a, <2>15 DEF RankExport, TypeOps
    <3>14. TypeReport'
      BY <1>a, <2>15, <3>2 DEF RankExport, TypeReport
    <3> QED
      BY <3>11, <3>12, <3>13, <3>14 DEF TypeRanks
  <2>16. CASE Breaks(r)
    <3>1. where'[r] \in Places
      BY <2>16, BreaksOnly DEF Broken, Dead, Places
    <3>2. results' \in Seq(Messages)
      BY <1>a, <2>16, BreaksOnly, MessageType DEF TypeReport
    <3>3. TypeFiles' /\ TypeOps'
      BY <1>a, <2>16, BreaksOnly DEF TypeFiles, TypeOps
    <3>4. TypeRun'
      BY <1>a, <2>16, <3>1, BreaksOnly DEF TypeRun
    <3>5. TypeReport'
      BY <1>a, <2>16, <3>2, BreaksOnly DEF TypeReport
    <3> QED
      BY <3>3, <3>4, <3>5 DEF TypeRanks
  <2> QED
    BY <1>1, <2>1, <2>2, <2>3, <2>4, <2>5, <2>6, <2>7, <2>8, <2>9, <2>10, <2>11, <2>12, <2>13,
       <2>14, <2>15, <2>16 DEF RankStep, PeerFailure, Breaks
<1>2. CASE JoinAll
  <2>1. outcome' \in Messages
    <3>1. CASE Errors # {}
      <4>1. FirstError \in Errors
        <5>1. Errors \subseteq Nat
          BY <1>a DEF Errors, TypeReport
        <5>2. \E n \in Errors : \A m \in Errors : n <= m
          BY <3>1, <5>1, LeastNumber
        <5> QED
          BY <5>2 DEF FirstError
      <4>2. results[FirstError] \in Messages
        BY <1>a, <4>1 DEF Errors, TypeReport
      <4> QED
        BY <1>2, <3>1, <4>2 DEF JoinAll
    <3>2. CASE Errors = {} /\ Failed # {}
      <4>1. Failed \subseteq Nat
        BY TheRanks DEF Failed
      <4>2. \E r \in Failed : \A q \in Failed : r <= q
        BY <3>2, <4>1, LeastNumber
      <4>3. PICK x : x = CHOOSE r \in Failed : \A q \in Failed : r <= q
        OBVIOUS
      <4>4. x \in Ranks
        BY <4>2, <4>3 DEF Failed
      <4>5. outcome' = <<"err", x>>
        BY <1>2, <3>2, <4>3 DEF JoinAll
      <4> QED
        BY <4>4, <4>5, MessageType
    <3>3. CASE Errors = {} /\ Failed = {}
      <4>1. outcome' = <<"ok", 0>>
        BY <1>2, <3>3 DEF JoinAll
      <4> QED
        BY <1>a, <4>1, MessageType
    <3> QED
      BY <3>1, <3>2, <3>3
  <2>2. TypeFiles' /\ TypeOps'
    BY <1>a, <1>2 DEF JoinAll, TypeFiles, TypeOps, ranks
  <2>3. TypeRun'
    BY <1>a, <1>2 DEF JoinAll, TypeRun, ranks
  <2>4. TypeReport'
    BY <1>a, <1>2, <2>1 DEF JoinAll, TypeReport
  <2> QED
    BY <2>2, <2>3, <2>4 DEF TypeRanks
<1>3. CASE UNCHANGED distributed
  BY <1>3 DEF distributed, ranks, TypeRanks, TypeFiles, TypeRun, TypeOps, TypeReport
<1> QED
  BY <1>1, <1>2, <1>3 DEF RanksNext, Returned

----------------------------------------------------------------------------
(* The script                                                              *)

\* A rank moves within what everybody knows, before or after the wrapping.
LEMMA StandsStill ==
    ASSUME TypeRanks, TypeRanks', NEW S, Script(S), Resumed(S), \A q \in Ranks : At(S, q),
           NEW r \in Ranks, ops' = ops, loaded' = loaded, kept' = kept, UNCHANGED noResume,
           OthersKeep(r), where'[r] \notin {"batch", "save", "finish"}, At(S, r)'
    PROVE  Joined'
<1>1. Script(S)' /\ SameAfter(S, S)
  BY SameScript
<1>2. Source' = Source /\ Wrapping' = Wrapping
  BY DEF Source, NewestKept, Wrapping
<1>3. Resumed(S)'
  BY <1>2 DEF Resumed, OthersKeep
<1>4. ASSUME NEW q \in Ranks, q # r PROVE At(S, q)'
  <2>1. Len(ops[0]) <= Len(ops'[0])
    BY Lengths, TheRanks
  <2> QED
    BY <1>1, <1>4, <2>1, OthersStay DEF OthersKeep
<1> QED
  BY <1>1, <1>3, <1>4 DEF Joined, Script

LEMMA EntersPoint ==
    ASSUME TypeRanks, TypeRanks', NEW S, Script(S), Resumed(S), \A q \in Ranks : At(S, q),
           NEW r \in Ranks, ~Wrapping, NEW v \in Nat,
           NEW k \in {"finite", "grads", "mean", "flag", "share"}, Enter(r, k, v),
           batch'[r] \in Nat, steps'[r] \in Nat,
           After(S, Len(ops[r])) = Point(k, batch'[r], steps'[r]), S[Len(ops[r])].kind # "share",
           S[Len(ops[r])].kind = "flag" => Len(ops[r]) <= Len(ops[0]),
           loaded' = loaded, OthersKeep(r), k = "share" \/ stopping'[r] = FALSE
    PROVE  Joined'
<1>m. PICK M : M = Point(k, batch'[r], steps'[r])
  OBVIOUS
<1>1. k \in Collectives /\ k \notin {"init", "wrap"}
  BY DEF Collectives
<1>2. M \in Points /\ M.kind = k /\ M.at = batch'[r] /\ M.step = steps'[r]
  BY <1>1, <1>m, PointParts
<1>3. Brings(r, M.kind, v) /\ where'[r] = k
  BY <1>1, <1>2, EnteredType DEF TypeRanks, TypeRun
<1>4. M = After(S, Len(ops[r])) /\ M.kind \notin {"init", "wrap"} /\ where'[r] = M.kind
      /\ (M.kind = "share" \/ stopping'[r] = FALSE)
  BY <1>1, <1>2, <1>3, <1>m
<1> QED
  BY <1>2, <1>3, <1>4, Enters, Zenon

LEMMA EnteredAt ==
    ASSUME TypeRanks, NEW r \in Ranks, NEW k \in Collectives, NEW v \in Nat, Brings(r, k, v),
           NEW n, n = Len(ops[r]) + 1
    PROVE  /\ Len(ops'[r]) = n /\ ops'[r][n] = [kind |-> k, value |-> v]
           /\ \A q \in Ranks : q # r => ops'[q] = ops[q]
           /\ \A q \in Ranks : Len(ops[q]) <= Len(ops'[q])
<1>0. /\ Len(ops'[r]) = Len(ops[r]) + 1
      /\ ops'[r][Len(ops[r]) + 1] = [kind |-> k, value |-> v]
      /\ \A q \in Ranks : q # r => ops'[q] = ops[q]
  BY Appended, Zenon DEF Brings
<1>1. /\ Len(ops'[r]) = n /\ ops'[r][n] = [kind |-> k, value |-> v]
      /\ \A q \in Ranks : q # r => ops'[q] = ops[q]
  BY <1>0, Zenon
<1>2. \A q \in Ranks : Len(ops[q]) \in Nat
  BY Lengths
<1> QED
  BY <1>1, <1>2

\* Only the first point of a script is the start of the process group.
LEMMA OnlyFirst ==
    ASSUME TypeRanks, NEW S, Script(S), NEW r \in Ranks, At(S, r), where[r] = "init"
    PROVE  Len(ops[r]) = 1
<1>1. Len(ops[r]) \in Nat /\ Len(ops[r]) >= 1 /\ Len(ops[r]) <= Len(S) /\ Len(S) \in Nat
      /\ S[Len(ops[r])].kind = "init"
  BY InCollective DEF Collectives
<1>2. Len(ops[r]) \in 1 .. Len(S)
  BY <1>1
<1> QED
  BY <1>1, <1>2, Zenon DEF Script

LEMMA JoinedBootstrap ==
    ASSUME TypeRanks, TypeRanks', NEW S, Script(S), Resumed(S), \A q \in Ranks : At(S, q),
           NEW r \in Ranks, Bootstrap(r)
    PROVE  Joined'
<1>a. 0 \in Ranks /\ TypeRun /\ At(S, r)
  BY TheRanks DEF TypeRanks
<1> USE DEF Go, Others, files
<1>1. Len(ops[r]) = 0 /\ batch[r] = 0 /\ steps[r] = 0 /\ params[r] = 0 /\ stopping[r] = FALSE
  BY <1>a DEF Bootstrap, At
<1>2. Enter(r, "init", 0) /\ "init" \in Collectives
  BY DEF Bootstrap, Collectives
<1>m. PICK M : M = Point("init", 0, 0)
  OBVIOUS
<1>3. M \in Points /\ M.kind = "init"
  BY <1>2, <1>m, PointParts
<1>4. Brings(r, "init", 0) /\ where' = [where EXCEPT ![r] = "init"]
  BY <1>2, EnteredType
<1>5. UNCHANGED <<kept, noResume, loaded, batch, steps, params, stopping>> /\ Source' = Source
  BY DEF Bootstrap, Source, NewestKept
<1>6. OthersKeep(r) /\ where'[r] = "init"
  BY <1>a, <1>4, <1>5 DEF TypeRun, OthersKeep
<1>7. IsNext(S, r, M)
  BY <1>1, <1>m DEF IsNext, Script
<1>8. PICK T : Script(T)' /\ Grows(S, T, r, M)
  <2>1. Brings(r, M.kind, 0) /\ 0 \in Nat
    BY <1>3, <1>4
  <2> QED
    BY <1>3, <1>7, <2>1, Extends, Zenon
<1>9. /\ Len(ops'[r]) = 1 /\ \A q \in Ranks : q # r => ops'[q] = ops[q]
      /\ \A q \in Ranks : Len(ops[q]) <= Len(ops'[q])
  <2>1. 1 = Len(ops[r]) + 1
    BY <1>1
  <2> QED
    BY <1>2, <1>4, <2>1, EnteredAt
<1>10. \A q \in Ranks : Len(ops'[q]) >= 2 => Len(ops[q]) >= 2 /\ ops'[q] = ops[q]
  <2>1. ASSUME NEW q \in Ranks, q # r PROVE Len(ops'[q]) >= 2 => Len(ops[q]) >= 2 /\ ops'[q] = ops[q]
    BY <1>9, <2>1
  <2>2. ~(Len(ops'[r]) >= 2)
    <3>1. Len(ops'[r]) = 1
      BY <1>9
    <3> QED
      BY <3>1
  <2> QED
    BY <2>1, <2>2, Zenon
<1>11. Wrapping
  <2>1. Len(ops[r]) < 2
    BY <1>1
  <2> QED
    BY <2>1 DEF Wrapping
<1>12. /\ Len(T) \in Nat /\ Len(S) \in Nat /\ T \in Seq(Points) /\ SameAfter(S, T)
       /\ (Len(T) >= 2 => Len(S) = Len(T) /\ T[2] = S[2])
       /\ Len(T) >= 1 /\ T[1] = M /\ Len(T) <= 2
  <2>1. Len(S) \in Nat /\ Len(S) <= 2
    BY <1>11 DEF Script, Resumed
  <2>2. /\ T \in Seq(Points) /\ Len(T) >= Len(S) /\ Len(T) >= 1 /\ T[1] = M /\ SameAfter(S, T)
        /\ Len(T) = Len(S) \/ Len(T) = 1
    <3>1. PICK n : n = Len(ops[r])
      OBVIOUS
    <3>2. /\ T \in Seq(Points) /\ Len(T) >= Len(S) /\ Len(T) >= n + 1
          /\ Len(T) = Len(S) \/ Len(T) = n + 1
          /\ T[n + 1] = M /\ SameAfter(S, T)
      BY <1>8, <3>1 DEF Grows
    <3>3. n + 1 = 1
      BY <1>1, <3>1
    <3> QED
      BY <3>2, <3>3
  <2>3. Len(T) \in Nat /\ \A k \in 1 .. Len(S) : T[k] = S[k]
    BY <2>2 DEF SameAfter
  <2>5. PICK m, t : m = Len(S) /\ t = Len(T)
    OBVIOUS
  <2>6. m \in Nat /\ t \in Nat /\ m <= 2 /\ t >= m /\ t >= 1 /\ (t = m \/ t = 1)
        /\ \A k \in 1 .. m : T[k] = S[k]
    BY <2>1, <2>2, <2>3, <2>5
  <2>7. t <= 2 /\ (t >= 2 => m = t /\ T[2] = S[2])
    BY <2>6
  <2>4. Len(T) >= 2 => Len(S) = Len(T) /\ T[2] = S[2]
    BY <2>5, <2>7
  <2> QED
    BY <2>1, <2>2, <2>3, <2>4, <2>5, <2>7
<1>13. \A q \in Ranks : Len(ops[q]) >= 2 => T[2] = S[2]
  <2>1. \A q \in Ranks : Len(ops[q]) >= 2 => Len(S) >= 2
    BY <1>12, Lengths DEF Script
  <2> QED
    BY <1>12, <2>1 DEF SameAfter
<1>14. Resumed(T)'
  <2>1. \A q \in Ranks : Len(ops'[q]) >= 2 => loaded'[q] = T[2].step /\ ops'[q][2].value = T[2].step
    BY <1>5, <1>10, <1>13 DEF Resumed
  <2>2. Len(T) = 2 => T[2].step = Source'
    BY <1>5, <1>11, <1>12 DEF Resumed
  <2>3. kept' = {} \/ \E s \in kept' : \A t \in kept' : t <= s
    BY <1>5, <1>11 DEF Resumed
  <2>4. \A q \in Ranks : where'[q] \notin {"batch", "save", "finish"}
    BY <1>6, <1>11 DEF Resumed, OthersKeep
  <2> QED
    BY <1>12, <2>1, <2>2, <2>3, <2>4 DEF Resumed
<1>15. ASSUME NEW q \in Ranks, q # r PROVE At(T, q)'
  <2>1. Len(ops[0]) <= Len(ops'[0]) /\ ops'[q] = ops[q]
    BY <1>a, <1>9, <1>15
  <2> QED
    BY <1>6, <1>12, <1>15, <2>1, OthersStay DEF OthersKeep
<1>16. At(T, r)'
  BY <1>1, <1>2, <1>5, <1>6, <1>9, <1>12, <1>m DEF At
<1> QED
  BY <1>8, <1>12, <1>14, <1>15, <1>16 DEF Joined

LEMMA JoinedRestore ==
    ASSUME TypeRanks, TypeRanks', NEW S, Script(S), Resumed(S), \A q \in Ranks : At(S, q),
           NEW r \in Ranks, RankRestore(r)
    PROVE  Joined'
<1>a. 0 \in Ranks /\ TypeRun /\ At(S, r)
  BY TheRanks DEF TypeRanks
<1> USE DEF Go, Others, files
<1>1. Len(ops[r]) = 1 /\ where[r] = "restore" /\ stopping[r] = FALSE
  BY <1>a DEF RankRestore, At
<1>2. Wrapping
  <2>1. Len(ops[r]) < 2
    BY <1>1
  <2> QED
    BY <2>1 DEF Wrapping
<1>3. Source \in Nat /\ Source = IF noResume THEN 0 ELSE NewestKept
  BY <1>2, SourceIsNat DEF Resumed, Source
<1>4. Enter(r, "wrap", Source) /\ "wrap" \in Collectives
  BY <1>3 DEF RankRestore, Collectives
<1>5. /\ loaded' = [loaded EXCEPT ![r] = Source] /\ steps' = [steps EXCEPT ![r] = Source]
      /\ batch' = [batch EXCEPT ![r] = Source * GradAccum]
      /\ params' = [params EXCEPT ![r] = Source] /\ UNCHANGED stopping
      /\ UNCHANGED noResume
  BY <1>3 DEF RankRestore
<1>6. (noResume /\ kept' = {}) \/ (~noResume /\ kept' = kept)
  BY DEF RankRestore
<1>7. Source * GradAccum \in Nat
  BY <1>3, TheRanks
<1>m. PICK M : M = Point("wrap", Source * GradAccum, Source)
  OBVIOUS
<1>8. M \in Points /\ M.kind = "wrap" /\ M.at = M.step * GradAccum /\ M.step = Source
  BY <1>3, <1>4, <1>7, <1>m, PointParts
<1>9. Len(S) \in Nat /\ Len(S) <= 2 /\ Len(S) >= 1 /\ (Len(S) = 2 => S[2] = M)
  <2>1. Len(S) \in Nat /\ Len(S) <= 2 /\ Len(S) >= 1
    <3>1. Len(S) \in Nat /\ Len(ops[r]) <= Len(S)
      BY DEF Script
    <3>2. Len(S) <= 2
      BY <1>2 DEF Resumed
    <3>3. PICK m, n : m = Len(S) /\ n = Len(ops[r])
      OBVIOUS
    <3>4. m \in Nat /\ m <= 2 /\ n <= m /\ n = 1
      BY <1>1, <3>1, <3>2, <3>3
    <3>5. m >= 1
      BY <3>4
    <3> QED
      BY <3>3, <3>4, <3>5
  <2>2. ASSUME Len(S) = 2 PROVE S[2] = M
    <3>1. S[2] \in Points /\ S[2].kind = "wrap" /\ S[2].at = S[2].step * GradAccum /\ S[2].step = Source
      BY <1>2, <2>2 DEF Script, Resumed
    <3> QED
      BY <1>8, <3>1 DEF Points
  <2> QED
    BY <2>1, <2>2
<1>10. IsNext(S, r, M)
  <2>1. PICK n : n = Len(ops[r])
    OBVIOUS
  <2>2. n = 1 /\ (n < Len(S) => M = S[n + 1])
    <3>1. n = 1
      BY <1>1, <2>1
    <3>2. PICK m : m = Len(S)
      OBVIOUS
    <3>3. m \in Nat /\ m <= 2 /\ (m = 2 => S[2] = M)
      BY <1>9, <3>2
    <3> QED
      BY <3>1, <3>2, <3>3
  <2> QED
    BY <1>8, <2>1, <2>2 DEF IsNext
<1>11. Brings(r, "wrap", Source) /\ where' = [where EXCEPT ![r] = "wrap"]
  BY <1>3, <1>4, EnteredType
<1>12. PICK T : Script(T)' /\ Grows(S, T, r, M)
  <2>1. Brings(r, M.kind, Source)
    BY <1>8, <1>11
  <2> QED
    BY <1>3, <1>8, <1>10, <2>1, Extends, Zenon
<1>13. /\ Len(ops'[r]) = 2 /\ ops'[r][2].value = Source /\ \A q \in Ranks : q # r => ops'[q] = ops[q]
       /\ \A q \in Ranks : Len(ops[q]) <= Len(ops'[q])
  <2>1. 2 = Len(ops[r]) + 1
    BY <1>1
  <2>2. PICK s : s = Source
    OBVIOUS
  <2>3. s \in Nat /\ "wrap" \in Collectives /\ Brings(r, "wrap", s)
    BY <1>3, <1>4, <1>11, <2>2
  <2>4. PICK n : n = Len(ops[r]) + 1
    OBVIOUS
  <2>5. /\ Len(ops'[r]) = n /\ ops'[r][n].value = s /\ \A q \in Ranks : q # r => ops'[q] = ops[q]
        /\ \A q \in Ranks : Len(ops[q]) <= Len(ops'[q])
    <3>k. PICK k : k = "wrap"
      OBVIOUS
    <3>a. ops' = [ops EXCEPT ![r] = Append(ops[r], [kind |-> k, value |-> s])] /\ k \in Collectives /\ s \in Nat
      BY <2>3, <3>k DEF Brings
    <3>b. ops'[r][Len(ops[r]) + 1] = [kind |-> k, value |-> s]
      BY <3>a, Appended, Zenon
    <3>0. ops'[r][n] = [kind |-> "wrap", value |-> s]
      BY <2>4, <3>b, <3>k
    <3>1. ops'[r][n].value = s
      BY <3>0
    <3>2. Len(ops'[r]) = n
      BY <2>3, <2>4, EnteredAt, Zenon
    <3>3. \A q \in Ranks : q # r => ops'[q] = ops[q]
      BY <2>3, <2>4, EnteredAt, Zenon
    <3>4. \A q \in Ranks : Len(ops[q]) <= Len(ops'[q])
      BY <2>3, <2>4, EnteredAt, Zenon
    <3> QED
      BY <3>1, <3>2, <3>3, <3>4, Zenon
  <2>6. n = 2
    BY <2>1, <2>4
  <2> QED
    BY <2>2, <2>5, <2>6, Zenon
<1>14. Len(T) = 2 /\ T \in Seq(Points) /\ T[2] = M /\ SameAfter(S, T)
  <2>1. PICK n : n = Len(ops[r])
    OBVIOUS
  <2>2. /\ T \in Seq(Points) /\ Len(T) >= Len(S) /\ Len(T) >= n + 1
        /\ Len(T) = Len(S) \/ Len(T) = n + 1
        /\ T[n + 1] = M /\ SameAfter(S, T)
    BY <1>12, <2>1 DEF Grows
  <2>3. n + 1 = 2 /\ Len(T) \in Nat
    BY <1>1, <2>1, <2>2
  <2>4. PICK m, t : m = Len(S) /\ t = Len(T)
    OBVIOUS
  <2>5. m \in Nat /\ t \in Nat /\ m <= 2 /\ t >= m /\ t >= 2 /\ (t = m \/ t = 2)
    BY <1>9, <2>2, <2>3, <2>4
  <2>6. Len(T) = 2
    BY <2>4, <2>5
  <2> QED
    BY <2>2, <2>3, <2>6
<1>15. OthersKeep(r) /\ where'[r] = "wrap" /\ loaded'[r] = Source /\ batch'[r] = Source * GradAccum
       /\ steps'[r] = Source /\ \A q \in Ranks : q # r => loaded'[q] = loaded[q]
  BY <1>a, <1>5, <1>11 DEF OthersKeep, TypeRun
<1>16. Resumed(T)'
  <2>1. ASSUME NEW q \in Ranks, Len(ops'[q]) >= 2
        PROVE  loaded'[q] = T[2].step /\ ops'[q][2].value = T[2].step
    <3>1. CASE q = r
      BY <1>8, <1>13, <1>14, <1>15, <3>1
    <3>2. CASE q # r
      <4>1. ops'[q] = ops[q] /\ loaded'[q] = loaded[q]
        BY <1>13, <1>15, <3>2
      <4>2. Len(ops[q]) >= 2 /\ loaded[q] = S[2].step /\ ops[q][2].value = S[2].step
        BY <2>1, <4>1 DEF Resumed
      <4>3. Len(ops[q]) <= Len(S) /\ Len(ops[q]) \in Nat
        BY Lengths DEF Script
      <4>4. Len(S) = 2
        <5>1. PICK m, n : m = Len(S) /\ n = Len(ops[q])
          OBVIOUS
        <5>2. m \in Nat /\ n \in Nat /\ m <= 2 /\ n <= m /\ n >= 2
          BY <1>9, <4>2, <4>3, <5>1
        <5> QED
          BY <5>1, <5>2
      <4> QED
        BY <1>9, <1>14, <4>1, <4>2, <4>4
    <3> QED
      BY <3>1, <3>2
  <2>2. T[2].step = Source'
    BY <1>3, <1>5, <1>6, <1>8, <1>14 DEF Source, NewestKept
  <2>3. kept' = {} \/ \E s \in kept' : \A t \in kept' : t <= s
    BY <1>2, <1>6 DEF Resumed
  <2>4. \A q \in Ranks : where'[q] \notin {"batch", "save", "finish"}
    BY <1>2, <1>15 DEF Resumed, OthersKeep
  <2> QED
    BY <1>14, <2>1, <2>2, <2>3, <2>4 DEF Resumed
<1>17. ASSUME NEW q \in Ranks, q # r PROVE At(T, q)'
  <2>1. Len(ops[0]) <= Len(ops'[0]) /\ ops'[q] = ops[q]
    BY <1>a, <1>13, <1>17
  <2> QED
    BY <1>14, <1>15, <1>17, <2>1, OthersStay DEF OthersKeep
<1>18. At(T, r)'
  BY <1>1, <1>4, <1>5, <1>13, <1>14, <1>15, <1>m DEF At
<1> QED
  BY <1>12, <1>14, <1>16, <1>17, <1>18 DEF Joined

\* Where a rank that is between two collectives may be: nothing but At is left
\* to show for the one that moves on.
LEMMA GoesTo ==
    ASSUME TypeRanks, TypeRanks', NEW S, Script(S), Resumed(S), \A q \in Ranks : At(S, q),
           NEW r \in Ranks, ~Wrapping, ops' = ops, loaded' = loaded, OthersKeep(r),
           where'[r] \in {"batch", "save", "finish"}, where'[r] = "batch" => stopping'[r] = FALSE,
           Len(ops[r]) >= 2, S[Len(ops[r])].kind # "share",
           S[Len(ops[r])].kind = "flag" => Len(ops[r]) <= Len(ops[0]),
           After(S, Len(ops[r])) = Coming(r)'
    PROVE  Joined'
<1>1. where'[r] \notin Collectives
  BY DEF Collectives
<1>2. (After(S, Len(ops[r])))' = After(S, Len(ops[r]))
  BY DEF After
<1>3. At(S, r)'
  BY <1>1, <1>2 DEF At
<1> QED
  BY <1>3, GoesOn

LEMMA JoinedStep ==
    ASSUME TypeRanks, TypeRanks', Joined, [RanksNext]_distributed
    PROVE  Joined'
<1>0. PICK S \in Seq(Points) : Script(S) /\ Resumed(S) /\ \A r \in Ranks : At(S, r)
  BY DEF Joined
<1>a. 0 \in Ranks /\ TypeFiles /\ TypeRun /\ TypeOps
  BY TheRanks DEF TypeRanks
<1> USE DEF Go, Others, files
<1>1. ASSUME NEW r \in Ranks, RankStep(r) \/ PeerFailure(r) \/ ProbeFails(r) \/ Fail(r) \/ Kill(r)
      PROVE  Joined'
  <2>a. At(S, r) /\ Len(ops[r]) \in Nat /\ batch[r] \in Nat /\ steps[r] \in Nat
    BY <1>0, <1>a, Lengths DEF TypeRun
  <2>b. ASSUME where[r] \in {"batch", "save", "finish", "finite", "grads", "mean", "flag", "share",
                             "export", "exited"}
        PROVE  ~Wrapping
    BY <1>0, <2>a, <2>b, Beyond
  <2>c. ASSUME where[r] \in {"batch", "save", "finish"}
        PROVE  /\ Len(ops[r]) >= 2 /\ S[Len(ops[r])].kind # "share"
               /\ S[Len(ops[r])].kind = "flag" => Len(ops[r]) <= Len(ops[0])
               /\ After(S, Len(ops[r])) = Coming(r)
    BY <2>a, <2>c DEF At
  <2>d. ASSUME where[r] \in Collectives
        PROVE  /\ S[Len(ops[r])] = Point(where[r], batch[r], steps[r])
               /\ S[Len(ops[r])].kind = where[r]
               /\ Len(ops[r]) >= 2 \/ where[r] = "init"
    <3>1. PICK n : n = Len(ops[r])
      OBVIOUS
    <3>2. /\ n \in Nat /\ n >= 1 /\ n <= Len(S) /\ Len(S) \in Nat
          /\ S[n] = Point(where[r], batch[r], steps[r]) /\ S[n].kind = where[r]
      BY <1>0, <2>a, <2>d, <3>1, InCollective
    <3>3. n = 1 => where[r] = "init"
      BY <1>0, <3>2 DEF Script
    <3>4. n >= 2 \/ where[r] = "init"
      BY <3>2, <3>3
    <3> QED
      BY <3>1, <3>2, <3>4, Zenon
  <2>1. CASE Bootstrap(r)
    BY <1>0, <2>1, JoinedBootstrap
  <2>2. CASE Initialized(r)
    <3>1. Len(ops[r]) = 1
      BY <1>0, <2>2, OnlyFirst DEF Initialized
    <3>2. /\ UNCHANGED <<ops, loaded, kept, noResume, batch, steps, params, stopping>>
          /\ OthersKeep(r) /\ where'[r] = "restore" /\ where[r] = "init"
      BY <1>a, <2>2 DEF Initialized, OthersKeep, TypeRun
    <3>3. At(S, r)'
      BY <2>a, <3>1, <3>2 DEF At, Collectives
    <3> QED
      BY <1>0, <3>2, <3>3, StandsStill
  <2>3. CASE RankRestore(r)
    BY <1>0, <2>3, JoinedRestore
  <2>4. CASE Wrapped(r)
    <3>1. where[r] = "wrap" /\ "wrap" \in Collectives /\ stopping[r] = FALSE
      BY <2>4, <2>a DEF Wrapped, At, Collectives
    <3>2. Len(ops[r]) >= 2 /\ S[Len(ops[r])] = Point("wrap", batch[r], steps[r])
          /\ S[Len(ops[r])].kind = "wrap"
      BY <2>d, <3>1
    <3>3. ~Wrapping
      BY <2>4, <2>a, <3>2, Lengths DEF Wrapped, Wrapping
    <3>4. /\ UNCHANGED <<ops, loaded, batch, steps, stopping>>
          /\ OthersKeep(r) /\ where'[r] = "batch"
      BY <1>a, <2>4 DEF Wrapped, OthersKeep, TypeRun
    <3>5. After(S, Len(ops[r])) = AfterBatch(batch[r], steps[r])
      BY <3>2, SuccParts DEF After
    <3>6. Coming(r)' = AfterBatch(batch[r], steps[r])
      BY <3>4 DEF Coming, AfterBatch
    <3> QED
      BY <1>0, <3>1, <3>2, <3>3, <3>4, <3>5, <3>6, GoesTo
  <2>5. ASSUME NEW finite \in BOOLEAN, Forward(r, finite) PROVE Joined'
    <3>1. where[r] = "batch" /\ batch[r] # RunBatches /\ stopping[r] = FALSE
      BY <2>5, <2>a, TheRanks DEF Forward, At
    <3>2. Bit(finite) \in Nat /\ Enter(r, "finite", Bit(finite)) /\ "finite" \in Collectives
      BY <2>5 DEF Bit, Forward, Collectives
    <3>3. where' = [where EXCEPT ![r] = "finite"]
      BY <3>2, EnteredType
    <3>4. UNCHANGED <<loaded, batch, steps, params, stopping>> /\ OthersKeep(r)
      BY <1>a, <2>5, <3>3 DEF Forward, OthersKeep, TypeRun
    <3>5. After(S, Len(ops[r])) = Point("finite", batch'[r], steps'[r])
      BY <2>c, <3>1, <3>4 DEF Coming, AfterBatch
    <3> QED
      BY <1>0, <2>a, <2>b, <2>c, <3>1, <3>2, <3>4, <3>5, EntersPoint
  <2>6. CASE Finite(r)
    <3>1. where[r] = "finite" /\ "finite" \in Collectives /\ stopping[r] = FALSE /\ "grads" \in Collectives
      BY <2>6, <2>a DEF Finite, At, Collectives
    <3>2. /\ S[Len(ops[r])] = Point("finite", batch[r], steps[r])
          /\ S[Len(ops[r])].kind = "finite" /\ Len(ops[r]) >= 2 /\ ~Wrapping
      BY <2>b, <2>d, <3>1
    <3>3. After(S, Len(ops[r])) = IF (batch[r] + 1) % GradAccum = 0 THEN Point("grads", batch[r], steps[r])
                                  ELSE AfterBatch(batch[r] + 1, steps[r])
      BY <3>2, SuccParts DEF After
    <3>4. CASE WindowEnds(r)
      <4>1. Enter(r, "grads", 0) /\ UNCHANGED <<loaded, batch, steps, params, stopping>>
        BY <2>6, <3>4 DEF Finite
      <4>2. where' = [where EXCEPT ![r] = "grads"]
        BY <3>1, <4>1, EnteredType
      <4>3. OthersKeep(r) /\ After(S, Len(ops[r])) = Point("grads", batch'[r], steps'[r])
        BY <1>a, <3>3, <3>4, <4>1, <4>2 DEF WindowEnds, OthersKeep, TypeRun
      <4> QED
        BY <1>0, <2>a, <3>1, <3>2, <4>1, <4>3, EntersPoint
    <3>5. CASE ~WindowEnds(r)
      <4>1. /\ UNCHANGED <<ops, loaded, steps, params, stopping>>
            /\ batch' = [batch EXCEPT ![r] = @ + 1] /\ where' = [where EXCEPT ![r] = "batch"]
        BY <2>6, <3>5 DEF Finite
      <4>2. OthersKeep(r) /\ batch'[r] = batch[r] + 1 /\ where'[r] = "batch"
        BY <1>a, <4>1 DEF OthersKeep, TypeRun
      <4>3. Coming(r)' = AfterBatch(batch[r] + 1, steps[r])
        BY <4>1, <4>2 DEF Coming, AfterBatch
      <4>4. After(S, Len(ops[r])) = AfterBatch(batch[r] + 1, steps[r])
        BY <3>3, <3>5 DEF WindowEnds
      <4> QED
        BY <1>0, <3>1, <3>2, <4>1, <4>2, <4>3, <4>4, GoesTo
    <3> QED
      BY <3>4, <3>5
  <2>7. CASE StepTogether(r)
    <3>1. where[r] = "grads" /\ "grads" \in Collectives /\ stopping[r] = FALSE /\ "mean" \in Collectives
      BY <2>7, <2>a DEF StepTogether, At, Collectives
    <3>2. /\ S[Len(ops[r])] = Point("grads", batch[r], steps[r])
          /\ S[Len(ops[r])].kind = "grads" /\ Len(ops[r]) >= 2 /\ ~Wrapping
      BY <2>b, <2>d, <3>1
    <3>3. After(S, Len(ops[r])) = IF (steps[r] + 1) % LogPeriod = 0 THEN Point("mean", batch[r], steps[r] + 1)
                                  ELSE AfterBatch(batch[r] + 1, steps[r] + 1)
      BY <3>2, SuccParts DEF After
    <3>6. UNCHANGED <<loaded, batch, stopping>> /\ steps' = [steps EXCEPT ![r] = @ + 1]
          /\ params' = [params EXCEPT ![r] = @ + 1]
      BY <2>7 DEF StepTogether
    <3>4. CASE (steps[r] + 1) % LogPeriod = 0
      <4>1. Enter(r, "mean", 0)
        BY <2>7, <3>4 DEF StepTogether
      <4>2. where' = [where EXCEPT ![r] = "mean"]
        BY <3>1, <4>1, EnteredType
      <4>3. OthersKeep(r) /\ steps'[r] = steps[r] + 1
        BY <1>a, <3>6, <4>2 DEF OthersKeep, TypeRun
      <4>4. After(S, Len(ops[r])) = Point("mean", batch'[r], steps'[r]) /\ steps'[r] \in Nat /\ batch'[r] \in Nat
            /\ stopping'[r] = FALSE
        BY <2>a, <3>1, <3>3, <3>4, <3>6, <4>3
      <4> QED
        BY <1>0, <3>2, <3>6, <4>1, <4>3, <4>4, EntersPoint
    <3>5. CASE ~((steps[r] + 1) % LogPeriod = 0)
      <4>1. UNCHANGED ops /\ where' = [where EXCEPT ![r] = "save"]
        BY <2>7, <3>5 DEF StepTogether
      <4>2. OthersKeep(r) /\ steps'[r] = steps[r] + 1 /\ where'[r] = "save" /\ stopping'[r] = FALSE
        BY <1>a, <3>1, <3>6, <4>1 DEF OthersKeep, TypeRun
      <4>3. Coming(r)' = AfterBatch(batch[r] + 1, steps[r] + 1)
        BY <3>6, <4>2 DEF Coming, AfterBatch
      <4>4. After(S, Len(ops[r])) = AfterBatch(batch[r] + 1, steps[r] + 1)
        BY <3>3, <3>5
      <4> QED
        BY <1>0, <3>2, <3>6, <4>1, <4>2, <4>3, <4>4, GoesTo
    <3> QED
      BY <3>4, <3>5
  <2>8. ASSUME where[r] = "mean", NEW v \in Nat, Enter(r, "flag", v), UNCHANGED <<loaded, batch, steps, params, stopping>>
        PROVE  Joined'
    <3>1. "mean" \in Collectives /\ stopping[r] = FALSE /\ "flag" \in Collectives
      BY <2>8, <2>a DEF At, Collectives
    <3>2. /\ S[Len(ops[r])] = Point("mean", batch[r], steps[r])
          /\ S[Len(ops[r])].kind = "mean" /\ Len(ops[r]) >= 2 /\ ~Wrapping
      BY <2>b, <2>d, <2>8, <3>1
    <3>3. where' = [where EXCEPT ![r] = "flag"]
      BY <2>8, <3>1, EnteredType
    <3>4. OthersKeep(r) /\ After(S, Len(ops[r])) = Point("flag", batch'[r], steps'[r])
      BY <1>a, <2>8, <3>2, <3>3, SuccParts DEF After, OthersKeep, TypeRun
    <3> QED
      BY <1>0, <2>a, <2>8, <3>1, <3>2, <3>4, EntersPoint
  <2>9. ASSUME r = 0, NEW improved \in BOOLEAN, NEW stopNow \in BOOLEAN, Track(improved, stopNow)
        PROVE  Joined'
    <3>1. Bit(stopNow) \in Nat
      BY DEF Bit
    <3>2. where[r] = "mean" /\ Enter(r, "flag", Bit(stopNow)) /\ UNCHANGED <<loaded, batch, steps, params, stopping>>
      BY <2>9 DEF Track
    <3> QED
      BY <2>8, <3>1, <3>2
  <2>10. CASE NoTrack(r)
    <3>1. where[r] = "mean" /\ Enter(r, "flag", 0) /\ UNCHANGED <<loaded, batch, steps, params, stopping>>
      BY <2>10 DEF NoTrack
    <3> QED
      BY <2>8, <3>1
  <2>11. CASE Flag(r)
    <3>1. where[r] = "flag" /\ "flag" \in Collectives /\ "flag" \in Broadcasts
      BY <2>11 DEF Flag, Collectives, Broadcasts
    <3>2. /\ S[Len(ops[r])] = Point("flag", batch[r], steps[r])
          /\ S[Len(ops[r])].kind = "flag" /\ Len(ops[r]) >= 2 /\ ~Wrapping
      BY <2>b, <2>d, <3>1
    <3>3. Len(ops[0]) >= Len(ops[r])
      BY <2>11, <3>1 DEF Flag, Arrived
    <3>4. /\ UNCHANGED <<ops, loaded, batch, steps, params>> /\ OthersKeep(r) /\ where'[r] = "save"
          /\ stopping'[r] = (FromRank0(r) = 1)
      BY <1>a, <2>11 DEF Flag, OthersKeep, TypeRun
    <3>5. After(S, Len(ops[r])) = IF FromRank0(r) = 1 THEN Point("share", batch[r] + 1, steps[r])
                                  ELSE AfterBatch(batch[r] + 1, steps[r])
      BY <3>2, SuccParts DEF After, FromRank0
    <3>6. Coming(r)' = IF FromRank0(r) = 1 THEN Point("share", batch[r] + 1, steps[r])
                       ELSE AfterBatch(batch[r] + 1, steps[r])
      BY <3>4 DEF Coming, AfterBatch
    <3>7. Len(ops[r]) <= Len(ops[0])
      BY <2>a, <3>3, <1>a, Lengths
    <3> QED
      BY <1>0, <3>2, <3>4, <3>5, <3>6, <3>7, GoesTo
  <2>12. CASE Save(r)
    <3>1. where[r] = "save" /\ ~Wrapping
      BY <2>12, <2>b DEF Save
    <3>2. /\ UNCHANGED <<ops, loaded, steps, params, stopping>> /\ OthersKeep(r)
          /\ batch'[r] = batch[r] + 1 /\ where'[r] = IF stopping[r] THEN "finish" ELSE "batch"
      BY <1>a, <2>12 DEF Save, OthersKeep, TypeRun
    <3>3. Coming(r) = IF stopping[r] THEN Point("share", batch[r] + 1, steps[r])
                      ELSE AfterBatch(batch[r] + 1, steps[r])
      BY <3>1 DEF Coming
    <3>4. Coming(r)' = Coming(r)
      <4>1. CASE stopping[r]
        <5>1. where'[r] = "finish"
          BY <3>2, <4>1
        <5> QED
          BY <3>2, <3>3, <4>1, <5>1 DEF Coming
      <4>2. CASE ~stopping[r]
        <5>1. where'[r] = "batch"
          BY <3>2, <4>2
        <5> QED
          BY <3>2, <3>3, <4>2, <5>1 DEF Coming, AfterBatch
      <4> QED
        BY <4>1, <4>2
    <3>5. where'[r] \in {"batch", "save", "finish"} /\ (where'[r] = "batch" => stopping'[r] = FALSE)
      <4>1. stopping[r] \in BOOLEAN
        BY <1>a DEF TypeRun
      <4> QED
        BY <3>2, <4>1
    <3> QED
      BY <1>0, <2>c, <3>1, <3>2, <3>4, <3>5, GoesTo
  <2>13. CASE LastBatch(r)
    <3>1. where[r] = "batch" /\ ~Wrapping /\ batch[r] = RunBatches
      BY <2>13, <2>b DEF LastBatch
    <3>2. /\ UNCHANGED <<ops, loaded, batch, steps, params, stopping>> /\ OthersKeep(r) /\ where'[r] = "finish"
      BY <1>a, <2>13 DEF LastBatch, OthersKeep, TypeRun
    <3>3. Coming(r) = Point("share", batch[r], steps[r])
      BY <3>1 DEF Coming, AfterBatch
    <3>4. Coming(r)' = Point("share", batch[r], steps[r])
      BY <3>2 DEF Coming
    <3> QED
      BY <1>0, <2>c, <3>1, <3>2, <3>3, <3>4, GoesTo
  <2>14. CASE Finish(r)
    <3>1. where[r] = "finish" /\ ~Wrapping /\ "share" \in Collectives
      BY <2>14, <2>b DEF Finish, Collectives
    <3>2. params'[r] \in Nat
      BY DEF TypeRanks, TypeRun
    <3>3. Enter(r, "share", params'[r])
      BY <2>14 DEF Finish
    <3>4. where' = [where EXCEPT ![r] = "share"]
      BY <3>1, <3>2, <3>3, EnteredType
    <3>5. UNCHANGED <<loaded, batch, steps, stopping>> /\ \A q \in Ranks : q # r => params'[q] = params[q]
      BY <1>a, <2>14 DEF Finish, TypeRun
    <3>6. OthersKeep(r)
      BY <1>a, <3>4, <3>5 DEF OthersKeep, TypeRun
    <3>7. After(S, Len(ops[r])) = Point("share", batch'[r], steps'[r])
      BY <2>c, <3>1, <3>5 DEF Coming
    <3> QED
      BY <1>0, <2>a, <2>c, <3>1, <3>2, <3>3, <3>5, <3>6, <3>7, EntersPoint
  <2>15. CASE Share(r)
    <3>1. where[r] = "share" /\ ~Wrapping /\ "share" \in Collectives
      BY <2>15, <2>b DEF Share, Collectives
    <3>2. S[Len(ops[r])].kind = "share" /\ Len(ops[r]) >= 2
      BY <2>d, <3>1
    <3>3. UNCHANGED <<ops, loaded, batch, steps, stopping>> /\ OthersKeep(r) /\ where'[r] = "export"
      BY <1>a, <2>15 DEF Share, OthersKeep, TypeRun
    <3>4. At(S, r)'
      BY <3>2, <3>3 DEF At, Collectives
    <3> QED
      BY <1>0, <3>1, <3>3, <3>4, GoesOn
  <2>16. CASE RankExport(r)
    <3>1. where[r] = "export" /\ ~Wrapping
      BY <2>16, <2>b DEF RankExport
    <3>2. S[Len(ops[r])].kind = "share" /\ Len(ops[r]) >= 2
      BY <2>a, <3>1 DEF At
    <3>3. UNCHANGED <<ops, loaded, batch, steps, params, stopping>> /\ OthersKeep(r) /\ where'[r] = "exited"
      BY <1>a, <2>16 DEF RankExport, OthersKeep, TypeRun
    <3>4. At(S, r)'
      BY <3>2, <3>3 DEF At, Collectives
    <3> QED
      BY <1>0, <3>1, <3>3, <3>4, GoesOn
  <2>17. CASE Breaks(r)
    <3>1. UNCHANGED <<kept, batch, steps, params, stopping, loaded, ops, noResume>>
          /\ where' = [where EXCEPT ![r] = where'[r]] /\ where'[r] \in Broken
      BY <2>17, BreaksOnly
    <3>2. OthersKeep(r) /\ where'[r] \notin {"batch", "save", "finish"}
      BY <1>a, <3>1 DEF OthersKeep, TypeRun, Broken
    <3>3. At(S, r)'
      BY <3>1 DEF At, Collectives, Broken
    <3> QED
      BY <1>0, <3>1, <3>2, <3>3, StandsStill
  <2> QED
    BY <1>1, <2>1, <2>2, <2>3, <2>4, <2>5, <2>6, <2>7, <2>9, <2>10, <2>11, <2>12, <2>13,
       <2>14, <2>15, <2>16, <2>17 DEF RankStep, PeerFailure, Breaks
<1>2. ASSUME UNCHANGED <<files, noResume, ranks>> PROVE Joined'
  <2>1. UNCHANGED <<kept, noResume, where, batch, steps, params, stopping, loaded, ops>>
    BY <1>2 DEF ranks
  <2>3. Script(S)' /\ SameAfter(S, S)
    BY <1>0, <2>1, SameScript
  <2>4. Source' = Source /\ Wrapping' = Wrapping
    BY <2>1 DEF Source, NewestKept, Wrapping
  <2>5. Resumed(S)'
    BY <1>0, <2>1, <2>4 DEF Resumed
  <2>6. ASSUME NEW q \in Ranks PROVE At(S, q)'
    BY <1>0, <2>1 DEF At, After, Coming, AfterBatch
  <2> QED
    BY <1>0, <2>3, <2>5, <2>6 DEF Joined
<1>3. JoinAll => UNCHANGED <<files, noResume, ranks>>
  BY DEF JoinAll
<1>4. UNCHANGED distributed => UNCHANGED <<files, noResume, ranks>>
  BY DEF distributed
<1> QED
  BY <1>1, <1>2, <1>3, <1>4 DEF RanksNext, Returned

----------------------------------------------------------------------------
(* The shape of a rank's step                                              *)

OpsGrow(r) ==
    /\ \A q \in Ranks : q # r => ops'[q] = ops[q]
    /\ \A q \in Ranks : Len(ops[q]) <= Len(ops'[q])
    /\ \A q \in Ranks : \A n \in 1 .. Len(ops[q]) : ops'[q][n] = ops[q][n]
Alone(r) == OthersKeep(r) /\ OpsGrow(r)

\* The last collective of r is of this kind and carries this value.
Latest(r, k, v) ==
    /\ Len(ops'[r]) = Len(ops[r]) + 1
    /\ ops'[r][Len(ops'[r])] = [kind |-> k, value |-> v]

LEMMA Staying ==
    ASSUME TypeRanks, NEW r \in Ranks, UNCHANGED ops
    PROVE  OpsGrow(r)
BY Lengths DEF OpsGrow

LEMMA Entering ==
    ASSUME TypeRanks, NEW r \in Ranks, NEW k \in Collectives, NEW v \in Nat, Enter(r, k, v)
    PROVE  OpsGrow(r) /\ Latest(r, k, v) /\ where' = [where EXCEPT ![r] = k] /\ where'[r] = k
<1>1. where' = [where EXCEPT ![r] = k] /\ Brings(r, k, v)
  BY EnteredType
<1>2. /\ Len(ops'[r]) = Len(ops[r]) + 1
      /\ ops'[r][Len(ops[r]) + 1] = [kind |-> k, value |-> v]
      /\ \A n \in 1 .. Len(ops[r]) : ops'[r][n] = ops[r][n]
      /\ \A q \in Ranks : q # r => ops'[q] = ops[q]
  BY <1>1, Appended, Zenon DEF Brings
<1>3. \A q \in Ranks : Len(ops[q]) <= Len(ops'[q])
  BY <1>2, Lengths
<1>4. \A q \in Ranks : \A n \in 1 .. Len(ops[q]) : ops'[q][n] = ops[q][n]
  BY <1>2, Zenon
<1>5. where'[r] = k
  BY <1>1 DEF TypeRanks, TypeRun
<1>6. OpsGrow(r)
  BY <1>2, <1>3, <1>4, Zenon DEF OpsGrow
<1>7. Latest(r, k, v)
  BY <1>2, Zenon DEF Latest
<1> QED
  BY <1>1, <1>5, <1>6, <1>7

\* A step of rank r changes nothing of the others, and takes nothing back.
RankMoves(r) == RankStep(r) \/ PeerFailure(r) \/ ProbeFails(r) \/ Fail(r) \/ Kill(r)
LEMMA StepShape ==
    ASSUME TypeRanks, TypeRanks', NEW r \in Ranks, RankMoves(r),
           where[r] = "restore" => Source \in Nat
    PROVE  Alone(r) /\ where[r] \notin Dead /\ outcome' = outcome
<1>a. TypeRun
  BY DEF TypeRanks
<1>b. {"init", "wrap", "finite", "grads", "mean", "flag", "share"} = Collectives
  BY DEF Collectives
<1> USE DEF Go, Others, files
<1>1. ASSUME Bootstrap(r) PROVE Alone(r) /\ where[r] \notin Dead /\ outcome' = outcome
  <2>1. OpsGrow(r) /\ where' = [where EXCEPT ![r] = "init"]
    BY <1>1, <1>b, Entering DEF Bootstrap
  <2> QED
    BY <1>a, <1>1, <2>1 DEF Bootstrap, Alone, OthersKeep, TypeRun, Dead
<1>2. ASSUME Initialized(r) PROVE Alone(r) /\ where[r] \notin Dead /\ outcome' = outcome
  BY <1>a, <1>2, Staying DEF Initialized, Alone, OthersKeep, TypeRun, Dead
<1>3. ASSUME RankRestore(r) PROVE Alone(r) /\ where[r] \notin Dead /\ outcome' = outcome
  <2>1. where[r] = "restore" /\ Enter(r, "wrap", Source) /\ outcome' = outcome
    BY <1>3 DEF RankRestore, Source
  <2>2. OpsGrow(r) /\ where' = [where EXCEPT ![r] = "wrap"]
    BY <1>b, <2>1, Entering
  <2>3. /\ steps' = [steps EXCEPT ![r] = Source] /\ batch' = [batch EXCEPT ![r] = Source * GradAccum]
        /\ params' = [params EXCEPT ![r] = Source] /\ UNCHANGED stopping
    BY <1>3 DEF RankRestore, Source
  <2> QED
    BY <1>a, <2>1, <2>2, <2>3 DEF Alone, OthersKeep, TypeRun, Dead
<1>4. ASSUME Wrapped(r) PROVE Alone(r) /\ where[r] \notin Dead /\ outcome' = outcome
  BY <1>a, <1>4, Staying DEF Wrapped, Alone, OthersKeep, TypeRun, Dead
<1>5. ASSUME NEW finite \in BOOLEAN, Forward(r, finite)
      PROVE  Alone(r) /\ where[r] \notin Dead /\ outcome' = outcome
  <2>0. Bit(finite) \in Nat /\ Enter(r, "finite", Bit(finite))
    BY <1>5 DEF Bit, Forward
  <2>1. OpsGrow(r) /\ where' = [where EXCEPT ![r] = "finite"]
    BY <1>b, <2>0, Entering
  <2> QED
    BY <1>a, <1>5, <2>1 DEF Forward, Alone, OthersKeep, TypeRun, Dead
<1>6. ASSUME Finite(r) PROVE Alone(r) /\ where[r] \notin Dead /\ outcome' = outcome
  <2>1. CASE WindowEnds(r)
    <3>1. OpsGrow(r) /\ where' = [where EXCEPT ![r] = "grads"]
      BY <1>6, <1>b, <2>1, Entering DEF Finite
    <3> QED
      BY <1>a, <1>6, <2>1, <3>1 DEF Finite, Alone, OthersKeep, TypeRun, Dead
  <2>2. CASE ~WindowEnds(r)
    BY <1>a, <1>6, <2>2, Staying DEF Finite, Alone, OthersKeep, TypeRun, Dead
  <2> QED
    BY <2>1, <2>2
<1>7. ASSUME StepTogether(r) PROVE Alone(r) /\ where[r] \notin Dead /\ outcome' = outcome
  <2>1. CASE (steps[r] + 1) % LogPeriod = 0
    <3>1. OpsGrow(r) /\ where' = [where EXCEPT ![r] = "mean"]
      BY <1>7, <1>b, <2>1, Entering DEF StepTogether
    <3> QED
      BY <1>a, <1>7, <3>1 DEF StepTogether, Alone, OthersKeep, TypeRun, Dead
  <2>2. CASE ~((steps[r] + 1) % LogPeriod = 0)
    <3>1. OpsGrow(r) /\ where' = [where EXCEPT ![r] = "save"]
      BY <1>7, <2>2, Staying DEF StepTogether
    <3> QED
      BY <1>a, <1>7, <3>1 DEF StepTogether, Alone, OthersKeep, TypeRun, Dead
  <2> QED
    BY <2>1, <2>2
<1>8. ASSUME r = 0, NEW improved \in BOOLEAN, NEW stopNow \in BOOLEAN, Track(improved, stopNow)
      PROVE  Alone(r) /\ where[r] \notin Dead /\ outcome' = outcome
  <2>0. Bit(stopNow) \in Nat /\ Enter(r, "flag", Bit(stopNow))
    BY <1>8 DEF Bit, Track
  <2>1. OpsGrow(r) /\ where' = [where EXCEPT ![r] = "flag"]
    BY <1>b, <2>0, Entering
  <2> QED
    BY <1>a, <1>8, <2>1 DEF Track, Alone, OthersKeep, TypeRun, Dead
<1>9. ASSUME NoTrack(r) PROVE Alone(r) /\ where[r] \notin Dead /\ outcome' = outcome
  <2>1. OpsGrow(r) /\ where' = [where EXCEPT ![r] = "flag"]
    BY <1>9, <1>b, Entering DEF NoTrack
  <2> QED
    BY <1>a, <1>9, <2>1 DEF NoTrack, Alone, OthersKeep, TypeRun, Dead
<1>10. ASSUME Flag(r) PROVE Alone(r) /\ where[r] \notin Dead /\ outcome' = outcome
  BY <1>a, <1>10, Staying DEF Flag, Alone, OthersKeep, TypeRun, Dead
<1>11. ASSUME Save(r) PROVE Alone(r) /\ where[r] \notin Dead /\ outcome' = outcome
  BY <1>a, <1>11, Staying DEF Save, Alone, OthersKeep, TypeRun, Dead
<1>12. ASSUME LastBatch(r) PROVE Alone(r) /\ where[r] \notin Dead /\ outcome' = outcome
  BY <1>a, <1>12, Staying DEF LastBatch, Alone, OthersKeep, TypeRun, Dead
<1>13. ASSUME Finish(r) PROVE Alone(r) /\ where[r] \notin Dead /\ outcome' = outcome
  <2>0. params'[r] \in Nat /\ Enter(r, "share", params'[r])
    BY <1>13 DEF Finish, TypeRanks, TypeRun
  <2>1. OpsGrow(r) /\ where' = [where EXCEPT ![r] = "share"]
    BY <1>b, <2>0, Entering
  <2>2. \A q \in Ranks : q # r => params'[q] = params[q]
    BY <1>a, <1>13 DEF Finish, TypeRun
  <2>3. UNCHANGED <<batch, steps, stopping, outcome>> /\ where[r] = "finish"
    BY <1>13 DEF Finish
  <2> QED
    BY <1>a, <2>1, <2>2, <2>3 DEF Alone, OthersKeep, TypeRun, Dead
<1>14. ASSUME Share(r) PROVE Alone(r) /\ where[r] \notin Dead /\ outcome' = outcome
  BY <1>a, <1>14, Staying DEF Share, Alone, OthersKeep, TypeRun, Dead
<1>15. ASSUME RankExport(r) PROVE Alone(r) /\ where[r] \notin Dead /\ outcome' = outcome
  BY <1>a, <1>15, Staying DEF RankExport, Alone, OthersKeep, TypeRun, Dead
<1>16. ASSUME Breaks(r) PROVE Alone(r) /\ where[r] \notin Dead /\ outcome' = outcome
  <2>1. UNCHANGED <<batch, steps, params, stopping, ops, outcome>>
        /\ where' = [where EXCEPT ![r] = where'[r]]
    BY <1>16, BreaksOnly
  <2>2. where[r] \notin Dead
    BY <1>16 DEF Breaks, ProbeFails, NotFinite, Fail, Kill, Teardown, PeerLost, Aborted, Stranded,
                 Collectives, Dead
  <2> QED
    BY <1>a, <2>1, <2>2, Staying DEF Alone, OthersKeep, TypeRun
<1> QED
  BY <1>1, <1>2, <1>3, <1>4, <1>5, <1>6, <1>7, <1>8, <1>9, <1>10, <1>11, <1>12, <1>13,
     <1>14, <1>15, <1>16 DEF RankMoves, RankStep, PeerFailure, Breaks

----------------------------------------------------------------------------
(* The weights                                                             *)

\* A rank that looks for a checkpoint finds one the others may have found.
LEMMA Looking ==
    ASSUME TypeRanks, Joined, NEW r \in Ranks, where[r] = "restore"
    PROVE  Source \in Nat
<1>1. PICK S \in Seq(Points) : Script(S) /\ Resumed(S) /\ \A q \in Ranks : At(S, q)
  BY DEF Joined
<1>2. Len(ops[r]) = 1
  BY <1>1 DEF At
<1>3. Len(ops[r]) < 2
  BY <1>2
<1>4. Wrapping
  BY <1>3 DEF Wrapping
<1> QED
  BY <1>1, <1>4, SourceIsNat DEF Resumed

\* A rank that was just wrapped took weights of rank 0 that are its own.
LEMMA WrappedAlike ==
    ASSUME TypeRanks, Joined, NEW r \in Ranks, where[r] = "wrap", Len(ops[0]) >= Len(ops[r])
    PROVE  FromRank0(r) = steps[r]
<1>1. PICK S \in Seq(Points) : Script(S) /\ Resumed(S) /\ \A q \in Ranks : At(S, q)
  BY DEF Joined
<1>2. "wrap" \in Collectives
  BY DEF Collectives
<1>n. PICK n : n = Len(ops[r])
  OBVIOUS
<1>3. /\ n \in Nat /\ n >= 1 /\ n <= Len(S) /\ Len(S) \in Nat
      /\ S[n] = Point("wrap", batch[r], steps[r]) /\ S[n].kind = "wrap"
  BY <1>1, <1>2, <1>n, InCollective
<1>4. n = 2
  BY <1>1, <1>3 DEF Script
<1>5. S[2].step = steps[r]
  BY <1>3, <1>4, PointParts
<1>6. 0 \in Ranks /\ Len(ops[0]) >= 2
  BY <1>4, <1>n, TheRanks
<1>7. ops[0][2].value = S[2].step
  BY <1>1, <1>6 DEF Resumed
<1> QED
  BY <1>4, <1>5, <1>7, <1>n DEF FromRank0

InTraining == {"wrap", "batch", "finite", "grads", "mean", "flag", "save", "finish"}
WeighedRank(r) ==
    /\ where[r] \in InTraining => params[r] = steps[r]
    /\ where[r] = "export" =>
          Len(ops[r]) <= Len(ops[0]) /\ params[r] = ops[0][Len(ops[r])].value

\* What is left of the others is as it was.
LEMMA WeighedOthers ==
    ASSUME TypeRanks, TypeRanks', Joined, Weighed, NEW r \in Ranks, Alone(r), WeighedRank(r)'
    PROVE  \A q \in Ranks : WeighedRank(q)'
<1>1. 0 \in Ranks /\ \A q \in Ranks : Len(ops[q]) \in Nat /\ Len(ops'[q]) \in Nat
  BY TheRanks, Lengths, LengthsThen
<1>0. PICK S \in Seq(Points) : \A q \in Ranks : At(S, q)
  BY DEF Joined
<1>2. ASSUME NEW q \in Ranks PROVE WeighedRank(q)'
  <2>1. CASE q # r
    <3>1. /\ where'[q] = where[q] /\ params'[q] = params[q] /\ steps'[q] = steps[q] /\ ops'[q] = ops[q]
          /\ Len(ops[0]) <= Len(ops'[0]) /\ \A n \in 1 .. Len(ops[0]) : ops'[0][n] = ops[0][n]
      BY <1>1, <2>1 DEF Alone, OthersKeep, OpsGrow
    <3>2. where[q] \in InTraining => params[q] = steps[q]
      BY DEF Weighed, InTraining
    <3>3. where[q] = "export" => Len(ops[q]) <= Len(ops[0]) /\ params[q] = ops[0][Len(ops[q])].value
      BY DEF Weighed
    <3>4. where[q] = "export" => Len(ops[q]) >= 1
      BY <1>0, <1>1 DEF At
    <3> QED
      BY <1>1, <3>1, <3>2, <3>3, <3>4 DEF WeighedRank
  <2> QED
    BY <2>1
<1> QED
  BY <1>2

\* What a step of rank r owes, when it does not reach the export as rank 0.
LEMMA WeighedBy ==
    ASSUME TypeRanks, TypeRanks', Joined, Weighed, NEW r \in Ranks, Alone(r), WeighedRank(r)',
           where[r] # "exited", exported' = exported,
           r = 0 => where'[0] \notin {"share", "export", "exited"},
           r # 0 => bestAt' \in {bestAt, 0}
    PROVE  Weighed'
<1>1. 0 \in Ranks /\ \A q \in Ranks : Len(ops[q]) \in Nat /\ Len(ops'[q]) \in Nat
  BY TheRanks, Lengths, LengthsThen
<1>2. \A q \in Ranks : WeighedRank(q)'
  BY WeighedOthers
<1>3. CASE r = 0
  <2>1. exported = 0
    BY <1>3 DEF Weighed
  <2> QED
    BY <1>2, <1>3, <2>1 DEF Weighed, WeighedRank, InTraining
<1>4. CASE r # 0
  <2>1. where'[0] = where[0] /\ params'[0] = params[0] /\ ops'[0] = ops[0]
    BY <1>1, <1>4 DEF Alone, OthersKeep, OpsGrow
  <2>2. /\ where[0] = "share" => ops[0][Len(ops[0])].value = params[0]
        /\ where[0] \in {"share", "export", "exited"} => bestAt = 0 \/ params[0] = bestAt
        /\ exported # 0 => where[0] = "exited"
        /\ where[0] = "exited" => exported = params[0]
    BY DEF Weighed
  <2>3. /\ (where[0] = "share" => ops[0][Len(ops[0])].value = params[0])'
        /\ (where[0] \in {"share", "export", "exited"} => bestAt = 0 \/ params[0] = bestAt)'
        /\ (exported # 0 => where[0] = "exited")'
        /\ (where[0] = "exited" => exported = params[0])'
    BY <1>4, <2>1, <2>2
  <2> QED
    BY <1>2, <2>3 DEF Weighed, WeighedRank, InTraining
<1> QED
  BY <1>3, <1>4

LEMMA WeighedStep ==
    ASSUME TypeRanks, TypeRanks', Joined, Weighed, [RanksNext]_distributed
    PROVE  Weighed'
<1>a. 0 \in Ranks /\ TypeRun
  BY TheRanks DEF TypeRanks
<1> USE DEF Go, Others, files
<1>1. ASSUME NEW r \in Ranks, RankMoves(r) PROVE Weighed'
  <2>a. Alone(r) /\ where[r] # "exited"
    BY <1>1, StepShape, Looking DEF Dead
  <2>b. where[r] \in InTraining => params[r] = steps[r]
    BY DEF Weighed, InTraining
  <2>c. ASSUME WeighedRank(r)', UNCHANGED <<exported, bestAt>>, where'[r] \notin {"share", "export", "exited"}
        PROVE  Weighed'
    BY <2>a, <2>c, WeighedBy
  <2>1. CASE Bootstrap(r)
    <3>1. where'[r] = "init"
      BY <1>a, <2>1 DEF Bootstrap, Enter, TypeRun
    <3> QED
      BY <2>1, <2>c, <3>1 DEF Bootstrap, WeighedRank, InTraining
  <2>2. CASE Initialized(r)
    <3>1. where'[r] = "restore"
      BY <1>a, <2>2 DEF Initialized, TypeRun
    <3> QED
      BY <2>2, <2>c, <3>1 DEF Initialized, WeighedRank, InTraining
  <2>3. CASE RankRestore(r)
    <3>1. where' = [where EXCEPT ![r] = "wrap"] /\ params' = [params EXCEPT ![r] = Source]
          /\ steps' = [steps EXCEPT ![r] = Source]
      BY <2>3 DEF RankRestore, Enter, Source
    <3>2. where'[r] = "wrap" /\ WeighedRank(r)'
      BY <1>a, <3>1 DEF TypeRun, WeighedRank
    <3>3. bestAt' \in {bestAt, 0} /\ exported' = exported
      BY <2>3 DEF RankRestore
    <3> QED
      BY <2>a, <3>2, <3>3, WeighedBy
  <2>4. CASE Wrapped(r)
    <3>1. where[r] = "wrap" /\ Len(ops[0]) >= Len(ops[r])
      BY <1>a, <2>4 DEF Wrapped
    <3>2. where'[r] = "batch" /\ params'[r] = FromRank0(r) /\ steps' = steps
      BY <1>a, <2>4 DEF Wrapped, TypeRun
    <3>3. WeighedRank(r)'
      BY <3>1, <3>2, WrappedAlike DEF WeighedRank
    <3> QED
      BY <2>4, <2>c, <3>2, <3>3 DEF Wrapped
  <2>5. ASSUME NEW finite \in BOOLEAN, Forward(r, finite) PROVE Weighed'
    <3>1. where'[r] = "finite" /\ where[r] = "batch"
      BY <1>a, <2>5 DEF Forward, Enter, TypeRun
    <3>2. params[r] = steps[r]
      BY <2>b, <3>1 DEF InTraining
    <3> QED
      BY <2>5, <2>c, <3>1, <3>2 DEF Forward, WeighedRank, InTraining
  <2>6. CASE Finite(r)
    <3>1. where'[r] \in {"grads", "batch"} /\ where[r] = "finite"
      BY <1>a, <2>6 DEF Finite, Enter, TypeRun
    <3>2. params[r] = steps[r]
      BY <2>b, <3>1 DEF InTraining
    <3> QED
      BY <2>6, <2>c, <3>1, <3>2 DEF Finite, WeighedRank, InTraining
  <2>7. CASE StepTogether(r)
    <3>1. where'[r] \in {"mean", "save"} /\ where[r] = "grads"
      BY <1>a, <2>7 DEF StepTogether, Enter, TypeRun
    <3>2. params[r] = steps[r]
      BY <2>b, <3>1 DEF InTraining
    <3>3. params'[r] = params[r] + 1 /\ steps'[r] = steps[r] + 1
      BY <1>a, <2>7 DEF StepTogether, TypeRun
    <3> QED
      BY <2>7, <2>c, <3>1, <3>2, <3>3 DEF StepTogether, WeighedRank, InTraining
  <2>8. ASSUME r = 0, NEW improved \in BOOLEAN, NEW stopNow \in BOOLEAN, Track(improved, stopNow)
        PROVE  Weighed'
    <3>1. where'[r] = "flag" /\ where[r] = "mean" /\ UNCHANGED <<exported, params, steps>>
      BY <1>a, <2>8 DEF Track, Enter, TypeRun
    <3>2. WeighedRank(r)'
      BY <2>b, <3>1 DEF WeighedRank, InTraining
    <3> QED
      BY <2>8, <2>a, <3>1, <3>2, WeighedBy
  <2>9. CASE NoTrack(r)
    <3>1. where'[r] = "flag" /\ where[r] = "mean"
      BY <1>a, <2>9 DEF NoTrack, Enter, TypeRun
    <3> QED
      BY <2>9, <2>b, <2>c, <3>1 DEF NoTrack, WeighedRank, InTraining
  <2>10. CASE Flag(r)
    <3>1. where'[r] = "save" /\ where[r] = "flag"
      BY <1>a, <2>10 DEF Flag, TypeRun
    <3> QED
      BY <2>10, <2>b, <2>c, <3>1 DEF Flag, WeighedRank, InTraining
  <2>11. CASE Save(r)
    <3>1. where'[r] \in {"finish", "batch"} /\ where[r] = "save"
      BY <1>a, <2>11 DEF Save, TypeRun
    <3> QED
      BY <2>11, <2>b, <2>c, <3>1 DEF Save, WeighedRank, InTraining
  <2>12. CASE LastBatch(r)
    <3>1. where'[r] = "finish" /\ where[r] = "batch"
      BY <1>a, <2>12 DEF LastBatch, TypeRun
    <3> QED
      BY <2>12, <2>b, <2>c, <3>1 DEF LastBatch, WeighedRank, InTraining
  <2>13. CASE Finish(r)
    <3>1. params'[r] \in Nat /\ Enter(r, "share", params'[r]) /\ "share" \in Collectives
      BY <2>13 DEF Finish, TypeRanks, TypeRun, Collectives
    <3>2. where'[r] = "share" /\ Latest(r, "share", params'[r])
      BY <3>1, Entering
    <3>3. WeighedRank(r)' /\ UNCHANGED <<exported, bestAt>>
      BY <2>13, <3>2 DEF Finish, WeighedRank, InTraining
    <3>4. CASE r # 0
      BY <2>a, <3>3, <3>4, WeighedBy
    <3>5. CASE r = 0
      <4>1. ops'[0][Len(ops'[0])].value = params'[0]
        BY <3>2, <3>5 DEF Latest
      <4>2. bestAt' = 0 \/ params'[0] = bestAt'
        BY <1>a, <2>13, <3>5 DEF Finish, TypeRun
      <4>3. exported' = 0 /\ where'[0] = "share"
        BY <2>13, <3>2, <3>5 DEF Finish, Weighed
      <4>4. ASSUME NEW q \in Ranks PROVE WeighedRank(q)'
        BY <2>a, <3>3, <3>5, <4>4, WeighedOthers
      <4> QED
        BY <4>1, <4>2, <4>3, <4>4 DEF Weighed, WeighedRank, InTraining
    <3> QED
      BY <3>4, <3>5
  <2>14. CASE Share(r)
    <3>1. where[r] = "share" /\ where'[r] = "export" /\ Len(ops[0]) >= Len(ops[r]) /\ params'[r] = FromRank0(r)
          /\ UNCHANGED <<ops, exported, bestAt>>
      BY <1>a, <2>14 DEF Share, Arrived, Broadcasts, TypeRun
    <3>2. Len(ops[0]) \in Nat /\ Len(ops[r]) \in Nat
      BY <1>a, Lengths
    <3>3. WeighedRank(r)'
      BY <3>1, <3>2 DEF WeighedRank, FromRank0, InTraining
    <3>4. CASE r # 0
      BY <2>a, <3>1, <3>3, <3>4, WeighedBy
    <3>5. CASE r = 0
      <4>1. params'[0] = params[0] /\ (bestAt = 0 \/ params[0] = bestAt) /\ exported = 0
        BY <3>1, <3>5 DEF Weighed, FromRank0
      <4>2. ASSUME NEW q \in Ranks PROVE WeighedRank(q)'
        BY <2>a, <3>3, <3>5, <4>2, WeighedOthers
      <4> QED
        BY <3>1, <3>5, <4>1, <4>2 DEF Weighed, WeighedRank, InTraining
    <3> QED
      BY <3>4, <3>5
  <2>15. CASE RankExport(r)
    <3>1. where[r] = "export" /\ where'[r] = "exited" /\ UNCHANGED <<ops, bestAt, params>>
      BY <1>a, <2>15 DEF RankExport, TypeRun
    <3>2. WeighedRank(r)'
      BY <3>1 DEF WeighedRank, InTraining
    <3>3. CASE r # 0
      <4>1. exported' = exported
        BY <2>15, <3>3 DEF RankExport
      <4> QED
        BY <2>a, <3>1, <3>2, <3>3, <4>1, WeighedBy
    <3>4. CASE r = 0
      <4>1. exported' = params[0] /\ (bestAt = 0 \/ params[0] = bestAt)
        BY <2>15, <3>1, <3>4 DEF RankExport, Weighed
      <4>2. ASSUME NEW q \in Ranks PROVE WeighedRank(q)'
        BY <2>a, <3>2, <3>4, <4>2, WeighedOthers
      <4> QED
        BY <3>1, <3>4, <4>1, <4>2 DEF Weighed, WeighedRank, InTraining
    <3> QED
      BY <3>3, <3>4
  <2>16. CASE Breaks(r)
    <3>1. where'[r] \in Broken /\ UNCHANGED <<exported, bestAt>>
      BY <2>16, BreaksOnly
    <3> QED
      BY <2>c, <3>1 DEF Broken, WeighedRank, InTraining
  <2> QED
    BY <1>1, <2>1, <2>2, <2>3, <2>4, <2>5, <2>6, <2>7, <2>8, <2>9, <2>10, <2>11, <2>12, <2>13,
       <2>14, <2>15, <2>16 DEF RankMoves, RankStep, PeerFailure, Breaks
<1>2. ASSUME UNCHANGED <<files, ranks>> PROVE Weighed'
  BY <1>2 DEF ranks, Weighed
<1>3. JoinAll => UNCHANGED <<files, ranks>>
  BY DEF JoinAll
<1>4. UNCHANGED distributed => UNCHANGED <<files, ranks>>
  BY DEF distributed
<1> QED
  BY <1>1, <1>2, <1>3, <1>4 DEF RanksNext, Returned, RankMoves

----------------------------------------------------------------------------
(* Who failed                                                              *)

LEMMA TheErrors ==
    ASSUME TypeRanks
    PROVE  Errors \subseteq Nat /\ \A n \in Errors : results[n][2] \in Ranks /\ results[n] = <<"err", results[n][2]>>
BY DEF TypeRanks, TypeReport, Messages, Errors

\* A message more: the errors so far stay, and what is new is the last.
LEMMA Reported ==
    ASSUME TypeRanks, NEW k \in {"ok", "err"}, NEW r \in Ranks, results' = Append(results, <<k, r>>)
    PROVE  /\ \A n \in Errors : n \in Errors' /\ results'[n] = results[n] /\ n < Len(results')
           /\ \A n \in Errors' : n \in Errors \/ (k = "err" /\ n = Len(results'))
           /\ k = "err" => Len(results') \in Errors' /\ results'[Len(results')] = <<"err", r>>
<1>1. results \in Seq(Messages) /\ <<k, r>> \in Messages
  BY DEF TypeRanks, TypeReport, Messages
<1>2. /\ Len(results') = Len(results) + 1 /\ Len(results) \in Nat
      /\ results'[Len(results')] = <<k, r>>
      /\ \A n \in 1 .. Len(results) : results'[n] = results[n]
      /\ DOMAIN results' = 1 .. Len(results') /\ DOMAIN results = 1 .. Len(results)
  BY <1>1
<1> QED
  BY <1>2 DEF Errors

\* Blame lasts.
LEMMA BlameLasts ==
    ASSUME TypeRanks, TypeRanks', NEW r \in Ranks, Alone(r), where[r] # "killed", culprits \subseteq culprits'
    PROVE  /\ Silent => Silent'
           /\ \A x \in Ranks : Blamed(x) => Blamed(x)'
<1>1. culprits \subseteq Ranks
  BY DEF TypeRanks, TypeReport
<1>2. Silent => Silent'
  BY <1>1 DEF Silent, Alone, OthersKeep
<1>3. ASSUME NEW x \in Ranks, Victim(x) PROVE Victim(x)'
  <2>1. PICK n \in DOMAIN ops[x], q \in Ranks :
           ops[x][n].kind = "finite" /\ n \in DOMAIN ops[q] /\ ops[q][n].value = 0
    BY <1>3 DEF Victim
  <2>2. n \in 1 .. Len(ops[x]) /\ n \in 1 .. Len(ops[q])
    BY <2>1, Lengths
  <2>3. ops'[x][n] = ops[x][n] /\ ops'[q][n] = ops[q][n]
    BY <2>2 DEF Alone, OpsGrow
  <2>4. n \in 1 .. Len(ops'[x]) /\ n \in 1 .. Len(ops'[q])
    BY <2>2, Lengths, LengthsThen DEF Alone, OpsGrow
  <2>5. n \in DOMAIN ops'[x] /\ n \in DOMAIN ops'[q]
    BY <2>4, LengthsThen
  <2> QED
    BY <2>1, <2>3, <2>5 DEF Victim
<1> QED
  BY <1>2, <1>3 DEF Blamed

Doomed(r) == where[r] = "finite" /\ ops[r][Len(ops[r])].value = 0

\* A step of a healthy rank that stays healthy, though its loss may not be.
LEMMA ToldPlain ==
    ASSUME TypeRanks, TypeRanks', Joined, Told, NEW r \in Ranks, Alone(r),
           where[r] \notin Broken, ~Doomed(r), where'[r] \notin Broken,
           culprits' = culprits \/ (culprits' = culprits \cup {r} /\ Doomed(r)'),
           \A n \in Errors : n \in Errors' /\ results'[n] = results[n], Errors' \subseteq Errors,
           \A n \in 1 .. Len(ops'[r]) :
              n \in 1 .. Len(ops[r]) \/ ops'[r][n].kind # "finite" \/ ops'[r][n].value # 0 \/ r \in culprits'
    PROVE  Told'
<1>0. culprits \subseteq Ranks /\ Errors' = Errors /\ \A n \in Errors : results[n][2] \in Ranks
  BY TheErrors DEF TypeRanks, TypeReport
<1>1. r \notin culprits
  BY DEF Told, Doomed
<1>2. \A q \in Ranks : q # r => where'[q] = where[q] /\ ops'[q] = ops[q]
  BY DEF Alone, OthersKeep, OpsGrow
<1>3. where[r] # "killed" /\ where[r] \notin {"teardown", "failed"} /\ where'[r] \notin {"teardown", "failed", "killed"}
  BY DEF Broken
<1>4. /\ Silent => Silent'
      /\ \A x \in Ranks : Blamed(x) => Blamed(x)'
  BY <1>3, BlameLasts
<1>5. \A q \in culprits' : where'[q] \in Broken \/ Doomed(q)'
  BY <1>0, <1>1, <1>2 DEF Told, Doomed
<1>6. \A q \in Ranks : \A n \in 1 .. Len(ops'[q]) :
         ops'[q][n].kind = "finite" /\ ops'[q][n].value = 0 => q \in culprits'
  <2>1. ASSUME NEW q \in Ranks, NEW n \in 1 .. Len(ops'[q]), ops'[q][n].kind = "finite", ops'[q][n].value = 0
        PROVE  q \in culprits'
    <3>1. CASE q = r
      BY <2>1, <3>1 DEF Told, Alone, OpsGrow
    <3>2. CASE q # r
      BY <1>2, <2>1, <3>2 DEF Told
    <3> QED
      BY <3>1, <3>2
  <2> QED
    BY <2>1
<1>7. \A q \in Ranks : where'[q] \in Broken => culprits' # {}
  BY <1>2 DEF Told
<1>8. \A q \in Ranks : where'[q] \in {"teardown", "failed"} => \E n \in Errors' : results'[n][2] = q
  BY <1>0, <1>2, <1>3 DEF Told
<1>9. \A n \in Errors' : where'[results'[n][2]] \in Broken
  BY <1>0, <1>2 DEF Told
<1>10. \A n \in Errors' : Blamed(results[n][2])' \/ \E m \in Errors' : m < n
  <2>1. ASSUME NEW n \in Errors', ~(\E m \in Errors' : m < n) PROVE Blamed(results[n][2])'
    <3>1. PICK x : x = results[n][2]
      OBVIOUS
    <3>2. n \in Errors /\ x \in Ranks /\ Blamed(x)
      BY <1>0, <2>1, <3>1 DEF Told
    <3>3. Blamed(x)' /\ x = results'[n][2]
      BY <1>0, <1>4, <3>1, <3>2
    <3> QED
      BY <3>3 DEF Blamed, Victim, Silent
  <2> QED
    BY <2>1
<1>11. Errors' = {} /\ (\E q \in Ranks : where'[q] = "killed") => Silent'
  BY <1>0, <1>2, <1>3, <1>4 DEF Told
<1> QED
  BY <1>5, <1>6, <1>7, <1>8, <1>9, <1>10, <1>11 DEF Told, Doomed

\* A rank loses a peer only to a failure: who has exited was in the last
\* collective of all.
LEMMA LostTo ==
    ASSUME TypeRanks, Joined, Told, NEW r \in Ranks, Stranded(r)
    PROVE  culprits # {} /\ (Errors = {} => Silent)
<1>1. PICK q \in Ranks : where[q] \in Dead /\ Len(ops[q]) < Len(ops[r])
  BY DEF Stranded
<1>2. PICK S \in Seq(Points) : Script(S) /\ \A p \in Ranks : At(S, p)
  BY DEF Joined
<1>3. where[q] # "exited"
  <2>1. SUFFICES ASSUME where[q] = "exited" PROVE FALSE
    OBVIOUS
  <2>n. PICK n, m, t : n = Len(ops[q]) /\ m = Len(ops[r]) /\ t = Len(S)
    OBVIOUS
  <2>2. n \in Nat /\ m \in Nat /\ t \in Nat /\ n < m /\ m <= t /\ n >= 2 /\ S[n].kind = "share"
    BY <1>1, <1>2, <2>1, <2>n, Lengths DEF Script, At
  <2>3. n \in 2 .. t /\ n < t
    BY <2>2
  <2> QED
    BY <1>2, <2>2, <2>3, <2>n DEF Script
<1>4. where[q] \in Broken /\ where[q] \in {"failed", "killed"}
  BY <1>1, <1>3 DEF Dead, Broken
<1> QED
  BY <1>4 DEF Told

\* A step that breaks rank r.
LEMMA ToldBreaks ==
    ASSUME TypeRanks, TypeRanks', Told, NEW r \in Ranks, Alone(r), ops' = ops,
           where[r] \notin Dead, where'[r] \in Broken,
           culprits' \in {culprits, culprits \cup {r}}, culprits' # {},
           \/ results' = results /\ where'[r] = "killed" /\ (Errors = {} => Silent')
           \/ results' = Append(results, <<"err", r>>) /\ (Errors = {} => Blamed(r)')
           \/ results' = results /\ where[r] = "teardown" /\ where'[r] = "failed"
    PROVE  Told'
<1>0. culprits \subseteq Ranks /\ culprits \subseteq culprits' /\ \A n \in Errors : results[n][2] \in Ranks
  BY TheErrors DEF TypeRanks, TypeReport
<1>2. \A q \in Ranks : q # r => where'[q] = where[q]
  BY DEF Alone, OthersKeep
<1>4. /\ Silent => Silent'
      /\ \A x \in Ranks : Blamed(x) => Blamed(x)'
  BY <1>0, BlameLasts DEF Dead
<1>n. PICK l : l = Len(results')
  OBVIOUS
<1>5. /\ \A n \in Errors : n \in Errors' /\ results'[n] = results[n]
      /\ \A n \in Errors' : n \in Errors \/ (results'[n] = <<"err", r>> /\ n = l)
      /\ results' = results \/ (l \in Errors' /\ results'[l] = <<"err", r>> /\ \A n \in Errors : n < l)
      /\ results' = results \/ (Errors = {} => Blamed(r)')
  <2>1. CASE results' = results
    BY <2>1 DEF Errors
  <2>2. CASE results' = Append(results, <<"err", r>>) /\ (Errors = {} => Blamed(r)')
    BY <1>n, <2>2, Reported
  <2> QED
    BY <2>1, <2>2
<1>6. \A q \in culprits' : where'[q] \in Broken \/ Doomed(q)'
  BY <1>0, <1>2 DEF Told, Doomed
<1>7. \A q \in Ranks : \A n \in 1 .. Len(ops'[q]) :
         ops'[q][n].kind = "finite" /\ ops'[q][n].value = 0 => q \in culprits'
  BY <1>0 DEF Told
<1>8. \A q \in Ranks : where'[q] \in {"teardown", "failed"} => \E n \in Errors' : results'[n][2] = q
  <2>1. ASSUME NEW q \in Ranks, where[q] \in {"teardown", "failed"} PROVE \E n \in Errors' : results'[n][2] = q
    BY <1>5, <2>1 DEF Told
  <2>2. ASSUME where'[r] \in {"teardown", "failed"} PROVE \E n \in Errors' : results'[n][2] = r
    <3>1. CASE where[r] = "teardown"
      BY <2>1, <3>1
    <3>2. CASE results' # results
      BY <1>5, <3>2
    <3> QED
      BY <2>2, <3>1, <3>2
  <2> QED
    BY <1>2, <2>1, <2>2
<1>9. \A n \in Errors' : where'[results'[n][2]] \in Broken
  BY <1>0, <1>2, <1>5 DEF Told
<1>10. \A n \in Errors' : Blamed(results[n][2])' \/ \E m \in Errors' : m < n
  <2>1. ASSUME NEW n \in Errors', ~(\E m \in Errors' : m < n) PROVE Blamed(results[n][2])'
    <3>1. CASE n \in Errors
      <4>1. PICK x : x = results[n][2]
        OBVIOUS
      <4>2. x \in Ranks /\ Blamed(x)
        BY <1>0, <1>5, <2>1, <3>1, <4>1 DEF Told
      <4>3. Blamed(x)' /\ x = results'[n][2]
        BY <1>4, <1>5, <3>1, <4>1, <4>2
      <4> QED
        BY <4>3 DEF Blamed, Victim, Silent
    <3>2. CASE n \notin Errors
      <4>1. n = l /\ results'[n][2] = r /\ Errors = {} /\ results' # results
        BY <1>5, <2>1, <3>2 DEF Errors
      <4>2. Blamed(r)'
        BY <1>5, <4>1
      <4> QED
        BY <4>1, <4>2 DEF Blamed, Victim, Silent
    <3> QED
      BY <3>1, <3>2
  <2> QED
    BY <2>1
<1>11. Errors' = {} /\ (\E q \in Ranks : where'[q] = "killed") => Silent'
  <2>1. SUFFICES ASSUME Errors' = {}, NEW q \in Ranks, where'[q] = "killed" PROVE Silent'
    OBVIOUS
  <2>2. Errors = {} /\ results' = results
    BY <1>5, <2>1
  <2>3. CASE q = r
    BY <2>1, <2>2, <2>3, <1>5
  <2>4. CASE q # r
    BY <1>2, <1>4, <2>1, <2>2, <2>4 DEF Told
  <2> QED
    BY <2>3, <2>4
<1> QED
  BY <1>6, <1>7, <1>8, <1>9, <1>10, <1>11 DEF Told, Doomed

LEMMA ToldStep ==
    ASSUME TypeRanks, TypeRanks', Joined, Told, [RanksNext]_distributed
    PROVE  Told'
<1>a. 0 \in Ranks /\ TypeRun /\ {"init", "wrap", "finite", "grads", "mean", "flag", "share"} = Collectives
  BY TheRanks DEF TypeRanks, Collectives
<1> USE DEF Go, Others, files
<1>1. ASSUME NEW r \in Ranks, RankMoves(r) PROVE Told'
  <2>a. Alone(r) /\ where[r] \notin Dead
    BY <1>1, StepShape, Looking
  <2>b. ASSUME where[r] \notin {"finite", "teardown"}, where'[r] \notin Broken, UNCHANGED <<ops, culprits, results>>
        PROVE  Told'
    <3>1. where[r] \notin Broken /\ ~Doomed(r)
      BY <2>a, <2>b DEF Broken, Dead, Doomed
    <3> QED
      BY <2>a, <2>b, <3>1, ToldPlain DEF Errors
  <2>c. ASSUME where[r] \notin Broken, ~Doomed(r), NEW k \in Collectives \ {"finite"}, NEW v \in Nat, Enter(r, k, v),
               UNCHANGED <<culprits, results>>
        PROVE  Told'
    <3>1. where'[r] = k /\ Latest(r, k, v)
      BY <2>c, Entering
    <3>2. \A n \in 1 .. Len(ops'[r]) : n \in 1 .. Len(ops[r]) \/ ops'[r][n].kind # "finite"
      BY <3>1, Lengths, LengthsThen DEF Latest
    <3>3. where'[r] \notin Broken
      BY <2>c, <3>1 DEF Broken, Collectives
    <3> QED
      BY <2>a, <2>c, <3>2, <3>3, ToldPlain DEF Errors
  <2>1. CASE Bootstrap(r)
    BY <1>a, <2>1, <2>c DEF Bootstrap, Broken, Doomed
  <2>2. CASE Initialized(r)
    <3>1. where'[r] = "restore" /\ where[r] = "init"
      BY <1>a, <2>2 DEF Initialized, TypeRun
    <3> QED
      BY <2>2, <2>b, <3>1 DEF Initialized, Broken
  <2>3. CASE RankRestore(r)
    <3>1. where[r] = "restore" /\ Enter(r, "wrap", Source) /\ UNCHANGED <<culprits, results>>
      BY <2>3 DEF RankRestore, Source
    <3>2. Source \in Nat
      BY <3>1, Looking
    <3> QED
      BY <1>a, <2>c, <3>1, <3>2 DEF Broken, Doomed
  <2>4. CASE Wrapped(r)
    <3>1. where'[r] = "batch" /\ where[r] = "wrap"
      BY <1>a, <2>4 DEF Wrapped, TypeRun
    <3> QED
      BY <2>4, <2>b, <3>1 DEF Wrapped, Broken
  <2>5. ASSUME NEW finite \in BOOLEAN, Forward(r, finite) PROVE Told'
    <3>1. where[r] = "batch" /\ Bit(finite) \in Nat /\ Enter(r, "finite", Bit(finite))
      BY <2>5 DEF Forward, Bit
    <3>2. where'[r] = "finite" /\ Latest(r, "finite", Bit(finite))
      BY <1>a, <3>1, Entering
    <3>3. \A n \in 1 .. Len(ops'[r]) : n \in 1 .. Len(ops[r]) \/ ops'[r][n].value = Bit(finite)
      BY <3>2, Lengths, LengthsThen DEF Latest
    <3>4. Doomed(r)' <=> ~finite
      BY <3>2 DEF Doomed, Latest, Bit
    <3>5. culprits' = IF finite THEN culprits ELSE culprits \cup {r}
      BY <2>5 DEF Forward
    <3>6. \A n \in 1 .. Len(ops'[r]) :
             n \in 1 .. Len(ops[r]) \/ ops'[r][n].kind # "finite" \/ ops'[r][n].value # 0 \/ r \in culprits'
      BY <3>3, <3>5 DEF Bit
    <3>7. where[r] \notin Broken /\ ~Doomed(r) /\ where'[r] \notin Broken
      BY <3>1, <3>2 DEF Broken, Doomed
    <3>8. Errors' = Errors /\ results' = results
      BY <2>5 DEF Forward, Errors
    <3> QED
      BY <2>a, <3>4, <3>5, <3>6, <3>7, <3>8, ToldPlain
  <2>6. CASE Finite(r)
    <3>1. where[r] = "finite" /\ 0 \notin Values(r) /\ UNCHANGED <<culprits, results>>
      BY <2>6 DEF Finite
    <3>2. ~Doomed(r) /\ where[r] \notin Broken
      BY <3>1 DEF Doomed, Values, Broken
    <3>3. CASE WindowEnds(r)
      BY <1>a, <2>6, <2>c, <3>1, <3>2, <3>3 DEF Finite
    <3>4. CASE ~WindowEnds(r)
      <4>1. where'[r] = "batch" /\ UNCHANGED ops
        BY <1>a, <2>6, <3>4 DEF Finite, TypeRun
      <4> QED
        BY <2>a, <3>1, <3>2, <4>1, ToldPlain DEF Errors, Broken
    <3> QED
      BY <3>3, <3>4
  <2>7. CASE StepTogether(r)
    <3>1. where[r] = "grads" /\ UNCHANGED <<culprits, results>>
      BY <2>7 DEF StepTogether
    <3>2. where[r] \notin Broken /\ ~Doomed(r)
      BY <3>1 DEF Broken, Doomed
    <3>3. CASE (steps[r] + 1) % LogPeriod = 0
      BY <1>a, <2>7, <2>c, <3>1, <3>2, <3>3 DEF StepTogether
    <3>4. CASE ~((steps[r] + 1) % LogPeriod = 0)
      <4>1. where'[r] = "save" /\ UNCHANGED ops
        BY <1>a, <2>7, <3>4 DEF StepTogether, TypeRun
      <4> QED
        BY <2>b, <3>1, <4>1 DEF Broken
    <3> QED
      BY <3>3, <3>4
  <2>8. ASSUME r = 0, NEW improved \in BOOLEAN, NEW stopNow \in BOOLEAN, Track(improved, stopNow)
        PROVE  Told'
    <3>1. Bit(stopNow) \in Nat /\ where[r] = "mean" /\ Enter(r, "flag", Bit(stopNow)) /\ UNCHANGED <<culprits, results>>
      BY <2>8 DEF Track, Bit
    <3> QED
      BY <1>a, <2>c, <3>1 DEF Broken, Doomed
  <2>9. CASE NoTrack(r)
    BY <1>a, <2>9, <2>c DEF NoTrack, Broken, Doomed
  <2>10. CASE Flag(r)
    <3>1. where'[r] = "save" /\ where[r] = "flag"
      BY <1>a, <2>10 DEF Flag, TypeRun
    <3> QED
      BY <2>10, <2>b, <3>1 DEF Flag, Broken
  <2>11. CASE Save(r)
    <3>1. where'[r] \in {"finish", "batch"} /\ where[r] = "save"
      BY <1>a, <2>11 DEF Save, TypeRun
    <3> QED
      BY <2>11, <2>b, <3>1 DEF Save, Broken
  <2>12. CASE LastBatch(r)
    <3>1. where'[r] = "finish" /\ where[r] = "batch"
      BY <1>a, <2>12 DEF LastBatch, TypeRun
    <3> QED
      BY <2>12, <2>b, <3>1 DEF LastBatch, Broken
  <2>13. CASE Finish(r)
    <3>1. params'[r] \in Nat /\ where[r] = "finish" /\ Enter(r, "share", params'[r]) /\ UNCHANGED <<culprits, results>>
      BY <2>13 DEF Finish, TypeRanks, TypeRun
    <3> QED
      BY <1>a, <2>c, <3>1 DEF Broken, Doomed
  <2>14. CASE Share(r)
    <3>1. where'[r] = "export" /\ where[r] = "share"
      BY <1>a, <2>14 DEF Share, TypeRun
    <3> QED
      BY <2>14, <2>b, <3>1 DEF Share, Broken
  <2>15. CASE RankExport(r)
    <3>1. where'[r] = "exited" /\ where[r] = "export" /\ UNCHANGED <<ops, culprits>>
      BY <1>a, <2>15 DEF RankExport, TypeRun
    <3>2. CASE r # 0
      BY <2>15, <2>b, <3>1, <3>2 DEF RankExport, Broken
    <3>3. CASE r = 0
      <4>1. results' = Append(results, <<"ok", r>>)
        BY <2>15, <3>3 DEF RankExport
      <4>2. /\ \A n \in Errors : n \in Errors' /\ results'[n] = results[n]
            /\ Errors' \subseteq Errors
        BY <4>1, Reported
      <4>3. where[r] \notin Broken /\ ~Doomed(r) /\ where'[r] \notin Broken
        BY <3>1 DEF Broken, Doomed
      <4> QED
        BY <2>a, <3>1, <4>2, <4>3, ToldPlain
    <3> QED
      BY <3>2, <3>3
  <2>16. CASE Breaks(r)
    <3>1. /\ UNCHANGED ops /\ where'[r] \in Broken /\ where' = [where EXCEPT ![r] = where'[r]]
          /\ culprits' \in {culprits, culprits \cup {r}}
      BY <2>16, BreaksOnly
    <3>2. culprits' # {}
          /\ \/ results' = results /\ where'[r] = "killed" /\ (Errors = {} => Silent')
             \/ results' = Append(results, <<"err", r>>) /\ (Errors = {} => Blamed(r)')
             \/ results' = results /\ where[r] = "teardown" /\ where'[r] = "failed"
      <4>1. CASE ProbeFails(r) \/ Fail(r)
        BY <4>1 DEF ProbeFails, Fail, RankRaises, Blamed
      <4>2. CASE Kill(r)
        <5>1. where'[r] = "killed" /\ results' = results /\ r \in culprits'
          BY <1>a, <4>2 DEF Kill, TypeRun
        <5> QED
          BY <5>1 DEF Silent
      <4>3. CASE NotFinite(r)
        <5>1. where[r] = "finite" /\ Arrived(r) /\ 0 \in Values(r) /\ results' = Append(results, <<"err", r>>)
              /\ culprits' = culprits
          BY <4>3 DEF NotFinite, RankRaises
        <5>n. PICK n : n = Len(ops[r])
          OBVIOUS
        <5>2. PICK q \in Ranks : ops[q][n].value = 0
          BY <5>1, <5>n DEF Values
        <5>3. /\ Len(ops[q]) >= n /\ ops[q][n].kind = "finite"
              /\ ops[r][n].kind = "finite"
          BY <5>1, <5>n DEF Arrived, Broadcasts
        <5>4. n \in Nat /\ n >= 1 /\ n \in 1 .. Len(ops[q]) /\ n \in 1 .. Len(ops[r])
          <6>1. n >= 1
            BY <5>1, <5>n, <1>a DEF Joined, At
          <6> QED
            BY <5>3, <5>n, <6>1, Lengths
        <5>5. q \in culprits
          BY <5>2, <5>3, <5>4 DEF Told
        <5>6. n \in DOMAIN ops[q] /\ n \in DOMAIN ops[r]
          BY <5>4, Lengths
        <5>7. Victim(r)'
          BY <3>1, <5>2, <5>3, <5>6 DEF Victim
        <5> QED
          BY <5>1, <5>5, <5>7 DEF Blamed
      <4>4. CASE PeerLost(r)
        <5>1. Stranded(r) /\ results' = Append(results, <<"err", r>>) /\ culprits' = culprits
          BY <4>4 DEF PeerLost, RankRaises
        <5>2. culprits # {} /\ (Errors = {} => Silent)
          BY <5>1, LostTo
        <5>3. Silent => Silent'
          BY <2>a, <5>1, BlameLasts DEF Dead
        <5> QED
          BY <5>1, <5>2, <5>3 DEF Blamed
      <4>5. CASE Aborted(r)
        <5>1. Stranded(r) /\ results' = results /\ culprits' = culprits /\ where'[r] = "killed"
          BY <1>a, <4>5 DEF Aborted, TypeRun
        <5>2. culprits # {} /\ (Errors = {} => Silent)
          BY <5>1, LostTo
        <5>3. Silent => Silent'
          BY <2>a, <5>1, BlameLasts DEF Dead
        <5> QED
          BY <5>1, <5>2, <5>3
      <4>6. CASE Teardown(r)
        <5>1. where[r] = "teardown" /\ where'[r] = "failed" /\ results' = results /\ culprits' = culprits
          BY <1>a, <4>6 DEF Teardown, TypeRun
        <5>2. culprits # {}
          BY <5>1 DEF Told, Broken
        <5> QED
          BY <5>1, <5>2
      <4> QED
        BY <2>16, <4>1, <4>2, <4>3, <4>4, <4>5, <4>6 DEF Breaks
    <3> QED
      BY <2>a, <3>1, <3>2, ToldBreaks
  <2> QED
    BY <1>1, <2>1, <2>2, <2>3, <2>4, <2>5, <2>6, <2>7, <2>8, <2>9, <2>10, <2>11, <2>12, <2>13,
       <2>14, <2>15, <2>16 DEF RankMoves, RankStep, PeerFailure, Breaks
<1>2. ASSUME UNCHANGED <<ranks, results, culprits>> PROVE Told'
  BY <1>2 DEF ranks, Told, Errors, Blamed, Silent, Victim
<1>3. JoinAll => UNCHANGED <<ranks, results, culprits>>
  BY DEF JoinAll
<1>4. UNCHANGED distributed => UNCHANGED <<ranks, results, culprits>>
  BY DEF distributed
<1> QED
  BY <1>1, <1>2, <1>3, <1>4 DEF RanksNext, Returned, RankMoves

----------------------------------------------------------------------------
(* The parent, and the invariant as a whole                                *)

LEMMA JudgedStep ==
    ASSUME TypeRanks, TypeRanks', Joined, Told, Judged, [RanksNext]_distributed
    PROVE  Judged'
<1>1. ASSUME NEW r \in Ranks, RankMoves(r) PROVE Judged'
  <2>1. where[r] \notin Dead /\ outcome' = outcome
    BY <1>1, StepShape, Looking
  <2>2. outcome' = <<"running">>
    BY <2>1 DEF Judged, Ended
  <2>3. outcome'[1] = "running"
    BY <2>2
  <2> QED
    BY <2>2, <2>3 DEF Judged, Ended
<1>2. CASE JoinAll
  <2>1. UNCHANGED <<where, ops, culprits>> /\ \A r \in Ranks : where[r] \in Dead
    BY <1>2 DEF JoinAll, ranks
  <2>2. \A x \in Ranks : Blamed(x) => Blamed(x)'
    BY <2>1 DEF Blamed, Victim, Silent
  <2>3. ASSUME NEW x \in Ranks, outcome' = <<"err", x>>, Blamed(x), culprits # {} PROVE Judged'
    <3>1. outcome'[1] = "err" /\ outcome'[2] = x
      BY <2>3
    <3>2. Blamed(x)'
      BY <2>2, <2>3
    <3>3. Blamed(outcome[2])'
      BY <3>1, <3>2 DEF Blamed, Victim, Silent
    <3> QED
      BY <2>1, <2>3, <3>1, <3>3 DEF Judged
  <2>4. CASE Errors # {}
    <3>1. FirstError \in Errors /\ \A m \in Errors : FirstError <= m
      <4>1. \E n \in Errors : \A m \in Errors : n <= m
        BY <2>4, TheErrors, LeastNumber
      <4> QED
        BY <4>1 DEF FirstError
    <3>2. PICK n \in Errors : n = FirstError /\ \A m \in Errors : n <= m
      BY <3>1
    <3>3. PICK x \in Ranks : x = results[n][2] /\ results[n] = <<"err", x>>
      BY <3>2, TheErrors
    <3>4. outcome' = <<"err", x>>
      BY <1>2, <2>4, <3>2, <3>3 DEF JoinAll
    <3>5. ~(\E m \in Errors : m < n)
      BY <3>2, TheErrors
    <3>6. Blamed(x) /\ where[x] \in Broken
      BY <3>2, <3>3, <3>5 DEF Told
    <3> QED
      BY <2>3, <3>4, <3>6 DEF Told
  <2>5. CASE Errors = {} /\ Failed # {}
    <3>1. \E r \in Failed : \A q \in Failed : r <= q
      <4>1. Failed \subseteq Nat
        BY TheRanks DEF Failed
      <4> QED
        BY <2>5, <4>1, LeastNumber
    <3>2. PICK x : x = CHOOSE r \in Failed : \A q \in Failed : r <= q
      OBVIOUS
    <3>3. x \in Ranks /\ where[x] \in {"failed", "killed"}
      BY <3>1, <3>2 DEF Failed
    <3>4. outcome' = <<"err", x>>
      BY <1>2, <2>5, <3>2 DEF JoinAll
    <3>5. where[x] # "failed"
      BY <2>5, <3>3 DEF Told
    <3>6. Silent /\ culprits # {}
      BY <2>5, <3>3, <3>5 DEF Told, Broken
    <3> QED
      BY <2>3, <3>3, <3>4, <3>6 DEF Blamed
  <2>6. CASE Errors = {} /\ Failed = {}
    <3>1. outcome' = <<"ok", 0>>
      BY <1>2, <2>6 DEF JoinAll
    <3>2. \A r \in Ranks : where[r] = "exited"
      BY <2>1, <2>6 DEF Failed, Dead
    <3>3. culprits = {}
      <4>1. culprits \subseteq Ranks
        BY DEF TypeRanks, TypeReport
      <4> QED
        BY <3>2, <4>1 DEF Told, Broken
    <3>4. outcome'[1] = "ok"
      BY <3>1
    <3> QED
      BY <2>1, <3>1, <3>2, <3>3, <3>4 DEF Judged
  <2> QED
    BY <2>4, <2>5, <2>6
<1>3. CASE UNCHANGED distributed
  BY <1>3 DEF distributed, ranks, Judged, Ended, Blamed, Victim, Silent
<1> QED
  BY <1>1, <1>2, <1>3 DEF RanksNext, Returned, RankMoves

LEMMA RanksStart == RanksInit => Abreast
<1> SUFFICES ASSUME RanksInit PROVE Abreast
  OBVIOUS
<1>a. 0 \in Ranks /\ RunSteps \subseteq Nat
  BY TheRanks DEF RunSteps
<1>b. \A r \in Ranks : ops[r] = <<>> /\ where[r] = "spawn" /\ Len(ops[r]) = 0
  BY DEF RanksInit
<1>c. Errors = {} /\ culprits = {} /\ outcome = <<"running">>
  BY DEF RanksInit, Errors
<1>1. TypeRanks
  <2>1. TypeFiles
    <3>1. kept \subseteq Nat /\ bestAt \in 0 .. NewestKept /\ exported = 0 /\ noResume \in BOOLEAN
      BY <1>a DEF RanksInit
    <3>2. bestAt \in Nat
      BY <3>1
    <3> QED
      BY <3>1, <3>2 DEF TypeFiles
  <2>2. TypeRun
    BY DEF RanksInit, TypeRun, Places
  <2>3. TypeOps
    BY DEF RanksInit, TypeOps
  <2>4. TypeReport
    BY DEF RanksInit, TypeReport
  <2> QED
    BY <2>1, <2>2, <2>3, <2>4 DEF TypeRanks
<1>2. Joined
  <2>1. PICK S : S = <<>>
    OBVIOUS
  <2>2. S \in Seq(Points) /\ Len(S) = 0
    BY <2>1
  <2>3. Script(S)
    BY <1>b, <2>2 DEF Script
  <2>4. Resumed(S)
    <3>1. \A r \in Ranks : ~(Len(ops[r]) >= 2)
      BY <1>b
    <3>2. kept = {} \/ \E s \in kept : \A t \in kept : t <= s
      <4>1. MaxStep \in Nat /\ kept \in SUBSET (0 .. MaxStep)
        BY TheRanks DEF RanksInit, RunSteps, MaxStep
      <4> QED
        BY <4>1, NewestExists
    <3>3. Len(S) <= 2 /\ Len(S) # 2
      BY <2>2
    <3> QED
      BY <1>b, <3>1, <3>2, <3>3 DEF Resumed
  <2>5. ASSUME NEW r \in Ranks PROVE At(S, r)
    BY <1>b, <2>5 DEF At, RanksInit, Collectives
  <2> QED
    BY <2>2, <2>3, <2>4, <2>5 DEF Joined
<1>3. Weighed
  BY <1>a, <1>b DEF RanksInit, Weighed
<1>4. Told
  BY <1>b, <1>c DEF Told, Broken
<1>5. Judged
  <2>1. outcome[1] = "running"
    BY <1>c
  <2> QED
    BY <1>c, <2>1 DEF Judged, Ended
<1> QED
  BY <1>1, <1>2, <1>3, <1>4, <1>5 DEF Abreast

\* Every rank is at its place in one script of collectives, from the
\* checkpoint all of them found, with the weights of its steps; and the
\* messages tell who failed: for every number of ranks, batches, windows and
\* failures.
THEOREM RanksAbreast == RanksSpec => []Abreast
<1>1. Abreast /\ [RanksNext]_distributed => Abreast'
  <2> SUFFICES ASSUME Abreast, [RanksNext]_distributed PROVE Abreast'
    OBVIOUS
  <2>1. TypeRanks'
    BY TypeRanksStep DEF Abreast
  <2>2. Joined'
    BY <2>1, JoinedStep DEF Abreast
  <2>3. Weighed'
    BY <2>1, WeighedStep DEF Abreast
  <2>4. Told'
    BY <2>1, ToldStep DEF Abreast
  <2>5. Judged'
    BY <2>1, JudgedStep DEF Abreast
  <2> QED
    BY <2>1, <2>2, <2>3, <2>4, <2>5 DEF Abreast
<1> QED
  BY <1>1, RanksStart, PTL DEF RanksSpec

LEMMA AbreastLockstep == Abreast => Lockstep
<1> SUFFICES ASSUME Abreast PROVE Lockstep
  OBVIOUS
<1>1. PICK S : Script(S)
  BY DEF Abreast, Joined
<1>2. \A r \in Ranks : DOMAIN ops[r] = 1 .. Len(ops[r])
  BY Lengths DEF Abreast
<1>3. \A r \in Ranks : \A n \in 1 .. Len(ops[r]) : ops[r][n].kind = S[n].kind
  BY <1>1 DEF Script
<1> QED
  BY <1>2, <1>3 DEF Lockstep

LEMMA AbreastRestored == Abreast => RestoredTogether
<1> SUFFICES ASSUME Abreast PROVE RestoredTogether
  OBVIOUS
<1>1. PICK S : Resumed(S)
  BY DEF Abreast, Joined
<1> QED
  BY <1>1 DEF Resumed, RestoredTogether

\* Two ranks at the same place in the script are at the same batch and step.
LEMMA SamePlace ==
    ASSUME TypeRanks, NEW S, NEW r \in Ranks, NEW q \in Ranks, At(S, r), At(S, q),
           Len(ops[r]) = Len(ops[q]), where[r] = where[q],
           where[r] \in {"init", "batch", "save", "finish", "finite", "grads", "mean", "flag"}
    PROVE  batch[r] = batch[q] /\ steps[r] = steps[q]
<1>1. /\ batch[r] \in Nat /\ batch[q] \in Nat /\ steps[r] \in Nat /\ steps[q] \in Nat
  BY DEF TypeRanks, TypeRun
<1>n. PICK n : n = Len(ops[r]) /\ n = Len(ops[q])
  OBVIOUS
<1>2. CASE where[r] \in Collectives
  <2>1. S[n] = Point(where[r], batch[r], steps[r]) /\ S[n] = Point(where[r], batch[q], steps[q])
    BY <1>2, <1>n DEF At
  <2>2. S[n].at = batch[r] /\ S[n].step = steps[r]
    BY <2>1 DEF Point
  <2>3. S[n].at = batch[q] /\ S[n].step = steps[q]
    BY <2>1 DEF Point
  <2> QED
    BY <2>2, <2>3
<1>3. CASE where[r] \in {"batch", "save", "finish"}
  <2>1. Coming(r) = After(S, n) /\ Coming(q) = After(S, n)
    BY <1>3, <1>n DEF At
  <2>2. ASSUME NEW p \in Ranks, p \in {r, q}
        PROVE  Coming(p).step = steps[p] /\ Coming(p).at = IF where[r] = "save" THEN batch[p] + 1 ELSE batch[p]
    <3>1. where[p] = where[r] /\ batch[p] \in Nat /\ steps[p] \in Nat /\ batch[p] + 1 \in Nat
      BY <1>1, <2>2
    <3>2. CASE where[r] = "batch"
      BY <3>1, <3>2, AfterBatchParts DEF Coming
    <3>3. CASE where[r] = "finish"
      BY <3>1, <3>3, PointParts DEF Coming
    <3>4. CASE where[r] = "save"
      <4>1. Coming(p) \in {Point("share", batch[p] + 1, steps[p]), AfterBatch(batch[p] + 1, steps[p])}
        BY <3>1, <3>4 DEF Coming
      <4> QED
        BY <3>1, <3>4, <4>1, AfterBatchParts, PointParts
    <3> QED
      BY <1>3, <3>2, <3>3, <3>4
  <2> QED
    BY <1>1, <2>1, <2>2
<1> QED
  BY <1>2, <1>3 DEF Collectives

LEMMA AbreastReplicas == Abreast => Replicas
<1> SUFFICES ASSUME Abreast PROVE Replicas
  OBVIOUS
<1>0. PICK S : \A r \in Ranks : At(S, r)
  BY DEF Abreast, Joined
<1>1. ASSUME NEW r \in Ranks, NEW q \in Ranks, ops[r] # <<>>, Len(ops[r]) = Len(ops[q]), where[r] = where[q],
             where[r] \notin {"restore", "wrap", "share"} \cup Dead \cup {"teardown"}
      PROVE  params[r] = params[q] /\ (where[r] # "export" => batch[r] = batch[q] /\ steps[r] = steps[q])
  <2>1. where[r] # "spawn"
    BY <1>0, <1>1 DEF At, Abreast, TypeRanks, TypeOps
  <2>2. where[r] \in {"init", "batch", "save", "finish", "finite", "grads", "mean", "flag", "export"}
    BY <1>1, <2>1 DEF Abreast, TypeRanks, TypeRun, Places, Collectives, Dead
  <2>3. CASE where[r] = "export"
    <3>1. params[r] = ops[0][Len(ops[r])].value /\ params[q] = ops[0][Len(ops[q])].value
      BY <1>1, <2>3 DEF Abreast, Weighed
    <3> QED
      BY <1>1, <2>3, <3>1
  <2>4. CASE where[r] # "export"
    <3>1. batch[r] = batch[q] /\ steps[r] = steps[q]
      BY <1>0, <1>1, <2>2, <2>4, SamePlace DEF Abreast
    <3>2. CASE where[r] = "init"
      BY <1>0, <1>1, <3>1, <3>2 DEF At
    <3>3. CASE where[r] # "init"
      <4>1. params[r] = steps[r] /\ params[q] = steps[q]
        BY <1>1, <2>2, <2>4, <3>3 DEF Abreast, Weighed
      <4> QED
        BY <3>1, <4>1
    <3> QED
      BY <3>1, <3>2, <3>3
  <2> QED
    BY <2>3, <2>4
<1>2. exported # 0 => exported = bestAt \/ bestAt = 0
  BY DEF Abreast, Weighed
<1> QED
  BY <1>1, <1>2 DEF Replicas

LEMMA AbreastTruth == Abreast => ParentTruth
<1> SUFFICES ASSUME Abreast PROVE ParentTruth
  OBVIOUS
<1>0. 0 \in Ranks /\ culprits \subseteq Ranks
  BY TheRanks DEF Abreast, TypeRanks, TypeReport
<1>1. ASSUME outcome = <<"ok", 0>>
      PROVE  culprits = {} /\ exported = params[0] /\ \A r \in Ranks : where[r] = "exited"
  <2>1. outcome[1] = "ok"
    BY <1>1
  <2> QED
    BY <1>0, <2>1 DEF Abreast, Judged, Weighed
<1>2. outcome[1] = "err" => culprits # {}
  BY DEF Abreast, Judged
<1>3. ASSUME outcome[1] = "err", \A r \in culprits : where[r] # "killed"
      PROVE  outcome[2] \in culprits \/ Victim(outcome[2])
  BY <1>3 DEF Abreast, Judged, Blamed, Silent
<1> QED
  BY <1>1, <1>2, <1>3 DEF ParentTruth, Victim

\* The ranks pair their collectives kind by kind, resume from one checkpoint
\* and stay replicas; the parent blames no victim, and reports success only
\* when every rank returned: for every number of ranks and of failures.
THEOREM RanksAlwaysAgree == RanksSpec => []RanksAgree
<1>1. Abreast => RanksAgree
  BY AbreastLockstep, AbreastRestored, AbreastReplicas, AbreastTruth DEF RanksAgree
<1> QED
  BY <1>1, RanksAbreast, PTL

==============================================================================
