-------------------------- MODULE Preparation_proofs --------------------------
(***************************************************************************)
(* Proofs about Preparation, for any corpus, ladder of slices, chunk size, *)
(* engine, number of signals, shards, layers, windows and options, and any *)
(* failures: a split hands out every prompt once, a sidecar strays from    *)
(* what it stands for only if a checkpoint did that strayed from the rows, *)
(* a checkpoint does not run ahead of the device where that takes an       *)
(* fsync, and a covariance that was assembled is whole.                    *)
(***************************************************************************)
EXTENDS Preparation, SetSums_proofs, SequenceTheorems

----------------------------------------------------------------------------
(* The inductive invariant                                                 *)

Stats == [held: [1..Rows -> Nat], behind: BOOLEAN, ahead: BOOLEAN]
Checkpoints == [at: Nat, stat: Stats]
Sidecars == [there: BOOLEAN, stat: Stats]

\* What a forward pass over the prompts of S leaves in the statistic of s.
Heard(s, S) == IF s \in silent THEN {} ELSE S

\* The prompts of slice k that get a row, and the lines of its files.
Answers(k) == {i \in 1..Size(k) : IsForced(k, i) \/ Answered(k, i)}
Lines(k) == {Row(k, i) : i \in Answers(k)} \cup {Torn}
Files(k) == [tmp: Seq(Lines(k)), synced: Nat, out: Seq(Lines(k)),
             ckpt: [1..Signals -> Checkpoints], side: [1..Signals -> Sidecars]]
Processes(k) ==
    [pc: {"down", "failed", "chunk", "write", "ckpt", "publish", "done"},
     next: 1..(Size(k) + 1), forced: SUBSET Answers(k), asked: SUBSET (1..Size(k)),
     sig: 1..Signals, acc: [1..Signals -> Stats]]
Alive(g) == g.pc \in {"chunk", "write", "ckpt", "publish"}

\* A file that has each row once; the rows a process has yet to write.
OnceEach(lines) == /\ Torn \notin ToSet(lines)
                   /\ \A i, j \in 1..Len(lines) : lines[i] = lines[j] => i = j
Has(lines, k, i) == Row(k, i) \in ToSet(lines)
Due(k, g) == g.forced \cup {i \in g.asked : Answered(k, i)} \cup {i \in Answers(k) : i >= g.next}

\* A file that repeats no row and has none that is due will lack none.
Covering(k, t, g) ==
    /\ Alive(g) /\ OnceEach(t.tmp) /\ (\A i \in Due(k, g) : ~Has(t.tmp, k, i))
          => \A i \in Answers(k) : Has(t.tmp, k, i) \/ i \in Due(k, g)
    /\ g.pc # "write" => g.forced = {} /\ g.asked = {}
    /\ \A i \in g.asked : i < g.next /\ ~IsForced(k, i)
    /\ g.pc = "publish" => g.next > Size(k)
    /\ g.pc = "done" /\ OnceEach(t.out) => \A i \in Answers(k) : Has(t.out, k, i)

\* The prompts among 1..n of slice k that the model is asked, as it numbers them.
Given(k, I) == {ladder[k] + i : i \in I} \ Forced
\* What the signal s is to hold of slice k in the end.
Whole(k, s) == Heard(s, Given(k, 1..Size(k)))
\* vLLM: every prompt has one line, the statistics hold the prompts so far.
Counting(k, t, g) ==
    engine = "vllm" /\ Alive(g) =>
       /\ Torn \notin ToSet(t.tmp)
       /\ Len(t.tmp) + Cardinality(g.forced) + Cardinality(g.asked) = g.next - 1
       /\ \A s \in 1..Signals :
             Stands(g.acc[s], Heard(s, Given(k, (1..(g.next - 1)) \ g.asked)), Whole(k, s))
Kept(k, t) ==
    engine = "vllm" =>
       \A s \in 1..Signals : t.ckpt[s].at > 0 =>
           Stands(t.ckpt[s].stat, Heard(s, Given(k, 1..t.ckpt[s].at)), Whole(k, s))
Dumped(k, t) ==
    \A s \in 1..Signals : t.side[s].there =>
        Stands(t.side[s].stat, Whole(k, s), Whole(k, s))
\* While checkpoints are saved, the whole file is on the device, if it takes an
\* fsync.
Synced(t, g) == g.pc = "ckpt" => engine = "vllm" /\ (syncs => t.synced = Len(t.tmp))

SliceSound(k, t, g) ==
    /\ t \in Files(k) /\ g \in Processes(k)
    /\ Covering(k, t, g) /\ Counting(k, t, g) /\ Kept(k, t) /\ Dumped(k, t) /\ Synced(t, g)
Generating ==
    /\ engine \in Engines /\ ladder \in Ladders /\ syncs \in BOOLEAN
    /\ DOMAIN trace = Slices /\ DOMAIN gen = Slices
    /\ \A k \in Slices : SliceSound(k, trace[k], gen[k])

\* The corpus.
ToAnswer == IF engine = "hf" THEN (1..Rows) \ (Unanswered \ Forced) ELSE 1..Rows
AllLines == [key: Nat, prompt: Nat]
Prompts(rows) == {r.prompt : r \in ToSet(rows)}
CorpusOf(rows) ==
    /\ rows \in Seq(AllLines)
    /\ Distinct(rows) =>
          /\ Prompts(rows) = ToAnswer
          /\ \A i, j \in 1..Len(rows) : rows[i].prompt = rows[j].prompt => i = j
CorpusSound == CorpusOf(corpus)

\* What a split hands out.
DealtOut(parts, rows) ==
    /\ IsFiniteSet(DOMAIN parts)
    /\ \A k \in DOMAIN parts : parts[k] \in Seq(1..Rows)
    /\ \A k \in DOMAIN parts : \A i, j \in 1..Len(parts[k]) : parts[k][i] = parts[k][j] => i = j
    /\ \A k, l \in DOMAIN parts : k # l => ToSet(parts[k]) \cap ToSet(parts[l]) = {}
    /\ UNION {ToSet(parts[k]) : k \in DOMAIN parts} = Prompts(rows)

\* The replay.
Seen(k, m) == Fits({shards[k][i] : i \in 1..m})
All(k, s) == Heard(s, Seen(k, Len(shards[k])))
Stores(k) == [rows: 0..Len(shards[k]), captured: Nat,
              ckpt: [1..Signals -> Checkpoints], side: [1..Signals -> Sidecars]]
Replayers(k) ==
    [pc: {"chunk", "ckpt", "mark", "dump", "unlink", "done", "failed"},
     next: 1..(Len(shards[k]) + 1), captured: Nat, seen: SUBSET (1..Rows),
     sig: 1..Signals, acc: [1..Signals -> Stats]]
Holding(k, s, a, m) ==
    /\ s \in silent => a.held = Nothing
    /\ Stands(a, Heard(s, Seen(k, m)), All(k, s))
CheckpointSound(k, s, c) ==
    /\ s \in silent => c.stat.held = Nothing
    /\ c.at > 0 =>
          \E m \in 0..Len(shards[k]) : /\ c.at = Cardinality(Seen(k, m))
                                       /\ Stands(c.stat, Heard(s, Seen(k, m)), All(k, s))
SidecarSound(k, s, d) ==
    d.there => s \notin silent /\ Holding(k, s, d.stat, Len(shards[k]))
StoreSound(k, t) ==
    /\ t \in Stores(k) /\ t.captured = Cardinality(Seen(k, t.rows))
    /\ \A s \in 1..Signals : CheckpointSound(k, s, t.ckpt[s]) /\ SidecarSound(k, s, t.side[s])
ReplayerSound(k, p) ==
    /\ p \in Replayers(k)
    /\ p.pc \notin {"done", "failed"} =>
          /\ p.captured = Cardinality(Seen(k, p.next - 1))
          /\ \A s \in 1..Signals : Holding(k, s, p.acc[s], p.next - 1)
    /\ p.pc \in {"dump", "unlink"} =>
          p.next = Len(shards[k]) + 1 /\ \A s \in 1..Signals : s \notin silent
Captured ==
    /\ SplitHasEveryPrompt /\ DealtOut(shards, corpus)
    /\ DOMAIN store = Shards /\ DOMAIN rep = Shards
    /\ \A k \in Shards : StoreSound(k, store[k]) /\ ReplayerSound(k, rep[k])
Replays ==
    /\ stage \in {"corpus", "replay", "merged"} => CorpusSound
    /\ stage \in {"replay", "merged"} => Captured
    /\ stage = "merged" =>
          \A s \in 1..Signals :
              Stands(merged[s].stat, Fits(Prompts(corpus)), Fits(Prompts(corpus)))

\* The covariance.
Prints == {{}} \cup {{f} : f \in Fingerprints}
PartSets == SUBSET Parts
TypeOffload ==
    /\ meta \in Prints /\ staged \in [Parts -> Prints] /\ covariance \in [Parts -> Prints]
    /\ leftover \in PartSets
    /\ offload \in [pc: {"down", "wipe", "window", "shards", "done"}, options: Prints,
                    size: Nat, low: Nat \ {0}, todo: PartSets, scanned: PartSets]

\* A staged shard belongs to its fingerprint, and to the one in _meta.pt if
\* there is one: a removal that was interrupted takes that first or leaves it.
\* Shards that a removal could not delete are apart.
Staging ==
    \A p \in Parts \ leftover : \A f \in Fingerprints : staged[p] = {f} =>
        p \in PartsOf(f, 1..Layers) /\ meta \in {{}, {f}}

\* A process writes under its own fingerprint, and every window it has left is
\* staged.
Windowed ==
    offload.pc \in {"window", "shards"} =>
        /\ offload.size \in Windows /\ offload.options # {} /\ meta = offload.options
        /\ offload.scanned \subseteq Present(staged)
        /\ \A p \in PartsOf(Options, 1..Layers) \ leftover :
              p[1] < offload.low => staged[p] = offload.options
        /\ offload.pc = "shards" =>
              /\ offload.todo \subseteq PartsOf(Options, Window)
              /\ \A p \in (PartsOf(Options, Window) \ offload.todo) \ leftover :
                    staged[p] = offload.options
Chosen ==
    /\ offload.pc \in {"wipe", "done"} => offload.options # {}
    /\ offload.pc = "wipe" => offload.size \in Windows /\ offload.low = 1 /\ offload.scanned = {}
Assembling == TypeOffload /\ Staging /\ Windowed /\ Chosen /\ CovarianceWhole

IInv == Generating /\ Replays /\ Assembling

----------------------------------------------------------------------------
(* Sequences, slices, statistics                                           *)

\* What is in a sequence, in one with a last element more, and in a prefix.
LEMMA Elements ==
    ASSUME NEW S, NEW s \in Seq(S)
    PROVE  /\ Len(s) \in Nat /\ DOMAIN s = 1 .. Len(s) /\ ToSet(s) \subseteq S
           /\ ToSet(s) = {s[i] : i \in 1 .. Len(s)}
           /\ s = <<>> <=> Len(s) = 0
BY DEF ToSet

LEMMA OneMore ==
    ASSUME NEW S, NEW s \in Seq(S), NEW x \in S
    PROVE  /\ Append(s, x) \in Seq(S) /\ Len(Append(s, x)) = Len(s) + 1
           /\ \A i \in 1 .. Len(s) : Append(s, x)[i] = s[i]
           /\ Append(s, x)[Len(s) + 1] = x
           /\ ToSet(Append(s, x)) = ToSet(s) \cup {x}
<1>1. /\ Append(s, x) \in Seq(S) /\ Len(Append(s, x)) = Len(s) + 1 /\ Len(s) \in Nat
      /\ \A i \in 1 .. Len(s) : Append(s, x)[i] = s[i]
      /\ Append(s, x)[Len(s) + 1] = x
  OBVIOUS
<1>2. /\ ToSet(s) = {s[i] : i \in 1 .. Len(s)}
      /\ ToSet(Append(s, x)) = {Append(s, x)[i] : i \in 1 .. Len(Append(s, x))}
  BY <1>1, Elements
<1>3. 1 .. (Len(s) + 1) = (1 .. Len(s)) \cup {Len(s) + 1}
  BY <1>1
<1>4. ToSet(Append(s, x)) = ToSet(s) \cup {x}
  BY ONLY <1>1, <1>2, <1>3
<1> QED
  BY <1>1, <1>4

LEMMA Prefix ==
    ASSUME NEW S, NEW s \in Seq(S), NEW n \in 0 .. Len(s)
    PROVE  /\ SubSeq(s, 1, n) \in Seq(S) /\ Len(SubSeq(s, 1, n)) = n
           /\ \A i \in 1 .. n : SubSeq(s, 1, n)[i] = s[i]
           /\ ToSet(SubSeq(s, 1, n)) \subseteq ToSet(s)
           /\ n = Len(s) => SubSeq(s, 1, n) = s
<1>1. Len(s) \in Nat /\ n \in Int /\ 1 \in Int /\ \A i \in 1 .. n : s[i] \in S
  BY Elements
<1>2. /\ SubSeq(s, 1, n) \in Seq(S)
      /\ Len(SubSeq(s, 1, n)) = IF 1 <= n THEN n - 1 + 1 ELSE 0
      /\ \A i \in 1 .. n - 1 + 1 : SubSeq(s, 1, n)[i] = s[1 + i - 1]
  BY <1>1, SubSeqProperties
<1>3. Len(SubSeq(s, 1, n)) = n /\ \A i \in 1 .. n : SubSeq(s, 1, n)[i] = s[i]
  BY <1>1, <1>2
<1>4. /\ ToSet(s) = {s[i] : i \in 1 .. Len(s)}
      /\ ToSet(SubSeq(s, 1, n)) = {SubSeq(s, 1, n)[i] : i \in 1 .. Len(SubSeq(s, 1, n))}
  BY <1>2, Elements
<1>5. ToSet(SubSeq(s, 1, n)) \subseteq ToSet(s)
  BY ONLY <1>1, <1>3, <1>4
<1>6. n = Len(s) => SubSeq(s, 1, n) = s
  BY SubSeqFull
<1> QED
  BY <1>2, <1>3, <1>5, <1>6

\* The rows before the first torn line: a prefix with no torn line.
LEMMA ReadablePrefix ==
    ASSUME NEW S, NEW s \in Seq(S)
    PROVE  /\ Readable(s) \in Seq(S) /\ Torn \notin ToSet(Readable(s))
           /\ ToSet(Readable(s)) \subseteq ToSet(s)
           /\ Torn \notin ToSet(s) => Readable(s) = s
<1> DEFINE bad == {i \in DOMAIN s : s[i] = Torn}
           first == CHOOSE i \in bad : \A j \in bad : i <= j
<1>1. Len(s) \in Nat /\ DOMAIN s = 1 .. Len(s) /\ ToSet(s) = {s[i] : i \in 1 .. Len(s)}
  BY Elements
<1>2. CASE bad = {}
  <2>1. Readable(s) = SubSeq(s, 1, Len(s)) /\ Len(s) \in 0 .. Len(s)
    BY <1>1, <1>2 DEF Readable
  <2>2. Readable(s) = s
    BY <2>1, Prefix
  <2>3. Torn \notin ToSet(s)
    BY <1>1, <1>2
  <2> QED
    BY <2>2, <2>3
<1>3. CASE bad # {}
  <2>1. bad \subseteq Nat
    BY <1>1
  <2>2. \E i \in bad : \A j \in bad : i <= j
    <3> HIDE DEF bad
    <3> QED
      BY <1>3, <2>1, LeastOf
  <2>3. first \in bad /\ \A j \in bad : first <= j
    BY <2>2
  <2> HIDE DEF first
  <2>4. first \in 1 .. Len(s) /\ s[first] = Torn /\ first - 1 \in 0 .. Len(s)
    BY <1>1, <2>3
  <2>5. Readable(s) = SubSeq(s, 1, first - 1)
    BY <1>3 DEF Readable, first
  <2>6. /\ Readable(s) \in Seq(S) /\ ToSet(Readable(s)) \subseteq ToSet(s)
        /\ Len(Readable(s)) = first - 1
        /\ \A i \in 1 .. (first - 1) : Readable(s)[i] = s[i]
    BY <2>4, <2>5, Prefix
  <2>7. \A i \in 1 .. (first - 1) : s[i] # Torn
    BY <1>1, <2>3, <2>4
  <2>8. ToSet(Readable(s)) = {Readable(s)[i] : i \in 1 .. Len(Readable(s))}
    BY <2>6, Elements
  <2>9. Torn \in ToSet(s)
    BY <1>1, <2>4
  <2> QED
    BY <2>6, <2>7, <2>8, <2>9
<1> QED
  BY <1>2, <1>3

\* The slices are not empty and lie within the prompts.
LEMMA SliceSize ==
    ASSUME ladder \in Ladders, NEW k \in Slices
    PROVE  /\ ladder[k] \in Nat /\ ladder[k + 1] \in 0 .. Rows /\ Rows \in Nat
           /\ Size(k) \in Nat \ {0} /\ ladder[k + 1] = ladder[k] + Size(k)
<1>1. /\ ladder \in Seq(0..Rows) /\ Len(ladder) > 1 /\ Rows \in Nat
      /\ \A j \in 1..(Len(ladder) - 1) : ladder[j] < ladder[j + 1]
  BY TracesAssumption, WritersAssumption
<1>2. Len(ladder) \in Nat /\ k \in 1 .. Len(ladder) /\ k + 1 \in 1 .. Len(ladder)
  BY <1>1 DEF Slices
<1>3. ladder[k] \in 0 .. Rows /\ ladder[k + 1] \in 0 .. Rows /\ ladder[k] < ladder[k + 1]
  BY <1>1, <1>2 DEF Slices
<1> QED
  BY <1>1, <1>3 DEF Size

LEMMA LineFacts ==
    ASSUME ladder \in Ladders, NEW k \in Slices
    PROVE  /\ Answers(k) \subseteq 1..Size(k) /\ Size(k) \in Nat \ {0}
           /\ Torn \in Lines(k)
           /\ \A i \in 1..Size(k) : /\ Row(k, i) # Torn /\ Row(k, i).key = i
                                    /\ Row(k, i).prompt = ladder[k] + i
           /\ \A i \in Answers(k) : Row(k, i) \in Lines(k)
           /\ \A x \in Lines(k) : x = Torn \/ \E i \in Answers(k) : x = Row(k, i)
BY SliceSize DEF Answers, Lines, Row, Torn

LEMMA Statistics ==
    /\ Fresh \in Stats /\ Fresh.held = Nothing /\ ~Fresh.behind /\ ~Fresh.ahead
    /\ NoCheckpoint \in Checkpoints /\ NoCheckpoint.at = 0 /\ NoCheckpoint.stat = Fresh
    /\ NoSidecar \in Sidecars /\ ~NoSidecar.there /\ NoSidecar.stat = Fresh
    /\ Signals \in Nat \ {0} /\ Rows \in Nat
BY WritersAssumption DEF Fresh, Nothing, Stats, NoCheckpoint, Checkpoints, NoSidecar, Sidecars

\* An empty statistic stands for no row; a statistic that was loaded stands for
\* other rows than it was saved for as its flags allow.
LEMMA FreshStands ==
    ASSUME NEW W
    PROVE  Stands(Fresh, {}, W)
<1>1. Fresh.held = Nothing /\ \A r \in 1..Rows : Nothing[r] = 0
  BY Statistics DEF Nothing
<1> QED
  BY <1>1 DEF Stands

LEMMA Reloaded ==
    ASSUME NEW a \in Stats, NEW b \in Stats, NEW A, NEW B, NEW W, b.held = a.held,
           Stands(a, A, W), ~b.ahead => ~a.ahead /\ A \subseteq B,
           ~b.behind => ~a.behind /\ B \subseteq A
    PROVE  Stands(b, B, W)
<1>1. \A r \in 1..Rows : a.held[r] \in Nat
  BY DEF Stats
<1>2. ASSUME ~b.ahead, NEW r \in 1..Rows PROVE b.held[r] <= IF r \in B THEN 1 ELSE 0
  <2>1. a.held[r] <= IF r \in A THEN 1 ELSE 0
    BY <1>2 DEF Stands
  <2>2. r \in A => r \in B
    BY <1>2
  <2> QED
    BY <1>1, <2>1, <2>2
<1>3. ASSUME ~b.behind, NEW r \in B PROVE b.held[r] >= 1
  BY <1>3 DEF Stands
<1> QED
  BY <1>2, <1>3 DEF Stands

LEMMA ForwardedFacts ==
    ASSUME NEW acc \in [1..Signals -> Stats], NEW S \in SUBSET (1..Rows)
    PROVE  /\ Forwarded(acc, S) \in [1..Signals -> Stats]
           /\ \A s \in 1..Signals :
                 /\ s \in silent => Forwarded(acc, S)[s].held = acc[s].held
                 /\ \A A, W : /\ Stands(acc[s], Heard(s, A), Heard(s, W))
                              /\ A \cap S = {} /\ A \subseteq 1..Rows /\ S \subseteq W
                       => Stands(Forwarded(acc, S)[s], Heard(s, A \cup S), Heard(s, W))
<1> DEFINE more(s) == [r \in 1..Rows |-> acc[s].held[r] + IF r \in S THEN 1 ELSE 0]
<1>1. \A s \in 1..Signals : acc[s] \in Stats
  OBVIOUS
<1>2. ASSUME NEW s \in 1..Signals
      PROVE  /\ Forwarded(acc, S)[s] = IF s \in silent THEN acc[s] ELSE [acc[s] EXCEPT !.held = more(s)]
             /\ acc[s].held \in [1..Rows -> Nat]
             /\ more(s) \in [1..Rows -> Nat]
  <2>1. acc[s].held \in [1..Rows -> Nat]
    BY <1>1 DEF Stats
  <2>2. more(s) \in [1..Rows -> Nat]
    <3>1. \A r \in 1..Rows : acc[s].held[r] \in Nat
      BY ONLY <2>1
    <3>2. \A r \in 1..Rows : acc[s].held[r] + (IF r \in S THEN 1 ELSE 0) \in Nat
      BY ONLY <3>1
    <3> QED
      BY ONLY <3>2
  <2>3. Forwarded(acc, S)[s] = IF s \in silent THEN acc[s] ELSE [acc[s] EXCEPT !.held = more(s)]
    BY DEF Forwarded
  <2> QED
    BY <2>1, <2>2, <2>3
<1>3. DOMAIN Forwarded(acc, S) = 1..Signals
  BY DEF Forwarded
<1>4. ASSUME NEW s \in 1..Signals
      PROVE  /\ Forwarded(acc, S)[s] \in Stats
             /\ Forwarded(acc, S)[s].behind = acc[s].behind
             /\ Forwarded(acc, S)[s].ahead = acc[s].ahead
             /\ s \in silent => Forwarded(acc, S)[s].held = acc[s].held
             /\ s \notin silent => Forwarded(acc, S)[s].held = more(s)
  <2> HIDE DEF more
  <2>1. acc[s] \in Stats
    BY <1>1
  <2> QED
    BY <1>2, <2>1 DEF Stats
<1>5. Forwarded(acc, S) = [s \in 1..Signals |-> Forwarded(acc, S)[s]]
  BY DEF Forwarded
<1>6. Forwarded(acc, S) \in [1..Signals -> Stats]
  BY <1>4, <1>5
<1>7. ASSUME NEW s \in 1..Signals, NEW A, NEW W, Stands(acc[s], Heard(s, A), Heard(s, W)),
             A \cap S = {}, A \subseteq 1..Rows, S \subseteq W
      PROVE  Stands(Forwarded(acc, S)[s], Heard(s, A \cup S), Heard(s, W))
  <2>1. CASE s \in silent
    BY <1>4, <1>7, <2>1 DEF Stands, Heard
  <2>2. CASE s \notin silent
    <3> DEFINE old == acc[s].held
               new == Forwarded(acc, S)[s].held
    <3>1. /\ \A r \in 1..Rows : old[r] \in Nat
          /\ \A r \in 1..Rows : new[r] = old[r] + IF r \in S THEN 1 ELSE 0
      BY <1>2, <1>4, <2>2
    <3>2. /\ \A r \in (1..Rows) \ W : old[r] = 0
          /\ ~acc[s].ahead => \A r \in 1..Rows : old[r] <= IF r \in A THEN 1 ELSE 0
          /\ ~acc[s].behind => \A r \in A : old[r] >= 1
      BY <1>7, <2>2 DEF Stands, Heard
    <3> HIDE DEF old, new
    <3>3. \A r \in (1..Rows) \ W : new[r] = 0
      BY <1>7, <3>1, <3>2
    <3>4. ~acc[s].ahead => \A r \in 1..Rows : new[r] <= IF r \in A \cup S THEN 1 ELSE 0
      BY <1>7, <3>1, <3>2
    <3>5. ~acc[s].behind => \A r \in A \cup S : new[r] >= 1
      <4> SUFFICES ASSUME ~acc[s].behind, NEW r \in A \cup S PROVE new[r] >= 1
        OBVIOUS
      <4>1. r \in 1..Rows /\ old[r] \in Nat /\ (r \in A => old[r] >= 1)
        BY <1>7, <3>1, <3>2
      <4> QED
        BY <3>1, <4>1
    <3> QED
      BY <1>4, <2>2, <3>3, <3>4, <3>5 DEF Stands, Heard, new
  <2> QED
    BY <2>1, <2>2
<1> QED
  BY <1>4, <1>6, <1>7

\* A statistic as it was in the checkpoint c, flagged by the counter.
Loaded(c, base, stat) ==
    /\ c.at > 0 /\ stat.held = c.stat.held
    /\ ~stat.ahead => ~c.stat.ahead /\ c.at <= base
    /\ ~stat.behind => ~c.stat.behind /\ base <= c.at
\* What a process starts with, from the checkpoints it finds.
SetUp(ckpt, base, resume) ==
    /\ Hydrated(ckpt, base, resume) \in [1..Signals -> Stats]
    /\ LeftAfterSetup(ckpt, base, resume) \in [1..Signals -> Checkpoints]
    /\ \A s \in 1..Signals :
          /\ LeftAfterSetup(ckpt, base, resume)[s] \in {ckpt[s], NoCheckpoint}
          /\ Hydrated(ckpt, base, resume)[s].held \in {ckpt[s].stat.held, Nothing}
          /\ \/ /\ Hydrated(ckpt, base, resume)[s] = Fresh
                /\ ~resume \/ ckpt[s].at = 0 \/ s \notin Treated(ckpt, base)
             \/ Loaded(ckpt[s], base, Hydrated(ckpt, base, resume)[s])
LEMMA HydratedFacts ==
    ASSUME NEW ckpt \in [1..Signals -> Checkpoints], NEW base \in Nat, NEW resume
    PROVE  SetUp(ckpt, base, resume)
<1> DEFINE H == Hydrated(ckpt, base, resume)
           L == LeftAfterSetup(ckpt, base, resume)
<1>1. \A s \in 1..Signals : ckpt[s] \in Checkpoints /\ ckpt[s].stat \in Stats /\ ckpt[s].at \in Nat
  BY DEF Checkpoints
<1>2. /\ H = [s \in 1..Signals |-> H[s]] /\ L = [s \in 1..Signals |-> L[s]]
  BY DEF Hydrated, LeftAfterSetup
<1>3. ASSUME NEW s \in 1..Signals
      PROVE  /\ H[s] = IF s \in Loads(ckpt, base, resume)
                       THEN [ckpt[s].stat EXCEPT !.behind = @ \/ ckpt[s].at < base,
                                                 !.ahead = @ \/ ckpt[s].at > base]
                       ELSE Fresh
             /\ L[s] \in {ckpt[s], NoCheckpoint}
  BY DEF Hydrated, LeftAfterSetup
<1>4. ASSUME NEW s \in 1..Signals
      PROVE  /\ H[s] \in Stats /\ H[s].held \in {ckpt[s].stat.held, Nothing}
             /\ \/ H[s] = Fresh /\ (~resume \/ ckpt[s].at = 0 \/ s \notin Treated(ckpt, base))
                \/ Loaded(ckpt[s], base, H[s])
  <2> HIDE DEF H, L
  <2>0. ckpt[s].stat \in Stats /\ ckpt[s].at \in Nat
    BY <1>1
  <2>1. CASE s \in Loads(ckpt, base, resume)
    <3> DEFINE c == ckpt[s].stat
               b == c.behind \/ ckpt[s].at < base
               a == c.ahead \/ ckpt[s].at > base
    <3>1. H[s] = [c EXCEPT !.behind = b, !.ahead = a]
      BY <1>3, <2>1
    <3>2. b \in BOOLEAN /\ a \in BOOLEAN
      BY <2>0 DEF Stats
    <3>3. /\ H[s].held = c.held /\ H[s] \in Stats
          /\ (H[s].behind <=> b) /\ (H[s].ahead <=> a)
      <4> HIDE DEF a, b, c
      <4>1. c \in Stats
        BY <2>0 DEF c
      <4> QED
        BY <3>1, <3>2, <4>1 DEF Stats
    <3>4. ckpt[s].at > 0
      BY <2>1 DEF Loads
    <3>5. (~a => ~c.ahead /\ ckpt[s].at <= base) /\ (~b => ~c.behind /\ base <= ckpt[s].at)
      BY <2>0
    <3> HIDE DEF a, b
    <3> QED
      BY <3>3, <3>4, <3>5 DEF Loaded
  <2>2. CASE s \notin Loads(ckpt, base, resume)
    <3>1. H[s] = Fresh
      BY <1>3, <2>2
    <3>2. ~resume \/ ckpt[s].at = 0 \/ s \notin Treated(ckpt, base)
      BY <2>0, <2>2 DEF Loads
    <3> QED
      BY <3>1, <3>2, Statistics
  <2> QED
    BY <2>1, <2>2
<1>5. H \in [1..Signals -> Stats]
  BY <1>2, <1>4
<1>6. L \in [1..Signals -> Checkpoints]
  BY <1>1, <1>2, <1>3, Statistics
<1> QED
  BY <1>3, <1>4, <1>5, <1>6 DEF SetUp

----------------------------------------------------------------------------
(* One step of the generation of a slice                                   *)

\* What a step of slice k has to show: the other slices are left alone, its own
\* is as it should be, and a checkpoint that changed is not ahead.
Frame(k) ==
    /\ DOMAIN trace' = Slices /\ DOMAIN gen' = Slices
    /\ \A j \in Slices \ {k} : trace'[j] = trace[j] /\ gen'[j] = gen[j]
NotAhead(k) ==
    \A s \in 1..Signals : syncs /\ trace'[k].ckpt[s] # trace[k].ckpt[s] =>
        trace'[k].ckpt[s].at <= trace[k].synced

LEMMA SliceFields ==
    ASSUME Generating, NEW k \in Slices
    PROVE  /\ DOMAIN trace = Slices /\ DOMAIN gen = Slices
           /\ engine \in {"hf", "vllm"} /\ ladder \in Ladders
           /\ trace[k] \in Files(k) /\ gen[k] \in Processes(k)
           /\ Covering(k, trace[k], gen[k]) /\ Counting(k, trace[k], gen[k])
           /\ Kept(k, trace[k]) /\ Dumped(k, trace[k]) /\ Synced(trace[k], gen[k])
           /\ trace[k].tmp \in Seq(Lines(k)) /\ trace[k].out \in Seq(Lines(k))
           /\ trace[k].synced \in Nat
           /\ trace[k].ckpt \in [1..Signals -> Checkpoints]
           /\ trace[k].side \in [1..Signals -> Sidecars]
           /\ gen[k].next \in 1..(Size(k) + 1) /\ gen[k].sig \in 1..Signals
           /\ gen[k].forced \in SUBSET Answers(k) /\ gen[k].asked \in SUBSET (1..Size(k))
           /\ gen[k].acc \in [1..Signals -> Stats]
           /\ Size(k) \in Nat \ {0} /\ Len(trace[k].tmp) \in Nat
<1>1. SliceSound(k, trace[k], gen[k]) /\ ladder \in Ladders
  BY DEF Generating
<1>2. Size(k) \in Nat \ {0}
  BY <1>1, SliceSize
<1>3. trace[k] \in Files(k) /\ gen[k] \in Processes(k)
  BY <1>1 DEF SliceSound
<1>4. /\ trace[k].tmp \in Seq(Lines(k)) /\ trace[k].out \in Seq(Lines(k))
      /\ trace[k].synced \in Nat
      /\ trace[k].ckpt \in [1..Signals -> Checkpoints]
      /\ trace[k].side \in [1..Signals -> Sidecars]
  BY <1>3 DEF Files
<1>5. /\ gen[k].next \in 1..(Size(k) + 1) /\ gen[k].sig \in 1..Signals
      /\ gen[k].forced \in SUBSET Answers(k) /\ gen[k].asked \in SUBSET (1..Size(k))
      /\ gen[k].acc \in [1..Signals -> Stats]
  BY <1>3 DEF Processes
<1>6. engine \in {"hf", "vllm"} /\ DOMAIN trace = Slices /\ DOMAIN gen = Slices
  BY TracesAssumption DEF Generating
<1>7. Len(trace[k].tmp) \in Nat
  BY <1>4
<1> QED
  BY <1>1, <1>2, <1>3, <1>4, <1>5, <1>6, <1>7 DEF SliceSound

\* Sets of prompts that a process has in hand.
LEMMA InHand ==
    ASSUME ladder \in Ladders, NEW k \in Slices, NEW X \in SUBSET (1..Size(k))
    PROVE  /\ IsFiniteSet(X) /\ Cardinality(X) \in Nat /\ (Cardinality(X) = 0 <=> X = {})
           /\ \A i \in X : Cardinality(X \ {i}) = Cardinality(X) - 1
<1>1. Size(k) \in Nat
  BY SliceSize
<1>2. IsFiniteSet(1..Size(k))
  BY <1>1, UpToFacts
<1>3. IsFiniteSet(X)
  BY <1>2, FS_Subset
<1>4. \A i \in X : Cardinality(X \ {i}) = Cardinality(X) - 1
  BY <1>3, FS_RemoveElement
<1> QED
  BY <1>3, <1>4, FS_CardinalityType, FS_EmptySet

\* A slice whose process is not running.
LEMMA Resting ==
    ASSUME NEW k \in Slices, ladder \in Ladders, NEW t \in Files(k), Kept(k, t), Dumped(k, t),
           NEW p \in {"down", "failed", "done"},
           p = "done" /\ OnceEach(t.out) => \A i \in Answers(k) : Has(t.out, k, i)
    PROVE  SliceSound(k, t, [Idle EXCEPT !.pc = p])
<1> DEFINE g == [Idle EXCEPT !.pc = p]
<1>1. /\ g.pc = p /\ g.next = 1 /\ g.forced = {} /\ g.asked = {} /\ g.sig = 1
      /\ g.acc = [s \in 1..Signals |-> Fresh]
  BY DEF Idle
<1>2. Size(k) \in Nat \ {0} /\ Signals \in Nat \ {0}
  BY SliceSize, Statistics
<1>3. [s \in 1..Signals |-> Fresh] \in [1..Signals -> Stats]
  BY Statistics
<1>4. g \in Processes(k)
  <2>1. Idle \in Processes(k)
    BY <1>2, <1>3 DEF Idle, Processes
  <2> QED
    BY <2>1 DEF Processes
<1> HIDE DEF g
<1>5. ~Alive(g)
  BY <1>1 DEF Alive
<1>6. Covering(k, t, g)
  BY <1>1, <1>5 DEF Covering
<1>7. Counting(k, t, g) /\ Synced(t, g)
  BY <1>1, <1>5 DEF Counting, Synced
<1> QED
  BY <1>4, <1>6, <1>7 DEF SliceSound, g

LEMMA Begun ==
    ASSUME Generating, NEW k \in Slices, BeginChunk(k)
    PROVE  Frame(k) /\ SliceSound(k, trace'[k], gen'[k]) /\ NotAhead(k)
<1> DEFINE t == trace[k]
           g == gen[k]
           h == gen'[k]
           e == ChunkEnd(k)
           F == {i \in ChunkOf(k) : IsForced(k, i)}
           A == {i \in ChunkOf(k) : ~IsForced(k, i)}
<1>0. /\ DOMAIN trace = Slices /\ DOMAIN gen = Slices /\ ladder \in Ladders
      /\ t \in Files(k) /\ g \in Processes(k)
      /\ Covering(k, t, g) /\ Counting(k, t, g) /\ Kept(k, t) /\ Dumped(k, t)
      /\ g.next \in 1..(Size(k) + 1) /\ Size(k) \in Nat \ {0} /\ Len(t.tmp) \in Nat
  BY SliceFields
<1>1. trace' = trace /\ g.pc = "chunk" /\ g.next <= Size(k)
  BY DEF BeginChunk, At
<1>2. e \in g.next..Size(k) /\ ChunkOf(k) = g.next..e
  <2>1. ChunkSize \in Nat \ {0} /\ Size(k) \in Nat /\ gen[k].next \in 1..Size(k)
    <3>1. ChunkSize \in Nat \ {0}
      BY TracesAssumption
    <3> QED
      BY <1>0, <1>1, <3>1
  <2> QED
    BY ONLY <2>1 DEF ChunkEnd, ChunkOf
<1>10. e \in Nat /\ g.next \in Nat /\ g.next <= e /\ g.next >= 1
  BY <1>0, <1>2
<1>3. F \in SUBSET Answers(k) /\ A \in SUBSET (1..Size(k)) /\ F \in SUBSET (1..Size(k))
  BY <1>0, <1>2 DEF Answers
<1> HIDE DEF e, F, A
<1>11. gen' = [gen EXCEPT ![k].pc = "write", ![k].next = e + 1, ![k].forced = F, ![k].asked = A]
  BY DEF BeginChunk, e, F, A
<1>4. h = [g EXCEPT !.pc = "write", !.next = e + 1, !.forced = F, !.asked = A] /\ Frame(k)
  BY <1>0, <1>1, <1>11 DEF Frame
<1>5. /\ h.pc = "write" /\ h.next = e + 1 /\ h.forced = F /\ h.asked = A
      /\ h.acc = g.acc /\ h.sig = g.sig /\ h \in Processes(k)
  <2>1. e + 1 \in 1..(Size(k) + 1)
    BY <1>0, <1>2
  <2> QED
    BY <1>0, <1>3, <1>4, <2>1 DEF Processes
<1>6. g.forced = {} /\ g.asked = {}
  BY <1>0, <1>1 DEF Covering
<1> HIDE DEF h
<1>7. Covering(k, t, h)
  <2>1. Due(k, h) = Due(k, g)
    <3>1. Due(k, g) = {i \in Answers(k) : i >= g.next}
      BY <1>6 DEF Due
    <3>2. Due(k, h) = F \cup {i \in A : Answered(k, i)} \cup {i \in Answers(k) : i >= e + 1}
      BY <1>5 DEF Due
    <3>3. \A i \in 1..Size(k) : i \in Answers(k) <=> IsForced(k, i) \/ Answered(k, i)
      BY DEF Answers
    <3>4. /\ \A i : i \in F <=> i \in g.next..e /\ IsForced(k, i)
          /\ \A i : i \in A <=> i \in g.next..e /\ ~IsForced(k, i)
      BY <1>2 DEF F, A
    <3>5. Answers(k) \subseteq 1..Size(k)
      BY DEF Answers
    <3> QED
      BY ONLY <1>0, <1>2, <3>1, <3>2, <3>3, <3>4, <3>5
  <2>2. \A i \in A : i < e + 1 /\ ~IsForced(k, i)
    BY <1>0, <1>2 DEF A
  <2>3. Alive(g)
    BY <1>1 DEF Alive
  <2> QED
    BY <1>0, <1>5, <2>1, <2>2, <2>3 DEF Covering
<1>8. Counting(k, t, h)
  <2> SUFFICES ASSUME engine = "vllm" PROVE Counting(k, t, h)
    BY DEF Counting
  <2>1. /\ Torn \notin ToSet(t.tmp)
        /\ Len(t.tmp) + Cardinality(g.forced) + Cardinality(g.asked) = g.next - 1
        /\ \A s \in 1..Signals :
              Stands(g.acc[s], Heard(s, Given(k, (1..(g.next - 1)) \ g.asked)), Whole(k, s))
    BY <1>0, <1>1 DEF Counting, Alive
  <2>2. Len(t.tmp) = g.next - 1
    BY <1>0, <1>6, <2>1, FS_EmptySet
  <2>3. Cardinality(F) + Cardinality(A) = e - g.next + 1
    <3>1. F \cup A = g.next..e /\ F \cap A = {}
      BY <1>2 DEF F, A
    <3>2. IsFiniteSet(F) /\ IsFiniteSet(A) /\ Cardinality(F) \in Nat /\ Cardinality(A) \in Nat
      BY <1>0, <1>3, InHand
    <3>3. Cardinality(F \cup A) = Cardinality(F) + Cardinality(A) - Cardinality(F \cap A)
      BY <3>2, FS_Union
    <3>4. Cardinality(g.next..e) = e - g.next + 1
      <4>1. e \in Int /\ g.next \in Int
        BY <1>10
      <4>2. Cardinality(g.next..e) = IF g.next > e THEN 0 ELSE e - g.next + 1
        BY ONLY <4>1, FS_Interval
      <4> QED
        BY <1>10, <4>2
    <3>5. Cardinality(F \cap A) = 0
      BY ONLY <3>1, FS_EmptySet
    <3>6. Cardinality(F) + Cardinality(A) - 0 = e - g.next + 1
      BY ONLY <3>1, <3>3, <3>4, <3>5
    <3> QED
      BY ONLY <3>2, <3>6
  <2>4. Given(k, (1..e) \ A) = Given(k, (1..(g.next - 1)) \ g.asked)
    <3>1. \A i \in 1..e : i \notin A => i < g.next \/ ladder[k] + i \in Forced
      BY <1>0, <1>2 DEF A, IsForced
    <3>2. \A i \in 1..(g.next - 1) : i \in 1..e /\ i \notin A
      BY <1>0, <1>2 DEF A
    <3>3. \A i \in 1..e : i < g.next => i \in 1..(g.next - 1)
      BY <1>0, <1>2
    <3> QED
      BY ONLY <1>6, <3>1, <3>2, <3>3 DEF Given
  <2> QED
    <3>1. Cardinality(F) \in Nat /\ Cardinality(A) \in Nat
      BY <1>0, <1>3, InHand
    <3>2. Len(t.tmp) + Cardinality(F) + Cardinality(A) = e
      <4>1. Len(t.tmp) \in Nat
        BY <1>0
      <4>2. PICK a \in Nat, b \in Nat, c \in Nat, n \in Nat :
               a = Len(t.tmp) /\ b = Cardinality(F) /\ c = Cardinality(A) /\ n = g.next
        BY ONLY <1>10, <3>1, <4>1
      <4>3. a = n - 1 /\ b + c = e - n + 1
        BY ONLY <2>2, <2>3, <4>2
      <4>4. a + b + c = e
        BY ONLY <1>10, <4>3
      <4> QED
        BY ONLY <4>2, <4>4
    <3>3. h.next - 1 = e
      BY <1>5, <1>10
    <3>4. Len(t.tmp) + Cardinality(h.forced) + Cardinality(h.asked) = h.next - 1
      BY ONLY <1>5, <3>2, <3>3
    <3>5. Given(k, (1..(h.next - 1)) \ h.asked) = Given(k, (1..(g.next - 1)) \ g.asked)
      BY ONLY <1>5, <2>4, <3>3
    <3> QED
      BY ONLY <1>5, <2>1, <3>4, <3>5 DEF Counting
<1>9. Synced(t, h) /\ NotAhead(k)
  BY <1>1, <1>5 DEF Synced, NotAhead
<1> QED
  BY <1>0, <1>1, <1>4, <1>5, <1>7, <1>8, <1>9 DEF SliceSound, h

LEMMA Wrote ==
    ASSUME Generating, NEW k \in Slices, WriteRow(k)
    PROVE  Frame(k) /\ SliceSound(k, trace'[k], gen'[k]) /\ NotAhead(k)
<1> DEFINE t == trace[k]
           g == gen[k]
           u == trace'[k]
           h == gen'[k]
           f == Min(g.forced)
           row == Row(k, f)
<1>0. /\ DOMAIN trace = Slices /\ DOMAIN gen = Slices /\ ladder \in Ladders
      /\ t \in Files(k) /\ g \in Processes(k)
      /\ Covering(k, t, g) /\ Counting(k, t, g) /\ Kept(k, t) /\ Dumped(k, t)
      /\ t.tmp \in Seq(Lines(k))
      /\ g.next \in 1..(Size(k) + 1) /\ Size(k) \in Nat \ {0} /\ Len(t.tmp) \in Nat
      /\ g.forced \in SUBSET Answers(k)
      /\ g.asked \in SUBSET (1..Size(k))
  BY SliceFields
<1>1. /\ trace' = [trace EXCEPT ![k].tmp = Appended(trace[k].tmp, row)]
      /\ gen' = [gen EXCEPT ![k].forced = gen[k].forced \ {f}]
      /\ g.pc = "write" /\ g.forced # {}
  BY DEF WriteRow, At
<1>2. f \in g.forced /\ f \in Answers(k) /\ g.forced \subseteq 1..Size(k)
  <2>1. Answers(k) \subseteq Nat /\ Answers(k) \subseteq 1..Size(k)
    BY <1>0 DEF Answers
  <2>2. g.forced \subseteq Nat
    BY <1>0, <2>1
  <2> QED
    BY <1>0, <1>1, <2>1, <2>2, MinOf
<1> HIDE DEF f
<1>3. row \in Lines(k) /\ row # Torn
  BY <1>0, <1>2, LineFacts
<1>4. /\ Append(t.tmp, row) \in Seq(Lines(k)) /\ Len(Append(t.tmp, row)) = Len(t.tmp) + 1
      /\ \A i \in 1..Len(t.tmp) : Append(t.tmp, row)[i] = t.tmp[i]
      /\ Append(t.tmp, row)[Len(t.tmp) + 1] = row
      /\ ToSet(Append(t.tmp, row)) = ToSet(t.tmp) \cup {row}
  BY <1>0, <1>3, OneMore
<1>5. /\ ToSet(t.tmp) = {t.tmp[i] : i \in 1..Len(t.tmp)} /\ (t.tmp = <<>> <=> Len(t.tmp) = 0)
  BY <1>0, Elements
<1> HIDE DEF row
<1>6. \/ u.tmp = Append(t.tmp, row)
      \/ u.tmp = t.tmp /\ Torn \in ToSet(t.tmp)
  <2>1. u.tmp = Appended(t.tmp, row)
    BY <1>0, <1>1 DEF Files
  <2>2. t.tmp # <<>> /\ Last(t.tmp) = Torn => Torn \in ToSet(t.tmp)
    BY <1>0, <1>5 DEF Last
  <2> QED
    BY <2>1, <2>2 DEF Appended
<1>7. /\ u = [t EXCEPT !.tmp = u.tmp] /\ u \in Files(k) /\ u.ckpt = t.ckpt /\ u.side = t.side
      /\ h = [g EXCEPT !.forced = g.forced \ {f}] /\ Frame(k)
  <2>1. u = [t EXCEPT !.tmp = Appended(trace[k].tmp, row)] /\ Frame(k)
    BY <1>0, <1>1 DEF Frame
  <2>2. u.tmp \in Seq(Lines(k))
    BY <1>0, <1>4, <1>6
  <2>3. h = [g EXCEPT !.forced = g.forced \ {f}]
    BY <1>0, <1>1
  <2> HIDE DEF h
  <2> QED
    BY <1>0, <2>1, <2>2, <2>3 DEF Files
<1>8. /\ h.pc = "write" /\ h.next = g.next /\ h.forced = g.forced \ {f} /\ h.asked = g.asked
      /\ h.acc = g.acc /\ h \in Processes(k)
  BY <1>0, <1>1, <1>7 DEF Processes
<1> HIDE DEF h, u
<1>9. Covering(k, u, h)
  <2>1. ASSUME OnceEach(u.tmp), \A i \in Due(k, h) : ~Has(u.tmp, k, i), NEW i \in Answers(k)
        PROVE  Has(u.tmp, k, i) \/ i \in Due(k, h)
    <3>1. u.tmp = Append(t.tmp, row)
      BY <1>6, <2>1 DEF OnceEach
    <3>2. OnceEach(t.tmp) /\ row \notin ToSet(t.tmp)
      <4>1. Torn \notin ToSet(t.tmp)
        BY <1>4, <2>1, <3>1 DEF OnceEach
      <4>2. \A a, b \in 1..(Len(t.tmp) + 1) : u.tmp[a] = u.tmp[b] => a = b
        BY <1>4, <2>1, <3>1 DEF OnceEach
      <4>3. \A a \in 1..Len(t.tmp) : a \in 1..(Len(t.tmp) + 1) /\ a # Len(t.tmp) + 1 /\ u.tmp[a] = t.tmp[a]
        BY <1>0, <1>4, <3>1
      <4>4. Len(t.tmp) + 1 \in 1..(Len(t.tmp) + 1) /\ u.tmp[Len(t.tmp) + 1] = row
        BY <1>0, <1>4, <3>1
      <4>5. \A a, b \in 1..Len(t.tmp) : t.tmp[a] = t.tmp[b] => a = b
        BY <4>2, <4>3
      <4>6. \A a \in 1..Len(t.tmp) : t.tmp[a] # row
        BY <4>2, <4>3, <4>4
      <4> QED
        BY <1>5, <4>1, <4>5, <4>6 DEF OnceEach
    <3>3. Due(k, g) \subseteq Due(k, h) \cup {f} /\ Due(k, h) \subseteq Due(k, g)
      BY <1>8 DEF Due
    <3>4. \A j \in Due(k, g) : ~Has(t.tmp, k, j)
      BY <1>4, <2>1, <3>1, <3>2, <3>3 DEF Has, row
    <3>5. Has(t.tmp, k, i) \/ i \in Due(k, g)
      BY <1>0, <1>1, <3>2, <3>4 DEF Covering, Alive
    <3> QED
      BY <1>4, <3>1, <3>3, <3>5 DEF Has, row
  <2>2. \A i \in g.asked : i < g.next /\ ~IsForced(k, i)
    BY <1>0 DEF Covering
  <2> QED
    BY <1>8, <2>1, <2>2 DEF Covering
<1>10. Counting(k, u, h)
  <2> SUFFICES ASSUME engine = "vllm"
               PROVE  /\ Torn \notin ToSet(u.tmp)
                      /\ Len(u.tmp) + Cardinality(g.forced \ {f}) + Cardinality(g.asked) = g.next - 1
                      /\ \A s \in 1..Signals :
                            Stands(g.acc[s], Heard(s, Given(k, (1..(g.next - 1)) \ g.asked)),
                                   Whole(k, s))
    BY <1>8 DEF Counting
  <2>1. /\ Torn \notin ToSet(t.tmp)
        /\ Len(t.tmp) + Cardinality(g.forced) + Cardinality(g.asked) = g.next - 1
        /\ \A s \in 1..Signals :
              Stands(g.acc[s], Heard(s, Given(k, (1..(g.next - 1)) \ g.asked)), Whole(k, s))
    BY <1>0, <1>1 DEF Counting, Alive
  <2>2. u.tmp = Append(t.tmp, row)
    BY <1>6, <2>1
  <2>3. Cardinality(g.forced \ {f}) = Cardinality(g.forced) - 1 /\ Cardinality(g.forced) \in Nat
        /\ Cardinality(g.asked) \in Nat
    BY <1>0, <1>2, InHand
  <2>4. Torn \notin ToSet(u.tmp) /\ Len(u.tmp) = Len(t.tmp) + 1
    BY <1>3, <1>4, <2>1, <2>2
  <2>5. Len(t.tmp) \in Nat
    BY <1>0
  <2>6. Len(u.tmp) + Cardinality(g.forced \ {f}) + Cardinality(g.asked) = g.next - 1
    <3>1. Len(t.tmp) + Cardinality(g.forced) + Cardinality(g.asked) = g.next - 1
      BY <2>1
    <3>2. Len(u.tmp) = Len(t.tmp) + 1
      BY <2>4
    <3>3. \A x, y, z \in Nat : (x + 1) + (y - 1) + z = x + y + z
      OBVIOUS
    <3>4. (Len(t.tmp) + 1) + (Cardinality(g.forced) - 1) + Cardinality(g.asked)
             = Len(t.tmp) + Cardinality(g.forced) + Cardinality(g.asked)
      BY ONLY <2>3, <2>5, <3>3
    <3>5. Cardinality(g.forced \ {f}) = Cardinality(g.forced) - 1
      BY <2>3
    <3> QED
      BY ONLY <3>1, <3>2, <3>4, <3>5, Zenon
  <2> QED
    BY <2>1, <2>4, <2>6
<1>11. Kept(k, u) /\ Dumped(k, u) /\ Synced(u, h) /\ NotAhead(k)
  <2>1. NotAhead(k)
    BY <1>7 DEF NotAhead, u
  <2> QED
    BY <1>0, <1>7, <1>8, <2>1 DEF Kept, Dumped, Synced
<1> QED
  BY <1>7, <1>8, <1>9, <1>10, <1>11 DEF SliceSound, h, u

\* The prompts of a slice are rows of the corpus.
LEMMA GivenRows ==
    ASSUME ladder \in Ladders, NEW k \in Slices, NEW I, I \subseteq 1..Size(k)
    PROVE  {ladder[k] + i : i \in I} \subseteq 1..Rows /\ Given(k, I) \subseteq 1..Rows
<1>1. \A i \in 1..Size(k) : ladder[k] + i \in 1..Rows
  BY SliceSize
<1> QED
  BY <1>1 DEF Given

LEMMA Asked ==
    ASSUME Generating, NEW k \in Slices, AskModel(k)
    PROVE  Frame(k) /\ SliceSound(k, trace'[k], gen'[k]) /\ NotAhead(k)
<1> DEFINE t == trace[k]
           g == gen[k]
           h == gen'[k]
           F == {i \in g.asked : Answered(k, i)}
           S == {ladder[k] + i : i \in g.asked}
           acc2 == IF engine = "hf" THEN g.acc ELSE Forwarded(g.acc, S)
<1>0. /\ DOMAIN trace = Slices /\ DOMAIN gen = Slices /\ ladder \in Ladders
      /\ t \in Files(k) /\ g \in Processes(k) /\ g.acc \in [1..Signals -> Stats]
      /\ Covering(k, t, g) /\ Counting(k, t, g) /\ Kept(k, t) /\ Dumped(k, t)
      /\ g.next \in 1..(Size(k) + 1) /\ Size(k) \in Nat \ {0} /\ Len(t.tmp) \in Nat
      /\ g.asked \in SUBSET (1..Size(k)) /\ engine \in {"hf", "vllm"}
  BY SliceFields
<1>1. /\ trace' = trace /\ g.pc = "write" /\ g.forced = {}
      /\ gen' = [gen EXCEPT ![k].forced = F, ![k].asked = {}, ![k].acc = acc2]
  <2>1. trace' = trace /\ g.pc = "write" /\ g.forced = {}
    BY DEF AskModel, At
  <2>2. gen' = [gen EXCEPT ![k].forced = F, ![k].asked = {}, ![k].acc = acc2]
    BY DEF AskModel
  <2> QED
    BY <2>1, <2>2
<1>2. F \in SUBSET Answers(k)
  BY <1>0 DEF Answers
<1>3. /\ Forwarded(g.acc, S) \in [1..Signals -> Stats]
      /\ \A s \in 1..Signals :
            \A A, W : /\ Stands(g.acc[s], Heard(s, A), Heard(s, W))
                      /\ A \cap S = {} /\ A \subseteq 1..Rows /\ S \subseteq W
               => Stands(Forwarded(g.acc, S)[s], Heard(s, A \cup S), Heard(s, W))
  <2>1. S \in SUBSET (1..Rows)
    BY <1>0, GivenRows
  <2> HIDE DEF S
  <2> QED
    BY <1>0, <2>1, ForwardedFacts
<1>4. acc2 \in [1..Signals -> Stats]
  BY <1>0, <1>3
<1> HIDE DEF F, acc2
<1>5. h = [g EXCEPT !.forced = F, !.asked = {}, !.acc = acc2] /\ Frame(k)
  BY <1>0, <1>1 DEF Frame
<1>6. /\ h.pc = "write" /\ h.next = g.next /\ h.forced = F /\ h.asked = {}
      /\ h.acc = acc2 /\ h \in Processes(k)
  BY <1>0, <1>1, <1>2, <1>4, <1>5 DEF Processes
<1> HIDE DEF h
<1>7. \A i \in g.asked : i < g.next /\ ~IsForced(k, i)
  BY <1>0 DEF Covering
<1>8. Covering(k, t, h)
  <2>1. Due(k, h) = Due(k, g)
    BY <1>1, <1>6 DEF Due, F
  <2> QED
    BY <1>0, <1>1, <1>6, <2>1 DEF Covering, Alive
<1>9. Counting(k, t, h)
  <2> SUFFICES ASSUME engine = "vllm"
               PROVE  /\ Torn \notin ToSet(t.tmp)
                      /\ Len(t.tmp) + Cardinality(F) + Cardinality({}) = g.next - 1
                      /\ \A s \in 1..Signals :
                            Stands(acc2[s], Heard(s, Given(k, (1..(g.next - 1)) \ {})), Whole(k, s))
    BY <1>6 DEF Counting
  <2>1. /\ Torn \notin ToSet(t.tmp)
        /\ Len(t.tmp) + Cardinality(g.forced) + Cardinality(g.asked) = g.next - 1
        /\ \A s \in 1..Signals :
              Stands(g.acc[s], Heard(s, Given(k, (1..(g.next - 1)) \ g.asked)), Whole(k, s))
    BY <1>0, <1>1 DEF Counting, Alive
  <2>2. F = g.asked
    BY DEF F, Answered
  <2>3. Cardinality(g.asked) \in Nat /\ Cardinality({}) = 0
    BY <1>0, InHand, FS_EmptySet
  <2>4. acc2 = Forwarded(g.acc, S)
    BY DEF acc2
  <2>5. /\ Given(k, (1..(g.next - 1)) \ g.asked) \cap S = {}
        /\ Given(k, (1..(g.next - 1)) \ g.asked) \cup S = Given(k, (1..(g.next - 1)) \ {})
    <3>1. ladder[k] \in Nat
      BY <1>0, SliceSize
    <3>2. \A i \in g.asked : i \in 1..(g.next - 1) /\ ladder[k] + i \notin Forced
      BY <1>0, <1>7 DEF IsForced
    <3>3. \A i, j \in 1..(g.next - 1) : ladder[k] + i = ladder[k] + j => i = j
      BY <1>0, <3>1
    <3> QED
      BY ONLY <3>2, <3>3 DEF Given
  <2>7. /\ Given(k, (1..(g.next - 1)) \ g.asked) \subseteq 1..Rows
        /\ S \subseteq Given(k, 1..Size(k))
    <3>1. (1..(g.next - 1)) \ g.asked \subseteq 1..Size(k)
      BY <1>0
    <3>2. \A i \in g.asked : i \in 1..Size(k) /\ ladder[k] + i \notin Forced
      BY <1>0, <1>7 DEF IsForced
    <3>3. S \subseteq Given(k, 1..Size(k))
      BY <3>2 DEF Given
    <3> QED
      BY <1>0, <3>1, <3>3, GivenRows
  <2> HIDE DEF S
  <2>6. ASSUME NEW s \in 1..Signals
        PROVE  Stands(acc2[s], Heard(s, Given(k, (1..(g.next - 1)) \ {})), Whole(k, s))
    <3>1. Stands(g.acc[s], Heard(s, Given(k, (1..(g.next - 1)) \ g.asked)),
                 Heard(s, Given(k, 1..Size(k))))
      BY <2>1 DEF Whole
    <3>2. Stands(Forwarded(g.acc, S)[s], Heard(s, Given(k, (1..(g.next - 1)) \ g.asked) \cup S),
                 Heard(s, Given(k, 1..Size(k))))
      BY ONLY <1>3, <2>5, <2>7, <3>1, s \in 1..Signals
    <3> QED
      BY ONLY <2>4, <2>5, <3>2 DEF Whole
  <2> QED
    BY <1>0, <1>1, <2>1, <2>2, <2>3, <2>6
<1>10. Synced(t, h) /\ NotAhead(k)
  BY <1>1, <1>6 DEF Synced, NotAhead
<1> QED
  BY <1>0, <1>1, <1>5, <1>6, <1>8, <1>9, <1>10 DEF SliceSound, h

LEMMA ChunkDone ==
    ASSUME Generating, NEW k \in Slices, EndChunk(k)
    PROVE  Frame(k) /\ SliceSound(k, trace'[k], gen'[k]) /\ NotAhead(k)
<1> DEFINE t == trace[k]
           g == gen[k]
           u == trace'[k]
           h == gen'[k]
<1>0. /\ DOMAIN trace = Slices /\ DOMAIN gen = Slices /\ ladder \in Ladders
      /\ t \in Files(k) /\ g \in Processes(k)
      /\ Covering(k, t, g) /\ Counting(k, t, g) /\ Kept(k, t) /\ Dumped(k, t)
      /\ engine \in {"hf", "vllm"} /\ Len(t.tmp) \in Nat /\ t.synced \in Nat
  BY SliceFields
<1>1. g.pc = "write" /\ g.forced = {} /\ g.asked = {}
  BY DEF EndChunk, At
<1>2. /\ Frame(k) /\ u \in Files(k) /\ u.tmp = t.tmp /\ u.ckpt = t.ckpt /\ u.side = t.side
      /\ engine = "vllm" /\ syncs => u.synced = Len(u.tmp)
  <2>1. u = t \/ (u = [t EXCEPT !.synced = Len(t.tmp)] /\ engine = "vllm")
    <3>1. \/ u = t
          \/ engine = "vllm" /\ u = [t EXCEPT !.synced = IF syncs THEN Len(t.tmp) ELSE t.synced]
      BY <1>0 DEF EndChunk, SyncedLines
    <3>2. [t EXCEPT !.synced = t.synced] = t
      BY <1>0 DEF Files
    <3> QED
      BY <3>1, <3>2
  <2>2. engine = "vllm" /\ syncs => u = [t EXCEPT !.synced = Len(t.tmp)]
    BY <1>0 DEF EndChunk, SyncedLines
  <2>3. Frame(k)
    BY <1>0 DEF EndChunk, Frame
  <2> HIDE DEF u
  <2> QED
    BY <1>0, <2>1, <2>2, <2>3 DEF Files
<1>3. \/ h = [Idle EXCEPT !.pc = "failed"]
      \/ h = [g EXCEPT !.pc = "chunk"] /\ engine = "hf"
      \/ h = [g EXCEPT !.pc = "ckpt"] /\ engine = "vllm"
  BY <1>0 DEF EndChunk
<1>4. Kept(k, u) /\ Dumped(k, u) /\ NotAhead(k)
  <2>1. NotAhead(k)
    BY <1>2 DEF NotAhead
  <2> QED
    BY <1>0, <1>2, <2>1 DEF Kept, Dumped
<1>5. CASE h = [Idle EXCEPT !.pc = "failed"]
  <2> HIDE DEF u
  <2>1. SliceSound(k, u, [Idle EXCEPT !.pc = "failed"])
    BY <1>0, <1>2, <1>4, Resting
  <2> QED
    BY <1>2, <1>4, <1>5, <2>1 DEF u
<1>6. ASSUME NEW p \in {"chunk", "ckpt"}, h = [g EXCEPT !.pc = p], p = "ckpt" => engine = "vllm"
      PROVE  SliceSound(k, u, h)
  <2>1. /\ h.pc = p /\ h.next = g.next /\ h.forced = {} /\ h.asked = {} /\ h.acc = g.acc
        /\ h \in Processes(k)
    BY <1>0, <1>1, <1>6 DEF Processes
  <2> HIDE DEF h, u
  <2>2. Due(k, h) = Due(k, g) /\ Alive(g) /\ Alive(h)
    BY <1>1, <1>6, <2>1 DEF Due, Alive
  <2>3. Covering(k, u, h)
    BY <1>0, <1>1, <1>2, <1>6, <2>1, <2>2 DEF Covering
  <2>4. Counting(k, u, h)
    BY <1>0, <1>1, <1>2, <2>1, <2>2 DEF Counting
  <2>5. Synced(u, h)
    BY <1>2, <1>6, <2>1 DEF Synced
  <2> QED
    BY <1>2, <1>4, <2>1, <2>3, <2>4, <2>5 DEF SliceSound
<1> QED
  BY <1>2, <1>3, <1>4, <1>5, <1>6

\* The signals one after the other.
LEMMA NextSignals ==
    ASSUME NEW p, NEW after, p.sig \in 1..Signals
    PROVE  \/ p.sig < Signals /\ NextSignal(p, after) = [p EXCEPT !.sig = p.sig + 1]
           \/ NextSignal(p, after) = [p EXCEPT !.pc = after, !.sig = 1]
BY DEF NextSignal

LEMMA NextProcess ==
    ASSUME NEW k \in Slices, NEW g \in Processes(k), NEW after \in {"chunk", "publish"},
           NEW h, h = NextSignal(g, after)
    PROVE  /\ h \in Processes(k) /\ h.pc \in {g.pc, after}
           /\ h.next = g.next /\ h.forced = g.forced /\ h.asked = g.asked /\ h.acc = g.acc
<1>1. g.sig \in 1..Signals /\ Signals \in Nat \ {0}
  BY Statistics DEF Processes
<1>2. \/ g.sig < Signals /\ h = [g EXCEPT !.sig = g.sig + 1]
      \/ h = [g EXCEPT !.pc = after, !.sig = 1]
  BY <1>1, NextSignals
<1>3. g.sig < Signals => g.sig + 1 \in 1..Signals
  BY <1>1
<1>4. CASE g.sig < Signals /\ h = [g EXCEPT !.sig = g.sig + 1]
  <2>1. g.sig + 1 \in 1..Signals
    BY <1>3, <1>4
  <2> QED
    BY <1>4, <2>1 DEF Processes
<1>5. CASE h = [g EXCEPT !.pc = after, !.sig = 1]
  <2>1. 1 \in 1..Signals
    BY <1>1
  <2> QED
    BY <1>5, <2>1 DEF Processes
<1> QED
  BY <1>2, <1>4, <1>5

LEMMA CheckpointSaved ==
    ASSUME Generating, NEW k \in Slices, NEW ok \in BOOLEAN, SaveCheckpoint(k, ok)
    PROVE  Frame(k) /\ SliceSound(k, trace'[k], gen'[k]) /\ NotAhead(k)
<1> DEFINE t == trace[k]
           g == gen[k]
           u == trace'[k]
           h == gen'[k]
           c == [at |-> Len(t.tmp), stat |-> g.acc[g.sig]]
<1>0. /\ DOMAIN trace = Slices /\ DOMAIN gen = Slices /\ ladder \in Ladders
      /\ t \in Files(k) /\ g \in Processes(k) /\ Synced(t, g)
      /\ Covering(k, t, g) /\ Counting(k, t, g) /\ Kept(k, t) /\ Dumped(k, t)
      /\ g.sig \in 1..Signals /\ g.acc \in [1..Signals -> Stats]
      /\ t.ckpt \in [1..Signals -> Checkpoints] /\ g.next \in 1..(Size(k) + 1)
      /\ Size(k) \in Nat \ {0} /\ Len(t.tmp) \in Nat /\ t.synced \in Nat
  BY SliceFields
<1>1. /\ g.pc = "ckpt" /\ engine = "vllm" /\ (syncs => t.synced = Len(t.tmp))
      /\ g.forced = {} /\ g.asked = {}
  <2>1. g.pc = "ckpt"
    BY DEF SaveCheckpoint, At
  <2> QED
    BY <1>0, <2>1 DEF Synced, Covering
<1>2. h = NextSignal(g, "chunk") /\ Frame(k)
  <2>1. gen' = [gen EXCEPT ![k] = NextSignal(gen[k], "chunk")]
    BY <1>0 DEF SaveCheckpoint
  <2> QED
    BY <1>0, <2>1 DEF SaveCheckpoint, Frame
<1>3. /\ h \in Processes(k) /\ h.pc \in {"ckpt", "chunk"}
      /\ h.next = g.next /\ h.forced = {} /\ h.asked = {} /\ h.acc = g.acc
  BY <1>0, <1>1, <1>2, NextProcess
<1>4. g.acc[g.sig] \in Stats /\ c \in Checkpoints
  BY <1>0 DEF Checkpoints
<1>5. u = t \/ u = [t EXCEPT !.ckpt = [t.ckpt EXCEPT ![g.sig] = c]]
  <2>1. trace' = trace \/ trace' = [trace EXCEPT ![k].ckpt[gen[k].sig] = c]
    BY DEF SaveCheckpoint
  <2> QED
    BY <1>0, <2>1
<1>6. /\ u \in Files(k) /\ u.tmp = t.tmp /\ u.side = t.side /\ u.synced = t.synced
      /\ \A s \in 1..Signals : u.ckpt[s] = t.ckpt[s] \/ (s = g.sig /\ u.ckpt[s] = c)
  <2> HIDE DEF u, c
  <2>1. CASE u = t
    BY <1>0, <2>1
  <2>2. CASE u = [t EXCEPT !.ckpt = [t.ckpt EXCEPT ![g.sig] = c]]
    <3>1. [t.ckpt EXCEPT ![g.sig] = c] \in [1..Signals -> Checkpoints]
      BY <1>0, <1>4
    <3>2. \A s \in 1..Signals : [t.ckpt EXCEPT ![g.sig] = c][s] = IF s = g.sig THEN c ELSE t.ckpt[s]
      BY <1>0
    <3>3. u.ckpt = [t.ckpt EXCEPT ![g.sig] = c]
      BY <1>0, <2>2 DEF Files
    <3>4. u \in Files(k) /\ u.tmp = t.tmp /\ u.side = t.side /\ u.synced = t.synced
      BY <1>0, <2>2, <3>1 DEF Files
    <3> QED
      BY <3>2, <3>3, <3>4
  <2> QED
    BY <1>5, <2>1, <2>2
<1> HIDE DEF h, u
<1>7. Alive(g) /\ Alive(h) /\ Due(k, h) = Due(k, g)
  BY <1>1, <1>3 DEF Alive, Due
<1>8. Covering(k, u, h)
  BY <1>0, <1>1, <1>3, <1>6, <1>7 DEF Covering
<1>9. /\ Torn \notin ToSet(t.tmp)
      /\ Len(t.tmp) = g.next - 1
      /\ \A s \in 1..Signals :
            Stands(g.acc[s], Heard(s, Given(k, (1..(g.next - 1)) \ g.asked)), Whole(k, s))
  <2>1. Len(t.tmp) + Cardinality(g.forced) + Cardinality(g.asked) = g.next - 1
    BY <1>0, <1>1, <1>7 DEF Counting
  <2>2. Len(t.tmp) = g.next - 1
    BY <1>0, <1>1, <2>1, FS_EmptySet
  <2> QED
    BY <1>0, <1>1, <1>7, <2>2 DEF Counting
<1>10. Counting(k, u, h)
  BY <1>0, <1>1, <1>3, <1>6, <1>7 DEF Counting
<1>11. Kept(k, u)
  <2> SUFFICES ASSUME NEW s \in 1..Signals, u.ckpt[s].at > 0
               PROVE  Stands(u.ckpt[s].stat, Heard(s, Given(k, 1..u.ckpt[s].at)), Whole(k, s))
    BY DEF Kept
  <2>1. CASE u.ckpt[s] = t.ckpt[s]
    BY <1>0, <1>1, <2>1 DEF Kept
  <2>2. CASE s = g.sig /\ u.ckpt[s] = c
    <3>1. u.ckpt[s].at = g.next - 1 /\ u.ckpt[s].stat = g.acc[s]
      BY <1>9, <2>2
    <3>2. Stands(g.acc[s], Heard(s, Given(k, (1..(g.next - 1)) \ g.asked)), Whole(k, s))
      BY <1>9, <3>1
    <3>3. (1..(g.next - 1)) \ g.asked = 1..(g.next - 1)
      BY <1>1
    <3> QED
      BY ONLY <3>1, <3>2, <3>3
  <2> QED
    BY <1>6, <2>1, <2>2
<1>12. Dumped(k, u) /\ Synced(u, h) /\ NotAhead(k)
  <2>1. NotAhead(k)
    BY <1>0, <1>1, <1>6 DEF NotAhead, u
  <2> QED
    BY <1>0, <1>1, <1>6, <2>1 DEF Dumped, Synced
<1> QED
  BY <1>2, <1>3, <1>6, <1>8, <1>10, <1>11, <1>12 DEF SliceSound, h, u

LEMMA SidecarDumped ==
    ASSUME Generating, NEW k \in Slices, NEW ok \in BOOLEAN, DumpSidecar(k, ok)
    PROVE  Frame(k) /\ SliceSound(k, trace'[k], gen'[k]) /\ NotAhead(k)
<1> DEFINE t == trace[k]
           g == gen[k]
           u == trace'[k]
           h == gen'[k]
           d == [there |-> TRUE, stat |-> g.acc[g.sig]]
<1>0. /\ DOMAIN trace = Slices /\ DOMAIN gen = Slices /\ ladder \in Ladders
      /\ t \in Files(k) /\ g \in Processes(k) /\ Synced(t, g)
      /\ Covering(k, t, g) /\ Counting(k, t, g) /\ Kept(k, t) /\ Dumped(k, t)
      /\ g.sig \in 1..Signals /\ g.acc \in [1..Signals -> Stats]
      /\ t.ckpt \in [1..Signals -> Checkpoints] /\ g.next \in 1..(Size(k) + 1)
      /\ t.side \in [1..Signals -> Sidecars]
      /\ Size(k) \in Nat \ {0} /\ Len(t.tmp) \in Nat /\ t.synced \in Nat
  BY SliceFields
<1>1. /\ g.pc = "chunk" /\ engine = "vllm" /\ g.next = Size(k) + 1
      /\ g.forced = {} /\ g.asked = {}
  <2>1. g.pc = "chunk" /\ engine = "vllm" /\ g.next > Size(k)
    BY DEF DumpSidecar, At
  <2>2. g.next = Size(k) + 1
    BY <1>0, <2>1
  <2> QED
    BY <1>0, <2>1, <2>2 DEF Covering
<1>2. h = NextSignal(g, "publish") /\ Frame(k)
  <2>1. gen' = [gen EXCEPT ![k] = NextSignal(gen[k], "publish")]
    BY <1>0 DEF DumpSidecar
  <2> QED
    BY <1>0, <2>1 DEF DumpSidecar, Frame
<1>3. /\ h \in Processes(k) /\ h.pc \in {"chunk", "publish"}
      /\ h.next = g.next /\ h.forced = {} /\ h.asked = {} /\ h.acc = g.acc
  BY <1>0, <1>1, <1>2, NextProcess
<1>4. g.acc[g.sig] \in Stats /\ d \in Sidecars
  BY <1>0 DEF Sidecars
<1>5. \/ u = t
      \/ u = [t EXCEPT !.side = [t.side EXCEPT ![g.sig] = d],
                       !.ckpt = [t.ckpt EXCEPT ![g.sig] = NoCheckpoint]]
  <2>1. \/ trace' = trace
        \/ trace' = [trace EXCEPT ![k].side[gen[k].sig] = d,
                                  ![k].ckpt[gen[k].sig] = NoCheckpoint]
    BY DEF DumpSidecar
  <2> HIDE DEF d
  <2>2. trace' = trace => u = t
    OBVIOUS
  <2>3. trace' = [trace EXCEPT ![k].side[gen[k].sig] = d,
                               ![k].ckpt[gen[k].sig] = NoCheckpoint]
        => u = [t EXCEPT !.side = [t.side EXCEPT ![g.sig] = d],
                         !.ckpt = [t.ckpt EXCEPT ![g.sig] = NoCheckpoint]]
    BY <1>0 DEF Files
  <2> QED
    BY <2>1, <2>2, <2>3
<1>6. /\ u \in Files(k) /\ u.tmp = t.tmp /\ u.synced = t.synced
      /\ \A s \in 1..Signals : /\ u.ckpt[s] \in {t.ckpt[s], NoCheckpoint}
                               /\ u.side[s] = t.side[s] \/ (s = g.sig /\ u.side[s] = d)
  <2> HIDE DEF u, d
  <2>1. CASE u = t
    BY <1>0, <2>1
  <2>2. CASE u = [t EXCEPT !.side = [t.side EXCEPT ![g.sig] = d],
                           !.ckpt = [t.ckpt EXCEPT ![g.sig] = NoCheckpoint]]
    <3>1. /\ [t.ckpt EXCEPT ![g.sig] = NoCheckpoint] \in [1..Signals -> Checkpoints]
          /\ [t.side EXCEPT ![g.sig] = d] \in [1..Signals -> Sidecars]
      BY <1>0, <1>4, Statistics
    <3>2. \A s \in 1..Signals :
             /\ [t.ckpt EXCEPT ![g.sig] = NoCheckpoint][s] \in {t.ckpt[s], NoCheckpoint}
             /\ [t.side EXCEPT ![g.sig] = d][s] = IF s = g.sig THEN d ELSE t.side[s]
      BY <1>0
    <3>3. /\ u.ckpt = [t.ckpt EXCEPT ![g.sig] = NoCheckpoint]
          /\ u.side = [t.side EXCEPT ![g.sig] = d]
          /\ u.tmp = t.tmp /\ u.synced = t.synced /\ u.out = t.out
      BY <1>0, <2>2 DEF Files
    <3>4. u \in Files(k)
      BY <1>0, <2>2, <3>1 DEF Files
    <3> QED
      BY <3>2, <3>3, <3>4
  <2> QED
    BY <1>5, <2>1, <2>2
<1> HIDE DEF h, u
<1>7. Alive(g) /\ Alive(h) /\ Due(k, h) = Due(k, g)
  BY <1>1, <1>3 DEF Alive, Due
<1>8. Covering(k, u, h)
  BY <1>0, <1>1, <1>3, <1>6, <1>7 DEF Covering
<1>9. \A s \in 1..Signals : Stands(g.acc[s], Whole(k, s), Whole(k, s))
  <2>1. (1..(g.next - 1)) \ g.asked = 1..Size(k)
    BY <1>0, <1>1
  <2>2. \A s \in 1..Signals :
           Stands(g.acc[s], Heard(s, Given(k, (1..(g.next - 1)) \ g.asked)), Whole(k, s))
    BY <1>0, <1>1, <1>7 DEF Counting
  <2>3. \A s \in 1..Signals : Heard(s, Given(k, (1..(g.next - 1)) \ g.asked)) = Whole(k, s)
    BY ONLY <2>1 DEF Whole
  <2> QED
    BY ONLY <2>2, <2>3
<1>10. Counting(k, u, h)
  BY <1>0, <1>1, <1>3, <1>6, <1>7 DEF Counting
<1>11. Kept(k, u)
  BY <1>0, <1>6, Statistics, SMTT(40) DEF Kept
<1>12. Dumped(k, u)
  <2> SUFFICES ASSUME NEW s \in 1..Signals, u.side[s].there
               PROVE  Stands(u.side[s].stat, Whole(k, s), Whole(k, s))
    BY DEF Dumped
  <2>1. CASE u.side[s] = t.side[s]
    BY <1>0, <2>1 DEF Dumped
  <2>2. CASE s = g.sig /\ u.side[s] = d
    BY <1>9, <2>2
  <2> QED
    BY <1>6, <2>1, <2>2
<1>13. Synced(u, h) /\ NotAhead(k)
  <2>1. NotAhead(k)
    BY <1>0, <1>6, Statistics DEF NotAhead, u
  <2> QED
    BY <1>3, <2>1 DEF Synced
<1> QED
  BY <1>2, <1>3, <1>6, <1>8, <1>10, <1>11, <1>12, <1>13 DEF SliceSound, h, u

LEMMA Published ==
    ASSUME Generating, NEW k \in Slices, Publish(k)
    PROVE  Frame(k) /\ SliceSound(k, trace'[k], gen'[k]) /\ NotAhead(k)
<1> DEFINE t == trace[k]
           g == gen[k]
           u == trace'[k]
<1>0. /\ DOMAIN trace = Slices /\ DOMAIN gen = Slices /\ ladder \in Ladders
      /\ t \in Files(k) /\ g \in Processes(k)
      /\ Covering(k, t, g) /\ Kept(k, t) /\ Dumped(k, t)
      /\ t.tmp \in Seq(Lines(k)) /\ Size(k) \in Nat \ {0} /\ g.next \in 1..(Size(k) + 1)
  BY SliceFields
<1>1. g.pc \in {"publish", "chunk"} /\ g.next > Size(k)
  BY <1>0 DEF Publish, At, Covering
<1>2. u = [t EXCEPT !.out = t.tmp, !.tmp = <<>>, !.synced = 0] /\ Frame(k)
      /\ gen'[k] = [Idle EXCEPT !.pc = "done"]
  BY <1>0 DEF Publish, Frame
<1>3. <<>> \in Seq(Lines(k))
  OBVIOUS
<1>4. u \in Files(k) /\ u.out = t.tmp /\ u.ckpt = t.ckpt /\ u.side = t.side
  <2> HIDE DEF u
  <2> QED
    BY <1>0, <1>2, <1>3 DEF Files
<1>5. NotAhead(k)
  BY <1>4 DEF NotAhead
<1> HIDE DEF u
<1>6. OnceEach(u.out) => \A i \in Answers(k) : Has(u.out, k, i)
  <2>1. g.forced = {} /\ g.asked = {} /\ Alive(g)
    BY <1>0, <1>1 DEF Covering, Alive
  <2>2. Answers(k) \subseteq 1..Size(k)
    BY DEF Answers
  <2>3. Due(k, g) = {}
    <3>1. \A i \in 1..Size(k) : ~(i >= g.next)
      BY <1>0, <1>1
    <3> QED
      BY <2>1, <2>2, <3>1 DEF Due
  <2> QED
    BY <1>0, <1>4, <2>1, <2>3 DEF Covering
<1>7. Kept(k, u) /\ Dumped(k, u)
  BY <1>0, <1>4 DEF Kept, Dumped
<1>8. SliceSound(k, u, [Idle EXCEPT !.pc = "done"])
  BY <1>0, <1>4, <1>6, <1>7, Resting
<1> QED
  BY <1>2, <1>5, <1>8 DEF u

LEMMA WentDown ==
    ASSUME Generating, NEW k \in Slices, KillGenerator(k)
    PROVE  Frame(k) /\ SliceSound(k, trace'[k], gen'[k]) /\ NotAhead(k)
<1> DEFINE t == trace[k]
           u == trace'[k]
<1>0. /\ DOMAIN trace = Slices /\ DOMAIN gen = Slices /\ ladder \in Ladders
      /\ t \in Files(k) /\ Kept(k, t) /\ Dumped(k, t)
      /\ t.tmp \in Seq(Lines(k)) /\ Len(t.tmp) \in Nat /\ t.synced \in Nat
  BY SliceFields
<1>1. PICK n \in t.synced..Len(t.tmp) :
         \E left \in {SubSeq(t.tmp, 1, n), Append(SubSeq(t.tmp, 1, n), Torn)} :
            trace' = [trace EXCEPT ![k].tmp = left, ![k].synced = Len(left)]
  BY DEF KillGenerator
<1>2. PICK left \in {SubSeq(t.tmp, 1, n), Append(SubSeq(t.tmp, 1, n), Torn)} :
         trace' = [trace EXCEPT ![k].tmp = left, ![k].synced = Len(left)]
  BY <1>1
<1>3. SubSeq(t.tmp, 1, n) \in Seq(Lines(k))
  <2>1. n \in 0..Len(t.tmp)
    BY <1>0, <1>1
  <2> QED
    BY <1>0, <2>1, Prefix
<1>4. left \in Seq(Lines(k)) /\ Len(left) \in Nat
  <2>1. Torn \in Lines(k)
    BY <1>0, LineFacts
  <2>2. left \in Seq(Lines(k))
    <3>1. Append(SubSeq(t.tmp, 1, n), Torn) \in Seq(Lines(k))
      BY <1>3, <2>1, OneMore
    <3> QED
      BY <1>2, <1>3, <3>1
  <2> QED
    BY <2>2
<1>5. u = [t EXCEPT !.tmp = left, !.synced = Len(left)] /\ Frame(k)
      /\ gen'[k] = [Idle EXCEPT !.pc = "failed"]
  BY <1>0, <1>2 DEF KillGenerator, Frame
<1>6. u \in Files(k) /\ u.ckpt = t.ckpt /\ u.side = t.side
  <2> HIDE DEF u
  <2> QED
    BY <1>0, <1>4, <1>5 DEF Files
<1>7. NotAhead(k)
  BY <1>6 DEF NotAhead
<1> HIDE DEF u
<1>8. Kept(k, u) /\ Dumped(k, u)
  BY <1>0, <1>6 DEF Kept, Dumped
<1>9. SliceSound(k, u, [Idle EXCEPT !.pc = "failed"])
  BY <1>0, <1>6, <1>8, Resting
<1> QED
  BY <1>5, <1>7, <1>9 DEF u

\* As many different rows as the last of them has prompts before it and itself:
\* they are the rows of the first prompts.
LEMMA FirstRows ==
    ASSUME ladder \in Ladders, NEW k \in Slices, NEW rows \in Seq(Lines(k)), OnceEach(rows),
           \A i \in Answers(k) : Has(rows, k, i) => i <= Len(rows)
    PROVE  \A i \in Answers(k) : i <= Len(rows) => Has(rows, k, i)
<1> DEFINE n == Len(rows)
           f == [j \in 1..n |-> rows[j].key]
<1>1. /\ n \in Nat /\ ToSet(rows) = {rows[j] : j \in 1..n}
      /\ Answers(k) \subseteq 1..Size(k) /\ Size(k) \in Nat
  BY Elements, LineFacts
<1>2. ASSUME NEW j \in 1..n
      PROVE  /\ rows[j].key \in Answers(k) /\ rows[j] = Row(k, rows[j].key)
             /\ rows[j].key \in 1..n
  <2>1. rows[j] \in Lines(k) /\ rows[j] # Torn /\ rows[j] \in ToSet(rows)
    BY <1>1 DEF OnceEach
  <2>2. PICK i \in Answers(k) : rows[j] = Row(k, i)
    BY <2>1, LineFacts
  <2>3. i \in 1..Size(k) /\ rows[j].key = i
    BY <1>1, <2>2, LineFacts
  <2>4. i <= n
    BY <2>1, <2>2 DEF Has
  <2> QED
    BY <1>1, <2>2, <2>3, <2>4
<1>3. f \in [1..n -> 1..n]
  BY <1>2
<1>4. \A a, b \in 1..n : f[a] = f[b] => a = b
  <2> SUFFICES ASSUME NEW a \in 1..n, NEW b \in 1..n, f[a] = f[b] PROVE a = b
    OBVIOUS
  <2>1. rows[a] = rows[b]
    BY <1>2
  <2> QED
    BY <2>1 DEF OnceEach
<1>5. f \in Injection(1..n, 1..n)
  BY ONLY <1>3, <1>4 DEF Injection, IsInjective
<1>6. f \in Surjection(1..n, 1..n)
  BY ONLY <1>1, <1>5, UpToFacts, FS_Injection
<1>7. \A i \in 1..n : \E j \in 1..n : f[j] = i
  BY ONLY <1>6 DEF Surjection
<1> SUFFICES ASSUME NEW i \in Answers(k), i <= n PROVE Has(rows, k, i)
  OBVIOUS
<1>8. i \in 1..n
  BY <1>1
<1>9. PICK j \in 1..n : f[j] = i
  BY <1>7, <1>8
<1>10. rows[j] = Row(k, i)
  BY <1>2, <1>9
<1> QED
  BY <1>1, <1>10 DEF Has

LEMMA Opened ==
    ASSUME Generating, NEW k \in Slices, NEW rows \in Seq(Lines(k)), NEW resume \in BOOLEAN,
           Torn \notin ToSet(rows), (resume \/ rows = <<>>),
           Torn \notin ToSet(trace[k].tmp) => rows = trace[k].tmp \/ rows = <<>>,
           Len(rows) < Size(k), OpenTrace(k, rows, resume)
    PROVE  Frame(k) /\ SliceSound(k, trace'[k], gen'[k]) /\ NotAhead(k)
<1> DEFINE t == trace[k]
           u == trace'[k]
           h == gen'[k]
           n == Len(rows)
           tmp2 == IF rows = <<>> THEN <<>> ELSE IF engine = "vllm" THEN rows ELSE t.tmp
           synced2 == IF t.synced < n THEN t.synced ELSE n
           kept == LeftAfterSetup(t.ckpt, n, resume)
           acc2 == Hydrated(t.ckpt, n, resume)
           begun == [Idle EXCEPT !.pc = "chunk", !.next = n + 1]
           resumed == [Idle EXCEPT !.pc = "chunk", !.next = n + 1, !.acc = acc2]
<1>0. /\ DOMAIN trace = Slices /\ DOMAIN gen = Slices /\ ladder \in Ladders
      /\ t \in Files(k) /\ Kept(k, t) /\ Dumped(k, t)
      /\ t.tmp \in Seq(Lines(k)) /\ Len(t.tmp) \in Nat /\ t.synced \in Nat
      /\ t.ckpt \in [1..Signals -> Checkpoints] /\ Size(k) \in Nat \ {0}
      /\ engine \in {"hf", "vllm"}
  BY SliceFields
<1>1. n \in Nat /\ <<>> \in Seq(Lines(k)) /\ Len(<<>>) = 0 /\ (rows = <<>> <=> n = 0)
      /\ ToSet(<<>>) = {}
  <2>1. <<>> \in Seq(Lines(k)) /\ n \in Nat
    OBVIOUS
  <2>2. ToSet(<<>>) = {}
    BY DEF ToSet
  <2>3. rows = <<>> <=> n = 0
    BY Elements
  <2> QED
    BY <2>1, <2>2, <2>3
<1>2. tmp2 \in Seq(Lines(k)) /\ synced2 \in Nat
  BY <1>0, <1>1
<1>3. /\ acc2 \in [1..Signals -> Stats] /\ kept \in [1..Signals -> Checkpoints]
      /\ \A s \in 1..Signals :
            /\ kept[s] \in {t.ckpt[s], NoCheckpoint}
            /\ \/ /\ acc2[s] = Fresh
                  /\ ~resume \/ t.ckpt[s].at = 0 \/ s \notin Treated(t.ckpt, n)
               \/ Loaded(t.ckpt[s], n, acc2[s])
  <2>1. SetUp(t.ckpt, n, resume)
    BY ONLY <1>0, <1>1, HydratedFacts
  <2> QED
    BY ONLY <2>1 DEF SetUp
<1> HIDE DEF kept, acc2
<1>4. \/ engine = "hf" /\ u = [t EXCEPT !.tmp = tmp2, !.synced = synced2] /\ h = begun
      \/ /\ engine = "vllm" /\ u = [t EXCEPT !.tmp = tmp2, !.synced = synced2, !.ckpt = kept]
         /\ \/ h = [Idle EXCEPT !.pc = "failed"]
            \/ h = resumed /\ Missing(t.ckpt, n) = {}
  <2> DEFINE files == [t EXCEPT !.tmp = IF rows = <<>> THEN <<>>
                                        ELSE IF engine = "vllm" THEN rows ELSE @,
                                !.synced = IF @ < n THEN @ ELSE n]
  <2>1. files = [t EXCEPT !.tmp = tmp2, !.synced = synced2] /\ files.ckpt = t.ckpt
    BY <1>0 DEF Files
  <2>2. CASE engine = "hf"
    <3>1. trace' = [trace EXCEPT ![k] = files] /\ gen' = [gen EXCEPT ![k] = begun]
      BY <2>2 DEF OpenTrace
    <3> QED
      BY <1>0, <2>1, <2>2, <3>1
  <2>3. CASE engine = "vllm"
    <3>1. /\ trace' = [trace EXCEPT ![k] = [files EXCEPT !.ckpt = LeftAfterSetup(files.ckpt, n, resume)]]
          /\ gen' = [gen EXCEPT ![k] = IF Missing(trace[k].ckpt, n) # {}
                                       THEN [Idle EXCEPT !.pc = "failed"] ELSE resumed]
      BY <2>3 DEF OpenTrace, acc2
    <3> HIDE DEF files, tmp2, synced2
    <3>2. [files EXCEPT !.ckpt = LeftAfterSetup(files.ckpt, n, resume)]
             = [t EXCEPT !.tmp = tmp2, !.synced = synced2, !.ckpt = kept]
      BY <1>0, <2>1 DEF kept, Files
    <3> HIDE DEF resumed
    <3> QED
      BY <1>0, <2>3, <3>1, <3>2
  <2> QED
    BY <1>0, <2>2, <2>3
<1>5. Frame(k)
  BY <1>0 DEF OpenTrace, Frame
<1> HIDE DEF tmp2, synced2, u, h, begun, resumed
<1>6. /\ u \in Files(k) /\ u.tmp = tmp2 /\ u.side = t.side
      /\ \A s \in 1..Signals : u.ckpt[s] \in {t.ckpt[s], NoCheckpoint}
  <2>1. CASE u = [t EXCEPT !.tmp = tmp2, !.synced = synced2]
    BY <1>0, <1>2, <2>1 DEF Files
  <2>2. CASE u = [t EXCEPT !.tmp = tmp2, !.synced = synced2, !.ckpt = kept]
    <3>1. u \in Files(k) /\ u.tmp = tmp2 /\ u.side = t.side /\ u.ckpt = kept
      BY <1>0, <1>2, <1>3, <2>2 DEF Files
    <3> QED
      BY <1>3, <3>1
  <2> QED
    BY <1>4, <2>1, <2>2
<1>7. Kept(k, u) /\ Dumped(k, u) /\ NotAhead(k)
  <2>1. NotAhead(k)
    BY <1>0, <1>6, Statistics DEF NotAhead, u
  <2> QED
    BY <1>0, <1>6, <2>1, Statistics DEF Kept, Dumped
<1>8. CASE h = [Idle EXCEPT !.pc = "failed"]
  <2>1. SliceSound(k, u, [Idle EXCEPT !.pc = "failed"])
    BY <1>0, <1>6, <1>7, Resting
  <2> QED
    BY <1>5, <1>7, <1>8, <2>1 DEF u, h
<1>9. ASSUME h = begun \/ h = resumed,
             engine = "vllm" => h = resumed /\ Missing(t.ckpt, n) = {}
      PROVE  SliceSound(k, u, h)
  <2>1. /\ h.pc = "chunk" /\ h.next = n + 1 /\ h.forced = {} /\ h.asked = {} /\ h.sig = 1
        /\ h.acc \in [1..Signals -> Stats] /\ (engine = "vllm" => h.acc = acc2)
        /\ h \in Processes(k)
    <3>1. /\ 1 \in 1..Signals /\ [s \in 1..Signals |-> Fresh] \in [1..Signals -> Stats]
          /\ n + 1 \in 1..(Size(k) + 1)
      BY <1>0, <1>1, Statistics
    <3>2. CASE h = begun
      <4>1. /\ h.pc = "chunk" /\ h.next = n + 1 /\ h.forced = {} /\ h.asked = {} /\ h.sig = 1
            /\ h.acc = [s \in 1..Signals |-> Fresh]
            /\ h = [pc |-> "chunk", next |-> n + 1, forced |-> {}, asked |-> {}, sig |-> 1,
                    acc |-> [s \in 1..Signals |-> Fresh]]
        BY <3>2 DEF begun, Idle
      <4>2. h \in Processes(k)
        BY <3>1, <4>1 DEF Processes
      <4>3. engine = "vllm" => h.acc = acc2
        BY <1>9 DEF resumed, Idle
      <4> QED
        BY <3>1, <4>1, <4>2, <4>3
    <3>3. CASE h = resumed
      <4>1. /\ h.pc = "chunk" /\ h.next = n + 1 /\ h.forced = {} /\ h.asked = {} /\ h.sig = 1
            /\ h.acc = acc2
            /\ h = [pc |-> "chunk", next |-> n + 1, forced |-> {}, asked |-> {}, sig |-> 1,
                    acc |-> acc2]
        BY <3>3 DEF resumed, Idle
      <4>2. h \in Processes(k)
        BY <1>3, <3>1, <4>1 DEF Processes
      <4> QED
        BY <1>3, <4>1, <4>2
    <3> QED
      BY <1>9, <3>2, <3>3
  <2>2. OnceEach(u.tmp) => u.tmp = rows
    BY <1>1, <1>6 DEF tmp2, OnceEach
  <2>3. Covering(k, u, h)
    <3>1. ASSUME OnceEach(u.tmp), \A i \in Due(k, h) : ~Has(u.tmp, k, i), NEW i \in Answers(k)
          PROVE  Has(u.tmp, k, i) \/ i \in Due(k, h)
      <4>1. Answers(k) \subseteq 1..Size(k) /\ i \in 1..Size(k)
        BY DEF Answers
      <4>2. \A j \in Answers(k) : j \in Due(k, h) <=> j >= n + 1
        BY <2>1 DEF Due
      <4>3. \A j \in Answers(k) : ~(j >= n + 1) <=> j <= n
        BY <1>0, <1>1, <4>1
      <4>4. \A j \in Answers(k) : Has(rows, k, j) => j <= n
        BY <2>2, <3>1, <4>2, <4>3
      <4>5. OnceEach(rows) /\ u.tmp = rows
        BY <2>2, <3>1
      <4>6. \A j \in Answers(k) : j <= n => Has(rows, k, j)
        BY <1>0, <4>4, <4>5, FirstRows
      <4> QED
        BY <4>2, <4>3, <4>5, <4>6
    <3>2. OnceEach(u.tmp) /\ (\A i \in Due(k, h) : ~Has(u.tmp, k, i))
             => \A i \in Answers(k) : Has(u.tmp, k, i) \/ i \in Due(k, h)
      BY <3>1
    <3> QED
      BY ONLY <2>1, <3>2 DEF Covering
  <2>4. Counting(k, u, h)
    <3> SUFFICES ASSUME engine = "vllm" PROVE Counting(k, u, h)
      BY DEF Counting
    <3>1. u.tmp = rows /\ h.acc = acc2 /\ Missing(t.ckpt, n) = {}
      BY <1>6, <1>9, <2>1 DEF tmp2
    <3>2. h.next - 1 = n
      BY <1>1, <2>1
    <3>3. Len(u.tmp) + Cardinality(h.forced) + Cardinality(h.asked) = h.next - 1
      BY <1>1, <2>1, <3>1, <3>2, FS_EmptySet
    <3>4. ASSUME NEW s \in 1..Signals
          PROVE  Stands(acc2[s], Heard(s, Given(k, 1..n)), Whole(k, s))
      <4>1. CASE Loaded(t.ckpt[s], n, acc2[s])
        <5> DEFINE a == t.ckpt[s].stat
                   b == acc2[s]
                   m == t.ckpt[s].at
        <5>1. /\ a \in Stats /\ b \in Stats /\ m \in Nat /\ m > 0 /\ b.held = a.held
              /\ (~b.ahead => ~a.ahead /\ m <= n) /\ (~b.behind => ~a.behind /\ n <= m)
          BY <1>0, <1>3, <4>1 DEF Loaded, Checkpoints
        <5>2. Stands(a, Heard(s, Given(k, 1..m)), Whole(k, s))
          BY <1>0, <5>1 DEF Kept
        <5>3. /\ m <= n => Heard(s, Given(k, 1..m)) \subseteq Heard(s, Given(k, 1..n))
              /\ n <= m => Heard(s, Given(k, 1..n)) \subseteq Heard(s, Given(k, 1..m))
          BY <1>1, <5>1 DEF Heard, Given
        <5> HIDE DEF a, b, m
        <5> QED
          BY <5>1, <5>2, <5>3, Reloaded DEF b
      <4>2. CASE acc2[s] = Fresh /\ (~resume \/ t.ckpt[s].at = 0 \/ s \notin Treated(t.ckpt, n))
        <5>1. n = 0
          <6>1. CASE ~resume
            BY <1>1, <6>1
          <6>2. CASE t.ckpt[s].at = 0
            BY <3>1, <6>2 DEF Missing
          <6>3. CASE s \notin Treated(t.ckpt, n)
            BY <3>1, <6>3 DEF Treated
          <6> QED
            BY <4>2, <6>1, <6>2, <6>3
        <5>2. Given(k, 1..n) = {}
          BY <5>1 DEF Given
        <5>3. Heard(s, Given(k, 1..n)) = {}
          BY <5>2 DEF Heard
        <5> QED
          BY <4>2, <5>3, FreshStands
      <4> QED
        BY <1>3, <4>1, <4>2
    <3>5. (1..(h.next - 1)) \ h.asked = 1..n
      BY <2>1, <3>2
    <3> QED
      BY ONLY <3>1, <3>3, <3>4, <3>5, Torn \notin ToSet(rows) DEF Counting
  <2>5. Synced(u, h)
    BY <2>1 DEF Synced
  <2> QED
    BY <1>6, <1>7, <2>1, <2>3, <2>4, <2>5 DEF SliceSound
<1> QED
  <2>1. SliceSound(k, u, h)
    BY <1>4, <1>8, <1>9 DEF u, h
  <2> QED
    BY <1>5, <1>7, <2>1 DEF u, h

LEMMA Started ==
    ASSUME Generating, NEW k \in Slices, NEW resume \in BOOLEAN, Generate(k, resume)
    PROVE  Frame(k) /\ SliceSound(k, trace'[k], gen'[k]) /\ NotAhead(k)
<1> DEFINE t == trace[k]
           g == gen[k]
           u == trace'[k]
           rows == IF resume THEN Readable(t.tmp) ELSE <<>>
<1>0. /\ DOMAIN trace = Slices /\ DOMAIN gen = Slices /\ ladder \in Ladders
      /\ t \in Files(k) /\ g \in Processes(k) /\ Kept(k, t) /\ Dumped(k, t)
      /\ t.tmp \in Seq(Lines(k)) /\ Size(k) \in Nat \ {0} /\ t.synced \in Nat
      /\ Covering(k, t, g)
  BY SliceFields
<1>1. /\ rows \in Seq(Lines(k)) /\ Torn \notin ToSet(rows) /\ (resume \/ rows = <<>>)
      /\ Torn \notin ToSet(t.tmp) => rows = t.tmp \/ rows = <<>>
  <2>1. /\ Readable(t.tmp) \in Seq(Lines(k)) /\ Torn \notin ToSet(Readable(t.tmp))
        /\ Torn \notin ToSet(t.tmp) => Readable(t.tmp) = t.tmp
    BY <1>0, ReadablePrefix
  <2>2. <<>> \in Seq(Lines(k))
    OBVIOUS
  <2>3. ToSet(<<>>) = {}
    BY DEF ToSet
  <2> QED
    BY <2>1, <2>2, <2>3
<1>2. \/ gen' = [gen EXCEPT ![k].pc = "failed"] /\ UNCHANGED trace
      \/ Len(rows) >= Size(k) /\ PublishComplete(k, rows)
      \/ ~(Len(rows) >= Size(k)) /\ OpenTrace(k, rows, resume)
      \/ ~(Len(rows) >= Size(k)) /\ gen' = [gen EXCEPT ![k].pc = "failed"] /\ UNCHANGED trace
  BY DEF Generate
<1>3. gen[k].pc \in {"down", "failed"}
  BY DEF Generate, Launchable
<1> HIDE DEF rows
<1>4. CASE gen' = [gen EXCEPT ![k].pc = "failed"] /\ UNCHANGED trace
  <2>1. gen'[k] = [g EXCEPT !.pc = "failed"] /\ Frame(k) /\ u = t
    BY <1>0, <1>4 DEF Frame
  <2> DEFINE h == gen'[k]
  <2>2. h.pc = "failed" /\ h.forced = g.forced /\ h.asked = g.asked /\ h.next = g.next
        /\ h \in Processes(k)
    BY <1>0, <2>1 DEF Processes
  <2> HIDE DEF h
  <2>3. Covering(k, t, h) /\ Counting(k, t, h) /\ Synced(t, h)
    BY <1>0, <1>3, <2>2 DEF Covering, Counting, Synced, Alive
  <2> QED
    BY <1>0, <2>1, <2>2, <2>3 DEF SliceSound, NotAhead, h
<1>5. CASE Len(rows) >= Size(k) /\ PublishComplete(k, rows)
  <2> DEFINE out2 == IF engine = "vllm" THEN rows ELSE t.tmp
  <2>1. /\ u = [t EXCEPT !.out = out2, !.tmp = <<>>, !.synced = 0] /\ Frame(k)
        /\ gen'[k] = [Idle EXCEPT !.pc = "done"]
    BY <1>0, <1>5 DEF PublishComplete, Frame
  <2>2. <<>> \in Seq(Lines(k)) /\ out2 \in Seq(Lines(k))
    BY <1>0, <1>1
  <2>3. u \in Files(k) /\ u.out = out2 /\ u.ckpt = t.ckpt /\ u.side = t.side
    <3> HIDE DEF u, out2
    <3> QED
      BY <1>0, <2>1, <2>2 DEF Files
  <2>4. NotAhead(k)
    BY <2>3 DEF NotAhead
  <2> HIDE DEF u
  <2>5. Kept(k, u) /\ Dumped(k, u)
    BY <1>0, <2>3 DEF Kept, Dumped
  <2>6. OnceEach(u.out) => \A i \in Answers(k) : Has(u.out, k, i)
    <3> SUFFICES ASSUME OnceEach(u.out), NEW i \in Answers(k) PROVE Has(u.out, k, i)
      OBVIOUS
    <3>1. Len(rows) \in Nat /\ Answers(k) \subseteq 1..Size(k) /\ Len(<<>>) = 0
      BY <1>1 DEF Answers
    <3>2. rows # <<>>
      BY <1>0, <1>5, <3>1
    <3>3. u.out = rows
      BY <1>1, <2>3, <3>2 DEF OnceEach
    <3>4. \A j \in Answers(k) : j <= Len(rows)
      BY <1>0, <1>5, <3>1
    <3>5. OnceEach(rows)
      BY <3>3
    <3>6. \A j \in Answers(k) : j <= Len(rows) => Has(rows, k, j)
      BY <1>0, <1>1, <3>4, <3>5, FirstRows
    <3> QED
      BY <3>3, <3>4, <3>6
  <2>7. SliceSound(k, u, [Idle EXCEPT !.pc = "done"])
    BY <1>0, <2>3, <2>5, <2>6, Resting
  <2> QED
    BY <2>1, <2>4, <2>7 DEF u
<1>6. CASE ~(Len(rows) >= Size(k)) /\ OpenTrace(k, rows, resume)
  <2>1. Len(rows) < Size(k)
    <3>1. \A S : \A s \in Seq(S) : Len(s) \in Nat
      OBVIOUS
    <3>2. Len(rows) \in Nat
      BY ONLY <1>1, <3>1, Zenon
    <3> QED
      BY <1>0, <1>6, <3>2
  <2> QED
    BY <1>1, <1>6, <2>1, Opened
<1> QED
  BY <1>2, <1>4, <1>5, <1>6

----------------------------------------------------------------------------
(* A step of the generation                                                *)

LEMMA Setting == [Next]_vars => UNCHANGED <<engine, ladder, syncs, silent>>
BY ZenonT(60) DEF Next, Offloading, Generation, TakeOutput, Concatenate, Split, Capture, LoseReplay,
       Relaunch, Merge, vars, generation, common, GenNext, Generator, BeginChunk, WriteRow,
       AskModel, EndChunk, Publish, SaveCheckpoint, DumpSidecar, Generate, KillGenerator,
       setting, OffloadNext, StartOffload, Wipe, SkipWindow, ForwardWindow, WriteShard,
       Assemble, KillOffload, Replayer, Replay, MarkChunk, Checked, EndReplay, SaveWriter,
       DumpSignal, KillReplay

LEMMA OnlyGeneration == [Next]_vars => GenNext \/ UNCHANGED <<trace, gen>>
BY DEF Next, Offloading, Generation, TakeOutput, Concatenate, Split, Capture, LoseReplay,
       Relaunch, Merge, vars, generation

\* The operators of the slices depend on what does not change only.
LEMMA Unmoved ==
    ASSUME UNCHANGED <<engine, ladder, syncs, silent>>
    PROVE  /\ Slices' = Slices
           /\ \A k, t, g : SliceSound(k, t, g)' <=> SliceSound(k, t, g)
<1>1. /\ Slices' = Slices
      /\ \A k : Size(k)' = Size(k)
      /\ \A k, i : /\ Row(k, i)' = Row(k, i) /\ (IsForced(k, i)' <=> IsForced(k, i))
                   /\ (Answered(k, i)' <=> Answered(k, i))
      /\ \A s, S : Heard(s, S)' = Heard(s, S)
      /\ \A k, S : Given(k, S)' = Given(k, S)
  BY DEF Slices, Size, Row, IsForced, Answered, Heard, Given
<1>2. \A k : Answers(k)' = Answers(k) /\ Lines(k)' = Lines(k)
  BY <1>1 DEF Answers, Lines
<1>3. \A k : Files(k)' = Files(k) /\ Processes(k)' = Processes(k)
  BY <1>1, <1>2 DEF Files, Processes
<1>4. \A k, g, i, lines : Due(k, g)' = Due(k, g) /\ (Has(lines, k, i)' <=> Has(lines, k, i))
  BY <1>1, <1>2 DEF Due, Has
<1>5. \A k, t, g : Covering(k, t, g)' <=> Covering(k, t, g)
  BY <1>1, <1>2, <1>4 DEF Covering
<1>6. /\ \A stat, S, W : Stands(stat, S, W)' <=> Stands(stat, S, W)
      /\ \A k, s : Whole(k, s)' = Whole(k, s)
  BY <1>1 DEF Stands, Whole
<1>7. \A k, t, g : Counting(k, t, g)' <=> Counting(k, t, g)
  BY <1>1, <1>6 DEF Counting, Alive
<1>8. \A k, t : (Kept(k, t)' <=> Kept(k, t)) /\ (Dumped(k, t)' <=> Dumped(k, t))
  BY <1>1, <1>6 DEF Kept, Dumped
<1>9. \A t, g : Synced(t, g)' <=> Synced(t, g)
  BY DEF Synced
<1> QED
  BY <1>1, <1>3, <1>5, <1>7, <1>8, <1>9 DEF SliceSound

LEMMA GenerationStep ==
    ASSUME Generating, [Next]_vars
    PROVE  Generating' /\ \A k \in Slices : NotAhead(k)
<1>1. UNCHANGED <<engine, ladder, syncs, silent>>
  BY Setting
<1>2. /\ DOMAIN trace' = Slices /\ DOMAIN gen' = Slices
      /\ \A k \in Slices : SliceSound(k, trace'[k], gen'[k]) /\ NotAhead(k)
  <2>1. CASE UNCHANGED <<trace, gen>>
    BY <2>1 DEF Generating, NotAhead
  <2>2. CASE GenNext
    <3>1. PICK k \in Slices : \/ Generator(k)
                              \/ Generate(k, TRUE) \/ Generate(k, FALSE)
                              \/ KillGenerator(k)
      BY <2>2 DEF GenNext
    <3>2. Frame(k) /\ SliceSound(k, trace'[k], gen'[k]) /\ NotAhead(k)
      <4>1. CASE Generator(k)
        BY <4>1, Begun, Wrote, Asked, ChunkDone, Published, CheckpointSaved, SidecarDumped DEF Generator
      <4> QED
        BY <3>1, <4>1, Started, WentDown
    <3>3. \A j \in Slices \ {k} : SliceSound(j, trace'[j], gen'[j]) /\ NotAhead(j)
      BY <3>2 DEF Frame, Generating, NotAhead
    <3> QED
      BY <3>2, <3>3 DEF Frame
  <2> QED
    BY <2>1, <2>2, OnlyGeneration
<1>3. Slices' = Slices /\ \A k, t, g : SliceSound(k, t, g)' <=> SliceSound(k, t, g)
  BY <1>1, Unmoved
<1> QED
  BY <1>1, <1>2, <1>3 DEF Generating

----------------------------------------------------------------------------
(* Sequences one after the other                                           *)

LEMMA Joined ==
    ASSUME NEW S, NEW a \in Seq(S), NEW b \in Seq(S)
    PROVE  /\ a \o b \in Seq(S) /\ Len(a \o b) = Len(a) + Len(b)
           /\ Len(a) \in Nat /\ Len(b) \in Nat
           /\ \A i \in 1..Len(a) : (a \o b)[i] = a[i]
           /\ \A i \in 1..Len(b) : (a \o b)[Len(a) + i] = b[i]
OBVIOUS

\* The sequences of s up to each of them, one after the other.
Joins(S, s, f) ==
    /\ f \in [1..Len(s) -> Seq(S)] /\ f[1] = s[1]
    /\ \A i \in 2..Len(s) : f[i] = f[i - 1] \o s[i]

LEMMA Flattened ==
    ASSUME NEW S, NEW s \in Seq(Seq(S)), Len(s) # 0
    PROVE  \E f : Joins(S, s, f) /\ FlattenSeq(s) = f[Len(s)]
<1> DEFINE n == Len(s)
           fits(f) == f = [i \in 1..n |-> IF i = 1 THEN s[i] ELSE f[i - 1] \o s[i]]
           c == CHOOSE f : fits(f)
           step == [i \in 1..n |-> [x \in Seq(S) |-> x \o s[i]]]
<1>1. n \in Nat \ {0} /\ \A i \in 1..n : s[i] \in Seq(S)
  OBVIOUS
<1>2. FlattenSeq(s) = c[n]
  BY DEF FlattenSeq
<1>3. <<>> \in Seq(S) /\ step \in [1..n -> [Seq(S) -> Seq(S)]]
  BY <1>1, Joined
<1>4. \A i \in 1..n : \A x \in Seq(S) : step[i][x] = x \o s[i]
  OBVIOUS
<1>5. PICK it : Iteration(n, Seq(S), <<>>, step, it)
  <2> HIDE DEF step
  <2> QED
    BY <1>1, <1>3, Iterated
<1> HIDE DEF step
<1>6. /\ it \in [0..n -> Seq(S)] /\ it[0] = <<>>
      /\ \A i \in 1..n : it[i] = it[i - 1] \o s[i]
  <2>1. ASSUME NEW i \in 1..n PROVE it[i] = it[i - 1] \o s[i]
    <3>1. it[i] = step[i][it[i - 1]] /\ i - 1 \in 0..n /\ it \in [0..n -> Seq(S)]
      BY <1>1, <1>5 DEF Iteration
    <3> QED
      BY <1>4, <3>1
  <2> QED
    BY <1>5, <2>1 DEF Iteration
<1> DEFINE f == [i \in 1..n |-> it[i]]
<1>7. f \in [1..n -> Seq(S)] /\ f[1] = s[1] /\ \A i \in 2..n : f[i] = f[i - 1] \o s[i]
  <2>1. 1 \in 1..n /\ it[1] = <<>> \o s[1] /\ <<>> \o s[1] = s[1]
    <3>0. 1 \in 1..n
      BY <1>1
    <3>1. it[1] = it[1 - 1] \o s[1]
      <4> HIDE DEF n
      <4> QED
        BY ONLY <1>6, <3>0
    <3>3. it[1] = it[0] \o s[1]
      BY ONLY <3>1
    <3>2. <<>> \o s[1] = s[1]
      BY <1>1
    <3> QED
      BY <1>6, <3>0, <3>2, <3>3
  <2>2. \A i \in 2..n : i \in 1..n /\ i - 1 \in 1..n
    BY <1>1
  <2>3. (\A i \in 1..n : f[i] = it[i] /\ it[i] \in Seq(S)) /\ f \in [1..n -> Seq(S)]
    <3>1. 1..n \subseteq 0..n
      BY <1>1
    <3> HIDE DEF n
    <3> QED
      BY ONLY <1>6, <3>1
  <2> HIDE DEF f
  <2>4. ASSUME NEW i \in 2..n PROVE f[i] = f[i - 1] \o s[i]
    BY <1>6, <2>2, <2>3
  <2> QED
    BY <2>1, <2>3, <2>4
<1>8. fits(f)
  <2>1. ASSUME NEW i \in 1..n PROVE f[i] = IF i = 1 THEN s[i] ELSE f[i - 1] \o s[i]
    <3>1. i = 1 \/ i \in 2..n
      BY <1>1
    <3> HIDE DEF f
    <3> QED
      BY <1>7, <3>1
  <2>2. f = [i \in 1..n |-> f[i]]
    OBVIOUS
  <2> HIDE DEF f
  <2> QED
    BY <2>1, <2>2
<1> HIDE DEF f
<1>9. fits(c)
  <2> HIDE DEF fits
  <2> QED
    BY <1>8
<1>10. ASSUME NEW i \in 1..n PROVE c[i] = IF i = 1 THEN s[i] ELSE c[i - 1] \o s[i]
  <2> HIDE DEF c
  <2> QED
    BY <1>9
<1> HIDE DEF c, fits
<1>11. ASSUME NEW i \in 1..n PROVE c[i] = f[i]
  <2> DEFINE bad == {j \in 1..n : c[j] # f[j]}
  <2>1. ASSUME bad # {} PROVE FALSE
    <3>1. PICK j \in bad : \A m \in bad : j <= m
      <4>1. bad \subseteq Nat
        OBVIOUS
      <4> HIDE DEF bad
      <4> QED
        BY <2>1, <4>1, LeastOf
    <3>2. j \in 1..n /\ c[j] # f[j]
      BY <3>1
    <3>3. j # 1
      BY <1>7, <1>10, <3>2
    <3>4. j \in 2..n /\ j - 1 \in 1..n /\ ~(j <= j - 1)
      BY <3>2, <3>3
    <3>5. c[j - 1] = f[j - 1]
      BY <3>1, <3>4
    <3> QED
      BY <1>7, <1>10, <3>2, <3>3, <3>4, <3>5
  <2> QED
    BY <2>1
<1>12. Joins(S, s, f)
  BY <1>7 DEF Joins
<1>13. FlattenSeq(s) = f[Len(s)]
  BY <1>1, <1>2, <1>11
<1> QED
  BY <1>12, <1>13

\* Every part is in the whole, in one piece, and there is nothing else in it.
Composed(s, rows) ==
    /\ \A a \in 1..Len(rows) : \E k \in 1..Len(s) : \E i \in 1..Len(s[k]) : rows[a] = s[k][i]
    /\ \A k \in 1..Len(s) : \E o \in Nat : \A i \in 1..Len(s[k]) :
          o + i \in 1..Len(rows) /\ rows[o + i] = s[k][i]

LEMMA FlattenComposed ==
    ASSUME NEW S, NEW s \in Seq(Seq(S)), Len(s) # 0
    PROVE  FlattenSeq(s) \in Seq(S) /\ Composed(s, FlattenSeq(s))
<1> DEFINE n == Len(s)
<1>1. n \in Nat \ {0} /\ \A i \in 1..n : s[i] \in Seq(S)
  OBVIOUS
<1>2. PICK f : Joins(S, s, f) /\ FlattenSeq(s) = f[n]
  BY Flattened
<1> DEFINE whole(m) ==
             /\ \A a \in 1..Len(f[m]) : \E k \in 1..m : \E i \in 1..Len(s[k]) : f[m][a] = s[k][i]
             /\ \A k \in 1..m : \E o \in Nat : \A i \in 1..Len(s[k]) :
                   o + i \in 1..Len(f[m]) /\ f[m][o + i] = s[k][i]
           bad == {m \in 1..n : ~whole(m)}
<1>3. /\ f \in [1..n -> Seq(S)] /\ f[1] = s[1]
      /\ \A i \in 2..n : f[i] = f[i - 1] \o s[i]
  BY <1>2 DEF Joins
<1>4. whole(1)
  <2>1. 1 \in 1..1 /\ 0 \in Nat /\ \A k \in 1..1 : k = 1
    OBVIOUS
  <2>2. \A i \in 1..Len(s[1]) : 0 + i = i
    BY <1>1
  <2> QED
    BY <1>3, <2>1, <2>2
<1>5. ASSUME NEW m \in 2..n, whole(m - 1) PROVE whole(m)
  <2> DEFINE a == f[m - 1]
             b == s[m]
             c == f[m]
  <2>1. m \in 1..n /\ m - 1 \in 1..n /\ m \in 1..m /\ 1..(m - 1) \subseteq 1..m /\ m \in Nat
    BY <1>1
  <2>2. c = a \o b /\ a \in Seq(S) /\ b \in Seq(S)
    BY <1>1, <1>3, <2>1
  <2>3. /\ Len(c) = Len(a) + Len(b) /\ Len(a) \in Nat /\ Len(b) \in Nat
        /\ \A i \in 1..Len(a) : c[i] = a[i]
        /\ \A i \in 1..Len(b) : c[Len(a) + i] = b[i]
    <3> HIDE DEF a, b, c
    <3>1. /\ Len(a \o b) = Len(a) + Len(b) /\ Len(a) \in Nat /\ Len(b) \in Nat
          /\ \A i \in 1..Len(a) : (a \o b)[i] = a[i]
          /\ \A i \in 1..Len(b) : (a \o b)[Len(a) + i] = b[i]
      BY ONLY <2>2, Joined
    <3> QED
      BY ONLY <2>2, <3>1
  <2> HIDE DEF a, b, c
  <2>4. ASSUME NEW x \in 1..Len(c)
        PROVE  \E k \in 1..m : \E i \in 1..Len(s[k]) : c[x] = s[k][i]
    <3>1. CASE x <= Len(a)
      <4>1. x \in 1..Len(a)
        BY <2>3, <3>1
      <4>2. PICK k \in 1..(m - 1) : \E i \in 1..Len(s[k]) : a[x] = s[k][i]
        BY <1>5, <4>1 DEF a
      <4> QED
        BY <2>1, <2>3, <4>1, <4>2
    <3>2. CASE ~(x <= Len(a))
      <4>1. x - Len(a) \in 1..Len(b) /\ Len(a) + (x - Len(a)) = x
        BY <2>3, <3>2
      <4> QED
        BY <2>1, <2>3, <4>1 DEF b
    <3> QED
      BY <3>1, <3>2
  <2>5. ASSUME NEW k \in 1..m
        PROVE  \E o \in Nat : \A i \in 1..Len(s[k]) : o + i \in 1..Len(c) /\ c[o + i] = s[k][i]
    <3>1. CASE k = m
      <4>1. \A i \in 1..Len(b) : Len(a) + i \in 1..Len(c) /\ c[Len(a) + i] = b[i]
        BY <2>3
      <4> QED
        BY <2>3, <3>1, <4>1 DEF b
    <3>2. CASE k # m
      <4>1. k \in 1..(m - 1)
        BY <2>1, <3>2
      <4>2. PICK o \in Nat : \A i \in 1..Len(s[k]) : o + i \in 1..Len(a) /\ a[o + i] = s[k][i]
        BY <1>5, <4>1 DEF a
      <4>3. 1..Len(a) \subseteq 1..Len(c)
        BY <2>3
      <4> QED
        BY <2>3, <4>2, <4>3
    <3> QED
      BY <3>1, <3>2
  <2> QED
    BY <2>4, <2>5 DEF c
<1> HIDE DEF whole
<1>6. ASSUME bad # {} PROVE FALSE
  <2>1. PICK m \in bad : \A l \in bad : m <= l
    <3>1. bad \subseteq Nat
      OBVIOUS
    <3> HIDE DEF bad
    <3> QED
      BY <1>6, <3>1, LeastOf
  <2>2. m \in 1..n /\ ~whole(m)
    BY <2>1
  <2>3. m \in 2..n
    BY <1>4, <2>2
  <2>4. m - 1 \in 1..n /\ ~(m <= m - 1)
    BY <2>3
  <2>5. whole(m - 1)
    BY <2>1, <2>4
  <2> QED
    BY <1>5, <2>2, <2>3, <2>5
<1>7. n \in 1..n /\ whole(n)
  BY <1>1, <1>6
<1> QED
  BY <1>2, <1>3, <1>7 DEF whole, Composed

----------------------------------------------------------------------------
(* The slices cut the prompts, and the corpus is theirs.                   *)

LEMMA SlicesApart ==
    ASSUME ladder \in Ladders
    PROVE  \A k, l \in Slices : k < l => ladder[k + 1] <= ladder[l]
<1> DEFINE bad == {l \in Slices : \E k \in Slices : k < l /\ ~(ladder[k + 1] <= ladder[l])}
<1>1. /\ ladder \in Seq(0..Rows) /\ Len(ladder) \in Nat /\ Rows \in Nat
      /\ \A k \in 1..(Len(ladder) - 1) : ladder[k] < ladder[k + 1]
      /\ \A k \in 1..Len(ladder) : ladder[k] \in Nat
  BY TracesAssumption, WritersAssumption
<1>2. ASSUME bad # {} PROVE FALSE
  <2>1. PICK l \in bad : \A m \in bad : l <= m
    <3>1. bad \subseteq Nat
      BY <1>1 DEF Slices
    <3> HIDE DEF bad
    <3> QED
      BY <1>2, <3>1, LeastOf
  <2>2. l \in Slices /\ \E k \in Slices : k < l /\ ~(ladder[k + 1] <= ladder[l])
    BY <2>1
  <2>3. PICK k \in Slices : k < l /\ ~(ladder[k + 1] <= ladder[l])
    BY <2>2
  <2>4. /\ l \in 1..(Len(ladder) - 1) /\ k \in 1..(Len(ladder) - 1) /\ l \in Nat /\ k \in Nat
    BY <1>1, <2>2 DEF Slices
  <2>5. CASE k + 1 = l
    <3>1. ladder[l] \in Nat
      BY <1>1, <2>4
    <3> QED
      BY <2>3, <2>5, <3>1
  <2>6. CASE k + 1 # l
    <3>1. l - 1 \in Slices /\ k < l - 1 /\ ~(l <= l - 1) /\ (l - 1) + 1 = l
      BY <1>1, <2>3, <2>4, <2>6 DEF Slices
    <3>2. ladder[k + 1] <= ladder[l - 1]
      BY <2>1, <3>1
    <3>3. ladder[l - 1] < ladder[l]
      BY <1>1, <3>1 DEF Slices
    <3>4. ladder[l - 1] \in Nat /\ ladder[l] \in Nat /\ ladder[k + 1] \in Nat
      <4>1. l - 1 \in 1..Len(ladder) /\ l \in 1..Len(ladder) /\ k + 1 \in 1..Len(ladder)
        BY <1>1, <2>4, <3>1 DEF Slices
      <4> QED
        BY <1>1, <4>1
    <3> QED
      BY <2>3, <3>2, <3>3, <3>4
  <2> QED
    BY <2>5, <2>6
<1> QED
  BY <1>2

LEMMA SlicesCut ==
    ASSUME ladder \in Ladders
    PROVE  /\ \A p \in 1..Rows : \E k \in Slices : \E i \in 1..Size(k) : p = ladder[k] + i
           /\ \A k \in Slices : \A i \in 1..Size(k) : ladder[k] + i \in 1..Rows
           /\ \A k, l \in Slices : \A i \in 1..Size(k) : \A j \in 1..Size(l) :
                 ladder[k] + i = ladder[l] + j => k = l /\ i = j
<1>1. /\ ladder \in Seq(0..Rows) /\ Len(ladder) \in Nat /\ Rows \in Nat
      /\ Len(ladder) > 1 /\ ladder[1] = 0 /\ ladder[Len(ladder)] = Rows
      /\ \A k \in 1..Len(ladder) : ladder[k] \in Nat
  BY TracesAssumption, WritersAssumption
<1>2. \A k \in Slices : /\ ladder[k] \in Nat /\ ladder[k + 1] \in 0 .. Rows
                        /\ Size(k) \in Nat \ {0} /\ ladder[k + 1] = ladder[k] + Size(k)
  BY SliceSize
<1>3. ASSUME NEW p \in 1..Rows PROVE \E k \in Slices : \E i \in 1..Size(k) : p = ladder[k] + i
  <2> DEFINE past == {j \in 1..Len(ladder) : p <= ladder[j]}
  <2>1. past \subseteq Nat /\ Len(ladder) \in past
    BY <1>1
  <2>2. PICK j \in past : \A m \in past : j <= m
    <3> HIDE DEF past
    <3> QED
      BY <2>1, LeastOf
  <2>3. j \in 1..Len(ladder) /\ p <= ladder[j] /\ j # 1 /\ p \in Nat
    BY <1>1, <2>2
  <2>4. j - 1 \in Slices /\ (j - 1) + 1 = j /\ j - 1 \in 1..Len(ladder) /\ ~(j <= j - 1)
    BY <1>1, <2>3 DEF Slices
  <2>5. ~(p <= ladder[j - 1])
    BY <2>2, <2>4
  <2>6. ladder[j - 1] \in Nat /\ ladder[j] = ladder[j - 1] + Size(j - 1) /\ Size(j - 1) \in Nat
    BY <1>2, <2>4
  <2>7. p - ladder[j - 1] \in 1..Size(j - 1) /\ p = ladder[j - 1] + (p - ladder[j - 1])
    BY <2>3, <2>5, <2>6
  <2> QED
    BY <2>4, <2>7
<1>4. ASSUME NEW k \in Slices, NEW i \in 1..Size(k) PROVE ladder[k] + i \in 1..Rows
  BY <1>1, <1>2, SMTT(40)
<1>5. ASSUME NEW k \in Slices, NEW l \in Slices, NEW i \in 1..Size(k), NEW j \in 1..Size(l),
             ladder[k] + i = ladder[l] + j
      PROVE  k = l /\ i = j
  <2>0. k \in Nat /\ l \in Nat /\ i \in Nat /\ j \in Nat
    BY <1>1, <1>2 DEF Slices
  <2>1. ~(k < l)
    BY <1>2, <1>5, <2>0, SlicesApart
  <2>2. ~(l < k)
    BY <1>2, <1>5, <2>0, SlicesApart
  <2>3. k = l
    BY <2>0, <2>1, <2>2
  <2> QED
    BY <1>2, <1>5, <2>0, <2>3
<1> QED
  BY <1>3, <1>4, <1>5

\* Rows with different keys for all of them.
LEMMA KeysDiffer ==
    ASSUME NEW rows \in Seq(AllLines), Distinct(rows)
    PROVE  \A i, j \in 1..Len(rows) : rows[i].key = rows[j].key => i = j
<1> DEFINE n == Len(rows)
           f == [i \in 1..n |-> rows[i].key]
<1>1. n \in Nat /\ ToSet(rows) = {rows[i] : i \in 1..n} /\ Cardinality(Keys(rows)) = n
  BY Elements DEF Distinct
<1>2. \A i \in 1..n : f[i] = rows[i].key /\ f[i] \in Keys(rows)
  BY <1>1, ZenonT(60) DEF Keys
<1>3. \A x \in Keys(rows) : \E i \in 1..n : f[i] = x
  BY <1>1, ZenonT(60) DEF Keys
<1>4. f \in [1..n -> Keys(rows)]
  BY <1>2
<1>5. f \in Surjection(1..n, Keys(rows))
  <2> HIDE DEF f
  <2> QED
    BY ONLY <1>3, <1>4 DEF Surjection
<1> HIDE DEF f
<1>6. f \in Injection(1..n, Keys(rows))
  BY ONLY <1>1, <1>5, UpToFacts, FS_Surjection
<1>7. \A i, j \in 1..n : f[i] = f[j] => i = j
  BY ONLY <1>6 DEF Injection, IsInjective
<1> QED
  BY <1>2, <1>7

Outs == [k \in Slices |-> trace[k].out]

LEMMA OutFacts ==
    ASSUME Generating, \A k \in Slices : gen[k].pc = "done"
    PROVE  /\ Outs \in Seq(Seq(AllLines)) /\ Len(Outs) = Len(ladder) - 1 /\ Len(Outs) # 0
           /\ 1..Len(Outs) = Slices
           /\ \A k \in Slices :
                 /\ Outs[k] \in Seq(Lines(k)) /\ Outs[k] = trace[k].out
                 /\ OnceEach(Outs[k]) => \A i \in Answers(k) : Has(Outs[k], k, i)
<1>1. ladder \in Ladders /\ Len(ladder) \in Nat /\ Len(ladder) > 1 /\ Slices = 1..(Len(ladder) - 1)
  BY TracesAssumption DEF Generating, Slices
<1>2. ASSUME NEW k \in Slices
      PROVE  /\ trace[k].out \in Seq(Lines(k)) /\ Lines(k) \subseteq AllLines
             /\ OnceEach(trace[k].out) => \A i \in Answers(k) : Has(trace[k].out, k, i)
  <2>1. trace[k].out \in Seq(Lines(k)) /\ Covering(k, trace[k], gen[k]) /\ gen[k].pc = "done"
    BY SliceFields
  <2>2. ladder[k] \in Nat /\ Size(k) \in Nat /\ Answers(k) \subseteq 1..Size(k)
    BY <1>1, SliceSize, LineFacts
  <2>3. Lines(k) \subseteq AllLines
    BY <2>2 DEF Lines, AllLines, Row, Torn
  <2> QED
    BY <2>1, <2>3 DEF Covering
<1>3. \A k \in Slices : Outs[k] = trace[k].out /\ Outs[k] \in Seq(AllLines)
  BY <1>2 DEF Outs
<1>4. Outs \in Seq(Seq(AllLines)) /\ Len(Outs) = Len(ladder) - 1
  <2>1. Outs = [k \in 1..(Len(ladder) - 1) |-> Outs[k]] /\ Len(ladder) - 1 \in Nat
    BY <1>1 DEF Outs
  <2>2. Outs \in [1..(Len(ladder) - 1) -> Seq(AllLines)]
    BY <1>1, <1>3, <2>1
  <2> QED
    BY <2>1, <2>2
<1> QED
  BY <1>1, <1>2, <1>3, <1>4

\* What the outputs make, if no two of its rows have the same key, is every
\* prompt that is answered, once.
LEMMA CorpusComposed ==
    ASSUME Generating, \A k \in Slices : gen[k].pc = "done",
           NEW rows \in Seq(AllLines), Composed(Outs, rows)
    PROVE  CorpusOf(rows)
<1> SUFFICES ASSUME Distinct(rows)
             PROVE  /\ Prompts(rows) = ToAnswer
                    /\ \A i, j \in 1..Len(rows) : rows[i].prompt = rows[j].prompt => i = j
  BY DEF CorpusOf
<1>1. /\ ladder \in Ladders /\ engine \in {"hf", "vllm"} /\ 1..Len(Outs) = Slices
      /\ \A k \in Slices :
            /\ Outs[k] \in Seq(Lines(k))
            /\ OnceEach(Outs[k]) => \A i \in Answers(k) : Has(Outs[k], k, i)
  BY OutFacts, TracesAssumption DEF Generating
<1>2. /\ Torn \notin ToSet(rows) /\ ToSet(rows) = {rows[i] : i \in 1..Len(rows)}
      /\ Len(rows) \in Nat
      /\ \A i, j \in 1..Len(rows) : rows[i].key = rows[j].key => i = j
  BY KeysDiffer, Elements DEF Distinct
<1>3. /\ \A k \in Slices : \E o \in Nat : \A i \in 1..Len(Outs[k]) :
            o + i \in 1..Len(rows) /\ rows[o + i] = Outs[k][i]
      /\ \A a \in 1..Len(rows) : \E k \in Slices : \E i \in 1..Len(Outs[k]) : rows[a] = Outs[k][i]
  BY <1>1 DEF Composed
<1>4. ASSUME NEW k \in Slices
      PROVE  /\ OnceEach(Outs[k]) /\ ToSet(Outs[k]) \subseteq ToSet(rows)
             /\ ToSet(Outs[k]) = {Outs[k][i] : i \in 1..Len(Outs[k])}
  <2>1. PICK o \in Nat : \A i \in 1..Len(Outs[k]) :
            o + i \in 1..Len(rows) /\ rows[o + i] = Outs[k][i]
    BY <1>3
  <2>2. Len(Outs[k]) \in Nat /\ ToSet(Outs[k]) = {Outs[k][i] : i \in 1..Len(Outs[k])}
    BY <1>1, Elements
  <2>3. ToSet(Outs[k]) \subseteq ToSet(rows)
    BY <1>2, <2>1, <2>2
  <2>4. ASSUME NEW i \in 1..Len(Outs[k]), NEW j \in 1..Len(Outs[k]), Outs[k][i] = Outs[k][j]
        PROVE  i = j
    <3>1. o + i \in 1..Len(rows) /\ o + j \in 1..Len(rows) /\ rows[o + i] = rows[o + j]
      BY <2>1, <2>4
    <3>2. o + i = o + j
      BY <1>2, <3>1
    <3> QED
      BY <2>2, <3>2
  <2> QED
    BY <1>2, <2>2, <2>3, <2>4 DEF OnceEach
<1>5. ASSUME NEW a \in 1..Len(rows)
      PROVE  \E k \in Slices : \E i \in Answers(k) : rows[a] = Row(k, i)
  <2>1. PICK k \in Slices : \E i \in 1..Len(Outs[k]) : rows[a] = Outs[k][i]
    BY <1>3
  <2>2. PICK i \in 1..Len(Outs[k]) : rows[a] = Outs[k][i]
    BY <2>1
  <2>3. rows[a] \in ToSet(rows) /\ rows[a] # Torn
    BY <1>2
  <2>4. rows[a] \in Lines(k)
    BY <1>1, <2>2
  <2> QED
    BY <1>1, <2>3, <2>4, LineFacts
<1>6. ASSUME NEW k \in Slices, NEW i \in Answers(k) PROVE Row(k, i) \in ToSet(rows)
  <2>1. OnceEach(Outs[k]) /\ ToSet(Outs[k]) \subseteq ToSet(rows)
    BY <1>4
  <2>2. Has(Outs[k], k, i)
    BY <1>1, <2>1
  <2> QED
    BY <2>1, <2>2 DEF Has
<1>7. ASSUME NEW k \in Slices, NEW i \in 1..Size(k)
      PROVE  i \in Answers(k) <=> ladder[k] + i \in ToAnswer
  <2>1. ladder[k] + i \in 1..Rows
    BY <1>1, SlicesCut
  <2> QED
    BY <1>1, <2>1 DEF Answers, ToAnswer, IsForced, Answered
<1>8. \A k \in Slices : Answers(k) \subseteq 1..Size(k) /\ \A i \in 1..Size(k) : Row(k, i).prompt = ladder[k] + i
  BY <1>1, LineFacts
<1>9. Prompts(rows) \subseteq ToAnswer
  <2> SUFFICES ASSUME NEW a \in 1..Len(rows) PROVE rows[a].prompt \in ToAnswer
    BY <1>2 DEF Prompts
  <2>1. PICK k \in Slices : \E i \in Answers(k) : rows[a] = Row(k, i)
    BY <1>5
  <2>2. PICK i \in Answers(k) : rows[a] = Row(k, i)
    BY <2>1
  <2> QED
    BY <1>7, <1>8, <2>2
<1>10. ToAnswer \subseteq Prompts(rows)
  <2> SUFFICES ASSUME NEW p \in ToAnswer PROVE p \in Prompts(rows)
    OBVIOUS
  <2>1. p \in 1..Rows
    BY DEF ToAnswer
  <2>2. PICK k \in Slices : \E i \in 1..Size(k) : p = ladder[k] + i
    BY <1>1, <2>1, SlicesCut
  <2>3. PICK i \in 1..Size(k) : p = ladder[k] + i
    BY <2>2
  <2>4. i \in Answers(k)
    BY <1>7, <2>3
  <2>5. Row(k, i) \in ToSet(rows)
    BY <1>6, <2>4
  <2> QED
    BY <1>8, <2>3, <2>5 DEF Prompts
<1>11. ASSUME NEW a \in 1..Len(rows), NEW b \in 1..Len(rows), rows[a].prompt = rows[b].prompt
       PROVE  a = b
  <2>1. PICK k \in Slices : \E i \in Answers(k) : rows[a] = Row(k, i)
    BY <1>5
  <2>2. PICK i \in Answers(k) : rows[a] = Row(k, i)
    BY <2>1
  <2>3. PICK l \in Slices : \E j \in Answers(l) : rows[b] = Row(l, j)
    BY <1>5
  <2>4. PICK j \in Answers(l) : rows[b] = Row(l, j)
    BY <2>3
  <2>5. i \in 1..Size(k) /\ j \in 1..Size(l) /\ ladder[k] + i = ladder[l] + j
    BY <1>8, <1>11, <2>2, <2>4
  <2>6. k = l /\ i = j
    BY <1>1, <2>5, SlicesCut
  <2>7. rows[a] = rows[b]
    BY <2>2, <2>4, <2>6
  <2> QED
    BY <1>2, <2>7
<1> QED
  BY <1>9, <1>10, <1>11

LEMMA OutputTaken ==
    ASSUME Generating, TakeOutput
    PROVE  CorpusOf(corpus')
<1>1. Len(ladder) = 2 /\ gen[1].pc = "done" /\ corpus' = trace[1].out
  BY DEF TakeOutput
<1>2. Slices = 1..1 /\ 1 \in Slices /\ \A k \in Slices : k = 1
  BY <1>1 DEF Slices
<1>3. \A k \in Slices : gen[k].pc = "done"
  BY <1>1, <1>2
<1>4. /\ Outs \in Seq(Seq(AllLines)) /\ 1..Len(Outs) = Slices /\ Outs[1] = trace[1].out
  BY <1>2, <1>3, OutFacts
<1>5. Outs[1] \in Seq(AllLines) /\ corpus' = Outs[1]
  BY <1>1, <1>2, <1>4
<1> HIDE DEF Outs
<1>6. Composed(Outs, Outs[1])
  <2>1. 0 \in Nat /\ \A i \in 1..Len(Outs[1]) : 0 + i = i
    OBVIOUS
  <2> QED
    BY <1>2, <1>4, <2>1 DEF Composed
<1> QED
  BY <1>3, <1>5, <1>6, CorpusComposed

LEMMA OutputsConcatenated ==
    ASSUME Generating, Concatenate, stage' = "corpus"
    PROVE  CorpusOf(corpus')
<1>1. /\ \A k \in Slices : gen[k].pc = "done"
      /\ corpus' = FlattenSeq(Outs)
  BY DEF Concatenate, Outs
<1>2. Outs \in Seq(Seq(AllLines)) /\ Len(Outs) # 0
  BY <1>1, OutFacts
<1>3. FlattenSeq(Outs) \in Seq(AllLines) /\ Composed(Outs, FlattenSeq(Outs))
  BY <1>2, FlattenComposed
<1> QED
  BY <1>1, <1>3, CorpusComposed

LEMMA Indexed ==
    ASSUME NEW S, NEW m \in Nat, NEW t \in [1..m -> S]
    PROVE  t \in Seq(S) /\ Len(t) = m
<1>1. t \in Seq(S)
  OBVIOUS
<1>2. Len(t) \in Nat /\ DOMAIN t = 1..Len(t)
  BY <1>1, LenProperties
<1>3. 1..Len(t) = 1..m
  BY <1>2
<1> QED
  BY <1>2, <1>3

LEMMA Ceiling ==
    ASSUME NEW a \in Nat, NEW n \in Nat \ {0}
    PROVE  CeilDiv(a, n) \in Nat /\ a <= n * CeilDiv(a, n)
<1>1. a + n - 1 \in Nat
  OBVIOUS
<1>2. \A x \in Nat : \A m \in Nat \ {0} : x \div m \in Nat /\ x < m * (x \div m) + m
  OBVIOUS
<1> DEFINE z == (a + n - 1) \div n
<1>3. z \in Nat /\ a + n - 1 < n * z + n
  BY <1>1, <1>2
<1>4. \A x \in Nat \ {0} : \A y \in Nat : x * y \in Nat
  OBVIOUS
<1>5. n * z \in Nat
  BY <1>3, <1>4
<1> QED
  BY <1>3, <1>5 DEF CeilDiv

LEMMA Stride == \A x, y, z \in Nat : /\ x * z \in Nat /\ (x + 1) * z = x * z + z
                                     /\ x <= y => x * z <= y * z
<1>1. \A x, z \in Nat : x * z \in Nat /\ (x + 1) * z = x * z + z
  OBVIOUS
<1>2. ASSUME NEW x \in Nat, NEW y \in Nat, NEW z \in Nat, x <= y PROVE x * z <= y * z
  <2>1. y - x \in Nat /\ y = x + (y - x)
    BY <1>2
  <2>2. \A u, v \in Nat : (u + v) * z = u * z + v * z
    OBVIOUS
  <2>3. y * z = x * z + (y - x) * z
    BY <2>1, <2>2
  <2>4. x * z \in Nat /\ y * z \in Nat /\ (y - x) * z \in Nat
    BY <1>1, <2>1
  <2> QED
    BY <2>3, <2>4
<1> QED
  BY <1>1, <1>2

\* The shards of a corpus, in terms of where each begins.
Piece(rows, n, k) == [i \in DOMAIN Cut(rows, n)[k] |-> Cut(rows, n)[k][i].prompt]
Pieces(rows, n) == [k \in 1..n |-> Piece(rows, n, k)]
Begins(rows, n) == [k \in 0..n |-> k * CeilDiv(Len(rows), n)]
Ends(rows, n, k) ==
    IF Begins(rows, n)[k] < Len(rows) THEN Begins(rows, n)[k] ELSE Len(rows)

Placed(rows, n, b) ==
    /\ Len(rows) \in Nat /\ b \in [0..n -> Nat] /\ b[0] = 0 /\ Ends(rows, n, n) = Len(rows)
    /\ \A k, l \in 0..n : k <= l => b[k] <= b[l]
    /\ \A k \in 1..n : /\ b[k - 1] \in Nat /\ b[k] \in Nat /\ Ends(rows, n, k) \in Nat
                      /\ b[k - 1] < Ends(rows, n, k) /\ b[k - 1] < Len(rows)
                      /\ Ends(rows, n, k) <= b[k] /\ Ends(rows, n, k) <= Len(rows)
    /\ \A k \in 1..n : /\ Piece(rows, n, k) \in Seq(1..Rows)
                      /\ Len(Piece(rows, n, k)) = Ends(rows, n, k) - b[k - 1]
    /\ \A k \in 1..n : \A i \in 1..(Ends(rows, n, k) - b[k - 1]) :
          Piece(rows, n, k)[i] = rows[b[k - 1] + i].prompt

LEMMA PieceFacts ==
    ASSUME NEW rows \in Seq(AllLines), CorpusOf(rows), NEW n \in Nat \ {0}, Splittable(rows, n),
           NEW b, b = Begins(rows, n)
    PROVE  Placed(rows, n, b)
<1> DEFINE len == Len(rows)
           z == CeilDiv(len, n)
           E(k) == IF b[k] < len THEN b[k] ELSE len
<1>1. len \in Nat /\ z \in Nat /\ len <= n * z
  BY Ceiling
<1>2. /\ b \in [0..n -> Nat] /\ \A k \in 0..n : b[k] = k * z
      /\ \A k \in 0..n : Ends(rows, n, k) = E(k)
  <2>1. b = [k \in 0..n |-> k * z]
    BY DEF Begins
  <2>2. \A k \in 0..n : k * z \in Nat
    BY <1>1, Stride
  <2> HIDE DEF z
  <2> QED
    BY <2>1, <2>2 DEF Ends
<1>3. b[0] = 0
  <2>1. 0 \in 0..n /\ 0 * z = 0
    BY <1>1
  <2> QED
    BY <1>2, <2>1
<1>4. Ends(rows, n, n) = len
  <2>1. n \in 0..n
    OBVIOUS
  <2> HIDE DEF z
  <2> QED
    BY <1>1, <1>2, <2>1
<1>5. ASSUME NEW k \in 0..n, NEW l \in 0..n, k <= l PROVE b[k] <= b[l]
  <2>1. k \in Nat /\ l \in Nat
    OBVIOUS
  <2> HIDE DEF z
  <2> QED
    BY <1>1, <1>2, <1>5, <2>1, Stride
<1>6. ASSUME NEW k \in 1..n
      PROVE  /\ b[k - 1] \in Nat /\ b[k - 1] + z = b[k] /\ E(k) \in Nat /\ E(k) <= b[k] /\ E(k) <= len
             /\ Cut(rows, n)[k] = SubSeq(rows, b[k - 1] + 1, E(k))
             /\ Cut(rows, n)[k] # <<>>
  <2>1. k - 1 \in 0..n /\ k \in 0..n /\ k - 1 \in Nat /\ (k - 1) + 1 = k
    OBVIOUS
  <2>2. b[k - 1] = (k - 1) * z /\ b[k] = k * z /\ b[k - 1] \in Nat /\ b[k] \in Nat
    <3> HIDE DEF z
    <3> QED
      BY <1>2, <2>1
  <2>3. b[k - 1] + z = b[k]
    <3> HIDE DEF z
    <3>1. ((k - 1) + 1) * z = (k - 1) * z + z
      BY <1>1, <2>1, Stride
    <3> QED
      BY <2>1, <2>2, <3>1
  <2>4. Cut(rows, n)[k] = SubSeq(rows, (k - 1) * z + 1, IF k * z < len THEN k * z ELSE len)
    <3>1. Cut(rows, n) = [j \in 1..n |-> SubSeq(rows, (j - 1) * z + 1,
                                                IF j * z < len THEN j * z ELSE len)]
      BY DEF Cut
    <3> HIDE DEF z
    <3> QED
      BY <3>1
  <2>5. Cut(rows, n)[k] = SubSeq(rows, b[k - 1] + 1, E(k))
    <3> HIDE DEF z
    <3> QED
      BY <2>2, <2>4
  <2>6. E(k) \in Nat /\ E(k) <= b[k] /\ E(k) <= len
    BY <1>1, <2>2
  <2> QED
    BY <2>2, <2>3, <2>5, <2>6 DEF Splittable
<1>7. ASSUME NEW k \in 1..n
      PROVE  /\ b[k - 1] < E(k) /\ b[k - 1] < len
             /\ Piece(rows, n, k) \in Seq(1..Rows) /\ Len(Piece(rows, n, k)) = E(k) - b[k - 1]
             /\ \A i \in 1..(E(k) - b[k - 1]) : Piece(rows, n, k)[i] = rows[b[k - 1] + i].prompt
  <2> DEFINE c == Cut(rows, n)[k]
             s == b[k - 1]
             e == E(k)
  <2>0. s \in Nat /\ e \in Nat /\ e <= len /\ c = SubSeq(rows, s + 1, e) /\ c # <<>>
    BY <1>6
  <2> HIDE DEF c, s, e
  <2>1. s < e
    <3>1. CASE ~(s < e)
      <4>1. SubSeq(rows, s + 1, e) = <<>>
        BY <2>0, <3>1
      <4> QED
        BY <2>0, <4>1
    <3> QED
      BY <3>1
  <2>2. /\ c \in Seq(AllLines) /\ Len(c) = e - s
        /\ \A i \in 1..(e - s) : c[i] = rows[s + i]
    <3>1. s + 1 \in 1..Len(rows) /\ e \in 1..Len(rows) /\ s + 1 <= e
      BY <1>1, <2>0, <2>1
    <3>2. /\ SubSeq(rows, s + 1, e) \in Seq(AllLines)
          /\ Len(SubSeq(rows, s + 1, e)) = e - (s + 1) + 1
          /\ \A i \in 1..(e - (s + 1) + 1) : SubSeq(rows, s + 1, e)[i] = rows[(s + 1) + i - 1]
      BY <2>0, <3>1, SubSeqProperties
    <3>3. e - (s + 1) + 1 = e - s /\ \A i \in 1..(e - s) : (s + 1) + i - 1 = s + i
      BY <2>0
    <3> QED
      BY <2>0, <3>2, <3>3
  <2>3. ASSUME NEW i \in 1..(e - s) PROVE s + i \in 1..len /\ rows[s + i].prompt \in 1..Rows
    <3>1. s + i \in 1..len
      BY <1>1, <2>0
    <3>2. rows[s + i] \in ToSet(rows)
      BY <3>1, Elements
    <3>3. rows[s + i].prompt \in Prompts(rows)
      BY <3>2 DEF Prompts
    <3> QED
      BY <3>1, <3>3 DEF CorpusOf, Splittable, ToAnswer
  <2>4. DOMAIN c = 1..(e - s) /\ e - s \in Nat
    BY <2>0, <2>1, <2>2
  <2>5. Piece(rows, n, k) = [i \in 1..(e - s) |-> rows[s + i].prompt]
    <3>1. Piece(rows, n, k) = [i \in DOMAIN c |-> c[i].prompt]
      BY DEF Piece, c
    <3> QED
      BY <2>2, <2>4, <3>1
  <2>6. Piece(rows, n, k) \in Seq(1..Rows) /\ Len(Piece(rows, n, k)) = e - s
        /\ \A i \in 1..(e - s) : Piece(rows, n, k)[i] = rows[s + i].prompt
    <3>1. \A i \in 1..(e - s) : rows[s + i].prompt \in 1..Rows
      BY <2>3
    <3>2. PICK m \in Nat : m = e - s
      BY <2>4
    <3>3. Piece(rows, n, k) = [i \in 1..m |-> rows[s + i].prompt]
      BY <2>5, <3>2
    <3>4. Piece(rows, n, k) \in [1..m -> 1..Rows]
      BY <3>1, <3>2, <3>3
    <3>5. Piece(rows, n, k) \in Seq(1..Rows) /\ Len(Piece(rows, n, k)) = m
      BY ONLY <3>2, <3>4, Indexed
    <3> QED
      BY ONLY <3>2, <3>3, <3>5
  <2>7. s < len
    BY <1>1, <2>0, <2>1
  <2> QED
    BY <2>1, <2>6, <2>7 DEF s, e
<1>8. ASSUME NEW k \in 1..n
      PROVE  /\ Ends(rows, n, k) = E(k) /\ E(k) \in Nat /\ E(k) <= b[k] /\ E(k) <= len
  <2>1. k \in 0..n
    OBVIOUS
  <2> HIDE DEF E
  <2> QED
    BY <1>2, <1>6, <2>1
<1> HIDE DEF E, len
<1>9. ASSUME NEW k \in 1..n
      PROVE  /\ b[k - 1] \in Nat /\ b[k] \in Nat /\ Ends(rows, n, k) \in Nat
             /\ b[k - 1] < Ends(rows, n, k) /\ b[k - 1] < len
             /\ Ends(rows, n, k) <= b[k] /\ Ends(rows, n, k) <= len
  <2>1. b[k - 1] \in Nat /\ b[k] \in Nat
    BY <1>2
  <2> QED
    BY <1>7, <1>8, <2>1
<1>10. \A k \in 1..n : /\ Piece(rows, n, k) \in Seq(1..Rows)
                      /\ Len(Piece(rows, n, k)) = Ends(rows, n, k) - b[k - 1]
  BY <1>7, <1>8
<1>11. ASSUME NEW k \in 1..n, NEW i \in 1..(Ends(rows, n, k) - b[k - 1])
       PROVE  Piece(rows, n, k)[i] = rows[b[k - 1] + i].prompt
  <2>1. Ends(rows, n, k) = E(k)
    BY <1>8
  <2> QED
    BY <1>7, <2>1
<1> QED
  BY <1>1, <1>2, <1>3, <1>4, <1>5, <1>9, <1>10, <1>11 DEF len, Placed

\* The shards one after the other are the prompts of the corpus.
LEMMA PiecesFlattened ==
    ASSUME NEW rows \in Seq(AllLines), CorpusOf(rows), NEW n \in Nat \ {0}, Splittable(rows, n)
    PROVE  /\ Pieces(rows, n) \in Seq(Seq(1..Rows)) /\ Len(Pieces(rows, n)) = n
           /\ LET all == FlattenSeq(Pieces(rows, n)) IN
              all \in Seq(1..Rows) /\ Len(all) = Len(rows)
              /\ \A a \in 1..Len(rows) : all[a] = rows[a].prompt
<1> DEFINE s == Pieces(rows, n)
           len == Len(rows)
           E(k) == Ends(rows, n, k)
<1>1. PICK b : b = Begins(rows, n)
  OBVIOUS
<1>0. Placed(rows, n, b)
  BY <1>1, PieceFacts
<1>2. /\ len \in Nat /\ b \in [0..n -> Nat] /\ b[0] = 0 /\ E(n) = len
      /\ \A k \in 1..n : E(k) \in Nat /\ b[k - 1] < E(k) /\ b[k - 1] < len
  BY <1>0 DEF Placed
<1>11. \A k \in 1..n : /\ Piece(rows, n, k) \in Seq(1..Rows)
                      /\ Len(Piece(rows, n, k)) = E(k) - b[k - 1]
  BY <1>0 DEF Placed
<1>12. \A k \in 1..n : \A i \in 1..(E(k) - b[k - 1]) :
          Piece(rows, n, k)[i] = rows[b[k - 1] + i].prompt
  BY <1>0 DEF Placed
<1>3. \A k \in 0..n : E(k) = IF b[k] < len THEN b[k] ELSE len
  BY <1>1 DEF Ends
<1>4. /\ s \in [1..n -> Seq(1..Rows)] /\ \A k \in 1..n : s[k] = Piece(rows, n, k)
      /\ s \in Seq(Seq(1..Rows)) /\ Len(s) = n
  <2>1. \A k \in 1..n : s[k] = Piece(rows, n, k)
    BY DEF Pieces
  <2>2. s \in [1..n -> Seq(1..Rows)]
    BY <1>11, <2>1 DEF Pieces
  <2> HIDE DEF s
  <2> QED
    BY <2>1, <2>2, Indexed
<1> HIDE DEF s, E, len
<1>5. PICK f : Joins(1..Rows, s, f) /\ FlattenSeq(s) = f[n]
  BY <1>4, Flattened
<1>6. /\ f \in [1..n -> Seq(1..Rows)] /\ f[1] = s[1]
      /\ \A i \in 2..n : f[i] = f[i - 1] \o s[i]
  BY <1>4, <1>5 DEF Joins
<1> DEFINE right(m) == Len(f[m]) = E(m) /\ \A a \in 1..E(m) : f[m][a] = rows[a].prompt
           bad == {m \in 1..n : ~right(m)}
<1>7. right(1)
  <2>1. 1 \in 1..n /\ 1 - 1 = 0
    OBVIOUS
  <2>2. /\ Len(s[1]) = E(1) - b[0] /\ E(1) \in Nat
        /\ \A i \in 1..(E(1) - b[0]) : s[1][i] = rows[b[0] + i].prompt
    BY <1>2, <1>4, <1>11, <1>12, <2>1
  <2>3. E(1) - b[0] = E(1) /\ \A i \in 1..E(1) : b[0] + i = i
    BY <1>2, <2>2
  <2> QED
    BY <1>6, <2>2, <2>3
<1>8. ASSUME NEW m \in 2..n, right(m - 1) PROVE right(m)
  <2>1. m \in 1..n /\ m - 1 \in 1..n /\ m - 1 \in 0..n /\ m \in Nat
    OBVIOUS
  <2>2. f[m] = f[m - 1] \o s[m] /\ f[m - 1] \in Seq(1..Rows) /\ s[m] \in Seq(1..Rows)
    BY <1>4, <1>6, <2>1
  <2>3. /\ Len(f[m]) = Len(f[m - 1]) + Len(s[m])
        /\ \A i \in 1..Len(f[m - 1]) : f[m][i] = f[m - 1][i]
        /\ \A i \in 1..Len(s[m]) : f[m][Len(f[m - 1]) + i] = s[m][i]
    <3> DEFINE x == f[m - 1]
               y == s[m]
               w == f[m]
    <3> HIDE DEF x, y, w
    <3>1. w = x \o y /\ x \in Seq(1..Rows) /\ y \in Seq(1..Rows)
      BY <2>2 DEF x, y, w
    <3>2. /\ Len(w) = Len(x) + Len(y)
          /\ \A i \in 1..Len(x) : w[i] = x[i]
          /\ \A i \in 1..Len(y) : w[Len(x) + i] = y[i]
      BY ONLY <3>1, Joined
    <3> QED
      BY <3>2 DEF x, y, w
  <2>4. PICK o \in Nat : o = b[m - 1] /\ E(m - 1) = o
    BY <1>2, <1>3, <2>1
  <2>5. PICK e \in Nat : e = E(m) /\ o < e
    BY <1>2, <2>1, <2>4
  <2>6. Len(f[m - 1]) = o /\ \A a \in 1..o : f[m - 1][a] = rows[a].prompt
    BY <1>8, <2>4
  <2>7. Len(s[m]) = e - o /\ \A i \in 1..(e - o) : s[m][i] = rows[o + i].prompt
    <3>1. s[m] = Piece(rows, n, m)
      BY <1>4, <2>1
    <3>2. Len(Piece(rows, n, m)) = E(m) - b[m - 1]
      BY <1>11, <2>1
    <3>3. \A i \in 1..(E(m) - b[m - 1]) : Piece(rows, n, m)[i] = rows[b[m - 1] + i].prompt
      BY <1>12, <2>1
    <3> QED
      BY <2>4, <2>5, <3>1, <3>2, <3>3
  <2>8. Len(f[m]) = e
    BY <2>3, <2>4, <2>5, <2>6, <2>7
  <2>9. ASSUME NEW a \in 1..e PROVE f[m][a] = rows[a].prompt
    <3>1. CASE a <= o
      <4>1. a \in 1..o
        BY <2>4, <3>1
      <4> QED
        BY <2>3, <2>6, <4>1
    <3>2. CASE ~(a <= o)
      <4>1. PICK i \in 1..(e - o) : a = o + i
        <5>1. a - o \in 1..(e - o) /\ a = o + (a - o)
          BY <2>4, <2>5, <3>2
        <5> QED
          BY <5>1
      <4>2. f[m][o + i] = s[m][i]
        BY <2>3, <2>6, <2>7
      <4> QED
        BY <2>7, <4>1, <4>2
    <3> QED
      BY <3>1, <3>2
  <2> QED
    BY <2>5, <2>8, <2>9
<1> HIDE DEF right
<1>9. ASSUME bad # {} PROVE FALSE
  <2>1. PICK m \in bad : \A l \in bad : m <= l
    <3>1. bad \subseteq Nat
      OBVIOUS
    <3> HIDE DEF bad
    <3> QED
      BY <1>9, <3>1, LeastOf
  <2>2. m \in 1..n /\ ~right(m)
    BY <2>1
  <2>3. m \in 2..n
    BY <1>7, <2>2
  <2>4. m - 1 \in 1..n /\ ~(m <= m - 1)
    BY <2>3
  <2>5. right(m - 1)
    BY <2>1, <2>4
  <2> QED
    BY <1>8, <2>2, <2>3, <2>5
<1>10. n \in 1..n /\ right(n)
  BY <1>9
<1> QED
  BY <1>2, <1>4, <1>5, <1>6, <1>10 DEF right, s, len

\* The shards share no prompt and have all of them.
LEMMA PiecesHandedOut ==
    ASSUME NEW rows \in Seq(AllLines), CorpusOf(rows), NEW n \in Nat \ {0}, Splittable(rows, n)
    PROVE  DealtOut(Pieces(rows, n), rows)
<1> DEFINE s == Pieces(rows, n)
           E(k) == Ends(rows, n, k)
<1>1. PICK b : b = Begins(rows, n)
  OBVIOUS
<1>0. Placed(rows, n, b)
  BY <1>1, PieceFacts
<1>2. /\ Len(rows) \in Nat /\ b \in [0..n -> Nat]
      /\ \A k, l \in 0..n : k <= l => b[k] <= b[l]
      /\ \A k \in 1..n : /\ b[k - 1] \in Nat /\ b[k] \in Nat /\ E(k) \in Nat
                        /\ b[k - 1] < E(k) /\ E(k) <= b[k] /\ E(k) <= Len(rows)
  BY <1>0 DEF Placed
<1>3. /\ DOMAIN s = 1..n
      /\ \A k \in 1..n : s[k] \in Seq(1..Rows) /\ Len(s[k]) = E(k) - b[k - 1]
  BY <1>0 DEF Pieces, Placed
<1>12. \A k \in 1..n : \A i \in 1..Len(s[k]) : s[k][i] = rows[b[k - 1] + i].prompt
  <2> SUFFICES ASSUME NEW k \in 1..n, NEW i \in 1..Len(s[k])
               PROVE  s[k][i] = rows[b[k - 1] + i].prompt
    OBVIOUS
  <2>1. i \in 1..(E(k) - b[k - 1]) /\ s[k] = Piece(rows, n, k)
    BY <1>3 DEF Pieces
  <2>2. \A j \in 1..(E(k) - b[k - 1]) : Piece(rows, n, k)[j] = rows[b[k - 1] + j].prompt
    BY <1>0 DEF Placed
  <2> QED
    BY <2>1, <2>2
<1>4. \A i, j \in 1..Len(rows) : rows[i].prompt = rows[j].prompt => i = j
  BY DEF CorpusOf, Splittable
<1> HIDE DEF s, E
<1>11. ASSUME NEW k \in 1..n
       PROVE  ToSet(s[k]) = {s[k][i] : i \in 1..Len(s[k])} /\ Len(s[k]) \in Nat
  <2>1. s[k] \in Seq(1..Rows)
    BY <1>3
  <2> QED
    BY <2>1, Elements
<1>13. ASSUME NEW k \in 1..n, NEW i \in 1..Len(s[k])
       PROVE  b[k - 1] + i \in 1..Len(rows) /\ b[k - 1] + i <= b[k]
  <2>1. Len(s[k]) = E(k) - b[k - 1]
    BY <1>3
  <2>2. /\ b[k - 1] \in Nat /\ b[k] \in Nat /\ E(k) \in Nat
        /\ E(k) <= b[k] /\ E(k) <= Len(rows)
    BY <1>2
  <2> QED
    BY <1>2, <2>1, <2>2, SMTT(40)
<1>6. ASSUME NEW k \in 1..n, NEW i \in 1..Len(s[k]), NEW l \in 1..n, NEW j \in 1..Len(s[l]),
             s[k][i] = s[l][j]
      PROVE  k = l /\ i = j
  <2>0. rows[b[k - 1] + i].prompt = rows[b[l - 1] + j].prompt
    BY <1>6, <1>12
  <2>7. b[k - 1] + i \in 1..Len(rows) /\ b[l - 1] + j \in 1..Len(rows)
    BY ONLY <1>13, k \in 1..n, l \in 1..n, i \in 1..Len(s[k]), j \in 1..Len(s[l])
  <2>1. b[k - 1] + i = b[l - 1] + j
    BY ONLY <1>4, <2>0, <2>7
  <2>2. ASSUME NEW x \in 1..n, NEW y \in 1..n, x < y PROVE b[x] <= b[y - 1]
    <3>1. x \in 0..n /\ y - 1 \in 0..n /\ x <= y - 1
      BY <2>2
    <3> QED
      BY <1>2, <3>1
  <2>3. /\ b[k - 1] \in Nat /\ b[k] \in Nat /\ b[l - 1] \in Nat /\ b[l] \in Nat
        /\ b[k - 1] + i <= b[k] /\ b[l - 1] + j <= b[l] /\ i \in Nat \ {0} /\ j \in Nat \ {0}
    <3>1. b[k - 1] \in Nat /\ b[k] \in Nat /\ Len(s[k]) \in Nat
      BY <1>2, <1>11
    <3>2. b[l - 1] \in Nat /\ b[l] \in Nat /\ Len(s[l]) \in Nat
      BY <1>2, <1>11
    <3>3. b[k - 1] + i <= b[k] /\ b[l - 1] + j <= b[l]
      BY ONLY <1>13, k \in 1..n, l \in 1..n, i \in 1..Len(s[k]), j \in 1..Len(s[l])
    <3> QED
      BY <3>1, <3>2, <3>3
  <2>4. ~(k < l)
    BY <2>1, <2>2, <2>3
  <2>5. ~(l < k)
    BY <2>1, <2>2, <2>3, SMTT(40)
  <2>6. k = l
    BY <2>4, <2>5
  <2> QED
    BY <2>1, <2>3, <2>6
<1>7. UNION {ToSet(s[k]) : k \in 1..n} = Prompts(rows)
  <2>1. ToSet(rows) = {rows[a] : a \in 1..Len(rows)}
    BY Elements
  <2>2. ASSUME NEW k \in 1..n PROVE ToSet(s[k]) \subseteq Prompts(rows)
    <3> SUFFICES ASSUME NEW i \in 1..Len(s[k]) PROVE s[k][i] \in Prompts(rows)
      <4>1. ToSet(s[k]) = {s[k][i] : i \in 1..Len(s[k])}
        BY <1>11
      <4> QED
        BY <4>1
    <3>1. s[k][i] = rows[b[k - 1] + i].prompt
      BY <1>12
    <3>2. b[k - 1] + i \in 1..Len(rows)
      BY ONLY <1>13, k \in 1..n, i \in 1..Len(s[k])
    <3>3. rows[b[k - 1] + i] \in ToSet(rows)
      BY ONLY <2>1, <3>2
    <3> QED
      BY ONLY <3>1, <3>3 DEF Prompts
  <2>3. /\ s \in Seq(Seq(1..Rows)) /\ Len(s) = n /\ Len(FlattenSeq(s)) = Len(rows)
        /\ \A a \in 1..Len(rows) : FlattenSeq(s)[a] = rows[a].prompt
    BY PiecesFlattened DEF s
  <2>4. Composed(s, FlattenSeq(s))
    BY <2>3, FlattenComposed
  <2>5. ASSUME NEW a \in 1..Len(rows) PROVE \E k \in 1..n : rows[a].prompt \in ToSet(s[k])
    <3>1. PICK k \in 1..n : \E i \in 1..Len(s[k]) : FlattenSeq(s)[a] = s[k][i]
      BY <2>3, <2>4 DEF Composed
    <3> QED
      BY <1>11, <2>3, <3>1
  <2>6. Prompts(rows) \subseteq UNION {ToSet(s[k]) : k \in 1..n}
    BY <2>1, <2>5 DEF Prompts
  <2> QED
    BY <2>2, <2>6
<1>8. \A k, l \in 1..n : k # l => ToSet(s[k]) \cap ToSet(s[l]) = {}
  <2> SUFFICES ASSUME NEW k \in 1..n, NEW l \in 1..n, NEW x, x \in ToSet(s[k]), x \in ToSet(s[l])
               PROVE  k = l
    OBVIOUS
  <2>1. PICK i \in 1..Len(s[k]) : x = s[k][i]
    BY <1>11
  <2>2. PICK j \in 1..Len(s[l]) : x = s[l][j]
    BY <1>11
  <2> QED
    BY <1>6, <2>1, <2>2
<1>9. IsFiniteSet(1..n)
  BY UpToFacts
<1>10. \A k \in 1..n : \A i, j \in 1..Len(s[k]) : s[k][i] = s[k][j] => i = j
  BY <1>6
<1> QED
  BY <1>3, <1>7, <1>8, <1>9, <1>10 DEF DealtOut, s

LEMMA SplitMade ==
    ASSUME CorpusSound, NEW n \in ShardCounts, Split(n), stage' = "replay", engine' = engine
    PROVE  /\ shards' = Pieces(corpus, n) /\ corpus' = corpus
           /\ SplitHasEveryPrompt' /\ DealtOut(shards', corpus)
<1> DEFINE s == Pieces(corpus, n)
           all == FlattenSeq(s)
<1>1. /\ Splittable(corpus, n) /\ shards' = s /\ corpus' = corpus /\ n \in Nat \ {0}
      /\ corpus \in Seq(AllLines) /\ CorpusOf(corpus)
  BY ShardsAssumption DEF Split, Pieces, Piece, CorpusSound, CorpusOf
<1>2. DealtOut(s, corpus)
  BY <1>1, PiecesHandedOut
<1>3. /\ all \in Seq(1..Rows) /\ Len(all) = Len(corpus) /\ Len(all) \in Nat
      /\ \A a \in 1..Len(corpus) : all[a] = corpus[a].prompt
      /\ ToSet(all) = {all[a] : a \in 1..Len(all)}
      /\ ToSet(corpus) = {corpus[a] : a \in 1..Len(corpus)}
  BY <1>1, PiecesFlattened, Elements
<1>4. /\ Prompts(corpus) = ToAnswer
      /\ \A i, j \in 1..Len(corpus) : corpus[i].prompt = corpus[j].prompt => i = j
  BY <1>1 DEF CorpusOf, Splittable
<1> HIDE DEF s, all
<1>5. ToSet(all) = ToAnswer
  BY <1>3, <1>4 DEF Prompts
<1>6. Len(all) = Cardinality(ToAnswer)
  <2> DEFINE f == [a \in 1..Len(all) |-> all[a]]
  <2>1. f \in [1..Len(all) -> ToAnswer] /\ \A a \in 1..Len(all) : f[a] = all[a]
    BY <1>3, <1>5
  <2> HIDE DEF f
  <2>2. \A a, c \in 1..Len(all) : f[a] = f[c] => a = c
    BY <1>3, <1>4, <2>1
  <2>3. \A x \in ToAnswer : \E a \in 1..Len(all) : f[a] = x
    BY <1>3, <1>5, <2>1
  <2>4. f \in Surjection(1..Len(all), ToAnswer)
    BY ONLY <2>1, <2>3 DEF Surjection
  <2>5. f \in Injection(1..Len(all), ToAnswer)
    BY ONLY <2>1, <2>2 DEF Injection, IsInjective
  <2> QED
    BY ONLY <1>3, <2>4, <2>5, FS_Surjection, UpToFacts
<1>7. SplitHasEveryPrompt'
  <2>1. FlattenSeq(shards') = all
    BY <1>1 DEF all, s
  <2> QED
    BY <1>5, <1>6, <2>1 DEF SplitHasEveryPrompt, ToAnswer
<1> QED
  BY <1>1, <1>2, <1>7 DEF s

----------------------------------------------------------------------------
(* The rows of a shard that a replay has seen                              *)

LEMMA SeenFacts ==
    ASSUME DealtOut(shards, corpus), NEW k \in Shards
    PROVE  /\ shards[k] \in Seq(1..Rows) /\ Len(shards[k]) \in Nat /\ Seen(k, 0) = {}
           /\ \A m \in 0..Len(shards[k]) : /\ Seen(k, m) \subseteq 1..Rows
                                           /\ IsFiniteSet(Seen(k, m))
                                           /\ Cardinality(Seen(k, m)) \in Nat
                                           /\ Cardinality(Seen(k, m)) = 0 => Seen(k, m) = {}
           /\ \A m, n \in 0..Len(shards[k]) :
                 Cardinality(Seen(k, m)) = Cardinality(Seen(k, n)) => Seen(k, m) = Seen(k, n)
           /\ Seen(k, Len(shards[k])) = Fits(ToSet(shards[k]))
<1>1. /\ shards[k] \in Seq(1..Rows) /\ Len(shards[k]) \in Nat
      /\ \A i \in 1..Len(shards[k]) : shards[k][i] \in 1..Rows
      /\ ToSet(shards[k]) = {shards[k][i] : i \in 1..Len(shards[k])}
  <2>1. shards[k] \in Seq(1..Rows)
    BY DEF DealtOut, Shards
  <2>2. Len(shards[k]) \in Nat /\ ToSet(shards[k]) = {shards[k][i] : i \in 1..Len(shards[k])}
    BY <2>1, Elements
  <2>3. \A i \in 1..Len(shards[k]) : shards[k][i] \in 1..Rows
    BY <2>1, ElementOfSeq
  <2> QED
    BY <2>1, <2>2, <2>3
<1>2. IsFiniteSet(1..Rows)
  BY UpToFacts, WritersAssumption
<1>3. ASSUME NEW m \in 0..Len(shards[k])
      PROVE  /\ Seen(k, m) \subseteq 1..Rows /\ IsFiniteSet(Seen(k, m))
             /\ Cardinality(Seen(k, m)) \in Nat
             /\ Cardinality(Seen(k, m)) = 0 => Seen(k, m) = {}
  <2>1. 1..m \subseteq 1..Len(shards[k])
    BY <1>1
  <2>2. Seen(k, m) \subseteq 1..Rows
    <3> SUFFICES ASSUME NEW i \in 1..m PROVE shards[k][i] \in 1..Rows
      BY DEF Seen, Fits
    <3> QED
      BY <1>1, <2>1
  <2>3. IsFiniteSet(Seen(k, m))
    BY <1>2, <2>2, FS_Subset
  <2> QED
    BY <2>2, <2>3, FS_CardinalityType, FS_EmptySet
<1>4. ASSUME NEW m \in 0..Len(shards[k]), NEW n \in 0..Len(shards[k]), m <= n,
             Cardinality(Seen(k, m)) = Cardinality(Seen(k, n))
      PROVE  Seen(k, m) = Seen(k, n)
  <2>1. 1..m \subseteq 1..n
    BY <1>4
  <2>2. Seen(k, m) \subseteq Seen(k, n)
    BY <2>1 DEF Seen, Fits
  <2>3. IsFiniteSet(Seen(k, n))
    BY <1>3
  <2> QED
    BY <1>4, <2>2, <2>3, FS_Subset
<1>5. Seen(k, 0) = {}
  BY DEF Seen, Fits
<1>6. Seen(k, Len(shards[k])) = Fits(ToSet(shards[k]))
  BY <1>1 DEF Seen
<1>7. \A m, n \in 0..Len(shards[k]) : m <= n \/ n <= m
  BY <1>1
<1> QED
  BY <1>1, <1>3, <1>4, <1>5, <1>6, <1>7

\* A chunk adds its rows to those seen before it.
LEMMA SeenMore ==
    ASSUME DealtOut(shards, corpus), NEW k \in Shards,
           NEW m \in 0..Len(shards[k]), NEW n \in 0..Len(shards[k]), m <= n,
           NEW more, more = Fits({shards[k][i] : i \in (m + 1)..n})
    PROVE  /\ Seen(k, n) = Seen(k, m) \cup more /\ Seen(k, m) \cap more = {}
           /\ IsFiniteSet(more) /\ Cardinality(more) \in Nat
           /\ Cardinality(Seen(k, n)) = Cardinality(Seen(k, m)) + Cardinality(more)
<1>1. 1..n = (1..m) \cup ((m + 1)..n) /\ Len(shards[k]) \in Nat
  BY SeenFacts
<1>2. Seen(k, n) = Seen(k, m) \cup more
  BY <1>1 DEF Seen, Fits
<1>3. \A i, j \in 1..Len(shards[k]) : shards[k][i] = shards[k][j] => i = j
  BY DEF DealtOut, Shards
<1>4. Seen(k, m) \cap more = {}
  <2> SUFFICES ASSUME NEW x, x \in Seen(k, m), x \in more PROVE FALSE
    OBVIOUS
  <2>1. PICK i \in 1..m : x = shards[k][i]
    BY DEF Seen, Fits
  <2>2. PICK j \in (m + 1)..n : x = shards[k][j]
    BY DEF Fits
  <2>3. i \in 1..Len(shards[k]) /\ j \in 1..Len(shards[k]) /\ i # j
    BY <1>1
  <2> QED
    BY <1>3, <2>1, <2>2, <2>3
<1>5. IsFiniteSet(Seen(k, n)) /\ IsFiniteSet(Seen(k, m))
  BY SeenFacts
<1>6. IsFiniteSet(more)
  BY <1>2, <1>5, FS_Subset
<1>7. Cardinality(Seen(k, n)) = Cardinality(Seen(k, m)) + Cardinality(more) - Cardinality({})
  BY <1>2, <1>4, <1>5, <1>6, FS_Union
<1>8. Cardinality({}) = 0 /\ Cardinality(Seen(k, m)) \in Nat /\ Cardinality(more) \in Nat
  BY <1>5, <1>6, FS_EmptySet, FS_CardinalityType
<1> QED
  BY <1>2, <1>4, <1>6, <1>7, <1>8

----------------------------------------------------------------------------
(* One step of the replay of a shard                                       *)

RepFrame(k) ==
    /\ DOMAIN store' = Shards /\ DOMAIN rep' = Shards
    /\ \A j \in Shards \ {k} : store'[j] = store[j] /\ rep'[j] = rep[j]
StepSound(k) == RepFrame(k) /\ StoreSound(k, store'[k]) /\ ReplayerSound(k, rep'[k])

LEMMA ShardFields ==
    ASSUME Captured, NEW k \in Shards
    PROVE  /\ DOMAIN store = Shards /\ DOMAIN rep = Shards /\ DealtOut(shards, corpus)
           /\ StoreSound(k, store[k]) /\ ReplayerSound(k, rep[k])
           /\ store[k] \in Stores(k) /\ rep[k] \in Replayers(k)
           /\ store[k].rows \in 0..Len(shards[k]) /\ store[k].captured \in Nat
           /\ store[k].captured = Cardinality(Seen(k, store[k].rows))
           /\ store[k].ckpt \in [1..Signals -> Checkpoints]
           /\ store[k].side \in [1..Signals -> Sidecars]
           /\ rep[k].next \in 1..(Len(shards[k]) + 1) /\ rep[k].captured \in Nat
           /\ rep[k].seen \in SUBSET (1..Rows) /\ rep[k].sig \in 1..Signals
           /\ rep[k].acc \in [1..Signals -> Stats]
           /\ Len(shards[k]) \in Nat
<1>1. /\ DOMAIN store = Shards /\ DOMAIN rep = Shards /\ DealtOut(shards, corpus)
      /\ StoreSound(k, store[k]) /\ ReplayerSound(k, rep[k])
  BY DEF Captured
<1>2. store[k] \in Stores(k) /\ store[k].captured = Cardinality(Seen(k, store[k].rows))
  BY <1>1 DEF StoreSound
<1>3. rep[k] \in Replayers(k)
  BY <1>1 DEF ReplayerSound
<1>4. /\ store[k].rows \in 0..Len(shards[k]) /\ store[k].captured \in Nat
      /\ store[k].ckpt \in [1..Signals -> Checkpoints]
      /\ store[k].side \in [1..Signals -> Sidecars]
  BY <1>2 DEF Stores
<1>5. /\ rep[k].next \in 1..(Len(shards[k]) + 1) /\ rep[k].captured \in Nat
      /\ rep[k].seen \in SUBSET (1..Rows) /\ rep[k].sig \in 1..Signals
      /\ rep[k].acc \in [1..Signals -> Stats]
  BY <1>3 DEF Replayers
<1> QED
  BY <1>1, <1>2, <1>3, <1>4, <1>5, SeenFacts

\* A process that has ended.
LEMMA EndedSound ==
    ASSUME Captured, NEW k \in Shards
    PROVE  ReplayerSound(k, Ended) /\ ReplayerSound(k, Failed)
<1>1. /\ 1 \in 1..(Len(shards[k]) + 1) /\ 1 \in 1..Signals
      /\ [s \in 1..Signals |-> Fresh] \in [1..Signals -> Stats]
  BY ShardFields, Statistics
<1>2. Ended \in Replayers(k) /\ Ended.pc = "done"
  BY <1>1 DEF Ended, Replayers
<1>4. Failed \in Replayers(k) /\ Failed.pc = "failed"
  BY <1>2 DEF Failed, Replayers
<1> QED
  BY <1>2, <1>4 DEF ReplayerSound

LEMMA ReplayLost ==
    ASSUME Captured, NEW k \in Shards, KillReplay(k)
    PROVE  StepSound(k)
<1>1. rep' = [rep EXCEPT ![k] = Failed] /\ store' = store
  BY DEF KillReplay
<1>2. RepFrame(k) /\ rep'[k] = Failed
  BY <1>1, ShardFields DEF RepFrame
<1> QED
  BY <1>1, <1>2, EndedSound, ShardFields DEF StepSound

\* A replay checkpoint says what was seen.
LEMMA MarkSound ==
    ASSUME Captured, NEW k \in Shards, NEW n \in 1..(Len(shards[k]) + 1), NEW c,
           c = Cardinality(Seen(k, n - 1))
    PROVE  StoreSound(k, Marked(k, n, c))
<1> DEFINE t == store[k]
           u == Marked(k, n, c)
<1>1. /\ t \in Stores(k) /\ StoreSound(k, t) /\ Len(shards[k]) \in Nat
      /\ DealtOut(shards, corpus)
  BY ShardFields
<1>2. n - 1 \in 0..Len(shards[k]) /\ c \in Nat
  <2>1. n - 1 \in 0..Len(shards[k])
    BY <1>1
  <2> QED
    BY <1>1, <2>1, SeenFacts
<1>3. u = [t EXCEPT !.rows = n - 1, !.captured = c]
  BY DEF Marked
<1> HIDE DEF u
<1>4. u \in Stores(k) /\ u.rows = n - 1 /\ u.captured = c /\ u.ckpt = t.ckpt /\ u.side = t.side
  BY <1>1, <1>2, <1>3 DEF Stores
<1>5. StoreSound(k, u)
  BY <1>1, <1>4 DEF StoreSound
<1> QED
  BY <1>5 DEF u

LEMMA Replayed ==
    ASSUME Captured, NEW k \in Shards, Replay(k)
    PROVE  StepSound(k)
<1> DEFINE p == rep[k]
           q == rep'[k]
           fit == Fits(ChunkRows(k))
           e == NextStart(k)
           acc2 == Forwarded(p.acc, fit)
<1>0. /\ DOMAIN store = Shards /\ DOMAIN rep = Shards /\ DealtOut(shards, corpus)
      /\ StoreSound(k, store[k]) /\ ReplayerSound(k, p) /\ p \in Replayers(k)
      /\ p.next \in 1..(Len(shards[k]) + 1) /\ p.captured \in Nat /\ p.seen \in SUBSET (1..Rows)
      /\ p.acc \in [1..Signals -> Stats] /\ Len(shards[k]) \in Nat
  BY ShardFields
<1>1. p.pc = "chunk" /\ p.next <= Len(shards[k])
  BY DEF Replay, In
<1>2. /\ p.captured = Cardinality(Seen(k, p.next - 1))
      /\ \A s \in 1..Signals : Holding(k, s, p.acc[s], p.next - 1)
  BY <1>0, <1>1 DEF ReplayerSound
<1>3. /\ e \in 1..(Len(shards[k]) + 1) /\ e - 1 \in 0..Len(shards[k])
      /\ p.next - 1 \in 0..Len(shards[k]) /\ p.next - 1 <= e - 1 /\ (p.next - 1) + 1 = p.next
  BY <1>0, <1>1, ReplayAssumption, SMTT(40) DEF NextStart
<1>4. fit = Fits({shards[k][i] : i \in ((p.next - 1) + 1)..(e - 1)})
  BY <1>3 DEF ChunkRows
<1>5. /\ Seen(k, e - 1) = Seen(k, p.next - 1) \cup fit /\ Seen(k, p.next - 1) \cap fit = {}
      /\ Cardinality(fit) \in Nat
      /\ Cardinality(Seen(k, e - 1)) = p.captured + Cardinality(fit)
      /\ Seen(k, e - 1) \subseteq 1..Rows
  <2> HIDE DEF fit, e
  <2>1. /\ Seen(k, e - 1) = Seen(k, p.next - 1) \cup fit /\ Seen(k, p.next - 1) \cap fit = {}
        /\ Cardinality(fit) \in Nat
        /\ Cardinality(Seen(k, e - 1)) = Cardinality(Seen(k, p.next - 1)) + Cardinality(fit)
    <3>1. PICK m \in 0..Len(shards[k]), n \in 0..Len(shards[k]) : m = p.next - 1 /\ n = e - 1
      BY <1>3
    <3>2. m <= n /\ fit = Fits({shards[k][i] : i \in (m + 1)..n})
      BY <1>3, <1>4, <3>1
    <3>3. /\ Seen(k, n) = Seen(k, m) \cup fit /\ Seen(k, m) \cap fit = {}
          /\ Cardinality(fit) \in Nat
          /\ Cardinality(Seen(k, n)) = Cardinality(Seen(k, m)) + Cardinality(fit)
      BY <1>0, <3>2, SeenMore, SMTT(40)
    <3> QED
      BY <3>1, <3>3
  <2>2. Seen(k, e - 1) \subseteq 1..Rows
    BY <1>0, <1>3, SeenFacts
  <2> QED
    BY <1>2, <2>1, <2>2
<1>6. CASE fit = {}
  <2>1. /\ store' = [store EXCEPT ![k] = Marked(k, e, p.captured)]
        /\ rep' = [rep EXCEPT ![k].next = e]
    BY <1>6 DEF Replay
  <2>2. RepFrame(k) /\ store'[k] = Marked(k, e, p.captured) /\ q = [p EXCEPT !.next = e]
    BY <1>0, <2>1 DEF RepFrame
  <2> HIDE DEF e, fit, q, p
  <2>3. Seen(k, e - 1) = Seen(k, p.next - 1)
    BY <1>5, <1>6
  <2>4. p.captured = Cardinality(Seen(k, e - 1))
    BY <1>2, <2>3
  <2>5. StoreSound(k, store'[k])
    BY <1>3, <2>2, <2>4, MarkSound
  <2>6. /\ q \in Replayers(k) /\ q.pc = "chunk" /\ q.next = e /\ q.captured = p.captured
        /\ q.acc = p.acc
    BY <1>0, <1>1, <1>3, <2>2 DEF Replayers
  <2>7. \A s \in 1..Signals : Holding(k, s, q.acc[s], e - 1)
    BY <1>2, <2>3, <2>6 DEF Holding
  <2>8. ReplayerSound(k, q)
    BY <2>4, <2>6, <2>7 DEF ReplayerSound
  <2> QED
    BY <2>2, <2>5, <2>8 DEF StepSound, q
<1>7. CASE fit # {}
  <2> DEFINE on == [p EXCEPT !.pc = "ckpt", !.next = e, !.captured = p.captured + Cardinality(fit),
                             !.seen = p.seen \cup fit, !.acc = acc2]
  <2>1. /\ store' = store
        /\ rep' = [rep EXCEPT ![k] = IF SomeEmpty(acc2) THEN Failed ELSE on]
    BY <1>7 DEF Replay
  <2>2. RepFrame(k) /\ store'[k] = store[k] /\ (q = Failed \/ q = on)
    <3> DEFINE next == IF SomeEmpty(acc2) THEN Failed ELSE on
    <3>1. next = Failed \/ next = on
      OBVIOUS
    <3>2. rep' = [rep EXCEPT ![k] = next]
      BY <2>1
    <3> HIDE DEF on, next
    <3> QED
      BY <1>0, <2>1, <3>1, <3>2 DEF RepFrame
  <2>4. /\ acc2 \in [1..Signals -> Stats]
        /\ \A s \in 1..Signals :
              /\ s \in silent => acc2[s].held = p.acc[s].held
              /\ \A A, W : /\ Stands(p.acc[s], Heard(s, A), Heard(s, W))
                           /\ A \cap fit = {} /\ A \subseteq 1..Rows /\ fit \subseteq W
                    => Stands(acc2[s], Heard(s, A \cup fit), Heard(s, W))
    <3>1. fit \in SUBSET (1..Rows)
      BY <1>5
    <3> HIDE DEF fit
    <3> QED
      BY <1>0, <3>1, ForwardedFacts
  <2>5. fit \subseteq 1..Rows /\ Seen(k, p.next - 1) \subseteq 1..Rows
    BY <1>5
  <2>9. fit \subseteq Seen(k, Len(shards[k]))
    BY <1>0, <1>3, <1>5 DEF Seen, Fits
  <2> HIDE DEF on, e, fit, q, p, acc2
  <2>6. ReplayerSound(k, on)
    <3>1. /\ on \in Replayers(k) /\ on.pc = "ckpt" /\ on.next = e
          /\ on.captured = p.captured + Cardinality(fit) /\ on.acc = acc2
      <4>1. p.captured + Cardinality(fit) \in Nat /\ p.seen \cup fit \in SUBSET (1..Rows)
        BY <1>0, <1>5, <2>5
      <4> QED
        BY <1>0, <1>3, <2>4, <4>1 DEF on, Replayers
    <3>2. ASSUME NEW s \in 1..Signals PROVE Holding(k, s, acc2[s], e - 1)
      <4>1. Holding(k, s, p.acc[s], p.next - 1)
        BY <1>2
      <4>2. s \in silent => acc2[s].held = Nothing
        BY <2>4, <4>1 DEF Holding
      <4>3. Stands(acc2[s], Heard(s, Seen(k, e - 1)), All(k, s))
        <5>1. Stands(p.acc[s], Heard(s, Seen(k, p.next - 1)), Heard(s, Seen(k, Len(shards[k]))))
          BY <4>1 DEF Holding, All
        <5> QED
          BY ONLY <1>5, <2>4, <2>5, <2>9, <5>1, s \in 1..Signals DEF All
      <4> QED
        BY <4>2, <4>3 DEF Holding
    <3> QED
      BY <1>5, <3>1, <3>2 DEF ReplayerSound
  <2> QED
    BY <1>0, <2>2, <2>6, EndedSound DEF StepSound, q
<1> QED
  BY <1>6, <1>7

LEMMA NextReplayer ==
    ASSUME NEW k \in Shards, NEW p \in Replayers(k), NEW next \in {"mark", "unlink"},
           NEW q, q = NextSignal(p, next)
    PROVE  /\ q \in Replayers(k) /\ q.pc \in {p.pc, next}
           /\ q.next = p.next /\ q.captured = p.captured /\ q.acc = p.acc
<1>1. p.sig \in 1..Signals /\ Signals \in Nat \ {0}
  BY Statistics DEF Replayers
<1>2. \/ p.sig < Signals /\ q = [p EXCEPT !.sig = p.sig + 1]
      \/ q = [p EXCEPT !.pc = next, !.sig = 1]
  BY <1>1, NextSignals
<1>3. CASE p.sig < Signals /\ q = [p EXCEPT !.sig = p.sig + 1]
  <2>1. p.sig + 1 \in 1..Signals
    BY <1>1, <1>3
  <2> QED
    BY <1>3, <2>1 DEF Replayers
<1>4. CASE q = [p EXCEPT !.pc = next, !.sig = 1]
  <2>1. 1 \in 1..Signals
    BY <1>1
  <2> QED
    BY <1>4, <2>1 DEF Replayers
<1> QED
  BY <1>2, <1>3, <1>4

LEMMA WriterSaved ==
    ASSUME Captured, NEW k \in Shards, NEW ok \in BOOLEAN, SaveWriter(k, ok)
    PROVE  StepSound(k)
<1> DEFINE t == store[k]
           p == rep[k]
           u == store'[k]
           q == rep'[k]
           c == [at |-> p.captured, stat |-> p.acc[p.sig]]
<1>0. /\ DOMAIN store = Shards /\ DOMAIN rep = Shards /\ DealtOut(shards, corpus)
      /\ StoreSound(k, t) /\ ReplayerSound(k, p) /\ t \in Stores(k) /\ p \in Replayers(k)
      /\ p.next \in 1..(Len(shards[k]) + 1) /\ p.captured \in Nat /\ p.sig \in 1..Signals
      /\ p.acc \in [1..Signals -> Stats] /\ Len(shards[k]) \in Nat
      /\ t.ckpt \in [1..Signals -> Checkpoints]
  BY ShardFields
<1>1. p.pc = "ckpt"
  BY DEF SaveWriter, In
<1>2. /\ p.captured = Cardinality(Seen(k, p.next - 1))
      /\ \A s \in 1..Signals : Holding(k, s, p.acc[s], p.next - 1)
  BY <1>0, <1>1 DEF ReplayerSound
<1>3. /\ store' = store \/ store' = [store EXCEPT ![k].ckpt[p.sig] = c]
      /\ rep' = [rep EXCEPT ![k] = NextSignal(p, "mark")]
  BY DEF SaveWriter
<1> HIDE DEF c
<1>4. /\ RepFrame(k) /\ q = NextSignal(p, "mark")
      /\ u = t \/ u = [t EXCEPT !.ckpt = [t.ckpt EXCEPT ![p.sig] = c]]
  BY <1>0, <1>3 DEF RepFrame
<1>5. c \in Checkpoints /\ c.at = p.captured /\ c.stat = p.acc[p.sig]
  <2>1. p.acc[p.sig] \in Stats
    BY <1>0
  <2> QED
    BY <1>0, <2>1 DEF c, Checkpoints
<1>6. CheckpointSound(k, p.sig, c)
  <2>1. Holding(k, p.sig, c.stat, p.next - 1)
    BY <1>0, <1>2, <1>5
  <2>2. p.next - 1 \in 0..Len(shards[k])
    BY <1>0
  <2> QED
    BY <1>2, <1>5, <2>1, <2>2 DEF Holding, CheckpointSound
<1> HIDE DEF t, p, u, q
<1>7. StoreSound(k, u)
  <2>1. CASE u = t
    BY <1>0, <2>1
  <2>2. CASE u = [t EXCEPT !.ckpt = [t.ckpt EXCEPT ![p.sig] = c]]
    <3> DEFINE kept == [t.ckpt EXCEPT ![p.sig] = c]
    <3>1. /\ kept \in [1..Signals -> Checkpoints]
          /\ \A s \in 1..Signals : kept[s] = IF s = p.sig THEN c ELSE t.ckpt[s]
      BY <1>0, <1>5
    <3>2. u = [t EXCEPT !.ckpt = kept]
      BY <2>2
    <3> HIDE DEF kept
    <3>3. u \in Stores(k) /\ u.ckpt = kept /\ u.side = t.side /\ u.rows = t.rows /\ u.captured = t.captured
      BY <1>0, <3>1, <3>2 DEF Stores
    <3> QED
      BY <1>0, <1>6, <3>1, <3>3 DEF StoreSound
  <2> QED
    BY <1>4, <2>1, <2>2
<1>8. ReplayerSound(k, q)
  <2>1. /\ q \in Replayers(k) /\ q.pc \in {p.pc, "mark"}
        /\ q.next = p.next /\ q.captured = p.captured /\ q.acc = p.acc
    BY <1>0, <1>4, NextReplayer
  <2> QED
    BY <1>1, <1>2, <2>1 DEF ReplayerSound
<1> QED
  BY <1>4, <1>7, <1>8 DEF StepSound, u, q

LEMMA ChunkMarked ==
    ASSUME Captured, NEW k \in Shards, MarkChunk(k)
    PROVE  StepSound(k)
<1> DEFINE p == rep[k]
           q == rep'[k]
<1>0. /\ DOMAIN store = Shards /\ DOMAIN rep = Shards /\ ReplayerSound(k, p)
      /\ p \in Replayers(k) /\ p.next \in 1..(Len(shards[k]) + 1)
  BY ShardFields
<1>1. /\ p.pc = "mark" /\ rep' = [rep EXCEPT ![k].pc = "chunk"]
      /\ store' = [store EXCEPT ![k] = Marked(k, p.next, p.captured)]
  BY DEF MarkChunk, In
<1>2. /\ RepFrame(k) /\ q = [p EXCEPT !.pc = "chunk"]
      /\ store'[k] = Marked(k, p.next, p.captured)
  BY <1>0, <1>1 DEF RepFrame
<1> HIDE DEF p, q
<1>3. StoreSound(k, store'[k])
  BY <1>0, <1>1, <1>2, MarkSound DEF ReplayerSound
<1>4. q \in Replayers(k) /\ q.pc = "chunk" /\ q.next = p.next /\ q.captured = p.captured /\ q.acc = p.acc
  BY <1>0, <1>2 DEF Replayers
<1>5. ReplayerSound(k, q)
  BY <1>0, <1>1, <1>4 DEF ReplayerSound
<1> QED
  BY <1>2, <1>3, <1>5 DEF StepSound, q

LEMMA ReplayChecked ==
    ASSUME Captured, NEW k \in Shards, Checked(k)
    PROVE  StepSound(k)
<1> DEFINE p == rep[k]
           q == rep'[k]
           on == [p EXCEPT !.pc = "dump"]
<1>0. /\ DOMAIN store = Shards /\ DOMAIN rep = Shards /\ ReplayerSound(k, p)
      /\ p \in Replayers(k) /\ p.next \in 1..(Len(shards[k]) + 1) /\ StoreSound(k, store[k])
      /\ Len(shards[k]) \in Nat
  BY ShardFields
<1>1. /\ p.pc = "chunk" /\ p.next > Len(shards[k]) /\ store' = store
      /\ \/ rep' = [rep EXCEPT ![k] = Failed]
         \/ rep' = [rep EXCEPT ![k] = on] /\ ~SomeEmpty(p.acc)
  BY DEF Checked, In
<1>2. /\ RepFrame(k) /\ store'[k] = store[k]
      /\ q = Failed \/ (q = on /\ ~SomeEmpty(p.acc))
  <2> HIDE DEF on
  <2> QED
    BY <1>0, <1>1 DEF RepFrame
<1> HIDE DEF p, q
<1>3. ASSUME q = on, ~SomeEmpty(p.acc) PROVE ReplayerSound(k, q)
  <2>1. q \in Replayers(k) /\ q.pc = "dump" /\ q.next = p.next /\ q.captured = p.captured /\ q.acc = p.acc
    BY <1>0, <1>3 DEF Replayers
  <2>2. q.next = Len(shards[k]) + 1
    BY <1>0, <1>1, <2>1
  <2>3. \A s \in 1..Signals : s \notin silent
    <3> SUFFICES ASSUME NEW s \in 1..Signals, s \in silent PROVE FALSE
      OBVIOUS
    <3>1. p.acc[s].held = Nothing
      BY <1>0, <1>1 DEF ReplayerSound, Holding
    <3> QED
      BY <1>3, <3>1 DEF SomeEmpty
  <2> QED
    BY <1>0, <1>1, <2>1, <2>2, <2>3 DEF ReplayerSound
<1> QED
  BY <1>0, <1>2, <1>3, EndedSound DEF StepSound, q

LEMMA SignalDumped ==
    ASSUME Captured, NEW k \in Shards, NEW ok \in BOOLEAN, DumpSignal(k, ok)
    PROVE  StepSound(k)
<1> DEFINE t == store[k]
           p == rep[k]
           u == store'[k]
           q == rep'[k]
           d == [there |-> TRUE, stat |-> p.acc[p.sig]]
<1>0. /\ DOMAIN store = Shards /\ DOMAIN rep = Shards /\ DealtOut(shards, corpus)
      /\ StoreSound(k, t) /\ ReplayerSound(k, p) /\ t \in Stores(k) /\ p \in Replayers(k)
      /\ p.sig \in 1..Signals /\ p.acc \in [1..Signals -> Stats] /\ Len(shards[k]) \in Nat
      /\ t.ckpt \in [1..Signals -> Checkpoints] /\ t.side \in [1..Signals -> Sidecars]
  BY ShardFields
<1>1. p.pc = "dump"
  BY DEF DumpSignal, In
<1>2. /\ p.next = Len(shards[k]) + 1 /\ p.next - 1 = Len(shards[k])
      /\ \A s \in 1..Signals : s \notin silent /\ Holding(k, s, p.acc[s], p.next - 1)
  <2>1. /\ p.next = Len(shards[k]) + 1
        /\ \A s \in 1..Signals : s \notin silent
        /\ \A s \in 1..Signals : Holding(k, s, p.acc[s], p.next - 1)
    BY <1>0, <1>1 DEF ReplayerSound
  <2> QED
    BY <1>0, <2>1
<1>3. /\ store' = store \/ store' = [store EXCEPT ![k].side[p.sig] = d, ![k].ckpt[p.sig] = NoCheckpoint]
      /\ rep' = [rep EXCEPT ![k] = NextSignal(p, "unlink")]
  BY DEF DumpSignal
<1> HIDE DEF d
<1> DEFINE side2 == [t.side EXCEPT ![p.sig] = d]
           ckpt2 == [t.ckpt EXCEPT ![p.sig] = NoCheckpoint]
<1>4. /\ RepFrame(k) /\ q = NextSignal(p, "unlink")
      /\ u = t \/ u = [t EXCEPT !.side = side2, !.ckpt = ckpt2]
  <2>1. RepFrame(k) /\ q = NextSignal(p, "unlink")
    BY <1>0, <1>3 DEF RepFrame
  <2>2. CASE store' = store
    BY <2>1, <2>2
  <2>3. CASE store' = [store EXCEPT ![k].side[p.sig] = d, ![k].ckpt[p.sig] = NoCheckpoint]
    <3>1. u = [t EXCEPT !.side = side2, !.ckpt = ckpt2]
      BY <1>0, <2>3 DEF Stores
    <3> QED
      BY <2>1, <3>1
  <2> QED
    BY <1>3, <2>2, <2>3
<1>5. d \in Sidecars /\ d.stat = p.acc[p.sig]
  <2>1. p.acc[p.sig] \in Stats
    BY <1>0
  <2> QED
    BY <2>1 DEF d, Sidecars
<1>6. /\ side2 \in [1..Signals -> Sidecars] /\ ckpt2 \in [1..Signals -> Checkpoints]
      /\ \A s \in 1..Signals : side2[s] = IF s = p.sig THEN d ELSE t.side[s]
      /\ \A s \in 1..Signals : ckpt2[s] = IF s = p.sig THEN NoCheckpoint ELSE t.ckpt[s]
  BY <1>0, <1>5, Statistics
<1>7. SidecarSound(k, p.sig, d) /\ CheckpointSound(k, p.sig, NoCheckpoint)
  <2>1. SidecarSound(k, p.sig, d)
    BY <1>0, <1>2, <1>5 DEF SidecarSound
  <2>2. CheckpointSound(k, p.sig, NoCheckpoint)
    BY Statistics DEF CheckpointSound
  <2> QED
    BY <2>1, <2>2
<1> HIDE DEF t, p, u, q, side2, ckpt2
<1>8. StoreSound(k, u)
  <2>1. CASE u = t
    BY <1>0, <2>1
  <2>2. CASE u = [t EXCEPT !.side = side2, !.ckpt = ckpt2]
    <3>1. u \in Stores(k) /\ u.ckpt = ckpt2 /\ u.side = side2 /\ u.rows = t.rows /\ u.captured = t.captured
      BY <1>0, <1>6, <2>2 DEF Stores
    <3>2. \A s \in 1..Signals : CheckpointSound(k, s, ckpt2[s]) /\ SidecarSound(k, s, side2[s])
      BY <1>0, <1>6, <1>7 DEF StoreSound
    <3> QED
      BY <1>0, <3>1, <3>2 DEF StoreSound
  <2> QED
    BY <1>4, <2>1, <2>2
<1>9. ReplayerSound(k, q)
  <2>1. /\ q \in Replayers(k) /\ q.pc \in {p.pc, "unlink"}
        /\ q.next = p.next /\ q.captured = p.captured /\ q.acc = p.acc
    BY <1>0, <1>4, NextReplayer
  <2> QED
    BY <1>0, <1>1, <2>1 DEF ReplayerSound
<1> QED
  BY <1>4, <1>8, <1>9 DEF StepSound, u, q

LEMMA ReplayEnded ==
    ASSUME Captured, NEW k \in Shards, EndReplay(k)
    PROVE  StepSound(k)
<1> DEFINE t == store[k]
           u == store'[k]
<1>0. /\ DOMAIN store = Shards /\ DOMAIN rep = Shards /\ DealtOut(shards, corpus)
      /\ StoreSound(k, t) /\ t \in Stores(k) /\ Len(shards[k]) \in Nat
  BY ShardFields
<1>1. /\ rep' = [rep EXCEPT ![k] = Ended]
      /\ store' = [store EXCEPT ![k].rows = 0, ![k].captured = 0]
  BY DEF EndReplay
<1>2. RepFrame(k) /\ rep'[k] = Ended /\ u = [t EXCEPT !.rows = 0, !.captured = 0]
  BY <1>0, <1>1 DEF RepFrame
<1> HIDE DEF t, u
<1>3. /\ u \in Stores(k) /\ u.ckpt = t.ckpt /\ u.side = t.side /\ u.rows = 0 /\ u.captured = 0
  <2>1. 0 \in 0..Len(shards[k])
    BY <1>0
  <2> QED
    BY <1>0, <1>2, <2>1 DEF Stores
<1>4. Cardinality(Seen(k, 0)) = 0
  BY <1>0, SeenFacts, FS_EmptySet
<1>5. StoreSound(k, u)
  BY <1>0, <1>3, <1>4 DEF StoreSound
<1> QED
  BY <1>2, <1>5, EndedSound DEF StepSound, u

----------------------------------------------------------------------------
(* The shards are replayed again                                           *)

\* The fewer rows were captured, the fewer were seen.
LEMMA SeenOrder ==
    ASSUME DealtOut(shards, corpus), NEW k \in Shards,
           NEW m \in 0..Len(shards[k]), NEW n \in 0..Len(shards[k]),
           Cardinality(Seen(k, m)) <= Cardinality(Seen(k, n))
    PROVE  Seen(k, m) \subseteq Seen(k, n)
<1>1. /\ Len(shards[k]) \in Nat
      /\ \A x \in 0..Len(shards[k]) : IsFiniteSet(Seen(k, x)) /\ Cardinality(Seen(k, x)) \in Nat
      /\ \A x, y \in 0..Len(shards[k]) :
            Cardinality(Seen(k, x)) = Cardinality(Seen(k, y)) => Seen(k, x) = Seen(k, y)
  BY SeenFacts
<1>2. CASE m <= n
  BY <1>1, <1>2 DEF Seen, Fits
<1>3. CASE n <= m
  <2>1. Seen(k, n) \subseteq Seen(k, m)
    BY <1>1, <1>3 DEF Seen, Fits
  <2>2. Cardinality(Seen(k, n)) <= Cardinality(Seen(k, m))
    BY <1>1, <2>1, FS_Subset
  <2>3. Cardinality(Seen(k, n)) = Cardinality(Seen(k, m))
    BY <1>1, <2>2
  <2> QED
    BY <1>1, <2>3
<1> QED
  BY <1>1, <1>2, <1>3

LEMMA StartedAgain ==
    ASSUME Captured, NEW k \in Shards, NEW resume \in BOOLEAN
    PROVE  StoreSound(k, StoreAtStart(k, resume)) /\ ReplayerSound(k, Replaying(k, resume))
<1> DEFINE t == store[k]
           n == IF resume THEN t.rows ELSE 0
           base == IF resume THEN t.captured ELSE 0
           kept == LeftAfterSetup(t.ckpt, base, resume)
           acc2 == Hydrated(t.ckpt, base, resume)
           u == [t EXCEPT !.ckpt = kept]
           q == [Ended EXCEPT !.pc = "chunk", !.next = n + 1, !.captured = base, !.acc = acc2]
<1>0. /\ DealtOut(shards, corpus) /\ StoreSound(k, t) /\ t \in Stores(k)
      /\ t.ckpt \in [1..Signals -> Checkpoints] /\ Len(shards[k]) \in Nat
      /\ t.rows \in 0..Len(shards[k]) /\ t.captured \in Nat
      /\ t.captured = Cardinality(Seen(k, t.rows))
  BY ShardFields
<1>1. /\ n \in 0..Len(shards[k]) /\ base \in Nat /\ base = Cardinality(Seen(k, n))
      /\ base # 0 => resume
  <2>1. Cardinality(Seen(k, 0)) = 0
    BY <1>0, SeenFacts, FS_EmptySet
  <2> QED
    BY <1>0, <2>1
<1>2. /\ StoreAtStart(k, resume) = IF n >= Len(shards[k]) THEN t ELSE u
      /\ Replaying(k, resume) = IF n >= Len(shards[k]) THEN Ended
                                ELSE IF Missing(t.ckpt, base) # {} THEN Failed ELSE q
  BY DEF StoreAtStart, Replaying
<1> HIDE DEF n, base
<1>3. SetUp(t.ckpt, base, resume)
  BY <1>0, <1>1, HydratedFacts
<1>4. /\ acc2 \in [1..Signals -> Stats] /\ kept \in [1..Signals -> Checkpoints]
      /\ \A s \in 1..Signals : kept[s] \in {t.ckpt[s], NoCheckpoint}
      /\ \A s \in 1..Signals : acc2[s].held \in {t.ckpt[s].stat.held, Nothing}
      /\ \A s \in 1..Signals :
            \/ /\ acc2[s] = Fresh
               /\ ~resume \/ t.ckpt[s].at = 0 \/ s \notin Treated(t.ckpt, base)
            \/ Loaded(t.ckpt[s], base, acc2[s])
  BY <1>3 DEF SetUp
<1> HIDE DEF kept, acc2
<1>5. StoreSound(k, u)
  <2>1. u \in Stores(k) /\ u.ckpt = kept /\ u.side = t.side /\ u.rows = t.rows /\ u.captured = t.captured
    BY <1>0, <1>4 DEF Stores
  <2> HIDE DEF u, t
  <2>2. ASSUME NEW s \in 1..Signals PROVE CheckpointSound(k, s, u.ckpt[s])
    <3>1. CASE kept[s] = t.ckpt[s]
      BY <1>0, <2>1, <3>1 DEF StoreSound
    <3>2. CASE kept[s] = NoCheckpoint
      BY <2>1, <3>2, Statistics DEF CheckpointSound
    <3> QED
      BY <1>4, <3>1, <3>2
  <2> QED
    BY <1>0, <2>1, <2>2 DEF StoreSound
<1>6. ASSUME Missing(t.ckpt, base) = {}, ~(n >= Len(shards[k])) PROVE ReplayerSound(k, q)
  <2>1. /\ q \in Replayers(k) /\ q.pc = "chunk" /\ q.next = n + 1 /\ q.captured = base /\ q.acc = acc2
    <3>1. /\ 1 \in 1..Signals /\ n + 1 \in 1..(Len(shards[k]) + 1) /\ {} \in SUBSET (1..Rows)
      BY <1>0, <1>1, Statistics
    <3> QED
      BY <1>1, <1>4, <3>1 DEF Replayers, Ended
  <2> HIDE DEF q, t
  <2>2. q.next - 1 = n
    BY <1>0, <1>1, <2>1
  <2>3. ASSUME NEW s \in 1..Signals PROVE Holding(k, s, acc2[s], n)
    <3>1. CheckpointSound(k, s, t.ckpt[s])
      BY <1>0 DEF StoreSound
    <3>2. s \in silent => acc2[s].held = Nothing
      BY <1>4, <3>1 DEF CheckpointSound
    <3>3. Stands(acc2[s], Heard(s, Seen(k, n)), All(k, s))
      <4>1. CASE Loaded(t.ckpt[s], base, acc2[s])
        <5> DEFINE a == t.ckpt[s].stat
                   b == acc2[s]
                   c == t.ckpt[s].at
        <5>1. /\ a \in Stats /\ b \in Stats /\ c \in Nat /\ c > 0 /\ b.held = a.held
              /\ (~b.ahead => ~a.ahead /\ c <= base) /\ (~b.behind => ~a.behind /\ base <= c)
          BY <1>0, <1>4, <4>1 DEF Loaded, Checkpoints
        <5>2. PICK m \in 0..Len(shards[k]) : /\ c = Cardinality(Seen(k, m))
                                             /\ Stands(a, Heard(s, Seen(k, m)), All(k, s))
          BY <3>1, <5>1 DEF CheckpointSound
        <5>3. /\ c <= base => Seen(k, m) \subseteq Seen(k, n)
              /\ base <= c => Seen(k, n) \subseteq Seen(k, m)
          BY <1>0, <1>1, <5>2, SeenOrder
        <5>4. /\ c <= base => Heard(s, Seen(k, m)) \subseteq Heard(s, Seen(k, n))
              /\ base <= c => Heard(s, Seen(k, n)) \subseteq Heard(s, Seen(k, m))
          BY <5>3 DEF Heard
        <5> HIDE DEF a, b, c
        <5> QED
          BY <5>1, <5>2, <5>4, Reloaded DEF b
      <4>2. CASE acc2[s] = Fresh /\ (~resume \/ t.ckpt[s].at = 0 \/ s \notin Treated(t.ckpt, base))
        <5>1. base = 0
          <6>1. CASE ~resume
            BY <1>1, <6>1
          <6>2. CASE t.ckpt[s].at = 0
            BY <1>6, <6>2 DEF Missing
          <6>3. CASE s \notin Treated(t.ckpt, base)
            BY <1>6, <6>3 DEF Treated
          <6> QED
            BY <4>2, <6>1, <6>2, <6>3
        <5>2. Seen(k, n) = {}
          BY <1>0, <1>1, <5>1, SeenFacts
        <5>3. Heard(s, Seen(k, n)) = {}
          BY <5>2 DEF Heard
        <5> QED
          BY <4>2, <5>3, FreshStands
      <4> QED
        BY <1>4, <4>1, <4>2
    <3> QED
      BY <3>2, <3>3 DEF Holding
  <2> QED
    BY <1>1, <2>1, <2>2, <2>3 DEF ReplayerSound
<1> HIDE DEF u, q
<1> QED
  BY <1>0, <1>2, <1>5, <1>6, EndedSound

----------------------------------------------------------------------------
(* The merge                                                               *)

\* A sum with at most one term that is not 0.
LEMMA OnlyOne ==
    ASSUME NEW D, IsFiniteSet(D), NEW f \in [D -> Nat]
    PROVE  /\ (\A x \in D : f[x] = 0) => Over(f) = 0
           /\ \A y \in D : (\A x \in D \ {y} : f[x] = 0) => Over(f) = f[y]
<1>1. ASSUME NEW E, IsFiniteSet(E), NEW g \in [E -> Nat], \A x \in E : g[x] = 0
      PROVE  Over(g) = 0
  <2>1. /\ {} \in SUBSET E /\ g \in [E -> Int]
        /\ \A x \in E : g[x] = IF x \in {} THEN 1 ELSE 0
    BY <1>1
  <2>2. Over(g) = Cardinality({})
    BY <1>1, <2>1, SumIndicator
  <2> QED
    BY <2>2, FS_EmptySet
<1>2. ASSUME NEW y \in D, \A x \in D \ {y} : f[x] = 0
      PROVE  Over(f) = f[y]
  <2> DEFINE rest == [x \in D \ {y} |-> f[x]]
  <2>1. f \in [D -> Int] /\ f[y] \in Nat
    OBVIOUS
  <2>2. Over(f) = Over(rest) + f[y]
    BY <2>1, SumStep
  <2>3. rest \in [D \ {y} -> Nat] /\ \A x \in D \ {y} : rest[x] = 0
    BY <1>2
  <2>4. IsFiniteSet(D \ {y})
    BY FS_Subset
  <2>5. Over(rest) = 0
    <3> HIDE DEF rest
    <3> QED
      BY <1>1, <2>3, <2>4
  <2> QED
    BY <2>1, <2>2, <2>5
<1> QED
  BY <1>1, <1>2

LEMMA SummedSound ==
    ASSUME Captured, \A k \in Shards : Passed(k), NEW s \in 1..Signals
    PROVE  Stands(Summed(s).stat, Fits(Prompts(corpus)), Fits(Prompts(corpus)))
<1> DEFINE side(k) == store[k].side[s].stat
           held(r) == [k \in Shards |-> side(k).held[r]]
           total == Summed(s).stat
<1>1. {k \in Shards : store[k].side[s].there} = Shards
  BY DEF Passed
<1>2. /\ total.held = [r \in 1..Rows |-> Over(held(r))]
      /\ total.behind <=> \E k \in Shards : side(k).behind
      /\ total.ahead <=> \E k \in Shards : side(k).ahead
  <2>1. total = [held |-> [r \in 1..Rows |-> Over(held(r))],
                 behind |-> \E k \in Shards : side(k).behind,
                 ahead |-> \E k \in Shards : side(k).ahead]
    BY <1>1 DEF Summed
  <2> QED
    BY <2>1
<1>3. DealtOut(shards, corpus) /\ IsFiniteSet(Shards)
  BY DEF Captured, DealtOut, Shards
<1>4. ASSUME NEW k \in Shards
      PROVE  /\ side(k) \in Stats
             /\ Stands(side(k), Fits(ToSet(shards[k])), Fits(ToSet(shards[k])))
  <2>1. SidecarSound(k, s, store[k].side[s]) /\ store[k].side[s].there
        /\ store[k].side \in [1..Signals -> Sidecars]
    BY ShardFields DEF StoreSound, Passed
  <2>2. s \notin silent /\ Stands(side(k), Heard(s, Seen(k, Len(shards[k]))), All(k, s))
    BY <2>1 DEF SidecarSound, Holding
  <2>3. side(k) \in Stats
    BY <2>1 DEF Sidecars
  <2> QED
    BY <1>3, <2>2, <2>3, SeenFacts DEF Heard, All
<1>5. UNION {ToSet(shards[k]) : k \in Shards} = Prompts(corpus)
  BY <1>3 DEF DealtOut, Shards
<1>6. ASSUME NEW r \in 1..Rows
      PROVE  /\ held(r) \in [Shards -> Nat]
             /\ \A k \in Shards : r \notin Fits(ToSet(shards[k])) => held(r)[k] = 0
  <2>1. \A k \in Shards : side(k).held[r] \in Nat
    BY <1>4 DEF Stats
  <2>2. \A k \in Shards : r \notin Fits(ToSet(shards[k])) => side(k).held[r] = 0
    BY <1>4 DEF Stands
  <2> QED
    BY <2>1, <2>2
<1>7. ASSUME NEW r \in 1..Rows, r \notin Fits(Prompts(corpus)) PROVE Over(held(r)) = 0
  <2>1. \A k \in Shards : held(r)[k] = 0
    BY <1>5, <1>6, <1>7 DEF Fits
  <2> HIDE DEF held
  <2> QED
    BY <1>3, <1>6, <2>1, OnlyOne
<1>8. ASSUME NEW r \in 1..Rows, r \in Fits(Prompts(corpus))
      PROVE  \E k \in Shards : r \in Fits(ToSet(shards[k])) /\ Over(held(r)) = side(k).held[r]
  <2>1. PICK k \in Shards : r \in ToSet(shards[k])
    BY <1>5, <1>8 DEF Fits
  <2>2. \A l \in Shards \ {k} : r \notin ToSet(shards[l])
    BY <1>3, <2>1 DEF DealtOut, Shards
  <2>3. \A l \in Shards \ {k} : held(r)[l] = 0
    BY <1>6, <2>2 DEF Fits
  <2>4. r \in Fits(ToSet(shards[k])) /\ held(r)[k] = side(k).held[r]
    BY <1>8, <2>1 DEF Fits
  <2>5. Over(held(r)) = held(r)[k]
    <3> HIDE DEF held
    <3> QED
      BY <1>3, <1>6, <2>3, OnlyOne
  <2> QED
    BY <2>4, <2>5
<1> HIDE DEF held, side, total
<1>9. \A r \in 1..Rows : total.held[r] = Over(held(r))
  BY <1>2
<1>10. ASSUME ~total.ahead, NEW r \in 1..Rows
       PROVE  total.held[r] <= IF r \in Fits(Prompts(corpus)) THEN 1 ELSE 0
  <2>1. CASE r \in Fits(Prompts(corpus))
    <3>1. PICK k \in Shards : r \in Fits(ToSet(shards[k])) /\ Over(held(r)) = side(k).held[r]
      BY <1>8, <2>1
    <3>2. side(k).held[r] <= 1
      BY <1>2, <1>4, <1>10, <3>1 DEF Stands
    <3> QED
      BY <1>9, <2>1, <3>1, <3>2
  <2>2. CASE r \notin Fits(Prompts(corpus))
    BY <1>7, <1>9, <2>2
  <2> QED
    BY <2>1, <2>2
<1>11. ASSUME ~total.behind, NEW r \in Fits(Prompts(corpus)) PROVE total.held[r] >= 1
  <2>1. r \in 1..Rows
    <3>1. \A k \in Shards : ToSet(shards[k]) \subseteq 1..Rows
      BY <1>3, Elements DEF DealtOut, Shards
    <3> QED
      BY <1>5, <1>11, <3>1 DEF Fits
  <2>2. PICK k \in Shards : r \in Fits(ToSet(shards[k])) /\ Over(held(r)) = side(k).held[r]
    BY <1>8, <2>1
  <2>3. side(k).held[r] >= 1
    BY <1>2, <1>4, <1>11, <2>2 DEF Stands
  <2> QED
    BY <1>9, <2>1, <2>2, <2>3
<1> QED
  BY <1>7, <1>9, <1>10, <1>11 DEF Stands, total

----------------------------------------------------------------------------
(* A step of the replay                                                    *)

\* The operators of the shards depend on what does not change only.
LEMMA Standing ==
    ASSUME UNCHANGED <<engine, silent, shards, corpus>>
    PROVE  /\ Shards' = Shards /\ CorpusSound' = CorpusSound
           /\ DealtOut(shards, corpus)' = DealtOut(shards, corpus)
           /\ \A k, t : StoreSound(k, t)' = StoreSound(k, t)
           /\ \A k, p : ReplayerSound(k, p)' = ReplayerSound(k, p)
<1>1. /\ Shards' = Shards
      /\ \A k, m : Seen(k, m)' = Seen(k, m)
      /\ \A s, S : Heard(s, S)' = Heard(s, S)
      /\ \A a, S, W : Stands(a, S, W)' = Stands(a, S, W)
      /\ \A k : Len(shards[k])' = Len(shards[k])
      /\ \A k, s : All(k, s)' = All(k, s)
  BY DEF Shards, Seen, Heard, Stands, All
<1>2. CorpusSound' = CorpusSound /\ DealtOut(shards, corpus)' = DealtOut(shards, corpus)
  BY DEF CorpusSound, CorpusOf, ToAnswer, DealtOut
<1>3. \A k, s, a, m : Holding(k, s, a, m)' = Holding(k, s, a, m)
  BY <1>1 DEF Holding
<1>4. \A k, s, c : /\ CheckpointSound(k, s, c)' = CheckpointSound(k, s, c)
                   /\ SidecarSound(k, s, c)' = SidecarSound(k, s, c)
  BY <1>1, <1>3 DEF CheckpointSound, SidecarSound
<1>5. \A k : Stores(k)' = Stores(k) /\ Replayers(k)' = Replayers(k)
  BY DEF Stores, Replayers
<1>6. \A k, t : StoreSound(k, t)' = StoreSound(k, t)
  BY <1>1, <1>4, <1>5 DEF StoreSound
<1>7. \A k, p : ReplayerSound(k, p)' = ReplayerSound(k, p)
  BY <1>1, <1>3, <1>5 DEF ReplayerSound
<1> QED
  BY <1>1, <1>2, <1>6, <1>7

\* One step of one shard, and then of all.
LEMMA OneShard ==
    ASSUME Captured, stage = "replay", NEW k \in Shards, Capture(k) \/ LoseReplay(k)
    PROVE  StepSound(k) /\ UNCHANGED <<shards, corpus, stage, merged>>
<1>1. UNCHANGED <<shards, corpus, stage, merged>>
  BY DEF Capture, LoseReplay, Replayer, Replay, MarkChunk, Checked, EndReplay, SaveWriter,
         DumpSignal, KillReplay
<1>2. CASE Capture(k)
  <2>1. \/ Replay(k) \/ MarkChunk(k) \/ Checked(k) \/ EndReplay(k)
        \/ \E ok \in BOOLEAN : SaveWriter(k, ok) \/ DumpSignal(k, ok)
    BY <1>2 DEF Capture, Replayer
  <2> QED
    BY <1>1, <2>1, Replayed, ChunkMarked, ReplayChecked, ReplayEnded, WriterSaved, SignalDumped
<1>3. CASE LoseReplay(k)
  BY <1>1, <1>3, ReplayLost DEF LoseReplay
<1> QED
  BY <1>2, <1>3

\* What is sound of every shard is sound of the whole.
LEMMA AllShards ==
    ASSUME Captured, UNCHANGED <<engine, silent, shards, corpus>>,
           stage \in {"replay", "merged"}, stage' \in {"replay", "merged"},
           DOMAIN store' = Shards, DOMAIN rep' = Shards,
           \A k \in Shards : StoreSound(k, store'[k]) /\ ReplayerSound(k, rep'[k])
    PROVE  Captured'
<1>1. /\ Shards' = Shards /\ DealtOut(shards, corpus)'
      /\ \A k, t : StoreSound(k, t)' = StoreSound(k, t)
      /\ \A k, p : ReplayerSound(k, p)' = ReplayerSound(k, p)
  BY Standing DEF Captured
<1>2. SplitHasEveryPrompt'
  BY DEF Captured, SplitHasEveryPrompt
<1> QED
  BY <1>1, <1>2 DEF Captured

\* The shards as they are after the split.
LEMMA SplitSound ==
    ASSUME CorpusSound, NEW n \in ShardCounts, Split(n), stage' = "replay",
           UNCHANGED <<engine, silent>>
    PROVE  CorpusSound' /\ Captured'
<1> DEFINE start == [Ended EXCEPT !.pc = "chunk"]
<1>1. /\ shards' = Pieces(corpus, n) /\ corpus' = corpus /\ SplitHasEveryPrompt'
      /\ DealtOut(shards', corpus)
  BY SplitMade
<1>2. /\ store' = [k \in 1..n |-> NoStore] /\ rep' = [k \in 1..n |-> start]
      /\ DOMAIN shards' = 1..n
  BY DEF Split
<1>3. CorpusSound'
  BY <1>1 DEF CorpusSound, CorpusOf, ToAnswer
<1>4. DealtOut(shards, corpus)' /\ Shards' = 1..n
  BY <1>1, <1>2 DEF DealtOut, Shards
<1>5. ASSUME NEW k \in 1..n PROVE StoreSound(k, NoStore)' /\ ReplayerSound(k, start)'
  <2>1. /\ shards'[k] \in Seq(1..Rows) /\ Len(shards'[k]) \in Nat
        /\ Seen(k, 0)' = {} /\ Cardinality({}) = 0
    <3>1. shards'[k] \in Seq(1..Rows)
      BY <1>1, <1>2, <1>5 DEF DealtOut
    <3>2. Seen(k, 0)' = {}
      BY DEF Seen, Fits
    <3> QED
      BY <3>1, <3>2, FS_EmptySet, LenProperties
  <2>2. /\ [s \in 1..Signals |-> NoCheckpoint] \in [1..Signals -> Checkpoints]
        /\ [s \in 1..Signals |-> NoSidecar] \in [1..Signals -> Sidecars]
        /\ [s \in 1..Signals |-> Fresh] \in [1..Signals -> Stats]
        /\ 0 \in 0..Len(shards'[k]) /\ 1 \in 1..(Len(shards'[k]) + 1) /\ 1 \in 1..Signals
        /\ {} \in SUBSET (1..Rows)
    BY <2>1, Statistics
  <2>3. NoStore \in Stores(k)' /\ NoStore.rows = 0 /\ NoStore.captured = 0
    BY <2>2 DEF NoStore, Stores
  <2>4. /\ start \in Replayers(k)' /\ start.pc = "chunk" /\ start.next = 1
        /\ start.captured = 0 /\ start.next - 1 = 0
        /\ \A s \in 1..Signals : start.acc[s] = Fresh
    BY <2>2 DEF Ended, Replayers
  <2> HIDE DEF start
  <2>5. ASSUME NEW s \in 1..Signals
        PROVE  /\ CheckpointSound(k, s, NoCheckpoint)' /\ SidecarSound(k, s, NoSidecar)'
               /\ Holding(k, s, Fresh, 0)'
    <3>1. Heard(s, {})' = {}
      BY DEF Heard
    <3>2. \A W : Stands(Fresh, {}, W)'
      BY FreshStands DEF Stands
    <3>3. Stands(Fresh, Heard(s, Seen(k, 0)), All(k, s))'
      BY <2>1, <3>1, <3>2
    <3> QED
      BY <3>3, Statistics DEF CheckpointSound, SidecarSound, Holding
  <2>6. StoreSound(k, NoStore)'
    <3>1. \A s \in 1..Signals : NoStore.ckpt[s] = NoCheckpoint /\ NoStore.side[s] = NoSidecar
      BY DEF NoStore
    <3> QED
      BY <2>1, <2>3, <2>5, <3>1 DEF StoreSound
  <2>7. ReplayerSound(k, start)'
    BY <2>1, <2>4, <2>5 DEF ReplayerSound
  <2> QED
    BY <2>6, <2>7 DEF start
<1> HIDE DEF start
<1>6. \A k \in 1..n : store'[k] = NoStore /\ rep'[k] = start
  BY <1>2
<1>7. \A k \in Shards' : (StoreSound(k, store[k]) /\ ReplayerSound(k, rep[k]))'
  BY <1>4, <1>5, <1>6
<1>8. DOMAIN store' = 1..n /\ DOMAIN rep' = 1..n
  BY <1>2
<1> QED
  BY <1>1, <1>3, <1>4, <1>7, <1>8 DEF Captured

LEMMA ReplaysStep ==
    ASSUME Generating, Replays, [Next]_vars
    PROVE  Replays'
<1> DEFINE whole(s) == Stands(merged[s].stat, Fits(Prompts(corpus)), Fits(Prompts(corpus)))
<1>0. UNCHANGED <<engine, silent>>
  BY Setting
<1>1. CASE UNCHANGED <<shards, store, rep, stage, corpus, merged>>
  <2>1. /\ CorpusSound' = CorpusSound /\ Shards' = Shards
    BY <1>0, <1>1, Standing
  <2>2. Captured /\ stage \in {"replay", "merged"} => Captured'
    <3> SUFFICES ASSUME Captured, stage \in {"replay", "merged"} PROVE Captured'
      OBVIOUS
    <3>1. /\ DOMAIN store = Shards /\ DOMAIN rep = Shards
          /\ \A k \in Shards : StoreSound(k, store[k]) /\ ReplayerSound(k, rep[k])
      BY DEF Captured
    <3>2. UNCHANGED <<engine, silent, shards, corpus>> /\ stage' = stage /\ store' = store /\ rep' = rep
      BY <1>0, <1>1
    <3> QED
      BY <3>1, <3>2, AllShards
  <2>3. (\A s \in 1..Signals : whole(s)) => (\A s \in 1..Signals : whole(s))'
    BY <1>1 DEF Stands
  <2> HIDE DEF whole
  <2>4. /\ stage \in {"corpus", "replay", "merged"} => CorpusSound
        /\ stage \in {"replay", "merged"} => Captured
        /\ stage = "merged" => \A s \in 1..Signals : whole(s)
    BY DEF Replays, whole
  <2>5. /\ stage' \in {"corpus", "replay", "merged"} => CorpusSound'
        /\ stage' \in {"replay", "merged"} => Captured'
        /\ stage' = "merged" => (\A s \in 1..Signals : whole(s))'
    BY <1>1, <2>1, <2>2, <2>3, <2>4
  <2> QED
    BY <2>5 DEF Replays, whole
<1>2. CASE TakeOutput \/ Concatenate
  <2>1. stage' \in {"corpus", "refused"} /\ (stage' = "corpus" => CorpusOf(corpus'))
    BY <1>2, OutputTaken, OutputsConcatenated DEF TakeOutput, Concatenate
  <2>2. stage' = "corpus" => CorpusSound'
    BY <1>0, <2>1 DEF CorpusSound, CorpusOf, ToAnswer
  <2> QED
    BY <2>1, <2>2 DEF Replays
<1>3. ASSUME NEW n \in ShardCounts, Split(n) PROVE Replays'
  <2>1. stage = "corpus" /\ stage' \in {"replay", "refused"} /\ CorpusSound
    BY <1>3 DEF Split, Replays
  <2>2. stage' = "replay" => CorpusSound' /\ Captured'
    BY <1>0, <1>3, <2>1, SplitSound
  <2> QED
    BY <2>1, <2>2 DEF Replays
<1>4. ASSUME stage = "replay", UNCHANGED <<shards, corpus, stage>>,
             DOMAIN store' = Shards, DOMAIN rep' = Shards,
             \A k \in Shards : StoreSound(k, store'[k]) /\ ReplayerSound(k, rep'[k])
      PROVE  Replays'
  <2>1. CorpusSound /\ Captured
    BY <1>4 DEF Replays
  <2>2. CorpusSound' /\ Captured'
    BY <1>0, <1>4, <2>1, Standing, AllShards
  <2> QED
    BY <1>4, <2>2 DEF Replays
<1>5. ASSUME NEW k \in Shards, Capture(k) \/ LoseReplay(k) PROVE Replays'
  <2>1. stage = "replay" /\ Captured
    BY <1>5 DEF Capture, LoseReplay, Replays
  <2>2. StepSound(k) /\ UNCHANGED <<shards, corpus, stage, merged>>
    BY <1>5, <2>1, OneShard
  <2>3. /\ DOMAIN store' = Shards /\ DOMAIN rep' = Shards
        /\ StoreSound(k, store'[k]) /\ ReplayerSound(k, rep'[k])
        /\ \A j \in Shards \ {k} : store'[j] = store[j] /\ rep'[j] = rep[j]
    BY <2>2 DEF StepSound, RepFrame
  <2>4. \A j \in Shards \ {k} : StoreSound(j, store'[j]) /\ ReplayerSound(j, rep'[j])
    BY <2>1, <2>3, ShardFields
  <2> QED
    BY <1>4, <2>1, <2>2, <2>3, <2>4
<1>6. ASSUME NEW resume \in BOOLEAN, Relaunch(resume) PROVE Replays'
  <2>1. /\ stage = "replay" /\ UNCHANGED <<shards, corpus, stage>>
        /\ rep' = [k \in Shards |-> Replaying(k, resume)]
        /\ store' = [k \in Shards |-> StoreAtStart(k, resume)]
    BY <1>6 DEF Relaunch
  <2>2. \A k \in Shards : store'[k] = StoreAtStart(k, resume) /\ rep'[k] = Replaying(k, resume)
    BY <2>1
  <2>3. Captured
    BY <2>1 DEF Replays
  <2>4. \A k \in Shards : StoreSound(k, store'[k]) /\ ReplayerSound(k, rep'[k])
    BY <2>2, <2>3, StartedAgain
  <2>5. DOMAIN store' = Shards /\ DOMAIN rep' = Shards
    BY <2>1
  <2> QED
    BY <1>4, <2>1, <2>4, <2>5
<1>7. CASE Merge
  <2>1. /\ stage = "replay" /\ stage' = "merged" /\ \A k \in Shards : Passed(k)
        /\ merged' = [s \in 1..Signals |-> Summed(s)]
        /\ UNCHANGED <<shards, store, rep, corpus>>
    BY <1>7 DEF Merge, replay
  <2>2. CorpusSound /\ Captured
    BY <2>1 DEF Replays
  <2>3. CorpusSound' /\ Captured'
    <3>1. /\ DOMAIN store = Shards /\ DOMAIN rep = Shards
          /\ \A k \in Shards : StoreSound(k, store[k]) /\ ReplayerSound(k, rep[k])
      BY <2>2 DEF Captured
    <3> QED
      BY <1>0, <2>1, <2>2, <3>1, Standing, AllShards
  <2>4. \A s \in 1..Signals : merged'[s] = Summed(s)
    BY <2>1
  <2>5. ASSUME NEW s \in 1..Signals
        PROVE  Stands(merged'[s].stat, Fits(Prompts(corpus')), Fits(Prompts(corpus')))
    <3>1. Stands(Summed(s).stat, Fits(Prompts(corpus)), Fits(Prompts(corpus)))
      BY <2>1, <2>2, SummedSound
    <3> QED
      BY <2>1, <2>4, <3>1
  <2>6. (\A s \in 1..Signals : whole(s))'
    BY <2>5 DEF Stands
  <2> HIDE DEF whole
  <2> QED
    BY <2>1, <2>3, <2>6 DEF Replays, whole
<1>8. \/ UNCHANGED <<shards, store, rep, stage, corpus, merged>>
      \/ TakeOutput \/ Concatenate \/ \E n \in ShardCounts : Split(n)
      \/ \E k \in Shards : Capture(k) \/ LoseReplay(k)
      \/ \E resume \in BOOLEAN : Relaunch(resume)
      \/ Merge
  BY DEF Next, vars, Offloading, Generation, replay
<1> QED
  BY <1>1, <1>2, <1>3, <1>5, <1>6, <1>7, <1>8

----------------------------------------------------------------------------
(* The covariance by windows                                               *)

LEMMA OnlyOffloading ==
    [Next]_vars => OffloadNext \/ UNCHANGED <<meta, staged, leftover, offload, covariance>>
BY DEF Next, Offloading, Generation, TakeOutput, Concatenate, Split, Capture, LoseReplay,
       Relaunch, Merge, vars, offloading

LEMMA TheOptions ==
    ASSUME TypeOffload, offload.options # {}
    PROVE  \E f \in Fingerprints : offload.options = {f} /\ Options = f
<1>1. PICK f \in Fingerprints : offload.options = {f}
  BY DEF TypeOffload, Prints
<1>2. \A g \in Fingerprints : offload.options = {g} <=> g = f
  BY <1>1
<1>3. Options = f
  BY <1>2 DEF Options
<1>4. f \in Fingerprints /\ offload.options = {f} /\ Options = f
  BY <1>1, <1>3
<1> HIDE DEF Options
<1> WITNESS f \in Fingerprints
<1> QED
  BY <1>4

LEMMA Sizes ==
    /\ Layers \in Nat \ {0} /\ Windows \subseteq 1..Layers /\ \A n \in Windows : n \in Nat \ {0}
    /\ Waiting.pc = "down" /\ Waiting.options = {} /\ Waiting.low = 1 /\ Waiting.scanned = {}
    /\ Waiting \in [pc: {"down", "wipe", "window", "shards", "done"}, options: Prints,
                    size: Nat, low: Nat \ {0}, todo: PartSets, scanned: PartSets]
<1>1. Layers \in Nat \ {0} /\ Windows \subseteq 1..Layers
  BY OffloadAssumption
<1> QED
  BY <1>1 DEF Waiting, Prints, PartSets

\* Once every layer has had its window, what is staged is the covariance.
LEMMA AllStaged ==
    ASSUME Assembling, offload.pc = "window", Window = {}
    PROVE  \A p \in Parts \ leftover : staged[p] = IF p \in PartsOf(Options, 1..Layers)
                                                   THEN offload.options ELSE {}
<1>0. /\ TypeOffload /\ Staging /\ offload.size \in Windows /\ meta = offload.options
      /\ \A p \in PartsOf(Options, 1..Layers) \ leftover :
            p[1] < offload.low => staged[p] = offload.options
      /\ offload.options # {}
  BY DEF Assembling, Windowed
<1>1. PICK f \in Fingerprints : offload.options = {f} /\ Options = f
  BY <1>0, TheOptions
<1>2. offload.low > Layers
  <2>1. offload.low \in Nat /\ offload.size \in Nat \ {0} /\ Layers \in Nat
    BY <1>0, Sizes DEF TypeOffload
  <2>2. offload.low \in offload.low .. (offload.low + offload.size - 1)
    BY <2>1
  <2> QED
    BY <2>1, <2>2 DEF Window
<1>3. ASSUME NEW p \in Parts \ leftover, p \in PartsOf(f, 1..Layers)
      PROVE  staged[p] = offload.options
  <2>1. p[1] \in 1..Layers
    BY DEF Parts
  <2>2. p[1] < offload.low
    BY <1>0, <1>2, <2>1, Sizes DEF TypeOffload
  <2> QED
    BY <1>0, <1>1, <1>3, <2>2
<1>4. ASSUME NEW p \in Parts \ leftover, p \notin PartsOf(f, 1..Layers)
      PROVE  staged[p] = {}
  <2>1. staged[p] \in Prints
    BY <1>0 DEF TypeOffload
  <2>2. ASSUME NEW g \in Fingerprints, staged[p] = {g} PROVE FALSE
    <3>1. p \in PartsOf(g, 1..Layers) /\ meta \in {{}, {g}}
      BY <1>0, <2>2 DEF Staging
    <3>2. g = f
      BY <1>0, <1>1, <3>1
    <3> QED
      BY <1>4, <3>1, <3>2
  <2> QED
    BY <2>1, <2>2 DEF Prints
<1> QED
  BY <1>1, <1>3, <1>4

LEMMA OffloadStep == ASSUME Assembling, [Next]_vars PROVE Assembling'
<1>0. /\ meta \in Prints /\ staged \in [Parts -> Prints] /\ covariance \in [Parts -> Prints]
      /\ leftover \in PartSets
      /\ offload \in [pc: {"down", "wipe", "window", "shards", "done"}, options: Prints,
                      size: Nat, low: Nat \ {0}, todo: PartSets, scanned: PartSets]
      /\ Staging /\ TypeOffload
  BY DEF Assembling, TypeOffload
<1>1. CASE UNCHANGED <<meta, staged, leftover, offload, covariance>>
  BY <1>1 DEF Assembling, TypeOffload, Staging, Windowed, Chosen, CovarianceWhole, Options,
              Window, Present
<1>2. ASSUME NEW f \in Fingerprints, NEW size \in Windows, NEW resume \in BOOLEAN,
             StartOffload(f, size, resume)
      PROVE  Assembling'
  <2>1. UNCHANGED <<meta, staged, leftover, covariance>> /\ Staging'
    BY <1>0, <1>2 DEF StartOffload, Staging
  <2>2. CASE Continues(resume, f)
    <3>1. offload' = [Waiting EXCEPT !.pc = "window", !.options = {f}, !.size = size,
                                     !.scanned = Present(staged)]
      BY <1>2, <2>2 DEF StartOffload
    <3>2. /\ offload'.pc = "window" /\ offload'.options = {f} /\ offload'.size = size
          /\ offload'.low = 1 /\ offload'.scanned = Present(staged) /\ meta = {f}
      BY <2>2, <3>1 DEF Waiting, Continues
    <3>3. TypeOffload'
      <4>1. Present(staged) \in PartSets
        BY DEF Present, PartSets
      <4> QED
        BY <1>0, <2>1, <3>1, <4>1, Sizes DEF TypeOffload, Prints
    <3>4. Windowed'
      <4>1. \A p \in PartsOf(Options, 1..Layers)' : ~(p[1] < 1)
        BY Sizes DEF PartsOf
      <4> QED
        BY <2>1, <3>2, <4>1 DEF Windowed, Present
    <3> QED
      BY <2>1, <3>2, <3>3, <3>4 DEF Assembling, Chosen, CovarianceWhole
  <2>3. CASE ~Continues(resume, f)
    <3>1. offload' = [Waiting EXCEPT !.pc = "wipe", !.options = {f}, !.size = size]
      BY <1>2, <2>3 DEF StartOffload
    <3>2. /\ offload'.pc = "wipe" /\ offload'.options = {f} /\ offload'.size = size
          /\ offload'.low = 1 /\ offload'.scanned = {}
      BY <3>1 DEF Waiting
    <3>3. TypeOffload'
      BY <1>0, <2>1, <3>1, Sizes DEF TypeOffload, Prints
    <3> QED
      BY <2>1, <3>2, <3>3 DEF Assembling, Chosen, CovarianceWhole, Windowed
  <2> QED
    BY <2>2, <2>3
<1>3. CASE Wipe
  <2>1. PICK left \in SUBSET Present(staged) :
           /\ staged' = [p \in Parts |-> IF p \in left THEN staged[p] ELSE {}]
           /\ leftover' = left
    BY <1>3 DEF Wipe
  <2>2. /\ offload.pc = "wipe" /\ meta' = offload.options
        /\ covariance' = covariance /\ offload' = [offload EXCEPT !.pc = "window"]
    BY <1>3 DEF Wipe
  <2>3. /\ offload'.pc = "window" /\ offload'.options = offload.options
        /\ offload'.size = offload.size /\ offload'.low = offload.low
        /\ offload'.scanned = offload.scanned
    BY <1>0, <2>2
  <2>4. offload.options # {} /\ offload.size \in Windows /\ offload.low = 1 /\ offload.scanned = {}
    BY <2>2 DEF Assembling, Chosen
  <2>5. TypeOffload'
    <3>1. \A p \in Parts : staged'[p] \in Prints
      BY <1>0, <2>1 DEF Prints
    <3>2. staged' \in [Parts -> Prints]
      BY <2>1, <3>1
    <3>3. leftover' \in PartSets
      BY <2>1 DEF Present, PartSets
    <3> QED
      BY <1>0, <2>2, <3>2, <3>3 DEF TypeOffload
  <2>6. Staging'
    BY <2>1 DEF Staging
  <2>7. Windowed'
    <3>1. \A p \in PartsOf(Options, 1..Layers)' : ~(p[1] < 1)
      BY Sizes DEF PartsOf
    <3> QED
      BY <2>2, <2>3, <2>4, <3>1 DEF Windowed
  <2> QED
    BY <2>3, <2>5, <2>6, <2>7 DEF Assembling, Chosen, CovarianceWhole
<1>4. ASSUME offload.pc \in {"window", "shards"}, offload'.pc = "window", meta' = meta,
             offload'.options = offload.options, offload'.size = offload.size,
             offload'.low = offload.low + offload.size, offload'.scanned = offload.scanned,
             TypeOffload', Staging', covariance' = covariance,
             \A p \in Parts : \/ staged'[p] = offload.options
                              \/ staged'[p] = staged[p] /\ (p \in leftover => p \in leftover'),
             \A p \in PartsOf(Options, Window) \ leftover' : staged'[p] = offload.options
      PROVE  Assembling'
  <2>1. /\ offload.size \in Windows /\ offload.options # {} /\ meta = offload.options
        /\ offload.scanned \subseteq Present(staged)
        /\ \A p \in PartsOf(Options, 1..Layers) \ leftover :
              p[1] < offload.low => staged[p] = offload.options
    BY <1>4 DEF Assembling, Windowed
  <2>2. Options' = Options
    BY <1>4 DEF Options
  <2>3. ASSUME NEW p \in PartsOf(Options, 1..Layers) \ leftover',
               p[1] < offload.low + offload.size
        PROVE  staged'[p] = offload.options
    <3>1. p[1] \in 1..Layers /\ p \in Parts /\ p[2] \in {"gate", "down"}
          /\ p = <<p[1], p[2]>> /\ p[2] \in Options.matrices
      BY DEF PartsOf, Parts
    <3>2. CASE p[1] < offload.low
      BY <1>4, <2>1, <2>3, <3>1, <3>2
    <3>3. CASE ~(p[1] < offload.low)
      <4>1. offload.low \in Nat /\ offload.size \in Nat /\ Layers \in Nat
        BY <1>0, <2>1, Sizes
      <4>2. p[1] \in Window
        BY <2>3, <3>1, <3>3, <4>1 DEF Window
      <4>3. p \in PartsOf(Options, Window)
        BY <3>1, <4>2 DEF PartsOf
      <4> QED
        BY <1>4, <2>3, <4>3
    <3> QED
      BY <3>2, <3>3
  <2>4. offload.scanned \subseteq Present(staged)'
    BY <1>4, <2>1 DEF Present
  <2>5. Windowed'
    BY <1>4, <2>1, <2>2, <2>3, <2>4 DEF Windowed
  <2> QED
    BY <1>4, <2>5 DEF Assembling, Chosen, CovarianceWhole
<1>5. CASE SkipWindow
  <2>1. /\ offload.pc = "window" /\ UNCHANGED <<meta, staged, leftover, covariance>>
        /\ offload' = [offload EXCEPT !.low = offload.low + offload.size]
        /\ PartsOf(Options, Window) \subseteq offload.scanned
    BY <1>5 DEF SkipWindow
  <2>2. /\ offload.options # {} /\ meta = offload.options
        /\ offload.scanned \subseteq Present(staged)
    BY <2>1 DEF Assembling, Windowed
  <2>3. TypeOffload'
    BY <1>0, <2>1 DEF TypeOffload
  <2>4. Staging'
    BY <1>0, <2>1 DEF Staging
  <2>5. ASSUME NEW p \in PartsOf(Options, Window) \ leftover' PROVE staged'[p] = offload.options
    <3>1. p \in Parts \ leftover /\ staged[p] # {}
      BY <2>1, <2>2 DEF Present
    <3>2. PICK g \in Fingerprints : staged[p] = {g}
      BY <1>0, <3>1 DEF Prints
    <3>3. meta \in {{}, {g}}
      BY <1>0, <3>1, <3>2 DEF Staging
    <3> QED
      BY <2>1, <2>2, <3>2, <3>3
  <2> QED
    BY <1>0, <1>4, <2>1, <2>3, <2>4, <2>5
<1>6. ASSUME UNCHANGED <<meta, staged, leftover, covariance>>, offload' = Waiting PROVE Assembling'
  <2>1. TypeOffload'
    BY <1>0, <1>6, Sizes DEF TypeOffload
  <2>2. Staging'
    BY <1>0, <1>6 DEF Staging
  <2> QED
    BY <1>6, <2>1, <2>2, Sizes DEF Assembling, Windowed, Chosen, CovarianceWhole
<1>7. CASE ForwardWindow
  <2>1. CASE offload' = [offload EXCEPT !.pc = "shards", !.todo = PartsOf(Options, Window)]
    <3>1. offload.pc = "window" /\ UNCHANGED <<meta, staged, leftover, covariance>>
      BY <1>7 DEF ForwardWindow
    <3>2. /\ offload'.pc = "shards" /\ offload'.options = offload.options
          /\ offload'.size = offload.size /\ offload'.low = offload.low
          /\ offload'.scanned = offload.scanned /\ offload'.todo = PartsOf(Options, Window)
      BY <1>0, <2>1
    <3>3. PartsOf(Options, Window) \in PartSets
      BY <1>0, Sizes DEF PartsOf, PartSets, Parts, Window
    <3>4. TypeOffload'
      BY <1>0, <2>1, <3>1, <3>3 DEF TypeOffload
    <3>5. Staging'
      BY <1>0, <3>1 DEF Staging
    <3>6. Options' = Options /\ Window' = Window
      BY <3>2 DEF Options, Window
    <3>7. Windowed'
      BY <3>1, <3>2, <3>6 DEF Assembling, Windowed, Present
    <3> QED
      BY <3>2, <3>4, <3>5, <3>7 DEF Assembling, Chosen, CovarianceWhole
  <2>2. CASE offload' = Waiting
    BY <1>6, <1>7, <2>2 DEF ForwardWindow
  <2> QED
    BY <1>7, <2>1, <2>2 DEF ForwardWindow
<1>8. ASSUME NEW p \in Parts, WriteShard(p) PROVE Assembling'
  <2>1. /\ offload.pc = "shards" /\ p \in offload.todo /\ UNCHANGED <<meta, covariance>>
        /\ staged' = [staged EXCEPT ![p] = offload.options] /\ leftover' = leftover \ {p}
    BY <1>8 DEF WriteShard
  <2>2. /\ offload.options # {} /\ meta = offload.options /\ offload.size \in Windows
        /\ offload.scanned \subseteq Present(staged)
        /\ \A q \in PartsOf(Options, 1..Layers) \ leftover :
              q[1] < offload.low => staged[q] = offload.options
        /\ offload.todo \subseteq PartsOf(Options, Window)
        /\ \A q \in (PartsOf(Options, Window) \ offload.todo) \ leftover :
              staged[q] = offload.options
    BY <2>1 DEF Assembling, Windowed
  <2>3. PICK f \in Fingerprints : offload.options = {f} /\ Options = f
    BY <1>0, <2>2, TheOptions
  <2>4. PartsOf(f, Window) \subseteq PartsOf(f, 1..Layers)
    BY <1>0, Sizes DEF PartsOf, Window
  <2>5. Staging'
    <3> SUFFICES ASSUME NEW q \in Parts \ leftover', NEW g \in Fingerprints, staged'[q] = {g}
                 PROVE  q \in PartsOf(g, 1..Layers) /\ meta' \in {{}, {g}}
      BY DEF Staging
    <3>1. CASE q = p
      <4>1. g = f
        BY <1>0, <2>1, <2>3, <3>1
      <4> QED
        BY <2>1, <2>2, <2>3, <2>4, <3>1, <4>1
    <3>2. CASE q # p
      BY <1>0, <2>1, <3>2 DEF Staging
    <3> QED
      BY <3>1, <3>2
  <2>6. \A q \in Parts : staged'[q] = IF q = p THEN offload.options ELSE staged[q]
    BY <1>0, <2>1
  <2>7. staged' \in [Parts -> Prints]
    BY <1>0, <2>1
  <2>8. CASE offload.todo = {p}
    <3>1. offload' = [offload EXCEPT !.pc = "window", !.todo = {}, !.low = offload.low + offload.size]
      BY <1>8, <2>8 DEF WriteShard
    <3>2. TypeOffload'
      <4>1. offload.low + offload.size \in Nat \ {0} /\ {} \in PartSets
        BY <1>0 DEF PartSets
      <4> QED
        BY <1>0, <2>1, <2>7, <3>1, <4>1 DEF TypeOffload, PartSets
    <3>3. \A q \in PartsOf(Options, Window) \ leftover' : staged'[q] = offload.options
      <4>1. PartsOf(Options, Window) \subseteq Parts
        BY <2>3, <2>4 DEF PartsOf, Parts
      <4> QED
        BY <2>1, <2>2, <2>6, <2>8, <4>1
    <3>4. \A q \in Parts : \/ staged'[q] = offload.options
                           \/ staged'[q] = staged[q] /\ (q \in leftover => q \in leftover')
      BY <2>1, <2>6
    <3> QED
      BY <1>0, <1>4, <2>1, <2>5, <3>1, <3>2, <3>3, <3>4
  <2>9. CASE offload.todo # {p}
    <3>1. offload' = [offload EXCEPT !.todo = offload.todo \ {p}]
      BY <1>8, <2>9 DEF WriteShard
    <3>2. /\ offload'.pc = "shards" /\ offload'.options = offload.options
          /\ offload'.size = offload.size /\ offload'.low = offload.low
          /\ offload'.scanned = offload.scanned /\ offload'.todo = offload.todo \ {p}
      BY <1>0, <2>1, <3>1
    <3>3. TypeOffload'
      BY <1>0, <2>1, <2>7, <3>1 DEF TypeOffload, PartSets
    <3>4. Options' = Options /\ Window' = Window
      BY <3>2 DEF Options, Window
    <3>5. PartsOf(Options, Window) \subseteq Parts /\ PartsOf(Options, 1..Layers) \subseteq Parts
      BY <1>0, Sizes DEF PartsOf, Window, Parts
    <3>6. /\ offload.scanned \subseteq Present(staged)'
          /\ \A q \in PartsOf(Options, 1..Layers) \ leftover' :
                q[1] < offload.low => staged'[q] = offload.options
          /\ \A q \in (PartsOf(Options, Window) \ (offload.todo \ {p})) \ leftover' :
                staged'[q] = offload.options
      BY <2>1, <2>2, <2>6, <3>5 DEF Present
    <3>7. Windowed'
      BY <2>1, <2>2, <3>2, <3>4, <3>6 DEF Windowed
    <3> QED
      BY <2>5, <3>2, <3>3, <3>7 DEF Assembling, Chosen, CovarianceWhole
  <2> QED
    BY <2>8, <2>9
<1>9. CASE Assemble
  <2>1. /\ offload.pc = "window" /\ Window = {} /\ covariance' = staged
        /\ offload' = [Waiting EXCEPT !.pc = "done", !.options = offload.options]
        /\ UNCHANGED <<meta, staged, leftover>>
    BY <1>9 DEF Assemble
  <2>2. \A p \in Parts \ leftover : staged[p] = IF p \in PartsOf(Options, 1..Layers)
                                                THEN offload.options ELSE {}
    BY <2>1, AllStaged
  <2>3. offload'.pc = "done" /\ offload'.options = offload.options /\ offload.options # {}
    BY <2>1 DEF Waiting, Assembling, Windowed
  <2>4. Options' = Options
    BY <2>3 DEF Options
  <2>5. CovarianceWhole'
    BY <2>1, <2>2, <2>3, <2>4 DEF CovarianceWhole
  <2>6. TypeOffload'
    BY <1>0, <2>1, Sizes DEF TypeOffload
  <2>7. Staging'
    BY <1>0, <2>1 DEF Staging
  <2> QED
    BY <2>3, <2>5, <2>6, <2>7 DEF Assembling, Windowed, Chosen
<1>10. CASE KillOffload
  <2>1. CASE UNCHANGED <<meta, staged, leftover>>
    BY <1>6, <1>10, <2>1 DEF KillOffload
  <2>2. ASSUME NEW gone \in SUBSET Present(staged), NEW metaGone \in BOOLEAN,
               staged' = [p \in Parts |-> IF p \in gone THEN {} ELSE staged[p]],
               leftover' = leftover \ gone, meta' = IF metaGone THEN {} ELSE meta
        PROVE  Assembling'
    <3>1. offload' = Waiting /\ covariance' = covariance
      BY <1>10 DEF KillOffload
    <3>2. TypeOffload'
      BY <1>0, <2>2, <3>1, Sizes DEF TypeOffload, Prints, PartSets
    <3>3. Staging'
      BY <1>0, <2>2 DEF Staging
    <3> QED
      BY <3>1, <3>2, <3>3, Sizes DEF Assembling, Windowed, Chosen, CovarianceWhole
  <2> QED
    BY <1>10, <2>1, <2>2 DEF KillOffload
<1> QED
  BY <1>1, <1>2, <1>3, <1>5, <1>7, <1>8, <1>9, <1>10, OnlyOffloading DEF OffloadNext

----------------------------------------------------------------------------
(* What the invariant says                                                 *)

LEMMA StandsForRows ==
    ASSUME Generating, Replays
    PROVE  SplitHasEveryPrompt /\ SidecarsExact
<1>1. SplitHasEveryPrompt
  BY DEF Replays, Captured, SplitHasEveryPrompt
<1>2. ASSUME NEW k \in Slices, NEW s \in 1..Signals,
             trace[k].side[s].there
      PROVE  Stands(trace[k].side[s].stat,
                    IF s \in silent THEN {} ELSE {ladder[k] + i : i \in 1..Size(k)} \ Forced,
                    IF s \in silent THEN {} ELSE {ladder[k] + i : i \in 1..Size(k)} \ Forced)
  <2>1. Dumped(k, trace[k])
    BY DEF Generating, SliceSound
  <2> QED
    BY <1>2, <2>1 DEF Dumped, Whole, Heard, Given
<1>3. ASSUME stage = "merged", NEW s \in 1..Signals
      PROVE  Stands(merged[s].stat, Fits({r.prompt : r \in ToSet(corpus)}),
                    Fits({r.prompt : r \in ToSet(corpus)}))
  BY <1>3 DEF Replays, Prompts
<1> QED
  BY <1>1, <1>2, <1>3 DEF SidecarsExact

\* The first state.
LEMMA GenerationStarts == ASSUME Init PROVE Generating /\ Replays
<1>1. Replays
  <2>1. stage \in {"generate", "offload"}
    BY DEF Init
  <2> QED
    BY <2>1 DEF Replays
<1>2. /\ engine \in Engines /\ ladder \in Ladders /\ syncs \in BOOLEAN
      /\ trace = [k \in Slices |-> NoTrace] /\ gen = [k \in Slices |-> Idle]
  BY DEF Init, GenInit
<1>3. ASSUME NEW k \in Slices PROVE SliceSound(k, NoTrace, Idle)
  <2>1. /\ NoTrace.tmp = <<>> /\ NoTrace.synced = 0 /\ NoTrace.out = <<>>
        /\ NoTrace.ckpt = [s \in 1..Signals |-> NoCheckpoint]
        /\ NoTrace.side = [s \in 1..Signals |-> NoSidecar]
    BY DEF NoTrace
  <2>2. NoTrace \in Files(k)
    <3>1. /\ [s \in 1..Signals |-> NoCheckpoint] \in [1..Signals -> Checkpoints]
          /\ [s \in 1..Signals |-> NoSidecar] \in [1..Signals -> Sidecars]
          /\ <<>> \in Seq(Lines(k)) /\ 0 \in Nat
      BY Statistics
    <3> QED
      BY <3>1 DEF NoTrace, Files
  <2> HIDE DEF NoTrace
  <2>3. Kept(k, NoTrace) /\ Dumped(k, NoTrace)
    <3>1. \A s \in 1..Signals : NoTrace.ckpt[s].at = 0 /\ ~NoTrace.side[s].there
      BY <2>1, Statistics
    <3> QED
      BY <3>1 DEF Kept, Dumped
  <2>4. Idle = [Idle EXCEPT !.pc = "down"]
    <3>1. DOMAIN Idle = {"pc", "next", "forced", "asked", "sig", "acc"} /\ Idle.pc = "down"
      BY DEF Idle
    <3>2. Idle = [x \in {"pc", "next", "forced", "asked", "sig", "acc"} |-> Idle[x]]
      BY DEF Idle
    <3> HIDE DEF Idle
    <3> QED
      BY <3>1, <3>2
  <2>5. SliceSound(k, NoTrace, [Idle EXCEPT !.pc = "down"])
    BY <1>2, <2>2, <2>3, Resting
  <2> QED
    BY <2>4, <2>5
<1> HIDE DEF NoTrace, Idle, Slices
<1>4. \A k \in Slices : trace[k] = NoTrace /\ gen[k] = Idle
  BY <1>2
<1> QED
  BY <1>1, <1>2, <1>3, <1>4 DEF Generating

LEMMA Starts == ASSUME Init PROVE IInv
<1>1. Generating /\ Replays
  BY GenerationStarts
<1>2. Assembling
  <2>1. meta = {} /\ staged = NoParts /\ leftover = {} /\ covariance = NoParts /\ offload = Waiting
    BY DEF Init, OffloadInit
  <2>2. TypeOffload
    BY <2>1, Sizes DEF TypeOffload, NoParts, Prints, PartSets
  <2>3. Staging
    BY <2>1 DEF Staging, NoParts
  <2> QED
    BY <2>1, <2>2, <2>3, Sizes DEF Assembling, Windowed, Chosen, CovarianceWhole
<1> QED
  BY <1>1, <1>2 DEF IInv

LEMMA Step == IInv /\ [Next]_vars => IInv'
BY GenerationStep, ReplaysStep, OffloadStep DEF IInv

----------------------------------------------------------------------------
(* The theorems                                                            *)

\* The rows in hand, in the files, in the shards and in the statistics of every
\* process account for the prompts of its slice or shard, and a staged shard
\* belongs to the run that is named beside it: run_self_traces_calib_vllm,
\* _run_replay and _run_input_cov_offload, whatever crashes.
THEOREM Invariant == Spec => []IInv
<1> QED
  BY Starts, Step, PTL DEF Spec

\* A split that was not refused hands out every answered prompt once. No sidecar
\* counts a row it does not stand for; it lacks a row only if a checkpoint behind
\* its rows was taken up, and counts one twice only if one ahead of them was,
\* which the code does with no more than a warning. An assembled covariance has
\* every part of its run, save the shards a removal could not delete
\* (split_jsonl, _load_resume_checkpoint_into, _run_replay, merge_all,
\* assemble_covariance).
THEOREM CapturesAreExact == Spec => []CapturesExact
<1>1. IInv => CapturesExact
  BY StandsForRows DEF IInv, Assembling, CapturesExact
<1> QED
  BY <1>1, Invariant, PTL

\* Where the file system takes an fsync, a generation saves no checkpoint for
\* rows that a crash could still take: the fsync of the rows comes before the
\* checkpoints of the chunk, for every slice and signal
\* (_save_resume_checkpoints). Where it refuses one, the code goes on, and
\* nothing of the kind holds.
THEOREM SavedAfterTheSync == Spec => SavedAfterSync
<1>1. IInv /\ [Next]_vars =>
        [\A k \in Slices, s \in 1..Signals :
            LET c == trace'[k].ckpt[s] IN
            syncs /\ c # trace[k].ckpt[s] => c.at <= trace[k].synced]_vars
  BY GenerationStep DEF IInv, NotAhead
<1> QED
  BY <1>1, Invariant, PTL DEF Spec, SavedAfterSync

\* A covariance that was assembled has every layer and matrix of its run, each
\* from a forward pass with the fingerprint of that run, save the shards of an
\* earlier one that could not be deleted (assemble_covariance).
THEOREM CovarianceAssembledWhole == Spec => []CovarianceWhole
<1>1. IInv => CovarianceWhole
  BY DEF IInv, Assembling
<1> QED
  BY <1>1, Invariant, PTL

==============================================================================
