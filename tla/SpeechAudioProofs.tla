--------------------------- MODULE SpeechAudioProofs ---------------------------
(***************************************************************************)
(* The sound of a text is right, and the cache answers truly: for any      *)
(* texts, bounds and sizes, however the engine's packets come and whatever  *)
(* befalls a speech.  What a recursive function computes is proved by       *)
(* induction over the length of a sequence.                                *)
(***************************************************************************)
EXTENDS SpeechAudioProps, SequenceFacts

-----------------------------------------------------------------------------
(* The bytes of the cache's entries                                          *)

Keys ==
  {GroupKey(Groups[t]) : t \in Texts}
    \cup UNION {{SegmentKey(Groups[t], i) : i \in DOMAIN Groups[t].segs} : t \in Texts}
\* A sample of sound.
Sample == Nat
CacheEntry == [key : Keys, audio : Seq(Sample)]

\* Size counts up.
LEMMA SizeIs ==
  ASSUME NEW s \in Seq(CacheEntry)
  PROVE  \E f : /\ f[0] = 0 /\ Size(s) = f[Len(s)]
                /\ \A n \in 1..Len(s) : f[n] = f[n - 1] + Len(s[n].audio)
                /\ \A n \in 0..Len(s) : f[n] \in Nat
<1> DEFINE N == Len(s)
           V == Nat
           D(r) == [n \in 0..N |-> IF n = 0 THEN 0 ELSE r[n - 1] + Len(s[n].audio)]
           next == [n \in 1..N |-> [v \in V |-> v + Len(s[n].audio)]]
<1>1. N \in Nat /\ \A n \in 1..N : Len(s[n].audio) \in Nat
  BY DEF CacheEntry
<1>2. /\ next \in Steps(N, V)
      /\ \A n \in 1..N, v \in V : next[n][v] = v + Len(s[n].audio)
  BY <1>1 DEF Steps
<1>3. 0 \in V
  OBVIOUS
<1> HIDE DEF next, V, N
<1>4. \E r : r = D(r)
  <2>1. PICK r \in Runs(N, V) : Unrolls(r, N, 0, next)
    BY <1>1, <1>2, <1>3, Recursion
  <2>2. r \in [0..N -> V] /\ r[0] = 0 /\ \A n \in 1..N : r[n] = next[n][r[n - 1]]
    BY <2>1 DEF Runs, Unrolls
  <2>3. ASSUME NEW n \in 1..N PROVE r[n] = r[n - 1] + Len(s[n].audio)
    <3>1. r[n - 1] \in V
      BY <1>1, <2>2
    <3> QED BY <3>1, <1>2, <2>2
  <2>4. r = D(r)
    BY <1>1, <2>2, <2>3
  <2> QED BY <2>4
<1> DEFINE f == CHOOSE r : r = D(r)
<1>5. f = D(f)
  BY <1>4
<1>6. Size(s) = f[N]
  BY DEF Size, N
<1> HIDE DEF f
<1>7. f[0] = 0 /\ \A n \in 1..N : f[n] = f[n - 1] + Len(s[n].audio)
  BY <1>1, <1>5
<1>8. \A n \in 0..N : f[n] \in V
  <2>1. \A n \in 1..N : f[n - 1] \in V => f[n] = next[n][f[n - 1]]
    BY <1>2, <1>7
  <2> QED BY <1>1, <1>2, <1>3, <1>7, <2>1, RecursionStays
<1> QED BY <1>6, <1>7, <1>8 DEF V, N

LEMMA SizeEmpty == Size(<<>>) = 0
<1>1. <<>> \in Seq(CacheEntry) /\ Len(<<>>) = 0
  OBVIOUS
<1> QED BY <1>1, SizeIs

LEMMA SizeAppend ==
  ASSUME NEW s \in Seq(CacheEntry), NEW e \in CacheEntry
  PROVE  Size(s) \in Nat /\ Size(Append(s, e)) = Size(s) + Len(e.audio)
<1> DEFINE t == Append(s, e)
           N == Len(s)
<1>1. /\ t \in Seq(CacheEntry) /\ Len(t) = N + 1 /\ N \in Nat
      /\ \A n \in 1..N : t[n] = s[n] /\ t[N + 1] = e
  BY AppendProperties
<1> HIDE DEF t
<1>2. PICK f : /\ f[0] = 0 /\ Size(s) = f[Len(s)]
               /\ \A n \in 1..Len(s) : f[n] = f[n - 1] + Len(s[n].audio)
               /\ \A n \in 0..Len(s) : f[n] \in Nat
  BY SizeIs
<1>3. PICK g : /\ g[0] = 0 /\ Size(t) = g[Len(t)]
               /\ \A n \in 1..Len(t) : g[n] = g[n - 1] + Len(t[n].audio)
               /\ \A n \in 0..Len(t) : g[n] \in Nat
  BY <1>1, SizeIs
<1> DEFINE S == {n \in 0..N : f[n] = g[n]}
<1>4. 0 \in S
  BY <1>1, <1>2, <1>3
<1>5. ASSUME NEW n \in 1..N, n - 1 \in S PROVE n \in S
  <2>1. n \in 1..Len(t) /\ t[n] = s[n]
    BY <1>1
  <2> QED BY <1>2, <1>3, <1>5, <2>1
<1>6. 0..N \subseteq S
  <2> HIDE DEF S, N
  <2> QED BY <1>1, <1>4, <1>5, InductionUpTo
<1>7. f[N] = g[N] /\ g[N + 1] = g[(N + 1) - 1] + Len(t[N + 1].audio) /\ (N + 1) - 1 = N
  BY <1>1, <1>3, <1>6
<1>8. t[N + 1] = e
  BY AppendProperties DEF t
<1> QED BY <1>1, <1>2, <1>3, <1>7, <1>8 DEF t

-----------------------------------------------------------------------------
(* Sequences                                                                 *)

LEMMA SizeJoined ==
  ASSUME NEW s \in Seq(CacheEntry), NEW t \in Seq(CacheEntry)
  PROVE  Size(s \o t) = Size(s) + Size(t) /\ Size(t) \in Nat
<1> DEFINE S == {u \in Seq(CacheEntry) : Size(s \o u) = Size(s) + Size(u) /\ Size(u) \in Nat}
<1>0. Size(s) \in Nat
  BY SizeIs, LenProperties
<1>1. <<>> \in S
  BY <1>0, SizeEmpty, ConcatEmptySeq
<1>2. ASSUME NEW u \in Seq(CacheEntry), NEW e \in CacheEntry, u \in S PROVE Append(u, e) \in S
  <2>1. Append(u, e) \in Seq(CacheEntry) /\ s \o u \in Seq(CacheEntry) /\ Len(e.audio) \in Nat
    BY AppendProperties, ConcatProperties DEF CacheEntry
  <2>2. Size(s \o Append(u, e)) = Size(s \o u) + Len(e.audio)
    <3>1. s \o Append(u, e) = Append(s \o u, e)
      BY AppendJoined
    <3>2. Size(Append(s \o u, e)) = Size(s \o u) + Len(e.audio)
      BY <2>1, SizeAppend
    <3> QED BY <3>1, <3>2
  <2>3. Size(Append(u, e)) = Size(u) + Len(e.audio)
    BY SizeAppend
  <2> QED BY <1>0, <1>2, <2>1, <2>2, <2>3
<1>3. Seq(CacheEntry) \subseteq S
  <2> HIDE DEF S
  <2> QED BY <1>1, <1>2, InductionOnSequences
<1> QED BY <1>3


-----------------------------------------------------------------------------
(* The shaping of runs of samples                                            *)

Run == [out : Seq(Sample), held : Seq(Sample)]

\* The states of a run of Process.
ProcessRun(f, mode, held, s) ==
  /\ f[0] = [out |-> <<>>, held |-> held] /\ Process(mode, held, s) = f[Len(s)]
  /\ \A n \in 1..Len(s) : f[n] = Taken(mode, f[n - 1], s[n])
  /\ \A n \in 0..Len(s) : f[n] \in Run

LEMMA Associates ==
  \A a, b, c \in Seq(Sample) : (a \o b) \o c = a \o (b \o c)
BY ConcatAssociative

LEMMA TakenTyped ==
  ASSUME NEW mode, NEW r \in Run, NEW x \in Sample
  PROVE  Taken(mode, r, x) \in Run
<1>1. r.out \in Seq(Sample) /\ r.held \in Seq(Sample) /\ <<>> \in Seq(Sample) /\ 0 \in Sample
  BY EmptySeq DEF Run, Sample
<1>2. Append(r.held, x) \in Seq(Sample) /\ Append(r.held, 0) \in Seq(Sample)
  BY <1>1, AppendProperties
<1>3. r.out \o Append(r.held, x) \in Seq(Sample)
  BY <1>1, <1>2, ConcatProperties
<1>4. CASE x # 0
  BY <1>1, <1>3, <1>4 DEF Taken, Run
<1>5. CASE x = 0 /\ mode = "all pauses" /\ Len(r.held) >= Keep
  BY <1>5 DEF Taken
<1>6. CASE x = 0 /\ ~(mode = "all pauses" /\ Len(r.held) >= Keep)
  <2>1. Taken(mode, r, x) = [r EXCEPT !.held = Append(r.held, 0)]
    BY <1>6 DEF Taken
  <2> QED BY <1>2, <2>1 DEF Run
<1> QED BY <1>4, <1>5, <1>6

\* Process goes on sample by sample.
LEMMA ProcessIs ==
  ASSUME NEW mode, NEW held \in Seq(Sample), NEW s \in Seq(Sample)
  PROVE  \E f : ProcessRun(f, mode, held, s)
<1> DEFINE N == Len(s)
           V == Run
           base == [out |-> <<>>, held |-> held]
           D(r) == [n \in 0..N |-> IF n = 0 THEN base ELSE Taken(mode, r[n - 1], s[n])]
           next == [n \in 1..N |-> [v \in V |-> Taken(mode, v, s[n])]]
<1>1. N \in Nat /\ \A n \in 1..N : s[n] \in Sample
  BY LenProperties, ElementOfSeq
<1>2. /\ next \in Steps(N, V)
      /\ \A n \in 1..N, v \in V : next[n][v] = Taken(mode, v, s[n])
  <2>1. \A n \in 1..N, v \in V : Taken(mode, v, s[n]) \in V
    BY <1>1, TakenTyped
  <2> HIDE DEF V, N
  <2> QED BY <1>1, <2>1 DEF Steps
<1>3. base \in V
  BY EmptySeq DEF Run
<1> HIDE DEF next, V, N, base
<1>4. \E r : r = D(r)
  <2>1. PICK r \in Runs(N, V) : Unrolls(r, N, base, next)
    BY <1>1, <1>2, <1>3, Recursion
  <2>2. r \in [0..N -> V] /\ r[0] = base /\ \A n \in 1..N : r[n] = next[n][r[n - 1]]
    BY <2>1 DEF Runs, Unrolls
  <2>3. ASSUME NEW n \in 1..N PROVE r[n] = Taken(mode, r[n - 1], s[n])
    <3>1. r[n - 1] \in V
      BY <1>1, <2>2
    <3> QED BY <3>1, <1>2, <2>2
  <2>4. r = D(r)
    BY <1>1, <2>2, <2>3
  <2> QED BY <2>4
<1> DEFINE f == CHOOSE r : r = D(r)
<1>5. f = D(f)
  BY <1>4
<1>6. Process(mode, held, s) = f[N]
  BY DEF Process, N, base
<1> HIDE DEF f
<1>7. f[0] = base /\ \A n \in 1..N : f[n] = Taken(mode, f[n - 1], s[n])
  BY <1>1, <1>5
<1>8. \A n \in 0..N : f[n] \in V
  <2>1. \A n \in 1..N : f[n - 1] \in V => f[n] = next[n][f[n - 1]]
    BY <1>2, <1>7
  <2> QED BY <1>1, <1>2, <1>3, <1>7, <2>1, RecursionStays
<1> QED BY <1>6, <1>7, <1>8 DEF V, N, base, ProcessRun

LEMMA ProcessTyped ==
  ASSUME NEW mode, NEW held \in Seq(Sample), NEW s \in Seq(Sample)
  PROVE  /\ Process(mode, held, s) \in Run
         /\ Process(mode, held, <<>>) = [out |-> <<>>, held |-> held]
<1>1. <<>> \in Seq(Sample) /\ Len(<<>>) = 0 /\ Len(s) \in Nat /\ Len(s) \in 0..Len(s)
  BY EmptySeq, LenProperties
<1>2. Process(mode, held, s) \in Run
  <2>1. PICK f : ProcessRun(f, mode, held, s)
    BY ProcessIs
  <2> QED BY <1>1, <2>1 DEF ProcessRun
<1>3. Process(mode, held, <<>>) = [out |-> <<>>, held |-> held]
  <2>1. PICK f : ProcessRun(f, mode, held, <<>>)
    BY <1>1, ProcessIs
  <2> QED BY <1>1, <2>1 DEF ProcessRun
<1> QED BY <1>2, <1>3

LEMMA ProcessAppend ==
  ASSUME NEW mode, NEW held \in Seq(Sample), NEW s \in Seq(Sample), NEW e \in Sample
  PROVE  Process(mode, held, Append(s, e)) = Taken(mode, Process(mode, held, s), e)
<1> DEFINE t == Append(s, e)
           N == Len(s)
<1>1. /\ t \in Seq(Sample) /\ Len(t) = N + 1 /\ N \in Nat
      /\ \A n \in 1..N : t[n] = s[n]
      /\ t[N + 1] = e
  BY AppendProperties, LenProperties
<1> HIDE DEF t
<1>2. PICK f : ProcessRun(f, mode, held, s)
  BY ProcessIs
<1>3. PICK g : ProcessRun(g, mode, held, t)
  BY <1>1, ProcessIs
<1> USE DEF ProcessRun
<1> DEFINE S == {n \in 0..N : f[n] = g[n]}
<1>4. 0 \in S
  BY <1>1, <1>2, <1>3
<1>5. ASSUME NEW n \in 1..N, n - 1 \in S PROVE n \in S
  <2>1. n \in 1..Len(t) /\ t[n] = s[n]
    BY <1>1
  <2> QED BY <1>2, <1>3, <1>5, <2>1
<1>6. 0..N \subseteq S
  <2> HIDE DEF S, N
  <2> QED BY <1>1, <1>4, <1>5, InductionUpTo
<1>7. f[N] = g[N] /\ g[N + 1] = Taken(mode, g[(N + 1) - 1], t[N + 1]) /\ (N + 1) - 1 = N
  BY <1>1, <1>3, <1>6
<1> QED BY <1>1, <1>2, <1>3, <1>7 DEF t

\* What was given before makes no difference to what is given next.
LEMMA TakenAfter ==
  ASSUME NEW mode, NEW p \in Seq(Sample), NEW r \in Run, NEW x \in Sample
  PROVE  Taken(mode, [out |-> p \o r.out, held |-> r.held], x)
           = [out |-> p \o Taken(mode, r, x).out, held |-> Taken(mode, r, x).held]
<1>1. r.out \in Seq(Sample) /\ r.held \in Seq(Sample) /\ Append(r.held, x) \in Seq(Sample)
  BY AppendProperties DEF Run
<1>2. (p \o r.out) \o Append(r.held, x) = p \o (r.out \o Append(r.held, x))
  BY <1>1, Associates, Zenon
<1> DEFINE q == [out |-> p \o r.out, held |-> r.held]
<1>3. q.held = r.held /\ q.out = p \o r.out
  OBVIOUS
<1>4. CASE x # 0
  <2>1. Taken(mode, r, x) = [out |-> r.out \o Append(r.held, x), held |-> <<>>]
    BY <1>4 DEF Taken
  <2>2. Taken(mode, q, x) = [out |-> (p \o r.out) \o Append(r.held, x), held |-> <<>>]
    BY <1>4 DEF Taken
  <2> QED BY <1>2, <2>1, <2>2
<1>5. CASE x = 0 /\ mode = "all pauses" /\ Len(r.held) >= Keep
  <2>1. Taken(mode, r, x) = r /\ Taken(mode, q, x) = q
    BY <1>5 DEF Taken
  <2> QED BY <2>1
<1>6. CASE x = 0 /\ ~(mode = "all pauses" /\ Len(r.held) >= Keep)
  <2>1. Taken(mode, r, x) = [r EXCEPT !.held = Append(r.held, 0)]
    BY <1>6 DEF Taken
  <2>2. Taken(mode, q, x) = [q EXCEPT !.held = Append(r.held, 0)]
    BY <1>6 DEF Taken
  <2>3. r = [out |-> r.out, held |-> r.held]
    BY DEF Run
  <2>4. Taken(mode, r, x).out = r.out /\ Taken(mode, r, x).held = Append(r.held, 0)
    BY <2>1, <2>3
  <2> QED BY <2>2, <2>4
<1> QED BY <1>4, <1>5, <1>6

\* A run goes on where another has ended.
LEMMA ProcessJoined ==
  ASSUME NEW mode, NEW held \in Seq(Sample), NEW s \in Seq(Sample), NEW t \in Seq(Sample)
  PROVE  /\ Process(mode, held, s) \in Run
         /\ Process(mode, Process(mode, held, s).held, t) \in Run
         /\ Process(mode, held, s \o t)
              = [out |-> Process(mode, held, s).out \o Process(mode, Process(mode, held, s).held, t).out,
                 held |-> Process(mode, Process(mode, held, s).held, t).held]
<1> DEFINE a == Process(mode, held, s)
           b(u) == Process(mode, a.held, u)
           S == {u \in Seq(Sample) : Process(mode, held, s \o u) = [out |-> a.out \o b(u).out, held |-> b(u).held]}
<1>1. a \in Run /\ a.out \in Seq(Sample) /\ a.held \in Seq(Sample) /\ a = [out |-> a.out, held |-> a.held]
  BY ProcessTyped DEF Run
<1> HIDE DEF a
<1>2. ASSUME NEW u \in Seq(Sample) PROVE b(u) \in Run
  BY <1>1, ProcessTyped
<1>3. <<>> \in S
  <2>1. b(<<>>) = [out |-> <<>>, held |-> a.held] /\ s \o <<>> = s /\ a.out \o <<>> = a.out
    BY <1>1, ProcessTyped, EmptySeq, ConcatEmptySeq
  <2>2. <<>> \in Seq(Sample)
    BY EmptySeq
  <2> QED BY <1>1, <2>1, <2>2 DEF a
<1>4. ASSUME NEW u \in Seq(Sample), NEW e \in Sample, u \in S PROVE Append(u, e) \in S
  <2>1. Append(u, e) \in Seq(Sample) /\ s \o u \in Seq(Sample) /\ s \o Append(u, e) = Append(s \o u, e)
    BY AppendProperties, ConcatProperties, AppendJoined
  <2>2. Process(mode, held, Append(s \o u, e)) = Taken(mode, Process(mode, held, s \o u), e)
    BY <2>1, ProcessAppend
  <2>3. b(Append(u, e)) = Taken(mode, b(u), e)
    BY <1>1, ProcessAppend
  <2>4. Process(mode, held, s \o u) = [out |-> a.out \o b(u).out, held |-> b(u).held]
    BY <1>4
  <2> HIDE DEF b
  <2>5. Taken(mode, [out |-> a.out \o b(u).out, held |-> b(u).held], e)
          = [out |-> a.out \o Taken(mode, b(u), e).out, held |-> Taken(mode, b(u), e).held]
    BY <1>1, <1>2, TakenAfter
  <2> QED BY <2>1, <2>2, <2>3, <2>4, <2>5
<1>5. Seq(Sample) \subseteq S
  <2> HIDE DEF S
  <2> QED BY <1>3, <1>4, InductionOnSequences
<1> QED BY <1>1, <1>2, <1>5 DEF a

\* The states of a run over a sequence are what its beginnings give.
LEMMA ProcessOfPrefix ==
  ASSUME NEW mode, NEW held \in Seq(Sample), NEW s \in Seq(Sample), NEW k \in 0..Len(s),
         NEW f, ProcessRun(f, mode, held, s)
  PROVE  Process(mode, held, SubSeq(s, 1, k)) = f[k]
<1> DEFINE t == SubSeq(s, 1, k)
<1>1. t \in Seq(Sample) /\ Len(t) = k /\ \A i \in 1..k : t[i] = s[i]
  BY CutInTwo
<1> HIDE DEF t
<1>2. Len(s) \in Nat /\ k \in Nat
  BY LenProperties
<1>3. PICK g : ProcessRun(g, mode, held, t)
  BY <1>1, ProcessIs
<1> DEFINE S == {n \in 0..k : f[n] = g[n]}
<1>4. 0 \in S
  BY <1>2, <1>3 DEF ProcessRun
<1>5. ASSUME NEW n \in 1..k, n - 1 \in S PROVE n \in S
  <2>1. n \in 1..Len(t) /\ n \in 1..Len(s) /\ t[n] = s[n]
    BY <1>1, <1>2
  <2> QED BY <1>3, <1>5, <2>1 DEF ProcessRun
<1>6. 0..k \subseteq S
  <2> HIDE DEF S
  <2> QED BY <1>2, <1>4, <1>5, InductionUpTo
<1>7. f[k] = g[k]
  BY <1>2, <1>6
<1> QED BY <1>1, <1>3, <1>7 DEF t, ProcessRun

-----------------------------------------------------------------------------
(* What the reference of a shortened sound is                                *)

\* After n samples the last that is not silent is the one at m.
Silent(s, m, n) == (\A k \in m + 1..n : s[k] = 0) /\ (m = 0 \/ s[m] # 0)

LEMMA PauseIs ==
  ASSUME NEW s, NEW n \in Nat, NEW m \in 0..n - 1, Silent(s, m, n)
  PROVE  PauseBegins(s, n) = m + 1
<1> DEFINE P(b) == (\A k \in b..n : s[k] = 0) /\ (b = 1 \/ s[b - 1] # 0)
<1>1. m + 1 \in 1..n /\ P(m + 1)
  BY DEF Silent
<1>2. PauseBegins(s, n) \in 1..n /\ P(PauseBegins(s, n))
  <2>1. PauseBegins(s, n) = CHOOSE b \in 1..n : P(b)
    BY DEF PauseBegins
  <2> HIDE DEF P
  <2> QED BY <1>1, <2>1
<1>3. ASSUME NEW b \in 1..n, NEW c \in 1..n, P(b), P(c), b < c PROVE FALSE
  <2>1. c - 1 \in b..n /\ c # 1
    BY <1>3
  <2> QED BY <1>3, <2>1
<1> QED BY <1>1, <1>2, <1>3

ShortenedRun(g, s, mode) ==
  /\ g[0] = <<>> /\ Shortened(s, mode) = g[Len(s)]
  /\ \A n \in 1..Len(s) : g[n] = IF Survives(s, n, mode) THEN Append(g[n - 1], s[n]) ELSE g[n - 1]
  /\ \A n \in 0..Len(s) : g[n] \in Seq(Sample)

LEMMA ShortenedIs ==
  ASSUME NEW s \in Seq(Sample), NEW mode
  PROVE  \E g : ShortenedRun(g, s, mode)
<1> DEFINE N == Len(s)
           V == Seq(Sample)
           F(v, n) == IF Survives(s, n, mode) THEN Append(v, s[n]) ELSE v
           D(r) == [n \in 0..N |-> IF n = 0 THEN <<>> ELSE F(r[n - 1], n)]
           next == [n \in 1..N |-> [v \in V |-> F(v, n)]]
<1>1. N \in Nat /\ \A n \in 1..N : s[n] \in Sample
  BY LenProperties, ElementOfSeq
<1>2. /\ next \in Steps(N, V)
      /\ \A n \in 1..N, v \in V : next[n][v] = F(v, n)
  <2>1. \A n \in 1..N, v \in V : F(v, n) \in V
    BY <1>1, AppendProperties
  <2> HIDE DEF V, N, F
  <2> QED BY <1>1, <2>1 DEF Steps
<1>3. <<>> \in V
  BY EmptySeq
<1> HIDE DEF next, V, N, F
<1>4. \E r : r = D(r)
  <2>1. PICK r \in Runs(N, V) : Unrolls(r, N, <<>>, next)
    BY <1>1, <1>2, <1>3, Recursion
  <2>2. r \in [0..N -> V] /\ r[0] = <<>> /\ \A n \in 1..N : r[n] = next[n][r[n - 1]]
    BY <2>1 DEF Runs, Unrolls
  <2>3. ASSUME NEW n \in 1..N PROVE r[n] = F(r[n - 1], n)
    <3>1. r[n - 1] \in V
      BY <1>1, <2>2
    <3> QED BY <3>1, <1>2, <2>2
  <2>4. r = D(r)
    BY <1>1, <2>2, <2>3
  <2> QED BY <2>4
<1> DEFINE g == CHOOSE r : r = D(r)
<1>5. g = D(g)
  BY <1>4
<1>6. Shortened(s, mode) = g[N]
  BY DEF Shortened, N, F
<1> HIDE DEF g
<1>7. g[0] = <<>> /\ \A n \in 1..N : g[n] = F(g[n - 1], n)
  BY <1>1, <1>5
<1>8. \A n \in 0..N : g[n] \in V
  <2>1. \A n \in 1..N : g[n - 1] \in V => g[n] = next[n][g[n - 1]]
    BY <1>2, <1>7
  <2> QED BY <1>1, <1>2, <1>3, <1>7, <2>1, RecursionStays
<1> QED BY <1>6, <1>7, <1>8 DEF V, N, F, ShortenedRun

LEMMA ShortenedTyped ==
  ASSUME NEW s \in Seq(Sample), NEW mode
  PROVE  Shortened(s, mode) \in Seq(Sample)
<1>1. PICK g : ShortenedRun(g, s, mode)
  BY ShortenedIs
<1>2. Len(s) \in 0..Len(s)
  BY LenProperties
<1> QED BY <1>1, <1>2 DEF ShortenedRun

\* What a part of a sound leaves is a beginning of what the whole leaves.
LEMMA ShortenedGrows ==
  ASSUME NEW s \in Seq(Sample), NEW mode, NEW g, ShortenedRun(g, s, mode), NEW k \in 0..Len(s)
  PROVE  IsPrefix(g[k], Shortened(s, mode))
<1>1. Len(s) \in Nat /\ k \in Nat /\ Len(s) - k \in Nat
  BY LenProperties
<1> DEFINE S == {n \in 0..Len(s) - k : IsPrefix(g[k], g[k + n])}
<1>2. 0 \in S
  <2>1. k + 0 = k /\ g[k] \in Seq(Sample)
    BY <1>1 DEF ShortenedRun
  <2> QED BY <1>1, <2>1, PrefixLonger
<1>3. ASSUME NEW n \in 1..Len(s) - k, n - 1 \in S PROVE n \in S
  <2>1. /\ k + n \in 1..Len(s) /\ k + (n - 1) = (k + n) - 1 /\ (k + n) - 1 \in 0..Len(s)
        /\ n \in 0..Len(s) - k /\ k + n \in 0..Len(s)
    BY <1>1
  <2> DEFINE u == g[(k + n) - 1]
  <2>2. g[k] \in Seq(Sample) /\ u \in Seq(Sample) /\ IsPrefix(g[k], u) /\ s[k + n] \in Sample
    BY <1>3, <2>1, ElementOfSeq DEF ShortenedRun
  <2>3. g[k + n] = u \/ g[k + n] = Append(u, s[k + n])
    BY <2>1 DEF ShortenedRun
  <2> HIDE DEF u
  <2>4. CASE g[k + n] = Append(u, s[k + n])
    <3> DEFINE v == <<s[k + n]>>
    <3>1. v \in Seq(Sample) /\ Append(u, s[k + n]) = u \o v
      BY <2>2, AppendIsConcat
    <3> HIDE DEF v
    <3>2. IsPrefix(g[k], u \o v)
      BY <2>2, <3>1, PrefixGoesOn
    <3> QED BY <2>1, <2>4, <3>1, <3>2
  <2> QED BY <2>1, <2>2, <2>3, <2>4
<1>4. 0..Len(s) - k \subseteq S
  <2> HIDE DEF S
  <2> QED BY <1>1, <1>2, <1>3, InductionUpTo
<1>5. Len(s) - k \in 0..Len(s) - k /\ k + (Len(s) - k) = Len(s)
  BY <1>1
<1>6. IsPrefix(g[k], g[k + (Len(s) - k)])
  BY <1>4, <1>5
<1> QED BY <1>5, <1>6 DEF ShortenedRun

\* How a pause is cut does not depend on where it lies.
LEMMA AppendsJoined ==
  \A s, u \in Seq(Sample), e \in Sample : s \o Append(u, e) = Append(s \o u, e)
BY AppendJoined

LEMMA KeepIs == Keep \in Nat
BY SizesAreNatural

\* The modes, by name.
IsAll(mode) == mode = "all pauses"
IsEnd(mode) == mode = "end pauses"
IsNone(mode) == mode = "no pauses"

LEMMA Fields == \A o, h : [out |-> o, held |-> h].out = o /\ [out |-> o, held |-> h].held = h
OBVIOUS

LEMMA FieldsOf == \A x, o, h : x = [out |-> o, held |-> h] => x.out = o /\ x.held = h
OBVIOUS

LEMMA TakenIs ==
  ASSUME NEW mode, NEW r \in Run, NEW x \in Sample
  PROVE  /\ x # 0 => /\ Taken(mode, r, x).out = r.out \o Append(r.held, x)
                     /\ Taken(mode, r, x).held = <<>>
         /\ x = 0 /\ IsAll(mode) /\ Len(r.held) >= Keep => Taken(mode, r, x) = r
         /\ x = 0 /\ IsAll(mode) /\ ~(Len(r.held) >= Keep) =>
              Taken(mode, r, x).out = r.out /\ Taken(mode, r, x).held = Append(r.held, x)
         /\ x = 0 /\ IsEnd(mode) =>
              Taken(mode, r, x).out = r.out /\ Taken(mode, r, x).held = Append(r.held, x)
<1>1. r = [out |-> r.out, held |-> r.held]
  BY DEF Run
<1>2. ASSUME x = 0, ~(mode = "all pauses" /\ Len(r.held) >= Keep)
      PROVE  Taken(mode, r, x).out = r.out /\ Taken(mode, r, x).held = Append(r.held, x)
  <2>1. Taken(mode, r, x) = [r EXCEPT !.held = Append(r.held, 0)]
    BY <1>2 DEF Taken
  <2> QED BY <1>1, <1>2, <2>1
<1>3. ASSUME x # 0
      PROVE  Taken(mode, r, x).out = r.out \o Append(r.held, x) /\ Taken(mode, r, x).held = <<>>
  <2>1. Taken(mode, r, x) = [out |-> r.out \o Append(r.held, x), held |-> <<>>]
    BY <1>3 DEF Taken
  <2> QED BY <2>1, Fields, Zenon
<1>4. x = 0 /\ mode = "all pauses" /\ Len(r.held) >= Keep => Taken(mode, r, x) = r
  BY DEF Taken
<1> QED BY <1>2, <1>3, <1>4 DEF IsAll, IsEnd

LEMMA SurvivesIs ==
  ASSUME NEW mode, NEW s, NEW n
  PROVE  /\ IsAll(mode) => (Survives(s, n, mode) <=> s[n] # 0 \/ n < PauseBegins(s, n) + Keep)
         /\ IsEnd(mode) =>
              (Survives(s, n, mode) <=> s[n] # 0 \/ n < PauseBegins(s, n) + Keep \/ ~IsLast(s, n))
BY DEF Survives, IsAll, IsEnd

\* What is kept of a pause.
KeptOf(n) == IF n < Keep THEN n ELSE Keep

\* Where every pause is shortened, what is given and held is what the reference leaves.
LEMMA AllPauses ==
  ASSUME NEW s \in Seq(Sample), NEW f, NEW g,
         NEW mode, IsAll(mode), ProcessRun(f, mode, <<>>, s), ShortenedRun(g, s, mode)
  PROVE  \A n \in 0..Len(s) : f[n].out \o f[n].held = g[n] /\ Len(f[n].held) <= Keep
<1> DEFINE Right(n) == \E m \in 0..n : /\ Silent(s, m, n) /\ Len(f[n].held) = KeptOf(n - m)
                                       /\ f[n].out \o f[n].held = g[n]
           S == {n \in 0..Len(s) : Right(n)}
<1>1. Len(s) \in Nat /\ Keep \in Nat
  BY LenProperties, KeepIs
<1>2. 0 \in S
  <2>1. f[0].out = <<>> /\ f[0].held = <<>> /\ g[0] = <<>> /\ <<>> \o <<>> = <<>> /\ Len(<<>>) = 0
    BY ConcatEmptySeq, EmptySeq DEF ProcessRun, ShortenedRun
  <2>2. Silent(s, 0, 0) /\ KeptOf(0 - 0) = 0
    BY <1>1 DEF Silent, KeptOf
  <2>3. Len(f[0].held) = KeptOf(0 - 0) /\ f[0].out \o f[0].held = g[0] /\ 0 \in 0..0
    BY <2>1, <2>2
  <2>4. Right(0)
    BY <2>2, <2>3
  <2> HIDE DEF Right
  <2> QED BY <1>1, <2>4
<1>3. ASSUME NEW n \in 1..Len(s), n - 1 \in S PROVE n \in S
  <2> DEFINE r == f[n - 1]
             x == s[n]
  <2>1. PICK m \in 0..n - 1 : /\ Silent(s, m, n - 1) /\ Len(r.held) = KeptOf((n - 1) - m)
                              /\ r.out \o r.held = g[n - 1]
    BY <1>3
  <2>2. /\ n \in Nat /\ n - 1 \in 0..Len(s) /\ n \in 0..Len(s) /\ m \in Nat
        /\ r \in Run /\ r.out \in Seq(Sample) /\ r.held \in Seq(Sample) /\ x \in Sample /\ x \in Nat
        /\ f[n] = Taken(mode, r, x) /\ g[n - 1] \in Seq(Sample)
        /\ g[n] = IF Survives(s, n, mode) THEN Append(g[n - 1], x) ELSE g[n - 1]
    <3>1. n \in Nat /\ n - 1 \in 0..Len(s) /\ n \in 0..Len(s) /\ m \in Nat
      BY <1>1
    <3>2. r \in Run /\ f[n] = Taken(mode, r, x)
      BY <3>1 DEF ProcessRun
    <3>3. x \in Sample
      BY ElementOfSeq
    <3>4. g[n - 1] \in Seq(Sample) /\ g[n] = IF Survives(s, n, mode) THEN Append(g[n - 1], x) ELSE g[n - 1]
      BY <3>1 DEF ShortenedRun
    <3> QED BY <3>1, <3>2, <3>3, <3>4 DEF Run, Sample
  <2> HIDE DEF r
  <2>3. CASE x # 0
    <3>1. f[n].out = r.out \o Append(r.held, x) /\ f[n].held = <<>>
      <4>1. r \in Run /\ x \in Sample /\ f[n] = Taken(mode, r, x)
        BY <2>2
      <4>2. Taken(mode, r, x).out = r.out \o Append(r.held, x) /\ Taken(mode, r, x).held = <<>>
        BY <4>1, <2>3, TakenIs, Zenon
      <4> QED BY <4>1, <4>2, Zenon
    <3>2. g[n] = Append(g[n - 1], x)
      BY <2>2, <2>3, SurvivesIs
    <3>3. r.out \o Append(r.held, x) = Append(r.out \o r.held, x)
      BY <2>2, AppendsJoined, Zenon
    <3>4. r.out \o Append(r.held, x) \in Seq(Sample)
      <4>1. Append(r.held, x) \in Seq(Sample)
        BY <2>2, AppendProperties
      <4> QED BY <2>2, <4>1, ConcatProperties
    <3>5. f[n].out \o f[n].held = g[n] /\ Len(f[n].held) = 0
      <4>1. f[n].out \o <<>> = f[n].out
        BY <3>1, <3>4, ConcatEmptySeq
      <4> QED BY <2>1, <3>1, <3>2, <3>3, <4>1, EmptySeq
    <3>6. n \in 0..n /\ Silent(s, n, n) /\ KeptOf(n - n) = 0
      BY <1>1, <2>2, <2>3 DEF Silent, KeptOf
    <3> QED BY <2>2, <3>5, <3>6
  <2>4. CASE x = 0
    <3>1. Silent(s, m, n) /\ m \in 0..n
      <4>1. \A k \in m + 1..n : k = n \/ k \in m + 1..n - 1
        BY <2>2
      <4> QED BY <2>1, <2>2, <2>4, <4>1 DEF Silent
    <3>2. PauseBegins(s, n) = m + 1
      BY <2>2, <3>1, PauseIs
    <3>3. Survives(s, n, mode) <=> n - 1 - m < Keep
      BY <1>1, <2>2, <2>4, <3>2, SurvivesIs
    <3>4. CASE (n - 1) - m < Keep
      <4>1. Len(r.held) = (n - 1) - m
        BY <1>1, <2>1, <2>2, <3>4 DEF KeptOf
      <4>3. f[n].out = r.out /\ f[n].held = Append(r.held, x)
        <5>1. ~(Len(r.held) >= Keep)
          BY <1>1, <2>2, <3>4, <4>1
        <5>2. r \in Run /\ x \in Sample /\ f[n] = Taken(mode, r, x)
          BY <2>2
        <5>3. Taken(mode, r, x).out = r.out /\ Taken(mode, r, x).held = Append(r.held, x)
          BY <2>4, <5>1, <5>2, TakenIs, Zenon
        <5> QED BY <5>2, <5>3, Zenon
      <4>4. r.out \o Append(r.held, x) = Append(r.out \o r.held, x)
        BY <2>2, AppendsJoined, Zenon
      <4>5. Len(Append(r.held, x)) = KeptOf(n - m)
        <5>1. Len(Append(r.held, x)) = Len(r.held) + 1
          BY <2>2, AppendProperties
        <5> QED BY <1>1, <2>2, <3>4, <4>1, <5>1 DEF KeptOf
      <4>6. g[n] = Append(g[n - 1], x)
        BY <2>2, <3>3, <3>4
      <4> QED BY <2>1, <2>2, <3>1, <4>3, <4>4, <4>5, <4>6
    <3>5. CASE ~((n - 1) - m < Keep)
      <4>1. Len(r.held) = Keep /\ KeptOf(n - m) = Keep
        BY <1>1, <2>1, <2>2, <3>5 DEF KeptOf
      <4>2. f[n] = r
        <5>1. Len(r.held) >= Keep
          BY <1>1, <4>1
        <5> QED BY <2>2, <2>4, <5>1, TakenIs, Zenon
      <4>3. g[n] = g[n - 1]
        BY <2>2, <3>3, <3>5
      <4> QED BY <2>1, <2>2, <3>1, <4>1, <4>2, <4>3
    <3> QED BY <3>4, <3>5
  <2> QED BY <2>3, <2>4
<1>4. 0..Len(s) \subseteq S
  <2> HIDE DEF S
  <2> QED BY <1>1, <1>2, <1>3, InductionUpTo
<1>5. ASSUME NEW n \in 0..Len(s) PROVE f[n].out \o f[n].held = g[n] /\ Len(f[n].held) <= Keep
  <2>1. Right(n)
    BY <1>4
  <2>2. PICK m \in 0..n : Len(f[n].held) = KeptOf(n - m) /\ f[n].out \o f[n].held = g[n]
    BY <2>1
  <2> QED BY <1>1, <2>2 DEF KeptOf
<1> QED BY <1>5

LEMMA PieceAppend ==
  ASSUME NEW E, NEW s \in Seq(E), NEW i \in Nat, NEW j \in Nat, i < j, j <= Len(s)
  PROVE  Append(SubSeq(s, i + 1, j - 1), s[j]) = SubSeq(s, i + 1, j)
<1> DEFINE p == SubSeq(s, i + 1, j - 1)
           q == SubSeq(s, i + 1, j)
           e == s[j]
<1>1. Len(s) \in Nat /\ j - 1 \in Nat /\ i <= j - 1 /\ j - 1 <= Len(s) /\ i <= j /\ j \in 1..Len(s)
  BY LenProperties
<1>2. e \in E
  BY <1>1, ElementOfSeq
<1>3. p \in Seq(E) /\ Len(p) = (j - 1) - i /\ \A n \in 1..(j - 1) - i : p[n] = s[i + n]
  BY <1>1, PieceHas
<1>4. q \in Seq(E) /\ Len(q) = j - i /\ \A n \in 1..j - i : q[n] = s[i + n]
  BY <1>1, PieceHas
<1>5. s[i + (j - i)] = e /\ Len(p) + 1 = j - i
  BY <1>1, <1>3
<1> HIDE DEF p, q, e
<1>6. /\ Append(p, e) \in Seq(E) /\ Len(Append(p, e)) = Len(p) + 1
      /\ \A n \in 1..Len(p) : Append(p, e)[n] = p[n]
      /\ Append(p, e)[Len(p) + 1] = e
  BY <1>2, <1>3, AppendProperties
<1>7. ASSUME NEW n \in 1..j - i PROVE Append(p, e)[n] = q[n]
  <2>1. CASE n = j - i
    BY <1>4, <1>5, <1>6, <2>1
  <2>2. CASE n # j - i
    <3>1. n \in 1..Len(p) /\ n \in 1..(j - 1) - i
      BY <1>3, <2>2
    <3> QED BY <1>3, <1>4, <1>6, <3>1
  <2> QED BY <2>1, <2>2
<1> DEFINE a == Append(p, e)
<1>8. a \in Seq(E) /\ Len(a) = Len(q) /\ \A n \in 1..Len(a) : a[n] = q[n]
  BY <1>4, <1>5, <1>6, <1>7
<1> HIDE DEF a
<1>9. a = q
  BY <1>4, <1>8, SeqEqual
<1> QED BY <1>9 DEF a, p, q, e

\* The beginnings of a sequence.
LEMMA Beginning ==
  ASSUME NEW E, NEW s \in Seq(E), NEW n \in Nat, n <= Len(s)
  PROVE  /\ SubSeq(s, 1, n) \in Seq(E) /\ Len(SubSeq(s, 1, n)) = n
         /\ \A m \in 0..n : SubSeq(s, 1, m) \o SubSeq(s, m + 1, n) = SubSeq(s, 1, n)
         /\ \A m \in 0..n : IsPrefix(SubSeq(s, 1, m), SubSeq(s, 1, n))
<1>1. Len(s) \in Nat /\ n \in 0..Len(s)
  BY LenProperties
<1>2. SubSeq(s, 1, n) \in Seq(E) /\ Len(SubSeq(s, 1, n)) = n
  BY <1>1, CutInTwo
<1>3. ASSUME NEW m \in 0..n
      PROVE  /\ SubSeq(s, 1, m) \o SubSeq(s, m + 1, n) = SubSeq(s, 1, n)
             /\ IsPrefix(SubSeq(s, 1, m), SubSeq(s, 1, n))
  <2>1. 1 \in 1..Len(s) + 1 /\ m \in 1 - 1..Len(s) /\ n \in m..Len(s) /\ m \in 0..Len(s) /\ m \in Nat /\ m <= n
    BY <1>1
  <2>2. SubSeq(s, 1, m) \o SubSeq(s, m + 1, n) = SubSeq(s, 1, n)
    BY <2>1, ConcatAdjacentSubSeq
  <2>3. SubSeq(s, 1, m) \in Seq(E) /\ SubSeq(s, m + 1, n) \in Seq(E)
    BY <2>1, CutInTwo, PieceHas
  <2> DEFINE l == SubSeq(s, 1, m)
             r == SubSeq(s, m + 1, n)
  <2>4. l \in Seq(E) /\ r \in Seq(E) /\ l \o r = SubSeq(s, 1, n)
    BY <2>2, <2>3
  <2> HIDE DEF l, r
  <2>5. IsPrefix(l, l \o r)
    BY <2>4, PrefixLonger
  <2> QED BY <2>2, <2>4, <2>5 DEF l
<1> QED BY <1>2, <1>3

LEMMA Beginnings ==
  \A s \in Seq(Sample) : \A n \in 0..Len(s) : \A m \in 0..n :
    /\ SubSeq(s, 1, m) \o SubSeq(s, m + 1, n) = SubSeq(s, 1, n)
    /\ IsPrefix(SubSeq(s, 1, m), SubSeq(s, 1, n))
<1> SUFFICES ASSUME NEW s \in Seq(Sample), NEW n \in 0..Len(s)
             PROVE  \A m \in 0..n :
                      /\ SubSeq(s, 1, m) \o SubSeq(s, m + 1, n) = SubSeq(s, 1, n)
                      /\ IsPrefix(SubSeq(s, 1, m), SubSeq(s, 1, n))
  OBVIOUS
<1>1. n \in Nat /\ n <= Len(s)
  BY LenProperties
<1> QED BY <1>1, Beginning

\* Where only the pause at the end is shortened, everything after the last sample that is
\* not silent is held.
LEMMA EndHeld ==
  ASSUME NEW s \in Seq(Sample), NEW f, NEW mode, IsEnd(mode), ProcessRun(f, mode, <<>>, s)
  PROVE  \A n \in 0..Len(s) : \E m \in 0..n :
           Silent(s, m, n) /\ f[n].out = SubSeq(s, 1, m) /\ f[n].held = SubSeq(s, m + 1, n)
<1> DEFINE Right(n) == \E m \in 0..n : /\ Silent(s, m, n) /\ f[n].out = SubSeq(s, 1, m)
                                       /\ f[n].held = SubSeq(s, m + 1, n)
           S == {n \in 0..Len(s) : Right(n)}
<1>1. Len(s) \in Nat
  BY LenProperties
<1>2. 0 \in S
  <2>1. f[0].out = <<>> /\ f[0].held = <<>>
    BY DEF ProcessRun
  <2>2. SubSeq(s, 1, 0) = <<>> /\ SubSeq(s, 0 + 1, 0) = <<>>
    BY SubSeqEmpty
  <2>3. Silent(s, 0, 0) /\ 0 \in 0..0
    BY DEF Silent
  <2>4. Right(0)
    BY <2>1, <2>2, <2>3
  <2> HIDE DEF Right
  <2> QED BY <1>1, <2>4
<1>3. ASSUME NEW n \in 1..Len(s), n - 1 \in S PROVE n \in S
  <2> DEFINE r == f[n - 1]
             x == s[n]
  <2>1. PICK m \in 0..n - 1 : /\ Silent(s, m, n - 1) /\ r.out = SubSeq(s, 1, m)
                              /\ r.held = SubSeq(s, m + 1, n - 1)
    BY <1>3
  <2>2. n \in Nat /\ n <= Len(s) /\ m \in Nat /\ m < n /\ n \in 0..Len(s) /\ m \in 0..n
    BY <1>1
  <2>3. r \in Run /\ x \in Sample /\ x \in Nat /\ f[n] = Taken(mode, r, x)
    <3>1. r \in Run /\ f[n] = Taken(mode, r, x)
      BY <2>2 DEF ProcessRun
    <3>2. x \in Sample
      BY ElementOfSeq
    <3> QED BY <3>1, <3>2 DEF Sample
  <2>4. Append(r.held, x) = SubSeq(s, m + 1, n)
    <3>1. Append(SubSeq(s, m + 1, n - 1), x) = SubSeq(s, m + 1, n)
      BY <2>2, PieceAppend
    <3> QED BY <2>1, <3>1
  <2> HIDE DEF r
  <2>5. CASE x # 0
    <3>1. Taken(mode, r, x).out = r.out \o Append(r.held, x) /\ Taken(mode, r, x).held = <<>>
      BY <2>3, <2>5, TakenIs, Zenon
    <3>2. r.out \o Append(r.held, x) = SubSeq(s, 1, n)
      <4>1. SubSeq(s, 1, m) \o SubSeq(s, m + 1, n) = SubSeq(s, 1, n)
        BY <2>2, Beginnings
      <4> QED BY <2>1, <2>4, <4>1
    <3>3. <<>> = SubSeq(s, n + 1, n)
      BY <2>2, NoPiece
    <3>4. n \in 0..n /\ Silent(s, n, n)
      BY <2>2, <2>5 DEF Silent
    <3>5. f[n].out = SubSeq(s, 1, n) /\ f[n].held = SubSeq(s, n + 1, n)
      BY <2>3, <3>1, <3>2, <3>3, Zenon
    <3> QED BY <2>2, <3>4, <3>5
  <2>6. CASE x = 0
    <3>1. Silent(s, m, n) /\ m \in 0..n
      <4>1. \A k \in m + 1..n : k = n \/ k \in m + 1..n - 1
        BY <2>2
      <4> QED BY <2>1, <2>2, <2>6, <4>1 DEF Silent
    <3>2. Taken(mode, r, x).out = r.out /\ Taken(mode, r, x).held = Append(r.held, x)
      <4>1. r \in Run /\ x \in Sample
        BY <2>3
      <4>2. x = 0 /\ IsEnd(mode)
        BY <2>6
      <4> HIDE DEF x
      <4> QED BY <4>1, <4>2, TakenIs, Zenon
    <3>3. f[n].out = SubSeq(s, 1, m) /\ f[n].held = SubSeq(s, m + 1, n)
      BY <2>1, <2>3, <2>4, <3>2, Zenon
    <3> QED BY <2>2, <3>1, <3>3
  <2> QED BY <2>3, <2>5, <2>6
<1>4. 0..Len(s) \subseteq S
  <2> HIDE DEF S
  <2> QED BY <1>1, <1>2, <1>3, InductionUpTo
<1> QED BY <1>4

\* What the reference then leaves: all but the end of the last pause.
CutAt(m, n) == IF n < m + Keep THEN n ELSE m + Keep

LEMMA EndCut ==
  ASSUME NEW s \in Seq(Sample), NEW g, NEW mode, IsEnd(mode), ShortenedRun(g, s, mode),
         NEW m \in 0..Len(s), Silent(s, m, Len(s))
  PROVE  g[Len(s)] = SubSeq(s, 1, CutAt(m, Len(s)))
<1> DEFINE S == {n \in 0..Len(s) : g[n] = SubSeq(s, 1, CutAt(m, n))}
<1>1. Len(s) \in Nat /\ m \in Nat /\ Keep \in Nat
  BY LenProperties, KeepIs
<1>2. 0 \in S
  <2>1. CutAt(m, 0) = 0 /\ SubSeq(s, 1, 0) = <<>>
    BY <1>1, SubSeqEmpty DEF CutAt
  <2> QED BY <1>1, <2>1 DEF ShortenedRun
<1>3. ASSUME NEW n \in 1..Len(s), n - 1 \in S PROVE n \in S
  <2>1. n \in Nat /\ n \in 0..Len(s) /\ n - 1 \in 0..Len(s) /\ n <= Len(s)
    BY <1>1
  <2>2. g[n] = IF Survives(s, n, mode) THEN Append(g[n - 1], s[n]) ELSE g[n - 1]
    BY <2>1 DEF ShortenedRun
  <2>3. Survives(s, n, mode) <=> n - 1 < m + Keep
    <3>1. CASE n <= m
      <4>1. m \in n..Len(s) /\ s[m] # 0
        BY <1>1, <2>1, <3>1 DEF Silent
      <4>2. ~IsLast(s, n)
        BY <4>1 DEF IsLast
      <4> QED BY <1>1, <2>1, <3>1, <4>2, SurvivesIs
    <3>2. CASE m < n
      <4>1. Silent(s, m, n) /\ m \in 0..n - 1 /\ s[n] = 0
        BY <1>1, <2>1, <3>2 DEF Silent
      <4>2. PauseBegins(s, n) = m + 1
        BY <2>1, <4>1, PauseIs
      <4>3. IsLast(s, n)
        BY <1>1, <2>1, <3>2 DEF Silent, IsLast
      <4>4. Survives(s, n, mode) <=> n < (m + 1) + Keep
        BY <4>1, <4>2, <4>3, SurvivesIs
      <4> QED BY <1>1, <2>1, <4>4
    <3> QED BY <1>1, <2>1, <3>1, <3>2
  <2>4. CASE n - 1 < m + Keep
    <3>1. CutAt(m, n - 1) = n - 1 /\ CutAt(m, n) = n
      BY <1>1, <2>1, <2>4 DEF CutAt
    <3>2. Append(SubSeq(s, 1, n - 1), s[n]) = SubSeq(s, 1, n)
      <4>1. ASSUME NEW z \in Nat, z = 0
            PROVE  Append(SubSeq(s, z + 1, n - 1), s[n]) = SubSeq(s, z + 1, n)
        <5>1. z < n
          BY <2>1, <4>1
        <5> HIDE <4>1
        <5> QED BY <2>1, <5>1, PieceAppend
      <4> QED BY <4>1
    <3> QED BY <1>3, <2>1, <2>2, <2>3, <2>4, <3>1, <3>2
  <2>5. CASE ~(n - 1 < m + Keep)
    <3>1. CutAt(m, n - 1) = CutAt(m, n)
      BY <1>1, <2>1, <2>5 DEF CutAt
    <3> QED BY <1>3, <2>1, <2>2, <2>3, <2>5, <3>1
  <2> QED BY <2>4, <2>5
<1>4. 0..Len(s) \subseteq S
  <2> HIDE DEF S
  <2> QED BY <1>1, <1>2, <1>3, InductionUpTo
<1>5. Len(s) \in 0..Len(s)
  BY <1>1
<1> QED BY <1>4, <1>5

LEMMA EndPauses ==
  ASSUME NEW s \in Seq(Sample), NEW f, NEW mode, IsEnd(mode), ProcessRun(f, mode, <<>>, s),
         NEW n \in 0..Len(s)
  PROVE  /\ f[n].out \o f[n].held = SubSeq(s, 1, n)
         /\ IsPrefix(f[n].out \o Prefix(f[n].held, Keep), Shortened(s, mode))
         /\ n = Len(s) => f[n].out \o Prefix(f[n].held, Keep) = Shortened(s, mode)
<1>1. Len(s) \in Nat /\ Len(s) \in 0..Len(s) /\ Keep \in Nat /\ n \in Nat /\ n <= Len(s)
  BY LenProperties, KeepIs
<1>2. PICK g : ShortenedRun(g, s, mode)
  BY ShortenedIs
<1>3. PICK M \in 0..Len(s) : Silent(s, M, Len(s))
  BY <1>1, EndHeld
<1>4. Shortened(s, mode) = SubSeq(s, 1, CutAt(M, Len(s)))
  BY <1>2, <1>3, EndCut DEF ShortenedRun
<1>5. PICK m \in 0..n : Silent(s, m, n) /\ f[n].out = SubSeq(s, 1, m) /\ f[n].held = SubSeq(s, m + 1, n)
  BY EndHeld
<1>6. m \in Nat /\ M \in Nat /\ m <= M
  BY <1>1, <1>3, <1>5 DEF Silent
<1>7. f[n].out \o f[n].held = SubSeq(s, 1, n)
  BY <1>1, <1>5, Beginnings
<1>8. f[n].out \o Prefix(f[n].held, Keep) = SubSeq(s, 1, CutAt(m, n))
  <2> DEFINE h == SubSeq(s, m + 1, n)
             k == KeptOf(n - m)
  <2>1. Len(h) = n - m
    BY <1>1, <1>6, PieceHas
  <2>2. Prefix(h, Keep) = SubSeq(h, 1, k)
    BY <1>1, <1>6, <2>1 DEF Prefix, KeptOf
  <2>3. k \in Nat /\ k <= n - m /\ m + k = CutAt(m, n) /\ m \in 0..m + k /\ m + k \in 0..Len(s)
    BY <1>1, <1>6 DEF KeptOf, CutAt
  <2> HIDE DEF k
  <2>4. SubSeq(h, 1, k) = SubSeq(s, m + 1, m + k)
    <3>1. ASSUME NEW z \in Nat, z <= k, m + z + 1 = m + 1
          PROVE  SubSeq(h, z + 1, k) = SubSeq(s, m + z + 1, m + k)
      BY <1>1, <1>6, <2>3, <3>1, PieceOfPiece
    <3>2. 0 \in Nat /\ 0 <= k /\ m + 0 + 1 = m + 1 /\ 0 + 1 = 1
      BY <1>6, <2>3
    <3>3. SubSeq(h, 0 + 1, k) = SubSeq(s, m + 0 + 1, m + k)
      BY <3>1, <3>2
    <3> QED BY <3>2, <3>3
  <2>5. SubSeq(s, 1, m) \o SubSeq(s, m + 1, m + k) = SubSeq(s, 1, m + k)
    BY <2>3, Beginnings
  <2> QED BY <1>5, <2>2, <2>3, <2>4, <2>5
<1>9. CutAt(m, n) \in 0..CutAt(M, Len(s)) /\ CutAt(M, Len(s)) \in 0..Len(s)
  BY <1>1, <1>6 DEF CutAt
<1>10. IsPrefix(SubSeq(s, 1, CutAt(m, n)), SubSeq(s, 1, CutAt(M, Len(s))))
  BY <1>9, Beginnings
<1>11. n = Len(s) => m = M
  BY <1>1, <1>3, <1>5, <1>6 DEF Silent
<1> QED BY <1>4, <1>7, <1>8, <1>10, <1>11

-----------------------------------------------------------------------------
(* The sound of a text                                                       *)

TextType ==
  [segs : Seq(DOMAIN Shape) \ {<<>>}, voice : Nat, tempo : BOOLEAN,
   mode : {"all pauses", "end pauses", "no pauses"}, marks : Seq(Nat)]

LEMMA TextIs == \A t \in Texts : Groups[t] \in TextType
BY GroupsAreKnown DEF Texts, TextType

LEMMA TextParts ==
  ASSUME NEW g \in TextType
  PROVE  /\ g.segs \in Seq(DOMAIN Shape) /\ Len(g.segs) \in Nat /\ Len(g.segs) # 0
         /\ g.tempo \in BOOLEAN /\ g.voice \in Nat /\ g.marks \in Seq(Nat)
         /\ IsAll(g.mode) \/ IsEnd(g.mode) \/ IsNone(g.mode)
         /\ \A i \in 1..Len(g.segs) : g.segs[i] \in DOMAIN Shape
<1>1. g.segs \in Seq(DOMAIN Shape) /\ g.segs # <<>>
  BY DEF TextType
<1>2. Len(g.segs) \in Nat /\ Len(g.segs) # 0
  BY <1>1, LenProperties, EmptySeq
<1>3. \A i \in 1..Len(g.segs) : g.segs[i] \in DOMAIN Shape
  BY <1>1, ElementOfSeq
<1>4. g.tempo \in BOOLEAN /\ g.voice \in Nat /\ g.marks \in Seq(Nat)
      /\ g.mode \in {"all pauses", "end pauses", "no pauses"}
  BY DEF TextType
<1> QED BY <1>1, <1>2, <1>3, <1>4 DEF IsAll, IsEnd, IsNone

LEMMA RawTyped ==
  ASSUME NEW g \in TextType, NEW i \in 1..Len(g.segs)
  PROVE  Raw(g, i) \in Seq(Sample)
<1> DEFINE x == g.segs[i]
           n == Len(Shape[x])
<1>1. Shape \in Seq(Seq({0, 1})) /\ DOMAIN Shape = 1..Len(Shape) /\ Len(Shape) \in Nat
  BY ShapesAreKnown, LenProperties
<1>2. x \in DOMAIN Shape /\ g.voice \in Nat
  BY TextParts
<1>3. Shape[x] \in Seq({0, 1}) /\ x \in Nat
  BY <1>1, <1>2, ElementOfSeq
<1>4. DOMAIN Shape[x] = 1..n /\ n \in Nat
  BY <1>3, LenProperties
<1>5. Loud(g, x) \in Sample /\ 0 \in Sample
  BY <1>2, <1>3 DEF Loud, Sample
<1>6. Raw(g, i) = [k \in 1..n |-> IF Shape[x][k] = 0 THEN 0 ELSE Loud(g, x)]
  BY <1>4 DEF Raw
<1>7. Raw(g, i) \in [1..n -> Sample]
  BY <1>5, <1>6
<1> HIDE DEF n
<1> QED BY <1>4, <1>7, FunctionIsSeq

LEMMA CarriedTyped ==
  ASSUME NEW g \in TextType, NEW i \in 0..Len(g.segs)
  PROVE  /\ Carried(g, i) \in Seq(Sample)
         /\ i # 0 => Len(Carried(g, i)) <= Len(Raw(g, i))
         /\ ~g.tempo => Carried(g, i) = <<>>
<1>1. Len(g.segs) \in Nat /\ i \in Nat
  BY TextParts
<1>2. i # 0 => Raw(g, i) \in Seq(Sample) /\ Len(Raw(g, i)) \in Nat
  <2>1. i # 0 => i \in 1..Len(g.segs)
    BY <1>1
  <2> QED BY <2>1, RawTyped, LenProperties
<1>3. CASE g.tempo /\ i \in 1..Ends(g) /\ Raw(g, i) # <<>>
  <2> DEFINE r == Raw(g, i)
  <2>1. r \in Seq(Sample) /\ r # <<>> /\ Carried(g, i) = <<Last(r)>>
    BY <1>2, <1>3 DEF Carried
  <2> HIDE DEF r
  <2>2. Len(r) \in Nat /\ Len(r) # 0
    BY <2>1, EmptySeq, LenProperties
  <2>3. Last(r) \in Sample
    BY <2>1, <2>2, ElementOfSeq DEF Last
  <2>4. <<Last(r)>> \in Seq(Sample) /\ Len(<<Last(r)>>) = 1
    BY <2>3
  <2> QED BY <1>3, <2>1, <2>2, <2>4 DEF r
<1>4. CASE ~(g.tempo /\ i \in 1..Ends(g) /\ Raw(g, i) # <<>>)
  <2>1. Carried(g, i) = <<>> /\ Len(<<>>) = 0 /\ <<>> \in Seq(Sample)
    BY <1>4, EmptySeq DEF Carried
  <2> QED BY <1>2, <2>1
<1> QED BY <1>3, <1>4

LEMMA GivenTyped ==
  ASSUME NEW g \in TextType, NEW i \in 1..Len(g.segs), NEW first
  PROVE  Given(g, i, first) \in Seq(Sample)
<1> DEFINE r == Raw(g, i)
           b == IF i = first THEN <<>> ELSE Carried(g, i - 1)
           n == Len(r) - Len(Carried(g, i))
<1>1. i - 1 \in 0..Len(g.segs) /\ i \in 0..Len(g.segs) /\ i # 0
  BY TextParts
<1>2. b \in Seq(Sample)
  BY <1>1, CarriedTyped, EmptySeq
<1>3. r \in Seq(Sample) /\ Carried(g, i) \in Seq(Sample) /\ Len(Carried(g, i)) <= Len(r)
  BY <1>1, RawTyped, CarriedTyped
<1>4. n \in 0..Len(r)
  BY <1>3, LenProperties
<1>5. Given(g, i, first) = b \o SubSeq(r, 1, n)
  BY DEF Given
<1> HIDE DEF r, b, n
<1>6. SubSeq(r, 1, n) \in Seq(Sample)
  BY <1>3, <1>4, CutInTwo
<1> QED BY <1>2, <1>5, <1>6, ConcatProperties

LEMMA SoundOfTyped ==
  ASSUME NEW g \in TextType, NEW i \in 1..Len(g.segs)
  PROVE  SoundOf(g, i) \in Seq(Sample)
<1> DEFINE s == Given(g, i, 1)
<1>1. s \in Seq(Sample)
  BY GivenTyped
<1>2. Shortened(s, g.mode) \in Seq(Sample)
  BY <1>1, ShortenedTyped
<1> QED BY <1>1, <1>2 DEF SoundOf

\* The states of the sum of sounds.
SoundRun(f, g, n) ==
  /\ f[0] = <<>> /\ SoundUpTo(g, n) = f[n]
  /\ \A i \in 1..n : f[i] = f[i - 1] \o SoundOf(g, i)
  /\ \A i \in 0..n : f[i] \in Seq(Sample)

LEMMA SoundRunIs ==
  ASSUME NEW g \in TextType, NEW N \in 0..Len(g.segs)
  PROVE  \E f : SoundRun(f, g, N)
<1> DEFINE V == Seq(Sample)
           F(v, n) == v \o SoundOf(g, n)
           D(r) == [n \in 0..N |-> IF n = 0 THEN <<>> ELSE F(r[n - 1], n)]
           next == [n \in 1..N |-> [v \in V |-> F(v, n)]]
<1>1. N \in Nat /\ \A n \in 1..N : SoundOf(g, n) \in V
  BY TextParts, SoundOfTyped
<1>2. /\ next \in Steps(N, V)
      /\ \A n \in 1..N, v \in V : next[n][v] = F(v, n)
  <2>1. \A n \in 1..N, v \in V : F(v, n) \in V
    BY <1>1, ConcatProperties
  <2> HIDE DEF V, F
  <2> QED BY <1>1, <2>1 DEF Steps
<1>3. <<>> \in V
  BY EmptySeq
<1> HIDE DEF next, V, F
<1>4. \E r : r = D(r)
  <2>1. PICK r \in Runs(N, V) : Unrolls(r, N, <<>>, next)
    BY <1>1, <1>2, <1>3, Recursion
  <2>2. r \in [0..N -> V] /\ r[0] = <<>> /\ \A n \in 1..N : r[n] = next[n][r[n - 1]]
    BY <2>1 DEF Runs, Unrolls
  <2>3. ASSUME NEW n \in 1..N PROVE r[n] = F(r[n - 1], n)
    <3>1. r[n - 1] \in V
      BY <1>1, <2>2
    <3> QED BY <3>1, <1>2, <2>2
  <2>4. r = D(r)
    BY <1>1, <2>2, <2>3
  <2> QED BY <2>4
<1> DEFINE f == CHOOSE r : r = D(r)
<1>5. f = D(f)
  BY <1>4
<1>6. SoundUpTo(g, N) = f[N]
  BY DEF SoundUpTo, F
<1> HIDE DEF f
<1>7. f[0] = <<>> /\ \A n \in 1..N : f[n] = F(f[n - 1], n)
  BY <1>1, <1>5
<1>8. \A n \in 0..N : f[n] \in V
  <2>1. \A n \in 1..N : f[n - 1] \in V => f[n] = next[n][f[n - 1]]
    BY <1>2, <1>7
  <2> QED BY <1>1, <1>2, <1>3, <1>7, <2>1, RecursionStays
<1> QED BY <1>6, <1>7, <1>8 DEF V, F, SoundRun

\* The sound of a text goes on segment by segment.
LEMMA SoundGoesOn ==
  ASSUME NEW g \in TextType
  PROVE  /\ SoundUpTo(g, 0) = <<>>
         /\ \A n \in 0..Len(g.segs) : SoundUpTo(g, n) \in Seq(Sample)
         /\ \A n \in 1..Len(g.segs) : SoundUpTo(g, n) = SoundUpTo(g, n - 1) \o SoundOf(g, n)
<1>1. Len(g.segs) \in Nat
  BY TextParts
<1>2. SoundUpTo(g, 0) = <<>>
  <2>1. PICK f : SoundRun(f, g, 0)
    BY <1>1, SoundRunIs
  <2> QED BY <2>1 DEF SoundRun
<1>3. ASSUME NEW n \in 0..Len(g.segs) PROVE SoundUpTo(g, n) \in Seq(Sample)
  <2>1. PICK f : SoundRun(f, g, n)
    BY SoundRunIs
  <2>2. n \in 0..n
    BY <1>1
  <2> QED BY <2>1, <2>2 DEF SoundRun
<1>4. ASSUME NEW n \in 1..Len(g.segs) PROVE SoundUpTo(g, n) = SoundUpTo(g, n - 1) \o SoundOf(g, n)
  <2> DEFINE N == n - 1
  <2>1. N \in Nat /\ N \in 0..Len(g.segs) /\ n \in 0..Len(g.segs) /\ n \in 1..n
    BY <1>1
  <2>2. PICK f : SoundRun(f, g, N)
    BY <2>1, SoundRunIs
  <2>3. PICK h : SoundRun(h, g, n)
    BY <2>1, SoundRunIs
  <2> DEFINE S == {k \in 0..N : f[k] = h[k]}
  <2>4. 0 \in S
    BY <2>1, <2>2, <2>3 DEF SoundRun
  <2>5. ASSUME NEW k \in 1..N, k - 1 \in S PROVE k \in S
    <3>1. k \in 1..n /\ k \in 0..N
      BY <2>1
    <3>2. f[k - 1] = h[k - 1]
      BY <2>5
    <3>3. f[k] = f[k - 1] \o SoundOf(g, k)
      BY <2>2 DEF SoundRun
    <3>4. h[k] = h[k - 1] \o SoundOf(g, k)
      BY <2>3, <3>1 DEF SoundRun
    <3> QED BY <3>1, <3>2, <3>3, <3>4
  <2>6. 0..N \subseteq S
    <3> HIDE DEF S, N
    <3> QED BY <2>1, <2>4, <2>5, InductionUpTo
  <2>7. f[N] = h[N]
    BY <2>1, <2>6
  <2> QED BY <2>1, <2>2, <2>3, <2>7 DEF SoundRun
<1> QED BY <1>2, <1>3, <1>4

LEMMA SoundBegins ==
  ASSUME NEW g \in TextType, NEW n \in 0..Len(g.segs)
  PROVE  IsPrefix(SoundUpTo(g, n), Sound(g)) /\ Sound(g) \in Seq(Sample)
<1> DEFINE L == Len(g.segs)
           S == {k \in 0..L - n : IsPrefix(SoundUpTo(g, n), SoundUpTo(g, n + k))}
<1>1. L \in Nat /\ n \in Nat /\ L - n \in Nat /\ L \in 0..L /\ n + (L - n) = L
  BY TextParts
<1>2. 0 \in S
  <2>1. SoundUpTo(g, n) \in Seq(Sample) /\ n + 0 = n
    BY <1>1, SoundGoesOn
  <2> QED BY <1>1, <2>1, PrefixLonger
<1>3. ASSUME NEW k \in 1..L - n, k - 1 \in S PROVE k \in S
  <2>1. k \in 0..L - n /\ n + k \in 1..L /\ (n + k) - 1 = n + (k - 1) /\ (n + k) - 1 \in 0..L
    BY <1>1
  <2> DEFINE a == SoundUpTo(g, n)
             b == SoundUpTo(g, (n + k) - 1)
             c == SoundOf(g, n + k)
  <2>2. a \in Seq(Sample) /\ b \in Seq(Sample) /\ c \in Seq(Sample) /\ SoundUpTo(g, n + k) = b \o c
    BY <2>1, SoundGoesOn, SoundOfTyped
  <2>3. IsPrefix(a, b)
    BY <1>3, <2>1
  <2> HIDE DEF a, b, c
  <2>4. IsPrefix(a, b \o c)
    BY <2>2, <2>3, PrefixGoesOn
  <2> QED BY <2>1, <2>2, <2>4 DEF a
<1>4. 0..L - n \subseteq S
  <2> HIDE DEF S, L
  <2> QED BY <1>1, <1>2, <1>3, InductionUpTo
<1>5. L - n \in 0..L - n
  BY <1>1
<1>6. IsPrefix(SoundUpTo(g, n), SoundUpTo(g, n + (L - n)))
  BY <1>4, <1>5
<1>7. SoundUpTo(g, L) \in Seq(Sample)
  BY <1>1, SoundGoesOn
<1> QED BY <1>1, <1>6, <1>7 DEF Sound

\* Texts with one key sound alike.
LEMMA TextKeyTells ==
  ASSUME NEW g \in TextType, NEW h \in TextType, GroupKey(g) = GroupKey(h)
  PROVE  Sound(g) = Sound(h)
<1>1. g.segs = h.segs /\ g.voice = h.voice /\ g.tempo = h.tempo /\ g.mode = h.mode
  BY DEF GroupKey
<1> DEFINE L == Len(g.segs)
           S == {n \in 0..L : SoundUpTo(g, n) = SoundUpTo(h, n)}
<1>2. L \in Nat
  BY TextParts
<1>3. ASSUME NEW i PROVE SoundOf(g, i) = SoundOf(h, i)
  <2>1. \A j : Raw(g, j) = Raw(h, j)
    BY <1>1 DEF Raw, Loud
  <2>2. \A j : Carried(g, j) = Carried(h, j)
    BY <1>1, <2>1 DEF Carried, Ends
  <2>3. Given(g, i, 1) = Given(h, i, 1)
    <3>1. Raw(g, i) = Raw(h, i) /\ Carried(g, i) = Carried(h, i) /\ Carried(g, i - 1) = Carried(h, i - 1)
      BY <2>1, <2>2
    <3> QED BY <3>1 DEF Given
  <2> QED BY <1>1, <2>3 DEF SoundOf
<1>4. 0 \in S
  BY <1>2, SoundGoesOn
<1>5. ASSUME NEW n \in 1..L, n - 1 \in S PROVE n \in S
  <2>1. n \in 0..L /\ n \in 1..Len(h.segs)
    BY <1>1, <1>2
  <2>2. SoundUpTo(g, n) = SoundUpTo(g, n - 1) \o SoundOf(g, n)
    BY SoundGoesOn
  <2>3. SoundUpTo(h, n) = SoundUpTo(h, n - 1) \o SoundOf(h, n)
    BY <2>1, SoundGoesOn
  <2>4. SoundUpTo(g, n - 1) = SoundUpTo(h, n - 1)
    BY <1>5
  <2> QED BY <1>3, <2>1, <2>2, <2>3, <2>4
<1>6. 0..L \subseteq S
  <2> HIDE DEF S, L
  <2> QED BY <1>2, <1>4, <1>5, InductionUpTo
<1>7. SoundUpTo(g, L) = SoundUpTo(h, L)
  BY <1>2, <1>6
<1> QED BY <1>1, <1>7 DEF Sound

\* Without a tempo, what is given of a segment is the segment.
LEMMA GivenPlain ==
  ASSUME NEW g \in TextType, NEW i \in 1..Len(g.segs), NEW first, ~g.tempo
  PROVE  Given(g, i, first) = Raw(g, i)
<1> DEFINE r == Raw(g, i)
<1>1. i - 1 \in 0..Len(g.segs) /\ i \in 0..Len(g.segs)
  BY TextParts
<1>2. Carried(g, i) = <<>> /\ Carried(g, i - 1) = <<>> /\ r \in Seq(Sample)
  BY <1>1, CarriedTyped, RawTyped
<1>3. Len(<<>>) = 0 /\ Len(r) - 0 = Len(r) /\ SubSeq(r, 1, Len(r)) = r /\ <<>> \o r = r
  BY <1>2, EmptySeq, LenProperties, SubSeqFull, ConcatEmptySeq
<1>4. Given(g, i, first) = <<>> \o SubSeq(r, 1, Len(r) - Len(<<>>))
  BY <1>2 DEF Given
<1> HIDE DEF r
<1>5. Given(g, i, first) = r
  BY <1>3, <1>4
<1> QED BY <1>5 DEF r

LEMMA SegmentKeyTells ==
  ASSUME NEW g \in TextType, NEW i \in 1..Len(g.segs), SegmentsKeyed(g),
         NEW h \in TextType, NEW j \in 1..Len(h.segs), SegmentsKeyed(h),
         SegmentKey(g, i) = SegmentKey(h, j)
  PROVE  SoundOf(g, i) = SoundOf(h, j) /\ (i = Len(g.segs) <=> j = Len(h.segs))
<1>1. /\ <<g.segs[i]>> = <<h.segs[j]>> /\ g.voice = h.voice /\ g.mode = h.mode
      /\ (i < Len(g.segs)) = (j < Len(h.segs))
  BY DEF SegmentKey
<1>2. g.segs[i] = h.segs[j]
  BY <1>1
<1>3. Len(g.segs) \in Nat /\ Len(h.segs) \in Nat
  BY TextParts
<1>4. i < Len(g.segs) <=> j < Len(h.segs)
  BY <1>1
<1>5. Raw(g, i) = Raw(h, j)
  BY <1>1, <1>2 DEF Raw, Loud
<1>6. Given(g, i, 1) = Given(h, j, 1)
  BY <1>5, GivenPlain DEF SegmentsKeyed
<1>7. SoundOf(g, i) = SoundOf(h, j)
  BY <1>1, <1>4, <1>6 DEF SoundOf
<1> QED BY <1>3, <1>4, <1>7

LEMMA KeysDiffer ==
  \A g, h, i : GroupKey(g) # SegmentKey(h, i)
BY DEF GroupKey, SegmentKey

-----------------------------------------------------------------------------
(* What the shaping of a segment has given, and what it holds                *)

\* After k samples of the segment.
Came(g, i, k) ==
  IF IsNone(g.mode) THEN SubSeq(Given(g, i, 1), 1, k)
  ELSE Process(g.mode, <<>>, SubSeq(Given(g, i, 1), 1, k)).out
Holds(g, i, k) ==
  IF IsNone(g.mode) THEN <<>> ELSE Process(g.mode, <<>>, SubSeq(Given(g, i, 1), 1, k)).held

\* What the end of a segment and the end of the text add.
AtEnd(mode, shaper) ==
  LET run == Process(mode, shaper.held, shaper.block)
  IN run.out \o (IF IsAll(mode) THEN Prefix(run.held, Keep) ELSE run.held)
AtClose(mode, shaper) ==
  LET run == Process(mode, shaper.held, shaper.block) IN run.out \o Prefix(run.held, Keep)

LEMMA RunFromNothing ==
  ASSUME NEW mode, NEW s \in Seq(Sample), NEW f, ProcessRun(f, mode, <<>>, s), NEW k \in 0..Len(s)
  PROVE  Process(mode, <<>>, SubSeq(s, 1, k)) = f[k]
<1>1. ASSUME NEW h \in Seq(Sample), ProcessRun(f, mode, h, s)
      PROVE  Process(mode, h, SubSeq(s, 1, k)) = f[k]
  BY <1>1, ProcessOfPrefix
<1> QED BY <1>1, EmptySeq

LEMMA ShortPrefix ==
  ASSUME NEW h \in Seq(Sample), Len(h) <= Keep
  PROVE  Prefix(h, Keep) = h
<1>1. Len(h) \in Nat /\ Keep \in Nat
  BY LenProperties, KeepIs
<1>2. (IF Keep < Len(h) THEN Keep ELSE Len(h)) = Len(h)
  BY <1>1
<1>3. SubSeq(h, 1, Len(h)) = h
  BY SubSeqFull
<1> QED BY <1>2, <1>3 DEF Prefix

\* What is given, and what is then held, is a beginning of the sound of the segment, and all
\* of it when the segment is.
LEMMA GivenThenHeld ==
  ASSUME NEW g \in TextType, NEW i \in 1..Len(g.segs), ~IsNone(g.mode),
         NEW k \in 0..Len(Given(g, i, 1))
  PROVE  /\ Came(g, i, k) \in Seq(Sample) /\ Holds(g, i, k) \in Seq(Sample)
         /\ IsPrefix(Came(g, i, k) \o Prefix(Holds(g, i, k), Keep), SoundOf(g, i))
         /\ k = Len(Given(g, i, 1)) /\ (IsAll(g.mode) \/ i = Len(g.segs)) =>
              Came(g, i, k) \o Prefix(Holds(g, i, k), Keep) = SoundOf(g, i)
         /\ k = Len(Given(g, i, 1)) /\ IsEnd(g.mode) /\ i # Len(g.segs) =>
              Came(g, i, k) \o Holds(g, i, k) = SoundOf(g, i)
<1> DEFINE s == Given(g, i, 1)
           mode == g.mode
           Short == Shortened(s, mode)
<1>1. s \in Seq(Sample) /\ Len(s) \in Nat /\ <<>> \in Seq(Sample) /\ i <= Len(g.segs) /\ i \in Nat
      /\ Len(g.segs) \in Nat /\ (IsAll(mode) \/ IsEnd(mode)) /\ SubSeq(s, 1, Len(s)) = s
  BY TextParts, GivenTyped, EmptySeq, LenProperties, SubSeqFull
<1>2. /\ (IsAll(mode) \/ i = Len(g.segs)) => SoundOf(g, i) = Short
      /\ IsEnd(mode) /\ i # Len(g.segs) => SoundOf(g, i) = s
  <2>1. SoundOf(g, i) = IF IsNone(mode) \/ (IsEnd(mode) /\ i < Len(g.segs)) THEN s ELSE Short
    BY DEF SoundOf, IsNone, IsEnd
  <2>2. IsAll(mode) => ~IsEnd(mode)
    BY DEF IsAll, IsEnd
  <2> HIDE DEF s, mode, Short
  <2> QED BY <1>1, <2>1, <2>2 DEF mode
<1>3. PICK f : ProcessRun(f, mode, <<>>, s)
  BY <1>1, ProcessIs
<1>4. f[k] = Process(mode, <<>>, SubSeq(s, 1, k))
  <2>1. k \in 0..Len(s)
    OBVIOUS
  <2> HIDE DEF mode, s
  <2> QED BY <1>1, <1>3, <2>1, RunFromNothing
<1>5. Came(g, i, k) = f[k].out /\ Holds(g, i, k) = f[k].held
  BY <1>4 DEF Came, Holds
<1>6. f[k] \in Run /\ f[k].out \in Seq(Sample) /\ f[k].held \in Seq(Sample)
  <2>1. f[k] \in Run
    BY <1>3 DEF ProcessRun
  <2> QED BY <2>1 DEF Run
<1>7. CASE IsAll(mode)
  <2>1. PICK q : ShortenedRun(q, s, mode)
    BY <1>1, ShortenedIs
  <2>2. f[k].out \o f[k].held = q[k] /\ Len(f[k].held) <= Keep
    BY <1>1, <1>3, <1>7, <2>1, AllPauses
  <2>3. Prefix(f[k].held, Keep) = f[k].held
    BY <1>6, <2>2, ShortPrefix
  <2>4. IsPrefix(q[k], Short)
    BY <1>1, <2>1, ShortenedGrows
  <2>5. k = Len(s) => q[k] = Short
    BY <2>1 DEF ShortenedRun
  <2>6. ~IsEnd(mode)
    BY <1>7 DEF IsAll, IsEnd
  <2> HIDE DEF s, mode, Short
  <2>7. f[k].out \o Prefix(f[k].held, Keep) = q[k]
    BY <2>2, <2>3
  <2> QED BY <1>2, <1>5, <1>6, <1>7, <2>4, <2>5, <2>6, <2>7 DEF s, mode
<1>8. CASE IsEnd(mode)
  <2>1. /\ f[k].out \o f[k].held = SubSeq(s, 1, k)
        /\ IsPrefix(f[k].out \o Prefix(f[k].held, Keep), Short)
        /\ k = Len(s) => f[k].out \o Prefix(f[k].held, Keep) = Short
    BY <1>1, <1>3, <1>8, EndPauses, ZenonT(60)
  <2>2. IsPrefix(f[k].out \o Prefix(f[k].held, Keep), SoundOf(g, i))
    <3>1. CASE i = Len(g.segs)
      BY <1>2, <2>1, <3>1
    <3>2. CASE i # Len(g.segs)
      <4> DEFINE o == f[k].out
                 h == f[k].held
                 n == IF Keep < Len(h) THEN Keep ELSE Len(h)
                 p == SubSeq(h, 1, n)
      <4>1. o \in Seq(Sample) /\ h \in Seq(Sample) /\ Prefix(h, Keep) = p
        BY <1>6 DEF Prefix
      <4>2. o \o h = SubSeq(s, 1, k)
        BY <2>1
      <4> HIDE DEF o, h
      <4>3. n \in 0..Len(h)
        BY <4>1, KeepIs, LenProperties
      <4> HIDE DEF n
      <4>4. Len(h) \in Nat /\ Len(h) \in 0..Len(h) /\ SubSeq(h, 1, Len(h)) = h
        BY <4>1, LenProperties, SubSeqFull
      <4>5. p \in Seq(Sample) /\ IsPrefix(p, h)
        <5>1. IsPrefix(SubSeq(h, 1, n), SubSeq(h, 1, Len(h)))
          BY <4>1, <4>3, <4>4, Beginnings
        <5> QED BY <4>1, <4>3, <4>4, <5>1, CutInTwo
      <4> HIDE DEF p
      <4>6. IsPrefix(o \o p, o \o h)
        BY <4>1, <4>5, PrefixGoesOn
      <4>7. IsPrefix(SubSeq(s, 1, k), s) /\ SubSeq(s, 1, k) \in Seq(Sample)
        <5>1. Len(s) \in 0..Len(s)
          BY <1>1
        <5>2. IsPrefix(SubSeq(s, 1, k), SubSeq(s, 1, Len(s)))
          BY <1>1, <5>1, Beginnings
        <5> QED BY <1>1, <5>2, CutInTwo
      <4>8. o \o p \in Seq(Sample)
        BY <4>1, <4>5, ConcatProperties
      <4>9. IsPrefix(o \o p, s)
        <5> HIDE DEF s
        <5> DEFINE u == SubSeq(s, 1, k)
                   v == o \o p
        <5>1. IsPrefix(v, u) /\ IsPrefix(u, s) /\ u \in Seq(Sample) /\ v \in Seq(Sample)
          BY <4>2, <4>6, <4>7, <4>8
        <5> HIDE DEF u, v
        <5>2. IsPrefix(v, s)
          BY <1>1, <5>1, PrefixGoesOn
        <5> QED BY <5>2 DEF v
      <4> QED BY <1>2, <1>8, <3>2, <4>1, <4>9 DEF o, h
    <3> QED BY <3>1, <3>2
  <2>3. ~IsAll(mode)
    BY <1>8 DEF IsAll, IsEnd
  <2> HIDE DEF s, mode, Short
  <2> QED BY <1>1, <1>2, <1>5, <1>6, <1>8, <2>1, <2>2, <2>3 DEF s, mode
<1> QED BY <1>1, <1>7, <1>8

LEMMA CameIs ==
  ASSUME NEW g \in TextType, NEW i \in 1..Len(g.segs), NEW k \in 0..Len(Given(g, i, 1))
  PROVE  /\ Came(g, i, k) \in Seq(Sample) /\ Holds(g, i, k) \in Seq(Sample)
         /\ IsPrefix(Came(g, i, k), SoundOf(g, i))
         /\ Came(g, i, 0) = <<>> /\ Holds(g, i, 0) = <<>>
         /\ IsNone(g.mode) => SoundOf(g, i) = Given(g, i, 1) /\ Came(g, i, k) = SubSeq(Given(g, i, 1), 1, k)
<1> DEFINE s == Given(g, i, 1)
<1>1. s \in Seq(Sample) /\ Len(s) \in Nat /\ Len(s) \in 0..Len(s) /\ SubSeq(s, 1, Len(s)) = s
      /\ SoundOf(g, i) \in Seq(Sample) /\ SubSeq(s, 1, 0) = <<>> /\ k \in 0..Len(s) /\ <<>> \in Seq(Sample)
  BY GivenTyped, LenProperties, SubSeqFull, SoundOfTyped, SubSeqEmpty, EmptySeq
<1>2. CASE IsNone(g.mode)
  <2>1. SoundOf(g, i) = s
    BY <1>2 DEF SoundOf, IsNone
  <2>2. /\ Came(g, i, k) = SubSeq(s, 1, k) /\ Holds(g, i, k) = <<>>
        /\ Came(g, i, 0) = SubSeq(s, 1, 0) /\ Holds(g, i, 0) = <<>>
    BY <1>2 DEF Came, Holds
  <2> HIDE DEF s
  <2>3. SubSeq(s, 1, k) \in Seq(Sample) /\ IsPrefix(SubSeq(s, 1, k), SubSeq(s, 1, Len(s)))
    BY <1>1, CutInTwo, Beginnings
  <2> QED BY <1>1, <2>1, <2>2, <2>3 DEF s
<1>3. CASE ~IsNone(g.mode)
  <2> DEFINE c == Came(g, i, k)
             h == Holds(g, i, k)
             p == Prefix(h, Keep)
             n == IF Keep < Len(h) THEN Keep ELSE Len(h)
  <2>1. c \in Seq(Sample) /\ h \in Seq(Sample) /\ IsPrefix(c \o p, SoundOf(g, i))
    BY <1>3, GivenThenHeld
  <2>2. p = SubSeq(h, 1, n)
    BY DEF Prefix
  <2>3. Came(g, i, 0) = Process(g.mode, <<>>, <<>>).out /\ Holds(g, i, 0) = Process(g.mode, <<>>, <<>>).held
    <3>1. SubSeq(Given(g, i, 1), 1, 0) = <<>>
      BY <1>1
    <3> QED BY <1>3, <3>1 DEF Came, Holds
  <2>4. Came(g, i, 0) = <<>> /\ Holds(g, i, 0) = <<>>
    <3>1. Process(g.mode, <<>>, <<>>) = [out |-> <<>>, held |-> <<>>]
      BY <1>1, ProcessTyped
    <3> QED BY <2>3, <3>1
  <2> HIDE DEF c, h, n
  <2>5. n \in 0..Len(h)
    <3>1. Len(h) \in Nat /\ Keep \in Nat
      BY <2>1, LenProperties, KeepIs
    <3> QED BY <3>1 DEF n
  <2>6. p \in Seq(Sample)
    BY <2>1, <2>2, <2>5, CutInTwo
  <2> HIDE DEF p
  <2>7. c \o p \in Seq(Sample) /\ IsPrefix(c, c \o p)
    BY <2>1, <2>6, ConcatProperties, PrefixLonger
  <2>8. IsPrefix(c, SoundOf(g, i))
    <3> DEFINE q == c \o p
               z == SoundOf(g, i)
    <3>1. c \in Seq(Sample) /\ q \in Seq(Sample) /\ z \in Seq(Sample) /\ IsPrefix(c, q) /\ IsPrefix(q, z)
      BY <1>1, <2>1, <2>7
    <3> HIDE DEF q, z
    <3>2. IsPrefix(c, z)
      BY <3>1, PrefixGoesOn
    <3> QED BY <3>2 DEF z
  <2> QED BY <1>3, <2>1, <2>4, <2>8 DEF c, h
<1> QED BY <1>2, <1>3

\* More samples: what is given and held goes on.
LEMMA FeedIs ==
  ASSUME NEW g \in TextType, NEW i \in 1..Len(g.segs), ~IsNone(g.mode),
         NEW l \in 0..Len(Given(g, i, 1)), NEW k \in 0..l, NEW r,
         r = Process(g.mode, Holds(g, i, k), SubSeq(Given(g, i, 1), k + 1, l))
  PROVE  r \in Run /\ Came(g, i, l) = Came(g, i, k) \o r.out /\ Holds(g, i, l) = r.held
<1> DEFINE s == Given(g, i, 1)
           a == SubSeq(s, 1, k)
           b == SubSeq(s, k + 1, l)
           m == g.mode
<1>1. s \in Seq(Sample) /\ Len(s) \in Nat /\ l \in 0..Len(s) /\ l \in Nat /\ k \in Nat /\ k <= l /\ l <= Len(s)
      /\ k \in 0..Len(s) /\ <<>> \in Seq(Sample)
  BY GivenTyped, LenProperties, EmptySeq
<1>2. /\ Came(g, i, k) = Process(m, <<>>, a).out /\ Holds(g, i, k) = Process(m, <<>>, a).held
      /\ Came(g, i, l) = Process(m, <<>>, SubSeq(s, 1, l)).out
      /\ Holds(g, i, l) = Process(m, <<>>, SubSeq(s, 1, l)).held
  BY DEF Came, Holds
<1>3. r = Process(m, Holds(g, i, k), b)
  OBVIOUS
<1> HIDE DEF s, m
<1>4. a \in Seq(Sample) /\ b \in Seq(Sample) /\ a \o b = SubSeq(s, 1, l)
  <2>1. a \in Seq(Sample)
    BY <1>1, CutInTwo
  <2>2. b \in Seq(Sample)
    BY <1>1, PieceHas
  <2>3. SubSeq(s, 1, k) \o SubSeq(s, k + 1, l) = SubSeq(s, 1, l)
    BY <1>1, Beginnings
  <2> QED BY <2>1, <2>2, <2>3
<1> HIDE DEF a, b
<1>5. ASSUME NEW n \in Seq(Sample), n = <<>>
      PROVE  /\ Process(m, Process(m, n, a).held, b) \in Run
             /\ Process(m, n, a \o b)
                  = [out |-> Process(m, n, a).out \o Process(m, Process(m, n, a).held, b).out,
                     held |-> Process(m, Process(m, n, a).held, b).held]
  <2> HIDE <1>5
  <2> QED BY <1>4, ProcessJoined, ZenonT(60)
<1>6. /\ r \in Run
      /\ Process(m, <<>>, a \o b) = [out |-> Process(m, <<>>, a).out \o r.out, held |-> r.held]
  BY <1>1, <1>2, <1>3, <1>5
<1>7. /\ Process(m, <<>>, a \o b).out = Process(m, <<>>, a).out \o r.out
      /\ Process(m, <<>>, a \o b).held = r.held
  BY <1>6, FieldsOf, Zenon
<1> QED BY <1>2, <1>4, <1>6, <1>7

LEMMA PrefixTyped ==
  ASSUME NEW h \in Seq(Sample)
  PROVE  Prefix(h, Keep) \in Seq(Sample)
<1> DEFINE n == IF Keep < Len(h) THEN Keep ELSE Len(h)
<1>1. Len(h) \in Nat /\ Keep \in Nat
  BY LenProperties, KeepIs
<1>2. n \in 0..Len(h)
  BY <1>1
<1> HIDE DEF n
<1>3. SubSeq(h, 1, n) \in Seq(Sample)
  BY <1>2, CutInTwo
<1> QED BY <1>3 DEF Prefix, n

LEMMA NothingIs ==
  ASSUME NEW mode
  PROVE  AtClose(mode, NewShaper) = <<>> /\ AtEnd(mode, NewShaper) = <<>>
<1>1. <<>> \in Seq(Sample) /\ Len(<<>>) = 0 /\ <<>> \o <<>> = <<>> /\ SubSeq(<<>>, 1, 0) = <<>>
  BY EmptySeq, ConcatEmptySeq, SubSeqEmpty
<1>2. NewShaper.held = <<>> /\ NewShaper.block = <<>>
  BY DEF NewShaper
<1>3. Process(mode, <<>>, <<>>) = [out |-> <<>>, held |-> <<>>]
  BY <1>1, ProcessTyped
<1>4. Process(mode, <<>>, <<>>).out = <<>> /\ Process(mode, <<>>, <<>>).held = <<>>
  BY <1>3
<1>5. Prefix(<<>>, Keep) = <<>>
  <2>1. (IF Keep < Len(<<>>) THEN Keep ELSE Len(<<>>)) = 0
    BY <1>1, KeepIs
  <2> QED BY <1>1, <2>1 DEF Prefix
<1>6. AtClose(mode, NewShaper) = <<>>
  BY <1>1, <1>2, <1>4, <1>5 DEF AtClose
<1>7. AtEnd(mode, NewShaper) = <<>>
  BY <1>1, <1>2, <1>4, <1>5 DEF AtEnd
<1> QED BY <1>6, <1>7

\* What the shaper has of a segment of which l samples have come and k are processed.
ShaperOf(g, i, k, l) == [held |-> Holds(g, i, k), block |-> SubSeq(Given(g, i, 1), k + 1, l)]

\* Of l samples of a segment that have come, k are processed.
Within(g, i, k, l) ==
  i \in 1..Len(g.segs) /\ l \in 0..Len(Given(g, i, 1)) /\ k \in 0..l /\ (IsNone(g.mode) => k = l)

\* The end of a segment, or of the text, gives what is missing: atClose or atEnd.
FlushedTo(g, i, k, l, atClose, atEnd) ==
  /\ atClose \in Seq(Sample) /\ atEnd \in Seq(Sample)
  /\ IsPrefix(Came(g, i, k) \o atClose, SoundOf(g, i))
  /\ l = Len(Given(g, i, 1)) /\ i = Len(g.segs) => Came(g, i, k) \o atClose = SoundOf(g, i)
  /\ l = Len(Given(g, i, 1)) /\ i # Len(g.segs) => Came(g, i, k) \o atEnd = SoundOf(g, i)

LEMMA FlushIs ==
  ASSUME NEW g \in TextType, NEW i, NEW k, NEW l, Within(g, i, k, l)
  PROVE  FlushedTo(g, i, k, l, AtClose(g.mode, ShaperOf(g, i, k, l)), AtEnd(g.mode, ShaperOf(g, i, k, l)))
<1> DEFINE shaper == ShaperOf(g, i, k, l)
<1>0. i \in 1..Len(g.segs) /\ l \in 0..Len(Given(g, i, 1)) /\ k \in 0..l /\ (IsNone(g.mode) => k = l)
  BY DEF Within
<1> USE <1>0
<1> SUFFICES
      /\ AtClose(g.mode, shaper) \in Seq(Sample) /\ AtEnd(g.mode, shaper) \in Seq(Sample)
      /\ IsPrefix(Came(g, i, k) \o AtClose(g.mode, shaper), SoundOf(g, i))
      /\ l = Len(Given(g, i, 1)) /\ i = Len(g.segs) =>
           Came(g, i, k) \o AtClose(g.mode, shaper) = SoundOf(g, i)
      /\ l = Len(Given(g, i, 1)) /\ i # Len(g.segs) =>
           Came(g, i, k) \o AtEnd(g.mode, shaper) = SoundOf(g, i)
  BY DEF FlushedTo
<1> DEFINE s == Given(g, i, 1)
           m == g.mode
           c == Came(g, i, k)
<1>1. s \in Seq(Sample) /\ Len(s) \in Nat /\ l \in Nat /\ k \in Nat /\ k <= l /\ l <= Len(s)
      /\ k \in 0..Len(s) /\ <<>> \in Seq(Sample) /\ SubSeq(s, 1, Len(s)) = s
      /\ (IsAll(m) \/ IsEnd(m) \/ IsNone(m))
  BY GivenTyped, LenProperties, EmptySeq, SubSeqFull, TextParts
<1>2. c \in Seq(Sample) /\ IsPrefix(c, SoundOf(g, i))
      /\ (IsNone(m) => SoundOf(g, i) = s /\ c = SubSeq(s, 1, k))
  BY <1>1, CameIs
<1>3. CASE IsNone(m)
  <2>1. shaper = NewShaper
    <3>1. Holds(g, i, k) = <<>> /\ SubSeq(s, k + 1, l) = <<>>
      BY <1>1, <1>3, NoPiece DEF Holds
    <3> QED BY <3>1 DEF ShaperOf, NewShaper
  <2>2. AtClose(m, shaper) = <<>> /\ AtEnd(m, shaper) = <<>>
    BY <2>1, NothingIs
  <2>3. c \o <<>> = c
    BY <1>2, ConcatEmptySeq
  <2> HIDE DEF s, m, c
  <2> QED BY <1>1, <1>2, <1>3, <2>2, <2>3 DEF s, m, c
<1>4. CASE ~IsNone(m)
  <2> DEFINE r == Process(m, Holds(g, i, k), SubSeq(s, k + 1, l))
             cl == Came(g, i, l)
             hl == Holds(g, i, l)
             p == Prefix(hl, Keep)
             o == r.out
  <2>1. r \in Run /\ cl = c \o r.out /\ hl = r.held
    BY <1>4, FeedIs
  <2>2. /\ cl \in Seq(Sample) /\ hl \in Seq(Sample)
        /\ IsPrefix(cl \o p, SoundOf(g, i))
        /\ l = Len(s) /\ (IsAll(m) \/ i = Len(g.segs)) => cl \o p = SoundOf(g, i)
        /\ l = Len(s) /\ IsEnd(m) /\ i # Len(g.segs) => cl \o hl = SoundOf(g, i)
    BY <1>4, GivenThenHeld
  <2>3. shaper.held = Holds(g, i, k) /\ shaper.block = SubSeq(s, k + 1, l)
    BY DEF ShaperOf
  <2>4. AtClose(m, shaper) = r.out \o Prefix(r.held, Keep)
    BY <2>3 DEF AtClose
  <2>5. AtEnd(m, shaper) = r.out \o (IF IsAll(m) THEN Prefix(r.held, Keep) ELSE r.held)
    BY <2>3 DEF AtEnd
  <2>6. r.out \in Seq(Sample)
    BY <2>1 DEF Run
  <2> HIDE DEF s, m, c, r, cl, hl
  <2>7. p \in Seq(Sample)
    BY <2>2, PrefixTyped
  <2>8. AtClose(m, shaper) = o \o p /\ AtEnd(m, shaper) = o \o (IF IsAll(m) THEN p ELSE hl)
    BY <2>1, <2>4, <2>5
  <2>9. cl = c \o o /\ o \in Seq(Sample)
    BY <2>1, <2>6
  <2> HIDE DEF p, o
  <2>10. /\ o \o p \in Seq(Sample) /\ o \o hl \in Seq(Sample)
         /\ c \o (o \o p) = cl \o p /\ c \o (o \o hl) = cl \o hl
    <3>1. c \in Seq(Sample) /\ o \in Seq(Sample) /\ p \in Seq(Sample) /\ hl \in Seq(Sample)
      BY <1>2, <2>2, <2>7, <2>9
    <3>2. o \o p \in Seq(Sample) /\ o \o hl \in Seq(Sample)
      BY <3>1, ConcatProperties
    <3>3. c \o (o \o p) = (c \o o) \o p /\ c \o (o \o hl) = (c \o o) \o hl
      BY <3>1, Associates, ZenonT(60)
    <3> QED BY <2>9, <3>2, <3>3
  <2>11. ~(IsAll(m) /\ IsEnd(m))
    BY DEF IsAll, IsEnd
  <2>12. CASE IsAll(m)
    BY <2>2, <2>8, <2>10, <2>11, <2>12 DEF s, m, c
  <2>13. CASE IsEnd(m)
    BY <2>2, <2>8, <2>10, <2>11, <2>13 DEF s, m, c
  <2> QED BY <1>1, <1>4, <2>12, <2>13
<1> QED BY <1>3, <1>4

LEMMA WholeBlocks ==
  ASSUME NEW n \in Nat
  PROVE  n - (n % Block) \in 0..n
<1>1. Block \in Nat \ {0}
  BY SizesAreNatural
<1> QED BY <1>1

\* The blocks of a packet give what more samples of the segment give: of l of them k have
\* been processed, and m have come with the packet.
Between(g, i, k, l, m) ==
  i \in 1..Len(g.segs) /\ m \in 0..Len(Given(g, i, 1)) /\ l \in 0..m /\ k \in 0..l /\ (IsNone(g.mode) => k = l)
PacketOf(g, i, l, m) == SubSeq(Given(g, i, 1), l + 1, m)
ShapedTo(g, i, k, j, m, q) ==
  /\ j \in 0..m /\ (IsNone(g.mode) => j = m)
  /\ q.out \in Seq(Sample) /\ q.shaper = ShaperOf(g, i, j, m)
  /\ Came(g, i, j) = Came(g, i, k) \o q.out

LEMMA ShapedIs ==
  ASSUME NEW g \in TextType, NEW i, NEW k, NEW l, NEW m, Between(g, i, k, l, m)
  PROVE  \E j : ShapedTo(g, i, k, j, m, Shaped(g.mode, ShaperOf(g, i, k, l), PacketOf(g, i, l, m)))
<1> DEFINE shaper == ShaperOf(g, i, k, l)
           packet == SubSeq(Given(g, i, 1), l + 1, m)
<1>0. i \in 1..Len(g.segs) /\ m \in 0..Len(Given(g, i, 1)) /\ l \in 0..m /\ k \in 0..l /\ (IsNone(g.mode) => k = l)
  BY DEF Between
<1> USE <1>0
<1> SUFFICES
      /\ Shaped(g.mode, shaper, packet).out \in Seq(Sample)
      /\ \E j \in 0..m : /\ IsNone(g.mode) => j = m
                         /\ Shaped(g.mode, shaper, packet).shaper = ShaperOf(g, i, j, m)
                         /\ Came(g, i, j) = Came(g, i, k) \o Shaped(g.mode, shaper, packet).out
  BY DEF ShapedTo, PacketOf
<1> DEFINE s == Given(g, i, 1)
           mode == g.mode
           q == Shaped(mode, shaper, packet)
<1>1. s \in Seq(Sample) /\ Len(s) \in Nat /\ m \in Nat /\ l \in Nat /\ k \in Nat /\ k <= l /\ l <= m /\ k <= m
      /\ m <= Len(s) /\ l <= Len(s) /\ m \in 0..Len(s) /\ l \in 0..Len(s) /\ k \in 0..Len(s)
  BY GivenTyped, LenProperties
<1>2. packet \in Seq(Sample)
  <2> HIDE DEF s
  <2>1. SubSeq(s, l + 1, m) \in Seq(Sample)
    BY <1>1, PieceHas
  <2> QED BY <2>1 DEF s
<1>3. CASE IsNone(mode)
  <2>1. q.out = packet /\ q.shaper = shaper
    BY <1>3 DEF Shaped, IsNone
  <2>2. k = l /\ Came(g, i, l) = SubSeq(s, 1, l) /\ Came(g, i, m) = SubSeq(s, 1, m)
        /\ Holds(g, i, l) = <<>> /\ Holds(g, i, m) = <<>>
    BY <1>3 DEF Came, Holds
  <2>3. SubSeq(s, 1, l) \o SubSeq(s, l + 1, m) = SubSeq(s, 1, m)
    <3> HIDE DEF s
    <3> QED BY <1>1, Beginnings
  <2>4. SubSeq(s, k + 1, l) = <<>> /\ SubSeq(s, m + 1, m) = <<>>
    BY <1>1, <2>2, NoPiece
  <2>5. shaper = ShaperOf(g, i, m, m)
    BY <2>2, <2>4 DEF ShaperOf
  <2>6. Came(g, i, m) = Came(g, i, k) \o q.out
    BY <2>1, <2>2, <2>3
  <2>7. m \in 0..m
    BY <1>1
  <2> HIDE DEF q
  <2> QED BY <1>2, <2>1, <2>5, <2>6, <2>7 DEF q
<1>4. CASE ~IsNone(mode)
  <2> DEFINE samples == SubSeq(s, k + 1, m)
             n == Len(samples) - (Len(samples) % Block)
             j == k + n
             r == Process(mode, Holds(g, i, k), SubSeq(s, k + 1, j))
  <2>1. shaper.held = Holds(g, i, k) /\ shaper.block = SubSeq(s, k + 1, l)
    BY DEF ShaperOf
  <2>2. SubSeq(s, k + 1, l) \o SubSeq(s, l + 1, m) = SubSeq(s, k + 1, m)
    <3> HIDE DEF s
    <3> QED BY <1>1, PiecesJoined
  <2>3. shaper.block \o packet = samples
    BY <2>1, <2>2
  <2>4. Len(samples) = m - k
    <3> HIDE DEF s
    <3> QED BY <1>1, PieceHas
  <2>5. n \in 0..m - k
    <3>1. m - k \in Nat
      BY <1>1
    <3> HIDE DEF samples
    <3> QED BY <2>4, <3>1, WholeBlocks
  <2>6. SubSeq(samples, 1, n) = SubSeq(s, k + 1, j) /\ SubSeq(samples, n + 1, Len(samples)) = SubSeq(s, j + 1, m)
    <3>1. n \in Nat /\ n <= m - k /\ m - k \in Nat /\ m - k <= m - k /\ k + (m - k) = m
      BY <1>1, <2>5
    <3> HIDE DEF s, n
    <3>2. SubSeq(samples, n + 1, m - k) = SubSeq(s, k + n + 1, k + (m - k))
      BY <1>1, <3>1, PieceOfPiece
    <3>3. ASSUME NEW z \in Nat, z <= n
          PROVE  SubSeq(samples, z + 1, n) = SubSeq(s, k + z + 1, k + n)
      BY <1>1, <3>1, <3>3, PieceOfPiece
    <3>4. SubSeq(samples, 0 + 1, n) = SubSeq(s, k + 0 + 1, k + n)
      BY <3>1, <3>3
    <3>5. 0 + 1 = 1 /\ k + 0 + 1 = k + 1
      BY <1>1
    <3> QED BY <2>4, <3>1, <3>2, <3>4, <3>5
  <2>7. q.out = r.out /\ q.shaper = [held |-> r.held, block |-> SubSeq(s, j + 1, m)]
    <3> DEFINE x == shaper.block \o packet
               y == Len(x) - (Len(x) % Block)
               run == Process(mode, shaper.held, SubSeq(x, 1, y))
    <3>1. q = [out |-> run.out, shaper |-> [held |-> run.held, block |-> SubSeq(x, y + 1, Len(x))]]
      BY <1>4 DEF Shaped, IsNone
    <3>2. x = samples /\ y = n
      BY <2>3
    <3> HIDE DEF x, y, n, samples, s
    <3>3. run = r
      BY <2>1, <2>6, <3>2
    <3>4. SubSeq(x, y + 1, Len(x)) = SubSeq(s, j + 1, m)
      BY <2>6, <3>2
    <3> HIDE DEF run, r, q
    <3>5. q.out = run.out /\ q.shaper = [held |-> run.held, block |-> SubSeq(x, y + 1, Len(x))]
      BY <3>1
    <3> QED BY <3>3, <3>4, <3>5
  <2>8. j \in 0..m /\ k \in 0..j /\ j \in 0..Len(s)
    BY <1>1, <2>5
  <2> HIDE DEF n, j
  <2>9. r \in Run /\ Came(g, i, j) = Came(g, i, k) \o r.out /\ Holds(g, i, j) = r.held
    BY <1>4, <2>8, FeedIs
  <2>10. r.out \in Seq(Sample)
    BY <2>9 DEF Run
  <2> HIDE DEF r, q, s
  <2>11. q.shaper = ShaperOf(g, i, j, m)
    BY <2>7, <2>9 DEF ShaperOf, s
  <2>12. q.out \in Seq(Sample) /\ Came(g, i, j) = Came(g, i, k) \o q.out
    BY <2>7, <2>9, <2>10
  <2> QED BY <1>4, <2>8, <2>11, <2>12 DEF q
<1> QED BY <1>3, <1>4

-----------------------------------------------------------------------------
(* The cache                                                                 *)

\* An entry taken out of the cache.
LEMMA RemovedIs ==
  ASSUME NEW s \in Seq(CacheEntry), NEW n \in 1..Len(s)
  PROVE  /\ RemoveAt(s, n) \in Seq(CacheEntry) /\ Len(RemoveAt(s, n)) = Len(s) - 1
         /\ Size(s) \in Nat /\ Size(RemoveAt(s, n)) = Size(s) - Len(s[n].audio)
         /\ \A m \in 1..Len(s) - 1 : RemoveAt(s, n)[m] = s[IF m < n THEN m ELSE m + 1]
<1> DEFINE a == SubSeq(s, 1, n - 1)
           b == SubSeq(s, n + 1, Len(s))
           e == s[n]
<1>1. Len(s) \in Nat /\ n \in Nat /\ n - 1 \in 0..Len(s) /\ n \in 0..Len(s) /\ n - 1 \in Nat /\ n <= Len(s)
      /\ (n - 1) + 1 = n /\ 0 + 1 = 1
  BY LenProperties
<1>2. a \in Seq(CacheEntry) /\ Len(a) = n - 1 /\ \A i \in 1..n - 1 : a[i] = s[i]
  BY <1>1, CutInTwo
<1>3. b \in Seq(CacheEntry) /\ Len(b) = Len(s) - n /\ \A i \in 1..Len(s) - n : b[i] = s[n + i]
  BY <1>1, CutInTwo
<1>4. e \in CacheEntry
  BY <1>1, ElementOfSeq
<1>5. Append(a, e) \o b = s
  <2>1. SubSeq(s, 1, n) \o b = s
    BY <1>1, CutInTwo
  <2>2. ASSUME NEW z \in Nat, z < n
        PROVE  Append(SubSeq(s, z + 1, n - 1), s[n]) = SubSeq(s, z + 1, n)
    BY <1>1, <2>2, PieceAppend
  <2>3. Append(SubSeq(s, 0 + 1, n - 1), s[n]) = SubSeq(s, 0 + 1, n)
    BY <1>1, <2>2
  <2> QED BY <1>1, <2>1, <2>3
<1>6. RemoveAt(s, n) = a \o b
  BY DEF RemoveAt
<1> HIDE DEF a, b, e
<1>7. a \o b \in Seq(CacheEntry) /\ Len(a \o b) = Len(s) - 1
      /\ \A i \in 1..Len(s) - 1 : (a \o b)[i] = IF i < n THEN a[i] ELSE b[i - (n - 1)]
  <2>1. /\ a \o b \in Seq(CacheEntry) /\ Len(a \o b) = Len(a) + Len(b)
        /\ \A i \in 1..Len(a) + Len(b) : (a \o b)[i] = IF i <= Len(a) THEN a[i] ELSE b[i - Len(a)]
    BY <1>2, <1>3, ConcatProperties
  <2>2. Len(a) + Len(b) = Len(s) - 1
    BY <1>1, <1>2, <1>3
  <2>3. ASSUME NEW i \in 1..Len(s) - 1
        PROVE  (a \o b)[i] = IF i < n THEN a[i] ELSE b[i - (n - 1)]
    BY <1>1, <1>2, <2>1, <2>2
  <2> QED BY <2>1, <2>2, <2>3
<1>8. Size(a \o b) = Size(s) - Len(e.audio) /\ Size(s) \in Nat
  <2>1. Append(a, e) \in Seq(CacheEntry) /\ Size(a) \in Nat /\ Size(Append(a, e)) = Size(a) + Len(e.audio)
    BY <1>2, <1>4, AppendProperties, SizeAppend
  <2>2. Size(a \o b) = Size(a) + Size(b) /\ Size(b) \in Nat
    BY <1>2, <1>3, SizeJoined
  <2>3. Size(Append(a, e) \o b) = Size(Append(a, e)) + Size(b)
    BY <1>3, <2>1, SizeJoined
  <2>4. Len(e.audio) \in Nat
    BY <1>4 DEF CacheEntry
  <2> QED BY <1>5, <2>1, <2>2, <2>3, <2>4
<1>9. ASSUME NEW m \in 1..Len(s) - 1
      PROVE  (a \o b)[m] = s[IF m < n THEN m ELSE m + 1]
  <2>1. CASE m < n
    BY <1>1, <1>2, <1>7, <2>1
  <2>2. CASE ~(m < n)
    <3>1. m - (n - 1) \in 1..Len(s) - n /\ n + (m - (n - 1)) = m + 1
      BY <1>1, <2>2
    <3> QED BY <1>3, <1>7, <2>2, <3>1
  <2> QED BY <2>1, <2>2
<1> QED BY <1>6, <1>7, <1>8, <1>9 DEF e

\* What an entry is of: of a text as a whole, or of a segment of one; where a stalled
\* speech has left it, it may be the beginning only, and of the last segment.
OfText(g, key, audio, cur) ==
  /\ key = GroupKey(g) /\ IsPrefix(audio, Sound(g))
  /\ key \notin cur => audio = Sound(g)
OfSegment(g, i, key, audio, cur) ==
  /\ key = SegmentKey(g, i) /\ IsPrefix(audio, SoundOf(g, i))
  /\ key \notin cur => audio = SoundOf(g, i)
  /\ key \in cur => i = Len(g.segs)
EntryOf(key, audio, cur) ==
  \E t \in Texts :
    \/ OfText(Groups[t], key, audio, cur)
    \/ /\ SegmentsKeyed(Groups[t])
       /\ \E i \in DOMAIN Groups[t].segs : OfSegment(Groups[t], i, key, audio, cur)

\* The invariant of the cache.
Unique(s) == \A m, n \in 1..Len(s) : s[m].key = s[n].key => m = n
AllTrue(s, cur) == \A n \in 1..Len(s) : EntryOf(s[n].key, s[n].audio, cur)
CacheRight(s, size, cur) ==
  /\ s \in Seq(CacheEntry) /\ size = Size(s) /\ size <= MaxBytes /\ Len(s) <= MaxItems
  /\ Unique(s) /\ AllTrue(s, cur)

\* What a look into the cache finds.
LEMMA TextFound ==
  ASSUME NEW g \in TextType, NEW audio, NEW cur, EntryOf(GroupKey(g), audio, cur)
  PROVE  IsPrefix(audio, Sound(g)) /\ (GroupKey(g) \notin cur => audio = Sound(g))
<1>1. PICK t \in Texts :
        \/ OfText(Groups[t], GroupKey(g), audio, cur)
        \/ \E i \in DOMAIN Groups[t].segs : OfSegment(Groups[t], i, GroupKey(g), audio, cur)
  BY DEF EntryOf
<1> DEFINE h == Groups[t]
<1>2. h \in TextType
  BY TextIs
<1>3. OfText(h, GroupKey(g), audio, cur)
  BY <1>1, KeysDiffer DEF OfSegment
<1>4. Sound(g) = Sound(h)
  BY <1>2, <1>3, TextKeyTells DEF OfText
<1> QED BY <1>3, <1>4 DEF OfText

LEMMA SegmentFound ==
  ASSUME NEW g \in TextType, NEW i \in 1..Len(g.segs), SegmentsKeyed(g), NEW audio, NEW cur,
         EntryOf(SegmentKey(g, i), audio, cur)
  PROVE  /\ IsPrefix(audio, SoundOf(g, i))
         /\ SegmentKey(g, i) \notin cur => audio = SoundOf(g, i)
         /\ SegmentKey(g, i) \in cur => i = Len(g.segs)
<1>1. PICK t \in Texts :
        \/ OfText(Groups[t], SegmentKey(g, i), audio, cur)
        \/ /\ SegmentsKeyed(Groups[t])
           /\ \E j \in DOMAIN Groups[t].segs : OfSegment(Groups[t], j, SegmentKey(g, i), audio, cur)
  BY DEF EntryOf
<1> DEFINE h == Groups[t]
<1>2. h \in TextType
  BY TextIs
<1>3. SegmentsKeyed(h) /\ \E j \in DOMAIN h.segs : OfSegment(h, j, SegmentKey(g, i), audio, cur)
  BY <1>1, KeysDiffer DEF OfText
<1>4. PICK j \in DOMAIN h.segs : OfSegment(h, j, SegmentKey(g, i), audio, cur)
  BY <1>3
<1>5. j \in 1..Len(h.segs)
  BY <1>2, TextParts, LenProperties
<1>6. SegmentKey(g, i) = SegmentKey(h, j)
  BY <1>4 DEF OfSegment
<1>7. SoundOf(g, i) = SoundOf(h, j) /\ (i = Len(g.segs) <=> j = Len(h.segs))
  BY <1>2, <1>3, <1>5, <1>6, SegmentKeyTells
<1> QED BY <1>4, <1>7 DEF OfSegment

\* What is said of an entry depends on its own key only.
LEMMA EntryStays ==
  ASSUME NEW key, NEW audio, NEW cur, NEW new, EntryOf(key, audio, cur), key \in cur <=> key \in new
  PROVE  EntryOf(key, audio, new)
BY DEF EntryOf, OfText, OfSegment

LEMMA EntryIs ==
  ASSUME NEW s \in Seq(CacheEntry), NEW n \in 1..Len(s)
  PROVE  s[n] \in CacheEntry /\ s[n].key \in Keys /\ s[n].audio \in Seq(Sample)
<1>1. s[n] \in CacheEntry
  BY ElementOfSeq
<1> QED BY <1>1 DEF CacheEntry

\* An entry taken out, and another put at the end.
LEMMA OneOut ==
  ASSUME NEW s \in Seq(CacheEntry), NEW n \in 1..Len(s), Unique(s), NEW cur, AllTrue(s, cur),
         NEW new, \A k : k # s[n].key => (k \in cur <=> k \in new)
  PROVE  /\ Unique(RemoveAt(s, n)) /\ AllTrue(RemoveAt(s, n), new)
         /\ \A m \in 1..Len(RemoveAt(s, n)) : RemoveAt(s, n)[m].key # s[n].key
<1> DEFINE r == RemoveAt(s, n)
           At(m) == IF m < n THEN m ELSE m + 1
<1>1. /\ Len(s) \in Nat /\ Len(r) = Len(s) - 1
      /\ \A m \in 1..Len(s) - 1 : r[m] = s[At(m)]
  BY RemovedIs, LenProperties
<1>2. \A m \in 1..Len(s) - 1 : At(m) \in 1..Len(s) /\ At(m) # n
  BY <1>1
<1>3. \A k, m \in 1..Len(s) - 1 : At(k) = At(m) => k = m
  BY <1>1
<1> HIDE DEF r, At
<1>4. ASSUME NEW m \in 1..Len(r) PROVE r[m].key # s[n].key
  <2>1. At(m) \in 1..Len(s) /\ At(m) # n /\ r[m] = s[At(m)]
    BY <1>1, <1>2, <1>4
  <2> QED BY <2>1 DEF Unique
<1>5. Unique(r)
  BY <1>1, <1>2, <1>3 DEF Unique
<1>6. ASSUME NEW m \in 1..Len(r) PROVE EntryOf(r[m].key, r[m].audio, new)
  <2>1. At(m) \in 1..Len(s) /\ r[m] = s[At(m)]
    BY <1>1, <1>2
  <2>2. EntryOf(r[m].key, r[m].audio, cur)
    BY <2>1 DEF AllTrue
  <2> QED BY <1>4, <2>2, EntryStays
<1> QED BY <1>4, <1>5, <1>6 DEF AllTrue, r

LEMMA OneMore ==
  ASSUME NEW s \in Seq(CacheEntry), NEW e \in CacheEntry, Unique(s), NEW cur, AllTrue(s, cur),
         \A m \in 1..Len(s) : s[m].key # e.key, EntryOf(e.key, e.audio, cur)
  PROVE  /\ Append(s, e) \in Seq(CacheEntry) /\ Unique(Append(s, e)) /\ AllTrue(Append(s, e), cur)
         /\ Len(Append(s, e)) = Len(s) + 1
<1> DEFINE r == Append(s, e)
<1>1. /\ Len(s) \in Nat /\ r \in Seq(CacheEntry) /\ Len(r) = Len(s) + 1
      /\ \A m \in 1..Len(s) : r[m] = s[m]
      /\ r[Len(s) + 1] = e
  BY AppendProperties, LenProperties
<1> HIDE DEF r
<1>2. \A m \in 1..Len(r) : m \in 1..Len(s) \/ m = Len(s) + 1
  BY <1>1
<1>3. Unique(r)
  BY <1>1, <1>2 DEF Unique
<1>4. AllTrue(r, cur)
  BY <1>1, <1>2 DEF AllTrue
<1> QED BY <1>1, <1>3, <1>4 DEF r

\* The oldest entries dropped.
LEMMA OldestOut ==
  ASSUME NEW s \in Seq(CacheEntry), NEW d \in 0..Len(s), Unique(s), NEW cur, AllTrue(s, cur)
  PROVE  LET r == SubSeq(s, d + 1, Len(s)) IN
         /\ r \in Seq(CacheEntry) /\ Len(r) = Len(s) - d /\ Unique(r) /\ AllTrue(r, cur)
         /\ Size(s) \in Nat /\ Size(r) \in Nat /\ Size(r) = Size(s) - Size(SubSeq(s, 1, d))
<1> DEFINE r == SubSeq(s, d + 1, Len(s))
           a == SubSeq(s, 1, d)
<1>1. /\ Len(s) \in Nat /\ a \in Seq(CacheEntry) /\ r \in Seq(CacheEntry) /\ Len(r) = Len(s) - d
      /\ s = a \o r /\ \A i \in 1..Len(s) - d : r[i] = s[d + i]
  BY CutInTwo, LenProperties
<1> HIDE DEF a, r
<1>2. Size(a) \in Nat /\ Size(r) \in Nat /\ Size(s) = Size(a) + Size(r)
  <2>1. Size(a \o r) = Size(a) + Size(r) /\ Size(r) \in Nat
    BY <1>1, SizeJoined
  <2>2. Size(<<>> \o a) = Size(<<>>) + Size(a) /\ Size(a) \in Nat
    BY <1>1, EmptySeq, SizeJoined
  <2> QED BY <1>1, <2>1, <2>2
<1>3. \A i \in 1..Len(r) : d + i \in 1..Len(s) /\ r[i] = s[d + i]
  BY <1>1
<1>4. ASSUME NEW m \in 1..Len(r), NEW n \in 1..Len(r), r[m].key = r[n].key PROVE m = n
  <2>1. d + m = d + n
    BY <1>3, <1>4 DEF Unique
  <2> QED BY <1>1, <2>1
<1>5. AllTrue(r, cur)
  BY <1>3 DEF AllTrue
<1>6. Size(s) \in Nat /\ Size(r) = Size(s) - Size(a)
  BY <1>2
<1>7. Unique(r)
  BY <1>4 DEF Unique
<1> QED BY <1>1, <1>2, <1>5, <1>6, <1>7 DEF a, r

\* What is used is made the newest.
LEMMA UsedIs ==
  ASSUME CacheRight(cache, tally, curtailed), NEW key, NEW n \in Entries(key)
  PROVE  /\ CacheRight(Used(n), tally, curtailed)
         /\ cache[n].audio \in Seq(Sample) /\ EntryOf(key, cache[n].audio, curtailed)
<1> DEFINE r == RemoveAt(cache, n)
           e == cache[n]
<1>1. /\ cache \in Seq(CacheEntry) /\ Len(cache) \in Nat /\ DOMAIN cache = 1..Len(cache)
      /\ Unique(cache) /\ AllTrue(cache, curtailed)
      /\ tally = Size(cache) /\ tally <= MaxBytes /\ Len(cache) <= MaxItems
  BY LenProperties DEF CacheRight
<1>2. n \in 1..Len(cache) /\ e.key = key
  BY <1>1 DEF Entries
<1>3. e \in CacheEntry /\ e.audio \in Seq(Sample) /\ EntryOf(e.key, e.audio, curtailed)
  BY <1>1, <1>2, EntryIs DEF AllTrue
<1>4. /\ r \in Seq(CacheEntry) /\ Len(r) = Len(cache) - 1
      /\ Size(cache) \in Nat /\ Size(r) = Size(cache) - Len(e.audio)
  BY <1>1, <1>2, RemovedIs
<1>5. Unique(r) /\ AllTrue(r, curtailed) /\ \A m \in 1..Len(r) : r[m].key # e.key
  BY <1>1, <1>2, OneOut
<1> HIDE DEF r, e
<1>6. /\ Append(r, e) \in Seq(CacheEntry) /\ Unique(Append(r, e)) /\ AllTrue(Append(r, e), curtailed)
      /\ Len(Append(r, e)) = Len(r) + 1
  BY <1>3, <1>4, <1>5, OneMore
<1>7. Size(Append(r, e)) = Size(r) + Len(e.audio) /\ Size(r) \in Nat /\ Len(e.audio) \in Nat
  BY <1>3, <1>4, SizeAppend, LenProperties
<1>8. Size(Append(r, e)) = tally /\ Len(Append(r, e)) <= MaxItems
  BY <1>1, <1>4, <1>6, <1>7
<1>9. Used(n) = Append(r, e)
  BY DEF Used, r, e
<1> QED BY <1>1, <1>2, <1>3, <1>6, <1>8, <1>9 DEF CacheRight, e

\* What is stored replaces the entry of its key, and the bounds are kept.
LEMMA StoredIs ==
  ASSUME CacheRight(cache, tally, curtailed), NEW key \in Keys, NEW audio \in Seq(Sample),
         Len(audio) <= MaxBytes, NEW cur, EntryOf(key, audio, cur),
         \A k : k # key => (k \in curtailed <=> k \in cur),
         Stored(key, audio)
  PROVE  CacheRight(cache', tally', cur)
<1> DEFINE old == IF Entries(key) = {} THEN 0 ELSE CHOOSE n \in Entries(key) : TRUE
           e == [key |-> key, audio |-> audio]
           base == IF old = 0 THEN cache ELSE RemoveAt(cache, old)
           left == tally - (IF old = 0 THEN 0 ELSE Len(cache[old].audio))
           grown == Append(base, e)
           counted == left + Len(audio)
           Fits(n) == Len(grown) - n <= MaxItems /\ counted - Size(SubSeq(grown, 1, n)) <= MaxBytes
           dropped == CHOOSE n \in 0..Len(grown) : Fits(n) /\ \A m \in 0..n - 1 : ~Fits(m)
<1>1. /\ cache \in Seq(CacheEntry) /\ Len(cache) \in Nat /\ DOMAIN cache = 1..Len(cache)
      /\ Unique(cache) /\ AllTrue(cache, curtailed) /\ MaxItems \in Nat /\ MaxBytes \in Nat
      /\ tally = Size(cache) /\ tally <= MaxBytes /\ Len(cache) <= MaxItems
  BY LenProperties, SizesAreNatural DEF CacheRight
<1>2. /\ cache' = SubSeq(grown, dropped + 1, Len(grown))
      /\ tally' = counted - Size(SubSeq(grown, 1, dropped))
  BY DEF Stored
<1>3. e \in CacheEntry /\ e.key = key /\ e.audio = audio /\ Len(audio) \in Nat
  BY LenProperties DEF CacheEntry
<1>4. /\ base \in Seq(CacheEntry) /\ Unique(base) /\ AllTrue(base, cur)
      /\ left = Size(base) /\ \A m \in 1..Len(base) : base[m].key # key
  <2>1. CASE Entries(key) = {}
    <3>1. old = 0
      BY <2>1
    <3>2. base = cache /\ left = tally
      <4>1. tally - 0 = tally
        <5>1. Size(cache) \in Nat
          BY <1>1, <1>3, SizeAppend
        <5> QED BY <1>1, <5>1
      <4> QED BY <3>1, <4>1
    <3>3. \A m \in 1..Len(cache) : cache[m].key # key
      BY <1>1, <2>1 DEF Entries
    <3>4. ASSUME NEW m \in 1..Len(cache) PROVE EntryOf(cache[m].key, cache[m].audio, cur)
      <4>1. EntryOf(cache[m].key, cache[m].audio, curtailed)
        BY <1>1 DEF AllTrue
      <4> QED BY <3>3, <4>1, EntryStays
    <3> QED BY <1>1, <3>2, <3>3, <3>4 DEF AllTrue
  <2>2. CASE Entries(key) # {}
    <3>1. old \in Entries(key)
      BY <2>2
    <3> HIDE DEF old
    <3>2. old \in 1..Len(cache) /\ cache[old].key = key /\ old # 0
      BY <1>1, <3>1 DEF Entries
    <3>3. base = RemoveAt(cache, old) /\ left = tally - Len(cache[old].audio)
      BY <3>2
    <3>4. RemoveAt(cache, old) \in Seq(CacheEntry)
          /\ Size(RemoveAt(cache, old)) = Size(cache) - Len(cache[old].audio)
      BY <1>1, <3>2, RemovedIs
    <3>5. /\ Unique(RemoveAt(cache, old)) /\ AllTrue(RemoveAt(cache, old), cur)
          /\ \A m \in 1..Len(RemoveAt(cache, old)) : RemoveAt(cache, old)[m].key # cache[old].key
      BY <1>1, <3>2, OneOut
    <3> QED BY <1>1, <3>2, <3>3, <3>4, <3>5
  <2> QED BY <2>1, <2>2
<1> HIDE DEF old, base, left
<1>5. /\ grown \in Seq(CacheEntry) /\ Unique(grown) /\ AllTrue(grown, cur)
  BY <1>3, <1>4, OneMore
<1>6. counted = Size(grown)
  BY <1>3, <1>4, SizeAppend
<1> HIDE DEF grown, e, counted
<1>7. Len(grown) \in Nat /\ Len(grown) \in 0..Len(grown)
  BY <1>5, LenProperties
<1>8. \E n \in 0..Len(grown) : Fits(n) /\ \A m \in 0..n - 1 : ~Fits(m)
  <2> DEFINE P == {n \in 0..Len(grown) : Fits(n)}
  <2>1. Fits(Len(grown))
    <3>1. SubSeq(grown, 1, Len(grown)) = grown
      BY <1>5, SubSeqFull
    <3>2. Size(grown) \in Nat
      BY <1>3, <1>5, SizeAppend
    <3>3. counted - Size(SubSeq(grown, 1, Len(grown))) = 0 /\ Len(grown) - Len(grown) = 0
      <4>1. \A x \in Nat : x - x = 0
        OBVIOUS
      <4> QED BY <1>6, <1>7, <3>1, <3>2, <4>1
    <3>4. 0 <= MaxItems /\ 0 <= MaxBytes
      BY <1>1
    <3> QED BY <3>3, <3>4
  <2>2. Len(grown) \in P
    BY <1>7, <2>1
  <2>3. \E n \in 0..Len(grown) : n \in P /\ \A m \in 0..n - 1 : m \notin P
    <3> HIDE DEF P
    <3> QED BY <1>7, <2>2, Least
  <2>4. PICK n \in 0..Len(grown) : n \in P /\ \A m \in 0..n - 1 : m \notin P
    BY <2>3
  <2>5. \A m \in 0..n - 1 : m \in 0..Len(grown)
    BY <1>7
  <2> QED BY <2>4, <2>5
<1>9. dropped \in 0..Len(grown) /\ Fits(dropped)
  BY <1>8
<1> HIDE DEF dropped
<1>10. LET r == SubSeq(grown, dropped + 1, Len(grown)) IN
         /\ r \in Seq(CacheEntry) /\ Len(r) = Len(grown) - dropped /\ Unique(r) /\ AllTrue(r, cur)
         /\ Size(grown) \in Nat /\ Size(r) \in Nat /\ Size(r) = Size(grown) - Size(SubSeq(grown, 1, dropped))
  BY <1>5, <1>9, OldestOut
<1> QED BY <1>2, <1>6, <1>9, <1>10 DEF CacheRight

-----------------------------------------------------------------------------
(* The worker's call                                                         *)

ShaperType == [held : Seq(Sample), block : Seq(Sample)]
LeadType == [open : BOOLEAN, kept : Seq(Sample)]
CallType ==
  [pending : Seq(Nat), base : Nat, deferred : Nat, hits : Nat, prefix : Seq(Sample), at : Nat,
   live : Nat, given : Nat, shaper : ShaperType, lead : LeadType, parts : Seq(Sample),
   segment : Seq(Sample), completed : Seq(Seq(Sample)), done : BOOLEAN, ends : Nat,
   short : BOOLEAN, heard : Seq(Sample), reached : Seq(Nat),
   end : {"none", "spoken", "cancelled", "failed", "cut"}]

\* What does not change when an index is told.
SameSound(c, d) ==
  /\ d.base = c.base /\ d.hits = c.hits /\ d.prefix = c.prefix /\ d.at = c.at /\ d.live = c.live
  /\ d.given = c.given /\ d.shaper = c.shaper /\ d.lead = c.lead /\ d.parts = c.parts
  /\ d.segment = c.segment /\ d.completed = c.completed /\ d.done = c.done /\ d.ends = c.ends
  /\ d.short = c.short /\ d.heard = c.heard /\ d.end = c.end

\* The indexes that are told and those that are left are the same, in order.
SameMarks(c, d) == d.reached \o d.pending = c.reached \o c.pending

LEMMA NotifiedIs ==
  ASSUME NEW c \in CallType, NEW offset
  PROVE  /\ Notified(c, offset) \in CallType /\ SameSound(c, Notified(c, offset))
         /\ SameMarks(c, Notified(c, offset)) /\ Notified(c, offset).deferred = c.deferred
<1> DEFINE p == c.pending
           IsDue(n) == p[n] <= c.base + offset
           last == CHOOSE n \in 0..Len(p) : (\A m \in 1..n : IsDue(m)) /\ (n < Len(p) => ~IsDue(n + 1))
           d == [c EXCEPT !.reached = @ \o SubSeq(p, 1, last), !.pending = SubSeq(@, last + 1, Len(@))]
<1>1. CASE halted
  BY <1>1 DEF Notified, SameSound, SameMarks
<1>2. CASE ~halted
  <2>1. p \in Seq(Nat) /\ Len(p) \in Nat /\ c.reached \in Seq(Nat)
    BY LenProperties DEF CallType
  <2>2. \E n \in 0..Len(p) : (\A m \in 1..n : IsDue(m)) /\ (n < Len(p) => ~IsDue(n + 1))
    <3> DEFINE P == {n \in 0..Len(p) : n < Len(p) => ~IsDue(n + 1)}
    <3>1. Len(p) \in P
      BY <2>1
    <3>2. \E n \in 0..Len(p) : n \in P /\ \A m \in 0..n - 1 : m \notin P
      <4> HIDE DEF P
      <4> QED BY <2>1, <3>1, Least
    <3>3. PICK n \in 0..Len(p) : n \in P /\ \A m \in 0..n - 1 : m \notin P
      BY <3>2
    <3>4. ASSUME NEW m \in 1..n PROVE IsDue(m)
      <4>1. m - 1 \in 0..n - 1 /\ m - 1 \in 0..Len(p) /\ (m - 1) + 1 = m
        BY <2>1
      <4>2. m - 1 \notin P
        BY <3>3, <4>1
      <4> HIDE DEF IsDue
      <4> QED BY <4>1, <4>2
    <3> HIDE DEF IsDue
    <3> QED BY <3>3, <3>4
  <2>3. last \in 0..Len(p)
    <3> HIDE DEF IsDue
    <3> QED BY <2>2
  <2>4. Notified(c, offset) = d
    BY <1>2 DEF Notified
  <2> HIDE DEF last
  <2> DEFINE a == SubSeq(p, 1, last)
             b == SubSeq(p, last + 1, Len(p))
  <2>5. a \in Seq(Nat) /\ b \in Seq(Nat) /\ p = a \o b
    BY <2>1, <2>3, CutInTwo
  <2>6. (c.reached \o a) \in Seq(Nat) /\ (c.reached \o a) \o b = c.reached \o (a \o b)
    <3>1. c.reached \in Seq(Sample) /\ a \in Seq(Sample) /\ b \in Seq(Sample)
      BY <2>1, <2>5 DEF Sample
    <3> HIDE DEF a, b, p
    <3>2. (c.reached \o a) \in Seq(Sample)
      BY <3>1, ConcatProperties
    <3> QED BY <3>1, <3>2, Associates, ZenonT(30) DEF Sample
  <2>7. d = [c EXCEPT !.reached = c.reached \o a, !.pending = b]
    OBVIOUS
  <2> HIDE DEF a, b, d
  <2>8. d.reached = c.reached \o a /\ d.pending = b /\ d.deferred = c.deferred /\ d \in CallType
    BY <2>5, <2>6, <2>7 DEF CallType
  <2>9. SameSound(c, d)
    BY <2>7 DEF CallType, SameSound
  <2>10. SameMarks(c, d)
    BY <2>5, <2>6, <2>8 DEF SameMarks
  <2> QED BY <2>4, <2>8, <2>9, <2>10
<1> QED BY <1>1, <1>2

LEMMA HeadMoves ==
  ASSUME NEW r \in Seq(Nat), NEW s \in Seq(Nat), s # <<>>
  PROVE  Append(r, Head(s)) \o Tail(s) = r \o s
<1> DEFINE h == Head(s)
           t == Tail(s)
           x == Append(r, h)
<1>1. /\ h \in Nat /\ t \in Seq(Nat) /\ Len(t) = Len(s) - 1 /\ Len(s) \in Nat /\ Len(s) # 0
      /\ \A i \in 1..Len(t) : t[i] = s[i + 1]
  BY HeadTailProperties, EmptySeq, LenProperties
<1>2. h = s[1]
  OBVIOUS
<1> HIDE DEF h, t
<1>3. /\ x \in Seq(Nat) /\ Len(x) = Len(r) + 1 /\ Len(r) \in Nat
      /\ \A i \in 1..Len(r) : x[i] = r[i]
      /\ x[Len(r) + 1] = h
  BY <1>1, AppendProperties, LenProperties
<1> HIDE DEF x
<1>4. /\ x \o t \in Seq(Nat) /\ Len(x \o t) = Len(x) + Len(t)
      /\ \A i \in 1..Len(x) + Len(t) : (x \o t)[i] = IF i <= Len(x) THEN x[i] ELSE t[i - Len(x)]
  BY <1>1, <1>3, ConcatProperties
<1>5. /\ r \o s \in Seq(Nat) /\ Len(r \o s) = Len(r) + Len(s)
      /\ \A i \in 1..Len(r) + Len(s) : (r \o s)[i] = IF i <= Len(r) THEN r[i] ELSE s[i - Len(r)]
  BY ConcatProperties
<1>6. Len(x) + Len(t) = Len(r) + Len(s)
  BY <1>1, <1>3
<1>7. ASSUME NEW i \in 1..Len(r) + Len(s) PROVE (x \o t)[i] = (r \o s)[i]
  <2>1. CASE i <= Len(r)
    BY <1>1, <1>3, <1>4, <1>5, <1>6, <2>1
  <2>2. CASE i = Len(r) + 1
    <3>1. (x \o t)[i] = h
      BY <1>3, <1>4, <1>6, <2>2
    <3>2. (r \o s)[i] = s[i - Len(r)] /\ i - Len(r) = 1
      BY <1>3, <1>5, <2>2
    <3> QED BY <1>2, <3>1, <3>2
  <2>3. CASE i > Len(r) + 1
    <3>1. i \in Nat /\ i - Len(x) \in 1..Len(t) /\ (i - Len(x)) + 1 = i - Len(r) /\ ~(i <= Len(x)) /\ ~(i <= Len(r))
      BY <1>1, <1>3, <2>3, SMTT(60)
    <3>2. ASSUME NEW j \in 1..Len(t), NEW k, j = i - Len(x), k = i - Len(r), j + 1 = k
          PROVE  (x \o t)[i] = (r \o s)[i]
      <4>1. (x \o t)[i] = t[j] /\ (r \o s)[i] = s[k]
        BY <1>4, <1>5, <1>6, <3>1, <3>2
      <4>2. t[j] = s[k]
        BY <1>1, <3>2
      <4> QED BY <4>1, <4>2
    <3> QED BY <3>1, <3>2
  <2>4. i <= Len(r) \/ i = Len(r) + 1 \/ i > Len(r) + 1
    BY <1>1, <1>3
  <2> QED BY <2>1, <2>2, <2>3, <2>4
<1> DEFINE u == x \o t
           v == r \o s
<1>8. u \in Seq(Nat) /\ v \in Seq(Nat) /\ Len(u) = Len(v) /\ \A i \in 1..Len(u) : u[i] = v[i]
  BY <1>4, <1>5, <1>6, <1>7
<1> HIDE DEF u, v
<1>9. u = v
  BY <1>8, SeqEqual
<1> QED BY <1>9 DEF u, v, x, h, t

LEMMA ToldIs ==
  ASSUME NEW c \in CallType, c.pending # <<>>
  PROVE  Told(c) \in CallType /\ SameSound(c, Told(c)) /\ SameMarks(c, Told(c))
<1> DEFINE a == Append(c.reached, Head(c.pending))
           b == Tail(c.pending)
           d == [c EXCEPT !.reached = a, !.pending = b]
<1>1. c.pending \in Seq(Nat) /\ c.reached \in Seq(Nat)
  BY DEF CallType
<1>2. b \in Seq(Nat) /\ a \in Seq(Nat) /\ a \o b = c.reached \o c.pending
  BY <1>1, HeadTailProperties, AppendProperties, HeadMoves
<1>3. Told(c) = d
  BY DEF Told
<1>4. d = [c EXCEPT !.reached = a, !.pending = b]
  OBVIOUS
<1> HIDE DEF a, b, d
<1>5. d.reached = a /\ d.pending = b /\ d \in CallType
  BY <1>2, <1>4 DEF CallType
<1>6. SameSound(c, d)
  BY <1>4 DEF CallType, SameSound
<1> QED BY <1>2, <1>3, <1>5, <1>6 DEF SameMarks

LEMMA MarkedIs ==
  ASSUME NEW c \in CallType, NEW offset \in Nat
  PROVE  Marked(c, offset) \in CallType /\ SameSound(c, Marked(c, offset)) /\ SameMarks(c, Marked(c, offset))
<1>1. CASE ~paused
  BY <1>1, NotifiedIs DEF Marked
<1>2. CASE paused
  <2> DEFINE o == IF offset > c.deferred THEN offset ELSE c.deferred
             d == [c EXCEPT !.deferred = o]
  <2>1. o \in Nat /\ Marked(c, offset) = d
    BY <1>2 DEF Marked, CallType
  <2> HIDE DEF o
  <2>2. d \in CallType
    BY <2>1 DEF CallType
  <2>3. SameSound(c, d) /\ SameMarks(c, d)
    BY DEF CallType, SameSound, SameMarks
  <2> QED BY <2>1, <2>2, <2>3
<1> QED BY <1>1, <1>2

LEMMA UndeferredIs ==
  ASSUME NEW c \in CallType
  PROVE  Undeferred(c) \in CallType /\ SameSound(c, Undeferred(c)) /\ SameMarks(c, Undeferred(c))
<1>1. CASE c.deferred = 0 \/ paused
  BY <1>1 DEF Undeferred, SameSound, SameMarks
<1>2. CASE ~(c.deferred = 0 \/ paused)
  <2> DEFINE n == Notified(c, c.deferred)
             d == [n EXCEPT !.deferred = 0]
  <2>1. n \in CallType /\ SameSound(c, n) /\ SameMarks(c, n)
    BY NotifiedIs
  <2>2. Undeferred(c) = d
    BY <1>2 DEF Undeferred
  <2>3. d = [n EXCEPT !.deferred = 0]
    OBVIOUS
  <2> HIDE DEF n, d
  <2>4. d \in CallType
    BY <2>1, <2>3 DEF CallType
  <2>5. SameSound(n, d) /\ SameMarks(n, d)
    BY <2>1, <2>3 DEF CallType, SameSound, SameMarks
  <2>6. SameSound(c, d) /\ SameMarks(c, d)
    BY <2>1, <2>5 DEF SameSound, SameMarks
  <2> QED BY <2>2, <2>4, <2>6
<1> QED BY <1>1, <1>2

\* What a packet changes: the sound played and held, and the notes of it.
SamePlace(c, d) ==
  /\ d.base = c.base /\ d.hits = c.hits /\ d.prefix = c.prefix /\ d.at = c.at /\ d.live = c.live
  /\ d.given = c.given /\ d.shaper = c.shaper /\ d.completed = c.completed /\ d.done = c.done
  /\ d.ends = c.ends /\ d.short = c.short /\ d.end = c.end

\* What was played and what waits to be.
Total(c) == c.heard \o c.lead.kept
LeadRight(c) == c.lead.open => c.lead.kept = <<>>

LEMMA LedIs ==
  ASSUME NEW c \in CallType, LeadRight(c), NEW sound \in Seq(Sample), NEW led, led = LeadFeed(c.lead, sound)
  PROVE  /\ led.out \in Seq(Sample) /\ led.lead \in LeadType /\ (led.lead.open => led.lead.kept = <<>>)
         /\ led.out \o led.lead.kept = c.lead.kept \o sound
<1> DEFINE k == c.lead.kept
<1>1. c.lead \in LeadType /\ k \in Seq(Sample) /\ <<>> \in Seq(Sample) /\ c.lead.open \in BOOLEAN
  BY EmptySeq DEF CallType, LeadType
<1>2. /\ k \o sound \in Seq(Sample) /\ sound \o <<>> = sound /\ <<>> \o sound = sound
      /\ (k \o sound) \o <<>> = k \o sound /\ <<>> \o (k \o sound) = k \o sound
  BY <1>1, ConcatProperties, ConcatEmptySeq
<1>3. CASE c.lead.open
  <2>1. led.out = sound /\ led.lead = c.lead /\ k = <<>>
    BY <1>3 DEF LeadFeed, LeadRight
  <2> QED BY <1>1, <1>2, <2>1
<1>4. CASE ~c.lead.open /\ Len(k \o sound) < Lead
  <2>1. led.out = <<>> /\ led.lead = [c.lead EXCEPT !.kept = k \o sound]
    BY <1>4 DEF LeadFeed
  <2>2. led.lead \in LeadType /\ led.lead.kept = k \o sound /\ led.lead.open = c.lead.open
    BY <1>1, <1>2, <2>1 DEF LeadType
  <2> QED BY <1>1, <1>2, <1>4, <2>1, <2>2
<1>5. CASE ~c.lead.open /\ ~(Len(k \o sound) < Lead)
  <2>1. led.out = k \o sound /\ led.lead = [open |-> TRUE, kept |-> <<>>]
    BY <1>5 DEF LeadFeed
  <2>2. led.lead \in LeadType /\ led.lead.kept = <<>>
    BY <1>1, <2>1 DEF LeadType
  <2> QED BY <1>2, <2>1, <2>2
<1> QED BY <1>3, <1>4, <1>5

LEMMA FedIs ==
  ASSUME NEW c \in CallType, LeadRight(c), NEW sound \in Seq(Sample), NEW d, d = Fed(c, sound)
  PROVE  /\ d \in CallType /\ LeadRight(d) /\ SamePlace(c, d) /\ SameMarks(c, d)
         /\ d.parts = (IF GroupKeyed(G) THEN c.parts \o sound ELSE c.parts)
         /\ d.segment = (IF SegmentsKeyed(G) THEN c.segment \o sound ELSE c.segment)
         /\ halted => d.heard = c.heard
         /\ ~halted => Total(d) = Total(c) \o sound
<1> DEFINE p == IF GroupKeyed(G) THEN c.parts \o sound ELSE c.parts
           s == IF SegmentsKeyed(G) THEN c.segment \o sound ELSE c.segment
           noted == [c EXCEPT !.parts = p, !.segment = s]
           led == LeadFeed(c.lead, sound)
           h == c.heard \o led.out
           fed == [noted EXCEPT !.lead = led.lead, !.heard = h]
<1>1. /\ c.parts \in Seq(Sample) /\ c.segment \in Seq(Sample) /\ c.heard \in Seq(Sample)
      /\ c.lead \in LeadType /\ c.lead.kept \in Seq(Sample)
  BY DEF CallType, LeadType
<1>2. p \in Seq(Sample) /\ s \in Seq(Sample) /\ Total(c) \in Seq(Sample)
  BY <1>1, ConcatProperties DEF Total
<1>3. CASE sound = <<>>
  <2>1. d = c
    BY <1>3 DEF Fed
  <2>2. c.parts \o sound = c.parts /\ c.segment \o sound = c.segment /\ Total(c) \o sound = Total(c)
    BY <1>1, <1>2, <1>3, ConcatEmptySeq
  <2> QED BY <2>1, <2>2 DEF SamePlace, SameMarks
<1>4. CASE sound # <<>> /\ halted
  <2>1. d = noted
    BY <1>4 DEF Fed
  <2> HIDE DEF p, s
  <2>2. d \in CallType /\ d.parts = p /\ d.segment = s
    BY <1>2, <2>1, ZenonT(60) DEF CallType
  <2>3. SamePlace(c, d) /\ SameMarks(c, d) /\ d.heard = c.heard /\ d.lead = c.lead
    BY <2>1 DEF CallType, SamePlace, SameMarks
  <2>4. LeadRight(d)
    BY <2>3 DEF LeadRight
  <2> QED BY <1>4, <2>2, <2>3, <2>4 DEF p, s
<1>5. CASE sound # <<>> /\ ~halted
  <2>1. d = Undeferred(fed)
    BY <1>5 DEF Fed
  <2>2. /\ led.out \in Seq(Sample) /\ led.lead \in LeadType /\ (led.lead.open => led.lead.kept = <<>>)
        /\ led.out \o led.lead.kept = c.lead.kept \o sound
    BY LedIs
  <2>3. fed = [noted EXCEPT !.lead = led.lead, !.heard = h]
    OBVIOUS
  <2> HIDE DEF p, s, led, h, fed
  <2>4. h \in Seq(Sample) /\ h \o led.lead.kept = Total(c) \o sound
    <3> DEFINE a == c.heard
               b == c.lead.kept
               o == led.out
               l == led.lead.kept
    <3>1. a \in Seq(Sample) /\ b \in Seq(Sample) /\ o \in Seq(Sample) /\ l \in Seq(Sample) /\ o \o l = b \o sound
      BY <1>1, <2>2 DEF LeadType
    <3>2. h = a \o o /\ Total(c) = a \o b
      BY DEF h, Total
    <3> HIDE DEF a, b, o, l
    <3>3. (a \o o) \o l = a \o (o \o l) /\ (a \o b) \o sound = a \o (b \o sound) /\ a \o o \in Seq(Sample)
      BY <3>1, Associates, ConcatProperties, ZenonT(60)
    <3> QED BY <3>1, <3>2, <3>3 DEF l
  <2>5. fed \in CallType /\ fed.lead = led.lead /\ fed.heard = h /\ fed.parts = p /\ fed.segment = s
    BY <1>2, <2>2, <2>3, <2>4 DEF CallType
  <2>6. SamePlace(c, fed) /\ SameMarks(c, fed)
    BY <2>3 DEF CallType, SamePlace, SameMarks
  <2>7. d \in CallType /\ SameSound(fed, d) /\ SameMarks(fed, d)
    BY <2>1, <2>5, UndeferredIs
  <2>8. SamePlace(c, d) /\ SameMarks(c, d)
    BY <2>6, <2>7 DEF SamePlace, SameSound, SameMarks
  <2>9. d.lead = led.lead /\ d.heard = h /\ d.parts = p /\ d.segment = s
    BY <2>5, <2>7 DEF SameSound
  <2>10. LeadRight(d) /\ Total(d) = Total(c) \o sound
    BY <2>2, <2>4, <2>9 DEF LeadRight, Total
  <2> QED BY <1>5, <2>7, <2>8, <2>9, <2>10 DEF p, s
<1> QED BY <1>3, <1>4, <1>5

-----------------------------------------------------------------------------
(* The stages of a call c on a text g                                        *)

Untouched(c) ==
  /\ c.base = 0 /\ c.given = 0 /\ c.shaper = NewShaper /\ c.segment = <<>> /\ c.completed = <<>>
  /\ ~c.done /\ c.ends = 0

\* It has the sound of the segments that are cached; or a sound for the whole text.
Begun(g, c) ==
  /\ Untouched(c) /\ ~c.short /\ c.hits < Len(g.segs) /\ (c.hits > 0 => SegmentsKeyed(g))
  /\ c.prefix = SoundUpTo(g, c.hits)
Found(g, c) == IsPrefix(c.prefix, Sound(g)) /\ (~c.short => c.prefix = Sound(g))

\* It looks into the cache, plays what it has found, has played it.
Looking(g, c) == Begun(g, c) /\ c.at = 0 /\ c.heard = <<>>
Playing(c) == c.base = 0 /\ c.at <= Len(c.prefix) /\ c.heard = SubSeq(c.prefix, 1, c.at)
Starting(g, c) == Begun(g, c) /\ c.heard = c.prefix

\* The engine speaks: k samples of those given of its segment have passed the shaper.
Placed(g, c) ==
  /\ c.hits < c.live /\ c.live <= Len(g.segs) /\ c.given <= Len(Given(g, c.live, 1))
  /\ (c.hits > 0 => SegmentsKeyed(g)) /\ c.base = SegmentChars * c.hits
  /\ c.ends = (c.live - 1) - c.hits /\ LeadRight(c) /\ c.at = 0
Collected(g, c) ==
  SegmentsKeyed(g) =>
    Len(c.completed) = c.ends /\ \A n \in 1..c.ends : c.completed[n] = SoundOf(g, c.hits + n)
Reads(g, c, k) ==
  /\ IsNone(g.mode) => k = c.given
  /\ c.shaper = ShaperOf(g, c.live, k, c.given)
  /\ Total(c) = SoundUpTo(g, c.live - 1) \o Came(g, c.live, k)
  /\ GroupKeyed(g) => c.parts = Total(c)
  /\ SegmentsKeyed(g) => c.segment = Came(g, c.live, k)
ReadsAt(g, c, k) == k \in 0..c.given /\ Reads(g, c, k)
Speaking(g, c) == Placed(g, c) /\ Collected(g, c) /\ \E k : ReadsAt(g, c, k)

\* It has spoken: what may be kept.
PartsRight(g, c) ==
  GroupKeyed(g) => IsPrefix(c.parts, Sound(g)) /\ (~c.short => c.parts = Sound(g))
SegmentsRight(g, c) ==
  SegmentsKeyed(g) =>
    /\ Len(c.completed) = Len(g.segs) - c.hits
    /\ \A n \in 1..Len(c.completed) :
         /\ IsPrefix(c.completed[n], SoundOf(g, c.hits + n))
         /\ ~c.short \/ c.hits + n # Len(g.segs) => c.completed[n] = SoundOf(g, c.hits + n)
SpokenOut(g, c) ==
  /\ c.hits < Len(g.segs)
  /\ c.done => (~c.short => c.heard = Sound(g)) /\ PartsRight(g, c) /\ SegmentsRight(g, c)

LEMMA CallParts ==
  ASSUME NEW c \in CallType
  PROVE  /\ c.base \in Nat /\ c.hits \in Nat /\ c.at \in Nat /\ c.live \in Nat /\ c.given \in Nat
         /\ c.ends \in Nat /\ c.done \in BOOLEAN /\ c.short \in BOOLEAN
         /\ c.prefix \in Seq(Sample) /\ c.parts \in Seq(Sample) /\ c.segment \in Seq(Sample)
         /\ c.heard \in Seq(Sample) /\ c.lead.kept \in Seq(Sample) /\ Total(c) \in Seq(Sample)
         /\ c.completed \in Seq(Seq(Sample)) /\ c.pending \in Seq(Nat) /\ c.reached \in Seq(Nat)
<1>1. c.heard \in Seq(Sample) /\ c.lead \in LeadType
  BY DEF CallType
<1>2. c.lead.kept \in Seq(Sample)
  BY <1>1 DEF LeadType
<1>3. Total(c) \in Seq(Sample)
  BY <1>1, <1>2, ConcatProperties DEF Total
<1> QED BY <1>1, <1>2, <1>3 DEF CallType

LEMMA GIs == ASSUME group \in Texts PROVE G \in TextType
BY TextIs DEF G

\* What is played is a beginning of the sound.
LEMMA SpeakingBegins ==
  ASSUME NEW g \in TextType, NEW c \in CallType, Speaking(g, c)
  PROVE  IsPrefix(c.heard, Sound(g))
<1>1. PICK k \in 0..c.given : Reads(g, c, k)
  BY DEF Speaking, ReadsAt
<1> DEFINE n == c.live - 1
           a == SoundUpTo(g, n)
           x == Came(g, c.live, k)
           y == SoundOf(g, c.live)
           z == SoundUpTo(g, c.live)
           w == Sound(g)
           h == c.heard
           t == c.lead.kept
<1>2. /\ c.live \in 1..Len(g.segs) /\ n \in 0..Len(g.segs) /\ c.live \in 0..Len(g.segs)
      /\ c.given \in Nat /\ c.given <= Len(Given(g, c.live, 1))
  BY CallParts, TextParts DEF Speaking, Placed
<1>3. k \in 0..Len(Given(g, c.live, 1))
  <2>1. Len(Given(g, c.live, 1)) \in Nat
    BY <1>2, GivenTyped, LenProperties
  <2> QED BY <1>2, <2>1
<1>4. x \in Seq(Sample) /\ y \in Seq(Sample) /\ IsPrefix(x, y)
  BY <1>2, <1>3, CameIs, SoundOfTyped
<1>5. a \in Seq(Sample) /\ z = a \o y /\ z \in Seq(Sample)
  BY <1>2, SoundGoesOn
<1>6. IsPrefix(z, w) /\ w \in Seq(Sample)
  BY <1>2, SoundBegins
<1>7. h \in Seq(Sample) /\ t \in Seq(Sample) /\ h \o t = a \o x
  BY <1>1, CallParts DEF Reads, Total
<1> HIDE DEF a, x, y, z, w, h, t
<1>8. IsPrefix(a \o x, z)
  BY <1>4, <1>5, PrefixGoesOn
<1>9. IsPrefix(h, a \o x) /\ a \o x \in Seq(Sample)
  BY <1>4, <1>5, <1>7, PrefixLonger, ConcatProperties
<1> DEFINE u == a \o x
<1>10. u \in Seq(Sample) /\ IsPrefix(h, u) /\ IsPrefix(u, z)
  BY <1>8, <1>9
<1> HIDE DEF u
<1>11. IsPrefix(h, z)
  BY <1>5, <1>7, <1>10, PrefixGoesOn
<1>12. IsPrefix(h, w)
  BY <1>5, <1>6, <1>7, <1>11, PrefixGoesOn
<1> QED BY <1>12 DEF h, w

\* What the shaper gives next goes on: x of the segment has come.
More(g, c, k, s, x) == s \in Seq(Sample) /\ x = Came(g, c.live, k) \o s
HasCome(g, c, d, x) ==
  /\ Total(d) = SoundUpTo(g, c.live - 1) \o x
  /\ GroupKeyed(g) => d.parts = Total(d)
  /\ SegmentsKeyed(g) => d.segment = x

LEMMA GoesOnWith ==
  ASSUME group \in Texts, NEW c \in CallType, Placed(G, c), ~halted,
         NEW k, ReadsAt(G, c, k), NEW s, NEW x, More(G, c, k, s, x)
  PROVE  HasCome(G, c, Fed(c, s), x)
<1> DEFINE a == SoundUpTo(G, c.live - 1)
           b == Came(G, c.live, k)
           t == Total(c)
           d == Fed(c, s)
<1>1. /\ c.live \in 1..Len(G.segs) /\ c.live - 1 \in 0..Len(G.segs)
      /\ c.given \in Nat /\ c.given <= Len(Given(G, c.live, 1))
  BY CallParts, TextParts, GIs DEF Placed
<1>2. k \in 0..Len(Given(G, c.live, 1))
  <2>1. Len(Given(G, c.live, 1)) \in Nat
    BY <1>1, GIs, GivenTyped, LenProperties
  <2>2. k \in 0..c.given
    BY DEF ReadsAt
  <2> QED BY <1>1, <2>1, <2>2
<1>3. a \in Seq(Sample) /\ b \in Seq(Sample)
  BY <1>1, <1>2, GIs, CameIs, SoundGoesOn
<1>4. /\ t = a \o b /\ (GroupKeyed(G) => c.parts = t) /\ (SegmentsKeyed(G) => c.segment = b)
      /\ s \in Seq(Sample) /\ x = b \o s
  BY DEF ReadsAt, Reads, More
<1>5. LeadRight(c)
  BY DEF Placed
<1>6. /\ Total(d) = t \o s
      /\ d.parts = (IF GroupKeyed(G) THEN c.parts \o s ELSE c.parts)
      /\ d.segment = (IF SegmentsKeyed(G) THEN c.segment \o s ELSE c.segment)
  BY <1>4, <1>5, FedIs
<1> HIDE DEF a, b, t, d
<1>7. (a \o b) \o s = a \o (b \o s)
  BY <1>3, <1>4, Associates
<1>8. Total(d) = a \o x /\ (GroupKeyed(G) => d.parts = Total(d)) /\ (SegmentsKeyed(G) => d.segment = x)
  BY <1>4, <1>6, <1>7
<1> QED BY <1>8 DEF HasCome, a, d

SameRest(c, d) ==
  /\ d.base = c.base /\ d.hits = c.hits /\ d.prefix = c.prefix /\ d.at = c.at /\ d.live = c.live
  /\ d.given = c.given /\ d.shaper = c.shaper /\ d.lead = c.lead /\ d.parts = c.parts
  /\ d.done = c.done /\ d.ends = c.ends /\ d.short = c.short /\ d.heard = c.heard /\ d.end = c.end
  /\ d.reached = c.reached /\ d.pending = c.pending

LEMMA CompletedIs ==
  ASSUME NEW c \in CallType, NEW d, d = Completed(c)
  PROVE  /\ d \in CallType /\ SameRest(c, d)
         /\ SegmentsKeyed(G) => d.completed = Append(c.completed, c.segment) /\ d.segment = <<>>
<1>1. CASE ~SegmentsKeyed(G)
  <2>1. d = c
    BY <1>1 DEF Completed
  <2> QED BY <1>1, <2>1 DEF SameRest
<1>2. CASE SegmentsKeyed(G)
  <2> DEFINE a == Append(c.completed, c.segment)
  <2>1. a \in Seq(Seq(Sample)) /\ <<>> \in Seq(Sample)
    BY CallParts, AppendProperties, EmptySeq
  <2>2. d = [c EXCEPT !.completed = a, !.segment = <<>>]
    BY <1>2 DEF Completed
  <2> HIDE DEF a
  <2>3. d \in CallType /\ d.completed = a /\ d.segment = <<>>
    BY <2>1, <2>2, ZenonT(30) DEF CallType
  <2>4. SameRest(c, d)
    BY <2>2 DEF CallType, SameRest
  <2> QED BY <2>3, <2>4 DEF a
<1> QED BY <1>1, <1>2

LEMMA ShaperTyped ==
  ASSUME NEW g \in TextType, NEW i \in 1..Len(g.segs), NEW l \in 0..Len(Given(g, i, 1)), NEW k \in 0..l
  PROVE  ShaperOf(g, i, k, l) \in ShaperType
<1>1. Given(g, i, 1) \in Seq(Sample) /\ Len(Given(g, i, 1)) \in Nat
  BY GivenTyped, LenProperties
<1>2. l \in Nat /\ k \in Nat /\ k <= l /\ l <= Len(Given(g, i, 1)) /\ k \in 0..Len(Given(g, i, 1))
  BY <1>1
<1>3. Holds(g, i, k) \in Seq(Sample)
  BY <1>2, CameIs
<1>4. SubSeq(Given(g, i, 1), k + 1, l) \in Seq(Sample)
  BY <1>1, <1>2, PieceHas
<1> QED BY <1>3, <1>4 DEF ShaperOf, ShaperType

\* A packet.
LEMMA PlacedIs ==
  ASSUME group \in Texts, NEW c \in CallType, Placed(G, c)
  PROVE  /\ G \in TextType /\ c.live \in 1..Len(G.segs) /\ c.given \in 0..Len(Given(G, c.live, 1))
         /\ c.hits \in 0..Len(G.segs) - 1 /\ c.live \in c.hits + 1..Len(G.segs)
         /\ Len(G.segs) \in Nat /\ Len(Given(G, c.live, 1)) \in Nat /\ LeadRight(c)
<1>1. G \in TextType
  BY GIs
<1>2. Len(G.segs) \in Nat /\ c.live \in Nat /\ c.hits \in Nat /\ c.given \in Nat
  BY <1>1, TextParts, CallParts
<1>3. c.hits < c.live /\ c.live <= Len(G.segs) /\ LeadRight(c) /\ c.given <= Len(Given(G, c.live, 1))
  BY DEF Placed
<1>4. c.live \in 1..Len(G.segs)
  BY <1>2, <1>3
<1>5. Len(Given(G, c.live, 1)) \in Nat
  BY <1>1, <1>4, GivenTyped, LenProperties
<1> QED BY <1>1, <1>2, <1>3, <1>4, <1>5

\* A packet.
Packet(c, n, d) ==
  LET packet == SubSeq(Given(G, c.live, 1), c.given + 1, c.given + n)
      sound == Shaped(G.mode, c.shaper, packet)
  IN d = [Fed(c, sound.out) EXCEPT !.given = @ + n, !.shaper = sound.shaper]

LEMMA PacketKeeps ==
  ASSUME group \in Texts, NEW c \in CallType, Speaking(G, c), ~halted, NEW n \in Nat,
         c.given + n <= Len(Given(G, c.live, 1)),
         NEW d, Packet(c, n, d)
  PROVE  /\ d \in CallType /\ Speaking(G, d) /\ SameMarks(c, d)
         /\ d.end = c.end /\ d.done = c.done /\ d.short = c.short
<1>0. PICK packet, sound :
        /\ packet = SubSeq(Given(G, c.live, 1), c.given + 1, c.given + n)
        /\ sound = Shaped(G.mode, c.shaper, packet)
        /\ d = [Fed(c, sound.out) EXCEPT !.given = @ + n, !.shaper = sound.shaper]
  BY DEF Packet
<1> USE <1>0
<1> DEFINE l == c.given
           m == l + n
           e == Fed(c, sound.out)
<1>1. PICK k : ReadsAt(G, c, k)
  BY DEF Speaking
<1>2. Placed(G, c)
  BY DEF Speaking
<1>3. Between(G, c.live, k, l, m) /\ c.shaper = ShaperOf(G, c.live, k, l) /\ m \in Nat
  <2>1. k \in 0..l /\ (IsNone(G.mode) => k = l) /\ c.shaper = ShaperOf(G, c.live, k, l)
    BY <1>1 DEF ReadsAt, Reads
  <2>2. c.live \in 1..Len(G.segs) /\ l \in Nat /\ Len(Given(G, c.live, 1)) \in Nat
    BY <1>2, PlacedIs
  <2>3. m \in 0..Len(Given(G, c.live, 1)) /\ l \in 0..m
    BY <2>2
  <2> QED BY <2>1, <2>2, <2>3 DEF Between
<1>4. packet = PacketOf(G, c.live, l, m)
  BY DEF PacketOf
<1>5. e = Fed(c, sound.out) /\ d = [e EXCEPT !.given = @ + n, !.shaper = sound.shaper]
  OBVIOUS
<1> HIDE DEF e, l, m
<1>6. PICK j : ShapedTo(G, c.live, k, j, m, sound)
  <2>1. \E j : ShapedTo(G, c.live, k, j, m, Shaped(G.mode, ShaperOf(G, c.live, k, l), PacketOf(G, c.live, l, m)))
    BY <1>2, <1>3, PlacedIs, ShapedIs
  <2> QED BY <1>3, <1>4, <2>1
<1>7. sound.shaper \in ShaperType /\ sound.out \in Seq(Sample) /\ More(G, c, k, sound.out, Came(G, c.live, j))
  <2>1. j \in 0..m /\ m \in 0..Len(Given(G, c.live, 1)) /\ c.live \in 1..Len(G.segs) /\ G \in TextType
    BY <1>2, <1>3, <1>6, PlacedIs DEF ShapedTo, Between
  <2>2. ShaperOf(G, c.live, j, m) \in ShaperType
    BY <2>1, ShaperTyped
  <2> QED BY <1>6, <2>2 DEF ShapedTo, More
<1>8. HasCome(G, c, e, Came(G, c.live, j))
  BY <1>1, <1>2, <1>5, <1>7, GoesOnWith
<1>9. e \in CallType /\ LeadRight(e) /\ SamePlace(c, e) /\ SameMarks(c, e)
  BY <1>2, <1>5, <1>7, PlacedIs, FedIs
<1>10. e.given + n = m /\ d = [e EXCEPT !.given = m, !.shaper = sound.shaper]
  BY <1>5, <1>9 DEF SamePlace, l, m
<1>11. d \in CallType /\ d.given = m /\ d.shaper = sound.shaper
  BY <1>3, <1>7, <1>9, <1>10, ZenonT(60) DEF CallType
<1>12. /\ d.base = e.base /\ d.hits = e.hits /\ d.at = e.at /\ d.live = e.live /\ d.lead = e.lead
       /\ d.parts = e.parts /\ d.segment = e.segment /\ d.completed = e.completed /\ d.done = e.done
       /\ d.ends = e.ends /\ d.short = e.short /\ d.heard = e.heard /\ d.end = e.end
       /\ d.reached = e.reached /\ d.pending = e.pending
  BY <1>9, <1>10 DEF CallType
<1>13. /\ d.base = c.base /\ d.hits = c.hits /\ d.at = c.at /\ d.live = c.live
       /\ d.completed = c.completed /\ d.done = c.done /\ d.ends = c.ends /\ d.short = c.short
       /\ d.end = c.end
  BY <1>9, <1>12 DEF SamePlace
<1>14. SameMarks(c, d) /\ LeadRight(d) /\ Total(d) = Total(e)
  BY <1>9, <1>12 DEF SameMarks, LeadRight, Total
<1>15. Placed(G, d)
  <2>1. m <= Len(Given(G, c.live, 1))
    BY <1>2, <1>3, PlacedIs DEF Between
  <2> QED BY <1>2, <1>11, <1>13, <1>14, <2>1 DEF Placed
<1>16. Collected(G, d)
  BY <1>13 DEF Speaking, Collected
<1>17. ReadsAt(G, d, j)
  BY <1>6, <1>8, <1>11, <1>12, <1>13, <1>14 DEF ReadsAt, Reads, ShapedTo, HasCome
<1> QED BY <1>11, <1>13, <1>14, <1>15, <1>16, <1>17 DEF Speaking

LEMMA FlushTyped ==
  ASSUME NEW mode, NEW shaper \in ShaperType
  PROVE  AtClose(mode, shaper) \in Seq(Sample) /\ AtEnd(mode, shaper) \in Seq(Sample)
<1> DEFINE r == Process(mode, shaper.held, shaper.block)
           o == r.out
           h == r.held
           p == Prefix(h, Keep)
<1>1. shaper.held \in Seq(Sample) /\ shaper.block \in Seq(Sample)
  BY DEF ShaperType
<1>2. r \in Run
  BY <1>1, ProcessTyped
<1> HIDE DEF r
<1>3. o \in Seq(Sample) /\ h \in Seq(Sample)
  BY <1>2 DEF Run
<1> HIDE DEF o, h
<1>4. p \in Seq(Sample)
  BY <1>3, PrefixTyped
<1> HIDE DEF p
<1>5. o \o p \in Seq(Sample) /\ o \o h \in Seq(Sample)
  BY <1>3, <1>4, ConcatProperties
<1>6. AtClose(mode, shaper) = o \o p
  BY DEF AtClose, r, o, h, p
<1>7. AtEnd(mode, shaper) = IF IsAll(mode) THEN o \o p ELSE o \o h
  BY DEF AtEnd, r, o, h, p
<1> QED BY <1>5, <1>6, <1>7

\* What the engine's segment is when the shaper is empty.
LEMMA NewSegment ==
  ASSUME NEW g \in TextType, NEW i \in 1..Len(g.segs)
  PROVE  Came(g, i, 0) = <<>> /\ ShaperOf(g, i, 0, 0) = NewShaper
<1>1. Len(Given(g, i, 1)) \in Nat
  BY GivenTyped, LenProperties
<1>2. 0 \in 0..Len(Given(g, i, 1))
  BY <1>1
<1>3. Came(g, i, 0) = <<>> /\ Holds(g, i, 0) = <<>>
  BY <1>2, CameIs
<1>4. SubSeq(Given(g, i, 1), 0 + 1, 0) = <<>>
  BY NoPiece
<1> QED BY <1>3, <1>4 DEF ShaperOf, NewShaper

\* The end of a segment.
SegmentEndsFrom(c, d) == d = [SegmentEnded(c) EXCEPT !.live = @ + 1, !.given = 0, !.ends = @ + 1]

LEMMA SegmentEndTyped ==
  ASSUME NEW c \in CallType, LeadRight(c), NEW d, SegmentEndsFrom(c, d)
  PROVE  /\ d \in CallType /\ LeadRight(d) /\ SameMarks(c, d) /\ d.end = c.end
         /\ halted => d.heard = c.heard
<1> DEFINE e == Fed(c, AtEnd(G.mode, c.shaper))
           b == IF halted THEN c ELSE [e EXCEPT !.shaper = NewShaper]
           f == Completed(b)
<1>1. SegmentEnded(c) = f
  BY DEF SegmentEnded, Flushed, AtEnd, IsAll
<1>2. AtEnd(G.mode, c.shaper) \in Seq(Sample)
  BY FlushTyped DEF CallType
<1>3. e \in CallType /\ LeadRight(e) /\ SamePlace(c, e) /\ SameMarks(c, e)
  BY <1>2, FedIs
<1>4. NewShaper \in ShaperType
  BY EmptySeq DEF NewShaper, ShaperType
<1>5. d = [f EXCEPT !.live = @ + 1, !.given = 0, !.ends = @ + 1]
  BY <1>1 DEF SegmentEndsFrom
<1> HIDE DEF e
<1>6. /\ b \in CallType /\ LeadRight(b) /\ SameMarks(c, b) /\ b.end = c.end
      /\ halted => b.heard = c.heard
  <2>1. CASE halted
    BY <2>1 DEF SameMarks
  <2>2. CASE ~halted
    <3>1. b = [e EXCEPT !.shaper = NewShaper]
      BY <2>2
    <3> HIDE DEF b
    <3>2. b \in CallType
      BY <1>3, <1>4, <3>1 DEF CallType
    <3>3. b.lead = e.lead /\ b.end = e.end /\ b.reached = e.reached /\ b.pending = e.pending
      BY <1>3, <3>1 DEF CallType
    <3> QED BY <1>3, <2>2, <3>2, <3>3 DEF LeadRight, SameMarks, SamePlace
  <2> QED BY <2>1, <2>2
<1> HIDE DEF b
<1>7. f \in CallType /\ SameRest(b, f)
  BY <1>6, CompletedIs
<1> HIDE DEF f
<1>8. d \in CallType
  <2>1. f.live + 1 \in Nat /\ f.ends + 1 \in Nat
    BY <1>7, CallParts
  <2> QED BY <1>5, <1>7, <2>1 DEF CallType
<1>9. d.lead = f.lead /\ d.end = f.end /\ d.reached = f.reached /\ d.pending = f.pending /\ d.heard = f.heard
  BY <1>5, <1>7 DEF CallType
<1> QED BY <1>6, <1>7, <1>8, <1>9 DEF SameRest, LeadRight, SameMarks

LEMMA SegmentEndKeeps ==
  ASSUME group \in Texts, NEW c \in CallType, Speaking(G, c), ~halted, c.live < Len(G.segs),
         c.given = Len(Given(G, c.live, 1)), NEW d, SegmentEndsFrom(c, d)
  PROVE  Speaking(G, d) /\ d.done = c.done /\ d.short = c.short
<1> DEFINE s == AtEnd(G.mode, c.shaper)
           e == Fed(c, s)
           b == [e EXCEPT !.shaper = NewShaper]
           f == Completed(b)
           x == SoundOf(G, c.live)
<1>1. PICK k : ReadsAt(G, c, k)
  BY DEF Speaking
<1>2. Placed(G, c) /\ Collected(G, c)
  BY DEF Speaking
<1>3. Within(G, c.live, k, c.given) /\ c.shaper = ShaperOf(G, c.live, k, c.given)
  BY <1>1, <1>2, PlacedIs DEF ReadsAt, Reads, Within
<1>4. FlushedTo(G, c.live, k, c.given, AtClose(G.mode, c.shaper), s)
  BY <1>2, <1>3, PlacedIs, FlushIs
<1>5. More(G, c, k, s, x)
  BY <1>4 DEF FlushedTo, More
<1>6. HasCome(G, c, e, x)
  BY <1>1, <1>2, <1>5, GoesOnWith
<1>7. e \in CallType /\ LeadRight(e) /\ SamePlace(c, e)
  BY <1>2, <1>5, PlacedIs, FedIs DEF More
<1>8. d = [f EXCEPT !.live = @ + 1, !.given = 0, !.ends = @ + 1]
  BY DEF SegmentEnded, Flushed, AtEnd, IsAll, SegmentEndsFrom
<1>9. NewShaper \in ShaperType
  BY EmptySeq DEF NewShaper, ShaperType
<1> HIDE DEF s, e
<1>10. b \in CallType /\ b.shaper = NewShaper /\ b.segment = e.segment /\ b.parts = e.parts /\ b.lead = e.lead
       /\ b.heard = e.heard
  BY <1>7, <1>9 DEF CallType
<1>11. SamePlace([c EXCEPT !.shaper = NewShaper], b)
  BY <1>7 DEF SamePlace, CallType
<1>12. /\ b.base = c.base /\ b.hits = c.hits /\ b.at = c.at /\ b.live = c.live /\ b.completed = c.completed
       /\ b.done = c.done /\ b.ends = c.ends /\ b.short = c.short
  BY <1>11 DEF SamePlace, CallType
<1> HIDE DEF b
<1>13. /\ f \in CallType /\ SameRest(b, f)
       /\ SegmentsKeyed(G) => f.completed = Append(b.completed, b.segment) /\ f.segment = <<>>
  BY <1>10, CompletedIs
<1> HIDE DEF f
<1>14. /\ d.live = f.live + 1 /\ d.given = 0 /\ d.ends = f.ends + 1
       /\ d.base = f.base /\ d.hits = f.hits /\ d.at = f.at /\ d.shaper = f.shaper /\ d.lead = f.lead
       /\ d.parts = f.parts /\ d.segment = f.segment /\ d.completed = f.completed /\ d.done = f.done
       /\ d.short = f.short /\ d.heard = f.heard
  BY <1>8, <1>13 DEF CallType
<1>15. /\ d.live = c.live + 1 /\ d.given = 0 /\ d.ends = c.ends + 1 /\ d.base = c.base /\ d.hits = c.hits
       /\ d.at = c.at /\ d.shaper = NewShaper /\ d.lead = e.lead /\ d.parts = e.parts /\ d.done = c.done
       /\ d.short = c.short /\ d.heard = e.heard
  BY <1>10, <1>12, <1>13, <1>14 DEF SameRest
<1>16. /\ d.live \in 1..Len(G.segs) /\ d.live - 1 = c.live /\ c.live \in 1..Len(G.segs) /\ c.live \in Nat
       /\ c.hits \in Nat /\ c.hits < c.live /\ G \in TextType
       /\ Len(Given(G, d.live, 1)) \in Nat
  <2>1. c.live \in Nat /\ Len(G.segs) \in Nat /\ c.hits \in Nat /\ c.hits < c.live /\ G \in TextType /\ c.live \in 1..Len(G.segs)
    BY <1>2, PlacedIs, CallParts DEF Placed
  <2>2. d.live \in 1..Len(G.segs) /\ d.live - 1 = c.live
    BY <1>15, <2>1
  <2> QED BY <2>1, <2>2, GivenTyped, LenProperties
<1>17. Placed(G, d)
  <2>1. c.hits < d.live /\ d.live <= Len(G.segs) /\ 0 <= Len(Given(G, d.live, 1))
        /\ c.ends + 1 = (d.live - 1) - c.hits
    BY <1>2, <1>15, <1>16 DEF Placed
  <2>2. LeadRight(d)
    BY <1>7, <1>15 DEF LeadRight
  <2> QED BY <1>2, <1>15, <2>1, <2>2 DEF Placed
<1>18. Collected(G, d)
  <2> SUFFICES ASSUME SegmentsKeyed(G)
               PROVE  Len(d.completed) = d.ends /\ \A n \in 1..d.ends : d.completed[n] = SoundOf(G, d.hits + n)
    BY DEF Collected
  <2>1. d.completed = Append(c.completed, x)
    BY <1>6, <1>10, <1>12, <1>13, <1>14 DEF HasCome
  <2>2. x \in Seq(Sample) /\ c.completed \in Seq(Seq(Sample)) /\ c.ends \in Nat
    BY <1>16, SoundOfTyped, CallParts
  <2>3. Len(c.completed) = c.ends /\ \A n \in 1..c.ends : c.completed[n] = SoundOf(G, c.hits + n)
    BY <1>2 DEF Collected
  <2>4. c.hits + (c.ends + 1) = c.live
    <3>1. c.ends = (c.live - 1) - c.hits
      BY <1>2 DEF Placed
    <3>2. \A u, v, w \in Nat : w = (u - 1) - v => v + (w + 1) = u
      OBVIOUS
    <3> QED BY <1>16, <2>2, <3>1, <3>2
  <2> HIDE DEF x
  <2>5. /\ Len(d.completed) = c.ends + 1
        /\ \A n \in 1..c.ends : d.completed[n] = c.completed[n]
        /\ d.completed[c.ends + 1] = x
    BY <2>1, <2>2, <2>3, AppendProperties
  <2>6. d.completed[c.ends + 1] = SoundOf(G, c.hits + (c.ends + 1))
    BY <2>4, <2>5 DEF x
  <2>7. ASSUME NEW n \in 1..c.ends + 1 PROVE d.completed[n] = SoundOf(G, c.hits + n)
    <3>1. CASE n = c.ends + 1
      BY <2>6, <3>1
    <3>2. CASE n \in 1..c.ends
      BY <2>3, <2>5, <3>2
    <3> QED BY <2>2, <3>1, <3>2
  <2> QED BY <1>15, <2>5, <2>7
<1>19. Came(G, d.live, 0) = <<>> /\ d.shaper = ShaperOf(G, d.live, 0, 0)
  BY <1>15, <1>16, NewSegment
<1>20. Total(d) = SoundUpTo(G, d.live - 1) \o Came(G, d.live, 0)
  <2>1. Total(d) = Total(e) /\ Total(e) = SoundUpTo(G, c.live - 1) \o x
    BY <1>6, <1>15 DEF HasCome, Total
  <2>2. SoundUpTo(G, c.live) = SoundUpTo(G, c.live - 1) \o x
    BY <1>16, SoundGoesOn
  <2>3. Total(d) \in Seq(Sample)
    BY <1>7, <2>1, CallParts
  <2>4. Total(d) \o <<>> = Total(d)
    BY <2>3, ConcatEmptySeq
  <2>5. Total(d) = SoundUpTo(G, d.live - 1)
    BY <1>16, <2>1, <2>2
  <2> QED BY <1>19, <2>4, <2>5
<1>21. ReadsAt(G, d, 0)
  <2>1. GroupKeyed(G) => d.parts = Total(d)
    BY <1>6, <1>15 DEF HasCome, Total
  <2>2. SegmentsKeyed(G) => d.segment = Came(G, d.live, 0)
    BY <1>13, <1>14, <1>19
  <2>3. 0 \in 0..d.given
    BY <1>15
  <2> QED BY <1>15, <1>19, <1>20, <2>1, <2>2, <2>3 DEF ReadsAt, Reads
<1> QED BY <1>15, <1>17, <1>18, <1>21 DEF Speaking

\* The end of the text.
LEMMA FinishTyped ==
  ASSUME NEW c \in CallType, LeadRight(c), NEW d, d = Finished(c)
  PROVE  /\ d \in CallType /\ LeadRight(d) /\ SameMarks(c, d) /\ d.end = c.end
         /\ halted => d.heard = c.heard
<1> DEFINE e == Fed(c, AtClose(G.mode, c.shaper))
           f == Completed(e)
           h == f.heard \o f.lead.kept
           l == [open |-> TRUE, kept |-> <<>>]
<1>1. d = IF halted THEN f ELSE [f EXCEPT !.heard = h, !.lead = l, !.shaper = NewShaper]
  BY DEF Finished, Flushed, AtClose
<1>2. AtClose(G.mode, c.shaper) \in Seq(Sample)
  BY FlushTyped DEF CallType
<1>3. /\ e \in CallType /\ LeadRight(e) /\ SamePlace(c, e) /\ SameMarks(c, e)
      /\ halted => e.heard = c.heard
  BY <1>2, FedIs
<1> HIDE DEF e
<1>4. f \in CallType /\ SameRest(e, f)
  BY <1>3, CompletedIs
<1> HIDE DEF f
<1>5. LeadRight(f) /\ SameMarks(c, f) /\ f.end = c.end /\ (halted => f.heard = c.heard)
  BY <1>3, <1>4 DEF SameRest, LeadRight, SameMarks, SamePlace
<1>6. CASE halted
  BY <1>1, <1>4, <1>5, <1>6
<1>7. CASE ~halted
  <2>1. d = [f EXCEPT !.heard = h, !.lead = l, !.shaper = NewShaper]
    BY <1>1, <1>7
  <2>2. h \in Seq(Sample) /\ l \in LeadType /\ NewShaper \in ShaperType /\ l.kept = <<>>
    <3>1. h \in Seq(Sample)
      BY <1>4, CallParts DEF Total
    <3> QED BY <3>1, EmptySeq DEF LeadType, NewShaper, ShaperType
  <2> HIDE DEF h, l
  <2>3. d \in CallType
    BY <1>4, <2>1, <2>2 DEF CallType
  <2>4. d.lead = l /\ d.end = f.end /\ d.reached = f.reached /\ d.pending = f.pending
    BY <1>4, <2>1 DEF CallType
  <2> QED BY <1>5, <1>7, <2>2, <2>3, <2>4 DEF LeadRight, SameMarks
<1> QED BY <1>6, <1>7

\* Done: the answer came when all was said, or the speech stalled in the last segment.
Answered(g, c) == c.done => c.live = Len(g.segs) /\ (~c.short => c.given = Len(Given(g, c.live, 1)))

LEMMA FinishKeeps ==
  ASSUME group \in Texts, NEW c \in CallType, Speaking(G, c), ~halted, Answered(G, c),
         NEW d, d = Finished(c)
  PROVE  SpokenOut(G, d) /\ d.at = 0 /\ IsPrefix(d.heard, Sound(G))
<1> DEFINE s == AtClose(G.mode, c.shaper)
           e == Fed(c, s)
           f == Completed(e)
           h == f.heard \o f.lead.kept
<1>1. PICK k : ReadsAt(G, c, k)
  BY DEF Speaking
<1> DEFINE x == Came(G, c.live, k) \o s
           y == SoundOf(G, c.live)
           a == SoundUpTo(G, c.live - 1)
           z == SoundUpTo(G, c.live)
<1>2. Placed(G, c) /\ Collected(G, c)
  BY DEF Speaking
<1>3. Within(G, c.live, k, c.given) /\ c.shaper = ShaperOf(G, c.live, k, c.given)
  BY <1>1, <1>2, PlacedIs DEF ReadsAt, Reads, Within
<1>4. FlushedTo(G, c.live, k, c.given, s, AtEnd(G.mode, c.shaper))
  BY <1>2, <1>3, PlacedIs, FlushIs
<1>5. More(G, c, k, s, x)
  BY <1>4 DEF FlushedTo, More
<1>6. HasCome(G, c, e, x)
  BY <1>1, <1>2, <1>5, GoesOnWith
<1>7. e \in CallType /\ LeadRight(e) /\ SamePlace(c, e)
  BY <1>2, <1>5, PlacedIs, FedIs DEF More
<1>8. d = [f EXCEPT !.heard = h, !.lead = [open |-> TRUE, kept |-> <<>>], !.shaper = NewShaper]
  BY DEF Finished, Flushed, AtClose
<1>9. /\ c.live \in 1..Len(G.segs) /\ c.live - 1 \in 0..Len(G.segs) /\ c.live \in 0..Len(G.segs)
      /\ c.hits \in Nat /\ c.hits < c.live /\ G \in TextType /\ Len(G.segs) \in Nat
      /\ c.ends = (c.live - 1) - c.hits /\ c.ends \in Nat /\ c.at = 0 /\ c.live \in Nat
  <2>1. c.ends = (c.live - 1) - c.hits /\ c.at = 0 /\ c.hits < c.live
    BY <1>2 DEF Placed
  <2> QED BY <1>2, <2>1, PlacedIs, CallParts
<1>10. IsPrefix(x, y) /\ x \in Seq(Sample) /\ y \in Seq(Sample)
       /\ (c.given = Len(Given(G, c.live, 1)) /\ c.live = Len(G.segs) => x = y)
  <2>1. Came(G, c.live, k) \in Seq(Sample)
    <3>1. k \in 0..Len(Given(G, c.live, 1))
      BY <1>2, <1>3, PlacedIs DEF Within
    <3> QED BY <1>9, <3>1, CameIs
  <2>2. s \in Seq(Sample)
    BY <1>5 DEF More
  <2>3. x \in Seq(Sample)
    <3> HIDE DEF s
    <3> QED BY <2>1, <2>2, ConcatProperties
  <2> QED BY <1>4, <1>9, <2>3, SoundOfTyped DEF FlushedTo
<1>11. a \in Seq(Sample) /\ z = a \o y /\ z \in Seq(Sample) /\ IsPrefix(z, Sound(G)) /\ Sound(G) \in Seq(Sample)
       /\ (c.live = Len(G.segs) => z = Sound(G))
  BY <1>9, SoundGoesOn, SoundBegins DEF Sound
<1>12. e.completed = c.completed /\ e.done = c.done /\ e.short = c.short /\ e.hits = c.hits /\ e.at = c.at
  BY <1>7 DEF SamePlace
<1>13. /\ f \in CallType /\ SameRest(e, f)
       /\ SegmentsKeyed(G) => f.completed = Append(e.completed, e.segment)
  BY <1>7, CompletedIs
<1> HIDE DEF f
<1>14. h \in Seq(Sample) /\ h = Total(e)
  <2>1. h = Total(f) /\ h \in Seq(Sample)
    BY <1>13, CallParts DEF Total
  <2>2. Total(f) = Total(e)
    BY <1>13 DEF SameRest, Total
  <2> QED BY <2>1, <2>2
<1>15. Total(e) = a \o x /\ (GroupKeyed(G) => e.parts = Total(e)) /\ (SegmentsKeyed(G) => e.segment = x)
  BY <1>6 DEF HasCome
<1>16. d.heard = h /\ d.parts = f.parts /\ d.completed = f.completed /\ d.done = f.done /\ d.short = f.short
       /\ d.hits = f.hits /\ d.at = f.at
  BY <1>8, <1>13 DEF CallType
<1>17. d.heard = h /\ d.parts = e.parts /\ d.completed = f.completed /\ d.done = c.done /\ d.short = c.short
       /\ d.hits = c.hits /\ d.at = c.at
  BY <1>12, <1>13, <1>16 DEF SameRest
<1> HIDE DEF s, e, h, x, y, a, z
<1>18. IsPrefix(h, Sound(G))
  <2>1. IsPrefix(a \o x, a \o y)
    BY <1>10, <1>11, PrefixGoesOn
  <2>2. IsPrefix(h, z)
    BY <1>11, <1>14, <1>15, <2>1
  <2> QED BY <1>11, <1>14, <2>2, PrefixGoesOn
<1>19. c.done /\ ~c.short => h = Sound(G) /\ x = y
  BY <1>10, <1>11, <1>14, <1>15 DEF Answered
<1>20. ASSUME c.done PROVE PartsRight(G, d) /\ SegmentsRight(G, d)
  <2>1. PartsRight(G, d)
    BY <1>14, <1>15, <1>17, <1>18, <1>19, <1>20 DEF PartsRight
  <2>2. c.live = Len(G.segs)
    BY <1>20 DEF Answered
  <2>3. ASSUME SegmentsKeyed(G)
        PROVE  /\ Len(d.completed) = Len(G.segs) - c.hits
               /\ \A n \in 1..Len(d.completed) :
                    /\ IsPrefix(d.completed[n], SoundOf(G, c.hits + n))
                    /\ ~c.short \/ c.hits + n # Len(G.segs) => d.completed[n] = SoundOf(G, c.hits + n)
    <3>1. d.completed = Append(c.completed, x)
      BY <1>12, <1>13, <1>15, <1>17, <2>3
    <3>2. c.completed \in Seq(Seq(Sample))
      BY CallParts
    <3>3. Len(c.completed) = c.ends /\ \A n \in 1..c.ends : c.completed[n] = SoundOf(G, c.hits + n)
      BY <1>2, <2>3 DEF Collected
    <3>4. c.hits + (c.ends + 1) = c.live /\ c.ends + 1 = Len(G.segs) - c.hits
      BY <1>9, <2>2
    <3>5. /\ Len(d.completed) = c.ends + 1
          /\ \A n \in 1..c.ends : d.completed[n] = c.completed[n]
          /\ d.completed[c.ends + 1] = x
      BY <1>10, <3>1, <3>2, <3>3, AppendProperties
    <3>6. SoundOf(G, c.hits + (c.ends + 1)) = y
      BY <3>4 DEF y
    <3>7. ASSUME NEW n \in 1..c.ends
          PROVE  IsPrefix(d.completed[n], SoundOf(G, c.hits + n)) /\ d.completed[n] = SoundOf(G, c.hits + n)
      <4>1. d.completed[n] = SoundOf(G, c.hits + n)
        BY <3>3, <3>5
      <4>2. c.hits + n \in 1..Len(G.segs)
        <5>1. c.ends \in Nat /\ c.hits \in Nat /\ Len(G.segs) \in Nat /\ c.ends + 1 = Len(G.segs) - c.hits
          BY <1>9, <3>4
        <5> QED BY <5>1
      <4>3. SoundOf(G, c.hits + n) \in Seq(Sample)
        BY <1>9, <4>2, SoundOfTyped
      <4> QED BY <4>1, <4>3, PrefixLonger
    <3>8. IsPrefix(d.completed[c.ends + 1], SoundOf(G, c.hits + (c.ends + 1)))
          /\ (~c.short => d.completed[c.ends + 1] = SoundOf(G, c.hits + (c.ends + 1)))
      BY <1>10, <1>19, <1>20, <3>5, <3>6
    <3>9. ASSUME NEW n \in 1..Len(d.completed)
          PROVE  /\ IsPrefix(d.completed[n], SoundOf(G, c.hits + n))
                 /\ ~c.short \/ c.hits + n # Len(G.segs) => d.completed[n] = SoundOf(G, c.hits + n)
      <4>1. CASE n \in 1..c.ends
        BY <3>7, <4>1
      <4>2. CASE n = c.ends + 1
        <5>1. c.hits + n = Len(G.segs)
          BY <2>2, <3>4, <4>2
        <5> QED BY <3>8, <4>2, <5>1
      <4>3. n \in 1..c.ends \/ n = c.ends + 1
        BY <1>9, <3>5
      <4> QED BY <4>1, <4>2, <4>3
    <3> QED BY <3>4, <3>5, <3>9
  <2>4. SegmentsRight(G, d)
    BY <1>17, <2>3 DEF SegmentsRight
  <2> QED BY <2>1, <2>4
<1>21. d.hits < Len(G.segs)
  BY <1>2, <1>17, PlacedIs
<1>22. SpokenOut(G, d)
  BY <1>17, <1>19, <1>20, <1>21 DEF SpokenOut
<1> QED BY <1>9, <1>17, <1>18, <1>22 DEF h

-----------------------------------------------------------------------------
(* The invariant                                                             *)

AllMarks(g, c) == c.reached \o c.pending = g.marks
Rested(g, c) ==
  /\ IsPrefix(c.reached, g.marks)
  /\ c.end = "spoken" => c.reached = g.marks /\ (~c.short => c.heard = Sound(g))

Stage ==
  /\ step \in {"leading", "group", "segments"} => Looking(G, call)
  /\ step \in {"leading", "group"} => call.hits = 0
  /\ step = "segments" => SegmentsKeyed(G)
  /\ step \in {"hit", "joined"} => Playing(call) /\ Found(G, call)
  /\ step = "prefix" => Playing(call) /\ Begun(G, call) /\ 0 < call.hits
  /\ step = "keep joined" => Found(G, call) /\ call.heard = call.prefix /\ call.pending = <<>>
  /\ step = "start" => Starting(G, call)
  /\ step = "engine" /\ ~halted => Speaking(G, call) /\ ~call.done /\ ~call.short
  /\ step = "after" /\ ~halted => Speaking(G, call) /\ Answered(G, call)
  /\ step = "closing" /\ ~halted => SpokenOut(G, call) /\ call.at = 0
  /\ step \in {"keep segments", "keep group"} => SpokenOut(G, call) /\ call.pending = <<>>
  /\ step = "keep segments" => call.done /\ SegmentsKeyed(G) /\ call.at < Len(G.segs) - call.hits

Speech ==
  /\ call \in CallType /\ LeadRight(call) /\ IsPrefix(call.heard, Sound(G))
  /\ step = "idle" => Rested(G, call)
  /\ step # "idle" => call.end = "none" /\ AllMarks(G, call)
  /\ Stage

Steps0 ==
  {"idle", "leading", "group", "segments", "hit", "joined", "prefix", "keep joined", "start",
   "engine", "after", "closing", "keep segments", "keep group"}
Typed ==
  /\ group \in Texts /\ step \in Steps0 /\ halted \in BOOLEAN /\ paused \in BOOLEAN
  /\ texts \in 0..MaxTexts

AudioInv == Typed /\ CacheRight(cache, tally, curtailed) /\ Speech

\* A call that is left.
LEMMA LeftIs ==
  ASSUME group \in Texts, NEW c \in CallType, AllMarks(G, c), IsPrefix(c.heard, Sound(G)),
         NEW e \in {"spoken", "cancelled", "failed", "cut"},
         e = "spoken" => c.pending = <<>> /\ (~c.short => c.heard = Sound(G)),
         NEW d, d = [NewCall(group) EXCEPT !.heard = c.heard, !.reached = c.reached,
                                           !.short = c.short, !.end = e]
  PROVE  /\ d \in CallType /\ LeadRight(d) /\ Rested(G, d) /\ IsPrefix(d.heard, Sound(G))
<1>1. /\ c.heard \in Seq(Sample) /\ c.reached \in Seq(Nat) /\ c.pending \in Seq(Nat) /\ c.short \in BOOLEAN
  BY CallParts
<1>2. Groups[group].marks \in Seq(Nat)
  BY GIs, TextParts DEF G
<1>3. <<>> \in Seq(Sample) /\ <<>> \in Seq(Seq(Sample))
  BY EmptySeq
<1>4. d \in CallType
  BY <1>1, <1>2, <1>3, ZenonT(60) DEF NewCall, NewShaper, CallType, ShaperType, LeadType
<1>5. d.heard = c.heard /\ d.reached = c.reached /\ d.short = c.short /\ d.end = e /\ d.lead.kept = <<>>
  BY DEF NewCall
<1>6. IsPrefix(c.reached, G.marks)
  BY <1>1, PrefixLonger DEF AllMarks
<1>7. c.pending = <<>> => c.reached = G.marks
  BY <1>1, ConcatEmptySeq DEF AllMarks
<1> QED BY <1>4, <1>5, <1>6, <1>7 DEF LeadRight, Rested


\* What a stage asks for.
LEMMA AtIdle ==
  ASSUME step' = "idle"
  PROVE  Stage' /\ step' \in Steps0
BY DEF Stage, Steps0

LEMMA AtLeading ==
  ASSUME step' = "leading", Looking(G', call'), call'.hits = 0
  PROVE  Stage' /\ step' \in Steps0 /\ step' # "idle"
BY DEF Stage, Steps0

LEMMA AtGroup ==
  ASSUME step' = "group", Looking(G', call'), call'.hits = 0
  PROVE  Stage' /\ step' \in Steps0 /\ step' # "idle"
BY DEF Stage, Steps0

LEMMA AtSegments ==
  ASSUME step' = "segments", Looking(G', call'), SegmentsKeyed(G')
  PROVE  Stage' /\ step' \in Steps0 /\ step' # "idle"
BY DEF Stage, Steps0

LEMMA AtHit ==
  ASSUME step' = "hit", Playing(call'), Found(G', call')
  PROVE  Stage' /\ step' \in Steps0 /\ step' # "idle"
BY DEF Stage, Steps0

LEMMA AtJoined ==
  ASSUME step' = "joined", Playing(call'), Found(G', call')
  PROVE  Stage' /\ step' \in Steps0 /\ step' # "idle"
BY DEF Stage, Steps0

LEMMA AtPrefix ==
  ASSUME step' = "prefix", Playing(call'), Begun(G', call'), 0 < call'.hits
  PROVE  Stage' /\ step' \in Steps0 /\ step' # "idle"
BY DEF Stage, Steps0

LEMMA AtKeepJoined ==
  ASSUME step' = "keep joined", Found(G', call'), call'.heard = call'.prefix, call'.pending = <<>>
  PROVE  Stage' /\ step' \in Steps0 /\ step' # "idle"
BY DEF Stage, Steps0

LEMMA AtStart ==
  ASSUME step' = "start", Starting(G', call')
  PROVE  Stage' /\ step' \in Steps0 /\ step' # "idle"
BY DEF Stage, Steps0

LEMMA AtEngine ==
  ASSUME step' = "engine", ~halted' => Speaking(G', call') /\ ~call'.done /\ ~call'.short
  PROVE  Stage' /\ step' \in Steps0 /\ step' # "idle"
BY DEF Stage, Steps0

LEMMA AtAfter ==
  ASSUME step' = "after", ~halted' => Speaking(G', call') /\ Answered(G', call')
  PROVE  Stage' /\ step' \in Steps0 /\ step' # "idle"
BY DEF Stage, Steps0

LEMMA AtClosing ==
  ASSUME step' = "closing", ~halted' => SpokenOut(G', call') /\ call'.at = 0
  PROVE  Stage' /\ step' \in Steps0 /\ step' # "idle"
BY DEF Stage, Steps0

LEMMA AtKeepGroup ==
  ASSUME step' = "keep group", SpokenOut(G', call'), call'.pending = <<>>
  PROVE  Stage' /\ step' \in Steps0 /\ step' # "idle"
BY DEF Stage, Steps0

LEMMA AtKeepSegments ==
  ASSUME step' = "keep segments", SpokenOut(G', call'), call'.pending = <<>>, call'.done, SegmentsKeyed(G'),
         call'.at < Len(G'.segs) - call'.hits
  PROVE  Stage' /\ step' \in Steps0 /\ step' # "idle"
BY DEF Stage, Steps0

\* A step of the call, and one that leaves it.
LEMMA SpeechGoesOn ==
  ASSUME call' \in CallType, LeadRight(call'), IsPrefix(call'.heard, Sound(G')),
         step' # "idle", call'.end = "none", AllMarks(G', call'), Stage'
  PROVE  Speech'
BY Zenon DEF Speech

LEMMA SpeechEnds ==
  ASSUME call' \in CallType, LeadRight(call'), IsPrefix(call'.heard, Sound(G')),
         step' = "idle", Rested(G', call')
  PROVE  Speech'
BY AtIdle, Zenon DEF Speech

-----------------------------------------------------------------------------
(* The steps before the engine is asked                                      *)

LEMMA NewCallIs ==
  ASSUME NEW t \in Texts, NEW g, g = Groups[t], NEW d, d = NewCall(t)
  PROVE  /\ d \in CallType /\ LeadRight(d) /\ Looking(g, d) /\ d.hits = 0 /\ AllMarks(g, d)
         /\ IsPrefix(d.heard, Sound(g)) /\ d.end = "none"
<1>1. g \in TextType
  BY TextIs
<1>2. g.marks \in Seq(Nat) /\ 0 < Len(g.segs)
  BY <1>1, TextParts
<1>3. <<>> \in Seq(Sample) /\ <<>> \in Seq(Seq(Sample)) /\ <<>> \in Seq(Nat) /\ <<>> \o g.marks = g.marks
  BY <1>2, EmptySeq, ConcatEmptySeq
<1>4. d \in CallType
  BY <1>2, <1>3 DEF NewCall, NewShaper, CallType, ShaperType, LeadType
<1>5. /\ d.heard = <<>> /\ d.prefix = <<>> /\ d.reached = <<>> /\ d.pending = g.marks /\ d.end = "none"
      /\ d.lead.kept = <<>> /\ d.hits = 0 /\ d.at = 0 /\ ~d.short
  BY DEF NewCall
<1>6. Untouched(d)
  BY DEF NewCall, Untouched
<1>7. SoundUpTo(g, 0) = <<>> /\ IsPrefix(<<>>, Sound(g))
  <2>1. Sound(g) \in Seq(Sample)
    BY <1>1, <1>2, TextParts, SoundBegins
  <2> QED BY <1>1, <1>3, <2>1, SoundGoesOn, PrefixLonger
<1>8. Looking(g, d)
  BY <1>2, <1>5, <1>6, <1>7 DEF Looking, Begun
<1> QED BY <1>3, <1>4, <1>5, <1>7, <1>8 DEF LeadRight, AllMarks

Ended(c, e) ==
  [NewCall(group) EXCEPT !.heard = c.heard, !.reached = c.reached, !.short = c.short, !.end = e]

LEMMA GStays == ASSUME group' = group PROVE G' = G
BY DEF G

LEMMA LeavesIs ==
  ASSUME group \in Texts, group' = group, NEW c \in CallType, AllMarks(G, c), IsPrefix(c.heard, Sound(G)),
         NEW e \in {"spoken", "cancelled", "failed", "cut"},
         e = "spoken" => c.pending = <<>> /\ (~c.short => c.heard = Sound(G)),
         step' = "idle", call' = Ended(c, e)
  PROVE  Speech' /\ step' \in Steps0
<1>1. ASSUME NEW d, d = Ended(c, e)
      PROVE  d \in CallType /\ LeadRight(d) /\ Rested(G, d) /\ IsPrefix(d.heard, Sound(G))
  BY <1>1, LeftIs DEF Ended
<1>2. call' \in CallType /\ LeadRight(call') /\ Rested(G, call') /\ IsPrefix(call'.heard, Sound(G))
  BY <1>1
<1>3. G' = G
  BY GStays
<1>4. Speech'
  BY <1>2, <1>3, SpeechEnds
<1> QED BY <1>4 DEF Steps0

LEMMA BeginKeeps ==
  ASSUME Typed, NEW g \in Texts, Begin(g)
  PROVE  Typed' /\ Speech'
<1>1. step' = "leading" /\ call' = NewCall(g) /\ group' = g /\ halted' = FALSE /\ paused' = paused
      /\ texts < MaxTexts /\ texts' = texts + 1
  BY DEF Begin, Goes
<1>2. G' = Groups[g]
  BY <1>1 DEF G
<1>3. /\ call' \in CallType /\ LeadRight(call') /\ Looking(G', call') /\ call'.hits = 0 /\ AllMarks(G', call')
      /\ IsPrefix(call'.heard, Sound(G')) /\ call'.end = "none"
  BY <1>1, <1>2, NewCallIs
<1>4. Stage' /\ step' \in Steps0 /\ step' # "idle"
  BY <1>1, <1>3, AtLeading
<1>5. Speech'
  BY <1>3, <1>4, SpeechGoesOn
<1>6. texts' \in 0..MaxTexts
  <2>1. MaxTexts \in Nat
    BY SizesAreNatural
  <2> QED BY <1>1, <2>1 DEF Typed
<1> QED BY <1>1, <1>4, <1>5, <1>6 DEF Typed

\* What the invariant says of a call that is not over.
LEMMA SpeechHas ==
  ASSUME Typed, Speech
  PROVE  /\ G \in TextType /\ call \in CallType /\ LeadRight(call) /\ IsPrefix(call.heard, Sound(G))
         /\ Sound(G) \in Seq(Sample)
         /\ step # "idle" => call.end = "none" /\ AllMarks(G, call)
<1>1. G \in TextType
  BY GIs DEF Typed
<1>2. 0 \in 0..Len(G.segs)
  BY <1>1, TextParts
<1>3. Sound(G) \in Seq(Sample)
  BY <1>1, <1>2, SoundBegins
<1> QED BY <1>1, <1>3, Zenon DEF Speech

\* A step that changes the stage and the call only.
LEMMA TypedStays ==
  ASSUME Typed, keepRequest, step' \in Steps0
  PROVE  Typed' /\ group' = group /\ halted' = halted /\ G' = G /\ group \in Texts /\ halted \in BOOLEAN
BY GStays DEF Typed, keepRequest

\* The call goes on with another that has the same marks and end.
LEMMA GoesOnAs ==
  ASSUME Typed, Speech, keepRequest, step # "idle", step' # "idle", NEW d \in CallType, call' = d,
         LeadRight(d), SameMarks(call, d), d.end = call.end, IsPrefix(d.heard, Sound(G)),
         Stage', step' \in Steps0
  PROVE  Typed' /\ Speech'
<1>1. Typed' /\ G' = G
  BY TypedStays
<1>2. call.end = "none" /\ AllMarks(G, call)
  BY SpeechHas
<1>3. AllMarks(G', call')
  BY <1>1, <1>2 DEF AllMarks, SameMarks
<1> QED BY <1>1, <1>2, <1>3, SpeechGoesOn

\* Telling an index leaves the stage.
LEMMA ToldStays ==
  ASSUME NEW g, NEW c, NEW d, SameSound(c, d)
  PROVE  /\ Looking(g, c) => Looking(g, d)
         /\ Begun(g, c) => Begun(g, d)
         /\ Playing(c) => Playing(d)
         /\ Found(g, c) => Found(g, d)
         /\ LeadRight(c) => LeadRight(d)
BY DEF SameSound, Looking, Begun, Untouched, Playing, Found, LeadRight

LEMMA LeadingKeeps ==
  ASSUME Typed, Speech, Leading
  PROVE  Typed' /\ Speech'
<1>1. step = "leading" /\ keepRequest /\ step # "idle"
  BY DEF Leading
<1>2. Looking(G, call) /\ call.hits = 0
  BY <1>1 DEF Speech, Stage
<1>3. G \in TextType /\ call \in CallType /\ LeadRight(call) /\ IsPrefix(call.heard, Sound(G))
      /\ AllMarks(G, call) /\ call.end = "none"
  BY <1>1, SpeechHas
<1>4. group' = group /\ G' = G /\ group \in Texts
  BY <1>1, GStays DEF keepRequest, Typed
<1>5. CASE ~Due(call, 0)
  <2>1. step' = "group" /\ call' = call
    BY <1>5 DEF Leading, Goes
  <2>2. Stage' /\ step' \in Steps0 /\ step' # "idle"
    BY <1>2, <1>4, <2>1, AtGroup
  <2>3. SameMarks(call, call)
    BY DEF SameMarks
  <2> QED BY <1>1, <1>3, <2>1, <2>2, <2>3, GoesOnAs
<1>6. CASE Due(call, 0) /\ halted
  <2>1. step' = "idle" /\ \E e \in {"cancelled"} : call' = Ended(call, e)
    BY <1>6 DEF Leading, Leaves, Goes, Ended
  <2>2. PICK e \in {"cancelled"} : call' = Ended(call, e)
    BY <2>1
  <2>3. Speech' /\ step' \in Steps0
    BY <1>3, <1>4, <2>1, <2>2, LeavesIs
  <2> QED BY <1>1, <2>3, TypedStays
<1>7. CASE Due(call, 0) /\ ~halted
  <2> DEFINE d == Told(call)
  <2>1. step' = "leading" /\ call' = d /\ call.pending # <<>>
    BY <1>1, <1>7 DEF Leading, Goes, Due
  <2>2. d \in CallType /\ SameSound(call, d) /\ SameMarks(call, d)
    BY <1>3, <2>1, ToldIs
  <2> HIDE DEF d
  <2>3. Looking(G, d) /\ LeadRight(d)
    BY <1>2, <1>3, <2>2, ToldStays
  <2>4. d.hits = 0 /\ d.end = call.end /\ d.heard = call.heard
    BY <1>2, <2>2 DEF SameSound
  <2>5. Stage' /\ step' \in Steps0 /\ step' # "idle"
    BY <1>4, <2>1, <2>3, <2>4, AtLeading
  <2> QED BY <1>1, <1>3, <2>1, <2>2, <2>3, <2>4, <2>5, GoesOnAs
<1> QED BY <1>5, <1>6, <1>7

\* An entry of the text is found: d plays it.
LEMMA HitIs ==
  ASSUME group \in Texts, NEW c \in CallType, Looking(G, c), NEW audio \in Seq(Sample), NEW short \in BOOLEAN,
         IsPrefix(audio, Sound(G)), ~short => audio = Sound(G),
         NEW d, d = [c EXCEPT !.prefix = audio, !.short = short]
  PROVE  /\ d \in CallType /\ SameMarks(c, d) /\ d.end = c.end /\ d.lead = c.lead /\ d.heard = <<>>
         /\ Playing(d) /\ Found(G, d)
<1>1. d \in CallType
  BY DEF CallType
<1>2. d.prefix = audio /\ d.short = short /\ d.reached = c.reached /\ d.pending = c.pending /\ d.end = c.end
      /\ d.lead = c.lead /\ d.heard = c.heard /\ d.at = c.at /\ d.base = c.base
  BY DEF CallType
<1>3. c.at = 0 /\ c.base = 0 /\ c.heard = <<>>
  BY DEF Looking, Begun, Untouched
<1>4. SubSeq(audio, 1, 0) = <<>> /\ 0 <= Len(audio)
  BY EmptySeq
<1>5. Playing(d)
  BY <1>2, <1>3, <1>4 DEF Playing
<1> QED BY <1>1, <1>2, <1>3, <1>5 DEF SameMarks, Found

\* A segment more is found.
SegmentHit(g, i, audio, short) ==
  /\ audio \in Seq(Sample) /\ short \in BOOLEAN /\ IsPrefix(audio, SoundOf(g, i))
  /\ ~short => audio = SoundOf(g, i)
  /\ short => i = Len(g.segs)
HitAdds(c, audio, short, d) == d = [c EXCEPT !.hits = @ + 1, !.prefix = @ \o audio, !.short = @ \/ short]
LEMMA OneSegmentMore ==
  ASSUME group \in Texts, NEW c \in CallType, Looking(G, c), SegmentsKeyed(G), NEW audio, NEW short,
         SegmentHit(G, c.hits + 1, audio, short), NEW d, HitAdds(c, audio, short, d)
  PROVE  /\ d \in CallType /\ SameMarks(c, d) /\ d.end = c.end /\ d.lead = c.lead /\ d.heard = <<>>
         /\ c.hits = Ends(G) => Playing(d) /\ Found(G, d)
         /\ c.hits # Ends(G) => Looking(G, d)
<1> USE DEF HitAdds
<1>0. /\ audio \in Seq(Sample) /\ short \in BOOLEAN /\ IsPrefix(audio, SoundOf(G, c.hits + 1))
      /\ ~short => audio = SoundOf(G, c.hits + 1)
      /\ short => c.hits + 1 = Len(G.segs)
  BY DEF SegmentHit
<1> USE <1>0
<1>1. G \in TextType
  BY GIs
<1>2. Len(G.segs) \in Nat /\ c.hits \in Nat /\ c.prefix \in Seq(Sample) /\ c.short \in BOOLEAN
  BY <1>1, TextParts, CallParts
<1>3. /\ c.at = 0 /\ c.heard = <<>> /\ Untouched(c) /\ ~c.short /\ c.hits < Len(G.segs)
      /\ c.prefix = SoundUpTo(G, c.hits)
  BY DEF Looking, Begun
<1>4. c.prefix \o audio \in Seq(Sample)
  BY <1>2, ConcatProperties
<1>5. d \in CallType
  <2>1. ASSUME NEW h \in Nat, NEW p \in Seq(Sample), NEW s \in BOOLEAN
        PROVE  [c EXCEPT !.hits = h, !.prefix = p, !.short = s] \in CallType
    BY <2>1 DEF CallType
  <2>2. c.hits + 1 \in Nat /\ (c.short \/ short) \in BOOLEAN
    BY <1>2
  <2> QED BY <2>1, <2>2, <1>4, Zenon
<1>6. /\ d.prefix = c.prefix \o audio /\ (d.short <=> short) /\ d.reached = c.reached /\ d.pending = c.pending
      /\ d.end = c.end /\ d.lead = c.lead /\ d.heard = c.heard /\ d.at = c.at /\ d.hits = c.hits + 1
      /\ Untouched(d)
  BY <1>2, <1>3 DEF CallType, Untouched
<1>7. c.hits + 1 \in 1..Len(G.segs) /\ (c.hits + 1) - 1 = c.hits /\ Ends(G) = Len(G.segs) - 1
      /\ (c.hits = Ends(G) <=> c.hits + 1 = Len(G.segs)) /\ Len(G.segs) \in 0..Len(G.segs)
  BY <1>2, <1>3, SMTT(30) DEF Ends
<1>8. SoundUpTo(G, c.hits + 1) = SoundUpTo(G, c.hits) \o SoundOf(G, c.hits + 1)
  BY <1>1, <1>7, SoundGoesOn
<1>9. ~short => d.prefix = SoundUpTo(G, c.hits + 1)
  BY <1>3, <1>6, <1>8
<1>10. IsPrefix(d.prefix, SoundUpTo(G, c.hits + 1))
  <2>1. SoundOf(G, c.hits + 1) \in Seq(Sample)
    BY <1>1, <1>7, SoundOfTyped
  <2>2. IsPrefix(c.prefix \o audio, c.prefix \o SoundOf(G, c.hits + 1))
    BY <2>1, <1>2, PrefixGoesOn
  <2> QED BY <2>2, <1>3, <1>6, <1>8
<1>11. ASSUME c.hits = Ends(G)
       PROVE  Playing(d) /\ Found(G, d)
  <2>1. c.hits + 1 = Len(G.segs)
    BY <1>7, <1>11
  <2>2. SoundUpTo(G, c.hits + 1) = Sound(G)
    BY <2>1 DEF Sound
  <2>3. Found(G, d)
    BY <2>2, <1>6, <1>9, <1>10 DEF Found
  <2>4. SubSeq(d.prefix, 1, 0) = <<>> /\ 0 <= Len(d.prefix)
    BY <1>4, <1>6, EmptySeq
  <2>5. Playing(d)
    BY <2>4, <1>3, <1>6 DEF Playing, Untouched
  <2> QED BY <2>3, <2>5
<1>12. ASSUME c.hits # Ends(G)
       PROVE  Looking(G, d)
  <2>1. ~short /\ c.hits + 1 < Len(G.segs)
    BY <1>2, <1>3, <1>7, <1>12
  <2> QED BY <2>1, <1>3, <1>6, <1>9 DEF Looking, Begun
<1> QED BY <1>3, <1>5, <1>6, <1>11, <1>12 DEF SameMarks

\* Nothing more is found.
LEMMA NothingMore ==
  ASSUME group \in Texts, NEW c \in CallType, Looking(G, c)
  PROVE  /\ c.prefix = <<>> => Starting(G, c)
         /\ c.prefix # <<>> => Playing(c) /\ Begun(G, c) /\ 0 < c.hits
         /\ c.hits = 0 => Starting(G, c)
<1>1. G \in TextType /\ c.hits \in Nat /\ c.prefix \in Seq(Sample)
  BY GIs, CallParts
<1>2. c.at = 0 /\ c.base = 0 /\ c.heard = <<>> /\ Begun(G, c) /\ c.prefix = SoundUpTo(G, c.hits)
  BY DEF Looking, Begun, Untouched
<1>3. SoundUpTo(G, 0) = <<>>
  BY <1>1, SoundGoesOn
<1>4. SubSeq(c.prefix, 1, 0) = <<>> /\ 0 <= Len(c.prefix)
  BY <1>1, EmptySeq
<1>5. c.hits = 0 => c.prefix = <<>>
  BY <1>2, <1>3
<1>6. c.hits = 0 \/ 0 < c.hits
  BY <1>1
<1>7. Playing(c)
  BY <1>2, <1>4 DEF Playing
<1> QED BY <1>2, <1>5, <1>6, <1>7 DEF Starting

LEMMA LookUpGroupKeeps ==
  ASSUME Typed, Speech, CacheRight(cache, tally, curtailed), LookUpGroup
  PROVE  Typed' /\ Speech' /\ CacheRight(cache', tally', curtailed')
<1>1. step = "group" /\ keepRequest /\ step # "idle" /\ tally' = tally /\ curtailed' = curtailed
  BY DEF LookUpGroup
<1>2. Looking(G, call) /\ call.hits = 0
  BY <1>1 DEF Speech, Stage
<1>3. G \in TextType /\ call \in CallType /\ LeadRight(call) /\ IsPrefix(call.heard, Sound(G))
      /\ call.heard = <<>>
  BY <1>1, <1>2, SpeechHas DEF Looking
<1>4. group' = group /\ G' = G /\ group \in Texts
  BY <1>1, GStays DEF keepRequest, Typed
<1>5. ASSUME NEW n \in Entries(GroupKey(G)), cache' = Used(n), step' = "hit",
             call' = [call EXCEPT !.prefix = cache[n].audio, !.short = GroupKey(G) \in curtailed]
      PROVE  Typed' /\ Speech' /\ CacheRight(cache', tally', curtailed')
  <2>1. CacheRight(Used(n), tally, curtailed) /\ cache[n].audio \in Seq(Sample)
        /\ EntryOf(GroupKey(G), cache[n].audio, curtailed)
    BY UsedIs
  <2> DEFINE audio == cache[n].audio
             short == GroupKey(G) \in curtailed
             d == [call EXCEPT !.prefix = audio, !.short = short]
  <2>2. IsPrefix(audio, Sound(G)) /\ (~short => audio = Sound(G))
    BY <2>1, <1>3, TextFound
  <2>3. audio \in Seq(Sample) /\ short \in BOOLEAN /\ call' = d
    BY <1>5, <2>1
  <2> HIDE DEF audio, short
  <2>4. /\ d \in CallType /\ SameMarks(call, d) /\ d.end = call.end /\ d.lead = call.lead /\ d.heard = <<>>
        /\ Playing(d) /\ Found(G, d)
    BY <1>2, <1>3, <1>4, <2>2, <2>3, HitIs
  <2> HIDE DEF d
  <2>5. LeadRight(d)
    BY <1>3, <2>4 DEF LeadRight
  <2>6. Stage' /\ step' \in Steps0 /\ step' # "idle"
    BY <1>4, <1>5, <2>3, <2>4, AtHit
  <2>7. Typed' /\ Speech'
    BY <1>1, <1>3, <2>3, <2>4, <2>5, <2>6, GoesOnAs
  <2> QED BY <1>1, <1>5, <2>1, <2>7
<1>6. ASSUME UNCHANGED cache, call' = call,
             step' = IF SegmentsKeyed(G) THEN "segments" ELSE "start"
      PROVE  Typed' /\ Speech' /\ CacheRight(cache', tally', curtailed')
  <2>1. Stage' /\ step' \in Steps0 /\ step' # "idle"
    <3>1. CASE SegmentsKeyed(G)
      BY <1>2, <1>4, <1>6, <3>1, AtSegments
    <3>2. CASE ~SegmentsKeyed(G)
      <4>1. Starting(G, call)
        BY <1>2, <1>3, <1>4, NothingMore
      <4> QED BY <4>1, <1>4, <1>6, <3>2, AtStart
    <3> QED BY <3>1, <3>2
  <2>2. SameMarks(call, call)
    BY DEF SameMarks
  <2>3. Typed' /\ Speech'
    BY <1>1, <1>3, <1>6, <2>1, <2>2, GoesOnAs
  <2> QED BY <1>1, <1>6, <2>3
<1>7. \/ \E n \in Entries(GroupKey(G)) :
           /\ cache' = Used(n) /\ step' = "hit"
           /\ call' = [call EXCEPT !.prefix = cache[n].audio, !.short = GroupKey(G) \in curtailed]
      \/ UNCHANGED cache /\ call' = call /\ step' = IF SegmentsKeyed(G) THEN "segments" ELSE "start"
  BY DEF LookUpGroup, Goes
<1> QED BY <1>5, <1>6, <1>7

LEMMA LookUpSegmentKeeps ==
  ASSUME Typed, Speech, CacheRight(cache, tally, curtailed), LookUpSegment
  PROVE  Typed' /\ Speech' /\ CacheRight(cache', tally', curtailed')
<1> DEFINE key == SegmentKey(G, call.hits + 1)
<1>1. step = "segments" /\ keepRequest /\ step # "idle" /\ tally' = tally /\ curtailed' = curtailed
  BY DEF LookUpSegment
<1>2. Looking(G, call) /\ SegmentsKeyed(G)
  BY <1>1 DEF Speech, Stage
<1>3. G \in TextType /\ call \in CallType /\ LeadRight(call) /\ IsPrefix(call.heard, Sound(G))
      /\ call.heard = <<>>
  BY <1>1, <1>2, SpeechHas DEF Looking
<1>4. group' = group /\ G' = G /\ group \in Texts
  BY <1>1, GStays DEF keepRequest, Typed
<1>5. ASSUME NEW n \in Entries(key), cache' = Used(n),
             step' = IF call.hits = Ends(G) THEN "joined" ELSE "segments",
             call' = [call EXCEPT !.hits = @ + 1, !.prefix = @ \o cache[n].audio,
                                  !.short = @ \/ key \in curtailed]
      PROVE  Typed' /\ Speech' /\ CacheRight(cache', tally', curtailed')
  <2>1. CacheRight(Used(n), tally, curtailed) /\ cache[n].audio \in Seq(Sample)
        /\ EntryOf(key, cache[n].audio, curtailed)
    BY UsedIs
  <2> DEFINE audio == cache[n].audio
             short == key \in curtailed
             d == [call EXCEPT !.hits = @ + 1, !.prefix = @ \o audio, !.short = @ \/ short]
  <2>2. call.hits + 1 \in 1..Len(G.segs)
    <3>1. call.hits \in Nat /\ Len(G.segs) \in Nat
      BY <1>3, CallParts, TextParts
    <3> QED BY <3>1, <1>2 DEF Looking, Begun
  <2>3. /\ IsPrefix(audio, SoundOf(G, call.hits + 1)) /\ (~short => audio = SoundOf(G, call.hits + 1))
        /\ short => call.hits + 1 = Len(G.segs)
    BY <2>1, <2>2, <1>2, <1>3, SegmentFound
  <2>9. SegmentHit(G, call.hits + 1, audio, short) /\ HitAdds(call, audio, short, d)
    BY <2>1, <2>3 DEF SegmentHit, HitAdds
  <2>4. audio \in Seq(Sample) /\ short \in BOOLEAN /\ call' = d
    BY <1>5, <2>1
  <2> HIDE DEF audio, short, d
  <2>5. /\ d \in CallType /\ SameMarks(call, d) /\ d.end = call.end /\ d.lead = call.lead /\ d.heard = <<>>
        /\ call.hits = Ends(G) => Playing(d) /\ Found(G, d)
        /\ call.hits # Ends(G) => Looking(G, d)
    BY <1>2, <1>3, <1>4, <2>9, OneSegmentMore
  <2>6. LeadRight(d)
    BY <1>3, <2>5 DEF LeadRight
  <2>7. Stage' /\ step' \in Steps0 /\ step' # "idle"
    <3>1. CASE call.hits = Ends(G)
      BY <1>4, <1>5, <2>4, <2>5, <3>1, AtJoined
    <3>2. CASE call.hits # Ends(G)
      BY <1>2, <1>4, <1>5, <2>4, <2>5, <3>2, AtSegments
    <3> QED BY <3>1, <3>2
  <2>8. Typed' /\ Speech'
    BY <1>1, <1>3, <2>4, <2>5, <2>6, <2>7, GoesOnAs
  <2> QED BY <1>1, <1>5, <2>1, <2>8
<1>6. ASSUME UNCHANGED cache, call' = call, step' = IF call.prefix # <<>> THEN "prefix" ELSE "start"
      PROVE  Typed' /\ Speech' /\ CacheRight(cache', tally', curtailed')
  <2>1. /\ call.prefix = <<>> => Starting(G, call)
        /\ call.prefix # <<>> => Playing(call) /\ Begun(G, call) /\ 0 < call.hits
    BY <1>2, <1>3, <1>4, NothingMore
  <2>2. Stage' /\ step' \in Steps0 /\ step' # "idle"
    <3>1. CASE call.prefix # <<>>
      BY <2>1, <1>4, <1>6, <3>1, AtPrefix
    <3>2. CASE call.prefix = <<>>
      BY <2>1, <1>4, <1>6, <3>2, AtStart
    <3> QED BY <3>1, <3>2
  <2>3. SameMarks(call, call)
    BY DEF SameMarks
  <2>4. Typed' /\ Speech'
    BY <1>1, <1>3, <1>6, <2>2, <2>3, GoesOnAs
  <2> QED BY <1>1, <1>6, <2>4
<1>7. \/ \E n \in Entries(key) :
           /\ cache' = Used(n) /\ step' = IF call.hits = Ends(G) THEN "joined" ELSE "segments"
           /\ call' = [call EXCEPT !.hits = @ + 1, !.prefix = @ \o cache[n].audio,
                                   !.short = @ \/ key \in curtailed]
      \/ UNCHANGED cache /\ call' = call /\ step' = IF call.prefix # <<>> THEN "prefix" ELSE "start"
  BY DEF LookUpSegment, Goes
<1> QED BY <1>5, <1>6, <1>7

-----------------------------------------------------------------------------
(* Cached sound is played                                                    *)

LEMMA PlaceInside ==
  ASSUME NEW a \in Nat, NEW b \in Nat, NEW c \in Nat, 0 < c, a <= c
  PROVE  (a * b) \div c \in 0..b
<1> DEFINE x == a * b
           q == x \div c
<1>1. x \in Nat /\ c * b \in Nat
  OBVIOUS
<1>2. x <= c * b
  OBVIOUS
<1>3. q \in Nat /\ q * c <= x
  BY <1>1
<1>4. ASSUME b < q PROVE FALSE
  <2>1. PICK m \in Nat : q = b + 1 + m
    <3>1. q - b - 1 \in Nat /\ q = b + 1 + (q - b - 1)
      BY <1>3, <1>4
    <3> QED BY <3>1
  <2>2. q * c = c * b + c + m * c /\ m * c \in Nat
    BY <2>1
  <2> QED BY <1>1, <1>2, <1>3, <2>2
<1> QED BY <1>3, <1>4

LEMMA PlayedIs ==
  ASSUME NEW c \in CallType, Playing(c), NEW to \in Nat, c.at <= to, to <= Len(c.prefix),
         NEW d, d = Played(c, to)
  PROVE  /\ d \in CallType /\ SameMarks(c, d) /\ d.end = c.end /\ d.lead = c.lead /\ d.pending = c.pending
         /\ d.prefix = c.prefix /\ (d.short <=> c.short) /\ d.hits = c.hits
         /\ Playing(d) /\ d.heard = SubSeq(c.prefix, 1, to) /\ IsPrefix(d.heard, c.prefix)
         /\ \A g : (Begun(g, c) => Begun(g, d)) /\ (Found(g, c) => Found(g, d))
<1>1. /\ c.prefix \in Seq(Sample) /\ c.heard \in Seq(Sample) /\ Len(c.prefix) \in Nat /\ c.at \in Nat
      /\ c.heard = SubSeq(c.prefix, 1, c.at) /\ c.base = 0
  BY CallParts, LenProperties DEF Playing
<1>2. to \in 0..Len(c.prefix) /\ c.at \in 0..to /\ Len(c.prefix) \in 0..Len(c.prefix)
  BY <1>1
<1>3. c.heard \o SubSeq(c.prefix, c.at + 1, to) = SubSeq(c.prefix, 1, to)
  BY <1>1, <1>2, Beginnings
<1>4. SubSeq(c.prefix, 1, to) \in Seq(Sample)
  BY <1>1, <1>2, Beginning
<1>5. IsPrefix(SubSeq(c.prefix, 1, to), c.prefix)
  <2>1. SubSeq(c.prefix, 1, Len(c.prefix)) = c.prefix
    BY <1>1
  <2>2. IsPrefix(SubSeq(c.prefix, 1, to), SubSeq(c.prefix, 1, Len(c.prefix)))
    BY <1>1, <1>2, Beginnings
  <2> QED BY <2>1, <2>2
<1>6. d = [c EXCEPT !.heard = SubSeq(c.prefix, 1, to), !.at = to]
  BY <1>3 DEF Played
<1>7. d \in CallType
  BY <1>4, <1>6, ZenonT(60) DEF CallType
<1>8. /\ d.heard = SubSeq(c.prefix, 1, to) /\ d.at = to /\ SameMarks(c, d) /\ d.end = c.end
      /\ d.lead = c.lead /\ d.pending = c.pending /\ d.prefix = c.prefix /\ d.short = c.short
      /\ d.hits = c.hits /\ d.base = c.base /\ d.given = c.given /\ d.shaper = c.shaper
      /\ d.segment = c.segment /\ d.completed = c.completed /\ d.done = c.done /\ d.ends = c.ends
  BY <1>6 DEF CallType, SameMarks
<1>9. Playing(d)
  BY <1>1, <1>8 DEF Playing
<1>10. \A g : (Begun(g, c) => Begun(g, d)) /\ (Found(g, c) => Found(g, d))
  BY <1>8 DEF Begun, Untouched, Found
<1> QED BY <1>5, <1>7, <1>8, <1>9, <1>10

\* The indexes that are left are inside the text.
LEMMA MarksInside ==
  ASSUME group \in Texts, NEW c \in CallType, AllMarks(G, c), c.pending # <<>>
  PROVE  Head(c.pending) \in Nat /\ Head(c.pending) <= SegmentChars * Len(G.segs)
<1>1. c.reached \in Seq(Nat) /\ c.pending \in Seq(Nat)
  BY CallParts
<1>2. Len(c.pending) \in Nat /\ Len(c.pending) # 0 /\ Len(c.reached) \in Nat
  BY <1>1
<1> DEFINE i == Len(c.reached) + 1
<1>3. i \in DOMAIN G.marks /\ G.marks[i] = Head(c.pending)
  <2>1. G.marks = c.reached \o c.pending
    BY DEF AllMarks
  <2>2. i \in 1..Len(c.reached) + Len(c.pending) /\ i > Len(c.reached) /\ i - Len(c.reached) = 1
    <3>1. \A a, b \in Nat : b # 0 => a + 1 \in 1..a + b /\ a + 1 > a /\ (a + 1) - a = 1
      OBVIOUS
    <3> QED BY <1>2, <3>1
  <2>3. DOMAIN (c.reached \o c.pending) = 1..Len(c.reached) + Len(c.pending)
    BY <1>1, ConcatProperties, LenProperties
  <2>4. (c.reached \o c.pending)[i] = c.pending[i - Len(c.reached)]
    BY <1>1, <2>2, ConcatProperties
  <2>5. c.pending[1] = Head(c.pending)
    BY <1>1
  <2> QED BY <2>1, <2>2, <2>3, <2>4, <2>5
<1>4. G.marks[i] <= SegmentChars * Len(G.segs)
  BY <1>3, GroupsAreKnown DEF G, Texts
<1>5. Head(c.pending) \in Nat
  BY <1>1, <1>2
<1> QED BY <1>3, <1>4, <1>5

LEMMA CharsAre ==
  ASSUME G \in TextType, call \in CallType, step \in {"hit", "joined", "prefix"},
         step = "prefix" => 0 < call.hits
  PROVE  /\ CachedChars \in Nat /\ 0 < CachedChars
         /\ step # "prefix" => CachedChars = SegmentChars * Len(G.segs)
<1>1. SegmentChars \in Nat /\ 0 < SegmentChars /\ call.hits \in Nat /\ Len(G.segs) \in Nat /\ 0 < Len(G.segs)
  BY SizesAreNatural, CallParts, TextParts
<1>2. \A a, b \in Nat : 0 < a /\ 0 < b => a * b \in Nat /\ 0 < a * b
  OBVIOUS
<1>3. CASE step = "prefix"
  <2>1. CachedChars = SegmentChars * call.hits
    BY <1>3 DEF CachedChars
  <2> QED BY <1>1, <1>2, <1>3, <2>1
<1>4. CASE step # "prefix"
  <2>1. CachedChars = SegmentChars * Len(G.segs)
    BY <1>4 DEF CachedChars
  <2> QED BY <1>1, <1>2, <2>1
<1> QED BY <1>3, <1>4

LEMMA FeedCachedKeeps ==
  ASSUME Typed, Speech, FeedCached
  PROVE  Typed' /\ Speech'
<1>1. step \in {"hit", "joined", "prefix"} /\ keepRequest /\ step # "idle"
  BY DEF FeedCached
<1>2. /\ Playing(call)
      /\ step # "prefix" => Found(G, call)
      /\ step = "prefix" => Begun(G, call) /\ 0 < call.hits
  BY <1>1 DEF Speech, Stage
<1>3. G \in TextType /\ call \in CallType /\ LeadRight(call) /\ IsPrefix(call.heard, Sound(G))
      /\ AllMarks(G, call) /\ call.end = "none" /\ Sound(G) \in Seq(Sample)
  BY <1>1, SpeechHas
<1>4. group' = group /\ G' = G /\ group \in Texts
  BY <1>1, GStays DEF keepRequest, Typed
<1>5. CachedChars \in Nat /\ 0 < CachedChars /\ (step # "prefix" => CachedChars = SegmentChars * Len(G.segs))
  BY <1>1, <1>2, <1>3, CharsAre
<1>6. call.prefix \in Seq(Sample) /\ Len(call.prefix) \in Nat /\ call.at \in Nat /\ call.at <= Len(call.prefix)
      /\ call.base = 0 /\ call.pending \in Seq(Nat)
  BY <1>2, <1>3, CallParts, LenProperties DEF Playing
<1>7. IsPrefix(call.prefix, Sound(G))
  <2>1. CASE step # "prefix"
    BY <1>2, <2>1 DEF Found
  <2>2. CASE step = "prefix"
    <3>1. call.prefix = SoundUpTo(G, call.hits) /\ call.hits \in 0..Len(G.segs)
      BY <1>2, <1>3, <2>2, CallParts, TextParts DEF Begun
    <3> QED BY <3>1, <1>3, SoundBegins
  <2> QED BY <2>1, <2>2
\* The stage goes on with a call that is as far.
<1>8. ASSUME NEW d, Playing(d), \A g : (Begun(g, call) => Begun(g, d)) /\ (Found(g, call) => Found(g, d)),
             d.hits = call.hits, step' = step, call' = d
      PROVE  Stage' /\ step' \in Steps0 /\ step' # "idle"
  <2>1. CASE step = "hit"
    BY <1>2, <1>4, <1>8, <2>1, AtHit
  <2>2. CASE step = "joined"
    BY <1>2, <1>4, <1>8, <2>2, AtJoined
  <2>3. CASE step = "prefix"
    BY <1>2, <1>4, <1>8, <2>3, AtPrefix
  <2> QED BY <1>1, <2>1, <2>2, <2>3
<1>9. CASE halted
  <2>1. step' = "idle" /\ \E e \in {"cancelled"} : call' = Ended(call, e)
    BY <1>9 DEF FeedCached, Leaves, Goes, Ended
  <2>2. PICK e \in {"cancelled"} : call' = Ended(call, e)
    BY <2>1
  <2>3. Speech' /\ step' \in Steps0
    BY <1>3, <1>4, <2>1, <2>2, LeavesIs
  <2> QED BY <1>1, <2>3, TypedStays
<1>10. CASE ~halted /\ Due(call, CachedChars)
  <2> DEFINE place == PlaceOf(Head(call.pending))
  <2>1. call.pending # <<>> /\ Head(call.pending) \in Nat /\ Head(call.pending) <= CachedChars
    <3>1. call.pending # <<>> /\ Head(call.pending) <= call.base + CachedChars
      BY <1>10 DEF Due
    <3> QED BY <3>1, <1>5, <1>6
  <2>2. place \in 0..Len(call.prefix)
    BY <2>1, <1>5, <1>6, PlaceInside DEF PlaceOf
  <2>3. step' = step /\ call' = IF place > call.at THEN Played(call, place) ELSE Told(call)
    BY <1>1, <1>10 DEF FeedCached, Goes
  <2> HIDE DEF place
  <2>4. CASE place > call.at
    <3> DEFINE d == Played(call, place)
    <3>1. place \in Nat /\ call.at <= place /\ place <= Len(call.prefix) /\ call' = d
      BY <1>6, <2>2, <2>3, <2>4
    <3>2. /\ d \in CallType /\ SameMarks(call, d) /\ d.end = call.end /\ d.lead = call.lead
          /\ d.hits = call.hits /\ Playing(d) /\ IsPrefix(d.heard, call.prefix)
          /\ \A g : (Begun(g, call) => Begun(g, d)) /\ (Found(g, call) => Found(g, d))
      BY <1>2, <1>3, <3>1, PlayedIs
    <3> HIDE DEF d
    <3>3. Stage' /\ step' \in Steps0 /\ step' # "idle"
      BY <1>8, <2>3, <3>1, <3>2
    <3>4. d.heard \in Seq(Sample)
      BY <3>2, CallParts
    <3>5. IsPrefix(d.heard, Sound(G))
      BY <1>3, <1>6, <1>7, <3>2, <3>4, PrefixGoesOn
    <3>6. LeadRight(d)
      BY <1>3, <3>2 DEF LeadRight
    <3> QED BY <1>1, <1>3, <3>1, <3>2, <3>3, <3>5, <3>6, GoesOnAs
  <2>5. CASE ~(place > call.at)
    <3> DEFINE d == Told(call)
    <3>1. call' = d
      BY <2>3, <2>5
    <3>2. d \in CallType /\ SameSound(call, d) /\ SameMarks(call, d)
      BY <1>3, <2>1, ToldIs
    <3> HIDE DEF d
    <3>3. /\ Playing(d) /\ LeadRight(d) /\ d.hits = call.hits /\ d.end = call.end /\ d.heard = call.heard
          /\ \A g : (Begun(g, call) => Begun(g, d)) /\ (Found(g, call) => Found(g, d))
      <4>1. Playing(d) /\ LeadRight(d)
        BY <1>2, <1>3, <3>2, ToldStays
      <4>2. \A g : (Begun(g, call) => Begun(g, d)) /\ (Found(g, call) => Found(g, d))
        BY <3>2, ToldStays
      <4> QED BY <3>2, <4>1, <4>2 DEF SameSound
    <3>4. Stage' /\ step' \in Steps0 /\ step' # "idle"
      BY <1>8, <2>3, <3>1, <3>3
    <3> QED BY <1>1, <1>3, <3>1, <3>2, <3>3, <3>4, GoesOnAs
  <2> QED BY <2>4, <2>5
<1>11. CASE ~halted /\ ~Due(call, CachedChars)
  <2> DEFINE d == Played(call, Len(call.prefix))
  <2>1. /\ d \in CallType /\ SameMarks(call, d) /\ d.end = call.end /\ d.lead = call.lead
        /\ d.pending = call.pending /\ (d.short <=> call.short) /\ d.hits = call.hits
        /\ d.heard = SubSeq(call.prefix, 1, Len(call.prefix)) /\ d.prefix = call.prefix
        /\ \A g : (Begun(g, call) => Begun(g, d)) /\ (Found(g, call) => Found(g, d))
    BY <1>2, <1>3, <1>6, PlayedIs
  <2>2. /\ step = "hit" => step' = "idle" /\ call' = Ended(d, "spoken")
        /\ step = "joined" => step' = "keep joined" /\ call' = d
        /\ step = "prefix" => step' = "start" /\ call' = d
    BY <1>1, <1>11 DEF FeedCached, Goes, Leaves, Ended
  <2> HIDE DEF d
  <2>3. d.heard = call.prefix /\ IsPrefix(d.heard, Sound(G)) /\ LeadRight(d)
    <3>1. SubSeq(call.prefix, 1, Len(call.prefix)) = call.prefix
      BY <1>6
    <3>2. LeadRight(d)
      BY <1>3, <2>1 DEF LeadRight
    <3> QED BY <1>7, <2>1, <3>1, <3>2
  <2>4. step # "prefix" => d.pending = <<>>
    <3>1. ASSUME step # "prefix", call.pending # <<>> PROVE FALSE
      <4>1. Head(call.pending) \in Nat /\ Head(call.pending) <= SegmentChars * Len(G.segs)
        BY <1>3, <1>4, <3>1, MarksInside
      <4>2. ~(Head(call.pending) <= call.base + CachedChars)
        BY <1>11, <3>1 DEF Due
      <4>3. call.base + CachedChars = CachedChars
        BY <1>5, <1>6
      <4> QED BY <1>5, <3>1, <4>1, <4>2, <4>3
    <3> QED BY <3>1, <2>1
  <2>5. CASE step = "hit"
    <3>1. Found(G, d) /\ d.pending = <<>>
      BY <1>2, <2>1, <2>4, <2>5
    <3>2. ~d.short => d.heard = Sound(G)
      BY <2>1, <2>3, <3>1 DEF Found
    <3>3. AllMarks(G, d)
      BY <1>3, <2>1 DEF AllMarks, SameMarks
    <3>4. \E e \in {"spoken"} : call' = Ended(d, e)
      BY <2>2, <2>5
    <3>5. PICK e \in {"spoken"} : call' = Ended(d, e)
      BY <3>4
    <3>6. Speech' /\ step' \in Steps0
      BY <1>4, <2>1, <2>2, <2>3, <2>5, <3>1, <3>2, <3>3, <3>5, LeavesIs
    <3> QED BY <1>1, <3>6, TypedStays
  <2>6. ASSUME step # "hit"
        PROVE  call' = d /\ Stage' /\ step' \in Steps0 /\ step' # "idle"
    <3>1. CASE step = "joined"
      <4>1. Found(G, d) /\ d.pending = <<>> /\ d.heard = d.prefix
        BY <1>2, <2>1, <2>3, <2>4, <3>1
      <4> QED BY <1>4, <2>2, <3>1, <4>1, AtKeepJoined
    <3>2. CASE step = "prefix"
      <4>1. Starting(G, d)
        BY <1>2, <2>1, <2>3, <3>2 DEF Starting
      <4> QED BY <1>4, <2>2, <3>2, <4>1, AtStart
    <3> QED BY <1>1, <2>6, <3>1, <3>2
  <2>7. CASE step # "hit"
    BY <1>1, <1>3, <2>1, <2>3, <2>6, <2>7, GoesOnAs
  <2> QED BY <2>5, <2>7
<1> QED BY <1>9, <1>10, <1>11

\* What is put into the cache.
LEMMA PutIs ==
  ASSUME CacheRight(cache, tally, curtailed), NEW key \in Keys, NEW audio \in Seq(Sample), NEW short \in BOOLEAN,
         EntryOf(key, audio, IF short THEN curtailed \cup {key} ELSE curtailed \ {key}),
         Put(key, audio, short)
  PROVE  CacheRight(cache', tally', curtailed')
<1> DEFINE cur == IF short THEN curtailed \cup {key} ELSE curtailed \ {key}
<1>1. CASE audio = <<>> \/ Len(audio) > MaxBytes
  <2>1. cache' = cache /\ tally' = tally /\ curtailed' = curtailed
    BY <1>1 DEF Put
  <2> QED BY <2>1
<1>2. CASE ~(audio = <<>> \/ Len(audio) > MaxBytes)
  <2>1. Stored(key, audio) /\ curtailed' = cur
    BY <1>2 DEF Put
  <2>2. Len(audio) <= MaxBytes
    <3>1. Len(audio) \in Nat /\ MaxBytes \in Nat
      BY SizesAreNatural
    <3> QED BY <1>2, <3>1
  <2>3. \A k : k # key => (k \in curtailed <=> k \in cur)
    OBVIOUS
  <2>4. EntryOf(key, audio, cur)
    OBVIOUS
  <2> HIDE DEF cur
  <2>5. CacheRight(cache', tally', cur)
    BY <2>1, <2>2, <2>3, <2>4, StoredIs
  <2> QED BY <2>1, <2>5
<1> QED BY <1>1, <1>2

\* A text, or a segment of one, that was heard is an entry.
LEMMA TextEntry ==
  ASSUME group \in Texts, NEW audio, NEW short \in BOOLEAN, IsPrefix(audio, Sound(G)), ~short => audio = Sound(G)
  PROVE  LET key == GroupKey(G) IN
         key \in Keys /\ EntryOf(key, audio, IF short THEN curtailed \cup {key} ELSE curtailed \ {key})
<1> DEFINE key == GroupKey(G)
           cur == IF short THEN curtailed \cup {key} ELSE curtailed \ {key}
<1>1. key \notin cur => ~short
  OBVIOUS
<1>2. OfText(Groups[group], key, audio, cur)
  BY <1>1 DEF OfText, G
<1>3. key \in Keys
  BY DEF Keys, G
<1> HIDE DEF cur, key
<1>4. EntryOf(key, audio, cur)
  BY <1>2 DEF EntryOf
<1> QED BY <1>3, <1>4 DEF key, cur

LEMMA SegmentEntry ==
  ASSUME group \in Texts, SegmentsKeyed(G), NEW i \in 1..Len(G.segs), NEW audio, NEW short \in BOOLEAN,
         IsPrefix(audio, SoundOf(G, i)), ~short => audio = SoundOf(G, i), short => i = Len(G.segs)
  PROVE  LET key == SegmentKey(G, i) IN
         key \in Keys /\ EntryOf(key, audio, IF short THEN curtailed \cup {key} ELSE curtailed \ {key})
<1> DEFINE key == SegmentKey(G, i)
           cur == IF short THEN curtailed \cup {key} ELSE curtailed \ {key}
<1>1. (key \notin cur => ~short) /\ (key \in cur => short)
  OBVIOUS
<1>2. OfSegment(Groups[group], i, key, audio, cur)
  BY <1>1 DEF OfSegment, G
<1>3. i \in DOMAIN Groups[group].segs
  <2>1. G.segs \in Seq(DOMAIN Shape)
    BY GIs, TextParts
  <2>2. i \in DOMAIN G.segs
    BY <2>1
  <2> QED BY <2>2 DEF G
<1>4. key \in Keys
  BY <1>3 DEF Keys, G
<1>5. SegmentsKeyed(Groups[group])
  BY DEF G
<1> HIDE DEF cur, key
<1>6. EntryOf(key, audio, cur)
  BY <1>2, <1>3, <1>5 DEF EntryOf
<1> QED BY <1>4, <1>6 DEF key, cur

LEMMA KeepJoinedKeeps ==
  ASSUME Typed, Speech, CacheRight(cache, tally, curtailed), KeepJoined
  PROVE  Typed' /\ Speech' /\ CacheRight(cache', tally', curtailed')
<1>1. step = "keep joined" /\ keepRequest /\ step # "idle"
  BY DEF KeepJoined
<1>2. Found(G, call) /\ call.heard = call.prefix /\ call.pending = <<>>
  BY <1>1 DEF Speech, Stage
<1>3. G \in TextType /\ call \in CallType /\ IsPrefix(call.heard, Sound(G)) /\ AllMarks(G, call)
  BY <1>1, SpeechHas
<1>4. group' = group /\ G' = G /\ group \in Texts /\ halted \in BOOLEAN
  BY <1>1, GStays DEF keepRequest, Typed
<1>5. call.prefix \in Seq(Sample) /\ call.short \in BOOLEAN
  BY <1>3, CallParts
<1>6. CacheRight(cache', tally', curtailed')
  <2>1. CASE GroupKeyed(G) /\ ~halted
    <3> DEFINE key == GroupKey(G)
    <3>1. Put(key, call.prefix, call.short)
      BY <2>1 DEF KeepJoined
    <3>2. key \in Keys
          /\ EntryOf(key, call.prefix, IF call.short THEN curtailed \cup {key} ELSE curtailed \ {key})
      BY <1>2, <1>4, <1>5, TextEntry DEF Found
    <3> HIDE DEF key
    <3> QED BY <1>5, <3>1, <3>2, PutIs
  <2>2. CASE ~(GroupKeyed(G) /\ ~halted)
    <3>1. cache' = cache /\ tally' = tally /\ curtailed' = curtailed
      BY <2>2 DEF KeepJoined, keepCache
    <3> QED BY <3>1
  <2> QED BY <2>1, <2>2
<1>7. step' = "idle" /\ \E e \in {"spoken", "cancelled"} : call' = Ended(call, e)
  BY DEF KeepJoined, Leaves, Goes, Ended
<1>8. PICK e \in {"spoken", "cancelled"} : call' = Ended(call, e)
  BY <1>7
<1>9. ~call.short => call.heard = Sound(G)
  BY <1>2 DEF Found
<1>10. Speech' /\ step' \in Steps0
  BY <1>2, <1>3, <1>4, <1>7, <1>8, <1>9, LeavesIs
<1> QED BY <1>1, <1>6, <1>10, TypedStays

-----------------------------------------------------------------------------
(* The engine speaks                                                         *)

\* The call with which the engine is asked.
Asking(c, d) ==
  d = [c EXCEPT !.base = SegmentChars * c.hits, !.live = c.hits + 1,
                !.parts = IF GroupKeyed(G) THEN c.prefix ELSE <<>>,
                !.prefix = <<>>, !.at = 0,
                !.lead = [open |-> Len(G.segs) - c.hits = 1 \/ c.hits > 0, kept |-> <<>>]]

LEMMA AskingIs ==
  ASSUME group \in Texts, NEW c \in CallType, Starting(G, c), NEW d, Asking(c, d)
  PROVE  /\ d \in CallType /\ SameMarks(c, d) /\ d.end = c.end /\ d.heard = c.heard /\ LeadRight(d)
         /\ Speaking(G, d) /\ ~d.done /\ ~d.short
<1>1. G \in TextType
  BY GIs
<1>2. Len(G.segs) \in Nat /\ c.hits \in Nat /\ c.prefix \in Seq(Sample) /\ c.heard \in Seq(Sample)
  BY <1>1, TextParts, CallParts
<1>3. /\ Untouched(c) /\ ~c.short /\ c.hits < Len(G.segs) /\ (c.hits > 0 => SegmentsKeyed(G))
      /\ c.prefix = SoundUpTo(G, c.hits) /\ c.heard = c.prefix
  BY DEF Starting, Begun
<1>4. SegmentChars * c.hits \in Nat /\ c.hits + 1 \in Nat /\ <<>> \in Seq(Sample)
      /\ c.hits + 1 \in 1..Len(G.segs) /\ (c.hits + 1) - 1 = c.hits
  <2>1. SegmentChars \in Nat
    BY SizesAreNatural
  <2>2. \A a, b \in Nat : a * b \in Nat
    OBVIOUS
  <2>3. SegmentChars * c.hits \in Nat
    BY <1>2, <2>1, <2>2
  <2>4. <<>> \in Seq(Sample)
    BY EmptySeq
  <2>5. c.hits + 1 \in Nat /\ c.hits + 1 \in 1..Len(G.segs) /\ (c.hits + 1) - 1 = c.hits
    BY <1>2, <1>3
  <2> QED BY <2>3, <2>4, <2>5
<1>5. d \in CallType
  <2>1. ASSUME NEW b \in Nat, NEW l \in Nat, NEW p \in Seq(Sample), NEW x \in Seq(Sample), NEW o \in BOOLEAN
        PROVE  [c EXCEPT !.base = b, !.live = l, !.parts = p, !.prefix = x, !.at = 0,
                         !.lead = [open |-> o, kept |-> x]] \in CallType
    BY <2>1 DEF CallType, LeadType
  <2>2. (IF GroupKeyed(G) THEN c.prefix ELSE <<>>) \in Seq(Sample)
        /\ (Len(G.segs) - c.hits = 1 \/ c.hits > 0) \in BOOLEAN
    BY <1>2, <1>4
  <2> QED BY <1>4, <2>1, <2>2, Zenon DEF Asking
<1>6. /\ d.base = SegmentChars * c.hits /\ d.live = c.hits + 1 /\ d.at = 0 /\ d.lead.kept = <<>>
      /\ GroupKeyed(G) => d.parts = c.prefix
      /\ d.hits = c.hits /\ d.given = c.given /\ d.shaper = c.shaper /\ d.segment = c.segment
      /\ d.completed = c.completed /\ d.done = c.done /\ d.ends = c.ends /\ d.short = c.short
      /\ d.heard = c.heard /\ d.end = c.end /\ d.reached = c.reached /\ d.pending = c.pending
  BY DEF Asking, CallType
<1>7. LeadRight(d) /\ Total(d) = c.prefix
  BY <1>2, <1>3, <1>6, ConcatEmptySeq DEF LeadRight, Total
<1>8. Came(G, c.hits + 1, 0) = <<>> /\ ShaperOf(G, c.hits + 1, 0, 0) = NewShaper
  BY <1>1, <1>4, NewSegment
<1>9. c.prefix \o <<>> = c.prefix
  BY <1>2, ConcatEmptySeq
<1>10. Placed(G, d)
  <2>1. Given(G, d.live, 1) \in Seq(Sample)
    BY <1>1, <1>4, <1>6, GivenTyped
  <2>2. d.given <= Len(Given(G, d.live, 1))
    BY <2>1, <1>3, <1>6, LenProperties DEF Untouched
  <2>3. d.ends = (d.live - 1) - d.hits
    BY <1>2, <1>3, <1>6 DEF Untouched
  <2> QED BY <2>2, <2>3, <1>2, <1>3, <1>4, <1>6, <1>7 DEF Placed
<1>11. Collected(G, d)
  <2>1. d.completed = <<>> /\ d.ends = 0
    BY <1>3, <1>6 DEF Untouched
  <2> QED BY <2>1 DEF Collected
<1>12. ReadsAt(G, d, 0)
  <2>1. d.given = 0 /\ d.shaper = NewShaper /\ d.segment = <<>>
    BY <1>3, <1>6 DEF Untouched
  <2>2. d.live - 1 = c.hits
    BY <1>4, <1>6
  <2>3. Total(d) = SoundUpTo(G, d.live - 1) \o Came(G, d.live, 0)
    BY <2>2, <1>3, <1>6, <1>7, <1>8, <1>9
  <2> QED BY <2>1, <2>3, <1>6, <1>7, <1>8 DEF ReadsAt, Reads
<1> QED BY <1>3, <1>5, <1>6, <1>7, <1>10, <1>11, <1>12 DEF SameMarks, Speaking, Untouched

LEMMA StartEngineKeeps ==
  ASSUME Typed, Speech, StartEngine
  PROVE  Typed' /\ Speech'
<1>1. step = "start" /\ keepRequest /\ step # "idle"
  BY DEF StartEngine
<1>2. Starting(G, call)
  BY <1>1 DEF Speech, Stage
<1>3. G \in TextType /\ call \in CallType /\ IsPrefix(call.heard, Sound(G)) /\ AllMarks(G, call)
  BY <1>1, SpeechHas
<1>4. group' = group /\ G' = G /\ group \in Texts /\ halted' = halted
  BY <1>1, GStays DEF keepRequest, Typed
<1>5. CASE halted
  <2>1. step' = "idle" /\ \E e \in {"cancelled"} : call' = Ended(call, e)
    BY <1>5 DEF StartEngine, Leaves, Goes, Ended
  <2>2. PICK e \in {"cancelled"} : call' = Ended(call, e)
    BY <2>1
  <2>3. Speech' /\ step' \in Steps0
    BY <1>3, <1>4, <2>1, <2>2, LeavesIs
  <2> QED BY <1>1, <2>3, TypedStays
<1>6. CASE ~halted
  <2>1. step' = "engine" /\ Asking(call, call')
    BY <1>6 DEF StartEngine, Goes, Asking
  <2>2. PICK d : call' = d
    OBVIOUS
  <2>3. /\ d \in CallType /\ SameMarks(call, d) /\ d.end = call.end /\ d.heard = call.heard /\ LeadRight(d)
        /\ Speaking(G, d) /\ ~d.done /\ ~d.short
    BY <1>2, <1>3, <1>4, <2>1, <2>2, AskingIs
  <2>4. Stage' /\ step' \in Steps0 /\ step' # "idle"
    BY <1>4, <2>1, <2>2, <2>3, AtEngine
  <2> QED BY <1>1, <1>3, <2>2, <2>3, <2>4, GoesOnAs
<1> QED BY <1>5, <1>6

\* What the engine gives of a segment does not depend on where a speech begins, where it
\* may begin with another than the first.
LEMMA NowIs ==
  ASSUME group \in Texts, NEW c \in CallType, Placed(G, c)
  PROVE  Given(G, c.live, c.hits + 1) = Given(G, c.live, 1)
<1>1. G \in TextType /\ c.live \in 1..Len(G.segs) /\ c.hits \in Nat
  BY PlacedIs, CallParts
<1>2. CASE c.hits = 0
  BY <1>2
<1>3. CASE c.hits # 0
  <2>1. ~G.tempo
    BY <1>1, <1>3 DEF Placed, SegmentsKeyed
  <2>2. \A first : Given(G, c.live, first) = Raw(G, c.live)
    BY <1>1, <2>1, GivenPlain
  <2> QED BY <2>2
<1> QED BY <1>2, <1>3

\* What the invariant says while the engine speaks.
LEMMA EngineHas ==
  ASSUME Typed, Speech, step = "engine"
  PROVE  /\ G \in TextType /\ call \in CallType /\ LeadRight(call) /\ IsPrefix(call.heard, Sound(G))
         /\ AllMarks(G, call) /\ group \in Texts /\ step # "idle"
         /\ keepRequest => G' = G /\ group' = group /\ halted' = halted
         /\ ~halted => Speaking(G, call) /\ ~call.done /\ ~call.short /\ Placed(G, call) /\ Now = Given(G, call.live, 1)
<1>1. G \in TextType /\ call \in CallType /\ LeadRight(call) /\ IsPrefix(call.heard, Sound(G)) /\ AllMarks(G, call)
  BY SpeechHas
<1>2. group \in Texts /\ (keepRequest => G' = G /\ group' = group /\ halted' = halted)
  BY GStays DEF Typed, keepRequest
<1>3. ~halted => Speaking(G, call) /\ ~call.done /\ ~call.short
  BY DEF Speech, Stage
<1>4. ~halted => Placed(G, call)
  BY <1>3 DEF Speaking
<1>5. ~halted => Now = Given(G, call.live, 1)
  BY <1>1, <1>2, <1>4, NowIs DEF Now
<1> QED BY <1>1, <1>2, <1>3, <1>4, <1>5

\* The engine goes on with a call that speaks.
LEMMA EngineGoesOn ==
  ASSUME Typed, Speech, step = "engine", keepRequest, ~halted, step' = "engine",
         NEW d \in CallType, call' = d, Speaking(G, d), SameMarks(call, d), d.end = call.end, ~d.done, ~d.short
  PROVE  Typed' /\ Speech'
<1>1. G \in TextType /\ G' = G /\ halted' = halted /\ step # "idle" /\ LeadRight(d)
  BY EngineHas DEF Speaking, Placed
<1>2. IsPrefix(d.heard, Sound(G))
  BY <1>1, SpeakingBegins
<1>3. Stage' /\ step' \in Steps0 /\ step' # "idle"
  BY <1>1, AtEngine
<1> QED BY <1>1, <1>2, <1>3, GoesOnAs

LEMMA EngineAudioKeeps ==
  ASSUME Typed, Speech, EngineAudio
  PROVE  Typed' /\ Speech'
<1>1. step = "engine" /\ keepRequest /\ ~halted
  BY DEF EngineAudio, InEngine
<1>2. PICK n \in 1..MaxPacket :
        step' = "engine" /\ call.given + n <= Len(Given(G, call.live, 1)) /\ Packet(call, n, call')
  <2>1. Now = Given(G, call.live, 1)
    BY <1>1, EngineHas
  <2> HIDE DEF Now
  <2> QED BY <2>1 DEF EngineAudio, Goes, Packet
<1>3. PICK d : call' = d
  OBVIOUS
<1>4. n \in Nat /\ Packet(call, n, d)
  BY <1>2, <1>3
<1>5. /\ d \in CallType /\ Speaking(G, d) /\ SameMarks(call, d)
      /\ d.end = call.end /\ d.done = call.done /\ d.short = call.short
  BY <1>1, <1>2, <1>4, EngineHas, PacketKeeps
<1>6. ~d.done /\ ~d.short
  BY <1>1, <1>5, EngineHas
<1> QED BY <1>1, <1>2, <1>3, <1>5, <1>6, EngineGoesOn

LEMMA SpeakingStays ==
  ASSUME NEW g, NEW c, NEW d, SameSound(c, d), Speaking(g, c)
  PROVE  Speaking(g, d)
<1>1. Placed(g, d)
  BY DEF SameSound, Speaking, Placed, LeadRight
<1>2. Collected(g, d)
  BY DEF SameSound, Speaking, Collected
<1>3. PICK k : ReadsAt(g, c, k)
  BY DEF Speaking
<1>4. ReadsAt(g, d, k)
  BY <1>3 DEF SameSound, ReadsAt, Reads, Total
<1> QED BY <1>1, <1>2, <1>4 DEF Speaking

LEMMA EngineMarkKeeps ==
  ASSUME Typed, Speech, EngineMark
  PROVE  Typed' /\ Speech'
<1>1. step = "engine" /\ keepRequest /\ ~halted
  BY DEF EngineMark, InEngine
<1>2. PICK word \in 0..SegmentChars - 1 :
        step' = "engine" /\ call' = Marked(call, SegmentChars * (call.live - 1) - call.base + word)
  BY DEF EngineMark, Goes
<1> DEFINE offset == SegmentChars * (call.live - 1) - call.base + word
           d == Marked(call, offset)
<1>3. call \in CallType /\ Speaking(G, call) /\ Placed(G, call) /\ ~call.done /\ ~call.short
  BY <1>1, EngineHas
<1>4. offset \in Nat
  <2>1. /\ call.live - 1 \in Nat /\ call.hits \in Nat /\ call.hits <= call.live - 1
        /\ call.base = SegmentChars * call.hits
    <3>1. call.live \in Nat /\ call.hits \in Nat
      BY <1>3, CallParts
    <3> QED BY <1>3, <3>1 DEF Placed
  <2>2. \A a, b, c \in Nat : b <= c => a * c - a * b \in Nat
    <3>1. ASSUME NEW a \in Nat, NEW b \in Nat, NEW c \in Nat, b <= c PROVE a * c - a * b \in Nat
      <4>1. c - b \in Nat /\ a * (c - b) \in Nat /\ a * c - a * b = a * (c - b)
        BY <3>1
      <4> QED BY <4>1
    <3> QED BY <3>1
  <2>3. SegmentChars \in Nat /\ word \in Nat
    BY SizesAreNatural
  <2>4. SegmentChars * (call.live - 1) - SegmentChars * call.hits \in Nat
    BY <2>1, <2>2, <2>3
  <2> QED BY <2>1, <2>3, <2>4
<1> HIDE DEF offset
<1>5. call' = d /\ step' = "engine"
  BY <1>2 DEF offset
<1>6. d \in CallType /\ SameSound(call, d) /\ SameMarks(call, d)
  BY <1>3, <1>4, MarkedIs
<1> HIDE DEF d
<1>7. Speaking(G, d) /\ d.end = call.end /\ ~d.done /\ ~d.short
  BY <1>3, <1>6, SpeakingStays DEF SameSound
<1> QED BY <1>1, <1>5, <1>6, <1>7, EngineGoesOn

LEMMA EngineSegmentEndKeeps ==
  ASSUME Typed, Speech, EngineSegmentEnd
  PROVE  Typed' /\ Speech'
<1>1. step = "engine" /\ keepRequest /\ call.given = Len(Now) /\ call.live < Len(G.segs)
  BY DEF EngineSegmentEnd, InEngine, Spent
<1>2. step' = "engine" /\ SegmentEndsFrom(call, call')
  BY DEF EngineSegmentEnd, Goes, SegmentEndsFrom
<1>3. PICK d : call' = d
  OBVIOUS
<1>4. SegmentEndsFrom(call, d)
  BY <1>2, <1>3
<1>5. /\ G \in TextType /\ call \in CallType /\ LeadRight(call) /\ IsPrefix(call.heard, Sound(G))
      /\ group \in Texts /\ step # "idle" /\ G' = G /\ halted' = halted
      /\ ~halted => Speaking(G, call) /\ ~call.done /\ ~call.short /\ Now = Given(G, call.live, 1)
  BY <1>1, EngineHas
<1>6. d \in CallType /\ LeadRight(d) /\ SameMarks(call, d) /\ d.end = call.end /\ (halted => d.heard = call.heard)
  BY <1>4, <1>5, SegmentEndTyped
<1>7. CASE ~halted
  <2>1. Speaking(G, d) /\ d.done = call.done /\ d.short = call.short
    BY <1>1, <1>4, <1>5, <1>7, SegmentEndKeeps
  <2> QED BY <1>1, <1>2, <1>3, <1>5, <1>6, <1>7, <2>1, EngineGoesOn
<1>8. CASE halted
  <2>1. Stage' /\ step' \in Steps0 /\ step' # "idle"
    BY <1>2, <1>5, <1>8, AtEngine
  <2> QED BY <1>1, <1>3, <1>5, <1>6, <1>8, <2>1, GoesOnAs
<1> QED BY <1>7, <1>8

\* The engine's answer.
Answering(c, short, d) == d = [c EXCEPT !.done = TRUE, !.short = short]

LEMMA DoneIs ==
  ASSUME NEW c \in CallType, NEW short \in BOOLEAN, NEW d, Answering(c, short, d)
  PROVE  /\ d \in CallType /\ SameMarks(c, d) /\ d.end = c.end /\ d.heard = c.heard /\ d.lead = c.lead
         /\ d.live = c.live /\ d.given = c.given /\ d.short = short
         /\ \A g : Speaking(g, c) => Speaking(g, d)
<1> USE DEF Answering
<1>1. d \in CallType
  BY DEF CallType
<1>2. /\ d.base = c.base /\ d.hits = c.hits /\ d.at = c.at /\ d.live = c.live /\ d.given = c.given
      /\ d.shaper = c.shaper /\ d.lead = c.lead /\ d.parts = c.parts /\ d.segment = c.segment
      /\ d.completed = c.completed /\ d.ends = c.ends /\ d.heard = c.heard /\ d.end = c.end
      /\ d.reached = c.reached /\ d.pending = c.pending /\ d.short = short
  BY DEF CallType
<1>3. ASSUME NEW g, Speaking(g, c) PROVE Speaking(g, d)
  <2>1. Placed(g, d)
    BY <1>2, <1>3 DEF Speaking, Placed, LeadRight
  <2>2. Collected(g, d)
    BY <1>2, <1>3 DEF Speaking, Collected
  <2>3. PICK k : ReadsAt(g, c, k)
    BY <1>3 DEF Speaking
  <2>4. ReadsAt(g, d, k)
    BY <1>2, <2>3 DEF ReadsAt, Reads, Total
  <2> QED BY <2>1, <2>2, <2>4 DEF Speaking
<1> QED BY <1>1, <1>2, <1>3 DEF SameMarks

LEMMA EngineDoneKeeps ==
  ASSUME Typed, Speech, EngineDone
  PROVE  Typed' /\ Speech'
<1>1. step = "engine" /\ keepRequest /\ call.live = Len(G.segs) /\ step' = "after"
  BY DEF EngineDone, InEngine, Goes
<1>2. PICK short \in BOOLEAN : short = ~Spent
  OBVIOUS
<1>3. PICK d : Answering(call, short, d)
  BY DEF Answering
<1>4. call' = d
  BY <1>2, <1>3 DEF EngineDone, Goes, Answering
<1>5. /\ G \in TextType /\ call \in CallType /\ LeadRight(call) /\ IsPrefix(call.heard, Sound(G))
      /\ step # "idle" /\ G' = G /\ halted' = halted
      /\ ~halted => Speaking(G, call) /\ Now = Given(G, call.live, 1)
  BY <1>1, EngineHas
<1>6. /\ d \in CallType /\ SameMarks(call, d) /\ d.end = call.end /\ d.heard = call.heard /\ d.lead = call.lead
      /\ d.live = call.live /\ d.given = call.given /\ d.short = short
      /\ \A g : Speaking(g, call) => Speaking(g, d)
  BY <1>3, <1>5, DoneIs
<1>7. ~halted => Speaking(G, d) /\ Answered(G, d)
  <2>1. ~halted /\ ~d.short => d.given = Len(Given(G, d.live, 1))
    BY <1>2, <1>5, <1>6 DEF Spent
  <2> QED BY <2>1, <1>1, <1>5, <1>6 DEF Answered
<1>8. Stage' /\ step' \in Steps0 /\ step' # "idle"
  BY <1>1, <1>4, <1>5, <1>7, AtAfter
<1>9. LeadRight(d)
  BY <1>5, <1>6 DEF LeadRight
<1> QED BY <1>1, <1>4, <1>5, <1>6, <1>8, <1>9, GoesOnAs

LEMMA EngineCutKeeps ==
  ASSUME Typed, Speech, EngineCut
  PROVE  Typed' /\ Speech'
<1>1. step = "engine" /\ keepRequest /\ step' = "after" /\ call' = call
  BY DEF EngineCut, InEngine, Goes
<1>2. /\ G \in TextType /\ call \in CallType /\ LeadRight(call) /\ IsPrefix(call.heard, Sound(G))
      /\ step # "idle" /\ G' = G /\ halted' = halted
      /\ ~halted => Speaking(G, call) /\ ~call.done
  BY <1>1, EngineHas
<1>3. Stage' /\ step' \in Steps0 /\ step' # "idle"
  BY <1>1, <1>2, AtAfter DEF Answered
<1>4. SameMarks(call, call)
  BY DEF SameMarks
<1> QED BY <1>1, <1>2, <1>3, <1>4, GoesOnAs

LEMMA EngineRaisesKeeps ==
  ASSUME Typed, Speech, EngineRaises
  PROVE  Typed' /\ Speech'
<1>1. step = "engine" /\ keepRequest
  BY DEF EngineRaises, InEngine
<1>2. step' = "idle" /\ \E e \in {"cancelled", "failed"} : call' = Ended(call, e)
  BY DEF EngineRaises, Leaves, Goes, Ended
<1>3. PICK e \in {"cancelled", "failed"} : call' = Ended(call, e)
  BY <1>2
<1>4. Speech' /\ step' \in Steps0
  BY <1>1, <1>2, <1>3, EngineHas, LeavesIs
<1> QED BY <1>1, <1>4, TypedStays

LEMMA FinishStepKeeps ==
  ASSUME Typed, Speech, Finish
  PROVE  Typed' /\ Speech'
<1>1. step = "after" /\ keepRequest /\ step' = "closing" /\ step # "idle"
  BY DEF Finish, Goes
<1>2. PICK d : d = Finished(call)
  OBVIOUS
<1>3. call' = d
  BY <1>2 DEF Finish, Goes
<1>4. /\ G \in TextType /\ call \in CallType /\ LeadRight(call) /\ IsPrefix(call.heard, Sound(G))
  BY <1>1, SpeechHas
<1>5. G' = G /\ group \in Texts /\ halted' = halted
  BY <1>1, GStays DEF keepRequest, Typed
<1>6. d \in CallType /\ LeadRight(d) /\ SameMarks(call, d) /\ d.end = call.end /\ (halted => d.heard = call.heard)
  BY <1>2, <1>4, FinishTyped
<1>7. ~halted => SpokenOut(G, d) /\ d.at = 0 /\ IsPrefix(d.heard, Sound(G))
  <2>1. ~halted => Speaking(G, call) /\ Answered(G, call)
    BY <1>1 DEF Speech, Stage
  <2> QED BY <2>1, <1>2, <1>4, <1>5, FinishKeeps
<1>8. Stage' /\ step' \in Steps0 /\ step' # "idle"
  BY <1>1, <1>3, <1>5, <1>7, AtClosing
<1>9. IsPrefix(d.heard, Sound(G))
  <2>1. CASE halted
    BY <1>4, <1>6, <2>1
  <2>2. CASE ~halted
    BY <1>7, <2>2
  <2> QED BY <2>1, <2>2
<1> QED BY <1>1, <1>3, <1>6, <1>8, <1>9, GoesOnAs

LEMMA SpokenOutStays ==
  ASSUME NEW g, NEW c, NEW d, SameSound(c, d), SpokenOut(g, c)
  PROVE  SpokenOut(g, d)
BY DEF SameSound, SpokenOut, PartsRight, SegmentsRight

LEMMA TellRestKeeps ==
  ASSUME Typed, Speech, TellRest
  PROVE  Typed' /\ Speech'
<1>1. step = "closing" /\ keepRequest /\ step # "idle"
  BY DEF TellRest
<1>2. ~halted => SpokenOut(G, call) /\ call.at = 0
  BY <1>1 DEF Speech, Stage
<1>3. G \in TextType /\ call \in CallType /\ LeadRight(call) /\ IsPrefix(call.heard, Sound(G)) /\ AllMarks(G, call)
  BY <1>1, SpeechHas
<1>4. group' = group /\ G' = G /\ group \in Texts /\ halted' = halted
  BY <1>1, GStays DEF keepRequest, Typed
<1>5. CASE halted
  <2>1. step' = "idle" /\ \E e \in {"cancelled"} : call' = Ended(call, e)
    BY <1>5 DEF TellRest, Leaves, Goes, Ended
  <2>2. PICK e \in {"cancelled"} : call' = Ended(call, e)
    BY <2>1
  <2>3. Speech' /\ step' \in Steps0
    BY <1>3, <1>4, <2>1, <2>2, LeavesIs
  <2> QED BY <1>1, <2>3, TypedStays
<1>6. CASE ~halted /\ call.pending # <<>>
  <2> DEFINE d == Told(call)
  <2>1. step' = "closing" /\ call' = d
    BY <1>1, <1>6 DEF TellRest, Goes
  <2>2. d \in CallType /\ SameSound(call, d) /\ SameMarks(call, d)
    BY <1>3, <1>6, ToldIs
  <2> HIDE DEF d
  <2>3. LeadRight(d) /\ SpokenOut(G, d)
    BY <1>2, <1>3, <1>6, <2>2, ToldStays, SpokenOutStays
  <2>4. d.end = call.end /\ d.heard = call.heard /\ d.at = 0
    BY <1>2, <1>6, <2>2 DEF SameSound
  <2>5. Stage' /\ step' \in Steps0 /\ step' # "idle"
    BY <1>4, <2>1, <2>3, <2>4, AtClosing
  <2> QED BY <1>1, <1>3, <2>1, <2>2, <2>3, <2>4, <2>5, GoesOnAs
<1>7. CASE ~halted /\ call.pending = <<>>
  <2>1. /\ call' = call
        /\ \/ step' = "keep segments" /\ Complete(call) /\ SegmentsKeyed(G)
           \/ step' = "keep group"
    BY <1>1, <1>7 DEF TellRest, Goes
  <2>2. Stage' /\ step' \in Steps0 /\ step' # "idle"
    <3>1. CASE step' = "keep segments" /\ Complete(call) /\ SegmentsKeyed(G)
      <4>1. call.done /\ SpokenOut(G, call) /\ call.at = 0 /\ call.hits < Len(G.segs)
        BY <1>2, <1>7, <3>1 DEF Complete, SpokenOut
      <4>2. call.hits \in Nat /\ Len(G.segs) \in Nat
        BY <1>3, CallParts, TextParts
      <4>3. call.at < Len(G.segs) - call.hits
        BY <4>1, <4>2
      <4> QED BY <1>4, <1>7, <2>1, <3>1, <4>1, <4>3, AtKeepSegments
    <3>2. CASE step' = "keep group"
      BY <1>2, <1>4, <1>7, <2>1, <3>2, AtKeepGroup
    <3> QED BY <2>1, <3>1, <3>2
  <2>3. SameMarks(call, call)
    BY DEF SameMarks
  <2> QED BY <1>1, <1>3, <2>1, <2>2, <2>3, GoesOnAs
<1> QED BY <1>5, <1>6, <1>7

-----------------------------------------------------------------------------
(* What was heard is kept                                                    *)

LEMMA KeepSegmentKeeps ==
  ASSUME Typed, Speech, CacheRight(cache, tally, curtailed), KeepSegment
  PROVE  Typed' /\ Speech' /\ CacheRight(cache', tally', curtailed')
<1> DEFINE n == call.at + 1
           i == call.hits + n
           audio == call.completed[n]
           short == call.short /\ i = Len(G.segs)
           key == SegmentKey(G, i)
<1>1. step = "keep segments" /\ keepRequest /\ step # "idle"
  BY DEF KeepSegment
<1>2. SpokenOut(G, call) /\ call.pending = <<>> /\ call.done /\ SegmentsKeyed(G)
      /\ call.at < Len(G.segs) - call.hits
  BY <1>1 DEF Speech, Stage
<1>3. G \in TextType /\ call \in CallType /\ LeadRight(call) /\ IsPrefix(call.heard, Sound(G)) /\ AllMarks(G, call)
  BY <1>1, SpeechHas
<1>4. group' = group /\ G' = G /\ group \in Texts
  BY <1>1, GStays DEF keepRequest, Typed
<1>5. call.hits \in Nat /\ call.at \in Nat /\ Len(G.segs) \in Nat /\ call.short \in BOOLEAN
      /\ call.completed \in Seq(Seq(Sample)) /\ call.hits < Len(G.segs)
  BY <1>2, <1>3, CallParts, TextParts DEF SpokenOut
<1>6. SegmentsRight(G, call)
  BY <1>2 DEF SpokenOut
<1>7. Len(call.completed) = Len(G.segs) - call.hits
      /\ \A m \in 1..Len(call.completed) :
           /\ IsPrefix(call.completed[m], SoundOf(G, call.hits + m))
           /\ ~call.short \/ call.hits + m # Len(G.segs) => call.completed[m] = SoundOf(G, call.hits + m)
  BY <1>2, <1>6 DEF SegmentsRight
<1>8. n \in 1..Len(call.completed) /\ i \in 1..Len(G.segs) /\ n \in Nat
  <2>1. \A h, a, l, s \in Nat : h < s /\ a < s - h /\ l = s - h =>
          a + 1 \in 1..l /\ h + (a + 1) \in 1..s /\ a + 1 \in Nat
    OBVIOUS
  <2>2. Len(call.completed) \in Nat
    BY <1>5
  <2> QED BY <1>2, <1>5, <1>7, <2>1, <2>2
<1>9. audio \in Seq(Sample)
  BY <1>5, <1>8
<1>10. IsPrefix(audio, SoundOf(G, i)) /\ (~short => audio = SoundOf(G, i)) /\ (short => i = Len(G.segs))
       /\ short \in BOOLEAN
  BY <1>5, <1>7, <1>8
<1>11. key \in Keys /\ EntryOf(key, audio, IF short THEN curtailed \cup {key} ELSE curtailed \ {key})
  <2> HIDE DEF audio, short, n
  <2> QED BY <1>2, <1>4, <1>8, <1>10, SegmentEntry
<1>12. CacheRight(cache', tally', curtailed')
  <2>1. CASE Kept(audio)
    <3>1. Put(key, audio, short)
      BY <2>1 DEF KeepSegment
    <3> HIDE DEF key, audio, short
    <3> QED BY <1>9, <1>10, <1>11, <3>1, PutIs
  <2>2. CASE ~Kept(audio)
    <3>1. cache' = cache /\ tally' = tally /\ curtailed' = curtailed
      BY <2>2 DEF KeepSegment, keepCache
    <3> QED BY <3>1
  <2> QED BY <2>1, <2>2
<1> DEFINE d == [call EXCEPT !.at = n]
<1>13. call' = d /\ step' = IF i = Len(G.segs) THEN "keep group" ELSE "keep segments"
  BY <1>1 DEF KeepSegment, Goes
<1>14. d \in CallType
  BY <1>3, <1>8 DEF CallType
<1>15. /\ d.at = n /\ d.hits = call.hits /\ d.lead = call.lead /\ d.pending = call.pending
       /\ d.reached = call.reached /\ d.done = call.done /\ d.short = call.short /\ d.heard = call.heard
       /\ d.parts = call.parts /\ d.completed = call.completed /\ d.end = call.end
  BY <1>3 DEF CallType
<1> HIDE DEF d
<1>16. SpokenOut(G, d)
  BY <1>2, <1>15 DEF SpokenOut, PartsRight, SegmentsRight
<1>17. LeadRight(d) /\ SameMarks(call, d)
  BY <1>3, <1>15 DEF LeadRight, SameMarks
<1>18. Stage' /\ step' \in Steps0 /\ step' # "idle"
  <2>1. CASE i = Len(G.segs)
    BY <1>2, <1>4, <1>13, <1>15, <1>16, <2>1, AtKeepGroup
  <2>2. CASE i # Len(G.segs)
    <3>1. d.at < Len(G.segs) - d.hits
      BY <1>5, <1>8, <1>15, <2>2
    <3> QED BY <1>2, <1>4, <1>13, <1>15, <1>16, <2>2, <3>1, AtKeepSegments
  <2> QED BY <2>1, <2>2
<1>19. Typed' /\ Speech'
  BY <1>1, <1>3, <1>13, <1>14, <1>15, <1>17, <1>18, GoesOnAs
<1> QED BY <1>12, <1>19

LEMMA KeepGroupKeeps ==
  ASSUME Typed, Speech, CacheRight(cache, tally, curtailed), KeepGroup
  PROVE  Typed' /\ Speech' /\ CacheRight(cache', tally', curtailed')
<1>1. step = "keep group" /\ keepRequest /\ step # "idle"
  BY DEF KeepGroup
<1>2. SpokenOut(G, call) /\ call.pending = <<>>
  BY <1>1 DEF Speech, Stage
<1>3. G \in TextType /\ call \in CallType /\ IsPrefix(call.heard, Sound(G)) /\ AllMarks(G, call)
  BY <1>1, SpeechHas
<1>4. group' = group /\ group \in Texts
  BY <1>1 DEF keepRequest, Typed
<1>5. call.parts \in Seq(Sample) /\ call.short \in BOOLEAN
  BY <1>3, CallParts
<1>6. Complete(call) => (~call.short => call.heard = Sound(G)) /\ PartsRight(G, call)
  BY <1>2 DEF Complete, SpokenOut
<1>7. CacheRight(cache', tally', curtailed')
  <2>1. CASE GroupKeyed(G) /\ Complete(call) /\ ~halted /\ Kept(call.parts)
    <3> DEFINE key == GroupKey(G)
    <3>1. Put(key, call.parts, call.short)
      BY <2>1 DEF KeepGroup
    <3>2. key \in Keys
          /\ EntryOf(key, call.parts, IF call.short THEN curtailed \cup {key} ELSE curtailed \ {key})
      BY <1>4, <1>5, <1>6, <2>1, TextEntry DEF PartsRight
    <3> HIDE DEF key
    <3> QED BY <1>5, <3>1, <3>2, PutIs
  <2>2. CASE ~(GroupKeyed(G) /\ Complete(call) /\ ~halted /\ Kept(call.parts))
    <3>1. cache' = cache /\ tally' = tally /\ curtailed' = curtailed
      BY <2>2 DEF KeepGroup, keepCache
    <3> QED BY <3>1
  <2> QED BY <2>1, <2>2
<1>8. step' = "idle" /\ \E e \in {"spoken", "cut", "cancelled"} :
                          call' = Ended(call, e) /\ (e = "spoken" => Complete(call))
  <2>1. CASE halted
    BY <2>1 DEF KeepGroup, Leaves, Goes, Ended
  <2>2. CASE ~halted /\ Complete(call)
    BY <2>2 DEF KeepGroup, Leaves, Goes, Ended
  <2>3. CASE ~halted /\ ~Complete(call)
    BY <2>3 DEF KeepGroup, Leaves, Goes, Ended
  <2> QED BY <2>1, <2>2, <2>3
<1>9. PICK e \in {"spoken", "cut", "cancelled"} : call' = Ended(call, e) /\ (e = "spoken" => Complete(call))
  BY <1>8
<1>10. Speech' /\ step' \in Steps0
  BY <1>2, <1>3, <1>4, <1>6, <1>8, <1>9, LeavesIs
<1> QED BY <1>1, <1>7, <1>10, TypedStays

-----------------------------------------------------------------------------
(* The main thread                                                           *)

LEMMA HaltKeeps ==
  ASSUME Typed, Speech, Halt
  PROVE  Typed' /\ Speech' /\ keepCache
<1>1. /\ halted' = TRUE /\ paused' = FALSE /\ texts' = texts /\ step' = step /\ group' = group
      /\ call' = call /\ keepCache
  BY DEF Halt
<1>2. G' = G
  BY <1>1, GStays
<1>3. Stage => Stage'
  BY <1>1, <1>2, ZenonT(60) DEF Stage
<1>4. Speech'
  BY <1>1, <1>2, <1>3 DEF Speech, AllMarks, Rested
<1> QED BY <1>1, <1>4 DEF Typed

LEMMA PauseKeeps ==
  ASSUME Typed, Speech, Pause
  PROVE  Typed' /\ Speech' /\ keepCache
<1>1. /\ halted' = halted /\ paused' = ~paused /\ texts' = texts /\ step' = step /\ group' = group
      /\ call' = call /\ keepCache
  BY DEF Pause
<1>2. G' = G
  BY <1>1, GStays
<1>3. Stage => Stage'
  BY <1>1, <1>2, ZenonT(60) DEF Stage
<1>4. Speech'
  BY <1>1, <1>2, <1>3 DEF Speech, AllMarks, Rested
<1> QED BY <1>1, <1>4 DEF Typed

LEMMA NoCacheRight == CacheRight(<<>>, 0, {})
<1>1. <<>> \in Seq(CacheEntry) /\ Len(<<>>) = 0
  BY EmptySeq
<1>2. MaxBytes \in Nat /\ MaxItems \in Nat
  BY SizesAreNatural
<1>3. 1..0 = {}
  OBVIOUS
<1> QED BY <1>1, <1>2, <1>3, SizeEmpty DEF CacheRight, Unique, AllTrue

LEMMA ClearCacheKeeps ==
  ASSUME Typed, Speech, ClearCache
  PROVE  Typed' /\ Speech' /\ CacheRight(cache', tally', curtailed')
<1>1. /\ keepRequest /\ step' = step /\ call' = call /\ cache' = <<>> /\ tally' = 0 /\ curtailed' = {}
  BY DEF ClearCache
<1>2. G' = G /\ halted' = halted /\ step \in Steps0
  BY <1>1, GStays DEF keepRequest, Typed
<1>3. Stage => Stage'
  BY <1>1, <1>2, ZenonT(60) DEF Stage
<1>4. Speech'
  BY <1>1, <1>2, <1>3 DEF Speech, AllMarks, Rested
<1> QED BY <1>1, <1>2, <1>4, NoCacheRight, TypedStays

-----------------------------------------------------------------------------
(* The invariant holds, and what follows                                     *)

LEMMA AudioStart == AudioInit => AudioInv
<1> SUFFICES ASSUME AudioInit PROVE AudioInv
  OBVIOUS
<1>1. /\ cache = <<>> /\ tally = 0 /\ halted = FALSE /\ paused = FALSE /\ texts = 0
      /\ step = "idle" /\ group \in Texts /\ call = NewCall(group) /\ curtailed = {}
  BY DEF AudioInit
<1>2. Typed
  <2>1. MaxTexts \in Nat
    BY SizesAreNatural
  <2>2. step \in Steps0
    BY <1>1 DEF Steps0
  <2>3. texts \in 0..MaxTexts /\ halted \in BOOLEAN /\ paused \in BOOLEAN /\ group \in Texts
    <3>1. 0 \in 0..MaxTexts
      BY <2>1
    <3> QED BY <1>1, <3>1, Zenon
  <2> QED BY <2>2, <2>3 DEF Typed
<1>3. /\ call \in CallType /\ LeadRight(call) /\ AllMarks(G, call)
      /\ IsPrefix(call.heard, Sound(G)) /\ call.end = "none"
  BY <1>1, NewCallIs DEF G
<1>4. IsPrefix(call.reached, G.marks)
  <2>1. call.reached \in Seq(Nat) /\ call.pending \in Seq(Nat)
    BY <1>3, CallParts
  <2> QED BY <1>3, <2>1, PrefixLonger DEF AllMarks
<1>5. Rested(G, call)
  BY <1>3, <1>4 DEF Rested
<1>6. Stage
  BY <1>1 DEF Stage
<1>7. Speech
  BY <1>1, <1>3, <1>5, <1>6 DEF Speech
<1>8. CacheRight(cache, tally, curtailed)
  BY <1>1, NoCacheRight
<1> QED BY <1>2, <1>7, <1>8 DEF AudioInv

LEMMA AudioGoesOn == AudioInv /\ [AudioNext]_audioVars => AudioInv'
<1> SUFFICES ASSUME Typed, Speech, CacheRight(cache, tally, curtailed), [AudioNext]_audioVars
             PROVE  Typed' /\ Speech' /\ CacheRight(cache', tally', curtailed')
  BY DEF AudioInv
<1>1. keepCache => CacheRight(cache', tally', curtailed')
  BY DEF keepCache
<1>2. ASSUME NEW g \in Texts, Begin(g)
      PROVE  Typed' /\ Speech' /\ keepCache
  BY <1>2, BeginKeeps DEF Begin
<1>3. CASE Leading
  BY <1>3, <1>1, LeadingKeeps DEF Leading
<1>4. CASE LookUpGroup
  BY <1>4, LookUpGroupKeeps
<1>5. CASE LookUpSegment
  BY <1>5, LookUpSegmentKeeps
<1>6. CASE FeedCached
  BY <1>6, <1>1, FeedCachedKeeps DEF FeedCached
<1>7. CASE KeepJoined
  BY <1>7, KeepJoinedKeeps
<1>8. CASE StartEngine
  BY <1>8, <1>1, StartEngineKeeps DEF StartEngine
<1>9. CASE EngineAudio
  BY <1>9, <1>1, EngineAudioKeeps DEF EngineAudio, InEngine
<1>10. CASE EngineMark
  BY <1>10, <1>1, EngineMarkKeeps DEF EngineMark, InEngine
<1>11. CASE EngineSegmentEnd
  BY <1>11, <1>1, EngineSegmentEndKeeps DEF EngineSegmentEnd, InEngine
<1>12. CASE EngineDone
  BY <1>12, <1>1, EngineDoneKeeps DEF EngineDone, InEngine
<1>13. CASE EngineCut
  BY <1>13, <1>1, EngineCutKeeps DEF EngineCut, InEngine
<1>14. CASE EngineRaises
  BY <1>14, <1>1, EngineRaisesKeeps DEF EngineRaises, InEngine
<1>15. CASE Finish
  BY <1>15, <1>1, FinishStepKeeps DEF Finish
<1>16. CASE TellRest
  BY <1>16, <1>1, TellRestKeeps DEF TellRest
<1>17. CASE KeepSegment
  BY <1>17, KeepSegmentKeeps
<1>18. CASE KeepGroup
  BY <1>18, KeepGroupKeeps
<1>19. CASE Halt
  BY <1>19, <1>1, HaltKeeps
<1>20. CASE Pause
  BY <1>20, <1>1, PauseKeeps
<1>21. CASE ClearCache
  BY <1>21, ClearCacheKeeps
<1>22. CASE UNCHANGED audioVars
  <2>1. /\ halted' = halted /\ paused' = paused /\ texts' = texts /\ step' = step /\ group' = group
        /\ call' = call /\ keepCache
    BY <1>22 DEF audioVars, keepCache
  <2>2. G' = G
    BY <2>1, GStays
  <2>3. Stage => Stage'
    BY <2>1, <2>2, ZenonT(60) DEF Stage
  <2>4. Speech'
    BY <2>1, <2>2, <2>3 DEF Speech, AllMarks, Rested
  <2> QED BY <1>1, <2>1, <2>4 DEF Typed
<1> QED
  BY <1>1, <1>2, <1>3, <1>4, <1>5, <1>6, <1>7, <1>8, <1>9, <1>10, <1>11, <1>12, <1>13, <1>14, <1>15,
     <1>16, <1>17, <1>18, <1>19, <1>20, <1>21, <1>22 DEF AudioNext

LEMMA AudioInvAlways == AudioSpec => []AudioInv
BY AudioStart, AudioGoesOn, PTL DEF AudioSpec

\* An entry that no stalled speech has left is a meaning of its key.
LEMMA EntryMeans ==
  ASSUME NEW key, NEW audio, NEW cur, EntryOf(key, audio, cur), key \notin cur
  PROVE  <<key, audio>> \in Meanings
<1>1. PICK t \in Texts :
        \/ OfText(Groups[t], key, audio, cur)
        \/ \E i \in DOMAIN Groups[t].segs : OfSegment(Groups[t], i, key, audio, cur)
  BY DEF EntryOf
<1>2. CASE OfText(Groups[t], key, audio, cur)
  <2>1. key = GroupKey(Groups[t]) /\ audio = Sound(Groups[t])
    BY <1>2 DEF OfText
  <2>2. Sounds[t] = Sound(Groups[t])
    BY DEF Sounds
  <2> QED BY <2>1, <2>2 DEF Meanings
<1>3. CASE \E i \in DOMAIN Groups[t].segs : OfSegment(Groups[t], i, key, audio, cur)
  <2>1. PICK i \in DOMAIN Groups[t].segs : key = SegmentKey(Groups[t], i) /\ audio = SoundOf(Groups[t], i)
    BY <1>3 DEF OfSegment
  <2> QED BY <2>1 DEF Meanings
<1> QED BY <1>1, <1>2, <1>3

\* The cache answers truly, for any texts, sizes and bounds, however the engine's packets come, a
\* speech stalls, is cut, fails or is cancelled, and whenever the cache is cleared: the byte count
\* is that of the entries and in its bound, no key has two entries, and an entry is the sound of
\* its key (_put_cached_audio, _get_cached_audio and what _speak_text gives them).
THEOREM CacheAnswersTrue == AudioSpec => []CacheTrue
<1>1. AudioInv => CacheTrue
  <2> SUFFICES ASSUME Typed, CacheRight(cache, tally, curtailed) PROVE CacheTrue
    BY DEF AudioInv
  <2>1. /\ cache \in Seq(CacheEntry) /\ tally = Size(cache) /\ tally <= MaxBytes /\ Len(cache) <= MaxItems
        /\ Unique(cache) /\ AllTrue(cache, curtailed)
    BY DEF CacheRight
  <2>2. DOMAIN cache = 1..Len(cache)
    BY <2>1
  <2>3. \A m, n \in DOMAIN cache : cache[m].key = cache[n].key => m = n
    BY <2>1, <2>2 DEF Unique
  <2>4. ASSUME NEW n \in DOMAIN cache, cache[n].key \notin curtailed
        PROVE  <<cache[n].key, cache[n].audio>> \in Meanings
    <3>1. EntryOf(cache[n].key, cache[n].audio, curtailed)
      BY <2>1, <2>2 DEF AllTrue
    <3> QED BY <2>4, <3>1, EntryMeans
  <2>5. AudioTypeOK
    <3>1. <<>> \in Seq(CacheEntry) /\ cache \o <<>> = cache
      BY <2>1, EmptySeq, ConcatEmptySeq
    <3>2. Size(cache) \in Nat
      BY <2>1, SizeJoined
    <3>3. tally \in 0..MaxBytes
      BY <2>1, <3>2, SizesAreNatural
    <3> QED BY <2>1, <3>3 DEF AudioTypeOK, Typed, Steps0
  <2> QED BY <2>1, <2>3, <2>4, <2>5 DEF CacheTrue
<1> QED BY <1>1, AudioInvAlways, PTL

\* What is heard of a text is the beginning of its sound, whatever of it came from the cache of
\* the group, from cached segments and from the engine, in any packets; the indexes told are the
\* first of its indexes, each once and in order; and a text spoken to its end was heard whole with
\* all its indexes (_speak_text, PcmSilenceShortener, PcmLeadBuffer).
THEOREM PlaysRight == AudioSpec => []HeardRight
<1>1. AudioInv => HeardRight
  <2> SUFFICES ASSUME Typed, Speech PROVE HeardRight
    BY DEF AudioInv
  <2>1. Sounds[group] = Sound(G)
    BY DEF Sounds, Typed, G
  <2>2. call \in CallType /\ IsPrefix(call.heard, Sound(G)) /\ (step # "idle" => call.end = "none" /\ AllMarks(G, call))
    BY SpeechHas
  <2>3. CASE step = "idle"
    <3>1. Rested(G, call)
      BY <2>3 DEF Speech
    <3> QED BY <2>1, <2>2, <3>1 DEF HeardRight, Rested
  <2>4. CASE step # "idle"
    <3>1. call.reached \in Seq(Nat) /\ call.pending \in Seq(Nat)
      BY <2>2, CallParts
    <3>2. IsPrefix(call.reached, G.marks)
      BY <2>2, <2>4, <3>1, PrefixLonger DEF AllMarks
    <3> QED BY <2>1, <2>2, <2>4, <3>2 DEF HeardRight
  <2> QED BY <2>3, <2>4
<1> QED BY <1>1, AudioInvAlways, PTL
=============================================================================
