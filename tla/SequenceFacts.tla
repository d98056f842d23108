---------------------------- MODULE SequenceFacts ----------------------------
(***************************************************************************)
(* Facts that the proofs about texts and sounds share: induction over the   *)
(* numbers up to a bound and over sequences, what a recursive function      *)
(* computes, pieces and beginnings of sequences, and sequences of sequences *)
(* made one.                                                                *)
(***************************************************************************)
EXTENDS Integers, SequencesExt, FiniteSetTheorems, SequenceTheorems, TLAPS

-----------------------------------------------------------------------------
(* Induction and recursion                                                   *)

\* A set that has 0 and the successor of each member has every natural number: else the
\* numbers up to a missing one that are missing would be mapped one to one, by predecessor,
\* to fewer.
LEMMA InductionOnSet ==
  ASSUME NEW S, 0 \in S, \A n \in Nat : n \in S => n + 1 \in S
  PROVE  Nat \subseteq S
<1> SUFFICES ASSUME NEW n \in Nat, n \notin S PROVE FALSE
  OBVIOUS
<1> DEFINE A == {k \in 0..n : k \notin S}
           p == [k \in A |-> k - 1]
<1>1. IsFiniteSet(A) /\ n \in A
  <2>1. IsFiniteSet(0..n)
    BY FS_Interval
  <2> QED BY <2>1, FS_Subset
<1>2. IsFiniteSet(A \ {n}) /\ Cardinality(A \ {n}) = Cardinality(A) - 1
  BY <1>1, FS_RemoveElement
<1>3. p \in [A -> A \ {n}]
  <2>1. ASSUME NEW k \in A PROVE k - 1 \in A \ {n}
    <3>1. k \in Nat /\ k # 0
      OBVIOUS
    <3>2. k - 1 \in Nat /\ (k - 1) + 1 = k
      BY <3>1
    <3> QED BY <3>1, <3>2
  <2> QED BY <2>1
<1>4. Cardinality(A) \in Nat
  BY <1>1, FS_CardinalityType
<1>5. \E x, y \in A : x # y /\ p[x] = p[y]
  <2>1. Cardinality(A \ {n}) < Cardinality(A)
    BY <1>2, <1>4
  <2> HIDE DEF p
  <2> QED BY <1>1, <1>2, <1>3, <2>1, FS_PigeonHole
<1> QED BY <1>5

LEMMA InductionUpTo ==
  ASSUME NEW N \in Nat, NEW S, 0 \in S, \A n \in 1..N : n - 1 \in S => n \in S
  PROVE  0..N \subseteq S
<1> DEFINE T == {n \in Nat : n <= N => n \in S}
<1>1. ASSUME NEW n \in Nat, n \in T PROVE n + 1 \in T
  <2>1. CASE n + 1 <= N
    <3>1. n + 1 \in 1..N /\ (n + 1) - 1 = n
      BY <2>1
    <3> QED BY <1>1, <2>1, <3>1
  <2> QED BY <2>1
<1>2. 0 \in T
  OBVIOUS
<1>3. Nat \subseteq T
  <2> HIDE DEF T
  <2> QED BY <1>1, <1>2, InductionOnSet
<1> QED BY <1>3

LEMMA Least ==
  ASSUME NEW N \in Nat, NEW P, N \in P
  PROVE  \E n \in 0..N : n \in P /\ \A m \in 0..n - 1 : m \notin P
<1> SUFFICES ASSUME \A n \in 0..N : n \in P => \E m \in 0..n - 1 : m \in P
             PROVE  FALSE
  OBVIOUS
<1> DEFINE S == {k \in 0..N : \A m \in 0..k : m \notin P}
<1>1. 0 \in S
  BY DEF S
<1>2. ASSUME NEW k \in 1..N, k - 1 \in S PROVE k \in S
  <2>1. \A m \in 0..k - 1 : m \notin P
    BY <1>2
  <2>2. k \notin P
    BY <2>1
  <2> QED BY <2>1, <2>2
<1>3. 0..N \subseteq S
  <2> HIDE DEF S
  <2> QED BY <1>1, <1>2, InductionUpTo
<1> QED BY <1>3

\* There is a function that begins with a value and goes on as a step says.
Runs(N, V) == [0..N -> V]
Steps(N, V) == [1..N -> [V -> V]]
Unrolls(r, N, base, next) == r[0] = base /\ \A n \in 1..N : r[n] = next[n][r[n - 1]]

LEMMA Recursion ==
  ASSUME NEW V, NEW N \in Nat, NEW base \in V, NEW next \in Steps(N, V)
  PROVE  \E r \in Runs(N, V) : Unrolls(r, N, base, next)
<1> USE DEF Runs, Steps, Unrolls
<1> DEFINE S == {k \in Nat : k <= N => \E r \in [0..N -> V] : Unrolls(r, k, base, next)}
<1>1. 0 \in S
  <2>1. Unrolls([n \in 0..N |-> base], 0, base, next)
    OBVIOUS
  <2> QED BY <2>1
<1>2. ASSUME NEW k \in Nat, k \in S PROVE k + 1 \in S
  <2> SUFFICES ASSUME k + 1 <= N PROVE \E r \in [0..N -> V] : Unrolls(r, k + 1, base, next)
    OBVIOUS
  <2>1. PICK r \in [0..N -> V] : Unrolls(r, k, base, next)
    BY <1>2
  <2>2. r[k] \in V /\ k + 1 \in 1..N /\ next[k + 1] \in [V -> V]
    OBVIOUS
  <2>3. next[k + 1][r[k]] \in V
    BY <2>2
  <2> DEFINE q == [r EXCEPT ![k + 1] = next[k + 1][r[k]]]
  <2>4. q \in [0..N -> V]
    BY <2>3
  <2>5. q[0] = base
    BY <2>1
  <2>6. ASSUME NEW n \in 1..k + 1 PROVE q[n] = next[n][q[n - 1]]
    <3>1. CASE n = k + 1
      BY <3>1, <2>2
    <3>2. CASE n # k + 1
      <4>1. n \in 1..k /\ n - 1 # k + 1 /\ n \in 0..N /\ n - 1 \in 0..N
        BY <3>2, <2>2
      <4> QED BY <4>1, <2>1
    <3> QED BY <3>1, <3>2
  <2> QED BY <2>4, <2>5, <2>6
<1>3. N \in S
  <2> HIDE DEF S
  <2> QED BY <1>1, <1>2, InductionOnSet
<1> QED BY <1>3

\* What goes on as a step says stays where the step leads.
LEMMA RecursionStays ==
  ASSUME NEW V, NEW N \in Nat, NEW base \in V, NEW next \in Steps(N, V), NEW f,
         f[0] = base, \A n \in 1..N : f[n - 1] \in V => f[n] = next[n][f[n - 1]]
  PROVE  \A n \in 0..N : f[n] \in V
<1> DEFINE S == {n \in 0..N : f[n] \in V}
<1>1. 0 \in S
  OBVIOUS
<1>2. ASSUME NEW n \in 1..N, n - 1 \in S PROVE n \in S
  <2>1. f[n - 1] \in V /\ next[n] \in [V -> V]
    BY <1>2 DEF Steps
  <2>2. next[n][f[n - 1]] \in V
    BY <2>1
  <2> QED BY <2>1, <2>2
<1>3. 0..N \subseteq S
  <2> HIDE DEF S
  <2> QED BY <1>1, <1>2, InductionUpTo
<1> QED BY <1>3
-----------------------------------------------------------------------------
(* Sequences                                                                 *)

LEMMA InductionOnSequences ==
  ASSUME NEW E, NEW S, <<>> \in S, \A s \in Seq(E), e \in E : s \in S => Append(s, e) \in S
  PROVE  Seq(E) \subseteq S
<1> DEFINE T == {n \in Nat : \A s \in Seq(E) : Len(s) = n => s \in S}
<1>1. 0 \in T
  <2>1. \A s \in Seq(E) : Len(s) = 0 => s = <<>>
    BY EmptySeq
  <2> QED BY <2>1
<1>2. ASSUME NEW n \in Nat, n \in T PROVE n + 1 \in T
  <2> SUFFICES ASSUME NEW s \in Seq(E), Len(s) = n + 1 PROVE s \in S
    OBVIOUS
  <2>1. s # <<>>
    BY EmptySeq
  <2>2. PICK u \in Seq(E), e \in E : s = Append(u, e)
    BY <2>1, SequenceEmptyOrAppend
  <2>3. Len(u) = n
    BY <2>2, AppendProperties, LenProperties
  <2>4. u \in S
    BY <1>2, <2>3
  <2> QED BY <2>2, <2>4
<1>3. Nat \subseteq T
  <2> HIDE DEF T
  <2> QED BY <1>1, <1>2, InductionOnSet
<1> QED BY <1>3, LenProperties

LEMMA FunctionIsSeq ==
  ASSUME NEW E, NEW n \in Nat, NEW s \in [1..n -> E]
  PROVE  s \in Seq(E) /\ Len(s) = n
<1>1. s \in Seq(E)
  BY SeqDef
<1>2. DOMAIN s = 1..Len(s) /\ Len(s) \in Nat
  BY <1>1, LenProperties
<1>3. 1..n = 1..Len(s)
  BY <1>2
<1> QED BY <1>1, <1>2, <1>3

LEMMA AppendJoined ==
  ASSUME NEW E, NEW s \in Seq(E), NEW u \in Seq(E), NEW e \in E
  PROVE  s \o Append(u, e) = Append(s \o u, e)
<1>1. <<e>> \in Seq(E)
  OBVIOUS
<1>2. Append(u, e) = u \o <<e>> /\ Append(s \o u, e) = (s \o u) \o <<e>>
  BY AppendIsConcat, ConcatProperties
<1> QED BY <1>1, <1>2, ConcatAssociative

\* Pieces of a sequence: their lengths, pieces next to each other, and pieces of pieces.
LEMMA PieceHas ==
  ASSUME NEW E, NEW s \in Seq(E), NEW i \in Nat, NEW j \in Nat, i <= j, j <= Len(s)
  PROVE  /\ SubSeq(s, i + 1, j) \in Seq(E) /\ Len(SubSeq(s, i + 1, j)) = j - i
         /\ \A n \in 1..j - i : SubSeq(s, i + 1, j)[n] = s[i + n]
<1>1. Len(s) \in Nat /\ i + 1 \in Int /\ j \in Int /\ \A n \in i + 1..j : s[n] \in E
  BY LenProperties, ElementOfSeq
<1>2. /\ SubSeq(s, i + 1, j) \in Seq(E)
      /\ Len(SubSeq(s, i + 1, j)) = IF i + 1 <= j THEN j - (i + 1) + 1 ELSE 0
      /\ \A n \in 1..j - (i + 1) + 1 : SubSeq(s, i + 1, j)[n] = s[i + 1 + n - 1]
  BY <1>1, SubSeqProperties
<1>3. ASSUME NEW n \in 1..j - i PROVE SubSeq(s, i + 1, j)[n] = s[i + n]
  <2>1. n \in 1..j - (i + 1) + 1 /\ i + 1 + n - 1 = i + n
    BY <1>1
  <2> QED BY <1>2, <2>1
<1>4. Len(SubSeq(s, i + 1, j)) = j - i
  BY <1>1, <1>2
<1> QED BY <1>2, <1>3, <1>4

LEMMA PiecesJoined ==
  ASSUME NEW E, NEW s \in Seq(E), NEW i \in Nat, NEW j \in Nat, NEW k \in Nat,
         i <= j, j <= k, k <= Len(s)
  PROVE  SubSeq(s, i + 1, j) \o SubSeq(s, j + 1, k) = SubSeq(s, i + 1, k)
<1>1. Len(s) \in Nat
  BY LenProperties
<1>2. i + 1 \in 1..Len(s) + 1 /\ j \in (i + 1) - 1..Len(s) /\ k \in j..Len(s)
  BY <1>1
<1> QED BY <1>2, ConcatAdjacentSubSeq

LEMMA PieceOfPiece ==
  ASSUME NEW E, NEW s \in Seq(E), NEW i \in Nat, NEW j \in Nat, i <= j, j <= Len(s),
         NEW a \in Nat, NEW b \in Nat, a <= b, b <= j - i
  PROVE  SubSeq(SubSeq(s, i + 1, j), a + 1, b) = SubSeq(s, i + a + 1, i + b)
<1> DEFINE p == SubSeq(s, i + 1, j)
           l == SubSeq(p, a + 1, b)
           r == SubSeq(s, i + a + 1, i + b)
<1>1. Len(s) \in Nat
  BY LenProperties
<1>2. p \in Seq(E) /\ Len(p) = j - i /\ \A n \in 1..j - i : p[n] = s[i + n]
  BY PieceHas
<1> HIDE DEF p
<1>3. l \in Seq(E) /\ Len(l) = b - a /\ \A n \in 1..b - a : l[n] = p[a + n]
  BY <1>1, <1>2, PieceHas
<1>4. i + a \in Nat /\ i + b \in Nat /\ i + a <= i + b /\ i + b <= Len(s) /\ (i + b) - (i + a) = b - a
  BY <1>1
<1>5. r \in Seq(E) /\ Len(r) = b - a /\ \A n \in 1..b - a : r[n] = s[i + a + n]
  BY <1>4, PieceHas
<1>6. ASSUME NEW n \in 1..b - a PROVE l[n] = r[n]
  <2>1. a + n \in 1..j - i /\ i + (a + n) = i + a + n
    OBVIOUS
  <2> QED BY <1>2, <1>3, <1>5, <2>1
<1> HIDE DEF l, r
<1>7. l = r
  BY <1>3, <1>5, <1>6, SeqEqual
<1> QED BY <1>7 DEF l, r, p

LEMMA NoPiece ==
  ASSUME NEW s, NEW i \in Nat
  PROVE  SubSeq(s, i + 1, i) = <<>>
BY SubSeqEmpty

LEMMA NoBeginning == \A s : SubSeq(s, 1, 0) = <<>>
BY SubSeqEmpty

\* A sequence is cut in two.
LEMMA CutInTwo ==
  ASSUME NEW E, NEW s \in Seq(E), NEW n \in 0..Len(s)
  PROVE  /\ SubSeq(s, 1, n) \in Seq(E) /\ SubSeq(s, n + 1, Len(s)) \in Seq(E)
         /\ Len(SubSeq(s, 1, n)) = n /\ Len(SubSeq(s, n + 1, Len(s))) = Len(s) - n
         /\ s = SubSeq(s, 1, n) \o SubSeq(s, n + 1, Len(s))
         /\ \A i \in 1..n : SubSeq(s, 1, n)[i] = s[i]
         /\ \A i \in 1..Len(s) - n : SubSeq(s, n + 1, Len(s))[i] = s[n + i]
<1>1. Len(s) \in Nat /\ n \in Nat /\ 0 <= n /\ n <= Len(s) /\ 0 + 1 = 1 /\ n - 0 = n
  BY LenProperties
<1>2. /\ SubSeq(s, 0 + 1, n) \in Seq(E) /\ Len(SubSeq(s, 0 + 1, n)) = n - 0
      /\ \A i \in 1..n - 0 : SubSeq(s, 0 + 1, n)[i] = s[0 + i]
  BY <1>1, PieceHas
<1>3. /\ SubSeq(s, n + 1, Len(s)) \in Seq(E) /\ Len(SubSeq(s, n + 1, Len(s))) = Len(s) - n
      /\ \A i \in 1..Len(s) - n : SubSeq(s, n + 1, Len(s))[i] = s[n + i]
  BY <1>1, PieceHas
<1>4. SubSeq(s, 1, n) \o SubSeq(s, n + 1, Len(s)) = SubSeq(s, 1, Len(s))
  <2>1. 1 \in 1..Len(s) + 1 /\ n \in 1 - 1..Len(s) /\ Len(s) \in n..Len(s)
    BY <1>1
  <2> QED BY <2>1, ConcatAdjacentSubSeq
<1>5. SubSeq(s, 1, Len(s)) = s
  BY SubSeqFull
<1>6. \A i \in 1..n : SubSeq(s, 1, n)[i] = s[i]
  BY <1>1, <1>2
<1> QED BY <1>1, <1>2, <1>3, <1>4, <1>5, <1>6

\* A beginning is what something follows.
LEMMA PrefixIs ==
  ASSUME NEW E, NEW s \in Seq(E), NEW t \in Seq(E)
  PROVE  IsPrefix(s, t) <=> \E r \in Seq(E) : t = s \o r
<1>1. Len(s) \in Nat /\ Len(t) \in Nat /\ SubSeq(s, 1, Len(s)) = s
  BY LenProperties, SubSeqFull
<1>2. ASSUME IsPrefix(s, t) PROVE \E r \in Seq(E) : t = s \o r
  <2>1. Len(s) \in 0..Len(t) /\ s = SubSeq(t, 1, Len(s))
    BY <1>1, <1>2 DEF IsPrefix
  <2> DEFINE r == SubSeq(t, Len(s) + 1, Len(t))
  <2>2. r \in Seq(E) /\ t = s \o r
    BY <2>1, CutInTwo
  <2> HIDE DEF r
  <2> QED BY <2>2
<1>3. ASSUME NEW r \in Seq(E), t = s \o r PROVE IsPrefix(s, t)
  <2>1. Len(t) = Len(s) + Len(r) /\ Len(r) \in Nat /\ \A i \in 1..Len(s) : t[i] = s[i]
    BY <1>1, <1>3, ConcatProperties, LenProperties
  <2>2. Len(s) \in 0..Len(t)
    BY <1>1, <2>1
  <2>3. SubSeq(t, 1, Len(s)) \in Seq(E) /\ Len(SubSeq(t, 1, Len(s))) = Len(s)
        /\ \A i \in 1..Len(s) : SubSeq(t, 1, Len(s))[i] = t[i]
    BY <2>2, CutInTwo
  <2>4. SubSeq(t, 1, Len(s)) = s
    BY <2>1, <2>3, SeqEqual
  <2> QED BY <1>1, <2>2, <2>4 DEF IsPrefix
<1> QED BY <1>2, <1>3

LEMMA PrefixLonger ==
  ASSUME NEW E, NEW s \in Seq(E), NEW t \in Seq(E)
  PROVE  IsPrefix(s, s \o t) /\ IsPrefix(s, s) /\ IsPrefix(<<>>, s)
<1>1. s \o t \in Seq(E) /\ <<>> \in Seq(E) /\ s \o <<>> = s /\ <<>> \o s = s
  BY ConcatProperties, ConcatEmptySeq, EmptySeq
<1>2. IsPrefix(s, s \o t)
  BY <1>1, PrefixIs
<1>3. IsPrefix(s, s)
  BY <1>1, PrefixIs
<1>4. IsPrefix(<<>>, s)
  BY <1>1, PrefixIs
<1> QED BY <1>2, <1>3, <1>4

LEMMA PrefixGoesOn ==
  ASSUME NEW E, NEW s \in Seq(E), NEW t \in Seq(E), NEW u \in Seq(E), IsPrefix(s, t)
  PROVE  /\ IsPrefix(t, u) => IsPrefix(s, u)
         /\ IsPrefix(s, t \o u)
         /\ IsPrefix(u \o s, u \o t)
<1>1. PICK r \in Seq(E) : t = s \o r
  BY PrefixIs
<1>2. r \o u \in Seq(E) /\ t \o u \in Seq(E) /\ u \o s \in Seq(E) /\ u \o t \in Seq(E)
  BY ConcatProperties
<1>3. t \o u = s \o (r \o u)
  BY <1>1, ConcatAssociative
<1>4. u \o t = (u \o s) \o r
  BY <1>1, ConcatAssociative, SMTT(60)
<1>5. ASSUME IsPrefix(t, u) PROVE IsPrefix(s, u)
  <2>1. PICK q \in Seq(E) : u = t \o q
    BY <1>5, PrefixIs
  <2>2. r \o q \in Seq(E) /\ u = s \o (r \o q)
    BY <1>1, <2>1, ConcatAssociative, ConcatProperties, SMTT(60)
  <2> QED BY <2>2, PrefixIs
<1>6. IsPrefix(s, t \o u)
  BY <1>2, <1>3, PrefixIs
<1>7. IsPrefix(u \o s, u \o t)
  BY <1>2, <1>4, PrefixIs
<1> QED BY <1>5, <1>6, <1>7
\* A sequence that is another one and then more.
LEMMA LongerByOne ==
  ASSUME NEW E, NEW s \in Seq(E), NEW t \in Seq(E),
         Len(t) = Len(s) + 1, \A n \in 1..Len(s) : t[n] = s[n]
  PROVE  t = Append(s, t[Len(s) + 1]) /\ t[Len(s) + 1] \in E
<1> DEFINE e == t[Len(s) + 1]
<1>1. Len(s) \in Nat /\ Len(s) + 1 \in 1..Len(t)
  BY LenProperties
<1>2. e \in E
  BY <1>1, ElementOfSeq
<1> HIDE DEF e
<1>3. /\ Append(s, e) \in Seq(E) /\ Len(Append(s, e)) = Len(s) + 1
      /\ \A n \in 1..Len(s) : Append(s, e)[n] = s[n] /\ Append(s, e)[Len(s) + 1] = e
  BY <1>2, AppendProperties
<1>4. Append(s, e)[Len(s) + 1] = e
  BY <1>2, AppendProperties
<1>5. \A n \in 1..Len(t) : t[n] = Append(s, e)[n]
  BY <1>1, <1>3, <1>4 DEF e
<1>6. t = Append(s, e)
  BY <1>3, <1>5, SeqEqual
<1> QED BY <1>2, <1>6 DEF e

LEMMA AppendHas ==
  ASSUME NEW E, NEW s \in Seq(E), NEW e \in E
  PROVE  /\ Append(s, e) \in Seq(E) /\ Len(Append(s, e)) = Len(s) + 1 /\ Len(s) \in Nat
         /\ Append(s, e) # <<>> /\ Append(s, e)[Len(s) + 1] = e
         /\ \A n \in 1..Len(s) : Append(s, e)[n] = s[n]
BY AppendProperties, LenProperties

LEMMA JoinedIs ==
  ASSUME NEW E, NEW s \in Seq(E), NEW t \in Seq(E), NEW u \in Seq(E),
         Len(u) = Len(s) + Len(t), \A n \in 1..Len(s) : u[n] = s[n],
         \A n \in 1..Len(t) : u[Len(s) + n] = t[n]
  PROVE  u = s \o t
<1>1. Len(s) \in Nat /\ Len(t) \in Nat
  BY LenProperties
<1>2. /\ s \o t \in Seq(E) /\ Len(s \o t) = Len(s) + Len(t)
      /\ \A n \in 1..Len(s) + Len(t) : (s \o t)[n] = IF n <= Len(s) THEN s[n] ELSE t[n - Len(s)]
  BY ConcatProperties
<1>3. ASSUME NEW n \in 1..Len(u) PROVE u[n] = (s \o t)[n]
  <2>1. CASE n <= Len(s)
    BY <1>1, <1>2, <2>1
  <2>2. CASE ~(n <= Len(s))
    <3>1. n - Len(s) \in 1..Len(t) /\ Len(s) + (n - Len(s)) = n
      BY <1>1, <2>2
    <3> QED BY <1>1, <1>2, <2>2, <3>1
  <2> QED BY <2>1, <2>2
<1> QED BY <1>2, <1>3, SeqEqual

LEMMA JoinsAssociate ==
  ASSUME NEW E, NEW s \in Seq(E), NEW t \in Seq(E), NEW u \in Seq(E)
  PROVE  (s \o t) \o u = s \o (t \o u)
BY ConcatAssociative

LEMMA JoinedHas ==
  ASSUME NEW E, NEW s \in Seq(E), NEW t \in Seq(E)
  PROVE  /\ s \o t \in Seq(E) /\ Len(s \o t) = Len(s) + Len(t)
         /\ Len(s) \in Nat /\ Len(t) \in Nat
         /\ \A n \in 1..Len(s) : (s \o t)[n] = s[n]
         /\ \A n \in 1..Len(t) : (s \o t)[Len(s) + n] = t[n]
<1>1. Len(s) \in Nat /\ Len(t) \in Nat
  BY LenProperties
<1>2. /\ s \o t \in Seq(E) /\ Len(s \o t) = Len(s) + Len(t)
      /\ \A n \in 1..Len(s) + Len(t) : (s \o t)[n] = IF n <= Len(s) THEN s[n] ELSE t[n - Len(s)]
  BY ConcatProperties
<1>3. \A n \in 1..Len(s) : (s \o t)[n] = s[n]
  BY <1>1, <1>2
<1>4. ASSUME NEW n \in 1..Len(t) PROVE (s \o t)[Len(s) + n] = t[n]
  <2>1. Len(s) + n \in 1..Len(s) + Len(t) /\ ~(Len(s) + n <= Len(s)) /\ (Len(s) + n) - Len(s) = n
    BY <1>1
  <2> QED BY <1>2, <2>1
<1> QED BY <1>1, <1>2, <1>3, <1>4

\* The beginnings of a sequence grow by one.
LEMMA BeginningGrows ==
  ASSUME NEW E, NEW s \in Seq(E), NEW n \in 1..Len(s)
  PROVE  /\ SubSeq(s, 1, n) = Append(SubSeq(s, 1, n - 1), s[n])
         /\ SubSeq(s, 1, n - 1) \in Seq(E) /\ Len(SubSeq(s, 1, n - 1)) = n - 1 /\ s[n] \in E
         /\ SubSeq(s, 1, n) \in Seq(E) /\ Len(SubSeq(s, 1, n)) = n
<1>1. Len(s) \in Nat /\ n - 1 \in 0..Len(s) /\ n \in 0..Len(s) /\ (n - 1) + 1 = n
  BY LenProperties
<1>2. /\ SubSeq(s, 1, n - 1) \in Seq(E) /\ Len(SubSeq(s, 1, n - 1)) = n - 1
      /\ \A i \in 1..n - 1 : SubSeq(s, 1, n - 1)[i] = s[i]
  BY <1>1, CutInTwo
<1>3. /\ SubSeq(s, 1, n) \in Seq(E) /\ Len(SubSeq(s, 1, n)) = n
      /\ \A i \in 1..n : SubSeq(s, 1, n)[i] = s[i]
  BY <1>1, CutInTwo
<1>4. \A i \in 1..n - 1 : SubSeq(s, 1, n)[i] = SubSeq(s, 1, n - 1)[i]
  BY <1>1, <1>2, <1>3
<1>5. SubSeq(s, 1, n) = Append(SubSeq(s, 1, n - 1), SubSeq(s, 1, n)[(n - 1) + 1])
  BY <1>1, <1>2, <1>3, <1>4, LongerByOne
<1>6. s[n] \in E /\ SubSeq(s, 1, n)[n] = s[n]
  BY <1>3, ElementOfSeq
<1> QED BY <1>1, <1>2, <1>3, <1>5, <1>6

-----------------------------------------------------------------------------
(* Sequences of sequences                                                    *)

\* FlattenSeq joins one after the other.
Follow(s, t) == s \o t
JoinRun(f, ss) ==
  /\ f[0] = <<>> /\ FlattenSeq(ss) = f[Len(ss)]
  /\ \A n \in 1..Len(ss) : f[n] = Follow(f[n - 1], ss[n])
LEMMA FlattenIs ==
  ASSUME NEW E, NEW ss \in Seq(Seq(E))
  PROVE  \E f : JoinRun(f, ss) /\ \A n \in 0..Len(ss) : f[n] \in Seq(E)
<1> DEFINE N == Len(ss)
           V == Seq(E)
           D(r) == [n \in 1..N |-> IF n = 1 THEN ss[n] ELSE Follow(r[n - 1], ss[n])]
           next == [n \in 1..N |-> [v \in V |-> Follow(v, ss[n])]]
<1>1. N \in Nat /\ \A n \in 1..N : ss[n] \in V
  BY LenProperties, ElementOfSeq
<1>2. \A n \in 1..N, v \in V : Follow(v, ss[n]) \in V
  BY <1>1, ConcatProperties DEF Follow
<1>3. /\ next \in Steps(N, V)
      /\ \A n \in 1..N, v \in V : next[n][v] = Follow(v, ss[n])
  BY <1>1, <1>2 DEF Steps
<1>4. <<>> \in V /\ \A v \in V : Follow(<<>>, v) = v
  BY EmptySeq, ConcatEmptySeq DEF Follow
<1> HIDE DEF next, V, N
<1>5. PICK r \in Runs(N, V) : Unrolls(r, N, <<>>, next)
  BY <1>1, <1>3, <1>4, Recursion
<1>6. r \in [0..N -> V] /\ r[0] = <<>> /\ \A n \in 1..N : r[n] = next[n][r[n - 1]]
  BY <1>5 DEF Runs, Unrolls
<1>7. ASSUME NEW n \in 1..N PROVE r[n] = Follow(r[n - 1], ss[n])
  <2>1. r[n - 1] \in V
    BY <1>1, <1>6
  <2> QED BY <2>1, <1>3, <1>6
<1>8. CASE N = 0
  <2>1. FlattenSeq(ss) = ss /\ ss = <<>>
    BY <1>8, EmptySeq DEF FlattenSeq, N
  <2> QED BY <1>6, <1>7, <1>8, <1>1, <2>1 DEF N, V, JoinRun
<1>9. CASE N # 0
  <2>1. 1 \in 1..N /\ N \in 1..N /\ 1 - 1 = 0
    BY <1>1, <1>9
  <2>2. r[1] = ss[1]
    BY <1>1, <1>4, <1>6, <1>7, <2>1
  <2>3. \E g : g = D(g)
    <3> DEFINE q == [n \in 1..N |-> r[n]]
    <3>1. ASSUME NEW n \in 1..N PROVE q[n] = IF n = 1 THEN ss[n] ELSE Follow(q[n - 1], ss[n])
      <4>1. CASE n = 1
        BY <2>2, <4>1
      <4>2. CASE n # 1
        <5>1. n - 1 \in 1..N
          BY <1>1, <4>2
        <5> QED BY <4>2, <5>1, <1>7
      <4> QED BY <4>1, <4>2
    <3>2. q = D(q)
      BY <3>1
    <3> QED BY <3>2
  <2> DEFINE g == CHOOSE h : h = D(h)
  <2>4. g = D(g)
    BY <2>3
  <2>5. FlattenSeq(ss) = g[N]
    BY <1>9 DEF FlattenSeq, Follow, N
  <2> HIDE DEF g
  <2> DEFINE S == {n \in 0..N : n = 0 \/ g[n] = r[n]}
  <2>6. 0 \in S
    BY <1>1
  <2>7. ASSUME NEW n \in 1..N, n - 1 \in S PROVE n \in S
    <3>1. g[n] = IF n = 1 THEN ss[n] ELSE Follow(g[n - 1], ss[n])
      BY <2>4
    <3>2. CASE n = 1
      BY <2>2, <3>1, <3>2, <2>7, <1>1
    <3>3. CASE n # 1
      <4>1. n - 1 # 0 /\ g[n - 1] = r[n - 1]
        BY <2>7, <3>3
      <4>2. r[n] = Follow(r[n - 1], ss[n]) /\ n \in 0..N
        BY <1>1, <1>7
      <4>3. g[n] = r[n]
        BY <3>1, <3>3, <4>1, <4>2
      <4> QED BY <4>2, <4>3
    <3> QED BY <3>2, <3>3
  <2>8. 0..N \subseteq S
    <3> HIDE DEF S
    <3> QED BY <1>1, <2>6, <2>7, InductionUpTo
  <2>9. FlattenSeq(ss) = r[N]
    BY <1>1, <1>9, <2>5, <2>8
  <2> QED BY <1>6, <1>7, <2>9, <1>1 DEF N, V, JoinRun
<1> QED BY <1>8, <1>9

LEMMA FlattenEmpty == FlattenSeq(<<>>) = <<>>
BY EmptySeq DEF FlattenSeq

LEMMA FlattenTyped ==
  ASSUME NEW E, NEW ss \in Seq(Seq(E))
  PROVE  FlattenSeq(ss) \in Seq(E) /\ Len(FlattenSeq(ss)) \in Nat
<1>1. PICK f : FlattenSeq(ss) = f[Len(ss)] /\ \A n \in 0..Len(ss) : f[n] \in Seq(E)
  BY FlattenIs DEF JoinRun
<1>2. Len(ss) \in 0..Len(ss)
  BY LenProperties
<1>3. FlattenSeq(ss) \in Seq(E)
  BY <1>1, <1>2
<1> QED BY <1>3, LenProperties

LEMMA FlattenAppend ==
  ASSUME NEW E, NEW ss \in Seq(Seq(E)), NEW s \in Seq(E)
  PROVE  FlattenSeq(Append(ss, s)) = FlattenSeq(ss) \o s
<1> DEFINE t == Append(ss, s)
           N == Len(ss)
<1>1. /\ t \in Seq(Seq(E)) /\ Len(t) = N + 1 /\ N \in Nat
      /\ (\A n \in 1..N : t[n] = ss[n]) /\ t[N + 1] = s
  BY AppendProperties, LenProperties
<1> HIDE DEF t
<1>2. PICK f : JoinRun(f, ss)
  BY FlattenIs
<1>3. PICK g : JoinRun(g, t)
  <2>1. t \in Seq(Seq(E))
    BY <1>1
  <2> QED BY <2>1, FlattenIs
<1> USE DEF JoinRun
<1> DEFINE S == {n \in 0..N : f[n] = g[n]}
<1>4. 0 \in S
  BY <1>1, <1>2, <1>3
<1>5. ASSUME NEW n \in 1..N, n - 1 \in S PROVE n \in S
  <2>1. n \in 1..Len(t) /\ t[n] = ss[n]
    BY <1>1
  <2> QED BY <1>2, <1>3, <1>5, <2>1
<1>6. 0..N \subseteq S
  <2> HIDE DEF S, N
  <2> QED BY <1>1, <1>4, <1>5, InductionUpTo
<1>7. f[N] = g[N] /\ g[N + 1] = Follow(g[(N + 1) - 1], t[N + 1]) /\ (N + 1) - 1 = N
  BY <1>1, <1>3, <1>6
<1> QED BY <1>1, <1>2, <1>3, <1>7 DEF t, Follow

LEMMA FlattenOne ==
  ASSUME NEW E, NEW s \in Seq(E)
  PROVE  FlattenSeq(<<s>>) = s
<1>1. <<>> \in Seq(Seq(E)) /\ <<s>> = Append(<<>>, s)
  BY EmptySeq
<1>2. FlattenSeq(Append(<<>>, s)) = FlattenSeq(<<>>) \o s
  BY <1>1, FlattenAppend
<1> QED BY <1>1, <1>2, FlattenEmpty, ConcatEmptySeq

LEMMA FlattenJoined ==
  ASSUME NEW E, NEW ss \in Seq(Seq(E)), NEW tt \in Seq(Seq(E))
  PROVE  FlattenSeq(ss \o tt) = FlattenSeq(ss) \o FlattenSeq(tt)
<1> DEFINE S == {u \in Seq(Seq(E)) : FlattenSeq(ss \o u) = FlattenSeq(ss) \o FlattenSeq(u)}
<1>1. <<>> \in S
  <2>1. FlattenSeq(ss) \in Seq(E) /\ <<>> \in Seq(Seq(E))
    BY FlattenTyped, EmptySeq
  <2> QED BY <2>1, FlattenEmpty, ConcatEmptySeq
<1>2. ASSUME NEW u \in Seq(Seq(E)), NEW e \in Seq(E), u \in S PROVE Append(u, e) \in S
  <2>1. Append(u, e) \in Seq(Seq(E)) /\ ss \o u \in Seq(Seq(E))
    BY AppendProperties, ConcatProperties
  <2>2. FlattenSeq(ss \o Append(u, e)) = FlattenSeq(ss \o u) \o e
    <3>1. ss \o Append(u, e) = Append(ss \o u, e)
      BY AppendJoined
    <3> QED BY <2>1, <3>1, FlattenAppend
  <2>3. FlattenSeq(Append(u, e)) = FlattenSeq(u) \o e
    BY FlattenAppend
  <2>4. FlattenSeq(ss) \in Seq(E) /\ FlattenSeq(u) \in Seq(E)
    BY FlattenTyped
  <2>5. (FlattenSeq(ss) \o FlattenSeq(u)) \o e = FlattenSeq(ss) \o (FlattenSeq(u) \o e)
    BY <2>4, JoinsAssociate
  <2> QED BY <1>2, <2>1, <2>2, <2>3, <2>5
<1>3. Seq(Seq(E)) \subseteq S
  <2> HIDE DEF S
  <2> QED BY <1>1, <1>2, InductionOnSequences
<1> QED BY <1>3

=============================================================================
