-------------------------- MODULE SpeechChunksProofs --------------------------
(***************************************************************************)
(* The chunks of a speech sequence say what the sequence says: for any      *)
(* sequence and settings, however its texts are cut, and wherever the       *)
(* request is cancelled.  What is said is taken as a whole, letters, what   *)
(* is glued and stops, that can be put one after the other; each step of    *)
(* the code from the text to the chunks is shown to say the same, and the   *)
(* invariant is that the chunks, and then the text that waits, say what is  *)
(* meant by the items so far.                                               *)
(***************************************************************************)
EXTENDS SpeechChunksProps, SequenceFacts

-----------------------------------------------------------------------------
(* Letters                                                                   *)

Texts == Seq(Characters)
Commands == [rate : Nat, language : Nat]
LetterType == Characters \X Commands
Flags == BOOLEAN

LEMMA FlagsJoined == \A f, g, h \in Seq(Flags) : (f \o g) \o h = f \o (g \o h)
BY JoinsAssociate

LEMMA TextsJoined == \A s, t, u \in Texts : (s \o t) \o u = s \o (t \o u)
BY JoinsAssociate DEF Texts

LEMMA LetterTypesJoined == \A f, g, h \in Seq(LetterType) : (f \o g) \o h = f \o (g \o h)
BY JoinsAssociate

\* What one more character adds.
LetterOf(x, commands) == IF x = " " THEN <<>> ELSE <<<<x, commands>>>>
GluedAfter(s, x) ==
  IF x = " " THEN <<>> ELSE <<s # <<>> /\ s[Len(s)] = "a" /\ x = "a">>

LEMMA LetterTyped ==
  ASSUME NEW x \in Characters, NEW c \in Commands, NEW s \in Texts
  PROVE  /\ LetterOf(x, c) \in Seq(LetterType) /\ GluedAfter(s, x) \in Seq(Flags)
         /\ Len(LetterOf(x, c)) = Len(GluedAfter(s, x))
<1>1. CASE x = " "
  BY <1>1, EmptySeq DEF LetterOf, GluedAfter
<1>2. CASE x # " "
  <2>1. <<x, c>> \in LetterType
    BY DEF LetterType
  <2>2. LetterOf(x, c) = <<<<x, c>>>> /\ GluedAfter(s, x) = <<s # <<>> /\ s[Len(s)] = "a" /\ x = "a">>
    BY <1>2 DEF LetterOf, GluedAfter
  <2>3. LetterOf(x, c) \in Seq(LetterType) /\ Len(LetterOf(x, c)) = 1
    BY <2>1, <2>2
  <2>4. GluedAfter(s, x) \in Seq(Flags) /\ Len(GluedAfter(s, x)) = 1
    <3> DEFINE b == s # <<>> /\ s[Len(s)] = "a" /\ x = "a"
    <3>1. b \in Flags
      BY DEF Flags
    <3> HIDE DEF b
    <3>2. <<b>> \in Seq(Flags) /\ Len(<<b>>) = 1
      BY <3>1
    <3> QED BY <2>2, <3>2 DEF b
  <2> QED BY <2>3, <2>4
<1> QED BY <1>1, <1>2

\* Letters and Glued go through a text.
LetterParts(s, c) == [n \in DOMAIN s |-> LetterOf(s[n], c)]
GluedParts(s) ==
  [n \in DOMAIN s |-> IF s[n] = " " THEN <<>> ELSE <<n > 1 /\ s[n - 1] = "a" /\ s[n] = "a">>]

LEMMA PartsTyped ==
  ASSUME NEW s \in Texts, NEW c \in Commands
  PROVE  /\ LetterParts(s, c) \in Seq(Seq(LetterType)) /\ Len(LetterParts(s, c)) = Len(s)
         /\ GluedParts(s) \in Seq(Seq(Flags)) /\ Len(GluedParts(s)) = Len(s)
         /\ Letters(s, c) = FlattenSeq(LetterParts(s, c))
         /\ Glued(s) = FlattenSeq(GluedParts(s))
<1>1. DOMAIN s = 1..Len(s) /\ Len(s) \in Nat /\ \A n \in 1..Len(s) : s[n] \in Characters
  BY LenProperties, ElementOfSeq DEF Texts
<1>2. LetterParts(s, c) \in [1..Len(s) -> Seq(LetterType)]
  <2>1. \A n \in 1..Len(s) : LetterOf(s[n], c) \in Seq(LetterType)
    BY <1>1, LetterTyped
  <2> QED BY <1>1, <2>1 DEF LetterParts
<1>3. GluedParts(s) \in [1..Len(s) -> Seq(Flags)]
  <2>1. ASSUME NEW n \in 1..Len(s)
        PROVE  (IF s[n] = " " THEN <<>> ELSE <<n > 1 /\ s[n - 1] = "a" /\ s[n] = "a">>) \in Seq(Flags)
    <3> DEFINE b == n > 1 /\ s[n - 1] = "a" /\ s[n] = "a"
    <3>1. b \in Flags
      BY DEF Flags
    <3> HIDE DEF b
    <3>2. <<b>> \in Seq(Flags)
      BY <3>1
    <3> QED BY <3>2, EmptySeq DEF b
  <2> QED BY <1>1, <2>1 DEF GluedParts
<1>4. Letters(s, c) = FlattenSeq(LetterParts(s, c)) /\ Glued(s) = FlattenSeq(GluedParts(s))
  BY DEF Letters, Glued, LetterParts, GluedParts, LetterOf
<1> QED BY <1>1, <1>2, <1>3, <1>4, FunctionIsSeq

LEMMA LettersTyped ==
  ASSUME NEW s \in Texts, NEW c \in Commands
  PROVE  /\ Letters(s, c) \in Seq(LetterType) /\ Len(Letters(s, c)) \in Nat
         /\ Glued(s) \in Seq(Flags) /\ Len(Glued(s)) \in Nat
BY PartsTyped, FlattenTyped

LEMMA LettersEmpty ==
  \A c : Letters(<<>>, c) = <<>> /\ Glued(<<>>) = <<>>
<1>1. \A c : LetterParts(<<>>, c) = <<>> /\ GluedParts(<<>>) = <<>>
  BY DEF LetterParts, GluedParts
<1> QED BY <1>1, FlattenEmpty DEF Letters, Glued, LetterParts, GluedParts, LetterOf

LEMMA LettersAppend ==
  ASSUME NEW s \in Texts, NEW x \in Characters, NEW c \in Commands
  PROVE  /\ Letters(Append(s, x), c) = Letters(s, c) \o LetterOf(x, c)
         /\ Glued(Append(s, x)) = Glued(s) \o GluedAfter(s, x)
<1> DEFINE t == Append(s, x)
<1>1. /\ t \in Texts /\ Len(t) = Len(s) + 1 /\ Len(s) \in Nat
      /\ (\A n \in 1..Len(s) : t[n] = s[n]) /\ t[Len(s) + 1] = x
  BY AppendProperties, LenProperties DEF Texts
<1>2. DOMAIN t = 1..Len(t) /\ DOMAIN s = 1..Len(s)
  BY <1>1, LenProperties DEF Texts
<1> HIDE DEF t
<1>3. /\ LetterParts(t, c) \in Seq(Seq(LetterType)) /\ Len(LetterParts(t, c)) = Len(t)
      /\ GluedParts(t) \in Seq(Seq(Flags)) /\ Len(GluedParts(t)) = Len(t)
      /\ Letters(t, c) = FlattenSeq(LetterParts(t, c)) /\ Glued(t) = FlattenSeq(GluedParts(t))
  BY <1>1, PartsTyped
<1>4. /\ LetterParts(s, c) \in Seq(Seq(LetterType)) /\ Len(LetterParts(s, c)) = Len(s)
      /\ GluedParts(s) \in Seq(Seq(Flags)) /\ Len(GluedParts(s)) = Len(s)
      /\ Letters(s, c) = FlattenSeq(LetterParts(s, c)) /\ Glued(s) = FlattenSeq(GluedParts(s))
  BY PartsTyped
<1>5. \A n \in 1..Len(s) : LetterParts(t, c)[n] = LetterParts(s, c)[n]
  BY <1>1, <1>2 DEF LetterParts
<1>6. ASSUME NEW n \in 1..Len(s) PROVE GluedParts(t)[n] = GluedParts(s)[n]
  <2>1. n \in 1..Len(t) /\ t[n] = s[n] /\ (n > 1 => n - 1 \in 1..Len(s) /\ t[n - 1] = s[n - 1])
    BY <1>1
  <2> QED BY <1>2, <2>1 DEF GluedParts
<1>7. Len(s) + 1 \in 1..Len(t)
  BY <1>1
<1>8. LetterParts(t, c)[Len(s) + 1] = LetterOf(x, c)
  BY <1>1, <1>2, <1>7 DEF LetterParts
<1>9. GluedParts(t)[Len(s) + 1] = GluedAfter(s, x)
  <2>1. s # <<>> <=> Len(s) + 1 > 1
    BY <1>1, EmptySeq, LenProperties DEF Texts
  <2>2. (Len(s) + 1) - 1 = Len(s)
    BY <1>1
  <2>3. Len(s) + 1 > 1 => Len(s) \in 1..Len(s) /\ t[Len(s)] = s[Len(s)]
    BY <1>1
  <2> QED BY <1>1, <1>2, <1>7, <2>1, <2>2, <2>3 DEF GluedParts, GluedAfter
<1>10. LetterParts(t, c) = Append(LetterParts(s, c), LetterOf(x, c))
  BY <1>1, <1>3, <1>4, <1>5, <1>8, LongerByOne
<1>11. GluedParts(t) = Append(GluedParts(s), GluedAfter(s, x))
  BY <1>1, <1>3, <1>4, <1>6, <1>9, LongerByOne
<1>12. LetterOf(x, c) \in Seq(LetterType) /\ GluedAfter(s, x) \in Seq(Flags)
  BY LetterTyped
<1>13. Letters(t, c) = Letters(s, c) \o LetterOf(x, c)
  BY <1>3, <1>4, <1>10, <1>12, FlattenAppend
<1>14. Glued(t) = Glued(s) \o GluedAfter(s, x)
  BY <1>3, <1>4, <1>11, <1>12, FlattenAppend
<1> QED BY <1>13, <1>14 DEF t

LEMMA AsManyGlued ==
  ASSUME NEW c \in Commands
  PROVE  \A s \in Texts : Len(Glued(s)) = Len(Letters(s, c))
<1> DEFINE S == {s \in Texts : Len(Glued(s)) = Len(Letters(s, c))}
<1>1. <<>> \in S
  BY LettersEmpty, EmptySeq DEF Texts
<1>2. ASSUME NEW s \in Texts, NEW x \in Characters, s \in S PROVE Append(s, x) \in S
  <2>1. /\ Letters(Append(s, x), c) = Letters(s, c) \o LetterOf(x, c)
        /\ Glued(Append(s, x)) = Glued(s) \o GluedAfter(s, x)
    BY LettersAppend
  <2>2. /\ LetterOf(x, c) \in Seq(LetterType) /\ GluedAfter(s, x) \in Seq(Flags)
        /\ Len(LetterOf(x, c)) = Len(GluedAfter(s, x))
    BY LetterTyped
  <2>3. Letters(s, c) \in Seq(LetterType) /\ Glued(s) \in Seq(Flags)
    BY LettersTyped
  <2>4. Len(Letters(s, c) \o LetterOf(x, c)) = Len(Letters(s, c)) + Len(LetterOf(x, c))
    BY <2>2, <2>3, JoinedHas
  <2>5. Len(Glued(s) \o GluedAfter(s, x)) = Len(Glued(s)) + Len(GluedAfter(s, x))
    BY <2>2, <2>3, JoinedHas
  <2>6. Append(s, x) \in Texts
    BY AppendProperties DEF Texts
  <2> QED BY <1>2, <2>1, <2>2, <2>4, <2>5, <2>6
<1>3. Texts \subseteq S
  <2> HIDE DEF S
  <2> QED BY <1>1, <1>2, InductionOnSequences DEF Texts
<1> QED BY <1>3

\* The letters of two texts are those of the one and then those of the other.
LEMMA LettersJoined ==
  ASSUME NEW s \in Texts, NEW t \in Texts, NEW c \in Commands
  PROVE  Letters(s \o t, c) = Letters(s, c) \o Letters(t, c)
<1> DEFINE S == {u \in Texts : Letters(s \o u, c) = Letters(s, c) \o Letters(u, c)}
<1>1. <<>> \in S
  <2>1. Letters(s, c) \in Seq(LetterType) /\ <<>> \in Texts /\ s \o <<>> = s
    BY LettersTyped, EmptySeq, ConcatEmptySeq DEF Texts
  <2> QED BY <2>1, LettersEmpty, ConcatEmptySeq
<1>2. ASSUME NEW u \in Texts, NEW x \in Characters, u \in S PROVE Append(u, x) \in S
  <2>1. Append(u, x) \in Texts /\ s \o u \in Texts
    BY AppendProperties, ConcatProperties DEF Texts
  <2>2. Letters(s \o Append(u, x), c) = Letters(s \o u, c) \o LetterOf(x, c)
    <3>1. s \o Append(u, x) = Append(s \o u, x)
      BY AppendJoined DEF Texts
    <3> QED BY <2>1, <3>1, LettersAppend
  <2>3. Letters(Append(u, x), c) = Letters(u, c) \o LetterOf(x, c)
    BY LettersAppend
  <2>4. Letters(s, c) \in Seq(LetterType) /\ Letters(u, c) \in Seq(LetterType) /\ LetterOf(x, c) \in Seq(LetterType)
    BY LettersTyped, LetterTyped
  <2>5. (Letters(s, c) \o Letters(u, c)) \o LetterOf(x, c) = Letters(s, c) \o (Letters(u, c) \o LetterOf(x, c))
    BY <2>4, LetterTypesJoined
  <2> QED BY <1>2, <2>1, <2>2, <2>3, <2>5
<1>3. Texts \subseteq S
  <2> HIDE DEF S
  <2> QED BY <1>1, <1>2, InductionOnSequences DEF Texts
<1> QED BY <1>3

\* Spaces have no letters.
LEMMA LettersBlank ==
  ASSUME NEW c \in Commands
  PROVE  \A s \in Texts : (\A n \in 1..Len(s) : s[n] = " ") => Letters(s, c) = <<>> /\ Glued(s) = <<>>
<1> DEFINE S == {s \in Texts : (\A n \in 1..Len(s) : s[n] = " ") => Letters(s, c) = <<>> /\ Glued(s) = <<>>}
<1>1. <<>> \in S
  BY LettersEmpty, EmptySeq DEF Texts
<1>2. ASSUME NEW s \in Texts, NEW x \in Characters, s \in S PROVE Append(s, x) \in S
  <2> DEFINE t == Append(s, x)
  <2>1. /\ t \in Texts /\ Len(t) = Len(s) + 1 /\ Len(s) \in Nat
        /\ (\A n \in 1..Len(s) : t[n] = s[n]) /\ t[Len(s) + 1] = x
    BY AppendProperties, LenProperties DEF Texts
  <2>2. ASSUME \A n \in 1..Len(t) : t[n] = " " PROVE x = " " /\ \A n \in 1..Len(s) : s[n] = " "
    <3> HIDE DEF t
    <3>1. Len(s) + 1 \in 1..Len(t) /\ \A n \in 1..Len(s) : n \in 1..Len(t)
      BY <2>1
    <3> QED BY <2>1, <2>2, <3>1
  <2>3. ASSUME \A n \in 1..Len(t) : t[n] = " " PROVE Letters(t, c) = <<>> /\ Glued(t) = <<>>
    <3>1. Letters(s, c) = <<>> /\ Glued(s) = <<>> /\ LetterOf(x, c) = <<>> /\ GluedAfter(s, x) = <<>>
      BY <1>2, <2>2, <2>3 DEF LetterOf, GluedAfter
    <3>2. <<>> \o <<>> = <<>>
      BY EmptySeq, ConcatEmptySeq
    <3> QED BY <3>1, <3>2, LettersAppend
  <2> QED BY <2>1, <2>3
<1>3. Texts \subseteq S
  <2> HIDE DEF S
  <2> QED BY <1>1, <1>2, InductionOnSequences DEF Texts
<1> QED BY <1>3

\* Whether a text goes on with a letter right where another one ends with one.
Touch(s, t) == s # <<>> /\ t # <<>> /\ s[Len(s)] = "a" /\ t[1] = "a"

\* What is glued in two texts is glued in them put together, and one letter more where they touch.
LEMMA GluedAcross ==
  ASSUME NEW s \in Texts
  PROVE  \A t \in Texts : \E g \in Seq(Flags) :
           /\ Glued(s \o t) = Glued(s) \o g /\ Len(g) = Len(Glued(t))
           /\ \A m \in 1..Len(g) : Glued(t)[m] => g[m]
           /\ \A m \in 1..Len(g) : g[m] /\ ~Glued(t)[m] => m = 1 /\ Touch(s, t)
<1> DEFINE P(t, g) ==
             /\ Glued(s \o t) = Glued(s) \o g /\ Len(g) = Len(Glued(t))
             /\ \A m \in 1..Len(g) : Glued(t)[m] => g[m]
             /\ \A m \in 1..Len(g) : g[m] /\ ~Glued(t)[m] => m = 1 /\ Touch(s, t)
           S == {t \in Texts : \E g \in Seq(Flags) : P(t, g)}
<1>0. PICK c : c \in Commands
  <2>1. [rate |-> 0, language |-> 0] \in Commands
    BY DEF Commands
  <2> QED BY <2>1
<1>1. <<>> \in S
  <2>1. Glued(s) \in Seq(Flags) /\ <<>> \in Texts /\ <<>> \in Seq(Flags) /\ s \o <<>> = s /\ Len(<<>>) = 0
    BY <1>0, LettersTyped, EmptySeq, ConcatEmptySeq DEF Texts
  <2>2. Glued(s) \o <<>> = Glued(s)
    BY <2>1, ConcatEmptySeq
  <2>3. P(<<>>, <<>>)
    BY <2>1, <2>2, LettersEmpty
  <2> QED BY <2>1, <2>3
<1>2. ASSUME NEW t \in Texts, NEW x \in Characters, t \in S PROVE Append(t, x) \in S
  <2> DEFINE u == Append(t, x)
  <2>1. /\ u \in Texts /\ Len(u) = Len(t) + 1 /\ Len(t) \in Nat
        /\ (\A n \in 1..Len(t) : u[n] = t[n]) /\ u[Len(t) + 1] = x /\ u # <<>>
    BY AppendProperties, LenProperties DEF Texts
  <2>2. PICK g \in Seq(Flags) : P(t, g)
    BY <1>2
  <2>3. s \o u = Append(s \o t, x) /\ s \o t \in Texts
    BY AppendJoined, ConcatProperties DEF Texts
  <2>4. Glued(s \o u) = Glued(s \o t) \o GluedAfter(s \o t, x) /\ Glued(u) = Glued(t) \o GluedAfter(t, x)
    BY <1>0, <2>3, LettersAppend
  <2>5. /\ Glued(s) \in Seq(Flags) /\ Glued(t) \in Seq(Flags)
        /\ GluedAfter(s \o t, x) \in Seq(Flags) /\ GluedAfter(t, x) \in Seq(Flags)
    BY <1>0, <2>3, LettersTyped, LetterTyped
  <2> DEFINE h == g \o GluedAfter(s \o t, x)
  <2>6. h \in Seq(Flags) /\ Glued(s \o u) = Glued(s) \o h
    <3>1. h \in Seq(Flags)
      BY <2>5, ConcatProperties
    <3>2. Glued(s) \o (g \o GluedAfter(s \o t, x)) = (Glued(s) \o g) \o GluedAfter(s \o t, x)
      BY <2>5, FlagsJoined, SMTT(30)
    <3>3. Glued(s \o t) = Glued(s) \o g
      BY <2>2
    <3> QED BY <2>4, <3>1, <3>2, <3>3
  <2>7. /\ Len(GluedAfter(s \o t, x)) = Len(GluedAfter(t, x))
        /\ \A m \in 1..Len(GluedAfter(t, x)) : m = 1
        /\ \A m \in 1..Len(GluedAfter(t, x)) : GluedAfter(t, x)[m] => GluedAfter(s \o t, x)[m]
        /\ \A m \in 1..Len(GluedAfter(t, x)) :
             GluedAfter(s \o t, x)[m] /\ ~GluedAfter(t, x)[m] => t = <<>> /\ Touch(s, u)
    <3>1. CASE x = " "
      <4>1. GluedAfter(s \o t, x) = <<>> /\ GluedAfter(t, x) = <<>> /\ Len(<<>>) = 0
        BY <3>1, EmptySeq DEF GluedAfter
      <4> QED BY <4>1
    <3>2. CASE x # " "
      <4> DEFINE p == s \o t # <<>> /\ (s \o t)[Len(s \o t)] = "a" /\ x = "a"
                 q == t # <<>> /\ t[Len(t)] = "a" /\ x = "a"
      <4>1. GluedAfter(s \o t, x) = <<p>> /\ GluedAfter(t, x) = <<q>>
        BY <3>2 DEF GluedAfter
      <4>2. CASE t = <<>>
        <5>1. s \o t = s
          BY <4>2, ConcatEmptySeq DEF Texts
        <5>2. u[1] = x
          BY <2>1, <4>2, EmptySeq
        <5>3. p => Touch(s, u)
          BY <2>1, <5>1, <5>2 DEF Touch
        <5>4. q = FALSE
          BY <4>2
        <5> HIDE DEF p, q
        <5> QED BY <4>1, <4>2, <5>3, <5>4
      <4>3. CASE t # <<>>
        <5>1. /\ Len(s \o t) = Len(s) + Len(t) /\ Len(s) \in Nat
              /\ \A n \in 1..Len(t) : (s \o t)[Len(s) + n] = t[n]
          BY JoinedHas DEF Texts
        <5>2. Len(t) \in 1..Len(t)
          BY <2>1, <4>3, EmptySeq DEF Texts
        <5>3. (s \o t)[Len(s \o t)] = t[Len(t)] /\ s \o t # <<>>
          BY <5>1, <5>2, EmptySeq
        <5>4. p = q
          BY <4>3, <5>3
        <5> HIDE DEF p, q
        <5> QED BY <4>1, <5>4
      <4> QED BY <4>2, <4>3
    <3> QED BY <3>1, <3>2
  <2>8. /\ Len(Glued(u)) = Len(Glued(t)) + Len(GluedAfter(t, x))
        /\ Len(Glued(t)) \in Nat /\ Len(GluedAfter(t, x)) \in Nat
        /\ \A m \in 1..Len(Glued(t)) : Glued(u)[m] = Glued(t)[m]
        /\ \A m \in 1..Len(GluedAfter(t, x)) : Glued(u)[Len(Glued(t)) + m] = GluedAfter(t, x)[m]
    BY <2>4, <2>5, JoinedHas
  <2>9. /\ Len(h) = Len(g) + Len(GluedAfter(s \o t, x))
        /\ \A m \in 1..Len(g) : h[m] = g[m]
        /\ \A m \in 1..Len(GluedAfter(s \o t, x)) : h[Len(g) + m] = GluedAfter(s \o t, x)[m]
    BY <2>5, JoinedHas
  <2>10. t = <<>> => Len(Glued(t)) = 0
    BY LettersEmpty, EmptySeq
  <2>11. Touch(s, t) => Touch(s, u)
    <3>1. t # <<>> => 1 \in 1..Len(t)
      BY <2>1, EmptySeq DEF Texts
    <3> QED BY <2>1, <3>1 DEF Touch
  <2>12. ASSUME NEW m \in 1..Len(h)
         PROVE  (Glued(u)[m] => h[m]) /\ (h[m] /\ ~Glued(u)[m] => m = 1 /\ Touch(s, u))
    <3> HIDE DEF h, u
    <3>1. CASE m <= Len(g)
      <4>1. m \in 1..Len(g) /\ m \in 1..Len(Glued(t))
        BY <2>2, <2>8, <3>1
      <4> QED BY <2>2, <2>8, <2>9, <2>11, <4>1
    <3>2. CASE ~(m <= Len(g))
      <4> DEFINE k == m - Len(g)
      <4>1. k \in 1..Len(GluedAfter(t, x)) /\ Len(g) + k = m /\ Len(g) = Len(Glued(t))
        BY <2>2, <2>7, <2>8, <2>9, <3>2
      <4>2. h[m] = GluedAfter(s \o t, x)[k] /\ Glued(u)[m] = GluedAfter(t, x)[k] /\ k = 1
        BY <2>7, <2>8, <2>9, <4>1
      <4>3. t = <<>> => m = 1
        BY <2>10, <4>1, <4>2
      <4> HIDE DEF k
      <4> QED BY <2>7, <4>1, <4>2, <4>3
    <3> QED BY <3>1, <3>2
  <2>13. Len(h) = Len(Glued(u))
    BY <2>2, <2>7, <2>8, <2>9
  <2>14. P(u, h)
    BY <2>6, <2>12, <2>13
  <2> QED BY <2>1, <2>6, <2>14
<1>3. Texts \subseteq S
  <2> HIDE DEF S
  <2> QED BY <1>1, <1>2, InductionOnSequences DEF Texts
<1> QED BY <1>3

-----------------------------------------------------------------------------
(* What is said, one after the other                                         *)

MarkType == Nat \X Nat
Marks == Seq(MarkType)
Sayings ==
  {x \in [letters : Seq(LetterType), glued : Seq(Flags), stops : Marks] : Len(x.glued) = Len(x.letters)}

LEMMA MarkIs ==
  ASSUME NEW m \in Marks, NEW n \in 1..Len(m)
  PROVE  /\ m[n] = <<m[n][1], m[n][2]>> /\ m[n][1] \in Nat /\ m[n][2] \in Nat
         /\ DOMAIN m = 1..Len(m) /\ Len(m) \in Nat
<1>1. m[n] \in Nat \X Nat
  BY ElementOfSeq DEF Marks, MarkType
<1> QED BY <1>1, LenProperties DEF Marks

LEMMA MovedTyped ==
  ASSUME NEW m \in Marks, NEW k \in Nat
  PROVE  /\ Moved(m, k) \in Marks /\ Len(Moved(m, k)) = Len(m) /\ Len(m) \in Nat
         /\ \A n \in 1..Len(m) : /\ Moved(m, k)[n] = <<m[n][1], k + m[n][2]>>
                                 /\ Moved(m, k)[n][1] = m[n][1] /\ Moved(m, k)[n][2] = k + m[n][2]
<1>1. DOMAIN m = 1..Len(m) /\ Len(m) \in Nat
  BY LenProperties DEF Marks
<1>2. \A n \in 1..Len(m) : <<m[n][1], k + m[n][2]>> \in MarkType
  BY MarkIs DEF MarkType
<1>3. Moved(m, k) \in [1..Len(m) -> MarkType]
  BY <1>1, <1>2 DEF Moved
<1>4. Moved(m, k) \in Seq(MarkType) /\ Len(Moved(m, k)) = Len(m)
  BY <1>1, <1>3, FunctionIsSeq
<1>5. \A n \in 1..Len(m) : Moved(m, k)[n] = <<m[n][1], k + m[n][2]>>
  BY <1>1 DEF Moved
<1> QED BY <1>1, <1>4, <1>5 DEF Marks

LEMMA MarksEqual ==
  ASSUME NEW m \in Marks, NEW p \in Marks, Len(m) = Len(p),
         \A n \in 1..Len(m) : m[n][1] = p[n][1] /\ m[n][2] = p[n][2]
  PROVE  m = p
<1>1. ASSUME NEW n \in 1..Len(m) PROVE m[n] = p[n]
  <2>1. n \in 1..Len(p)
    OBVIOUS
  <2>2. m[n] = <<m[n][1], m[n][2]>>
    BY MarkIs
  <2>3. p[n] = <<p[n][1], p[n][2]>>
    BY <2>1, MarkIs
  <2> QED BY <2>2, <2>3
<1> QED BY <1>1, SeqEqual DEF Marks

LEMMA MovedJoined ==
  ASSUME NEW m \in Marks, NEW p \in Marks, NEW k \in Nat
  PROVE  m \o p \in Marks /\ Moved(m \o p, k) = Moved(m, k) \o Moved(p, k)
<1>1. m \o p \in Marks
  BY ConcatProperties DEF Marks
<1>2. /\ Len(m \o p) = Len(m) + Len(p) /\ Len(m) \in Nat /\ Len(p) \in Nat
      /\ \A n \in 1..Len(m) : (m \o p)[n] = m[n]
      /\ \A n \in 1..Len(p) : (m \o p)[Len(m) + n] = p[n]
  BY JoinedHas DEF Marks
<1> DEFINE u == Moved(m \o p, k)
<1>3. u \in Marks /\ Len(u) = Len(m \o p) /\ \A n \in 1..Len(m \o p) : u[n] = <<(m \o p)[n][1], k + (m \o p)[n][2]>>
  BY <1>1, MovedTyped
<1>4. Moved(m, k) \in Marks /\ Len(Moved(m, k)) = Len(m) /\ \A n \in 1..Len(m) : Moved(m, k)[n] = <<m[n][1], k + m[n][2]>>
  BY MovedTyped
<1>5. Moved(p, k) \in Marks /\ Len(Moved(p, k)) = Len(p) /\ \A n \in 1..Len(p) : Moved(p, k)[n] = <<p[n][1], k + p[n][2]>>
  BY MovedTyped
<1> HIDE DEF u
<1>6. \A n \in 1..Len(m) : u[n] = Moved(m, k)[n]
  <2>1. \A n \in 1..Len(m) : n \in 1..Len(m \o p)
    BY <1>2
  <2> QED BY <1>2, <1>3, <1>4, <2>1
<1>7. \A n \in 1..Len(p) : u[Len(m) + n] = Moved(p, k)[n]
  <2>1. \A n \in 1..Len(p) : Len(m) + n \in 1..Len(m \o p)
    BY <1>2
  <2> QED BY <1>2, <1>3, <1>5, <2>1
<1>8. u = Moved(m, k) \o Moved(p, k)
  <2> DEFINE a == Moved(m, k)
             b == Moved(p, k)
  <2>1. u \in Seq(MarkType) /\ a \in Seq(MarkType) /\ b \in Seq(MarkType)
    BY <1>3, <1>4, <1>5 DEF Marks
  <2>2. Len(a) = Len(m) /\ Len(b) = Len(p) /\ Len(u) = Len(a) + Len(b)
    BY <1>2, <1>3, <1>4, <1>5
  <2>3. (\A n \in 1..Len(a) : u[n] = a[n]) /\ (\A n \in 1..Len(b) : u[Len(a) + n] = b[n])
    BY <1>6, <1>7, <2>2
  <2> HIDE DEF a, b
  <2>4. u = a \o b
    BY <2>1, <2>2, <2>3, JoinedIs
  <2> QED BY <2>4 DEF a, b
<1> QED BY <1>1, <1>8 DEF u

LEMMA MovedTwice ==
  ASSUME NEW m \in Marks, NEW j \in Nat, NEW k \in Nat
  PROVE  Moved(Moved(m, j), k) = Moved(m, k + j)
<1>1. Moved(m, j) \in Marks /\ Len(Moved(m, j)) = Len(m) /\ \A n \in 1..Len(m) : Moved(m, j)[n][1] = m[n][1] /\ Moved(m, j)[n][2] = j + m[n][2]
  BY MovedTyped
<1>2. /\ Moved(Moved(m, j), k) \in Marks /\ Len(Moved(Moved(m, j), k)) = Len(m)
      /\ \A n \in 1..Len(m) : /\ Moved(Moved(m, j), k)[n][1] = m[n][1]
                              /\ Moved(Moved(m, j), k)[n][2] = k + (j + m[n][2])
  BY <1>1, MovedTyped
<1>3. k + j \in Nat
  OBVIOUS
<1>4. /\ Moved(m, k + j) \in Marks /\ Len(Moved(m, k + j)) = Len(m)
      /\ \A n \in 1..Len(m) : Moved(m, k + j)[n][1] = m[n][1] /\ Moved(m, k + j)[n][2] = (k + j) + m[n][2]
  BY <1>3, MovedTyped
<1>5. \A n \in 1..Len(m) : m[n][2] \in Nat
  BY MarkIs
<1>6. \A n \in 1..Len(m) : k + (j + m[n][2]) = (k + j) + m[n][2]
  BY <1>5
<1> QED BY <1>2, <1>4, <1>6, MarksEqual

LEMMA MovedNone ==
  ASSUME NEW m \in Marks
  PROVE  Moved(m, 0) = m
<1>1. Moved(m, 0) \in Marks /\ Len(Moved(m, 0)) = Len(m) /\ \A n \in 1..Len(m) : Moved(m, 0)[n][1] = m[n][1] /\ Moved(m, 0)[n][2] = 0 + m[n][2]
  BY MovedTyped
<1>2. \A n \in 1..Len(m) : 0 + m[n][2] = m[n][2]
  BY MarkIs
<1> QED BY <1>1, <1>2, MarksEqual

LEMMA MovedEmpty == \A k : Moved(<<>>, k) = <<>>
BY DEF Moved

Then(a, b) ==
  [letters |-> a.letters \o b.letters, glued |-> a.glued \o b.glued,
   stops |-> a.stops \o Moved(b.stops, Len(a.letters))]

LEMMA SayingIs ==
  ASSUME NEW a \in Sayings
  PROVE  /\ a.letters \in Seq(LetterType) /\ a.glued \in Seq(Flags) /\ a.stops \in Marks
         /\ Len(a.glued) = Len(a.letters) /\ Len(a.letters) \in Nat
         /\ a = [letters |-> a.letters, glued |-> a.glued, stops |-> a.stops]
BY LenProperties DEF Sayings

LEMMA SayingMade ==
  ASSUME NEW l \in Seq(LetterType), NEW g \in Seq(Flags), NEW s \in Marks, Len(g) = Len(l)
  PROVE  [letters |-> l, glued |-> g, stops |-> s] \in Sayings
BY DEF Sayings

LEMMA SayingsEqual ==
  ASSUME NEW a \in Sayings, NEW b \in Sayings, a.letters = b.letters, a.glued = b.glued, a.stops = b.stops
  PROVE  a = b
BY SayingIs

LEMMA ThenParts ==
  ASSUME NEW a, NEW b
  PROVE  /\ Then(a, b).letters = a.letters \o b.letters /\ Then(a, b).glued = a.glued \o b.glued
         /\ Then(a, b).stops = a.stops \o Moved(b.stops, Len(a.letters))
BY DEF Then

LEMMA ThenTyped ==
  ASSUME NEW a \in Sayings, NEW b \in Sayings
  PROVE  Then(a, b) \in Sayings
<1>1. /\ a.letters \in Seq(LetterType) /\ a.glued \in Seq(Flags) /\ a.stops \in Marks
      /\ Len(a.glued) = Len(a.letters) /\ Len(a.letters) \in Nat
      /\ b.letters \in Seq(LetterType) /\ b.glued \in Seq(Flags) /\ b.stops \in Marks
      /\ Len(b.glued) = Len(b.letters)
  BY SayingIs
<1>2. Moved(b.stops, Len(a.letters)) \in Marks
  BY <1>1, MovedTyped
<1>3. a.stops \o Moved(b.stops, Len(a.letters)) \in Marks
  BY <1>1, <1>2, MovedJoined
<1>4. a.letters \o b.letters \in Seq(LetterType) /\ Len(a.letters \o b.letters) = Len(a.letters) + Len(b.letters)
  BY <1>1, JoinedHas
<1>5. a.glued \o b.glued \in Seq(Flags) /\ Len(a.glued \o b.glued) = Len(a.glued) + Len(b.glued)
  BY <1>1, JoinedHas
<1> QED BY <1>1, <1>3, <1>4, <1>5, SayingMade DEF Then

LEMMA MarksAssociate == \A m, p, q \in Marks : (m \o p) \o q = m \o (p \o q)
BY JoinsAssociate DEF Marks

LEMMA ThenAssociates ==
  ASSUME NEW a \in Sayings, NEW b \in Sayings, NEW c \in Sayings
  PROVE  Then(Then(a, b), c) = Then(a, Then(b, c))
<1>1. /\ a.letters \in Seq(LetterType) /\ a.glued \in Seq(Flags) /\ a.stops \in Marks /\ Len(a.letters) \in Nat
      /\ b.letters \in Seq(LetterType) /\ b.glued \in Seq(Flags) /\ b.stops \in Marks /\ Len(b.letters) \in Nat
      /\ c.letters \in Seq(LetterType) /\ c.glued \in Seq(Flags) /\ c.stops \in Marks
  BY SayingIs
<1> DEFINE i == Len(a.letters)
           j == Len(b.letters)
<1>2. Then(a, b) \in Sayings /\ Then(b, c) \in Sayings /\ Then(Then(a, b), c) \in Sayings /\ Then(a, Then(b, c)) \in Sayings
  BY ThenTyped
<1>3. (a.letters \o b.letters) \o c.letters = a.letters \o (b.letters \o c.letters)
  BY <1>1, LetterTypesJoined
<1>4. (a.glued \o b.glued) \o c.glued = a.glued \o (b.glued \o c.glued)
  BY <1>1, FlagsJoined
<1>5. Len(a.letters \o b.letters) = i + j
  BY <1>1, JoinedHas
<1>6. Moved(b.stops, i) \in Marks /\ Moved(c.stops, j) \in Marks /\ Moved(c.stops, i + j) \in Marks
  <2>1. i + j \in Nat
    <3>1. i \in Nat /\ j \in Nat
      BY <1>1
    <3> HIDE DEF i, j
    <3> QED BY <3>1
  <2>2. Moved(b.stops, i) \in Marks
    BY <1>1, MovedTyped
  <2>3. Moved(c.stops, j) \in Marks
    BY <1>1, MovedTyped
  <2>4. Moved(c.stops, i + j) \in Marks
    BY <1>1, <2>1, MovedTyped
  <2> QED BY <2>2, <2>3, <2>4
<1>7. Moved(b.stops \o Moved(c.stops, j), i) = Moved(b.stops, i) \o Moved(Moved(c.stops, j), i)
  BY <1>1, <1>6, MovedJoined, ZenonT(30)
<1>8. Moved(Moved(c.stops, j), i) = Moved(c.stops, i + j)
  BY <1>1, MovedTwice
<1>9. (a.stops \o Moved(b.stops, i)) \o Moved(c.stops, i + j) = a.stops \o (Moved(b.stops, i) \o Moved(c.stops, i + j))
  BY <1>1, <1>6, MarksAssociate, ZenonT(30)
<1> DEFINE ab == Then(a, b)
           bc == Then(b, c)
           l == Then(ab, c)
           r == Then(a, bc)
<1>10. /\ ab.letters = a.letters \o b.letters /\ ab.glued = a.glued \o b.glued
       /\ ab.stops = a.stops \o Moved(b.stops, i)
  BY ThenParts
<1>11. /\ bc.letters = b.letters \o c.letters /\ bc.glued = b.glued \o c.glued
       /\ bc.stops = b.stops \o Moved(c.stops, j)
  BY ThenParts
<1>12. /\ l.letters = ab.letters \o c.letters /\ l.glued = ab.glued \o c.glued
       /\ l.stops = ab.stops \o Moved(c.stops, Len(ab.letters))
  BY ThenParts
<1>13. /\ r.letters = a.letters \o bc.letters /\ r.glued = a.glued \o bc.glued
       /\ r.stops = a.stops \o Moved(bc.stops, i)
  BY ThenParts
<1> HIDE DEF ab, bc, l, r, i, j
<1>14. l.letters = r.letters
  BY <1>3, <1>10, <1>11, <1>12, <1>13
<1>15. l.glued = r.glued
  BY <1>4, <1>10, <1>11, <1>12, <1>13
<1>16. l.stops = r.stops
  BY <1>5, <1>7, <1>8, <1>9, <1>10, <1>11, <1>12, <1>13
<1>17. l \in Sayings /\ r \in Sayings
  BY <1>2 DEF l, r, ab, bc
<1>18. l = r
  BY <1>14, <1>15, <1>16, <1>17, SayingsEqual
<1> QED BY <1>18 DEF l, r, ab, bc

LEMMA SilenceIs ==
  /\ Silence \in Sayings /\ Silence.letters = <<>> /\ Silence.glued = <<>> /\ Silence.stops = <<>>
  /\ \A a \in Sayings : Then(Silence, a) = a /\ Then(a, Silence) = a
<1>1. /\ Silence.letters = <<>> /\ Silence.glued = <<>> /\ Silence.stops = <<>>
      /\ Silence = [letters |-> <<>>, glued |-> <<>>, stops |-> <<>>]
  BY DEF Silence
<1>2. <<>> \in Seq(LetterType) /\ <<>> \in Seq(Flags) /\ <<>> \in Marks /\ Len(<<>>) = 0
  BY EmptySeq DEF Marks
<1>3. Silence \in Sayings
  BY <1>1, <1>2, SayingMade
<1>4. ASSUME NEW a \in Sayings PROVE Then(Silence, a) = a /\ Then(a, Silence) = a
  <2>1. a.letters \in Seq(LetterType) /\ a.glued \in Seq(Flags) /\ a.stops \in Marks
    BY SayingIs
  <2>2. Then(Silence, a) \in Sayings /\ Then(a, Silence) \in Sayings
    BY <1>3, ThenTyped
  <2>3. <<>> \o a.letters = a.letters /\ a.letters \o <<>> = a.letters
    BY <2>1, ConcatEmptySeq
  <2>4. <<>> \o a.glued = a.glued /\ a.glued \o <<>> = a.glued
    BY <2>1, ConcatEmptySeq
  <2>5. <<>> \o a.stops = a.stops /\ a.stops \o <<>> = a.stops
    BY <2>1, ConcatEmptySeq DEF Marks
  <2>6. Moved(a.stops, 0) = a.stops /\ \A k : Moved(<<>>, k) = <<>>
    BY <2>1, MovedNone, MovedEmpty
  <2>7. /\ Then(Silence, a).letters = a.letters /\ Then(Silence, a).glued = a.glued
        /\ Then(Silence, a).stops = a.stops
    <3>1. /\ Then(Silence, a).letters = <<>> \o a.letters /\ Then(Silence, a).glued = <<>> \o a.glued
          /\ Then(Silence, a).stops = <<>> \o Moved(a.stops, Len(<<>>))
      BY <1>1, ThenParts
    <3> QED BY <1>2, <2>3, <2>4, <2>5, <2>6, <3>1
  <2>8. /\ Then(a, Silence).letters = a.letters /\ Then(a, Silence).glued = a.glued
        /\ Then(a, Silence).stops = a.stops
    <3>1. /\ Then(a, Silence).letters = a.letters \o <<>> /\ Then(a, Silence).glued = a.glued \o <<>>
          /\ Then(a, Silence).stops = a.stops \o Moved(<<>>, Len(a.letters))
      BY <1>1, ThenParts
    <3> QED BY <2>3, <2>4, <2>5, <2>6, <3>1
  <2> QED BY <2>2, <2>7, <2>8, SayingsEqual
<1> QED BY <1>1, <1>3, <1>4

\* Together joins its parts; the stops move on by the letters before.
LettersIn(said) == [n \in DOMAIN said |-> said[n].letters]
GluedIn(said) == [n \in DOMAIN said |-> said[n].glued]
Before(said, n) == Len(FlattenSeq([m \in 1..n - 1 |-> said[m].letters]))
StopsIn(said) == [n \in DOMAIN said |-> Moved(said[n].stops, Before(said, n))]

LEMMA TogetherIs ==
  ASSUME NEW ss \in Seq(Sayings)
  PROVE  /\ LettersIn(ss) \in Seq(Seq(LetterType)) /\ Len(LettersIn(ss)) = Len(ss)
         /\ GluedIn(ss) \in Seq(Seq(Flags)) /\ Len(GluedIn(ss)) = Len(ss)
         /\ StopsIn(ss) \in Seq(Marks) /\ Len(StopsIn(ss)) = Len(ss) /\ Len(ss) \in Nat
         /\ \A n \in 1..Len(ss) : /\ ss[n] \in Sayings /\ LettersIn(ss)[n] = ss[n].letters
                                  /\ GluedIn(ss)[n] = ss[n].glued
                                  /\ StopsIn(ss)[n] = Moved(ss[n].stops, Before(ss, n))
         /\ Together(ss).letters = FlattenSeq(LettersIn(ss))
         /\ Together(ss).glued = FlattenSeq(GluedIn(ss))
         /\ Together(ss).stops = FlattenSeq(StopsIn(ss))
         /\ Together(ss) = [letters |-> FlattenSeq(LettersIn(ss)), glued |-> FlattenSeq(GluedIn(ss)),
                            stops |-> FlattenSeq(StopsIn(ss))]
<1>1. DOMAIN ss = 1..Len(ss) /\ Len(ss) \in Nat /\ \A n \in 1..Len(ss) : ss[n] \in Sayings
  BY LenProperties, ElementOfSeq
<1>2. LettersIn(ss) \in [1..Len(ss) -> Seq(LetterType)]
  BY <1>1, SayingIs DEF LettersIn
<1>3. GluedIn(ss) \in [1..Len(ss) -> Seq(Flags)]
  BY <1>1, SayingIs DEF GluedIn
<1>4. LettersIn(ss) \in Seq(Seq(LetterType)) /\ Len(LettersIn(ss)) = Len(ss)
  BY <1>1, <1>2, FunctionIsSeq
<1>5. GluedIn(ss) \in Seq(Seq(Flags)) /\ Len(GluedIn(ss)) = Len(ss)
  BY <1>1, <1>3, FunctionIsSeq
<1>6. ASSUME NEW n \in 1..Len(ss) PROVE Before(ss, n) \in Nat
  <2> DEFINE f == [m \in 1..n - 1 |-> ss[m].letters]
  <2>1. n - 1 \in Nat /\ f \in [1..n - 1 -> Seq(LetterType)]
    BY <1>1, SayingIs
  <2>2. f \in Seq(Seq(LetterType))
    <3> HIDE DEF f
    <3> QED BY <2>1, FunctionIsSeq
  <2>3. Len(FlattenSeq(f)) \in Nat
    <3> HIDE DEF f
    <3> QED BY <2>2, FlattenTyped
  <2> QED BY <2>3 DEF Before
<1>7. StopsIn(ss) \in [1..Len(ss) -> Marks]
  <2>1. \A n \in 1..Len(ss) : Moved(ss[n].stops, Before(ss, n)) \in Marks
    BY <1>1, <1>6, SayingIs, MovedTyped
  <2> QED BY <1>1, <2>1 DEF StopsIn
<1>8. StopsIn(ss) \in Seq(Marks) /\ Len(StopsIn(ss)) = Len(ss)
  BY <1>1, <1>7, FunctionIsSeq
<1>9. \A n \in 1..Len(ss) : /\ LettersIn(ss)[n] = ss[n].letters /\ GluedIn(ss)[n] = ss[n].glued
                            /\ StopsIn(ss)[n] = Moved(ss[n].stops, Before(ss, n))
  BY <1>1 DEF LettersIn, GluedIn, StopsIn
<1>10. Together(ss) = [letters |-> FlattenSeq(LettersIn(ss)), glued |-> FlattenSeq(GluedIn(ss)),
                       stops |-> FlattenSeq(StopsIn(ss))]
  BY DEF Together, LettersIn, GluedIn, StopsIn, Before
<1> QED BY <1>1, <1>4, <1>5, <1>8, <1>9, <1>10

LEMMA TogetherEmpty == Together(<<>>) = Silence
<1>1. LettersIn(<<>>) = <<>> /\ GluedIn(<<>>) = <<>> /\ StopsIn(<<>>) = <<>>
  BY DEF LettersIn, GluedIn, StopsIn
<1>2. <<>> \in Seq(Sayings)
  BY EmptySeq
<1> QED BY <1>1, <1>2, TogetherIs, FlattenEmpty DEF Silence

LEMMA FlattenMarks ==
  /\ \A ss \in Seq(Marks) : FlattenSeq(ss) \in Marks
  /\ \A ss \in Seq(Marks), s \in Marks : FlattenSeq(Append(ss, s)) = FlattenSeq(ss) \o s
  /\ \A ss, tt \in Seq(Marks) : FlattenSeq(ss \o tt) = FlattenSeq(ss) \o FlattenSeq(tt)
BY FlattenTyped, FlattenAppend, FlattenJoined DEF Marks

LEMMA TogetherAppend ==
  ASSUME NEW ss \in Seq(Sayings), NEW x \in Sayings
  PROVE  Together(Append(ss, x)) = Then(Together(ss), x)
<1> DEFINE t == Append(ss, x)
           N == Len(ss)
<1>1. /\ t \in Seq(Sayings) /\ Len(t) = N + 1 /\ N \in Nat /\ t[N + 1] = x
      /\ \A n \in 1..N : t[n] = ss[n]
  BY AppendHas
<1> HIDE DEF t
<1>2. /\ LettersIn(ss) \in Seq(Seq(LetterType)) /\ Len(LettersIn(ss)) = N
      /\ GluedIn(ss) \in Seq(Seq(Flags)) /\ Len(GluedIn(ss)) = N
      /\ StopsIn(ss) \in Seq(Marks) /\ Len(StopsIn(ss)) = N
      /\ \A n \in 1..N : /\ LettersIn(ss)[n] = ss[n].letters /\ GluedIn(ss)[n] = ss[n].glued
                         /\ StopsIn(ss)[n] = Moved(ss[n].stops, Before(ss, n))
  BY TogetherIs
<1>3. /\ LettersIn(t) \in Seq(Seq(LetterType)) /\ Len(LettersIn(t)) = N + 1
      /\ GluedIn(t) \in Seq(Seq(Flags)) /\ Len(GluedIn(t)) = N + 1
      /\ StopsIn(t) \in Seq(Marks) /\ Len(StopsIn(t)) = N + 1
      /\ \A n \in 1..N + 1 : /\ LettersIn(t)[n] = t[n].letters /\ GluedIn(t)[n] = t[n].glued
                             /\ StopsIn(t)[n] = Moved(t[n].stops, Before(t, n))
  BY <1>1, TogetherIs
<1>4. N + 1 \in 1..N + 1 /\ \A n \in 1..N : n \in 1..N + 1
  BY <1>1
<1>5. ASSUME NEW n \in 1..N + 1 PROVE Before(t, n) = Len(FlattenSeq([m \in 1..n - 1 |-> ss[m].letters]))
  <2>1. \A m \in 1..n - 1 : m \in 1..N
    BY <1>1
  <2>2. \A m \in 1..n - 1 : t[m].letters = ss[m].letters
    BY <1>1, <2>1
  <2>3. [m \in 1..n - 1 |-> t[m].letters] = [m \in 1..n - 1 |-> ss[m].letters]
    BY <2>2
  <2> QED BY <2>3 DEF Before
<1>6. \A n \in 1..N : Before(t, n) = Before(ss, n)
  BY <1>4, <1>5 DEF Before
<1>7. Before(t, N + 1) = Len(FlattenSeq(LettersIn(ss)))
  <2>1. (N + 1) - 1 = N /\ DOMAIN ss = 1..N
    BY <1>1, LenProperties
  <2> QED BY <1>4, <1>5, <2>1 DEF LettersIn
<1>8. LettersIn(t) = Append(LettersIn(ss), x.letters)
  <2>1. \A n \in 1..Len(LettersIn(ss)) : LettersIn(t)[n] = LettersIn(ss)[n]
    BY <1>1, <1>2, <1>3, <1>4
  <2>2. LettersIn(t)[Len(LettersIn(ss)) + 1] = x.letters
    BY <1>1, <1>2, <1>3, <1>4
  <2> QED BY <1>2, <1>3, <2>1, <2>2, LongerByOne, SMTT(30)
<1>9. GluedIn(t) = Append(GluedIn(ss), x.glued)
  <2>1. \A n \in 1..Len(GluedIn(ss)) : GluedIn(t)[n] = GluedIn(ss)[n]
    BY <1>1, <1>2, <1>3, <1>4
  <2>2. GluedIn(t)[Len(GluedIn(ss)) + 1] = x.glued
    BY <1>1, <1>2, <1>3, <1>4
  <2> QED BY <1>2, <1>3, <2>1, <2>2, LongerByOne, SMTT(30)
<1>10. StopsIn(t) = Append(StopsIn(ss), Moved(x.stops, Len(FlattenSeq(LettersIn(ss)))))
  <2>1. \A n \in 1..Len(StopsIn(ss)) : StopsIn(t)[n] = StopsIn(ss)[n]
    BY <1>1, <1>2, <1>3, <1>4, <1>6, ZenonT(30)
  <2>2. StopsIn(t)[Len(StopsIn(ss)) + 1] = Moved(x.stops, Len(FlattenSeq(LettersIn(ss))))
    BY <1>1, <1>2, <1>3, <1>4, <1>7
  <2> QED BY <1>2, <1>3, <2>1, <2>2, LongerByOne
<1>11. /\ x.letters \in Seq(LetterType) /\ x.glued \in Seq(Flags) /\ x.stops \in Marks
  BY SayingIs
<1>12. Moved(x.stops, Len(FlattenSeq(LettersIn(ss)))) \in Marks
  BY <1>2, <1>11, FlattenTyped, MovedTyped
<1>13. FlattenSeq(LettersIn(t)) = FlattenSeq(LettersIn(ss)) \o x.letters
  BY <1>2, <1>8, <1>11, FlattenAppend
<1>14. FlattenSeq(GluedIn(t)) = FlattenSeq(GluedIn(ss)) \o x.glued
  BY <1>2, <1>9, <1>11, FlattenAppend
<1>15. FlattenSeq(StopsIn(t)) = FlattenSeq(StopsIn(ss)) \o Moved(x.stops, Len(FlattenSeq(LettersIn(ss))))
  BY <1>2, <1>10, <1>12, FlattenMarks
<1>16. /\ Together(ss).letters = FlattenSeq(LettersIn(ss)) /\ Together(ss).glued = FlattenSeq(GluedIn(ss))
       /\ Together(ss).stops = FlattenSeq(StopsIn(ss))
  BY TogetherIs
<1>17. Together(t) = [letters |-> FlattenSeq(LettersIn(t)), glued |-> FlattenSeq(GluedIn(t)),
                      stops |-> FlattenSeq(StopsIn(t))]
  BY <1>1, TogetherIs
<1> QED BY <1>13, <1>14, <1>15, <1>16, <1>17 DEF Then, t

LEMMA TogetherTyped ==
  \A ss \in Seq(Sayings) : Together(ss) \in Sayings
<1> DEFINE S == {ss \in Seq(Sayings) : Together(ss) \in Sayings}
<1>1. <<>> \in S
  BY TogetherEmpty, SilenceIs, EmptySeq
<1>2. ASSUME NEW ss \in Seq(Sayings), NEW x \in Sayings, ss \in S PROVE Append(ss, x) \in S
  BY <1>2, TogetherAppend, ThenTyped, AppendHas
<1>3. Seq(Sayings) \subseteq S
  <2> HIDE DEF S
  <2> QED BY <1>1, <1>2, InductionOnSequences
<1> QED BY <1>3

LEMMA TogetherOne ==
  ASSUME NEW x \in Sayings
  PROVE  Together(<<x>>) = x
<1>1. <<>> \in Seq(Sayings) /\ <<x>> = Append(<<>>, x)
  BY EmptySeq
<1>2. Together(Append(<<>>, x)) = Then(Together(<<>>), x)
  BY <1>1, TogetherAppend
<1> QED BY <1>1, <1>2, TogetherEmpty, SilenceIs

LEMMA TogetherJoined ==
  ASSUME NEW ss \in Seq(Sayings), NEW tt \in Seq(Sayings)
  PROVE  Together(ss \o tt) = Then(Together(ss), Together(tt))
<1> DEFINE S == {u \in Seq(Sayings) : Together(ss \o u) = Then(Together(ss), Together(u))}
<1>0. Together(ss) \in Sayings
  BY TogetherTyped
<1>1. <<>> \in S
  BY <1>0, TogetherEmpty, SilenceIs, EmptySeq, ConcatEmptySeq
<1>2. ASSUME NEW u \in Seq(Sayings), NEW x \in Sayings, u \in S PROVE Append(u, x) \in S
  <2>1. Append(u, x) \in Seq(Sayings) /\ ss \o u \in Seq(Sayings)
    BY AppendHas, ConcatProperties
  <2>2. Together(ss \o Append(u, x)) = Then(Together(ss \o u), x)
    <3>1. ss \o Append(u, x) = Append(ss \o u, x)
      BY AppendJoined
    <3> QED BY <2>1, <3>1, TogetherAppend
  <2>3. Together(Append(u, x)) = Then(Together(u), x)
    BY TogetherAppend
  <2>4. Then(Then(Together(ss), Together(u)), x) = Then(Together(ss), Then(Together(u), x))
    BY <1>0, TogetherTyped, ThenAssociates
  <2> QED BY <1>2, <2>1, <2>2, <2>3, <2>4
<1>3. Seq(Sayings) \subseteq S
  <2> HIDE DEF S
  <2> QED BY <1>1, <1>2, InductionOnSequences
<1> QED BY <1>3

-----------------------------------------------------------------------------
(* What says the same as something else                                      *)

\* The same letters, the same stops, each after no more letters, and after as many if it is
\* a break or nothing is spelled; and, if nothing is spelled, nothing glued that was not.
StopFits(a, b, spells) == a[1] = b[1] /\ a[2] <= b[2] /\ (b[1] = 0 \/ ~spells => a = b)
GlueFits(g, h) == \A n \in 1..Len(g) : g[n] => h[n]
Says(x, y, spells) ==
  /\ x.letters = y.letters /\ Len(x.stops) = Len(y.stops)
  /\ \A n \in 1..Len(x.stops) : StopFits(x.stops[n], y.stops[n], spells)
  /\ ~spells => GlueFits(x.glued, y.glued)

LEMMA SaysAsMuch ==
  ASSUME NEW x \in Sayings, NEW y \in Sayings, NEW spells,
         x.letters = y.letters, x.stops = y.stops, GlueFits(x.glued, y.glued)
  PROVE  Says(x, y, spells)
<1>1. \A n \in 1..Len(x.stops) : StopFits(x.stops[n], y.stops[n], spells)
  <2> SUFFICES ASSUME NEW n \in 1..Len(x.stops) PROVE StopFits(x.stops[n], y.stops[n], spells)
    OBVIOUS
  <2>1. x.stops[n][2] \in Nat
    BY SayingIs, MarkIs
  <2> QED BY <2>1 DEF StopFits
<1> QED BY <1>1 DEF Says

LEMMA SaysItself ==
  ASSUME NEW x \in Sayings, NEW spells
  PROVE  Says(x, x, spells)
BY SaysAsMuch DEF GlueFits

LEMMA SaysThrough ==
  ASSUME NEW x \in Sayings, NEW y \in Sayings, NEW z \in Sayings, NEW spells \in BOOLEAN,
         Says(x, y, spells), Says(y, z, spells)
  PROVE  Says(x, z, spells)
<1>1. /\ x.letters = y.letters /\ y.letters = z.letters
      /\ Len(x.stops) = Len(y.stops) /\ Len(y.stops) = Len(z.stops)
  BY DEF Says
<1>2. ASSUME NEW n \in 1..Len(x.stops) PROVE StopFits(x.stops[n], z.stops[n], spells)
  <2>1. x.stops[n][2] \in Nat /\ y.stops[n][2] \in Nat /\ z.stops[n][2] \in Nat
    BY <1>1, SayingIs, MarkIs
  <2>2. StopFits(x.stops[n], y.stops[n], spells) /\ StopFits(y.stops[n], z.stops[n], spells)
    BY <1>1 DEF Says
  <2> QED BY <2>1, <2>2 DEF StopFits
<1>3. ~spells => GlueFits(x.glued, z.glued)
  <2>1. Len(x.glued) = Len(y.glued)
    BY <1>1, SayingIs
  <2> QED BY <2>1 DEF Says, GlueFits
<1> QED BY <1>1, <1>2, <1>3 DEF Says

LEMMA StopFitsMoved ==
  ASSUME NEW m \in Marks, NEW p \in Marks, NEW k \in Nat, NEW spells \in BOOLEAN, Len(m) = Len(p),
         NEW n \in 1..Len(m), StopFits(m[n], p[n], spells)
  PROVE  StopFits(Moved(m, k)[n], Moved(p, k)[n], spells)
<1>1. n \in 1..Len(p) /\ m[n][2] \in Nat /\ p[n][2] \in Nat
  BY MarkIs
<1>2. /\ Moved(m, k)[n] = <<m[n][1], k + m[n][2]>> /\ Moved(m, k)[n][1] = m[n][1] /\ Moved(m, k)[n][2] = k + m[n][2]
  BY MovedTyped
<1>3. /\ Moved(p, k)[n] = <<p[n][1], k + p[n][2]>> /\ Moved(p, k)[n][1] = p[n][1] /\ Moved(p, k)[n][2] = k + p[n][2]
  BY <1>1, MovedTyped
<1> QED BY <1>1, <1>2, <1>3 DEF StopFits

LEMMA ThenHas ==
  ASSUME NEW x \in Sayings, NEW u \in Sayings
  PROVE  /\ Len(Then(x, u).letters) = Len(x.letters) + Len(u.letters)
         /\ Len(Then(x, u).glued) = Len(x.glued) + Len(u.glued)
         /\ Len(Then(x, u).stops) = Len(x.stops) + Len(u.stops)
         /\ Len(x.letters) \in Nat /\ Len(u.letters) \in Nat /\ Len(x.stops) \in Nat /\ Len(u.stops) \in Nat
         /\ Len(x.glued) \in Nat /\ Len(u.glued) \in Nat
         /\ \A n \in 1..Len(x.stops) : Then(x, u).stops[n] = x.stops[n]
         /\ \A n \in 1..Len(u.stops) :
              Then(x, u).stops[Len(x.stops) + n] = Moved(u.stops, Len(x.letters))[n]
         /\ \A n \in 1..Len(x.glued) : Then(x, u).glued[n] = x.glued[n]
         /\ \A n \in 1..Len(u.glued) : Then(x, u).glued[Len(x.glued) + n] = u.glued[n]
<1>1. /\ x.letters \in Seq(LetterType) /\ x.glued \in Seq(Flags) /\ x.stops \in Marks /\ Len(x.letters) \in Nat
      /\ u.letters \in Seq(LetterType) /\ u.glued \in Seq(Flags) /\ u.stops \in Marks
  BY SayingIs
<1> DEFINE p == Moved(u.stops, Len(x.letters))
           w == Then(x, u)
<1>2. p \in Marks /\ Len(p) = Len(u.stops)
  BY <1>1, MovedTyped
<1>3. w.letters = x.letters \o u.letters /\ w.glued = x.glued \o u.glued /\ w.stops = x.stops \o p
  BY ThenParts
<1> HIDE DEF p, w
<1>4. Len(w.letters) = Len(x.letters) + Len(u.letters) /\ Len(u.letters) \in Nat
  BY <1>1, <1>3, JoinedHas
<1>5. /\ Len(w.glued) = Len(x.glued) + Len(u.glued) /\ Len(x.glued) \in Nat /\ Len(u.glued) \in Nat
      /\ \A n \in 1..Len(x.glued) : w.glued[n] = x.glued[n]
      /\ \A n \in 1..Len(u.glued) : w.glued[Len(x.glued) + n] = u.glued[n]
  <2> DEFINE a == x.glued
             b == u.glued
  <2>1. a \in Seq(Flags) /\ b \in Seq(Flags) /\ w.glued = a \o b
    BY <1>1, <1>3
  <2> HIDE DEF a, b
  <2>2. /\ Len(a \o b) = Len(a) + Len(b) /\ Len(a) \in Nat /\ Len(b) \in Nat
        /\ \A n \in 1..Len(a) : (a \o b)[n] = a[n]
        /\ \A n \in 1..Len(b) : (a \o b)[Len(a) + n] = b[n]
    BY <2>1, JoinedHas
  <2> QED BY <2>1, <2>2 DEF a, b
<1>6. /\ Len(w.stops) = Len(x.stops) + Len(u.stops) /\ Len(x.stops) \in Nat /\ Len(u.stops) \in Nat
      /\ \A n \in 1..Len(x.stops) : w.stops[n] = x.stops[n]
      /\ \A n \in 1..Len(u.stops) : w.stops[Len(x.stops) + n] = p[n]
  <2> DEFINE a == x.stops
  <2>1. a \in Seq(MarkType) /\ p \in Seq(MarkType) /\ w.stops = a \o p
    BY <1>1, <1>2, <1>3 DEF Marks
  <2> HIDE DEF a
  <2>2. /\ Len(a \o p) = Len(a) + Len(p) /\ Len(a) \in Nat /\ Len(p) \in Nat
        /\ \A n \in 1..Len(a) : (a \o p)[n] = a[n]
        /\ \A n \in 1..Len(p) : (a \o p)[Len(a) + n] = p[n]
    BY <2>1, JoinedHas
  <2> QED BY <1>2, <2>1, <2>2 DEF a
<1> QED BY <1>1, <1>4, <1>5, <1>6 DEF p, w

LEMMA SaysBoth ==
  ASSUME NEW x \in Sayings, NEW y \in Sayings, NEW u \in Sayings, NEW v \in Sayings, NEW spells \in BOOLEAN,
         Says(x, y, spells), Says(u, v, spells)
  PROVE  Says(Then(x, u), Then(y, v), spells)
<1> DEFINE l == Then(x, u)
           r == Then(y, v)
           L == Len(x.letters)
           k == Len(x.stops)
           g == Len(x.glued)
<1>1. /\ x.letters = y.letters /\ u.letters = v.letters /\ Len(x.stops) = Len(y.stops) /\ Len(u.stops) = Len(v.stops)
      /\ x.stops \in Marks /\ y.stops \in Marks /\ u.stops \in Marks /\ v.stops \in Marks
      /\ Len(x.glued) = Len(y.glued) /\ Len(u.glued) = Len(v.glued)
  BY SayingIs DEF Says
<1>2. /\ Len(l.stops) = k + Len(u.stops) /\ Len(l.glued) = g + Len(u.glued) /\ L \in Nat /\ k \in Nat /\ g \in Nat
      /\ Len(u.stops) \in Nat /\ Len(u.glued) \in Nat
      /\ (\A n \in 1..k : l.stops[n] = x.stops[n])
      /\ (\A n \in 1..Len(u.stops) : l.stops[k + n] = Moved(u.stops, L)[n])
      /\ (\A n \in 1..g : l.glued[n] = x.glued[n])
      /\ (\A n \in 1..Len(u.glued) : l.glued[g + n] = u.glued[n])
  BY ThenHas, ZenonT(30)
<1>3. /\ Len(r.stops) = k + Len(u.stops) /\ Len(r.glued) = g + Len(u.glued)
      /\ (\A n \in 1..k : r.stops[n] = y.stops[n])
      /\ (\A n \in 1..Len(u.stops) : r.stops[k + n] = Moved(v.stops, L)[n])
      /\ (\A n \in 1..g : r.glued[n] = y.glued[n])
      /\ (\A n \in 1..Len(u.glued) : r.glued[g + n] = v.glued[n])
  <2>1. /\ Len(r.stops) = Len(y.stops) + Len(v.stops) /\ Len(r.glued) = Len(y.glued) + Len(v.glued)
        /\ (\A n \in 1..Len(y.stops) : r.stops[n] = y.stops[n])
        /\ (\A n \in 1..Len(v.stops) : r.stops[Len(y.stops) + n] = Moved(v.stops, Len(y.letters))[n])
        /\ (\A n \in 1..Len(y.glued) : r.glued[n] = y.glued[n])
        /\ (\A n \in 1..Len(v.glued) : r.glued[Len(y.glued) + n] = v.glued[n])
    BY ThenHas, ZenonT(30)
  <2> HIDE DEF r
  <2> QED BY <1>1, <2>1
<1>4. l.letters = r.letters
  BY <1>1 DEF Then
<1> HIDE DEF l, r
<1>5. \A n \in 1..k : StopFits(x.stops[n], y.stops[n], spells)
  BY DEF Says
<1>6. \A n \in 1..Len(u.stops) : StopFits(Moved(u.stops, L)[n], Moved(v.stops, L)[n], spells)
  <2>1. \A n \in 1..Len(u.stops) : StopFits(u.stops[n], v.stops[n], spells)
    BY DEF Says
  <2> QED BY <1>1, <1>2, <2>1, StopFitsMoved
<1>7. ~spells => GlueFits(x.glued, y.glued) /\ GlueFits(u.glued, v.glued)
  BY DEF Says
<1> HIDE DEF L, k, g
<1>8. ASSUME NEW n \in 1..Len(l.stops) PROVE StopFits(l.stops[n], r.stops[n], spells)
  <2>1. CASE n <= k
    <3>1. n \in 1..k
      BY <1>2, <2>1
    <3> QED BY <1>2, <1>3, <1>5, <3>1
  <2>2. CASE ~(n <= k)
    <3>1. n - k \in 1..Len(u.stops) /\ k + (n - k) = n
      BY <1>2, <2>2
    <3> QED BY <1>2, <1>3, <1>6, <3>1, ZenonT(30)
  <2> QED BY <2>1, <2>2
<1>9. ASSUME ~spells PROVE GlueFits(l.glued, r.glued)
  <2>1. ASSUME NEW n \in 1..Len(l.glued), l.glued[n] PROVE r.glued[n]
    <3>1. CASE n <= g
      <4>1. n \in 1..g
        BY <1>2, <3>1
      <4> QED BY <1>2, <1>3, <1>7, <1>9, <2>1, <4>1 DEF GlueFits, g
    <3>2. CASE ~(n <= g)
      <4>1. n - g \in 1..Len(u.glued) /\ g + (n - g) = n
        BY <1>2, <3>2
      <4>2. l.glued[g + (n - g)] = u.glued[n - g] /\ r.glued[g + (n - g)] = v.glued[n - g]
        BY <1>2, <1>3, <4>1
      <4>3. u.glued[n - g] => v.glued[n - g]
        BY <1>7, <1>9, <4>1 DEF GlueFits
      <4> QED BY <2>1, <4>1, <4>2, <4>3
    <3> QED BY <3>1, <3>2
  <2> QED BY <2>1 DEF GlueFits
<1>10. Len(l.stops) = Len(r.stops)
  BY <1>2, <1>3
<1>11. Says(l, r, spells)
  BY <1>4, <1>8, <1>9, <1>10 DEF Says
<1> QED BY <1>11 DEF l, r

-----------------------------------------------------------------------------
(* Texts with marks                                                          *)

Fits(m, s) == \A n \in 1..Len(m) : m[n][2] <= Len(s)

\* The letters before a place of a text.
Count(s, o, c) == Len(Letters(SubSeq(s, 1, o), c))

LEMMA CountTyped ==
  ASSUME NEW s \in Texts, NEW c \in Commands, NEW o \in 0..Len(s)
  PROVE  /\ SubSeq(s, 1, o) \in Texts /\ Count(s, o, c) \in Nat
         /\ Count(s, Len(s), c) = Len(Letters(s, c)) /\ Count(s, 0, c) = 0 /\ Count(s, o, c) <= Len(Letters(s, c))
<1>1. SubSeq(s, 1, o) \in Texts /\ SubSeq(s, o + 1, Len(s)) \in Texts /\ s = SubSeq(s, 1, o) \o SubSeq(s, o + 1, Len(s))
  BY CutInTwo DEF Texts
<1>2. SubSeq(s, 1, Len(s)) = s /\ SubSeq(s, 0 + 1, 0) = <<>> /\ 0 + 1 = 1
  BY SubSeqFull, NoPiece DEF Texts
<1>3. Count(s, 0, c) = 0
  BY <1>2, LettersEmpty, EmptySeq DEF Count
<1> DEFINE a == SubSeq(s, 1, o)
           b == SubSeq(s, o + 1, Len(s))
<1>4. /\ Letters(a, c) \in Seq(LetterType) /\ Letters(b, c) \in Seq(LetterType)
      /\ Letters(a \o b, c) = Letters(a, c) \o Letters(b, c)
  BY <1>1, LettersTyped, LettersJoined
<1>5. Len(Letters(a, c) \o Letters(b, c)) = Len(Letters(a, c)) + Len(Letters(b, c)) /\ Len(Letters(a, c)) \in Nat /\ Len(Letters(b, c)) \in Nat
  BY <1>4, JoinedHas
<1>6. Len(Letters(s, c)) = Len(Letters(a, c)) + Len(Letters(b, c))
  BY <1>1, <1>4, <1>5
<1>7. Count(s, o, c) = Len(Letters(a, c)) /\ Count(s, Len(s), c) = Len(Letters(s, c))
  BY <1>2 DEF Count
<1> HIDE DEF a, b
<1>8. Count(s, o, c) \in Nat /\ Count(s, o, c) <= Len(Letters(s, c))
  BY <1>5, <1>6, <1>7
<1> QED BY <1>1, <1>3, <1>7, <1>8

LEMMA BeginningJoined ==
  ASSUME NEW s \in Texts, NEW t \in Texts, NEW o \in Nat
  PROVE  /\ o <= Len(s) => SubSeq(s \o t, 1, o) = SubSeq(s, 1, o)
         /\ o <= Len(t) => SubSeq(s \o t, 1, Len(s) + o) = s \o SubSeq(t, 1, o)
<1> DEFINE u == s \o t
<1>1. /\ u \in Seq(Characters) /\ Len(u) = Len(s) + Len(t) /\ Len(s) \in Nat /\ Len(t) \in Nat
      /\ (\A n \in 1..Len(s) : u[n] = s[n])
      /\ (\A n \in 1..Len(t) : u[Len(s) + n] = t[n])
  BY JoinedHas DEF Texts
<1>0. s \in Seq(Characters) /\ t \in Seq(Characters)
  BY DEF Texts
<1> HIDE DEF u
<1>2. ASSUME o <= Len(s) PROVE SubSeq(u, 1, o) = SubSeq(s, 1, o)
  <2>1. o \in 0..Len(u) /\ o \in 0..Len(s)
    BY <1>1, <1>2
  <2>2. SubSeq(u, 1, o) \in Seq(Characters) /\ Len(SubSeq(u, 1, o)) = o /\ \A i \in 1..o : SubSeq(u, 1, o)[i] = u[i]
    BY <1>1, <2>1, CutInTwo
  <2>3. SubSeq(s, 1, o) \in Seq(Characters) /\ Len(SubSeq(s, 1, o)) = o /\ \A i \in 1..o : SubSeq(s, 1, o)[i] = s[i]
    BY <1>0, <2>1, CutInTwo
  <2>4. \A i \in 1..o : SubSeq(u, 1, o)[i] = SubSeq(s, 1, o)[i]
    BY <1>1, <1>2, <2>2, <2>3
  <2> QED BY <2>2, <2>3, <2>4, SeqEqual
<1>3. ASSUME o <= Len(t) PROVE SubSeq(u, 1, Len(s) + o) = s \o SubSeq(t, 1, o)
  <2> DEFINE l == SubSeq(u, 1, Len(s) + o)
             r == SubSeq(t, 1, o)
  <2>1. Len(s) + o \in 0..Len(u) /\ o \in 0..Len(t)
    BY <1>1, <1>3
  <2>2. l \in Seq(Characters) /\ Len(l) = Len(s) + o /\ \A i \in 1..Len(s) + o : l[i] = u[i]
    BY <1>1, <2>1, CutInTwo
  <2>3. r \in Seq(Characters) /\ Len(r) = o /\ \A i \in 1..o : r[i] = t[i]
    BY <1>0, <2>1, CutInTwo
  <2> HIDE DEF l, r
  <2>4. \A i \in 1..Len(s) : l[i] = s[i]
    BY <1>1, <2>2
  <2>5. ASSUME NEW i \in 1..Len(r) PROVE l[Len(s) + i] = r[i]
    <3>1. Len(s) + i \in 1..Len(s) + o /\ i \in 1..Len(t) /\ i \in 1..o
      BY <1>1, <1>3, <2>3
    <3> QED BY <1>1, <2>2, <2>3, <3>1
  <2>6. Len(l) = Len(s) + Len(r)
    BY <2>2, <2>3
  <2>7. l = s \o r
    BY <1>0, <2>2, <2>3, <2>4, <2>5, <2>6, JoinedIs
  <2> QED BY <2>7 DEF l, r
<1> QED BY <1>2, <1>3 DEF u

LEMMA CountJoined ==
  ASSUME NEW s \in Texts, NEW t \in Texts, NEW c \in Commands, NEW o \in Nat
  PROVE  /\ o <= Len(s) => Count(s \o t, o, c) = Count(s, o, c)
         /\ o <= Len(t) => Count(s \o t, Len(s) + o, c) = Len(Letters(s, c)) + Count(t, o, c)
<1>1. o <= Len(s) => Count(s \o t, o, c) = Count(s, o, c)
  BY BeginningJoined DEF Count
<1>2. ASSUME o <= Len(t) PROVE Count(s \o t, Len(s) + o, c) = Len(Letters(s, c)) + Count(t, o, c)
  <2> DEFINE r == SubSeq(t, 1, o)
  <2>1. SubSeq(s \o t, 1, Len(s) + o) = s \o r
    BY <1>2, BeginningJoined
  <2>2. r \in Texts
    <3>1. o \in 0..Len(t)
      BY <1>2, LenProperties DEF Texts
    <3> QED BY <3>1, CountTyped
  <2>3. Count(t, o, c) = Len(Letters(r, c))
    BY DEF Count
  <2> HIDE DEF r
  <2>4. Letters(s \o r, c) = Letters(s, c) \o Letters(r, c) /\ Letters(s, c) \in Seq(LetterType) /\ Letters(r, c) \in Seq(LetterType)
    BY <2>2, LettersJoined, LettersTyped
  <2>5. Len(Letters(s, c) \o Letters(r, c)) = Len(Letters(s, c)) + Len(Letters(r, c))
    BY <2>4, JoinedHas
  <2>6. Count(s \o t, Len(s) + o, c) = Len(Letters(s \o r, c))
    BY <2>1 DEF Count
  <2> QED BY <2>3, <2>4, <2>5, <2>6
<1> QED BY <1>1, <1>2

LEMMA WovenIs ==
  ASSUME NEW s \in Texts, NEW m \in Marks, NEW c \in Commands, Fits(m, s)
  PROVE  /\ Woven(s, m, c) \in Sayings
         /\ Woven(s, m, c).letters = Letters(s, c) /\ Woven(s, m, c).glued = Glued(s)
         /\ Woven(s, m, c).stops \in Marks /\ Len(Woven(s, m, c).stops) = Len(m)
         /\ \A n \in 1..Len(m) : /\ Woven(s, m, c).stops[n][1] = m[n][1]
                                 /\ Woven(s, m, c).stops[n][2] = Count(s, m[n][2], c)
<1>1. Letters(s, c) \in Seq(LetterType) /\ Glued(s) \in Seq(Flags) /\ Len(Glued(s)) = Len(Letters(s, c))
  BY LettersTyped, AsManyGlued
<1> DEFINE f == [n \in DOMAIN m |-> <<m[n][1], Count(s, m[n][2], c)>>]
<1>2. DOMAIN m = 1..Len(m) /\ Len(m) \in Nat
  BY LenProperties DEF Marks
<1>3. \A n \in 1..Len(m) : <<m[n][1], Count(s, m[n][2], c)>> \in MarkType
  <2> SUFFICES ASSUME NEW n \in 1..Len(m) PROVE <<m[n][1], Count(s, m[n][2], c)>> \in MarkType
    OBVIOUS
  <2>1. m[n][1] \in Nat /\ m[n][2] \in Nat /\ Len(s) \in Nat
    BY MarkIs, LenProperties DEF Texts
  <2>2. m[n][2] \in 0..Len(s)
    BY <2>1 DEF Fits
  <2>3. Count(s, m[n][2], c) \in Nat
    BY <2>2, CountTyped
  <2> QED BY <2>1, <2>3 DEF MarkType
<1>4. f \in [1..Len(m) -> MarkType]
  BY <1>2, <1>3
<1>5. \A n \in 1..Len(m) : f[n][1] = m[n][1] /\ f[n][2] = Count(s, m[n][2], c)
  BY <1>2
<1>6. Woven(s, m, c) = [letters |-> Letters(s, c), glued |-> Glued(s), stops |-> f]
  BY DEF Woven, Count
<1> HIDE DEF f
<1>7. f \in Marks /\ Len(f) = Len(m)
  BY <1>2, <1>4, FunctionIsSeq DEF Marks
<1>8. [letters |-> Letters(s, c), glued |-> Glued(s), stops |-> f] \in Sayings
  BY <1>1, <1>7, SayingMade
<1> QED BY <1>5, <1>6, <1>7, <1>8

\* A text with marks is known by its letters, its glue and the letters before each mark.
LEMMA WovenEqual ==
  ASSUME NEW s \in Texts, NEW m \in Marks, NEW c \in Commands, Fits(m, s),
         NEW t \in Texts, NEW p \in Marks, Fits(p, t),
         Letters(s, c) = Letters(t, c), Glued(s) = Glued(t), Len(m) = Len(p),
         \A n \in 1..Len(m) : m[n][1] = p[n][1] /\ Count(s, m[n][2], c) = Count(t, p[n][2], c)
  PROVE  Woven(s, m, c) = Woven(t, p, c)
<1> DEFINE x == Woven(s, m, c)
           y == Woven(t, p, c)
<1>1. /\ x \in Sayings /\ x.letters = Letters(s, c) /\ x.glued = Glued(s)
      /\ x.stops \in Marks /\ Len(x.stops) = Len(m)
      /\ \A n \in 1..Len(m) : x.stops[n][1] = m[n][1] /\ x.stops[n][2] = Count(s, m[n][2], c)
  BY WovenIs
<1>2. /\ y \in Sayings /\ y.letters = Letters(t, c) /\ y.glued = Glued(t)
      /\ y.stops \in Marks /\ Len(y.stops) = Len(p)
      /\ \A n \in 1..Len(p) : y.stops[n][1] = p[n][1] /\ y.stops[n][2] = Count(t, p[n][2], c)
  BY WovenIs
<1> HIDE DEF x, y
<1>3. x.stops = y.stops
  <2>1. Len(x.stops) = Len(y.stops) /\ \A n \in 1..Len(x.stops) : x.stops[n][1] = y.stops[n][1] /\ x.stops[n][2] = y.stops[n][2]
    BY <1>1, <1>2
  <2> QED BY <1>1, <1>2, <2>1, MarksEqual
<1>4. x = y
  BY <1>1, <1>2, <1>3, SayingsEqual
<1> QED BY <1>4 DEF x, y

LEMMA MarksJoined ==
  ASSUME NEW m \in Marks, NEW p \in Marks, NEW k \in Nat
  PROVE  /\ m \o Moved(p, k) \in Marks /\ Len(m \o Moved(p, k)) = Len(m) + Len(p)
         /\ Len(m) \in Nat /\ Len(p) \in Nat
         /\ \A n \in 1..Len(m) : (m \o Moved(p, k))[n] = m[n]
         /\ \A n \in 1..Len(p) : /\ (m \o Moved(p, k))[Len(m) + n][1] = p[n][1]
                                 /\ (m \o Moved(p, k))[Len(m) + n][2] = k + p[n][2]
<1> DEFINE q == Moved(p, k)
<1>1. q \in Marks /\ Len(q) = Len(p) /\ \A n \in 1..Len(p) : q[n][1] = p[n][1] /\ q[n][2] = k + p[n][2]
  BY MovedTyped
<1> HIDE DEF q
<1>2. /\ m \o q \in Seq(MarkType) /\ Len(m \o q) = Len(m) + Len(q) /\ Len(m) \in Nat /\ Len(q) \in Nat
      /\ (\A n \in 1..Len(m) : (m \o q)[n] = m[n])
      /\ (\A n \in 1..Len(q) : (m \o q)[Len(m) + n] = q[n])
  <2>1. m \in Seq(MarkType) /\ q \in Seq(MarkType)
    BY <1>1 DEF Marks
  <2> QED BY <2>1, JoinedHas
<1>3. \A n \in 1..Len(p) : (m \o q)[Len(m) + n][1] = p[n][1] /\ (m \o q)[Len(m) + n][2] = k + p[n][2]
  BY <1>1, <1>2
<1>4. m \o q \in Marks /\ Len(m \o q) = Len(m) + Len(p) /\ Len(p) \in Nat
  BY <1>1, <1>2 DEF Marks
<1> QED BY <1>2, <1>3, <1>4 DEF q

LEMMA MarksJoinedBehind ==
  ASSUME NEW m \in Marks, NEW p \in Marks, NEW k \in Nat, NEW n \in 1..Len(p)
  PROVE  (m \o Moved(p, k))[Len(m) + n][1] = p[n][1] /\ (m \o Moved(p, k))[Len(m) + n][2] = k + p[n][2]
<1> DEFINE r == m \o Moved(p, k)
<1>1. \A i \in 1..Len(p) : r[Len(m) + i][1] = p[i][1] /\ r[Len(m) + i][2] = k + p[i][2]
  BY MarksJoined, ZenonT(30)
<1> HIDE DEF r
<1>2. r[Len(m) + n][1] = p[n][1] /\ r[Len(m) + n][2] = k + p[n][2]
  BY <1>1
<1> QED BY <1>2 DEF r

LEMMA FitsJoined ==
  ASSUME NEW s \in Texts, NEW t \in Texts, NEW m \in Marks, NEW p \in Marks, Fits(m, s), Fits(p, t)
  PROVE  Fits(m \o Moved(p, Len(s)), s \o t) /\ s \o t \in Texts
<1>1. Len(s \o t) = Len(s) + Len(t) /\ Len(s) \in Nat /\ Len(t) \in Nat /\ s \o t \in Texts
  BY JoinedHas DEF Texts
<1> DEFINE q == m \o Moved(p, Len(s))
<1>2. /\ Len(q) = Len(m) + Len(p) /\ Len(m) \in Nat /\ Len(p) \in Nat
      /\ (\A n \in 1..Len(m) : q[n] = m[n])
      /\ (\A n \in 1..Len(p) : q[Len(m) + n][1] = p[n][1] /\ q[Len(m) + n][2] = Len(s) + p[n][2])
  BY <1>1, MarksJoined
<1> HIDE DEF q
<1>3. ASSUME NEW n \in 1..Len(q) PROVE q[n][2] <= Len(s \o t)
  <2>1. CASE n <= Len(m)
    <3>1. n \in 1..Len(m) /\ m[n][2] \in Nat
      BY <1>2, <2>1, MarkIs
    <3>2. m[n][2] <= Len(s) /\ q[n] = m[n]
      BY <1>2, <3>1 DEF Fits
    <3> QED BY <1>1, <3>1, <3>2
  <2>2. CASE ~(n <= Len(m))
    <3> DEFINE i == n - Len(m)
    <3>1. i \in 1..Len(p) /\ n = Len(m) + i
      BY <1>2, <2>2
    <3> HIDE DEF i
    <3>2. p[i][2] \in Nat /\ p[i][2] <= Len(t) /\ q[n][2] = Len(s) + p[i][2]
      BY <1>2, <3>1, MarkIs DEF Fits
    <3> QED BY <1>1, <3>2
  <2> QED BY <2>1, <2>2
<1> QED BY <1>1, <1>3 DEF Fits, q

\* Two texts with marks, one after the other, say what they say as one text; only where they
\* touch, that text may be glued where they are not.
LEMMA WovenJoined ==
  ASSUME NEW s \in Texts, NEW t \in Texts, NEW m \in Marks, NEW p \in Marks, NEW c \in Commands,
         Fits(m, s), Fits(p, t)
  PROVE  LET x == Then(Woven(s, m, c), Woven(t, p, c))
             y == Woven(s \o t, m \o Moved(p, Len(s)), c)
         IN /\ x \in Sayings /\ y \in Sayings /\ x.letters = y.letters /\ x.stops = y.stops
            /\ Len(x.glued) = Len(Glued(s)) + Len(Glued(t)) /\ Len(y.glued) = Len(x.glued)
            /\ GlueFits(x.glued, y.glued)
            /\ \A n \in 1..Len(x.glued) : y.glued[n] /\ ~x.glued[n] => n = Len(Glued(s)) + 1 /\ Touch(s, t)
            /\ ~Touch(s, t) => x = y
<1> DEFINE a == Woven(s, m, c)
           b == Woven(t, p, c)
           q == m \o Moved(p, Len(s))
           x == Then(a, b)
           y == Woven(s \o t, q, c)
           L == Len(Letters(s, c))
<1>1. /\ a \in Sayings /\ a.letters = Letters(s, c) /\ a.glued = Glued(s)
      /\ a.stops \in Marks /\ Len(a.stops) = Len(m)
      /\ \A n \in 1..Len(m) : a.stops[n][1] = m[n][1] /\ a.stops[n][2] = Count(s, m[n][2], c)
  BY WovenIs
<1>2. /\ b \in Sayings /\ b.letters = Letters(t, c) /\ b.glued = Glued(t)
      /\ b.stops \in Marks /\ Len(b.stops) = Len(p)
      /\ \A n \in 1..Len(p) : b.stops[n][1] = p[n][1] /\ b.stops[n][2] = Count(t, p[n][2], c)
  BY WovenIs
<1>0. Len(s) \in Nat /\ Len(t) \in Nat /\ L \in Nat
  BY LenProperties, LettersTyped DEF Texts
<1>3. /\ q \in Marks /\ Len(q) = Len(m) + Len(p) /\ Len(m) \in Nat /\ Len(p) \in Nat
      /\ (\A n \in 1..Len(m) : q[n] = m[n])
      /\ (\A n \in 1..Len(p) : q[Len(m) + n][1] = p[n][1] /\ q[Len(m) + n][2] = Len(s) + p[n][2])
  BY <1>0, MarksJoined
<1>4. Fits(q, s \o t) /\ s \o t \in Texts
  BY FitsJoined
<1>5. /\ y \in Sayings /\ y.letters = Letters(s \o t, c) /\ y.glued = Glued(s \o t)
      /\ y.stops \in Marks /\ Len(y.stops) = Len(q)
      /\ \A n \in 1..Len(q) : y.stops[n][1] = q[n][1] /\ y.stops[n][2] = Count(s \o t, q[n][2], c)
  <2> HIDE DEF q
  <2> QED BY <1>3, <1>4, WovenIs, SMTT(30)
<1>6. /\ x.letters = a.letters \o b.letters /\ x.glued = a.glued \o b.glued
      /\ x.stops = a.stops \o Moved(b.stops, Len(a.letters))
  BY ThenParts
<1>7. x \in Sayings
  <2> HIDE DEF a, b
  <2> QED BY <1>1, <1>2, ThenTyped
<1> HIDE DEF a, b, q, x, y
<1>8. /\ x.stops \in Marks /\ Len(x.stops) = Len(m) + Len(p)
      /\ (\A n \in 1..Len(m) : x.stops[n] = a.stops[n])
      /\ (\A n \in 1..Len(p) : x.stops[Len(m) + n][1] = b.stops[n][1] /\ x.stops[Len(m) + n][2] = L + b.stops[n][2])
  <2> DEFINE u == a.stops
             v == b.stops
  <2>1. u \in Marks /\ v \in Marks /\ Len(u) = Len(m) /\ Len(v) = Len(p) /\ x.stops = u \o Moved(v, L)
    BY <1>1, <1>2, <1>6
  <2>0. u \in Marks /\ v \in Marks /\ L \in Nat
    BY <1>0, <2>1
  <2> HIDE DEF u, v, L
  <2>6. u \o Moved(v, L) \in Marks /\ Len(u \o Moved(v, L)) = Len(u) + Len(v)
    BY <2>0, MarksJoined
  <2>7. \A n \in 1..Len(u) : (u \o Moved(v, L))[n] = u[n]
    BY <2>0, MarksJoined
  <2>8. ASSUME NEW n \in 1..Len(v)
        PROVE  (u \o Moved(v, L))[Len(u) + n][1] = v[n][1] /\ (u \o Moved(v, L))[Len(u) + n][2] = L + v[n][2]
    BY <2>0, MarksJoinedBehind
  <2> DEFINE w == u \o Moved(v, L)
  <2>3. x.stops = w
    BY <2>1
  <2>4. /\ w \in Marks /\ Len(w) = Len(u) + Len(v)
        /\ (\A n \in 1..Len(u) : w[n] = u[n])
        /\ (\A n \in 1..Len(v) : w[Len(u) + n][1] = v[n][1] /\ w[Len(u) + n][2] = L + v[n][2])
    BY <2>6, <2>7, <2>8
  <2> HIDE DEF w
  <2>5. /\ x.stops \in Marks /\ Len(x.stops) = Len(m) + Len(p)
        /\ (\A n \in 1..Len(m) : x.stops[n] = u[n])
        /\ (\A n \in 1..Len(p) : x.stops[Len(m) + n][1] = v[n][1] /\ x.stops[Len(m) + n][2] = L + v[n][2])
    BY <2>1, <2>3, <2>4
  <2> QED BY <2>5 DEF u, v
<1>9. x.letters = y.letters
  BY <1>1, <1>2, <1>5, <1>6, LettersJoined
<1>10. ASSUME NEW n \in 1..Len(x.stops) PROVE x.stops[n][1] = y.stops[n][1] /\ x.stops[n][2] = y.stops[n][2]
  <2>0. n \in 1..Len(q)
    BY <1>3, <1>8
  <2>1. CASE n <= Len(m)
    <3>1. n \in 1..Len(m)
      BY <1>3, <2>1
    <3>2. m[n][2] \in Nat /\ m[n][2] <= Len(s)
      BY <3>1, MarkIs DEF Fits
    <3>3. Count(s \o t, m[n][2], c) = Count(s, m[n][2], c)
      BY <3>2, CountJoined
    <3>4. x.stops[n] = a.stops[n] /\ q[n] = m[n] /\ a.stops[n][1] = m[n][1] /\ a.stops[n][2] = Count(s, m[n][2], c)
      BY <1>1, <1>3, <1>8, <3>1
    <3> QED BY <1>5, <2>0, <3>3, <3>4
  <2>2. CASE ~(n <= Len(m))
    <3> DEFINE i == n - Len(m)
    <3>1. i \in 1..Len(p) /\ n = Len(m) + i
      BY <1>3, <1>8, <2>2
    <3> HIDE DEF i
    <3>2. p[i][2] \in Nat /\ p[i][2] <= Len(t)
      BY <3>1, MarkIs DEF Fits
    <3>3. Count(s \o t, Len(s) + p[i][2], c) = L + Count(t, p[i][2], c)
      BY <3>2, CountJoined
    <3>4. /\ x.stops[n][1] = b.stops[i][1] /\ x.stops[n][2] = L + b.stops[i][2]
          /\ b.stops[i][1] = p[i][1] /\ b.stops[i][2] = Count(t, p[i][2], c)
          /\ q[n][1] = p[i][1] /\ q[n][2] = Len(s) + p[i][2]
      BY <1>2, <1>3, <1>8, <3>1
    <3>5. y.stops[n][1] = q[n][1] /\ y.stops[n][2] = Count(s \o t, q[n][2], c)
      BY <1>5, <2>0
    <3> QED BY <3>3, <3>4, <3>5
  <2> QED BY <2>1, <2>2
<1>11. x.stops = y.stops
  <2>1. Len(x.stops) = Len(y.stops)
    BY <1>3, <1>5, <1>8
  <2> QED BY <1>5, <1>8, <1>10, <2>1, MarksEqual
<1>12. PICK g \in Seq(Flags) :
          /\ Glued(s \o t) = Glued(s) \o g /\ Len(g) = Len(Glued(t))
          /\ \A n \in 1..Len(g) : Glued(t)[n] => g[n]
          /\ \A n \in 1..Len(g) : g[n] /\ ~Glued(t)[n] => n = 1 /\ Touch(s, t)
  BY GluedAcross
<1> DEFINE h == Glued(s)
           k == Glued(t)
<1>13. h \in Seq(Flags) /\ k \in Seq(Flags) /\ y.glued = h \o g /\ x.glued = h \o k
  BY <1>1, <1>2, <1>5, <1>6, <1>12, LettersTyped
<1>14. Len(g) = Len(k) /\ (\A n \in 1..Len(g) : k[n] => g[n]) /\ (\A n \in 1..Len(g) : g[n] /\ ~k[n] => n = 1 /\ Touch(s, t))
  BY <1>12
<1> HIDE DEF h, k
<1>15. /\ Len(h \o g) = Len(h) + Len(g) /\ Len(h) \in Nat /\ Len(g) \in Nat
       /\ (\A n \in 1..Len(h) : (h \o g)[n] = h[n]) /\ (\A n \in 1..Len(g) : (h \o g)[Len(h) + n] = g[n])
  BY <1>13, JoinedHas
<1>16. /\ Len(h \o k) = Len(h) + Len(k)
       /\ (\A n \in 1..Len(h) : (h \o k)[n] = h[n]) /\ (\A n \in 1..Len(k) : (h \o k)[Len(h) + n] = k[n])
  BY <1>13, JoinedHas
<1>17. ASSUME NEW n \in 1..Len(x.glued)
       PROVE (x.glued[n] => y.glued[n]) /\ (y.glued[n] /\ ~x.glued[n] => n = Len(h) + 1 /\ Touch(s, t))
  <2>1. CASE n <= Len(h)
    BY <1>13, <1>15, <1>16, <2>1
  <2>2. CASE ~(n <= Len(h))
    <3> DEFINE i == n - Len(h)
    <3>1. i \in 1..Len(g) /\ n = Len(h) + i
      BY <1>13, <1>14, <1>15, <1>16, <2>2
    <3> HIDE DEF i
    <3> QED BY <1>13, <1>14, <1>15, <1>16, <3>1
  <2> QED BY <2>1, <2>2
<1>18. Len(x.glued) = Len(h) + Len(k) /\ Len(y.glued) = Len(x.glued)
  BY <1>13, <1>14, <1>15, <1>16
<1>19. ~Touch(s, t) => x = y
  <2>1. ASSUME ~Touch(s, t) PROVE g = k
    <3>1. \A n \in 1..Len(g) : g[n] \in BOOLEAN /\ k[n] \in BOOLEAN
      BY <1>13, <1>14, ElementOfSeq DEF Flags
    <3>2. \A n \in 1..Len(g) : g[n] = k[n]
      BY <1>14, <2>1, <3>1
    <3> QED BY <1>13, <1>14, <3>2, SeqEqual
  <2>2. g = k => x.glued = y.glued
    BY <1>13
  <2> QED BY <1>5, <1>7, <1>9, <1>11, <2>1, <2>2, SayingsEqual
<1>20. GlueFits(x.glued, y.glued)
  BY <1>17 DEF GlueFits
<1> QED BY <1>5, <1>7, <1>9, <1>11, <1>17, <1>18, <1>19, <1>20 DEF x, y, a, b, q, h, k

LEMMA InTextFits ==
  ASSUME NEW s, NEW m \in Marks, InText(m, s)
  PROVE  Fits(m, s)
<1>1. DOMAIN m = 1..Len(m)
  BY LenProperties DEF Marks
<1> QED BY <1>1 DEF InText, Fits

LEMMA InTextEmpty == \A s : InText(<<>>, s) /\ Fits(<<>>, s)
<1>1. DOMAIN <<>> = {} /\ Len(<<>>) = 0
  BY EmptySeq
<1> QED BY <1>1 DEF InText, Fits

LEMMA InTextJoined ==
  ASSUME NEW s \in Texts, NEW t \in Texts, NEW m \in Marks, NEW p \in Marks, InText(m, s), InText(p, t)
  PROVE  InText(m \o Moved(p, Len(s)), s \o t)
<1> DEFINE q == m \o Moved(p, Len(s))
<1>1. Fits(q, s \o t)
  BY InTextFits, FitsJoined
<1>2. Len(s) \in Nat
  BY LenProperties DEF Texts
<1>3. /\ q \in Marks /\ Len(q) = Len(m) + Len(p) /\ Len(m) \in Nat /\ Len(p) \in Nat
      /\ (\A n \in 1..Len(m) : q[n] = m[n])
      /\ (\A n \in 1..Len(p) : q[Len(m) + n][1] = p[n][1] /\ q[Len(m) + n][2] = Len(s) + p[n][2])
  BY <1>2, MarksJoined
<1> HIDE DEF q
<1>4. /\ \A n \in 1..Len(m) : m[n][2] <= Len(s) /\ (n > 1 => m[n - 1][2] <= m[n][2])
      /\ \A n \in 1..Len(p) : n > 1 => p[n - 1][2] <= p[n][2]
      /\ DOMAIN q = 1..Len(q)
  BY <1>3, LenProperties DEF InText, Marks
<1>5. (\A n \in 1..Len(p) : p[n][2] \in Nat) /\ (\A n \in 1..Len(m) : m[n][2] \in Nat)
  BY MarkIs
<1>6. ASSUME NEW n \in 1..Len(q), n > 1 PROVE q[n - 1][2] <= q[n][2]
  <2>1. CASE n <= Len(m)
    <3>1. n \in 1..Len(m) /\ n - 1 \in 1..Len(m)
      BY <1>3, <1>6, <2>1
    <3> QED BY <1>3, <1>4, <1>6, <3>1
  <2>2. CASE ~(n <= Len(m))
    <3> DEFINE i == n - Len(m)
    <3>1. i \in 1..Len(p) /\ n = Len(m) + i
      BY <1>3, <2>2
    <3>2. CASE i = 1
      <4> HIDE DEF i
      <4>0. n - 1 = Len(m) /\ n - 1 \in 1..Len(m)
        BY <1>3, <1>6, <3>1, <3>2
      <4>1. n - 1 \in 1..Len(m) /\ q[n - 1] = m[n - 1] /\ q[n][2] = Len(s) + p[i][2]
        BY <1>3, <3>1, <4>0
      <4> QED BY <1>2, <1>4, <1>5, <3>1, <4>1, SMTT(30)
    <3>3. CASE i # 1
      <4> DEFINE j == i - 1
      <4>1. j \in 1..Len(p) /\ n - 1 = Len(m) + j /\ i > 1 /\ j = i - 1
        BY <1>3, <3>1, <3>3
      <4> HIDE DEF i, j
      <4>2. q[n - 1][2] = Len(s) + p[j][2] /\ q[n][2] = Len(s) + p[i][2]
        BY <1>3, <3>1, <4>1
      <4>3. p[j][2] <= p[i][2]
        BY <1>4, <3>1, <4>1
      <4>4. p[j][2] \in Nat /\ p[i][2] \in Nat
        BY <1>5, <3>1, <4>1
      <4> QED BY <1>2, <4>2, <4>3, <4>4
    <3> QED BY <3>2, <3>3
  <2> QED BY <2>1, <2>2
<1>7. InText(q, s \o t)
  BY <1>1, <1>4, <1>6 DEF Fits, InText
<1> QED BY <1>7 DEF q

\* Texts with marks, made one text with marks.
Shifted(T, M) == [k \in DOMAIN M |-> Moved(M[k], Offset(T, k))]
All(T, M, c) == [k \in DOMAIN T |-> Woven(T[k], M[k], c)]
Marked(T, M) ==
  /\ T \in Seq(Texts) /\ M \in Seq(Marks) /\ Len(M) = Len(T)
  /\ \A k \in 1..Len(T) : Fits(M[k], T[k])
Apart(T) ==
  /\ \A k \in 1..Len(T) : T[k] # <<>>
  /\ \A k \in 1..Len(T) : k > 1 => ~Touch(T[k - 1], T[k])

LEMMA FlattenTexts ==
  /\ \A ss \in Seq(Texts) : FlattenSeq(ss) \in Texts
  /\ \A ss \in Seq(Texts), s \in Texts : FlattenSeq(Append(ss, s)) = FlattenSeq(ss) \o s
BY FlattenTyped, FlattenAppend DEF Texts

LEMMA ShiftedTyped ==
  ASSUME NEW T, NEW M, Marked(T, M), NEW c \in Commands
  PROVE  /\ Shifted(T, M) \in Seq(Marks) /\ Len(Shifted(T, M)) = Len(T) /\ Len(T) \in Nat
         /\ All(T, M, c) \in Seq(Sayings) /\ Len(All(T, M, c)) = Len(T)
         /\ \A k \in 1..Len(T) :
              /\ T[k] \in Texts /\ M[k] \in Marks
              /\ Shifted(T, M)[k] = Moved(M[k], Len(FlattenSeq(SubSeq(T, 1, k - 1))))
              /\ All(T, M, c)[k] = Woven(T[k], M[k], c) /\ Woven(T[k], M[k], c) \in Sayings
<1>1. /\ T \in Seq(Texts) /\ M \in Seq(Marks) /\ Len(M) = Len(T) /\ \A k \in 1..Len(T) : Fits(M[k], T[k])
  BY DEF Marked
<1>2. /\ DOMAIN T = 1..Len(T) /\ DOMAIN M = 1..Len(T) /\ Len(T) \in Nat
      /\ \A k \in 1..Len(T) : T[k] \in Texts /\ M[k] \in Marks
  BY <1>1, LenProperties, ElementOfSeq
<1>3. \A k \in 1..Len(T) : Woven(T[k], M[k], c) \in Sayings
  BY <1>1, <1>2, WovenIs
<1>4. ASSUME NEW k \in 1..Len(T) PROVE Offset(T, k) \in Nat
  <2>1. k - 1 \in 0..Len(T)
    BY <1>2
  <2>2. SubSeq(T, 1, k - 1) \in Seq(Texts)
    BY <1>1, <2>1, CutInTwo
  <2>3. FlattenSeq(SubSeq(T, 1, k - 1)) \in Texts
    BY <2>2, FlattenTexts
  <2> QED BY <2>3, LenProperties DEF Offset, Texts
<1>5. \A k \in 1..Len(T) : Moved(M[k], Offset(T, k)) \in Marks
  BY <1>2, <1>4, MovedTyped
<1>6. Shifted(T, M) \in [1..Len(T) -> Marks] /\ \A k \in 1..Len(T) : Shifted(T, M)[k] = Moved(M[k], Offset(T, k))
  BY <1>2, <1>5 DEF Shifted
<1>7. All(T, M, c) \in [1..Len(T) -> Sayings] /\ \A k \in 1..Len(T) : All(T, M, c)[k] = Woven(T[k], M[k], c)
  BY <1>2, <1>3 DEF All
<1>8. Shifted(T, M) \in Seq(Marks) /\ Len(Shifted(T, M)) = Len(T)
  BY <1>2, <1>6, FunctionIsSeq
<1>9. All(T, M, c) \in Seq(Sayings) /\ Len(All(T, M, c)) = Len(T)
  BY <1>2, <1>7, FunctionIsSeq
<1>10. \A k \in 1..Len(T) : Shifted(T, M)[k] = Moved(M[k], Len(FlattenSeq(SubSeq(T, 1, k - 1))))
  BY <1>6 DEF Offset
<1> QED BY <1>2, <1>3, <1>7, <1>8, <1>9, <1>10

LEMMA WovenFlatten ==
  ASSUME NEW T, NEW M, Marked(T, M), Apart(T), NEW c \in Commands
  PROVE  /\ FlattenSeq(T) \in Texts /\ FlattenSeq(Shifted(T, M)) \in Marks
         /\ Fits(FlattenSeq(Shifted(T, M)), FlattenSeq(T))
         /\ Woven(FlattenSeq(T), FlattenSeq(Shifted(T, M)), c) = Together(All(T, M, c))
         /\ (\A k \in 1..Len(T) : InText(M[k], T[k])) => InText(FlattenSeq(Shifted(T, M)), FlattenSeq(T))
<1> DEFINE B == Shifted(T, M)
           W == All(T, M, c)
           A(n) == SubSeq(T, 1, n)
           H == \A k \in 1..Len(T) : InText(M[k], T[k])
           I(s, m, n) == /\ s \in Texts /\ m \in Marks /\ Fits(m, s)
                         /\ (n > 0 => s # <<>> /\ s[Len(s)] = T[n][Len(T[n])])
                         /\ Woven(s, m, c) = Together(SubSeq(W, 1, n))
                         /\ (H => InText(m, s))
           S == {n \in 0..Len(T) : I(FlattenSeq(SubSeq(T, 1, n)), FlattenSeq(SubSeq(B, 1, n)), n)}
<1>1. /\ B \in Seq(Marks) /\ Len(B) = Len(T) /\ Len(T) \in Nat
      /\ W \in Seq(Sayings) /\ Len(W) = Len(T)
      /\ \A k \in 1..Len(T) :
           /\ T[k] \in Texts /\ M[k] \in Marks
           /\ B[k] = Moved(M[k], Len(FlattenSeq(SubSeq(T, 1, k - 1))))
           /\ W[k] = Woven(T[k], M[k], c) /\ Woven(T[k], M[k], c) \in Sayings
  BY ShiftedTyped
<1>2. T \in Seq(Texts) /\ \A k \in 1..Len(T) : Fits(M[k], T[k])
  BY DEF Marked
<1> HIDE DEF B, W
<1>3. 0 \in S
  <2>1. SubSeq(T, 1, 0) = <<>> /\ SubSeq(B, 1, 0) = <<>> /\ SubSeq(W, 1, 0) = <<>>
    BY NoBeginning
  <2>2. FlattenSeq(<<>>) = <<>> /\ <<>> \in Texts /\ <<>> \in Marks
    BY FlattenEmpty, EmptySeq DEF Texts, Marks
  <2>3. Fits(<<>>, <<>>) /\ InText(<<>>, <<>>)
    BY InTextEmpty
  <2>4. Woven(<<>>, <<>>, c) = Silence
    <3>1. /\ Woven(<<>>, <<>>, c) \in Sayings /\ Woven(<<>>, <<>>, c).letters = <<>> /\ Woven(<<>>, <<>>, c).glued = <<>>
          /\ Woven(<<>>, <<>>, c).stops \in Marks /\ Len(Woven(<<>>, <<>>, c).stops) = Len(<<>>)
      BY <2>2, <2>3, WovenIs, LettersEmpty
    <3>2. Woven(<<>>, <<>>, c).stops = <<>>
      BY <3>1, EmptySeq DEF Marks
    <3> QED BY <3>1, <3>2, SilenceIs, SayingsEqual
  <2>5. I(<<>>, <<>>, 0)
    <3>1. Woven(<<>>, <<>>, c) = Together(SubSeq(W, 1, 0))
      BY <2>1, <2>4, TogetherEmpty
    <3> HIDE DEF H
    <3> QED BY <2>2, <2>3, <3>1
  <2>6. FlattenSeq(SubSeq(T, 1, 0)) = <<>>
    BY <2>1, <2>2
  <2>7. FlattenSeq(SubSeq(B, 1, 0)) = <<>>
    BY <2>1, <2>2
  <2>8. 0 \in 0..Len(T)
    BY <1>1
  <2> HIDE DEF I
  <2> QED BY <2>5, <2>6, <2>7, <2>8
<1>4. ASSUME NEW n \in 1..Len(T), n - 1 \in S PROVE n \in S
  <2> DEFINE s == FlattenSeq(SubSeq(T, 1, n - 1))
             m == FlattenSeq(SubSeq(B, 1, n - 1))
             t == T[n]
             p == M[n]
             w == SubSeq(W, 1, n - 1)
  <2>1. I(s, m, n - 1)
    BY <1>4
  <2>2. t \in Texts /\ p \in Marks /\ Fits(p, t) /\ B[n] = Moved(p, Len(s)) /\ W[n] = Woven(t, p, c) /\ W[n] \in Sayings
    BY <1>1, <1>2
  <2>3. SubSeq(T, 1, n) = Append(SubSeq(T, 1, n - 1), t) /\ SubSeq(T, 1, n - 1) \in Seq(Texts)
    BY <1>2, BeginningGrows
  <2>4. SubSeq(B, 1, n) = Append(SubSeq(B, 1, n - 1), Moved(p, Len(s))) /\ SubSeq(B, 1, n - 1) \in Seq(Marks) /\ Moved(p, Len(s)) \in Marks
    BY <1>1, <2>2, BeginningGrows
  <2>5. SubSeq(W, 1, n) = Append(w, Woven(t, p, c)) /\ w \in Seq(Sayings) /\ Woven(t, p, c) \in Sayings
    BY <1>1, <2>2, BeginningGrows
  <2>6. FlattenSeq(SubSeq(T, 1, n)) = s \o t
    BY <2>2, <2>3, FlattenTexts
  <2>7. FlattenSeq(SubSeq(B, 1, n)) = m \o Moved(p, Len(s))
    BY <2>4, FlattenMarks, ZenonT(30)
  <2>8. Together(SubSeq(W, 1, n)) = Then(Together(w), Woven(t, p, c))
    BY <2>5, TogetherAppend
  <2>9. ~Touch(s, t)
    <3>1. CASE n = 1
      <4>1. s = <<>>
        <5>1. SubSeq(T, 1, 0) = <<>> /\ n - 1 = 0
          BY <3>1, NoBeginning
        <5> QED BY <3>1, <5>1, FlattenEmpty
      <4> QED BY <4>1 DEF Touch
    <3>2. CASE n # 1
      <4>1. n > 1 /\ n - 1 > 0 /\ n - 1 \in 1..Len(T)
        BY <1>1, <3>2
      <4>2. ~Touch(T[n - 1], T[n]) /\ T[n - 1] # <<>>
        BY <4>1 DEF Apart
      <4>3. s[Len(s)] = T[n - 1][Len(T[n - 1])]
        BY <2>1, <4>1
      <4> HIDE DEF s
      <4> QED BY <4>2, <4>3 DEF Touch
    <3> QED BY <3>1, <3>2
  <2>10. t # <<>>
    BY DEF Apart
  <2>11. I(s, m, n - 1) => s \in Texts /\ m \in Marks /\ Fits(m, s) /\ Woven(s, m, c) = Together(w) /\ (H => InText(m, s))
    OBVIOUS
  <2> HIDE DEF s, m, t, p, w
  <2>12. s \in Texts /\ m \in Marks /\ Fits(m, s) /\ Woven(s, m, c) = Together(w) /\ (H => InText(m, s))
    BY <2>1, <2>11
  <2> DEFINE u == s \o t
             q == m \o Moved(p, Len(s))
  <2>13. u \in Texts /\ q \in Marks /\ Fits(q, u)
    <3>1. Len(s) \in Nat
      BY <2>12, LenProperties DEF Texts
    <3> QED BY <2>2, <2>12, <3>1, FitsJoined, MarksJoined
  <2>14. Woven(u, q, c) = Then(Together(w), Woven(t, p, c))
    BY <2>2, <2>9, <2>12, WovenJoined
  <2>15. u # <<>> /\ u[Len(u)] = t[Len(t)]
    <3>1. /\ Len(u) = Len(s) + Len(t) /\ Len(s) \in Nat /\ Len(t) \in Nat
          /\ \A i \in 1..Len(t) : u[Len(s) + i] = t[i]
      BY <2>2, <2>12, JoinedHas DEF Texts
    <3>2. Len(t) # 0
      BY <2>2, <2>10, EmptySeq DEF Texts
    <3> HIDE DEF u
    <3>3. Len(t) \in 1..Len(t) /\ Len(u) # 0
      BY <3>1, <3>2
    <3> QED BY <3>1, <3>3, EmptySeq
  <2>16. H => InText(q, u)
    <3>1. H => InText(p, t)
      BY DEF t, p
    <3> HIDE DEF H
    <3> QED BY <2>2, <2>12, <3>1, InTextJoined
  <2>17. u[Len(u)] = T[n][Len(T[n])]
    BY <2>15 DEF t
  <2>18. I(u, q, n)
    <3> HIDE DEF u, q, H
    <3> QED BY <2>8, <2>13, <2>14, <2>15, <2>16, <2>17
  <2>19. n \in 0..Len(T)
    BY <1>1
  <2> HIDE DEF I
  <2> QED BY <2>6, <2>7, <2>18, <2>19
<1>5. 0..Len(T) \subseteq S
  <2> HIDE DEF S
  <2> QED BY <1>1, <1>3, <1>4, InductionUpTo
<1>6. SubSeq(T, 1, Len(T)) = T /\ SubSeq(B, 1, Len(T)) = B /\ SubSeq(W, 1, Len(T)) = W
  BY <1>1, <1>2, SubSeqFull
<1>7. Len(T) \in S
  BY <1>1, <1>5
<1>8. I(FlattenSeq(T), FlattenSeq(B), Len(T))
  BY <1>6, <1>7
<1> QED BY <1>6, <1>8 DEF B, W

-----------------------------------------------------------------------------
(* Texts among spaces                                                        *)

LEMMA Smallest ==
  ASSUME NEW N \in Nat, NEW P \in SUBSET (1..N), P # {}
  PROVE  \E i \in P : \A j \in P : i <= j
<1>1. PICK k \in P : TRUE
  OBVIOUS
<1>2. k \in Nat /\ k \in P
  OBVIOUS
<1>3. PICK i \in 0..k : i \in P /\ \A m \in 0..i - 1 : m \notin P
  BY <1>2, Least
<1>4. ASSUME NEW j \in P PROVE i <= j
  <2>1. j \in Nat /\ i \in Nat
    BY <1>3
  <2>2. ~(j \in 0..i - 1)
    BY <1>3
  <2> QED BY <2>1, <2>2
<1> QED BY <1>3, <1>4

LEMMA Largest ==
  ASSUME NEW N \in Nat, NEW P \in SUBSET (1..N), P # {}
  PROVE  \E i \in P : \A j \in P : j <= i
<1> DEFINE Q == {N + 1 - i : i \in P}
<1>1. Q \in SUBSET (1..N) /\ Q # {}
  <2>1. \A i \in P : N + 1 - i \in 1..N
    OBVIOUS
  <2> QED BY <2>1
<1>2. \A i \in P : N + 1 - i \in Q
  OBVIOUS
<1>3. \A q \in Q : \E i \in P : q = N + 1 - i
  OBVIOUS
<1> HIDE DEF Q
<1>4. PICK q \in Q : \A j \in Q : q <= j
  BY <1>1, Smallest
<1>5. PICK i \in P : q = N + 1 - i
  BY <1>3
<1>6. ASSUME NEW j \in P PROVE j <= i
  <2>1. q <= N + 1 - j
    BY <1>2, <1>4
  <2> QED BY <1>5, <2>1
<1> QED BY <1>6

Spaces(s) == \A n \in 1..Len(s) : s[n] = " "

LEMMA InkIs ==
  ASSUME NEW s \in Texts
  PROVE  /\ Ink(s) = {i \in 1..Len(s) : s[i] # " "} /\ Len(s) \in Nat
         /\ Ink(s) \in SUBSET (1..Len(s)) /\ (Blank(s) <=> Spaces(s))
         /\ \A i \in Ink(s) : i \in 1..Len(s) /\ i \in Nat /\ i > 0 /\ i <= Len(s) /\ s[i] # " "
         /\ \A i \in 1..Len(s) : s[i] # " " => i \in Ink(s)
<1>1. DOMAIN s = 1..Len(s) /\ Len(s) \in Nat
  BY LenProperties DEF Texts
<1>2. Ink(s) = {i \in 1..Len(s) : s[i] # " "}
  BY <1>1 DEF Ink
<1>3. Blank(s) <=> Spaces(s)
  BY <1>2 DEF Blank, Spaces
<1>4. \A i \in 1..Len(s) : i \in Nat /\ i > 0 /\ i <= Len(s)
  BY <1>1
<1>5. \A i \in Ink(s) : i \in 1..Len(s) /\ s[i] # " "
  BY <1>2
<1>6. \A i \in 1..Len(s) : s[i] # " " => i \in Ink(s)
  BY <1>2
<1>7. Ink(s) \in SUBSET (1..Len(s))
  BY <1>2
<1> QED BY <1>1, <1>2, <1>3, <1>4, <1>5, <1>6, <1>7

LEMMA GluedApart ==
  ASSUME NEW s \in Texts, NEW t \in Texts, ~Touch(s, t)
  PROVE  Glued(s \o t) = Glued(s) \o Glued(t)
<1>0. PICK c : c \in Commands
  <2>1. [rate |-> 0, language |-> 0] \in Commands
    BY DEF Commands
  <2> QED BY <2>1
<1> DEFINE h == Glued(t)
<1>1. PICK g \in Seq(Flags) :
          /\ Glued(s \o t) = Glued(s) \o g /\ Len(g) = Len(h)
          /\ \A n \in 1..Len(g) : h[n] => g[n]
          /\ \A n \in 1..Len(g) : g[n] /\ ~h[n] => n = 1 /\ Touch(s, t)
  BY GluedAcross
<1>2. h \in Seq(Flags)
  BY <1>0, LettersTyped
<1> HIDE DEF h
<1>3. \A n \in 1..Len(g) : g[n] \in BOOLEAN /\ h[n] \in BOOLEAN
  BY <1>1, <1>2, ElementOfSeq DEF Flags
<1>4. \A n \in 1..Len(g) : g[n] = h[n]
  BY <1>1, <1>3
<1>5. g = h
  BY <1>1, <1>2, <1>4, SeqEqual
<1> QED BY <1>1, <1>5 DEF h

\* Spaces around a text change nothing that it says.
Inside(m, from, length) == [n \in DOMAIN m |-> <<m[n][1], Within(m[n][2], from, length)>>]

LEMMA WithinIs ==
  ASSUME NEW o \in Nat, NEW from \in Nat, NEW length \in Nat
  PROVE  /\ Within(o, from, length) \in Nat /\ Within(o, from, length) <= length
         /\ o < from => Within(o, from, length) = 0
         /\ from <= o /\ o <= from + length => Within(o, from, length) = o - from
         /\ o > from + length => Within(o, from, length) = length
         /\ \A p \in Nat : o <= p => Within(o, from, length) <= Within(p, from, length)
BY DEF Within

LEMMA InsideIs ==
  ASSUME NEW m \in Marks, NEW from \in Nat, NEW length \in Nat
  PROVE  /\ Inside(m, from, length) \in Marks /\ Len(Inside(m, from, length)) = Len(m) /\ Len(m) \in Nat
         /\ \A n \in 1..Len(m) :
              /\ m[n][2] \in Nat /\ Inside(m, from, length)[n] = <<m[n][1], Within(m[n][2], from, length)>>
              /\ Inside(m, from, length)[n][1] = m[n][1]
              /\ Inside(m, from, length)[n][2] = Within(m[n][2], from, length)
              /\ Inside(m, from, length)[n][2] <= length
<1>1. DOMAIN m = 1..Len(m) /\ Len(m) \in Nat
  BY LenProperties DEF Marks
<1>2. \A n \in 1..Len(m) : m[n][1] \in Nat /\ m[n][2] \in Nat /\ Within(m[n][2], from, length) \in Nat /\ Within(m[n][2], from, length) <= length
  BY MarkIs, WithinIs
<1>3. Inside(m, from, length) \in [1..Len(m) -> MarkType]
  BY <1>1, <1>2 DEF Inside, MarkType
<1>4. Inside(m, from, length) \in Marks /\ Len(Inside(m, from, length)) = Len(m)
  BY <1>1, <1>3, FunctionIsSeq DEF Marks
<1>5. \A n \in 1..Len(m) : Inside(m, from, length)[n] = <<m[n][1], Within(m[n][2], from, length)>>
  BY <1>1 DEF Inside
<1> QED BY <1>1, <1>2, <1>4, <1>5

LEMMA InsideInText ==
  ASSUME NEW m \in Marks, NEW from \in Nat, NEW s \in Texts,
         \A n \in 1..Len(m) : n > 1 => m[n - 1][2] <= m[n][2]
  PROVE  InText(Inside(m, from, Len(s)), s)
<1> DEFINE q == Inside(m, from, Len(s))
<1>0. Len(s) \in Nat
  BY LenProperties DEF Texts
<1>1. /\ q \in Marks /\ Len(q) = Len(m) /\ Len(m) \in Nat
      /\ \A n \in 1..Len(m) : m[n][2] \in Nat /\ q[n][2] = Within(m[n][2], from, Len(s)) /\ q[n][2] <= Len(s)
  BY <1>0, InsideIs
<1> HIDE DEF q
<1>2. DOMAIN q = 1..Len(q)
  BY <1>1, LenProperties DEF Marks
<1>3. ASSUME NEW n \in 1..Len(m), n > 1 PROVE q[n - 1][2] <= q[n][2]
  <2>1. n - 1 \in 1..Len(m)
    BY <1>1, <1>3
  <2>2. m[n - 1][2] \in Nat /\ m[n][2] \in Nat /\ m[n - 1][2] <= m[n][2]
    BY <1>1, <1>3, <2>1
  <2>3. Within(m[n - 1][2], from, Len(s)) <= Within(m[n][2], from, Len(s))
    BY <1>0, <2>2, WithinIs
  <2> QED BY <1>1, <2>1, <2>3
<1>4. InText(q, s)
  BY <1>1, <1>2, <1>3 DEF InText
<1> QED BY <1>4 DEF q

LEMMA SpacesCount ==
  ASSUME NEW l \in Texts, Spaces(l), NEW c \in Commands, NEW o \in 0..Len(l)
  PROVE  Count(l, o, c) = 0
<1>1. Letters(l, c) = <<>>
  BY LettersBlank DEF Spaces
<1>2. Count(l, o, c) \in Nat /\ Count(l, o, c) <= 0
  BY <1>1, CountTyped, EmptySeq
<1> QED BY <1>2

LEMMA CountAfterSpaces ==
  ASSUME NEW l \in Texts, NEW s \in Texts, Spaces(l), NEW c \in Commands, NEW o \in Nat, o <= Len(l) + Len(s)
  PROVE  Count(l \o s, o, c) = Count(s, IF o < Len(l) THEN 0 ELSE o - Len(l), c)
<1>1. Len(l) \in Nat /\ Len(s) \in Nat
  BY LenProperties DEF Texts
<1>2. CASE o < Len(l)
  <2>1. Count(l \o s, o, c) = Count(l, o, c)
    BY <1>1, <1>2, CountJoined
  <2>2. o \in 0..Len(l) /\ 0 \in 0..Len(s)
    BY <1>1, <1>2
  <2>3. Count(l, o, c) = 0 /\ Count(s, 0, c) = 0
    BY <2>2, SpacesCount, CountTyped
  <2> QED BY <1>2, <2>1, <2>3
<1>3. CASE ~(o < Len(l))
  <2> DEFINE i == o - Len(l)
  <2>1. i \in 0..Len(s) /\ i \in Nat /\ i <= Len(s) /\ o = Len(l) + i
    BY <1>1, <1>3
  <2> HIDE DEF i
  <2>2. Count(l \o s, Len(l) + i, c) = Len(Letters(l, c)) + Count(s, i, c)
    BY <2>1, CountJoined
  <2>3. Len(Letters(l, c)) = 0
    BY LettersBlank, EmptySeq DEF Spaces
  <2>4. Count(s, i, c) \in Nat
    BY <2>1, CountTyped
  <2> QED BY <1>3, <2>1, <2>2, <2>3, <2>4 DEF i
<1> QED BY <1>2, <1>3

LEMMA CountBeforeSpaces ==
  ASSUME NEW s \in Texts, NEW r \in Texts, Spaces(r), NEW c \in Commands, NEW o \in Nat, o <= Len(s) + Len(r)
  PROVE  Count(s \o r, o, c) = Count(s, IF o <= Len(s) THEN o ELSE Len(s), c)
<1>1. Len(s) \in Nat /\ Len(r) \in Nat
  BY LenProperties DEF Texts
<1>2. CASE o <= Len(s)
  BY <1>2, CountJoined
<1>3. CASE ~(o <= Len(s))
  <2> DEFINE i == o - Len(s)
  <2>1. i \in 0..Len(r) /\ i \in Nat /\ i <= Len(r) /\ o = Len(s) + i /\ 0 \in 0..Len(s)
    BY <1>1, <1>3
  <2> HIDE DEF i
  <2>2. Count(s \o r, Len(s) + i, c) = Len(Letters(s, c)) + Count(r, i, c)
    BY <2>1, CountJoined
  <2>3. Count(r, i, c) = 0
    BY <2>1, SpacesCount
  <2>4. Count(s, Len(s), c) = Len(Letters(s, c)) /\ Len(Letters(s, c)) \in Nat
    BY <2>1, CountTyped, LettersTyped
  <2>5. Count(s \o r, o, c) = Count(s, Len(s), c)
    BY <2>1, <2>2, <2>3, <2>4
  <2> QED BY <1>3, <2>5
<1> QED BY <1>2, <1>3

LEMMA CountAround ==
  ASSUME NEW l \in Texts, NEW s \in Texts, NEW r \in Texts, Spaces(l), Spaces(r), NEW c \in Commands,
         NEW o \in Nat, o <= Len(l) + Len(s) + Len(r)
  PROVE  Count((l \o s) \o r, o, c) = Count(s, Within(o, Len(l), Len(s)), c)
<1> DEFINE d == l \o s
           i == IF o <= Len(d) THEN o ELSE Len(d)
<1>1. Len(d) = Len(l) + Len(s) /\ Len(l) \in Nat /\ Len(s) \in Nat /\ d \in Texts
  BY JoinedHas DEF Texts
<1>2. Len(r) \in Nat
  BY LenProperties DEF Texts
<1>3. Count(d \o r, o, c) = Count(d, i, c)
  <2> HIDE DEF d
  <2>1. o <= Len(d) + Len(r)
    BY <1>1
  <2> QED BY <1>1, <2>1, CountBeforeSpaces, SMTT(30)
<1>4. i \in Nat /\ i <= Len(l) + Len(s)
  BY <1>1
<1>5. Within(o, Len(l), Len(s)) = IF i < Len(l) THEN 0 ELSE i - Len(l)
  BY <1>1 DEF Within
<1> HIDE DEF i
<1>6. Count(d, i, c) = Count(s, IF i < Len(l) THEN 0 ELSE i - Len(l), c)
  BY <1>4, CountAfterSpaces
<1> QED BY <1>3, <1>5, <1>6

LEMMA WovenAround ==
  ASSUME NEW l \in Texts, NEW s \in Texts, NEW r \in Texts, Spaces(l), Spaces(r), NEW c \in Commands,
         NEW m \in Marks, Fits(m, (l \o s) \o r)
  PROVE  /\ Inside(m, Len(l), Len(s)) \in Marks /\ Fits(Inside(m, Len(l), Len(s)), s)
         /\ Woven((l \o s) \o r, m, c) = Woven(s, Inside(m, Len(l), Len(s)), c)
<1> DEFINE u == (l \o s) \o r
           q == Inside(m, Len(l), Len(s))
<1>1. /\ Len(l \o s) = Len(l) + Len(s) /\ Len(l) \in Nat /\ Len(s) \in Nat /\ l \o s \in Texts
      /\ \A n \in 1..Len(l) : (l \o s)[n] = l[n]
  BY JoinedHas DEF Texts
<1>2. u \in Texts /\ Len(u) = Len(l) + Len(s) + Len(r) /\ Len(r) \in Nat
  <2>1. u \in Texts /\ Len(u) = Len(l \o s) + Len(r) /\ Len(r) \in Nat
    BY <1>1, JoinedHas DEF Texts
  <2> QED BY <1>1, <2>1
<1>3. /\ q \in Marks /\ Len(q) = Len(m) /\ Len(m) \in Nat
      /\ \A n \in 1..Len(m) : m[n][2] \in Nat /\ q[n][1] = m[n][1] /\ q[n][2] = Within(m[n][2], Len(l), Len(s)) /\ q[n][2] <= Len(s)
  BY <1>1, InsideIs
<1>4. Fits(q, s)
  <2> HIDE DEF q
  <2> QED BY <1>3 DEF Fits
<1>5. Letters(u, c) = Letters(s, c)
  <2>1. Letters(l, c) = <<>> /\ Letters(r, c) = <<>>
    BY LettersBlank DEF Spaces
  <2>2. Letters(u, c) = (Letters(l, c) \o Letters(s, c)) \o Letters(r, c)
    <3>1. Letters(l \o s, c) = Letters(l, c) \o Letters(s, c)
      BY LettersJoined
    <3> DEFINE d == l \o s
    <3>2. d \in Texts
      BY <1>1
    <3> HIDE DEF d
    <3>3. Letters(d \o r, c) = Letters(d, c) \o Letters(r, c)
      BY <3>2, LettersJoined
    <3> QED BY <3>1, <3>3 DEF d
  <2>3. Letters(s, c) \in Seq(LetterType)
    BY LettersTyped
  <2> QED BY <2>1, <2>2, <2>3, ConcatEmptySeq
<1>6. Glued(u) = Glued(s)
  <2>1. Glued(l) = <<>> /\ Glued(r) = <<>>
    BY LettersBlank DEF Spaces
  <2>2. ~Touch(l, s)
    <3>1. l # <<>> => Len(l) \in 1..Len(l)
      BY <1>1, EmptySeq DEF Texts
    <3> QED BY <3>1 DEF Touch, Spaces
  <2>3. ~Touch(l \o s, r)
    <3>1. r # <<>> => 1 \in 1..Len(r)
      BY <1>2, EmptySeq DEF Texts
    <3> QED BY <3>1 DEF Touch, Spaces
  <2>4. Glued(l \o s) = Glued(l) \o Glued(s)
    BY <2>2, GluedApart
  <2>5. Glued(u) = Glued(l \o s) \o Glued(r)
    BY <1>1, <2>3, GluedApart
  <2>6. Glued(s) \in Seq(Flags)
    BY LettersTyped
  <2> QED BY <2>1, <2>4, <2>5, <2>6, ConcatEmptySeq
<1>7. ASSUME NEW n \in 1..Len(m) PROVE m[n][1] = q[n][1] /\ Count(u, m[n][2], c) = Count(s, q[n][2], c)
  <2>1. m[n][2] \in Nat /\ m[n][2] <= Len(l) + Len(s) + Len(r)
    BY <1>2, <1>3 DEF Fits
  <2>2. Count(u, m[n][2], c) = Count(s, Within(m[n][2], Len(l), Len(s)), c)
    BY <2>1, CountAround
  <2> QED BY <1>3, <2>2
<1> HIDE DEF u, q
<1>8. Fits(m, u)
  BY DEF u
<1>9. Woven(u, m, c) = Woven(s, q, c)
  BY <1>2, <1>3, <1>4, <1>5, <1>6, <1>7, <1>8, WovenEqual
<1> QED BY <1>3, <1>4, <1>9 DEF u, q

\* A text that is not blank is spaces, what is left of it, and spaces.
LEMMA StripIs ==
  ASSUME NEW s \in Texts, ~Blank(s)
  PROVE  \E l \in Texts, r \in Texts :
           /\ Spaces(l) /\ Spaces(r) /\ Len(l) = LeftTrimmed(s) /\ s = (l \o Strip(s)) \o r
           /\ Strip(s) \in Texts /\ Len(Strip(s)) \in Nat /\ Len(Strip(s)) > 0
           /\ Strip(s)[1] # " " /\ Strip(s)[Len(Strip(s))] # " "
<1>1. Ink(s) = {i \in 1..Len(s) : s[i] # " "} /\ Len(s) \in Nat /\ Ink(s) \in SUBSET (1..Len(s)) /\ Ink(s) # {}
  BY InkIs DEF Blank
<1> DEFINE a == CHOOSE i \in Ink(s) : \A j \in Ink(s) : i <= j
           b == CHOOSE i \in Ink(s) : \A j \in Ink(s) : j <= i
<1>2. a \in Ink(s) /\ \A j \in Ink(s) : a <= j
  <2>1. \E i \in Ink(s) : \A j \in Ink(s) : i <= j
    BY <1>1, Smallest
  <2> QED BY <2>1
<1>3. b \in Ink(s) /\ \A j \in Ink(s) : j <= b
  <2>1. \E i \in Ink(s) : \A j \in Ink(s) : j <= i
    BY <1>1, Largest
  <2> QED BY <2>1
<1>4. LeftTrimmed(s) = a - 1 /\ Strip(s) = SubSeq(s, (a - 1) + 1, b)
  BY DEF LeftTrimmed, Strip
<1> HIDE DEF a, b
<1>5. PICK k \in Nat : /\ b \in Nat /\ k < b /\ b <= Len(s) /\ k + 1 = a /\ a \in 1..Len(s) /\ a <= b
                       /\ Len(s) \in Nat /\ k = a - 1
  <2>1. a \in 1..Len(s) /\ b \in 1..Len(s) /\ a <= b /\ Len(s) \in Nat
    BY <1>1, <1>2, <1>3
  <2>2. a - 1 \in Nat /\ b \in Nat /\ a - 1 < b /\ b <= Len(s) /\ (a - 1) + 1 = a
    BY <2>1
  <2> QED BY <2>1, <2>2
<1>6. \A n \in 1..Len(s) : n <= k \/ n > b => s[n] = " "
  <2> SUFFICES ASSUME NEW n \in 1..Len(s), n <= k \/ n > b PROVE s[n] = " "
    OBVIOUS
  <2>1. n \in Nat
    BY <1>5
  <2>2. ~(a <= n /\ n <= b)
    BY <1>5, <2>1
  <2>3. n \notin Ink(s)
    BY <1>2, <1>3, <2>2
  <2> QED BY <1>1, <2>3
<1> DEFINE l == SubSeq(s, 0 + 1, k)
           t == SubSeq(s, k + 1, b)
           r == SubSeq(s, b + 1, Len(s))
<1>7. s \in Seq(Characters)
  BY DEF Texts
<1>8. /\ l \in Seq(Characters) /\ Len(l) = k - 0 /\ \A n \in 1..k - 0 : l[n] = s[0 + n]
  BY <1>5, <1>7, PieceHas
<1>9. /\ t \in Seq(Characters) /\ Len(t) = b - k /\ \A n \in 1..b - k : t[n] = s[k + n]
  BY <1>5, <1>7, PieceHas
<1>10. /\ r \in Seq(Characters) /\ Len(r) = Len(s) - b /\ \A n \in 1..Len(s) - b : r[n] = s[b + n]
  BY <1>5, <1>7, PieceHas
<1>11. l \o t = SubSeq(s, 0 + 1, b)
  BY <1>5, <1>7, PiecesJoined
<1>12. SubSeq(s, 0 + 1, b) \o r = SubSeq(s, 0 + 1, Len(s))
  <2>1. 0 <= b /\ Len(s) <= Len(s)
    BY <1>5
  <2> QED BY <1>5, <1>7, <2>1, PiecesJoined, ZenonT(30)
<1>13. SubSeq(s, 0 + 1, Len(s)) = s
  BY <1>7, SubSeqFull
<1>14. s = (l \o t) \o r
  BY <1>11, <1>12, <1>13
<1>15. Strip(s) = t /\ LeftTrimmed(s) = k
  BY <1>4, <1>5
<1> HIDE DEF l, t, r
<1>16. Spaces(l)
  <2> SUFFICES ASSUME NEW n \in 1..Len(l) PROVE l[n] = " "
    BY DEF Spaces
  <2>1. n \in 1..Len(s) /\ n <= k /\ n \in 1..k - 0 /\ 0 + n = n
    BY <1>5, <1>8
  <2> QED BY <1>6, <1>8, <2>1
<1>17. Spaces(r)
  <2> SUFFICES ASSUME NEW n \in 1..Len(r) PROVE r[n] = " "
    BY DEF Spaces
  <2>1. b + n \in 1..Len(s) /\ b + n > b /\ n \in 1..Len(s) - b
    <3>1. n \in 1..Len(s) - b
      BY <1>10
    <3> QED BY <1>5, <3>1
  <2> QED BY <1>6, <1>10, <2>1
<1>18. t[1] # " " /\ t[Len(t)] # " " /\ Len(t) \in Nat /\ Len(t) > 0 /\ Len(l) = k
  <2>1. 1 \in 1..b - k /\ b - k \in 1..b - k /\ k + (b - k) = b
    BY <1>5
  <2>2. t[1] = s[a] /\ t[Len(t)] = s[b]
    BY <1>5, <1>9, <2>1
  <2>3. s[a] # " " /\ s[b] # " "
    BY <1>1, <1>2, <1>3
  <2>4. Len(t) \in Nat /\ Len(t) > 0 /\ Len(l) = k
    BY <1>5, <1>8, <1>9
  <2> QED BY <2>2, <2>3, <2>4
<1> QED BY <1>8, <1>9, <1>10, <1>14, <1>15, <1>16, <1>17, <1>18 DEF Texts

-----------------------------------------------------------------------------
(* Those that are chosen of a sequence                                       *)

LEMMA ChosenTyped ==
  ASSUME NEW E, NEW s \in Seq(E), NEW P
  PROVE  Chosen(s, P) \in Seq(E)
<1> DEFINE f == [n \in DOMAIN s |-> IF n \in P THEN <<s[n]>> ELSE <<>>]
<1>1. DOMAIN s = 1..Len(s) /\ Len(s) \in Nat /\ \A n \in 1..Len(s) : s[n] \in E
  BY LenProperties, ElementOfSeq
<1>2. f \in [1..Len(s) -> Seq(E)]
  <2>1. \A n \in 1..Len(s) : <<s[n]>> \in Seq(E) /\ <<>> \in Seq(E)
    BY <1>1, EmptySeq
  <2> QED BY <1>1, <2>1
<1>3. Chosen(s, P) = FlattenSeq(f)
  BY DEF Chosen
<1> HIDE DEF f
<1> QED BY <1>1, <1>2, <1>3, FunctionIsSeq, FlattenTyped

LEMMA ChosenEmpty == \A P : Chosen(<<>>, P) = <<>>
<1>1. \A P : [n \in DOMAIN <<>> |-> IF n \in P THEN <<(<<>>)[n]>> ELSE <<>>] = <<>>
  OBVIOUS
<1> QED BY <1>1, FlattenEmpty DEF Chosen

LEMMA ChosenAppend ==
  ASSUME NEW E, NEW s \in Seq(E), NEW e \in E, NEW P
  PROVE  Chosen(Append(s, e), P) = IF Len(s) + 1 \in P THEN Append(Chosen(s, P), e) ELSE Chosen(s, P)
<1> DEFINE t == Append(s, e)
           f == [n \in DOMAIN s |-> IF n \in P THEN <<s[n]>> ELSE <<>>]
           g == [n \in DOMAIN t |-> IF n \in P THEN <<t[n]>> ELSE <<>>]
           x == IF Len(s) + 1 \in P THEN <<e>> ELSE <<>>
<1>1. /\ t \in Seq(E) /\ Len(t) = Len(s) + 1 /\ Len(s) \in Nat /\ t[Len(s) + 1] = e
      /\ \A n \in 1..Len(s) : t[n] = s[n]
  BY AppendHas
<1>2. DOMAIN s = 1..Len(s) /\ DOMAIN t = 1..Len(s) + 1
  BY <1>1, LenProperties
<1>3. \A n \in 1..Len(s) : <<s[n]>> \in Seq(E)
  BY ElementOfSeq
<1>4. <<>> \in Seq(E) /\ x \in Seq(E)
  BY EmptySeq
<1> HIDE DEF t, x
<1>5. f \in [1..Len(s) -> Seq(E)] /\ g \in [1..Len(s) + 1 -> Seq(E)]
  <2>1. \A n \in 1..Len(s) + 1 : t[n] \in E
    BY <1>1, ElementOfSeq
  <2>2. \A n \in 1..Len(s) + 1 : <<t[n]>> \in Seq(E)
    BY <2>1
  <2> QED BY <1>2, <1>3, <1>4, <2>2
<1>6. \A n \in 1..Len(s) : g[n] = f[n]
  BY <1>1, <1>2
<1>7. g[Len(s) + 1] = x
  BY <1>1, <1>2 DEF x
<1>8. Chosen(s, P) = FlattenSeq(f) /\ Chosen(t, P) = FlattenSeq(g)
  BY DEF Chosen
<1> HIDE DEF f, g
<1>9. f \in Seq(Seq(E)) /\ Len(f) = Len(s)
  BY <1>1, <1>5, FunctionIsSeq
<1>10. g \in Seq(Seq(E)) /\ Len(g) = Len(s) + 1
  BY <1>1, <1>5, FunctionIsSeq
<1>11. g = Append(f, x)
  BY <1>6, <1>7, <1>9, <1>10, LongerByOne
<1>12. FlattenSeq(g) = FlattenSeq(f) \o x
  BY <1>4, <1>9, <1>11, FlattenAppend
<1>13. FlattenSeq(f) \in Seq(E)
  BY <1>9, FlattenTyped
<1>14. CASE Len(s) + 1 \in P
  <2>1. x = <<e>>
    BY <1>14 DEF x
  <2>2. Append(FlattenSeq(f), e) = FlattenSeq(f) \o <<e>>
    BY <1>13, AppendIsConcat
  <2> QED BY <1>8, <1>12, <1>14, <2>1, <2>2 DEF t
<1>15. CASE Len(s) + 1 \notin P
  <2>1. x = <<>>
    BY <1>15 DEF x
  <2> QED BY <1>8, <1>12, <1>13, <1>15, <2>1, ConcatEmptySeq DEF t
<1> QED BY <1>14, <1>15

LEMMA ChosenNone ==
  ASSUME NEW E, NEW P
  PROVE  \A s \in Seq(E) : (\A n \in 1..Len(s) : n \notin P) => Chosen(s, P) = <<>>
<1> DEFINE S == {s \in Seq(E) : (\A n \in 1..Len(s) : n \notin P) => Chosen(s, P) = <<>>}
<1>1. <<>> \in S
  BY ChosenEmpty, EmptySeq
<1>2. ASSUME NEW s \in Seq(E), NEW e \in E, s \in S PROVE Append(s, e) \in S
  <2> DEFINE t == Append(s, e)
  <2>1. t \in Seq(E) /\ Len(t) = Len(s) + 1 /\ Len(s) \in Nat
    BY AppendHas
  <2>2. Chosen(t, P) = IF Len(s) + 1 \in P THEN Append(Chosen(s, P), e) ELSE Chosen(s, P)
    BY ChosenAppend
  <2> HIDE DEF t
  <2>3. ASSUME \A n \in 1..Len(t) : n \notin P PROVE Chosen(t, P) = <<>>
    <3>1. Len(s) + 1 \in 1..Len(t) /\ \A n \in 1..Len(s) : n \in 1..Len(t)
      BY <2>1
    <3> QED BY <1>2, <2>2, <2>3, <3>1
  <2>4. t \in S
    BY <2>1, <2>3
  <2> QED BY <2>4 DEF t
<1>3. Seq(E) \subseteq S
  <2> HIDE DEF S
  <2> QED BY <1>1, <1>2, InductionOnSequences
<1> QED BY <1>3

LEMMA ChosenAll ==
  ASSUME NEW E, NEW P
  PROVE  \A s \in Seq(E) : (\A n \in 1..Len(s) : n \in P) => Chosen(s, P) = s
<1> DEFINE S == {s \in Seq(E) : (\A n \in 1..Len(s) : n \in P) => Chosen(s, P) = s}
<1>1. <<>> \in S
  BY ChosenEmpty, EmptySeq
<1>2. ASSUME NEW s \in Seq(E), NEW e \in E, s \in S PROVE Append(s, e) \in S
  <2> DEFINE t == Append(s, e)
  <2>1. t \in Seq(E) /\ Len(t) = Len(s) + 1 /\ Len(s) \in Nat
    BY AppendHas
  <2>2. Chosen(t, P) = IF Len(s) + 1 \in P THEN Append(Chosen(s, P), e) ELSE Chosen(s, P)
    BY ChosenAppend
  <2>3. t = Append(s, e)
    OBVIOUS
  <2> HIDE DEF t
  <2>4. ASSUME \A n \in 1..Len(t) : n \in P PROVE Chosen(t, P) = t
    <3>1. Len(s) + 1 \in 1..Len(t) /\ \A n \in 1..Len(s) : n \in 1..Len(t)
      BY <2>1
    <3> QED BY <1>2, <2>2, <2>3, <2>4, <3>1
  <2>5. t \in S
    BY <2>1, <2>4
  <2> QED BY <2>5 DEF t
<1>3. Seq(E) \subseteq S
  <2> HIDE DEF S
  <2> QED BY <1>1, <1>2, InductionOnSequences
<1> QED BY <1>3

\* What is chosen from two places that do not mix is chosen one after the other.
LEMMA ChosenInTwo ==
  ASSUME NEW E, NEW whole \in Seq(E), NEW P, NEW Q
  PROVE  (\A i, j \in 1..Len(whole) : i \in P /\ j \in Q => i < j)
           => Chosen(whole, P \cup Q) = Chosen(whole, P) \o Chosen(whole, Q)
<1> DEFINE R == P \cup Q
<1>0. \A n \in 1..Len(whole) : n \in R <=> n \in P \/ n \in Q
  OBVIOUS
<1> HIDE DEF R
<1> DEFINE H(s) == /\ \A n \in 1..Len(s) : n \in R <=> n \in P \/ n \in Q
                   /\ \A i, j \in 1..Len(s) : i \in P /\ j \in Q => i < j
           C(s) == Chosen(s, R) = Chosen(s, P) \o Chosen(s, Q)
           S == {s \in Seq(E) : H(s) => C(s)}
<1>1. <<>> \in S
  <2>1. <<>> \in Seq(E) /\ <<>> \o <<>> = <<>>
    BY EmptySeq, ConcatEmptySeq
  <2> QED BY <2>1, ChosenEmpty
<1>2. ASSUME NEW s \in Seq(E), NEW e \in E, s \in S PROVE Append(s, e) \in S
  <2> DEFINE t == Append(s, e)
             N == Len(s) + 1
  <2>1. t \in Seq(E) /\ Len(t) = N /\ Len(s) \in Nat
    BY AppendHas
  <2>2. /\ Chosen(t, P) = IF N \in P THEN Append(Chosen(s, P), e) ELSE Chosen(s, P)
        /\ Chosen(t, Q) = IF N \in Q THEN Append(Chosen(s, Q), e) ELSE Chosen(s, Q)
        /\ Chosen(t, R) = IF N \in R THEN Append(Chosen(s, R), e) ELSE Chosen(s, R)
    BY ChosenAppend
  <2>3. Chosen(s, P) \in Seq(E) /\ Chosen(s, Q) \in Seq(E)
    BY ChosenTyped
  <2> HIDE DEF t
  <2>4. ASSUME H(t) PROVE C(t)
    <3>1. N \in 1..Len(t) /\ \A n \in 1..Len(s) : n \in 1..Len(t) /\ ~(N < n)
      BY <2>1
    <3>2. H(s)
      BY <2>4, <3>1
    <3>3. C(s)
      BY <1>2, <3>2
    <3>4. (N \in R <=> N \in P \/ N \in Q) /\ (\A j \in 1..Len(s) : N \in P => j \notin Q) /\ ~(N \in P /\ N \in Q)
      BY <2>1, <2>4, <3>1
    <3>5. CASE N \in Q
      <4> DEFINE x == Chosen(s, P)
                 y == Chosen(s, Q)
      <4>2. x \in Seq(E) /\ y \in Seq(E)
        BY <2>3
      <4> HIDE DEF x, y
      <4>3. x \o Append(y, e) = Append(x \o y, e)
        BY <4>2, AppendJoined
      <4>1. Append(Chosen(s, P) \o Chosen(s, Q), e) = Chosen(s, P) \o Append(Chosen(s, Q), e)
        BY <4>3 DEF x, y
      <4> QED BY <2>2, <3>3, <3>4, <3>5, <4>1
    <3>6. CASE N \in P
      <4>1. Chosen(s, Q) = <<>>
        BY <3>4, <3>6, ChosenNone
      <4>2. Chosen(s, P) \o <<>> = Chosen(s, P) /\ Append(Chosen(s, P), e) \o <<>> = Append(Chosen(s, P), e)
        <5>1. Append(Chosen(s, P), e) \in Seq(E)
          BY <2>3, AppendHas
        <5> QED BY <2>3, <5>1, ConcatEmptySeq
      <4> QED BY <2>2, <3>3, <3>4, <3>6, <4>1, <4>2
    <3>7. CASE N \notin P /\ N \notin Q
      BY <2>2, <3>3, <3>4, <3>7
    <3> QED BY <3>5, <3>6, <3>7
  <2>5. t \in S
    BY <2>1, <2>4
  <2> QED BY <2>5 DEF t
<1>3. Seq(E) \subseteq S
  <2> HIDE DEF S
  <2> QED BY <1>1, <1>2, InductionOnSequences
<1>4. whole \in S
  BY <1>3
<1> QED BY <1>0, <1>4 DEF R

\* What is chosen comes from the places chosen, in their order.
LEMMA ChosenFrom ==
  ASSUME NEW E, NEW P
  PROVE  \A s \in Seq(E) : \E p \in [1..Len(Chosen(s, P)) -> 1..Len(s)] :
           /\ \A i \in 1..Len(Chosen(s, P)) : p[i] \in P /\ Chosen(s, P)[i] = s[p[i]]
           /\ \A i \in 1..Len(Chosen(s, P)) : i > 1 => p[i - 1] < p[i]
<1> DEFINE G(s, p) == /\ \A i \in 1..Len(Chosen(s, P)) : p[i] \in P /\ Chosen(s, P)[i] = s[p[i]]
                      /\ \A i \in 1..Len(Chosen(s, P)) : i > 1 => p[i - 1] < p[i]
           S == {s \in Seq(E) : \E p \in [1..Len(Chosen(s, P)) -> 1..Len(s)] : G(s, p)}
<1>1. <<>> \in S
  <2>1. <<>> \in Seq(E) /\ Chosen(<<>>, P) = <<>> /\ Len(<<>>) = 0
    BY EmptySeq, ChosenEmpty
  <2>2. [i \in 1..0 |-> i] \in [1..Len(Chosen(<<>>, P)) -> 1..Len(<<>>)] /\ 1..Len(Chosen(<<>>, P)) = {}
    BY <2>1
  <2>3. G(<<>>, [i \in 1..0 |-> i])
    BY <2>2
  <2> HIDE DEF G
  <2> QED BY <2>1, <2>2, <2>3
<1>2. ASSUME NEW s \in Seq(E), NEW e \in E, s \in S PROVE Append(s, e) \in S
  <2> DEFINE t == Append(s, e)
             N == Len(s) + 1
             c == Chosen(s, P)
             d == Chosen(t, P)
  <2>1. t \in Seq(E) /\ Len(t) = N /\ Len(s) \in Nat /\ t[N] = e /\ \A n \in 1..Len(s) : t[n] = s[n]
    BY AppendHas
  <2>2. d = IF N \in P THEN Append(c, e) ELSE c
    BY ChosenAppend
  <2>3. c \in Seq(E) /\ Len(c) \in Nat
    BY ChosenTyped, LenProperties
  <2>4. PICK p \in [1..Len(c) -> 1..Len(s)] : G(s, p)
    BY <1>2
  <2>5. /\ \A i \in 1..Len(c) : p[i] \in P /\ c[i] = s[p[i]] /\ p[i] \in 1..Len(s)
        /\ \A i \in 1..Len(c) : i > 1 => p[i - 1] < p[i]
    BY <2>4
  <2>6. \A q : G(t, q) <=> /\ \A i \in 1..Len(d) : q[i] \in P /\ d[i] = t[q[i]]
                           /\ \A i \in 1..Len(d) : i > 1 => q[i - 1] < q[i]
    OBVIOUS
  <2>7. t \in S <=> \E q \in [1..Len(d) -> 1..Len(t)] : G(t, q)
    BY <2>1
  <2> HIDE DEF t, c, d, G, S
  <2>8. CASE N \in P
    <3> DEFINE q == [i \in 1..Len(c) + 1 |-> IF i = Len(c) + 1 THEN N ELSE p[i]]
    <3>1. d \in Seq(E) /\ Len(d) = Len(c) + 1 /\ d[Len(c) + 1] = e /\ \A i \in 1..Len(c) : d[i] = c[i]
      BY <2>2, <2>3, <2>8, AppendHas
    <3>2. q \in [1..Len(d) -> 1..Len(t)]
      BY <2>1, <2>3, <2>5, <3>1
    <3>3. ASSUME NEW i \in 1..Len(d) PROVE q[i] \in P /\ d[i] = t[q[i]] /\ (i > 1 => q[i - 1] < q[i])
      <4>1. CASE i = Len(c) + 1
        <5>1. q[i] = N /\ d[i] = e
          BY <2>3, <3>1, <4>1
        <5>2. i > 1 => i - 1 \in 1..Len(c) /\ q[i - 1] = p[i - 1]
          BY <2>3, <4>1
        <5>3. i > 1 => p[i - 1] \in 1..Len(s)
          BY <2>5, <5>2
        <5> HIDE DEF q
        <5> QED BY <2>1, <2>8, <5>1, <5>2, <5>3
      <4>2. CASE i # Len(c) + 1
        <5>1. i \in 1..Len(c) /\ q[i] = p[i] /\ (i > 1 => i - 1 \in 1..Len(c) /\ q[i - 1] = p[i - 1])
          BY <2>3, <3>1, <4>2
        <5> HIDE DEF q
        <5> QED BY <2>1, <2>5, <3>1, <5>1, SMTT(30)
      <4> QED BY <4>1, <4>2
    <3> HIDE DEF q
    <3>4. G(t, q)
      BY <2>6, <3>3
    <3> QED BY <2>7, <3>2, <3>4 DEF t
  <2>9. CASE N \notin P
    <3>1. d = c
      BY <2>2, <2>9
    <3>2. p \in [1..Len(d) -> 1..Len(t)]
      BY <2>1, <2>5, <3>1
    <3>3. G(t, p)
      BY <2>1, <2>5, <2>6, <3>1
    <3> QED BY <2>7, <3>2, <3>3 DEF t
  <2> QED BY <2>8, <2>9
<1>3. Seq(E) \subseteq S
  <2> HIDE DEF S
  <2> QED BY <1>1, <1>2, InductionOnSequences
<1> QED BY <1>3

\* A sequence whose places come in classes, one after the other, is what is chosen of each.
LEMMA InClasses ==
  ASSUME NEW E, NEW s \in Seq(E), NEW K \in Nat, NEW f \in [1..Len(s) -> 1..K],
         \A i, j \in 1..Len(s) : i <= j => f[i] <= f[j], NEW k \in 1..K
  PROVE  /\ Chosen(s, {n \in DOMAIN s : f[n] <= k})
              = Chosen(s, {n \in DOMAIN s : f[n] <= k - 1}) \o Chosen(s, {n \in DOMAIN s : f[n] = k})
         /\ Chosen(s, {n \in DOMAIN s : f[n] <= 0}) = <<>>
         /\ Chosen(s, {n \in DOMAIN s : f[n] <= K}) = s
<1> DEFINE P == {n \in DOMAIN s : f[n] <= k - 1}
           Q == {n \in DOMAIN s : f[n] = k}
           R == {n \in DOMAIN s : f[n] <= k}
<1>1. DOMAIN s = 1..Len(s) /\ Len(s) \in Nat /\ \A n \in 1..Len(s) : f[n] \in 1..K
  BY LenProperties
<1>3. \A i, j \in 1..Len(s) : i \in P /\ j \in Q => i < j
  <2> SUFFICES ASSUME NEW i \in 1..Len(s), NEW j \in 1..Len(s), i \in P, j \in Q PROVE i < j
    OBVIOUS
  <2>1. f[i] <= k - 1 /\ f[j] = k /\ f[i] \in 1..K
    BY <1>1
  <2>2. ~(j <= i)
    BY <2>1
  <2> QED BY <1>1, <2>2
<1>4. \A n \in 1..Len(s) : n \notin {i \in DOMAIN s : f[i] <= 0} /\ n \in {i \in DOMAIN s : f[i] <= K}
  BY <1>1
<1> HIDE DEF P, Q, R
<1>5. Chosen(s, R) = Chosen(s, P) \o Chosen(s, Q)
  <2>1. R = P \cup Q
    BY <1>1 DEF P, Q, R
  <2>2. Chosen(s, P \cup Q) = Chosen(s, P) \o Chosen(s, Q)
    BY <1>3, ChosenInTwo
  <2> QED BY <2>1, <2>2
<1>6. Chosen(s, {n \in DOMAIN s : f[n] <= 0}) = <<>>
  BY <1>4, ChosenNone
<1>7. Chosen(s, {n \in DOMAIN s : f[n] <= K}) = s
  BY <1>4, ChosenAll
<1> QED BY <1>5, <1>6, <1>7 DEF P, Q, R

-----------------------------------------------------------------------------
(* Segments                                                                  *)

LEMMA EndsSorted ==
  ASSUME NEW s \in Texts, NEW ends \in Cuts(s)
  PROVE  LET e == SortedEnds(s, ends)
         IN /\ e \in Seq(1..Len(s)) /\ Len(e) \in Nat /\ Len(e) > 0 /\ e[Len(e)] = Len(s)
            /\ \A k \in 1..Len(e) : e[k] \in Ink(s) /\ (k > 1 => e[k - 1] < e[k])
<1> DEFINE t == [i \in DOMAIN s |-> i]
           e == Chosen(t, ends)
           N == Len(s)
<1>1. DOMAIN s = 1..N /\ N \in Nat /\ Ink(s) \in SUBSET (1..N) /\ ends \in SUBSET Ink(s) /\ N \in ends
  BY InkIs, LenProperties DEF Cuts, Texts
<1>2. t \in [1..N -> 1..N] /\ \A i \in 1..N : t[i] = i
  BY <1>1
<1>3. SortedEnds(s, ends) = e
  BY DEF SortedEnds
<1> HIDE DEF t
<1>4. t \in Seq(1..N) /\ Len(t) = N
  BY <1>1, <1>2, FunctionIsSeq
<1>5. e \in Seq(1..N) /\ Len(e) \in Nat
  BY <1>4, ChosenTyped, LenProperties
<1>6. N \in 1..N
  BY <1>1
<1>7. /\ t = Append(SubSeq(t, 1, N - 1), N) /\ SubSeq(t, 1, N - 1) \in Seq(1..N) /\ Len(SubSeq(t, 1, N - 1)) = N - 1
  <2>1. SubSeq(t, 1, N) = t /\ t[N] = N
    BY <1>2, <1>4, <1>6, SubSeqFull
  <2> QED BY <1>4, <1>6, <2>1, BeginningGrows, SMTT(30)
<1> DEFINE u == SubSeq(t, 1, N - 1)
           d == Chosen(u, ends)
<1>8. e = Append(d, N)
  <2> HIDE DEF u
  <2>1. u \in Seq(1..N) /\ Len(u) = N - 1 /\ t = Append(u, N)
    BY <1>7 DEF u
  <2>2. Len(u) + 1 \in ends
    BY <1>1, <2>1
  <2>3. Chosen(Append(u, N), ends) = IF Len(u) + 1 \in ends THEN Append(Chosen(u, ends), N) ELSE Chosen(u, ends)
    BY <1>6, <2>1, ChosenAppend
  <2> QED BY <2>1, <2>2, <2>3
<1>9. d \in Seq(1..N)
  <2> HIDE DEF u
  <2> QED BY <1>7, ChosenTyped DEF u
<1> HIDE DEF d
<1>10. Len(e) > 0 /\ e[Len(e)] = N
  <2>1. Len(Append(d, N)) = Len(d) + 1 /\ Len(d) \in Nat /\ Append(d, N)[Len(d) + 1] = N
    BY <1>6, <1>9, AppendHas
  <2> QED BY <1>8, <2>1
<1>11. PICK p \in [1..Len(e) -> 1..N] :
         /\ \A i \in 1..Len(e) : p[i] \in ends /\ e[i] = t[p[i]]
         /\ \A i \in 1..Len(e) : i > 1 => p[i - 1] < p[i]
  <2>1. \E p \in [1..Len(Chosen(t, ends)) -> 1..Len(t)] :
         /\ \A i \in 1..Len(Chosen(t, ends)) : p[i] \in ends /\ Chosen(t, ends)[i] = t[p[i]]
         /\ \A i \in 1..Len(Chosen(t, ends)) : i > 1 => p[i - 1] < p[i]
    BY <1>4, ChosenFrom
  <2> QED BY <1>4, <2>1
<1> HIDE DEF e
<1>12. \A i \in 1..Len(e) : e[i] = p[i] /\ p[i] \in ends
  BY <1>2, <1>11
<1>13. ASSUME NEW k \in 1..Len(e) PROVE e[k] \in Ink(s) /\ (k > 1 => e[k - 1] < e[k])
  <2>1. k > 1 => k - 1 \in 1..Len(e)
    BY <1>5
  <2> QED BY <1>1, <1>11, <1>12, <2>1
<1> QED BY <1>3, <1>5, <1>10, <1>13

\* Where the segments before one end.
EndOf(segments, k) == IF k = 0 THEN 0 ELSE segments[k].to

Segmented(segs, s) ==
  /\ DOMAIN segs = 1..Len(segs) /\ Len(segs) \in Nat /\ Len(segs) > 0 /\ Len(s) \in Nat
  /\ EndOf(segs, 0) = 0 /\ EndOf(segs, Len(segs)) = Len(s) /\ Last(segs).to = Len(s)
  /\ \A k \in 1..Len(segs) :
       /\ segs[k].from \in Nat /\ segs[k].to \in Nat /\ EndOf(segs, k) = segs[k].to
       /\ EndOf(segs, k - 1) \in Nat /\ EndOf(segs, k - 1) < segs[k].from
       /\ segs[k].from <= segs[k].to /\ segs[k].to <= Len(s)
       /\ s[segs[k].from] # " " /\ s[segs[k].to] # " "
       /\ \A i \in 1..Len(s) : EndOf(segs, k - 1) < i /\ i < segs[k].from => s[i] = " "

LEMMA SegmentsAre ==
  ASSUME NEW s \in Texts, NEW ends \in Cuts(s)
  PROVE  Segmented(Segments(s, ends), s)
<1> DEFINE e == SortedEnds(s, ends)
           segs == Segments(s, ends)
           N == Len(e)
           from(k) == After(s, IF k = 1 THEN 0 ELSE e[k - 1])
<1>1. /\ e \in Seq(1..Len(s)) /\ N \in Nat /\ N > 0 /\ e[N] = Len(s)
      /\ \A k \in 1..N : e[k] \in Ink(s) /\ (k > 1 => e[k - 1] < e[k])
  BY EndsSorted
<1>2. /\ \A i \in Ink(s) : i \in 1..Len(s) /\ i \in Nat /\ i > 0 /\ i <= Len(s) /\ s[i] # " "
      /\ \A i \in 1..Len(s) : s[i] # " " => i \in Ink(s)
      /\ Len(s) \in Nat /\ Ink(s) \in SUBSET (1..Len(s))
  BY InkIs
<1>3. DOMAIN e = 1..N
  BY <1>1, LenProperties
<1>4. segs = [k \in 1..N |-> [from |-> from(k), to |-> e[k]]]
  BY <1>3 DEF Segments
<1> HIDE DEF e
<1>5. segs \in Seq([from : {from(k) : k \in 1..N}, to : 1..Len(s)]) /\ Len(segs) = N
  <2>1. \A k \in 1..N : e[k] \in 1..Len(s)
    BY <1>1, <1>2
  <2>2. segs \in [1..N -> [from : {from(k) : k \in 1..N}, to : 1..Len(s)]]
    <3> HIDE DEF from, segs
    <3> QED BY <1>4, <2>1
  <2> HIDE DEF segs, from
  <2> QED BY <1>1, <2>2, FunctionIsSeq
<1>6. \A k \in 1..N : segs[k].from = from(k) /\ segs[k].to = e[k]
  <2> HIDE DEF from, segs
  <2> QED BY <1>4
<1> HIDE DEF segs
<1>7. ASSUME NEW k \in 1..N
      PROVE /\ EndOf(segs, k - 1) = IF k = 1 THEN 0 ELSE e[k - 1]
            /\ EndOf(segs, k - 1) \in Nat /\ EndOf(segs, k - 1) < e[k]
            /\ EndOf(segs, k) = e[k]
  <2>1. k - 1 = 0 \/ k - 1 \in 1..N
    BY <1>1
  <2>2. e[k] \in Nat /\ e[k] > 0 /\ k # 0
    <3>1. e[k] \in Ink(s)
      BY <1>1
    <3>2. k # 0
      BY <1>1
    <3> QED BY <1>2, <3>1, <3>2
  <2>5. k > 1 => e[k - 1] < e[k]
    BY <1>1
  <2>3. CASE k - 1 = 0
    BY <1>6, <2>2, <2>3 DEF EndOf
  <2>4. CASE k - 1 \in 1..N
    <3>1. k # 1 /\ k > 1 /\ k - 1 # 0
      BY <1>1, <2>4
    <3>2. e[k - 1] \in Nat
      BY <1>1, <1>2, <2>4
    <3>3. EndOf(segs, k - 1) = e[k - 1]
      BY <1>6, <2>4, <3>1 DEF EndOf
    <3> QED BY <1>6, <2>2, <2>5, <3>1, <3>2, <3>3 DEF EndOf
  <2> QED BY <2>1, <2>3, <2>4
<1>8. ASSUME NEW k \in 1..N
      PROVE /\ from(k) \in Ink(s) /\ EndOf(segs, k - 1) < from(k) /\ from(k) <= e[k]
            /\ \A i \in Ink(s) : EndOf(segs, k - 1) < i => from(k) <= i
  <2> DEFINE b == EndOf(segs, k - 1)
             P == {i \in Ink(s) : i > b}
  <2>1. b \in Nat /\ b < e[k] /\ e[k] \in Ink(s) /\ from(k) = After(s, b)
    BY <1>1, <1>7
  <2> HIDE DEF b
  <2>2. P \in SUBSET (1..Len(s)) /\ P # {} /\ e[k] \in P
    BY <1>2, <2>1
  <2>3. \E i \in P : \A j \in P : i <= j
    <3> HIDE DEF P
    <3> QED BY <1>2, <2>2, Smallest
  <2>4. \E i \in Ink(s) : i > b /\ \A j \in Ink(s) : j > b => i <= j
    BY <2>3
  <2>5. /\ After(s, b) \in Ink(s) /\ After(s, b) > b
        /\ \A j \in Ink(s) : j > b => After(s, b) <= j
    BY <2>4 DEF After
  <2> HIDE DEF from
  <2>6. \A i \in Ink(s) : i \in Nat
    BY <1>2
  <2>7. e[k] > b
    BY <2>1, <2>6
  <2> DEFINE a == from(k)
  <2>8. a \in Ink(s) /\ a > b /\ \A j \in Ink(s) : j > b => a <= j
    BY <2>1, <2>5
  <2> HIDE DEF a
  <2>9. a \in Ink(s) /\ b < a /\ a <= e[k] /\ \A i \in Ink(s) : b < i => a <= i
    <3>1. a \in Nat /\ b \in Nat
      BY <2>1, <2>6, <2>8
    <3>2. b < a
      BY <2>8, <3>1
    <3>3. \A i \in Ink(s) : b < i => a <= i
      BY <2>1, <2>6, <2>8
    <3> QED BY <2>1, <2>7, <2>8, <3>2, <3>3
  <2> QED BY <2>9 DEF a, b
<1>9. ASSUME NEW k \in 1..N
      PROVE /\ segs[k].from \in Nat /\ segs[k].to \in Nat /\ EndOf(segs, k) = segs[k].to
            /\ EndOf(segs, k - 1) \in Nat /\ EndOf(segs, k - 1) < segs[k].from
            /\ segs[k].from <= segs[k].to /\ segs[k].to <= Len(s)
            /\ s[segs[k].from] # " " /\ s[segs[k].to] # " "
            /\ \A i \in 1..Len(s) : EndOf(segs, k - 1) < i /\ i < segs[k].from => s[i] = " "
  <2> DEFINE a == from(k)
             b == EndOf(segs, k - 1)
             z == e[k]
  <2>1. a \in Ink(s) /\ b < a /\ a <= z /\ \A i \in Ink(s) : b < i => a <= i
    BY <1>8
  <2>2. segs[k].from = a /\ segs[k].to = z /\ EndOf(segs, k) = z /\ b \in Nat
    BY <1>6, <1>7
  <2>3. z \in Ink(s)
    BY <1>1
  <2> HIDE DEF a, b, z, from
  <2>0. a \in Nat
    BY <1>2, <2>1
  <2>6. \A i \in Nat : i < a => ~(a <= i)
    BY <2>0
  <2>4. z \in Nat /\ z <= Len(s) /\ s[a] # " " /\ s[z] # " "
    BY <1>2, <2>1, <2>3
  <2>5. \A i \in 1..Len(s) : b < i /\ i < a => s[i] = " "
    <3> SUFFICES ASSUME NEW i \in 1..Len(s), b < i, i < a, s[i] # " " PROVE FALSE
      OBVIOUS
    <3>1. i \in Ink(s) /\ i \in Nat
      BY <1>2
    <3>2. a <= i
      BY <2>1, <3>1
    <3> QED BY <2>6, <3>1, <3>2
  <2> QED BY <2>0, <2>1, <2>2, <2>4, <2>5 DEF b
<1>10. N \in 1..N
  BY <1>1
<1>11. EndOf(segs, N) = Len(s) /\ Last(segs).to = Len(s) /\ EndOf(segs, 0) = 0
  <2>1. EndOf(segs, N) = e[N]
    BY <1>7, <1>10
  <2>2. segs[N].to = e[N]
    BY <1>6, <1>10
  <2>3. Last(segs) = segs[N]
    BY <1>5 DEF Last
  <2> QED BY <1>1, <2>1, <2>2, <2>3 DEF EndOf
<1>12. DOMAIN segs = 1..Len(segs) /\ Len(segs) = N
  BY <1>5, LenProperties
<1> QED BY <1>1, <1>2, <1>9, <1>11, <1>12 DEF segs, Segmented

-----------------------------------------------------------------------------
(* Pieces                                                                    *)

LEMMA TakerIs ==
  ASSUME NEW s, NEW segs, Segmented(segs, s), NEW o \in 0..Len(s)
  PROVE  /\ Taker(segs, o) \in 1..Len(segs) /\ EndOf(segs, Taker(segs, o) - 1) <= o
         /\ o <= segs[Taker(segs, o)].to /\ \A j \in 1..Taker(segs, o) - 1 : segs[j].to < o
<1> DEFINE N == Len(segs)
           P == {k \in 1..N : o <= segs[k].to}
           k == Taker(segs, o)
<1>1. N \in Nat /\ N \in 1..N /\ Len(s) \in Nat /\ DOMAIN segs = 1..N /\ Last(segs).to = Len(s)
  <2>1. N \in Nat /\ N > 0 /\ Len(s) \in Nat /\ DOMAIN segs = 1..N /\ Last(segs).to = Len(s)
    BY DEF Segmented
  <2> HIDE DEF N
  <2>2. N \in 1..N
    BY <2>1
  <2> QED BY <2>1, <2>2
<1>2. segs[N].to = Len(s) /\ \A j \in 1..N : segs[j].to \in Nat /\ EndOf(segs, j) = segs[j].to
  <2>1. EndOf(segs, N) = segs[N].to /\ EndOf(segs, N) = Len(s)
    BY <1>1 DEF Segmented
  <2> QED BY <2>1 DEF Segmented
<1>3. o \in Nat /\ o <= Len(s)
  BY <1>1
<1>4. P \in SUBSET (1..N) /\ P # {}
  BY <1>1, <1>2, <1>3
<1>5. \E i \in P : \A j \in P : i <= j
  <2> HIDE DEF P
  <2> QED BY <1>1, <1>4, Smallest
<1>6. \E i \in 1..N : o <= segs[i].to /\ \A j \in 1..i - 1 : segs[j].to < o
  <2>1. PICK i \in P : \A j \in P : i <= j
    BY <1>5
  <2>2. i \in 1..N /\ i \in Nat /\ o <= segs[i].to
    BY <1>1
  <2>3. ASSUME NEW j \in 1..i - 1 PROVE segs[j].to < o
    <3>1. j \in 1..N /\ ~(i <= j)
      BY <1>1, <2>2
    <3>2. j \notin P
      BY <2>1, <3>1
    <3>3. ~(o <= segs[j].to)
      BY <3>1, <3>2
    <3> QED BY <1>2, <1>3, <3>1, <3>3
  <2> QED BY <2>2, <2>3
<1>7. ~(o > Last(segs).to)
  BY <1>1, <1>3
<1>8. k = CHOOSE i \in 1..N : o <= segs[i].to /\ \A j \in 1..i - 1 : segs[j].to < o
  BY <1>1, <1>7 DEF Taker
<1> HIDE DEF k
<1>9. k \in 1..N /\ o <= segs[k].to /\ \A j \in 1..k - 1 : segs[j].to < o
  BY <1>6, <1>8
<1>10. EndOf(segs, k - 1) <= o
  <2>1. CASE k = 1
    <3>2. k - 1 = 0
      BY <2>1
    <3>1. EndOf(segs, k - 1) = 0
      BY <3>2 DEF EndOf
    <3> QED BY <1>3, <3>1
  <2>2. CASE k # 1
    <3>1. k - 1 \in 1..k - 1 /\ k - 1 \in 1..N
      BY <1>1, <1>9, <2>2
    <3>2. EndOf(segs, k - 1) = segs[k - 1].to /\ segs[k - 1].to < o /\ segs[k - 1].to \in Nat
      BY <1>2, <1>9, <3>1
    <3> QED BY <1>3, <3>2
  <2> QED BY <2>1, <2>2
<1> QED BY <1>9, <1>10 DEF k

\* Marks that are in order one after the other are in order.
LEMMA MarksSorted ==
  ASSUME NEW m \in Marks, \A n \in 1..Len(m) : n > 1 => m[n - 1][2] <= m[n][2]
  PROVE  \A i, j \in 1..Len(m) : i <= j => m[i][2] <= m[j][2]
<1> DEFINE N == Len(m)
<1>1. N \in Nat
  BY LenProperties DEF Marks
<1>2. \A n \in 1..N : m[n][2] \in Nat /\ (n > 1 => m[n - 1][2] <= m[n][2])
  BY MarkIs
<1>6. \A i \in 1..N, d \in Nat : i + d <= N => m[i][2] <= m[i + d][2]
  <2> SUFFICES ASSUME NEW i \in 1..N PROVE \A d \in Nat : i + d <= N => m[i][2] <= m[i + d][2]
    OBVIOUS
  <2> DEFINE S == {d \in Nat : i + d <= N => m[i][2] <= m[i + d][2]}
  <2>1. 0 \in S
    <3>1. i + 0 = i /\ m[i][2] \in Nat
      BY <1>1, <1>2
    <3> QED BY <3>1
  <2>2. ASSUME NEW d \in Nat, d \in S PROVE d + 1 \in S
    <3> SUFFICES ASSUME i + (d + 1) <= N PROVE m[i][2] <= m[i + (d + 1)][2]
      OBVIOUS
    <3>1. i + d \in 1..N /\ i + (d + 1) \in 1..N /\ i + (d + 1) > 1 /\ (i + (d + 1)) - 1 = i + d /\ i + d <= N
      BY <1>1
    <3>2. m[i][2] <= m[i + d][2]
      BY <2>2, <3>1
    <3>3. m[i + d][2] <= m[i + (d + 1)][2] /\ m[i][2] \in Nat /\ m[i + d][2] \in Nat /\ m[i + (d + 1)][2] \in Nat
      BY <1>2, <3>1
    <3> QED BY <3>2, <3>3
  <2>3. Nat \subseteq S
    <3> HIDE DEF S
    <3> QED BY <2>1, <2>2, InductionOnSet
  <2> QED BY <2>3
<1>7. ASSUME NEW i \in 1..N, NEW j \in 1..N, i <= j PROVE m[i][2] <= m[j][2]
  <2>1. j - i \in Nat /\ i + (j - i) = j /\ j <= N
    BY <1>1, <1>7
  <2> QED BY <1>6, <2>1
<1> QED BY <1>7

\* The segments that take the marks of a text.
Takers(segs, m) == [n \in 1..Len(m) |-> Taker(segs, m[n][2])]

LEMMA TakersGrow ==
  ASSUME NEW s, NEW segs, Segmented(segs, s), NEW m \in Marks, InText(m, s)
  PROVE  /\ Takers(segs, m) \in [1..Len(m) -> 1..Len(segs)]
         /\ \A i, j \in 1..Len(m) : i <= j => m[i][2] <= m[j][2] /\ Takers(segs, m)[i] <= Takers(segs, m)[j]
<1> DEFINE f == Takers(segs, m)
           N == Len(m)
<1>1. N \in Nat /\ DOMAIN m = 1..N /\ Len(s) \in Nat /\ Len(segs) \in Nat
  BY LenProperties DEF Marks, Segmented
<1>2. \A n \in 1..N : m[n][2] \in Nat /\ m[n][2] <= Len(s) /\ (n > 1 => m[n - 1][2] <= m[n][2])
  BY <1>1, MarkIs DEF InText
<1>3. \A n \in 1..N : m[n][2] \in 0..Len(s)
  BY <1>1, <1>2
<1>4. \A n \in 1..N : /\ f[n] \in 1..Len(segs) /\ m[n][2] <= segs[f[n]].to
                      /\ \A l \in 1..f[n] - 1 : segs[l].to < m[n][2]
  <2> SUFFICES ASSUME NEW n \in 1..N
               PROVE /\ f[n] \in 1..Len(segs) /\ m[n][2] <= segs[f[n]].to
                     /\ \A l \in 1..f[n] - 1 : segs[l].to < m[n][2]
    OBVIOUS
  <2>1. f[n] = Taker(segs, m[n][2])
    BY DEF Takers
  <2>2. m[n][2] \in 0..Len(s)
    BY <1>3
  <2> QED BY <2>1, <2>2, TakerIs
<1>5. f \in [1..N -> 1..Len(segs)]
  BY <1>4 DEF Takers
<1> HIDE DEF f
<1>7. ASSUME NEW i \in 1..N, NEW j \in 1..N, i <= j PROVE m[i][2] <= m[j][2] /\ f[i] <= f[j]
  <2>2. m[i][2] <= m[j][2]
    <3>1. \A n \in 1..Len(m) : n > 1 => m[n - 1][2] <= m[n][2]
      BY <1>2
    <3>2. \A g, h \in 1..Len(m) : g <= h => m[g][2] <= m[h][2]
      BY <3>1, MarksSorted
    <3> QED BY <1>7, <3>2
  <2>3. ASSUME f[j] < f[i] PROVE FALSE
    <3>1. f[j] \in 1..f[i] - 1 /\ f[j] \in 1..Len(segs)
      BY <1>1, <1>4, <2>3
    <3>2. segs[f[j]].to < m[i][2] /\ m[j][2] <= segs[f[j]].to /\ segs[f[j]].to \in Nat
      BY <1>4, <3>1 DEF Segmented
    <3>3. m[i][2] \in Nat /\ m[j][2] \in Nat
      BY <1>2
    <3> QED BY <2>2, <3>2, <3>3
  <2>4. f[i] \in Nat /\ f[j] \in Nat
    BY <1>1, <1>4
  <2> QED BY <2>2, <2>3, <2>4
<1> QED BY <1>5, <1>7 DEF f

LEMMA OwnIs ==
  ASSUME NEW s, NEW segs, Segmented(segs, s), NEW m \in Marks, InText(m, s), NEW k \in 1..Len(segs)
  PROVE  LET own == Own(segs, m, k)
         IN /\ own = Chosen(m, {n \in DOMAIN m : Takers(segs, m)[n] = k})
            /\ own \in Marks
            /\ \A i \in 1..Len(own) :
                 /\ EndOf(segs, k - 1) <= own[i][2] /\ own[i][2] <= segs[k].to
                 /\ i > 1 => own[i - 1][2] <= own[i][2]
<1> DEFINE own == Own(segs, m, k)
           f == Takers(segs, m)
           P == {n \in DOMAIN m : f[n] = k}
<1>1. DOMAIN m = 1..Len(m) /\ Len(m) \in Nat
  BY LenProperties DEF Marks
<1>2. P = {n \in DOMAIN m : Taker(segs, m[n][2]) = k}
  BY <1>1 DEF Takers
<1>3. own = Chosen(m, P)
  BY <1>2 DEF Own
<1>4. \A n \in P : n \in 1..Len(m) /\ Taker(segs, m[n][2]) = k
  BY <1>1, <1>2
<1> HIDE DEF P, f, own
<1>5. own \in Marks
  BY <1>3, ChosenTyped DEF Marks
<1>6. PICK p \in [1..Len(own) -> 1..Len(m)] :
         /\ \A i \in 1..Len(own) : p[i] \in P /\ own[i] = m[p[i]]
         /\ \A i \in 1..Len(own) : i > 1 => p[i - 1] < p[i]
  <2>1. \E p \in [1..Len(Chosen(m, P)) -> 1..Len(m)] :
         /\ \A i \in 1..Len(Chosen(m, P)) : p[i] \in P /\ Chosen(m, P)[i] = m[p[i]]
         /\ \A i \in 1..Len(Chosen(m, P)) : i > 1 => p[i - 1] < p[i]
    BY ChosenFrom DEF Marks
  <2> QED BY <1>3, <2>1
<1>7. Len(own) \in Nat /\ \A i \in 1..Len(own) : p[i] \in 1..Len(m)
  BY <1>5, <1>6, LenProperties DEF Marks
<1>8. \A i, j \in 1..Len(m) : i <= j => m[i][2] <= m[j][2]
  BY TakersGrow
<1>9. ASSUME NEW i \in 1..Len(own)
      PROVE /\ EndOf(segs, k - 1) <= own[i][2] /\ own[i][2] <= segs[k].to
            /\ i > 1 => own[i - 1][2] <= own[i][2]
  <2>1. own[i] = m[p[i]] /\ p[i] \in 1..Len(m) /\ Taker(segs, m[p[i]][2]) = k
    BY <1>4, <1>6
  <2>2. m[p[i]][2] \in 0..Len(s)
    <3>1. m[p[i]][2] \in Nat /\ m[p[i]][2] <= Len(s) /\ Len(s) \in Nat
      BY <1>1, <2>1, MarkIs DEF InText, Segmented
    <3> QED BY <3>1
  <2>3. EndOf(segs, k - 1) <= m[p[i]][2] /\ m[p[i]][2] <= segs[k].to
    BY <2>1, <2>2, TakerIs
  <2>4. ASSUME i > 1 PROVE own[i - 1][2] <= own[i][2]
    <3>1. i - 1 \in 1..Len(own)
      BY <1>7, <2>4
    <3>2. own[i - 1] = m[p[i - 1]] /\ p[i - 1] \in 1..Len(m) /\ p[i - 1] < p[i]
      BY <1>6, <2>4, <3>1
    <3>3. p[i - 1] <= p[i]
      BY <1>1, <2>1, <3>2
    <3> QED BY <1>8, <2>1, <3>2, <3>3
  <2> QED BY <2>1, <2>3, <2>4
<1> QED BY <1>3, <1>5, <1>9 DEF own, P, f

\* A piece of a text, and what it says.
PieceType == [text : Texts, marks : Marks]
Fine(piece) ==
  /\ piece \in PieceType /\ piece.text # <<>> /\ Len(piece.text) \in Nat /\ Len(piece.text) > 0
  /\ piece.text[1] # " " /\ piece.text[Len(piece.text)] # " " /\ InText(piece.marks, piece.text)
PieceSays(piece, c) == Woven(piece.text, piece.marks, c)
Back(m, by) == [n \in DOMAIN m |-> <<m[n][1], m[n][2] - by>>]

LEMMA BackIs ==
  ASSUME NEW m \in Marks, NEW b \in Nat, \A n \in 1..Len(m) : b <= m[n][2]
  PROVE  /\ Back(m, b) \in Marks /\ Len(Back(m, b)) = Len(m) /\ Len(m) \in Nat /\ Moved(Back(m, b), b) = m
         /\ \A n \in 1..Len(m) : /\ m[n][2] \in Nat /\ Back(m, b)[n][1] = m[n][1]
                                 /\ Back(m, b)[n][2] = m[n][2] - b /\ Back(m, b)[n][2] \in Nat
<1> DEFINE p == Back(m, b)
<1>1. DOMAIN m = 1..Len(m) /\ Len(m) \in Nat
  BY LenProperties DEF Marks
<1>2. \A n \in 1..Len(m) : m[n][1] \in Nat /\ m[n][2] \in Nat /\ m[n][2] - b \in Nat
  BY MarkIs
<1>3. p \in [1..Len(m) -> MarkType]
  BY <1>1, <1>2 DEF Back, MarkType
<1>4. p \in Marks /\ Len(p) = Len(m)
  BY <1>1, <1>3, FunctionIsSeq DEF Marks
<1>5. \A n \in 1..Len(m) : p[n][1] = m[n][1] /\ p[n][2] = m[n][2] - b
  BY <1>1 DEF Back
<1> HIDE DEF p
<1>6. Moved(p, b) \in Marks /\ Len(Moved(p, b)) = Len(m)
  BY <1>4, MovedTyped
<1>7. ASSUME NEW n \in 1..Len(m) PROVE Moved(p, b)[n][1] = m[n][1] /\ Moved(p, b)[n][2] = m[n][2]
  <2>1. Moved(p, b)[n][1] = p[n][1] /\ Moved(p, b)[n][2] = b + p[n][2]
    BY <1>4, MovedTyped
  <2>2. b + (m[n][2] - b) = m[n][2]
    BY <1>2
  <2> QED BY <1>5, <2>1, <2>2
<1>8. Moved(p, b) = m
  BY <1>6, <1>7, MarksEqual
<1> QED BY <1>1, <1>2, <1>4, <1>5, <1>8 DEF p

AfterSpaces(s, b, a, z) ==
  s[a] # " " /\ s[z] # " " /\ \A i \in 1..Len(s) : b < i /\ i < a => s[i] = " "
Takes(own, b, z) ==
  \A i \in 1..Len(own) : b <= own[i][2] /\ own[i][2] <= z /\ (i > 1 => own[i - 1][2] <= own[i][2])

LEMMA SliceIs ==
  ASSUME NEW s \in Texts, NEW b \in Nat, NEW a \in Nat, NEW w \in Nat, NEW z \in Nat,
         w + 1 = a, b <= w, w < z, z <= Len(s), AfterSpaces(s, b, a, z), NEW own \in Marks, Takes(own, b, z)
  PROVE  LET slice == SubSeq(s, b + 1, z)
             piece == Piece(s, [from |-> a, to |-> z], own)
         IN /\ Fine(piece) /\ slice \in Texts /\ Len(slice) = z - b
            /\ Back(own, b) \in Marks /\ Fits(Back(own, b), slice) /\ Moved(Back(own, b), b) = own
            /\ \A c \in Commands : Woven(slice, Back(own, b), c) = PieceSays(piece, c)
<1> DEFINE slice == SubSeq(s, b + 1, z)
           piece == Piece(s, [from |-> a, to |-> z], own)
           o == Back(own, b)
<1>20. Len(s) \in Nat
  BY LenProperties DEF Texts
<1>1. b < a /\ a <= z /\ w = a - 1 /\ w <= z /\ b <= z /\ w <= Len(s) /\ z + 1 - a = z - w /\ z - w \in Nat /\ w - b \in Nat
  BY <1>20
<1>2. /\ piece.text = SubSeq(s, a, z) /\ piece.marks = [n \in DOMAIN own |-> <<own[n][1], Within(own[n][2], a - 1, z + 1 - a)>>]
      /\ piece = [text |-> piece.text, marks |-> piece.marks]
  BY DEF Piece
<1> HIDE DEF piece
<1>0. s[a] # " " /\ s[z] # " " /\ \A i \in 1..Len(s) : b < i /\ i < a => s[i] = " "
  BY DEF AfterSpaces
<1>21. \A i \in 1..Len(own) : b <= own[i][2] /\ own[i][2] <= z /\ (i > 1 => own[i - 1][2] <= own[i][2])
  BY DEF Takes
<1> DEFINE words == SubSeq(s, a, z)
           gap == SubSeq(s, b + 1, a - 1)
<1>3. /\ piece.text = words /\ piece.marks = [n \in DOMAIN own |-> <<own[n][1], Within(own[n][2], a - 1, z + 1 - a)>>]
      /\ piece = [text |-> piece.text, marks |-> piece.marks]
  BY <1>2
<1>4. s \in Seq(Characters)
  BY DEF Texts
<1>6. /\ gap \in Seq(Characters) /\ Len(gap) = w - b /\ \A n \in 1..w - b : gap[n] = s[b + n]
      /\ words \in Seq(Characters) /\ Len(words) = z - w /\ \A n \in 1..z - w : words[n] = s[w + n]
      /\ slice \in Seq(Characters) /\ Len(slice) = z - b
  <2>1. /\ SubSeq(s, b + 1, w) \in Seq(Characters) /\ Len(SubSeq(s, b + 1, w)) = w - b
        /\ \A n \in 1..w - b : SubSeq(s, b + 1, w)[n] = s[b + n]
    <3>1. b <= w /\ w <= Len(s)
      BY <1>1
    <3> QED BY <1>4, <3>1, PieceHas, SMTT(30)
  <2>2. /\ SubSeq(s, w + 1, z) \in Seq(Characters) /\ Len(SubSeq(s, w + 1, z)) = z - w
        /\ \A n \in 1..z - w : SubSeq(s, w + 1, z)[n] = s[w + n]
    BY <1>1, <1>4, PieceHas
  <2>3. SubSeq(s, b + 1, z) \in Seq(Characters) /\ Len(SubSeq(s, b + 1, z)) = z - b
    <3>1. b <= z
      BY <1>1
    <3> QED BY <1>4, <3>1, PieceHas
  <2> QED BY <1>1, <2>1, <2>2, <2>3
<1>7. slice = gap \o words
  <2>1. SubSeq(s, b + 1, w) \o SubSeq(s, w + 1, z) = SubSeq(s, b + 1, z)
    BY <1>1, <1>4, PiecesJoined
  <2> QED BY <1>1, <2>1
<1> HIDE DEF words, gap, slice
<1>8. Spaces(gap)
  <2> SUFFICES ASSUME NEW n \in 1..Len(gap) PROVE gap[n] = " "
    BY DEF Spaces
  <2>1. n \in 1..w - b /\ b + n \in 1..Len(s) /\ b < b + n /\ b + n < a
    <3>1. n \in 1..w - b
      BY <1>6
    <3> QED BY <1>1, <1>20, <3>1
  <2> QED BY <1>0, <1>6, <2>1
<1>9. words[1] # " " /\ words[Len(words)] # " " /\ Len(words) \in Nat /\ Len(words) > 0 /\ words # <<>>
  <2>1. 1 \in 1..z - w /\ z - w \in 1..z - w /\ w + (z - w) = z /\ z - w \in Nat /\ z - w > 0
    BY <1>1
  <2>2. words[1] = s[a] /\ words[z - w] = s[z]
    BY <1>1, <1>6, <2>1
  <2>3. Len(<<>>) = 0
    OBVIOUS
  <2>4. Len(words) \in Nat /\ Len(words) > 0 /\ Len(words) = z - w
    BY <1>6, <2>1
  <2>5. words # <<>>
    BY <2>3, <2>4
  <2>6. words[1] # " " /\ words[Len(words)] # " "
    BY <1>0, <2>2, <2>4
  <2> QED BY <2>4, <2>5, <2>6
<1>10. /\ o \in Marks /\ Len(o) = Len(own) /\ Len(own) \in Nat /\ Moved(o, b) = own
       /\ \A n \in 1..Len(own) : own[n][2] \in Nat /\ o[n][1] = own[n][1] /\ o[n][2] = own[n][2] - b /\ o[n][2] \in Nat
  <2>1. \A n \in 1..Len(own) : b <= own[n][2]
    BY <1>21
  <2> QED BY <2>1, BackIs
<1> HIDE DEF o
<1>11. /\ Fits(o, slice) /\ \A n \in 1..Len(o) : n > 1 => o[n - 1][2] <= o[n][2]
  <2>1. ASSUME NEW n \in 1..Len(o) PROVE o[n][2] <= Len(slice) /\ (n > 1 => o[n - 1][2] <= o[n][2])
    <3>1. n \in 1..Len(own) /\ (n > 1 => n - 1 \in 1..Len(own))
      BY <1>10
    <3>2. o[n][2] <= Len(slice)
      <4>1. own[n][2] \in Nat /\ own[n][2] <= z /\ o[n][2] = own[n][2] - b
        BY <1>10, <1>21, <3>1
      <4>2. Len(slice) = z - b
        BY <1>6
      <4>3. own[n][2] - b <= z - b
        BY <4>1
      <4> QED BY <4>1, <4>2, <4>3
    <3>3. ASSUME n > 1 PROVE o[n - 1][2] <= o[n][2]
      <4>1. n - 1 \in 1..Len(own)
        BY <3>1, <3>3
      <4>2. own[n - 1][2] <= own[n][2] /\ own[n - 1][2] \in Nat /\ own[n][2] \in Nat
        BY <1>10, <1>21, <3>1, <3>3, <4>1
      <4>3. o[n - 1][2] = own[n - 1][2] - b /\ o[n][2] = own[n][2] - b
        BY <1>10, <1>21, <3>1, <4>1
      <4> QED BY <1>1, <4>2, <4>3, SMTT(30)
    <3> QED BY <3>2, <3>3
  <2> QED BY <2>1 DEF Fits
<1>12. piece.marks = Inside(o, Len(gap), Len(words))
  <2>1. DOMAIN own = 1..Len(own) /\ DOMAIN o = 1..Len(own)
    BY <1>10, LenProperties DEF Marks
  <2>2. ASSUME NEW n \in 1..Len(own)
        PROVE <<own[n][1], Within(own[n][2], a - 1, z + 1 - a)>> = <<o[n][1], Within(o[n][2], Len(gap), Len(words))>>
    <3>1. own[n][2] \in Nat /\ b <= own[n][2] /\ o[n][1] = own[n][1] /\ o[n][2] = own[n][2] - b
      BY <1>10, <1>21
    <3>2. z - w \in Nat
      BY <1>1
    <3>3. Within(own[n][2] - b, (a - 1) - b, z - w) = Within(own[n][2], a - 1, z - w)
      <4>1. own[n][2] - b \in Nat /\ a - 1 \in Nat /\ (a - 1) - b \in Nat
        BY <1>1, <3>1
      <4>2. PICK p, length, d, e, f \in Nat :
              p = own[n][2] /\ length = z - w /\ d = own[n][2] - b /\ e = (a - 1) - b /\ f = a - 1
        BY <3>1, <3>2, <4>1
      <4>3. b <= p /\ d = p - b /\ e = f - b
        BY <3>1, <4>2
      <4>4. p \in Nat /\ length \in Nat /\ d \in Nat /\ e \in Nat /\ f \in Nat /\ b \in Nat
        BY <4>2
      <4>5. Within(d, e, length) = Within(p, f, length)
        BY <4>3, <4>4 DEF Within
      <4> QED BY <4>2, <4>5
    <3> QED BY <1>1, <1>6, <3>1, <3>3
  <2>3. piece.marks = [n \in 1..Len(own) |-> <<own[n][1], Within(own[n][2], a - 1, z + 1 - a)>>]
    BY <1>3, <2>1
  <2>4. Inside(o, Len(gap), Len(words)) = [n \in 1..Len(own) |-> <<o[n][1], Within(o[n][2], Len(gap), Len(words))>>]
    BY <2>1 DEF Inside
  <2> QED BY <2>2, <2>3, <2>4
<1>13. gap \in Texts /\ words \in Texts /\ slice \in Texts /\ <<>> \in Texts /\ Spaces(<<>>) /\ slice = (gap \o words) \o <<>>
  <2>1. gap \o words \in Seq(Characters) /\ <<>> \in Seq(Characters)
    BY <1>6, <1>7, EmptySeq
  <2>2. (gap \o words) \o <<>> = gap \o words
    BY <2>1, ConcatEmptySeq
  <2>3. Len(<<>>) = 0 /\ 1..0 = {}
    OBVIOUS
  <2>4. Spaces(<<>>)
    BY <2>3 DEF Spaces
  <2> QED BY <1>6, <1>7, <2>1, <2>2, <2>4 DEF Texts
<1>14. ASSUME NEW c \in Commands
       PROVE Inside(o, Len(gap), Len(words)) \in Marks /\ Woven(slice, o, c) = Woven(words, Inside(o, Len(gap), Len(words)), c)
  <2>1. Fits(o, (gap \o words) \o <<>>)
    BY <1>11, <1>13
  <2> DEFINE none == <<>>
  <2>3. none \in Texts /\ Spaces(none) /\ slice = (gap \o words) \o none /\ Fits(o, (gap \o words) \o none)
    BY <1>13, <2>1
  <2> HIDE DEF none
  <2>4. gap \in Texts /\ words \in Texts /\ o \in Marks /\ Spaces(gap)
    BY <1>8, <1>10, <1>13
  <2>2. /\ Inside(o, Len(gap), Len(words)) \in Marks
        /\ Woven((gap \o words) \o none, o, c) = Woven(words, Inside(o, Len(gap), Len(words)), c)
    BY <2>3, <2>4, WovenAround
  <2> QED BY <2>2, <2>3
<1>15. Inside(o, Len(gap), Len(words)) \in Marks
  <2>1. Len(gap) \in Nat
    BY <1>6, LenProperties
  <2> QED BY <1>9, <1>10, <2>1, InsideIs
<1>16. InText(Inside(o, Len(gap), Len(words)), words)
  <2>1. Len(gap) \in Nat
    BY <1>6, LenProperties
  <2> QED BY <1>10, <1>11, <1>13, <2>1, InsideInText
<1>17. Fine(piece)
  <2>1. piece.marks \in Marks /\ InText(piece.marks, piece.text) /\ piece.text \in Texts
    BY <1>3, <1>12, <1>13, <1>15, <1>16
  <2>2. piece \in PieceType
    BY <1>3, <2>1 DEF PieceType
  <2> QED BY <1>3, <1>9, <2>1, <2>2 DEF Fine
<1>18. \A c \in Commands : Woven(slice, o, c) = PieceSays(piece, c)
  BY <1>3, <1>12, <1>14 DEF PieceSays
<1> QED BY <1>6, <1>10, <1>11, <1>13, <1>17, <1>18 DEF o, slice, piece

\* From the end of the segment before: spaces and the piece, with the marks it takes.
LEMMA PieceIs ==
  ASSUME NEW s \in Texts, NEW segs, Segmented(segs, s), NEW m \in Marks, InText(m, s), NEW k \in 1..Len(segs)
  PROVE  LET b == EndOf(segs, k - 1)
             own == Own(segs, m, k)
             slice == SubSeq(s, b + 1, segs[k].to)
             piece == Piece(s, segs[k], own)
         IN /\ Fine(piece) /\ slice \in Texts /\ Len(slice) = segs[k].to - b
            /\ Back(own, b) \in Marks /\ Fits(Back(own, b), slice) /\ Moved(Back(own, b), b) = own
            /\ \A c \in Commands : Woven(slice, Back(own, b), c) = PieceSays(piece, c)
<1>1. PICK a \in Nat, b \in Nat, z \in Nat :
         a = segs[k].from /\ b = EndOf(segs, k - 1) /\ z = segs[k].to
  BY DEF Segmented
<1>2. b < a /\ a <= z /\ z <= Len(s)
  BY <1>1 DEF Segmented
<1>8. AfterSpaces(s, b, a, z)
  BY <1>1 DEF Segmented, AfterSpaces
<1>3. PICK own \in Marks : own = Own(segs, m, k)
  BY OwnIs
<1>4. Takes(own, b, z)
  BY <1>1, <1>3, OwnIs DEF Takes
<1>5. PICK w \in Nat : w + 1 = a /\ b <= w /\ w < z
  <2>1. b < a /\ a <= z
    BY <1>2
  <2>2. a - 1 \in Nat /\ (a - 1) + 1 = a /\ b <= a - 1 /\ a - 1 < z
    BY <2>1
  <2> QED BY <2>2
<1>6. /\ Fine(Piece(s, [from |-> a, to |-> z], own)) /\ SubSeq(s, b + 1, z) \in Texts /\ Len(SubSeq(s, b + 1, z)) = z - b
      /\ Back(own, b) \in Marks /\ Fits(Back(own, b), SubSeq(s, b + 1, z)) /\ Moved(Back(own, b), b) = own
      /\ \A c \in Commands : Woven(SubSeq(s, b + 1, z), Back(own, b), c) = PieceSays(Piece(s, [from |-> a, to |-> z], own), c)
  BY <1>2, <1>4, <1>5, <1>8, SliceIs
<1>7. Piece(s, [from |-> a, to |-> z], own) = Piece(s, segs[k], own)
  BY <1>1 DEF Piece
<1> QED BY <1>1, <1>3, <1>6, <1>7

LEMMA BeginningAndOn ==
  ASSUME NEW E, NEW s \in Seq(E), NEW b \in Nat, NEW z \in Nat, b <= z, z <= Len(s)
  PROVE  /\ SubSeq(s, 1, b) \in Seq(E) /\ Len(SubSeq(s, 1, b)) = b
         /\ SubSeq(s, 1, b) \o SubSeq(s, b + 1, z) = SubSeq(s, 1, z)
<1>1. \A i \in Nat : i = 0 => SubSeq(s, i + 1, b) \o SubSeq(s, b + 1, z) = SubSeq(s, i + 1, z)
  BY PiecesJoined
<1>2. \A i \in Nat : i = 0 => SubSeq(s, i + 1, b) \in Seq(E) /\ Len(SubSeq(s, i + 1, b)) = b
  <2> SUFFICES ASSUME NEW i \in Nat, i = 0 PROVE SubSeq(s, i + 1, b) \in Seq(E) /\ Len(SubSeq(s, i + 1, b)) = b
    OBVIOUS
  <2>1. i <= b /\ b <= Len(s) /\ b - i = b
    BY LenProperties
  <2>2. SubSeq(s, i + 1, b) \in Seq(E) /\ Len(SubSeq(s, i + 1, b)) = b - i
    BY <2>1, PieceHas
  <2> QED BY <2>1, <2>2
<1>3. 0 \in Nat /\ 0 + 1 = 1
  OBVIOUS
<1> QED BY <1>1, <1>2, <1>3

LEMMA WovenNothing ==
  ASSUME NEW c \in Commands
  PROVE  Woven(<<>>, <<>>, c) = Silence
<1> DEFINE w == Woven(<<>>, <<>>, c)
<1>1. <<>> \in Texts /\ <<>> \in Marks /\ Len(<<>>) = 0
  BY EmptySeq DEF Texts, Marks
<1>2. Fits(<<>>, <<>>)
  BY InTextEmpty
<1>3. w.letters = Letters(<<>>, c) /\ w.glued = Glued(<<>>) /\ w.stops \in Marks /\ Len(w.stops) = Len(<<>>) /\ w \in Sayings
  <2> DEFINE none == <<>>
  <2>1. none \in Texts /\ none \in Marks /\ Fits(none, none)
    BY <1>1, <1>2
  <2> HIDE DEF none
  <2>2. /\ Woven(none, none, c).letters = Letters(none, c) /\ Woven(none, none, c).glued = Glued(none)
        /\ Woven(none, none, c).stops \in Marks /\ Len(Woven(none, none, c).stops) = Len(none)
        /\ Woven(none, none, c) \in Sayings
    BY <2>1, WovenIs
  <2> QED BY <2>2 DEF none
<1> HIDE DEF w
<1>4. w.letters = <<>> /\ w.glued = <<>>
  BY <1>3, LettersEmpty
<1>5. w.stops = <<>>
  BY <1>1, <1>3, EmptySeq DEF Marks
<1>6. w = Silence
  BY <1>3, <1>4, <1>5, SilenceIs, SayingsEqual
<1> QED BY <1>6 DEF w

LEMMA TogetherGrows ==
  ASSUME NEW ss \in Seq(Sayings), NEW k \in 1..Len(ss)
  PROVE  /\ Together(SubSeq(ss, 1, k)) = Then(Together(SubSeq(ss, 1, k - 1)), ss[k])
         /\ Together(SubSeq(ss, 1, k)) \in Sayings /\ Together(SubSeq(ss, 1, k - 1)) \in Sayings /\ ss[k] \in Sayings
<1>1. SubSeq(ss, 1, k) = Append(SubSeq(ss, 1, k - 1), ss[k]) /\ SubSeq(ss, 1, k - 1) \in Seq(Sayings) /\ ss[k] \in Sayings
  BY BeginningGrows
<1> DEFINE u == SubSeq(ss, 1, k - 1)
           x == ss[k]
<1> HIDE DEF u, x
<1>2. u \in Seq(Sayings) /\ x \in Sayings
  BY <1>1 DEF u, x
<1>3. Together(Append(u, x)) = Then(Together(u), x) /\ Together(u) \in Sayings /\ Then(Together(u), x) \in Sayings
  BY <1>2, TogetherAppend, TogetherTyped, ThenTyped
<1> QED BY <1>1, <1>2, <1>3 DEF u, x

AllSay(pieces, c) == [k \in DOMAIN pieces |-> PieceSays(pieces[k], c)]
FineOnes(pieces) ==
  /\ pieces \in Seq(PieceType) /\ Len(pieces) \in Nat /\ Len(pieces) > 0 /\ DOMAIN pieces = 1..Len(pieces)
  /\ \A k \in 1..Len(pieces) : Fine(pieces[k])

LEMMA FineSays ==
  ASSUME NEW p, Fine(p), NEW c \in Commands
  PROVE  PieceSays(p, c) \in Sayings /\ Fits(p.marks, p.text) /\ p.text \in Texts /\ p.marks \in Marks
<1>1. p.text \in Texts /\ p.marks \in Marks /\ InText(p.marks, p.text)
  BY DEF Fine, PieceType
<1>2. Fits(p.marks, p.text)
  BY <1>1, InTextFits
<1> QED BY <1>1, <1>2, WovenIs DEF PieceSays

LEMMA AllSayIs ==
  ASSUME NEW pieces, FineOnes(pieces), NEW c \in Commands
  PROVE  /\ AllSay(pieces, c) \in Seq(Sayings) /\ Len(AllSay(pieces, c)) = Len(pieces)
         /\ \A k \in 1..Len(pieces) : AllSay(pieces, c)[k] = PieceSays(pieces[k], c) /\ PieceSays(pieces[k], c) \in Sayings
<1> DEFINE N == Len(pieces)
<1>1. N \in Nat /\ DOMAIN pieces = 1..N /\ \A k \in 1..N : Fine(pieces[k])
  BY DEF FineOnes
<1>2. \A k \in 1..N : PieceSays(pieces[k], c) \in Sayings
  BY <1>1, FineSays
<1>3. AllSay(pieces, c) = [k \in 1..N |-> PieceSays(pieces[k], c)]
  BY <1>1 DEF AllSay
<1>4. AllSay(pieces, c) \in [1..N -> Sayings] /\ \A k \in 1..N : AllSay(pieces, c)[k] = PieceSays(pieces[k], c)
  BY <1>2, <1>3
<1> QED BY <1>1, <1>2, <1>4, FunctionIsSeq

\* What the pieces up to one say is what the text up to its end says.
TakenUpTo(segs, m, k) == Chosen(m, {n \in DOMAIN m : Takers(segs, m)[n] <= k})
UpTo(s, segs, k) == SubSeq(s, 1, EndOf(segs, k))
SliceOf(s, segs, k) == SubSeq(s, EndOf(segs, k - 1) + 1, segs[k].to)

LEMMA UpToGrows ==
  ASSUME NEW s \in Texts, NEW segs, Segmented(segs, s), NEW m \in Marks, InText(m, s), NEW k \in 1..Len(segs)
  PROVE  /\ UpTo(s, segs, k - 1) \in Texts /\ Len(UpTo(s, segs, k - 1)) = EndOf(segs, k - 1)
         /\ UpTo(s, segs, k) = UpTo(s, segs, k - 1) \o SliceOf(s, segs, k)
         /\ TakenUpTo(segs, m, k) = TakenUpTo(segs, m, k - 1) \o Own(segs, m, k)
         /\ UpTo(s, segs, 0) = <<>> /\ UpTo(s, segs, Len(segs)) = s
         /\ TakenUpTo(segs, m, 0) = <<>> /\ TakenUpTo(segs, m, Len(segs)) = m
         /\ TakenUpTo(segs, m, k - 1) \in Marks
<1>1. PICK b \in Nat, z \in Nat : b = EndOf(segs, k - 1) /\ z = segs[k].to /\ z = EndOf(segs, k)
  BY DEF Segmented
<1>2. b <= z /\ z <= Len(s)
  <2>1. PICK a \in Nat : a = segs[k].from
    BY DEF Segmented
  <2>2. b < a /\ a <= z /\ z <= Len(s)
    BY <1>1, <2>1 DEF Segmented
  <2> QED BY <2>2
<1>3. /\ SubSeq(s, 1, b) \in Texts /\ Len(SubSeq(s, 1, b)) = b
      /\ SubSeq(s, 1, b) \o SubSeq(s, b + 1, z) = SubSeq(s, 1, z)
  BY <1>2, BeginningAndOn DEF Texts
<1>4. UpTo(s, segs, 0) = <<>> /\ UpTo(s, segs, Len(segs)) = s
  <2>1. EndOf(segs, 0) = 0 /\ EndOf(segs, Len(segs)) = Len(s)
    BY DEF Segmented
  <2>2. SubSeq(s, 1, Len(s)) = s
    BY SubSeqFull DEF Texts
  <2> QED BY <2>1, <2>2, NoBeginning DEF UpTo
<1>5. /\ Takers(segs, m) \in [1..Len(m) -> 1..Len(segs)] /\ Len(segs) \in Nat
      /\ \A i, j \in 1..Len(m) : i <= j => Takers(segs, m)[i] <= Takers(segs, m)[j]
  BY TakersGrow DEF Segmented
<1>6. /\ TakenUpTo(segs, m, k) = TakenUpTo(segs, m, k - 1) \o Own(segs, m, k)
      /\ TakenUpTo(segs, m, 0) = <<>> /\ TakenUpTo(segs, m, Len(segs)) = m
  <2> DEFINE f == Takers(segs, m)
             K == Len(segs)
  <2>1. f \in [1..Len(m) -> 1..K] /\ K \in Nat /\ \A i, j \in 1..Len(m) : i <= j => f[i] <= f[j]
    BY <1>5
  <2>2. Own(segs, m, k) = Chosen(m, {n \in DOMAIN m : f[n] = k}) /\ k \in 1..K
    BY OwnIs
  <2> HIDE DEF f, K
  <2>3. /\ Chosen(m, {n \in DOMAIN m : f[n] <= k})
             = Chosen(m, {n \in DOMAIN m : f[n] <= k - 1}) \o Chosen(m, {n \in DOMAIN m : f[n] = k})
        /\ Chosen(m, {n \in DOMAIN m : f[n] <= 0}) = <<>>
        /\ Chosen(m, {n \in DOMAIN m : f[n] <= K}) = m
    BY <2>1, <2>2, InClasses DEF Marks
  <2> QED BY <2>2, <2>3 DEF TakenUpTo, f, K
<1>7. TakenUpTo(segs, m, k - 1) \in Marks
  BY ChosenTyped DEF TakenUpTo, Marks
<1> QED BY <1>1, <1>3, <1>4, <1>6, <1>7 DEF UpTo, SliceOf

SaidUpTo(s, segs, m, c, w, k, spells) ==
  /\ Fits(TakenUpTo(segs, m, k), UpTo(s, segs, k)) /\ TakenUpTo(segs, m, k) \in Marks /\ UpTo(s, segs, k) \in Texts
  /\ Says(Together(SubSeq(w, 1, k)), Woven(UpTo(s, segs, k), TakenUpTo(segs, m, k), c), spells)

LEMMA PiecesStep ==
  ASSUME NEW s \in Texts, NEW segs, Segmented(segs, s), NEW m \in Marks, InText(m, s), NEW k \in 1..Len(segs),
         NEW c \in Commands, NEW spells \in BOOLEAN, NEW w \in Seq(Sayings), k \in 1..Len(w),
         w[k] = PieceSays(Piece(s, segs[k], Own(segs, m, k)), c),
         SaidUpTo(s, segs, m, c, w, k - 1, spells)
  PROVE  SaidUpTo(s, segs, m, c, w, k, spells)
<1> DEFINE b == EndOf(segs, k - 1)
           slice == SliceOf(s, segs, k)
           own == Own(segs, m, k)
           o == Back(own, b)
           h == UpTo(s, segs, k - 1)
           p == TakenUpTo(segs, m, k - 1)
           g == Together(SubSeq(w, 1, k - 1))
           piece == Piece(s, segs[k], own)
<1>1. /\ Fine(piece) /\ slice \in Texts /\ o \in Marks /\ Fits(o, slice) /\ Moved(o, b) = own
      /\ Woven(slice, o, c) = PieceSays(piece, c)
  BY PieceIs DEF SliceOf
<1>2. h \in Texts /\ UpTo(s, segs, k) = h \o slice /\ Len(h) = b /\ TakenUpTo(segs, m, k) = p \o own /\ p \in Marks
  <2>1. h \in Texts
    BY UpToGrows
  <2>3. Len(h) = b
    BY UpToGrows
  <2>4. UpTo(s, segs, k) = h \o slice
    BY UpToGrows
  <2>2. TakenUpTo(segs, m, k) = p \o own /\ p \in Marks
    BY UpToGrows, SMTT(30)
  <2> QED BY <2>1, <2>2, <2>3, <2>4
<1>3. Fits(p, h) /\ Says(g, Woven(h, p, c), spells)
  BY DEF SaidUpTo
<1>4. /\ Together(SubSeq(w, 1, k)) = Then(g, w[k]) /\ g \in Sayings /\ w[k] \in Sayings /\ w[k] = Woven(slice, o, c)
  BY <1>1, TogetherGrows
<1> HIDE DEF b, slice, own, o, h, p, g, piece
<1>5. Fits(p \o Moved(o, Len(h)), h \o slice) /\ h \o slice \in Texts /\ p \o Moved(o, Len(h)) \in Marks
  <2>1. p \o Moved(o, Len(h)) \in Marks
    BY <1>1, <1>2, MarksJoined, LenProperties DEF Texts
  <2> QED BY <1>1, <1>2, <1>3, <2>1, FitsJoined
<1> DEFINE a == Woven(h, p, c)
           e == Woven(slice, o, c)
           y == Woven(h \o slice, p \o Moved(o, Len(h)), c)
<1>6. /\ Then(a, e) \in Sayings /\ y \in Sayings /\ Then(a, e).letters = y.letters /\ Then(a, e).stops = y.stops
      /\ GlueFits(Then(a, e).glued, y.glued)
  BY <1>1, <1>2, <1>3, WovenJoined, SMTT(30)
<1>7. a \in Sayings /\ e \in Sayings
  BY <1>1, <1>2, <1>3, WovenIs
<1> HIDE DEF a, e, y
<1>8. Says(Then(a, e), y, spells)
  BY <1>6, SaysAsMuch
<1>9. Says(Then(g, e), Then(a, e), spells)
  <2>1. Says(g, a, spells) /\ Says(e, e, spells)
    BY <1>3, <1>7, SaysItself DEF a
  <2> QED BY <1>4, <1>7, <2>1, SaysBoth
<1>10. Says(Then(g, e), y, spells)
  <2>1. Then(g, e) \in Sayings
    BY <1>4, <1>7, ThenTyped
  <2> QED BY <1>6, <1>8, <1>9, <2>1, SaysThrough
<1>11. Together(SubSeq(w, 1, k)) = Then(g, e)
  BY <1>4 DEF e
<1>12. y = Woven(UpTo(s, segs, k), TakenUpTo(segs, m, k), c)
  BY <1>1, <1>2 DEF y
<1>13. p \o Moved(o, Len(h)) = TakenUpTo(segs, m, k) /\ h \o slice = UpTo(s, segs, k)
  BY <1>1, <1>2
<1> QED BY <1>5, <1>10, <1>11, <1>12, <1>13 DEF SaidUpTo

LEMMA PiecesSay ==
  ASSUME NEW s \in Texts, NEW ends \in Cuts(s), NEW m \in Marks, InText(m, s)
  PROVE  /\ FineOnes(Pieces(s, m, ends))
         /\ \A c \in Commands, spells \in BOOLEAN :
              Says(Together(AllSay(Pieces(s, m, ends), c)), Woven(s, m, c), spells)
<1> DEFINE segs == Segments(s, ends)
           N == Len(segs)
           P == Pieces(s, m, ends)
<1>1. Segmented(segs, s)
  BY SegmentsAre
<1>2. N \in Nat /\ N > 0 /\ DOMAIN segs = 1..N /\ P = [k \in DOMAIN segs |-> Piece(s, segs[k], Own(segs, m, k))]
  BY <1>1 DEF Segmented, Pieces
<1> HIDE DEF segs, P
<1>3. \A k \in 1..N : Fine(Piece(s, segs[k], Own(segs, m, k)))
  BY <1>1, PieceIs
<1>4. P \in [1..N -> PieceType] /\ \A k \in 1..N : P[k] = Piece(s, segs[k], Own(segs, m, k)) /\ Fine(P[k])
  <2>1. \A k \in 1..N : Piece(s, segs[k], Own(segs, m, k)) \in PieceType
    BY <1>3 DEF Fine
  <2> QED BY <1>2, <1>3, <2>1
<1>5. P \in Seq(PieceType) /\ Len(P) = N /\ DOMAIN P = 1..N
  BY <1>2, <1>4, FunctionIsSeq
<1>6. FineOnes(P)
  BY <1>2, <1>4, <1>5 DEF FineOnes
<1>7. ASSUME NEW c \in Commands, NEW spells \in BOOLEAN
      PROVE  Says(Together(AllSay(P, c)), Woven(s, m, c), spells)
  <2> DEFINE w == AllSay(P, c)
             S == {k \in 0..N : SaidUpTo(s, segs, m, c, w, k, spells)}
  <2>1. w \in Seq(Sayings) /\ Len(w) = N /\ \A k \in 1..N : w[k] = PieceSays(P[k], c)
    BY <1>5, <1>6, AllSayIs
  <2> HIDE DEF w
  <2>2. 1 \in 1..N
    BY <1>2
  <2>3. /\ UpTo(s, segs, 0) = <<>> /\ UpTo(s, segs, Len(segs)) = s
        /\ TakenUpTo(segs, m, 0) = <<>> /\ TakenUpTo(segs, m, Len(segs)) = m
    BY <1>1, <2>2, UpToGrows
  <2>4. 0 \in S
    <3>1. Together(SubSeq(w, 1, 0)) = Silence
      BY NoBeginning, TogetherEmpty
    <3>2. Woven(UpTo(s, segs, 0), TakenUpTo(segs, m, 0), c) = Silence
      BY <2>3, WovenNothing
    <3>3. Says(Silence, Silence, spells)
      BY SilenceIs, SaysItself
    <3>4. <<>> \in Texts /\ <<>> \in Marks /\ Fits(<<>>, <<>>)
      BY EmptySeq, InTextEmpty DEF Texts, Marks
    <3>5. SaidUpTo(s, segs, m, c, w, 0, spells)
      BY <2>3, <3>1, <3>2, <3>3, <3>4 DEF SaidUpTo
    <3> QED BY <1>2, <3>5
  <2>5. ASSUME NEW k \in 1..N, k - 1 \in S PROVE k \in S
    <3>1. SaidUpTo(s, segs, m, c, w, k - 1, spells)
      BY <2>5
    <3>2. w[k] = PieceSays(Piece(s, segs[k], Own(segs, m, k)), c) /\ k \in 1..Len(w)
      BY <1>4, <2>1
    <3>3. SaidUpTo(s, segs, m, c, w, k, spells)
      BY <1>1, <2>1, <3>1, <3>2, PiecesStep
    <3> QED BY <1>2, <3>3
  <2>6. N \in S
    <3>1. 0..N \subseteq S
      <4> HIDE DEF S
      <4> QED BY <1>2, <2>4, <2>5, InductionUpTo
    <3> QED BY <1>2, <3>1
  <2>7. SubSeq(w, 1, N) = w
    BY <2>1, SubSeqFull
  <2>8. Says(Together(w), Woven(s, m, c), spells)
    BY <2>3, <2>6, <2>7 DEF SaidUpTo
  <2> QED BY <2>8 DEF w
<1> QED BY <1>6, <1>7 DEF P

-----------------------------------------------------------------------------
(* Chunks                                                                    *)

TextChunk == [kind : {"text"}, segs : Seq(Texts), mode : PauseModes, inForce : Commands, marks : Marks]
ChunkType ==
  {x \in TextChunk : InText(x.marks, FlattenSeq(x.segs))}
    \cup [kind : {"index"}, index : Nat] \cup [kind : {"break", "sentence break", "end pause"}]
Tale(cs) == [c \in DOMAIN cs |-> SaidIn(cs[c])]
Told(cs) == Together(Tale(cs))

LEMMA StopIs ==
  ASSUME NEW n \in Nat
  PROVE  /\ Stop(n) \in Sayings /\ Stop(n).letters = <<>> /\ Stop(n).glued = <<>> /\ Stop(n).stops = <<<<n, 0>>>>
<1>1. <<n, 0>> \in MarkType
  BY DEF MarkType
<1>2. <<>> \in Seq(LetterType) /\ <<>> \in Seq(Flags) /\ <<<<n, 0>>>> \in Marks /\ Len(<<>>) = Len(<<>>)
  <2>1. \A e \in MarkType : <<e>> \in Seq(MarkType)
    OBVIOUS
  <2> QED BY <1>1, <2>1, EmptySeq DEF Marks
<1>3. [letters |-> <<>>, glued |-> <<>>, stops |-> <<<<n, 0>>>>] \in Sayings
  <2> DEFINE m == <<<<n, 0>>>>
             none == <<>>
  <2>1. none \in Seq(LetterType) /\ none \in Seq(Flags) /\ m \in Marks /\ Len(none) = Len(none)
    BY <1>2
  <2> HIDE DEF m, none
  <2>2. [letters |-> none, glued |-> none, stops |-> m] \in Sayings
    BY <2>1, SayingMade
  <2> QED BY <2>2 DEF m, none
<1> QED BY <1>3 DEF Stop

LEMMA SaidInTyped ==
  ASSUME NEW x \in ChunkType
  PROVE  /\ SaidIn(x) \in Sayings
         /\ x.kind = "text" => /\ InText(x.marks, FlattenSeq(x.segs)) /\ x \in TextChunk
                               /\ SaidIn(x) = Woven(FlattenSeq(x.segs), x.marks, x.inForce)
         /\ x.kind = "index" => SaidIn(x) = Stop(x.index) /\ x.index \in Nat
<1>1. CASE x \in TextChunk /\ InText(x.marks, FlattenSeq(x.segs))
  <2>1. x.kind = "text" /\ x.segs \in Seq(Texts) /\ x.inForce \in Commands /\ x.marks \in Marks
    BY <1>1 DEF TextChunk
  <2>2. FlattenSeq(x.segs) \in Texts
    BY <2>1, FlattenTexts
  <2>3. Woven(FlattenSeq(x.segs), x.marks, x.inForce) \in Sayings
    BY <1>1, <2>1, <2>2, InTextFits, WovenIs
  <2> QED BY <1>1, <2>1, <2>3 DEF SaidIn
<1>2. CASE x \in [kind : {"index"}, index : Nat]
  <2>1. x.kind = "index" /\ x.index \in Nat
    BY <1>2
  <2> QED BY <2>1, StopIs DEF SaidIn
<1>3. CASE x \in [kind : {"break", "sentence break", "end pause"}]
  <2>1. x.kind \in {"break", "sentence break", "end pause"}
    BY <1>3
  <2>2. Stop(0) \in Sayings /\ Silence \in Sayings
    BY StopIs, SilenceIs
  <2> QED BY <2>1, <2>2 DEF SaidIn
<1> QED BY <1>1, <1>2, <1>3 DEF ChunkType

LEMMA ToldIs ==
  ASSUME NEW cs \in Seq(ChunkType)
  PROVE  /\ Tale(cs) \in Seq(Sayings) /\ Len(Tale(cs)) = Len(cs) /\ Len(cs) \in Nat /\ Told(cs) \in Sayings
         /\ \A n \in 1..Len(cs) : Tale(cs)[n] = SaidIn(cs[n]) /\ cs[n] \in ChunkType /\ SaidIn(cs[n]) \in Sayings
<1>1. DOMAIN cs = 1..Len(cs) /\ Len(cs) \in Nat /\ \A n \in 1..Len(cs) : cs[n] \in ChunkType
  BY LenProperties, ElementOfSeq
<1>2. \A n \in 1..Len(cs) : SaidIn(cs[n]) \in Sayings
  BY <1>1, SaidInTyped
<1>3. Tale(cs) \in [1..Len(cs) -> Sayings] /\ \A n \in 1..Len(cs) : Tale(cs)[n] = SaidIn(cs[n])
  BY <1>1, <1>2 DEF Tale
<1>4. Tale(cs) \in Seq(Sayings) /\ Len(Tale(cs)) = Len(cs)
  BY <1>1, <1>3, FunctionIsSeq
<1> QED BY <1>1, <1>2, <1>3, <1>4, TogetherTyped DEF Told

LEMMA ToldJoined ==
  ASSUME NEW cs \in Seq(ChunkType), NEW ds \in Seq(ChunkType)
  PROVE  Told(cs \o ds) = Then(Told(cs), Told(ds)) /\ cs \o ds \in Seq(ChunkType)
<1> DEFINE u == cs \o ds
<1>1. /\ u \in Seq(ChunkType) /\ Len(u) = Len(cs) + Len(ds) /\ Len(cs) \in Nat /\ Len(ds) \in Nat
      /\ \A n \in 1..Len(cs) : u[n] = cs[n]
      /\ \A n \in 1..Len(ds) : u[Len(cs) + n] = ds[n]
  BY JoinedHas
<1> HIDE DEF u
<1>2. /\ Tale(u) \in Seq(Sayings) /\ Len(Tale(u)) = Len(u) /\ \A n \in 1..Len(u) : Tale(u)[n] = SaidIn(u[n])
      /\ Tale(cs) \in Seq(Sayings) /\ Len(Tale(cs)) = Len(cs) /\ \A n \in 1..Len(cs) : Tale(cs)[n] = SaidIn(cs[n])
      /\ Tale(ds) \in Seq(Sayings) /\ Len(Tale(ds)) = Len(ds) /\ \A n \in 1..Len(ds) : Tale(ds)[n] = SaidIn(ds[n])
  BY <1>1, ToldIs
<1>3. \A n \in 1..Len(cs) : Tale(u)[n] = Tale(cs)[n]
  <2>1. \A n \in 1..Len(cs) : n \in 1..Len(u)
    BY <1>1
  <2> QED BY <1>1, <1>2, <2>1
<1>4. \A n \in 1..Len(ds) : Tale(u)[Len(cs) + n] = Tale(ds)[n]
  <2>1. \A n \in 1..Len(ds) : Len(cs) + n \in 1..Len(u)
    BY <1>1
  <2> QED BY <1>1, <1>2, <2>1
<1>5. Tale(u) = Tale(cs) \o Tale(ds)
  <2> DEFINE f == Tale(u)
             g == Tale(cs)
             h == Tale(ds)
  <2>1. f \in Seq(Sayings) /\ g \in Seq(Sayings) /\ h \in Seq(Sayings) /\ Len(f) = Len(g) + Len(h)
    BY <1>1, <1>2
  <2>2. (\A n \in 1..Len(g) : f[n] = g[n]) /\ (\A n \in 1..Len(h) : f[Len(g) + n] = h[n])
    BY <1>2, <1>3, <1>4
  <2> HIDE DEF f, g, h
  <2>3. f = g \o h
    BY <2>1, <2>2, JoinedIs
  <2> QED BY <2>3 DEF f, g, h
<1>6. Together(Tale(cs) \o Tale(ds)) = Then(Together(Tale(cs)), Together(Tale(ds)))
  BY <1>2, TogetherJoined
<1> QED BY <1>1, <1>5, <1>6 DEF Told, u

LEMMA ToldEmpty == Told(<<>>) = Silence /\ <<>> \in Seq(ChunkType)
<1>1. [c \in DOMAIN <<>> |-> SaidIn((<<>>)[c])] = <<>>
  OBVIOUS
<1>2. Tale(<<>>) = <<>>
  BY <1>1 DEF Tale
<1> QED BY <1>2, TogetherEmpty, EmptySeq DEF Told

LEMMA ToldOne ==
  ASSUME NEW x \in ChunkType
  PROVE  Told(<<x>>) = SaidIn(x) /\ <<x>> \in Seq(ChunkType) /\ SaidIn(x) \in Sayings
<1> DEFINE u == <<x>>
<1>1. u \in Seq(ChunkType) /\ Len(u) = 1 /\ u[1] = x
  OBVIOUS
<1> HIDE DEF u
<1>2. Tale(u) \in Seq(Sayings) /\ Len(Tale(u)) = 1 /\ Tale(u)[1] = SaidIn(x) /\ SaidIn(x) \in Sayings
  <2>1. 1 \in 1..Len(u)
    BY <1>1
  <2> QED BY <1>1, <2>1, ToldIs
<1> DEFINE a == SaidIn(x)
           t == Tale(u)
<1>3. t \in Seq(Sayings) /\ Len(t) = 1 /\ t[1] = a /\ a \in Sayings
  BY <1>2
<1> HIDE DEF a, t
<1>4. t = <<a>>
  BY <1>3
<1>5. Together(<<a>>) = a
  BY <1>3, TogetherOne
<1>6. Told(u) = a
  BY <1>4, <1>5 DEF Told, t
<1> QED BY <1>1, <1>3, <1>6 DEF u, a

LEMMA ToldBeginning ==
  ASSUME NEW cs \in Seq(ChunkType), NEW n \in 0..Len(cs)
  PROVE  /\ SubSeq(cs, 1, n) \in Seq(ChunkType)
         /\ \E r \in Sayings : Told(cs) = Then(Told(SubSeq(cs, 1, n)), r)
<1>1. /\ SubSeq(cs, 1, n) \in Seq(ChunkType) /\ SubSeq(cs, n + 1, Len(cs)) \in Seq(ChunkType)
      /\ cs = SubSeq(cs, 1, n) \o SubSeq(cs, n + 1, Len(cs))
  BY CutInTwo
<1> DEFINE a == SubSeq(cs, 1, n)
           b == SubSeq(cs, n + 1, Len(cs))
<1>2. a \in Seq(ChunkType) /\ b \in Seq(ChunkType) /\ cs = a \o b
  BY <1>1
<1> HIDE DEF a, b
<1>3. Told(a \o b) = Then(Told(a), Told(b)) /\ Told(b) \in Sayings
  BY <1>2, ToldJoined, ToldIs
<1>4. \E r \in Sayings : Told(cs) = Then(Told(a), r)
  BY <1>2, <1>3
<1> QED BY <1>2, <1>4 DEF a

\* Indexes without a text.
LEMMA ToldIndexes ==
  ASSUME NEW m \in Marks
  PROVE  /\ Indexes(m) \in Seq(ChunkType) /\ Len(Indexes(m)) = Len(m)
         /\ Told(Indexes(m)).letters = <<>> /\ Told(Indexes(m)).glued = <<>>
         /\ Len(Told(Indexes(m)).stops) = Len(m)
         /\ \A n \in 1..Len(m) : Told(Indexes(m)).stops[n] = <<m[n][1], 0>>
<1> DEFINE S == {p \in Marks :
             /\ Indexes(p) \in Seq(ChunkType) /\ Len(Indexes(p)) = Len(p)
             /\ Told(Indexes(p)).letters = <<>> /\ Told(Indexes(p)).glued = <<>>
             /\ Len(Told(Indexes(p)).stops) = Len(p)
             /\ \A n \in 1..Len(p) : Told(Indexes(p)).stops[n] = <<p[n][1], 0>>}
<1>1. <<>> \in S
  <2>1. [n \in DOMAIN <<>> |-> [kind |-> "index", index |-> (<<>>)[n][1]]] = <<>>
    OBVIOUS
  <2>2. Indexes(<<>>) = <<>>
    BY <2>1 DEF Indexes
  <2>3. Told(<<>>) = Silence /\ <<>> \in Seq(ChunkType) /\ <<>> \in Marks
    BY ToldEmpty, EmptySeq DEF Marks
  <2>4. Len(<<>>) = 0 /\ 1..0 = {}
    OBVIOUS
  <2> QED BY <2>2, <2>3, <2>4, SilenceIs
<1>2. ASSUME NEW p \in Marks, NEW e \in MarkType, p \in S PROVE Append(p, e) \in S
  <2> DEFINE q == Append(p, e)
             x == [kind |-> "index", index |-> e[1]]
             N == Len(p)
  <2>1. q \in Marks /\ Len(q) = N + 1 /\ N \in Nat /\ q[N + 1] = e /\ \A n \in 1..N : q[n] = p[n]
    BY AppendHas DEF Marks
  <2>2. e[1] \in Nat
    BY DEF MarkType
  <2>3. x \in ChunkType /\ x.kind = "index" /\ x.index = e[1]
    BY <2>2 DEF ChunkType
  <2> HIDE DEF q, x
  <2>4. DOMAIN q = 1..N + 1 /\ DOMAIN p = 1..N
    BY <2>1, LenProperties DEF Marks
  <2>5. Indexes(q) = Append(Indexes(p), x)
    <3>1. /\ Indexes(q) = [n \in 1..N + 1 |-> [kind |-> "index", index |-> q[n][1]]]
          /\ Indexes(p) = [n \in 1..N |-> [kind |-> "index", index |-> p[n][1]]]
      BY <2>4 DEF Indexes
    <3>2. Indexes(p) \in Seq(ChunkType) /\ Len(Indexes(p)) = N
      BY <1>2
    <3>3. \A n \in 1..N : n \in 1..N + 1
      BY <2>1
    <3>4. \A n \in 1..N : Indexes(q)[n] = Indexes(p)[n]
      BY <2>1, <3>1, <3>3
    <3>5. Indexes(q)[N + 1] = x
      BY <2>1, <3>1 DEF x
    <3>6. \A n \in 1..N + 1 : Indexes(q)[n] \in ChunkType
      <4> SUFFICES ASSUME NEW n \in 1..N + 1 PROVE Indexes(q)[n] \in ChunkType
        OBVIOUS
      <4>1. CASE n = N + 1
        BY <2>3, <3>5, <4>1
      <4>2. CASE n # N + 1
        <5>1. n \in 1..N
          BY <2>1, <4>2
        <5> QED BY <3>2, <3>4, <5>1, ElementOfSeq
      <4> QED BY <4>1, <4>2
    <3>7. Indexes(q) \in [1..N + 1 -> ChunkType]
      BY <3>1, <3>6
    <3>8. Indexes(q) \in Seq(ChunkType) /\ Len(Indexes(q)) = N + 1
      BY <2>1, <3>7, FunctionIsSeq
    <3> QED BY <3>2, <3>4, <3>5, <3>8, LongerByOne
  <2>6. Indexes(q) = Indexes(p) \o <<x>>
    <3>1. Indexes(p) \in Seq(ChunkType)
      BY <1>2
    <3> QED BY <2>3, <2>5, <3>1, AppendIsConcat
  <2> DEFINE s == Told(Indexes(p))
             t == Told(Indexes(q))
             i == Indexes(p)
  <2>7. i \in Seq(ChunkType) /\ s \in Sayings /\ s.letters = <<>> /\ s.glued = <<>> /\ Len(s.stops) = N
    <3>1. i \in Seq(ChunkType)
      BY <1>2
    <3> QED BY <1>2, <3>1, ToldIs
  <2>8. \A n \in 1..N : s.stops[n] = <<p[n][1], 0>>
    BY <1>2
  <2> DEFINE v == Stop(e[1])
  <2>9. v \in Sayings /\ v.letters = <<>> /\ v.glued = <<>> /\ v.stops = <<<<e[1], 0>>>>
    BY <2>2, StopIs
  <2>10. SaidIn(x) = v
    BY <2>3, SaidInTyped
  <2>11. t = Then(s, v)
    <3>1. Told(<<x>>) = v /\ <<x>> \in Seq(ChunkType)
      BY <2>3, <2>10, ToldOne
    <3> QED BY <2>6, <2>7, <3>1, ToldJoined
  <2>12. Indexes(q) \in Seq(ChunkType) /\ Len(Indexes(q)) = N + 1
    <3>1. i \in Seq(ChunkType) /\ Len(i) = N /\ Indexes(q) = Append(i, x)
      BY <1>2, <2>5
    <3> QED BY <2>3, <3>1, AppendHas
  <2> HIDE DEF s, t, v, i
  <2>13. t.letters = <<>> /\ t.glued = <<>>
    <3>1. <<>> \o <<>> = <<>>
      OBVIOUS
    <3>2. t.letters = s.letters \o v.letters
      BY <2>11, ThenParts
    <3>3. t.glued = s.glued \o v.glued
      BY <2>11, ThenParts
    <3> QED BY <2>7, <2>9, <3>1, <3>2, <3>3
  <2>14. Len(t.stops) = N + 1 /\ \A n \in 1..N : t.stops[n] = s.stops[n]
    <3>1. Len(v.stops) = 1
      BY <2>9
    <3>2. Len(t.stops) = Len(s.stops) + Len(v.stops) /\ \A n \in 1..Len(s.stops) : t.stops[n] = s.stops[n]
      BY <2>7, <2>9, <2>11, ThenHas
    <3> QED BY <2>7, <3>1, <3>2
  <2>15. t.stops[N + 1] = <<e[1], 0>>
    <3>1. t.stops[Len(s.stops) + 1] = Moved(v.stops, Len(s.letters))[1]
      <4>1. Len(v.stops) = 1
        BY <2>9
      <4>2. 1 \in 1..Len(v.stops)
        BY <4>1
      <4> QED BY <2>7, <2>9, <2>11, <4>2, ThenHas
    <3>2. Len(s.letters) = 0
      BY <2>7
    <3>3. Moved(<<<<e[1], 0>>>>, 0) = <<<<e[1], 0>>>>
      <4>1. <<<<e[1], 0>>>> \in Marks
        <5>1. <<e[1], 0>> \in MarkType
          BY <2>2 DEF MarkType
        <5>2. \A y \in MarkType : <<y>> \in Seq(MarkType)
          OBVIOUS
        <5> QED BY <5>1, <5>2 DEF Marks
      <4> QED BY <4>1, MovedNone
    <3> QED BY <2>7, <2>9, <3>1, <3>2, <3>3
  <2>16. \A n \in 1..N + 1 : t.stops[n] = <<q[n][1], 0>>
    <3> SUFFICES ASSUME NEW n \in 1..N + 1 PROVE t.stops[n] = <<q[n][1], 0>>
      OBVIOUS
    <3>1. CASE n = N + 1
      BY <2>1, <2>15, <3>1
    <3>2. CASE n # N + 1
      <4>1. n \in 1..N
        BY <2>1, <3>2
      <4> QED BY <2>1, <2>8, <2>14, <4>1
    <3> QED BY <3>1, <3>2
  <2>17. q \in S
    BY <2>1, <2>12, <2>13, <2>14, <2>16 DEF t
  <2> QED BY <2>17 DEF q
<1>3. Marks \subseteq S
  <2>1. Seq(MarkType) \subseteq S
    <3>1. \A p \in Seq(MarkType), e \in MarkType : p \in S => Append(p, e) \in S
      BY <1>2 DEF Marks
    <3> HIDE DEF S
    <3> QED BY <1>1, <3>1, InductionOnSequences
  <2> QED BY <2>1 DEF Marks
<1> QED BY <1>3

\* The spaces between the segments of a group.
LEMMA SpaceAfter ==
  ASSUME NEW p, Fine(p), NEW c \in Commands
  PROVE  \A t : t = Append(p.text, " ") =>
           /\ t \in Texts /\ t # <<>> /\ t[Len(t)] = " " /\ t[1] = p.text[1]
           /\ Fits(p.marks, t) /\ InText(p.marks, t) /\ Woven(t, p.marks, c) = PieceSays(p, c)
<1> DEFINE s == p.text
           m == p.marks
           none == <<>>
<1>1. /\ s \in Texts /\ m \in Marks /\ InText(m, s) /\ Len(s) \in Nat /\ Len(s) > 0
      /\ PieceSays(p, c) = Woven(s, m, c)
  BY DEF Fine, PieceType, PieceSays
<1> HIDE DEF s, m
<1>2. PICK x \in Characters : x = " "
  BY DEF Characters
<1> DEFINE t == Append(s, x)
           sp == <<x>>
<1>3. /\ t \in Texts /\ Len(t) = Len(s) + 1 /\ t # <<>> /\ t[Len(s) + 1] = x
      /\ \A n \in 1..Len(s) : t[n] = s[n]
  BY <1>1, AppendHas DEF Texts
<1>12. Len(s) \in Nat /\ Len(t) = Len(s) + 1 /\ 1 \in 1..Len(s)
  <2>1. Len(s) \in Nat /\ Len(s) > 0
    BY <1>1
  <2> QED BY <1>3, <2>1
<1>4. t[1] = s[1] /\ t[Len(t)] = x
  BY <1>3, <1>12
<1>5. sp \in Texts /\ Spaces(sp) /\ none \in Texts /\ Spaces(none) /\ Len(none) = 0 /\ Len(sp) = 1
  <2>1. \A y \in Characters : <<y>> \in Seq(Characters)
    OBVIOUS
  <2>2. Len(<<x>>) = 1 /\ (<<x>>)[1] = x /\ Len(<<>>) = 0 /\ 1..0 = {} /\ 1..1 = {1}
    OBVIOUS
  <2> QED BY <1>2, <2>1, <2>2, EmptySeq DEF Texts, Spaces
<1>6. t = (none \o s) \o sp
  <2>1. s \o <<x>> = Append(s, x)
    BY <1>1, AppendIsConcat DEF Texts
  <2>2. <<>> \o s = s
    BY <1>1, ConcatEmptySeq DEF Texts
  <2> QED BY <2>1, <2>2
<1> HIDE DEF t, sp, none
<1>7. InText(m, t)
  <2>1. DOMAIN m = 1..Len(m) /\ \A n \in 1..Len(m) : m[n][2] \in Nat
    BY <1>1, MarkIs, LenProperties DEF Marks
  <2>2. \A n \in 1..Len(m) : m[n][2] <= Len(s) /\ (n > 1 => m[n - 1][2] <= m[n][2])
    BY <1>1, <2>1 DEF InText
  <2>3. \A n \in 1..Len(m) : m[n][2] <= Len(t)
    BY <1>12, <2>1, <2>2
  <2> QED BY <2>1, <2>2, <2>3 DEF InText
<1>8. Fits(m, t)
  BY <1>1, <1>7, InTextFits
<1>9. Woven(t, m, c) = Woven(s, Inside(m, Len(none), Len(s)), c)
  <2>1. Fits(m, (none \o s) \o sp)
    BY <1>6, <1>8
  <2>2. Woven((none \o s) \o sp, m, c) = Woven(s, Inside(m, Len(none), Len(s)), c)
    <3>1. none \in Texts /\ sp \in Texts /\ s \in Texts /\ m \in Marks /\ Spaces(none) /\ Spaces(sp)
      BY <1>1, <1>5
    <3> QED BY <2>1, <3>1, WovenAround
  <2> QED BY <1>6, <2>2
<1>10. Inside(m, 0, Len(s)) = m
  <2>1. Inside(m, 0, Len(s)) \in Marks /\ Len(Inside(m, 0, Len(s))) = Len(m)
    BY <1>1, InsideIs
  <2>2. ASSUME NEW n \in 1..Len(m)
        PROVE Inside(m, 0, Len(s))[n][1] = m[n][1] /\ Inside(m, 0, Len(s))[n][2] = m[n][2]
    <3>1. m[n][2] \in Nat /\ m[n][2] <= Len(s)
      <4>1. Fits(m, s)
        BY <1>1, InTextFits
      <4> QED BY <1>1, <4>1, MarkIs DEF Fits
    <3>2. Within(m[n][2], 0, Len(s)) = m[n][2]
      BY <1>1, <3>1 DEF Within
    <3>3. 0 \in Nat
      OBVIOUS
    <3> QED BY <1>1, <3>2, <3>3, InsideIs
  <2> QED BY <1>1, <2>1, <2>2, MarksEqual
<1>11. Woven(t, m, c) = PieceSays(p, c)
  BY <1>1, <1>5, <1>9, <1>10
<1> QED BY <1>2, <1>3, <1>4, <1>7, <1>8, <1>11 DEF t, s, m

MarksOf(pieces) == [k \in DOMAIN pieces |-> pieces[k].marks]

LEMMA SpokenIs ==
  ASSUME NEW pieces, FineOnes(pieces), NEW c \in Commands
  PROVE  LET T == SpokenSegments(pieces)
         IN /\ Marked(T, MarksOf(pieces)) /\ Apart(T) /\ All(T, MarksOf(pieces), c) = AllSay(pieces, c)
            /\ Len(T) = Len(pieces)
            /\ \A k \in 1..Len(T) : InText(MarksOf(pieces)[k], T[k])
<1> DEFINE T == SpokenSegments(pieces)
           M == MarksOf(pieces)
           N == Len(pieces)
           Wants(k) == k < N /\ NeedsSegmentSpace(Last(pieces[k].text), Head(pieces[k + 1].text))
<1>1. N \in Nat /\ DOMAIN pieces = 1..N /\ \A k \in 1..N : Fine(pieces[k])
  BY DEF FineOnes
<1>2. T = [k \in 1..N |-> IF Wants(k) THEN Append(pieces[k].text, " ") ELSE pieces[k].text]
  BY <1>1 DEF SpokenSegments
<1>3. M = [k \in 1..N |-> pieces[k].marks]
  BY <1>1 DEF MarksOf
<1>4. ASSUME NEW k \in 1..N, k < N, pieces[k].text[Len(pieces[k].text)] = "a", pieces[k + 1].text[1] = "a"
      PROVE  Wants(k)
  <2>1. k + 1 \in 1..N
    BY <1>1, <1>4
  <2>2. Fine(pieces[k]) /\ Fine(pieces[k + 1])
    BY <1>1, <2>1
  <2>3. Last(pieces[k].text) = "a"
    BY <1>4, <2>2 DEF Last
  <2>4. Head(pieces[k + 1].text) = "a"
    <3>1. \A s \in Seq(Characters) : s # <<>> => Head(s) = s[1]
      OBVIOUS
    <3>2. pieces[k + 1].text \in Seq(Characters) /\ pieces[k + 1].text # <<>>
      BY <2>2 DEF Fine, PieceType, Texts
    <3> QED BY <1>4, <3>1, <3>2
  <2> QED BY <1>4, <2>3, <2>4 DEF NeedsSegmentSpace
<1> HIDE DEF T, M, Wants
<1>5. ASSUME NEW k \in 1..N
      PROVE  /\ T[k] \in Texts /\ M[k] \in Marks /\ T[k] # <<>> /\ Fits(M[k], T[k]) /\ InText(M[k], T[k])
             /\ Woven(T[k], M[k], c) = PieceSays(pieces[k], c) /\ T[k][1] = pieces[k].text[1]
             /\ T[k][Len(T[k])] = "a" => ~Wants(k) /\ pieces[k].text[Len(pieces[k].text)] = "a"
  <2> DEFINE p == pieces[k]
  <2>1. Fine(p)
    BY <1>1
  <2>2. M[k] = p.marks /\ T[k] = IF Wants(k) THEN Append(p.text, " ") ELSE p.text
    BY <1>2, <1>3
  <2>3. p.text \in Texts /\ p.marks \in Marks /\ p.text # <<>> /\ InText(p.marks, p.text)
    BY <2>1 DEF Fine, PieceType
  <2> HIDE DEF p
  <2>4. CASE Wants(k)
    <3>1. /\ T[k] \in Texts /\ T[k] # <<>> /\ T[k][Len(T[k])] = " " /\ T[k][1] = p.text[1]
          /\ Fits(p.marks, T[k]) /\ InText(p.marks, T[k]) /\ Woven(T[k], p.marks, c) = PieceSays(p, c)
      BY <2>1, <2>2, <2>4, SpaceAfter
    <3>2. T[k][Len(T[k])] # "a"
      BY <3>1
    <3> QED BY <2>2, <2>3, <3>1, <3>2 DEF p
  <2>5. CASE ~Wants(k)
    <3>1. T[k] = p.text
      BY <2>2, <2>5
    <3>2. Fits(p.marks, p.text)
      BY <2>3, InTextFits
    <3>3. Woven(p.text, p.marks, c) = PieceSays(p, c)
      BY DEF PieceSays
    <3> QED BY <2>2, <2>3, <2>5, <3>1, <3>2, <3>3 DEF p
  <2> QED BY <2>4, <2>5
<1>6. T \in Seq(Texts) /\ Len(T) = N /\ M \in Seq(Marks) /\ Len(M) = N
  <2>1. T \in [1..N -> Texts] /\ M \in [1..N -> Marks]
    BY <1>2, <1>3, <1>5
  <2> QED BY <1>1, <2>1, FunctionIsSeq
<1>7. Marked(T, M)
  BY <1>5, <1>6 DEF Marked
<1>8. Apart(T)
  <2>1. ASSUME NEW k \in 1..N, k > 1, Touch(T[k - 1], T[k]) PROVE FALSE
    <3>1. k - 1 \in 1..N /\ k - 1 < N /\ (k - 1) + 1 = k
      BY <1>1, <2>1
    <3>2. T[k - 1][Len(T[k - 1])] = "a" /\ T[k][1] = "a"
      BY <2>1 DEF Touch
    <3>3. ~Wants(k - 1) /\ pieces[k - 1].text[Len(pieces[k - 1].text)] = "a"
      BY <1>5, <3>1, <3>2
    <3>4. pieces[k].text[1] = "a"
      BY <1>5, <3>2
    <3> QED BY <1>4, <3>1, <3>3, <3>4
  <2>2. \A k \in 1..N : T[k] # <<>>
    BY <1>5
  <2>3. \A k \in 1..N : k > 1 => ~Touch(T[k - 1], T[k])
    BY <2>1
  <2> QED BY <1>6, <2>2, <2>3 DEF Apart
<1>9. All(T, M, c) = AllSay(pieces, c)
  <2>1. All(T, M, c) = [k \in 1..N |-> Woven(T[k], M[k], c)]
    BY <1>6, LenProperties DEF All
  <2>2. AllSay(pieces, c) = [k \in 1..N |-> PieceSays(pieces[k], c)]
    BY <1>1 DEF AllSay
  <2> QED BY <1>5, <2>1, <2>2
<1> QED BY <1>5, <1>6, <1>7, <1>8, <1>9 DEF T, M

\* A group says what its pieces say.
LEMMA GroupIs ==
  ASSUME NEW pieces, FineOnes(pieces), NEW mode \in PauseModes, inForce \in Commands
  PROVE  Group(pieces, mode) \in ChunkType /\ SaidIn(Group(pieces, mode)) = Together(AllSay(pieces, inForce))
<1> DEFINE T == SpokenSegments(pieces)
           M == MarksOf(pieces)
           g == Group(pieces, mode)
<1>1. /\ Marked(T, M) /\ Apart(T) /\ All(T, M, inForce) = AllSay(pieces, inForce)
      /\ \A k \in 1..Len(T) : InText(M[k], T[k])
  BY SpokenIs
<1>2. /\ g.kind = "text" /\ g.segs = T /\ g.mode = mode /\ g.inForce = inForce
      /\ g.marks = FlattenSeq([k \in DOMAIN pieces |-> Moved(pieces[k].marks, Offset(T, k))])
      /\ g = [kind |-> "text", segs |-> g.segs, mode |-> mode, inForce |-> inForce, marks |-> g.marks]
  BY DEF Group
<1>3. Shifted(T, M) = [k \in DOMAIN pieces |-> Moved(pieces[k].marks, Offset(T, k))]
  <2> HIDE DEF T
  <2>1. DOMAIN M = DOMAIN pieces /\ \A k \in DOMAIN pieces : M[k] = pieces[k].marks
    BY DEF MarksOf
  <2> HIDE DEF M
  <2> QED BY <2>1 DEF Shifted
<1> HIDE DEF T, M, g
<1>4. /\ FlattenSeq(T) \in Texts /\ FlattenSeq(Shifted(T, M)) \in Marks
      /\ Woven(FlattenSeq(T), FlattenSeq(Shifted(T, M)), inForce) = Together(All(T, M, inForce))
      /\ InText(FlattenSeq(Shifted(T, M)), FlattenSeq(T))
  BY <1>1, WovenFlatten
<1>5. g.marks = FlattenSeq(Shifted(T, M))
  BY <1>2, <1>3
<1>6. T \in Seq(Texts)
  BY <1>1 DEF Marked
<1>7. g \in TextChunk /\ InText(g.marks, FlattenSeq(g.segs))
  BY <1>2, <1>4, <1>5, <1>6 DEF TextChunk
<1>8. g \in ChunkType
  BY <1>7 DEF ChunkType
<1>9. SaidIn(g) = Woven(FlattenSeq(T), FlattenSeq(Shifted(T, M)), inForce)
  BY <1>2, <1>5, <1>8, SaidInTyped
<1> QED BY <1>1, <1>4, <1>8, <1>9 DEF g

LEMMA FineStretch ==
  ASSUME NEW pieces, FineOnes(pieces), NEW c \in Commands,
         NEW j \in Nat, NEW n \in Nat, j < n, n <= Len(pieces)
  PROVE  /\ FineOnes(SubSeq(pieces, j + 1, n))
         /\ AllSay(SubSeq(pieces, j + 1, n), c) = SubSeq(AllSay(pieces, c), j + 1, n)
         /\ SubSeq(AllSay(pieces, c), j + 1, n) \in Seq(Sayings)
<1> DEFINE p == SubSeq(pieces, j + 1, n)
           w == AllSay(pieces, c)
           x == SubSeq(w, j + 1, n)
           N == Len(pieces)
<1>1. pieces \in Seq(PieceType) /\ N \in Nat /\ \A k \in 1..N : Fine(pieces[k])
  BY DEF FineOnes
<1>2. w \in Seq(Sayings) /\ Len(w) = N /\ \A k \in 1..N : w[k] = PieceSays(pieces[k], c)
  BY AllSayIs
<1>3. j <= n /\ n - j \in Nat /\ n - j > 0
  OBVIOUS
<1> HIDE DEF w
<1>4. p \in Seq(PieceType) /\ Len(p) = n - j /\ \A i \in 1..n - j : p[i] = pieces[j + i]
  BY <1>1, <1>3, PieceHas
<1>5. x \in Seq(Sayings) /\ Len(x) = n - j /\ \A i \in 1..n - j : x[i] = w[j + i]
  BY <1>2, <1>3, PieceHas
<1>6. \A i \in 1..n - j : j + i \in 1..N
  BY <1>1
<1> HIDE DEF p, x
<1>7. \A i \in 1..n - j : Fine(p[i]) /\ x[i] = PieceSays(p[i], c)
  BY <1>1, <1>2, <1>4, <1>5, <1>6
<1>8. FineOnes(p)
  <2>1. DOMAIN p = 1..Len(p)
    BY <1>4, LenProperties
  <2> QED BY <1>3, <1>4, <1>7, <2>1 DEF FineOnes
<1>9. AllSay(p, c) = x
  <2>1. /\ AllSay(p, c) \in Seq(Sayings) /\ Len(AllSay(p, c)) = Len(p)
        /\ \A k \in 1..Len(p) : AllSay(p, c)[k] = PieceSays(p[k], c)
    BY <1>8, AllSayIs
  <2> DEFINE y == AllSay(p, c)
  <2>2. y \in Seq(Sayings) /\ Len(y) = Len(x) /\ \A k \in 1..Len(x) : y[k] = x[k]
    BY <1>4, <1>5, <1>7, <2>1
  <2> HIDE DEF y
  <2>3. y = x
    BY <1>5, <2>2, SeqEqual
  <2> QED BY <2>3 DEF y
<1> QED BY <1>5, <1>8, <1>9 DEF p, x, w

\* Where the group of a piece begins.
LEMMA BeginsIs ==
  ASSUME NEW pieces, FineOnes(pieces)
  PROVE  LET b == Begins(pieces)
             N == Len(pieces)
         IN \A k \in 1..N : /\ b[k] \in 1..k
                            /\ k = 1 => b[k] = 1
                            /\ k > 1 => b[k] = b[k - 1] \/ b[k] = k
<1> DEFINE b == Begins(pieces)
           N == Len(pieces)
           ends(v, j) == EndsGroup(SubSeq(pieces, v, j))
           nexts == [j \in 1..N - 1 |-> [v \in Nat |-> IF ends(v, j) THEN j + 1 ELSE v]]
<1>1. N \in Nat /\ N > 0 /\ DOMAIN pieces = 1..N
  BY DEF FineOnes
<1> HIDE DEF N
<1>2. nexts \in Steps(N - 1, Nat)
  <2> HIDE DEF ends
  <2>1. \A j \in 1..N - 1 : [v \in Nat |-> IF ends(v, j) THEN j + 1 ELSE v] \in [Nat -> Nat]
    BY <1>1
  <2> QED BY <2>1 DEF Steps
<1>3. \E r \in Runs(N - 1, Nat) : Unrolls(r, N - 1, 1, nexts)
  <2>1. N - 1 \in Nat /\ 1 \in Nat
    BY <1>1
  <2> HIDE DEF nexts
  <2> QED BY <1>2, <2>1, Recursion
<1>4. PICK r \in Runs(N - 1, Nat) : Unrolls(r, N - 1, 1, nexts)
  BY <1>3
<1> HIDE DEF ends
<1>5. r[0] = 1 /\ \A j \in 1..N - 1 : r[j] = (IF ends(r[j - 1], j) THEN j + 1 ELSE r[j - 1])
  <2>1. r[0] = 1 /\ \A j \in 1..N - 1 : r[j] = nexts[j][r[j - 1]]
    BY <1>4 DEF Unrolls
  <2>2. \A j \in 1..N - 1 : j - 1 \in 0..N - 1
    BY <1>1
  <2>3. \A j \in 1..N - 1 : r[j - 1] \in Nat
    BY <1>4, <2>2 DEF Runs
  <2> QED BY <2>1, <2>3
<1> DEFINE f == [k \in 1..N |-> r[k - 1]]
           F(g) == [k \in 1..N |-> IF k = 1 THEN 1 ELSE IF ends(g[k - 1], k - 1) THEN k ELSE g[k - 1]]
<1>6. f = F(f)
  <2>1. ASSUME NEW k \in 1..N, k # 1
        PROVE k - 1 \in 1..N - 1 /\ k - 1 \in 1..N /\ (k - 1) + 1 = k
    <3>1. k \in Nat /\ k >= 1 /\ k <= N
      BY <1>1
    <3> QED BY <1>1, <2>1, <3>1
  <2>2. \A k \in 1..N : r[k - 1] = IF k = 1 THEN 1 ELSE IF ends(f[k - 1], k - 1) THEN k ELSE f[k - 1]
    <3> SUFFICES ASSUME NEW k \in 1..N
                 PROVE r[k - 1] = IF k = 1 THEN 1 ELSE IF ends(f[k - 1], k - 1) THEN k ELSE f[k - 1]
      OBVIOUS
    <3>1. CASE k = 1
      <4>1. k - 1 = 0
        BY <3>1
      <4> QED BY <1>5, <3>1, <4>1
    <3>2. CASE k # 1
      <4>1. k - 1 \in 1..N - 1 /\ k - 1 \in 1..N /\ (k - 1) + 1 = k
        BY <2>1, <3>2
      <4>2. f[k - 1] = r[(k - 1) - 1]
        BY <4>1
      <4>3. r[k - 1] = (IF ends(r[(k - 1) - 1], k - 1) THEN (k - 1) + 1 ELSE r[(k - 1) - 1])
        BY <1>5, <4>1
      <4> HIDE DEF f
      <4> QED BY <3>2, <4>1, <4>2, <4>3
    <3> QED BY <3>1, <3>2
  <2> QED BY <2>2
<1>7. b = CHOOSE g : g = F(g)
  BY <1>1 DEF Begins, ends
<1>8. b = F(b)
  <2> HIDE DEF F, f, b
  <2> QED BY <1>6, <1>7
<1>9. \A k \in 1..N : b[k] = IF k = 1 THEN 1 ELSE IF ends(b[k - 1], k - 1) THEN k ELSE b[k - 1]
  <2> HIDE DEF b, f
  <2> QED BY <1>8
<1> HIDE DEF b, f, F
<1> DEFINE S == {k \in 0..N : k = 0 \/ b[k] \in 1..k}
<1>10. 0 \in S
  BY <1>1
<1>11. ASSUME NEW k \in 1..N, k - 1 \in S PROVE k \in S
  <2>1. CASE k = 1
    <3>1. b[k] = 1
      BY <1>9, <2>1
    <3> QED BY <2>1, <3>1
  <2>2. CASE k # 1
    <3>1. b[k - 1] \in 1..k - 1
      <4>1. k - 1 # 0
        BY <1>1, <2>2
      <4> QED BY <1>11, <4>1
    <3>2. b[k] = k \/ b[k] = b[k - 1]
      BY <1>9, <2>2
    <3>3. k \in Nat /\ k > 0 /\ k \in 0..N
      BY <1>1
    <3>4. b[k] \in 1..k
      BY <3>1, <3>2, <3>3
    <3> QED BY <3>3, <3>4
  <2> QED BY <2>1, <2>2
<1>12. 0..N \subseteq S
  <2> HIDE DEF S
  <2> QED BY <1>1, <1>10, <1>11, InductionUpTo
<1>13. ASSUME NEW k \in 1..N
       PROVE b[k] \in 1..k /\ (k = 1 => b[k] = 1) /\ (k > 1 => b[k] = b[k - 1] \/ b[k] = k)
  <2>1. k # 0 /\ k \in 0..N
    BY <1>1
  <2>2. b[k] \in 1..k
    BY <1>12, <2>1
  <2>3. k = 1 => b[k] = 1
    BY <1>9
  <2>4. k > 1 => b[k] = b[k - 1] \/ b[k] = k
    BY <1>9
  <2> QED BY <2>2, <2>3, <2>4
<1> QED BY <1>13 DEF b, N

\* The groups of a text and the breaks between them.
EndedOnes(pieces, final) == [k \in DOMAIN pieces |-> Ended(pieces, Begins(pieces), k, final)]
DoneBy(b, N, n) == IF n = N THEN N ELSE b[n + 1] - 1

LEMMA TwoJoined ==
  ASSUME NEW E, NEW x \in E, NEW y \in E
  PROVE  <<x, y>> = <<x>> \o <<y>>
<1>1. <<x, y>> \in Seq(E) /\ Len(<<x, y>>) = 2 /\ (<<x, y>>)[1] = x /\ (<<x, y>>)[2] = y
  OBVIOUS
<1>2. <<x>> \in Seq(E) /\ Len(<<x>>) = 1 /\ (<<x>>)[1] = x
  OBVIOUS
<1>3. <<y>> \in Seq(E) /\ Len(<<y>>) = 1 /\ (<<y>>)[1] = y
  OBVIOUS
<1> DEFINE u == <<x, y>>
           a == <<x>>
           b == <<y>>
<1> HIDE DEF u, a, b
<1>4. u \in Seq(E) /\ a \in Seq(E) /\ b \in Seq(E) /\ Len(u) = Len(a) + Len(b)
  BY <1>1, <1>2, <1>3 DEF u, a, b
<1>5. (\A n \in 1..Len(a) : u[n] = a[n]) /\ (\A n \in 1..Len(b) : u[Len(a) + n] = b[n])
  <2>1. Len(a) = 1 /\ Len(b) = 1 /\ u[1] = a[1] /\ u[2] = b[1]
    BY <1>1, <1>2, <1>3 DEF u, a, b
  <2>2. \A n \in 1..1 : n = 1
    OBVIOUS
  <2> QED BY <2>1, <2>2
<1>6. u = a \o b
  BY <1>4, <1>5, JoinedIs
<1> QED BY <1>6 DEF u, a, b

LEMMA EndedIs ==
  ASSUME NEW pieces, FineOnes(pieces), NEW final \in PauseModes, settings.pauses \in PauseModes, inForce \in Commands,
         NEW k \in 1..Len(pieces)
  PROVE  LET b == Begins(pieces)
             e == Ended(pieces, b, k, final)
             w == AllSay(pieces, inForce)
         IN /\ e \in Seq(ChunkType)
            /\ \/ DoneBy(b, Len(pieces), k) = k /\ Told(e) = Together(SubSeq(w, b[k], k))
               \/ DoneBy(b, Len(pieces), k) = b[k] - 1 /\ Told(e) = Silence
<1> DEFINE b == Begins(pieces)
           e == Ended(pieces, b, k, final)
           w == AllSay(pieces, inForce)
           N == Len(pieces)
           p == SubSeq(pieces, b[k], k)
<1>1. N \in Nat /\ k \in 1..N
  BY DEF FineOnes
<1>2. b[k] \in 1..k /\ (k < N => b[k + 1] = b[k] \/ b[k + 1] = k + 1)
  <2>1. b[k] \in 1..k
    BY BeginsIs
  <2>2. ASSUME k < N PROVE b[k + 1] = b[k] \/ b[k + 1] = k + 1
    <3> DEFINE i == k + 1
    <3>1. i \in 1..N /\ i > 1 /\ i - 1 = k
      BY <1>1, <2>2
    <3> HIDE DEF i
    <3>2. b[i] = b[i - 1] \/ b[i] = i
      BY <3>1, BeginsIs
    <3> QED BY <3>1, <3>2 DEF i
  <2> QED BY <2>1, <2>2
<1>3. FineOnes(p) /\ AllSay(p, inForce) = SubSeq(w, b[k], k)
  <2>1. PICK j \in Nat : j + 1 = b[k]
    <3>1. b[k] - 1 \in Nat /\ (b[k] - 1) + 1 = b[k]
      BY <1>2
    <3> QED BY <3>1
  <2> HIDE DEF b, w
  <2>2. j < k /\ k \in Nat /\ k <= N
    BY <1>1, <1>2, <2>1
  <2>3. /\ FineOnes(SubSeq(pieces, j + 1, k))
        /\ AllSay(SubSeq(pieces, j + 1, k), inForce) = SubSeq(AllSay(pieces, inForce), j + 1, k)
    BY <2>2, FineStretch
  <2> QED BY <2>1, <2>3 DEF w
<1> HIDE DEF b, w
<1>4. InnerMode \in PauseModes
  BY DEF InnerMode, PauseModes
<1>5. e = IF k = N THEN <<Group(p, final)>>
          ELSE IF b[k + 1] = b[k] THEN <<>>
          ELSE <<Group(p, InnerMode), SentenceBreak>>
  BY DEF Ended
<1> HIDE DEF e, p
<1>6. \A mode \in PauseModes : Group(p, mode) \in ChunkType /\ SaidIn(Group(p, mode)) = Together(SubSeq(w, b[k], k))
  BY <1>3, GroupIs
<1>7. CASE k = N
  <2>1. e = <<Group(p, final)>>
    BY <1>5, <1>7
  <2>2. Told(<<Group(p, final)>>) = SaidIn(Group(p, final)) /\ <<Group(p, final)>> \in Seq(ChunkType)
    BY <1>6, ToldOne
  <2>3. DoneBy(b, N, k) = k
    BY <1>7 DEF DoneBy
  <2> QED BY <1>6, <2>1, <2>2, <2>3 DEF e, b, w
<1>8. CASE k # N /\ b[k + 1] = b[k]
  <2>1. e = <<>>
    BY <1>5, <1>8
  <2>2. DoneBy(b, N, k) = b[k] - 1
    BY <1>8 DEF DoneBy
  <2> QED BY <2>1, <2>2, ToldEmpty DEF e, b, w
<1>9. CASE k # N /\ b[k + 1] # b[k]
  <2>1. e = <<Group(p, InnerMode), SentenceBreak>>
    BY <1>5, <1>9
  <2>2. DoneBy(b, N, k) = k
    <3>1. k < N
      BY <1>1, <1>9
    <3>2. b[k + 1] = k + 1 /\ (k + 1) - 1 = k
      BY <1>1, <1>2, <1>9, <3>1
    <3> QED BY <1>9, <3>2 DEF DoneBy
  <2>3. SentenceBreak \in ChunkType /\ SaidIn(SentenceBreak) = Silence
    <3>1. SentenceBreak = [kind |-> "sentence break"] /\ SentenceBreak.kind = "sentence break"
      BY DEF SentenceBreak
    <3> QED BY <3>1 DEF ChunkType, SaidIn
  <2> DEFINE g == Group(p, InnerMode)
             v == SentenceBreak
             x == Together(SubSeq(w, b[k], k))
  <2>4. g \in ChunkType /\ SaidIn(g) = x /\ v \in ChunkType /\ SaidIn(v) = Silence /\ e = <<g, v>>
    BY <1>4, <1>6, <2>1, <2>3
  <2> HIDE DEF g, v, x
  <2>5. <<g, v>> = <<g>> \o <<v>>
    BY <2>4, TwoJoined
  <2>6. Told(<<g>>) = x /\ <<g>> \in Seq(ChunkType) /\ Told(<<v>>) = Silence /\ <<v>> \in Seq(ChunkType) /\ x \in Sayings
    BY <2>4, ToldOne
  <2>7. Told(<<g>> \o <<v>>) = Then(Told(<<g>>), Told(<<v>>)) /\ <<g>> \o <<v>> \in Seq(ChunkType)
    BY <2>6, ToldJoined
  <2>8. Then(x, Silence) = x
    BY <2>6, SilenceIs
  <2>9. Told(e) = x /\ e \in Seq(ChunkType)
    BY <2>4, <2>5, <2>6, <2>7, <2>8
  <2> QED BY <2>2, <2>9 DEF e, b, w, x
<1> QED BY <1>7, <1>8, <1>9

LEMMA StretchAdds ==
  ASSUME NEW w \in Seq(Sayings), NEW b \in Nat, NEW n \in Nat, b > 0, b <= n, n <= Len(w)
  PROVE  Together(SubSeq(w, 1, n)) = Then(Together(SubSeq(w, 1, b - 1)), Together(SubSeq(w, b, n)))
<1>1. PICK j \in Nat : j + 1 = b /\ j = b - 1 /\ j <= n
  <2>1. b - 1 \in Nat /\ (b - 1) + 1 = b /\ b - 1 <= n
    OBVIOUS
  <2> QED BY <2>1
<1>2. SubSeq(w, 1, j) \in Seq(Sayings) /\ SubSeq(w, 1, j) \o SubSeq(w, j + 1, n) = SubSeq(w, 1, n)
  BY <1>1, BeginningAndOn
<1>3. SubSeq(w, j + 1, n) \in Seq(Sayings)
  BY <1>1, PieceHas
<1> DEFINE u == SubSeq(w, 1, j)
           v == SubSeq(w, j + 1, n)
<1>4. u \in Seq(Sayings) /\ v \in Seq(Sayings) /\ u \o v = SubSeq(w, 1, n)
  BY <1>2, <1>3
<1>5. u = SubSeq(w, 1, b - 1) /\ v = SubSeq(w, b, n)
  BY <1>1
<1> HIDE DEF u, v
<1>6. Together(u \o v) = Then(Together(u), Together(v))
  BY <1>4, TogetherJoined
<1> QED BY <1>4, <1>5, <1>6

LEMMA FlattenGrows ==
  ASSUME NEW E, NEW ss \in Seq(Seq(E)), NEW k \in 1..Len(ss)
  PROVE  /\ FlattenSeq(SubSeq(ss, 1, k)) = FlattenSeq(SubSeq(ss, 1, k - 1)) \o ss[k]
         /\ FlattenSeq(SubSeq(ss, 1, k - 1)) \in Seq(E) /\ ss[k] \in Seq(E)
<1>1. SubSeq(ss, 1, k) = Append(SubSeq(ss, 1, k - 1), ss[k]) /\ SubSeq(ss, 1, k - 1) \in Seq(Seq(E)) /\ ss[k] \in Seq(E)
  BY BeginningGrows
<1> DEFINE u == SubSeq(ss, 1, k - 1)
           x == ss[k]
<1>2. u \in Seq(Seq(E)) /\ x \in Seq(E) /\ SubSeq(ss, 1, k) = Append(u, x)
  BY <1>1
<1> HIDE DEF u, x
<1>3. FlattenSeq(Append(u, x)) = FlattenSeq(u) \o x /\ FlattenSeq(u) \in Seq(E)
  BY <1>2, FlattenAppend, FlattenTyped
<1> QED BY <1>2, <1>3 DEF u, x

LEMMA GroupedIs ==
  ASSUME NEW pieces, FineOnes(pieces), NEW final \in PauseModes, settings.pauses \in PauseModes, inForce \in Commands
  PROVE  Grouped(pieces, final) \in Seq(ChunkType) /\ Told(Grouped(pieces, final)) = Together(AllSay(pieces, inForce))
<1> DEFINE b == Begins(pieces)
           N == Len(pieces)
           w == AllSay(pieces, inForce)
           E == EndedOnes(pieces, final)
           T(n) == Told(FlattenSeq(SubSeq(E, 1, n)))
<1>1. N \in Nat /\ N > 0 /\ DOMAIN pieces = 1..N
  BY DEF FineOnes
<1>2. w \in Seq(Sayings) /\ Len(w) = N
  BY AllSayIs
<1>3. \A k \in 1..N :
        /\ E[k] \in Seq(ChunkType)
        /\ \/ DoneBy(b, N, k) = k /\ Told(E[k]) = Together(SubSeq(w, b[k], k))
           \/ DoneBy(b, N, k) = b[k] - 1 /\ Told(E[k]) = Silence
  <2> SUFFICES ASSUME NEW k \in 1..N
               PROVE /\ E[k] \in Seq(ChunkType)
                     /\ \/ DoneBy(b, N, k) = k /\ Told(E[k]) = Together(SubSeq(w, b[k], k))
                        \/ DoneBy(b, N, k) = b[k] - 1 /\ Told(E[k]) = Silence
    OBVIOUS
  <2>1. E[k] = Ended(pieces, b, k, final)
    BY <1>1 DEF EndedOnes
  <2> QED BY <2>1, EndedIs
<1>4. E \in Seq(Seq(ChunkType)) /\ Len(E) = N
  <2>1. DOMAIN E = 1..N /\ E = [k \in 1..N |-> E[k]]
    BY <1>1 DEF EndedOnes
  <2> HIDE DEF E
  <2>2. E \in [1..N -> Seq(ChunkType)]
    BY <1>3, <2>1
  <2> QED BY <1>1, <2>2, FunctionIsSeq
<1>5. \A k \in 1..N : b[k] \in 1..k /\ (k = 1 => b[k] = 1)
  BY BeginsIs
<1>6. Grouped(pieces, final) = FlattenSeq(E)
  BY DEF Grouped, EndedOnes
<1> HIDE DEF b, w, E
<1> DEFINE S == {n \in 0..N : T(n) = Together(SubSeq(w, 1, DoneBy(b, N, n)))}
<1>7. 0 \in S
  <2>1. DoneBy(b, N, 0) = 0
    <3>1. 0 # N /\ 0 + 1 = 1 /\ 1 \in 1..N
      BY <1>1
    <3>2. b[1] = 1
      BY <1>5, <3>1
    <3> QED BY <3>1, <3>2 DEF DoneBy
  <2>2. T(0) = Silence /\ Together(SubSeq(w, 1, 0)) = Silence
    BY NoBeginning, FlattenEmpty, ToldEmpty, TogetherEmpty
  <2> QED BY <1>1, <2>1, <2>2
<1>8. ASSUME NEW k \in 1..N, k - 1 \in S PROVE k \in S
  <2> DEFINE f == FlattenSeq(SubSeq(E, 1, k - 1))
             x == E[k]
             d == DoneBy(b, N, k)
             a == b[k]
  <2>1. a \in Nat /\ a > 0 /\ a <= k /\ k \in Nat /\ k <= N /\ k \in 0..N
    BY <1>1, <1>5
  <2>2. DoneBy(b, N, k - 1) = a - 1
    <3>1. k - 1 # N /\ (k - 1) + 1 = k
      BY <1>1
    <3> QED BY <3>1 DEF DoneBy
  <2>3. Told(f) = Together(SubSeq(w, 1, a - 1))
    BY <1>8, <2>2
  <2>4. FlattenSeq(SubSeq(E, 1, k)) = f \o x /\ f \in Seq(ChunkType) /\ x \in Seq(ChunkType)
    BY <1>4, FlattenGrows
  <2>5. T(k) = Then(Told(f), Told(x)) /\ Told(f) \in Sayings
    <3> HIDE DEF f, x
    <3> QED BY <2>4, ToldJoined, ToldIs
  <2>6. \/ d = k /\ Told(x) = Together(SubSeq(w, a, k))
        \/ d = a - 1 /\ Told(x) = Silence
    BY <1>3
  <2> HIDE DEF f, x, d, a, T
  <2>7. T(k) = Together(SubSeq(w, 1, d))
    <3>1. CASE d = k /\ Told(x) = Together(SubSeq(w, a, k))
      <4>1. Together(SubSeq(w, 1, k)) = Then(Together(SubSeq(w, 1, a - 1)), Together(SubSeq(w, a, k)))
        BY <1>2, <2>1, StretchAdds
      <4> QED BY <2>3, <2>5, <3>1, <4>1
    <3>2. CASE d = a - 1 /\ Told(x) = Silence
      <4>1. Then(Told(f), Silence) = Told(f)
        BY <2>5, SilenceIs
      <4> QED BY <2>3, <2>5, <3>2, <4>1
    <3> QED BY <2>6, <3>1, <3>2
  <2> QED BY <2>1, <2>7 DEF d
<1>9. N \in S
  <2>1. 0..N \subseteq S
    <3> HIDE DEF S
    <3> QED BY <1>1, <1>7, <1>8, InductionUpTo
  <2> QED BY <1>1, <2>1
<1>10. DoneBy(b, N, N) = N
  BY DEF DoneBy
<1>11. SubSeq(E, 1, N) = E /\ SubSeq(w, 1, N) = w
  BY <1>2, <1>4, SubSeqFull
<1>12. Told(FlattenSeq(E)) = Together(w)
  BY <1>9, <1>10, <1>11
<1>13. FlattenSeq(E) \in Seq(ChunkType)
  BY <1>4, FlattenTyped
<1> QED BY <1>6, <1>12, <1>13 DEF w

-----------------------------------------------------------------------------
(* A text and its indexes, given                                             *)

LEMMA ChosenInText ==
  ASSUME NEW m \in Marks, NEW s \in Texts, InText(m, s), NEW P
  PROVE  Chosen(m, P) \in Marks /\ InText(Chosen(m, P), s)
<1> DEFINE c == Chosen(m, P)
<1>1. c \in Marks
  BY ChosenTyped DEF Marks
<1>2. \E p \in [1..Len(c) -> 1..Len(m)] :
         /\ \A i \in 1..Len(c) : p[i] \in P /\ c[i] = m[p[i]]
         /\ \A i \in 1..Len(c) : i > 1 => p[i - 1] < p[i]
  BY ChosenFrom DEF Marks
<1> HIDE DEF c
<1>3. PICK p \in [1..Len(c) -> 1..Len(m)] :
         /\ \A i \in 1..Len(c) : p[i] \in P /\ c[i] = m[p[i]]
         /\ \A i \in 1..Len(c) : i > 1 => p[i - 1] < p[i]
  BY <1>2
<1>4. DOMAIN c = 1..Len(c) /\ DOMAIN m = 1..Len(m) /\ Len(c) \in Nat /\ Len(m) \in Nat
  BY <1>1, LenProperties DEF Marks
<1>5. \A n \in 1..Len(m) : m[n][2] <= Len(s) /\ (n > 1 => m[n - 1][2] <= m[n][2])
  BY <1>4 DEF InText
<1>6. \A i, j \in 1..Len(m) : i <= j => m[i][2] <= m[j][2]
  BY <1>5, MarksSorted
<1>7. ASSUME NEW i \in 1..Len(c) PROVE c[i][2] <= Len(s) /\ (i > 1 => c[i - 1][2] <= c[i][2])
  <2>1. c[i] = m[p[i]] /\ p[i] \in 1..Len(m)
    BY <1>3
  <2>2. c[i][2] <= Len(s)
    BY <1>5, <2>1
  <2>3. ASSUME i > 1 PROVE c[i - 1][2] <= c[i][2]
    <3>1. i - 1 \in 1..Len(c)
      BY <1>4, <2>3
    <3>2. c[i - 1] = m[p[i - 1]] /\ p[i - 1] \in 1..Len(m) /\ p[i - 1] < p[i]
      BY <1>3, <2>3, <3>1
    <3>3. p[i - 1] <= p[i]
      BY <1>4, <2>1, <3>2
    <3> QED BY <1>6, <2>1, <3>2, <3>3
  <2> QED BY <2>2, <2>3
<1>8. InText(c, s)
  BY <1>4, <1>7 DEF InText
<1> QED BY <1>1, <1>8 DEF c

\* Indexes without a text say what they say in a text that is blank.
LEMMA BlankSays ==
  ASSUME NEW s \in Texts, Blank(s), NEW m \in Marks, Fits(m, s), NEW c \in Commands
  PROVE  Told(Indexes(m)) = Woven(s, m, c)
<1> DEFINE x == Told(Indexes(m))
           y == Woven(s, m, c)
<1>1. /\ Indexes(m) \in Seq(ChunkType) /\ x.letters = <<>> /\ x.glued = <<>> /\ Len(x.stops) = Len(m)
      /\ \A n \in 1..Len(m) : x.stops[n] = <<m[n][1], 0>>
  BY ToldIndexes
<1>2. x \in Sayings
  BY <1>1, ToldIs
<1>3. /\ y \in Sayings /\ y.letters = Letters(s, c) /\ y.glued = Glued(s) /\ Len(y.stops) = Len(m)
      /\ \A n \in 1..Len(m) : y.stops[n][1] = m[n][1] /\ y.stops[n][2] = Count(s, m[n][2], c)
  BY WovenIs
<1>4. Spaces(s) /\ Len(s) \in Nat
  BY InkIs
<1>5. Letters(s, c) = <<>> /\ Glued(s) = <<>>
  BY <1>4, LettersBlank DEF Spaces
<1>6. \A n \in 1..Len(m) : Count(s, m[n][2], c) = 0
  <2> SUFFICES ASSUME NEW n \in 1..Len(m) PROVE Count(s, m[n][2], c) = 0
    OBVIOUS
  <2>1. m[n][2] \in 0..Len(s)
    <3>1. m[n][2] \in Nat /\ m[n][2] <= Len(s)
      BY MarkIs DEF Fits
    <3> QED BY <1>4, <3>1
  <2> QED BY <1>4, <2>1, SpacesCount
<1> HIDE DEF x, y
<1>7. x.stops = y.stops
  <2>1. x.stops \in Marks /\ y.stops \in Marks /\ Len(x.stops) = Len(y.stops)
    BY <1>1, <1>2, <1>3, SayingIs
  <2>2. \A n \in 1..Len(x.stops) : x.stops[n][1] = y.stops[n][1] /\ x.stops[n][2] = y.stops[n][2]
    BY <1>1, <1>3, <1>6
  <2> QED BY <2>1, <2>2, MarksEqual
<1>8. x = y
  BY <1>1, <1>2, <1>3, <1>5, <1>7, SayingsEqual
<1> QED BY <1>8 DEF x, y

\* The indexes after a text say what they say at its end.
LEMMA TrailsSay ==
  ASSUME NEW s \in Texts, NEW p \in Marks, Fits(p, s), NEW q \in Marks, NEW c \in Commands,
         \A n \in 1..Len(q) : q[n][2] = Len(s)
  PROVE  Then(Woven(s, p, c), Told(Indexes(q))) = Woven(s, p \o q, c)
<1> DEFINE b == Len(s)
           o == Back(q, b)
           none == <<>>
<1>1. b \in Nat
  BY LenProperties DEF Texts
<1>2. \A n \in 1..Len(q) : b <= q[n][2]
  BY <1>1
<1>3. /\ o \in Marks /\ Len(o) = Len(q) /\ Len(q) \in Nat /\ Moved(o, b) = q
      /\ \A n \in 1..Len(q) : o[n][1] = q[n][1] /\ o[n][2] = q[n][2] - b
  BY <1>1, <1>2, BackIs
<1>4. \A n \in 1..Len(q) : o[n][2] = 0
  BY <1>1, <1>3
<1>5. none \in Texts /\ Len(none) = 0 /\ Blank(none) /\ s \o none = s /\ ~Touch(s, none)
  <2>1. Len(<<>>) = 0 /\ 1..0 = {} /\ <<>> \in Texts
    BY EmptySeq DEF Texts
  <2>2. Spaces(<<>>)
    BY <2>1 DEF Spaces
  <2>3. Blank(<<>>)
    BY <2>1, <2>2, InkIs
  <2>4. s \o <<>> = s
    BY ConcatEmptySeq DEF Texts
  <2> QED BY <2>1, <2>3, <2>4 DEF Touch
<1> HIDE DEF o, b, none
<1>6. Fits(o, none)
  BY <1>3, <1>4, <1>5 DEF Fits
<1>7. Told(Indexes(o)) = Woven(none, o, c)
  BY <1>3, <1>5, <1>6, BlankSays
<1>8. Indexes(o) = Indexes(q)
  <2>1. DOMAIN o = 1..Len(q) /\ DOMAIN q = 1..Len(q)
    BY <1>3, LenProperties DEF Marks
  <2> QED BY <1>3, <2>1 DEF Indexes
<1>9. Then(Woven(s, p, c), Woven(none, o, c)) = Woven(s \o none, p \o Moved(o, Len(s)), c)
  <2>1. o \in Marks /\ none \in Texts /\ Fits(o, none)
    BY <1>3, <1>5, <1>6
  <2>2. ~Touch(s, none) => Then(Woven(s, p, c), Woven(none, o, c)) = Woven(s \o none, p \o Moved(o, Len(s)), c)
    BY <2>1, WovenJoined
  <2> QED BY <1>5, <2>2
<1> QED BY <1>3, <1>5, <1>7, <1>8, <1>9 DEF b

\* The indexes of a text that are given with it, and the ones given after it.
LEMMA TrailsAre ==
  ASSUME NEW s \in Texts, NEW m \in Marks, InText(m, s), NEW isEnd \in BOOLEAN
  PROVE  LET trails == {n \in DOMAIN m : isEnd /\ m[n][2] >= Len(s)}
             kept == Chosen(m, DOMAIN m \ trails)
             after == Chosen(m, trails)
         IN /\ kept \in Marks /\ InText(kept, s) /\ after \in Marks /\ kept \o after = m
            /\ \A n \in 1..Len(after) : after[n][2] = Len(s)
<1> DEFINE Q == {n \in DOMAIN m : isEnd /\ m[n][2] >= Len(s)}
           P == DOMAIN m \ Q
<1>1. DOMAIN m = 1..Len(m) /\ Len(m) \in Nat /\ Len(s) \in Nat
  BY LenProperties DEF Marks, Texts
<1>2. \A n \in 1..Len(m) : m[n][2] \in Nat /\ m[n][2] <= Len(s) /\ (n > 1 => m[n - 1][2] <= m[n][2])
  BY <1>1, MarkIs DEF InText
<1>3. \A i, j \in 1..Len(m) : i <= j => m[i][2] <= m[j][2]
  BY <1>2, MarksSorted
<1>4. \A i, j \in 1..Len(m) : i \in P /\ j \in Q => i < j
  <2> SUFFICES ASSUME NEW i \in 1..Len(m), NEW j \in 1..Len(m), i \in P, j \in Q, ~(i < j) PROVE FALSE
    OBVIOUS
  <2>1. j <= i
    BY <1>1
  <2>2. m[j][2] <= m[i][2] /\ m[i][2] \in Nat /\ m[j][2] \in Nat
    BY <1>2, <1>3, <2>1
  <2>3. isEnd /\ m[j][2] >= Len(s) /\ ~(isEnd /\ m[i][2] >= Len(s))
    BY <1>1
  <2>4. m[i][2] >= Len(s)
    BY <1>1, <2>2, <2>3
  <2> QED BY <2>3, <2>4
<1>5. P \cup Q = 1..Len(m)
  BY <1>1
<1>6. \A n \in Q : n \in 1..Len(m) /\ m[n][2] = Len(s)
  <2> SUFFICES ASSUME NEW n \in Q PROVE n \in 1..Len(m) /\ m[n][2] = Len(s)
    OBVIOUS
  <2>1. n \in 1..Len(m) /\ m[n][2] >= Len(s)
    BY <1>1
  <2>2. m[n][2] \in Nat /\ m[n][2] <= Len(s)
    BY <1>2, <2>1
  <2> QED BY <1>1, <2>1, <2>2
<1> HIDE DEF P, Q
<1>7. Chosen(m, P \cup Q) = Chosen(m, P) \o Chosen(m, Q)
  BY <1>4, ChosenInTwo DEF Marks
<1>8. Chosen(m, 1..Len(m)) = m
  BY ChosenAll DEF Marks
<1>9. Chosen(m, P) \in Marks /\ InText(Chosen(m, P), s) /\ Chosen(m, Q) \in Marks
  BY ChosenInText
<1>10. \A n \in 1..Len(Chosen(m, Q)) : Chosen(m, Q)[n][2] = Len(s)
  <2>1. \E p \in [1..Len(Chosen(m, Q)) -> 1..Len(m)] :
          \A i \in 1..Len(Chosen(m, Q)) : p[i] \in Q /\ Chosen(m, Q)[i] = m[p[i]]
    BY ChosenFrom DEF Marks
  <2> DEFINE a == Chosen(m, Q)
  <2>2. \E p \in [1..Len(a) -> 1..Len(m)] : \A i \in 1..Len(a) : p[i] \in Q /\ a[i] = m[p[i]]
    BY <2>1
  <2> HIDE DEF a
  <2>3. \A n \in 1..Len(a) : a[n][2] = Len(s)
    BY <1>6, <2>2
  <2> QED BY <2>3 DEF a
<1> QED BY <1>5, <1>7, <1>8, <1>9, <1>10 DEF P, Q

\* Where the settings that a text is given under are what they may be.
Settled == settings.pauses \in PauseModes /\ inForce \in Commands
Noted(s) == noted \in Marks /\ InText(noted, s)

LEMMA YieldedIs ==
  ASSUME Settled, Joined \in Texts, ~Blank(Joined), Noted(Joined), NEW isEnd \in BOOLEAN,
         NEW ends \in Cuts(Strip(Joined))
  PROVE  LET y == Yielded(isEnd, Strip(Joined), ends)
         IN /\ y \in Seq(ChunkType)
            /\ \A spells \in BOOLEAN : Says(Told(y), Woven(Joined, noted, inForce), spells)
<1> DEFINE J == Joined
           s == Strip(J)
           from == LeftTrimmed(J)
           m == [n \in DOMAIN noted |-> <<noted[n][1], Within(noted[n][2], from, Len(s))>>]
           trails == {n \in DOMAIN m : isEnd /\ m[n][2] >= Len(s)}
           kept == Chosen(m, DOMAIN m \ trails)
           after == Chosen(m, trails)
           pieces == Pieces(s, kept, ends)
           last == Last(pieces).text
           final == FinalMode(isEnd, last)
           mid == IF isEnd /\ settings.pauses = "end pauses" /\ EndsWithPausePunctuation(last)
                    THEN <<[kind |-> "end pause"]>> ELSE <<>>
           y == Yielded(isEnd, s, ends)
<1>1. y = Grouped(pieces, final) \o mid \o Indexes(after)
  BY DEF Yielded
<1>2. PICK l \in Texts, r \in Texts :
           /\ Spaces(l) /\ Spaces(r) /\ Len(l) = from /\ J = (l \o s) \o r
           /\ s \in Texts
  BY StripIs
<1>3. noted \in Marks /\ InText(noted, J)
  BY DEF Noted
<1>4. m = Inside(noted, from, Len(s))
  BY DEF Inside
<1> HIDE DEF J, y, s, from, m, trails, kept, after, pieces, final, mid
<1>5. from \in Nat /\ Len(s) \in Nat
  BY <1>2, LenProperties DEF Texts
<1>6. InText(m, s) /\ m \in Marks
  <2>1. \A n \in 1..Len(noted) : n > 1 => noted[n - 1][2] <= noted[n][2]
    <3>1. DOMAIN noted = 1..Len(noted)
      BY <1>3, LenProperties DEF Marks
    <3> QED BY <1>3, <3>1 DEF InText
  <2> QED BY <1>2, <1>3, <1>4, <1>5, <2>1, InsideInText, InsideIs
<1>7. /\ kept \in Marks /\ InText(kept, s) /\ after \in Marks /\ kept \o after = m
      /\ \A n \in 1..Len(after) : after[n][2] = Len(s)
  BY <1>2, <1>6, TrailsAre DEF kept, after, trails
<1>8. ends \in Cuts(s) /\ settings.pauses \in PauseModes /\ inForce \in Commands
  BY DEF s, J, Settled
<1>9. /\ FineOnes(pieces)
      /\ \A spells \in BOOLEAN : Says(Together(AllSay(pieces, inForce)), Woven(s, kept, inForce), spells)
  <2>1. /\ FineOnes(Pieces(s, kept, ends))
        /\ \A c \in Commands, spells \in BOOLEAN :
             Says(Together(AllSay(Pieces(s, kept, ends), c)), Woven(s, kept, c), spells)
    BY <1>2, <1>7, <1>8, PiecesSay
  <2> QED BY <1>8, <2>1 DEF pieces
<1>10. final \in PauseModes
  <2>1. settings.pauses \in PauseModes
    BY <1>8
  <2> QED BY <2>1 DEF final, FinalMode, PauseModes
<1> DEFINE g == Grouped(pieces, final)
           i == Indexes(after)
           w == Together(AllSay(pieces, inForce))
<1>11. g \in Seq(ChunkType) /\ Told(g) = w
  BY <1>8, <1>9, <1>10, GroupedIs
<1>12. mid \in Seq(ChunkType) /\ Told(mid) = Silence
  <2> DEFINE v == [kind |-> "end pause"]
  <2>1. v \in ChunkType /\ SaidIn(v) = Silence
    <3>1. v.kind = "end pause"
      OBVIOUS
    <3> QED BY <3>1 DEF ChunkType, SaidIn
  <2>2. mid = <<v>> \/ mid = <<>>
    BY DEF mid
  <2> HIDE DEF v
  <2> QED BY <2>1, <2>2, ToldOne, ToldEmpty
<1>13. i \in Seq(ChunkType)
  BY <1>7, ToldIndexes
<1>14. y = g \o mid \o i
  BY <1>1
<1> HIDE DEF g, i
<1> DEFINE a == g \o mid
<1>15. a \in Seq(ChunkType) /\ Told(a) = w /\ w \in Sayings
  <2>1. Told(g \o mid) = Then(Told(g), Told(mid)) /\ g \o mid \in Seq(ChunkType)
    BY <1>11, <1>12, ToldJoined
  <2>2. Told(g) \in Sayings
    BY <1>11, ToldIs
  <2>3. Then(Told(g), Silence) = Told(g)
    BY <2>2, SilenceIs
  <2> QED BY <1>11, <1>12, <2>1, <2>2, <2>3
<1>16. y = a \o i
  BY <1>14
<1> HIDE DEF a
<1>17. y \in Seq(ChunkType) /\ Told(y) = Then(w, Told(i))
  BY <1>13, <1>15, <1>16, ToldJoined
<1>18. Then(Woven(s, kept, inForce), Told(i)) = Woven(s, m, inForce)
  <2>1. Fits(kept, s)
    BY <1>7, InTextFits
  <2>2. Then(Woven(s, kept, inForce), Told(Indexes(after))) = Woven(s, kept \o after, inForce)
    BY <1>2, <1>7, <1>8, <2>1, TrailsSay
  <2> QED BY <1>7, <2>2 DEF i
<1>19. Woven(J, noted, inForce) = Woven(s, m, inForce)
  <2>1. Fits(noted, (l \o s) \o r)
    BY <1>2, <1>3, InTextFits
  <2>2. Woven((l \o s) \o r, noted, inForce) = Woven(s, Inside(noted, Len(l), Len(s)), inForce)
    BY <1>2, <1>3, <1>8, <2>1, WovenAround
  <2> QED BY <1>2, <1>4, <2>2
<1>20. ASSUME NEW spells \in BOOLEAN PROVE Says(Told(y), Woven(J, noted, inForce), spells)
  <2> DEFINE k == Woven(s, kept, inForce)
             t == Told(i)
  <2>1. k \in Sayings
    BY <1>2, <1>7, <1>8, InTextFits, WovenIs
  <2>2. t \in Sayings
    BY <1>13, ToldIs
  <2>3. Says(w, k, spells)
    BY <1>9
  <2>4. Then(k, t) = Woven(J, noted, inForce) /\ Told(y) = Then(w, t)
    BY <1>17, <1>18, <1>19
  <2> HIDE DEF k, t, w
  <2>5. Says(t, t, spells)
    BY <2>2, SaysItself
  <2>6. Says(Then(w, t), Then(k, t), spells)
    BY <1>15, <2>1, <2>2, <2>3, <2>5, SaysBoth
  <2> QED BY <2>4, <2>6
<1> QED BY <1>17, <1>20 DEF y, s, J

LEMMA FlushedIs ==
  ASSUME Settled, Joined \in Texts, Noted(Joined), NEW isEnd \in BOOLEAN,
         NEW flushed \in IF Blank(Joined) THEN {Indexes(noted)}
                         ELSE {Yielded(isEnd, Strip(Joined), ends) : ends \in Cuts(Strip(Joined))}
  PROVE  /\ flushed \in Seq(ChunkType)
         /\ \A spells \in BOOLEAN : Says(Told(flushed), Woven(Joined, noted, inForce), spells)
<1>1. CASE Blank(Joined)
  <2>1. flushed = Indexes(noted) /\ noted \in Marks /\ inForce \in Commands /\ Fits(noted, Joined)
    BY <1>1, InTextFits DEF Noted, Settled
  <2>2. Told(Indexes(noted)) = Woven(Joined, noted, inForce)
    BY <1>1, <2>1, BlankSays
  <2>3. Indexes(noted) \in Seq(ChunkType)
    BY <2>1, ToldIndexes
  <2>4. Woven(Joined, noted, inForce) \in Sayings
    BY <2>1, WovenIs
  <2>5. \A spells \in BOOLEAN : Says(Told(flushed), Woven(Joined, noted, inForce), spells)
    BY <2>1, <2>2, <2>4, SaysItself
  <2> QED BY <2>1, <2>3, <2>5
<1>2. CASE ~Blank(Joined)
  <2>1. PICK ends \in Cuts(Strip(Joined)) : flushed = Yielded(isEnd, Strip(Joined), ends)
    BY <1>2
  <2> QED BY <1>2, <2>1, YieldedIs
<1> QED BY <1>1, <1>2

-----------------------------------------------------------------------------
(* Letters that are spelled are put apart                                    *)

LEMMA CountGrows ==
  ASSUME NEW s \in Texts, NEW c \in Commands, NEW i \in Nat, NEW o \in Nat, i <= o, o <= Len(s)
  PROVE  Count(s, i, c) <= Count(s, o, c) /\ Count(s, i, c) \in Nat /\ Count(s, o, c) \in Nat
<1> DEFINE a == SubSeq(s, 1, i)
           b == SubSeq(s, i + 1, o)
<1>1. a \in Texts /\ b \in Texts /\ a \o b = SubSeq(s, 1, o)
  <2>1. SubSeq(s, 1, i) \in Seq(Characters) /\ SubSeq(s, 1, i) \o SubSeq(s, i + 1, o) = SubSeq(s, 1, o)
    BY BeginningAndOn DEF Texts
  <2>2. SubSeq(s, i + 1, o) \in Seq(Characters)
    BY PieceHas DEF Texts
  <2> QED BY <2>1, <2>2 DEF Texts
<1>2. Count(s, i, c) = Len(Letters(a, c)) /\ Count(s, o, c) = Len(Letters(a \o b, c))
  BY <1>1 DEF Count
<1> HIDE DEF a, b
<1>3. Letters(a \o b, c) = Letters(a, c) \o Letters(b, c)
  BY <1>1, LettersJoined
<1>4. Letters(a, c) \in Seq(LetterType) /\ Letters(b, c) \in Seq(LetterType)
  BY <1>1, LettersTyped
<1>5. Len(Letters(a, c) \o Letters(b, c)) = Len(Letters(a, c)) + Len(Letters(b, c)) /\ Len(Letters(a, c)) \in Nat /\ Len(Letters(b, c)) \in Nat
  BY <1>4, JoinedHas
<1> QED BY <1>2, <1>3, <1>5

\* The same letters, no later, in a text that is no shorter.
Loose(j, f, c) ==
  /\ j \in Texts /\ f \in Texts /\ Letters(j, c) = Letters(f, c) /\ Len(f) <= Len(j)
  /\ \A o \in 0..Len(f) : Count(j, o, c) <= Count(f, o, c)

LEMMA LooseJoined ==
  ASSUME NEW c \in Commands, NEW j, NEW f, Loose(j, f, c), NEW x \in Texts
  PROVE  Loose(j \o x, f \o x, c)
<1>1. j \in Texts /\ f \in Texts /\ Letters(j, c) = Letters(f, c) /\ Len(f) <= Len(j)
  BY DEF Loose
<1>2. j \o x \in Texts /\ f \o x \in Texts /\ Len(j \o x) = Len(j) + Len(x) /\ Len(f \o x) = Len(f) + Len(x)
      /\ Len(j) \in Nat /\ Len(f) \in Nat /\ Len(x) \in Nat
  BY <1>1, JoinedHas DEF Texts
<1>3. Letters(j \o x, c) = Letters(f \o x, c)
  <2>1. j \in Texts /\ f \in Texts
    BY <1>1
  <2>2. Letters(j \o x, c) = Letters(j, c) \o Letters(x, c)
    BY <2>1, LettersJoined
  <2>3. Letters(f \o x, c) = Letters(f, c) \o Letters(x, c)
    BY <2>1, LettersJoined
  <2> QED BY <1>1, <2>2, <2>3
<1>4. Len(f \o x) <= Len(j \o x)
  BY <1>1, <1>2
<1>5. ASSUME NEW o \in 0..Len(f \o x) PROVE Count(j \o x, o, c) <= Count(f \o x, o, c)
  <2>1. o \in Nat /\ o <= Len(f) + Len(x)
    BY <1>2
  <2>2. CASE o <= Len(f)
    <3>1. o \in 0..Len(f) /\ o <= Len(j)
      BY <1>1, <1>2, <2>1, <2>2
    <3>2. Count(j, o, c) <= Count(f, o, c)
      BY <3>1 DEF Loose
    <3>3. Count(j \o x, o, c) = Count(j, o, c)
      BY <1>1, <2>1, <3>1, CountJoined
    <3>4. Count(f \o x, o, c) = Count(f, o, c)
      BY <1>1, <2>1, <2>2, CountJoined
    <3> QED BY <3>2, <3>3, <3>4
  <2>3. CASE ~(o <= Len(f))
    <3>1. PICK i \in Nat : o = Len(f) + i /\ i <= Len(x)
      <4>1. o - Len(f) \in Nat /\ o = Len(f) + (o - Len(f)) /\ o - Len(f) <= Len(x)
        BY <1>2, <2>1, <2>3
      <4> QED BY <4>1
    <3>2. Count(f \o x, o, c) = Len(Letters(f, c)) + Count(x, i, c)
      BY <1>1, <3>1, CountJoined
    <3>3. Len(Letters(f, c)) \in Nat /\ Len(Letters(j, c)) = Len(Letters(f, c))
      BY <1>1, LettersTyped
    <3>4. Count(x, i, c) \in Nat
      BY <3>1, CountGrows
    <3>5. CASE o <= Len(j)
      <4>1. Count(j \o x, o, c) = Count(j, o, c)
        BY <1>1, <2>1, <3>5, CountJoined
      <4>2. Count(j, o, c) <= Len(Letters(j, c)) /\ Count(j, o, c) \in Nat
        <5>1. o \in 0..Len(j)
          BY <1>2, <2>1, <3>5
        <5> QED BY <1>1, <5>1, CountTyped
      <4> QED BY <3>2, <3>3, <3>4, <4>1, <4>2
    <3>6. CASE ~(o <= Len(j))
      <4>1. PICK h \in Nat : o = Len(j) + h /\ h <= i
        <5>1. o - Len(j) \in Nat /\ o = Len(j) + (o - Len(j)) /\ o - Len(j) <= i
          BY <1>1, <1>2, <2>1, <3>1, <3>6
        <5> QED BY <5>1
      <4>2. h <= Len(x)
        BY <1>2, <3>1, <4>1
      <4>3. Count(j \o x, o, c) = Len(Letters(j, c)) + Count(x, h, c)
        BY <1>1, <4>1, <4>2, CountJoined
      <4>4. Count(x, h, c) <= Count(x, i, c) /\ Count(x, h, c) \in Nat
        BY <3>1, <4>1, CountGrows
      <4> QED BY <3>2, <3>3, <3>4, <4>3, <4>4
    <3> QED BY <3>5, <3>6
  <2> QED BY <2>2, <2>3
<1> QED BY <1>2, <1>3, <1>4, <1>5 DEF Loose

LEMMA LooseSpace ==
  ASSUME NEW c \in Commands, NEW j, NEW f, Loose(j, f, c), NEW sp \in Texts, Spaces(sp)
  PROVE  Loose(j \o sp, f, c)
<1>1. j \in Texts /\ f \in Texts /\ Letters(j, c) = Letters(f, c) /\ Len(f) <= Len(j)
  BY DEF Loose
<1>2. j \o sp \in Texts /\ Len(j \o sp) = Len(j) + Len(sp) /\ Len(j) \in Nat /\ Len(f) \in Nat /\ Len(sp) \in Nat
  BY <1>1, JoinedHas, LenProperties DEF Texts
<1>3. Letters(j \o sp, c) = Letters(f, c)
  <2>1. Letters(sp, c) = <<>>
    BY LettersBlank DEF Spaces
  <2>2. Letters(j, c) \in Seq(LetterType)
    BY <1>1, LettersTyped
  <2>3. Letters(j, c) \o <<>> = Letters(j, c)
    BY <2>2, ConcatEmptySeq
  <2> QED BY <1>1, <2>1, <2>3, LettersJoined, ZenonT(30)
<1>4. ASSUME NEW o \in 0..Len(f) PROVE Count(j \o sp, o, c) <= Count(f, o, c)
  <2>1. o \in Nat /\ o <= Len(j)
    BY <1>1, <1>2
  <2>2. Count(j \o sp, o, c) = Count(j, o, c)
    BY <1>1, <2>1, CountJoined
  <2>3. Count(j, o, c) <= Count(f, o, c)
    BY DEF Loose
  <2> QED BY <2>2, <2>3
<1>5. Len(f) <= Len(j \o sp)
  BY <1>1, <1>2
<1> QED BY <1>1, <1>2, <1>3, <1>4, <1>5 DEF Loose

PutApart == [k \in DOMAIN parts |-> IF spelling /\ k < Len(parts) THEN Append(parts[k], " ") ELSE parts[k]]
Flat == FlattenSeq(parts)

LEMMA PutApartIs ==
  ASSUME parts \in Seq(Texts)
  PROVE  /\ Joined = FlattenSeq(PutApart) /\ PutApart \in Seq(Texts) /\ Len(PutApart) = Len(parts) /\ Len(parts) \in Nat
         /\ ~spelling => PutApart = parts
         /\ \A k \in 1..Len(parts) :
              /\ parts[k] \in Texts
              /\ \/ PutApart[k] = parts[k]
                 \/ \E sp \in Texts : Spaces(sp) /\ PutApart[k] = parts[k] \o sp
<1>1. DOMAIN parts = 1..Len(parts) /\ Len(parts) \in Nat /\ \A k \in 1..Len(parts) : parts[k] \in Texts
  BY LenProperties, ElementOfSeq
<1>2. PICK x \in Characters : x = " "
  BY DEF Characters
<1>3. <<x>> \in Texts /\ Spaces(<<x>>)
  <2>1. Len(<<x>>) = 1 /\ (<<x>>)[1] = x /\ 1..1 = {1} /\ <<x>> \in Seq(Characters)
    OBVIOUS
  <2> QED BY <1>2, <2>1 DEF Texts, Spaces
<1>4. \A s \in Texts : Append(s, x) = s \o <<x>> /\ Append(s, x) \in Texts
  <2>1. \A s \in Texts : Append(s, x) \in Seq(Characters)
    BY AppendHas DEF Texts
  <2> QED BY <2>1, AppendIsConcat DEF Texts
<1>5. PutApart = [k \in 1..Len(parts) |-> IF spelling /\ k < Len(parts) THEN Append(parts[k], x) ELSE parts[k]]
  BY <1>1, <1>2 DEF PutApart
<1>6. \A k \in 1..Len(parts) :
        /\ PutApart[k] \in Texts
        /\ PutApart[k] = parts[k] \/ PutApart[k] = parts[k] \o <<x>>
  BY <1>1, <1>4, <1>5
<1>7. PutApart \in [1..Len(parts) -> Texts]
  BY <1>5, <1>6
<1>8. PutApart \in Seq(Texts) /\ Len(PutApart) = Len(parts)
  BY <1>1, <1>7, FunctionIsSeq
<1>9. Joined = FlattenSeq(PutApart)
  BY DEF Joined, PutApart
<1>10. ASSUME ~spelling PROVE PutApart = parts
  <2>1. \A k \in 1..Len(parts) : PutApart[k] = parts[k]
    BY <1>5, <1>10
  <2> QED BY <1>8, <2>1, SeqEqual
<1> QED BY <1>1, <1>3, <1>6, <1>8, <1>9, <1>10

LEMMA JoinedLoose ==
  ASSUME parts \in Seq(Texts), NEW c \in Commands
  PROVE  Loose(Joined, Flat, c) /\ (~spelling => Joined = Flat)
<1> DEFINE N == Len(parts)
           T(n) == FlattenSeq(SubSeq(PutApart, 1, n))
           U(n) == FlattenSeq(SubSeq(parts, 1, n))
           S == {n \in 0..N : Loose(T(n), U(n), c)}
<1>1. /\ Joined = FlattenSeq(PutApart) /\ PutApart \in Seq(Texts) /\ Len(PutApart) = N /\ N \in Nat
      /\ ~spelling => PutApart = parts
      /\ \A k \in 1..N :
           /\ parts[k] \in Texts
           /\ \/ PutApart[k] = parts[k]
              \/ \E sp \in Texts : Spaces(sp) /\ PutApart[k] = parts[k] \o sp
  BY PutApartIs
<1>2. 0 \in S
  <2>1. T(0) = <<>> /\ U(0) = <<>>
    BY NoBeginning, FlattenEmpty
  <2>2. <<>> \in Texts /\ Len(<<>>) = 0 /\ 0 \in Nat
    BY EmptySeq DEF Texts
  <2> DEFINE none == <<>>
  <2>3. none \in Texts /\ Len(none) = 0
    BY <2>2
  <2> HIDE DEF none
  <2>4. \A o \in 0..Len(none) : o \in Nat /\ Count(none, o, c) \in Nat /\ Count(none, o, c) <= Count(none, o, c)
    <3>1. \A o \in 0..Len(none) : Count(none, o, c) \in Nat
      BY <2>3, CountTyped
    <3> QED BY <2>3, <3>1
  <2>5. Loose(none, none, c)
    BY <2>3, <2>4 DEF Loose
  <2> QED BY <1>1, <2>1, <2>5 DEF none
<1>3. ASSUME NEW k \in 1..N, k - 1 \in S PROVE k \in S
  <2> DEFINE t == T(k - 1)
             u == U(k - 1)
             p == PutApart[k]
             x == parts[k]
  <2>1. T(k) = t \o p
    BY <1>1, FlattenGrows DEF Texts
  <2>2. U(k) = u \o x
    BY FlattenGrows DEF Texts
  <2>3. Loose(t, u, c) /\ x \in Texts /\ (p = x \/ \E sp \in Texts : Spaces(sp) /\ p = x \o sp)
    BY <1>1, <1>3
  <2>4. t \in Texts
    BY <2>3 DEF Loose
  <2> HIDE DEF t, u, p, x, T, U
  <2>5. Loose(t \o x, u \o x, c)
    BY <2>3, LooseJoined
  <2>6. Loose(T(k), U(k), c)
    <3>1. CASE p = x
      BY <2>1, <2>2, <2>5, <3>1
    <3>2. CASE \E sp \in Texts : Spaces(sp) /\ p = x \o sp
      <4>1. PICK sp \in Texts : Spaces(sp) /\ p = x \o sp
        BY <3>2
      <4>2. Loose((t \o x) \o sp, u \o x, c)
        BY <2>5, <4>1, LooseSpace
      <4>3. (t \o x) \o sp = t \o (x \o sp)
        <5>1. t \in Texts /\ x \in Texts /\ sp \in Texts
          BY <2>3, <2>4
        <5> QED BY <5>1, TextsJoined
      <4> QED BY <2>1, <2>2, <4>1, <4>2, <4>3
    <3> QED BY <2>3, <3>1, <3>2
  <2>7. k \in 0..N
    BY <1>1
  <2> QED BY <2>6, <2>7
<1>4. N \in S
  <2>1. 0..N \subseteq S
    <3> HIDE DEF S
    <3> QED BY <1>1, <1>2, <1>3, InductionUpTo
  <2> QED BY <1>1, <2>1
<1>5. SubSeq(PutApart, 1, N) = PutApart /\ SubSeq(parts, 1, N) = parts
  BY <1>1, SubSeqFull
<1> QED BY <1>1, <1>4, <1>5 DEF Flat

LEMMA JoinedSays ==
  ASSUME parts \in Seq(Texts), inForce \in Commands, Noted(Flat), \A n \in 1..Len(noted) : noted[n][1] # 0,
         NEW spells \in BOOLEAN, spelling => spells, spelling \in BOOLEAN
  PROVE  /\ Joined \in Texts /\ Flat \in Texts /\ Noted(Joined)
         /\ Says(Woven(Joined, noted, inForce), Woven(Flat, noted, inForce), spells)
<1>1. Loose(Joined, Flat, inForce) /\ (~spelling => Joined = Flat)
  BY JoinedLoose
<1>2. Joined \in Texts /\ Flat \in Texts /\ Letters(Joined, inForce) = Letters(Flat, inForce) /\ Len(Flat) <= Len(Joined)
      /\ Len(Flat) \in Nat /\ Len(Joined) \in Nat
  BY <1>1, LenProperties DEF Loose, Texts
<1>3. noted \in Marks /\ InText(noted, Flat) /\ Fits(noted, Flat) /\ DOMAIN noted = 1..Len(noted)
  BY InTextFits, LenProperties DEF Noted, Marks
<1>4. \A n \in 1..Len(noted) : noted[n][2] \in Nat /\ noted[n][2] <= Len(Flat) /\ noted[n][2] <= Len(Joined)
  <2>1. \A n \in 1..Len(noted) : noted[n][2] \in Nat /\ noted[n][2] <= Len(Flat)
    BY <1>3, MarkIs DEF Fits
  <2> QED BY <1>2, <2>1
<1>5. Noted(Joined) /\ Fits(noted, Joined)
  BY <1>3, <1>4 DEF Noted, InText, Fits
<1> DEFINE x == Woven(Joined, noted, inForce)
           y == Woven(Flat, noted, inForce)
<1>6. /\ x \in Sayings /\ x.letters = Letters(Joined, inForce) /\ x.stops \in Marks /\ Len(x.stops) = Len(noted)
      /\ \A n \in 1..Len(noted) : x.stops[n][1] = noted[n][1] /\ x.stops[n][2] = Count(Joined, noted[n][2], inForce)
  BY <1>2, <1>3, <1>5, WovenIs
<1>7. /\ y \in Sayings /\ y.letters = Letters(Flat, inForce) /\ y.stops \in Marks /\ Len(y.stops) = Len(noted)
      /\ \A n \in 1..Len(noted) : y.stops[n][1] = noted[n][1] /\ y.stops[n][2] = Count(Flat, noted[n][2], inForce)
  BY <1>2, <1>3, WovenIs
<1>8. CASE ~spelling
  <2>1. x = y
    BY <1>1, <1>8
  <2> HIDE DEF x, y
  <2>2. Says(x, y, spells)
    BY <1>6, <2>1, SaysItself
  <2> QED BY <1>2, <1>5, <2>2 DEF x, y
<1>9. CASE spelling
  <2> HIDE DEF x, y
  <2>1. ASSUME NEW n \in 1..Len(x.stops) PROVE StopFits(x.stops[n], y.stops[n], spells)
    <3>1. n \in 1..Len(noted)
      BY <1>6
    <3>2. x.stops[n][1] = y.stops[n][1] /\ y.stops[n][1] # 0
      BY <1>6, <1>7, <3>1
    <3>3. noted[n][2] \in 0..Len(Flat)
      BY <1>2, <1>4, <3>1
    <3>4. Count(Joined, noted[n][2], inForce) <= Count(Flat, noted[n][2], inForce)
      BY <1>1, <3>3 DEF Loose
    <3>5. x.stops[n][2] <= y.stops[n][2]
      BY <1>6, <1>7, <3>1, <3>4
    <3>6. spells = TRUE
      BY <1>9
    <3> QED BY <3>2, <3>5, <3>6 DEF StopFits
  <2>2. Says(x, y, spells)
    BY <1>2, <1>6, <1>7, <1>9, <2>1 DEF Says
  <2> QED BY <1>2, <1>5, <2>2 DEF x, y
<1> QED BY <1>8, <1>9

-----------------------------------------------------------------------------
(* What is meant, item by item                                               *)

Given == utterance \in Seq(ItemType) /\ settings \in [pauses : PauseModes, detects : BOOLEAN]

LEMMA ItemIs ==
  ASSUME NEW x \in ItemType
  PROVE  /\ x[1] \in {"text", "index", "break", "rate", "language", "spell"}
         /\ x[1] = "text" => x[2] \in Texts /\ x[2] # <<>>
         /\ x[1] \in {"rate", "language"} => x[2] \in Nat
         /\ x[1] = "spell" => x[2] \in BOOLEAN
<1>1. CASE x \in {"text"} \X (Seq(Characters) \ {<<>>})
  BY <1>1 DEF Texts
<1>2. CASE x \in {<<"index">>, <<"break">>}
  BY <1>2
<1>3. CASE x \in {"rate", "language"} \X Nat
  BY <1>3
<1>4. CASE x \in {"spell"} \X BOOLEAN
  BY <1>4
<1> QED BY <1>1, <1>2, <1>3, <1>4 DEF ItemType

LEMMA ItemOf ==
  ASSUME Given, NEW i \in 1..Len(utterance)
  PROVE  /\ Items = 1..Len(utterance) /\ Len(utterance) \in Nat
         /\ utterance[i] \in ItemType
         /\ utterance[i][1] \in {"text", "index", "break", "rate", "language", "spell"}
         /\ Is(i, "text") => utterance[i][2] \in Texts /\ utterance[i][2] # <<>>
         /\ Is(i, "rate") \/ Is(i, "language") => utterance[i][2] \in Nat
<1>1. Items = 1..Len(utterance) /\ Len(utterance) \in Nat /\ utterance[i] \in ItemType
  BY LenProperties, ElementOfSeq DEF Given, Items
<1>2. /\ utterance[i][1] \in {"text", "index", "break", "rate", "language", "spell"}
      /\ utterance[i][1] = "text" => utterance[i][2] \in Texts /\ utterance[i][2] # <<>>
      /\ utterance[i][1] \in {"rate", "language"} => utterance[i][2] \in Nat
  BY <1>1, ItemIs
<1> QED BY <1>1, <1>2 DEF Is

\* The commands in force after an item.
LEMMA LastGrows ==
  ASSUME Given, NEW kind, NEW i \in 1..Len(utterance)
  PROVE  LastOf(kind, i + 1) = IF Is(i, kind) THEN utterance[i][2] ELSE LastOf(kind, i)
<1> DEFINE P(k) == {j \in 1..k - 1 : Is(j, kind)}
<1>1. i \in Nat /\ i > 0 /\ (i + 1) - 1 = i
  OBVIOUS
<1>4. \A k : LastOf(kind, k) = IF P(k) = {} THEN 0 ELSE utterance[CHOOSE j \in P(k) : \A l \in P(k) : l <= j][2]
  BY DEF LastOf
<1>2. CASE Is(i, kind)
  <2>1. P(i + 1) = P(i) \cup {i} /\ \A j \in P(i) : j \in Nat /\ j <= i
    BY <1>1, <1>2
  <2>2. i \in P(i + 1) /\ \A k \in P(i + 1) : k \in Nat /\ k <= i
    BY <1>1, <2>1
  <2>3. (CHOOSE j \in P(i + 1) : \A k \in P(i + 1) : k <= j) = i
    <3>1. \A j \in P(i + 1) : (\A k \in P(i + 1) : k <= j) => j = i
      BY <1>1, <2>2
    <3>2. \E j \in P(i + 1) : \A k \in P(i + 1) : k <= j
      BY <2>2
    <3> HIDE DEF P
    <3> QED BY <3>1, <3>2
  <2>4. P(i + 1) # {}
    BY <2>2
  <2> HIDE DEF P
  <2> QED BY <1>2, <1>4, <2>3, <2>4
<1>3. CASE ~Is(i, kind)
  <2>1. P(i + 1) = P(i)
    BY <1>1, <1>3
  <2> HIDE DEF P
  <2>2. LastOf(kind, i + 1) = LastOf(kind, i)
    BY <1>4, <2>1
  <2> QED BY <1>3, <2>2
<1> QED BY <1>2, <1>3

LEMMA LastAtFirst == \A kind : LastOf(kind, 1) = 0
<1>1. 1..1 - 1 = {}
  OBVIOUS
<1> QED BY <1>1 DEF LastOf

LEMMA LastTyped ==
  ASSUME Given, NEW kind \in {"rate", "language"}, NEW n \in 0..Len(utterance)
  PROVE  LastOf(kind, n + 1) \in Nat
<1> DEFINE S == {k \in 0..Len(utterance) : LastOf(kind, k + 1) \in Nat}
<1>1. Len(utterance) \in Nat
  BY LenProperties DEF Given
<1>2. 0 \in S
  BY <1>1, LastAtFirst
<1>3. ASSUME NEW k \in 1..Len(utterance), k - 1 \in S PROVE k \in S
  <2>1. LastOf(kind, k) \in Nat
    <3>1. (k - 1) + 1 = k
      OBVIOUS
    <3> QED BY <1>3, <3>1
  <2>2. LastOf(kind, k + 1) = IF Is(k, kind) THEN utterance[k][2] ELSE LastOf(kind, k)
    BY LastGrows
  <2>3. Is(k, kind) => utterance[k][2] \in Nat
    BY ItemOf
  <2> QED BY <1>1, <2>1, <2>2, <2>3
<1>4. 0..Len(utterance) \subseteq S
  <2> HIDE DEF S
  <2> QED BY <1>1, <1>2, <1>3, InductionUpTo
<1> QED BY <1>4

LEMMA InForceIs ==
  ASSUME Given, NEW n \in 0..Len(utterance)
  PROVE  /\ InForceAt(n + 1) \in Commands
         /\ n = 0 => InForceAt(n + 1) = [rate |-> 0, language |-> 0]
<1>1. LastOf("rate", n + 1) \in Nat /\ LastOf("language", n + 1) \in Nat
  BY LastTyped
<1>2. n = 0 => LastOf("rate", n + 1) = 0 /\ LastOf("language", n + 1) = 0
  BY LastAtFirst
<1> QED BY <1>1, <1>2 DEF InForceAt, Commands

LEMMA InForceGrows ==
  ASSUME Given, NEW i \in 1..Len(utterance)
  PROVE  InForceAt(i + 1) =
           IF Is(i, "rate") THEN [InForceAt(i) EXCEPT !.rate = utterance[i][2]]
           ELSE IF Is(i, "language") /\ settings.detects
             THEN [InForceAt(i) EXCEPT !.language = utterance[i][2]]
           ELSE InForceAt(i)
<1>1. LastOf("rate", i + 1) = IF Is(i, "rate") THEN utterance[i][2] ELSE LastOf("rate", i)
  BY LastGrows
<1>2. LastOf("language", i + 1) = IF Is(i, "language") THEN utterance[i][2] ELSE LastOf("language", i)
  BY LastGrows
<1>3. ~(Is(i, "rate") /\ Is(i, "language"))
  BY DEF Is
<1>4. settings.detects \in BOOLEAN
  BY DEF Given
<1> QED BY <1>1, <1>2, <1>3, <1>4 DEF InForceAt

\* Where an index parts the words.
LEMMA PartedOn ==
  ASSUME Given, NEW i \in 1..Len(utterance), ~Is(i, "index"), Parted(i + 1)
  PROVE  Parted(i) /\ (Is(i, "text") => Blank(utterance[i][2]))
<1>1. i \in Nat /\ i > 0 /\ (i + 1) - 1 = i
  OBVIOUS
<1>2. PICK j \in 1..i : Is(j, "index") /\ \A k \in j + 1..i : Is(k, "text") => Blank(utterance[k][2])
  BY <1>1 DEF Parted
<1>3. j \in 1..i - 1 /\ i \in j + 1..i /\ \A k \in j + 1..i - 1 : k \in j + 1..i
  <2>1. j # i
    BY <1>2
  <2> QED BY <1>1, <2>1
<1> QED BY <1>2, <1>3 DEF Parted

LEMMA SomeCommands == \E c : c \in Commands
<1>1. [rate |-> 0, language |-> 0] \in Commands
  BY DEF Commands
<1> QED BY <1>1

\* Nothing stands before the first letter that it could be glued to.
LEMMA GluedFirst ==
  \A x \in Texts : \A n \in 1..Len(Glued(x)) : Glued(x)[n] => n > 1
<1> DEFINE S == {s \in Texts : IF Glued(s) = <<>> THEN Spaces(s) ELSE Glued(s)[1] = FALSE}
<1>1. <<>> \in S
  <2>1. <<>> \in Texts /\ Spaces(<<>>)
    BY EmptySeq DEF Texts, Spaces
  <2> QED BY <2>1, LettersEmpty
<1>2. ASSUME NEW s \in Texts, NEW e \in Characters, s \in S PROVE Append(s, e) \in S
  <2>1. PICK c : c \in Commands
    BY SomeCommands
  <2>2. /\ Append(s, e) \in Texts /\ Len(Append(s, e)) = Len(s) + 1 /\ Len(s) \in Nat
        /\ Append(s, e)[Len(s) + 1] = e /\ \A n \in 1..Len(s) : Append(s, e)[n] = s[n]
    BY AppendHas DEF Texts
  <2>3. Glued(Append(s, e)) = Glued(s) \o GluedAfter(s, e)
    BY <2>1, LettersAppend
  <2>4. Glued(s) \in Seq(Flags) /\ GluedAfter(s, e) \in Seq(Flags)
    BY <2>1, LettersTyped, LetterTyped
  <2>5. CASE Glued(s) # <<>>
    <3>1. Glued(s)[1] = FALSE
      BY <1>2, <2>5
    <3>2. Len(Glued(s)) \in Nat /\ Len(Glued(s)) # 0
      BY <2>4, <2>5, EmptySeq, LenProperties
    <3>3. 1 \in 1..Len(Glued(s))
      BY <3>2
    <3>4. (Glued(s) \o GluedAfter(s, e))[1] = Glued(s)[1]
      BY <2>4, <3>3, JoinedHas
    <3>5. Glued(s) \o GluedAfter(s, e) # <<>>
      <4>1. Len(Glued(s) \o GluedAfter(s, e)) = Len(Glued(s)) + Len(GluedAfter(s, e)) /\ Len(GluedAfter(s, e)) \in Nat
        BY <2>4, JoinedHas
      <4> QED BY <3>2, <4>1, EmptySeq
    <3> QED BY <2>2, <2>3, <3>1, <3>4, <3>5
  <2>6. CASE Glued(s) = <<>>
    <3>1. Glued(Append(s, e)) = GluedAfter(s, e)
      BY <2>3, <2>4, <2>6, ConcatEmptySeq
    <3>2. Spaces(s)
      BY <1>2, <2>6
    <3>3. s # <<>> => Len(s) \in 1..Len(s)
      BY <2>2, EmptySeq, LenProperties DEF Texts
    <3>4. ~(s # <<>> /\ s[Len(s)] = "a")
      BY <3>2, <3>3 DEF Spaces
    <3>5. CASE e = " "
      <4>1. GluedAfter(s, e) = <<>>
        BY <3>5 DEF GluedAfter
      <4>2. \A n \in 1..Len(s) + 1 : n \in 1..Len(s) \/ n = Len(s) + 1
        BY <2>2
      <4>3. Spaces(Append(s, e))
        BY <2>2, <3>2, <3>5, <4>2 DEF Spaces
      <4> QED BY <2>2, <3>1, <4>1, <4>3
    <3>6. CASE e # " "
      <4>1. GluedAfter(s, e) = <<FALSE>>
        BY <3>4, <3>6 DEF GluedAfter
      <4>2. <<FALSE>> # <<>> /\ (<<FALSE>>)[1] = FALSE
        OBVIOUS
      <4> QED BY <2>2, <3>1, <4>1, <4>2
    <3> QED BY <3>5, <3>6
  <2> QED BY <2>5, <2>6
<1>3. Texts \subseteq S
  <2> HIDE DEF S
  <2> QED BY <1>1, <1>2, InductionOnSequences DEF Texts
<1>4. ASSUME NEW x \in Texts, NEW n \in 1..Len(Glued(x)), Glued(x)[n] PROVE n > 1
  <2>1. n \in Nat /\ n > 0 /\ Len(Glued(x)) # 0
    <3>1. Len(Glued(x)) \in Nat
      <4>1. PICK c : c \in Commands
        BY SomeCommands
      <4> QED BY <4>1, LettersTyped
    <3> QED BY <3>1
  <2>2. Glued(x) # <<>>
    BY <2>1, EmptySeq
  <2>3. Glued(x)[1] = FALSE
    BY <1>3, <2>2
  <2>4. n # 1
    BY <1>4, <2>3
  <2> QED BY <2>1, <2>4
<1> QED BY <1>4

\* What is meant by the first items.
MeantTo(n) == Together([i \in 1..n |-> MeantIn(i)])

LEMMA MeantInIs ==
  ASSUME Given, NEW i \in 1..Len(utterance)
  PROVE  /\ MeantIn(i) \in Sayings
         /\ Is(i, "index") => MeantIn(i) = Stop(i)
         /\ Is(i, "break") => MeantIn(i) = Stop(0)
         /\ ~Is(i, "text") /\ ~Is(i, "index") /\ ~Is(i, "break") => MeantIn(i) = Silence
         /\ Is(i, "text") =>
              /\ MeantIn(i).letters = Letters(utterance[i][2], InForceAt(i)) /\ MeantIn(i).stops = <<>>
              /\ \A n \in 1..Len(MeantIn(i).letters) : MeantIn(i).glued[n] = (n > 1 \/ ~Parted(i))
<1>1. i \in Nat /\ 0 \in Nat
  OBVIOUS
<1>2. Stop(i) \in Sayings /\ Stop(0) \in Sayings /\ Silence \in Sayings
  BY <1>1, StopIs, SilenceIs
<1>3. ASSUME Is(i, "text")
      PROVE  /\ MeantIn(i) \in Sayings
             /\ MeantIn(i).letters = Letters(utterance[i][2], InForceAt(i)) /\ MeantIn(i).stops = <<>>
             /\ \A n \in 1..Len(MeantIn(i).letters) : MeantIn(i).glued[n] = (n > 1 \/ ~Parted(i))
  <2> DEFINE l == Letters(utterance[i][2], InForceAt(i))
             g == [n \in DOMAIN l |-> n > 1 \/ ~Parted(i)]
  <2>1. InForceAt(i) \in Commands
    <3>1. i - 1 \in 0..Len(utterance) /\ (i - 1) + 1 = i
      BY ItemOf
    <3> QED BY <3>1, InForceIs
  <2>2. l \in Seq(LetterType) /\ DOMAIN l = 1..Len(l) /\ Len(l) \in Nat
    BY <1>3, <2>1, ItemOf, LettersTyped, LenProperties
  <2>3. MeantIn(i) = [letters |-> l, glued |-> g, stops |-> <<>>]
    <3>1. ~Is(i, "index") /\ ~Is(i, "break")
      BY <1>3 DEF Is
    <3> QED BY <1>3, <3>1 DEF MeantIn
  <2> HIDE DEF l
  <2>4. g \in [1..Len(l) -> Flags] /\ \A n \in 1..Len(l) : g[n] = (n > 1 \/ ~Parted(i))
    BY <2>2 DEF Flags
  <2> HIDE DEF g
  <2>5. g \in Seq(Flags) /\ Len(g) = Len(l)
    BY <2>2, <2>4, FunctionIsSeq
  <2>6. <<>> \in Marks
    BY EmptySeq DEF Marks
  <2>7. [letters |-> l, glued |-> g, stops |-> <<>>] \in Sayings
    BY <2>2, <2>5, <2>6, SayingMade
  <2>8. MeantIn(i).letters = l /\ MeantIn(i).glued = g /\ MeantIn(i).stops = <<>>
    BY <2>3
  <2> QED BY <2>3, <2>4, <2>7, <2>8 DEF l
<1>4. ASSUME ~Is(i, "text")
      PROVE  MeantIn(i) = IF Is(i, "index") THEN Stop(i) ELSE IF Is(i, "break") THEN Stop(0) ELSE Silence
  BY <1>4 DEF MeantIn, Is
<1>5. /\ Is(i, "index") => ~Is(i, "text")
      /\ Is(i, "break") => ~Is(i, "text") /\ ~Is(i, "index")
  BY DEF Is
<1> QED BY <1>2, <1>3, <1>4, <1>5

LEMMA MeantGrows ==
  ASSUME Given
  PROVE  /\ \A n \in 0..Len(utterance) : MeantTo(n) \in Sayings
         /\ \A n \in 1..Len(utterance) : MeantTo(n) = Then(MeantTo(n - 1), MeantIn(n))
         /\ MeantTo(0) = Silence /\ MeantTo(Len(utterance)) = Meant /\ Len(utterance) \in Nat
<1> DEFINE N == Len(utterance)
           w(n) == [i \in 1..n |-> MeantIn(i)]
<1>1. N \in Nat /\ Items = 1..N /\ \A i \in 1..N : MeantIn(i) \in Sayings
  BY MeantInIs, LenProperties DEF Given, Items
<1>2. ASSUME NEW n \in 0..N PROVE w(n) \in Seq(Sayings) /\ Len(w(n)) = n
  <2>1. \A i \in 1..n : i \in 1..N
    BY <1>1
  <2>2. w(n) \in [1..n -> Sayings] /\ n \in Nat
    BY <1>1, <2>1
  <2> QED BY <2>2, FunctionIsSeq
<1>3. \A n \in 0..N : MeantTo(n) \in Sayings
  BY <1>2, TogetherTyped DEF MeantTo
<1>4. ASSUME NEW n \in 1..N PROVE MeantTo(n) = Then(MeantTo(n - 1), MeantIn(n))
  <2>1. n \in 0..N /\ n - 1 \in 0..N /\ (n - 1) + 1 = n
    BY <1>1
  <2>2. w(n) \in Seq(Sayings) /\ Len(w(n)) = n /\ w(n - 1) \in Seq(Sayings) /\ Len(w(n - 1)) = n - 1
    BY <1>2, <2>1
  <2>3. \A i \in 1..n - 1 : w(n)[i] = w(n - 1)[i]
    BY <2>1
  <2>4. w(n)[n] = MeantIn(n)
    OBVIOUS
  <2> HIDE DEF w
  <2>5. w(n) = Append(w(n - 1), MeantIn(n))
    <3>1. Len(w(n)) = Len(w(n - 1)) + 1 /\ \A i \in 1..Len(w(n - 1)) : w(n)[i] = w(n - 1)[i]
      BY <2>1, <2>2, <2>3
    <3>2. w(n) = Append(w(n - 1), w(n)[Len(w(n - 1)) + 1])
      BY <2>2, <3>1, LongerByOne
    <3> QED BY <2>1, <2>2, <2>4, <3>2
  <2>6. Together(w(n)) = Then(Together(w(n - 1)), MeantIn(n))
    BY <1>1, <2>2, <2>5, TogetherAppend
  <2> QED BY <2>6 DEF MeantTo, w
<1>5. MeantTo(0) = Silence
  <2>1. w(0) = <<>>
    BY <1>1, <1>2, EmptySeq
  <2> QED BY <2>1, TogetherEmpty DEF MeantTo
<1>6. MeantTo(N) = Meant
  BY <1>1 DEF MeantTo, Meant
<1> QED BY <1>1, <1>3, <1>4, <1>5, <1>6

-----------------------------------------------------------------------------
(* The text that waits grows by a text and by an index                       *)

\* A text after another adds its letters, and what is glued: but for the first letter, no
\* more than in the text itself.
LEMMA TextAdded ==
  ASSUME NEW s \in Texts, NEW m \in Marks, Fits(m, s), NEW c \in Commands, NEW x \in Texts
  PROVE  /\ s \o x \in Texts /\ Fits(m, s \o x)
         /\ \E y \in Sayings :
              /\ Woven(s \o x, m, c) = Then(Woven(s, m, c), y)
              /\ y.letters = Letters(x, c) /\ y.stops = <<>>
              /\ \A n \in 1..Len(y.glued) : y.glued[n] => n > 1 \/ Touch(s, x)
<1> DEFINE t == s \o x
           v == Woven(s, m, c)
           w == Woven(t, m, c)
<1>1. t \in Texts /\ Len(t) = Len(s) + Len(x) /\ Len(s) \in Nat /\ Len(x) \in Nat
  BY JoinedHas DEF Texts
<1>2. Len(m) \in Nat /\ \A n \in 1..Len(m) : m[n][2] \in Nat /\ m[n][2] <= Len(s)
  <2>1. Len(m) \in Nat
    BY LenProperties DEF Marks
  <2> QED BY <2>1, MarkIs DEF Fits
<1>3. Fits(m, t)
  BY <1>1, <1>2 DEF Fits
<1>4. /\ v \in Sayings /\ v.letters = Letters(s, c) /\ v.glued = Glued(s)
      /\ v.stops \in Marks /\ Len(v.stops) = Len(m)
      /\ \A n \in 1..Len(m) : v.stops[n][1] = m[n][1] /\ v.stops[n][2] = Count(s, m[n][2], c)
  BY WovenIs
<1>5. Letters(t, c) = Letters(s, c) \o Letters(x, c)
  BY LettersJoined
<1>6. \A n \in 1..Len(m) : Count(t, m[n][2], c) = Count(s, m[n][2], c)
  BY <1>2, CountJoined
<1> HIDE DEF t
<1>7. /\ w \in Sayings /\ w.letters = Letters(t, c) /\ w.glued = Glued(t)
      /\ w.stops \in Marks /\ Len(w.stops) = Len(m)
      /\ \A n \in 1..Len(m) : w.stops[n][1] = m[n][1] /\ w.stops[n][2] = Count(t, m[n][2], c)
  BY <1>1, <1>3, WovenIs
<1> HIDE DEF v, w
<1>8. w.stops = v.stops
  BY <1>4, <1>6, <1>7, MarksEqual, SMTT(30)
<1>9. PICK g \in Seq(Flags) :
        /\ Glued(t) = Glued(s) \o g /\ Len(g) = Len(Glued(x))
        /\ \A n \in 1..Len(g) : g[n] /\ ~Glued(x)[n] => n = 1 /\ Touch(s, x)
  BY GluedAcross DEF t
<1>10. Letters(x, c) \in Seq(LetterType) /\ Len(g) = Len(Letters(x, c))
  BY <1>9, LettersTyped, AsManyGlued
<1>11. <<>> \in Marks
  BY EmptySeq DEF Marks
<1>12. PICK y \in Sayings : y.letters = Letters(x, c) /\ y.glued = g /\ y.stops = <<>>
  <2>1. [letters |-> Letters(x, c), glued |-> g, stops |-> <<>>] \in Sayings
    BY <1>10, <1>11, SayingMade
  <2> QED BY <2>1
<1>13. w = Then(v, y)
  <2>1. /\ Then(v, y).letters = v.letters \o y.letters /\ Then(v, y).glued = v.glued \o y.glued
        /\ Then(v, y).stops = v.stops \o Moved(y.stops, Len(v.letters))
    BY ThenParts
  <2>2. Then(v, y) \in Sayings
    BY <1>4, ThenTyped
  <2>3. Then(v, y).stops = w.stops
    <3>1. v.stops \o <<>> = v.stops
      BY <1>4, ConcatEmptySeq DEF Marks
    <3>2. Moved(y.stops, Len(v.letters)) = <<>>
      BY <1>12, MovedEmpty
    <3> QED BY <1>8, <2>1, <3>1, <3>2
  <2>4. Then(v, y).letters = w.letters
    BY <1>4, <1>5, <1>7, <1>12, <2>1
  <2>5. Then(v, y).glued = w.glued
    BY <1>4, <1>7, <1>9, <1>12, <2>1
  <2> QED BY <1>7, <2>2, <2>3, <2>4, <2>5, SayingsEqual
<1>14. \A n \in 1..Len(g) : g[n] => n > 1 \/ Touch(s, x)
  <2>1. \A n \in 1..Len(g) : Glued(x)[n] => n > 1
    BY <1>9, GluedFirst
  <2> QED BY <1>9, <2>1
<1> QED BY <1>1, <1>3, <1>12, <1>13, <1>14 DEF t, v, w

LEMMA SpaceAdded ==
  ASSUME NEW s \in Texts, NEW m \in Marks, Fits(m, s), NEW c \in Commands, NEW x \in Texts, Spaces(x)
  PROVE  Woven(s \o x, m, c) = Woven(s, m, c)
<1>1. PICK y \in Sayings : Woven(s \o x, m, c) = Then(Woven(s, m, c), y) /\ y.letters = Letters(x, c) /\ y.stops = <<>>
  BY TextAdded
<1>2. y.letters = <<>>
  BY <1>1, LettersBlank DEF Spaces
<1>3. y.glued = <<>>
  <2>1. Len(y.glued) = Len(y.letters) /\ y.glued \in Seq(Flags)
    BY SayingIs
  <2>2. Len(<<>>) = 0
    BY EmptySeq
  <2> QED BY <1>2, <2>1, <2>2, EmptySeq
<1>4. y = Silence
  BY <1>1, <1>2, <1>3, SilenceIs, SayingsEqual
<1>5. Woven(s, m, c) \in Sayings
  BY WovenIs
<1> QED BY <1>1, <1>4, <1>5, SilenceIs

\* A text that is meant, with its letters glued but for perhaps the first.
MeansText(more, x, c, free) ==
  /\ more.letters = Letters(x, c) /\ more.stops = <<>>
  /\ \A n \in 1..Len(more.letters) : more.glued[n] = (n > 1 \/ free)

LEMMA TextKept ==
  ASSUME NEW t \in Sayings, NEW s \in Texts, NEW m \in Marks, Fits(m, s), NEW c \in Commands, NEW x \in Texts,
         NEW meant \in Sayings, NEW more \in Sayings, NEW spells \in BOOLEAN, NEW free \in BOOLEAN,
         Says(Then(t, Woven(s, m, c)), meant, spells), MeansText(more, x, c, free),
         Touch(s, x) /\ ~spells => free
  PROVE  Says(Then(t, Woven(s \o x, m, c)), Then(meant, more), spells)
<1> DEFINE v == Woven(s, m, c)
<1>1. PICK y \in Sayings :
        /\ Woven(s \o x, m, c) = Then(v, y)
        /\ y.letters = Letters(x, c) /\ y.stops = <<>>
        /\ \A n \in 1..Len(y.glued) : y.glued[n] => n > 1 \/ Touch(s, x)
  BY TextAdded
<1>2. v \in Sayings
  BY WovenIs
<1> HIDE DEF v
<1>3. Says(y, more, spells)
  <2>1. y.letters = more.letters /\ y.stops = more.stops /\ Len(y.stops) = 0 /\ Len(y.glued) = Len(y.letters)
    BY <1>1, SayingIs, EmptySeq DEF MeansText
  <2>2. ~spells => GlueFits(y.glued, more.glued)
    BY <1>1, <2>1 DEF MeansText, GlueFits
  <2>3. \A n \in 1..Len(y.stops) : StopFits(y.stops[n], more.stops[n], spells)
    BY <2>1
  <2> QED BY <2>1, <2>2, <2>3 DEF Says
<1>4. Then(t, v) \in Sayings
  BY <1>2, ThenTyped
<1>5. Says(Then(Then(t, v), y), Then(meant, more), spells)
  <2>1. Says(Then(t, v), meant, spells)
    BY DEF v
  <2> QED BY <1>3, <1>4, <2>1, SaysBoth
<1>6. Then(Then(t, v), y) = Then(t, Then(v, y))
  BY <1>2, ThenAssociates
<1> QED BY <1>1, <1>5, <1>6

LEMMA IndexAdded ==
  ASSUME NEW s \in Texts, NEW m \in Marks, InText(m, s), NEW c \in Commands, NEW i \in Nat
  PROVE  /\ Append(m, <<i, Len(s)>>) \in Marks /\ InText(Append(m, <<i, Len(s)>>), s)
         /\ Woven(s, Append(m, <<i, Len(s)>>), c) = Then(Woven(s, m, c), Stop(i))
<1> DEFINE k == <<i, Len(s)>>
           q == <<k>>
           p == Append(m, k)
<1>1. Len(s) \in Nat /\ k \in MarkType /\ k[1] = i /\ k[2] = Len(s)
  BY LenProperties DEF Texts, MarkType
<1> HIDE DEF k
<1>2. /\ p \in Marks /\ Len(p) = Len(m) + 1 /\ Len(m) \in Nat /\ p[Len(m) + 1] = k /\ p = m \o q
      /\ \A n \in 1..Len(m) : p[n] = m[n]
  BY <1>1, AppendHas, AppendIsConcat DEF Marks
<1>3. q \in Marks /\ Len(q) = 1 /\ q[1] = k
  BY <1>1 DEF Marks
<1> HIDE DEF p, q
<1>4. Fits(m, s)
  BY InTextFits
<1>5. InText(p, s)
  <2>1. DOMAIN p = 1..Len(m) + 1 /\ DOMAIN m = 1..Len(m)
    BY <1>2, LenProperties DEF Marks
  <2>2. ASSUME NEW n \in 1..Len(m) + 1 PROVE p[n][2] <= Len(s) /\ (n > 1 => p[n - 1][2] <= p[n][2])
    <3>1. CASE n \in 1..Len(m)
      <4>1. p[n] = m[n] /\ m[n][2] <= Len(s) /\ (n > 1 => m[n - 1][2] <= m[n][2])
        BY <1>2, <2>1, <3>1 DEF InText
      <4>2. n > 1 => n - 1 \in 1..Len(m)
        BY <1>2, <3>1
      <4> QED BY <1>2, <4>1, <4>2
    <3>2. CASE n = Len(m) + 1
      <4>1. p[n][2] = Len(s)
        BY <1>1, <1>2, <3>2
      <4>2. n > 1 => n - 1 \in 1..Len(m)
        BY <1>2, <3>2
      <4>3. n > 1 => p[n - 1][2] <= Len(s)
        BY <1>2, <1>4, <4>2 DEF Fits
      <4> QED BY <1>1, <4>1, <4>3
    <3> QED BY <1>2, <3>1, <3>2
  <2> QED BY <2>1, <2>2 DEF InText
<1>6. Then(Woven(s, m, c), Told(Indexes(q))) = Woven(s, p, c)
  <2>1. \A n \in 1..Len(q) : q[n][2] = Len(s)
    BY <1>1, <1>3
  <2> QED BY <1>2, <1>3, <1>4, <2>1, TrailsSay
<1>7. Told(Indexes(q)) = Stop(i)
  <2> DEFINE e == [kind |-> "index", index |-> i]
  <2>1. Indexes(q) = <<e>>
    <3>1. DOMAIN q = 1..1
      BY <1>3, LenProperties DEF Marks
    <3>2. Indexes(q) = [n \in 1..1 |-> [kind |-> "index", index |-> q[n][1]]]
      BY <3>1 DEF Indexes
    <3>3. Indexes(q) \in Seq(ChunkType) /\ Len(Indexes(q)) = 1
      BY <1>3, ToldIndexes
    <3>4. Indexes(q)[1] = e
      BY <1>1, <1>3, <3>2
    <3>5. e \in ChunkType
      BY DEF ChunkType
    <3>6. <<e>> \in Seq(ChunkType) /\ Len(<<e>>) = 1 /\ (<<e>>)[1] = e
      BY <3>5
    <3> HIDE DEF e
    <3>7. \A n \in 1..1 : Indexes(q)[n] = (<<e>>)[n]
      BY <3>4, <3>6
    <3> QED BY <3>3, <3>6, <3>7, SeqEqual
  <2>2. e \in ChunkType /\ e.kind = "index" /\ e.index = i
    BY DEF ChunkType
  <2> HIDE DEF e
  <2>3. SaidIn(e) = Stop(i)
    BY <2>2, SaidInTyped
  <2> QED BY <2>1, <2>2, <2>3, ToldOne
<1> QED BY <1>2, <1>5, <1>6, <1>7 DEF p, k

-----------------------------------------------------------------------------
(* What is said so far is a beginning of what is meant                       *)

LEMMA MeantBeginning ==
  ASSUME Given, NEW n \in 0..Len(utterance)
  PROVE  \E q \in Sayings : Meant = Then(MeantTo(n), q)
<1> DEFINE N == Len(utterance)
           w == [i \in 1..N |-> MeantIn(i)]
           v == [i \in 1..n |-> MeantIn(i)]
<1>1. N \in Nat /\ n \in Nat /\ n <= N /\ Items = 1..N /\ \A i \in 1..N : MeantIn(i) \in Sayings
  BY MeantInIs, LenProperties DEF Given, Items
<1>2. w \in [1..N -> Sayings] /\ v \in [1..n -> Sayings]
  BY <1>1
<1>3. Meant = Together(w) /\ MeantTo(n) = Together(v)
  BY <1>1 DEF Meant, MeantTo
<1>4. \A i \in 1..n : w[i] = v[i]
  BY <1>1
<1> HIDE DEF w, v
<1>5. w \in Seq(Sayings) /\ Len(w) = N /\ v \in Seq(Sayings) /\ Len(v) = n
  BY <1>1, <1>2, FunctionIsSeq
<1> DEFINE a == SubSeq(w, 1, n)
           b == SubSeq(w, n + 1, N)
<1>6. a \in Seq(Sayings) /\ b \in Seq(Sayings) /\ Len(a) = n /\ w = a \o b /\ \A i \in 1..n : a[i] = w[i]
  <2>1. n \in 0..Len(w) /\ b = SubSeq(w, n + 1, Len(w)) /\ w \in Seq(Sayings)
    BY <1>1, <1>5
  <2>2. w = SubSeq(w, 1, n) \o SubSeq(w, n + 1, Len(w))
    BY <2>1, CutInTwo
  <2>3. SubSeq(w, 1, n) \in Seq(Sayings) /\ SubSeq(w, n + 1, Len(w)) \in Seq(Sayings) /\ Len(SubSeq(w, 1, n)) = n
    BY <1>5, <2>1, CutInTwo
  <2>4. \A i \in 1..n : SubSeq(w, 1, n)[i] = w[i]
    BY <1>5, <2>1, CutInTwo
  <2> QED BY <2>1, <2>2, <2>3, <2>4
<1> HIDE DEF a, b
<1>7. a = v
  BY <1>4, <1>5, <1>6, SeqEqual
<1>8. Together(w) = Then(Together(a), Together(b)) /\ Together(b) \in Sayings
  BY <1>6, TogetherJoined, TogetherTyped
<1> QED BY <1>3, <1>7, <1>8

LEMMA ReachesIs ==
  ASSUME NEW a \in Sayings, NEW r \in Sayings, NEW b \in Sayings, NEW q \in Sayings, NEW spells \in BOOLEAN,
         Spelled <=> spells, Says(Then(a, r), b, spells)
  PROVE  Reaches(a, Then(b, q))
<1> DEFINE t == Then(a, r)
           u == Then(b, q)
           aG == Len(a.glued)
           aL == Len(a.letters)
           aS == Len(a.stops)
           bG == Len(b.glued)
           bL == Len(b.letters)
           bS == Len(b.stops)
           qL == Len(q.letters)
           qS == Len(q.stops)
           rG == Len(r.glued)
           rL == Len(r.letters)
           rS == Len(r.stops)
           tG == Len(t.glued)
           tL == Len(t.letters)
           tS == Len(t.stops)
           uS == Len(u.stops)
<1>1. /\ t \in Sayings /\ t.letters = a.letters \o r.letters /\ t.stops = a.stops \o Moved(r.stops, aL)
      /\ u \in Sayings /\ u.letters = b.letters \o q.letters /\ u.stops = b.stops \o Moved(q.stops, bL)
  BY ThenTyped, ThenParts
<1>2. /\ tL = aL + rL /\ tS = aS + rS
      /\ tG = aG + rG
      /\ aL \in Nat /\ rL \in Nat /\ aS \in Nat /\ rS \in Nat
      /\ aG \in Nat /\ rG \in Nat
  BY ThenHas
<1>11. /\ \A n \in 1..aS : t.stops[n] = a.stops[n]
       /\ \A n \in 1..rS : t.stops[aS + n] = Moved(r.stops, aL)[n]
       /\ \A n \in 1..aG : t.glued[n] = a.glued[n]
  BY ThenHas
<1>12. /\ uS = bS + qS
       /\ bL \in Nat /\ qL \in Nat /\ bS \in Nat /\ qS \in Nat
       /\ bG \in Nat
  BY ThenHas
<1>13. /\ \A n \in 1..bS : u.stops[n] = b.stops[n]
       /\ \A n \in 1..qS : u.stops[bS + n] = Moved(q.stops, bL)[n]
       /\ \A n \in 1..bG : u.glued[n] = b.glued[n]
  BY ThenHas
<1>3. /\ t.letters = b.letters /\ tS = bS
      /\ \A n \in 1..tS : StopFits(t.stops[n], b.stops[n], spells)
      /\ ~spells => GlueFits(t.glued, b.glued)
  BY DEF Says
<1> HIDE DEF t, u
<1>4. /\ a.letters \in Seq(LetterType) /\ r.letters \in Seq(LetterType) /\ q.letters \in Seq(LetterType)
      /\ aG = aL /\ bG = bL /\ tG = tL
      /\ b.letters \in Seq(LetterType) /\ r.stops \in Marks /\ q.stops \in Marks
  BY <1>1, SayingIs
<1> HIDE DEF aG, aL, aS, bG, bL, bS, qL, qS, rG, rL, rS, tG, tL, tS, uS
<1>14. /\ tL = bL /\ tS = bS
       /\ bS = aS + rS /\ bL = aL + rL
       /\ aS <= uS /\ aL <= bL
       /\ aG <= tG /\ tG = bG
  <2>1. tL = bL /\ tS = bS /\ tG = bG
    BY <1>3, <1>4 DEF tL, bL
  <2>2. bS = aS + rS /\ bL = aL + rL
    BY <1>2, <2>1
  <2> QED BY <1>2, <1>12, <2>1, <2>2
<1>5. IsPrefix(a.letters, u.letters)
  <2>1. IsPrefix(a.letters, b.letters)
    BY <1>1, <1>3, <1>4, PrefixLonger
  <2> QED BY <1>1, <1>4, <2>1, PrefixGoesOn
<1>6. ~Spelled => \A n \in DOMAIN a.letters : a.glued[n] => u.glued[n]
  <2>1. SUFFICES ASSUME ~Spelled, NEW n \in DOMAIN a.letters, a.glued[n] PROVE u.glued[n]
    OBVIOUS
  <2>2. n \in 1..aL
    BY <1>4, LenProperties DEF aL
  <2>3. n \in 1..aG /\ n \in 1..tG /\ n \in 1..bG
    BY <1>2, <1>4, <1>12, <1>14, <2>2
  <2>4. t.glued[n] = a.glued[n] /\ u.glued[n] = b.glued[n]
    BY <1>11, <1>13, <2>3
  <2>5. GlueFits(t.glued, b.glued)
    BY <1>3, <2>1
  <2>6. t.glued[n] => b.glued[n]
    BY <2>3, <2>5 DEF GlueFits, tG
  <2> QED BY <2>1, <2>4, <2>6
<1>8. ASSUME NEW n \in 1..aS
      PROVE  /\ a.stops[n][1] = u.stops[n][1] /\ a.stops[n][2] <= u.stops[n][2]
             /\ u.stops[n][1] = 0 \/ ~Spelled => a.stops[n] = u.stops[n]
  <2>1. n \in 1..tS /\ n \in 1..bS
    BY <1>2, <1>12, <1>14
  <2>2. t.stops[n] = a.stops[n] /\ u.stops[n] = b.stops[n]
    BY <1>11, <1>13, <2>1
  <2>3. StopFits(a.stops[n], u.stops[n], spells)
    BY <1>3, <2>1, <2>2
  <2> QED BY <2>3 DEF StopFits
<1>9. ASSUME NEW n \in aS + 1..uS PROVE aL <= u.stops[n][2]
  <2>1. CASE n <= bS
    <3>1. PICK i \in 1..rS : n = aS + i
      <4>1. n - aS \in 1..rS /\ n = aS + (n - aS)
        BY <1>2, <1>12, <1>14, <2>1
      <4> QED BY <4>1
    <3>2. t.stops[n] = Moved(r.stops, aL)[i]
      BY <1>11, <3>1
    <3>3. Moved(r.stops, aL)[i][2] = aL + r.stops[i][2] /\ r.stops[i][2] \in Nat
      <4>1. i \in 1..Len(r.stops)
        BY <3>1 DEF rS
      <4> QED BY <1>2, <1>4, <4>1, MovedTyped, MarkIs
    <3>4. n \in 1..tS /\ n \in 1..bS
      BY <1>2, <1>12, <1>14, <2>1, <3>1
    <3>5. t.stops[n][2] <= b.stops[n][2]
      BY <1>3, <3>4 DEF StopFits
    <3>6. u.stops[n] = b.stops[n]
      BY <1>13, <3>4
    <3>7. b.stops[n][2] \in Nat
      <4>1. n \in 1..Len(b.stops) /\ b.stops \in Marks
        BY <3>4, SayingIs DEF bS
      <4> QED BY <4>1, MarkIs
    <3> QED BY <1>2, <3>2, <3>3, <3>5, <3>6, <3>7
  <2>2. CASE ~(n <= bS)
    <3>1. PICK i \in 1..qS : n = bS + i
      <4>1. n - bS \in 1..qS /\ n = bS + (n - bS)
        BY <1>2, <1>12, <1>14, <2>2
      <4> QED BY <4>1
    <3>2. u.stops[n] = Moved(q.stops, bL)[i]
      BY <1>13, <3>1
    <3>3. Moved(q.stops, bL)[i][2] = bL + q.stops[i][2] /\ q.stops[i][2] \in Nat
      <4>1. i \in 1..Len(q.stops)
        BY <3>1 DEF qS
      <4> QED BY <1>4, <1>12, <4>1, MovedTyped, MarkIs
    <3>4. aL <= bL
      BY <1>14
    <3> QED BY <1>2, <1>12, <3>2, <3>3, <3>4
  <2> QED BY <2>1, <2>2
<1>10. Reaches(a, u)
  BY <1>5, <1>6, <1>8, <1>9, <1>14 DEF Reaches, aL, aS, uS
<1> QED BY <1>10 DEF u

-----------------------------------------------------------------------------
(* The invariant                                                             *)

\* What the sequence decides, which no step changes.
Meaning == [n \in 0..Len(utterance) |-> MeantTo(n)]
InForces == [n \in 0..Len(utterance) |-> InForceAt(n + 1)]
PartedOnes == {n \in 0..Len(utterance) : Parted(n + 1)}
Spells == IF Spelled THEN TRUE ELSE FALSE

ChunksTyped ==
  /\ Given /\ place \in 0..Len(utterance)
  /\ parts \in Seq(Texts) /\ \A k \in 1..Len(parts) : parts[k] # <<>>
  /\ counted = Len(FlattenSeq(parts))
  /\ Noted(FlattenSeq(parts)) /\ \A n \in 1..Len(noted) : noted[n][1] # 0
  /\ afterIndex \in BOOLEAN /\ spelling \in BOOLEAN /\ (spelling => Spells)
  /\ inForce \in Commands /\ chunks \in Seq(ChunkType)
  /\ over \in {"running", "done", "cancelled"}

\* While it runs: the chunks, and then the text that waits, say what the items so far mean,
\* and a text can be glued to what waits only where no index parts them.
Ongoing ==
  over = "running" =>
    /\ inForce = InForces[place]
    /\ Says(Then(Told(chunks), Woven(FlattenSeq(parts), noted, inForce)), Meaning[place], Spells)
    /\ parts # <<>> /\ ~afterIndex /\ FlattenSeq(parts)[Len(FlattenSeq(parts))] = "a" => place \notin PartedOnes
Finished == over = "done" => place = Len(utterance) /\ Says(Told(chunks), Meaning[place], Spells)
Abandoned == over = "cancelled" => \E r \in Sayings : Says(Then(Told(chunks), r), Meaning[place], Spells)

ChunksInv == ChunksTyped /\ Ongoing /\ Finished /\ Abandoned

LEMMA GivenStays ==
  ASSUME Given, UNCHANGED given
  PROVE  /\ Meaning' = Meaning /\ InForces' = InForces /\ PartedOnes' = PartedOnes /\ Spells' = Spells
         /\ Given' /\ Len(utterance)' = Len(utterance)
<1>1. utterance' = utterance /\ settings' = settings
  BY DEF given
<1>2. Given' /\ Len(utterance)' = Len(utterance)
  BY <1>1 DEF Given
<1>3. Spells' = Spells
  BY <1>1 DEF Spells, Spelled, Items, Is
<1>4. PartedOnes' = PartedOnes
  BY <1>1 DEF PartedOnes, Parted, Is
<1>5. InForces' = InForces
  BY <1>1 DEF InForces, InForceAt, LastOf, Is
<1>6. Meaning' = Meaning
  BY <1>1 DEF Meaning, MeantTo, MeantIn, Is, InForceAt, LastOf, Parted
<1> QED BY <1>2, <1>3, <1>4, <1>5, <1>6

LEMMA DecidedIs ==
  ASSUME Given, NEW n \in 0..Len(utterance)
  PROVE  /\ Meaning[n] = MeantTo(n) /\ Meaning[n] \in Sayings /\ InForces[n] = InForceAt(n + 1)
         /\ InForces[n] \in Commands /\ (n \in PartedOnes <=> Parted(n + 1)) /\ Spells \in BOOLEAN
         /\ (Spelled <=> Spells)
<1>1. MeantTo(n) \in Sayings
  BY MeantGrows
<1>2. InForceAt(n + 1) \in Commands
  BY InForceIs
<1> QED BY <1>1, <1>2 DEF Meaning, InForces, PartedOnes, Spells

LEMMA InvShows == ChunksInv => ChunksTrue
<1> SUFFICES ASSUME ChunksInv PROVE ChunksTrue
  OBVIOUS
<1>1. /\ Given /\ place \in 0..Len(utterance) /\ chunks \in Seq(ChunkType) /\ parts \in Seq(Texts) /\ inForce \in Commands
      /\ Noted(FlattenSeq(parts)) /\ over \in {"running", "done", "cancelled"}
  BY DEF ChunksInv, ChunksTyped
<1>2. Told(chunks) \in Sayings /\ Said = Told(chunks)
  BY <1>1, ToldIs DEF Said, Told, Tale
<1>3. Meaning[place] \in Sayings /\ Meaning[place] = MeantTo(place) /\ Spells \in BOOLEAN /\ (Spelled <=> Spells)
  BY <1>1, DecidedIs
<1>4. PICK q \in Sayings : Meant = Then(Meaning[place], q)
  BY <1>1, <1>3, MeantBeginning
<1>5. over = "done" => /\ Said.letters = Meant.letters /\ Len(Said.stops) = Len(Meant.stops)
                       /\ \E r \in Sayings : Says(Then(Told(chunks), r), Meaning[place], Spells)
  <2> SUFFICES ASSUME over = "done"
               PROVE  /\ Said.letters = Meant.letters /\ Len(Said.stops) = Len(Meant.stops)
                      /\ \E r \in Sayings : Says(Then(Told(chunks), r), Meaning[place], Spells)
    OBVIOUS
  <2>1. place = Len(utterance) /\ Says(Told(chunks), Meaning[place], Spells)
    BY DEF ChunksInv, Finished
  <2>2. Meaning[place] = Meant
    BY <1>1, <1>3, <2>1, MeantGrows
  <2>3. Then(Told(chunks), Silence) = Told(chunks) /\ Silence \in Sayings
    BY <1>2, SilenceIs
  <2> QED BY <1>2, <2>1, <2>2, <2>3 DEF Says
<1>6. \E r \in Sayings : Says(Then(Told(chunks), r), Meaning[place], Spells)
  <2>1. CASE over = "running"
    <3>1. FlattenSeq(parts) \in Texts /\ noted \in Marks /\ Fits(noted, FlattenSeq(parts))
      BY <1>1, FlattenTexts, InTextFits DEF Noted
    <3>2. Woven(FlattenSeq(parts), noted, inForce) \in Sayings
      BY <1>1, <3>1, WovenIs
    <3>3. Says(Then(Told(chunks), Woven(FlattenSeq(parts), noted, inForce)), Meaning[place], Spells)
      BY <2>1 DEF ChunksInv, Ongoing
    <3> QED BY <3>2, <3>3
  <2>2. CASE over = "cancelled"
    BY <2>2 DEF ChunksInv, Abandoned
  <2> QED BY <1>1, <1>5, <2>1, <2>2
<1>7. Reaches(Said, Meant)
  BY <1>2, <1>3, <1>4, <1>6, ReachesIs
<1>8. ASSUME NEW c \in DOMAIN chunks, chunks[c].kind = "text" PROVE InText(chunks[c].marks, FlattenSeq(chunks[c].segs))
  <2>1. chunks[c] \in ChunkType
    BY <1>1, ElementOfSeq, LenProperties
  <2> QED BY <1>8, <2>1, SaidInTyped
<1> QED BY <1>5, <1>7, <1>8 DEF ChunksTrue

-----------------------------------------------------------------------------
(* Every step keeps it                                                       *)

LEMMA Initially == ChunksInit => ChunksInv
<1> SUFFICES ASSUME ChunksInit PROVE ChunksInv
  OBVIOUS
<1>1. Given
  BY UtterancesAreSequences, SettingsAreModes DEF ChunksInit, Given
<1>2. /\ place = 0 /\ parts = <<>> /\ counted = 0 /\ noted = <<>> /\ afterIndex = FALSE /\ spelling = FALSE
      /\ inForce = [rate |-> 0, language |-> 0] /\ chunks = <<>> /\ over = "running"
  BY DEF ChunksInit
<1>3. 0 \in 0..Len(utterance)
  BY <1>1, MeantGrows
<1>4. FlattenSeq(parts) = <<>> /\ <<>> \in Texts /\ Len(<<>>) = 0 /\ <<>> \in Seq(Texts) /\ <<>> \in Marks
  BY <1>2, FlattenEmpty, EmptySeq DEF Texts, Marks
<1>5. Noted(FlattenSeq(parts))
  BY <1>2, <1>4, InTextEmpty DEF Noted
<1>6. inForce \in Commands
  BY <1>2 DEF Commands
<1>7. chunks \in Seq(ChunkType) /\ Told(chunks) = Silence
  BY <1>2, ToldEmpty
<1>8. ChunksTyped
  <2>1. parts \in Seq(Texts) /\ counted = Len(FlattenSeq(parts))
    BY <1>2, <1>4
  <2>2. Len(parts) = 0 /\ Len(noted) = 0
    BY <1>2, <1>4
  <2>3. (\A k \in 1..Len(parts) : parts[k] # <<>>) /\ \A n \in 1..Len(noted) : noted[n][1] # 0
    BY <2>2
  <2>4. place \in 0..Len(utterance) /\ afterIndex \in BOOLEAN /\ spelling \in BOOLEAN /\ (spelling => Spells)
        /\ over \in {"running", "done", "cancelled"}
    BY <1>2, <1>3
  <2> QED BY <1>1, <1>5, <1>6, <1>7, <2>1, <2>3, <2>4 DEF ChunksTyped
<1>9. inForce = InForces[place]
  BY <1>1, <1>2, <1>3, DecidedIs, InForceIs
<1>10. Says(Then(Told(chunks), Woven(FlattenSeq(parts), noted, inForce)), Meaning[place], Spells)
  <2>1. Woven(FlattenSeq(parts), noted, inForce) = Silence
    BY <1>2, <1>4, <1>6, WovenNothing
  <2>2. Meaning[place] = Silence
    BY <1>1, <1>2, <1>3, DecidedIs, MeantGrows
  <2>3. Then(Silence, Silence) = Silence /\ Silence \in Sayings
    BY SilenceIs
  <2> QED BY <1>7, <2>1, <2>2, <2>3, SaysItself
<1> QED BY <1>2, <1>8, <1>9, <1>10 DEF ChunksInv, Ongoing, Finished, Abandoned

\* What a step has to show, with what the sequence decides unprimed.
LEMMA StepKeeps ==
  ASSUME Given, UNCHANGED given, place' \in 0..Len(utterance),
         parts' \in Seq(Texts), \A k \in 1..Len(parts') : parts'[k] # <<>>, counted' = Len(FlattenSeq(parts')),
         noted' \in Marks, InText(noted', FlattenSeq(parts')), \A n \in 1..Len(noted') : noted'[n][1] # 0,
         afterIndex' \in BOOLEAN, spelling' \in BOOLEAN, spelling' => Spells,
         inForce' \in Commands, chunks' \in Seq(ChunkType), over' \in {"running", "done", "cancelled"},
         over' = "running" =>
           /\ inForce' = InForces[place']
           /\ Says(Then(Told(chunks'), Woven(FlattenSeq(parts'), noted', inForce')), Meaning[place'], Spells)
           /\ parts' # <<>> /\ ~afterIndex' /\ FlattenSeq(parts')[Len(FlattenSeq(parts'))] = "a"
                => place' \notin PartedOnes,
         over' = "done" => place' = Len(utterance) /\ Says(Told(chunks'), Meaning[place'], Spells),
         over' = "cancelled" => \E r \in Sayings : Says(Then(Told(chunks'), r), Meaning[place'], Spells)
  PROVE  ChunksInv'
<1>1. /\ Meaning' = Meaning /\ InForces' = InForces /\ PartedOnes' = PartedOnes /\ Spells' = Spells
      /\ Given' /\ Len(utterance)' = Len(utterance)
  BY GivenStays
<1>2. ChunksTyped'
  BY <1>1 DEF ChunksTyped, Noted
<1>3. Ongoing'
  BY <1>1 DEF Ongoing
<1>4. Finished'
  BY <1>1 DEF Finished
<1>5. Abandoned'
  BY <1>1 DEF Abandoned
<1> QED BY <1>2, <1>3, <1>4, <1>5 DEF ChunksInv

\* What the text that waits is, while the generator runs.
LEMMA WaitsIs ==
  ASSUME ChunksInv, over = "running"
  PROVE  /\ Given /\ place \in 0..Len(utterance) /\ parts \in Seq(Texts) /\ FlattenSeq(parts) \in Texts
         /\ noted \in Marks /\ InText(noted, FlattenSeq(parts)) /\ Fits(noted, FlattenSeq(parts))
         /\ inForce \in Commands /\ chunks \in Seq(ChunkType) /\ Told(chunks) \in Sayings
         /\ Woven(FlattenSeq(parts), noted, inForce) \in Sayings
         /\ Meaning[place] \in Sayings /\ Spells \in BOOLEAN
         /\ Says(Then(Told(chunks), Woven(FlattenSeq(parts), noted, inForce)), Meaning[place], Spells)
<1>1. /\ Given /\ place \in 0..Len(utterance) /\ parts \in Seq(Texts) /\ inForce \in Commands /\ chunks \in Seq(ChunkType)
      /\ noted \in Marks /\ InText(noted, FlattenSeq(parts))
  BY DEF ChunksInv, ChunksTyped, Noted
<1>2. FlattenSeq(parts) \in Texts /\ Fits(noted, FlattenSeq(parts))
  BY <1>1, FlattenTexts, InTextFits
<1>3. Woven(FlattenSeq(parts), noted, inForce) \in Sayings
  BY <1>1, <1>2, WovenIs
<1>4. Told(chunks) \in Sayings
  BY <1>1, ToldIs
<1>5. Meaning[place] \in Sayings /\ Spells \in BOOLEAN
  BY <1>1, DecidedIs
<1>6. Says(Then(Told(chunks), Woven(FlattenSeq(parts), noted, inForce)), Meaning[place], Spells)
  BY DEF ChunksInv, Ongoing
<1> QED BY <1>1, <1>2, <1>3, <1>4, <1>5, <1>6

\* The text that waits is given: all of it, or when the request is cancelled a beginning.
LEMMA FlushKeeps ==
  ASSUME ChunksInv, over = "running", NEW isEnd \in BOOLEAN, NEW then \in {"running", "done"},
         NEW more \in Seq(ChunkType), FlushText(isEnd, then, more)
  PROVE  /\ parts' = <<>> /\ counted' = 0 /\ noted' = <<>> /\ afterIndex' = FALSE
         /\ chunks' \in Seq(ChunkType) /\ over' \in {then, "cancelled"}
         /\ over' = then => Says(Told(chunks'), Then(Meaning[place], Told(more)), Spells)
         /\ over' = "cancelled" => \E r \in Sayings : Says(Then(Told(chunks'), r), Meaning[place], Spells)
<1> DEFINE w == Woven(Joined, noted, inForce)
           v == Woven(FlattenSeq(parts), noted, inForce)
           t == Told(chunks)
           meant == Meaning[place]
<1>1. /\ Given /\ place \in 0..Len(utterance) /\ parts \in Seq(Texts) /\ noted \in Marks
      /\ inForce \in Commands /\ chunks \in Seq(ChunkType) /\ t \in Sayings /\ v \in Sayings
      /\ meant \in Sayings /\ Spells \in BOOLEAN /\ Says(Then(t, v), meant, Spells)
  BY WaitsIs
<1>2. Settled
  BY <1>1 DEF Settled, Given
<1>3. Joined \in Texts /\ Noted(Joined) /\ Says(w, v, Spells)
  <2>1. Noted(Flat) /\ (\A n \in 1..Len(noted) : noted[n][1] # 0) /\ spelling \in BOOLEAN /\ (spelling => Spells)
    BY DEF ChunksInv, ChunksTyped, Flat
  <2> QED BY <1>1, <2>1, JoinedSays DEF Flat
<1>4. w \in Sayings
  BY <1>1, <1>3, InTextFits, WovenIs DEF Noted
<1>5. PICK flushed \in IF Blank(Joined) THEN {Indexes(noted)}
                       ELSE {Yielded(isEnd, Strip(Joined), ends) : ends \in Cuts(Strip(Joined))} :
        \/ chunks' = chunks \o flushed \o more /\ over' = then
        \/ over' = "cancelled" /\ \E n \in 0..Len(flushed) : chunks' = chunks \o SubSeq(flushed, 1, n)
  BY DEF FlushText
<1>6. flushed \in Seq(ChunkType) /\ Says(Told(flushed), w, Spells)
  BY <1>1, <1>2, <1>3, FlushedIs
<1>7. Told(flushed) \in Sayings /\ Told(more) \in Sayings
  BY <1>6, ToldIs
<1> HIDE DEF w, v, t, meant
<1>8. Says(Then(t, Told(flushed)), meant, Spells)
  <2>1. Says(Told(flushed), v, Spells)
    BY <1>1, <1>3, <1>4, <1>6, <1>7, SaysThrough
  <2>2. Says(t, t, Spells)
    BY <1>1, SaysItself
  <2>3. Says(Then(t, Told(flushed)), Then(t, v), Spells)
    BY <1>1, <1>7, <2>1, <2>2, SaysBoth
  <2>4. Then(t, Told(flushed)) \in Sayings /\ Then(t, v) \in Sayings
    BY <1>1, <1>7, ThenTyped
  <2> QED BY <1>1, <2>3, <2>4, SaysThrough
<1>9. CASE chunks' = chunks \o flushed \o more /\ over' = then
  <2>1. Told(chunks \o flushed) = Then(t, Told(flushed)) /\ chunks \o flushed \in Seq(ChunkType)
    BY <1>1, <1>6, ToldJoined DEF t
  <2>2. Told((chunks \o flushed) \o more) = Then(Then(t, Told(flushed)), Told(more))
        /\ (chunks \o flushed) \o more \in Seq(ChunkType)
    BY <2>1, ToldJoined
  <2>3. Says(Told(more), Told(more), Spells)
    BY <1>7, SaysItself
  <2>4. Then(t, Told(flushed)) \in Sayings
    BY <1>1, <1>7, ThenTyped
  <2>5. Says(Then(Then(t, Told(flushed)), Told(more)), Then(meant, Told(more)), Spells)
    BY <1>1, <1>7, <1>8, <2>3, <2>4, SaysBoth
  <2>6. over' # "cancelled"
    BY <1>9
  <2> QED BY <1>9, <2>2, <2>5, <2>6 DEF FlushText, meant
<1>10. CASE over' = "cancelled" /\ \E n \in 0..Len(flushed) : chunks' = chunks \o SubSeq(flushed, 1, n)
  <2>1. PICK n \in 0..Len(flushed) : chunks' = chunks \o SubSeq(flushed, 1, n)
    BY <1>10
  <2> DEFINE f == SubSeq(flushed, 1, n)
  <2>2. f \in Seq(ChunkType) /\ \E r \in Sayings : Told(flushed) = Then(Told(f), r)
    BY <1>6, ToldBeginning
  <2>3. PICK r \in Sayings : Told(flushed) = Then(Told(f), r)
    BY <2>2
  <2> HIDE DEF f
  <2>4. Told(chunks \o f) = Then(t, Told(f)) /\ chunks \o f \in Seq(ChunkType) /\ Told(f) \in Sayings
    BY <1>1, <2>2, ToldJoined, ToldIs DEF t
  <2>5. Then(Then(t, Told(f)), r) = Then(t, Told(flushed))
    BY <1>1, <2>3, <2>4, ThenAssociates
  <2>6. Says(Then(Told(chunks \o f), r), meant, Spells)
    BY <1>8, <2>4, <2>5
  <2>7. chunks' = chunks \o f
    BY <2>1 DEF f
  <2>8. over' # then
    BY <1>10
  <2> QED BY <1>10, <2>4, <2>6, <2>7, <2>8 DEF FlushText, meant
<1> QED BY <1>5, <1>9, <1>10

LEMMA LastOfJoined ==
  ASSUME NEW s \in Texts, NEW t \in Texts, t # <<>>
  PROVE  (s \o t)[Len(s \o t)] = t[Len(t)] /\ s \o t # <<>> /\ Len(t) \in 1..Len(t)
<1>1. /\ s \o t \in Texts /\ Len(s \o t) = Len(s) + Len(t) /\ Len(s) \in Nat /\ Len(t) \in Nat
      /\ \A n \in 1..Len(t) : (s \o t)[Len(s) + n] = t[n]
  BY JoinedHas DEF Texts
<1>2. Len(t) # 0
  BY EmptySeq DEF Texts
<1>3. Len(t) \in 1..Len(t) /\ Len(s) + Len(t) # 0
  BY <1>1, <1>2
<1> QED BY <1>1, <1>3, EmptySeq

LEMMA FinalOf ==
  ASSUME NEW p \in Seq(Texts), p # <<>>, \A k \in 1..Len(p) : p[k] # <<>>
  PROVE  FlattenSeq(p) # <<>> /\ Last(Last(p)) = FlattenSeq(p)[Len(FlattenSeq(p))]
<1>1. Len(p) \in Nat /\ Len(p) \in 1..Len(p)
  <2>1. Len(p) \in Nat /\ Len(p) # 0
    BY EmptySeq, LenProperties
  <2> QED BY <2>1
<1>2. p[Len(p)] \in Texts /\ p[Len(p)] # <<>>
  BY <1>1, ElementOfSeq
<1> DEFINE f == FlattenSeq(SubSeq(p, 1, Len(p) - 1))
           l == p[Len(p)]
<1>3. FlattenSeq(SubSeq(p, 1, Len(p))) = f \o l /\ f \in Texts
  BY <1>1, FlattenGrows DEF Texts
<1>4. FlattenSeq(p) = f \o l
  BY <1>3, SubSeqFull
<1>5. Last(p) = l /\ Last(l) = l[Len(l)]
  BY DEF Last
<1> HIDE DEF f, l
<1>6. (f \o l)[Len(f \o l)] = l[Len(l)] /\ f \o l # <<>>
  <2>1. l \in Texts /\ l # <<>>
    BY <1>2 DEF l
  <2> QED BY <1>3, <2>1, LastOfJoined
<1> QED BY <1>4, <1>5, <1>6

LEMMA ItemServed ==
  ASSUME ChunksInv, NEW kind, Next1(kind)
  PROVE  /\ over = "running" /\ place + 1 \in 1..Len(utterance) /\ place' = place + 1 /\ place' \in 0..Len(utterance)
         /\ Is(place + 1, kind) /\ Item = utterance[place + 1]
         /\ MeantIn(place + 1) \in Sayings /\ Meaning[place'] = Then(Meaning[place], MeantIn(place + 1))
         /\ inForce = InForceAt(place + 1) /\ InForces[place'] = InForceAt((place + 1) + 1)
         /\ (place \in PartedOnes <=> Parted(place + 1))
         /\ kind # "index" /\ place' \in PartedOnes => Parted(place + 1) /\ (kind = "text" => Blank(Item[2]))
<1>1. over = "running" /\ place < Len(utterance) /\ Item[1] = kind /\ place' = place + 1 /\ Item = utterance[place + 1]
  BY DEF Next1, Item
<1>2. Given /\ place \in 0..Len(utterance) /\ Len(utterance) \in Nat /\ inForce = InForces[place]
  BY <1>1, MeantGrows DEF ChunksInv, ChunksTyped, Ongoing
<1>3. place + 1 \in 1..Len(utterance) /\ place + 1 \in 0..Len(utterance) /\ (place + 1) - 1 = place
  BY <1>1, <1>2
<1>4. Is(place + 1, kind)
  BY <1>1 DEF Is
<1>5. MeantIn(place + 1) \in Sayings /\ MeantTo(place + 1) = Then(MeantTo(place), MeantIn(place + 1))
  BY <1>2, <1>3, MeantInIs, MeantGrows
<1>6. Meaning[place + 1] = MeantTo(place + 1) /\ Meaning[place] = MeantTo(place)
      /\ InForces[place + 1] = InForceAt((place + 1) + 1) /\ InForces[place] = InForceAt(place + 1)
      /\ (place \in PartedOnes <=> Parted(place + 1)) /\ (place + 1 \in PartedOnes <=> Parted((place + 1) + 1))
  BY <1>2, <1>3, DecidedIs
<1>7. kind # "index" /\ place + 1 \in PartedOnes => Parted(place + 1) /\ (kind = "text" => Blank(Item[2]))
  <2> SUFFICES ASSUME kind # "index", place + 1 \in PartedOnes
               PROVE  Parted(place + 1) /\ (kind = "text" => Blank(Item[2]))
    OBVIOUS
  <2>1. ~Is(place + 1, "index") /\ (kind = "text" => Is(place + 1, "text"))
    BY <1>4 DEF Is
  <2> QED BY <1>1, <1>2, <1>3, <1>6, <2>1, PartedOn
<1> QED BY <1>1, <1>2, <1>3, <1>4, <1>5, <1>6, <1>7

\* A command at which the text so far is given.
LEMMA FlushStep ==
  ASSUME ChunksInv, NEW kind, Next1(kind), NEW isEnd \in BOOLEAN, NEW more \in Seq(ChunkType),
         FlushText(isEnd, "running", more), Told(more) = MeantIn(place + 1), UNCHANGED <<given, spelling>>,
         inForce' \in Commands, over' = "running" => inForce' = InForces[place']
  PROVE  ChunksInv'
<1>1. /\ over = "running" /\ place' \in 0..Len(utterance)
      /\ MeantIn(place + 1) \in Sayings /\ Meaning[place'] = Then(Meaning[place], MeantIn(place + 1))
  BY ItemServed
<1>2. /\ parts' = <<>> /\ counted' = 0 /\ noted' = <<>> /\ afterIndex' = FALSE
      /\ chunks' \in Seq(ChunkType) /\ over' \in {"running", "cancelled"}
      /\ over' = "running" => Says(Told(chunks'), Then(Meaning[place], Told(more)), Spells)
      /\ over' = "cancelled" => \E r \in Sayings : Says(Then(Told(chunks'), r), Meaning[place], Spells)
  BY <1>1, FlushKeeps
<1>3. Given /\ Meaning[place] \in Sayings /\ Spells \in BOOLEAN
  BY <1>1, WaitsIs
<1>4. UNCHANGED given /\ spelling' \in BOOLEAN /\ (spelling' => Spells)
  BY DEF ChunksInv, ChunksTyped
<1>5. FlattenSeq(parts') = <<>> /\ <<>> \in Seq(Texts) /\ <<>> \in Marks /\ Len(<<>>) = 0 /\ InText(<<>>, <<>>)
  BY <1>2, FlattenEmpty, EmptySeq, InTextEmpty DEF Marks
<1>6. Told(chunks') \in Sayings
  BY <1>2, ToldIs
<1>7. Then(Told(chunks'), Woven(FlattenSeq(parts'), noted', inForce')) = Told(chunks')
  BY <1>2, <1>5, <1>6, WovenNothing, SilenceIs
<1>8. over' = "cancelled" => \E r \in Sayings : Says(Then(Told(chunks'), r), Meaning[place'], Spells)
  <2> SUFFICES ASSUME over' = "cancelled" PROVE \E r \in Sayings : Says(Then(Told(chunks'), r), Meaning[place'], Spells)
    OBVIOUS
  <2>1. PICK r \in Sayings : Says(Then(Told(chunks'), r), Meaning[place], Spells)
    BY <1>2
  <2> DEFINE m == MeantIn(place + 1)
             t == Told(chunks')
             b == Meaning[place]
  <2>2. m \in Sayings /\ t \in Sayings /\ b \in Sayings /\ Says(Then(t, r), b, Spells) /\ Meaning[place'] = Then(b, m)
    BY <1>1, <1>3, <1>6, <2>1
  <2> HIDE DEF m, t, b
  <2>3. Then(t, r) \in Sayings /\ Then(r, m) \in Sayings /\ Then(Then(t, r), m) = Then(t, Then(r, m))
    BY <2>2, ThenTyped, ThenAssociates
  <2>4. Says(m, m, Spells)
    BY <2>2, SaysItself
  <2>5. Says(Then(Then(t, r), m), Then(b, m), Spells)
    BY <1>3, <2>2, <2>3, <2>4, SaysBoth
  <2> QED BY <2>2, <2>3, <2>5 DEF t
<1>9. over' = "running" =>
        /\ inForce' = InForces[place']
        /\ Says(Then(Told(chunks'), Woven(FlattenSeq(parts'), noted', inForce')), Meaning[place'], Spells)
        /\ parts' # <<>> /\ ~afterIndex' /\ FlattenSeq(parts')[Len(FlattenSeq(parts'))] = "a" => place' \notin PartedOnes
  BY <1>1, <1>2, <1>7
<1>10. /\ parts' \in Seq(Texts) /\ counted' = Len(FlattenSeq(parts')) /\ noted' \in Marks
       /\ InText(noted', FlattenSeq(parts')) /\ Len(parts') = 0 /\ Len(noted') = 0
  BY <1>2, <1>5
<1>11. (\A k \in 1..Len(parts') : parts'[k] # <<>>) /\ \A n \in 1..Len(noted') : noted'[n][1] # 0
  BY <1>10
<1>12. over' # "done" /\ over' \in {"running", "done", "cancelled"} /\ afterIndex' \in BOOLEAN
  BY <1>2
<1> QED BY <1>1, <1>2, <1>3, <1>4, <1>8, <1>9, <1>10, <1>11, <1>12, StepKeeps

LEMMA OneSpace ==
  \E sp \in Texts : sp = <<" ">> /\ sp # <<>> /\ Spaces(sp) /\ sp[Len(sp)] = " "
<1>1. PICK x \in Characters : x = " "
  BY DEF Characters
<1> DEFINE sp == <<x>>
<1>2. sp \in Seq(Characters) /\ Len(sp) = 1 /\ sp[1] = x
  OBVIOUS
<1>5. sp = <<" ">>
  BY <1>1
<1> HIDE DEF sp
<1>3. sp # <<>>
  BY <1>2, EmptySeq
<1>4. \A n \in 1..Len(sp) : n = 1
  BY <1>2
<1> QED BY <1>1, <1>2, <1>3, <1>4, <1>5 DEF Texts, Spaces

JustThese(q, s) == q \in Seq(Texts) /\ FlattenSeq(q) = s /\ \A k \in 1..Len(q) : q[k] # <<>>

LEMMA TwoTexts ==
  ASSUME NEW f \in Texts, NEW s \in Texts, NEW x \in Texts, s # <<>>, x # <<>>
  PROVE  /\ s \o x \in Texts /\ f \o s \in Texts /\ f \o (s \o x) = (f \o s) \o x
         /\ JustThese(<<s, x>>, s \o x)
<1>1. <<s, x>> \in Seq(Texts) /\ <<s>> \in Seq(Texts) /\ <<x>> \in Seq(Texts)
  OBVIOUS
<1>2. <<s, x>> = <<s>> \o <<x>>
  BY TwoJoined
<1>3. FlattenSeq(<<s>>) = s /\ FlattenSeq(<<x>>) = x
  BY FlattenOne DEF Texts
<1> DEFINE a == <<s>>
           b == <<x>>
<1>4. a \in Seq(Texts) /\ b \in Seq(Texts) /\ FlattenSeq(a) = s /\ FlattenSeq(b) = x /\ <<s, x>> = a \o b
  BY <1>1, <1>2, <1>3
<1> HIDE DEF a, b
<1>5. FlattenSeq(a \o b) = FlattenSeq(a) \o FlattenSeq(b)
  BY <1>4, FlattenJoined DEF Texts
<1>6. s \o x \in Texts /\ f \o s \in Texts
  BY JoinedHas DEF Texts
<1>7. f \o (s \o x) = (f \o s) \o x
  BY TextsJoined
<1>8. \A k \in 1..Len(<<s, x>>) : (<<s, x>>)[k] # <<>>
  <2>1. Len(<<s, x>>) = 2 /\ (<<s, x>>)[1] = s /\ (<<s, x>>)[2] = x
    OBVIOUS
  <2>2. \A k \in 1..2 : k = 1 \/ k = 2
    OBVIOUS
  <2> QED BY <2>1, <2>2
<1>9. FlattenSeq(<<s, x>>) = s \o x
  BY <1>4, <1>5
<1> QED BY <1>1, <1>6, <1>7, <1>8, <1>9 DEF JustThese

LEMMA AppendTextKeeps == ChunksInv /\ AppendText => ChunksInv'
<1> SUFFICES ASSUME ChunksInv, AppendText PROVE ChunksInv'
  OBVIOUS
<1> DEFINE x == Item[2]
           f == FlattenSeq(parts)
           i == place + 1
           apart == /\ afterIndex /\ ~spelling /\ parts # <<>>
                    /\ NeedsBoundarySpace(Last(Last(parts)), Head(Item[2]))
           added == IF apart THEN <<<<" ">>, Item[2]>> ELSE <<Item[2]>>
           free == IF Parted(i) THEN FALSE ELSE TRUE
           t == Told(chunks)
           meant == Meaning[place]
           more == MeantIn(i)
           c == inForce
<1>1. /\ over = "running" /\ i \in 1..Len(utterance) /\ place' \in 0..Len(utterance) /\ Is(i, "text")
      /\ x = utterance[i][2] /\ more \in Sayings /\ Meaning[place'] = Then(meant, more)
      /\ inForce = InForceAt(i) /\ InForces[place'] = InForceAt(i + 1) /\ (place \in PartedOnes <=> Parted(i))
      /\ place' \in PartedOnes => Blank(x)
  <2>1. Next1("text")
    BY DEF AppendText
  <2> QED BY <2>1, ItemServed
<1>2. /\ parts' = parts \o added /\ counted' = counted + Len(FlattenSeq(added)) /\ afterIndex' = FALSE
      /\ UNCHANGED <<given, noted, spelling, inForce, chunks, over>>
  BY DEF AppendText
<1>3. /\ Given /\ parts \in Seq(Texts) /\ f \in Texts /\ noted \in Marks /\ InText(noted, f) /\ Fits(noted, f)
      /\ c \in Commands /\ chunks \in Seq(ChunkType) /\ t \in Sayings /\ Woven(f, noted, c) \in Sayings
      /\ meant \in Sayings /\ Spells \in BOOLEAN /\ Says(Then(t, Woven(f, noted, c)), meant, Spells)
  BY <1>1, WaitsIs
<1>4. /\ (\A k \in 1..Len(parts) : parts[k] # <<>>) /\ counted = Len(f) /\ (\A n \in 1..Len(noted) : noted[n][1] # 0)
      /\ afterIndex \in BOOLEAN /\ spelling \in BOOLEAN /\ (spelling => Spells)
  BY DEF ChunksInv, ChunksTyped
<1>5. parts # <<>> /\ ~afterIndex /\ f[Len(f)] = "a" => place \notin PartedOnes
  BY <1>1 DEF ChunksInv, Ongoing
<1>6. x \in Texts /\ x # <<>> /\ MeansText(more, x, c, free)
  BY <1>1, <1>3, ItemOf, MeantInIs DEF MeansText
<1>7. PICK sp \in Texts : sp = <<" ">> /\ sp # <<>> /\ Spaces(sp) /\ sp[Len(sp)] = " "
  BY OneSpace
<1>9. parts # <<>> => f # <<>> /\ Last(Last(parts)) = f[Len(f)]
  BY <1>3, <1>4, FinalOf
<1>10. parts = <<>> => f = <<>>
  BY FlattenEmpty
<1>11. InForces[place'] = inForce'
  <2>1. ~Is(i, "rate") /\ ~Is(i, "language")
    BY <1>1 DEF Is
  <2> QED BY <1>1, <1>2, <1>3, <2>1, InForceGrows
\* The text before the new one: the text that waits, and after it perhaps a space.
<1>12. \E s \in Texts :
         /\ FlattenSeq(added) \in Texts /\ f \o FlattenSeq(added) = s \o x
         /\ Fits(noted, s) /\ Woven(s, noted, c) = Woven(f, noted, c)
         /\ Touch(s, x) /\ ~Spells => free
         /\ added \in Seq(Texts) /\ \A k \in 1..Len(added) : added[k] # <<>>
  <2>1. CASE apart
    <3>1. added = <<sp, x>>
      BY <1>7, <2>1
    <3>2. x \in Texts /\ x # <<>> /\ f \in Texts
      BY <1>3, <1>6
    <3>3. /\ sp \o x \in Texts /\ f \o sp \in Texts /\ f \o (sp \o x) = (f \o sp) \o x
          /\ JustThese(<<sp, x>>, sp \o x)
      <4> HIDE DEF x, f
      <4>1. sp # <<>>
        BY <1>7
      <4> QED BY <3>2, <4>1, TwoTexts
    <3>7. Fits(noted, f \o sp)
      BY <1>3, TextAdded
    <3>8. Woven(f \o sp, noted, c) = Woven(f, noted, c)
      BY <1>3, <1>7, SpaceAdded
    <3>9. ~Touch(f \o sp, x)
      <4>1. (f \o sp)[Len(f \o sp)] = sp[Len(sp)]
        BY <1>3, <1>7, LastOfJoined
      <4> QED BY <1>7, <4>1 DEF Touch
    <3> HIDE DEF added, x, f, free
    <3>4. JustThese(added, sp \o x)
      BY <3>1, <3>3
    <3> QED BY <3>3, <3>4, <3>7, <3>8, <3>9 DEF JustThese
  <2>2. CASE ~apart
    <3>1. added = <<x>>
      BY <2>2
    <3>2. <<x>> \in Seq(Texts) /\ Len(<<x>>) = 1 /\ (<<x>>)[1] = x
      BY <1>6
    <3>3. FlattenSeq(<<x>>) = x
      BY <1>6, FlattenOne DEF Texts
    <3>4. ASSUME Touch(f, x), ~Spells PROVE free
      <4>1. f # <<>> /\ f[Len(f)] = "a" /\ x[1] = "a"
        BY <3>4 DEF Touch
      <4>2. parts # <<>> /\ Last(Last(parts)) = "a" /\ Head(Item[2]) = "a"
        BY <1>9, <1>10, <4>1
      <4>3. NeedsBoundarySpace(Last(Last(parts)), Head(Item[2]))
        BY <4>2 DEF NeedsBoundarySpace
      <4>4. ~afterIndex
        BY <1>4, <2>2, <3>4, <4>2, <4>3
      <4> QED BY <1>1, <1>5, <4>1, <4>2, <4>4
    <3>5. \A k \in 1..Len(<<x>>) : (<<x>>)[k] # <<>>
      BY <1>6, <3>2
    <3> QED BY <1>3, <1>6, <3>1, <3>2, <3>3, <3>4, <3>5
  <2> QED BY <2>1, <2>2
<1> HIDE DEF added, apart, free, x, f, i, t, meant, more, c
<1>13. PICK s \in Texts :
         /\ FlattenSeq(added) \in Texts /\ f \o FlattenSeq(added) = s \o x
         /\ Fits(noted, s) /\ Woven(s, noted, c) = Woven(f, noted, c)
         /\ Touch(s, x) /\ ~Spells => free
         /\ added \in Seq(Texts) /\ \A k \in 1..Len(added) : added[k] # <<>>
  BY <1>12
<1>14. free \in BOOLEAN
  BY DEF free
<1>15. Says(Then(t, Woven(s \o x, noted, c)), Then(meant, more), Spells)
  <2>1. Says(Then(t, Woven(s, noted, c)), meant, Spells)
    BY <1>3, <1>13
  <2> QED BY <1>3, <1>1, <1>6, <1>13, <1>14, <2>1, TextKept
<1>16. FlattenSeq(parts') = s \o x /\ parts' \in Seq(Texts)
  <2>1. FlattenSeq(parts \o added) = f \o FlattenSeq(added)
    BY <1>3, <1>13, FlattenJoined DEF Texts, f
  <2>2. parts \o added \in Seq(Texts)
    BY <1>3, <1>13, JoinedHas
  <2> QED BY <1>2, <1>13, <2>1, <2>2
<1>17. \A k \in 1..Len(parts') : parts'[k] # <<>>
  <2>1. /\ Len(parts \o added) = Len(parts) + Len(added) /\ Len(parts) \in Nat /\ Len(added) \in Nat
        /\ \A k \in 1..Len(parts) : (parts \o added)[k] = parts[k]
        /\ \A k \in 1..Len(added) : (parts \o added)[Len(parts) + k] = added[k]
    BY <1>3, <1>13, JoinedHas
  <2>2. ASSUME NEW k \in 1..Len(parts \o added) PROVE (parts \o added)[k] # <<>>
    <3>1. CASE k \in 1..Len(parts)
      BY <1>4, <2>1, <3>1
    <3>2. CASE k \notin 1..Len(parts)
      <4>1. PICK j \in 1..Len(added) : k = Len(parts) + j
        <5>1. k - Len(parts) \in 1..Len(added) /\ k = Len(parts) + (k - Len(parts))
          BY <2>1, <3>2
        <5> QED BY <5>1
      <4> QED BY <1>13, <2>1, <4>1
    <3> QED BY <3>1, <3>2
  <2> QED BY <1>2, <2>2
<1>18. counted' = Len(s \o x) /\ InText(noted, s \o x)
  <2>1. /\ Len(f \o FlattenSeq(added)) = Len(f) + Len(FlattenSeq(added))
        /\ f \o FlattenSeq(added) \in Texts
    BY <1>3, <1>13, JoinedHas DEF Texts
  <2>2. InText(noted, f \o FlattenSeq(added))
    <3>1. InText(<<>>, FlattenSeq(added)) /\ <<>> \in Marks
      BY InTextEmpty, EmptySeq DEF Marks
    <3>2. noted \o Moved(<<>>, Len(f)) = noted
      BY <1>3, MovedEmpty, ConcatEmptySeq DEF Marks
    <3> QED BY <1>3, <1>13, <3>1, <3>2, InTextJoined
  <2> QED BY <1>2, <1>4, <1>13, <2>1, <2>2
<1>19. (s \o x)[Len(s \o x)] = "a" => place' \notin PartedOnes
  <2>1. (s \o x)[Len(s \o x)] = x[Len(x)] /\ Len(x) \in 1..Len(x)
    BY <1>6, <1>13, LastOfJoined
  <2>2. Blank(x) => x[Len(x)] = " "
    BY <1>6, <2>1, InkIs DEF Spaces
  <2> QED BY <1>1, <2>1, <2>2
<1>20. UNCHANGED given /\ noted' = noted /\ spelling' = spelling /\ inForce' = inForce /\ chunks' = chunks /\ over' = "running"
  BY <1>1, <1>2
<1>21. /\ inForce' = InForces[place']
       /\ Says(Then(Told(chunks'), Woven(FlattenSeq(parts'), noted', inForce')), Meaning[place'], Spells)
  BY <1>1, <1>11, <1>15, <1>16, <1>20 DEF t, c
<1>22. /\ noted' \in Marks /\ counted' = Len(FlattenSeq(parts')) /\ InText(noted', FlattenSeq(parts'))
       /\ \A n \in 1..Len(noted') : noted'[n][1] # 0
  BY <1>3, <1>4, <1>16, <1>18, <1>20
<1>23. /\ afterIndex' \in BOOLEAN /\ spelling' \in BOOLEAN /\ (spelling' => Spells) /\ inForce' \in Commands
       /\ chunks' \in Seq(ChunkType) /\ over' \in {"running", "done", "cancelled"} /\ over' # "done" /\ over' # "cancelled"
  <2>1. afterIndex' \in BOOLEAN
    BY <1>2
  <2>2. spelling' \in BOOLEAN /\ (spelling' => Spells)
    BY <1>4, <1>20
  <2>3. inForce' \in Commands /\ chunks' \in Seq(ChunkType)
    BY <1>3, <1>20 DEF c
  <2>4. over' \in {"running", "done", "cancelled"} /\ over' # "done" /\ over' # "cancelled"
    BY <1>20
  <2> QED BY <2>1, <2>2, <2>3, <2>4
<1>24. FlattenSeq(parts')[Len(FlattenSeq(parts'))] = "a" => place' \notin PartedOnes
  BY <1>16, <1>19
<1> QED BY <1>1, <1>3, <1>16, <1>17, <1>20, <1>21, <1>22, <1>23, <1>24, StepKeeps

LEMMA IndexKeeps == ChunksInv /\ Index => ChunksInv'
<1> SUFFICES ASSUME ChunksInv, Index PROVE ChunksInv'
  OBVIOUS
<1> DEFINE i == place + 1
           f == FlattenSeq(parts)
           t == Told(chunks)
           meant == Meaning[place]
           v == Woven(f, noted, inForce)
           k == <<i, Len(f)>>
           p == Append(noted, k)
<1>1. /\ over = "running" /\ i \in 1..Len(utterance) /\ place' \in 0..Len(utterance) /\ Is(i, "index")
      /\ Meaning[place'] = Then(meant, MeantIn(i))
      /\ inForce = InForceAt(i) /\ InForces[place'] = InForceAt(i + 1)
  <2>1. Next1("index")
    BY DEF Index
  <2> QED BY <2>1, ItemServed
<1>2. /\ noted' = Append(noted, <<i, counted>>) /\ afterIndex' = (afterIndex \/ parts # <<>>)
      /\ UNCHANGED <<given, parts, counted, spelling, inForce, chunks, over>>
  BY DEF Index
<1>3. /\ Given /\ parts \in Seq(Texts) /\ f \in Texts /\ noted \in Marks /\ InText(noted, f)
      /\ inForce \in Commands /\ chunks \in Seq(ChunkType) /\ t \in Sayings /\ v \in Sayings
      /\ meant \in Sayings /\ Spells \in BOOLEAN /\ Says(Then(t, v), meant, Spells)
  BY <1>1, WaitsIs
<1>4. /\ (\A n \in 1..Len(parts) : parts[n] # <<>>) /\ counted = Len(f) /\ (\A n \in 1..Len(noted) : noted[n][1] # 0)
      /\ afterIndex \in BOOLEAN /\ spelling \in BOOLEAN /\ (spelling => Spells)
  BY DEF ChunksInv, ChunksTyped
<1>5. MeantIn(i) = Stop(i) /\ i \in Nat /\ i # 0 /\ Stop(i) \in Sayings
  BY <1>1, <1>3, MeantInIs, StopIs
<1>6. noted' = p
  BY <1>2, <1>4
<1>7. p \in Marks /\ InText(p, f) /\ Woven(f, p, inForce) = Then(v, Stop(i))
  BY <1>3, <1>5, IndexAdded
<1>8. \A n \in 1..Len(p) : p[n][1] # 0
  <2>1. k \in MarkType /\ k[1] = i
    <3>1. Len(f) \in Nat
      BY <1>3, LenProperties DEF Texts
    <3> QED BY <1>5, <3>1 DEF MarkType
  <2> HIDE DEF k
  <2>2. Len(p) = Len(noted) + 1 /\ Len(noted) \in Nat /\ p[Len(noted) + 1] = k /\ \A n \in 1..Len(noted) : p[n] = noted[n]
    BY <1>3, <2>1, AppendHas DEF Marks
  <2>3. \A n \in 1..Len(noted) + 1 : n \in 1..Len(noted) \/ n = Len(noted) + 1
    BY <2>2
  <2> QED BY <1>4, <1>5, <2>1, <2>2, <2>3
<1>9. InForces[place'] = inForce'
  <2>1. ~Is(i, "rate") /\ ~Is(i, "language")
    BY <1>1 DEF Is
  <2> QED BY <1>1, <1>2, <1>3, <2>1, InForceGrows
<1> HIDE DEF i, f, t, meant, v, k, p
<1>10. Says(Then(t, Woven(f, p, inForce)), Then(meant, Stop(i)), Spells)
  <2>1. Then(Then(t, v), Stop(i)) = Then(t, Then(v, Stop(i))) /\ Then(t, v) \in Sayings
    BY <1>3, <1>5, ThenAssociates, ThenTyped
  <2>2. Says(Stop(i), Stop(i), Spells)
    BY <1>5, SaysItself
  <2>3. Says(Then(Then(t, v), Stop(i)), Then(meant, Stop(i)), Spells)
    BY <1>3, <1>5, <2>1, <2>2, SaysBoth
  <2> QED BY <1>7, <2>1, <2>3
<1>11. UNCHANGED given /\ parts' = parts /\ counted' = counted /\ spelling' = spelling /\ inForce' = inForce
       /\ chunks' = chunks /\ over' = "running"
  BY <1>1, <1>2
<1>12. /\ inForce' = InForces[place']
       /\ Says(Then(Told(chunks'), Woven(FlattenSeq(parts'), noted', inForce')), Meaning[place'], Spells)
       /\ ~(parts' # <<>> /\ ~afterIndex')
  <2>1. ~(parts' # <<>> /\ ~afterIndex')
    BY <1>2, <1>11
  <2> QED BY <1>1, <1>5, <1>6, <1>9, <1>10, <1>11, <2>1 DEF t, f
<1>13. /\ parts' \in Seq(Texts) /\ (\A n \in 1..Len(parts') : parts'[n] # <<>>) /\ counted' = Len(FlattenSeq(parts'))
       /\ noted' \in Marks /\ InText(noted', FlattenSeq(parts')) /\ \A n \in 1..Len(noted') : noted'[n][1] # 0
  BY <1>3, <1>4, <1>6, <1>7, <1>8, <1>11 DEF f
<1>14. afterIndex' \in BOOLEAN
  BY <1>2
<1>15. spelling' \in BOOLEAN /\ (spelling' => Spells) /\ inForce' \in Commands /\ chunks' \in Seq(ChunkType)
  BY <1>3, <1>4, <1>11
<1>16. over' \in {"running", "done", "cancelled"} /\ over' # "done" /\ over' # "cancelled"
  BY <1>11
<1> QED BY <1>1, <1>3, <1>11, <1>12, <1>13, <1>14, <1>15, <1>16, StepKeeps

\* An item that only changes what holds for the items after it.
LEMMA QuietStep ==
  ASSUME ChunksInv, NEW kind \in {"spell", "language"}, Next1(kind), UNCHANGED <<given, text, inForce, chunks, over>>,
         spelling' \in BOOLEAN, spelling' => Spells, InForces[place'] = inForce
  PROVE  ChunksInv'
<1>1. /\ over = "running" /\ place + 1 \in 1..Len(utterance) /\ place' \in 0..Len(utterance) /\ Is(place + 1, kind)
      /\ Meaning[place'] = Then(Meaning[place], MeantIn(place + 1)) /\ (place \in PartedOnes <=> Parted(place + 1))
      /\ place' \in PartedOnes => Parted(place + 1)
  BY ItemServed
<1>2. /\ Given /\ parts \in Seq(Texts) /\ noted \in Marks /\ InText(noted, FlattenSeq(parts))
      /\ inForce \in Commands /\ chunks \in Seq(ChunkType) /\ Meaning[place] \in Sayings
      /\ Says(Then(Told(chunks), Woven(FlattenSeq(parts), noted, inForce)), Meaning[place], Spells)
  BY <1>1, WaitsIs
<1>3. /\ (\A n \in 1..Len(parts) : parts[n] # <<>>) /\ counted = Len(FlattenSeq(parts))
      /\ (\A n \in 1..Len(noted) : noted[n][1] # 0) /\ afterIndex \in BOOLEAN
  BY DEF ChunksInv, ChunksTyped
<1>4. parts # <<>> /\ ~afterIndex /\ FlattenSeq(parts)[Len(FlattenSeq(parts))] = "a" => place \notin PartedOnes
  BY <1>1 DEF ChunksInv, Ongoing
<1>5. MeantIn(place + 1) = Silence
  <2>1. ~Is(place + 1, "text") /\ ~Is(place + 1, "index") /\ ~Is(place + 1, "break")
    BY <1>1 DEF Is
  <2> QED BY <1>1, <1>2, <2>1, MeantInIs
<1>6. Meaning[place'] = Meaning[place]
  BY <1>1, <1>2, <1>5, SilenceIs
<1>7. UNCHANGED given /\ parts' = parts /\ counted' = counted /\ noted' = noted /\ afterIndex' = afterIndex
      /\ inForce' = inForce /\ chunks' = chunks /\ over' = "running"
  BY <1>1 DEF text
<1>8. /\ inForce' = InForces[place']
      /\ Says(Then(Told(chunks'), Woven(FlattenSeq(parts'), noted', inForce')), Meaning[place'], Spells)
  BY <1>2, <1>6, <1>7
<1>9. parts' # <<>> /\ ~afterIndex' /\ FlattenSeq(parts')[Len(FlattenSeq(parts'))] = "a" => place' \notin PartedOnes
  BY <1>1, <1>4, <1>7
<1>10. /\ parts' \in Seq(Texts) /\ (\A n \in 1..Len(parts') : parts'[n] # <<>>) /\ counted' = Len(FlattenSeq(parts'))
       /\ noted' \in Marks /\ InText(noted', FlattenSeq(parts')) /\ \A n \in 1..Len(noted') : noted'[n][1] # 0
  BY <1>2, <1>3, <1>7
<1>11. afterIndex' \in BOOLEAN /\ inForce' \in Commands /\ chunks' \in Seq(ChunkType)
  BY <1>2, <1>3, <1>7
<1>12. over' \in {"running", "done", "cancelled"} /\ over' # "done" /\ over' # "cancelled"
  BY <1>7
<1> QED BY <1>1, <1>2, <1>7, <1>8, <1>9, <1>10, <1>11, <1>12, StepKeeps

LEMMA CharacterModeKeeps == ChunksInv /\ CharacterMode => ChunksInv'
<1> SUFFICES ASSUME ChunksInv, CharacterMode PROVE ChunksInv'
  OBVIOUS
<1>1. Next1("spell") /\ spelling' = Item[2] /\ UNCHANGED <<given, text, inForce, chunks, over>>
  BY DEF CharacterMode
<1>2. /\ over = "running" /\ place + 1 \in 1..Len(utterance) /\ Is(place + 1, "spell") /\ Item = utterance[place + 1]
      /\ inForce = InForceAt(place + 1) /\ InForces[place'] = InForceAt((place + 1) + 1)
  BY <1>1, ItemServed
<1>3. Given
  BY <1>2, WaitsIs
<1>4. InForces[place'] = inForce
  <2>1. ~Is(place + 1, "rate") /\ ~Is(place + 1, "language")
    BY <1>2 DEF Is
  <2> QED BY <1>2, <1>3, <2>1, InForceGrows
<1>5. spelling' \in BOOLEAN
  <2>1. utterance[place + 1] \in ItemType
    BY <1>2, <1>3, ItemOf
  <2>2. Item[1] = "spell"
    BY <1>1 DEF Next1
  <2> QED BY <1>1, <1>2, <2>1, <2>2, ItemIs
<1>6. Spells
  <2>1. place + 1 \in Items
    BY <1>2, <1>3, ItemOf
  <2> QED BY <1>2, <2>1 DEF Spells, Spelled
<1> QED BY <1>1, <1>4, <1>5, <1>6, QuietStep

LEMMA BreakCommandKeeps == ChunksInv /\ BreakCommand => ChunksInv'
<1> SUFFICES ASSUME ChunksInv, BreakCommand PROVE ChunksInv'
  OBVIOUS
<1>1. Next1("break") /\ FlushText(FALSE, "running", <<Break>>) /\ UNCHANGED <<given, spelling, inForce>>
  BY DEF BreakCommand
<1>2. /\ over = "running" /\ place + 1 \in 1..Len(utterance) /\ Is(place + 1, "break")
      /\ inForce = InForceAt(place + 1) /\ InForces[place'] = InForceAt((place + 1) + 1)
  BY <1>1, ItemServed
<1>3. Given /\ inForce \in Commands
  BY <1>2, WaitsIs
<1>4. inForce' = InForces[place']
  <2>1. ~Is(place + 1, "rate") /\ ~Is(place + 1, "language")
    BY <1>2 DEF Is
  <2> QED BY <1>1, <1>2, <1>3, <2>1, InForceGrows
<1>5. <<Break>> \in Seq(ChunkType) /\ Told(<<Break>>) = Stop(0)
  <2>1. Break \in ChunkType
    BY DEF ChunkType, Break
  <2>2. SaidIn(Break) = Stop(0)
    BY DEF SaidIn, Break
  <2> QED BY <2>1, <2>2, ToldOne
<1>6. MeantIn(place + 1) = Stop(0)
  BY <1>2, <1>3, MeantInIs
<1>7. inForce' \in Commands
  BY <1>1, <1>3
<1> QED BY <1>1, <1>4, <1>5, <1>6, <1>7, FlushStep

LEMMA ProsodyCommandKeeps == ChunksInv /\ ProsodyCommand => ChunksInv'
<1> SUFFICES ASSUME ChunksInv, ProsodyCommand PROVE ChunksInv'
  OBVIOUS
<1>1. /\ Next1("rate") /\ FlushText(TrailsUtterance(place + 1), "running", <<>>)
      /\ inForce' = IF over' = "running" THEN [inForce EXCEPT !.rate = Item[2]] ELSE inForce
      /\ UNCHANGED <<given, spelling>>
  BY DEF ProsodyCommand
<1>2. /\ over = "running" /\ place + 1 \in 1..Len(utterance) /\ Is(place + 1, "rate") /\ Item = utterance[place + 1]
      /\ inForce = InForceAt(place + 1) /\ InForces[place'] = InForceAt((place + 1) + 1)
  BY <1>1, ItemServed
<1>3. Given /\ inForce \in Commands
  BY <1>2, WaitsIs
<1>4. over' = "running" => inForce' = InForces[place']
  BY <1>1, <1>2, <1>3, InForceGrows
<1>5. <<>> \in Seq(ChunkType) /\ Told(<<>>) = MeantIn(place + 1)
  <2>1. ~Is(place + 1, "text") /\ ~Is(place + 1, "index") /\ ~Is(place + 1, "break")
    BY <1>2 DEF Is
  <2>2. MeantIn(place + 1) = Silence
    BY <1>2, <1>3, <2>1, MeantInIs
  <2> QED BY <2>2, ToldEmpty
<1>6. inForce' \in Commands
  <2>1. Item[2] \in Nat
    BY <1>2, <1>3, ItemOf
  <2> QED BY <1>1, <1>3, <2>1 DEF Commands
<1>7. TrailsUtterance(place + 1) \in BOOLEAN
  BY DEF TrailsUtterance
<1> QED BY <1>1, <1>4, <1>5, <1>6, <1>7, FlushStep

LEMMA LangChangeKeeps == ChunksInv /\ LangChange => ChunksInv'
<1> SUFFICES ASSUME ChunksInv, LangChange PROVE ChunksInv'
  OBVIOUS
<1>1. /\ Next1("language") /\ UNCHANGED <<given, spelling>>
      /\ IF settings.detects
           THEN /\ FlushText(TrailsUtterance(place + 1), "running", <<>>)
                /\ inForce' = IF over' = "running" THEN [inForce EXCEPT !.language = Item[2]] ELSE inForce
           ELSE UNCHANGED <<text, inForce, chunks, over>>
  BY DEF LangChange
<1>2. /\ over = "running" /\ place + 1 \in 1..Len(utterance) /\ Is(place + 1, "language") /\ Item = utterance[place + 1]
      /\ inForce = InForceAt(place + 1) /\ InForces[place'] = InForceAt((place + 1) + 1)
  BY <1>1, ItemServed
<1>3. Given /\ inForce \in Commands
  BY <1>2, WaitsIs
<1>4. ~Is(place + 1, "text") /\ ~Is(place + 1, "index") /\ ~Is(place + 1, "break") /\ ~Is(place + 1, "rate")
  BY <1>2 DEF Is
<1>5. InForces[place'] = IF settings.detects THEN [inForce EXCEPT !.language = Item[2]] ELSE inForce
  BY <1>2, <1>3, <1>4, InForceGrows
<1>6. CASE settings.detects
  <2>1. over' = "running" => inForce' = InForces[place']
    BY <1>1, <1>5, <1>6
  <2>2. <<>> \in Seq(ChunkType) /\ Told(<<>>) = MeantIn(place + 1)
    <3>1. MeantIn(place + 1) = Silence
      BY <1>2, <1>3, <1>4, MeantInIs
    <3> QED BY <3>1, ToldEmpty
  <2>3. inForce' \in Commands
    <3>1. Item[2] \in Nat
      BY <1>2, <1>3, ItemOf
    <3> QED BY <1>1, <1>3, <1>6, <3>1 DEF Commands
  <2>4. TrailsUtterance(place + 1) \in BOOLEAN
    BY DEF TrailsUtterance
  <2>5. FlushText(TrailsUtterance(place + 1), "running", <<>>)
    BY <1>1, <1>6
  <2> QED BY <1>1, <2>1, <2>2, <2>3, <2>4, <2>5, FlushStep
<1>7. CASE ~settings.detects
  <2>1. UNCHANGED <<given, text, inForce, chunks, over>> /\ spelling' = spelling
    BY <1>1, <1>7
  <2>2. spelling' \in BOOLEAN /\ (spelling' => Spells)
    BY <2>1 DEF ChunksInv, ChunksTyped
  <2>3. InForces[place'] = inForce
    BY <1>5, <1>7
  <2> QED BY <1>1, <2>1, <2>2, <2>3, QuietStep
<1> QED BY <1>6, <1>7

LEMMA EndKeeps == ChunksInv /\ End => ChunksInv'
<1> SUFFICES ASSUME ChunksInv, End PROVE ChunksInv'
  OBVIOUS
<1>1. /\ over = "running" /\ place = Len(utterance) /\ FlushText(TRUE, "done", <<>>)
      /\ UNCHANGED <<given, place, spelling, inForce>>
  BY DEF End
<1>2. Given /\ place \in 0..Len(utterance) /\ Meaning[place] \in Sayings /\ inForce \in Commands
  BY <1>1, WaitsIs
<1>3. <<>> \in Seq(ChunkType) /\ Told(<<>>) = Silence
  BY ToldEmpty
<1>4. /\ parts' = <<>> /\ counted' = 0 /\ noted' = <<>> /\ afterIndex' = FALSE
      /\ chunks' \in Seq(ChunkType) /\ over' \in {"done", "cancelled"}
      /\ over' = "done" => Says(Told(chunks'), Then(Meaning[place], Told(<<>>)), Spells)
      /\ over' = "cancelled" => \E r \in Sayings : Says(Then(Told(chunks'), r), Meaning[place], Spells)
  <2>1. TRUE \in BOOLEAN /\ "done" \in {"running", "done"}
    OBVIOUS
  <2> QED BY <1>1, <1>3, <2>1, FlushKeeps
<1>5. over' = "done" => place' = Len(utterance) /\ Says(Told(chunks'), Meaning[place'], Spells)
  BY <1>1, <1>2, <1>3, <1>4, SilenceIs
<1>6. UNCHANGED given /\ spelling' \in BOOLEAN /\ (spelling' => Spells) /\ inForce' \in Commands /\ place' \in 0..Len(utterance)
  BY <1>1, <1>2 DEF ChunksInv, ChunksTyped
<1>7. FlattenSeq(parts') = <<>> /\ <<>> \in Seq(Texts) /\ <<>> \in Marks /\ Len(<<>>) = 0 /\ InText(<<>>, <<>>)
  BY <1>4, FlattenEmpty, EmptySeq, InTextEmpty DEF Marks
<1>8. /\ parts' \in Seq(Texts) /\ counted' = Len(FlattenSeq(parts')) /\ noted' \in Marks
      /\ InText(noted', FlattenSeq(parts')) /\ Len(parts') = 0 /\ Len(noted') = 0
  BY <1>4, <1>7
<1>9. (\A k \in 1..Len(parts') : parts'[k] # <<>>) /\ \A n \in 1..Len(noted') : noted'[n][1] # 0
  BY <1>8
<1>10. over' # "running" /\ over' \in {"running", "done", "cancelled"} /\ afterIndex' \in BOOLEAN
  BY <1>4
<1>11. over' = "cancelled" => \E r \in Sayings : Says(Then(Told(chunks'), r), Meaning[place'], Spells)
  BY <1>1, <1>4
<1> QED BY <1>2, <1>4, <1>5, <1>6, <1>8, <1>9, <1>10, <1>11, StepKeeps

LEMMA CancelBetweenKeeps == ChunksInv /\ CancelBetween => ChunksInv'
<1> SUFFICES ASSUME ChunksInv, CancelBetween PROVE ChunksInv'
  OBVIOUS
<1>1. over = "running" /\ over' = "cancelled" /\ UNCHANGED <<given, place, text, spelling, inForce, chunks>>
  BY DEF CancelBetween
<1>2. /\ Given /\ place \in 0..Len(utterance) /\ parts \in Seq(Texts) /\ noted \in Marks
      /\ InText(noted, FlattenSeq(parts)) /\ inForce \in Commands /\ chunks \in Seq(ChunkType)
      /\ Woven(FlattenSeq(parts), noted, inForce) \in Sayings
      /\ Says(Then(Told(chunks), Woven(FlattenSeq(parts), noted, inForce)), Meaning[place], Spells)
  BY <1>1, WaitsIs
<1>3. /\ (\A n \in 1..Len(parts) : parts[n] # <<>>) /\ counted = Len(FlattenSeq(parts))
      /\ (\A n \in 1..Len(noted) : noted[n][1] # 0) /\ afterIndex \in BOOLEAN /\ spelling \in BOOLEAN /\ (spelling => Spells)
  BY DEF ChunksInv, ChunksTyped
<1>4. UNCHANGED given /\ parts' = parts /\ counted' = counted /\ noted' = noted /\ afterIndex' = afterIndex
      /\ spelling' = spelling /\ inForce' = inForce /\ chunks' = chunks /\ place' = place
  BY <1>1 DEF text
<1>5. \E r \in Sayings : Says(Then(Told(chunks'), r), Meaning[place'], Spells)
  BY <1>2, <1>4
<1>6. over' # "running" /\ over' # "done" /\ over' \in {"running", "done", "cancelled"}
  BY <1>1
<1>7. /\ parts' \in Seq(Texts) /\ (\A n \in 1..Len(parts') : parts'[n] # <<>>) /\ counted' = Len(FlattenSeq(parts'))
      /\ noted' \in Marks /\ InText(noted', FlattenSeq(parts')) /\ \A n \in 1..Len(noted') : noted'[n][1] # 0
  BY <1>2, <1>3, <1>4
<1>8. /\ afterIndex' \in BOOLEAN /\ spelling' \in BOOLEAN /\ (spelling' => Spells) /\ inForce' \in Commands
      /\ chunks' \in Seq(ChunkType) /\ place' \in 0..Len(utterance)
  BY <1>2, <1>3, <1>4
<1> QED BY <1>2, <1>4, <1>5, <1>6, <1>7, <1>8, StepKeeps

LEMMA Unmoved == ChunksInv /\ UNCHANGED chunkVars => ChunksInv'
<1> SUFFICES ASSUME ChunksInv, UNCHANGED chunkVars PROVE ChunksInv'
  OBVIOUS
<1>1. UNCHANGED given /\ parts' = parts /\ counted' = counted /\ noted' = noted /\ afterIndex' = afterIndex
      /\ spelling' = spelling /\ inForce' = inForce /\ chunks' = chunks /\ place' = place /\ over' = over
  BY DEF chunkVars, text
<1>2. Given
  BY DEF ChunksInv, ChunksTyped
<1>3. /\ Meaning' = Meaning /\ InForces' = InForces /\ PartedOnes' = PartedOnes /\ Spells' = Spells
      /\ Given' /\ Len(utterance)' = Len(utterance)
  BY <1>1, <1>2, GivenStays
<1>4. ChunksTyped'
  BY <1>1, <1>3 DEF ChunksInv, ChunksTyped, Noted
<1>5. Ongoing'
  BY <1>1, <1>3 DEF ChunksInv, Ongoing
<1>6. Finished' /\ Abandoned'
  BY <1>1, <1>3 DEF ChunksInv, Finished, Abandoned
<1> QED BY <1>4, <1>5, <1>6 DEF ChunksInv

\* The chunks say what the sequence says, as far as it is served: the letters in order, with
\* the commands and the stops between them, whatever the sequence and however it is cut.
THEOREM ChunksAreTrue == ChunksSpec => []ChunksTrue
<1>1. ChunksInit => ChunksInv
  BY Initially
<1>2. ChunksInv /\ [ChunksNext]_chunkVars => ChunksInv'
  <2> SUFFICES ASSUME ChunksInv, [ChunksNext]_chunkVars PROVE ChunksInv'
    OBVIOUS
  <2>1. CASE AppendText
    BY <2>1, AppendTextKeeps
  <2>2. CASE Index
    BY <2>2, IndexKeeps
  <2>3. CASE CharacterMode
    BY <2>3, CharacterModeKeeps
  <2>4. CASE BreakCommand
    BY <2>4, BreakCommandKeeps
  <2>5. CASE ProsodyCommand
    BY <2>5, ProsodyCommandKeeps
  <2>6. CASE LangChange
    BY <2>6, LangChangeKeeps
  <2>7. CASE End
    BY <2>7, EndKeeps
  <2>8. CASE CancelBetween
    BY <2>8, CancelBetweenKeeps
  <2>9. CASE UNCHANGED chunkVars
    BY <2>9, Unmoved
  <2> QED BY <2>1, <2>2, <2>3, <2>4, <2>5, <2>6, <2>7, <2>8, <2>9 DEF ChunksNext
<1>3. ChunksInv => ChunksTrue
  BY InvShows
<1> QED BY <1>1, <1>2, <1>3, PTL DEF ChunksSpec
=============================================================================
