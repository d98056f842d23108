-------------------------- MODULE SpeechChunksProps --------------------------
(***************************************************************************)
(* What a speech sequence means, read off the sequence as a whole, and that *)
(* the chunks that are built item by item say just that.                    *)
(***************************************************************************)
EXTENDS SpeechChunks

\* What is said or meant: the letters in order, each with the commands it is spoken under
\* (letters) and whether it follows the one before without a space (glued); and the
\* indexes, and breaks as 0, each with the number of letters before it (stops).
Letters(s, commands) ==
  FlattenSeq([n \in DOMAIN s |-> IF s[n] = " " THEN <<>> ELSE <<<<s[n], commands>>>>])
Glued(s) ==
  FlattenSeq([n \in DOMAIN s |->
    IF s[n] = " " THEN <<>> ELSE <<n > 1 /\ s[n - 1] = "a" /\ s[n] = "a">>])
Woven(s, marks, commands) ==
  [letters |-> Letters(s, commands), glued |-> Glued(s),
   stops |-> [n \in DOMAIN marks |->
                <<marks[n][1], Len(Letters(SubSeq(s, 1, marks[n][2]), commands))>>]]
Stop(what) == [letters |-> <<>>, glued |-> <<>>, stops |-> <<<<what, 0>>>>]
Silence == [letters |-> <<>>, glued |-> <<>>, stops |-> <<>>]

\* One after the other.
Together(said) ==
  LET before(n) == Len(FlattenSeq([m \in 1..n - 1 |-> said[m].letters]))
  IN [letters |-> FlattenSeq([n \in DOMAIN said |-> said[n].letters]),
      glued |-> FlattenSeq([n \in DOMAIN said |-> said[n].glued]),
      stops |-> FlattenSeq([n \in DOMAIN said |-> Moved(said[n].stops, before(n))])]

\* The chunks: an index of a group is told after as many characters as its mark counts.
SaidIn(chunk) ==
  CASE chunk.kind = "text" -> Woven(FlattenSeq(chunk.segs), chunk.marks, chunk.inForce)
    [] chunk.kind = "index" -> Stop(chunk.index)
    [] chunk.kind = "break" -> Stop(0)
    [] OTHER -> Silence
Said == Together([c \in DOMAIN chunks |-> SaidIn(chunks[c])])

\* The command of a kind in force at an item.
LastOf(kind, i) ==
  LET set == {j \in 1..i - 1 : Is(j, kind)}
  IN IF set = {} THEN 0 ELSE utterance[CHOOSE j \in set : \A k \in set : k <= j][2]
InForceAt(i) ==
  [rate |-> LastOf("rate", i), language |-> IF settings.detects THEN LastOf("language", i) ELSE 0]

\* The sequence: letters may follow each other without a space in a text, and where no
\* index is between two texts.
Parted(i) ==
  \E j \in 1..i - 1 : Is(j, "index") /\ \A k \in j + 1..i - 1 : Is(k, "text") => Blank(utterance[k][2])
MeantIn(i) ==
  CASE Is(i, "text") ->
         LET letters == Letters(utterance[i][2], InForceAt(i))
         IN [letters |-> letters, glued |-> [n \in DOMAIN letters |-> n > 1 \/ ~Parted(i)], stops |-> <<>>]
    [] Is(i, "index") -> Stop(i)
    [] Is(i, "break") -> Stop(0)
    [] OTHER -> Silence
Meant == Together([i \in Items |-> MeantIn(i)])

Spelled == \E i \in Items : Is(i, "spell")

\* What is said is the beginning of what is meant.
Reaches(said, meant) ==
  /\ IsPrefix(said.letters, meant.letters)
  /\ ~Spelled => \A n \in DOMAIN said.letters : said.glued[n] => meant.glued[n]
  /\ Len(said.stops) <= Len(meant.stops)
  /\ \A n \in 1..Len(said.stops) :
       /\ said.stops[n][1] = meant.stops[n][1] /\ said.stops[n][2] <= meant.stops[n][2]
       /\ meant.stops[n][1] = 0 \/ ~Spelled => said.stops[n] = meant.stops[n]
  /\ \A n \in Len(said.stops) + 1..Len(meant.stops) : Len(said.letters) <= meant.stops[n][2]

\* The marks of a text come in order, and inside it.
InText(marks, s) ==
  \A n \in DOMAIN marks : marks[n][2] <= Len(s) /\ (n > 1 => marks[n - 1][2] <= marks[n][2])

\* The chunks say what the sequence says, as far as the request is not cancelled, however
\* the text is cut: every letter once, in order, under the prosody and language commands
\* before it, every index and break once and in order, and never after more letters than in
\* the sequence; after just as many, but for the indexes of a sequence that spells.  Words
\* with an index between them are not run together, and the marks of a group come in order,
\* inside its text.
ChunksTrue ==
  /\ Reaches(Said, Meant)
  /\ over = "done" => Len(Said.letters) = Len(Meant.letters) /\ Len(Said.stops) = Len(Meant.stops)
  /\ \A c \in DOMAIN chunks : chunks[c].kind = "text" => InText(chunks[c].marks, FlattenSeq(chunks[c].segs))
=============================================================================
