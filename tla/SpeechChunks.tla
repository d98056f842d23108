---------------------------- MODULE SpeechChunks ----------------------------
(***************************************************************************)
(* _iter_speech_chunks: a speech sequence of NVDA, texts among commands, as *)
(* the chunks that the speech worker serves: groups of hidden segments with *)
(* the indexes inside them, and between them the breaks, the other indexes  *)
(* and the sign that a pause ends the utterance.                            *)
(*                                                                         *)
(* A character is "a", of a script that puts spaces between words, "n", of *)
(* one that does not, ".", "," or " ".  Where a text is cut depends on      *)
(* lengths, scripts and punctuation that nothing below tells apart, so any  *)
(* cut may be; how long a break is and which voice a profile has are left   *)
(* out.                                                                    *)
(***************************************************************************)
EXTENDS Naturals, SequencesExt

CONSTANTS
  Utterances,   \* sequences of <<"text", characters>>, <<"index">>, <<"break">>,
                \* <<"rate", value>>, <<"language", value>> and <<"spell", BOOLEAN>>
  Settings,     \* [pauses: pauseMode, "all pauses", "end pauses" or "no pauses",
                \*  detects: whether automatic language detection is enabled]
  FlushChars    \* _FLUSH_GROUP_CHARS_THRESHOLD

VARIABLES
  utterance,    \* the sequence; an index is known by its place
  settings,
  place,        \* the items served so far
  parts,        \* textParts
  counted,      \* textCharCount
  noted,        \* pendingIndexes: index and place in the text
  afterIndex,   \* sawIndexSinceLastText
  spelling,     \* _inCharMode
  inForce,      \* the prosody and the language commands in force; 0 is none
  chunks,       \* the chunks so far
  over          \* the generator is "running", "done" or "cancelled"

\* The items of a sequence: texts, which are not empty, among commands.
Characters == {"a", "n", ".", ",", " "}
ItemType ==
  ({"text"} \X (Seq(Characters) \ {<<>>})) \cup {<<"index">>, <<"break">>}
    \cup ({"rate", "language"} \X Nat) \cup ({"spell"} \X BOOLEAN)
PauseModes == {"all pauses", "end pauses", "no pauses"}

ASSUME UtterancesAreSequences == Utterances \subseteq Seq(ItemType)
ASSUME SettingsAreModes == Settings \subseteq [pauses : PauseModes, detects : BOOLEAN]

given == <<utterance, settings>>
text == <<parts, counted, noted, afterIndex>>
chunkVars == <<given, place, text, spelling, inForce, chunks, over>>

ChunksInit ==
  /\ utterance \in Utterances /\ settings \in Settings
  /\ place = 0 /\ parts = <<>> /\ counted = 0 /\ noted = <<>> /\ afterIndex = FALSE
  /\ spelling = FALSE /\ inForce = [rate |-> 0, language |-> 0]
  /\ chunks = <<>> /\ over = "running"

Items == DOMAIN utterance
Is(i, kind) == utterance[i][1] = kind

-----------------------------------------------------------------------------
(* Characters                                                               *)

Ink(s) == {i \in DOMAIN s : s[i] # " "}
Blank(s) == Ink(s) = {}
LeftTrimmed(s) == (CHOOSE i \in Ink(s) : \A j \in Ink(s) : i <= j) - 1
Strip(s) ==
  IF Blank(s) THEN <<>>
  ELSE SubSeq(s, LeftTrimmed(s) + 1, CHOOSE i \in Ink(s) : \A j \in Ink(s) : j <= i)

NeedsBoundarySpace(p, n) == {p, n} \cap {" ", "n"} = {}
NeedsSegmentSpace(p, n) == p = "a" /\ n = "a"
ShouldPauseAfter(s) == Last(s) = "."
EndsWithPausePunctuation(s) == Last(s) \in {".", ","}

\* is_trailing_command_at_utterance_end: nothing is spoken after, and no break follows.
TrailsUtterance(i) ==
  \A j \in Items : j > i => ~Is(j, "break") /\ (Is(j, "text") => Blank(utterance[j][2]))

-----------------------------------------------------------------------------
(* Segments                                                                 *)

\* Those of a sequence that are at some places.
Chosen(s, which) == FlattenSeq([n \in DOMAIN s |-> IF n \in which THEN <<s[n]>> ELSE <<>>])

\* Segments end at characters, the last one with the text; the next begins after spaces.
Cuts(s) == {ends \in SUBSET Ink(s) : Len(s) \in ends}
SortedEnds(s, ends) == Chosen([i \in DOMAIN s |-> i], ends)
After(s, e) == CHOOSE i \in Ink(s) : i > e /\ \A j \in Ink(s) : j > e => i <= j
Segments(s, ends) ==
  [k \in DOMAIN SortedEnds(s, ends) |->
     [from |-> After(s, IF k = 1 THEN 0 ELSE SortedEnds(s, ends)[k - 1]), to |-> SortedEnds(s, ends)[k]]]

Within(offset, from, length) ==
  IF offset < from THEN 0 ELSE IF offset - from > length THEN length ELSE offset - from

\* The segment that takes an index: the first that ends behind it, and else the last.
Taker(segments, offset) ==
  IF offset > Last(segments).to THEN Len(segments)
  ELSE CHOOSE k \in DOMAIN segments :
         offset <= segments[k].to /\ \A j \in 1..k - 1 : segments[j].to < offset

Own(segments, indexes, k) ==
  Chosen(indexes, {n \in DOMAIN indexes : Taker(segments, indexes[n][2]) = k})
Piece(s, seg, own) ==
  [text |-> SubSeq(s, seg.from, seg.to),
   marks |-> [n \in DOMAIN own |->
                <<own[n][1], Within(own[n][2], seg.from - 1, seg.to + 1 - seg.from)>>]]
Pieces(s, indexes, ends) ==
  LET segments == Segments(s, ends)
  IN [k \in DOMAIN segments |-> Piece(s, segments[k], Own(segments, indexes, k))]

\* spoken_bridge_segments: the words of two segments are kept apart.
SpokenSegments(pieces) ==
  [k \in DOMAIN pieces |->
     IF k < Len(pieces) /\ NeedsSegmentSpace(Last(pieces[k].text), Head(pieces[k + 1].text))
       THEN Append(pieces[k].text, " ") ELSE pieces[k].text]

\* Mutant: the spaces between the segments are not counted.
OffsetUncounted(segs, k) == Len(FlattenSeq([j \in 1..k - 1 |-> Strip(segs[j])]))

Offset(segs, k) == Len(FlattenSeq(SubSeq(segs, 1, k - 1)))

\* flush_grouped_segments
Moved(marks, by) == [n \in DOMAIN marks |-> <<marks[n][1], by + marks[n][2]>>]
Group(pieces, mode) ==
  LET segs == SpokenSegments(pieces)
  IN [kind |-> "text", segs |-> segs, mode |-> mode, inForce |-> inForce,
      marks |-> FlattenSeq([k \in DOMAIN pieces |-> Moved(pieces[k].marks, Offset(segs, k))])]

-----------------------------------------------------------------------------
(* flush_text                                                               *)

Break == [kind |-> "break"]
SentenceBreak == [kind |-> "sentence break"]
Indexes(indexes) == [n \in DOMAIN indexes |-> [kind |-> "index", index |-> indexes[n][1]]]

\* A group ends with a sentence, and when it is long and all pauses are shortened.
EndsGroup(group) ==
  \/ ShouldPauseAfter(Last(group).text)
  \/ settings.pauses = "all pauses" /\ Len(FlattenSeq([k \in DOMAIN group |-> group[k].text])) >= FlushChars
FinalMode(isEnd, last) ==
  IF settings.pauses = "all pauses" \/ (isEnd /\ settings.pauses = "end pauses") THEN settings.pauses
  ELSE IF isEnd \/ EndsWithPausePunctuation(last) THEN "no pauses" ELSE "end pauses"
\* Where the group of a piece begins, and what ends with the piece.
Begins(pieces) ==
  LET begin[k \in DOMAIN pieces] ==
        IF k = 1 THEN 1
        ELSE IF EndsGroup(SubSeq(pieces, begin[k - 1], k - 1)) THEN k ELSE begin[k - 1]
  IN begin
InnerMode == IF settings.pauses = "all pauses" THEN settings.pauses ELSE "no pauses"
Ended(pieces, begin, k, final) ==
  IF k = Len(pieces) THEN <<Group(SubSeq(pieces, begin[k], k), final)>>
  ELSE IF begin[k + 1] = begin[k] THEN <<>>
  ELSE <<Group(SubSeq(pieces, begin[k], k), InnerMode), SentenceBreak>>
Grouped(pieces, final) ==
  LET begin == Begins(pieces)
  IN FlattenSeq([k \in DOMAIN pieces |-> Ended(pieces, begin, k, final)])

\* Letters that are spelled are put apart; the places of the indexes do not count that.
Joined ==
  FlattenSeq([k \in DOMAIN parts |->
    IF spelling /\ k < Len(parts) THEN Append(parts[k], " ") ELSE parts[k]])

Yielded(isEnd, stripped, ends) ==
  LET indexes == [n \in DOMAIN noted |->
                    <<noted[n][1], Within(noted[n][2], LeftTrimmed(Joined), Len(stripped))>>]
      trails == {n \in DOMAIN indexes : isEnd /\ indexes[n][2] >= Len(stripped)}
      pieces == Pieces(stripped, Chosen(indexes, DOMAIN indexes \ trails), ends)
      last == Last(pieces).text
  IN Grouped(pieces, FinalMode(isEnd, last))
       \o (IF isEnd /\ settings.pauses = "end pauses" /\ EndsWithPausePunctuation(last)
             THEN <<[kind |-> "end pause"]>> ELSE <<>>)
       \o Indexes(Chosen(indexes, trails))

\* The text so far is given, and then `more`; when the worker cancels meanwhile, only the
\* first chunks are.
FlushText(isEnd, then, more) ==
  /\ parts' = <<>> /\ counted' = 0 /\ noted' = <<>> /\ afterIndex' = FALSE
  /\ \E flushed \in IF Blank(Joined) THEN {Indexes(noted)}
                    ELSE {Yielded(isEnd, Strip(Joined), ends) : ends \in Cuts(Strip(Joined))} :
       \/ chunks' = chunks \o flushed \o more /\ over' = then
       \/ over' = "cancelled" /\ \E n \in 0..Len(flushed) : chunks' = chunks \o SubSeq(flushed, 1, n)

-----------------------------------------------------------------------------
(* The items of the sequence                                                *)

Item == utterance[place + 1]
Next1(kind) ==
  over = "running" /\ place < Len(utterance) /\ Item[1] = kind /\ place' = place + 1

\* append_normalized_text: words with an index between them do not run together.
AppendText ==
  /\ Next1("text")
  /\ LET apart == /\ afterIndex /\ ~spelling /\ parts # <<>>
                  /\ NeedsBoundarySpace(Last(Last(parts)), Head(Item[2]))
         added == IF apart THEN <<<<" ">>, Item[2]>> ELSE <<Item[2]>>
     IN parts' = parts \o added /\ counted' = counted + Len(FlattenSeq(added))
  /\ afterIndex' = FALSE
  /\ UNCHANGED <<given, noted, spelling, inForce, chunks, over>>

Index ==
  /\ Next1("index")
  /\ noted' = Append(noted, <<place + 1, counted>>)
  /\ afterIndex' = (afterIndex \/ parts # <<>>)
  /\ UNCHANGED <<given, parts, counted, spelling, inForce, chunks, over>>

CharacterMode ==
  /\ Next1("spell") /\ spelling' = Item[2]
  /\ UNCHANGED <<given, text, inForce, chunks, over>>

BreakCommand ==
  /\ Next1("break") /\ FlushText(FALSE, "running", <<Break>>)
  /\ UNCHANGED <<given, spelling, inForce>>

ProsodyCommand ==
  /\ Next1("rate") /\ FlushText(TrailsUtterance(place + 1), "running", <<>>)
  /\ inForce' = IF over' = "running" THEN [inForce EXCEPT !.rate = Item[2]] ELSE inForce
  /\ UNCHANGED <<given, spelling>>

LangChange ==
  /\ Next1("language")
  /\ IF settings.detects
       THEN /\ FlushText(TrailsUtterance(place + 1), "running", <<>>)
            /\ inForce' = IF over' = "running" THEN [inForce EXCEPT !.language = Item[2]] ELSE inForce
       ELSE UNCHANGED <<text, inForce, chunks, over>>
  /\ UNCHANGED <<given, spelling>>

End ==
  /\ over = "running" /\ place = Len(utterance)
  /\ FlushText(TRUE, "done", <<>>)
  /\ UNCHANGED <<given, place, spelling, inForce>>

CancelBetween ==
  /\ over = "running" /\ over' = "cancelled"
  /\ UNCHANGED <<given, place, text, spelling, inForce, chunks>>

ChunksNext ==
  \/ AppendText \/ Index \/ CharacterMode \/ BreakCommand \/ ProsodyCommand \/ LangChange
  \/ End \/ CancelBetween

ChunksSpec == ChunksInit /\ [][ChunksNext]_chunkVars
=============================================================================
