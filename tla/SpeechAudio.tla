----------------------------- MODULE SpeechAudio -----------------------------
(***************************************************************************)
(* The sound of a text: _speak_text plays a group of hidden segments from  *)
(* the cache of short audio, from cached segments and from the engine, and *)
(* keeps what it has heard; PcmSilenceShortener shortens its pauses and    *)
(* PcmLeadBuffer holds its beginning.  The worker runs it; the engine's    *)
(* callbacks come while it waits; NVDA's main thread cancels, pauses and   *)
(* clears the cache at any moment.                                         *)
(*                                                                         *)
(* Sound is a sequence of samples: 0 is silence, and any other sample tells *)
(* the voice and the segment it is of.  A byte count is a count of samples. *)
(***************************************************************************)
EXTENDS Naturals, Sequences, SequencesExt

CONSTANTS
  Groups,       \* the texts: their segments, voice, tempo, pause mode, indexes
  Shape,        \* of each segment: where it is silent (0) and where not (1)
  SegmentChars, \* length of a segment
  MaxChars,     \* SHORT_CACHE_MAX_CHARS
  MaxSegments,  \* SHORT_CACHE_MAX_HIDDEN_SEGMENTS
  MaxItems,     \* _SHORT_CACHE_MAX_ITEMS
  MaxBytes,     \* _SHORT_CACHE_MAX_BYTES
  MinStored,    \* the 64 bytes below which nothing is kept
  Keep,         \* samples that a shortened pause keeps
  Block,        \* samples of a block of the shortener
  Lead,         \* samples of the lead buffer
  MaxPacket,    \* bound: samples the engine sends at a time
  MaxTexts,     \* bound: texts spoken
  AudioFaults   \* what may befall a speech: "stall", "cut", "error"

ASSUME ShapesAreKnown == Shape \in Seq(Seq({0, 1}))

\* A text has segments; its indexes are in order and inside it, as SpeechChunks gives them.
ASSUME GroupsAreKnown == \A g \in DOMAIN Groups :
  /\ Groups[g] \in [segs : Seq(DOMAIN Shape) \ {<<>>}, voice : Nat, tempo : BOOLEAN,
                    mode : {"all pauses", "end pauses", "no pauses"}, marks : Seq(Nat)]
  /\ \A i, j \in DOMAIN Groups[g].marks :
       /\ Groups[g].marks[i] <= SegmentChars * Len(Groups[g].segs)
       /\ i <= j => Groups[g].marks[i] <= Groups[g].marks[j]

ASSUME SizesAreNatural ==
  /\ {SegmentChars, Block} \subseteq Nat \ {0}
  /\ {MaxChars, MaxSegments, MaxItems, MaxBytes, MinStored, Keep, Lead, MaxPacket, MaxTexts} \subseteq Nat

VARIABLES
  cache, tally, \* _shortAudioCache, oldest first, and _shortAudioCacheBytes
  halted,       \* the request's cancel event is set
  paused,       \* _isPaused
  texts,        \* texts so far
  step,         \* where the worker is in _speak_text
  group,        \* the text it speaks or has spoken last
  call,         \* its locals, what the engine does, what was played and told
  curtailed     \* history: keys of entries that a stalled speech has left

audioVars == <<cache, tally, halted, paused, texts, step, group, call, curtailed>>

G == Groups[group]
Texts == DOMAIN Groups
Ends(g) == Len(g.segs) - 1

-----------------------------------------------------------------------------
(* The engine and what it says of a segment                                  *)

Loud(g, s) == 10 * (g.voice + 1) + s
Raw(g, i) == [n \in DOMAIN Shape[g.segs[i]] |->
                IF Shape[g.segs[i]][n] = 0 THEN 0 ELSE Loud(g, g.segs[i])]

\* What comes of a segment in a speech that begins with the segment first: with a tempo,
\* the end of a segment stays in the processors until the next begins.
Carried(g, i) ==
  IF g.tempo /\ i \in 1..Ends(g) /\ Raw(g, i) # <<>> THEN <<Last(Raw(g, i))>> ELSE <<>>
Given(g, i, first) ==
  (IF i = first THEN <<>> ELSE Carried(g, i - 1))
    \o SubSeq(Raw(g, i), 1, Len(Raw(g, i)) - Len(Carried(g, i)))

-----------------------------------------------------------------------------
(* The cache of short audio                                                  *)

GroupKey(g) ==
  [whole |-> TRUE, segs |-> g.segs, voice |-> g.voice, tempo |-> g.tempo, mode |-> g.mode,
   before |-> FALSE, after |-> FALSE]

\* Mutant: that a next segment follows is not in the key.
SegmentKeyAnyEnd(g, i) ==
  [whole |-> FALSE, segs |-> <<g.segs[i]>>, voice |-> g.voice, tempo |-> g.tempo,
   mode |-> g.mode, before |-> i > 1, after |-> FALSE]

\* What precedes and what follows a segment is in its key.
SegmentKey(g, i) ==
  [whole |-> FALSE, segs |-> <<g.segs[i]>>, voice |-> g.voice, tempo |-> g.tempo,
   mode |-> g.mode, before |-> i > 1, after |-> i < Len(g.segs)]

\* Which texts have a key, and which have one for each of their segments.
GroupKeyed(g) == SegmentChars * Len(g.segs) <= MaxChars /\ Len(g.segs) <= MaxSegments

\* Mutant: a tempo is thought to do no harm.
SegmentsKeyedAnyway(g) == Len(g.segs) > 1 /\ SegmentChars <= MaxChars

SegmentsKeyed(g) == Len(g.segs) > 1 /\ SegmentChars <= MaxChars /\ ~g.tempo

Entries(key) == {n \in DOMAIN cache : cache[n].key = key}
Used(n) == Append(RemoveAt(cache, n), cache[n])
Size(entries) ==
  LET sum[n \in 0..Len(entries)] == IF n = 0 THEN 0 ELSE sum[n - 1] + Len(entries[n].audio)
  IN sum[Len(entries)]
Kept(audio) == Len(audio) >= MinStored /\ \E n \in DOMAIN audio : audio[n] # 0

\* An entry replaces the one of its key; the oldest are dropped until the bounds are kept.
Stored(key, audio) ==
  LET old == IF Entries(key) = {} THEN 0 ELSE CHOOSE n \in Entries(key) : TRUE
      grown == Append(IF old = 0 THEN cache ELSE RemoveAt(cache, old), [key |-> key, audio |-> audio])
      counted == tally - (IF old = 0 THEN 0 ELSE Len(cache[old].audio)) + Len(audio)
      Fits(n) == Len(grown) - n <= MaxItems /\ counted - Size(SubSeq(grown, 1, n)) <= MaxBytes
      dropped == CHOOSE n \in 0..Len(grown) : Fits(n) /\ \A m \in 0..n - 1 : ~Fits(m)
  IN /\ cache' = SubSeq(grown, dropped + 1, Len(grown))
     /\ tally' = counted - Size(SubSeq(grown, 1, dropped))
Put(key, audio, short) ==
  IF audio = <<>> \/ Len(audio) > MaxBytes THEN UNCHANGED <<cache, tally, curtailed>>
  ELSE /\ Stored(key, audio)
       /\ curtailed' = IF short THEN curtailed \cup {key} ELSE curtailed \ {key}

-----------------------------------------------------------------------------
(* The shaping of sound                                                      *)

NewShaper == [held |-> <<>>, block |-> <<>>]
Prefix(s, n) == SubSeq(s, 1, IF n < Len(s) THEN n ELSE Len(s))

\* What one sample more gives and leaves held, and what the runs of samples do.
Taken(mode, r, x) ==
  IF x # 0 THEN [out |-> r.out \o Append(r.held, x), held |-> <<>>]
  ELSE IF mode = "all pauses" /\ Len(r.held) >= Keep THEN r
  ELSE [r EXCEPT !.held = Append(@, 0)]
Process(mode, held, samples) ==
  LET run[n \in 0..Len(samples)] ==
        IF n = 0 THEN [out |-> <<>>, held |-> held] ELSE Taken(mode, run[n - 1], samples[n])
  IN run[Len(samples)]

\* feed, which works on whole blocks, and _flush; nothing is held when no pause is shortened.
Shaped(mode, shaper, packet) ==
  LET samples == shaper.block \o packet
      n == Len(samples) - (Len(samples) % Block)
      run == Process(mode, shaper.held, SubSeq(samples, 1, n))
  IN IF mode = "no pauses" THEN [out |-> packet, shaper |-> shaper]
     ELSE [out |-> run.out,
           shaper |-> [held |-> run.held, block |-> SubSeq(samples, n + 1, Len(samples))]]
Flushed(mode, shaper, shorten) ==
  LET run == Process(mode, shaper.held, shaper.block)
  IN run.out \o (IF shorten THEN Prefix(run.held, Keep) ELSE run.held)

\* PcmLeadBuffer: it opens when it has enough.
LeadFeed(lead, sound) ==
  IF lead.open THEN [out |-> sound, lead |-> lead]
  ELSE IF Len(lead.kept \o sound) < Lead
    THEN [out |-> <<>>, lead |-> [lead EXCEPT !.kept = @ \o sound]]
    ELSE [out |-> lead.kept \o sound, lead |-> [open |-> TRUE, kept |-> <<>>]]

-----------------------------------------------------------------------------
(* What the worker does, on its call c                                       *)

\* An index is due at an offset of what is left of the text; the next is told, or all are.
Due(c, offset) == c.pending # <<>> /\ Head(c.pending) <= c.base + offset
Told(c) == [c EXCEPT !.reached = Append(@, Head(c.pending)), !.pending = Tail(@)]
Notified(c, offset) ==
  LET IsDue(n) == c.pending[n] <= c.base + offset
      last == CHOOSE n \in 0..Len(c.pending) :
                (\A m \in 1..n : IsDue(m)) /\ (n < Len(c.pending) => ~IsDue(n + 1))
  IN IF halted THEN c
     ELSE [c EXCEPT !.reached = @ \o SubSeq(c.pending, 1, last),
                    !.pending = SubSeq(@, last + 1, Len(@))]

\* on_mark, and feed_processed_audio.
Marked(c, offset) ==
  IF ~paused THEN Notified(c, offset)
  ELSE [c EXCEPT !.deferred = IF offset > @ THEN offset ELSE @]
Undeferred(c) ==
  IF c.deferred = 0 \/ paused THEN c ELSE [Notified(c, c.deferred) EXCEPT !.deferred = 0]
Fed(c, sound) ==
  LET noted == [c EXCEPT !.parts = IF GroupKeyed(G) THEN @ \o sound ELSE @,
                         !.segment = IF SegmentsKeyed(G) THEN @ \o sound ELSE @]
      led == LeadFeed(c.lead, sound)
  IN IF sound = <<>> THEN c
     ELSE IF halted THEN noted
     ELSE Undeferred([noted EXCEPT !.lead = led.lead, !.heard = @ \o led.out])
Completed(c) ==
  IF SegmentsKeyed(G) THEN [c EXCEPT !.completed = Append(@, c.segment), !.segment = <<>>] ELSE c

\* onSegmentEnd, and what follows the engine's answer.
SegmentEnded(c) ==
  Completed(IF halted THEN c
            ELSE [Fed(c, Flushed(G.mode, c.shaper, G.mode = "all pauses")) EXCEPT !.shaper = NewShaper])
Finished(c) ==
  LET f == Completed(Fed(c, Flushed(G.mode, c.shaper, TRUE)))
  IN IF halted THEN f
     ELSE [f EXCEPT !.heard = @ \o f.lead.kept, !.lead = [open |-> TRUE, kept |-> <<>>],
                    !.shaper = NewShaper]

\* Mutant: an answer without done will do.
CompleteAnyway(c) == c.ends = Ends(G) - c.hits

\* is_complete_speech_result, of an answer that says it is a success.
Complete(c) == c.done /\ c.ends = Ends(G) - c.hits

NewCall(g) ==
  [pending |-> Groups[g].marks, base |-> 0, deferred |-> 0,
   hits |-> 0, prefix |-> <<>>, at |-> 0, \* cached segments, their sound, how much is played
   live |-> 0, given |-> 0,               \* the segment the engine is at, what it has given
   shaper |-> NewShaper, lead |-> [open |-> TRUE, kept |-> <<>>],
   parts |-> <<>>, segment |-> <<>>, completed |-> <<>>,
   done |-> FALSE, ends |-> 0,            \* the engine's answer
   short |-> FALSE,                       \* history: the sound is that of a stalled speech
   heard |-> <<>>, reached |-> <<>>, end |-> "none"]

AudioInit ==
  /\ cache = <<>> /\ tally = 0 /\ halted = FALSE /\ paused = FALSE /\ texts = 0
  /\ step = "idle" /\ group \in Texts /\ call = NewCall(group) /\ curtailed = {}

Goes(to, c) == step' = to /\ call' = c
Leaves(how, c) ==
  Goes("idle", [NewCall(group) EXCEPT !.heard = c.heard, !.reached = c.reached, !.short = c.short,
                                     !.end = IF halted THEN "cancelled" ELSE how])
keepCache == UNCHANGED <<cache, tally, curtailed>>
keepRequest == UNCHANGED <<halted, paused, texts, group>>

Begin(g) ==
  /\ step = "idle" /\ texts < MaxTexts /\ texts' = texts + 1
  /\ group' = g /\ halted' = FALSE
  /\ Goes("leading", NewCall(g))
  /\ keepCache /\ UNCHANGED paused

\* Indexes before the text, each after a look at the cancel event.
Leading ==
  /\ step = "leading"
  /\ IF ~Due(call, 0) THEN Goes("group", call)
     ELSE IF halted THEN Leaves("cancelled", call) ELSE Goes(step, Told(call))
  /\ keepCache /\ keepRequest

\* _get_cached_audio, for the group; a hit is made the newest entry.
LookUpGroup ==
  /\ step = "group"
  /\ \/ \E n \in Entries(GroupKey(G)) :
          /\ GroupKeyed(G) /\ cache' = Used(n)
          /\ Goes("hit", [call EXCEPT !.prefix = cache[n].audio, !.short = GroupKey(G) \in curtailed])
     \/ /\ ~GroupKeyed(G) \/ Entries(GroupKey(G)) = {}
        /\ Goes(IF SegmentsKeyed(G) THEN "segments" ELSE "start", call)
        /\ UNCHANGED cache
  /\ UNCHANGED <<tally, curtailed>> /\ keepRequest

\* The same for its segments, up to the first that is missing.
LookUpSegment ==
  LET key == SegmentKey(G, call.hits + 1)
  IN /\ step = "segments"
     /\ \/ \E n \in Entries(key) :
             /\ cache' = Used(n)
             /\ Goes(IF call.hits = Ends(G) THEN "joined" ELSE "segments",
                     [call EXCEPT !.hits = @ + 1, !.prefix = @ \o cache[n].audio,
                                  !.short = @ \/ key \in curtailed])
        \/ /\ Entries(key) = {} /\ UNCHANGED cache
           /\ Goes(IF call.prefix # <<>> THEN "prefix" ELSE "start", call)
     /\ UNCHANGED <<tally, curtailed>> /\ keepRequest

\* _feed_audio_with_indexes: the sound up to the place of the next index, and the index;
\* then the rest.
CachedChars == IF step = "prefix" THEN SegmentChars * call.hits ELSE SegmentChars * Len(G.segs)
PlaceOf(index) == (index * Len(call.prefix)) \div CachedChars
Played(c, to) == [c EXCEPT !.heard = @ \o SubSeq(c.prefix, c.at + 1, to), !.at = to]
FeedCached ==
  /\ step \in {"hit", "joined", "prefix"}
  /\ \/ halted /\ Leaves("cancelled", call)
     \/ /\ ~halted /\ Due(call, CachedChars)
        /\ LET place == PlaceOf(Head(call.pending))
           IN Goes(step, IF place > call.at THEN Played(call, place) ELSE Told(call))
     \/ /\ ~halted /\ ~Due(call, CachedChars)
        /\ LET c == Played(call, Len(call.prefix))
           IN IF step = "hit" THEN Leaves("spoken", c)
              ELSE Goes(IF step = "joined" THEN "keep joined" ELSE "start", c)
  /\ keepCache /\ keepRequest

\* A group of cached segments is kept as a group.
KeepJoined ==
  /\ step = "keep joined"
  /\ IF GroupKeyed(G) /\ ~halted THEN Put(GroupKey(G), call.prefix, call.short) ELSE keepCache
  /\ Leaves("spoken", call)
  /\ keepRequest

-----------------------------------------------------------------------------
(* The segments that are not cached are spoken                               *)

\* The engine is asked, unless the request was cancelled.
StartEngine ==
  /\ step = "start"
  /\ \/ halted /\ Leaves("cancelled", call)
     \/ /\ ~halted
        /\ Goes("engine",
             [call EXCEPT !.base = SegmentChars * call.hits, !.live = call.hits + 1,
                          !.parts = IF GroupKeyed(G) THEN call.prefix ELSE <<>>,
                          !.prefix = <<>>, !.at = 0,
                          !.lead = [open |-> Len(G.segs) - call.hits = 1 \/ call.hits > 0,
                                    kept |-> <<>>]])
  /\ keepCache /\ keepRequest

\* The packet that begins at what was given of the segment; a cancelled request gets none.
Now == Given(G, call.live, call.hits + 1)
InEngine == step = "engine" /\ keepCache /\ keepRequest
EngineAudio ==
  /\ InEngine /\ ~halted
  /\ \E n \in 1..MaxPacket :
       LET packet == SubSeq(Now, call.given + 1, call.given + n)
           sound == Shaped(G.mode, call.shaper, packet)
       IN /\ call.given + n <= Len(Now)
          /\ Goes("engine", [Fed(call, sound.out) EXCEPT !.given = @ + n, !.shaper = sound.shaper])

\* A word of the segment begins: a mark, which nobody hears when no index is inside.
EngineMark ==
  /\ InEngine /\ ~halted
  /\ \E word \in 0..SegmentChars - 1 :
       LET c == Marked(call, SegmentChars * (call.live - 1) - call.base + word)
       IN call # c /\ Goes("engine", c)

\* The boundary comes after all the sound of the segment.
Spent == call.given = Len(Now)
EngineSegmentEnd ==
  /\ InEngine /\ Spent /\ call.live < Len(G.segs)
  /\ Goes("engine", [SegmentEnded(call) EXCEPT !.live = @ + 1, !.given = 0, !.ends = @ + 1])

\* The engine answers: when all is said, when no sound has come for 80 ms though the last
\* segment goes on, or when another call of the page has ended its session.
EngineDone ==
  /\ InEngine /\ call.live = Len(G.segs)
  /\ Spent \/ ("stall" \in AudioFaults /\ call.given > 0)
  /\ Goes("after", [call EXCEPT !.done = TRUE, !.short = ~Spent])
EngineCut ==
  /\ InEngine /\ "cut" \in AudioFaults
  /\ Goes("after", call)

\* speak raises: an error, or CdpCancelled.
EngineRaises ==
  /\ InEngine /\ (halted \/ "error" \in AudioFaults)
  /\ Leaves("failed", call)

\* What is held is played.
Finish ==
  /\ step = "after"
  /\ Goes("closing", Finished(call))
  /\ keepCache /\ keepRequest

\* The indexes that are left are told, and the outcome is looked at.
TellRest ==
  /\ step = "closing"
  /\ \/ halted /\ Leaves("cancelled", call)
     \/ ~halted /\ call.pending # <<>> /\ Goes(step, Told(call))
     \/ /\ ~halted /\ call.pending = <<>>
        /\ Goes(IF Complete(call) /\ SegmentsKeyed(G) /\ Len(call.completed) = Len(G.segs) - call.hits
                  THEN "keep segments" ELSE "keep group", call)
  /\ keepCache /\ keepRequest

\* The first of the completed segments; at counts them.
KeepSegment ==
  LET n == call.at + 1
      i == call.hits + n
  IN /\ step = "keep segments"
     /\ IF Kept(call.completed[n])
          THEN Put(SegmentKey(G, i), call.completed[n], call.short /\ i = Len(G.segs))
          ELSE keepCache
     /\ Goes(IF i = Len(G.segs) THEN "keep group" ELSE step, [call EXCEPT !.at = n])
     /\ keepRequest

KeepGroup ==
  /\ step = "keep group"
  /\ IF GroupKeyed(G) /\ Complete(call) /\ ~halted /\ Kept(call.parts)
       THEN Put(GroupKey(G), call.parts, call.short) ELSE keepCache
  /\ Leaves(IF Complete(call) THEN "spoken" ELSE "cut", call)
  /\ keepRequest

-----------------------------------------------------------------------------
(* NVDA's main thread                                                        *)

\* cancel, while the worker speaks.
Halt ==
  /\ step # "idle" /\ ~halted /\ halted' = TRUE /\ paused' = FALSE
  /\ keepCache /\ UNCHANGED <<texts, step, group, call>>
Pause ==
  /\ paused' = ~paused
  /\ keepCache /\ UNCHANGED <<halted, texts, step, group, call>>

\* _clear_short_audio_cache, by a setter or after a recycle.
ClearCache ==
  /\ cache # <<>>
  /\ cache' = <<>> /\ tally' = 0 /\ curtailed' = {}
  /\ keepRequest /\ UNCHANGED <<step, call>>

AudioNext ==
  \/ \E g \in Texts : Begin(g)
  \/ Leading \/ LookUpGroup \/ LookUpSegment \/ FeedCached \/ KeepJoined
  \/ StartEngine \/ EngineAudio \/ EngineMark \/ EngineSegmentEnd
  \/ EngineDone \/ EngineCut \/ EngineRaises
  \/ Finish \/ TellRest \/ KeepSegment \/ KeepGroup
  \/ Halt \/ Pause \/ ClearCache

AudioSpec == AudioInit /\ [][AudioNext]_audioVars
=============================================================================
