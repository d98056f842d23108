--------------------------- MODULE SpeechAudioProps ---------------------------
(***************************************************************************)
(* What makes the sound of the driver right.  The reference says of a text *)
(* as a whole what the streaming code, block by block, segment by segment  *)
(* and from the cache, has to give.                                        *)
(***************************************************************************)
EXTENDS SpeechAudio

\* A sample survives when it is not silent, or when it is among the first samples of a
\* pause; where only the pause at the end is shortened, the others survive.
PauseBegins(s, n) ==
  CHOOSE m \in 1..n : (\A k \in m..n : s[k] = 0) /\ (m = 1 \/ s[m - 1] # 0)
IsLast(s, n) == \A m \in n..Len(s) : s[m] = 0
Survives(s, n, mode) ==
  s[n] # 0 \/ n < PauseBegins(s, n) + Keep \/ (mode = "end pauses" /\ ~IsLast(s, n))
Shortened(s, mode) ==
  LET left[n \in 0..Len(s)] ==
        IF n = 0 THEN <<>>
        ELSE IF Survives(s, n, mode) THEN Append(left[n - 1], s[n]) ELSE left[n - 1]
  IN left[Len(s)]

\* The sound of a segment of a text, of its first segments, of all, and what a key stands for.
SoundOf(g, i) ==
  IF g.mode = "no pauses" \/ (g.mode = "end pauses" /\ i < Len(g.segs))
    THEN Given(g, i, 1) ELSE Shortened(Given(g, i, 1), g.mode)
SoundUpTo(g, n) ==
  LET sound[i \in 0..n] == IF i = 0 THEN <<>> ELSE sound[i - 1] \o SoundOf(g, i) IN sound[n]
Sound(g) == SoundUpTo(g, Len(g.segs))
Sounds == [t \in Texts |-> Sound(Groups[t])]

\* What each key of a text stands for.
Meanings ==
  UNION {LET g == Groups[t] IN
           {<<GroupKey(g), Sounds[t]>>} \cup
           {<<SegmentKey(g, i), SoundOf(g, i)>> : i \in DOMAIN g.segs} : t \in Texts}

\* The variables have their types, and the cache is in its bounds.
AudioTypeOK ==
  /\ tally \in 0..MaxBytes /\ Len(cache) <= MaxItems
  /\ {halted, paused} \subseteq BOOLEAN /\ texts \in 0..MaxTexts /\ group \in Texts
  /\ step \in {"idle", "leading", "group", "segments", "hit", "joined", "prefix", "keep joined",
               "start", "engine", "after", "closing", "keep segments", "keep group"}

\* The cache answers truly, in its bounds: no key has two entries, the byte count is that
\* of the entries however they were replaced, evicted and cleared, and an entry is the
\* sound of its key (_put_cached_audio and what _speak_text gives it), except where the
\* engine stalled in the last segment for as long as an end takes.
CacheTrue ==
  /\ AudioTypeOK /\ tally = Size(cache)
  /\ \A m, n \in DOMAIN cache : cache[m].key = cache[n].key => m = n
  /\ \A n \in DOMAIN cache :
       <<cache[n].key, cache[n].audio>> \in Meanings \/ cache[n].key \in curtailed

\* Whatever part of a text came from the cache, what was played is the beginning of its
\* sound and the indexes told are the first of its indexes, each once and in order; a text
\* spoken to its end was played whole, with all its indexes (_speak_text).
HeardRight ==
  /\ IsPrefix(call.heard, Sounds[group])
  /\ IsPrefix(call.reached, G.marks)
  /\ call.end = "spoken" => call.reached = G.marks /\ (call.short \/ call.heard = Sounds[group])
=============================================================================
