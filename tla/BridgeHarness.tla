----------------------------- MODULE BridgeHarness -----------------------------
(***************************************************************************)
(* The page: googleTtsForNvdaSpeak, googleTtsForNvdaPreload and            *)
(* googleTtsForNvdaStop, which run as async functions on one thread and    *)
(* share the session, its token, the audio port and the engine.  Python    *)
(* calls them from the speech worker and from warm-up threads.             *)
(*                                                                         *)
(* An action is what runs until nothing is left but to wait for the engine *)
(* or a timer: an await of a promise that is already settled lets no other *)
(* task in.  Whose token is current stands for the token.  The engine is   *)
(* modelled from what the page hears of it: it stops at once, loads a      *)
(* voice when it has another one, and delivers a text's audio in chunks.   *)
(***************************************************************************)
EXTENDS Naturals, Sequences

CONSTANTS
  Speeches,    \* calls of googleTtsForNvdaSpeak
  Preloads,    \* calls of googleTtsForNvdaPreload
  Nobody,      \* no call
  Segments,    \* the number of text segments of each speech
  VoiceOf,     \* the voice of each call, each with a language of its own
  Chunks,      \* audio chunks of each text segment of a call
  MaxStops,    \* bound: calls of googleTtsForNvdaStop
  PageFaults   \* what may go wrong: "voice", "stall", "timeout"

Calls == Speeches \cup Preloads

ASSUME CallsAreDistinct == Speeches \cap Preloads = {} /\ Nobody \notin Calls
ASSUME SegmentsAreSome == Segments \in [Speeches -> Nat \ {0}]
ASSUME ChunksAreSome == Chunks \in [Calls -> Nat \ {0}]
ASSUME StopsAreNatural == MaxStops \in Nat
ASSUME PageFaultsAreKnown == PageFaults \subseteq {"voice", "stall", "timeout"}

Idle == [call |-> Nobody, segment |-> 0, given |-> 0]

VARIABLES
  page,      \* current, session: the call with the current token, and the one named
             \* by currentSessionId; muted: suppressBridgeAudio; stopped; ended:
             \* sawSynthesisEnd; chunked: lastChunkAt > 0, and the empty timer runs;
             \* error: synthesisErrorMessage; kept: audio in the processors and
             \* queues; port: the port's token
  engine,    \* its voice, and the text it is at
  prepared,  \* the voices whose language is ready in an initialized engine
  ready,     \* readyVoices
  at,        \* each call: "new", "init", "load", "wait", "done" or "failed"
  segment,   \* of each speech: the one it is at
  told,      \* what was emitted for each call
  stops,     \* calls of googleTtsForNvdaStop so far
  crossed,   \* history: calls during which another one was made or still ran
  silenced   \* history: calls that had a session which was stopped or taken over

harnessVars == <<page, engine, prepared, ready, at, segment, told, stops, crossed, silenced>>

PageInit ==
  /\ page = [current |-> Nobody, session |-> Nobody, muted |-> FALSE, stopped |-> FALSE,
             ended |-> FALSE, chunked |-> FALSE, error |-> FALSE, kept |-> <<>>, port |-> Nobody]
  /\ engine = [voice |-> Nobody, task |-> Idle]
  /\ prepared = {} /\ ready = {}
  /\ at = [c \in Calls |-> "new"] /\ segment = [c \in Speeches |-> 0]
  /\ told = [c \in Calls |-> <<>>]
  /\ stops = 0 /\ crossed = {} /\ silenced = {}

Running == {c \in Calls : at[c] \in {"init", "load", "wait"}}
Waiting == {c \in Calls : at[c] = "wait"}

-----------------------------------------------------------------------------
(* Steps of the page's functions, on its variables and the engine            *)

\* emit, for the session of the current token.
Tell(p, what, items) ==
  IF p.session = Nobody \/ p.muted THEN what
  ELSE [what EXCEPT ![p.session] = @ \o items]

\* What of the audio the processors, the hold at boundaries and the packets let through
\* and what they keep, in its order.
Passed(audio, k) == SubSeq(audio, 1, k)
Held(audio, k) == SubSeq(audio, k + 1, Len(audio))

\* Mutants: the token lives on, or those who wait are not told.
StopQuietly(p) == [p EXCEPT !.stopped = TRUE, !.error = FALSE, !.kept = <<>>]
StopUnseen(p) == [p EXCEPT !.current = Nobody, !.error = FALSE, !.kept = <<>>]

\* stopActiveSynthesis, which stops the engine too.
StopActive(p) ==
  [p EXCEPT !.current = Nobody, !.stopped = TRUE, !.error = FALSE, !.kept = <<>>]

\* currentEndResolver is that of one of those who wait, or of none when another has just
\* returned: the one it wakes finds its token gone, stops once more and returns, before
\* anything else runs.
Woken(waiting) == {{}} \cup {{w} : w \in waiting}
Return(woken) == [c \in Calls |-> IF c \in woken THEN "done" ELSE at[c]]
Readied(calls) == ready' = ready \cup {VoiceOf[c] : c \in calls}
Forget(p, calls) == [p EXCEPT !.session = IF @ \in calls THEN Nobody ELSE @]
Silences == silenced' = silenced \cup ({page.session} \ {Nobody})

\* Another call or a stop comes while others run; remaining are those that run on.
Crosses(calls, remaining) ==
  crossed' = crossed \cup Running \cup (IF remaining # {} THEN calls ELSE {})

\* Mutant: a session begins without resetAudioQueue.
BeginKept(p, c) ==
  [p EXCEPT !.current = c, !.session = c, !.muted = c \in Preloads, !.stopped = FALSE,
            !.ended = FALSE, !.chunked = FALSE, !.error = FALSE]

\* beginSession, and the reset of what a session keeps.
BeginSession(p, c) ==
  [p EXCEPT !.current = c, !.session = c, !.muted = c \in Preloads, !.stopped = FALSE,
            !.ended = FALSE, !.chunked = FALSE, !.error = FALSE, !.kept = <<>>]

\* Mutant: the end of the segment before is kept.
StartEnded(p) == [p EXCEPT !.chunked = FALSE, !.error = FALSE, !.port = p.current]

\* onSpeak stops the engine, which binds the port to the session, and goes on at once
\* when the engine has the voice.
StartSegment(p) ==
  [p EXCEPT !.ended = FALSE, !.chunked = FALSE, !.error = FALSE, !.port = p.current]
Text(c, i) == [call |-> c, segment |-> i, given |-> 0]
IsPrepared(c) == VoiceOf[c] \in prepared
HasVoice(c) == engine.voice = VoiceOf[c]
OnSpeak(c, i) == engine' = [engine EXCEPT !.task = IF HasVoice(c) THEN Text(c, i) ELSE Idle]

\* The end of a speech, in the state p of the page.
EndSpeech(c, p, voice, how) ==
  \E woken \in Woken(Waiting \ {c}) :
    /\ page' = Forget(StopActive(p), woken \cup {c})
    /\ engine' = [voice |-> voice, task |-> Idle]
    /\ at' = [Return(woken) EXCEPT ![c] = how]
    /\ Readied(IF how = "done" THEN woken \cup {c} ELSE woken)
    /\ Silences

\* Mutant: the preload forgets its session and keeps its token.
KeepToken(p, c) ==
  IF p.session = c /\ p.current = c
    THEN [p EXCEPT !.session = Nobody, !.muted = FALSE] ELSE p

\* The end of a preload, whose text the engine still reads.
FinishPreload(p, c) ==
  IF p.session = c /\ p.current = c
    THEN [p EXCEPT !.session = Nobody, !.current = Nobody, !.muted = FALSE] ELSE p

-----------------------------------------------------------------------------
(* googleTtsForNvdaSpeak                                                     *)

\* Others are the calls as the beginning finds them.
BeginSpeech(p, c, others) ==
  /\ page' = StartSegment(BeginSession(p, c))
  /\ OnSpeak(c, 1)
  /\ at' = [others EXCEPT ![c] = IF HasVoice(c) THEN "wait" ELSE "load"]
  /\ segment' = [segment EXCEPT ![c] = 1]
  /\ Silences

\* Up to the first wait: for init, for a voice, or for audio.
Speak(c) ==
  /\ at[c] = "new"
  /\ \E woken \in IF page.session = Nobody THEN {{}} ELSE Woken(Waiting) :
       LET p == IF page.session = Nobody THEN page ELSE Forget(StopActive(page), woken)
       IN /\ Crosses({c}, Running \ woken) /\ Readied(woken)
          /\ \/ IsPrepared(c) /\ BeginSpeech(p, c, Return(woken))
             \/ /\ ~IsPrepared(c) /\ page' = p /\ at' = [Return(woken) EXCEPT ![c] = "init"]
                /\ engine' = [engine EXCEPT !.task = IF page.session = Nobody THEN @ ELSE Idle]
                /\ Silences /\ UNCHANGED segment
  /\ UNCHANGED <<prepared, told, stops>>

SpeakInited(c) ==
  /\ at[c] = "init" /\ IsPrepared(c)
  /\ BeginSpeech(page, c, at)
  /\ UNCHANGED <<prepared, ready, told, stops, crossed>>

\* A speech that finds another session stops the engine.
SpeakLoaded(c) ==
  /\ at[c] = "load"
  /\ IF page.current = c
       THEN /\ engine' = [voice |-> VoiceOf[c], task |-> Text(c, segment[c])]
            /\ at' = [at EXCEPT ![c] = "wait"]
            /\ UNCHANGED <<page, ready, silenced>>
       ELSE EndSpeech(c, page, VoiceOf[c], "done")
  /\ UNCHANGED <<prepared, segment, told, stops, crossed>>

\* Python hears of an error, under whatever session there is.
Fails(c) ==
  /\ EndSpeech(c, [page EXCEPT !.muted = FALSE], engine.voice, "failed")
  /\ told' = Tell(page, told, <<<<"error">>>>)
  /\ UNCHANGED <<prepared, segment, stops, crossed>>

\* waitForWasmEnd and waitForSynthesisComplete: the latter is content when no audio has
\* come for 80 ms, which the end of the text is not the only cause of.
Takes == page.current # Nobody /\ page.port = page.current /\ ~page.stopped
Drained ==
  \/ page.chunked /\ (engine.task = Idle \/ ~Takes \/ "stall" \in PageFaults)
  \/ ~page.chunked /\ page.ended
Waited(c) ==
  /\ at[c] = "wait" /\ ~page.error
  /\ page.stopped \/ (IF segment[c] < Segments[c] THEN page.ended ELSE Drained)

\* A voice that cannot be loaded, and 120 s.
SpeakFails(c) ==
  \/ "voice" \in PageFaults /\ at[c] = "load" /\ Fails(c)
  \/ "timeout" \in PageFaults /\ at[c] = "wait" /\ ~page.error /\ ~Waited(c) /\ Fails(c)

\* The engine may report the failure instead, to whoever waits; a speech that finds
\* another session returns from onSpeak later.
SpeakReports(c) ==
  /\ "voice" \in PageFaults /\ at[c] = "load" /\ page.session # Nobody /\ ~page.error
  /\ page' = [page EXCEPT !.error = TRUE]
  /\ at' = [at EXCEPT ![c] = IF page.current = c THEN "wait" ELSE @]
  /\ UNCHANGED <<engine, prepared, ready, segment, told, stops, crossed, silenced>>
SpeakHears(c) == at[c] = "wait" /\ page.error /\ Fails(c)

\* The boundary is told with what the processors give.
NextSegment(c) ==
  /\ Waited(c) /\ page.current = c /\ segment[c] < Segments[c]
  /\ \E k \in 0..Len(page.kept) :
       /\ told' = Tell(page, told, Passed(page.kept, k) \o <<<<"segmentEnd">>>>)
       /\ page' = StartSegment([page EXCEPT !.kept = Held(@, k)])
  /\ segment' = [segment EXCEPT ![c] = @ + 1]
  /\ OnSpeak(c, segment'[c])
  /\ at' = [at EXCEPT ![c] = IF HasVoice(c) THEN "wait" ELSE "load"]
  /\ UNCHANGED <<prepared, ready, stops, crossed, silenced>>

\* Everything kept is flushed, and done is told, unless the session has gone.
FinishSpeech(c) ==
  /\ Waited(c) /\ (page.current = c => segment[c] = Segments[c])
  /\ told' = IF page.current = c THEN Tell(page, told, page.kept \o <<<<"done">>>>) ELSE told
  /\ EndSpeech(c, page, engine.voice, "done")
  /\ UNCHANGED <<prepared, segment, stops, crossed>>

-----------------------------------------------------------------------------
(* googleTtsForNvdaPreload                                                   *)

\* What follows onSpeak.
Preloaded(p, c) ==
  /\ page' = FinishPreload(p, c)
  /\ at' = [at EXCEPT ![c] = IF p.error THEN "failed" ELSE "done"]
  /\ ready' = IF p.current = c /\ ~p.error THEN ready \cup {VoiceOf[c]} ELSE ready

BeginPreload(p, c) ==
  IF VoiceOf[c] \in ready
    THEN page' = FinishPreload(p, c) /\ at' = [at EXCEPT ![c] = "done"] /\ UNCHANGED <<engine, ready>>
    ELSE /\ OnSpeak(c, 1)
         /\ \/ HasVoice(c) /\ Preloaded([p EXCEPT !.port = p.current], c)
            \/ /\ ~HasVoice(c) /\ at' = [at EXCEPT ![c] = "load"]
               /\ page' = [p EXCEPT !.port = p.current] /\ UNCHANGED ready

\* It takes the session over without a stop.
Preload(c) ==
  /\ at[c] = "new"
  /\ Crosses({c}, Running) /\ Silences
  /\ \/ IsPrepared(c) /\ BeginPreload(BeginSession(page, c), c)
     \/ /\ ~IsPrepared(c) /\ page' = BeginSession(page, c) /\ at' = [at EXCEPT ![c] = "init"]
        /\ UNCHANGED <<engine, ready>>
  /\ UNCHANGED <<prepared, segment, told, stops>>

PreloadInited(c) ==
  /\ at[c] = "init" /\ IsPrepared(c)
  /\ BeginPreload(page, c)
  /\ UNCHANGED <<prepared, segment, told, stops, crossed, silenced>>

PreloadLoaded(c) ==
  /\ at[c] = "load"
  /\ engine' = [voice |-> VoiceOf[c], task |-> Text(c, 1)]
  /\ Preloaded(page, c)
  /\ UNCHANGED <<prepared, segment, told, stops, crossed, silenced>>

PreloadFails(c) ==
  /\ "voice" \in PageFaults /\ at[c] = "load"
  /\ Preloaded([page EXCEPT !.error = page.session # Nobody], c)
  /\ UNCHANGED <<engine, prepared, segment, told, stops, crossed, silenced>>

-----------------------------------------------------------------------------
(* googleTtsForNvdaStop, and the engine                                      *)

PageStop ==
  /\ stops < MaxStops /\ stops' = stops + 1
  /\ \E woken \in Woken(Waiting) :
       page' = Forget(StopActive(page), {page.session}) /\ at' = Return(woken) /\ Readied(woken)
  /\ engine' = [engine EXCEPT !.task = Idle]
  /\ Crosses({}, {}) /\ Silences
  /\ UNCHANGED <<prepared, segment, told>>

\* init and onInstallLanguageRequest return.
Prepare ==
  /\ \E c \in Calls : at[c] = "init" /\ ~IsPrepared(c) /\ prepared' = prepared \cup {VoiceOf[c]}
  /\ UNCHANGED <<page, engine, ready, at, segment, told, stops, crossed, silenced>>

\* A chunk reaches the port, which keeps what is not yet a packet.
Chunk ==
  LET text == engine.task
      got == Append(page.kept, <<"audio", text.call, text.segment, text.given + 1>>)
  IN /\ text # Idle
     /\ engine' = [engine EXCEPT !.task =
                     IF text.given + 1 = Chunks[text.call] THEN Idle
                       ELSE [text EXCEPT !.given = @ + 1]]
     /\ \/ ~Takes /\ UNCHANGED <<page, told>>
        \/ /\ Takes
           /\ \E k \in 0..Len(got) :
                /\ told' = Tell(page, told, Passed(got, k))
                /\ page' = [page EXCEPT !.chunked = TRUE, !.kept = Held(got, k)]
     /\ UNCHANGED <<prepared, ready, at, segment, stops, crossed, silenced>>

\* The empty timer fires: the engine ends the text unless it is still reading it.
EndOfText ==
  /\ page.chunked /\ ~page.ended /\ Takes /\ engine.task = Idle
  /\ page' = [page EXCEPT !.ended = TRUE]
  /\ UNCHANGED <<engine, prepared, ready, at, segment, told, stops, crossed, silenced>>

GoesOn(c) ==
  \/ c \in Speeches /\ (SpeakInited(c) \/ SpeakLoaded(c) \/ SpeakHears(c)
                        \/ NextSegment(c) \/ FinishSpeech(c))
  \/ c \in Preloads /\ (PreloadInited(c) \/ PreloadLoaded(c))
Engine == Prepare \/ Chunk \/ EndOfText

PageNext ==
  \/ \E c \in Speeches : Speak(c) \/ SpeakFails(c) \/ SpeakReports(c)
  \/ \E c \in Preloads : Preload(c) \/ PreloadFails(c)
  \/ \E c \in Calls : GoesOn(c)
  \/ PageStop \/ Engine

\* The engine and the timers go on; what Python asks for is not fair.
PageFairness == WF_harnessVars(Engine) /\ \A c \in Calls : WF_harnessVars(GoesOn(c))

PageSpec == PageInit /\ [][PageNext]_harnessVars /\ PageFairness
=============================================================================
