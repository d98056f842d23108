-------------------------- MODULE BridgeHarnessProps --------------------------
(***************************************************************************)
(* What the page promises the bridge: see the README for what it does not. *)
(***************************************************************************)
EXTENDS BridgeHarness

\* The text of a speech: the chunks of its segments, and their order.
Script(c) == {<<"audio", c, s, k>> : s \in 1..Segments[c], k \in 1..Chunks[c]}
Precedes(x, y) == x[3] < y[3] \/ (x[3] = y[3] /\ x[4] < y[4])

\* Where a call was told audio, and audio of its own.
IsAudio(item) == item[1] = "audio"
IsOwn(item, c) == IsAudio(item) /\ item[2] = c
HeardAt(c) == {i \in DOMAIN told[c] : IsAudio(told[c][i])}
OwnAt(c) == {i \in DOMAIN told[c] : IsOwn(told[c][i], c)}

Item == {<<"segmentEnd">>, <<"done">>, <<"error">>}
          \cup ({"audio"} \X Calls \X (Nat \ {0}) \X (Nat \ {0}))
CallOrNobody == Calls \cup {Nobody}
Languages == {VoiceOf[c] : c \in Calls}

\* A text the engine is at has chunks left.
TaskOK ==
  /\ engine.task \in [call : CallOrNobody, segment : Nat, given : Nat]
  /\ engine.task.call = Nobody <=> engine.task = Idle
  /\ engine.task.call # Nobody =>
       engine.task.segment > 0 /\ engine.task.given < Chunks[engine.task.call]

\* Every variable has its type; the call whose token is current is the one whose session
\* it is, and after a stop there is none: no chunk, mark or event of an older call can be
\* taken for a newer session's by its token.
PageTypeOK ==
  /\ page \in [current : CallOrNobody, session : CallOrNobody, muted : BOOLEAN,
               stopped : BOOLEAN, ended : BOOLEAN, chunked : BOOLEAN, error : BOOLEAN,
               kept : Seq(Item), port : CallOrNobody]
  /\ page.current \in {page.session, Nobody} /\ (page.stopped => page.current = Nobody)
  /\ engine = [voice |-> engine.voice, task |-> engine.task]
  /\ engine.voice \in Languages \cup {Nobody} /\ TaskOK
  /\ ready \cup prepared \subseteq Languages
  /\ at \in [Calls -> {"new", "init", "load", "wait", "done", "failed"}]
  /\ told \in [Calls -> Seq(Item)] /\ stops \in 0..MaxStops
  /\ segment \in [Speeches -> Nat]
  /\ \A c \in Speeches : at[c] \in {"load", "wait"} => segment[c] \in 1..Segments[c]
  /\ crossed \subseteq Calls /\ silenced \subseteq Calls

\* A session is told no audio of another speech, its own in the order of its text and no
\* chunk twice, and without a gap unless a preload was made while it ran; only the silent
\* text of such a preload may be heard in it.
OwnAudio ==
  \A c \in Speeches :
    /\ \A i \in HeardAt(c) : told[c][i] \in Script(c) \/ told[c][i][2] \in Preloads \cap crossed
    /\ \A i, j \in OwnAt(c) : i < j => Precedes(told[c][i], told[c][j])
    /\ Preloads \cap crossed = {} =>
         \A i \in OwnAt(c) : \A x \in Script(c) :
           Precedes(x, told[c][i]) => \E j \in OwnAt(c) : told[c][j] = x

\* A speech that nothing crossed, and whose audio did not stall for 80 ms, has been told
\* all of its text, no other audio, and at last that it is done when googleTtsForNvdaSpeak
\* returns, whatever the calls and stops before it have left behind.
Whole ==
  [][\A c \in Speeches :
       at[c] = "wait" /\ at'[c] = "done" /\ c \notin crossed'
         /\ (page.chunked => engine.task = Idle) =>
         /\ \A x \in Script(c) : \E i \in DOMAIN told'[c] : told'[c][i] = x
         /\ \A i \in DOMAIN told'[c] : IsAudio(told'[c][i]) => told'[c][i] \in Script(c)
         /\ told'[c][Len(told'[c])] = <<"done">>]_harnessVars

\* A session that was stopped, ended or taken over is told nothing more, except an error
\* of an older call.
Silence ==
  [][\A c \in silenced :
       /\ DOMAIN told[c] \subseteq DOMAIN told'[c]
       /\ \A i \in DOMAIN told'[c] :
            told'[c][i] = IF i \in DOMAIN told[c] THEN told[c][i] ELSE <<"error">>]_harnessVars

\* A speech ends without the timeout of 120 s, however it is stopped or superseded, unless
\* a preload takes the session over.
Settles ==
  \A c \in Speeches :
    at[c] # "new" ~> at[c] \in {"done", "failed"} \/ Preloads \cap crossed # {}
=============================================================================
