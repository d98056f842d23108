---------------------------- MODULE SpeechDriver ----------------------------
(***************************************************************************)
(* The synthesizer driver: NVDA's main thread calls speak, cancel, a voice *)
(* setter and terminate; the speech worker serves the queue; warm-up       *)
(* threads connect the browser and preload the voice; the reader thread of *)
(* the DevTools channel reports the indexes inside a text.                 *)
(*                                                                         *)
(* An action is the code between two points where a thread waits or where  *)
(* what another thread does can be noticed.  The bridge is seen from       *)
(* outside, as BridgeRuntime shows it: a call may start the browser unless *)
(* it was cancelled, and ends with a result, an error or a cancellation.   *)
(***************************************************************************)
EXTENDS Naturals, Sequences, FiniteSets

CONSTANTS
  Main,         \* NVDA's main thread
  Worker,       \* the thread of _speech_loop
  Warmers,      \* threads of _warm_current_voice_async
  None,         \* no request, no thread
  MaxRequests,  \* bound: calls of speak
  MaxErrors,    \* consecutive failures after which the driver gives up
  Script,       \* of each request: its chunks, "text", "marked" or "index"
  MaxVoices,    \* bound: changes of voice or variant
  Faults        \* what may go wrong: "request", "runtime", "recycle", "worker"

Requests == 1..MaxRequests
Callers == {Main, Worker}
Threads == Callers \cup Warmers

\* The indexes of a request: its index chunks, and one inside a marked text.
Marks == [r \in Requests |-> Cardinality({p \in DOMAIN Script[r] : Script[r][p] # "text"})]

ASSUME ThreadsDistinct ==
  /\ Main # Worker /\ Main \notin Warmers /\ Worker \notin Warmers
  /\ None \notin Threads \cup Requests
  /\ Threads \cap Requests = {}
ASSUME BoundsAreNatural == MaxRequests \in Nat /\ MaxVoices \in Nat /\ MaxErrors \in Nat \ {0}
ASSUME ScriptIsKnown == Script \in [Requests -> Seq({"text", "marked", "index"})]
ASSUME FaultsAreKnown == Faults \subseteq {"request", "runtime", "recycle", "worker"}

VARIABLES
  \* SynthDriver
  queue,        \* _speechQueue
  active,       \* the request _activeCancelEvent belongs to
  shutdown, fallback, errors,
  cancelled,    \* requests and warm-up threads whose cancel event is set
  warmEvent,    \* the warm-up thread _warmupCancelEvent belongs to
  warmThread,   \* _warmupThread
  \* the threads
  pc, goal,     \* where each thread is; what the main thread cancels for
  fresh,        \* of each caller: the warm-up thread it is setting up
  item,         \* the chunk the worker is at
  inner,        \* the index inside it is not reported yet
  idle,         \* what the worker read of the queue before a recycle
  calling,      \* requests in a callback that has passed its cancel check
  \* NVDA and the bridge
  asked, voices,\* calls of speak, changes of voice so far
  posted,       \* fallbacks scheduled with wx.CallAfter
  up,           \* the bridge's browser runs and its page is connected
  preparing,    \* the thread that connected it and still makes it ready
  fate,         \* of the bridge: "ours", "kept" by standby or "ended"
  \* history
  told,         \* number of indexes reported, per request
  done,         \* requests whose end was reported
  failed,       \* requests whose speech raised
  late          \* requests with an index reported after their end or cancel

driverVars == <<queue, active, shutdown, fallback, errors>>
warmVars == <<warmEvent, warmThread, fresh>>
workVars == <<item, inner, idle>>
bridgeVars == <<up, preparing, fate>>
nvdaVars == <<asked, voices, posted>>
toldVars == <<told, done, failed, late>>
vars == <<driverVars, cancelled, warmVars, pc, goal, workVars, calling,
          bridgeVars, nvdaVars, toldVars>>

Init ==
  /\ queue = <<>> /\ active = None
  /\ shutdown = FALSE /\ fallback = FALSE /\ errors = 0
  /\ cancelled = {} /\ warmEvent = None /\ warmThread = None
  \* The constructor ends with a warm-up of the voice.
  /\ pc = [t \in Threads |->
             IF t = Main THEN "warm" ELSE IF t = Worker THEN "loop" ELSE "unborn"]
  /\ goal = "cancel"
  /\ fresh = [t \in Callers |-> None]
  /\ item = 1 /\ inner = FALSE /\ idle = FALSE
  /\ calling = {}
  /\ asked = 0 /\ voices = 0 /\ posted = 0
  \* The bridge is a new one or one that standby has warmed.
  /\ up \in BOOLEAN /\ preparing = None /\ fate = "ours"
  /\ told = [r \in Requests |-> 0]
  /\ done = {} /\ failed = {} /\ late = {}

Goto(t, place) == pc' = [pc EXCEPT ![t] = place]

Cancelled(r) == r \in cancelled

-----------------------------------------------------------------------------
(* Reports to NVDA                                                           *)

\* synthIndexReached.notify.
Tell(r) ==
  /\ told' = [told EXCEPT ![r] = @ + 1]
  /\ late' = IF r \in done \cup cancelled THEN late \cup {r} ELSE late
  /\ UNCHANGED <<done, failed>>

-----------------------------------------------------------------------------
(* _warm_current_voice_async, on the main thread or on the worker            *)

\* Where a caller goes on when the warm-up thread runs, or is not wanted.
AfterWarm == [t \in Callers |-> IF t = Main THEN "idle" ELSE "clear"]

\* Nothing is started after shutdown; there may be no voice to warm.
MayWarm == ~shutdown
WarmCheck(t) ==
  /\ pc[t] = "warm"
  /\ \/ /\ MayWarm
        /\ \E w \in Warmers :
             /\ pc[w] = "unborn" /\ \A u \in Callers : fresh[u] # w
             /\ fresh' = [fresh EXCEPT ![t] = w]
        /\ Goto(t, "swap")
     \/ Goto(t, AfterWarm[t]) /\ UNCHANGED fresh
  /\ UNCHANGED <<driverVars, cancelled, warmEvent, warmThread, goal, workVars, calling,
                 bridgeVars, nvdaVars, toldVars>>

\* The cancel event of the warm-up before is set ...
KeepWarmEvent == cancelled' = cancelled
SetWarmEvent == cancelled' = cancelled \cup ({warmEvent} \ {None})

WarmSwap(t) ==
  /\ pc[t] = "swap"
  /\ SetWarmEvent
  /\ Goto(t, "assign")
  /\ UNCHANGED <<driverVars, warmVars, goal, workVars, calling,
                 bridgeVars, nvdaVars, toldVars>>

\* ... the new one put in its place ...
WarmAssign(t) ==
  /\ pc[t] = "assign"
  /\ warmEvent' = fresh[t]
  /\ Goto(t, "start")
  /\ UNCHANGED <<driverVars, cancelled, warmThread, fresh, goal, workVars, calling,
                 bridgeVars, nvdaVars, toldVars>>

\* ... and the thread started.
WarmStart(t) ==
  /\ pc[t] = "start"
  /\ warmThread' = fresh[t]
  /\ fresh' = [fresh EXCEPT ![t] = None]
  /\ pc' = [pc EXCEPT ![t] = AfterWarm[t], ![fresh[t]] = "delay"]
  /\ UNCHANGED <<driverVars, cancelled, warmEvent, goal, workVars, calling,
                 bridgeVars, nvdaVars, toldVars>>

-----------------------------------------------------------------------------
(* The bridge, as its callers see it                                         *)

\* Calls that may start the browser: speak, ensure_connection, preload_voice.
Connecting(t) == pc[t] \in {"speak", "connect", "preload"}
CallCancelled(t) == IF t = Worker THEN Cancelled(active) ELSE Cancelled(t)

\* A call that nobody has cancelled starts the browser and connects to its page;
\* it does so again if the page is closed under it.
BrowserStarts(t) ==
  /\ Connecting(t) /\ ~CallCancelled(t)
  /\ ~up /\ preparing \in {None, t}
  /\ up' = TRUE /\ preparing' = t
  /\ UNCHANGED <<driverVars, cancelled, warmVars, pc, goal, workVars, calling,
                 fate, nvdaVars, toldVars>>

\* The page is ready, and the lock of the connection free.
PageReady(t) ==
  /\ preparing = t /\ up
  /\ preparing' = None
  /\ UNCHANGED <<driverVars, cancelled, warmVars, pc, goal, workVars, calling,
                 up, fate, nvdaVars, toldVars>>

\* Others take an open connection without waiting for the page.
Connected(t) == up /\ preparing # t

\* Only a call that is making the connection fails to get one, and only that
\* call closes the connection when it fails or is cancelled.
MayFail(t) == preparing = t \/ (preparing = None /\ ~up)
Closes(t) ==
  IF preparing = t THEN up' = FALSE /\ preparing' = None ELSE UNCHANGED <<up, preparing>>

-----------------------------------------------------------------------------
(* The warm-up thread                                                        *)

WarmDelay(w) ==
  /\ pc[w] = "delay"
  /\ Goto(w, IF Cancelled(w) THEN "dead" ELSE "connect")
  /\ UNCHANGED <<driverVars, cancelled, warmVars, goal, workVars, calling,
                 bridgeVars, nvdaVars, toldVars>>

\* A fatal fallback is only wanted while the driver is in use.
MayPost == ~shutdown /\ ~fallback

\* ensure_connection returns, is cancelled or fails; without any browser the
\* driver is of no use.
WarmConnect(w) ==
  /\ pc[w] = "connect"
  /\ \/ Connected(w) /\ Goto(w, "ready") /\ UNCHANGED <<up, preparing, posted>>
     \/ Cancelled(w) /\ Goto(w, "dead") /\ Closes(w) /\ UNCHANGED posted
     \/ /\ "request" \in Faults /\ MayFail(w)
        /\ Goto(w, "dead") /\ Closes(w)
        /\ \/ UNCHANGED posted
           \/ /\ "runtime" \in Faults /\ ~Cancelled(w) /\ MayPost
              /\ posted' = posted + 1
  /\ UNCHANGED <<driverVars, cancelled, warmVars, goal, workVars, calling,
                 fate, asked, voices, toldVars>>

WarmReady(w) ==
  /\ pc[w] = "ready"
  /\ Goto(w, IF Cancelled(w) \/ shutdown THEN "dead" ELSE "preload")
  /\ UNCHANGED <<driverVars, cancelled, warmVars, goal, workVars, calling,
                 bridgeVars, nvdaVars, toldVars>>

\* preload_voice ends in one way or another: its errors are only logged.
WarmPreload(w) ==
  /\ pc[w] = "preload"
  /\ Connected(w) \/ Cancelled(w) \/ "request" \in Faults
  /\ Goto(w, "dead") /\ Closes(w)
  /\ UNCHANGED <<driverVars, cancelled, warmVars, goal, workVars, calling,
                 fate, nvdaVars, toldVars>>

-----------------------------------------------------------------------------
(* The speech worker: _speech_loop, _speak_worker and _speak_text            *)

WorkerAt(place) == pc[Worker] = place
WorkerGoes(place) == Goto(Worker, place)

\* Mutant: only a request ends the wait.
TakeRequest ==
  /\ WorkerAt("loop") /\ queue # <<>>
  /\ queue' = Tail(queue) /\ active' = Head(queue)
  /\ item' = 1
  /\ WorkerGoes("item")
  /\ UNCHANGED <<shutdown, fallback, errors, cancelled, warmVars, goal, inner, idle,
                 calling, bridgeVars, nvdaVars, toldVars>>

\* It waits for a request or for shutdown.
Take ==
  /\ WorkerAt("loop")
  /\ \/ /\ shutdown
        /\ WorkerGoes("gone")
        /\ UNCHANGED <<queue, active, item>>
     \/ /\ ~shutdown /\ queue # <<>>
        /\ queue' = Tail(queue) /\ active' = Head(queue)
        /\ item' = 1
        /\ WorkerGoes("item")
  /\ UNCHANGED <<shutdown, fallback, errors, cancelled, warmVars, goal, inner, idle,
                 calling, bridgeVars, nvdaVars, toldVars>>

\* The loop over the chunks; a text is cached or goes to the bridge.
NextItem ==
  /\ WorkerAt("item")
  /\ \/ Cancelled(active) /\ WorkerGoes("tidy") /\ UNCHANGED inner
     \/ /\ ~Cancelled(active) /\ item > Len(Script[active])
        /\ WorkerGoes("last") /\ UNCHANGED inner
     \/ /\ ~Cancelled(active) /\ item \in DOMAIN Script[active]
        /\ inner' = (Script[active][item] = "marked")
        /\ IF Script[active][item] = "index" THEN WorkerGoes("sync")
           ELSE WorkerGoes("speak") \/ WorkerGoes("spoken")
  /\ UNCHANGED <<driverVars, cancelled, warmVars, goal, item, idle, calling,
                 bridgeVars, nvdaVars, toldVars>>

\* Anything from the audio device to the options of a text may raise.
Raise ==
  /\ pc[Worker] \in {"item", "speak", "spoken", "sync", "last"}
  /\ "request" \in Faults
  /\ failed' = failed \cup {active}
  /\ WorkerGoes("failed") /\ Closes(Worker)
  /\ UNCHANGED <<driverVars, cancelled, warmVars, goal, workVars, calling,
                 fate, nvdaVars, told, done, late>>

\* The mutant leaves the index among the pending ones.
CallbackKeeps ==
  /\ WorkerAt("speak") /\ Connected(Worker) /\ inner /\ ~Cancelled(active)
  /\ calling' = calling \cup {active}
  /\ UNCHANGED <<driverVars, cancelled, warmVars, pc, goal, workVars,
                 bridgeVars, nvdaVars, toldVars>>

\* The mark callback takes the index out of the pending ones after its check ...
Callback ==
  /\ WorkerAt("speak") /\ Connected(Worker) /\ inner /\ ~Cancelled(active)
  /\ inner' = FALSE
  /\ calling' = calling \cup {active}
  /\ UNCHANGED <<driverVars, cancelled, warmVars, pc, goal, item, idle,
                 bridgeVars, nvdaVars, toldVars>>

\* ... and reports it, whatever has become of the request since.
CallbackTells(r) ==
  /\ r \in calling
  /\ calling' = calling \ {r}
  /\ Tell(r)
  /\ UNCHANGED <<driverVars, cancelled, warmVars, pc, goal, workVars,
                 bridgeVars, nvdaVars>>

\* bridge.speak returns: the reader has run every callback before the response.
Spoken ==
  /\ WorkerAt("speak") /\ Connected(Worker) /\ active \notin calling
  /\ WorkerGoes("spoken")
  /\ UNCHANGED <<driverVars, cancelled, warmVars, goal, workVars, calling,
                 bridgeVars, nvdaVars, toldVars>>

SpeakCancelled ==
  /\ WorkerAt("speak") /\ Cancelled(active)
  /\ WorkerGoes("tidy") /\ Closes(Worker)
  /\ UNCHANGED <<driverVars, cancelled, warmVars, goal, workVars, calling,
                 fate, nvdaVars, toldVars>>

\* An index left over, or an index chunk, is reported unless cancelled; the
\* check comes after the wait for the player.
MayTell(r) == ~Cancelled(r)
LeftOver ==
  /\ WorkerAt("spoken")
  /\ IF inner THEN WorkerGoes("sync") /\ UNCHANGED item
     ELSE WorkerGoes("item") /\ item' = item + 1
  /\ UNCHANGED <<driverVars, cancelled, warmVars, goal, inner, idle, calling,
                 bridgeVars, nvdaVars, toldVars>>

Synced ==
  /\ WorkerAt("sync")
  /\ IF MayTell(active) THEN WorkerGoes("tell") /\ UNCHANGED item
     ELSE WorkerGoes("item") /\ item' = item + 1
  /\ UNCHANGED <<driverVars, cancelled, warmVars, goal, inner, idle, calling,
                 bridgeVars, nvdaVars, toldVars>>

TellIndex ==
  /\ WorkerAt("tell")
  /\ Tell(active)
  /\ item' = item + 1 /\ inner' = FALSE
  /\ WorkerGoes("item")
  /\ UNCHANGED <<driverVars, cancelled, warmVars, goal, idle, calling,
                 bridgeVars, nvdaVars>>

\* After the last chunk the audio is played out, then the end reported.
PlayOut ==
  /\ WorkerAt("last")
  /\ WorkerGoes(IF Cancelled(active) THEN "tidy" ELSE "end")
  /\ UNCHANGED <<driverVars, cancelled, warmVars, goal, workVars, calling,
                 bridgeVars, nvdaVars, toldVars>>

CheckEnd ==
  /\ WorkerAt("end")
  /\ WorkerGoes(IF Cancelled(active) THEN "tidy" ELSE "done")
  /\ UNCHANGED <<driverVars, cancelled, warmVars, goal, workVars, calling,
                 bridgeVars, nvdaVars, toldVars>>

\* synthDoneSpeaking.notify.
Done ==
  /\ WorkerAt("done")
  /\ done' = done \cup {active}
  /\ errors' = 0
  /\ WorkerGoes("tidy")
  /\ UNCHANGED <<queue, active, shutdown, fallback, cancelled, warmVars, goal,
                 workVars, calling, bridgeVars, nvdaVars, told, failed, late>>

\* Mutant: the exception ends the thread.
Unhandled ==
  /\ WorkerAt("failed")
  /\ WorkerGoes("gone")
  /\ UNCHANGED <<driverVars, cancelled, warmVars, goal, workVars, calling,
                 bridgeVars, nvdaVars, toldVars>>

\* The handler of exceptions: an end is reported, then errors are counted.
Handle ==
  /\ WorkerAt("failed")
  /\ WorkerGoes(IF Cancelled(active) THEN "tidy" ELSE "failedDone")
  /\ UNCHANGED <<driverVars, cancelled, warmVars, goal, workVars, calling,
                 bridgeVars, nvdaVars, toldVars>>

FailedDone ==
  /\ WorkerAt("failedDone")
  /\ done' = done \cup {active}
  /\ WorkerGoes("count")
  /\ UNCHANGED <<driverVars, cancelled, warmVars, goal, workVars, calling,
                 bridgeVars, nvdaVars, told, failed, late>>

\* Without a browser, or after MaxErrors failures in a row, it is hopeless.
Hopeless(n) == n >= MaxErrors
CountError ==
  /\ WorkerAt("count")
  /\ WorkerGoes("tidy")
  /\ IF ~Cancelled(active) /\ MayPost
     THEN /\ errors' = errors + 1
          /\ \/ Hopeless(errors') /\ posted' = posted + 1
             \/ ~Hopeless(errors') /\ UNCHANGED posted
             \/ "runtime" \in Faults /\ posted' = posted + 1
     ELSE UNCHANGED <<errors, posted>>
  /\ UNCHANGED <<queue, active, shutdown, fallback, cancelled, warmVars, goal, workVars,
                 calling, bridgeVars, asked, voices, toldVars>>

\* finally: an answered request may be followed by a recycle of the browser.
Tidy ==
  /\ WorkerAt("tidy")
  /\ idle' = (queue = <<>>)
  /\ WorkerGoes(IF Cancelled(active) \/ shutdown THEN "clear" ELSE "recycle")
  /\ UNCHANGED <<driverVars, cancelled, warmVars, goal, item, inner, calling,
                 bridgeVars, nvdaVars, toldVars>>

\* A recycle is due after an error or for the memory of a running browser.
Recycle ==
  /\ WorkerAt("recycle")
  /\ \/ WorkerGoes("clear") /\ UNCHANGED up
     \/ /\ "recycle" \in Faults
        /\ up \/ active \in failed
        /\ up' = FALSE
        /\ WorkerGoes(IF idle /\ ~shutdown THEN "warm" ELSE "clear")
  /\ UNCHANGED <<driverVars, cancelled, warmVars, goal, workVars, calling,
                 preparing, fate, nvdaVars, toldVars>>

\* An exception that leaves _speak_worker: the warm-up thread cannot start.
Crash ==
  /\ WorkerAt("start") /\ "worker" \in Faults
  /\ warmThread' = fresh[Worker]
  /\ fresh' = [fresh EXCEPT ![Worker] = None]
  /\ pc' = [pc EXCEPT ![Worker] = "clear", ![fresh[Worker]] = "dead"]
  /\ posted' = IF MayPost THEN posted + 1 ELSE posted
  /\ UNCHANGED <<driverVars, cancelled, warmEvent, goal, workVars, calling,
                 bridgeVars, asked, voices, toldVars>>

\* Mutant: the finished request stays the active one.
StayActive ==
  /\ WorkerAt("clear")
  /\ WorkerGoes("loop")
  /\ UNCHANGED <<driverVars, cancelled, warmVars, goal, workVars,
                 calling, bridgeVars, nvdaVars, toldVars>>
Clear ==
  /\ WorkerAt("clear")
  /\ active' = None
  /\ WorkerGoes("loop")
  /\ UNCHANGED <<queue, shutdown, fallback, errors, cancelled, warmVars, goal, workVars,
                 calling, bridgeVars, nvdaVars, toldVars>>

-----------------------------------------------------------------------------
(* NVDA's main thread                                                        *)

MainAt(place) == pc[Main] = place
MainGoes(place) == Goto(Main, place)

\* speak: the warm-up is told to stop, then the request is queued, or refused
\* by a driver that was terminated.
Speak ==
  /\ MainAt("idle") \/ MainAt("gone")
  /\ asked < MaxRequests
  /\ SetWarmEvent
  /\ MainGoes("queue")
  /\ UNCHANGED <<driverVars, warmVars, goal, workVars, calling,
                 bridgeVars, nvdaVars, toldVars>>

\* Mutant: a driver that was terminated still takes requests.
EnqueueAnyway ==
  /\ MainAt("queue")
  /\ MainGoes(IF shutdown THEN "gone" ELSE "idle")
  /\ asked' = asked + 1
  /\ queue' = Append(queue, asked + 1)
  /\ UNCHANGED <<active, shutdown, fallback, errors, cancelled, warmVars, goal, workVars,
                 calling, bridgeVars, voices, posted, toldVars>>

Enqueue ==
  /\ MainAt("queue")
  /\ IF shutdown THEN MainGoes("gone") /\ UNCHANGED <<asked, queue>>
     ELSE /\ MainGoes("idle")
          /\ asked' = asked + 1
          /\ queue' = Append(queue, asked + 1)
  /\ UNCHANGED <<active, shutdown, fallback, errors, cancelled, warmVars, goal, workVars,
                 calling, bridgeVars, voices, posted, toldVars>>

\* The section of cancel under the condition: the active request and all queued.
Queued == {queue[i] : i \in DOMAIN queue}
Withdrawn == Queued \cup ({active} \ {None})
CancelRequests(after) ==
  /\ cancelled' = cancelled \cup Withdrawn
  /\ queue' = <<>>
  /\ goal' = after
  /\ MainGoes("stopping")

Cancel ==
  /\ MainAt("idle")
  /\ CancelRequests("cancel")
  /\ UNCHANGED <<active, shutdown, fallback, errors, warmVars, workVars, calling,
                 bridgeVars, nvdaVars, toldVars>>

\* _set_voice and _set_variant warm the new voice.
SetVoice ==
  /\ MainAt("idle") /\ voices < MaxVoices
  /\ voices' = voices + 1
  /\ MainGoes("warm")
  /\ UNCHANGED <<driverVars, cancelled, warmVars, goal, workVars, calling,
                 bridgeVars, asked, posted, toldVars>>

\* _trigger_fatal_fallback, when wx runs it.
Fallback ==
  /\ MainAt("idle") \/ MainAt("gone")
  /\ posted > 0 /\ posted' = posted - 1
  /\ IF MayPost
     THEN fallback' = TRUE /\ queue' = <<>> /\ MainGoes("giveUp")
     ELSE UNCHANGED <<fallback, queue, pc>>
  /\ UNCHANGED <<active, shutdown, errors, cancelled, warmVars, goal, workVars, calling,
                 bridgeVars, asked, voices, toldVars>>

GiveUp ==
  /\ MainAt("giveUp")
  /\ CancelRequests("switch")
  /\ UNCHANGED <<active, shutdown, fallback, errors, warmVars, workVars, calling,
                 bridgeVars, nvdaVars, toldVars>>

\* terminate begins, because NVDA ends or switches.
Terminate ==
  /\ MainAt("idle")
  /\ SetWarmEvent
  /\ MainGoes("terminate")
  /\ UNCHANGED <<driverVars, warmVars, goal, workVars, calling,
                 bridgeVars, nvdaVars, toldVars>>

CancelAll ==
  /\ MainAt("terminate")
  /\ CancelRequests("terminate")
  /\ UNCHANGED <<active, shutdown, fallback, errors, warmVars, workVars, calling,
                 bridgeVars, nvdaVars, toldVars>>

\* cancel stops the page and the player; then its caller goes on.  NVDA may find
\* no other synthesizer to switch to.
Stopped ==
  /\ MainAt("stopping")
  /\ \/ goal \in {"cancel", "switch"} /\ MainGoes("idle") /\ UNCHANGED <<cancelled, shutdown>>
     \/ goal = "switch" /\ MainGoes("terminate") /\ SetWarmEvent /\ UNCHANGED shutdown
     \/ goal = "terminate" /\ shutdown' = TRUE /\ MainGoes("release") /\ UNCHANGED cancelled
  /\ UNCHANGED <<queue, active, fallback, errors, warmVars, goal, workVars, calling,
                 bridgeVars, nvdaVars, toldVars>>

\* _bridge_safe_for_standby_release: no warm-up, an idle connected engine that is
\* not due for a recycle, and then neither an active request nor a queued one.
WarmupAlive == warmThread # None /\ pc[warmThread] # "dead"
CheckBridge ==
  /\ MainAt("release")
  /\ \/ up /\ ~WarmupAlive /\ MainGoes("check")
     \/ MainGoes("end")
  /\ UNCHANGED <<driverVars, cancelled, warmVars, goal, workVars, calling,
                 bridgeVars, nvdaVars, toldVars>>

QueueEmpty == queue = <<>>
NothingActive == active = None /\ queue = <<>>
CheckQueue ==
  /\ MainAt("check")
  /\ MainGoes(IF NothingActive THEN "keep" ELSE "end")
  /\ UNCHANGED <<driverVars, cancelled, warmVars, goal, workVars, calling,
                 bridgeVars, nvdaVars, toldVars>>

\* release_synth_bridge keeps the bridge, or declines it.
Release ==
  /\ MainAt("keep")
  /\ \/ fate' = "kept" /\ MainGoes("gone")
     \/ UNCHANGED fate /\ MainGoes("end")
  /\ UNCHANGED <<driverVars, cancelled, warmVars, goal, workVars, calling,
                 up, preparing, nvdaVars, toldVars>>

EndBridge ==
  /\ MainAt("end")
  /\ fate' = "ended" /\ up' = FALSE
  /\ MainGoes("gone")
  /\ UNCHANGED <<driverVars, cancelled, warmVars, goal, workVars, calling,
                 preparing, nvdaVars, toldVars>>

-----------------------------------------------------------------------------
StartsWarmup(t) == WarmCheck(t) \/ WarmSwap(t) \/ WarmAssign(t) \/ WarmStart(t)

Serve ==
  \/ Take \/ NextItem \/ Raise \/ Spoken \/ SpeakCancelled \/ LeftOver \/ Synced
  \/ TellIndex \/ PlayOut \/ CheckEnd \/ Done \/ Handle \/ FailedDone \/ CountError
  \/ Tidy \/ Recycle \/ Crash \/ Clear \/ StartsWarmup(Worker)

WarmUp(w) == WarmDelay(w) \/ WarmConnect(w) \/ WarmReady(w) \/ WarmPreload(w)

Continue ==
  \/ Enqueue \/ GiveUp \/ CancelAll \/ Stopped \/ CheckBridge \/ CheckQueue
  \/ Release \/ EndBridge \/ StartsWarmup(Main)

Ask == Speak \/ Cancel \/ SetVoice \/ Terminate \/ Fallback

Next ==
  \/ Serve \/ Continue \/ Ask \/ Callback
  \/ \E w \in Warmers : WarmUp(w)
  \/ \E t \in Threads : BrowserStarts(t) \/ PageReady(t)
  \/ \E r \in Requests : CallbackTells(r)

Spec == Init /\ [][Next]_vars

\* Calls of the bridge return (BridgeRuntime), waits for the player end, and the
\* main thread finishes what it began; what it begins, and callbacks of wx, are
\* up to NVDA.
Fairness ==
  /\ WF_vars(Serve) /\ WF_vars(Continue)
  /\ \A w \in Warmers : WF_vars(WarmUp(w))
  /\ \A t \in Threads : WF_vars(BrowserStarts(t) \/ PageReady(t))
  /\ \A r \in Requests : WF_vars(CallbackTells(r))

LiveSpec == Spec /\ Fairness
=============================================================================
