-------------------------- MODULE BridgeRuntimeProps --------------------------
(* What the threads sharing one ChromeTtsBridge may rely on.                   *)
EXTENDS BridgeRuntime

ThreadTypes ==
  /\ bridgeLock \in Threads \cup {Nobody}
  /\ connLock \in Clients \cup {Nobody}
  /\ pmLock \in Clients \cup {Nobody}
  /\ pc \in [Threads -> Labels]
SwitchTypes ==
  /\ server \in BOOLEAN /\ port \in BOOLEAN /\ persistent \in BOOLEAN
  /\ peer \in BOOLEAN /\ busy \in BOOLEAN /\ retired \in BOOLEAN
BrowserTypes ==
  /\ proc \in {"none", "up", "down"} /\ orphans \in Nat
  /\ profile \in Runtimes \cup {NoRuntime} /\ cache \subseteq Runtimes
LinkTypes ==
  /\ conn \in {"none", "open", "enabled", "ready"}
  /\ url \in [Clients -> {"none", "good", "gone"}]
  /\ req \in [Clients -> {"none", "live", "dead"}]
EngineTypes ==
  /\ recycle \in {"no", "idle", "urgent"} /\ samples \in 0..Confirmations
  /\ late \subseteq Clients
  /\ held \in [Clients -> {"none", "current", "old"}]
CallTypes ==
  /\ op \in [Clients -> {"none", "speak", "preload", "ensure", "tidy"}]
  /\ cancelled \in [Clients -> BOOLEAN]
  /\ calls \in [Clients -> 0..MaxCalls]
  /\ result \in [Clients -> {"none", "ok", "cancelled", "error"}]
SpeechTypes ==
  /\ skip \in [Clients -> SUBSET Runtimes] /\ left \in [Clients -> SUBSET Runtimes]
  /\ started \in [Clients -> Runtimes \cup {NoRuntime}]
  /\ audio \in [Clients -> BOOLEAN] /\ attempt \in [Clients -> 0..1]
  /\ heard \in [Clients -> Nat]

TypeOK == ThreadTypes /\ SwitchTypes /\ BrowserTypes /\ LinkTypes /\ EngineTypes /\ CallTypes /\ SpeechTypes

\* The fast path of ensure_connection takes "the websocket is open" for "the
\* runtime is ready".  Outside a startup that is sound: a connection whose page
\* is not ready is owned by the thread that is still preparing or dropping it.
ReadyUnlessStarting ==
  conn \in {"open", "enabled"} =>
    /\ connLock # Nobody
    /\ pc[connLock] \in {"enable", "enabling", "await", "awaiting",
                         "dropCancelled", "dropFailed"}

\* Whatever fails, is cancelled, recycled or terminated while a browser starts,
\* the handle is never overwritten or dropped while its process still runs.
NoOrphanBrowser == orphans = 0

\* speak retries a failed text on a fresh runtime, but a listener never hears
\* audio from two attempts of one call.
OneAttemptHeard == \A t \in Clients : heard[t] <= 1

\* The strengthenings the proofs need: who holds a lock is written in its pc, a
\* half-prepared connection belongs to the startup that is at the matching step,
\* a browser is started only where no handle refers to one, and the audio flag of
\* an attempt survives only where no further attempt can begin.
LocksOwned ==
  /\ \A t \in Threads : bridgeLock = t <=> pc[t] \in HoldsBridge
  /\ \A t \in Clients : connLock = t <=> pc[t] \in Startup \cup {"recheck"}
  /\ \A t \in Clients : pmLock = t <=> pc[t] \in InPm
StageOwned ==
  /\ conn = "open" => /\ connLock # Nobody
                      /\ pc[connLock] \in {"enable", "enabling", "dropCancelled", "dropFailed"}
  /\ conn = "enabled" => /\ connLock # Nobody
                         /\ pc[connLock] \in {"await", "awaiting", "dropCancelled", "dropFailed"}
HandleKept ==
  /\ orphans = 0
  /\ \A t \in Clients : pc[t] \in {"launch", "relaunch"} => proc = "none"
  /\ \A t \in Clients : pc[t] = "page" => port
  /\ pmLock = Nobody /\ proc = "up" => port
HeardOnce ==
  \A t \in Clients :
    /\ heard[t] = IF audio[t] THEN 1 ELSE 0
    /\ audio[t] => pc[t] \in {"wait", "mark", "markSpeech", "retry", "decidedRetry",
                          "recycleRetry", "idle"}

\* A live browser outside the process manager's lock has a known DevTools port, so
\* that the next start can reuse it.
IdleBrowserReusable == pmLock = Nobody /\ proc = "up" => port

\* Once terminate has finished and the calls it cancelled are back, no browser
\* of this bridge runs, though a start may have been under way.
QuietAfterTerminate ==
  retired /\ (\A t \in Threads : pc[t] = "idle") => proc # "up" /\ orphans = 0 /\ conn = "none"

\* No browser is left unaccounted for by a start that was cut short: it can be
\* reused while the bridge lives, and is gone when the bridge is.
BrowserKnown == IdleBrowserReusable /\ QuietAfterTerminate

\* What the runtime_busy test of maybe_recycle_runtime secures.  speak marks the
\* engine busy without the bridge lock, so a recycle may cut another thread's speech
\* on the engine object the bridge still has; but only one that was marked after the
\* test, never one that was under way when it was made.  And whoever stops a browser,
\* for a recycle, a failed start or at the end, no request of a client is still
\* waiting for an answer from it.
RecycleSparesBusySpeech ==
  /\ [][\A t, u \in Clients :
          /\ t # u /\ pc[u] \notin Recycling /\ pc'[u] \in Recycling
          /\ op[t] = "speak" /\ req[t] = "live" /\ held[t] = "current" /\ req'[t] # "live"
          => t \in late]_vars
  /\ [][proc = "up" /\ proc' = "none" => \A t \in Clients : req[t] # "live"]_vars

\* No order of locks, waits and cancellations keeps a call or terminate from
\* coming back.
CallsReturn ==
  /\ \A t \in Clients : (pc[t] # "idle") ~> (pc[t] = "idle")
  /\ (pc[Main] = "terminating") ~> (pc[Main] = "idle")

\* tests/test_bridge_concurrency.py: "When a concurrent warmup caller is
\* cancelled, the speech caller still connects."  With no failure, recycle or
\* termination, a caller that was not cancelled leaves ensure_connection connected.
SpeechCallerConnects ==
  \A t \in Clients : pc[t] = "capture" /\ ~cancelled[t] => IsConnected

\* tests/test_bridge_concurrency.py: "Verify that cancellation during
\* ensure_connection() does not kill the browser process."
CancellationSparesBrowser ==
  [][\A t \in Clients : pc[t] # "dropCancelled" /\ pc'[t] = "dropCancelled" =>
       ~(proc = "up" /\ proc' # "up")]_vars
=============================================================================
