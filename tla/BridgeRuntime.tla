---------------------------- MODULE BridgeRuntime ----------------------------
(***************************************************************************)
(* One ChromeTtsBridge: the browser process, its local HTTP server and     *)
(* profile (BrowserProcessManager), the DevTools connection (CdpClient),   *)
(* the engine object with its busy flag (WasmTtsEngineBridge) and the      *)
(* facade's recycle flags, used by several threads at once.                *)
(*                                                                         *)
(* The Speaker is the driver's speech worker (speak, and the health check  *)
(* it runs after a request); Warmers are warm-up threads (ensure_connection*)
(* and preload_voice); Main is NVDA's main thread, which cancels calls and *)
(* terminates the bridge.  A step is what a thread does between two points *)
(* at which it can wait or lose a lock.                                    *)
(***************************************************************************)
EXTENDS Integers, FiniteSets

CONSTANTS
  Speaker,        \* the one thread that speaks
  Warmers,        \* threads that warm the runtime up
  Main,           \* the thread that terminates the bridge
  Nobody,         \* owner of a free lock
  NRuntimes,      \* installed browser runtimes, in fallback order 1..NRuntimes
  MaxCalls,       \* bound: facade calls made by each client thread
  Confirmations,  \* RUNTIME_MEMORY_RECYCLE_CONFIRMATIONS
  Faults          \* which failures of the environment may happen

Clients  == {Speaker} \cup Warmers
Threads  == Clients \cup {Main}
Runtimes == 1..NRuntimes
NoRuntime == 0

AllFaults == {"crash", "startup", "inUse", "request", "speech", "memory", "terminate"}

ASSUME ThreadsDistinct ==
  /\ Speaker \notin Warmers
  /\ Main \notin Clients
  /\ Nobody \notin Threads
ASSUME BoundsAreNatural ==
  NRuntimes \in Nat /\ MaxCalls \in Nat /\ Confirmations \in Nat \ {0}
ASSUME FaultsAreKnown == Faults \subseteq AllFaults

VARIABLES
  \* locks
  bridgeLock,   \* ChromeTtsBridge._lock
  connLock,     \* ChromeTtsBridge._connectionLock
  pmLock,       \* BrowserProcessManager._lock
  \* BrowserProcessManager
  server,       \* _server is running
  proc,         \* _chromeProcess: "none", "up" or "down" (exited, not yet noticed)
  orphans,      \* live browser processes no handle refers to any more
  port,         \* _debugPort is known
  profile,      \* _profileRuntime
  persistent,   \* _profileIsPersistent
  cache,        \* runtimes whose persistent profile (with its WASM code cache) is on disk
  \* CdpClient: how far the page behind the open websocket has been prepared
  conn,
  peer,         \* the process behind the websocket is still there
  \* engine and recycle flags
  busy,         \* runtime_busy of the current engine object
  recycle,      \* "no", "idle" (_needsRecycle) or "urgent" (_recycleUrgent as well)
  samples,      \* _highMemorySampleCount
  late,         \* history: clients that marked the current engine busy after a recycle
                \* under way had found it not busy
  retired,      \* terminate() has begun
  \* each client thread's call
  pc, op, cancelled, skip, left, url, started, held, req, audio, attempt,
  heard,        \* history: attempts of this call that delivered audio
  result,       \* outcome of the last call
  calls

lockVars == <<bridgeLock, connLock, pmLock>>
procVars == <<server, proc, orphans, port, profile, persistent, cache>>
connVars == <<conn, peer>>
flagVars == <<busy, recycle, samples, late>>
callVars == <<op, cancelled, calls>>
startVars == <<skip, left, started>>
speechVars == <<audio, attempt, heard>>
vars == <<lockVars, procVars, connVars, flagVars, retired, callVars,
          startVars, speechVars, pc, url, req, held, result>>

\* Where a client thread can be.
Startup  == {"attempt", "start", "launch", "relaunch", "port", "page", "note", "connect",
             "enable", "enabling", "await", "awaiting", "stamp",
             "dropCancelled", "dropFailed", "killing"}
InPm     == {"launch", "relaunch", "port", "page"}
Deciding == {"decidedBegin", "decidedRetry", "decidedTidy"}
Recycling == {"recycleBegin", "recycleRetry", "recycleTidy"}
HoldsBridge == {"enabling", "awaiting", "killing", "terminating"} \cup Deciding \cup Recycling
Labels   == Startup \cup HoldsBridge \cup
            {"idle", "begin", "ensure", "acquire", "recheck", "capture", "ask",
             "send", "wait", "mark", "markSpeech", "retry", "tidy"}

Init ==
  /\ bridgeLock = Nobody /\ connLock = Nobody /\ pmLock = Nobody
  /\ server = FALSE /\ proc = "none" /\ orphans = 0 /\ port = FALSE
  /\ profile = NoRuntime /\ persistent = FALSE /\ cache = {}
  /\ conn = "none" /\ peer = FALSE
  /\ busy = FALSE /\ recycle = "no" /\ samples = 0 /\ late = {}
  /\ retired = FALSE
  /\ pc = [t \in Threads |-> "idle"]
  /\ op = [t \in Clients |-> "none"]
  /\ cancelled = [t \in Clients |-> FALSE]
  /\ calls = [t \in Clients |-> 0]
  /\ skip = [t \in Clients |-> {}]
  /\ left = [t \in Clients |-> {}]
  /\ started = [t \in Clients |-> NoRuntime]
  /\ url = [t \in Clients |-> "none"]
  /\ held = [t \in Clients |-> "none"]
  /\ req = [t \in Clients |-> "none"]
  /\ audio = [t \in Clients |-> FALSE]
  /\ attempt = [t \in Clients |-> 0]
  /\ heard = [t \in Clients |-> 0]
  /\ result = [t \in Clients |-> "none"]

Goto(t, l) == pc' = [pc EXCEPT ![t] = l]

-----------------------------------------------------------------------------
(* Effects shared by the operations.                                         *)

\* Every websocket address handed out for the old process is now useless.
UrlsGone == url' = [t \in Clients |-> IF url[t] = "good" THEN "gone" ELSE url[t]]

\* Mutants: the handle is dropped, or only the port forgotten, without a kill.
ProcessForgotten ==
  /\ proc' = "none" /\ port' = FALSE
  /\ orphans' = IF proc = "up" THEN orphans + 1 ELSE orphans
  /\ UrlsGone
ProcessLeftRunning == port' = FALSE /\ UNCHANGED <<proc, orphans, url>>

\* The process handle is dropped after terminate(), wait() and kill().
ProcessStopped ==
  /\ proc' = "none" /\ port' = FALSE
  /\ UrlsGone
  /\ UNCHANGED orphans

\* _remove_chrome_profile: forget the directory and delete it.
RemoveProfile ==
  /\ profile' = NoRuntime /\ persistent' = FALSE
  /\ cache' = IF persistent THEN cache \ {profile} ELSE cache

\* _release_chrome_profile: forget the directory; a persistent one stays on disk.
ReleaseProfile == profile' = NoRuntime /\ persistent' = FALSE /\ UNCHANGED cache

\* _stop_browser_process(removeProfile=...)
StopBrowser(removeProfile) ==
  /\ ProcessStopped
  /\ IF removeProfile THEN RemoveProfile ELSE ReleaseProfile

\* BrowserProcessManager.terminate
PmTerminate ==
  /\ ProcessStopped
  /\ server' = FALSE
  /\ ReleaseProfile

\* Waiting for BrowserProcessManager._lock.
PmFree == pmLock = Nobody

\* CdpClient.close: the dispatcher wakes every request that was waiting on it.
CloseConnection ==
  /\ conn' = "none" /\ peer' = FALSE
  /\ req' = [t \in Clients |-> IF req[t] = "live" THEN "dead" ELSE req[t]]

\* A new WasmTtsEngineBridge and cleared flags, as maybe_recycle_runtime and
\* terminate leave them.  Threads in a request keep the old engine object.
FreshEngine ==
  /\ busy' = FALSE /\ recycle' = "no" /\ samples' = 0 /\ late' = {}
  /\ held' = [t \in Clients |-> IF held[t] = "current" THEN "old" ELSE held[t]]

IsConnected == conn # "none"

\* The call of client t returns; "result" keeps how.
Return(t, r) ==
  /\ Goto(t, "idle")
  /\ result' = [result EXCEPT ![t] = r]

-----------------------------------------------------------------------------
(* A client's call begins, is cancelled, and makes its first checks.         *)

OpsOf(t) == IF t = Speaker THEN {"speak", "tidy"} ELSE {"ensure", "preload"}
FirstLabel == [speak |-> "begin", preload |-> "begin", ensure |-> "ensure", tidy |-> "tidy"]

\* The thread calls the facade with a fresh cancel event.  The driver and the
\* standby manager make no call on a bridge they have begun to terminate.
Call(t) ==
  /\ pc[t] = "idle" /\ ~retired /\ calls[t] < MaxCalls
  /\ \E o \in OpsOf(t) :
       /\ op' = [op EXCEPT ![t] = o]
       /\ Goto(t, FirstLabel[o])
  /\ calls' = [calls EXCEPT ![t] = @ + 1]
  /\ cancelled' = [cancelled EXCEPT ![t] = FALSE]
  /\ attempt' = [attempt EXCEPT ![t] = 0]
  /\ audio' = [audio EXCEPT ![t] = FALSE]
  /\ heard' = [heard EXCEPT ![t] = 0]
  /\ result' = [result EXCEPT ![t] = "none"]
  /\ UNCHANGED <<lockVars, procVars, connVars, flagVars, retired, startVars, url, req, held>>

\* Another thread sets the cancel event of a running call.
Cancel(t) ==
  /\ pc[t] # "idle" /\ op[t] # "tidy"
  /\ cancelled' = [cancelled EXCEPT ![t] = TRUE]
  /\ UNCHANGED <<lockVars, procVars, connVars, flagVars, retired, op, calls,
                 startVars, speechVars, pc, url, req, held, result>>

\* _raise_if_cancelled; the mutant ignores the cancel event.
NeverRaised(t) == FALSE
Raised(t) == cancelled[t]

\* The tests of maybe_recycle_runtime, on the flag as the memory check left it;
\* the mutant forgets runtime_busy.
RecycleAnyway(flag, allowIdle) == flag = "urgent" \/ (flag = "idle" /\ allowIdle)
RecycleDue(flag, allowIdle) ==
  ~busy /\ (flag = "urgent" \/ (flag = "idle" /\ allowIdle))

\* maybe_recycle_runtime has found the engine not busy and goes on to recycle with
\* the bridge lock held.  A thread in speak needs that lock neither to mark the
\* engine it has captured busy nor to send its request.
StartRecycle(t, l) ==
  /\ bridgeLock' = t
  /\ Goto(t, l)
  /\ UNCHANGED <<connLock, pmLock, result>>

\* speak and preload_voice: _raise_if_cancelled, then
\* maybe_recycle_runtime(allowIdleRecycle=False, checkMemory=False).
Begin(t) ==
  /\ pc[t] = "begin"
  /\ \/ /\ Raised(t)
        /\ Return(t, "cancelled")
        /\ UNCHANGED lockVars
     \/ /\ ~Raised(t)
        /\ bridgeLock = Nobody
        /\ IF RecycleDue(recycle, FALSE)
           THEN StartRecycle(t, "decidedBegin")
           ELSE Goto(t, "ensure") /\ UNCHANGED <<lockVars, result>>
  /\ UNCHANGED <<procVars, connVars, flagVars, retired, callVars, startVars, speechVars,
                 url, req, held>>

\* The driver's check after a request: maybe_recycle_runtime with the memory
\* sample.  The count saturates where the code only compares it with the limit.
Tidy(t) ==
  /\ pc[t] = "tidy" /\ bridgeLock = Nobody
  /\ \E allowIdle \in BOOLEAN, usage \in {"unchecked", "low", "high"} :
       LET count == CASE usage = "unchecked" -> samples
                      [] usage = "low" -> 0
                      [] usage = "high" -> IF samples < Confirmations THEN samples + 1 ELSE samples
           flag == IF usage = "high" /\ count >= Confirmations /\ recycle = "no"
                   THEN "idle" ELSE recycle
       IN /\ usage = "high" => "memory" \in Faults
          /\ samples' = count /\ recycle' = flag
          /\ IF RecycleDue(flag, allowIdle)
             THEN StartRecycle(t, "decidedTidy")
             ELSE Return(t, "ok") /\ UNCHANGED lockVars
  /\ UNCHANGED <<procVars, connVars, busy, late, retired, callVars, startVars, speechVars,
                 url, req, held>>

AfterDecision == [decidedBegin |-> "recycleBegin", decidedRetry |-> "recycleRetry",
                  decidedTidy |-> "recycleTidy"]

\* Mutant: the browser is stopped with the connection still open.
LeaveOpen(t) ==
  /\ pc[t] \in Deciding
  /\ Goto(t, AfterDecision[pc[t]])
  /\ late' = {}
  /\ UNCHANGED <<lockVars, procVars, connVars, busy, recycle, samples, retired, callVars,
                 startVars, speechVars, url, req, held, result>>

\* self._cdp_client.close(), whatever has been sent since the test.
CloseForRecycle(t) ==
  /\ pc[t] \in Deciding
  /\ CloseConnection
  /\ Goto(t, AfterDecision[pc[t]])
  /\ late' = {}
  /\ UNCHANGED <<lockVars, procVars, busy, recycle, samples, retired, callVars,
                 startVars, speechVars, url, held, result>>

\* speak: "if attempt == 0 and recycled and not exc.audioStarted"; the mutant
\* drops the last test.
RetryAnyway(t) == attempt[t] = 0
MayRetry(t) == attempt[t] = 0 /\ ~audio[t]

\* The rest of maybe_recycle_runtime, and where its caller goes from there:
\* speak retries once, and only while no audio of this call has been heard.
FinishRecycle(t) ==
  /\ pc[t] \in Recycling /\ PmFree
  /\ PmTerminate
  /\ FreshEngine
  /\ bridgeLock' = Nobody
  /\ CASE pc[t] = "recycleBegin" -> Goto(t, "ensure") /\ UNCHANGED <<attempt, result>>
       [] pc[t] = "recycleTidy"  -> Return(t, "ok") /\ UNCHANGED attempt
       [] pc[t] = "recycleRetry" -> IF MayRetry(t)
                                    THEN /\ attempt' = [attempt EXCEPT ![t] = 1]
                                         /\ Goto(t, "begin")
                                         /\ UNCHANGED result
                                    ELSE Return(t, "error") /\ UNCHANGED attempt
  /\ UNCHANGED <<connLock, pmLock, connVars, retired, callVars, startVars, audio, heard, req>>

-----------------------------------------------------------------------------
(* ensure_connection                                                         *)

\* The unlocked fast path: connected already?
Ensure(t) ==
  /\ pc[t] = "ensure"
  /\ \/ Raised(t) /\ Return(t, "cancelled")
     \/ /\ ~Raised(t) /\ bridgeLock = Nobody
        /\ Goto(t, IF IsConnected THEN "capture" ELSE "acquire")
        /\ UNCHANGED result
  /\ UNCHANGED <<lockVars, procVars, connVars, flagVars, retired, callVars,
                 startVars, speechVars, url, req, held>>

\* Poll for _connectionLock, giving up when cancelled.
Acquire(t) ==
  /\ pc[t] = "acquire"
  /\ \/ /\ connLock = Nobody
        /\ connLock' = t /\ Goto(t, "recheck")
        /\ UNCHANGED result
     \/ /\ connLock # Nobody /\ Raised(t)
        /\ Return(t, "cancelled") /\ UNCHANGED connLock
  /\ UNCHANGED <<bridgeLock, pmLock, procVars, connVars, flagVars, retired, callVars,
                 startVars, speechVars, url, req, held>>

\* Connected by the previous holder, or ours to start.
Recheck(t) ==
  /\ pc[t] = "recheck" /\ bridgeLock = Nobody
  /\ IF IsConnected
     THEN connLock' = Nobody /\ Goto(t, "capture") /\ UNCHANGED skip
     ELSE Goto(t, "attempt") /\ skip' = [skip EXCEPT ![t] = {}] /\ UNCHANGED connLock
  /\ UNCHANGED <<bridgeLock, pmLock, procVars, connVars, flagVars, retired, callVars,
                 left, started, speechVars, url, req, held, result>>

\* The head of the fallback loop: a cancelled call leaves with nothing to close.
Attempt(t) ==
  /\ pc[t] = "attempt"
  /\ IF Raised(t)
     THEN connLock' = Nobody /\ Return(t, "cancelled")
     ELSE Goto(t, "start") /\ UNCHANGED <<connLock, result>>
  /\ started' = [started EXCEPT ![t] = NoRuntime]
  /\ UNCHANGED <<bridgeLock, pmLock, procVars, connVars, flagVars, retired, callVars,
                 skip, left, speechVars, url, req, held>>

\* start_and_get_websocket_url takes _lock; _prepare_browser_start starts the
\* server, reuses a live browser or clears what is left of a dead one, and only
\* then looks at the cancel event.
Start(t) ==
  /\ pc[t] = "start" /\ PmFree
  /\ server' = TRUE
  /\ left' = [left EXCEPT ![t] = Runtimes \ skip[t]]
  /\ IF proc = "up" /\ port
     THEN /\ pmLock' = t /\ Goto(t, "page")
          /\ UNCHANGED <<proc, orphans, port, profile, persistent, cache, url>>
     ELSE /\ IF proc = "none" THEN UNCHANGED <<proc, orphans, port, profile, persistent, cache, url>>
                              ELSE StopBrowser(FALSE)
          /\ IF Raised(t)
             THEN Goto(t, "dropCancelled") /\ UNCHANGED pmLock
             ELSE Goto(t, "launch") /\ pmLock' = t
  /\ UNCHANGED <<bridgeLock, connLock, connVars, flagVars, retired, callVars,
                 skip, started, speechVars, req, held, result>>

\* _get_browser_profile_dir
OpenProfile(r, keep) ==
  IF profile = r THEN UNCHANGED <<profile, persistent, cache>>
  ELSE /\ profile' = r /\ persistent' = keep
       /\ cache' = IF keep THEN cache \cup {r} ELSE cache

\* subprocess.Popen: the handle is overwritten whatever it referred to.
Spawn ==
  /\ proc' = "up"
  /\ orphans' = IF proc = "up" THEN orphans + 1 ELSE orphans
  /\ UNCHANGED port

\* Mutant: the manager's lock is not released.
KeepPm(t, l) == UNCHANGED pmLock /\ Goto(t, l)
LeavePm(t, l) == pmLock' = Nobody /\ Goto(t, l)

\* The next choice of the fallback order, with its persistent profile.
Launch(t) ==
  /\ pc[t] = "launch"
  /\ \/ /\ left[t] = {}
        /\ LeavePm(t, "dropFailed")
        /\ UNCHANGED <<proc, orphans, port, profile, persistent, cache, left, url>>
     \/ /\ left[t] # {} /\ Raised(t)
        /\ LeavePm(t, "dropCancelled")
        /\ UNCHANGED <<proc, orphans, port, profile, persistent, cache, left, url>>
     \/ /\ ~Raised(t)
        /\ \E r \in left[t] :
             /\ \A q \in left[t] : r <= q
             /\ left' = [left EXCEPT ![t] = @ \ {r}]
             /\ \/ OpenProfile(r, TRUE) /\ Spawn /\ Goto(t, "port") /\ UNCHANGED url
                \/ /\ "startup" \in Faults
                   /\ ProcessStopped /\ cache' = cache \ {r}
                   /\ profile' = NoRuntime /\ persistent' = FALSE
                   /\ UNCHANGED pc
        /\ UNCHANGED pmLock
  /\ UNCHANGED <<server, bridgeLock, connLock, connVars, flagVars, retired, callVars,
                 skip, started, speechVars, req, held, result>>

\* The choices this start has taken so far.
Tried(t) == Runtimes \ (left[t] \cup skip[t])

\* The same choice again with a temporary profile, the persistent one being in use.
Relaunch(t) ==
  /\ pc[t] = "relaunch"
  /\ \/ /\ Raised(t)
        /\ LeavePm(t, "dropCancelled")
        /\ UNCHANGED <<proc, orphans, port, profile, persistent, cache>>
     \/ /\ ~Raised(t)
        /\ \E r \in Tried(t) :
             /\ \A q \in Tried(t) : q <= r
             /\ OpenProfile(r, FALSE)
        /\ Spawn /\ Goto(t, "port")
        /\ UNCHANGED pmLock
  /\ UNCHANGED <<server, bridgeLock, connLock, connVars, flagVars, retired, callVars,
                 skip, left, started, speechVars, url, req, held, result>>

\* _read_devtools_port.  Every way out of the wait but success and a profile in
\* use passes through "except Exception: _stop_browser_process(removeProfile=True)",
\* a cancellation included.
Port(t) ==
  /\ pc[t] = "port"
  /\ \/ /\ proc = "up"
        /\ port' = TRUE
        /\ Goto(t, "page")
        /\ UNCHANGED <<pmLock, proc, orphans, profile, persistent, cache, url>>
     \/ /\ Raised(t)
        /\ StopBrowser(TRUE)
        /\ LeavePm(t, "dropCancelled")
     \/ /\ proc = "down" \/ "startup" \in Faults
        /\ StopBrowser(TRUE)
        /\ Goto(t, "launch")
        /\ UNCHANGED pmLock
     \/ /\ "inUse" \in Faults /\ persistent
        /\ ProcessStopped /\ ReleaseProfile
        /\ Goto(t, "relaunch")
        /\ UNCHANGED pmLock
  /\ UNCHANGED <<server, bridgeLock, connLock, connVars, flagVars, retired, callVars,
                 skip, left, started, speechVars, req, held, result>>

\* get_page_websocket_url; a browser without the page is stopped and the next
\* choice tried, a cancelled wait leaves the browser as it is.
Page(t) ==
  /\ pc[t] = "page"
  /\ \/ /\ proc = "up"
        /\ url' = [url EXCEPT ![t] = "good"]
        /\ LeavePm(t, "note")
        /\ UNCHANGED <<proc, orphans, port, profile, persistent, cache>>
     \/ /\ Raised(t)
        /\ LeavePm(t, "dropCancelled")
        /\ UNCHANGED <<proc, orphans, port, profile, persistent, cache, url>>
     \/ /\ proc = "down" \/ "startup" \in Faults
        /\ StopBrowser(TRUE)
        /\ Goto(t, "launch")
        /\ UNCHANGED pmLock
  /\ UNCHANGED <<server, bridgeLock, connLock, connVars, flagVars, retired, callVars,
                 skip, left, started, speechVars, req, held, result>>

\* runtime = self._process_manager.profile_runtime, read without a lock.
Note(t) ==
  /\ pc[t] = "note"
  /\ started' = [started EXCEPT ![t] = profile]
  /\ Goto(t, "connect")
  /\ UNCHANGED <<lockVars, procVars, connVars, flagVars, retired, callVars,
                 skip, left, speechVars, url, req, held, result>>

\* CdpClient.connect closes what was open and connects to the page.
Connect(t) ==
  /\ pc[t] = "connect" /\ bridgeLock = Nobody
  /\ req' = [u \in Clients |-> IF req[u] = "live" THEN "dead" ELSE req[u]]
  /\ url' = [url EXCEPT ![t] = "none"]
  /\ \/ /\ url[t] = "good"
        /\ conn' = "open" /\ peer' = TRUE
        /\ Goto(t, "enable")
     \/ /\ url[t] = "gone" \/ "startup" \in Faults
        /\ conn' = "none" /\ peer' = FALSE
        /\ Goto(t, "dropFailed")
  /\ UNCHANGED <<lockVars, procVars, flagVars, retired, callVars,
                 startVars, speechVars, held, result>>

\* enable_cdp_domains and wait_until_ready wait for the browser with the bridge
\* lock held; between the two the lock is free.
TakeBridge(t, from, to) ==
  /\ pc[t] = from /\ bridgeLock = Nobody
  /\ bridgeLock' = t
  /\ Goto(t, to)
  /\ UNCHANGED <<connLock, pmLock, procVars, connVars, flagVars, retired, callVars,
                 startVars, speechVars, url, req, held, result>>

AwaitBrowser(t, from, stage, to) ==
  /\ pc[t] = from
  /\ bridgeLock' = Nobody
  /\ \/ /\ IsConnected /\ peer
        /\ conn' = stage
        /\ Goto(t, to)
     \/ /\ Raised(t)
        /\ Goto(t, "dropCancelled") /\ UNCHANGED conn
     \/ /\ ~IsConnected \/ ~peer \/ "startup" \in Faults
        /\ Goto(t, "dropFailed") /\ UNCHANGED conn
  /\ UNCHANGED <<connLock, pmLock, procVars, peer, flagVars, retired, callVars,
                 startVars, speechVars, url, req, held, result>>

Enable(t)    == TakeBridge(t, "enable", "enabling")
Enabled(t)   == AwaitBrowser(t, "enabling", "enabled", "await")
Await(t)     == TakeBridge(t, "await", "awaiting")
Awaited(t)   == AwaitBrowser(t, "awaiting", "ready", "stamp")

\* The runtime is ready: the memory statistics start again.
Stamp(t) ==
  /\ pc[t] = "stamp" /\ bridgeLock = Nobody
  /\ samples' = 0
  /\ connLock' = Nobody
  /\ Goto(t, "capture")
  /\ UNCHANGED <<bridgeLock, pmLock, procVars, connVars, busy, recycle, late, retired, callVars,
                 startVars, speechVars, url, req, held, result>>

\* Mutant: a cancelled startup leaves the half-prepared connection open.
DropCancelledOpen(t) ==
  /\ pc[t] = "dropCancelled" /\ bridgeLock = Nobody
  /\ connLock' = Nobody
  /\ Return(t, "cancelled")
  /\ UNCHANGED <<bridgeLock, pmLock, procVars, connVars, flagVars, retired, callVars,
                 startVars, speechVars, url, req, held>>

\* except CdpCancelled: close the connection; the browser stays.
DropCancelled(t) ==
  /\ pc[t] = "dropCancelled" /\ bridgeLock = Nobody
  /\ CloseConnection
  /\ connLock' = Nobody
  /\ Return(t, "cancelled")
  /\ UNCHANGED <<bridgeLock, pmLock, procVars, flagVars, retired, callVars,
                 startVars, speechVars, url, held>>

\* except Exception: close the connection and, still holding the bridge lock,
\* terminate the process manager.
DropFailed(t) ==
  /\ pc[t] = "dropFailed" /\ bridgeLock = Nobody
  /\ CloseConnection
  /\ bridgeLock' = t
  /\ Goto(t, "killing")
  /\ UNCHANGED <<connLock, pmLock, procVars, flagVars, retired, callVars,
                 startVars, speechVars, url, held, result>>

\* "if runtime: ... if _browser_choices(skipRuntimes)"; the mutant drops the first.
SkipUnknown(failed, skipped) == Runtimes \ skipped # {}
MaySkip(failed, skipped) == failed # NoRuntime /\ Runtimes \ skipped # {}

\* A failed runtime is skipped while another is installed; otherwise the error
\* leaves ensure_connection, and speak and preload_voice may mark it.
Killing(t) ==
  /\ pc[t] = "killing" /\ PmFree
  /\ PmTerminate
  /\ bridgeLock' = Nobody
  /\ LET failed == IF started[t] # NoRuntime THEN started[t] ELSE profile
         skipped == skip[t] \cup {failed}
     IN \/ /\ MaySkip(failed, skipped)
           /\ skip' = [skip EXCEPT ![t] = skipped]
           /\ Goto(t, "attempt")
           /\ UNCHANGED <<connLock, result>>
        \/ /\ ~MaySkip(failed, skipped)
           /\ connLock' = Nobody
           /\ \/ Return(t, "error")
              \/ op[t] # "ensure" /\ Goto(t, "mark") /\ UNCHANGED result
           /\ UNCHANGED skip
  /\ UNCHANGED <<pmLock, connVars, flagVars, retired, callVars,
                 left, started, speechVars, req, held>>

-----------------------------------------------------------------------------
(* speak and preload_voice after ensure_connection                           *)

\* ensure_connection has returned; the engine is captured under the lock.
Capture(t) ==
  /\ pc[t] = "capture"
  /\ \/ op[t] = "ensure" /\ Return(t, "ok") /\ UNCHANGED held
     \/ /\ op[t] # "ensure" /\ bridgeLock = Nobody
        /\ held' = [held EXCEPT ![t] = "current"]
        /\ Goto(t, "ask")
        /\ UNCHANGED result
  /\ UNCHANGED <<lockVars, procVars, connVars, flagVars, retired, callVars,
                 startVars, speechVars, url, req>>

\* The engine checks the voice package and the cancel event; only speak marks
\* the engine busy.
Ask(t) ==
  /\ pc[t] = "ask"
  /\ audio' = [audio EXCEPT ![t] = FALSE]
  /\ \/ /\ ~Raised(t)
        /\ IF op[t] = "speak" /\ held[t] = "current"
           THEN /\ busy' = TRUE
                /\ late' = IF \E u \in Clients : pc[u] \in Deciding THEN late \cup {t} ELSE late
           ELSE UNCHANGED <<busy, late>>
        /\ Goto(t, "send")
        /\ UNCHANGED <<held, result>>
     \/ /\ Raised(t) \/ "request" \in Faults
        /\ held' = [held EXCEPT ![t] = "none"]
        /\ Return(t, IF cancelled[t] THEN "cancelled" ELSE "error")
        /\ UNCHANGED <<busy, late>>
  /\ UNCHANGED <<lockVars, procVars, connVars, recycle, samples, retired, callVars,
                 startVars, attempt, heard, url, req>>

\* The finally blocks of CdpClient.request and WasmTtsEngineBridge.speak.
LeaveRequest(t) ==
  /\ req' = [req EXCEPT ![t] = "none"]
  /\ held' = [held EXCEPT ![t] = "none"]
  /\ busy' = IF op[t] = "speak" /\ held[t] = "current" THEN FALSE ELSE busy

Requesting(t) ==
  UNCHANGED <<lockVars, procVars, connVars, recycle, samples, late, retired, callVars,
              startVars, attempt, url>>

\* CdpClient.request picks up the connection of this moment.
Send(t) ==
  /\ pc[t] = "send"
  /\ IF IsConnected
     THEN /\ req' = [req EXCEPT ![t] = "live"]
          /\ Goto(t, "wait")
          /\ UNCHANGED <<held, busy>>
     ELSE LeaveRequest(t) /\ Goto(t, "mark")
  /\ UNCHANGED <<audio, heard, result>>
  /\ Requesting(t)

\* handle_event passes an audio chunk on.
HearAudio(t) ==
  /\ pc[t] = "wait" /\ op[t] = "speak" /\ ~audio[t]
  /\ req[t] = "live" /\ peer /\ conn # "open" /\ ~cancelled[t]
  /\ audio' = [audio EXCEPT ![t] = TRUE]
  /\ heard' = [heard EXCEPT ![t] = @ + 1]
  /\ UNCHANGED <<pc, req, held, busy, result>>
  /\ Requesting(t)

\* The page answers.
Answered(t) ==
  /\ pc[t] = "wait" /\ req[t] = "live" /\ peer
  /\ LeaveRequest(t)
  /\ Return(t, "ok")
  /\ UNCHANGED <<audio, heard>>
  /\ Requesting(t)

\* The harness is not there yet: a script exception no recycle marker matches.
PageRejects(t) ==
  /\ pc[t] = "wait" /\ req[t] = "live" /\ peer /\ conn # "ready"
  /\ LeaveRequest(t)
  /\ Return(t, "error")
  /\ UNCHANGED <<audio, heard>>
  /\ Requesting(t)

\* _BrowserSpeechError: the harness reported that it cannot speak the text.
SpeechFails(t) ==
  /\ pc[t] = "wait" /\ op[t] = "speak" /\ "speech" \in Faults
  /\ req[t] = "live" /\ peer
  /\ LeaveRequest(t)
  /\ Goto(t, "markSpeech")
  /\ UNCHANGED <<audio, heard, result>>
  /\ Requesting(t)

\* The connection closed under the request, or no answer came in time.
RequestFails(t) ==
  /\ pc[t] = "wait"
  /\ \/ req[t] = "dead" /\ ~cancelled[t]
     \/ ~peer \/ "request" \in Faults
  /\ LeaveRequest(t)
  /\ Goto(t, "mark")
  /\ UNCHANGED <<audio, heard, result>>
  /\ Requesting(t)

RequestCancelled(t) ==
  /\ pc[t] = "wait" /\ cancelled[t]
  /\ LeaveRequest(t)
  /\ Return(t, "cancelled")
  /\ UNCHANGED <<audio, heard>>
  /\ Requesting(t)

\* _mark_runtime_error_for_recycle: whatever the runtime is by now.
Mark(t) ==
  /\ pc[t] \in {"mark", "markSpeech"} /\ bridgeLock = Nobody
  /\ recycle' = "urgent"
  /\ IF pc[t] = "mark" THEN Return(t, "error")
                       ELSE Goto(t, "retry") /\ UNCHANGED result
  /\ UNCHANGED <<lockVars, procVars, connVars, busy, samples, late, retired, callVars,
                 startVars, speechVars, url, req, held>>

\* After a speech error: maybe_recycle_runtime(allowIdleRecycle=True).
Retry(t) ==
  /\ pc[t] = "retry" /\ bridgeLock = Nobody
  /\ IF RecycleDue(recycle, TRUE)
     THEN StartRecycle(t, "decidedRetry")
     ELSE Return(t, "error") /\ UNCHANGED lockVars
  /\ UNCHANGED <<procVars, connVars, flagVars, retired, callVars, startVars, speechVars,
                 url, req, held>>

-----------------------------------------------------------------------------
(* terminate, by the main thread: its callers cancel every running call first. *)

Terminate ==
  /\ "terminate" \in Faults /\ pc[Main] = "idle" /\ ~retired
  /\ \A t \in Clients : pc[t] = "idle" \/ cancelled[t] \/ op[t] = "tidy"
  /\ bridgeLock = Nobody
  /\ retired' = TRUE
  /\ CloseConnection
  /\ bridgeLock' = Main
  /\ Goto(Main, "terminating")
  /\ UNCHANGED <<connLock, pmLock, procVars, flagVars, callVars,
                 startVars, speechVars, url, held, result>>

FinishTerminate ==
  /\ pc[Main] = "terminating" /\ PmFree
  /\ PmTerminate
  /\ FreshEngine
  /\ bridgeLock' = Nobody
  /\ Goto(Main, "idle")
  /\ UNCHANGED <<connLock, pmLock, connVars, retired, callVars,
                 startVars, speechVars, req, result>>

-----------------------------------------------------------------------------
(* The browser, outside the bridge's control                                 *)

Crash ==
  /\ "crash" \in Faults /\ proc = "up"
  /\ proc' = "down"
  /\ UrlsGone
  /\ peer' = FALSE
  /\ UNCHANGED <<lockVars, server, orphans, port, profile, persistent, cache, conn,
                 flagVars, retired, callVars, startVars, speechVars, pc, req, held, result>>

\* The reader thread notices that the websocket is gone.
SocketDropped ==
  /\ IsConnected /\ ~peer
  /\ CloseConnection
  /\ UNCHANGED <<lockVars, procVars, flagVars, retired, callVars,
                 startVars, speechVars, pc, url, held, result>>

-----------------------------------------------------------------------------
Step(t) ==
  \/ Begin(t) \/ Tidy(t) \/ CloseForRecycle(t) \/ FinishRecycle(t)
  \/ Ensure(t) \/ Acquire(t) \/ Recheck(t) \/ Attempt(t)
  \/ Start(t) \/ Launch(t) \/ Relaunch(t) \/ Port(t) \/ Page(t) \/ Note(t)
  \/ Connect(t) \/ Enable(t) \/ Enabled(t) \/ Await(t) \/ Awaited(t) \/ Stamp(t)
  \/ DropCancelled(t) \/ DropFailed(t) \/ Killing(t)
  \/ Capture(t) \/ Ask(t) \/ Send(t)
  \/ Answered(t) \/ PageRejects(t) \/ SpeechFails(t) \/ RequestFails(t) \/ RequestCancelled(t)
  \/ Mark(t) \/ Retry(t)

Next ==
  \/ \E t \in Clients : Call(t) \/ Cancel(t) \/ Step(t) \/ HearAudio(t)
  \/ Terminate \/ FinishTerminate
  \/ Crash \/ SocketDropped

Spec == Init /\ [][Next]_vars

\* Every wait of a client ends: the polls have deadlines, and a finite number of
\* calls cannot keep a lock for ever.
Fairness == (\A t \in Clients : WF_vars(Step(t))) /\ WF_vars(FinishTerminate)
LiveSpec == Spec /\ Fairness

=============================================================================
