# Google TTS For NVDA: a verification project

Google TTS For NVDA is a speech synthesizer driver for the NVDA screen reader.
It speaks through the WASM engine of Chromium: a headless browser runs a page
with the engine, Python talks to the page over the DevTools websocket, and audio
comes back as events that are fed to NVDA's wave player.  Almost everything that
can go wrong goes wrong between threads: NVDA's main thread, the speech worker,
warm-up threads, the standby worker, the directory watcher, the DevTools reader.

`S` below is `src/googleTtsForNvda/synthDrivers/googleTtsForNvda`, `G` is
`src/googleTtsForNvda/globalPlugins/googleTtsForNvda`.

## 1. Inventory

| Component | Source | State | Operations | Modelled in |
| --- | --- | --- | --- | --- |
| Browser process manager | `S/bridge.py` `BrowserProcessManager` | server, process handle, DevTools port, profile and whether it is persistent | start and find the page, stop, terminate | `BridgeRuntime` |
| Bridge facade and engine | `S/bridge.py` `ChromeTtsBridge`, `WasmTtsEngineBridge` | connection lock, facade lock, engine object, runtime busy, recycle flags, memory samples | `ensure_connection`, `speak`, `preload_voice`, `maybe_recycle_runtime`, `terminate` | `BridgeRuntime` |
| DevTools channel | `S/bridge.py` `CdpClient`, `CdpDispatcher` | websocket, pending events, responses, handlers, handler errors | connect, close, request, reader loop | `CdpChannel`, `CdpExchange`; abstractly in `BridgeRuntime` |
| Standby manager | `S/standby.py` | warm bridge, signature, ready, generation, worker, watcher, synth active, shutdown | refresh, claim, release, terminate, watcher callback | `Standby`, `BridgeCustody` |
| Synthesizer driver | `S/__init__.py` | speech queue, active cancel event, shutdown, fallback, error count, warm-up thread and its cancel event | speak, cancel, terminate, speech loop, warm-up, fallback | `SpeechDriver`, `SpeechService` |
| Speech sequences | `S/__init__.py` `_iter_speech_chunks` | gathered text, pending indexes, commands in force, spelling | one per kind of item, flush | `SpeechChunks` |
| Short audio cache | `S/__init__.py` | ordered map, byte count, counters | get, put, clear, and what `_speak_text` reads and keeps | `SpeechAudio` |
| PCM shaping | `S/speech_processing.py` | held silence, carry, lead buffer | feed, flush, finish | `SpeechAudio` |
| Text segmentation | `S/speech_processing.py` | none (pure) | split for latency, indexed segments | indexed segments in `SpeechChunks`; the cuts are any cuts |
| Browser harness | `S/web/bridgeHarness.js` | session token, engine promise, audio port, queues | init, stop, preload, speak | `BridgeHarness` |
| Voice package store | `S/voice_store.py` | files, memory and persistent verification cache | check, scan, download, remove, usable packages | `VoiceStore`, `VoicePackages` |
| Voice catalog | `S/catalog.py` | none (pure) | what requires what, what the engine can speak | `VoicePackages` |
| Voice manager dialog | `G/voiceManager.py` | list, confirmation, pending removal, worker's job | open, choose, confirm, download, remove, switch, close | `VoiceManager` |
| Directory watcher | `S/watcher.py` | thread, stop request, handles | start, stop, loop | in `Standby`, without the Windows calls |
| Updater | `G/updater.py`, `G/updateGui.py` | manifest, partial file, target file, check in progress, cancel event | check, download with cancellation, install, cleanup | `Updater` |
| Languages, speech options | `S/language_*.py`, `S/audio_math.py` | none (pure) | detection, lookup, arithmetic | not modelled (section 20) |
| Global plugin, settings | `G/__init__.py`, `G/settings.py` | NVDA classes patched, wx widgets | environment of the standby manager | in part, in `Standby` |
| Build scripts, vendored code | root `*.py`, `websocketClientRepo`, `WasmTtsEngine` | - | - | not modelled |

How they interact.  The driver owns one bridge at a time: claimed from the
standby manager or created, and given back or terminated when NVDA switches
synthesizers.  Its speech worker calls `speak` and, after each request,
`maybe_recycle_runtime`; its warm-up threads call `ensure_connection` and
`preload_voice`; the main thread sets cancel events and calls `terminate`.  The
facade starts the browser through the process manager and connects the DevTools
channel; the channel's reader thread runs the callbacks that deliver audio.  The
standby manager's worker warms a bridge of its own while no synthesizer of this
add-on is active and restarts when a watched directory changes.

What is hard: three locks taken in different orders while waiting for another
process; cancellation at every wait; a connection shared by threads that do not
know of each other; a browser that crashes, hangs or finds its profile in use; a
retry that must not repeat what was heard; ownership of bridges handed between
threads under a generation counter.  `PROJECT.json` lists each hazard at its line.

## 2. Plan

Everything below is done; sections 3 to 18 take the modules in this order.

1. `BridgeRuntime`: browser, connection, engine flags and every thread that uses a
   bridge; type correctness and three safety invariants proved.
2. `Standby` with the abstract `BridgeCustody`: ownership of bridges between the
   manager, its workers and the synthesizer; the refinement proved.
3. `SpeechDriver` with the abstract `SpeechService`: queue, worker, cancel, terminate,
   warm-ups, reports, fallback; shutdown, handover and the refinement proved.
4. `SpeechChunks` and `SpeechAudio`: what the worker makes of a speech sequence, and
   of the sound of one text; both checked against references on whole sequences and texts,
   and proved for any of them.
5. `CdpChannel` with the abstract `CdpExchange`: the reader, `request`, `stop` and
   cancellation; the refinement and all its properties proved.
6. `BridgeHarness`: the page's async functions and session tokens; all its safety
   properties proved.
7. `VoicePackages`, `VoiceStore`, `VoiceManager`, `Updater`: what the add-on keeps on
   the disk; all their safety properties proved.

How the modules meet.  `SpeechDriver` sees of a bridge what `BridgeRuntime` promises
(calls return, a cancelled maker closes its connection) and of a mark callback what
`CdpExchange` promises (in order, before the answer, at most one late).
`SpeechAudio` speaks one text chunk of `SpeechChunks`: it takes for granted that the
indexes of a text are in order and inside it, which `ChunksTrue` shows.  Its engine
does what `BridgeHarness` shows a page can do to a speech: end it early after a gap
(`Whole` has that premise), end it for another call, or fail.  `VoiceManager` takes a
package to be installed or not, which is what `VoiceStore`'s `AnswersTrue` allows.

## 3. `BridgeRuntime`

One bridge, used by `Speaker` (the speech worker), `Warmers` (warm-up threads)
and `Main` (which cancels calls and terminates).  Each client thread has a
program counter; an action is the code between two points where the thread can
wait or another thread can take a lock.

| State | Code |
| --- | --- |
| `bridgeLock`, `connLock`, `pmLock` | `ChromeTtsBridge._lock`, `._connectionLock`, `BrowserProcessManager._lock` |
| `server`, `proc`, `port`, `profile`, `persistent` | the manager's server, `_chromeProcess`, `_debugPort`, `_profileRuntime`, `_profileIsPersistent` |
| `orphans` | history: live processes whose handle was overwritten |
| `cache` | runtimes with a persistent profile directory on disk |
| `conn`, `peer` | websocket: none, open, domains enabled, page ready; whether the process behind it lives |
| `busy`, `recycle`, `samples` | `runtime_busy`, `_needsRecycle` with `_recycleUrgent`, `_highMemorySampleCount` |
| `late` | history: clients that marked the current engine busy after a recycle under way had read the flag |
| `held` | whether a thread in a request holds the current engine object or a replaced one |
| `url`, `req` | the websocket address a starting thread got; the state of its request |
| `skip`, `left`, `started` | the fallback loops of `ensure_connection` and `start_and_get_websocket_url` |
| `audio`, `attempt`, `heard` | the retry of `speak`, and how many attempts of the call delivered audio |

Actions follow the code in order: `Call`, `Begin` (cancel check and recycle),
`Ensure` .. `Recheck` (fast path and connection lock), `Attempt`, `Start`,
`Launch`, `Relaunch`, `Port`, `Page` (the manager, under its lock), `Note`,
`Connect`, `Enable`/`Enabled`, `Await`/`Awaited`, `Stamp`, the exits
`DropCancelled`, `DropFailed`/`Killing`, then `Capture`, `Ask`, `Send`, the ways
a request ends, `Mark`, `Retry`, `Tidy`, `CloseForRecycle`, `FinishRecycle`,
`Terminate` and `FinishTerminate`.  A recycle takes three steps under the bridge
lock: the test (`RecycleDue`, in `Begin`, `Tidy` or `Retry`), the close, and the
rest, which waits for the manager's lock.  A thread in `speak` needs the bridge lock
only to capture the engine: its steps `Ask`, which sets `busy`, and `Send` may come
between any two of the three.  The environment is `Cancel`, `Crash` and `SocketDropped`.
`Faults` names which failures may happen in a run: `crash`, `startup` (any start
step may fail), `inUse` (the profile is locked by another browser), `request`
(timeouts, errors, missing packages), `speech` (`_BrowserSpeechError`), `memory`
(high memory samples), `terminate`.

Abstractions.  Reentrant locks are held once.  A wait and the result it
returns are one action, taken when the result is there.  Memory samples
saturate at `RUNTIME_MEMORY_RECYCLE_CONFIRMATIONS`, the only value the code
compares them with; the throttling of that check by time is a free choice.  Audio
is whether any was delivered, a fault is one of the ways the code distinguishes.

### Properties (`BridgeRuntimeProps`)

* `ReadyUnlessStarting`: an open websocket to a page that is not ready exists
  only while the holder of the connection lock is starting it.
* `NoOrphanBrowser`: no live browser process without a handle.
* `OneAttemptHeard`: a call of `speak` delivers audio in at most one attempt.
* `BrowserKnown`: a start that is cut short leaves no browser unaccounted for.  With
  the manager's lock free, a live browser has its port known, so the next start
  reuses it; when terminate has returned and no call is left, none is running.
* `RecycleSparesBusySpeech`: a recycle by one thread cuts the speech of another on
  the engine object the bridge still has only if that speech was marked busy after
  the recycle had read `runtime_busy` (`late`); a speech that was under way at the
  test is spared.  More is not true: the flag is read at `bridge.py:2040` and the
  connection closed at 2046, while `speak` sets the flag (1846) and sends (1848)
  without the bridge lock, so a speech that begins in between is cut and ends in an
  error.  And no browser that runs is stopped, for a recycle, a failed start or at the
  end, while the connection still carries a request: the close always comes first.
* `CallsReturn`: every call and every terminate returns.
* `SpeechCallerConnects`, `CancellationSparesBrowser`: what the tests say of
  cancellation; the code does otherwise (section 19).

### Runs

| Run | Bounds | What it shows |
| --- | --- | --- |
| `bridge_safety` | 1 warm-up thread, 2 browsers, 1 call per thread, all faults but memory | the invariants |
| `bridge_live` | 1 browser, 2 calls per thread, memory, startup, request and terminate faults, `LiveSpec` | `RecycleSparesBusySpeech`, `CallsReturn` |
| `bridge_warmup_cancelled`, `bridge_cancel_kills` | no faults | the two divergences |

Two client threads and the main thread are enough for each pair of the code's
roles to meet, two browsers for one fallback in each of the two fallback loops,
two calls for a flag set by one call to be seen by the next.  `CHECK_DEADLOCK`
is off: calls are bounded by `MaxCalls`, and a bridge nobody calls rests.

Fairness: every step of a client is weakly fair, because each wait of the code
has a deadline or a poll interval, and so is the end of `terminate`.  New calls,
cancellations and failures of the browser are not fair.

## 4. Proofs (`BridgeRuntimeProofs`)

For any finite or infinite set of warm-up threads, any number of browsers and
calls, and any set of faults, from the named assumptions of `BridgeRuntime`
(threads are distinct, bounds are natural numbers, faults are known ones):

* `TypeCorrect`: `Spec => []TypeOK`.
* `ReadyOutsideStartup`: `Spec => []ReadyUnlessStarting`.
* `NoBrowserOrphaned`: `Spec => []NoOrphanBrowser`.
* `NoCallHeardTwice`: `Spec => []OneAttemptHeard`.
* `NoBrowserUnknown`: `Spec => []BrowserKnown`.
* `RecycleSparesSpeech`: `Spec => RecycleSparesBusySpeech`.

The argument is a ladder of invariants, each inductive relative to those before
it.  `LocksOwned` ties each lock to the program counters that hold it, so at
most one thread is inside the manager and at most one in a startup.
`StageOwned` then says how far the page is prepared at each label of the
connection lock's holder, which gives `ReadyUnlessStarting`.  `HandleKept` says
which labels can see a live process with or without its port; `Popen` is
reached only at labels where the handle refers to no live process, which gives
`NoOrphanBrowser`.  `HeardOnce` counts the attempts that delivered audio against
`attempt` and `audio`, which gives `OneAttemptHeard`.  `Retired` follows a bridge that
was terminated: the connection stays closed, no process is left, no thread holds an
address it could connect to, and a call that is not back was cancelled or only tidies up
(`AfterTerminate`), which never leads it to a start (`TidyAlone`).  With `HandleKept` it
gives `BrowserKnown`.  `BusyWhileSpeaking` says that `busy` is set
from before a speech request is sent on the engine object the bridge still has until its
answer is taken; so where a recycle has found it clear, none was under way, and
`LateWhileDeciding` says that until the close every such speech is in `late`.
`LinkClosed` says that a thread that is about to start or to stop a browser has found or
left no connection, and keeps a lock without which none is opened; with `HandleKept` that
is the second half of `RecycleSparesBusySpeech`.  None of these target properties is
inductive alone.

Liveness (`CallsReturn`) is model-checked only.

## 5. `Standby` and `BridgeCustody`

`BridgeCustody` is what the manager promises: each bridge has one custodian
(`standby`, `synth`, or `doomed` when somebody is about to terminate it), at most
one is kept warm and at most one speaks, and a bridge that is `gone` stays so.

`Standby` is `_StandbyRuntimeManager` with its threads and its callers.  An
action is one section of the manager's lock, or the code between two of them.

| State | Code |
| --- | --- |
| `bridge`, `signature`, `ready`, `generation`, `worker`, `watcher`, `synthActive`, `shutdown` | the manager's fields |
| `current`, `cancelled` | `_cancelEvent` and the events of earlier workers |
| `drop` | the local `bridgeToTerminate` (or `previousBridge`) of each thread |
| `at`, `workGen`, `restart`, `loaded`, `using`, `workSig` | `_run_refresh`: where it is, its arguments, `catalog`, `bridgeForWorker`, `signature` |
| `watch`, `call`, `watchGen` | each `DirectoryChangeWatcher`: its thread, the callback, the generation in its closure |
| `synth`, `synthPack`, `op` | the driver's bridge and catalog, and the call the main thread makes next |
| `keep`, `pack`, `setting` | the configuration, the installed packages, browser setting and engine files |
| `life`, `made` | each bridge: whether a browser may run for it, and what it was started with |

Main thread: `Initialize`, `Shutdown` (the plugin), `SaveSettings`, `SaveBrowser`,
`ChangePackages` (panels), `LoadDriver`, `Claim`, `Release`, `Discard`,
`ReleaseWithoutBridge` (the driver), `Note` and `Refresh` (the calls that follow).
Worker: `Early`, `Load`, `NoCatalog`, `Pick`, `Warm`, `Publish`, `Failed`, `Finish`,
`End`.  Watcher: `Watching`, `Check`, `Notify`.  Anyone: `Terminate`.
`FilesChange` is the environment.

Abstractions.  A catalog is a member of `Packages`, or `None` when no package is
usable; a signature is the pair of packages and setting, so the fingerprints are
taken to tell all versions apart.  A warm-up is one step that ends well, fails or
is cancelled; how it goes about it is `BridgeRuntime`.  Workers, watchers and
bridges are used once; running out of them ends a behaviour.

### Properties (`StandbyProps`)

* `HandedOver`: `Standby` implements `BridgeCustody` under the mapping
  `Custodian`; a running bridge nobody refers to would be `lost`, which is no
  custodian.
* `OneOwner`: a running bridge is the kept one, the synthesizer's, or about to be
  terminated by exactly one thread, and whatever is owned runs.
* `NoSharedWarmup`: a replacement worker never warms the bridge its predecessor is
  still unwinding a request on (the comment at `standby.py:527`).
* `ClaimedIsIdle`: a synthesizer never gets a bridge that a worker is still
  warming.  Checked without file changes: a worker that found the bridge outdated
  and then sees the files change back takes a warm bridge, which may then be
  claimed under it.
* `NothingKeptUnwanted`: no bridge and no watcher while a synthesizer of the
  add-on is active, after the plugin's end, or once the setting is off.
* `KeptCurrent`: a kept bridge is watched over, or a worker is on its way (`Tended`);
  and at rest a warm bridge has the signature of the present packages and settings,
  when only the program changes them (`SettledIsCurrent`).
* `SupersededIsHarmless`: a worker of a past generation changes nothing.
* `WarmsUp`: a wanted refresh ends with a warm bridge, unless a connection fails or
  files change unwatched (TLC shows that a package installed between a worker's
  look at the files and the start of its watcher is missed).
* `StaleIsDiscarded`: the docstring's promise on engine files; see section 19.

### Runs

| Run | Bounds | What it shows |
| --- | --- | --- |
| `standby_handover` | 5 operations, 1 setting, failing connections and catalogs | `TypeOK`, `ClaimedIsIdle`, `OneOwner`, `NothingKeptUnwanted` |
| `standby_files` | 3 operations, 1 file change, 2 package sets, 2 settings, failing connections, `LiveSpec` | `HandedOver`, `NoSharedWarmup`, `KeptCurrent`, `SupersededIsHarmless`, `WarmsUp` |
| `standby_stale` | 4 operations, 1 file change | the divergence |

All with 3 workers, 3 watchers and 4 bridges: one worker that runs, one that
replaces it and one that replaces both; a bridge kept, one spoken on, one being
terminated and one to come.  Four operations are an initialization, a warm-up, a
claim and a release, five let the released bridge meet another change.  Threads and bridges of
a kind are interchangeable, so `TakenInOrder` has TLC use them in a fixed order
(an action constraint: unlike symmetry it is sound for `WarmsUp` too).
`CHECK_DEADLOCK` is off because operations are bounded and a manager nobody calls
rests.  `KeptCurrent` and `WarmsUp` are checked without unreadable catalogs: an
exception while a warm bridge is kept leaves that bridge unwatched.

Fairness (`LiveSpec`): threads run on and calls that have begun are finished; each
wait of the code has a time limit.  New operations and file changes are not fair.

## 6. Proofs (`StandbyProofs`)

For any sets of workers, watchers, bridges, packages and settings, any bounds and
faults, from `ActorsDistinct` and `BoundsAreNatural`:

* `TypeCorrect`, `EveryBridgeOwned` (`OneOwner`), `NothingWarmUnwanted`
  (`NothingKeptUnwanted`), `SupersededDoesNothing` (`SupersededIsHarmless`);
* `KeepsCustody`: `Spec => HandedOver`, the refinement;
* `WarmsAlone` (`NoSharedWarmup`) and `ClaimsIdle` (`ClaimedIsIdle`), in every state
  reached before the first change of files behind the program's back (`changes = 0`);
* `KeptStaysCurrent` (`KeptCurrent`), where catalogs load (`"catalog"` is no fault), however
  often files change.

The inductive invariant is `Known`.  `Numbered` says that no two workers have the
same generation and that a worker nobody cancelled is the current one: every
operation that starts a generation cancels.  `Owners` adds to `OneOwner` what it
needs to be inductive: a worker that was not cancelled warms the bridge that is
kept (`WarmsKept`), so that warming, which would start a browser even for a
terminated bridge, never does; and a thread that gives up a bridge has terminated
the one before (`DropsOne`), so that none is overwritten.  `Rested` strengthens
`NothingKeptUnwanted` by the absence of live workers of the present generation.
The refinement is split: `StepHandsOver` gives for each action what may happen to
a bridge, `CustodyStep` turns that and `OneOwner` before and after into a step of
`BridgeCustody`.

The last three rest on a second ladder.  `Orderly` adds to `Known` and `Rested` where a
worker of the present generation is while a bridge is kept (`Manned`) and what it has been
given (`Furnished`).  `Apart` says that without file changes what the worker of the present
generation has read is still so (`Still`, `Informed`), so that it takes a bridge it finds
for current only if that was finished, and that a kept bridge under a warm-up is not ready
and is its own worker's (`WarmsOne`).  `Watched` says that a kept bridge is always followed by a worker that
will finish, replace or drop it, or by a watcher (`KeptIsStarted`, `FinishWatched`,
`FailsOnKept`, `Replaced`).

The hypotheses are the code's.  Files that change and change back make one signature
stand for two states of the disk: a worker that found the bridge outdated then meets it
as current, and takes it from under the one that is still warming it.  With one change,
`NoSharedWarmup` is checked by `standby_files`.  An exception of the catalog while a warm
bridge is kept leaves that bridge unwatched (hazard at `standby.py:635`).  `WarmsUp` is
liveness and stays with TLC.

## 7. `SpeechDriver` and `SpeechService`

`SpeechService` is what NVDA may rely on: requests are served one at a time in the
order of the calls; the indexes of a request are reported in order, each once; its
end is reported once, after all of them or after a failure; a cancel withdraws
everything.  One report of an index that was under way may still follow the end of
a failed request or the withdrawal, because the code checks the cancel event and
reports afterwards; a second one may not.

`SpeechDriver` is `SynthDriver`: the main thread (`speak`, `cancel`, `_set_voice`,
`terminate`, `_trigger_fatal_fallback`), the speech worker (`_speech_loop`,
`_speak_worker`, `_speak_text`), the warm-up threads (`warm` in
`_warm_current_voice_async`, which both start) and the mark callback of the
channel's reader thread.

| State | Code |
| --- | --- |
| `queue`, `active`, `shutdown`, `fallback`, `errors` | `_speechQueue`, `_activeCancelEvent`, `_shutdownEvent`, `_fallbackTriggered`, `_consecutiveRuntimeErrors` |
| `cancelled` | the requests and warm-ups whose cancel event is set |
| `warmEvent`, `warmThread`, `fresh` | `_warmupCancelEvent`, `_warmupThread`, and the event each caller of `_warm_current_voice_async` has made |
| `item`, `inner`, `calling`, `idle` | the chunk the worker is at, `pendingIndexes`, a callback between its check and its report, `queueIdle` |
| `posted` | fallbacks that wait in `wx.CallAfter` |
| `up`, `preparing`, `fate` | the bridge: connected, the thread inside its connection lock, and what terminate did with it |
| `told`, `done`, `failed`, `late` | history of the reports |

A request is a sequence of chunks (`Script`): a text, a text with an index inside
(`marked`), or an index; breaks and pauses are silence and left out.  A text is
either cached or goes to the bridge.  The bridge is what `BridgeRuntime` shows from
outside: a call that is not cancelled may start the browser, an open connection is
taken by others while its maker still prepares the page, and the maker closes it
when it fails or is cancelled.  A failure before or during the call is `Raise`.
`wx.CallAfter` itself does not fail.  `Faults` are `request` (anything in a request
or a connection may raise), `runtime` (no browser is installed), `recycle` and
`worker` (a thread cannot be started, which leaves `_speak_worker` by an exception).

### Properties (`SpeechDriverProps`)

* `Promises`: `SpeechDriver` implements `SpeechService`.
* `EndsOrderly`: after shutdown nothing is queued and what the worker still has is
  cancelled (`ShutdownCancels`; `BridgeRuntime` assumes as much of its callers:
  `terminate` of the bridge comes when every call of the speech worker is
  cancelled), and a bridge that standby has taken over is not used by the speech
  worker, not even for the recycle after a request (`KeptIsQuiet`).
* `Served`: a request ends with a report, a cancel or the fatal fallback, and after
  shutdown the speech worker ends.
* `NoBrowserLeft`: no browser outlives terminate and the threads.  It holds as
  long as no recycle by the worker coincides with terminate (section 19).

### Runs

| Run | Bounds | What it shows |
| --- | --- | --- |
| `driver_service` | 2 requests, of a text and an index, the first text marked, the second asked for once the warm-up has ended; or 1 request with the warm-up and the second one that a recycle starts; every fault; with the parts of sections 9 and 10 | `TypeOK`, `EndsOrderly`, `Promises` |
| `driver_live` | 1 request of a marked text and an index, 1 change of voice, 2 warm-ups; failing speech and connections, no browser, a worker that raises; `RecycleWarmsNothing`: the warm-up after a recycle cannot start, and no change of voice comes beside it; `LiveSpec` | `NoBrowserLeft`, `Served` |
| `driver_leak` | 1 request, 2 warm-ups, recycles | the divergence |

Two requests let one wait while the other is served, be cancelled with it, and fail
twice in a row, which is `MaxErrors` in the code; two warm-ups are the
constructor's and that of a recycle or a change of voice.  `FewAtOnce` keeps the
second request of `driver_service` out of a warm-up's way, for size; the proofs of
section 8 have no such bound.  `RecycleWarmsNothing` keeps what
`driver_leak` shows out of `driver_live`: a warm-up that follows a recycle may outlive
terminate, and a change of voice at the same time, which swaps the cancel event under
it (hazard at line 2167), lets its own do so.  `CHECK_DEADLOCK` is off: requests are
bounded and a terminated driver rests.

Fairness: the worker and the warm-ups run on, since calls of the bridge return
(`CallsReturn`) and waits for the player end; the main thread finishes what it has
begun.  What NVDA asks for, and when wx runs a posted fallback, is not fair.

## 8. Proofs (`SpeechDriverProofs`)

For any number of requests, voices and errors, any set of warm-up threads, any
chunks (`Script`) and any set of faults, from the named assumptions of
`SpeechDriver` (threads, requests and `None` are distinct, bounds are natural
numbers, chunks and faults are known ones):

* `TypeCorrect`, and `DriverEndsOrderly` (`EndsOrderly`) from its halves
  `ShutdownLeavesNothing` and `KeptBridgeIsQuiet`;
* `NothingLeftRunning` (`NoBrowserLeft`), where the worker recycles nothing, whatever else
  fails and however many changes of voice and warm-ups there are;
* `SpeechRevivesNothing` (`OnlyWarmupsRevive`), with recycles too: once terminate has ended
  the bridge only a warm-up can start a browser on it, never the speech worker;
* `KeepsPromises`: `Spec => Promises`, the refinement.

Neither shutdown property is inductive: `Phases` adds that between the cancel of
terminate (`stopping`) and the shutdown nothing is queued, so that the worker has
nothing to take, and that the main thread sees "no active request" only after the
shutdown, when none can become active.

The refinement maps `waiting` to `queue`, `current` to `active` and `withdrawn` to
the cancelled requests.  A report in the model is a bare notification, and the
specification allows it only while an index is missing, so the invariant `Inv`
has to count.  `Before(r, i)` is the number of indexes of a request before its
chunk `i`; the lemmas `BeforeStart`, `BeforeStep`, `BeforeEnd` and `BeforeMark`
say how it grows from 0 to `Marks[r]`.  `InOrder` ties `told` to it at every place
of the worker while the request is not cancelled; `Owes` says that a callback past
its check owes an index and that none was reported late before it; `Ordered` says
that what waits is distinct, asked for, not cancelled and untouched; `EndAhead`
that the end of the active request is not reported before its place.  `SameOrder`,
`SamePlace` and `FinishingStep` dispose of the steps that leave requests alone, so
that only the actions that report, take, cancel or end a request need an argument
of their own.

`NoBrowserLeft` rests on `Recalled`: every warm-up that still runs was cancelled or
carries the driver's present event, and terminate sets that event before it ends the
bridge, so that what is still under way then cannot start the browser again.  The recycle
breaks this at the one place `driver_leak` shows (section 19), where the worker holds an
event that the driver does not have yet; `OnlyWarmupsRevive` says that this is all that
can happen.  `Served` is liveness under fairness and stays with TLC.

## 9. `SpeechChunks`

`_iter_speech_chunks` turns a speech sequence of NVDA, texts among commands, into what
the speech worker serves: groups of hidden segments with indexes inside them, breaks,
indexes of their own, and the sign that an utterance ends with a pause.  NVDA moves its
cursor and feeds say-all by the indexes, so each must be told where it stood, though its
place is counted while texts are gathered and then moved by trimming, by the cuts into
segments and groups, and by the spaces put between words and segments.

| State | Code |
| --- | --- |
| `utterance`, `settings` | `speechSequence`; `pauseMode` and whether language detection is enabled |
| `place` | the `for` loop of line 931 |
| `parts`, `counted`, `noted`, `afterIndex` | `textParts`, `textCharCount`, `pendingIndexes`, `sawIndexSinceLastText` |
| `spelling`, `inForce` | `_inCharMode`; the prosody and language commands in force |
| `chunks`, `over` | what the worker has taken, and how the generator has ended |

One action per kind of item (`AppendText`, which stands for phonemes too, `Index`,
`CharacterMode`, `BreakCommand`, `ProsodyCommand`, `LangChange`), `End`, and
`CancelBetween`; `FlushText` with `Grouped` and `Group` is `flush_text` with
`flush_grouped_segments`, and a cancel inside it leaves the worker with the first
chunks.  A character is of a script with spaces between words, of one without, a
full stop, a comma or a space.  Where a text is cut (`Cuts`) is any cut before the last
character: what `iter_text_segments_for_latency` does with it depends on lengths and
Unicode properties that nothing after it looks at.  How long a break is, and which voice
and profile a language has, are left out.

`ChunksTrue`, the property, has the sequence as a whole for its reference.  What is
said is three sequences: the letters, each with the commands it is spoken under; for each letter
whether it follows the one before without a space (`glued`); and the stops, indexes and
breaks, each with the number of letters before it.  `Said` reads them off the chunks,
`Meant` off the sequence, and `Said` is `Meant`: every letter, index and break once, in
order, each letter under the commands before it, each index after exactly as many letters
as in the sequence; as far as the request was cancelled, a beginning of it.  When letters
are spelled an index may come earlier, never later: the spaces that spelling puts between texts
are not counted.  Words with an index between them are not run together, and the marks of
a group are in order and inside its text.

The items are texts that are not empty, and commands (`UtterancesAreSequences`).  The empty
text is left out because the property does not hold with it: an empty text after an index
forgets the space that is due (`append_normalized_text` clears `sawIndexSinceLastText`
first), and two words that an index parts are run together; no test or comment speaks of
it.  Another oddity lies outside the property: a `CharacterModeCommand(False)` before the
flush joins the letters again.

Run `driver_service`, part `chunks`: every sequence of two different texts and two
commands, with all pauses shortened and languages followed, or the last pause shortened
and languages ignored, under every cut.  Two texts with two commands let an index stand
before, between and behind texts and meet each kind of command and another index; the longest text has two sentences, so
that groups, sentence breaks and indexes in a second group occur.  Every sequence of four items
of a larger alphabet, with languages followed, was checked too and is only slower.

### Proofs (`SpeechChunksProofs`)

`ChunksAreTrue`: `ChunksSpec => []ChunksTrue`, for any sequences of any length, any settings and
any threshold of a group, and for every cut of a text into segments.

Every step of the code from the text to the chunks moves the same three sequences about, so they
are put together by one operator: `Then(x, y)` says x and then y, moving the stops of y
behind the letters of x.  It is associative, `Silence` is its unit, and `Together` is its
fold.  Each function of the code then has a lemma that says what it does to what is said:

* `Woven` of two texts one after the other is `Then` of both, when the marks of the first are
  inside it; spaces around a text, and marks moved by them, change nothing (trimming,
  `Within`); a space between two words only takes away glue.
* `Segments` and `Taker`: the pieces of a text lie in order with only spaces between, and an
  index goes to the piece it is in, or to the end of the one before it (`Pieces`).
* `SpokenSegments`, `Offset`, `Group`, `Grouped`: a group says what its pieces say, and the groups,
  wherever they end, what all pieces say; breaks between sentences say nothing.
* `Joined`: with spaces between spelled letters the same letters are said, and indexes
  never later.

`Says(x, y, spells)` is equality of what is said, up to that.  The invariant, `ChunksInv`:
the chunks, and then the text that waits, say what the items so far mean (`Ongoing`); at
the end the chunks say what all items mean (`Finished`); after a cancel there is something
that, said after the chunks, makes it whole (`Abandoned`).  `ChunksTrue` is not inductive:
it does not mention the text that waits.  `Ongoing` also has the bookkeeping of the glue: when a text
waits, `afterIndex` is not set and its last letter is of a script with spaces, then
no index parts what comes next from it.  `ChunksInv` without its types was checked with
TLC on the instance of `driver_service`, with `Reaches` for `Abandoned`, before it was
proved.

The functions on sequences (`FlattenSeq`, `SubSeq`, the sorted ends of a cut) are of any
length, so the facts about them are proved by induction in `SequenceFacts`, which
`SpeechAudioProofs` uses too.  The library's induction theorems take an operator and cannot
be used; `InductionOnSet` proves induction over a set instead (the numbers that a set with
0 and all successors misses up to the first would be mapped one to one to fewer, which
`FS_PigeonHole` excludes), and `Recursion` that a function exists that begins with a value
and goes on as a step says.

## 10. `SpeechAudio`

`_speak_text` plays a text from the cache of short audio, from cached segments and from
the engine, shortens its pauses while it streams, tells the indexes as the audio reaches
them and keeps what it has heard, for the text and for each segment.  What is kept wrongly
is repeated wrongly each time the text is spoken again.

| State | Code |
| --- | --- |
| `cache`, `tally` | `_shortAudioCache`, oldest first, and `_shortAudioCacheBytes` |
| `halted`, `paused` | the request's cancel event, `_isPaused` |
| `step`, `group`, `call` | the place in `_speak_text`, its text, and its locals with the shortener, the lead buffer and the engine's progress |
| `curtailed` | history: keys of entries that a stalled speech has left |

A sample is 0 or tells voice and segment; the engine (external) gives the samples of a
segment in packets, carries the end of a segment into the next one when there is a tempo,
and sends marks and segment ends.  `Process`, `Shaped` and `Flushed` are
`PcmSilenceShortener` block by block, `LeadFeed` is `PcmLeadBuffer`, `Put`, `Entries` and
`Used` the cache with replacement, eviction and clearing.  `AudioFaults` are what a speech
may meet: `stall` (no sound for 80 ms in the last segment, which the page takes for the
end: the answer is complete and the sound is not), `cut` (another call of the page ended
the session: the answer lacks `done`) and `error`.  A retry inside the bridge happens only
before any audio and cannot be seen here.

* `CacheTrue`: no key twice, the byte count is that of the entries, within its bounds, and
  an entry is the sound of its key, where `Sound` and `Shortened` say of a whole text what
  the streaming code has to give.  Excepted are the keys in `curtailed`.
* `HeardRight`: what was played is the beginning of the text's sound, and the whole of it
  when it was spoken to the end (unless it stalled), whatever part came from the cache; the
  indexes told are the first of the text's, in order, each once, and all of them at its end.

Without a tempo the hold at boundaries is released before a segment's end, so the sound of
a segment does not depend on its neighbours, which is why segments may have keys of their
own; with one they have none.  `hasPrevious` in a segment's key is not needed for this,
`hasNext` is: it tells whose last pause is shortened.

Run `driver_service`, part `audio`: two of six texts that share segments in different
places, with and without a tempo, in the three pause modes; three entries or twelve samples in the
cache, so that both bounds evict; blocks of two samples, packets of up to two, a lead of
five.  Two texts are one that fills the cache and one that finds it.  `MCDriverAudio` puts
the three parts of the driver side by side in one specification: they share no variable,
`part` says which one moves.  `CHECK_DEADLOCK` is off since texts and requests are
bounded.

### Proofs (`SpeechAudioProofs`)

`CacheAnswersTrue` (`CacheTrue`) and `PlaysRight` (`HeardRight`) hold for any texts of any
length, any sounds of their segments, all sizes and bounds, any number of texts, and for
any set of faults, from what the module assumes: shapes are sequences of silent and audible
samples, the indexes of a text are in order and inside it, sizes are natural numbers, and
a block and a segment are not empty.

Sound is what recursive functions compute, so the first part is induction over a length,
with `InductionOnSet` and `Recursion` of `SequenceFacts` (section 9).  From these come
what `Size`, `Process`, `Shortened` and `SoundUpTo` compute (`SizeIs`, `ProcessIs`,
`ShortenedIs`, `SoundRunIs`).

* Shaping.  `ProcessJoined`: a run goes on where another has ended, so it does not matter
  how packets and blocks divide the samples.  `AllPauses` and `EndPauses` compare what is
  given and held after n samples with what the reference leaves of them, in each mode;
  `ShapedIs` and `FlushIs` are the result for a packet and for the end of a segment or text.
* Keys.  `TextKeyTells` and `SegmentKeyTells`: texts, and segments, with one key sound
  alike; the second needs that a segment with a key is of a text without a tempo and that
  `after` is in the key.
* Cache.  `CacheRight` is inductive for any step that uses, stores or clears: `UsedIs` and
  `StoredIs` say what moving, replacing and dropping the oldest do to the entries and their
  count.  `EntryOf` ties an entry to a text or a segment of one, also where a stalled speech
  has left it (a beginning, and of a last segment only).
* Speech.  `Stage` says what the call is at each place of `_speak_text`: `Looking`,
  `Playing`, `Found`, `Starting`, `Speaking`, `SpokenOut`.  `Speaking` is the heart: what was
  played and waits in the lead buffer is the sound of the segments before, and what the
  first k samples of this segment give; the shaper holds what those leave and the rest of
  the samples that have come.  Once the request is cancelled nothing is said of the notes,
  since nothing is kept then.

The invariant `AudioInv` (`Typed`, `CacheRight`, `Speech`) was checked with TLC on the
instance of `driver_service` before it was proved.

## 11. `CdpChannel` and `CdpExchange`

`CdpExchange` is what a caller of `CdpClient.request` may rely on: events for the
request are delivered one by one in the order they were sent, a request that returns
an answer returns its own and after all events before it, and of a request that
ended otherwise at most one event is still delivered.  These are what `SpeechDriver`
assumes of its mark callbacks: they come before the response of a speech call, and
at most one comes after a cancelled or failed one.

| State | Code |
| --- | --- |
| `conn`, `owner` | `_ws` with `_dispatcher`, and where `connect` or `close` is under `_lock` |
| `stopped`, `pending`, `handlers`, `responses`, `errors` | the dispatcher's `_stopped`, `_pendingEvents`, `_eventHandlers`, `_responses`, `_handlerErrors` |
| `reader`, `message` | the reader thread's place in `_reader_loop`, and its message |
| `place`, `on`, `verdict`, `woken`, `cancelled` | a call of `request`: its place, the dispatcher it captured, how it ends, its event, its cancel event |
| `socket`, `wire`, `sent`, `emitted`, `answered` | the socket and the page behind it |
| `heard`, `after` | history: events handled, and those of them after the end |

An action is a section of `_stateLock` or `_lock`, or the code between two of them.
The reader looks at `_stopped` and then waits in `recv` (`Poll`, `Receive`), so a
stop may still be followed by one message.  `Handle` runs without a lock: a request
may end under it.  `stop` is two actions (`Stop`, `WakeAll`) since it sets the flag
first.  Abstractions: every handler gets every message in the code, and only the
request's own acts on it; a message that is no JSON is skipped; an answer with an
error in it is an answer; a send that succeeds on a broken socket is lost; messages
behind a closed socket or an ended reader are dropped.  `Cancellable` are the
requests made with a cancel event.  `Faults` are `timeout` (a deadline passes),
`send`, `network` (the peer is gone) and `handler` (an event handler raises).

### Properties (`CdpChannelProps`)

* `Correlated`: `CdpChannel` implements `CdpExchange`.
* `NothingLeft`: only requests in progress are in the tables of a dispatcher, so a
  late answer is neither kept nor taken by another request.  `_handlerErrors` is
  excepted: when a handler raises after its request has gone, its error stays until
  the dispatcher is stopped.
* `LastCallWakes`: when a reader ends, every request registered with it has been
  woken.  A request that registers only after that is not promised anything but
  its deadline.

### Run

`page`, part `channel` (`MCPage`): one request with two events that may be cancelled (as speech), one without
(as the other commands), two connections, every fault.  Two events are what it takes
for a second late one to show; two requests what it takes for an answer to go to the
wrong one.  All that befalls a connection befalls the first one (`SecondLasts`, an
action constraint): connections share no state, and the second one shows that a late
request of the first does not touch it.  `CHECK_DEADLOCK` is off, since requests and
connections are bounded.

## 12. Proofs (`PageProofs`, the channel)

For any requests, connections, events and faults, from `BoundsAreNatural` and
`CancellableAreRequests`:

* `TypeCorrect` (`TypeOK`), `TablesAreClean` (`NothingLeft`), `LastCallIsHeard`
  (`LastCallWakes`);
* `KeepsExchange`: `Spec => Correlated`, the refinement.

The refinement needs to know what is still on the wire.  `Queued(q, r, g, e, a)` says
that the wire `q` holds the events of `r` numbered `g + 1` to `e` in this order and at
most its answer behind them; seven lemmas say what appending and taking a message does to
it.  The invariant part `Ordered` has it for every request with a handler, on every
connection that is still read; that a request joins and leaves `pending` and `handlers`
together (`Tables`) is what makes an answer that is accepted come after all events
were handled (`Complete`).  `Due` says that the event being handled is the next one,
`Routed` that messages stay on the connection of their request, `Late` that a
request that ended with its answer, or has heard one event after its end, is not
being handled.  `LastCallWakes` rests on `Waking`: a request in progress is pending or
has been woken.

## 13. `BridgeHarness`

The page runs `googleTtsForNvdaSpeak`, `-Preload` and `-Stop` as async functions on one
thread.  They share the session, its token, the audio port and the engine, and Python
calls them from the speech worker and from warm-up threads: whatever a call has read before
an `await` may be another call's after it.

| State | Code |
| --- | --- |
| `page` | the token's and the session's owner, `suppressBridgeAudio`, stopped, `sawSynthesisEnd`, `lastChunkAt`, `synthesisErrorMessage`, queued audio, the port's token |
| `engine` | external: its voice and the text it is at |
| `prepared`, `ready` | initialized engine with the language, `readyVoices` |
| `at`, `segment` | where each call awaits, and the segment of a speech |
| `told` | what was emitted for each session |
| `crossed`, `silenced` | history: calls that overlapped with others; sessions that were stopped or taken over |

An action is what runs until nothing is left but to wait for the engine or a timer: an
await of a settled promise lets no other task in.  Initialization and the installation of
a language are one wait.  Pitch, tempo, the hold at boundaries and packets are one queue
that passes some of its chunks on (`Passed`, `Held`).  `PageFaults` are `voice` (it cannot
be loaded), `stall` (80 ms without audio) and `timeout`.

* `OwnAudio`: a session is told its own text, in order, no chunk twice, without a gap.
* `Whole`: a speech that nothing crossed and that did not stall has been told all its text
  and `done` when it returns, whatever earlier calls have left behind.
* `Silence`: a session that was stopped or taken over is told nothing more.
* `Settles`: a speech ends without the 120 s timeout, however it is stopped or superseded.

Their exceptions are what the page does not promise, as the model shows: the tail of a
stale speech stops a newer session, which then returns success without its audio; a
preload during a speech takes the session over without a stop, and the speech waits for
its timeout; a preload that is still loading its voice when a speech begins may have its
silent chunks emitted in that session and its end taken for a segment's; a cancelled
preload's stop stops whatever speaks; an error is emitted under whatever session is
current; a stop while a speech is still preparing is lost; a gap of 80 ms in the last
segment ends a speech early; a text without audio waits for the timeout.  Stops that
`send_fast_stop` drops within 20 ms are simply not made.

Run `page`, part `page`: two speeches, of two segments and of two chunks, a preload of
the second one's voice, a stop, every fault.  Two speeches are a stale and a current one,
one preload can cross either.  Fairness: the engine and the timers go on; the timeout,
stops and Python's calls are not fair.

### Proofs (`PageProofs`, the page)

For any speeches and preloads, any numbers of segments and chunks, any languages, stops
and faults, from the named assumptions of `BridgeHarness`: `PageTyped` (`PageTypeOK`),
`HearsItsOwn` (`OwnAudio`), `TellsAll` (`Whole`) and `StaysSilent` (`Silence`).

The inductive invariant is `PageInv`, five conjuncts.  `PageTypeOK` has the tokens: there
is none after a stop, and otherwise it is the session's.  `Crossings` says that calls
that run together have crossed and that a speech nothing crossed has the token, `Floor`
whose the session, the token and the port can be, `Texts` whose text the engine can be at
while a speech has the token.  `Streams` takes the chunks a session has been told followed by
those still queued for it as one stream (`told \o kept`): its own, in order, pure unless
crossed, without a gap unless a preload crossed it, and reaching exactly as far as the
engine has come.  A bare `OwnAudio` is not inductive, as a queued chunk can be
heard long after the text it belongs to has left the engine.

An action of the page makes several calls of its helpers, so the steps are sorted first by
what they do to token, engine, queue and speech (`Halts`, `Begins`, `Awaits`, `Loads`,
`Reports`, `Turns`, `Finishes`, ...): lemmas show each action to be of one of these kinds,
and the invariant is carried over each kind once.  `Settles` is liveness and stays with
TLC.

The channel and the page have one proof module because run `page` checks them in one
specification: `EachEndItsOwn` shows that a behaviour of `BothSpec` is one of either (a
step of one end is a stutter of the other), so that `BothAreTyped` (`BothTypeOK`) and
`BothAreSafe` carry the theorems of both over to what the run checks.

## 14. `VoicePackages` and `VoiceStore`

`VoicePackages` has the catalog: each package may depend on another (`Base`), no package
on itself through others (`NoCycles`), some are not spoken by the engine.  `Chain` is what
a package requires, `Usable` is `usable_installed_packages`.

`VoiceStore` answers whether a package is installed: the file has the catalog's size and
checksum.  Hashing is slow, so two caches keep the modification time of what was verified,
one of them in `verified_voices.json`.  Threads check one package (`is_package_installed`)
or scan all (`physically_installed_packages`), the voice manager's worker replaces and
deletes, the user may do the same by hand, and NVDA may end between any two steps.

A check changes the caches in memory and saves at once.  A scan (`Scan`) first reads the
stamps of all files (`List`), then decides package by package (`Turn`, and the steps of a
check) and saves once, behind its loop.  Where `sha256` raises, because the file has gone
since or is locked (`Open`), the check or the whole scan ends there, and a scan leaves
what it had changed in memory unsaved: lines 308 and 309 are in no `finally`.

| State | Code |
| --- | --- |
| `file`, `clock` | each package's file: its content (none, good, bad, of another size) and its stamp |
| `verified`, `trusted`, `saved` | `_verifiedPackageCache`, `_persistentVerifiedPackageCache`, its file |
| `owes` | the packages a thread has changed in memory and has to save: a scan's `verificationCacheUpdated` |
| `step`, `doing`, `at` | where a thread is, in which call, and with which package |
| `rest`, `seen` | the packages a scan has still to list or to decide; the stamps a thread has read |
| `fit` | history: of each thread, the packages whose file has been good since it read their stamp |
| `unsaved` | history: the packages whose last change in memory is known to be lost |

* `CacheSound`: no cache takes a file for verified that is not good, across restarts; and
  the cache's file holds what memory holds of a package, unless a thread is about to save
  it or the last change was lost.  It is lost where the file could not be written or read,
  and where a scan ended before its save; then only for packages that this scan had changed.
  What is lost costs at most another hashing after a restart, and the next save writes all of memory.
* `AnswersTrue`: an answer "installed", of a check or for a package of a scan, means that
  the file was good at some moment since its stamp was read.

Assumed: a change of a file shows in its size or modification time.  `download_package`
takes the stamp of the target after `os.replace`: a file that the user puts there between
the two would be trusted, and is excluded (`ByHand`).  On Windows a file that is being
hashed can neither be replaced nor deleted (`Reading`).  A scan takes packages in any
order, and reads the folder one entry at a time; an entry that cannot be read is taken for
missing, as `_voice_files_by_name` does.

## 15. `VoiceManager`

The dialog chooses, confirms, and lets one worker thread download or remove; wx runs timers
and posted calls while a confirmation is on the screen.  The removal of the last usable
voices waits until the user has switched to another synthesizer, polled by a timer.

| State | Code |
| --- | --- |
| `installed`, `google`, `variant`, `profile` | files, NVDA's synthesizer, the configured voice, the language profile's voice |
| `shown`, `listed`, `prompt` | the dialog, `_allInstalledPackages`, the question on the screen |
| `pending`, `attempts` | `_pendingRemoveAfterSynthSwitch` and the polls so far |
| `job` | the worker's task: not yet tried, under way, failed, removed; `isBusy` |
| `away` | history: another synthesizer has been current since the last removal was asked for |

* `DependenciesKept`: a package lands with all it requires, and none is taken away from
  under one that requires it.  What may stay without its base is a dependent that could not be removed, or one
  that was downloaded after the list was made, while the removal was pending.
  `readme.md:100` says that dependents are removed too, "so you do not leave unusable
  voices behind"; these are the two ways in which one is.
* `LastVoiceKept`: the last usable voice is not removed unless the user has left Google TTS.
* `ConfigFollows`: after a removal neither the configured voice nor the profile names a
  removed package, unless no usable voice is left.

A removal that waits is dropped without a word when `_run_worker` is busy
(`voiceManager.py:1288`); message boxes are taken to be closed some time.

## 16. `Updater`

The check, the download with each point where it looks for a cancel, the dialog, the
installation and the folder of temporary files.

| State | Code |
| --- | --- |
| `inProgress`, `stage`, `found` | `_updateCheckInProgress`, where the controller is, the check's result |
| `manifest`, `partial`, `package` | `stable.json`, the `.download` file, the file to install |
| `fetcher`, `outcome`, `cancelEvent` | the download's thread, its result, the dialog's event |
| `late`, `left` | history: cancelled after the download had returned; files may be left over |

* `UpdateSafe`: the installer gets only a package that was verified (`InstallsVerified`)
  and not cancelled before its download had returned (`CancelHonoured`); between two
  checks the folder is empty (`Tidy`), unless NVDA was ended or the folder could not be
  removed.  An update that is cancelled after `download_update` has returned is installed
  all the same.  A file just written is taken to be removable.

## 17. Run `files`

`MCFiles` puts the store, the manager and the updater side by side like `MCDriverAudio`;
every fault.

* Store, one package: a thread that checks or scans and the worker, files changed by hand,
  restarts, failing saves, locked files.  Three stamps (`MaxStamp`) are an old file, and two
  changes under a check or a download and one change.
* Store, two packages: a thread that scans both while the worker downloads over one of them
  or removes it, with the same faults but no change by hand.  Packages share only the scans
  and the cache's file, which is always written whole; two stamps (`MaxScanned`) are an old
  file and a download over it during the scan.  Here a scan loses the save of one package
  to the exception of the other.
* Manager: four packages, a chain of three (`top` requires `voice` requires `base`) and one
  on the same base that the engine cannot speak; any set of them installed at first; two
  polls.
* Updater: every fault, with or without what an earlier check has left.

`AllEnds` has the liveness: a pending removal does not wait for ever, the dialog is not
busy for ever, and a check ends unless it waits for the user.  Fairness: the worker, the
timer, the threads of the update and what wx was asked to call go on, because network
reads have a time limit; what the user does is not fair.  `CHECK_DEADLOCK` is off: stamps are bounded.

## 18. Proofs (`FilesProofs`)

For any packages, threads, catalogs without cycles, bounds and faults, from the named
assumptions of the modules: `StoreTypesHold`, `ManagerTypesHold`, `UpdateTypesHold`,
`CachesAreSound` (`CacheSound`), `AnswersAreTrue` (`AnswersTrue`), `KeepsDependencies`,
`KeepsLastVoice`, `ConfigurationFollows` and `UpdatesAreSafe`.  `EachPartItsOwn` shows that
a behaviour of `FilesSpec` is one of each part, so that all of them hold for what run
`files` checks too: `FilesAreTyped` (`FilesTypeOK`) and `FilesAreSafe`.

Store.  A stamp is given once, so what vouches for a good file vouches for ever, also when
the file has gone (`Vouches`, lemma `VouchesForEver`): `Vouched` has it for the three caches and for
every thread about to fill one, and a stamp below the clock cannot come back.
Who changes a cache in memory owes its save until it has saved or lost it, and only a scan
goes on with other packages meanwhile (`Owed`): that is the other half of `CacheSound`.
`AnswersTrue` needs the other direction: a thread that saw a file that was not good, and
has had no good one since, holds a stamp that nobody vouches for (`Unfit`), and one that
finds a good file now has had one since its check began (`FitNow`).

Manager.  What a removal has touched is closed under dependents among what was listed
(`Closed`), and it takes the deepest first; that a dependent is deeper than its base is a
fact about the cardinality of chains (`DependentIsDeeper`), for which the catalog must be
finite and without cycles.  `Spared` says that a removal leaves a usable voice, or that the
user has left; `Listing` that the list is what is installed whenever nothing is busy, which
is what makes the choice current when the job begins.

Updater.  `Verified` ties each place of the download's thread to what has been checked,
`InFolder` to what is in the folder; `Tidy` is the case without a thread.

## 19. Divergences found

* `SpeechCallerConnects`: `tests/test_bridge_concurrency.py:349` says that when a
  concurrent warm-up caller is cancelled the speech caller still connects.  The
  fast path of `ensure_connection` accepts a websocket that another thread is
  still preparing; if that thread is then cancelled, it closes the websocket and
  the speech request fails.
* `CancellationSparesBrowser`: the same file, line 332, says that cancellation
  during `ensure_connection` does not kill the browser.  While the DevTools port
  is awaited it does, and it deletes the persistent profile with its compiled
  engine cache.

* `StaleIsDiscarded`: the comment at `S/standby.py:87` says that replacing the
  engine files forces standby to discard the stale bridge.  The signature of a
  released bridge is computed at release (line 594): if the files were replaced
  while the synthesizer spoke, its old browser is kept under the new fingerprint.

* `NoBrowserLeft`: `tests/NVDA_CHROMIUM_MANUAL_CHECKLIST.md:71` has the browser
  processes cleaned up when NVDA exits after speech.  The warm-up that follows a
  recycle is started by the speech worker.  If terminate sets the warm-up's cancel
  event while the worker is between setting the old event (`S/__init__.py:2165`) and
  installing the new one (line 2167), the new one is set by nobody; its thread looks
  at the shutdown event only after `ensure_connection`, and starts a browser on the
  bridge that terminate has ended.

## 20. Not modelled

* Where a text is cut into segments, language detection and profiles, and speech
  options: functions on strings and numbers without state, whose tests enumerate a
  corpus, fuzz them or list the table; detection rests on an external library.
* Of the driver: the audio device, settings and voices, the lengths of breaks.
* Of the process manager: `start_browser` (tests only), the size sweep of profiles,
  window hiding and priorities.
* Of the page: marks, the "started" event and the browser interfaces it fakes.
* Of the watcher: the Windows calls, failing handles, the bounded join.
* Of the plugin and the dialogs: patches of NVDA's classes, layout, lists, filters,
  keys, texts; a reload of the plugin in the middle of a voice manager's job.
* `copy_existing_package` of the store, which nothing in `src/` calls, and the
  loading and validation of the catalog and of the update's manifest (parsing).
* Build scripts, generated Unicode tables, translations, the vendored websocket
  client and the WASM engine.  The last two are the environment of the models.

About a third of the repository's lines are data and build scripts (`unicode_data.py`
alone has 5,940 lines, `build_i18n.py` 3,686), and much of the rest is dialogs and
string rules; that is why the map covers a small share of all lines although every
component with threads, files or sessions is modelled, in whole or in part.

Every safety property of the passing runs, invariant, action property and refinement, is
a theorem.  Liveness under fairness is outside what TLAPS can do and is only checked by TLC:
`CallsReturn`, `WarmsUp`, `Served`, `Settles` and `AllEnds`.
