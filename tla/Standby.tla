------------------------------- MODULE Standby -------------------------------
(***************************************************************************)
(* The standby runtime manager: it keeps one bridge warm while no          *)
(* synthesizer of this add-on speaks, hands it to the synthesizer that     *)
(* starts, takes it back when that one ends, and starts again when a       *)
(* watched directory changes.                                              *)
(*                                                                         *)
(* Main is NVDA's main thread (driver construction and termination, the    *)
(* settings panel, the plugin).  Every refresh runs on a worker thread of  *)
(* its own, every watcher on another.  An action is one section of         *)
(* _StandbyRuntimeManager._lock, or the code between two of them.          *)
(***************************************************************************)
EXTENDS Integers, FiniteSets

CONSTANTS
  Main,        \* NVDA's main thread
  Workers,     \* threads for _run_refresh
  Watchers,    \* threads of DirectoryChangeWatcher
  Bridges,     \* bridge objects that can be created
  Packages,    \* sets of usable voice packages
  Settings,    \* browser setting and engine files, the rest of a signature
  None,        \* no bridge, worker, watcher or package set
  MaxOps,      \* bound: operations begun by the main thread
  MaxChanges,  \* bound: changes of watched files
  Faults       \* which steps may raise: "catalog" (loading), "connect" (warming)

Actors == {Main} \cup Workers \cup Watchers

ASSUME ActorsDistinct ==
  /\ Main \notin Workers \cup Watchers
  /\ Workers \cap Watchers = {}
  /\ None \notin Actors \cup Bridges \cup Packages
ASSUME BoundsAreNatural == MaxOps \in Nat /\ MaxChanges \in Nat
ASSUME FaultsAreKnown == Faults \subseteq {"catalog", "connect"}

VARIABLES
  \* _StandbyRuntimeManager
  bridge, signature, ready, generation,
  current,      \* the worker that _cancelEvent belongs to
  worker,       \* _worker
  watcher,      \* _watcher
  synthActive, shutdown,
  \* its environment
  keep,         \* the setting "keep the browser runtime ready"
  pack, setting,\* installed packages; browser setting and engine files
  synth,        \* the bridge of the current synthesizer of this add-on
  synthPack,    \* the packages it was constructed with
  op,           \* what the main thread does next
  ops, changes, \* operations and file changes so far
  life,         \* of each bridge: "unborn", "alive" or "dead"
  made,         \* the browser and engine files it was started with
  drop,         \* of each thread: the bridge it still has to terminate
  \* _run_refresh, per worker
  at, cancelled, workGen, restart, loaded, using, workSig,
  \* DirectoryChangeWatcher, per watcher
  watch,        \* "unborn", "starting", "on" or "off" (told to stop)
  call,         \* its thread: "wait", or in the callback "check" and "refresh"
  watchGen

managerVars == <<bridge, signature, ready, generation, current, worker, watcher,
                 synthActive, shutdown>>
worldVars   == <<keep, pack, setting, changes>>
mainVars    == <<synth, synthPack, op, ops>>
workVars    == <<at, cancelled, workGen, restart, loaded, using, workSig>>
watchVars   == <<watch, call, watchGen>>
bridgeVars  == <<life, made>>
vars == <<managerVars, worldVars, mainVars, bridgeVars, drop, workVars, watchVars>>

Signatures == Packages \X Settings
Alive(w) == w # None /\ at[w] \notin {"unused", "done"}

Init ==
  /\ bridge = None /\ signature = None /\ ready = FALSE /\ generation = 0
  /\ current = None /\ worker = None /\ watcher = None
  /\ synthActive = FALSE /\ shutdown = TRUE
  /\ keep \in BOOLEAN /\ pack \in Packages \cup {None} /\ setting \in Settings
  /\ synth = None /\ synthPack = None /\ op = "idle" /\ ops = 0 /\ changes = 0
  /\ life = [b \in Bridges |-> "unborn"] /\ made = [b \in Bridges |-> None]
  /\ drop = [a \in Actors |-> None]
  /\ at = [w \in Workers |-> "unused"]
  /\ cancelled = [w \in Workers |-> FALSE]
  /\ workGen = [w \in Workers |-> 0]
  /\ restart = [w \in Workers |-> FALSE]
  /\ loaded = [w \in Workers |-> None]
  /\ using = [w \in Workers |-> None]
  /\ workSig = [w \in Workers |-> None]
  /\ watch = [x \in Watchers |-> "unborn"]
  /\ call = [x \in Watchers |-> "wait"]
  /\ watchGen = [x \in Watchers |-> 0]

-----------------------------------------------------------------------------
(* The helpers that end in _locked                                           *)

\* _cancel_current_worker_locked
CancelWorker ==
  /\ cancelled' = [w \in Workers |-> cancelled[w] \/ w = current]
  /\ current' = None

\* _clear_standby_locked: forget the bridge; the caller has to terminate it.
ClearStandby(a) ==
  /\ bridge' = None /\ signature' = None /\ ready' = FALSE
  /\ drop' = [drop EXCEPT ![a] = bridge]

KeepStandby == UNCHANGED <<bridge, signature, ready, drop>>

\* _detach_watchers_locked
Detached == [x \in Watchers |-> IF x = watcher THEN "off" ELSE watch[x]]
\* Mutant: the watcher stays.
LeaveWatcher == UNCHANGED <<watcher, watch>>
DetachWatcher == watcher' = None /\ watch' = Detached

\* _start_watchers_locked.  It waits for the old watcher's thread with the lock
\* held, for a few seconds at most: that thread may itself wait for the lock.
StartWatcher ==
  IF shutdown \/ synthActive \/ ~keep
  THEN DetachWatcher /\ UNCHANGED watchGen
  ELSE \E x \in Watchers :
         /\ watch[x] = "unborn"
         /\ watcher' = x
         /\ watch' = [Detached EXCEPT ![x] = "starting"]
         /\ watchGen' = [watchGen EXCEPT ![x] = generation]

\* Mutant: only the packages count.
FitsByPackages(sig) == signature[1] = sig[1]
\* The kept bridge is one for these packages and settings.
Fits(sig) == signature = sig

\* ChromeTtsBridge(catalog), whose browser is started at once by a warm-up.
NewBridge(b) ==
  /\ life[b] = "unborn" /\ life' = [life EXCEPT ![b] = "alive"]
  /\ made' = [made EXCEPT ![b] = setting]

\* Mutant: nobody terminates the bridge that is dropped.
Forget(a) ==
  /\ drop[a] # None
  /\ drop' = [drop EXCEPT ![a] = None]
  /\ UNCHANGED <<managerVars, worldVars, mainVars, bridgeVars, workVars, watchVars>>

\* _terminate_bridge
Terminate(a) ==
  /\ drop[a] # None
  /\ life' = [life EXCEPT ![drop[a]] = "dead"]
  /\ drop' = [drop EXCEPT ![a] = None]
  /\ UNCHANGED <<managerVars, worldVars, mainVars, made, workVars, watchVars>>

-----------------------------------------------------------------------------
(* refresh_async, called by the main thread or a watcher's callback          *)

\* Mutant: a worker that is still unwinding keeps the bridge for its successor.
KeepFromUnwinding(a) == KeepStandby
LeaveToUnwinding(a) == IF Alive(worker) THEN ClearStandby(a) ELSE KeepStandby

NewWorker(a, fromWatcher) ==
  /\ generation' = generation + 1
  /\ DetachWatcher
  /\ LeaveToUnwinding(a)
  /\ \E w \in Workers :
       /\ at[w] = "unused"
       /\ worker' = w /\ current' = w
       /\ at' = [at EXCEPT ![w] = "early"]
       /\ cancelled' = [v \in Workers |-> cancelled[v] \/ v = current]
       /\ workGen' = [workGen EXCEPT ![w] = generation']
       /\ restart' = [restart EXCEPT ![w] = fromWatcher]
  /\ UNCHANGED <<synthActive, shutdown>>

RefreshOff(a) ==
  /\ generation' = generation + 1
  /\ CancelWorker
  /\ ClearStandby(a)
  /\ DetachWatcher
  /\ worker' = IF Alive(worker) THEN worker ELSE None
  /\ UNCHANGED <<synthActive, shutdown, at, workGen, restart>>

\* Mutant: every refresh leaves it to the worker that is still alive.
LeftToAnyWorker(fromWatcher) == Alive(worker)
LeftToWorker(fromWatcher) == fromWatcher /\ Alive(worker)

NoRefresh == UNCHANGED <<managerVars, drop, watch, at, cancelled, workGen, restart>>

RefreshAsync(a, fromWatcher) ==
  /\ IF shutdown THEN NoRefresh
     ELSE IF ~keep \/ synthActive THEN RefreshOff(a)
     ELSE IF LeftToWorker(fromWatcher) THEN NoRefresh
     ELSE NewWorker(a, fromWatcher)
  /\ UNCHANGED <<loaded, using, workSig, watchGen>>

-----------------------------------------------------------------------------
(* The main thread.  A call it makes as a consequence of another is its next *)
(* "op"; it first terminates the bridge the other left it with.              *)

Begin(next) ==
  /\ op = "idle" /\ drop[Main] = None /\ ops < MaxOps
  /\ ops' = ops + 1 /\ op' = next

MainOnly == UNCHANGED <<managerVars, bridgeVars, drop, workVars, watchVars>>

\* GlobalPlugin.__init__
Initialize ==
  /\ Begin("idle") /\ shutdown
  /\ shutdown' = FALSE
  /\ UNCHANGED <<bridge, signature, ready, generation, current, worker, watcher, synthActive,
                 worldVars, synth, synthPack, bridgeVars, drop, workVars, watchVars>>

\* GlobalPlugin.terminate
Shutdown ==
  /\ Begin("idle") /\ ~shutdown
  /\ shutdown' = TRUE /\ synthActive' = FALSE
  /\ generation' = generation + 1
  /\ CancelWorker /\ ClearStandby(Main) /\ DetachWatcher
  /\ UNCHANGED <<worker, worldVars, synth, synthPack, bridgeVars, at, workGen, restart, loaded,
                 using, workSig, call, watchGen>>

\* Settings are saved, or NVDA has started: the plugin first tells the manager
\* when its own synthesizer is the current one.
SaveSettings ==
  /\ Begin(IF synth # None THEN "note" ELSE "refresh")
  /\ keep' \in BOOLEAN
  /\ MainOnly /\ UNCHANGED <<pack, setting, changes, synth, synthPack>>

\* The browser was changed, which the panel refuses while a synthesizer of this
\* add-on speaks with another one.
SaveBrowser ==
  /\ synth = None /\ Begin("refresh")
  /\ setting' \in Settings
  /\ MainOnly /\ UNCHANGED <<keep, pack, changes, synth, synthPack>>

\* The voice manager installed or removed packages.
ChangePackages ==
  /\ Begin("refresh")
  /\ pack' \in Packages \cup {None}
  /\ MainOnly /\ UNCHANGED <<keep, setting, changes, synth, synthPack>>

Note ==
  /\ op = "note" /\ op' = "refresh"
  /\ \/ shutdown /\ UNCHANGED <<managerVars, drop, cancelled, watch>>
     \/ /\ ~shutdown
        /\ synthActive' = TRUE
        /\ generation' = generation + 1
        /\ CancelWorker /\ DetachWatcher /\ ClearStandby(Main)
        /\ UNCHANGED <<worker, shutdown>>
  /\ UNCHANGED <<worldVars, synth, synthPack, ops, bridgeVars, at, workGen, restart, loaded, using,
                 workSig, call, watchGen>>

Refresh ==
  /\ op = "refresh" /\ drop[Main] = None /\ op' = "idle"
  /\ RefreshAsync(Main, FALSE)
  /\ UNCHANGED <<worldVars, synth, synthPack, ops, bridgeVars, call>>

\* SynthDriver.__init__ has loaded its catalog.
LoadDriver ==
  /\ synth = None /\ pack # None
  /\ Begin("claim")
  /\ synthPack' = pack
  /\ MainOnly /\ UNCHANGED <<worldVars, synth>>

\* Mutants: the bridge is handed out and kept; it is handed out before it is warm.
HandOutAndKeep ==
  /\ bridge # None /\ ready /\ Fits(<<synthPack, setting>>)
  /\ synth' = bridge
  /\ UNCHANGED <<bridge, signature, ready, drop, bridgeVars>>
HandOutCold ==
  /\ bridge # None /\ Fits(<<synthPack, setting>>)
  /\ synth' = bridge
  /\ bridge' = None /\ signature' = None /\ ready' = FALSE
  /\ UNCHANGED <<drop, bridgeVars>>

\* claim_bridge hands the warm bridge over when its signature fits ...
HandOut ==
  /\ bridge # None /\ ready /\ Fits(<<synthPack, setting>>)
  /\ synth' = bridge
  /\ bridge' = None /\ signature' = None /\ ready' = FALSE
  /\ UNCHANGED <<drop, bridgeVars>>

\* ... otherwise, or after a shutdown, the driver creates a bridge of its own.
OwnBridge == \E b \in Bridges : NewBridge(b) /\ synth' = b

Claim ==
  /\ op = "claim" /\ op' = "idle"
  /\ \/ shutdown /\ OwnBridge /\ UNCHANGED <<managerVars, drop, cancelled, watch>>
     \/ /\ ~shutdown
        /\ synthActive' = TRUE
        /\ generation' = generation + 1
        /\ CancelWorker /\ DetachWatcher
        /\ \/ HandOut
           \/ /\ ~(bridge # None /\ ready /\ Fits(<<synthPack, setting>>))
              /\ ClearStandby(Main) /\ OwnBridge
        /\ UNCHANGED <<worker, shutdown>>
  /\ UNCHANGED <<worldVars, synthPack, ops, at, workGen, restart, loaded, using, workSig,
                 call, watchGen>>

\* SynthDriver.terminate, and then release_synth_bridge when the bridge is idle.
Release ==
  /\ synth # None /\ synth' = None
  /\ \/ /\ shutdown \/ ~keep
        /\ Begin("idle")
        /\ synthActive' = FALSE
        /\ drop' = [drop EXCEPT ![Main] = synth]
        /\ UNCHANGED <<bridge, signature, ready, generation, current, worker, watcher,
                       shutdown, cancelled, watch>>
     \/ /\ ~shutdown /\ keep
        /\ Begin("refresh")
        /\ synthActive' = FALSE
        /\ generation' = generation + 1
        /\ CancelWorker /\ DetachWatcher
        /\ drop' = [drop EXCEPT ![Main] = bridge]
        /\ bridge' = synth /\ signature' = <<synthPack, setting>> /\ ready' = TRUE
        /\ UNCHANGED <<worker, shutdown>>
  /\ UNCHANGED <<worldVars, synthPack, bridgeVars, at, workGen, restart, loaded, using, workSig,
                 call, watchGen>>

\* SynthDriver.terminate with a busy bridge: terminate it ...
Discard ==
  /\ synth # None /\ synth' = None
  /\ Begin("unbridged")
  /\ drop' = [drop EXCEPT ![Main] = synth]
  /\ UNCHANGED <<managerVars, worldVars, synthPack, bridgeVars, workVars, watchVars>>

\* ... and then release_synth_without_bridge.
ReleaseWithoutBridge ==
  /\ op = "unbridged" /\ drop[Main] = None
  /\ synthActive' = FALSE
  /\ \/ /\ shutdown /\ op' = "idle"
        /\ UNCHANGED <<generation, current, cancelled, watcher, watch>>
     \/ /\ ~shutdown /\ op' = "refresh"
        /\ generation' = generation + 1
        /\ CancelWorker /\ DetachWatcher
  /\ UNCHANGED <<bridge, signature, ready, worker, shutdown, worldVars, synth, synthPack, ops,
                 bridgeVars, drop, at, workGen, restart, loaded, using, workSig, call, watchGen>>

-----------------------------------------------------------------------------
(* _run_refresh                                                              *)

GoTo(w, l) == at' = [at EXCEPT ![w] = l]
WorkOnly == UNCHANGED <<worldVars, mainVars, cancelled, workGen, restart, call>>

UnchangedWatch == UNCHANGED <<watcher, watch, watchGen>>

\* Is the bridge already warm?  Only then is the catalog loaded under the lock.
Early(w) ==
  /\ at[w] = "early"
  /\ LET warm == bridge # None /\ ready /\ ~restart[w]
     IN \/ /\ warm /\ pack # None /\ Fits(<<pack, setting>>)
           /\ StartWatcher /\ GoTo(w, "finish") /\ UNCHANGED loaded
        \/ /\ warm /\ ~(pack # None /\ Fits(<<pack, setting>>))
           /\ loaded' = [loaded EXCEPT ![w] = pack] /\ GoTo(w, "load")
           /\ UnchangedWatch
        \/ /\ ~warm /\ GoTo(w, "load")
           /\ UNCHANGED <<loaded, watcher, watch, watchGen>>
        \/ /\ warm /\ "catalog" \in Faults /\ GoTo(w, "failed")
           /\ UNCHANGED <<loaded, watcher, watch, watchGen>>
  /\ UNCHANGED <<bridge, signature, ready, generation, current, worker, synthActive, shutdown,
                 bridgeVars, drop, using, workSig>>
  /\ WorkOnly

\* Mutant: the signature is computed before there is a catalog.
SignatureAnyway(found) == <<found, setting>>
SignatureOf(found) == IF found = None THEN None ELSE <<found, setting>>

\* Load the catalog unless there is one, look at the cancel event, and compute
\* the signature.
Load(w) ==
  /\ at[w] = "load"
  /\ \/ /\ LET found == IF loaded[w] # None THEN loaded[w] ELSE pack
           IN /\ loaded' = [loaded EXCEPT ![w] = found]
              /\ workSig' = [workSig EXCEPT ![w] = SignatureOf(found)]
              /\ GoTo(w, IF cancelled[w] THEN "finish" ELSE IF found = None THEN "none" ELSE "pick")
     \/ /\ loaded[w] = None /\ "catalog" \in Faults
        /\ GoTo(w, "failed") /\ UNCHANGED <<loaded, workSig>>
  /\ UNCHANGED <<managerVars, bridgeVars, drop, using, watch, watchGen>>
  /\ WorkOnly

Current(w) == workGen[w] = generation

\* Mutant: nobody watches for the change that would make it work.
GiveUpUnwatched(w) == ClearStandby(w) /\ UnchangedWatch
\* Keep no bridge until watched files change.
GiveUp(w) == ClearStandby(w) /\ StartWatcher

\* No usable package: nothing can be kept warm.
NoCatalog(w) ==
  /\ at[w] = "none" /\ GoTo(w, "finish")
  /\ IF Current(w)
     THEN GiveUp(w)
     ELSE KeepStandby /\ UnchangedWatch
  /\ UNCHANGED <<generation, current, worker, synthActive, shutdown, bridgeVars, loaded, using, workSig>>
  /\ WorkOnly

\* Mutant: the generation is not looked at.
MayPickStale(w) == ~shutdown /\ ~synthActive
MayPick(w) == Current(w) /\ ~shutdown /\ ~synthActive

\* Take the bridge that is there when it fits, or put a new one in its place.
Pick(w) ==
  /\ at[w] = "pick"
  /\ \/ /\ ~MayPick(w) /\ GoTo(w, "finish")
        /\ UNCHANGED <<bridge, signature, ready, drop, bridgeVars, using>>
     \/ /\ MayPick(w) /\ GoTo(w, "warm")
        /\ IF bridge # None /\ Fits(workSig[w]) /\ ~restart[w]
           THEN /\ using' = [using EXCEPT ![w] = bridge]
                /\ UNCHANGED <<bridge, signature, ready, drop, bridgeVars>>
           ELSE \E b \in Bridges :
                  /\ NewBridge(b)
                  /\ drop' = [drop EXCEPT ![w] = bridge]
                  /\ bridge' = b /\ signature' = workSig[w] /\ ready' = FALSE
                  /\ using' = [using EXCEPT ![w] = b]
  /\ UNCHANGED <<generation, current, worker, watcher, synthActive, shutdown, loaded, workSig,
                 watch, watchGen>>
  /\ WorkOnly

\* ensure_connection and the preloads; a connection starts a browser even on a
\* bridge that was terminated meanwhile.
Warm(w) ==
  /\ at[w] = "warm" /\ drop[w] = None
  /\ \/ cancelled[w] /\ GoTo(w, "finish") /\ UNCHANGED life
     \/ /\ ~cancelled[w] /\ GoTo(w, "publish")
        /\ life' = [life EXCEPT ![using[w]] = "alive"]
     \/ /\ "connect" \in Faults /\ GoTo(w, "failed") /\ UNCHANGED life
  /\ UNCHANGED <<managerVars, made, drop, loaded, using, workSig, watch, watchGen>>
  /\ WorkOnly

MayPublish(w) == Current(w) /\ bridge = using[w]

Publish(w) ==
  /\ at[w] = "publish" /\ GoTo(w, "finish")
  /\ IF ~MayPublish(w)
     THEN KeepStandby /\ UnchangedWatch
     ELSE IF shutdown \/ synthActive \/ ~keep
     THEN ClearStandby(w) /\ UnchangedWatch
     ELSE /\ ready' = TRUE /\ UNCHANGED <<bridge, signature, drop>>
          /\ StartWatcher
  /\ UNCHANGED <<generation, current, worker, synthActive, shutdown, bridgeVars, loaded, using, workSig>>
  /\ WorkOnly

\* "except Exception"
Failed(w) ==
  /\ at[w] = "failed" /\ GoTo(w, "finish")
  /\ IF Current(w) /\ bridge = using[w]
     THEN GiveUp(w)
     ELSE KeepStandby /\ UnchangedWatch
  /\ UNCHANGED <<generation, current, worker, synthActive, shutdown, bridgeVars, loaded, using, workSig>>
  /\ WorkOnly

\* "finally", and the end of the thread after its last termination.
Finish(w) ==
  /\ at[w] = "finish" /\ GoTo(w, "end")
  /\ worker' = IF Current(w) /\ worker = w THEN None ELSE worker
  /\ UNCHANGED <<bridge, signature, ready, generation, current, watcher, synthActive, shutdown,
                 bridgeVars, drop, loaded, using, workSig, watch, watchGen>>
  /\ WorkOnly

End(w) ==
  /\ at[w] = "end" /\ drop[w] = None /\ GoTo(w, "done")
  /\ UNCHANGED <<managerVars, bridgeVars, drop, loaded, using, workSig, watch, watchGen>>
  /\ WorkOnly

-----------------------------------------------------------------------------
(* Watched files and the watcher's thread                                    *)

\* The thread has its notification handles.
Watching(x) ==
  /\ watch[x] = "starting" /\ watch' = [watch EXCEPT ![x] = "on"]
  /\ UNCHANGED <<managerVars, worldVars, mainVars, bridgeVars, drop, workVars, call, watchGen>>

\* Files of the voice directory or the add-on change.  Only a thread that waits
\* on its handles is told: they are closed before the callback is made.
FilesChange ==
  /\ changes < MaxChanges /\ changes' = changes + 1
  /\ pack' \in Packages \cup {None} /\ setting' \in Settings
  /\ call' = [x \in Watchers |-> IF watch[x] = "on" /\ call[x] = "wait" THEN "check" ELSE call[x]]
  /\ UNCHANGED <<managerVars, keep, mainVars, bridgeVars, drop, workVars, watch, watchGen>>

\* The thread looks whether it shall stop, and then _refresh_from_watcher: an
\* outdated watcher says nothing.
Check(x) ==
  /\ call[x] = "check"
  /\ \/ watch[x] = "off" /\ call' = [call EXCEPT ![x] = "wait"]
     \/ call' = [call EXCEPT ![x] = IF watchGen[x] = generation /\ ~shutdown THEN "refresh" ELSE "wait"]
  /\ UNCHANGED <<managerVars, worldVars, mainVars, bridgeVars, drop, workVars, watch, watchGen>>

Notify(x) ==
  /\ call[x] = "refresh" /\ drop[x] = None
  /\ call' = [call EXCEPT ![x] = "wait"]
  /\ RefreshAsync(x, TRUE)
  /\ UNCHANGED <<worldVars, mainVars, bridgeVars>>

-----------------------------------------------------------------------------
Work(w) == Early(w) \/ Load(w) \/ NoCatalog(w) \/ Pick(w) \/ Warm(w) \/ Publish(w)
           \/ Failed(w) \/ Finish(w) \/ End(w)
Answer(x) == Watching(x) \/ Check(x) \/ Notify(x)
Continue == Note \/ Refresh \/ Claim \/ ReleaseWithoutBridge
Ask == Initialize \/ Shutdown \/ SaveSettings \/ SaveBrowser \/ ChangePackages
       \/ LoadDriver \/ Release \/ Discard

Next ==
  \/ Ask \/ Continue \/ FilesChange
  \/ \E w \in Workers : Work(w)
  \/ \E x \in Watchers : Answer(x)
  \/ \E a \in Actors : Terminate(a)

Spec == Init /\ [][Next]_vars

\* Threads run on; what the main thread begins and what files do is not fair.
Fairness ==
  /\ WF_vars(Continue)
  /\ \A w \in Workers : WF_vars(Work(w))
  /\ \A x \in Watchers : WF_vars(Answer(x))
  /\ \A a \in Actors : WF_vars(Terminate(a))
LiveSpec == Spec /\ Fairness

=============================================================================
