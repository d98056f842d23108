-------------------------- MODULE SpeechDriverProps --------------------------
(***************************************************************************)
(* What the synthesizer driver guarantees.                                 *)
(***************************************************************************)
EXTENDS SpeechDriver

WorkerPlaces ==
  {"loop", "item", "speak", "spoken", "sync", "tell", "last", "end", "done", "failed",
   "failedDone", "count", "tidy", "recycle", "warm", "swap", "assign", "start",
   "clear", "gone"}
MainPlaces ==
  {"idle", "queue", "stopping", "giveUp", "terminate", "release", "check", "keep",
   "end", "warm", "swap", "assign", "start", "gone"}
WarmPlaces == {"unborn", "delay", "connect", "ready", "preload", "dead"}

DriverTypes ==
  /\ queue \in Seq(Requests) /\ active \in Requests \cup {None}
  /\ shutdown \in BOOLEAN /\ fallback \in BOOLEAN /\ errors \in Nat
  /\ cancelled \subseteq Requests \cup Warmers
  /\ goal \in {"cancel", "terminate", "switch"}

PlaceTypes ==
  /\ pc \in [Threads -> WorkerPlaces \cup MainPlaces \cup WarmPlaces]
  /\ pc[Main] \in MainPlaces /\ pc[Worker] \in WorkerPlaces
  /\ \A w \in Warmers : pc[w] \in WarmPlaces

\* A caller has an event of its own from its making to the thread's start.
WarmTypes ==
  /\ warmEvent \in Warmers \cup {None} /\ warmThread \in Warmers \cup {None}
  /\ fresh \in [Callers -> Warmers \cup {None}]
  /\ \A t \in Callers : pc[t] \in {"swap", "assign", "start"} => fresh[t] # None
  /\ \A t \in Callers : fresh[t] # None => pc[fresh[t]] = "unborn"
  /\ fresh[Main] = fresh[Worker] => fresh[Main] = None

WorkTypes ==
  /\ item \in Nat /\ inner \in BOOLEAN /\ idle \in BOOLEAN
  /\ calling \subseteq Requests
  /\ pc[Worker] \in {"loop", "gone"} <=> active = None

BridgeTypes ==
  /\ up \in BOOLEAN /\ fate \in {"ours", "kept", "ended"}
  /\ preparing \in Threads \cup {None}
  /\ preparing # None => Connecting(preparing)

NvdaTypes ==
  /\ asked \in 0..MaxRequests /\ voices \in 0..MaxVoices /\ posted \in Nat
  /\ pc[Main] = "queue" => asked < MaxRequests

ToldTypes ==
  /\ told \in [Requests -> Nat]
  /\ done \subseteq Requests /\ failed \subseteq Requests /\ late \subseteq Requests

\* Types of the driver's fields, of the threads and of what NVDA is told.
TypeOK ==
  /\ DriverTypes /\ PlaceTypes /\ WarmTypes /\ WorkTypes /\ BridgeTypes
  /\ NvdaTypes /\ ToldTypes

\* The driver keeps the promises of SpeechService, with requests cancelled,
\* failing and given up at any moment and callbacks on the reader thread: order,
\* each index once, one end, and no more than one index after that.
Service == INSTANCE SpeechService WITH
  waiting <- queue, current <- active, withdrawn <- cancelled \cap Requests
Promises == Service!Spec

\* terminate cancels before it shuts the worker down, and speak does not queue
\* in between: from then on there is nothing left to speak, so that the worker's
\* call of the bridge is a cancelled one when the bridge is ended.
ShutdownCancels ==
  shutdown => queue = <<>> /\ (active # None => Cancelled(active))

\* A bridge that standby has taken over is not used by the speech worker any
\* more, not even for the recycle that follows a request.
KeptIsQuiet ==
  fate = "kept" => pc[Worker] \in {"loop", "gone"}

\* tests/NVDA_CHROMIUM_MANUAL_CHECKLIST.md: after NVDA exits following speech,
\* the browser processes are cleaned up.  When terminate has ended the bridge
\* and the driver's threads are over, no browser of it runs.
NoBrowserLeft ==
  /\ fate = "ended" /\ pc[Worker] = "gone"
  /\ \A w \in Warmers : pc[w] \in {"unborn", "dead"}
  => ~up

\* Every request is answered or cancelled, or dropped by a fatal fallback.
Answered ==
  \A r \in Requests :
    (asked >= r) ~> (r \in done \/ Cancelled(r) \/ fallback)

\* After shutdown the worker ends, whatever it was doing.
WorkerEnds == shutdown ~> pc[Worker] = "gone"

\* When terminate hands the bridge over or ends it, no speech is on it and none will be.
EndsOrderly == ShutdownCancels /\ KeptIsQuiet

\* NVDA is not left waiting, neither for a report nor for the end of the worker.
Served == Answered /\ WorkerEnds
==============================================================================
