---------------------------- MODULE SpeechService ----------------------------
(***************************************************************************)
(* What NVDA may rely on in a synthesizer driver.  Requests are served one *)
(* at a time in the order of the calls.  The indexes of a request are      *)
(* reported in order, each once, and its end once, when all of them were   *)
(* reported or the request failed.  NVDA withdraws everything it asked for *)
(* by a cancel; one report of an index that was already under way may      *)
(* still follow the end or the withdrawal of its request.                  *)
(***************************************************************************)
EXTENDS Naturals, Sequences, FiniteSets

CONSTANTS
  MaxRequests,  \* bound: calls of speak
  Marks,        \* number of indexes of each request
  None          \* no request

Requests == 1..MaxRequests

VARIABLES
  asked,        \* calls of speak so far: requests are numbered in their order
  waiting,      \* requests accepted and not begun
  current,      \* the request being served
  told,         \* number of indexes reported, per request
  done,         \* requests whose end was reported
  failed,       \* requests that could not be spoken
  withdrawn,    \* requests cancelled
  late          \* requests with a report after their end or withdrawal

vars == <<asked, waiting, current, told, done, failed, withdrawn, late>>

Init ==
  /\ asked = 0 /\ waiting = <<>> /\ current = None
  /\ told = [r \in Requests |-> 0]
  /\ done = {} /\ failed = {} /\ withdrawn = {} /\ late = {}

Accept ==
  /\ asked < MaxRequests
  /\ asked' = asked + 1
  /\ waiting' = Append(waiting, asked + 1)
  /\ UNCHANGED <<current, told, done, failed, withdrawn, late>>

\* A cancel withdraws what waits and what is being served.
Withdraw ==
  /\ withdrawn' = withdrawn \cup {waiting[i] : i \in DOMAIN waiting} \cup ({current} \ {None})
  /\ waiting' = <<>>
  /\ UNCHANGED <<asked, current, told, done, failed, late>>

\* A driver that gives up speaking drops what waits.
Drop ==
  /\ waiting' = <<>>
  /\ UNCHANGED <<asked, current, told, done, failed, withdrawn, late>>

Start ==
  /\ current = None /\ waiting # <<>>
  /\ current' = Head(waiting) /\ waiting' = Tail(waiting)
  /\ UNCHANGED <<asked, told, done, failed, withdrawn, late>>

Tell(r) ==
  /\ told[r] < Marks[r]
  /\ \/ r = current /\ r \notin done \cup withdrawn /\ late' = late
     \/ r \in (done \cap failed) \cup withdrawn /\ r \notin late /\ late' = late \cup {r}
  /\ told' = [told EXCEPT ![r] = @ + 1]
  /\ UNCHANGED <<asked, waiting, current, done, failed, withdrawn>>

Fail ==
  /\ current # None /\ current \notin done
  /\ failed' = failed \cup {current}
  /\ UNCHANGED <<asked, waiting, current, told, done, withdrawn, late>>

Finish ==
  /\ current # None /\ current \notin done
  /\ told[current] = Marks[current] \/ current \in failed
  /\ done' = done \cup {current}
  /\ UNCHANGED <<asked, waiting, current, told, failed, withdrawn, late>>

\* The next request begins when this one was reported or withdrawn.
Leave ==
  /\ current \in done \cup withdrawn
  /\ current' = None
  /\ UNCHANGED <<asked, waiting, told, done, failed, withdrawn, late>>

Next ==
  \/ Accept \/ Withdraw \/ Drop \/ Start \/ Fail \/ Finish \/ Leave
  \/ \E r \in Requests : Tell(r)

Spec == Init /\ [][Next]_vars
==============================================================================
