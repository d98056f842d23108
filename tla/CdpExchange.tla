----------------------------- MODULE CdpExchange -----------------------------
(***************************************************************************)
(* What a caller of CdpClient.request may rely on.  The events that the    *)
(* page sends for a request are delivered one by one in their order.  A    *)
(* request that returns an answer returns its own, and after all events    *)
(* that were sent before it.  One event that was under way may still be    *)
(* delivered after a request has ended otherwise; a second one may not.    *)
(***************************************************************************)
EXTENDS Naturals

CONSTANTS
  Requests,     \* requests, each made once
  Verdicts      \* how a request ends; "answer" is one of them

VARIABLES
  stage,        \* of each request: "new", "running" or "ended"
  verdict,      \* how it ended
  emitted,      \* number of events the page has sent for it
  answered,     \* requests the page has answered
  heard,        \* number of events delivered
  after         \* number of them delivered after the end

vars == <<stage, verdict, emitted, answered, heard, after>>

Init ==
  /\ stage = [r \in Requests |-> "new"]
  /\ verdict = [r \in Requests |-> "none"]
  /\ emitted = [r \in Requests |-> 0] /\ answered = {}
  /\ heard = [r \in Requests |-> 0] /\ after = [r \in Requests |-> 0]

Begin(r) ==
  /\ stage[r] = "new"
  /\ stage' = [stage EXCEPT ![r] = "running"]
  /\ UNCHANGED <<verdict, emitted, answered, heard, after>>

Emit(r) ==
  /\ stage[r] # "new" /\ r \notin answered
  /\ emitted' = [emitted EXCEPT ![r] = @ + 1]
  /\ UNCHANGED <<stage, verdict, answered, heard, after>>

Answer(r) ==
  /\ stage[r] # "new"
  /\ answered' = answered \cup {r}
  /\ UNCHANGED <<stage, verdict, emitted, heard, after>>

Hear(r) ==
  /\ heard[r] < emitted[r]
  /\ heard' = [heard EXCEPT ![r] = @ + 1]
  /\ \/ stage[r] = "running" /\ UNCHANGED after
     \/ stage[r] = "ended" /\ verdict[r] # "answer" /\ after[r] = 0
        /\ after' = [after EXCEPT ![r] = 1]
  /\ UNCHANGED <<stage, verdict, emitted, answered>>

End(r, v) ==
  /\ stage[r] = "running"
  /\ v = "answer" => r \in answered /\ heard[r] = emitted[r]
  /\ stage' = [stage EXCEPT ![r] = "ended"]
  /\ verdict' = [verdict EXCEPT ![r] = v]
  /\ UNCHANGED <<emitted, answered, heard, after>>

Next ==
  \E r \in Requests :
    \/ Begin(r) \/ Emit(r) \/ Answer(r) \/ Hear(r)
    \/ \E v \in Verdicts : End(r, v)

Spec == Init /\ [][Next]_vars
==============================================================================
