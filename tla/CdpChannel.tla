------------------------------ MODULE CdpChannel ------------------------------
(***************************************************************************)
(* The DevTools channel: threads that make requests (CdpClient.request),   *)
(* the reader thread of each connection (CdpDispatcher._reader_loop), and  *)
(* the thread that connects or closes.  The page at the other end and the  *)
(* socket are the environment.                                             *)
(*                                                                         *)
(* A request stands for one call of request and for the id it takes; it    *)
(* has an event handler.  A request made without one hears no events.      *)
(***************************************************************************)
EXTENDS Naturals, Sequences

CONSTANTS
  Requests,     \* calls of request, each made once, with its message id
  MaxConns,     \* bound: connections made
  Cancellable,  \* those made with a cancel event
  MaxEvents,    \* bound: events the page sends, per request
  Faults        \* what may go wrong: "timeout", "send", "network", "handler"

Conns == 1..MaxConns
None == 0
NoMessage == [to |-> None, n |-> 0]

ASSUME BoundsAreNatural == MaxConns \in Nat /\ MaxEvents \in [Requests -> Nat]
ASSUME CancellableAreRequests == Cancellable \subseteq Requests
ASSUME FaultsAreKnown == Faults \subseteq {"timeout", "send", "network", "handler"}

VARIABLES
  \* CdpClient
  conn,         \* _ws and _dispatcher
  made,         \* number of connections made
  owner,        \* where connect or close is, under _lock
  \* CdpDispatcher, of each connection
  stopped,      \* _stopped
  pending,      \* requests in _pendingEvents
  handlers,     \* requests in _eventHandlers
  responses,    \* requests in _responses
  errors,       \* requests in _handlerErrors
  reader,       \* where the reader thread is
  message,      \* the message it works on
  \* the requests
  place, on,    \* where each is, and the connection it has taken
  verdict,      \* how it ends
  woken,        \* requests whose event is set
  cancelled,    \* requests whose cancel event is set
  \* the environment
  socket,       \* "none", "open", "broken" by the peer or "closed"
  wire,         \* messages on their way to the reader
  sent,         \* requests the page works on
  emitted, answered,    \* events and answers of the page, per request
  \* history
  heard, after  \* events handled, and those of them after the request's end

clientVars == <<conn, made, owner>>
tableVars == <<pending, handlers, responses, errors>>
readerVars == <<reader, message>>
requestVars == <<place, on, verdict>>
pageVars == <<sent, emitted, answered>>
heardVars == <<heard, after>>
vars == <<clientVars, stopped, tableVars, readerVars, requestVars, woken, cancelled,
          socket, wire, pageVars, heardVars>>

Init ==
  /\ conn = None /\ made = 0 /\ owner = "idle"
  /\ stopped = [c \in Conns |-> FALSE]
  /\ pending = [c \in Conns |-> {}] /\ handlers = [c \in Conns |-> {}]
  /\ responses = [c \in Conns |-> {}] /\ errors = [c \in Conns |-> {}]
  /\ reader = [c \in Conns |-> "none"]
  /\ message = [c \in Conns |-> NoMessage]
  /\ place = [r \in Requests |-> "new"] /\ on = [r \in Requests |-> None]
  /\ verdict = [r \in Requests |-> "none"]
  /\ woken = {} /\ cancelled = {}
  /\ socket = [c \in Conns |-> "none"] /\ wire = [c \in Conns |-> <<>>]
  /\ sent = {} /\ emitted = [r \in Requests |-> 0] /\ answered = {}
  /\ heard = [r \in Requests |-> 0] /\ after = [r \in Requests |-> 0]

Goes(r, p) == place' = [place EXCEPT ![r] = p]
ReaderGoes(c, p) == reader' = [reader EXCEPT ![c] = p]
ReaderLoops(c) == ReaderGoes(c, "loop") /\ message' = [message EXCEPT ![c] = NoMessage]
\* The event of a request that has ended is gone.
Wakes(rs) == woken' = woken \cup {r \in rs : place[r] # "ended"}
Drop(table, r) == [table EXCEPT ![on[r]] = @ \ {r}]

-----------------------------------------------------------------------------
(* CdpClient.request                                                         *)

\* Under _lock, so not while another thread connects or closes.
Capture(r) ==
  /\ place[r] = "new" /\ owner = "idle" /\ conn # None
  /\ on' = [on EXCEPT ![r] = conn]
  /\ Goes(r, "captured")
  /\ UNCHANGED <<clientVars, stopped, tableVars, readerVars, verdict, woken, cancelled,
                 socket, wire, pageVars, heardVars>>

Register(r) ==
  /\ place[r] = "captured"
  /\ pending' = [pending EXCEPT ![on[r]] = @ \cup {r}]
  /\ handlers' = [handlers EXCEPT ![on[r]] = @ \cup {r}]
  /\ Goes(r, "registered")
  /\ UNCHANGED <<clientVars, stopped, responses, errors, readerVars, on, verdict, woken,
                 cancelled, socket, wire, pageVars, heardVars>>

\* A send to a broken connection may fail or get lost; it may time out, too.
Send(r) ==
  /\ place[r] = "registered"
  /\ \/ /\ socket[on[r]] \in {"open", "broken"}
        /\ sent' = IF socket[on[r]] = "open" THEN sent \cup {r} ELSE sent
        /\ Goes(r, "waiting") /\ UNCHANGED verdict
     \/ /\ socket[on[r]] # "open" \/ "send" \in Faults
        /\ verdict' = [verdict EXCEPT ![r] = IF r \in cancelled THEN "cancelled" ELSE "failed"]
        /\ Goes(r, "leaving") /\ UNCHANGED sent
  /\ UNCHANGED <<clientVars, stopped, tableVars, readerVars, on, woken, cancelled,
                 socket, wire, emitted, answered, heardVars>>

\* The wait ends by a cancel, by its deadline or by the event.
Wait(r) ==
  /\ place[r] = "waiting"
  /\ \/ r \in cancelled /\ verdict' = [verdict EXCEPT ![r] = "cancelled"]
     \/ "timeout" \in Faults /\ verdict' = [verdict EXCEPT ![r] = "timeout"]
     \/ r \in woken /\ UNCHANGED verdict
  /\ Goes(r, "leaving")
  /\ UNCHANGED <<clientVars, stopped, tableVars, readerVars, on, woken, cancelled,
                 socket, wire, pageVars, heardVars>>

\* Mutant: the event handler stays.
DropPending(r) ==
  /\ pending' = Drop(pending, r) /\ responses' = Drop(responses, r)
  /\ errors' = Drop(errors, r) /\ UNCHANGED handlers

Unregister(r) ==
  /\ pending' = Drop(pending, r) /\ handlers' = Drop(handlers, r)
  /\ responses' = Drop(responses, r) /\ errors' = Drop(errors, r)

\* unregister_request takes out what there is, and the rest of request judges it.
Leave(r) ==
  /\ place[r] = "leaving"
  /\ Unregister(r)
  /\ verdict' = [verdict EXCEPT ![r] =
       CASE @ # "none" -> @
         [] @ = "none" /\ r \in errors[on[r]] \ cancelled -> "error"
         [] @ = "none" /\ r \in responses[on[r]] \ errors[on[r]] -> "answer"
         [] @ = "none" /\ r \notin responses[on[r]] \cup errors[on[r]] \cup cancelled -> "closed"
         [] OTHER -> "cancelled"]
  /\ woken' = woken \ {r}
  /\ Goes(r, "ended")
  /\ UNCHANGED <<clientVars, stopped, readerVars, on, cancelled,
                 socket, wire, pageVars, heardVars>>

-----------------------------------------------------------------------------
(* CdpDispatcher._reader_loop                                                *)

\* Mutant: a response is kept whether or not it is waited for.
KeepAny(c, m) == TRUE
Expected(c, m) == m.to \in pending[c]

\* The flag is read before recv, which a stop then no longer keeps from a message.
Poll(c) ==
  /\ reader[c] = "loop" /\ ~stopped[c]
  /\ ReaderGoes(c, "recv")
  /\ UNCHANGED <<clientVars, stopped, tableVars, message, requestVars, woken, cancelled,
                 socket, wire, pageVars, heardVars>>

\* One message is taken and, under _stateLock, the handlers and the pending event
\* it is for.  An event reaches all handlers; only its own acts on it.
IsAnswer(m) == m.n = 0
Receive(c) ==
  /\ reader[c] = "recv"
  /\ wire[c] # <<>> /\ socket[c] # "closed"
  /\ LET m == Head(wire[c])
         audience == IF IsAnswer(m) THEN pending[c] ELSE handlers[c] IN
       /\ responses' = IF IsAnswer(m) /\ Expected(c, m)
                       THEN [responses EXCEPT ![c] = @ \cup {m.to}] ELSE responses
       /\ IF m.to \in audience
          THEN /\ message' = [message EXCEPT ![c] = m]
               /\ ReaderGoes(c, IF IsAnswer(m) THEN "signal" ELSE "handle")
          ELSE ReaderLoops(c)
  /\ wire' = [wire EXCEPT ![c] = Tail(@)]
  /\ UNCHANGED <<clientVars, stopped, pending, handlers, errors, requestVars, woken,
                 cancelled, socket, pageVars, heardVars>>

\* The handler runs without a lock: its request may have ended.
Handle(c) ==
  /\ reader[c] = "handle"
  /\ LET r == message[c].to IN
       /\ heard' = [heard EXCEPT ![r] = message[c].n]
       /\ after' = IF place[r] = "ended" THEN [after EXCEPT ![r] = @ + 1] ELSE after
  /\ \/ ReaderLoops(c)
     \/ "handler" \in Faults /\ ReaderGoes(c, "raised") /\ UNCHANGED message
  /\ UNCHANGED <<clientVars, stopped, tableVars, requestVars, woken, cancelled,
                 socket, wire, pageVars>>

\* The error is noted even for a request that is gone, and wakes it if it waits.
NoteError(c) ==
  /\ reader[c] = "raised"
  /\ LET r == message[c].to IN
       /\ errors' = [errors EXCEPT ![c] = @ \cup {r}]
       /\ Wakes({r} \cap pending[c])
  /\ ReaderLoops(c)
  /\ UNCHANGED <<clientVars, stopped, pending, handlers, responses, requestVars,
                 cancelled, socket, wire, pageVars, heardVars>>

\* After the handlers of its message, the event of an answered request is set.
Signal(c) ==
  /\ reader[c] = "signal"
  /\ Wakes({message[c].to})
  /\ ReaderLoops(c)
  /\ UNCHANGED <<clientVars, stopped, tableVars, requestVars, cancelled,
                 socket, wire, pageVars, heardVars>>

\* A reader that finds it is stopped (recv gives up every 0.05 s), or whose socket
\* fails, wakes all that wait; what is on the wire is lost.
Finish(c) ==
  /\ \/ reader[c] \in {"loop", "recv"} /\ stopped[c]
     \/ reader[c] = "recv" /\ socket[c] # "open"
  /\ Wakes(pending[c])
  /\ ReaderGoes(c, "dead")
  /\ wire' = [wire EXCEPT ![c] = <<>>]
  /\ UNCHANGED <<clientVars, stopped, tableVars, message, requestVars, cancelled,
                 socket, pageVars, heardVars>>

-----------------------------------------------------------------------------
(* CdpClient.connect and close                                               *)

\* The flag of stop() is set before its lock is taken ...
Stop ==
  /\ owner = "idle" /\ conn # None
  /\ stopped' = [stopped EXCEPT ![conn] = TRUE]
  /\ owner' = "wake"
  /\ UNCHANGED <<conn, made, tableVars, readerVars, requestVars, woken, cancelled,
                 socket, wire, pageVars, heardVars>>

\* Mutant: the pending requests are forgotten.
ForgetAll == UNCHANGED woken
SetAll == Wakes(pending[conn])

\* ... and under it all that wait are woken and forgotten ...
WakeAll ==
  /\ owner = "wake"
  /\ SetAll
  /\ pending' = [pending EXCEPT ![conn] = {}]
  /\ handlers' = [handlers EXCEPT ![conn] = {}]
  /\ errors' = [errors EXCEPT ![conn] = {}]
  /\ owner' = "shut"
  /\ UNCHANGED <<conn, made, stopped, responses, readerVars, requestVars, cancelled,
                 socket, wire, pageVars, heardVars>>

\* Mutant: the connection stays in its field.
LeaveConn == UNCHANGED conn
ForgetConn == conn' = None

\* ... before the socket is closed; connect goes on to open another.
Shut ==
  /\ owner = "shut"
  /\ socket' = [socket EXCEPT ![conn] = "closed"]
  /\ wire' = [wire EXCEPT ![conn] = <<>>]
  /\ ForgetConn
  /\ owner' \in {"idle", "open"}
  /\ UNCHANGED <<made, stopped, tableVars, readerVars, requestVars, woken, cancelled,
                 pageVars, heardVars>>

\* connect, which has closed what there was; it may fail.
Open ==
  /\ owner = "open" \/ (owner = "idle" /\ conn = None)
  /\ owner' = "idle"
  /\ \/ /\ made < MaxConns
        /\ made' = made + 1 /\ conn' = made + 1
        /\ socket' = [socket EXCEPT ![made + 1] = "open"]
        /\ ReaderGoes(made + 1, "loop")
     \/ owner = "open" /\ UNCHANGED <<made, conn, socket, reader>>
  /\ UNCHANGED <<stopped, tableVars, message, requestVars, woken, cancelled,
                 wire, pageVars, heardVars>>

-----------------------------------------------------------------------------
(* The environment                                                           *)

\* The page works on requests at the same time, and answers each once.
Works(r) == r \in sent \ answered /\ socket[on[r]] = "open"
Puts(r, n) ==
  wire' = IF reader[on[r]] = "dead" THEN wire
          ELSE [wire EXCEPT ![on[r]] = Append(@, [to |-> r, n |-> n])]

Emit(r) ==
  /\ Works(r) /\ emitted[r] < MaxEvents[r]
  /\ emitted' = [emitted EXCEPT ![r] = @ + 1]
  /\ Puts(r, emitted[r] + 1)
  /\ UNCHANGED <<clientVars, stopped, tableVars, readerVars, requestVars, woken, cancelled,
                 socket, sent, answered, heardVars>>

Answer(r) ==
  /\ Works(r)
  /\ answered' = answered \cup {r}
  /\ Puts(r, 0)
  /\ UNCHANGED <<clientVars, stopped, tableVars, readerVars, requestVars, woken, cancelled,
                 socket, sent, emitted, heardVars>>

Break(c) ==
  /\ "network" \in Faults /\ socket[c] = "open"
  /\ socket' = [socket EXCEPT ![c] = "broken"]
  /\ UNCHANGED <<clientVars, stopped, tableVars, readerVars, requestVars, woken, cancelled,
                 wire, pageVars, heardVars>>

Cancel(r) ==
  /\ r \in Cancellable \ cancelled /\ place[r] \notin {"new", "ended"}
  /\ cancelled' = cancelled \cup {r}
  /\ UNCHANGED <<clientVars, stopped, tableVars, readerVars, requestVars, woken,
                 socket, wire, pageVars, heardVars>>

-----------------------------------------------------------------------------
Call(r) == Capture(r) \/ Register(r) \/ Send(r) \/ Wait(r) \/ Leave(r)
Read(c) == Poll(c) \/ Receive(c) \/ Handle(c) \/ NoteError(c) \/ Signal(c) \/ Finish(c)
Own == Stop \/ WakeAll \/ Shut \/ Open

Next ==
  \/ \E r \in Requests : Call(r) \/ Emit(r) \/ Answer(r) \/ Cancel(r)
  \/ \E c \in Conns : Read(c) \/ Break(c)
  \/ Own

Spec == Init /\ [][Next]_vars
=============================================================================
