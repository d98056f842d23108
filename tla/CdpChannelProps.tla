--------------------------- MODULE CdpChannelProps ---------------------------
(***************************************************************************)
(* What CdpClient and CdpDispatcher promise the bridge.                    *)
(***************************************************************************)
EXTENDS CdpChannel

-----------------------------------------------------------------------------
(* Types                                                                     *)

Places == {"new", "captured", "registered", "waiting", "leaving", "ended"}
Endings == {"answer", "error", "closed", "timeout", "cancelled", "failed"}
Messages == [to : Requests, n : Nat]

ClientTypes ==
  /\ conn \in {None, made} /\ made \in 0..MaxConns
  /\ owner \in {"idle", "wake", "shut", "open"}
  /\ owner \in {"wake", "shut"} => conn # None
  /\ owner = "open" => conn = None

TableTypes ==
  /\ stopped \in [Conns -> BOOLEAN]
  /\ pending \in [Conns -> SUBSET Requests] /\ handlers \in [Conns -> SUBSET Requests]
  /\ responses \in [Conns -> SUBSET Requests] /\ errors \in [Conns -> SUBSET Requests]

ReaderTypes ==
  /\ reader \in [Conns -> {"none", "loop", "recv", "handle", "raised", "signal", "dead"}]
  /\ message \in [Conns -> {NoMessage} \cup Messages]
  /\ \A c \in Conns : reader[c] \in {"handle", "raised", "signal"} => message[c] \in Messages

RequestTypes ==
  /\ place \in [Requests -> Places] /\ on \in [Requests -> {None} \cup Conns]
  /\ \A r \in Requests : place[r] # "new" => on[r] \in Conns
  /\ verdict \in [Requests -> {"none"} \cup Endings]
  /\ woken \subseteq Requests /\ cancelled \subseteq Requests

PageTypes ==
  /\ socket \in [Conns -> {"none", "open", "broken", "closed"}]
  /\ \A c \in Conns : socket[c] = "none" <=> c > made
  /\ wire \in [Conns -> Seq(Messages)]
  /\ sent \subseteq Requests /\ answered \subseteq sent
  /\ \A r \in sent : place[r] \in {"waiting", "leaving", "ended"}
  /\ emitted \in [Requests -> Nat] /\ heard \in [Requests -> Nat]
  /\ \A r \in Requests : emitted[r] <= MaxEvents[r]

\* Between two calls of connect or close the client never holds a connection that
\* was closed: close clears both fields on every path.
HoldsALiveOne == owner = "idle" /\ conn # None => socket[conn] # "closed"

\* The variables have their types.
TypeOK ==
  /\ ClientTypes /\ TableTypes /\ ReaderTypes /\ RequestTypes /\ PageTypes
  /\ HoldsALiveOne
  /\ after \in [Requests -> 0..1]

-----------------------------------------------------------------------------
(* Safety                                                                    *)

InProgress == {"registered", "waiting", "leaving"}

\* unregister_request takes out all that a request has put in, and nothing is put
\* in for a request that is gone, however late its answer is: the tables of the
\* dispatcher only hold requests in progress.  (_handlerErrors is not among them:
\* the handler of a request that has ended can fail and leave its error there.)
NothingLeft ==
  \A c \in Conns, r \in Requests :
    r \in pending[c] \cup handlers[c] \cup responses[c]
      => place[r] \in InProgress /\ on[r] = c

\* When a reader ends, by a stop or by a failure of the socket, no request that has
\* registered is left to wait for its deadline: each has been woken, by the reader
\* or by the stop that has taken it from the reader's table.
LastCallWakes ==
  [][\A c \in Conns :
       reader[c] # "dead" /\ reader'[c] = "dead"
         => \A r \in Requests :
              on[r] = c /\ place[r] \in {"registered", "waiting"} => r \in woken']_vars

-----------------------------------------------------------------------------
(* The exchange of each request                                              *)

stageBar ==
  [r \in Requests |-> CASE place[r] = "new" -> "new"
                       [] place[r] = "ended" -> "ended"
                       [] OTHER -> "running"]
verdictBar == [r \in Requests |-> IF place[r] = "ended" THEN verdict[r] ELSE "none"]

Exchange == INSTANCE CdpExchange
              WITH stage <- stageBar, verdict <- verdictBar, Verdicts <- Endings

\* The channel implements the exchange: events are handled one by one in the order
\* the page sent them, an answer is returned to its own request and after all its
\* events, and at most one event is handled after its request has ended.
Correlated == Exchange!Spec
=============================================================================
