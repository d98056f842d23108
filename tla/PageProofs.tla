----------------------------- MODULE PageProofs -----------------------------
(***************************************************************************)
(* Both ends of a command, for any requests, connections, events and calls,*)
(* and any faults.                                                         *)
(*                                                                         *)
(* The page: what it tells a session, for any number of speeches, preloads,*)
(* segments, chunks and stops.  The argument: the session of the current   *)
(* token is the only one that is told audio, what it was told and what the *)
(* page keeps for it are in the order of its text up to where the engine is,*)
(* and calls that run at the same time cross.                              *)
(*                                                                         *)
(* The channel: the wire holds what the page sent and the client has not   *)
(* read, in order (Queued), and a reader handles nothing of a request that *)
(* the tables no longer name, but what it had taken before (Late).         *)
(***************************************************************************)
EXTENDS MCPage, SequenceTheorems, TLAPS

-----------------------------------------------------------------------------
(* The channel                                                             *)

USE BoundsAreNatural, CancellableAreRequests
    DEF Conns, None, clientVars, tableVars, readerVars, requestVars, pageVars, heardVars

-----------------------------------------------------------------------------
(* Messages on the wire.  An answer has the number 0, events count from 1.      *)

Answers(m, r) == m.to = r /\ m.n = 0
Tells(m, r) == m.to = r /\ m.n > 0

\* The wire q holds the events of r with the numbers g + 1 to e, in this order,
\* and at most its answer behind them, if r is in a.
Queued(q, r, g, e, a) ==
  /\ \A i \in 1..Len(q) : Tells(q[i], r) => g < q[i].n /\ q[i].n <= e
  /\ \A n \in (g + 1)..e : \E i \in 1..Len(q) : q[i].to = r /\ q[i].n = n
  /\ \A i, j \in 1..Len(q) :
       i < j /\ q[i].to = r /\ q[j].to = r
         => q[i].n > 0 /\ (q[j].n > 0 => q[i].n < q[j].n)
  /\ \A i \in 1..Len(q) : Answers(q[i], r) => r \in a

LEMMA AppendFacts ==
  ASSUME NEW q \in Seq(Messages), NEW m \in Messages
  PROVE  /\ Append(q, m) \in Seq(Messages)
         /\ Len(Append(q, m)) = Len(q) + 1 /\ Len(q) \in Nat
         /\ \A i \in 1..Len(q) : Append(q, m)[i] = q[i]
         /\ \A i \in 1..Len(q) : q[i] \in Messages /\ q[i].n \in Nat
         /\ Append(q, m)[Len(q) + 1] = m
<1>1. \A i \in 1..Len(q) : q[i] \in Messages
  BY ElementOfSeq
<1>2. \A i \in 1..Len(q) : q[i].n \in Nat
  BY <1>1 DEF Messages
<1>3. Append(q, m) \in Seq(Messages) /\ Len(Append(q, m)) = Len(q) + 1 /\ Len(q) \in Nat
  BY AppendProperties, LenProperties
<1>4. \A i \in 1..Len(q) : Append(q, m)[i] = q[i]
  BY AppendProperties
<1>5. Append(q, m)[Len(q) + 1] = m
  BY AppendProperties
<1> QED BY <1>1, <1>2, <1>3, <1>4, <1>5

LEMMA TailFacts ==
  ASSUME NEW q \in Seq(Messages), q # <<>>
  PROVE  /\ Tail(q) \in Seq(Messages) /\ Head(q) \in Messages /\ Head(q) = q[1]
         /\ Len(q) \in Nat \ {0} /\ Len(Tail(q)) = Len(q) - 1
         /\ \A i \in 1..Len(Tail(q)) : Tail(q)[i] = q[i + 1]
         /\ \A i \in 1..Len(q) : q[i] \in Messages /\ q[i].n \in Nat
<1>1. \A i \in 1..Len(q) : q[i] \in Messages
  BY ElementOfSeq
<1>2. \A i \in 1..Len(q) : q[i].n \in Nat
  BY <1>1 DEF Messages
<1>3. Len(q) \in Nat \ {0}
  BY LenProperties, EmptySeq
<1>4. Tail(q) \in Seq(Messages) /\ Head(q) \in Messages /\ Head(q) = q[1]
  BY <1>1, <1>3, HeadTailProperties
<1>5. Len(Tail(q)) = Len(q) - 1
  BY HeadTailProperties
<1>6. \A i \in 1..Len(Tail(q)) : Tail(q)[i] = q[i + 1]
  BY HeadTailProperties
<1> QED BY <1>1, <1>2, <1>3, <1>4, <1>5, <1>6

\* What is put on the wire for another request does not matter.
LEMMA QueuedOther ==
  ASSUME NEW q \in Seq(Messages), NEW m \in Messages, NEW r, NEW g \in Nat, NEW e \in Nat,
         NEW a, NEW b, Queued(q, r, g, e, a), m.to # r, r \in a => r \in b
  PROVE  Queued(Append(q, m), r, g, e, b)
<1> DEFINE w == Append(q, m)
<1>1. Len(w) = Len(q) + 1 /\ Len(q) \in Nat
  BY AppendFacts
<1>2. \A i \in 1..Len(w) : w[i].to = r => i \in 1..Len(q) /\ w[i] = q[i] /\ q[i].n \in Nat
  BY AppendFacts
<1>3. \A i \in 1..Len(q) : i \in 1..Len(w) /\ w[i] = q[i]
  BY AppendFacts
<1> HIDE DEF w
<1>4. Queued(w, r, g, e, b)
  BY <1>1, <1>2, <1>3 DEF Queued, Tells, Answers
<1> QED BY <1>4 DEF w

\* The next event is put on the wire.
LEMMA QueuedEvent ==
  ASSUME NEW q \in Seq(Messages), NEW r \in Requests, NEW g \in Nat, NEW e \in Nat, NEW a,
         Queued(q, r, g, e, a), r \notin a, g <= e
  PROVE  Queued(Append(q, [to |-> r, n |-> e + 1]), r, g, e + 1, a)
<1> DEFINE m == [to |-> r, n |-> e + 1]
           w == Append(q, m)
<1>0. m \in Messages /\ m.to = r /\ m.n = e + 1
  BY DEF Messages
<1> HIDE DEF m
<1>1. Len(w) = Len(q) + 1 /\ Len(q) \in Nat /\ w[Len(w)] = m /\ Len(w) \in 1..Len(w)
  BY <1>0, AppendFacts
<1>2. \A i \in 1..Len(q) : i \in 1..Len(w) /\ w[i] = q[i] /\ q[i].n \in Nat
  BY <1>0, AppendFacts
<1>3. \A i \in 1..Len(w) : i \in 1..Len(q) \/ i = Len(w)
  BY <1>1
<1> HIDE DEF w
<1>4. \A i \in 1..Len(q) : q[i].to = r => 0 < q[i].n /\ g < q[i].n /\ q[i].n <= e
  BY <1>2 DEF Queued, Tells, Answers
<1>5. \A i \in 1..Len(w) : Tells(w[i], r) => g < w[i].n /\ w[i].n <= e + 1
  BY <1>0, <1>1, <1>2, <1>3, <1>4 DEF Tells
<1>6. \A n \in (g + 1)..(e + 1) : \E i \in 1..Len(w) : w[i].to = r /\ w[i].n = n
  <2> TAKE n \in (g + 1)..(e + 1)
  <2>1. CASE n = e + 1
    BY <2>1, <1>0, <1>1
  <2>2. CASE n # e + 1
    <3>1. n \in (g + 1)..e
      BY <2>2
    <3> QED BY <3>1, <1>2 DEF Queued
  <2> QED BY <2>1, <2>2
<1>7. \A i, j \in 1..Len(w) :
        i < j /\ w[i].to = r /\ w[j].to = r
          => w[i].n > 0 /\ (w[j].n > 0 => w[i].n < w[j].n)
  <2> TAKE i, j \in 1..Len(w)
  <2> HAVE i < j /\ w[i].to = r /\ w[j].to = r
  <2>1. i \in 1..Len(q)
    BY <1>1, <1>3
  <2>2. CASE j = Len(w)
    BY <2>1, <2>2, <1>0, <1>1, <1>2, <1>4
  <2>3. CASE j \in 1..Len(q)
    BY <2>1, <2>3, <1>2 DEF Queued
  <2> QED BY <2>2, <2>3, <1>3
<1>8. \A i \in 1..Len(w) : Answers(w[i], r) => r \in a
  BY <1>0, <1>1, <1>2, <1>3 DEF Queued, Answers
<1>9. Queued(w, r, g, e + 1, a)
  BY <1>5, <1>6, <1>7, <1>8 DEF Queued
<1> QED BY <1>9 DEF w, m

\* The answer is put on the wire.
LEMMA QueuedAnswer ==
  ASSUME NEW q \in Seq(Messages), NEW r \in Requests, NEW g \in Nat, NEW e \in Nat, NEW a,
         Queued(q, r, g, e, a), r \notin a
  PROVE  Queued(Append(q, [to |-> r, n |-> 0]), r, g, e, a \cup {r})
<1> DEFINE m == [to |-> r, n |-> 0]
           w == Append(q, m)
<1>0. m \in Messages /\ m.to = r /\ m.n = 0
  BY DEF Messages
<1> HIDE DEF m
<1>1. Len(w) = Len(q) + 1 /\ Len(q) \in Nat /\ w[Len(w)] = m
  BY <1>0, AppendFacts
<1>2. \A i \in 1..Len(q) : i \in 1..Len(w) /\ w[i] = q[i] /\ q[i].n \in Nat
  BY <1>0, AppendFacts
<1>3. \A i \in 1..Len(w) : i \in 1..Len(q) \/ i = Len(w)
  BY <1>1
<1> HIDE DEF w
<1>4. \A i \in 1..Len(q) : q[i].to = r => 0 < q[i].n /\ g < q[i].n /\ q[i].n <= e
  BY <1>2 DEF Queued, Tells, Answers
<1>5. \A i \in 1..Len(w) : Tells(w[i], r) => g < w[i].n /\ w[i].n <= e
  BY <1>0, <1>1, <1>2, <1>3, <1>4 DEF Tells
<1>6. \A n \in (g + 1)..e : \E i \in 1..Len(w) : w[i].to = r /\ w[i].n = n
  BY <1>2 DEF Queued
<1>7. \A i, j \in 1..Len(w) :
        i < j /\ w[i].to = r /\ w[j].to = r
          => w[i].n > 0 /\ (w[j].n > 0 => w[i].n < w[j].n)
  <2> TAKE i, j \in 1..Len(w)
  <2> HAVE i < j /\ w[i].to = r /\ w[j].to = r
  <2>1. i \in 1..Len(q)
    BY <1>1, <1>3
  <2>2. CASE j = Len(w)
    BY <2>1, <2>2, <1>0, <1>1, <1>2, <1>4
  <2>3. CASE j \in 1..Len(q)
    BY <2>1, <2>3, <1>2 DEF Queued
  <2> QED BY <2>2, <2>3, <1>3
<1>9. Queued(w, r, g, e, a \cup {r})
  BY <1>5, <1>6, <1>7 DEF Queued
<1> QED BY <1>9 DEF w, m

\* A message for another request is taken from the wire.
LEMMA QueuedTail ==
  ASSUME NEW q \in Seq(Messages), q # <<>>, NEW r, NEW g \in Nat, NEW e \in Nat, NEW a,
         Queued(q, r, g, e, a), Head(q).to # r
  PROVE  Queued(Tail(q), r, g, e, a)
<1> DEFINE w == Tail(q)
<1>1. Len(w) = Len(q) - 1 /\ Len(q) \in Nat \ {0}
  BY TailFacts
<1>2. \A i \in 1..Len(w) : i + 1 \in 1..Len(q) /\ w[i] = q[i + 1]
  BY TailFacts
<1>3. \A i \in 1..Len(q) : q[i].to = r => i - 1 \in 1..Len(w) /\ w[i - 1] = q[i]
  <2> TAKE i \in 1..Len(q)
  <2> HAVE q[i].to = r
  <2>1. i # 1
    BY TailFacts
  <2>2. i - 1 \in 1..Len(w) /\ (i - 1) + 1 = i
    BY <2>1, <1>1
  <2> QED BY <2>2, <1>2
<1> HIDE DEF w
<1>4. \A n \in (g + 1)..e : \E i \in 1..Len(w) : w[i].to = r /\ w[i].n = n
  <2> TAKE n \in (g + 1)..e
  <2>1. PICK i \in 1..Len(q) : q[i].to = r /\ q[i].n = n
    BY DEF Queued
  <2>2. i - 1 \in 1..Len(w) /\ w[i - 1] = q[i]
    BY <1>3, <2>1
  <2> QED BY <2>1, <2>2
<1>5. \A i, j \in 1..Len(w) :
        i < j /\ w[i].to = r /\ w[j].to = r
          => w[i].n > 0 /\ (w[j].n > 0 => w[i].n < w[j].n)
  <2> TAKE i, j \in 1..Len(w)
  <2> HAVE i < j /\ w[i].to = r /\ w[j].to = r
  <2>1. i + 1 \in 1..Len(q) /\ j + 1 \in 1..Len(q) /\ i + 1 < j + 1
    BY <1>1, <1>2
  <2>2. q[i + 1].to = r /\ q[j + 1].to = r
    BY <1>2
  <2>3. q[i + 1].n > 0 /\ (q[j + 1].n > 0 => q[i + 1].n < q[j + 1].n)
    BY <2>1, <2>2 DEF Queued
  <2> QED BY <2>3, <1>2
<1>6. Queued(w, r, g, e, a)
  BY <1>2, <1>4, <1>5 DEF Queued
<1> QED BY <1>6 DEF w

\* An event of the request is taken: it is the next one.
LEMMA QueuedTakesEvent ==
  ASSUME NEW q \in Seq(Messages), q # <<>>, NEW r, NEW g \in Nat, NEW e \in Nat, NEW a,
         Queued(q, r, g, e, a), Tells(Head(q), r)
  PROVE  Head(q).n = g + 1 /\ g + 1 <= e /\ Queued(Tail(q), r, g + 1, e, a)
<1> DEFINE w == Tail(q)
<1>1. Len(w) = Len(q) - 1 /\ Len(q) \in Nat \ {0} /\ q[1].n \in Nat /\ q[1] = Head(q)
  BY TailFacts
<1>2. \A i \in 1..Len(w) : i + 1 \in 1..Len(q) /\ w[i] = q[i + 1] /\ w[i].n \in Nat
  BY TailFacts
<1>3. \A i \in 1..Len(q) : i # 1 => i - 1 \in 1..Len(w) /\ w[i - 1] = q[i]
  <2> TAKE i \in 1..Len(q)
  <2> HAVE i # 1
  <2>1. i - 1 \in 1..Len(w) /\ (i - 1) + 1 = i
    BY <1>1
  <2> QED BY <2>1, <1>2
<1> HIDE DEF w
<1>4. g < q[1].n /\ q[1].n <= e /\ q[1].to = r /\ q[1].n > 0
  BY <1>1 DEF Queued, Tells
<1>5. \A i \in 1..Len(w) : w[i].to = r /\ w[i].n > 0 => q[1].n < w[i].n
  BY <1>1, <1>2, <1>4, SMTT(30) DEF Queued
<1>6. q[1].n = g + 1
  <2> SUFFICES ASSUME q[1].n # g + 1 PROVE FALSE
    OBVIOUS
  <2>1. g + 1 \in (g + 1)..e /\ g + 1 < q[1].n /\ g + 1 > 0
    BY <1>1, <1>4
  <2>2. PICK i \in 1..Len(q) : q[i].to = r /\ q[i].n = g + 1
    BY <2>1 DEF Queued
  <2>3. i # 1
    BY <2>1, <2>2
  <2>4. i - 1 \in 1..Len(w) /\ w[i - 1].to = r /\ w[i - 1].n = g + 1
    BY <1>3, <2>2, <2>3
  <2>5. q[1].n < g + 1
    BY <1>5, <2>1, <2>4
  <2> QED BY <1>1, <2>1, <2>5
<1>7. \A i \in 1..Len(w) : Tells(w[i], r) => g + 1 < w[i].n /\ w[i].n <= e
  <2> TAKE i \in 1..Len(w)
  <2> HAVE Tells(w[i], r)
  <2>1. g + 1 < w[i].n
    BY <1>5, <1>6 DEF Tells
  <2>2. i + 1 \in 1..Len(q) /\ w[i] = q[i + 1]
    BY <1>2
  <2>3. w[i].n <= e
    BY <2>2 DEF Queued
  <2> QED BY <2>1, <2>3
<1>8. \A n \in (g + 2)..e : \E i \in 1..Len(w) : w[i].to = r /\ w[i].n = n
  <2> TAKE n \in (g + 2)..e
  <2>1. n \in (g + 1)..e /\ n # g + 1
    OBVIOUS
  <2>2. PICK i \in 1..Len(q) : q[i].to = r /\ q[i].n = n
    BY <2>1 DEF Queued
  <2>3. i # 1
    BY <2>1, <2>2, <1>6
  <2> QED BY <1>3, <2>2, <2>3
<1>9. \A i, j \in 1..Len(w) :
        i < j /\ w[i].to = r /\ w[j].to = r
          => w[i].n > 0 /\ (w[j].n > 0 => w[i].n < w[j].n)
  <2> TAKE i, j \in 1..Len(w)
  <2> HAVE i < j /\ w[i].to = r /\ w[j].to = r
  <2>1. i + 1 \in 1..Len(q) /\ j + 1 \in 1..Len(q) /\ i + 1 < j + 1
    BY <1>1, <1>2
  <2>2. q[i + 1].to = r /\ q[j + 1].to = r
    BY <1>2
  <2>3. q[i + 1].n > 0 /\ (q[j + 1].n > 0 => q[i + 1].n < q[j + 1].n)
    BY <2>1, <2>2 DEF Queued
  <2> QED BY <2>3, <1>2
<1>10. \A n \in ((g + 1) + 1)..e : \E i \in 1..Len(w) : w[i].to = r /\ w[i].n = n
  BY <1>8
<1>11. Queued(w, r, g + 1, e, a)
  BY <1>2, <1>7, <1>9, <1>10 DEF Queued
<1> QED BY <1>1, <1>4, <1>6, <1>11 DEF w

\* The answer is taken: all events were taken before it, and nothing follows.
LEMMA QueuedTakesAnswer ==
  ASSUME NEW q \in Seq(Messages), q # <<>>, NEW r, NEW g \in Nat, NEW e \in Nat, NEW a,
         Queued(q, r, g, e, a), Answers(Head(q), r), g <= e
  PROVE  /\ g = e /\ r \in a
         /\ \A i \in 1..Len(Tail(q)) : Tail(q)[i].to # r
         /\ Queued(Tail(q), r, g, e, a)
<1> DEFINE w == Tail(q)
<1>1. Len(w) = Len(q) - 1 /\ Len(q) \in Nat \ {0} /\ q[1] = Head(q) /\ q[1].to = r /\ q[1].n = 0
  BY TailFacts DEF Answers
<1>2. \A i \in 1..Len(q) : q[i].to = r => i = 1
  BY <1>1 DEF Queued
<1>3. \A i \in 1..Len(w) : i + 1 \in 1..Len(q) /\ i + 1 # 1 /\ w[i] = q[i + 1]
  BY TailFacts
<1> HIDE DEF w
<1>4. \A i \in 1..Len(w) : w[i].to # r
  BY <1>2, <1>3
<1>5. ~(g + 1 <= e)
  <2> SUFFICES ASSUME g + 1 <= e PROVE FALSE
    OBVIOUS
  <2>1. PICK i \in 1..Len(q) : q[i].to = r /\ q[i].n = g + 1
    BY DEF Queued
  <2> QED BY <1>1, <1>2, <2>1
<1>6. g = e
  BY <1>5
<1>7. r \in a
  BY <1>1 DEF Queued
<1>8. Queued(w, r, g, e, a)
  BY <1>4, <1>6 DEF Queued, Tells, Answers
<1> QED BY <1>4, <1>6, <1>7, <1>8 DEF w
-----------------------------------------------------------------------------
(* The invariant                                                             *)

Handling(c, r) == reader[c] = "handle" /\ message[c].to = r

\* Messages are for requests that were sent on the same connection.
Routed ==
  \A c \in Conns :
    /\ \A i \in 1..Len(wire[c]) : wire[c][i].to \in sent /\ on[wire[c][i].to] = c
    /\ reader[c] = "handle" => message[c].to \in sent /\ on[message[c].to] = c

\* A connection that is not made has no reader.
Unborn == \A c \in Conns : c > made => reader[c] = "none"

\* Requests come into the tables and go from them together with their handlers.
Tables == NothingLeft /\ \A c \in Conns : pending[c] = handlers[c]

\* An event being handled is the next one.
Due ==
  /\ \A r \in Requests : heard[r] <= emitted[r] /\ (r \notin sent => emitted[r] = 0)
  /\ \A c \in Conns :
       reader[c] = "handle" =>
         /\ message[c].n = heard[message[c].to] + 1
         /\ message[c].n <= emitted[message[c].to]

\* What a reader has still to take for a request that has a handler is on the wire.
Got(c, r) == IF Handling(c, r) THEN heard[r] + 1 ELSE heard[r]
Reads(c) == socket[c] # "closed" /\ reader[c] # "dead"
Ordered ==
  \A c \in Conns : Reads(c) =>
    \A r \in handlers[c] : Queued(wire[c], r, Got(c, r), emitted[r], answered)

\* A response that is kept comes after all events.
Complete ==
  \A c \in Conns : \A r \in responses[c] :
    /\ r \in answered /\ heard[r] = emitted[r]
    /\ ~Handling(c, r) /\ \A i \in 1..Len(wire[c]) : wire[c][i].to # r

\* After an answer no event is handled, and after another end one at most.
Late ==
  \A r \in Requests :
    /\ after[r] \in 0..1
    /\ place[r] # "ended" => after[r] = 0 /\ verdict[r] # "answer"
    /\ after[r] = 1 \/ verdict[r] = "answer" => \A c \in Conns : ~Handling(c, r)

\* Who waits is known to the reader or has been woken.
Waking ==
  \A r \in Requests :
    place[r] \in InProgress => r \in pending[on[r]] \cup woken

-----------------------------------------------------------------------------
(* Type correctness                                                          *)

Typed ==
  /\ ClientTypes /\ TableTypes /\ ReaderTypes /\ RequestTypes /\ PageTypes
  /\ HoldsALiveOne
  /\ after \in [Requests -> Nat]

LEMMA ClientKept == Typed /\ Next => ClientTypes'
<1> SUFFICES ASSUME Typed, Next PROVE ClientTypes'
  OBVIOUS
<1> USE DEF Typed, ClientTypes
<1>1. CASE Stop
  BY <1>1 DEF Stop
<1>2. CASE WakeAll
  BY <1>2 DEF WakeAll
<1>3. CASE Shut
  BY <1>3 DEF Shut, ForgetConn
<1>4. CASE Open
  BY <1>4 DEF Open
<1>5. CASE UNCHANGED clientVars
  BY <1>5
<1> QED
  BY <1>1, <1>2, <1>3, <1>4, <1>5
     DEF Next, Call, Read, Own, Capture, Register, Send, Wait, Leave, Poll, Receive, Handle,
         NoteError, Signal, Finish, Emit, Answer, Break, Cancel

LEMMA TablesTypesKept == Typed /\ Next => TableTypes'
<1> SUFFICES ASSUME Typed, Next PROVE TableTypes'
  OBVIOUS
<1> USE DEF Typed, TableTypes
<1>1. ASSUME NEW r \in Requests, Register(r) PROVE TableTypes'
  BY <1>1 DEF Register
<1>2. ASSUME NEW r \in Requests, Leave(r) PROVE TableTypes'
  BY <1>2 DEF Leave, Unregister, Drop
<1>3. ASSUME NEW c \in Conns, Receive(c) PROVE TableTypes'
  BY <1>3 DEF Receive, Expected
<1>4. ASSUME NEW c \in Conns, NoteError(c) PROVE TableTypes'
  BY <1>4 DEF NoteError, ReaderTypes, Messages
<1>5. CASE Stop
  BY <1>5 DEF Stop
<1>6. CASE WakeAll
  BY <1>6 DEF WakeAll
<1>7. CASE UNCHANGED <<stopped, tableVars>>
  BY <1>7
<1> QED
  BY <1>1, <1>2, <1>3, <1>4, <1>5, <1>6, <1>7
     DEF Next, Call, Read, Own, Capture, Send, Wait, Poll, Handle,
         Signal, Finish, Shut, Open, Emit, Answer, Break, Cancel

LEMMA ReaderTypesKept == Typed /\ Next => ReaderTypes'
<1> SUFFICES ASSUME Typed, Next PROVE ReaderTypes'
  OBVIOUS
<1> USE DEF Typed, ReaderTypes, ReaderGoes
<1>1. ASSUME NEW c \in Conns, Poll(c) PROVE ReaderTypes'
  BY <1>1 DEF Poll
<1>2. ASSUME NEW c \in Conns, Receive(c) PROVE ReaderTypes'
  <2>1. Head(wire[c]) \in Messages
    BY <1>2, TailFacts DEF Receive, PageTypes
  <2> QED BY <1>2, <2>1 DEF Receive, ReaderLoops
<1>3. ASSUME NEW c \in Conns, Handle(c) PROVE ReaderTypes'
  BY <1>3 DEF Handle, ReaderLoops
<1>4. ASSUME NEW c \in Conns, NoteError(c) PROVE ReaderTypes'
  BY <1>4 DEF NoteError, ReaderLoops
<1>5. ASSUME NEW c \in Conns, Signal(c) PROVE ReaderTypes'
  BY <1>5 DEF Signal, ReaderLoops
<1>6. ASSUME NEW c \in Conns, Finish(c) PROVE ReaderTypes'
  BY <1>6 DEF Finish
<1>7. CASE Open
  BY <1>7 DEF Open, ClientTypes
<1>8. CASE UNCHANGED readerVars
  BY <1>8
<1> QED
  BY <1>1, <1>2, <1>3, <1>4, <1>5, <1>6, <1>7, <1>8
     DEF Next, Call, Read, Own, Capture, Register, Send, Wait, Leave, Stop, WakeAll, Shut,
         Emit, Answer, Break, Cancel

LEMMA WokenKept ==
  ASSUME Typed, NEW rs \in SUBSET Requests, Wakes(rs)
  PROVE  woken' \subseteq Requests
  BY DEF Typed, RequestTypes, Wakes

LEMMA RequestTypesKept == Typed /\ Next => RequestTypes'
<1> SUFFICES ASSUME Typed, Next PROVE RequestTypes'
  OBVIOUS
<1> USE DEF Typed, RequestTypes, Places, Endings, Goes
<1>1. ASSUME NEW r \in Requests, Capture(r) PROVE RequestTypes'
  BY <1>1 DEF Capture, ClientTypes
<1>2. ASSUME NEW r \in Requests, Register(r) PROVE RequestTypes'
  BY <1>2 DEF Register
<1>3. ASSUME NEW r \in Requests, Send(r) PROVE RequestTypes'
  BY <1>3 DEF Send
<1>4. ASSUME NEW r \in Requests, Wait(r) PROVE RequestTypes'
  BY <1>4 DEF Wait
<1>5. ASSUME NEW r \in Requests, Leave(r) PROVE RequestTypes'
  BY <1>5 DEF Leave
<1>6. ASSUME NEW r \in Requests, Cancel(r) PROVE RequestTypes'
  BY <1>6 DEF Cancel
<1>7. CASE UNCHANGED <<requestVars, cancelled>> /\ woken' \subseteq Requests
  BY <1>7
<1>8. ASSUME NEW c \in Conns, NoteError(c) \/ Signal(c) \/ Finish(c) PROVE RequestTypes'
  <2>1. message[c].to \in Requests \/ reader[c] \notin {"raised", "signal"}
    BY DEF ReaderTypes, Messages
  <2>2. {message[c].to} \in SUBSET Requests \/ reader[c] \notin {"raised", "signal"}
    BY <2>1
  <2>3. pending[c] \in SUBSET Requests /\ {message[c].to} \cap pending[c] \in SUBSET Requests
    BY DEF TableTypes
  <2>4. woken' \subseteq Requests
    BY <1>8, <2>2, <2>3, WokenKept DEF NoteError, Signal, Finish
  <2> QED BY <1>7, <1>8, <2>4 DEF NoteError, Signal, Finish
<1>9. CASE WakeAll
  <2>1. pending[conn] \in SUBSET Requests
    BY <1>9 DEF WakeAll, ClientTypes, TableTypes
  <2>2. woken' \subseteq Requests
    BY <1>9, <2>1, WokenKept DEF WakeAll, SetAll
  <2> QED BY <1>7, <1>9, <2>2 DEF WakeAll
<1>10. CASE UNCHANGED <<requestVars, cancelled, woken>>
  BY <1>10
<1> QED
  BY <1>1, <1>2, <1>3, <1>4, <1>5, <1>6, <1>8, <1>9, <1>10
     DEF Next, Call, Read, Own, Poll, Receive, Handle, Stop, Shut, Open, Emit, Answer, Break

LEMMA PutsTypes ==
  ASSUME Typed, NEW r \in Requests, place[r] # "new", NEW n \in Nat, Puts(r, n)
  PROVE  wire' \in [Conns -> Seq(Messages)]
<1>1. [to |-> r, n |-> n] \in Messages /\ on[r] \in Conns /\ wire \in [Conns -> Seq(Messages)]
  BY DEF Messages, Typed, RequestTypes, PageTypes
<1>2. Append(wire[on[r]], [to |-> r, n |-> n]) \in Seq(Messages)
  BY <1>1, AppendFacts
<1> QED BY <1>1, <1>2 DEF Puts

LEMMA PageTypesKept == Typed /\ Next => PageTypes' /\ HoldsALiveOne'
<1> SUFFICES ASSUME Typed, Next PROVE PageTypes' /\ HoldsALiveOne'
  OBVIOUS
<1> USE DEF Typed, PageTypes, HoldsALiveOne, Goes
<1>1. ASSUME NEW r \in Requests, Capture(r) \/ Register(r) PROVE PageTypes' /\ HoldsALiveOne'
  <2>1. \A x \in sent' : place'[x] \in {"waiting", "leaving", "ended"}
    BY <1>1 DEF Capture, Register, RequestTypes
  <2> QED BY <1>1, <2>1 DEF Capture, Register
<1>2. ASSUME NEW r \in Requests, Send(r) PROVE PageTypes' /\ HoldsALiveOne'
  <2>1. \A x \in sent' : place'[x] \in {"waiting", "leaving", "ended"}
    BY <1>2 DEF Send, RequestTypes
  <2> QED BY <1>2, <2>1 DEF Send
<1>3. ASSUME NEW r \in Requests, Wait(r) \/ Leave(r) PROVE PageTypes' /\ HoldsALiveOne'
  <2>1. \A x \in sent' : place'[x] \in {"waiting", "leaving", "ended"}
    BY <1>3 DEF Wait, Leave, RequestTypes
  <2> QED BY <1>3, <2>1 DEF Wait, Leave
<1>4. ASSUME NEW c \in Conns, Receive(c) PROVE PageTypes' /\ HoldsALiveOne'
  BY <1>4, TailFacts DEF Receive
<1>5. ASSUME NEW c \in Conns, Handle(c) PROVE PageTypes' /\ HoldsALiveOne'
  BY <1>5 DEF Handle, ReaderTypes, Messages
<1>6. ASSUME NEW c \in Conns, Finish(c) PROVE PageTypes' /\ HoldsALiveOne'
  BY <1>6, EmptySeq DEF Finish
<1>7. CASE Stop \/ WakeAll
  BY <1>7 DEF Stop, WakeAll
<1>8. CASE Shut
  BY <1>8, EmptySeq DEF Shut, ForgetConn, ClientTypes
<1>9. CASE Open
  BY <1>9, SMTT(30) DEF Open, ClientTypes
<1>10. ASSUME NEW r \in Requests, Emit(r) PROVE PageTypes' /\ HoldsALiveOne'
  <2>1. place[r] # "new" /\ emitted[r] + 1 \in Nat
    <3>1. r \in sent
      BY <1>10 DEF Emit, Works
    <3>2. place[r] # "new"
      BY <3>1
    <3>3. emitted[r] \in Nat
      OBVIOUS
    <3> QED BY <3>2, <3>3
  <2>2. wire' \in [Conns -> Seq(Messages)]
    BY <1>10, <2>1, PutsTypes DEF Emit
  <2>3. emitted' \in [Requests -> Nat] /\ \A x \in Requests : emitted'[x] <= MaxEvents[x]
    BY <1>10 DEF Emit
  <2> QED BY <1>10, <2>2, <2>3 DEF Emit
<1>11. ASSUME NEW r \in Requests, Answer(r) PROVE PageTypes' /\ HoldsALiveOne'
  <2>1. place[r] # "new" /\ 0 \in Nat
    BY <1>11 DEF Answer, Works
  <2>2. wire' \in [Conns -> Seq(Messages)]
    BY <1>11, <2>1, PutsTypes DEF Answer
  <2> QED BY <1>11, <2>2 DEF Answer, Works
<1>12. ASSUME NEW c \in Conns, Break(c) PROVE PageTypes' /\ HoldsALiveOne'
  BY <1>12 DEF Break, ClientTypes
<1>13. CASE UNCHANGED <<clientVars, place, socket, wire, pageVars, heard>>
  BY <1>13
<1> QED
  BY <1>1, <1>2, <1>3, <1>4, <1>5, <1>6, <1>7, <1>8, <1>9, <1>10, <1>11, <1>12, <1>13
     DEF Next, Call, Read, Own, Poll, NoteError, Signal, Cancel

LEMMA AfterKept == Typed /\ Next => after' \in [Requests -> Nat]
<1> SUFFICES ASSUME Typed, Next PROVE after' \in [Requests -> Nat]
  OBVIOUS
<1>1. ASSUME NEW c \in Conns, Handle(c) PROVE after' \in [Requests -> Nat]
  <2>1. message[c].to \in Requests
    BY <1>1 DEF Handle, Typed, ReaderTypes, Messages
  <2> QED BY <1>1, <2>1 DEF Handle, Typed
<1>2. CASE UNCHANGED after
  BY <1>2 DEF Typed
<1> QED
  BY <1>1, <1>2
     DEF Next, Call, Read, Own, Capture, Register, Send, Wait, Leave, Poll, Receive, NoteError,
         Signal, Finish, Stop, WakeAll, Shut, Open, Emit, Answer, Break, Cancel

LEMMA TypesKept == Typed /\ [Next]_vars => Typed'
<1>1. CASE Next
  BY <1>1, ClientKept, TablesTypesKept, ReaderTypesKept, RequestTypesKept, PageTypesKept,
     AfterKept DEF Typed
<1>2. CASE UNCHANGED vars
  BY <1>2 DEF vars, Typed, ClientTypes, TableTypes, ReaderTypes, RequestTypes, PageTypes,
              HoldsALiveOne
<1> QED BY <1>1, <1>2

LEMMA TypesHold == Init => Typed
  BY EmptySeq DEF Init, Typed, ClientTypes, TableTypes, ReaderTypes, RequestTypes, PageTypes,
                  HoldsALiveOne, Places

-----------------------------------------------------------------------------
(* Each part of the invariant is kept                                        *)

LEMMA PutsFacts ==
  ASSUME Typed, NEW r \in Requests, NEW n \in Nat, Puts(r, n), NEW c \in Conns
  PROVE  \/ wire'[c] = wire[c] /\ (c # on[r] \/ reader[c] = "dead")
         \/ c = on[r] /\ wire'[c] = Append(wire[c], [to |-> r, n |-> n])
<1>1. wire \in [Conns -> Seq(Messages)]
  BY DEF Typed, PageTypes
<1> QED BY <1>1 DEF Puts

LEMMA PutsRouted ==
  ASSUME Typed, Routed, NEW r \in Requests, NEW n \in Nat, r \in sent, Puts(r, n),
         UNCHANGED <<on, sent, reader, message>>
  PROVE  Routed'
<1>1. ASSUME NEW c \in Conns, NEW i \in 1..Len(wire'[c])
      PROVE  wire'[c][i].to \in sent /\ on[wire'[c][i].to] = c
  <2>1. CASE wire'[c] = wire[c]
    BY <2>1 DEF Routed
  <2>2. CASE c = on[r] /\ wire'[c] = Append(wire[c], [to |-> r, n |-> n])
    <3>1. wire[c] \in Seq(Messages) /\ [to |-> r, n |-> n] \in Messages
      BY DEF Typed, PageTypes, Messages
    <3>2. i \in 1..Len(wire[c]) \/ i = Len(wire[c]) + 1
      BY <2>2, <3>1, AppendFacts
    <3>3. CASE i \in 1..Len(wire[c])
      BY <2>2, <3>1, <3>3, AppendFacts, SMTT(30) DEF Routed
    <3>4. CASE i = Len(wire[c]) + 1
      <4>1. wire'[c][i] = [to |-> r, n |-> n]
        BY <2>2, <3>1, <3>4, AppendFacts
      <4> QED BY <2>2, <4>1
    <3> QED BY <3>2, <3>3, <3>4
  <2> QED BY <2>1, <2>2, PutsFacts
<1> QED BY <1>1 DEF Routed

LEMMA RoutedKept == Typed /\ Routed /\ Next => Routed'
<1> SUFFICES ASSUME Typed, Routed, Next PROVE Routed'
  OBVIOUS
<1>1. ASSUME NEW r \in Requests, Capture(r) PROVE Routed'
  <2>1. r \notin sent
    BY <1>1 DEF Capture, Typed, PageTypes
  <2>2. \A x \in sent : on'[x] = on[x]
    BY <1>1, <2>1 DEF Capture, Typed, RequestTypes
  <2> QED BY <1>1, <2>2 DEF Capture, Routed
<1>2. ASSUME NEW r \in Requests, Send(r) PROVE Routed'
  <2>1. sent \subseteq sent' /\ UNCHANGED <<on, wire, reader, message>>
    BY <1>2 DEF Send
  <2> QED BY <2>1 DEF Routed
<1>3. ASSUME NEW c \in Conns, Receive(c) PROVE Routed'
  <2>1. wire[c] \in Seq(Messages) /\ wire[c] # <<>>
    BY <1>3 DEF Receive, Typed, PageTypes
  <2>2. Head(wire[c]).to \in sent /\ on[Head(wire[c]).to] = c
    BY <2>1, TailFacts DEF Routed
  <2>3. UNCHANGED <<on, sent>> /\ wire'[c] = Tail(wire[c]) /\ \A d \in Conns \ {c} : wire'[d] = wire[d]
    BY <1>3 DEF Receive, Typed, PageTypes
  <2>4. \A d \in Conns : d # c => reader'[d] = reader[d] /\ message'[d] = message[d]
    BY <1>3 DEF Receive, ReaderGoes, ReaderLoops, Typed, ReaderTypes
  <2>5. reader'[c] = "handle" => message'[c] = Head(wire[c])
    BY <1>3 DEF Receive, ReaderGoes, ReaderLoops, Typed, ReaderTypes
  <2>6. \A i \in 1..Len(wire'[c]) : wire'[c][i].to \in sent /\ on[wire'[c][i].to] = c
    <3> TAKE i \in 1..Len(wire'[c])
    <3>1. wire'[c][i] = wire[c][i + 1] /\ i + 1 \in 1..Len(wire[c])
      BY <2>1, <2>3, TailFacts
    <3> QED BY <3>1 DEF Routed
  <2>7. \A d \in Conns \ {c} : \A i \in 1..Len(wire'[d]) :
          wire'[d][i].to \in sent /\ on[wire'[d][i].to] = d
    BY <2>3 DEF Routed
  <2>8. \A d \in Conns : reader'[d] = "handle" => message'[d].to \in sent /\ on[message'[d].to] = d
    BY <2>2, <2>4, <2>5 DEF Routed
  <2> QED BY <2>3, <2>6, <2>7, <2>8 DEF Routed
<1>4. ASSUME NEW c \in Conns, Poll(c) \/ Handle(c) \/ NoteError(c) \/ Signal(c) PROVE Routed'
  <2>1. UNCHANGED <<on, sent, wire>>
    BY <1>4 DEF Poll, Handle, NoteError, Signal
  <2>2. \A d \in Conns : reader'[d] = "handle" => reader[d] = "handle" /\ message'[d] = message[d]
    BY <1>4 DEF Poll, Handle, NoteError, Signal, ReaderGoes, ReaderLoops, Typed, ReaderTypes
  <2> QED BY <2>1, <2>2 DEF Routed
<1>5. ASSUME NEW c \in Conns, Finish(c) PROVE Routed'
  <2>1. UNCHANGED <<on, sent, message>> /\ \A d \in Conns : wire'[d] = wire[d] \/ wire'[d] = <<>>
    BY <1>5 DEF Finish, Typed, PageTypes
  <2>2. \A d \in Conns : reader'[d] = "handle" => reader[d] = "handle"
    BY <1>5 DEF Finish, ReaderGoes, Typed, ReaderTypes
  <2> QED BY <2>1, <2>2, EmptySeq DEF Routed
<1>6. CASE Shut
  <2>1. UNCHANGED <<on, sent, reader, message>>
        /\ \A d \in Conns : wire'[d] = wire[d] \/ wire'[d] = <<>>
    BY <1>6 DEF Shut, Typed, PageTypes
  <2> QED BY <2>1, EmptySeq DEF Routed
<1>7. CASE Open
  <2>1. UNCHANGED <<on, sent, message, wire>>
    BY <1>7 DEF Open
  <2>2. \A d \in Conns : reader'[d] = "handle" => reader[d] = "handle"
    BY <1>7 DEF Open, ReaderGoes, Typed, ReaderTypes
  <2> QED BY <2>1, <2>2 DEF Routed
<1>8. ASSUME NEW r \in Requests, Emit(r) PROVE Routed'
  <2>1. r \in sent /\ emitted[r] + 1 \in Nat
    <3>1. r \in sent
      BY <1>8 DEF Emit, Works
    <3>2. emitted[r] \in Nat
      BY DEF Typed, PageTypes
    <3> QED BY <3>1, <3>2
  <2> QED BY <1>8, <2>1, PutsRouted DEF Emit
<1>9. ASSUME NEW r \in Requests, Answer(r) PROVE Routed'
  <2>1. r \in sent
    BY <1>9 DEF Answer, Works
  <2> QED BY <1>9, <2>1, PutsRouted DEF Answer
<1>10. CASE UNCHANGED <<on, sent, reader, message, wire>>
  BY <1>10 DEF Routed
<1> QED
  BY <1>1, <1>2, <1>3, <1>4, <1>5, <1>6, <1>7, <1>8, <1>9, <1>10
     DEF Next, Call, Read, Own, Register, Wait, Leave, Stop, WakeAll, Break, Cancel

LEMMA UnbornKept == Typed /\ Unborn /\ Next => Unborn'
<1> SUFFICES ASSUME Typed, Unborn, Next PROVE Unborn'
  OBVIOUS
<1> USE DEF Unborn
<1>1. ASSUME NEW c \in Conns, Read(c) PROVE Unborn'
  <2>1. reader[c] # "none" /\ UNCHANGED made
    BY <1>1 DEF Read, Poll, Receive, Handle, NoteError, Signal, Finish
  <2>2. \A d \in Conns : d # c => reader'[d] = reader[d]
    BY <1>1 DEF Read, Poll, Receive, Handle, NoteError, Signal, Finish, ReaderGoes, ReaderLoops,
                Typed, ReaderTypes
  <2> QED BY <2>1, <2>2
<1>2. CASE Open
  BY <1>2 DEF Open, ReaderGoes, Typed, ReaderTypes, ClientTypes
<1>3. CASE UNCHANGED <<made, reader>>
  BY <1>3
<1> QED
  BY <1>1, <1>2, <1>3
     DEF Next, Call, Own, Capture, Register, Send, Wait, Leave, Stop, WakeAll, Shut,
         Emit, Answer, Break, Cancel

LEMMA TablesKept == Typed /\ Tables /\ Next => Tables'
<1> SUFFICES ASSUME Typed, Tables, Next PROVE Tables'
  OBVIOUS
<1> USE DEF Tables, NothingLeft, InProgress
<1>1. ASSUME NEW r \in Requests, Capture(r) PROVE Tables'
  <2>1. UNCHANGED tableVars
    BY <1>1 DEF Capture
  <2>2. \A x \in Requests : x # r => place'[x] = place[x] /\ on'[x] = on[x]
    BY <1>1 DEF Capture, Goes, Typed, RequestTypes
  <2>3. place[r] = "new"
    BY <1>1 DEF Capture
  <2> QED BY <2>1, <2>2, <2>3
<1>2. ASSUME NEW r \in Requests, Register(r) PROVE Tables'
  BY <1>2 DEF Register, Goes, Typed, RequestTypes, TableTypes
<1>3. ASSUME NEW r \in Requests, Send(r) \/ Wait(r) PROVE Tables'
  <2>1. UNCHANGED <<tableVars, on>>
    BY <1>3 DEF Send, Wait
  <2>2. \A x \in Requests : place[x] \in InProgress => place'[x] \in InProgress
    BY <1>3 DEF Send, Wait, Goes, Typed, RequestTypes
  <2> QED BY <2>1, <2>2
<1>4. ASSUME NEW r \in Requests, Leave(r) PROVE Tables'
  <2>1. UNCHANGED on /\ \A x \in Requests : x # r => place'[x] = place[x]
    BY <1>4 DEF Leave, Goes, Typed, RequestTypes
  <2>2. \A c \in Conns :
          /\ pending'[c] = handlers'[c]
          /\ pending'[c] \subseteq pending[c] /\ responses'[c] \subseteq responses[c]
          /\ c = on[r] => r \notin pending'[c] \cup responses'[c]
    BY <1>4 DEF Leave, Unregister, Drop, Typed, TableTypes
  <2> QED BY <2>1, <2>2
<1>5. ASSUME NEW c \in Conns, Receive(c) PROVE Tables'
  <2>1. UNCHANGED <<on, place, pending, handlers>>
    BY <1>5 DEF Receive
  <2>2. \A d \in Conns : responses'[d] \subseteq responses[d] \cup pending[d]
    BY <1>5 DEF Receive, Expected, Typed, TableTypes
  <2> QED BY <2>1, <2>2
<1>6. CASE WakeAll
  BY <1>6 DEF WakeAll, Typed, TableTypes
<1>7. CASE UNCHANGED <<on, place, pending, handlers, responses>>
  BY <1>7
<1> QED
  BY <1>1, <1>2, <1>3, <1>4, <1>5, <1>6, <1>7
     DEF Next, Call, Read, Own, Poll, Handle, NoteError, Signal, Finish, Stop, Shut, Open,
         Emit, Answer, Break, Cancel

LEMMA WakingKept == Typed /\ Tables /\ Waking /\ Next => Waking'
<1> SUFFICES ASSUME Typed, Tables, Waking, Next PROVE Waking'
  OBVIOUS
<1> USE DEF Waking, InProgress
<1>1. ASSUME NEW r \in Requests, Capture(r) PROVE Waking'
  <2>1. UNCHANGED <<pending, woken>>
    BY <1>1 DEF Capture
  <2>2. \A x \in Requests : x # r => place'[x] = place[x] /\ on'[x] = on[x]
    BY <1>1 DEF Capture, Goes, Typed, RequestTypes
  <2>3. place'[r] = "captured"
    BY <1>1 DEF Capture, Goes, Typed, RequestTypes
  <2> QED BY <2>1, <2>2, <2>3
<1>2. ASSUME NEW r \in Requests, Register(r) PROVE Waking'
  <2>1. UNCHANGED <<on, woken>> /\ \A x \in Requests : x # r => place'[x] = place[x]
    BY <1>2 DEF Register, Goes, Typed, RequestTypes
  <2>2. \A c \in Conns : pending[c] \subseteq pending'[c]
    BY <1>2 DEF Register, Typed, TableTypes
  <2>3. r \in pending'[on[r]] /\ \A x \in Requests : place[x] \in InProgress => on[x] \in Conns
    BY <1>2 DEF Register, Typed, TableTypes, RequestTypes
  <2> QED BY <2>1, <2>2, <2>3
<1>3. ASSUME NEW r \in Requests, Send(r) \/ Wait(r) PROVE Waking'
  <2>1. UNCHANGED <<pending, woken, on>>
    BY <1>3 DEF Send, Wait
  <2>2. \A x \in Requests : place'[x] \in InProgress => place[x] \in InProgress
    BY <1>3 DEF Send, Wait, Goes, Typed, RequestTypes
  <2> QED BY <2>1, <2>2
<1>4. ASSUME NEW r \in Requests, Leave(r) PROVE Waking'
  <2>1. UNCHANGED on /\ place'[r] = "ended" /\ \A x \in Requests : x # r => place'[x] = place[x]
    BY <1>4 DEF Leave, Goes, Typed, RequestTypes
  <2>2. \A c \in Conns : pending[c] \ {r} \subseteq pending'[c]
    BY <1>4 DEF Leave, Unregister, Drop, Typed, TableTypes
  <2>3. woken \ {r} \subseteq woken' /\ \A x \in Requests : place[x] \in InProgress => on[x] \in Conns
    BY <1>4 DEF Leave, Typed, RequestTypes
  <2> QED BY <2>1, <2>2, <2>3
<1>5. CASE UNCHANGED <<on, place, pending>> /\ woken \subseteq woken'
  BY <1>5
<1>6. CASE WakeAll
  <2>1. UNCHANGED <<on, place>> /\ conn \in Conns
    BY <1>6 DEF WakeAll, Typed, ClientTypes
  <2>2. \A x \in pending[conn] : place[x] # "ended"
    BY <2>1 DEF Tables, NothingLeft, Typed, TableTypes
  <2>3. woken' = woken \cup pending[conn]
    BY <1>6, <2>2 DEF WakeAll, SetAll, Wakes
  <2>4. \A c \in Conns : c # conn => pending'[c] = pending[c]
    BY <1>6 DEF WakeAll, Typed, TableTypes
  <2>5. \A x \in Requests : place[x] \in InProgress => on[x] \in Conns
    BY DEF Typed, RequestTypes
  <2> QED BY <2>1, <2>3, <2>4, <2>5
<1> QED
  BY <1>1, <1>2, <1>3, <1>4, <1>5, <1>6
     DEF Next, Call, Read, Own, Poll, Receive, Handle, NoteError, Signal, Finish, Wakes, Stop,
         Shut, Open, Emit, Answer, Break, Cancel

Flow == Routed /\ Tables /\ Due /\ Ordered /\ Complete

\* What the reader takes for a request that has a handler.
LEMMA Taken ==
  ASSUME Typed, Flow, NEW c \in Conns, Receive(c), NEW m, m = Head(wire[c]),
         m.to \in handlers[c]
  PROVE  /\ wire[c] \in Seq(Messages) /\ wire[c] # <<>> /\ m \in Messages
         /\ m.n > 0 => /\ m.n = heard[m.to] + 1 /\ m.n <= emitted[m.to]
                       /\ Queued(Tail(wire[c]), m.to, heard[m.to] + 1, emitted[m.to], answered)
         /\ m.n = 0 => /\ heard[m.to] = emitted[m.to] /\ m.to \in answered
                       /\ \A i \in 1..Len(Tail(wire[c])) : Tail(wire[c])[i].to # m.to
                       /\ Queued(Tail(wire[c]), m.to, heard[m.to], emitted[m.to], answered)
<1> DEFINE r == m.to
<1>1. wire[c] \in Seq(Messages) /\ wire[c] # <<>>
  BY DEF Receive, Typed, PageTypes
<1>2. m \in Messages
  BY <1>1, TailFacts
<1>3. r \in Requests /\ m.n \in Nat
  BY <1>2 DEF Messages
<1>4. heard[r] \in Nat /\ emitted[r] \in Nat /\ heard[r] <= emitted[r]
  BY <1>3 DEF Typed, PageTypes, Flow, Due
<1>5. Queued(wire[c], r, heard[r], emitted[r], answered)
  <2>1. Reads(c) /\ Got(c, r) = heard[r]
    BY DEF Receive, Reads, Got, Handling
  <2> QED BY <2>1 DEF Flow, Ordered
<1>6. CASE m.n > 0
  <2>1. Tells(Head(wire[c]), r)
    BY <1>6 DEF Tells
  <2>2. /\ m.n = heard[r] + 1 /\ heard[r] + 1 <= emitted[r]
        /\ Queued(Tail(wire[c]), r, heard[r] + 1, emitted[r], answered)
    BY <1>1, <1>4, <1>5, <2>1, QueuedTakesEvent
  <2> QED BY <1>1, <1>2, <1>6, <2>2
<1>7. CASE m.n = 0
  <2>1. Answers(Head(wire[c]), r)
    BY <1>7 DEF Answers
  <2>2. /\ heard[r] = emitted[r] /\ r \in answered
        /\ \A i \in 1..Len(Tail(wire[c])) : Tail(wire[c])[i].to # r
        /\ Queued(Tail(wire[c]), r, heard[r], emitted[r], answered)
    BY <1>1, <1>4, <1>5, <2>1, QueuedTakesAnswer
  <2> QED BY <1>1, <1>2, <1>7, <2>2
<1> QED BY <1>3, <1>6, <1>7

\* What Receive does to the reader.
LEMMA ReceiveFacts ==
  ASSUME Typed, Tables, NEW c \in Conns, Receive(c), NEW m, m = Head(wire[c])
  PROVE  /\ reader[c] = "recv" /\ wire'[c] = Tail(wire[c])
         /\ \A d \in Conns : d # c =>
              /\ reader'[d] = reader[d] /\ message'[d] = message[d]
              /\ wire'[d] = wire[d] /\ responses'[d] = responses[d]
         /\ reader'[c] = "handle" => message'[c] = m /\ m.n # 0 /\ m.to \in handlers[c]
         /\ m.n # 0 /\ m.to \in handlers[c] => reader'[c] = "handle"
         /\ reader'[c] \in {"handle", "signal", "loop"}
         /\ responses'[c] \subseteq responses[c] \cup {m.to}
         /\ m.to \in responses'[c] \ responses[c] => m.n = 0 /\ m.to \in handlers[c]
         /\ UNCHANGED <<handlers, heard, emitted, answered, sent, socket>>
<1>1. pending[c] = handlers[c]
  BY DEF Tables
<1>2. reader[c] = "recv" /\ wire'[c] = Tail(wire[c])
      /\ UNCHANGED <<handlers, heard, emitted, answered, sent, socket>>
  BY DEF Receive, Typed, PageTypes
<1>3. \A d \in Conns : d # c => wire'[d] = wire[d] /\ responses'[d] = responses[d]
  BY DEF Receive, Typed, PageTypes, TableTypes
<1>4. \A d \in Conns : d # c => reader'[d] = reader[d] /\ message'[d] = message[d]
  BY DEF Receive, ReaderGoes, ReaderLoops, Typed, ReaderTypes
<1>5. /\ reader'[c] = "handle" => message'[c] = m /\ m.n # 0 /\ m.to \in handlers[c]
      /\ m.n # 0 /\ m.to \in handlers[c] => reader'[c] = "handle"
      /\ reader'[c] \in {"handle", "signal", "loop"}
  BY <1>1 DEF Receive, ReaderGoes, ReaderLoops, IsAnswer, Typed, ReaderTypes
<1>6. /\ responses'[c] \subseteq responses[c] \cup {m.to}
      /\ m.to \in responses'[c] \ responses[c] => m.n = 0 /\ m.to \in handlers[c]
  BY <1>1 DEF Receive, IsAnswer, Expected, Typed, TableTypes
<1> QED BY <1>2, <1>3, <1>4, <1>5, <1>6

\* What Handle does.
LEMMA HandleFacts ==
  ASSUME Typed, Routed, Due, NEW c \in Conns, Handle(c)
  PROVE  /\ message[c].to \in Requests /\ on[message[c].to] = c /\ reader[c] = "handle"
         /\ heard' = [heard EXCEPT ![message[c].to] = @ + 1]
         /\ heard[message[c].to] + 1 <= emitted[message[c].to]
         /\ reader'[c] # "handle" /\ reader'[c] # "dead"
         /\ \A d \in Conns : d # c => reader'[d] = reader[d] /\ message'[d] = message[d]
         /\ UNCHANGED <<handlers, responses, emitted, answered, sent, wire, socket, place, verdict, on>>
<1>1. reader[c] = "handle"
      /\ UNCHANGED <<handlers, responses, emitted, answered, sent, wire, socket, place, verdict, on>>
  BY DEF Handle
<1>2. message[c].to \in Requests /\ on[message[c].to] = c
  BY <1>1 DEF Typed, ReaderTypes, Messages, Routed
<1>3. message[c].n = heard[message[c].to] + 1 /\ message[c].n <= emitted[message[c].to]
  BY <1>1 DEF Due
<1>4. heard' = [heard EXCEPT ![message[c].to] = @ + 1]
  BY <1>3 DEF Handle
<1>5. /\ reader'[c] # "handle" /\ reader'[c] # "dead"
      /\ \A d \in Conns : d # c => reader'[d] = reader[d] /\ message'[d] = message[d]
  BY DEF Handle, ReaderGoes, ReaderLoops, Typed, ReaderTypes
<1> QED BY <1>1, <1>2, <1>3, <1>4, <1>5

LEMMA Handled ==
  ASSUME Typed
  PROVE  \A d \in Conns : reader[d] = "handle" => message[d].to \in Requests /\ message[d].n \in Nat
<1> TAKE d \in Conns
<1> HAVE reader[d] = "handle"
<1>1. message[d] \in Messages
  BY DEF Typed, ReaderTypes
<1> QED BY <1>1 DEF Messages

\* No request is handled by two readers.
LEMMA OneReader ==
  ASSUME Routed, NEW c \in Conns, NEW r, Handling(c, r)
  PROVE  on[r] = c
  BY DEF Routed, Handling

\* Steps of a reader that has no message for a handler.
Idles(c) == Poll(c) \/ NoteError(c) \/ Signal(c)
LEMMA IdlesFacts ==
  ASSUME Typed, NEW c \in Conns, Idles(c)
  PROVE  /\ \A d \in Conns : d = c \/ (reader'[d] = reader[d] /\ message'[d] = message[d])
         /\ reader[c] # "handle" /\ reader'[c] # "handle" /\ reader[c] # "dead" /\ reader'[c] # "dead"
         /\ UNCHANGED <<handlers, responses, heardVars, pageVars, wire, socket, place, verdict, on>>
  BY DEF Idles, Poll, NoteError, Signal, ReaderGoes, ReaderLoops, Typed, ReaderTypes

LEMMA DueKept == Typed /\ Flow /\ Next => Due'
<1> SUFFICES ASSUME Typed, Flow, Next PROVE Due'
  OBVIOUS
<1> USE DEF Flow
<1>0. \A r \in Requests : heard[r] \in Nat /\ emitted[r] \in Nat
  BY DEF Typed, PageTypes
<1>1. ASSUME NEW r \in Requests, Send(r) PROVE Due'
  <2>1. sent \subseteq sent' /\ UNCHANGED <<heard, emitted, reader, message>>
    BY <1>1 DEF Send
  <2> QED BY <2>1 DEF Due
<1>2. ASSUME NEW c \in Conns, Receive(c) PROVE Due'
  <2>1. reader'[c] = "handle" =>
          /\ message'[c].n = heard[message'[c].to] + 1
          /\ message'[c].n <= emitted[message'[c].to]
    <3>1. Head(wire[c]).n # 0 => Head(wire[c]).n > 0
      <4>1. wire[c] \in Seq(Messages) /\ wire[c] # <<>>
        BY <1>2 DEF Receive, Typed, PageTypes
      <4>2. Head(wire[c]) \in Messages
        BY <4>1, TailFacts
      <4> QED BY <4>2 DEF Messages
    <3> QED BY <1>2, <3>1, ReceiveFacts, Taken
  <2>2. UNCHANGED <<heard, emitted, sent>>
        /\ \A d \in Conns : d # c => reader'[d] = reader[d] /\ message'[d] = message[d]
    BY <1>2, ReceiveFacts
  <2> QED BY <2>1, <2>2 DEF Due
<1>3. ASSUME NEW c \in Conns, Handle(c) PROVE Due'
  <2>1. \A d \in Conns : reader'[d] = "handle" =>
          /\ reader[d] = "handle" /\ message'[d] = message[d]
          /\ heard'[message[d].to] = heard[message[d].to]
    <3>1. \A d \in Conns : reader'[d] = "handle" =>
            d # c /\ reader[d] = "handle" /\ message'[d] = message[d]
      BY <1>3, HandleFacts
    <3>2. \A d \in Conns : reader[d] = "handle" => on[message[d].to] = d
      BY DEF Routed
    <3>3. \A d \in Conns : d # c /\ reader[d] = "handle" => message[d].to # message[c].to
      BY <1>3, <3>2, HandleFacts
    <3>4. \A d \in Conns : reader[d] = "handle" => message[d].to \in Requests
      BY Handled
    <3>5. \A r \in Requests : r # message[c].to => heard'[r] = heard[r]
      BY <1>3, HandleFacts DEF Typed, PageTypes
    <3> QED BY <3>1, <3>3, <3>4, <3>5
  <2>2. UNCHANGED <<emitted, sent>> /\ \A r \in Requests : heard'[r] <= emitted[r]
    <3>1. \A r \in Requests : r # message[c].to => heard'[r] = heard[r]
      BY <1>3, HandleFacts DEF Typed, PageTypes
    <3>2. heard'[message[c].to] <= emitted[message[c].to]
      BY <1>3, HandleFacts DEF Typed, PageTypes
    <3> QED BY <1>3, <3>1, <3>2, HandleFacts DEF Due
  <2> QED BY <2>1, <2>2 DEF Due
<1>4. ASSUME NEW c \in Conns, Idles(c) PROVE Due'
  <2>1. \A d \in Conns : reader'[d] = "handle" => reader[d] = "handle" /\ message'[d] = message[d]
    BY <1>4, IdlesFacts
  <2> QED BY <1>4, <2>1, IdlesFacts DEF Due
<1>5. ASSUME NEW c \in Conns, Finish(c) PROVE Due'
  <2>1. UNCHANGED <<heard, emitted, sent, message>>
        /\ \A d \in Conns : reader'[d] = "handle" => reader[d] = "handle"
    BY <1>5 DEF Finish, ReaderGoes, Typed, ReaderTypes
  <2> QED BY <2>1 DEF Due
<1>6. CASE Open
  <2>1. UNCHANGED <<heard, emitted, sent, message>>
        /\ \A d \in Conns : reader'[d] = "handle" => reader[d] = "handle"
    BY <1>6 DEF Open, ReaderGoes, Typed, ReaderTypes
  <2> QED BY <2>1 DEF Due
<1>7. ASSUME NEW r \in Requests, Emit(r) PROVE Due'
  <2>1. UNCHANGED <<heard, sent, reader, message>> /\ r \in sent
    BY <1>7 DEF Emit, Works
  <2>2. \A x \in Requests : emitted[x] <= emitted'[x] /\ (x # r => emitted'[x] = emitted[x])
        /\ emitted'[x] \in Nat
    BY <1>0, <1>7 DEF Emit, Typed, PageTypes
  <2>3. \A d \in Conns : reader[d] = "handle" => message[d].to \in Requests /\ message[d].n \in Nat
    BY Handled
  <2> QED BY <1>0, <2>1, <2>2, <2>3 DEF Due
<1>8. CASE UNCHANGED <<heard, emitted, sent, reader, message>>
  BY <1>8 DEF Due
<1> QED
  BY <1>1, <1>2, <1>3, <1>4, <1>5, <1>6, <1>7, <1>8
     DEF Next, Call, Read, Own, Idles, Capture, Register, Wait, Leave, Stop, WakeAll, Shut, Answer,
         Break, Cancel

LEMMA CompleteKept == Typed /\ Flow /\ Next => Complete'
<1> SUFFICES ASSUME Typed, Flow, Next PROVE Complete'
  OBVIOUS
<1> USE DEF Flow
<1>1. ASSUME NEW r \in Requests, Leave(r) PROVE Complete'
  <2>1. UNCHANGED <<answered, heard, emitted, reader, message, wire>>
        /\ \A c \in Conns : responses'[c] \subseteq responses[c]
    BY <1>1 DEF Leave, Unregister, Drop, Typed, TableTypes
  <2> QED BY <2>1 DEF Complete, Handling
<1>2. ASSUME NEW c \in Conns, Receive(c) PROVE Complete'
  <2> DEFINE m == Head(wire[c])
  <2>0. wire[c] \in Seq(Messages) /\ wire[c] # <<>>
    BY <1>2 DEF Receive, Typed, PageTypes
  <2>1. \A d \in Conns : d # c => \A r \in responses'[d] :
          /\ r \in answered /\ heard[r] = emitted[r]
          /\ ~(reader'[d] = "handle" /\ message'[d].to = r)
          /\ \A i \in 1..Len(wire'[d]) : wire'[d][i].to # r
    BY <1>2, ReceiveFacts DEF Complete, Handling
  <2>2. ASSUME NEW r \in responses[c]
        PROVE  /\ r \in answered /\ heard[r] = emitted[r]
               /\ ~(reader'[c] = "handle" /\ message'[c].to = r)
               /\ \A i \in 1..Len(wire'[c]) : wire'[c][i].to # r
    <3>1. r \in answered /\ heard[r] = emitted[r] /\ \A i \in 1..Len(wire[c]) : wire[c][i].to # r
      BY DEF Complete
    <3>2. m.to # r
      BY <3>1, <2>0, TailFacts
    <3>3. \A i \in 1..Len(Tail(wire[c])) : i + 1 \in 1..Len(wire[c]) /\ Tail(wire[c])[i] = wire[c][i + 1]
      BY <2>0, TailFacts
    <3>4. wire'[c] = Tail(wire[c]) /\ (reader'[c] = "handle" => message'[c] = m)
      BY <1>2, ReceiveFacts
    <3> QED BY <3>1, <3>2, <3>3, <3>4
  <2>3. ASSUME m.to \in responses'[c] \ responses[c]
        PROVE  /\ m.to \in answered /\ heard[m.to] = emitted[m.to]
               /\ ~(reader'[c] = "handle" /\ message'[c].to = m.to)
               /\ \A i \in 1..Len(wire'[c]) : wire'[c][i].to # m.to
    <3>1. m.n = 0 /\ m.to \in handlers[c] /\ wire'[c] = Tail(wire[c])
          /\ (reader'[c] = "handle" => m.n # 0)
      BY <1>2, <2>3, ReceiveFacts
    <3> QED BY <1>2, <3>1, Taken
  <2>4. responses'[c] \subseteq responses[c] \cup {m.to} /\ UNCHANGED <<answered, heard, emitted>>
    BY <1>2, ReceiveFacts
  <2> HIDE DEF m
  <2>5. \A r \in responses'[c] : r \in responses[c] \/ (r = m.to /\ r \notin responses[c])
    BY <2>4
  <2>6. \A d \in Conns : \A r \in responses'[d] :
          /\ r \in answered /\ heard[r] = emitted[r]
          /\ ~(reader'[d] = "handle" /\ message'[d].to = r)
          /\ \A i \in 1..Len(wire'[d]) : wire'[d][i].to # r
    BY <2>1, <2>2, <2>3, <2>5
  <2> QED BY <2>4, <2>6 DEF Complete, Handling
<1>3. ASSUME NEW c \in Conns, Handle(c) PROVE Complete'
  <2>1. \A d \in Conns : \A r \in responses[d] : r \in Requests /\ on[r] = d
    BY DEF Tables, NothingLeft, Typed, TableTypes
  <2>2. \A d \in Conns : \A r \in responses[d] : r # message[c].to
    BY <1>3, <2>1, HandleFacts DEF Complete, Handling
  <2>3. \A d \in Conns : \A r \in responses[d] : heard'[r] = heard[r]
    BY <1>3, <2>1, <2>2, HandleFacts, SMTT(30) DEF Typed, PageTypes
  <2>4. \A d \in Conns : reader'[d] = "handle" => reader[d] = "handle" /\ message'[d] = message[d]
    BY <1>3, HandleFacts
  <2>5. UNCHANGED <<responses, answered, emitted, wire>>
    BY <1>3, HandleFacts
  <2> QED BY <2>3, <2>4, <2>5 DEF Complete, Handling
<1>4. ASSUME NEW c \in Conns, Idles(c) PROVE Complete'
  <2>1. \A d \in Conns : reader'[d] = "handle" => reader[d] = "handle" /\ message'[d] = message[d]
    BY <1>4, IdlesFacts
  <2> QED BY <1>4, <2>1, IdlesFacts DEF Complete, Handling
<1>5. CASE /\ UNCHANGED <<responses, answered, heard, emitted, message>>
           /\ \A d \in Conns : reader'[d] = "handle" => reader[d] = "handle"
           /\ \A d \in Conns : wire'[d] = wire[d] \/ wire'[d] = <<>>
  BY <1>5, EmptySeq DEF Complete, Handling
<1>6. ASSUME NEW c \in Conns, Finish(c) PROVE Complete'
  BY <1>5, <1>6 DEF Finish, ReaderGoes, Typed, ReaderTypes, PageTypes
<1>7. CASE Shut
  BY <1>5, <1>7 DEF Shut, Typed, PageTypes
<1>8. CASE Open
  BY <1>5, <1>8 DEF Open, ReaderGoes, Typed, ReaderTypes
<1>9. ASSUME NEW x \in Requests, NEW n \in Nat, Puts(x, n), x \notin answered,
             answered \subseteq answered', \A r \in Requests : r # x => emitted'[r] = emitted[r],
             UNCHANGED <<responses, heard, reader, message>>
      PROVE Complete'
  <2> SUFFICES ASSUME NEW c \in Conns, NEW r \in responses[c]
               PROVE  /\ r \in answered' /\ heard[r] = emitted'[r] /\ ~Handling(c, r)
                      /\ \A i \in 1..Len(wire'[c]) : wire'[c][i].to # r
    BY <1>9 DEF Complete, Handling
  <2>1. r \in answered /\ r \in Requests /\ r # x /\ heard[r] = emitted[r] /\ ~Handling(c, r)
    BY <1>9 DEF Complete, Typed, TableTypes
  <2>2. \A i \in 1..Len(wire[c]) : wire[c][i].to # r
    BY DEF Complete
  <2>3. \A i \in 1..Len(wire'[c]) : wire'[c][i].to # r
    <3>1. CASE wire'[c] = wire[c]
      BY <2>2, <3>1
    <3>2. CASE wire'[c] = Append(wire[c], [to |-> x, n |-> n])
      <4>1. wire[c] \in Seq(Messages) /\ [to |-> x, n |-> n] \in Messages
        BY DEF Typed, PageTypes, Messages
      <4> TAKE i \in 1..Len(wire'[c])
      <4>2. i \in 1..Len(wire[c]) \/ i = Len(wire[c]) + 1
        BY <3>2, <4>1, AppendFacts
      <4>3. CASE i \in 1..Len(wire[c])
        BY <2>2, <3>2, <4>1, <4>3, AppendFacts
      <4>4. CASE i = Len(wire[c]) + 1
        <5>1. wire'[c][i] = [to |-> x, n |-> n]
          BY <3>2, <4>1, <4>4, AppendFacts
        <5> QED BY <2>1, <5>1
      <4> QED BY <4>2, <4>3, <4>4
    <3> QED BY <1>9, <3>1, <3>2, PutsFacts
  <2> QED BY <1>9, <2>1, <2>3
<1>10. ASSUME NEW r \in Requests, Emit(r) PROVE Complete'
  <2>1. emitted[r] + 1 \in Nat
    BY DEF Typed, PageTypes
  <2> QED BY <1>9, <1>10, <2>1 DEF Emit, Works, Typed, PageTypes
<1>11. ASSUME NEW r \in Requests, Answer(r) PROVE Complete'
  BY <1>9, <1>11 DEF Answer, Works
<1>12. CASE UNCHANGED <<responses, answered, heard, emitted, reader, message, wire>>
  BY <1>12 DEF Complete, Handling
<1> QED
  BY <1>1, <1>2, <1>3, <1>4, <1>6, <1>7, <1>8, <1>10, <1>11, <1>12
     DEF Next, Call, Read, Own, Idles, Capture, Register, Send, Wait, Stop, WakeAll, Break, Cancel

\* Nothing that a reader has still to take changes for the requests it has.
LEMMA SameQueues ==
  ASSUME Ordered,
         \A c \in Conns : socket'[c] # "closed" /\ reader'[c] # "dead" =>
           /\ Reads(c) /\ wire'[c] = wire[c]
           /\ handlers'[c] \subseteq handlers[c]
           /\ \A r \in handlers'[c] : Got(c, r)' = Got(c, r) /\ emitted'[r] = emitted[r],
         answered' = answered
  PROVE  Ordered'
<1> SUFFICES ASSUME NEW c \in Conns, socket'[c] # "closed", reader'[c] # "dead",
                    NEW r \in handlers'[c]
             PROVE  Queued(wire'[c], r, Got(c, r)', emitted'[r], answered')
  BY DEF Ordered, Reads
<1>1. Queued(wire[c], r, Got(c, r), emitted[r], answered)
  BY DEF Ordered
<1>2. wire'[c] = wire[c] /\ Got(c, r)' = Got(c, r) /\ emitted'[r] = emitted[r] /\ answered' = answered
  OBVIOUS
<1> HIDE DEF Got
<1> QED BY <1>1, <1>2

\* A message for x is put on the wire.
LEMMA PutsOrdered ==
  ASSUME Typed, Flow, NEW x \in Requests, NEW n \in Nat, Puts(x, n),
         UNCHANGED <<handlers, reader, message, socket, heard>>,
         answered \subseteq answered',
         \A r \in Requests : r # x => emitted'[r] = emitted[r],
         \A q \in Seq(Messages), g \in Nat :
           g <= emitted[x] /\ Queued(q, x, g, emitted[x], answered)
             => Queued(Append(q, [to |-> x, n |-> n]), x, g, emitted'[x], answered')
  PROVE  Ordered'
<1> USE DEF Flow
<1> SUFFICES ASSUME NEW c \in Conns, Reads(c), NEW r \in handlers[c]
             PROVE  Queued(wire'[c], r, Got(c, r), emitted'[r], answered')
  BY DEF Ordered, Reads, Got, Handling
<1>1. r \in Requests /\ on[r] = c /\ wire[c] \in Seq(Messages)
  BY DEF Typed, TableTypes, PageTypes, Tables, NothingLeft
<1>2. Queued(wire[c], r, Got(c, r), emitted[r], answered)
  BY DEF Ordered
<1>3. emitted[r] \in Nat /\ Got(c, r) \in Nat /\ Got(c, r) <= emitted[r]
  <2>1. emitted[r] \in Nat /\ heard[r] \in Nat /\ heard[r] <= emitted[r]
    BY <1>1 DEF Typed, PageTypes, Due
  <2>2. Handling(c, r) => heard[r] + 1 <= emitted[r]
    BY DEF Due, Handling
  <2> QED BY <2>1, <2>2 DEF Got
<1> DEFINE g == Got(c, r)
<1> HIDE DEF g
<1>4. CASE r = x
  <2>1. wire'[c] = Append(wire[c], [to |-> x, n |-> n])
    BY <1>1, <1>4, PutsFacts DEF Reads
  <2>2. Queued(Append(wire[c], [to |-> x, n |-> n]), x, g, emitted'[x], answered')
    BY <1>1, <1>2, <1>3, <1>4 DEF g
  <2> QED BY <1>4, <2>1, <2>2 DEF g
<1>5. CASE r # x
  <2>1. CASE wire'[c] = wire[c]
    <3>1. Queued(wire[c], r, g, emitted[r], answered')
      BY <1>2 DEF Queued, g
    <3> QED BY <1>1, <1>5, <2>1, <3>1 DEF g
  <2>2. CASE wire'[c] = Append(wire[c], [to |-> x, n |-> n])
    <3>1. [to |-> x, n |-> n] \in Messages /\ [to |-> x, n |-> n].to # r
      BY <1>5 DEF Messages
    <3>2. Queued(Append(wire[c], [to |-> x, n |-> n]), r, g, emitted[r], answered')
      BY <1>1, <1>2, <1>3, <3>1, QueuedOther DEF g
    <3> QED BY <1>1, <1>5, <2>2, <3>2 DEF g
  <2> QED BY <2>1, <2>2, PutsFacts
<1> QED BY <1>4, <1>5

LEMMA OrderedKept == Typed /\ Unborn /\ Flow /\ Next => Ordered'
<1> SUFFICES ASSUME Typed, Unborn, Flow, Next PROVE Ordered'
  OBVIOUS
<1> USE DEF Flow
<1>1. ASSUME NEW r \in Requests, Register(r) PROVE Ordered'
  <2>1. UNCHANGED <<reader, message, socket, heard, wire, emitted, answered>>
    BY <1>1 DEF Register
  <2>2. \A c \in Conns : \A x \in handlers'[c] : x \in handlers[c] \/ (x = r /\ c = on[r])
    BY <1>1 DEF Register, Typed, TableTypes
  <2>3. r \notin sent /\ emitted[r] = 0 /\ heard[r] = 0 /\ ~Handling(on[r], r)
    <3>1. r \notin sent
      BY <1>1 DEF Register, Typed, PageTypes
    <3>2. emitted[r] = 0 /\ heard[r] = 0
      BY <3>1 DEF Due, Typed, PageTypes
    <3>3. ~Handling(on[r], r)
      <4>1. on[r] \in Conns
        BY <1>1 DEF Register, Typed, RequestTypes
      <4> QED BY <3>1, <4>1 DEF Handling, Routed
    <3> QED BY <3>1, <3>2, <3>3
  <2>4. ASSUME on[r] \in Conns
        PROVE  Queued(wire[on[r]], r, 0, 0, answered)
    <3>1. \A i \in 1..Len(wire[on[r]]) : wire[on[r]][i].to # r
      BY <2>3, <2>4 DEF Routed
    <3> QED BY <3>1 DEF Queued, Tells, Answers
  <2>5. Got(on[r], r) = 0
    BY <2>3 DEF Got
  <2>6. \A c \in Conns : Reads(c) => \A x \in handlers'[c] :
          Queued(wire[c], x, Got(c, x), emitted[x], answered)
    <3> SUFFICES ASSUME NEW c \in Conns, Reads(c), NEW x \in handlers'[c]
                 PROVE  Queued(wire[c], x, Got(c, x), emitted[x], answered)
      OBVIOUS
    <3>1. CASE x \in handlers[c]
      BY <3>1 DEF Ordered
    <3>2. CASE x = r /\ c = on[r]
      BY <2>3, <2>4, <2>5, <3>2
    <3> QED BY <2>2, <3>1, <3>2
  <2> QED BY <2>1, <2>6 DEF Ordered, Reads, Got, Handling
<1>2. ASSUME NEW r \in Requests, Leave(r) PROVE Ordered'
  <2>1. UNCHANGED <<reader, message, socket, heard, wire, emitted, answered>>
        /\ \A c \in Conns : handlers'[c] \subseteq handlers[c]
    BY <1>2 DEF Leave, Unregister, Drop, Typed, TableTypes
  <2> QED BY <2>1 DEF Ordered, Reads, Got, Handling
<1>3. CASE WakeAll
  <2>1. UNCHANGED <<reader, message, socket, heard, wire, emitted, answered>>
        /\ \A c \in Conns : handlers'[c] \subseteq handlers[c]
    BY <1>3 DEF WakeAll, Typed, TableTypes
  <2> QED BY <2>1 DEF Ordered, Reads, Got, Handling
<1>4. ASSUME NEW c \in Conns, Receive(c) PROVE Ordered'
  <2> DEFINE m == Head(wire[c])
  <2>1. wire[c] \in Seq(Messages) /\ wire[c] # <<>> /\ m \in Messages /\ Reads(c)
    BY <1>4, TailFacts DEF Receive, Typed, PageTypes, Reads
  <2>2. m.to \in Requests /\ m.n \in Nat
    BY <2>1 DEF Messages
  <2>3. ASSUME NEW r \in handlers[c]
        PROVE  Queued(wire'[c], r, Got(c, r)', emitted[r], answered)
    <3>0. r \in Requests /\ heard[r] \in Nat /\ emitted[r] \in Nat
      BY DEF Typed, TableTypes, PageTypes
    <3>1. Queued(wire[c], r, heard[r], emitted[r], answered)
      <4>1. Got(c, r) = heard[r]
        BY <1>4 DEF Receive, Got, Handling
      <4> QED BY <2>1, <4>1 DEF Ordered
    <3>2. heard' = heard /\ wire'[c] = Tail(wire[c])
          /\ (reader'[c] = "handle" => message'[c] = m /\ m.n # 0)
          /\ (m.n # 0 /\ m.to \in handlers[c] => reader'[c] = "handle")
      BY <1>4, ReceiveFacts
    <3>3. CASE m.to # r
      <4>1. Got(c, r)' = heard[r]
        BY <3>2, <3>3 DEF Got, Handling
      <4>2. Queued(Tail(wire[c]), r, heard[r], emitted[r], answered)
        BY <2>1, <3>0, <3>1, <3>3, QueuedTail
      <4> QED BY <3>2, <4>1, <4>2
    <3>4. CASE m.to = r /\ m.n > 0
      <4>1. Got(c, r)' = heard[r] + 1
        <5>1. reader'[c] = "handle" /\ message'[c].to = r
          BY <3>2, <3>4
        <5> QED BY <3>2, <5>1 DEF Got, Handling
      <4>2. Queued(Tail(wire[c]), r, heard[r] + 1, emitted[r], answered)
        BY <1>4, <3>4, Taken
      <4> QED BY <3>2, <4>1, <4>2
    <3>5. CASE m.to = r /\ m.n = 0
      <4>1. Got(c, r)' = heard[r]
        BY <3>2, <3>5 DEF Got, Handling
      <4>2. Queued(Tail(wire[c]), r, heard[r], emitted[r], answered)
        BY <1>4, <3>5, Taken
      <4> QED BY <3>2, <4>1, <4>2
    <3> QED BY <2>2, <3>3, <3>4, <3>5
  <2>4. ASSUME NEW d \in Conns, d # c, socket[d] # "closed", reader'[d] # "dead",
               NEW r \in handlers[d]
        PROVE  Queued(wire'[d], r, Got(d, r)', emitted[r], answered)
    <3>1. heard' = heard /\ reader'[d] = reader[d] /\ message'[d] = message[d] /\ wire'[d] = wire[d]
      BY <1>4, <2>4, ReceiveFacts
    <3>2. Got(d, r)' = Got(d, r) /\ Reads(d)
      BY <2>4, <3>1 DEF Got, Handling, Reads
    <3> QED BY <3>1, <3>2 DEF Ordered
  <2>5. UNCHANGED <<handlers, emitted, answered, socket>>
    BY <1>4, ReceiveFacts
  <2> QED BY <2>3, <2>4, <2>5 DEF Ordered, Reads
<1>5. ASSUME NEW c \in Conns, Handle(c) PROVE Ordered'
  <2> SUFFICES ASSUME NEW d \in Conns, socket'[d] # "closed", reader'[d] # "dead",
                      NEW r \in handlers'[d]
               PROVE  Reads(d) /\ wire'[d] = wire[d] /\ handlers'[d] \subseteq handlers[d]
                      /\ Got(d, r)' = Got(d, r) /\ emitted'[r] = emitted[r]
    BY <1>5, SameQueues, HandleFacts DEF Reads
  <2>1. UNCHANGED <<handlers, emitted, answered, wire, socket>>
    BY <1>5, HandleFacts
  <2>2. r \in Requests /\ on[r] = d
    BY <2>1 DEF Typed, TableTypes, Tables, NothingLeft
  <2>3. CASE d = c
    <3>1. Reads(d)
      BY <1>5, <2>1, <2>3, HandleFacts DEF Reads
    <3>2. ~Handling(d, r)' /\ Got(d, r)' = heard'[r]
      BY <1>5, <2>3, HandleFacts DEF Handling, Got
    <3>3. heard'[r] = IF r = message[c].to THEN heard[r] + 1 ELSE heard[r]
      <4>1. heard' = [heard EXCEPT ![message[c].to] = @ + 1] /\ heard \in [Requests -> Nat]
        BY <1>5, HandleFacts DEF Typed, PageTypes
      <4> QED BY <2>2, <4>1
    <3>4. Got(d, r) = IF r = message[c].to THEN heard[r] + 1 ELSE heard[r]
      BY <1>5, <2>3, HandleFacts DEF Handling, Got
    <3> QED BY <2>1, <3>1, <3>2, <3>3, <3>4
  <2>4. CASE d # c
    <3>1. reader'[d] = reader[d] /\ message'[d] = message[d]
      BY <1>5, <2>4, HandleFacts
    <3>2. r # message[c].to
      BY <1>5, <2>2, <2>4, HandleFacts
    <3>3. heard'[r] = heard[r]
      <4>1. heard' = [heard EXCEPT ![message[c].to] = @ + 1] /\ heard \in [Requests -> Nat]
        BY <1>5, HandleFacts DEF Typed, PageTypes
      <4> QED BY <2>2, <3>2, <4>1
    <3> QED BY <2>1, <3>1, <3>3 DEF Got, Handling, Reads
  <2> QED BY <2>3, <2>4
<1>6. ASSUME NEW c \in Conns, Idles(c) PROVE Ordered'
  <2>1. UNCHANGED <<handlers, emitted, answered, wire, socket, heard>>
    BY <1>6, IdlesFacts
  <2>2. \A d \in Conns : reader'[d] # "dead" => reader[d] # "dead"
    BY <1>6, IdlesFacts
  <2>3. \A d \in Conns, r \in Requests : Got(d, r)' = Got(d, r)
    BY <1>6, <2>1, IdlesFacts DEF Got, Handling
  <2>4. \A d \in Conns : handlers[d] \subseteq Requests
    BY DEF Typed, TableTypes
  <2> QED BY <2>1, <2>2, <2>3, <2>4, SameQueues DEF Reads
<1>7. ASSUME NEW c \in Conns, Finish(c) PROVE Ordered'
  <2>1. UNCHANGED <<handlers, emitted, answered, socket, heard, message>>
    BY <1>7 DEF Finish
  <2>2. \A d \in Conns : reader'[d] # "dead" => reader'[d] = reader[d] /\ wire'[d] = wire[d]
    BY <1>7 DEF Finish, ReaderGoes, Typed, ReaderTypes, PageTypes
  <2> QED BY <2>1, <2>2, SameQueues DEF Reads, Got, Handling
<1>8. CASE Shut
  <2>1. UNCHANGED <<handlers, emitted, answered, reader, heard, message>>
    BY <1>8 DEF Shut
  <2>2. \A d \in Conns : socket'[d] # "closed" => socket[d] # "closed" /\ wire'[d] = wire[d]
    BY <1>8 DEF Shut, Typed, ClientTypes, PageTypes
  <2> QED BY <2>1, <2>2, SameQueues DEF Reads, Got, Handling
<1>9. CASE Open
  <2>1. UNCHANGED <<handlers, emitted, answered, wire, heard, message>>
    BY <1>9 DEF Open
  <2>2. \A d \in Conns :
          \/ socket'[d] = socket[d] /\ reader'[d] = reader[d]
          \/ socket[d] = "none" /\ reader[d] = "none" /\ reader'[d] = "loop"
    BY <1>9 DEF Open, ReaderGoes, Typed, ClientTypes, PageTypes, ReaderTypes, Unborn
  <2>3. \A d \in Conns : socket'[d] # "closed" /\ reader'[d] # "dead" => Reads(d)
    BY <2>2 DEF Reads
  <2>4. \A d \in Conns, r \in Requests : Got(d, r)' = Got(d, r)
    BY <2>1, <2>2 DEF Got, Handling
  <2>5. \A d \in Conns : handlers[d] \subseteq Requests
    BY DEF Typed, TableTypes
  <2> QED BY <2>1, <2>3, <2>4, <2>5, SameQueues
<1>10. ASSUME NEW c \in Conns, Break(c) PROVE Ordered'
  <2>1. UNCHANGED <<handlers, emitted, answered, wire, reader, heard, message>>
    BY <1>10 DEF Break
  <2>2. \A d \in Conns : socket'[d] # "closed" => socket[d] # "closed"
    BY <1>10 DEF Break, Typed, PageTypes
  <2> QED BY <2>1, <2>2, SameQueues DEF Reads, Got, Handling
<1>11. ASSUME NEW r \in Requests, Emit(r) PROVE Ordered'
  <2>1. r \notin answered /\ emitted[r] \in Nat /\ emitted[r] + 1 \in Nat
    <3>1. r \notin answered
      BY <1>11 DEF Emit, Works
    <3>2. emitted[r] \in Nat
      BY DEF Typed, PageTypes
    <3> QED BY <3>1, <3>2
  <2>2. emitted'[r] = emitted[r] + 1 /\ \A x \in Requests : x # r => emitted'[x] = emitted[x]
    BY <1>11 DEF Emit, Typed, PageTypes
  <2>3. Puts(r, emitted[r] + 1) /\ UNCHANGED <<handlers, reader, message, socket, heard, answered>>
    BY <1>11 DEF Emit
  <2>4. \A q \in Seq(Messages), g \in Nat :
          g <= emitted[r] /\ Queued(q, r, g, emitted[r], answered)
            => Queued(Append(q, [to |-> r, n |-> emitted[r] + 1]), r, g, emitted[r] + 1, answered)
    BY <2>1, QueuedEvent
  <2> QED BY <2>1, <2>2, <2>3, <2>4, PutsOrdered
<1>12. ASSUME NEW r \in Requests, Answer(r) PROVE Ordered'
  <2>1. r \notin answered /\ emitted[r] \in Nat
    <3>1. r \notin answered
      BY <1>12 DEF Answer, Works
    <3>2. emitted[r] \in Nat
      BY DEF Typed, PageTypes
    <3> QED BY <3>1, <3>2
  <2>2. answered' = answered \cup {r} /\ Puts(r, 0)
        /\ UNCHANGED <<handlers, reader, message, socket, heard, emitted>>
    BY <1>12 DEF Answer
  <2>3. \A q \in Seq(Messages), g \in Nat :
          g <= emitted[r] /\ Queued(q, r, g, emitted[r], answered)
            => Queued(Append(q, [to |-> r, n |-> 0]), r, g, emitted[r], answered \cup {r})
    BY <2>1, QueuedAnswer
  <2> QED BY <2>2, <2>3, PutsOrdered
<1>13. CASE UNCHANGED <<handlers, reader, message, socket, heard, wire, emitted, answered>>
  BY <1>13 DEF Ordered, Reads, Got, Handling
<1> QED
  BY <1>1, <1>2, <1>3, <1>4, <1>5, <1>6, <1>7, <1>8, <1>9, <1>10, <1>11, <1>12, <1>13
     DEF Next, Call, Read, Own, Idles, Capture, Send, Wait, Stop, Cancel

LEMMA LateKept == Typed /\ Flow /\ Late /\ Next => Late'
<1> SUFFICES ASSUME Typed, Flow, Late, Next PROVE Late'
  OBVIOUS
<1> USE DEF Flow
<1>1. ASSUME NEW r \in Requests, Capture(r) \/ Register(r) \/ Send(r) \/ Wait(r) PROVE Late'
  <2>1. UNCHANGED <<after, reader, message>>
    BY <1>1 DEF Capture, Register, Send, Wait
  <2>2. place[r] # "ended" /\ \A x \in Requests : x # r => place'[x] = place[x] /\ verdict'[x] = verdict[x]
    BY <1>1 DEF Capture, Register, Send, Wait, Goes, Typed, RequestTypes
  <2>3. verdict'[r] = verdict[r] \/ verdict'[r] \in {"cancelled", "timeout", "failed"}
    BY <1>1 DEF Capture, Register, Send, Wait, Typed, RequestTypes
  <2> QED BY <2>1, <2>2, <2>3 DEF Late, Handling
<1>2. ASSUME NEW r \in Requests, Leave(r) PROVE Late'
  <2>1. UNCHANGED <<after, reader, message>> /\ place'[r] = "ended"
    BY <1>2 DEF Leave, Goes, Typed, RequestTypes
  <2>2. \A x \in Requests : x # r => place'[x] = place[x] /\ verdict'[x] = verdict[x]
    BY <1>2 DEF Leave, Goes, Typed, RequestTypes
  <2>3. place[r] # "ended" /\ after[r] = 0 /\ verdict[r] # "answer" /\ on[r] \in Conns
    BY <1>2 DEF Leave, Late, Typed, RequestTypes
  <2>4. verdict'[r] = "answer" => r \in responses[on[r]]
    BY <1>2, <2>3 DEF Leave, Typed, RequestTypes
  <2>5. verdict'[r] = "answer" => \A c \in Conns : ~Handling(c, r)
    BY <2>3, <2>4, OneReader DEF Complete
  <2> QED BY <2>1, <2>2, <2>3, <2>5 DEF Late, Handling
<1>3. ASSUME NEW c \in Conns, Receive(c) PROVE Late'
  <2>1. UNCHANGED <<after, place, verdict>>
    BY <1>3 DEF Receive
  <2>2. \A d \in Conns : reader'[d] = "handle" =>
          \/ reader[d] = "handle" /\ message'[d] = message[d]
          \/ d = c /\ message'[d].to \in handlers[c]
    BY <1>3, ReceiveFacts
  <2>3. \A x \in handlers[c] : x \in Requests /\ place[x] # "ended"
    BY DEF Tables, NothingLeft, InProgress, Typed, TableTypes
  <2>4. \A x \in handlers[c] : after[x] = 0 /\ verdict[x] # "answer"
    BY <2>3 DEF Late
  <2>5. \A d \in Conns, x \in Requests :
          reader'[d] = "handle" /\ message'[d].to = x
            => Handling(d, x) \/ (after[x] = 0 /\ verdict[x] # "answer")
    BY <2>2, <2>4 DEF Handling
  <2>6. \A x \in Requests : after[x] = 1 \/ verdict[x] = "answer" =>
          \A d \in Conns : ~(reader'[d] = "handle" /\ message'[d].to = x)
    BY <2>5 DEF Late
  <2> QED BY <2>1, <2>6 DEF Late, Handling
<1>4. ASSUME NEW c \in Conns, Handle(c) PROVE Late'
  <2> DEFINE x == message[c].to
  <2>1. UNCHANGED <<place, verdict>> /\ x \in Requests /\ on[x] = c /\ Handling(c, x)
    BY <1>4, HandleFacts DEF Handling
  <2>2. after[x] = 0 /\ verdict[x] # "answer"
    BY <2>1 DEF Late
  <2>3. \A d \in Conns : reader'[d] = "handle" => d # c /\ reader[d] = "handle" /\ message'[d] = message[d]
    BY <1>4, HandleFacts
  <2>4. \A d \in Conns : ~(reader'[d] = "handle" /\ message'[d].to = x)
    BY <2>1, <2>3 DEF Routed
  <2>5. \A r \in Requests : r # x => after'[r] = after[r]
    BY <1>4 DEF Handle, Typed
  <2>6. after'[x] \in 0..1 /\ (place[x] # "ended" => after'[x] = 0)
    BY <1>4, <2>1, <2>2 DEF Handle, Typed
  <2> HIDE DEF x
  <2>7. ASSUME NEW r \in Requests, r # x
        PROVE  /\ after'[r] \in 0..1
               /\ place[r] # "ended" => after'[r] = 0 /\ verdict[r] # "answer"
               /\ after'[r] = 1 \/ verdict[r] = "answer" =>
                    \A d \in Conns : ~(reader'[d] = "handle" /\ message'[d].to = r)
    BY <2>3, <2>5, <2>7 DEF Late, Handling
  <2>8. \A r \in Requests :
          /\ after'[r] \in 0..1
          /\ place[r] # "ended" => after'[r] = 0 /\ verdict[r] # "answer"
          /\ after'[r] = 1 \/ verdict[r] = "answer" =>
               \A d \in Conns : ~(reader'[d] = "handle" /\ message'[d].to = r)
    BY <2>2, <2>4, <2>6, <2>7
  <2> QED BY <2>1, <2>8 DEF Late, Handling
<1>5. CASE /\ UNCHANGED <<after, place, verdict>>
           /\ \A d \in Conns : reader'[d] = "handle" => reader[d] = "handle" /\ message'[d] = message[d]
  BY <1>5 DEF Late, Handling
<1>6. ASSUME NEW c \in Conns, Idles(c) PROVE Late'
  <2>1. \A d \in Conns : reader'[d] = "handle" => reader[d] = "handle" /\ message'[d] = message[d]
    BY <1>6, IdlesFacts
  <2> QED BY <1>5, <1>6, <2>1, IdlesFacts
<1>7. ASSUME NEW c \in Conns, Finish(c) PROVE Late'
  BY <1>5, <1>7 DEF Finish, ReaderGoes, Typed, ReaderTypes
<1>8. CASE Open
  BY <1>5, <1>8 DEF Open, ReaderGoes, Typed, ReaderTypes
<1>9. CASE UNCHANGED <<after, place, verdict, reader, message>>
  BY <1>5, <1>9
<1> QED
  BY <1>1, <1>2, <1>3, <1>4, <1>6, <1>7, <1>8, <1>9
     DEF Next, Call, Read, Own, Idles, Stop, WakeAll, Shut, Emit, Answer, Break, Cancel

-----------------------------------------------------------------------------
(* The invariant holds                                                       *)

Inv == Typed /\ Unborn /\ Flow /\ Late /\ Waking

LEMMA InvHolds == Init => Inv
<1> SUFFICES ASSUME Init PROVE Inv
  OBVIOUS
<1>1. Typed
  BY TypesHold
<1>2. Unborn /\ Tables /\ Complete /\ Waking
  BY DEF Init, Unborn, Tables, NothingLeft, Complete, Waking, InProgress
<1>3. Routed /\ Due
  BY EmptySeq DEF Init, Routed, Due
<1>4. Ordered
  BY DEF Init, Ordered
<1>5. Late
  <2>1. \A c \in Conns, r \in Requests : ~Handling(c, r)
    BY DEF Init, Handling
  <2>2. after = [r \in Requests |-> 0] /\ verdict = [r \in Requests |-> "none"]
    BY DEF Init
  <2>3. \A r \in Requests : after[r] = 0 /\ after[r] \in 0..1 /\ verdict[r] # "answer"
    <3>1. \A r \in Requests : after[r] = 0
      BY <2>2
    <3>2. \A r \in Requests : verdict[r] # "answer"
      BY <2>2
    <3>3. 0 \in 0..1
      OBVIOUS
    <3> QED BY <3>1, <3>2, <3>3, Zenon
  <2>4. \A r \in Requests : after[r] = 1 \/ verdict[r] = "answer" => FALSE
    BY <2>3
  <2> QED BY <2>3, <2>4 DEF Late
<1> QED BY <1>1, <1>2, <1>3, <1>4, <1>5 DEF Inv, Flow

LEMMA InvKept == Inv /\ [Next]_vars => Inv'
<1> SUFFICES ASSUME Inv, [Next]_vars PROVE Inv'
  OBVIOUS
<1>1. CASE Next
  <2>1. Typed' /\ Unborn' /\ Late' /\ Waking'
    BY <1>1, TypesKept, UnbornKept, LateKept, WakingKept DEF Inv, Flow
  <2>2. Flow'
    BY <1>1, RoutedKept, TablesKept, DueKept, OrderedKept, CompleteKept DEF Inv, Flow
  <2> QED BY <2>1, <2>2 DEF Inv
<1>2. CASE UNCHANGED vars
  <2>1. Typed'
    BY <1>2, TypesKept DEF Inv
  <2>2. Unborn' /\ Late' /\ Waking'
    BY <1>2 DEF vars, Inv, Unborn, Late, Waking, Handling
  <2>3. Flow'
    BY <1>2 DEF vars, Inv, Flow, Routed, Tables, NothingLeft, Due, Ordered, Reads, Got, Complete,
                Handling
  <2> QED BY <2>1, <2>2, <2>3 DEF Inv
<1> QED BY <1>1, <1>2

\* The parts of the invariant hold together in every state.
THEOREM InvAlways == Spec => []Inv
  BY InvHolds, InvKept, PTL DEF Spec

-----------------------------------------------------------------------------
(* What follows from it                                                      *)

\* The variables of client, dispatchers, requests and page keep their types.
THEOREM TypeCorrect == Spec => []TypeOK
<1>1. Inv => TypeOK
  BY DEF Inv, Typed, Late, TypeOK
<1> QED BY <1>1, InvAlways, PTL

\* Only requests in progress are in the tables of a dispatcher, whatever answers
\* arrive late and whichever connections are closed under them.
THEOREM TablesAreClean == Spec => []NothingLeft
<1>1. Inv => NothingLeft
  BY DEF Inv, Flow, Tables
<1> QED BY <1>1, InvAlways, PTL

\* When a reader ends, all that are registered with it have been woken.
THEOREM LastCallIsHeard == Spec => LastCallWakes
<1>1. Inv /\ [Next]_vars =>
        [\A c \in Conns :
           reader[c] # "dead" /\ reader'[c] = "dead"
             => \A r \in Requests :
                  on[r] = c /\ place[r] \in {"registered", "waiting"} => r \in woken']_vars
  <2> SUFFICES ASSUME Inv, Next, NEW c \in Conns, reader[c] # "dead", reader'[c] = "dead",
                      NEW r \in Requests, on[r] = c, place[r] \in {"registered", "waiting"}
               PROVE  r \in woken'
    BY DEF vars
  <2>1. r \in pending[c] \cup woken
    BY DEF Inv, Waking, InProgress
  <2>2. ASSUME NEW d \in Conns, Finish(d) PROVE r \in woken'
    <3>1. d = c
      BY <2>2 DEF Finish, ReaderGoes, Inv, Typed, ReaderTypes
    <3>2. woken' = woken \cup {x \in pending[c] : place[x] # "ended"}
      BY <2>2, <3>1 DEF Finish, Wakes
    <3> QED BY <2>1, <3>2
  <2>3. CASE \A d \in Conns : ~Finish(d)
    <3>1. ASSUME NEW d \in Conns, Read(d) PROVE FALSE
      BY <2>3, <3>1 DEF Read, Poll, Receive, Handle, NoteError, Signal, ReaderGoes, ReaderLoops,
                        Inv, Typed, ReaderTypes
    <3>2. CASE Open
      BY <3>2 DEF Open, ReaderGoes, Inv, Typed, ReaderTypes
    <3>3. CASE UNCHANGED reader
      BY <3>3
    <3> QED BY <3>1, <3>2, <3>3 DEF Next, Call, Own, Capture, Register, Send, Wait, Leave, Stop,
                                    WakeAll, Shut, Emit, Answer, Break, Cancel
  <2> QED BY <2>2, <2>3
<1> QED BY <1>1, InvAlways, PTL DEF Spec, LastCallWakes

-----------------------------------------------------------------------------
(* The exchange is implemented                                               *)

LEMMA ExchangeBegins == Init => Exchange!Init
  BY DEF Init, Exchange!Init, stageBar, verdictBar

\* What the caller sees of a request does not change with its place inside request.
LEMMA SameStage ==
  ASSUME \A r \in Requests :
           /\ place'[r] = "new" <=> place[r] = "new"
           /\ place'[r] = "ended" <=> place[r] = "ended"
           /\ place[r] = "ended" => verdict'[r] = verdict[r]
  PROVE  stageBar' = stageBar /\ verdictBar' = verdictBar
<1>1. stageBar' = stageBar
  BY DEF stageBar
<1>2. verdictBar' = verdictBar
  BY DEF verdictBar
<1> QED BY <1>1, <1>2

LEMMA StageFacts ==
  ASSUME NEW r \in Requests
  PROVE  /\ stageBar[r] = "new" <=> place[r] = "new"
         /\ stageBar[r] = "ended" <=> place[r] = "ended"
         /\ stageBar[r] = "running" <=> place[r] \notin {"new", "ended"}
         /\ place[r] = "ended" => verdictBar[r] = verdict[r]
  BY DEF stageBar, verdictBar

LEMMA Steps == Inv /\ [Next]_vars => [Exchange!Next]_(Exchange!vars)
<1> SUFFICES ASSUME Inv, Next PROVE [Exchange!Next]_(Exchange!vars)
  BY DEF vars, Exchange!vars, stageBar, verdictBar
<1> USE DEF Inv
<1>0. CASE UNCHANGED <<place, verdict, emitted, answered, heard, after>>
  BY <1>0 DEF Exchange!vars, stageBar, verdictBar
<1>1. ASSUME NEW r \in Requests, Capture(r) PROVE Exchange!Next
  <2>1. place[r] = "new" /\ place' = [place EXCEPT ![r] = "captured"]
        /\ UNCHANGED <<verdict, emitted, answered, heard, after>>
    BY <1>1 DEF Capture, Goes
  <2>2. stageBar' = [stageBar EXCEPT ![r] = "running"] /\ verdictBar' = verdictBar
    BY <2>1 DEF Typed, RequestTypes, stageBar, verdictBar
  <2>3. Exchange!Begin(r)
    BY <2>1, <2>2, StageFacts DEF Exchange!Begin
  <2> QED BY <2>3 DEF Exchange!Next
<1>2. ASSUME NEW r \in Requests, Register(r) \/ Send(r) \/ Wait(r)
      PROVE UNCHANGED Exchange!vars
  <2>1. UNCHANGED <<emitted, answered, heard, after>>
    BY <1>2 DEF Register, Send, Wait
  <2>2. place[r] \notin {"new", "ended"} /\ place'[r] \notin {"new", "ended"}
    BY <1>2 DEF Register, Send, Wait, Goes, Typed, RequestTypes
  <2>3. \A x \in Requests : x # r => place'[x] = place[x] /\ verdict'[x] = verdict[x]
    BY <1>2 DEF Register, Send, Wait, Goes, Typed, RequestTypes
  <2>4. stageBar' = stageBar /\ verdictBar' = verdictBar
    BY <2>2, <2>3, SameStage
  <2> QED BY <2>1, <2>4 DEF Exchange!vars
<1>3. ASSUME NEW r \in Requests, Leave(r) PROVE Exchange!Next
  <2>1. place[r] = "leaving" /\ place' = [place EXCEPT ![r] = "ended"]
        /\ UNCHANGED <<emitted, answered, heard, after>>
    BY <1>3 DEF Leave, Goes
  <2>2. verdict'[r] \in Endings /\ \A x \in Requests : x # r => verdict'[x] = verdict[x]
    BY <1>3 DEF Leave, Typed, RequestTypes, Endings
  <2>3. verdict'[r] = "answer" => r \in responses[on[r]] /\ on[r] \in Conns
    BY <1>3, <2>1 DEF Leave, Typed, RequestTypes, Late
  <2>4. verdict'[r] = "answer" => r \in answered /\ heard[r] = emitted[r]
    BY <2>3 DEF Flow, Complete
  <2>5. stageBar' = [stageBar EXCEPT ![r] = "ended"]
    BY <2>1 DEF Typed, RequestTypes, stageBar
  <2>6. verdictBar' = [verdictBar EXCEPT ![r] = verdict'[r]]
    BY <2>1, <2>2 DEF Typed, RequestTypes, verdictBar
  <2>7. Exchange!End(r, verdict'[r])
    BY <2>1, <2>4, <2>5, <2>6, StageFacts DEF Exchange!End
  <2> QED BY <2>2, <2>7 DEF Exchange!Next
<1>4. ASSUME NEW r \in Requests, Emit(r) PROVE Exchange!Next
  <2>1. place[r] # "new" /\ r \notin answered
    BY <1>4 DEF Emit, Works, Typed, PageTypes
  <2>2. emitted' = [emitted EXCEPT ![r] = @ + 1]
        /\ UNCHANGED <<stageBar, verdictBar, answered, heard, after>>
    BY <1>4 DEF Emit, stageBar, verdictBar
  <2>3. Exchange!Emit(r)
    BY <2>1, <2>2, StageFacts DEF Exchange!Emit
  <2> QED BY <2>3 DEF Exchange!Next
<1>5. ASSUME NEW r \in Requests, Answer(r) PROVE Exchange!Next
  <2>1. place[r] # "new"
    BY <1>5 DEF Answer, Works, Typed, PageTypes
  <2>2. answered' = answered \cup {r}
        /\ UNCHANGED <<stageBar, verdictBar, emitted, heard, after>>
    BY <1>5 DEF Answer, stageBar, verdictBar
  <2>3. Exchange!Answer(r)
    BY <2>1, <2>2, StageFacts DEF Exchange!Answer
  <2> QED BY <2>3 DEF Exchange!Next
<1>6. ASSUME NEW c \in Conns, Handle(c) PROVE Exchange!Next
  <2> DEFINE r == message[c].to
  <2>1. /\ r \in Requests /\ Handling(c, r) /\ heard[r] + 1 <= emitted[r]
        /\ heard' = [heard EXCEPT ![r] = @ + 1]
        /\ UNCHANGED <<place, verdict, emitted, answered>>
    BY <1>6, HandleFacts DEF Flow, Handling
  <2>2. place[r] # "new"
    <3>1. r \in sent
      BY <2>1 DEF Flow, Routed, Handling
    <3> QED BY <3>1 DEF Typed, PageTypes
  <2>3. after[r] = 0 /\ verdict[r] # "answer"
    BY <2>1 DEF Late
  <2>4. UNCHANGED <<stageBar, verdictBar>>
    BY <2>1 DEF stageBar, verdictBar
  <2>5. heard[r] < emitted[r]
    BY <2>1 DEF Typed, PageTypes
  <2>6. CASE place[r] = "ended"
    <3>1. after' = [after EXCEPT ![r] = @ + 1]
      BY <1>6, <2>6 DEF Handle
    <3>2. after' = [after EXCEPT ![r] = 1]
      BY <2>1, <2>3, <3>1 DEF Typed
    <3>3. stageBar[r] = "ended" /\ verdictBar[r] # "answer"
      BY <2>1, <2>3, <2>6, StageFacts
    <3>4. Exchange!Hear(r)
      BY <2>1, <2>3, <2>4, <2>5, <3>2, <3>3 DEF Exchange!Hear
    <3> QED BY <2>1, <3>4 DEF Exchange!Next
  <2>7. CASE place[r] # "ended"
    <3>1. after' = after
      BY <1>6, <2>7 DEF Handle
    <3>2. stageBar[r] = "running"
      BY <2>1, <2>2, <2>7, StageFacts
    <3>3. Exchange!Hear(r)
      BY <2>1, <2>4, <2>5, <3>1, <3>2 DEF Exchange!Hear
    <3> QED BY <2>1, <3>3 DEF Exchange!Next
  <2> QED BY <2>6, <2>7
<1> QED
  BY <1>0, <1>1, <1>2, <1>3, <1>4, <1>5, <1>6
     DEF Next, Call, Read, Own, Poll, Receive, NoteError, Signal, Finish, Stop, WakeAll, Shut, Open,
         Break, Cancel

\* The channel implements the exchange: for every request events in order, its own
\* answer after all of them or another end, and at most one event after that.
THEOREM KeepsExchange == Spec => Correlated
<1>1. Spec => Exchange!Init /\ [][Exchange!Next]_(Exchange!vars)
  BY ExchangeBegins, Steps, InvAlways, PTL DEF Spec
<1> QED BY <1>1 DEF Correlated, Exchange!Spec

HIDE DEF Conns, None, clientVars, tableVars, readerVars, requestVars, pageVars, heardVars

-----------------------------------------------------------------------------
(* The page                                                                *)

-----------------------------------------------------------------------------
(* Sequences                                                                 *)

LEMMA Joining ==
  ASSUME NEW S, NEW s \in Seq(S), NEW t \in Seq(S)
  PROVE  /\ s \o t \in Seq(S) /\ Len(s \o t) = Len(s) + Len(t)
         /\ \A i \in 1..Len(s) : (s \o t)[i] = s[i]
         /\ \A i \in 1..Len(t) : (s \o t)[Len(s) + i] = t[i]
BY ConcatProperties

LEMMA JoiningThree ==
  ASSUME NEW S, NEW s \in Seq(S), NEW t \in Seq(S), NEW u \in Seq(S)
  PROVE  /\ s \o (t \o u) \in Seq(S) /\ Len(s \o (t \o u)) = Len(s) + Len(t) + Len(u)
         /\ \A i \in 1..Len(s) : (s \o (t \o u))[i] = s[i]
         /\ \A i \in 1..Len(t) : (s \o (t \o u))[Len(s) + i] = t[i]
         /\ \A i \in 1..Len(u) : (s \o (t \o u))[Len(s) + Len(t) + i] = u[i]
<1>0. Len(s) \in Nat /\ Len(t) \in Nat /\ Len(u) \in Nat
  BY LenProperties
<1>1. PICK q \in Seq(S) : q = t \o u
  BY Joining
<1>2. /\ Len(q) = Len(t) + Len(u)
      /\ \A i \in 1..Len(t) : q[i] = t[i]
      /\ \A i \in 1..Len(u) : q[Len(t) + i] = u[i]
  BY <1>1, Joining
<1>3. /\ s \o q \in Seq(S) /\ Len(s \o q) = Len(s) + Len(q)
      /\ \A i \in 1..Len(s) : (s \o q)[i] = s[i]
      /\ \A i \in 1..Len(q) : (s \o q)[Len(s) + i] = q[i]
  BY Joining
<1>4. \A i \in 1..Len(t) : (s \o q)[Len(s) + i] = t[i]
  BY <1>0, <1>2, <1>3
<1>5. ASSUME NEW i \in 1..Len(u) PROVE (s \o q)[Len(s) + Len(t) + i] = u[i]
  <2>1. Len(t) + i \in 1..Len(q) /\ Len(s) + (Len(t) + i) = Len(s) + Len(t) + i
    BY <1>0, <1>2
  <2>2. (s \o q)[Len(s) + (Len(t) + i)] = q[Len(t) + i]
    BY <2>1, <1>3
  <2> QED BY <2>1, <2>2, <1>2
<1>6. Len(s \o q) = Len(s) + Len(t) + Len(u)
  BY <1>0, <1>2, <1>3
<1> QED BY <1>1, <1>3, <1>4, <1>5, <1>6

\* What the audio t that is passed on becomes, told after s and before e, and what is held.
Moved(u, v, s, t, e, k) ==
  /\ Len(u) = Len(s) + k + Len(e) /\ Len(v) = Len(t) - k
  /\ \A i \in 1..Len(s) : u[i] = s[i]
  /\ \A i \in 1..k : u[Len(s) + i] = t[i]
  /\ \A i \in 1..Len(e) : u[Len(s) + k + i] = e[i]
  /\ \A i \in 1..Len(t) - k : v[i] = t[k + i]
LEMMA Moving ==
  ASSUME NEW S, NEW s \in Seq(S), NEW t \in Seq(S), NEW e \in Seq(S), NEW k \in 0..Len(t)
  PROVE  LET u == s \o (Passed(t, k) \o e)
             v == Held(t, k)
         IN u \in Seq(S) /\ v \in Seq(S) /\ Moved(u, v, s, t, e, k)
<1> DEFINE p == Passed(t, k)
           v == Held(t, k)
<1>0. Len(t) \in Nat /\ Len(s) \in Nat /\ Len(e) \in Nat
  BY LenProperties
<1>1. \A i \in 1..k : t[i] \in S
  BY <1>0, ElementOfSeq
<1>2. p \in Seq(S) /\ Len(p) = k /\ \A i \in 1..k : p[i] = t[i]
  <2>1. /\ p \in Seq(S) /\ Len(p) = IF 1 <= k THEN k - 1 + 1 ELSE 0
        /\ \A i \in 1..k - 1 + 1 : p[i] = t[1 + i - 1]
    BY <1>0, <1>1, SubSeqProperties DEF Passed
  <2>2. \A i \in 1..k : p[i] = t[i]
    BY <2>1, <1>0
  <2> QED BY <2>1, <2>2, <1>0
<1>3. v \in Seq(S) /\ Len(v) = Len(t) - k /\ \A i \in 1..Len(t) - k : v[i] = t[k + i]
  <2>1. \A i \in k + 1..Len(t) : t[i] \in S
    BY <1>0, ElementOfSeq
  <2>2. /\ v \in Seq(S) /\ Len(v) = IF k + 1 <= Len(t) THEN Len(t) - (k + 1) + 1 ELSE 0
        /\ \A i \in 1..Len(t) - (k + 1) + 1 : v[i] = t[k + 1 + i - 1]
    BY <1>0, <2>1, SubSeqProperties DEF Held
  <2>3. ASSUME NEW i \in 1..Len(t) - k PROVE v[i] = t[k + i]
    <3>1. i \in 1..Len(t) - (k + 1) + 1 /\ k + 1 + i - 1 = k + i
      BY <1>0
    <3> QED BY <2>2, <3>1
  <2> QED BY <2>2, <2>3, <1>0
<1> HIDE DEF p, v
<1>4. /\ s \o (p \o e) \in Seq(S) /\ Len(s \o (p \o e)) = Len(s) + Len(p) + Len(e)
      /\ \A i \in 1..Len(s) : (s \o (p \o e))[i] = s[i]
      /\ \A i \in 1..Len(p) : (s \o (p \o e))[Len(s) + i] = p[i]
      /\ \A i \in 1..Len(e) : (s \o (p \o e))[Len(s) + Len(p) + i] = e[i]
  <2>1. p \in Seq(S)
    BY <1>2
  <2> QED BY <2>1, JoiningThree
<1> QED BY <1>2, <1>3, <1>4 DEF p, v, Moved

USE CallsAreDistinct, SegmentsAreSome, ChunksAreSome DEF Calls, CallOrNobody

-----------------------------------------------------------------------------
(* The page's functions                                                      *)

Pages ==
  [current : CallOrNobody, session : CallOrNobody, muted : BOOLEAN,
   stopped : BOOLEAN, ended : BOOLEAN, chunked : BOOLEAN, error : BOOLEAN,
   kept : Seq(Item), port : CallOrNobody]
PageOK(p) ==
  /\ p \in Pages
  /\ p.current \in {p.session, Nobody} /\ (p.stopped => p.current = Nobody)

\* What stops a session: there is no current one, and nothing is kept.
LEMMA Stopping ==
  ASSUME NEW p, PageOK(p), NEW S
  PROVE  LET q == Forget(StopActive(p), S)
         IN /\ PageOK(q)
            /\ q.current = Nobody /\ q.kept = <<>> /\ q.session \in {p.session, Nobody}
            /\ q.ended = p.ended /\ q.chunked = p.chunked
<1>1. <<>> \in Seq(Item)
  BY EmptySeq
<1> QED BY <1>1 DEF PageOK, Pages, Forget, StopActive

\* What begins one: it has the token, and nothing has been heard of it.
LEMMA Beginning ==
  ASSUME NEW p, PageOK(p), NEW c \in Calls
  PROVE  LET q == BeginSession(p, c)
         IN /\ PageOK(q)
            /\ q.current = c /\ q.session = c /\ q.kept = <<>>
            /\ ~q.ended /\ ~q.chunked /\ (q.muted <=> c \in Preloads)
            /\ q.port = p.port
<1>1. <<>> \in Seq(Item)
  BY EmptySeq
<1> DEFINE m == c \in Preloads
<1>2. m \in BOOLEAN
  OBVIOUS
<1>3. BeginSession(p, c) =
        [p EXCEPT !.current = c, !.session = c, !.muted = m, !.stopped = FALSE,
                  !.ended = FALSE, !.chunked = FALSE, !.error = FALSE, !.kept = <<>>]
  BY DEF BeginSession
<1>4. /\ m <=> c \in Preloads
  OBVIOUS
<1> HIDE DEF m
<1> QED BY <1>1, <1>2, <1>3, <1>4, ZenonT(30) DEF PageOK, Pages

\* A segment is started, or the port bound.
LEMMA Starting ==
  ASSUME NEW p, PageOK(p)
  PROVE  LET q == StartSegment(p)
         IN /\ PageOK(q)
            /\ q.current = p.current /\ q.session = p.session /\ q.kept = p.kept
            /\ ~q.ended /\ ~q.chunked /\ q.muted = p.muted /\ q.port = p.current
BY DEF PageOK, Pages, StartSegment

\* A preload that still has the token gives it up.
LEMMA Finishing ==
  ASSUME NEW p, PageOK(p), NEW c \in Calls
  PROVE  LET q == FinishPreload(p, c)
         IN /\ PageOK(q)
            /\ q.kept = p.kept /\ q.ended = p.ended /\ q.chunked = p.chunked /\ q.port = p.port
            /\ \/ q.current = p.current /\ q.session = p.session /\ q.muted = p.muted
               \/ p.current = c /\ q.current = Nobody /\ q.session = Nobody
BY DEF PageOK, Pages, FinishPreload

\* Of a call that is told something.
LEMMA Telling ==
  ASSUME NEW p, PageOK(p), told \in [Calls -> Seq(Item)], NEW items \in Seq(Item)
  PROVE  /\ Tell(p, told, items) \in [Calls -> Seq(Item)]
         /\ \A c \in Calls : Tell(p, told, items)[c] =
              IF p.session = c /\ ~p.muted THEN told[c] \o items ELSE told[c]
<1>1. \A c \in Calls : told[c] \o items \in Seq(Item)
  BY Joining
<1> QED BY <1>1 DEF Tell, PageOK, Pages

LEMMA ItemsAreItems ==
  /\ <<>> \in Seq(Item)
  /\ <<<<"segmentEnd">>>> \in Seq(Item) /\ Len(<<<<"segmentEnd">>>>) = 1
  /\ <<<<"done">>>> \in Seq(Item) /\ Len(<<<<"done">>>>) = 1
  /\ <<<<"error">>>> \in Seq(Item) /\ Len(<<<<"error">>>>) = 1
<1>1. <<"segmentEnd">> \in Item /\ <<"done">> \in Item /\ <<"error">> \in Item
  BY DEF Item
<1>2. \A x \in Item : <<x>> \in Seq(Item) /\ Len(<<x>>) = 1
  OBVIOUS
<1> QED BY <1>1, <1>2, EmptySeq

\* The text the engine goes to.
EngineOK ==
  /\ engine = [voice |-> engine.voice, task |-> engine.task]
  /\ engine.voice \in Languages \cup {Nobody} /\ TaskOK
LEMMA Resting ==
  ASSUME NEW v \in Languages \cup {Nobody}, engine' = [voice |-> v, task |-> Idle]
  PROVE  EngineOK' /\ engine'.task.call = Nobody
BY DEF EngineOK, TaskOK, Idle
LEMMA Reading ==
  ASSUME NEW v \in Languages \cup {Nobody}, NEW c \in Calls, NEW i \in Nat \ {0},
         engine' = [voice |-> v, task |-> Text(c, i)]
  PROVE  EngineOK' /\ engine'.task.call = c
BY DEF EngineOK, TaskOK, Text, Idle
LEMMA Turning ==
  ASSUME EngineOK, NEW c \in Calls, NEW i \in Nat \ {0}, OnSpeak(c, i)
  PROVE  /\ EngineOK'
         /\ \/ HasVoice(c) /\ engine'.task = Text(c, i)
            \/ ~HasVoice(c) /\ engine'.task = Idle
<1>1. CASE HasVoice(c)
  <2>1. engine' = [voice |-> engine.voice, task |-> Text(c, i)]
    BY <1>1 DEF OnSpeak, EngineOK
  <2> QED BY <1>1, <2>1, Reading DEF EngineOK
<1>2. CASE ~HasVoice(c)
  <2>1. engine' = [voice |-> engine.voice, task |-> Idle]
    BY <1>2 DEF OnSpeak, EngineOK
  <2> QED BY <1>2, <2>1, Resting DEF EngineOK
<1> QED BY <1>1, <1>2

-----------------------------------------------------------------------------
(* Types                                                                     *)

Points == {"new", "init", "load", "wait", "done", "failed"}
SegmentOK == \A c \in Speeches : at[c] \in {"load", "wait"} => segment[c] \in 1..Segments[c]
RestOK ==
  /\ ready \cup prepared \subseteq Languages
  /\ at \in [Calls -> Points]
  /\ told \in [Calls -> Seq(Item)] /\ stops \in 0..MaxStops
  /\ segment \in [Speeches -> Nat] /\ SegmentOK
  /\ crossed \subseteq Calls /\ silenced \subseteq Calls
LEMMA TypesAre == PageTypeOK <=> PageOK(page) /\ EngineOK /\ RestOK
BY DEF PageTypeOK, PageOK, Pages, EngineOK, RestOK, SegmentOK, Points

\* Those who are woken return; others are where they were.
LEMMA Returning ==
  ASSUME at \in [Calls -> Points], NEW S
  PROVE  /\ Return(S) \in [Calls -> Points]
         /\ \A c \in Calls : Return(S)[c] = IF c \in S THEN "done" ELSE at[c]
BY DEF Return, Points

-----------------------------------------------------------------------------
(* The steps of the page, by what they do to the session                     *)

\* Calls that have had, or been, a session.
Started(c) == at[c] # "new" /\ (c \in Speeches => at[c] # "init")
Silencing == silenced' = silenced \cup ({page.session} \ {Nobody})
Onward(d) == at'[d] = at[d] \/ at'[d] \in {"done", "failed"}
Error == <<<<"error">>>>

\* The session is stopped.
Halts ==
  /\ page'.current = Nobody /\ page'.session \in {page.session, Nobody}
  /\ page'.ended = page.ended /\ page'.chunked = page.chunked
  /\ Silencing
  /\ \A d \in Calls : Onward(d) \/ (at[d] = "new" /\ at'[d] = "init")
  /\ told' \in {told, Tell(page, told, Error)}

\* A speech takes it, and its first segment is started.
Begins(c) ==
  /\ ~Started(c) /\ Silencing /\ told' = told
  /\ page'.current = c /\ page'.session = c /\ page'.port = c /\ page'.kept = <<>>
  /\ ~page'.muted /\ ~page'.ended /\ ~page'.chunked
  /\ \/ at'[c] = "wait" /\ engine'.task = Text(c, 1)
     \/ at'[c] = "load" /\ engine'.task = Idle
  /\ segment' = [segment EXCEPT ![c] = 1]
  /\ \A d \in Calls \ {c} : Onward(d)

\* A speech waits for the engine, and there is no session.
Awaits(c) ==
  /\ at[c] = "new" /\ at' = [at EXCEPT ![c] = "init"]
  /\ UNCHANGED <<page, engine, told, silenced, segment>> /\ page.session = Nobody

\* A voice is loaded for the speech whose session it is, or the engine reports that it
\* is not.
Loads(c) ==
  /\ page.current = c /\ at[c] = "load" /\ at' = [at EXCEPT ![c] = "wait"]
  /\ engine'.task = Text(c, segment[c])
  /\ UNCHANGED <<page, told, segment, silenced, crossed>>
Reports(c) ==
  /\ at[c] = "load" /\ at' = [at EXCEPT ![c] = IF page.current = c THEN "wait" ELSE @]
  /\ page' = [page EXCEPT !.error = TRUE]
  /\ UNCHANGED <<engine, segment, told, silenced, crossed>>

\* The next segment is started, or the last one is over.
Mark == <<<<"segmentEnd">>>>
Done == <<<<"done">>>>
Turns(c) ==
  /\ page.current = c /\ page.session = c /\ page.ended /\ at[c] = "wait"
  /\ \E k \in 0..Len(page.kept) :
       /\ told' = Tell(page, told, Passed(page.kept, k) \o Mark)
       /\ page'.kept = Held(page.kept, k)
  /\ page'.current = c /\ page'.session = c /\ page'.port = c /\ page'.muted = page.muted
  /\ ~page'.ended /\ ~page'.chunked
  /\ segment' = [segment EXCEPT ![c] = @ + 1]
  /\ \/ at'[c] = "wait" /\ engine'.task = Text(c, segment[c] + 1)
     \/ at'[c] = "load" /\ engine'.task = Idle
  /\ \A d \in Calls \ {c} : at'[d] = at[d]
  /\ UNCHANGED <<crossed, silenced>>
Finishes(c) ==
  /\ page.current = c /\ page.session = c /\ at[c] = "wait" /\ segment[c] = Segments[c]
  /\ Drained /\ told' = Tell(page, told, page.kept \o Done)
  /\ page'.current = Nobody /\ page'.session \in {page.session, Nobody}
  /\ page'.ended = page.ended /\ page'.chunked = page.chunked
  /\ Silencing /\ crossed' = crossed
  /\ \A d \in Calls : Onward(d)

\* A preload takes the session, or goes on.
Takeover(c) ==
  /\ at[c] = "new" /\ Silencing /\ told' = told /\ segment' = segment
  /\ page'.current \in {c, Nobody} /\ page'.session = page'.current
  /\ ~page'.ended /\ ~page'.chunked
  /\ at'[c] # "new" /\ \A d \in Calls \ {c} : at'[d] = at[d]
GoesOnSilently(c) ==
  /\ at[c] \in {"init", "load"}
  /\ UNCHANGED <<told, segment, silenced, crossed>>
  /\ page'.kept = page.kept /\ page'.ended = page.ended /\ page'.chunked = page.chunked
  /\ \/ /\ page'.current = page.current /\ page'.session = page.session
        /\ page'.muted = page.muted /\ page'.port \in {page.port, page.current}
     \/ page.current = c /\ page'.current = Nobody /\ page'.session = Nobody
  /\ engine'.task \in {engine.task, Idle, Text(c, 1)}
  /\ at'[c] \in {"load", "done", "failed"} /\ \A d \in Calls \ {c} : at'[d] = at[d]

\* Calls that run at the same time cross: one is made, or one goes on or ends.
Makes(c) ==
  /\ crossed \cup Running \subseteq crossed'
  /\ \A d \in Running' : d \in Running \/ d = c
  /\ (\E d \in Running' : d # c) => c \in crossed'
  /\ c \in Speeches /\ at'[c] \in {"load", "wait"} => page'.current = c
Proceeds(c) ==
  /\ c \in Running /\ crossed' = crossed /\ Running' \subseteq Running
  /\ \/ c \in Preloads \/ c \notin Running' \/ page'.current = c
     \/ page'.current = page.current /\ at[c] # "init"
Same ==
  /\ crossed' = crossed /\ page'.current = page.current
  /\ \A d \in Calls : at'[d] = at[d] \/ (at[d] = "load" /\ at'[d] = "wait")
Interrupts == crossed' = crossed \cup Running /\ Running' \subseteq Running

LEMMA WokenAre ==
  ASSUME PageTypeOK, NEW S \in SUBSET Waiting, NEW awake \in Woken(S)
  PROVE  awake \subseteq Waiting /\ awake \subseteq Calls /\ {VoiceOf[w] : w \in awake} \subseteq Languages
BY DEF Woken, Waiting, Languages

LEMMA EndingSpeech ==
  ASSUME PageTypeOK, NEW c \in Speeches, NEW p, PageOK(p),
         p.session = page.session, p.ended = page.ended, p.chunked = page.chunked,
         NEW v \in Languages \cup {Nobody}, NEW how \in {"done", "failed"},
         EndSpeech(c, p, v, how), told' \in {told, Tell(page, told, Error)}
  PROVE  /\ PageOK(page') /\ EngineOK' /\ engine'.task = Idle
         /\ Halts /\ at'[c] = how /\ at' \in [Calls -> Points]
         /\ \A d \in Calls \ {c} : at'[d] = at[d] \/ (at'[d] = "done" /\ at[d] = "wait")
         /\ ready' \subseteq Languages
<1>t. EngineOK /\ RestOK
  BY TypesAre
<1>1. PICK awake \in Woken(Waiting \ {c}) :
        /\ page' = Forget(StopActive(p), awake \cup {c})
        /\ engine' = [voice |-> v, task |-> Idle]
        /\ at' = [Return(awake) EXCEPT ![c] = how]
        /\ Readied(IF how = "done" THEN awake \cup {c} ELSE awake)
        /\ Silences
  BY DEF EndSpeech
<1>2. PageOK(page') /\ page'.current = Nobody /\ page'.session \in {page.session, Nobody}
      /\ page'.ended = page.ended /\ page'.chunked = page.chunked
  BY <1>1, Stopping
<1>3. EngineOK' /\ engine'.task = Idle
  BY <1>1, Resting
<1>4. awake \subseteq Waiting /\ awake \subseteq Calls /\ {VoiceOf[w] : w \in awake} \subseteq Languages
  <2>1. Waiting \ {c} \in SUBSET Waiting
    OBVIOUS
  <2> QED BY <2>1, WokenAre
<1>5. Return(awake) \in [Calls -> Points] /\ \A d \in Calls : Return(awake)[d] = IF d \in awake THEN "done" ELSE at[d]
  BY <1>t, Returning DEF RestOK
<1>6. /\ at' \in [Calls -> Points] /\ at'[c] = how
      /\ \A d \in Calls \ {c} : at'[d] = at[d] \/ (at'[d] = "done" /\ at[d] = "wait")
  BY <1>1, <1>4, <1>5 DEF Points, Waiting
<1>7. ready' \subseteq Languages
  <2>1. ready \subseteq Languages /\ VoiceOf[c] \in Languages
    BY <1>t DEF RestOK, Languages
  <2> QED BY <1>1, <1>4, <2>1 DEF Readied
<1>8. Silencing
  BY <1>1 DEF Silences, Silencing
<1>9. \A d \in Calls : Onward(d)
  BY <1>6 DEF Onward
<1> QED BY <1>2, <1>3, <1>6, <1>7, <1>8, <1>9 DEF Halts

\* What is left of the types, when no segment is started.
LEMMA RestKept ==
  ASSUME PageTypeOK, at' \in [Calls -> Points], ready' \cup prepared' \subseteq Languages,
         told' \in {told, Tell(page, told, Error)}, stops' \in 0..MaxStops, segment' = segment,
         \A c \in Speeches : at'[c] \in {"load", "wait"} => at[c] \in {"load", "wait"},
         crossed' \subseteq Calls, Silencing \/ silenced' = silenced
  PROVE  RestOK'
<1>1. RestOK /\ PageOK(page)
  BY TypesAre
<1>2. told' \in [Calls -> Seq(Item)]
  <2>1. Error \in Seq(Item)
    BY ItemsAreItems DEF Error
  <2>2. Tell(page, told, Error) \in [Calls -> Seq(Item)]
    BY <1>1, <2>1, Telling DEF RestOK
  <2> QED BY <1>1, <2>2 DEF RestOK
<1>3. silenced' \subseteq Calls
  BY <1>1 DEF RestOK, PageOK, Pages, Silencing
<1>4. SegmentOK'
  BY <1>1 DEF RestOK, SegmentOK
<1> QED BY <1>1, <1>2, <1>3, <1>4 DEF RestOK

LEMMA FailsStep ==
  ASSUME PageTypeOK, NEW c \in Speeches, c \in Running, Fails(c)
  PROVE  PageTypeOK' /\ Halts /\ Proceeds(c)
<1>t. PageOK(page) /\ EngineOK /\ RestOK
  BY TypesAre
<1> DEFINE p == [page EXCEPT !.muted = FALSE]
<1>1. /\ PageOK(p) /\ p.session = page.session /\ p.ended = page.ended /\ p.chunked = page.chunked
  BY <1>t DEF PageOK, Pages
<1>2. /\ EndSpeech(c, p, engine.voice, "failed") /\ told' = Tell(page, told, Error)
      /\ UNCHANGED <<prepared, segment, stops, crossed>>
  BY DEF Fails, Error
<1> HIDE DEF p
<1>3. /\ PageOK(page') /\ EngineOK' /\ engine'.task = Idle
      /\ Halts /\ at'[c] = "failed" /\ at' \in [Calls -> Points]
      /\ \A d \in Calls \ {c} : at'[d] = at[d] \/ (at'[d] = "done" /\ at[d] = "wait")
      /\ ready' \subseteq Languages
  BY <1>t, <1>1, <1>2, EndingSpeech DEF EngineOK
<1>4. RestOK'
  BY <1>t, <1>2, <1>3, RestKept DEF RestOK, Halts
<1>5. Proceeds(c)
  BY <1>2, <1>3 DEF Proceeds, Running
<1> QED BY <1>3, <1>4, <1>5, TypesAre DEF PageTypeOK, PageOK, Pages, EngineOK, RestOK, SegmentOK, Points

LEMMA SpeakLoadedStep ==
  ASSUME PageTypeOK, NEW c \in Speeches, SpeakLoaded(c)
  PROVE  /\ PageTypeOK' /\ Proceeds(c)
         /\ Halts \/ Loads(c)
<1>t. PageOK(page) /\ EngineOK /\ RestOK
  BY TypesAre
<1>0. at[c] = "load" /\ VoiceOf[c] \in Languages /\ UNCHANGED <<prepared, segment, told, stops, crossed>>
  BY DEF SpeakLoaded, Languages
<1>1. CASE page.current = c
  <2>1. /\ engine' = [voice |-> VoiceOf[c], task |-> Text(c, segment[c])]
        /\ at' = [at EXCEPT ![c] = "wait"] /\ UNCHANGED <<page, ready, silenced>>
    BY <1>1 DEF SpeakLoaded
  <2>2. segment[c] \in Nat \ {0}
    BY <1>t, <1>0 DEF RestOK, SegmentOK
  <2>3. EngineOK'
    BY <1>0, <2>1, <2>2, Reading
  <2>4. RestOK'
    <3>1. at' \in [Calls -> Points]
      BY <1>t, <2>1 DEF RestOK, Points
    <3>2. \A d \in Speeches : at'[d] \in {"load", "wait"} => at[d] \in {"load", "wait"}
      BY <1>t, <1>0, <2>1 DEF RestOK
    <3> QED BY <1>t, <1>0, <2>1, <3>1, <3>2, RestKept DEF RestOK
  <2>5. PageOK(page)'
    BY <1>t, <2>1 DEF PageOK
  <2>6. Proceeds(c)
    BY <1>t, <1>0, <1>1, <2>1 DEF Proceeds, Running, RestOK
  <2>7. PageTypeOK'
    BY <2>3, <2>4, <2>5 DEF PageTypeOK, PageOK, Pages, EngineOK, RestOK, SegmentOK, Points
  <2> QED BY <1>0, <1>1, <2>1, <2>6, <2>7 DEF Loads
<1>2. CASE page.current # c
  <2>1. EndSpeech(c, page, VoiceOf[c], "done")
    BY <1>2 DEF SpeakLoaded
  <2>2. /\ PageOK(page') /\ EngineOK' /\ engine'.task = Idle
        /\ Halts /\ at'[c] = "done" /\ at' \in [Calls -> Points]
        /\ \A d \in Calls \ {c} : at'[d] = at[d] \/ (at'[d] = "done" /\ at[d] = "wait")
        /\ ready' \subseteq Languages
    BY <1>t, <1>0, <2>1, EndingSpeech
  <2>3. RestOK'
    BY <1>t, <1>0, <2>2, RestKept DEF RestOK, Halts
  <2>4. Proceeds(c)
    BY <1>0, <2>2 DEF Proceeds, Running
  <2>5. PageTypeOK'
    BY <2>2, <2>3 DEF PageTypeOK, PageOK, Pages, EngineOK, RestOK, SegmentOK, Points
  <2> QED BY <2>2, <2>4, <2>5
<1> QED BY <1>1, <1>2

LEMMA BeginningSpeech ==
  ASSUME PageTypeOK, NEW c \in Speeches, at[c] \in {"new", "init"}, NEW p, PageOK(p),
         NEW others \in [Calls -> Points],
         \A d \in Calls \ {c} : others[d] = at[d] \/ (others[d] = "done" /\ at[d] = "wait"),
         BeginSpeech(p, c, others), told' = told
  PROVE  /\ PageOK(page') /\ EngineOK' /\ Begins(c)
         /\ at' \in [Calls -> Points] /\ SegmentOK' /\ segment' \in [Speeches -> Nat]
         /\ silenced' \subseteq Calls
         /\ \A d \in Calls \ {c} : at'[d] = at[d] \/ (at'[d] = "done" /\ at[d] = "wait")
<1>t. PageOK(page) /\ EngineOK /\ RestOK
  BY TypesAre
<1>1. /\ page' = StartSegment(BeginSession(p, c)) /\ OnSpeak(c, 1)
      /\ at' = [others EXCEPT ![c] = IF HasVoice(c) THEN "wait" ELSE "load"]
      /\ segment' = [segment EXCEPT ![c] = 1]
      /\ Silences
  BY DEF BeginSpeech
<1>2. PICK q : q = BeginSession(p, c)
  OBVIOUS
<1>3. /\ PageOK(q) /\ q.current = c /\ q.session = c /\ q.kept = <<>> /\ ~q.muted
  BY <1>2, Beginning
<1>4. /\ PageOK(page') /\ page'.current = c /\ page'.session = c /\ page'.port = c
      /\ page'.kept = <<>> /\ ~page'.muted /\ ~page'.ended /\ ~page'.chunked
  BY <1>1, <1>2, <1>3, Starting
<1>5. /\ EngineOK'
      /\ \/ HasVoice(c) /\ engine'.task = Text(c, 1)
         \/ ~HasVoice(c) /\ engine'.task = Idle
  BY <1>t, <1>1, Turning
<1>6. /\ at' \in [Calls -> Points] /\ at'[c] = IF HasVoice(c) THEN "wait" ELSE "load"
      /\ \A d \in Calls \ {c} : at'[d] = at[d] \/ (at'[d] = "done" /\ at[d] = "wait")
  BY <1>1 DEF Points
<1>7. segment' \in [Speeches -> Nat] /\ SegmentOK'
  BY <1>t, <1>1, <1>6 DEF RestOK, SegmentOK
<1>8. Silencing /\ silenced' \subseteq Calls
  BY <1>t, <1>1 DEF Silences, Silencing, RestOK, PageOK, Pages
<1>9. \A d \in Calls \ {c} : Onward(d)
  BY <1>6 DEF Onward
<1> QED BY <1>1, <1>4, <1>5, <1>6, <1>7, <1>8, <1>9 DEF Begins, Started

LEMMA SpeakStep ==
  ASSUME PageTypeOK, NEW c \in Speeches, Speak(c)
  PROVE  PageTypeOK' /\ Makes(c) /\ (Begins(c) \/ Halts \/ Awaits(c))
<1>t. PageOK(page) /\ EngineOK /\ RestOK
  BY TypesAre
<1>1. PICK awake \in IF page.session = Nobody THEN {{}} ELSE Woken(Waiting) :
       LET p == IF page.session = Nobody THEN page ELSE Forget(StopActive(page), awake)
       IN /\ Crosses({c}, Running \ awake) /\ Readied(awake)
          /\ \/ IsPrepared(c) /\ BeginSpeech(p, c, Return(awake))
             \/ /\ ~IsPrepared(c) /\ page' = p /\ at' = [Return(awake) EXCEPT ![c] = "init"]
                /\ engine' = [engine EXCEPT !.task = IF page.session = Nobody THEN @ ELSE Idle]
                /\ Silences /\ UNCHANGED segment
  BY DEF Speak
<1>2. at[c] = "new" /\ UNCHANGED <<prepared, told, stops>>
  BY DEF Speak
<1>3. PICK p : p = IF page.session = Nobody THEN page ELSE Forget(StopActive(page), awake)
  OBVIOUS
<1>4. /\ PageOK(p)
      /\ page.session # Nobody =>
           /\ p.current = Nobody /\ p.session \in {page.session, Nobody}
           /\ p.ended = page.ended /\ p.chunked = page.chunked
  BY <1>t, <1>3, Stopping
<1>5. /\ awake \subseteq Waiting /\ awake \subseteq Calls /\ {VoiceOf[w] : w \in awake} \subseteq Languages
      /\ page.session = Nobody => awake = {}
  <2>1. CASE page.session = Nobody
    BY <2>1
  <2>2. CASE page.session # Nobody
    BY <2>2, WokenAre
  <2> QED BY <2>1, <2>2
<1>6. /\ Return(awake) \in [Calls -> Points]
      /\ \A d \in Calls : Return(awake)[d] = IF d \in awake THEN "done" ELSE at[d]
  BY <1>t, Returning DEF RestOK
<1>7. /\ crossed' = crossed \cup Running \cup (IF Running \ awake # {} THEN {c} ELSE {})
      /\ ready' \cup prepared' \subseteq Languages
  BY <1>t, <1>1, <1>2, <1>5 DEF Crosses, Readied, RestOK
<1>8. crossed' \subseteq Calls
  BY <1>t, <1>7 DEF RestOK, Running
<1>9. CASE IsPrepared(c)
  <2>1. BeginSpeech(p, c, Return(awake))
    BY <1>1, <1>3, <1>9
  <2>2. \A d \in Calls \ {c} : Return(awake)[d] = at[d] \/ (Return(awake)[d] = "done" /\ at[d] = "wait")
    BY <1>5, <1>6 DEF Waiting
  <2>3. /\ PageOK(page') /\ EngineOK' /\ Begins(c)
        /\ at' \in [Calls -> Points] /\ SegmentOK' /\ segment' \in [Speeches -> Nat]
        /\ silenced' \subseteq Calls
        /\ \A d \in Calls \ {c} : at'[d] = at[d] \/ (at'[d] = "done" /\ at[d] = "wait")
    BY <1>2, <1>4, <1>6, <2>1, <2>2, BeginningSpeech
  <2>4. PageTypeOK'
    BY <1>t, <1>2, <1>7, <1>8, <2>3 DEF PageTypeOK, PageOK, Pages, EngineOK, RestOK, SegmentOK, Points
  <2>5. \A d \in Calls \ {c} : at'[d] = Return(awake)[d]
    BY <1>6, <2>1 DEF BeginSpeech
  <2>6. \A d \in Running' : d = c \/ d \in Running \ awake
    BY <1>5, <1>6, <2>5 DEF Running, Waiting
  <2>7. Makes(c)
    BY <1>7, <2>3, <2>6 DEF Makes, Begins
  <2> QED BY <2>3, <2>4, <2>7
<1>10. CASE ~IsPrepared(c)
  <2>1. /\ page' = p /\ at' = [Return(awake) EXCEPT ![c] = "init"]
        /\ engine' = [engine EXCEPT !.task = IF page.session = Nobody THEN @ ELSE Idle]
        /\ Silences /\ UNCHANGED segment
    BY <1>1, <1>3, <1>10
  <2>2. /\ at' \in [Calls -> Points] /\ at'[c] = "init"
        /\ \A d \in Calls \ {c} : at'[d] = IF d \in awake THEN "done" ELSE at[d]
    BY <1>6, <2>1 DEF Points
  <2>3. EngineOK' /\ (page.session = Nobody => engine' = engine)
    <3>1. engine' = IF page.session = Nobody THEN engine ELSE [voice |-> engine.voice, task |-> Idle]
      BY <1>t, <2>1 DEF EngineOK
    <3>2. engine.voice \in Languages \cup {Nobody}
      BY <1>t DEF EngineOK
    <3>3. CASE page.session = Nobody
      BY <1>t, <3>1, <3>3 DEF EngineOK, TaskOK
    <3>4. CASE page.session # Nobody
      BY <3>1, <3>2, <3>4, Resting
    <3> QED BY <3>1, <3>3, <3>4
  <2>4. Silencing
    BY <2>1 DEF Silences, Silencing
  <2>5. \A d \in Speeches : at'[d] \in {"load", "wait"} => at[d] \in {"load", "wait"}
    BY <2>2
  <2>6. RestOK'
    BY <1>t, <1>2, <1>7, <1>8, <2>1, <2>2, <2>4, <2>5, RestKept DEF RestOK
  <2>7. PageTypeOK'
    BY <1>4, <2>1, <2>3, <2>6 DEF PageTypeOK, PageOK, Pages, EngineOK, RestOK, SegmentOK, Points
  <2>8. \A d \in Running' : d = c \/ d \in Running \ awake
    BY <2>2 DEF Running
  <2>9. Makes(c)
    BY <1>7, <2>2, <2>8 DEF Makes
  <2>10. CASE page.session = Nobody
    <3>1. at' = [at EXCEPT ![c] = "init"]
      BY <1>t, <1>5, <2>10, <2>1 DEF RestOK, Return
    <3>2. silenced' = silenced
      BY <2>4, <2>10 DEF Silencing
    <3> QED BY <1>2, <1>3, <2>1, <2>3, <2>7, <2>9, <2>10, <3>1, <3>2 DEF Awaits
  <2>11. CASE page.session # Nobody
    <3>1. \A d \in Calls : Onward(d) \/ (at[d] = "new" /\ at'[d] = "init")
      BY <1>2, <2>2 DEF Onward
    <3> QED BY <1>2, <1>4, <2>1, <2>4, <2>7, <2>9, <2>11, <3>1 DEF Halts
  <2> QED BY <2>10, <2>11
<1> QED BY <1>9, <1>10

LEMMA SpeakInitedStep ==
  ASSUME PageTypeOK, NEW c \in Speeches, SpeakInited(c)
  PROVE  PageTypeOK' /\ Proceeds(c) /\ Begins(c)
<1>t. PageOK(page) /\ EngineOK /\ RestOK
  BY TypesAre
<1>1. at[c] = "init" /\ BeginSpeech(page, c, at) /\ UNCHANGED <<prepared, ready, told, stops, crossed>>
  BY DEF SpeakInited
<1>2. at \in [Calls -> Points]
  BY <1>t DEF RestOK
<1>3. /\ PageOK(page') /\ EngineOK' /\ Begins(c)
      /\ at' \in [Calls -> Points] /\ SegmentOK' /\ segment' \in [Speeches -> Nat]
      /\ silenced' \subseteq Calls
      /\ \A d \in Calls \ {c} : at'[d] = at[d] \/ (at'[d] = "done" /\ at[d] = "wait")
  BY <1>t, <1>1, <1>2, BeginningSpeech
<1>4. PageTypeOK'
  BY <1>t, <1>1, <1>3 DEF PageTypeOK, PageOK, Pages, EngineOK, RestOK, SegmentOK, Points
<1>5. Proceeds(c)
  BY <1>1, <1>3 DEF Proceeds, Running, Begins
<1> QED BY <1>3, <1>4, <1>5

LEMMA SpeakReportsStep ==
  ASSUME PageTypeOK, NEW c \in Speeches, SpeakReports(c)
  PROVE  PageTypeOK' /\ Same /\ Reports(c)
<1>t. PageOK(page) /\ EngineOK /\ RestOK
  BY TypesAre
<1>1. /\ at[c] = "load" /\ page' = [page EXCEPT !.error = TRUE]
      /\ at' = [at EXCEPT ![c] = IF page.current = c THEN "wait" ELSE @]
      /\ UNCHANGED <<engine, prepared, ready, segment, told, stops, crossed, silenced>>
  BY DEF SpeakReports
<1>2. at' \in [Calls -> Points] /\ \A d \in Calls : at'[d] \in {"load", "wait"} <=> at[d] \in {"load", "wait"}
  BY <1>t, <1>1 DEF RestOK, Points
<1>3. PageOK(page') /\ page'.current = page.current
  BY <1>t, <1>1 DEF PageOK, Pages
<1>4. Same
  <2>1. \A d \in Calls : at'[d] = at[d] \/ (at[d] = "load" /\ at'[d] = "wait")
    BY <1>t, <1>1 DEF RestOK, Points
  <2> QED BY <1>1, <1>3, <2>1 DEF Same
<1>5. RestOK'
  BY <1>t, <1>1, <1>2, RestKept DEF RestOK
<1>6. EngineOK'
  BY <1>t, <1>1 DEF EngineOK, TaskOK
<1>7. PageTypeOK'
  BY <1>3, <1>5, <1>6 DEF PageTypeOK, PageOK, Pages, EngineOK, RestOK, SegmentOK, Points
<1> QED BY <1>1, <1>4, <1>7 DEF Reports

\* What is told, and the rest, when a segment of audio is passed on.
LEMMA PassingOn ==
  ASSUME PageOK(page), told \in [Calls -> Seq(Item)], NEW s \in Seq(Item), NEW k \in 0..Len(s),
         NEW e \in Seq(Item)
  PROVE  /\ Held(s, k) \in Seq(Item) /\ Passed(s, k) \o e \in Seq(Item)
         /\ Tell(page, told, Passed(s, k) \o e) \in [Calls -> Seq(Item)]
<1>1. <<>> \in Seq(Item)
  BY EmptySeq
<1>2. Held(s, k) \in Seq(Item) /\ <<>> \o (Passed(s, k) \o e) \in Seq(Item)
  BY <1>1, Moving
<1>3. Passed(s, k) \in Seq(Item)
  <2>1. Len(s) \in Nat /\ \A i \in 1..k : s[i] \in Item
    BY LenProperties, ElementOfSeq
  <2> QED BY <2>1, SubSeqProperties DEF Passed
<1>4. Passed(s, k) \o e \in Seq(Item)
  BY <1>3, Joining
<1> QED BY <1>2, <1>4, Telling

LEMMA NextSegmentStep ==
  ASSUME PageTypeOK, NEW c \in Speeches, NextSegment(c)
  PROVE  PageTypeOK' /\ Proceeds(c) /\ Turns(c)
<1>t. PageOK(page) /\ EngineOK /\ RestOK
  BY TypesAre
<1>1. /\ at[c] = "wait" /\ page.current = c /\ segment[c] < Segments[c]
      /\ segment' = [segment EXCEPT ![c] = @ + 1]
      /\ OnSpeak(c, segment'[c])
      /\ at' = [at EXCEPT ![c] = IF HasVoice(c) THEN "wait" ELSE "load"]
      /\ UNCHANGED <<prepared, ready, stops, crossed, silenced>>
  BY DEF NextSegment, Waited
<1>2. page.session = c /\ page.ended
  BY <1>t, <1>1 DEF NextSegment, Waited, PageOK, Pages
<1>3. PICK k \in 0..Len(page.kept) :
        /\ told' = Tell(page, told, Passed(page.kept, k) \o Mark)
        /\ page' = StartSegment([page EXCEPT !.kept = Held(@, k)])
  BY DEF NextSegment, Mark
<1>4. page.kept \in Seq(Item) /\ Mark \in Seq(Item)
  BY <1>t, ItemsAreItems DEF PageOK, Pages, Mark
<1>5. Held(page.kept, k) \in Seq(Item) /\ told' \in [Calls -> Seq(Item)]
  BY <1>t, <1>3, <1>4, PassingOn DEF RestOK
<1>6. PICK q : q = [page EXCEPT !.kept = Held(page.kept, k)]
  OBVIOUS
<1>7. /\ PageOK(q) /\ q.current = c /\ q.session = c /\ q.kept = Held(page.kept, k)
      /\ q.muted = page.muted
  BY <1>t, <1>1, <1>2, <1>5, <1>6 DEF PageOK, Pages
<1>8. /\ PageOK(page') /\ page'.current = c /\ page'.session = c /\ page'.port = c
      /\ page'.kept = Held(page.kept, k) /\ page'.muted = page.muted
      /\ ~page'.ended /\ ~page'.chunked
  BY <1>3, <1>6, <1>7, Starting
<1>9. segment'[c] = segment[c] + 1 /\ segment'[c] \in Nat \ {0} /\ segment'[c] \in 1..Segments[c]
      /\ segment' \in [Speeches -> Nat]
  BY <1>t, <1>1 DEF RestOK
<1>10. /\ EngineOK'
       /\ \/ HasVoice(c) /\ engine'.task = Text(c, segment[c] + 1)
          \/ ~HasVoice(c) /\ engine'.task = Idle
  BY <1>t, <1>1, <1>9, Turning
<1>11. /\ at' \in [Calls -> Points] /\ at'[c] = IF HasVoice(c) THEN "wait" ELSE "load"
       /\ \A d \in Calls \ {c} : at'[d] = at[d]
  BY <1>t, <1>1 DEF RestOK, Points
<1>12. SegmentOK'
  BY <1>t, <1>1, <1>9, <1>11 DEF RestOK, SegmentOK
<1>13. RestOK'
  BY <1>t, <1>1, <1>5, <1>9, <1>11, <1>12 DEF RestOK
<1>14. PageTypeOK'
  BY <1>8, <1>10, <1>13 DEF PageTypeOK, PageOK, Pages, EngineOK, RestOK, SegmentOK, Points
<1>15. Proceeds(c)
  BY <1>1, <1>8, <1>11 DEF Proceeds, Running
<1> QED BY <1>1, <1>2, <1>3, <1>8, <1>10, <1>11, <1>14, <1>15 DEF Turns

LEMMA FinishSpeechStep ==
  ASSUME PageTypeOK, NEW c \in Speeches, FinishSpeech(c)
  PROVE  PageTypeOK' /\ Proceeds(c) /\ (IF page.current = c THEN Finishes(c) ELSE Halts)
<1>t. PageOK(page) /\ EngineOK /\ RestOK
  BY TypesAre
<1>1. /\ at[c] = "wait" /\ (page.current = c => segment[c] = Segments[c])
      /\ told' = IF page.current = c THEN Tell(page, told, page.kept \o Done) ELSE told
      /\ EndSpeech(c, page, engine.voice, "done")
      /\ UNCHANGED <<prepared, segment, stops, crossed>>
  BY DEF FinishSpeech, Waited, Done
<1>2. PICK awake \in Woken(Waiting \ {c}) :
        /\ page' = Forget(StopActive(page), awake \cup {c})
        /\ engine' = [voice |-> engine.voice, task |-> Idle]
        /\ at' = [Return(awake) EXCEPT ![c] = "done"]
        /\ Readied(awake \cup {c})
        /\ Silences
  BY <1>1 DEF EndSpeech
<1>3. PageOK(page') /\ page'.current = Nobody /\ page'.session \in {page.session, Nobody}
      /\ page'.ended = page.ended /\ page'.chunked = page.chunked
  BY <1>t, <1>2, Stopping
<1>4. EngineOK'
  BY <1>t, <1>2, Resting DEF EngineOK
<1>5. awake \subseteq Waiting /\ awake \subseteq Calls /\ {VoiceOf[w] : w \in awake} \subseteq Languages
  <2>1. Waiting \ {c} \in SUBSET Waiting
    OBVIOUS
  <2> QED BY <2>1, WokenAre
<1>6. Return(awake) \in [Calls -> Points] /\ \A d \in Calls : Return(awake)[d] = IF d \in awake THEN "done" ELSE at[d]
  BY <1>t, Returning DEF RestOK
<1>7. /\ at' \in [Calls -> Points] /\ at'[c] = "done"
      /\ \A d \in Calls \ {c} : at'[d] = at[d] \/ (at'[d] = "done" /\ at[d] = "wait")
  BY <1>2, <1>5, <1>6 DEF Points, Waiting
<1>8. ready' \subseteq Languages
  <2>1. ready \subseteq Languages /\ VoiceOf[c] \in Languages
    BY <1>t DEF RestOK, Languages
  <2> QED BY <1>2, <1>5, <2>1 DEF Readied
<1>9. Silencing /\ silenced' \subseteq Calls
  BY <1>t, <1>2 DEF Silences, Silencing, RestOK, PageOK, Pages
<1>10. told' \in [Calls -> Seq(Item)]
  <2>1. page.kept \in Seq(Item) /\ Done \in Seq(Item)
    BY <1>t, ItemsAreItems DEF PageOK, Pages, Done
  <2>2. page.kept \o Done \in Seq(Item)
    BY <2>1, Joining
  <2>3. Tell(page, told, page.kept \o Done) \in [Calls -> Seq(Item)]
    BY <1>t, <2>2, Telling DEF RestOK
  <2> QED BY <1>t, <1>1, <2>3 DEF RestOK
<1>11. SegmentOK'
  BY <1>t, <1>1, <1>7 DEF RestOK, SegmentOK
<1>12. RestOK'
  BY <1>t, <1>1, <1>7, <1>8, <1>9, <1>10, <1>11 DEF RestOK
<1>13. PageTypeOK'
  BY <1>3, <1>4, <1>12 DEF PageTypeOK, PageOK, Pages, EngineOK, RestOK, SegmentOK, Points
<1>14. Proceeds(c)
  BY <1>1, <1>7 DEF Proceeds, Running
<1>15. \A d \in Calls : Onward(d)
  BY <1>7 DEF Onward
<1>16. CASE page.current = c
  <2>1. page.session = c /\ ~page.stopped
    BY <1>t, <1>16 DEF PageOK, Pages
  <2>2. Drained
    BY <1>t, <1>1, <1>16, <2>1 DEF FinishSpeech, Waited, RestOK
  <2> QED BY <1>1, <1>3, <1>9, <1>13, <1>14, <1>15, <1>16, <2>1, <2>2 DEF Finishes
<1>17. CASE page.current # c
  BY <1>1, <1>3, <1>9, <1>13, <1>14, <1>15, <1>17 DEF Halts
<1> QED BY <1>16, <1>17

\* What follows onSpeak in a preload, and what it is when the language is ready already.
LEMMA PreloadEnds ==
  ASSUME RestOK, NEW c \in Preloads, NEW p, PageOK(p), NEW how \in {"done", "failed"},
         NEW r, r \in {ready, ready \cup {VoiceOf[c]}},
         page' = FinishPreload(p, c), at' = [at EXCEPT ![c] = how], ready' = r
  PROVE  /\ PageOK(page') /\ ready' \subseteq Languages
         /\ at' \in [Calls -> Points] /\ at'[c] = how /\ \A d \in Calls \ {c} : at'[d] = at[d]
         /\ page'.kept = p.kept /\ page'.ended = p.ended /\ page'.chunked = p.chunked
         /\ page'.port = p.port
         /\ \/ page'.current = p.current /\ page'.session = p.session /\ page'.muted = p.muted
            \/ p.current = c /\ page'.current = Nobody /\ page'.session = Nobody
<1>1. at' \in [Calls -> Points] /\ at'[c] = how /\ \A d \in Calls \ {c} : at'[d] = at[d]
  BY DEF RestOK, Points
<1>2. ready' \subseteq Languages
  BY DEF RestOK, Languages
<1>3. c \in Calls
  OBVIOUS
<1> QED BY <1>1, <1>2, <1>3, Finishing

\* A preload goes on with the session p, which is its own, or that of whoever took it.
LEMMA BeginningPreload ==
  ASSUME EngineOK, RestOK, NEW c \in Preloads, at[c] \in {"new", "init"}, NEW p, PageOK(p),
         BeginPreload(p, c)
  PROVE  /\ PageOK(page') /\ EngineOK' /\ ready' \subseteq Languages
         /\ at' \in [Calls -> Points] /\ at'[c] \in {"load", "done", "failed"}
         /\ \A d \in Calls \ {c} : at'[d] = at[d]
         /\ engine'.task \in {engine.task, Idle, Text(c, 1)}
         /\ page'.kept = p.kept /\ page'.ended = p.ended /\ page'.chunked = p.chunked
         /\ \/ page'.current = p.current /\ page'.session = p.session /\ page'.muted = p.muted
               /\ page'.port \in {p.port, p.current}
            \/ p.current = c /\ page'.current = Nobody /\ page'.session = Nobody
<1>1. CASE VoiceOf[c] \in ready
  <2>1. page' = FinishPreload(p, c) /\ at' = [at EXCEPT ![c] = "done"] /\ UNCHANGED <<engine, ready>>
    BY <1>1 DEF BeginPreload
  <2>2. EngineOK'
    BY <2>1 DEF EngineOK, TaskOK
  <2> QED BY <2>1, <2>2, PreloadEnds
<1>2. CASE VoiceOf[c] \notin ready
  <2>1. OnSpeak(c, 1)
    BY <1>2 DEF BeginPreload
  <2>2. /\ EngineOK' /\ engine'.task \in {Idle, Text(c, 1)}
        /\ HasVoice(c) => engine'.task = Text(c, 1)
    BY <2>1, Turning
  <2>3. PICK q : q = [p EXCEPT !.port = p.current]
    OBVIOUS
  <2>4. /\ PageOK(q) /\ q.current = p.current /\ q.session = p.session /\ q.muted = p.muted
        /\ q.kept = p.kept /\ q.ended = p.ended /\ q.chunked = p.chunked /\ q.port = p.current
    BY <2>3 DEF PageOK, Pages
  <2>5. CASE HasVoice(c)
    <3>1. Preloaded(q, c)
      BY <1>2, <2>3, <2>5 DEF BeginPreload
    <3>2. PICK how \in {"done", "failed"} : at' = [at EXCEPT ![c] = how]
      BY <3>1 DEF Preloaded
    <3>3. page' = FinishPreload(q, c) /\ ready' \in {ready, ready \cup {VoiceOf[c]}}
      BY <3>1 DEF Preloaded
    <3>4. /\ PageOK(page') /\ ready' \subseteq Languages
          /\ at' \in [Calls -> Points] /\ at'[c] = how /\ \A d \in Calls \ {c} : at'[d] = at[d]
          /\ page'.kept = q.kept /\ page'.ended = q.ended /\ page'.chunked = q.chunked
          /\ page'.port = q.port
          /\ \/ page'.current = q.current /\ page'.session = q.session /\ page'.muted = q.muted
             \/ q.current = c /\ page'.current = Nobody /\ page'.session = Nobody
      BY <2>4, <3>2, <3>3, PreloadEnds, ZenonT(30)
    <3> QED BY <2>2, <2>4, <3>4
  <2>6. CASE ~HasVoice(c)
    <3>1. at' = [at EXCEPT ![c] = "load"] /\ page' = q /\ UNCHANGED ready
      BY <1>2, <2>3, <2>6 DEF BeginPreload
    <3>2. at' \in [Calls -> Points] /\ at'[c] = "load" /\ \A d \in Calls \ {c} : at'[d] = at[d]
      BY <3>1 DEF RestOK, Points
    <3> QED BY <2>2, <2>4, <3>1, <3>2 DEF RestOK
  <2> QED BY <2>5, <2>6
<1> QED BY <1>1, <1>2

LEMMA PreloadStep ==
  ASSUME PageTypeOK, NEW c \in Preloads, Preload(c)
  PROVE  PageTypeOK' /\ Makes(c) /\ Takeover(c)
<1>t. PageOK(page) /\ EngineOK /\ RestOK
  BY TypesAre
<1>1. /\ at[c] = "new" /\ Crosses({c}, Running) /\ Silences
      /\ UNCHANGED <<prepared, segment, told, stops>>
  BY DEF Preload
<1>2. PICK p : p = BeginSession(page, c)
  OBVIOUS
<1>3. /\ PageOK(p) /\ p.current = c /\ p.session = c /\ p.kept = <<>> /\ ~p.ended /\ ~p.chunked
  BY <1>t, <1>2, Beginning
<1>4. /\ PageOK(page') /\ EngineOK' /\ ready' \subseteq Languages
      /\ at' \in [Calls -> Points] /\ at'[c] \in {"init", "load", "done", "failed"}
      /\ \A d \in Calls \ {c} : at'[d] = at[d]
      /\ page'.current \in {c, Nobody} /\ page'.session = page'.current
      /\ ~page'.ended /\ ~page'.chunked
  <2>1. CASE IsPrepared(c)
    <3>1. BeginPreload(p, c)
      BY <1>2, <2>1 DEF Preload
    <3> QED BY <1>t, <1>1, <1>3, <3>1, BeginningPreload
  <2>2. CASE ~IsPrepared(c)
    <3>1. page' = p /\ at' = [at EXCEPT ![c] = "init"] /\ UNCHANGED <<engine, ready>>
      BY <1>2, <2>2 DEF Preload
    <3>2. EngineOK' /\ at' \in [Calls -> Points] /\ at'[c] = "init" /\ \A d \in Calls \ {c} : at'[d] = at[d]
      BY <1>t, <3>1 DEF EngineOK, TaskOK, RestOK, Points
    <3> QED BY <1>t, <1>3, <3>1, <3>2 DEF RestOK
  <2> QED BY <2>1, <2>2
<1>5. crossed' = crossed \cup Running \cup (IF Running # {} THEN {c} ELSE {}) /\ crossed' \subseteq Calls
  BY <1>t, <1>1 DEF Crosses, RestOK, Running
<1>6. Silencing
  BY <1>1 DEF Silences, Silencing
<1>7. RestOK'
  <2>1. \A d \in Speeches : at'[d] = at[d]
    BY <1>4
  <2> QED BY <1>t, <1>1, <1>4, <1>5, <1>6, <2>1, RestKept DEF RestOK
<1>8. PageTypeOK'
  BY <1>4, <1>7 DEF PageTypeOK, PageOK, Pages, EngineOK, RestOK, SegmentOK, Points
<1>9. Makes(c)
  <2>1. \A d \in Running' : d \in Running \/ d = c
    BY <1>4 DEF Running
  <2> QED BY <1>5, <2>1 DEF Makes
<1>10. Takeover(c)
  BY <1>1, <1>4, <1>6 DEF Takeover
<1> QED BY <1>8, <1>9, <1>10

\* A preload that goes on has no effect on the session of another call.
LEMMA PreloadGoesOn ==
  ASSUME PageTypeOK, NEW c \in Preloads, at[c] \in {"init", "load"}, NEW p, PageOK(p),
         p.kept = page.kept, p.ended = page.ended, p.chunked = page.chunked, p.port = page.port,
         p.current = page.current, p.session = page.session, p.muted = page.muted,
         PageOK(page'), EngineOK', ready' \subseteq Languages,
         at' \in [Calls -> Points], at'[c] \in {"load", "done", "failed"},
         \A d \in Calls \ {c} : at'[d] = at[d],
         engine'.task \in {engine.task, Idle, Text(c, 1)},
         page'.kept = p.kept, page'.ended = p.ended, page'.chunked = p.chunked,
         \/ page'.current = p.current /\ page'.session = p.session /\ page'.muted = p.muted
            /\ page'.port \in {p.port, p.current}
         \/ p.current = c /\ page'.current = Nobody /\ page'.session = Nobody,
         UNCHANGED <<prepared, segment, told, stops, crossed, silenced>>
  PROVE  PageTypeOK' /\ GoesOnSilently(c) /\ Proceeds(c)
<1>t. RestOK
  BY TypesAre
<1>1. RestOK'
  <2>1. \A d \in Speeches : at'[d] = at[d]
    OBVIOUS
  <2> QED BY <1>t, <2>1, RestKept DEF RestOK
<1>2. PageTypeOK'
  BY <1>1 DEF PageTypeOK, PageOK, Pages, EngineOK, RestOK, SegmentOK, Points
<1>3. GoesOnSilently(c)
  BY DEF GoesOnSilently
<1>4. Proceeds(c)
  BY DEF Proceeds, Running
<1> QED BY <1>2, <1>3, <1>4

LEMMA PreloadInitedStep ==
  ASSUME PageTypeOK, NEW c \in Preloads, PreloadInited(c)
  PROVE  PageTypeOK' /\ GoesOnSilently(c) /\ Proceeds(c)
<1>t. PageOK(page) /\ EngineOK /\ RestOK
  BY TypesAre
<1>1. at[c] = "init" /\ BeginPreload(page, c)
      /\ UNCHANGED <<prepared, segment, told, stops, crossed, silenced>>
  BY DEF PreloadInited
<1>2. /\ PageOK(page') /\ EngineOK' /\ ready' \subseteq Languages
      /\ at' \in [Calls -> Points] /\ at'[c] \in {"load", "done", "failed"}
      /\ \A d \in Calls \ {c} : at'[d] = at[d]
      /\ engine'.task \in {engine.task, Idle, Text(c, 1)}
      /\ page'.kept = page.kept /\ page'.ended = page.ended /\ page'.chunked = page.chunked
      /\ \/ page'.current = page.current /\ page'.session = page.session /\ page'.muted = page.muted
            /\ page'.port \in {page.port, page.current}
         \/ page.current = c /\ page'.current = Nobody /\ page'.session = Nobody
  BY <1>t, <1>1, BeginningPreload
<1> QED BY <1>t, <1>1, <1>2, PreloadGoesOn

LEMMA PreloadLoadedStep ==
  ASSUME PageTypeOK, NEW c \in Preloads, PreloadLoaded(c)
  PROVE  PageTypeOK' /\ GoesOnSilently(c) /\ Proceeds(c)
<1>t. PageOK(page) /\ EngineOK /\ RestOK
  BY TypesAre
<1>1. /\ at[c] = "load" /\ engine' = [voice |-> VoiceOf[c], task |-> Text(c, 1)] /\ Preloaded(page, c)
      /\ UNCHANGED <<prepared, segment, told, stops, crossed, silenced>>
  BY DEF PreloadLoaded
<1>2. EngineOK' /\ engine'.task = Text(c, 1)
  <2>1. VoiceOf[c] \in Languages
    BY DEF Languages
  <2> QED BY <1>1, <2>1, Reading
<1>3. PICK how \in {"done", "failed"} : at' = [at EXCEPT ![c] = how]
  BY <1>1 DEF Preloaded
<1>4. page' = FinishPreload(page, c) /\ ready' \in {ready, ready \cup {VoiceOf[c]}}
  BY <1>1 DEF Preloaded
<1>5. /\ PageOK(page') /\ ready' \subseteq Languages
      /\ at' \in [Calls -> Points] /\ at'[c] = how /\ \A d \in Calls \ {c} : at'[d] = at[d]
      /\ page'.kept = page.kept /\ page'.ended = page.ended /\ page'.chunked = page.chunked
      /\ page'.port = page.port
      /\ \/ page'.current = page.current /\ page'.session = page.session /\ page'.muted = page.muted
         \/ page.current = c /\ page'.current = Nobody /\ page'.session = Nobody
  BY <1>t, <1>3, <1>4, PreloadEnds
<1> QED BY <1>t, <1>1, <1>2, <1>5, PreloadGoesOn

LEMMA PreloadFailsStep ==
  ASSUME PageTypeOK, NEW c \in Preloads, PreloadFails(c)
  PROVE  PageTypeOK' /\ GoesOnSilently(c) /\ Proceeds(c)
<1>t. PageOK(page) /\ EngineOK /\ RestOK
  BY TypesAre
<1>1. PICK p : p = [page EXCEPT !.error = page.session # Nobody]
  OBVIOUS
<1>2. /\ at[c] = "load" /\ Preloaded(p, c)
      /\ UNCHANGED <<engine, prepared, segment, told, stops, crossed, silenced>>
  BY <1>1 DEF PreloadFails
<1>3. /\ PageOK(p) /\ p.kept = page.kept /\ p.ended = page.ended /\ p.chunked = page.chunked
      /\ p.port = page.port /\ p.current = page.current /\ p.session = page.session
      /\ p.muted = page.muted
  BY <1>t, <1>1 DEF PageOK, Pages
<1>4. PICK how \in {"done", "failed"} : at' = [at EXCEPT ![c] = how]
  BY <1>2 DEF Preloaded
<1>5. page' = FinishPreload(p, c) /\ ready' \in {ready, ready \cup {VoiceOf[c]}}
  BY <1>2 DEF Preloaded
<1>6. /\ PageOK(page') /\ ready' \subseteq Languages
      /\ at' \in [Calls -> Points] /\ at'[c] = how /\ \A d \in Calls \ {c} : at'[d] = at[d]
      /\ page'.kept = p.kept /\ page'.ended = p.ended /\ page'.chunked = p.chunked
      /\ page'.port = p.port
      /\ \/ page'.current = p.current /\ page'.session = p.session /\ page'.muted = p.muted
         \/ p.current = c /\ page'.current = Nobody /\ page'.session = Nobody
  BY <1>t, <1>3, <1>4, <1>5, PreloadEnds
<1>7. EngineOK' /\ engine'.task = engine.task
  BY <1>t, <1>2 DEF EngineOK, TaskOK
<1> QED BY <1>2, <1>3, <1>6, <1>7, PreloadGoesOn

LEMMA PageStopStep ==
  ASSUME PageTypeOK, PageStop
  PROVE  PageTypeOK' /\ Halts /\ Interrupts
<1>t. PageOK(page) /\ EngineOK /\ RestOK
  BY TypesAre
<1>1. PICK awake \in Woken(Waiting) :
       page' = Forget(StopActive(page), {page.session}) /\ at' = Return(awake) /\ Readied(awake)
  BY DEF PageStop
<1>2. /\ stops < MaxStops /\ stops' = stops + 1
      /\ engine' = [engine EXCEPT !.task = Idle]
      /\ Crosses({}, {}) /\ Silences
      /\ UNCHANGED <<prepared, segment, told>>
  BY DEF PageStop
<1>3. /\ PageOK(page') /\ page'.current = Nobody /\ page'.session \in {page.session, Nobody}
      /\ page'.ended = page.ended /\ page'.chunked = page.chunked
  BY <1>t, <1>1, Stopping
<1>4. EngineOK'
  <2>1. engine' = [voice |-> engine.voice, task |-> Idle]
    BY <1>t, <1>2 DEF EngineOK
  <2> QED BY <1>t, <2>1, Resting DEF EngineOK
<1>5. awake \subseteq Waiting /\ awake \subseteq Calls /\ {VoiceOf[w] : w \in awake} \subseteq Languages
  BY WokenAre
<1>6. at' \in [Calls -> Points] /\ \A d \in Calls : at'[d] = IF d \in awake THEN "done" ELSE at[d]
  BY <1>t, <1>1, Returning DEF RestOK
<1>7. crossed' = crossed \cup Running /\ crossed' \subseteq Calls
  BY <1>t, <1>2 DEF Crosses, RestOK, Running
<1>8. Silencing
  BY <1>2 DEF Silences, Silencing
<1>9. RestOK'
  <2>1. \A d \in Speeches : at'[d] \in {"load", "wait"} => at[d] \in {"load", "wait"}
    BY <1>6
  <2>2. ready' \cup prepared' \subseteq Languages /\ stops' \in 0..MaxStops
    BY <1>t, <1>1, <1>2, <1>5, StopsAreNatural DEF Readied, RestOK
  <2> QED BY <1>2, <1>6, <1>7, <1>8, <2>1, <2>2, RestKept
<1>10. PageTypeOK'
  BY <1>3, <1>4, <1>9 DEF PageTypeOK, PageOK, Pages, EngineOK, RestOK, SegmentOK, Points
<1>11. Interrupts
  BY <1>6, <1>7 DEF Interrupts, Running
<1>12. \A d \in Calls : Onward(d)
  BY <1>6 DEF Onward
<1> QED BY <1>2, <1>3, <1>8, <1>10, <1>11, <1>12 DEF Halts

LEMMA PrepareStep ==
  ASSUME PageTypeOK, Prepare
  PROVE  PageTypeOK' /\ Same
<1>t. PageOK(page) /\ EngineOK /\ RestOK
  BY TypesAre
<1>1. UNCHANGED <<page, engine, ready, at, segment, told, stops, crossed, silenced>>
      /\ prepared' \subseteq Languages
  BY <1>t DEF Prepare, RestOK, Languages
<1>2. RestOK' /\ EngineOK' /\ PageOK(page')
  BY <1>t, <1>1 DEF RestOK, SegmentOK, EngineOK, TaskOK
<1> QED BY <1>1, <1>2 DEF PageTypeOK, PageOK, Pages, EngineOK, RestOK, SegmentOK, Points, Same

LEMMA EndOfTextStep ==
  ASSUME PageTypeOK, EndOfText
  PROVE  PageTypeOK' /\ Same
BY DEF EndOfText, PageTypeOK, TaskOK, Same

LEMMA ChunkStep ==
  ASSUME PageTypeOK, Chunk
  PROVE  PageTypeOK' /\ Same
<1>t. PageOK(page) /\ EngineOK /\ RestOK
  BY TypesAre
<1> DEFINE text == engine.task
           item == <<"audio", text.call, text.segment, text.given + 1>>
           got == Append(page.kept, item)
<1>1. /\ text # Idle
      /\ engine' = [engine EXCEPT !.task =
                      IF text.given + 1 = Chunks[text.call] THEN Idle
                        ELSE [text EXCEPT !.given = text.given + 1]]
      /\ UNCHANGED <<prepared, ready, at, segment, stops, crossed, silenced>>
  BY DEF Chunk
<1>2. text.call \in Calls /\ text.segment \in Nat \ {0} /\ text.given \in Nat
      /\ text.given < Chunks[text.call]
      /\ text = [call |-> text.call, segment |-> text.segment, given |-> text.given]
  BY <1>t, <1>1 DEF EngineOK, TaskOK
<1>3. EngineOK'
  <2>1. CASE text.given + 1 = Chunks[text.call]
    <3>1. engine' = [voice |-> engine.voice, task |-> Idle]
      BY <1>t, <1>1, <2>1 DEF EngineOK
    <3> QED BY <1>t, <3>1, Resting DEF EngineOK
  <2>2. CASE text.given + 1 # Chunks[text.call]
    <3>0. engine' = [voice |-> engine.voice, task |-> [text EXCEPT !.given = text.given + 1]]
      BY <1>t, <1>1, <2>2 DEF EngineOK
    <3>1. engine'.task = [call |-> text.call, segment |-> text.segment, given |-> text.given + 1]
          /\ engine' = [voice |-> engine.voice, task |-> engine'.task]
      BY <1>2, <3>0
    <3>2. text.given + 1 < Chunks[text.call] /\ text.given + 1 \in Nat
      BY <1>2, <2>2
    <3> QED BY <1>t, <1>2, <3>1, <3>2 DEF EngineOK, TaskOK, Idle
  <2> QED BY <2>1, <2>2
<1>4. got \in Seq(Item)
  <2>1. item \in Item
    BY <1>2 DEF Item
  <2> QED BY <1>t, <2>1, AppendProperties DEF PageOK, Pages
<1> HIDE DEF got
<1>5. CASE UNCHANGED <<page, told>>
  BY <1>t, <1>1, <1>3, <1>5, SMTT(30) DEF PageTypeOK, PageOK, Pages, EngineOK, RestOK, SegmentOK, Points, Same
<1>6. ASSUME NEW k \in 0..Len(got), told' = Tell(page, told, Passed(got, k)),
             page' = [page EXCEPT !.chunked = TRUE, !.kept = Held(got, k)]
      PROVE  PageTypeOK' /\ Same
  <2>1. Held(got, k) \in Seq(Item) /\ told' \in [Calls -> Seq(Item)]
    <3>1. Passed(got, k) \in Seq(Item)
      <4>1. Len(got) \in Nat /\ \A i \in 1..k : got[i] \in Item
        BY <1>4, LenProperties, ElementOfSeq
      <4> QED BY <4>1, SubSeqProperties DEF Passed
    <3>2. Held(got, k) \in Seq(Item)
      <4>1. <<>> \in Seq(Item)
        BY EmptySeq
      <4> QED BY <1>t, <1>4, <4>1, PassingOn DEF RestOK
    <3> QED BY <1>t, <1>6, <3>1, <3>2, Telling DEF RestOK
  <2>2. PageOK(page') /\ page'.current = page.current
    BY <1>t, <1>6, <2>1 DEF PageOK, Pages
  <2>3. RestOK'
    BY <1>t, <1>1, <2>1 DEF RestOK, SegmentOK
  <2> QED BY <1>1, <1>3, <2>2, <2>3 DEF PageTypeOK, PageOK, Pages, EngineOK, RestOK, SegmentOK, Points, Same
<1> QED BY <1>5, <1>6 DEF Chunk, got

\* Every step is of one of these kinds.
Overlaps ==
  \/ \E c \in Calls : Makes(c) \/ Proceeds(c)
  \/ Interrupts \/ Same
SpeechGoesOn(c) ==
  Begins(c) \/ Awaits(c) \/ Loads(c) \/ Reports(c) \/ Turns(c) \/ Finishes(c)
Acts ==
  \/ Halts
  \/ \E c \in Speeches : SpeechGoesOn(c)
  \/ \E c \in Preloads : Takeover(c) \/ GoesOnSilently(c)
  \/ Prepare \/ Chunk \/ EndOfText

LEMMA SpeechStep ==
  ASSUME PageTypeOK, NEW c \in Speeches,
         Speak(c) \/ SpeakFails(c) \/ SpeakReports(c) \/ GoesOn(c)
  PROVE  PageTypeOK' /\ (Makes(c) \/ Proceeds(c) \/ Same) /\ (Halts \/ SpeechGoesOn(c))
<1>1. CASE Speak(c)
  BY <1>1, SpeakStep DEF SpeechGoesOn
<1>2. CASE SpeakReports(c)
  BY <1>2, SpeakReportsStep DEF SpeechGoesOn
<1>3. CASE SpeakInited(c)
  BY <1>3, SpeakInitedStep DEF SpeechGoesOn
<1>4. CASE SpeakLoaded(c)
  BY <1>4, SpeakLoadedStep DEF SpeechGoesOn
<1>5. CASE NextSegment(c)
  BY <1>5, NextSegmentStep DEF SpeechGoesOn
<1>6. CASE FinishSpeech(c)
  BY <1>6, FinishSpeechStep DEF SpeechGoesOn
<1>7. CASE SpeakFails(c) \/ SpeakHears(c)
  <2>1. Fails(c) /\ c \in Running
    BY <1>7 DEF SpeakFails, SpeakHears, Running
  <2> QED BY <2>1, FailsStep
<1> QED BY <1>1, <1>2, <1>3, <1>4, <1>5, <1>6, <1>7 DEF GoesOn

LEMMA PreloadsStep ==
  ASSUME PageTypeOK, NEW c \in Preloads, Preload(c) \/ PreloadFails(c) \/ GoesOn(c)
  PROVE  PageTypeOK' /\ (Makes(c) \/ Proceeds(c)) /\ (Takeover(c) \/ GoesOnSilently(c))
<1>1. c \notin Speeches
  OBVIOUS
<1> QED BY <1>1, PreloadStep, PreloadFailsStep, PreloadInitedStep, PreloadLoadedStep DEF GoesOn

LEMMA StepsAre ==
  ASSUME PageTypeOK, PageNext
  PROVE  PageTypeOK' /\ Overlaps /\ Acts
<1>1. ASSUME NEW c \in Speeches, Speak(c) \/ SpeakFails(c) \/ SpeakReports(c) \/ GoesOn(c)
      PROVE  PageTypeOK' /\ Overlaps /\ Acts
  BY <1>1, SpeechStep DEF Overlaps, Acts
<1>2. ASSUME NEW c \in Preloads, Preload(c) \/ PreloadFails(c) \/ GoesOn(c)
      PROVE  PageTypeOK' /\ Overlaps /\ Acts
  BY <1>2, PreloadsStep DEF Overlaps, Acts
<1>3. CASE PageStop
  BY <1>3, PageStopStep DEF Overlaps, Acts
<1>4. CASE Engine
  BY <1>4, PrepareStep, ChunkStep, EndOfTextStep DEF Engine, Overlaps, Acts
<1>5. ASSUME NEW c \in Calls, GoesOn(c)
      PROVE  PageTypeOK' /\ Overlaps /\ Acts
  BY <1>1, <1>2, <1>5
<1> QED BY <1>1, <1>2, <1>3, <1>4, <1>5 DEF PageNext

\* What no step changes.
LEMMA Standing ==
  ASSUME PageTypeOK, UNCHANGED harnessVars
  PROVE  PageTypeOK' /\ Same
BY SMTT(30) DEF PageTypeOK, TaskOK, Same, harnessVars

LEMMA TypesInit == PageInit => PageTypeOK
<1>1. <<>> \in Seq(Item)
  BY EmptySeq
<1> QED BY <1>1, StopsAreNatural DEF PageInit, PageTypeOK, TaskOK, Idle, Languages

\* Every variable has its type, and the call whose token is current is the one whose
\* session it is, however many calls and stops there are and whatever fails.
THEOREM PageTyped == PageSpec => []PageTypeOK
<1>1. PageTypeOK /\ [PageNext]_harnessVars => PageTypeOK'
  BY StepsAre, Standing
<1> QED BY <1>1, TypesInit, PTL DEF PageSpec

-----------------------------------------------------------------------------
(* Calls that run at the same time, and the session                          *)

\* A speech that nothing crossed has the token from when it begins until it returns.
Crossings ==
  /\ \A a, b \in Running : a # b => a \in crossed
  /\ \A c \in Speeches : at[c] \in {"load", "wait"} /\ c \notin crossed => page.current = c

LEMMA CrossingsStep ==
  ASSUME PageTypeOK, PageTypeOK', Crossings, Overlaps
  PROVE  Crossings' /\ crossed \subseteq crossed'
<1>t. Running \subseteq Calls /\ Running' \subseteq Calls
      /\ \A c \in Speeches : (at[c] \in {"load", "wait"} => c \in Running)
                             /\ (at'[c] \in {"load", "wait"} => c \in Running')
  BY DEF Running
<1>1. ASSUME NEW c \in Calls, Makes(c)
      PROVE  Crossings' /\ crossed \subseteq crossed'
  <2>1. crossed \cup Running \subseteq crossed'
    BY <1>1 DEF Makes
  <2>2. ASSUME NEW a \in Running', NEW b \in Running', a # b
        PROVE  a \in crossed'
    <3>1. CASE a \in Running
      BY <2>1, <3>1
    <3>2. CASE a \notin Running
      <4>1. a = c /\ b # c
        BY <1>1, <2>2, <3>2 DEF Makes
      <4> QED BY <1>1, <2>2, <4>1 DEF Makes
    <3> QED BY <3>1, <3>2
  <2>3. ASSUME NEW d \in Speeches, at'[d] \in {"load", "wait"}, d \notin crossed'
        PROVE  page'.current = d
    <3>1. d \in Running' /\ d \notin Running
      BY <1>t, <2>1, <2>3
    <3>2. d = c
      BY <1>1, <3>1 DEF Makes
    <3> QED BY <1>1, <2>3, <3>2 DEF Makes
  <2> QED BY <2>1, <2>2, <2>3 DEF Crossings
<1>2. ASSUME NEW c \in Calls, Proceeds(c)
      PROVE  Crossings' /\ crossed \subseteq crossed'
  <2>1. c \in Running /\ crossed' = crossed /\ Running' \subseteq Running
    BY <1>2 DEF Proceeds
  <2>2. ASSUME NEW d \in Speeches, at'[d] \in {"load", "wait"}, d \notin crossed'
        PROVE  page'.current = d
    <3>1. d \in Running' /\ d \in Running
      BY <1>t, <2>1, <2>2
    <3>2. d = c
      BY <2>1, <2>2, <3>1 DEF Crossings
    <3>3. page'.current = c \/ (page'.current = page.current /\ at[c] # "init")
      BY <1>2, <3>1, <3>2 DEF Proceeds
    <3>4. at[c] # "init" => at[c] \in {"load", "wait"}
      BY <2>1 DEF Running
    <3> QED BY <2>1, <2>2, <3>2, <3>3, <3>4 DEF Crossings
  <2> QED BY <2>1, <2>2 DEF Crossings
<1>3. CASE Interrupts
  BY <1>t, <1>3 DEF Interrupts, Crossings
<1>4. CASE Same
  <2>1. Running' = Running
    BY <1>4 DEF Same, Running
  <2>2. \A c \in Speeches : at'[c] \in {"load", "wait"} => at[c] \in {"load", "wait"}
    BY <1>4 DEF Same
  <2> QED BY <1>4, <2>1, <2>2 DEF Same, Crossings
<1> QED BY <1>1, <1>2, <1>3, <1>4 DEF Overlaps

\* A session is that of a call that has begun, and the one with the token was never stopped.
Floor ==
  /\ page.session # Nobody => Started(page.session)
  /\ \A c \in silenced : Started(c)
  /\ \A c \in Calls : ~Started(c) => told[c] = <<>>
  /\ page.current \notin silenced
  /\ page.current \in Speeches =>
       at[page.current] \in {"load", "wait"} /\ ~page.muted /\ page.port = page.current
  /\ page.ended => page.chunked

\* Only the session is told anything.
LEMMA ToldIs ==
  ASSUME PageTypeOK, NEW items \in Seq(Item), told' = Tell(page, told, items)
  PROVE  \A c \in Calls : told'[c] = IF page.session = c /\ ~page.muted THEN told[c] \o items ELSE told[c]
<1>1. PageOK(page) /\ RestOK
  BY TypesAre
<1> QED BY <1>1, Telling DEF RestOK

\* Those who have begun stay so, and of the others nothing is heard.
LEMMA FloorKept ==
  ASSUME PageTypeOK, PageTypeOK', Floor,
         \A d \in Calls : Started(d) => Started(d)',
         \A d \in Calls : ~Started(d) => told'[d] = told[d]
  PROVE  \A d \in Calls : ~Started(d)' => told'[d] = <<>>
BY DEF Floor

LEMMA FloorHalts ==
  ASSUME PageTypeOK, PageTypeOK', Floor, Silencing, page'.current = Nobody,
         page'.session \in {page.session, Nobody},
         page'.ended = page.ended, page'.chunked = page.chunked,
         \A d \in Calls : Onward(d) \/ (at[d] = "new" /\ at'[d] = "init"),
         NEW items \in Seq(Item), told' \in {told, Tell(page, told, items)}
  PROVE  Floor'
<1>t. PageOK(page) /\ PageOK(page)' /\ silenced \subseteq Calls /\ silenced' \subseteq Calls
  BY TypesAre DEF PageTypeOK, PageOK, Pages
<1>s. page.session \in Calls \cup {Nobody}
  BY <1>t DEF PageOK, Pages
<1>1. \A d \in Calls : Started(d) => Started(d)'
  BY DEF Started, Onward
<1>2. \A d \in Calls : ~Started(d) => told'[d] = told[d]
  <2>1. \A d \in Calls : page.session # d => told'[d] = told[d]
    BY ToldIs
  <2> QED BY <1>t, <2>1 DEF Floor, PageOK, Pages
<1>3. \A d \in Calls : ~Started(d)' => told'[d] = <<>>
  BY <1>1, <1>2, FloorKept
<1>4. (page.session # Nobody => Started(page.session))'
  BY <1>s, <1>1 DEF Floor, Started
<1>5. \A d \in silenced' : Started(d)'
  BY <1>t, <1>1, <1>s DEF Silencing, Floor
<1>6. page'.current \notin silenced' /\ page'.current \notin Speeches
  BY <1>t
<1> QED BY <1>3, <1>4, <1>5, <1>6 DEF Floor

LEMMA FloorBegins ==
  ASSUME PageTypeOK, PageTypeOK', Floor, NEW c \in Speeches, Begins(c)
  PROVE  Floor'
<1>t. PageOK(page) /\ silenced \subseteq Calls
  BY TypesAre DEF PageTypeOK
<1>s. page.session \in Calls \cup {Nobody}
  BY <1>t DEF PageOK, Pages
<1>1. /\ ~Started(c) /\ Silencing /\ told' = told
      /\ page'.current = c /\ page'.session = c /\ page'.port = c
      /\ ~page'.muted /\ ~page'.ended /\ ~page'.chunked
      /\ at'[c] \in {"load", "wait"} /\ \A d \in Calls \ {c} : Onward(d)
  BY DEF Begins
<1>2. Started(c)' /\ \A d \in Calls : Started(d) => Started(d)'
  BY <1>1 DEF Started, Onward
<1>3. \A d \in Calls : ~Started(d)' => told'[d] = <<>>
  BY <1>1, <1>2 DEF Floor
<1>4. c \notin silenced' /\ \A d \in silenced' : Started(d)'
  BY <1>t, <1>s, <1>1, <1>2 DEF Silencing, Floor
<1> QED BY <1>1, <1>2, <1>3, <1>4 DEF Floor

LEMMA FloorTakeover ==
  ASSUME PageTypeOK, PageTypeOK', Floor, NEW c \in Preloads, Takeover(c)
  PROVE  Floor'
<1>t. PageOK(page) /\ silenced \subseteq Calls
  BY TypesAre DEF PageTypeOK
<1>s. page.session \in Calls \cup {Nobody}
  BY <1>t DEF PageOK, Pages
<1>1. /\ at[c] = "new" /\ Silencing /\ told' = told
      /\ page'.current \in {c, Nobody} /\ page'.session = page'.current
      /\ ~page'.ended /\ ~page'.chunked
      /\ at'[c] # "new" /\ \A d \in Calls \ {c} : at'[d] = at[d]
  BY DEF Takeover
<1>2. Started(c)' /\ ~Started(c) /\ \A d \in Calls : Started(d) => Started(d)'
  BY <1>1 DEF Started
<1>3. \A d \in Calls : ~Started(d)' => told'[d] = <<>>
  BY <1>1, <1>2 DEF Floor
<1>4. c \notin silenced' /\ Nobody \notin silenced' /\ \A d \in silenced' : Started(d)'
  BY <1>t, <1>s, <1>1, <1>2 DEF Silencing, Floor
<1> QED BY <1>1, <1>2, <1>3, <1>4 DEF Floor

\* Steps that leave the session as it is.
LEMMA FloorStays ==
  ASSUME PageTypeOK, PageTypeOK', Floor, silenced' = silenced,
         \/ page'.current = page.current /\ page'.session = page.session /\ page'.muted = page.muted
         \/ page'.current = Nobody /\ page'.session = Nobody,
         page.current \in Speeches => page'.port \in {page.port, page.current}
                                      /\ at'[page.current] \in {"load", "wait"},
         page'.ended => page'.chunked,
         \A d \in Calls : Started(d) => Started(d)',
         \A d \in Calls : page.session # d => told'[d] = told[d]
  PROVE  Floor'
<1>t. PageOK(page) /\ silenced \subseteq Calls
  BY TypesAre DEF PageTypeOK
<1>s. page.session \in Calls \cup {Nobody} /\ page.current \in Calls \cup {Nobody}
  BY <1>t DEF PageOK, Pages
<1>1. \A d \in Calls : ~Started(d) => told'[d] = told[d]
  BY <1>s DEF Floor
<1>2. \A d \in Calls : ~Started(d)' => told'[d] = <<>>
  BY <1>1, FloorKept
<1>3. (page.session # Nobody => Started(page.session))'
  BY <1>s DEF Floor, Started
<1>4. \A d \in silenced' : Started(d)'
  BY <1>t DEF Floor
<1>5. page'.current \notin silenced'
  BY <1>t, <1>s DEF Floor
<1>6. page'.current \in Speeches =>
        at'[page'.current] \in {"load", "wait"} /\ ~page'.muted /\ page'.port = page'.current
  <2>1. CASE page'.current = page.current
    BY <2>1 DEF Floor
  <2>2. CASE page'.current = Nobody
    BY <2>2
  <2> QED BY <2>1, <2>2
<1> QED BY <1>2, <1>3, <1>4, <1>5, <1>6 DEF Floor

LEMMA FloorStep ==
  ASSUME PageTypeOK, PageTypeOK', Floor, Acts
  PROVE  Floor'
<1>t. PageOK(page) /\ RestOK
  BY TypesAre
<1>e. <<>> \in Seq(Item) /\ Error \in Seq(Item) /\ Mark \in Seq(Item) /\ Done \in Seq(Item)
  BY ItemsAreItems DEF Error, Mark, Done
<1>k. page.kept \in Seq(Item) /\ page.kept \o Done \in Seq(Item)
  <2>1. page.kept \in Seq(Item)
    BY <1>t DEF PageOK, Pages
  <2> QED BY <1>e, <2>1, Joining
<1>p. page.current \in Speeches => page.current \in Calls /\ page.current = page.session
  BY <1>t DEF PageOK, Pages
<1>1. CASE Halts
  BY <1>1, <1>e, FloorHalts DEF Halts
<1>2. ASSUME NEW c \in Speeches, SpeechGoesOn(c)
      PROVE  Floor'
  <2>1. CASE Begins(c)
    BY <2>1, FloorBegins
  <2>2. CASE Awaits(c)
    <3>1. \A d \in Calls : Started(d) => Started(d)'
      BY <1>t, <2>2 DEF Awaits, Started, RestOK
    <3>2. page.current \in Speeches => at'[page.current] \in {"load", "wait"}
      BY <1>t, <1>p, <2>2 DEF Awaits, RestOK, Floor
    <3> QED BY <2>2, <3>1, <3>2, FloorStays DEF Awaits, Floor
  <2>3. CASE Loads(c)
    <3>1. /\ \A d \in Calls : Started(d) => Started(d)'
          /\ page.current \in Speeches => at'[page.current] \in {"load", "wait"}
      BY <1>t, <1>p, <2>3 DEF Loads, Started, RestOK, Floor
    <3> QED BY <2>3, <3>1, FloorStays DEF Loads, Floor
  <2>4. CASE Reports(c)
    <3>1. /\ \A d \in Calls : Started(d) => Started(d)'
          /\ page.current \in Speeches => at'[page.current] \in {"load", "wait"}
      BY <1>t, <1>p, <2>4 DEF Reports, Started, RestOK, Floor
    <3>2. /\ page'.current = page.current /\ page'.session = page.session
          /\ page'.muted = page.muted /\ page'.port = page.port
          /\ page'.ended = page.ended /\ page'.chunked = page.chunked
          /\ silenced' = silenced /\ told' = told
      BY <1>t, <2>4 DEF Reports, PageOK, Pages
    <3> QED BY <3>1, <3>2, FloorStays DEF Floor
  <2>5. CASE Turns(c)
    <3>1. PICK k \in 0..Len(page.kept) : told' = Tell(page, told, Passed(page.kept, k) \o Mark)
      BY <2>5 DEF Turns
    <3>2. Passed(page.kept, k) \o Mark \in Seq(Item)
      BY <1>t, <1>e, <1>k, PassingOn DEF RestOK
    <3>3. \A d \in Calls : page.session # d => told'[d] = told[d]
      BY <3>1, <3>2, ToldIs
    <3>4. /\ page.current = c /\ page.session = c
          /\ page'.current = c /\ page'.session = c /\ page'.port = c /\ page'.muted = page.muted
          /\ ~page'.ended /\ ~page'.chunked /\ silenced' = silenced
          /\ at'[c] \in {"load", "wait"} /\ \A d \in Calls \ {c} : at'[d] = at[d]
      BY <2>5 DEF Turns
    <3>5. \A d \in Calls : Started(d) => Started(d)'
      BY <3>4 DEF Started
    <3> QED BY <3>3, <3>4, <3>5, FloorStays
  <2>6. CASE Finishes(c)
    BY <1>k, <2>6, FloorHalts DEF Finishes
  <2> QED BY <1>2, <2>1, <2>2, <2>3, <2>4, <2>5, <2>6 DEF SpeechGoesOn
<1>3. ASSUME NEW c \in Preloads, Takeover(c) \/ GoesOnSilently(c)
      PROVE  Floor'
  <2>1. CASE Takeover(c)
    BY <2>1, FloorTakeover
  <2>2. CASE GoesOnSilently(c)
    <3>1. /\ \A d \in Calls : Started(d) => Started(d)'
          /\ page.current \in Speeches => at'[page.current] \in {"load", "wait"}
      BY <1>t, <1>p, <2>2 DEF GoesOnSilently, Started, Floor
    <3>2. page.current \in Speeches => page'.port \in {page.port, page.current}
      BY <2>2 DEF GoesOnSilently
    <3> QED BY <2>2, <3>1, <3>2, FloorStays DEF GoesOnSilently, Floor
  <2> QED BY <1>3, <2>1, <2>2
<1>4. CASE Prepare \/ EndOfText
  <2>1. /\ page'.current = page.current /\ page'.session = page.session
        /\ page'.muted = page.muted /\ page'.port = page.port
        /\ (page'.ended => page'.chunked) /\ UNCHANGED <<at, told, silenced>>
    BY <1>t, <1>4 DEF Prepare, EndOfText, PageOK, Pages, Floor
  <2>2. \A d \in Calls : Started(d) => Started(d)'
    BY <2>1 DEF Started
  <2> QED BY <2>1, <2>2, FloorStays DEF Floor
<1>5. CASE Chunk
  <2>1. \/ UNCHANGED <<page, told>>
        \/ \E got \in Seq(Item) : \E k \in 0..Len(got) :
             /\ told' = Tell(page, told, Passed(got, k))
             /\ page' = [page EXCEPT !.chunked = TRUE, !.kept = Held(got, k)]
    <3>1. engine.task # Idle
      BY <1>5 DEF Chunk
    <3>2. Append(page.kept, <<"audio", engine.task.call, engine.task.segment, engine.task.given + 1>>) \in Seq(Item)
      <4>1. engine.task.call \in Calls /\ engine.task.segment \in Nat \ {0} /\ engine.task.given \in Nat
        <5>1. EngineOK
          BY TypesAre
        <5> QED BY <3>1, <5>1 DEF EngineOK, TaskOK
      <4>2. <<"audio", engine.task.call, engine.task.segment, engine.task.given + 1>> \in Item
        BY <4>1 DEF Item
      <4> QED BY <1>k, <4>2, AppendProperties
    <3> QED BY <1>5, <3>2 DEF Chunk
  <2>2. UNCHANGED <<at, silenced>>
    BY <1>5 DEF Chunk
  <2>3. \A d \in Calls : Started(d) => Started(d)'
    BY <2>2 DEF Started
  <2>4. CASE UNCHANGED <<page, told>>
    BY <2>2, <2>3, <2>4, FloorStays DEF Floor
  <2>5. ASSUME NEW got \in Seq(Item), NEW k \in 0..Len(got),
               told' = Tell(page, told, Passed(got, k)),
               page' = [page EXCEPT !.chunked = TRUE, !.kept = Held(got, k)]
        PROVE  Floor'
    <3>1. Passed(got, k) \in Seq(Item)
      <4>1. Len(got) \in Nat /\ \A i \in 1..k : got[i] \in Item
        BY LenProperties, ElementOfSeq
      <4> QED BY <4>1, SubSeqProperties DEF Passed
    <3>2. \A d \in Calls : page.session # d => told'[d] = told[d]
      BY <2>5, <3>1, ToldIs
    <3>3. /\ page'.current = page.current /\ page'.session = page.session
          /\ page'.muted = page.muted /\ page'.port = page.port /\ page'.chunked
      BY <1>t, <2>5 DEF PageOK, Pages
    <3> QED BY <2>2, <2>3, <3>2, <3>3, FloorStays DEF Floor
  <2> QED BY <2>1, <2>4, <2>5
<1> QED BY <1>1, <1>2, <1>3, <1>4, <1>5 DEF Acts

-----------------------------------------------------------------------------
(* The text the engine is at                                                 *)

\* No preload was made while the speech ran, or went on then.
Clean(c) == c \notin crossed \/ Preloads \cap crossed = {}

\* While a speech has the token the engine reads its segment, or the text of a preload that
\* crossed it; a segment that nothing crossed has ended when the engine is done with it.
Texts ==
  \A c \in Speeches : page.current = c =>
    /\ engine.task.call \in Speeches => engine.task.call = c
    /\ engine.task.call = c =>
         /\ at[c] = "wait" /\ engine.task.segment = segment[c]
         /\ page.chunked \/ engine.task.given = 0
    /\ engine.task.call \in Preloads => engine.task.call \in crossed /\ c \in crossed
    /\ Clean(c) =>
         /\ at[c] = "load" => ~page.chunked
         /\ page.ended => engine.task = Idle

\* Nothing of a speech that has the token is lost on the way to the port.
LEMMA ItsOwnPort ==
  ASSUME PageTypeOK, Floor, page.current \in Speeches
  PROVE  Takes /\ page.session = page.current /\ ~page.muted
                /\ at[page.current] \in {"load", "wait"} /\ page.current \in Running
<1>1. PageOK(page)
  BY TypesAre
<1>2. page.current # Nobody /\ ~page.stopped /\ page.session = page.current
  BY <1>1 DEF PageOK, Pages
<1> QED BY <1>2 DEF Floor, Takes, Running

\* A chunk reaches the port, of the text the engine is at.
LEMMA ChunkComes ==
  ASSUME PageTypeOK, Floor, Chunk, page.current \in Speeches
  PROVE  /\ engine.task # Idle /\ engine.task.call \in Calls
         /\ engine.task.segment \in Nat \ {0} /\ engine.task.given \in Nat
         /\ engine.task.given < Chunks[engine.task.call]
         /\ \/ engine'.task = Idle /\ engine.task.given + 1 = Chunks[engine.task.call]
            \/ /\ engine'.task.call = engine.task.call /\ engine'.task.segment = engine.task.segment
               /\ engine'.task.given = engine.task.given + 1
         /\ UNCHANGED <<at, segment, crossed, silenced>>
         /\ page'.current = page.current /\ page'.chunked /\ page'.ended = page.ended
         /\ \E k \in 0..Len(page.kept) + 1 :
              LET got == Append(page.kept,
                           <<"audio", engine.task.call, engine.task.segment, engine.task.given + 1>>)
              IN page'.kept = Held(got, k) /\ told' = Tell(page, told, Passed(got, k))
<1>t. PageOK(page) /\ EngineOK
  BY TypesAre
<1> DEFINE text == engine.task
           got == Append(page.kept, <<"audio", text.call, text.segment, text.given + 1>>)
<1>1. /\ text # Idle
      /\ engine' = [engine EXCEPT !.task =
                      IF text.given + 1 = Chunks[text.call] THEN Idle
                        ELSE [text EXCEPT !.given = text.given + 1]]
      /\ UNCHANGED <<at, segment, crossed, silenced>>
  BY DEF Chunk
<1>2. text.call \in Calls /\ text.segment \in Nat \ {0} /\ text.given \in Nat
      /\ text.given < Chunks[text.call]
      /\ text = [call |-> text.call, segment |-> text.segment, given |-> text.given]
  BY <1>t, <1>1 DEF EngineOK, TaskOK
<1>3. \/ engine'.task = Idle /\ text.given + 1 = Chunks[text.call]
      \/ /\ engine'.task.call = text.call /\ engine'.task.segment = text.segment
         /\ engine'.task.given = text.given + 1
  <2>1. engine'.task = IF text.given + 1 = Chunks[text.call] THEN Idle
                         ELSE [text EXCEPT !.given = text.given + 1]
    BY <1>t, <1>1 DEF EngineOK
  <2> QED BY <1>2, <2>1
<1>4. Takes
  BY ItsOwnPort
<1>5. PICK k \in 0..Len(got) :
        told' = Tell(page, told, Passed(got, k))
        /\ page' = [page EXCEPT !.chunked = TRUE, !.kept = Held(got, k)]
  BY <1>4 DEF Chunk
<1>6. Len(got) = Len(page.kept) + 1
  BY <1>t, AppendProperties DEF PageOK, Pages
<1> HIDE DEF got
<1>7. page'.current = page.current /\ page'.chunked /\ page'.ended = page.ended
      /\ page'.kept = Held(got, k)
  BY <1>t, <1>5 DEF PageOK, Pages
<1>8. k \in 0..Len(page.kept) + 1
  BY <1>5, <1>6
<1> QED BY <1>1, <1>2, <1>3, <1>5, <1>7, <1>8 DEF got

LEMMA TextsTurn ==
  ASSUME PageTypeOK', Floor', NEW c \in Speeches, page'.current = c, ~page'.ended, ~page'.chunked,
         NEW i, segment'[c] = i,
         \/ at'[c] = "wait" /\ engine'.task = Text(c, i)
         \/ at'[c] = "load" /\ engine'.task = Idle
  PROVE  Texts'
BY DEF Texts, Text, Idle

LEMMA TextsStep ==
  ASSUME PageTypeOK, PageTypeOK', Crossings, Floor, Floor', Texts, crossed \subseteq crossed', Acts
  PROVE  Texts'
<1>t. PageOK(page) /\ RestOK /\ Nobody \notin Calls
  BY TypesAre
<1>c. \A c \in Speeches : Clean(c)' => Clean(c)
  BY DEF Clean
<1>1. CASE page'.current \notin Speeches
  BY <1>1 DEF Texts
<1>2. ASSUME NEW c \in Speeches, Begins(c) \/ Turns(c)
      PROVE  Texts'
  <2>1. segment'[c] = 1 \/ segment'[c] = segment[c] + 1
    BY <1>t, <1>2 DEF Begins, Turns, RestOK
  <2>2. CASE Begins(c)
    <3>1. segment'[c] = 1
      BY <1>t, <2>2 DEF Begins, RestOK
    <3> QED BY <2>2, <3>1, TextsTurn DEF Begins
  <2>3. CASE Turns(c)
    <3>1. segment'[c] = segment[c] + 1
      BY <1>t, <2>3 DEF Turns, RestOK
    <3> QED BY <2>3, <3>1, TextsTurn DEF Turns
  <2> QED BY <1>2, <2>2, <2>3
<1>3. ASSUME NEW c \in Speeches, Awaits(c)
      PROVE  Texts'
  <2>1. UNCHANGED <<page, engine, segment>> /\ \A d \in Calls : d # c => at'[d] = at[d]
    BY <1>t, <1>3 DEF Awaits, RestOK
  <2>2. page.current # c
    BY <1>3 DEF Awaits, Floor
  <2> QED BY <1>c, <2>1, <2>2 DEF Texts
<1>4. ASSUME NEW c \in Speeches, Loads(c)
      PROVE  Texts'
  <2>1. /\ page.current = c /\ page' = page /\ segment' = segment /\ crossed' = crossed
        /\ engine'.task = Text(c, segment[c]) /\ at[c] = "load" /\ at'[c] = "wait"
    BY <1>t, <1>4 DEF Loads, RestOK
  <2>2. Clean(c) => ~page.ended
    BY <2>1 DEF Texts, Floor
  <2> QED BY <1>c, <2>1, <2>2 DEF Texts, Text
<1>5. ASSUME NEW c \in Speeches, Reports(c)
      PROVE  Texts'
  <2>1. /\ page'.current = page.current /\ page'.chunked = page.chunked /\ page'.ended = page.ended
        /\ UNCHANGED <<engine, segment>>
        /\ at[c] = "load" /\ \A d \in Calls : d # c => at'[d] = at[d]
        /\ page.current = c => at'[c] = "wait"
    BY <1>t, <1>5 DEF Reports, RestOK, PageOK, Pages
  <2>2. page.current = c => engine.task.call # c
    BY <2>1 DEF Texts
  <2>3. at'[c] = "load" \/ at'[c] = "wait"
    BY <1>t, <1>5 DEF Reports, RestOK
  <2> QED BY <1>c, <1>5, <2>1, <2>2, <2>3 DEF Texts, Reports
<1>6. ASSUME NEW p \in Preloads, GoesOnSilently(p)
      PROVE  Texts'
  <2>1. SUFFICES ASSUME NEW c \in Speeches, page'.current = c
                 PROVE  Texts'
    BY <1>1
  <2>2. page.current = c
    BY <1>6, <2>1 DEF GoesOnSilently
  <2>3. c \in Running /\ p \in Running /\ p # c
    BY <1>6, <2>2, ItsOwnPort DEF GoesOnSilently, Running
  <2>4. p \in crossed' /\ c \in crossed'
    BY <2>3 DEF Crossings
  <2>5. ~Clean(c)'
    BY <2>4 DEF Clean
  <2>6. /\ at'[c] = at[c] /\ segment' = segment /\ page'.chunked = page.chunked
        /\ engine'.task \in {engine.task, Idle, Text(p, 1)}
    BY <1>6 DEF GoesOnSilently
  <2>7. Idle.call \notin Calls /\ Text(p, 1).call = p
    BY <1>t DEF Idle, Text
  <2> QED BY <2>1, <2>2, <2>4, <2>5, <2>6, <2>7 DEF Texts
<1>7. CASE Prepare \/ EndOfText
  <2>1. /\ page'.current = page.current /\ page'.chunked = page.chunked
        /\ page'.ended => page.ended \/ engine.task = Idle
        /\ UNCHANGED <<engine, segment, at>>
    BY <1>t, <1>7 DEF Prepare, EndOfText, PageOK, Pages
  <2> QED BY <1>c, <2>1 DEF Texts
<1>8. CASE Chunk
  <2>1. SUFFICES ASSUME NEW c \in Speeches, page'.current = c
                 PROVE  Texts'
    BY <1>1
  <2>0. page.current \in Speeches
    <3>1. page'.current = page.current
      BY <1>t, <1>8 DEF Chunk, PageOK, Pages
    <3> QED BY <2>1, <3>1
  <2>2. /\ engine.task # Idle /\ engine.task.call \in Calls
        /\ \/ engine'.task = Idle
           \/ engine'.task.call = engine.task.call /\ engine'.task.segment = engine.task.segment
        /\ UNCHANGED <<at, segment, crossed>>
        /\ page.current = c /\ page'.chunked /\ page'.ended = page.ended
    BY <1>8, <2>0, <2>1, ChunkComes
  <2>3. Idle.call \notin Calls
    BY <1>t DEF Idle
  <2>4. Clean(c) => at[c] # "load" /\ ~page.ended
    <3>1. CASE engine.task.call \in Speeches
      BY <2>2, <3>1 DEF Texts
    <3>2. CASE engine.task.call \in Preloads
      BY <2>2, <3>2 DEF Texts, Clean
    <3> QED BY <2>2, <3>1, <3>2
  <2> QED BY <1>c, <2>1, <2>2, <2>3, <2>4 DEF Texts
<1>9. ASSUME Halts \/ (\E c \in Speeches : Finishes(c)) \/ (\E c \in Preloads : Takeover(c))
      PROVE  Texts'
  BY <1>t, <1>1, <1>9 DEF Halts, Finishes, Takeover
<1> QED BY <1>2, <1>3, <1>4, <1>5, <1>6, <1>7, <1>8, <1>9 DEF Acts, SpeechGoesOn

-----------------------------------------------------------------------------
(* Audio in its order                                                        *)

Has(s, x) == \E i \in DOMAIN s : s[i] = x
InOrder(s, c) ==
  \A i, j \in DOMAIN s : i < j /\ IsOwn(s[i], c) /\ IsOwn(s[j], c) => Precedes(s[i], s[j])
Pure(s, c) ==
  \A i \in DOMAIN s : IsAudio(s[i]) =>
    s[i] \in Script(c) \/ (c \in crossed /\ s[i][2] \in Preloads \cap crossed)
NoGap(s, c) ==
  \A i \in DOMAIN s : IsOwn(s[i], c) => \A x \in Script(c) : Precedes(x, s[i]) => Has(s, x)

LEMMA ScriptIs ==
  ASSUME NEW c \in Speeches, NEW x \in Script(c)
  PROVE  /\ IsOwn(x, c) /\ IsAudio(x) /\ x[2] = c
         /\ x[3] \in 1..Segments[c] /\ x[4] \in 1..Chunks[c]
         /\ x = <<"audio", c, x[3], x[4]>>
BY DEF Script, IsOwn, IsAudio

\* Audio of a speech in what is pure is in its script.
LEMMA OwnIsScript ==
  ASSUME NEW c \in Speeches, NEW s, Pure(s, c), NEW i \in DOMAIN s, IsOwn(s[i], c)
  PROVE  s[i] \in Script(c)
BY DEF Pure, IsOwn

LEMMA PrecedesIsStrict ==
  ASSUME NEW c \in Speeches, NEW x \in Script(c), NEW y \in Script(c), Precedes(x, y)
  PROVE  x # y /\ ~Precedes(y, x)
<1>1. x[3] \in Int /\ x[4] \in Int /\ y[3] \in Int /\ y[4] \in Int
  BY ScriptIs
<1> QED BY <1>1 DEF Precedes

\* What is left when audio is dropped at the end, and something else is told.
LEMMA Cut ==
  ASSUME NEW c \in Speeches, NEW o \in Seq(Item), NEW n \in Seq(Item),
         NEW m \in 0..Len(o), m <= Len(n), \A i \in 1..m : n[i] = o[i],
         \A i \in m + 1..Len(n) : ~IsAudio(n[i]),
         InOrder(o, c), Pure(o, c)
  PROVE  InOrder(n, c) /\ Pure(n, c) /\ (NoGap(o, c) => NoGap(n, c))
<1>0. Len(o) \in Nat /\ Len(n) \in Nat /\ DOMAIN o = 1..Len(o) /\ DOMAIN n = 1..Len(n)
  BY LenProperties
<1>1. \A i \in DOMAIN n : IsAudio(n[i]) => i \in 1..m /\ i \in DOMAIN o /\ n[i] = o[i]
  BY <1>0
<1>2. InOrder(n, c)
  BY <1>1 DEF InOrder, IsOwn
<1>3. Pure(n, c)
  BY <1>1 DEF Pure
<1>4. ASSUME NoGap(o, c), NEW i \in DOMAIN n, IsOwn(n[i], c), NEW x \in Script(c),
             Precedes(x, n[i])
      PROVE  Has(n, x)
  <2>1. i \in 1..m /\ i \in DOMAIN o /\ n[i] = o[i] /\ IsOwn(o[i], c)
    BY <1>1, <1>4 DEF IsOwn
  <2>2. PICK j \in DOMAIN o : o[j] = x
    BY <1>4, <2>1 DEF NoGap, Has
  <2>3. o[i] \in Script(c) /\ IsOwn(x, c)
    BY <2>1, OwnIsScript, ScriptIs
  <2>4. ~Precedes(o[i], o[j]) /\ o[i] # o[j]
    BY <1>4, <2>1, <2>2, <2>3, PrecedesIsStrict
  <2>5. ~(i < j) /\ i # j
    BY <2>1, <2>2, <2>3, <2>4 DEF InOrder
  <2>6. j \in 1..m
    BY <1>0, <2>1, <2>2, <2>5
  <2>7. n[j] = x /\ j \in DOMAIN n
    BY <1>0, <2>2, <2>6
  <2> QED BY <2>7 DEF Has
<1> QED BY <1>2, <1>3, <1>4 DEF NoGap

\* The same audio in the same order, with something else between.
LEMMA Spread ==
  ASSUME NEW c \in Speeches, NEW o \in Seq(Item), NEW n \in Seq(Item),
         NEW m \in 0..Len(o), NEW g \in Nat, Len(n) = Len(o) + g,
         \A i \in 1..m : n[i] = o[i],
         \A i \in m + 1..m + g : ~IsAudio(n[i]),
         \A i \in m + 1..Len(o) : n[i + g] = o[i],
         InOrder(o, c), Pure(o, c)
  PROVE  /\ InOrder(n, c) /\ Pure(n, c)
         /\ \A x : IsAudio(x) => (Has(n, x) <=> Has(o, x))
<1>0. Len(o) \in Nat /\ Len(n) \in Nat /\ DOMAIN o = 1..Len(o) /\ DOMAIN n = 1..Len(n)
  BY LenProperties
<1> DEFINE At(i) == IF i <= m THEN i ELSE i - g
<1>1. \A i \in DOMAIN n : IsAudio(n[i]) => At(i) \in DOMAIN o /\ n[i] = o[At(i)]
  <2>1. SUFFICES ASSUME NEW i \in DOMAIN n, IsAudio(n[i]) PROVE At(i) \in DOMAIN o /\ n[i] = o[At(i)]
    OBVIOUS
  <2>2. CASE i <= m
    BY <1>0, <2>1, <2>2
  <2>3. CASE i > m
    <3>1. i > m + g
      BY <1>0, <2>1, <2>3
    <3>2. i - g \in m + 1..Len(o) /\ (i - g) + g = i
      BY <1>0, <2>1, <3>1
    <3>3. n[(i - g) + g] = o[i - g]
      BY <3>2
    <3> QED BY <1>0, <2>1, <2>3, <3>2, <3>3
  <2> QED BY <1>0, <2>1, <2>2, <2>3
<1>2. \A i, j \in DOMAIN n : i < j /\ IsAudio(n[i]) /\ IsAudio(n[j]) => At(i) < At(j)
  <2>1. ASSUME NEW i \in DOMAIN n, IsAudio(n[i]) PROVE i <= m \/ i > m + g
    <3>1. i \notin m + 1..m + g
      BY <2>1
    <3> QED BY <1>0, <3>1
  <2> QED BY <1>0, <2>1
<1> HIDE DEF At
<1>3. InOrder(n, c)
  <2>1. SUFFICES ASSUME NEW i \in DOMAIN n, NEW j \in DOMAIN n, i < j, IsOwn(n[i], c), IsOwn(n[j], c)
                 PROVE  Precedes(n[i], n[j])
    BY DEF InOrder
  <2>2. IsAudio(n[i]) /\ IsAudio(n[j])
    BY <2>1 DEF IsOwn
  <2>3. At(i) \in DOMAIN o /\ At(j) \in DOMAIN o /\ n[i] = o[At(i)] /\ n[j] = o[At(j)] /\ At(i) < At(j)
    BY <1>1, <1>2, <2>1, <2>2
  <2> QED BY <2>1, <2>3 DEF InOrder
<1>4. Pure(n, c)
  BY <1>1 DEF Pure
<1>5. ASSUME NEW x, IsAudio(x) PROVE Has(n, x) <=> Has(o, x)
  <2>1. Has(n, x) => Has(o, x)
    BY <1>1, <1>5 DEF Has
  <2>2. ASSUME NEW i \in DOMAIN o, o[i] = x PROVE Has(n, x)
    <3>1. CASE i <= m
      <4>1. i \in DOMAIN n /\ n[i] = x
        BY <1>0, <2>2, <3>1
      <4> QED BY <4>1 DEF Has
    <3>2. CASE i > m
      <4>1. i + g \in DOMAIN n /\ n[i + g] = x
        BY <1>0, <2>2, <3>2
      <4> QED BY <4>1 DEF Has
    <3> QED BY <1>0, <3>1, <3>2
  <2> QED BY <2>1, <2>2 DEF Has
<1> QED BY <1>3, <1>4, <1>5

\* Audio is told, and what follows it, and the rest is kept.
LEMMA SpreadTold ==
  ASSUME NEW c \in Speeches, NEW s \in Seq(Item), NEW t \in Seq(Item), NEW e \in Seq(Item),
         NEW k \in 0..Len(t), \A i \in 1..Len(e) : ~IsAudio(e[i]),
         InOrder(s \o t, c), Pure(s \o t, c)
  PROVE  LET n == (s \o (Passed(t, k) \o e)) \o Held(t, k)
         IN /\ n \in Seq(Item) /\ InOrder(n, c) /\ Pure(n, c)
            /\ \A x : IsAudio(x) => (Has(n, x) <=> Has(s \o t, x))
<1> DEFINE u == s \o (Passed(t, k) \o e)
           v == Held(t, k)
<1>2. Moved(u, v, s, t, e, k) /\ u \in Seq(Item) /\ v \in Seq(Item)
  BY Moving
<1> HIDE DEF u, v
<1>3. /\ Len(u) = Len(s) + k + Len(e) /\ Len(v) = Len(t) - k
      /\ \A i \in 1..Len(s) : u[i] = s[i]
      /\ \A i \in 1..k : u[Len(s) + i] = t[i]
      /\ \A i \in 1..Len(e) : u[Len(s) + k + i] = e[i]
      /\ \A i \in 1..Len(t) - k : v[i] = t[k + i]
  BY <1>2 DEF Moved
<1>4. PICK o \in Seq(Item) : o = s \o t
  BY Joining
<1>s. u \in Seq(Item) /\ v \in Seq(Item)
  BY <1>2
<1>5. PICK n \in Seq(Item) : n = u \o v
  BY <1>s, Joining
<1>6. /\ Len(o) = Len(s) + Len(t)
      /\ \A i \in 1..Len(s) : o[i] = s[i]
      /\ \A i \in 1..Len(t) : o[Len(s) + i] = t[i]
  BY <1>4, Joining
<1>7. /\ Len(n) = Len(u) + Len(v)
      /\ \A i \in 1..Len(u) : n[i] = u[i]
      /\ \A i \in 1..Len(v) : n[Len(u) + i] = v[i]
  BY <1>s, <1>5, Joining
<1>8. Len(s) \in Nat /\ Len(t) \in Nat /\ Len(e) \in Nat
  BY LenProperties
<1> DEFINE m == Len(s) + k
           g == Len(e)
<1>9. m \in 0..Len(o) /\ g \in Nat /\ Len(n) = Len(o) + g
  BY <1>3, <1>6, <1>7, <1>8
<1>10. ASSUME NEW i \in 1..m PROVE n[i] = o[i]
  <2>1. CASE i <= Len(s)
    <3>1. i \in 1..Len(s) /\ i \in 1..Len(u)
      BY <1>3, <1>8, <2>1
    <3>2. n[i] = u[i] /\ u[i] = s[i] /\ o[i] = s[i]
      BY <1>3, <1>6, <1>7, <3>1
    <3> QED BY <3>2
  <2>2. CASE i > Len(s)
    <3>1. i - Len(s) \in 1..k /\ i - Len(s) \in 1..Len(t) /\ Len(s) + (i - Len(s)) = i
          /\ i \in 1..Len(u)
      BY <1>3, <1>8, <2>2
    <3>2. u[Len(s) + (i - Len(s))] = t[i - Len(s)] /\ o[Len(s) + (i - Len(s))] = t[i - Len(s)]
      BY <1>3, <1>6, <3>1
    <3> QED BY <1>7, <3>1, <3>2
  <2> QED BY <1>8, <2>1, <2>2
<1>11. ASSUME NEW i \in m + 1..m + g PROVE ~IsAudio(n[i])
  <2>1. i - m \in 1..Len(e) /\ Len(s) + k + (i - m) = i /\ i \in 1..Len(u)
    BY <1>3, <1>8
  <2>2. u[Len(s) + k + (i - m)] = e[i - m]
    BY <1>3, <2>1
  <2> QED BY <1>7, <2>1, <2>2
<1>12. ASSUME NEW i \in m + 1..Len(o) PROVE n[i + g] = o[i]
  <2>1. i - m \in 1..Len(v) /\ Len(u) + (i - m) = i + g /\ i - Len(s) \in 1..Len(t)
        /\ Len(s) + (i - Len(s)) = i /\ k + (i - m) = i - Len(s)
    BY <1>3, <1>6, <1>8
  <2>2. n[Len(u) + (i - m)] = v[i - m] /\ v[i - m] = t[k + (i - m)]
        /\ o[Len(s) + (i - Len(s))] = t[i - Len(s)]
    BY <1>3, <1>6, <1>7, <2>1
  <2> QED BY <2>1, <2>2
<1>13. InOrder(o, c) /\ Pure(o, c)
  BY <1>4
<1> HIDE DEF m, g
<1>14. /\ InOrder(n, c) /\ Pure(n, c)
       /\ \A x : IsAudio(x) => (Has(n, x) <=> Has(o, x))
  BY <1>9, <1>10, <1>11, <1>12, <1>13, Spread
<1> QED BY <1>4, <1>5, <1>14 DEF u, v

\* Audio comes to what is kept.
LEMMA Coming ==
  ASSUME NEW c \in Speeches, NEW s \in Seq(Item), NEW t \in Seq(Item), NEW x \in Item,
         InOrder(s \o t, c), Pure(s \o t, c),
         x \in Script(c) \/ (c \in crossed /\ x[2] \in Preloads \cap crossed),
         \A y \in Script(c) : Has(s \o t, y) /\ x \in Script(c) => Precedes(y, x)
  PROVE  LET n == s \o Append(t, x)
         IN /\ n \in Seq(Item) /\ InOrder(n, c) /\ Pure(n, c)
            /\ \A y : Has(n, y) <=> Has(s \o t, y) \/ y = x
<1>1. PICK o \in Seq(Item) : o = s \o t
  BY Joining
<1>2. PICK w \in Seq(Item) : w = Append(t, x)
  BY AppendProperties
<1>3. PICK n \in Seq(Item) : n = s \o w
  BY Joining
<1>4. /\ Len(o) = Len(s) + Len(t)
      /\ \A i \in 1..Len(s) : o[i] = s[i]
      /\ \A i \in 1..Len(t) : o[Len(s) + i] = t[i]
  BY <1>1, Joining
<1>5. /\ Len(n) = Len(s) + Len(w)
      /\ \A i \in 1..Len(s) : n[i] = s[i]
      /\ \A i \in 1..Len(w) : n[Len(s) + i] = w[i]
  BY <1>3, Joining
<1>6. Len(w) = Len(t) + 1 /\ w[Len(t) + 1] = x /\ \A i \in 1..Len(t) : w[i] = t[i]
  BY <1>2, AppendProperties
<1>7. Len(s) \in Nat /\ Len(t) \in Nat /\ DOMAIN o = 1..Len(o) /\ DOMAIN n = 1..Len(n)
  BY LenProperties
<1>8. Len(n) = Len(o) + 1 /\ n[Len(o) + 1] = x
  <2>1. n[Len(s) + (Len(t) + 1)] = x
    BY <1>5, <1>6, <1>7
  <2> QED BY <1>4, <1>5, <1>6, <1>7, <2>1
<1>9. ASSUME NEW i \in 1..Len(o) PROVE n[i] = o[i]
  <2>1. CASE i <= Len(s)
    BY <1>4, <1>5, <1>7, <2>1
  <2>2. CASE i > Len(s)
    <3>1. i - Len(s) \in 1..Len(t) /\ i - Len(s) \in 1..Len(w) /\ Len(s) + (i - Len(s)) = i
      BY <1>4, <1>6, <1>7, <2>2
    <3>2. n[Len(s) + (i - Len(s))] = w[i - Len(s)] /\ o[Len(s) + (i - Len(s))] = t[i - Len(s)]
      BY <1>4, <1>5, <3>1
    <3> QED BY <1>6, <3>1, <3>2
  <2> QED BY <1>4, <1>7, <2>1, <2>2
<1>10. ASSUME NEW i \in DOMAIN n
       PROVE  (i \in DOMAIN o /\ n[i] = o[i]) \/ (i = Len(o) + 1 /\ n[i] = x)
  <2>1. i \in 1..Len(o) \/ i = Len(o) + 1
    BY <1>4, <1>7, <1>8
  <2>2. CASE i \in 1..Len(o)
    BY <1>7, <1>9, <2>2
  <2>3. CASE i = Len(o) + 1
    BY <1>8, <2>3
  <2> QED BY <2>1, <2>2, <2>3
<1>11. \A y : Has(n, y) <=> Has(o, y) \/ y = x
  <2>1. \A i \in DOMAIN o : i \in DOMAIN n /\ n[i] = o[i]
    BY <1>4, <1>7, <1>8, <1>9
  <2>2. Len(o) + 1 \in DOMAIN n
    BY <1>4, <1>7, <1>8
  <2> QED BY <1>8, <1>10, <2>1, <2>2 DEF Has
<1>12. Pure(n, c)
  BY <1>1, <1>10 DEF Pure
<1>13. InOrder(n, c)
  <2>1. SUFFICES ASSUME NEW i \in DOMAIN n, NEW j \in DOMAIN n, i < j, IsOwn(n[i], c), IsOwn(n[j], c)
                 PROVE  Precedes(n[i], n[j])
    BY DEF InOrder
  <2>2. i \in DOMAIN o /\ n[i] = o[i]
    BY <1>4, <1>7, <1>8, <1>10, <2>1
  <2>3. CASE j \in DOMAIN o /\ n[j] = o[j]
    BY <1>1, <2>1, <2>2, <2>3 DEF InOrder
  <2>4. CASE n[j] = x
    <3>1. n[i] \in Script(c) /\ x \in Script(c)
      BY <1>12, <2>1, <2>4, OwnIsScript
    <3>2. Has(o, n[i])
      BY <2>2 DEF Has
    <3> QED BY <1>1, <2>4, <3>1, <3>2
  <2> QED BY <1>10, <2>3, <2>4
<1> QED BY <1>1, <1>2, <1>3, <1>11, <1>12, <1>13

-----------------------------------------------------------------------------
(* What a speech was told, and what the page keeps for it                    *)

Stream(c) == IF page.current = c THEN told[c] \o page.kept ELSE told[c]

\* The text of the speech with the token up to where the engine is.
Reached(c, x) ==
  \/ x[3] < segment[c]
  \/ /\ x[3] = segment[c] /\ at[c] = "wait" /\ page.chunked
     /\ engine.task.call = c => x[4] <= engine.task.given

\* It is in order and no audio but its own and that of preloads that crossed it, no further
\* than the engine is; if nothing crossed it, all of it, and without a gap when it was cut.
StreamOK(c) ==
  /\ InOrder(Stream(c), c) /\ Pure(Stream(c), c)
  /\ page.current = c => \A x \in Script(c) :
       /\ Has(Stream(c), x) => Reached(c, x)
       /\ Clean(c) /\ Reached(c, x) => Has(Stream(c), x)
  /\ Clean(c) => NoGap(Stream(c), c)
Streams == \A c \in Speeches : StreamOK(c)

LEMMA PureGrows ==
  ASSUME NEW c, NEW n, Pure(n, c), crossed \subseteq crossed'
  PROVE  Pure(n, c)'
BY DEF Pure

LEMMA StreamIs ==
  ASSUME PageTypeOK, NEW c \in Speeches
  PROVE  Stream(c) \in Seq(Item) /\ told[c] \in Seq(Item) /\ page.kept \in Seq(Item)
<1>1. told[c] \in Seq(Item) /\ page.kept \in Seq(Item)
  BY TypesAre DEF RestOK, PageOK, Pages
<1>2. told[c] \o page.kept \in Seq(Item)
  BY <1>1, Joining
<1> QED BY <1>1, <1>2 DEF Stream

\* Without the token a speech keeps what it was told.
LEMMA StreamEnds ==
  ASSUME PageTypeOK, PageTypeOK', Streams, crossed \subseteq crossed',
         NEW c \in Speeches, page'.current # c,
         NEW o \in Seq(Item), o = Stream(c), NEW n \in Seq(Item), n = told'[c],
         NEW m \in 0..Len(o), m <= Len(n), \A i \in 1..m : n[i] = o[i],
         \A i \in m + 1..Len(n) : ~IsAudio(n[i])
  PROVE  StreamOK(c)'
<1>1. InOrder(o, c) /\ Pure(o, c) /\ (Clean(c) => NoGap(o, c))
  BY DEF Streams, StreamOK
<1>2. InOrder(n, c) /\ Pure(n, c) /\ (NoGap(o, c) => NoGap(n, c))
  BY <1>1, Cut
<1>3. Pure(n, c)'
  BY <1>2, PureGrows
<1>4. Stream(c)' = n
  BY DEF Stream
<1>5. Clean(c)' => Clean(c)
  BY DEF Clean
<1>6. InOrder(Stream(c), c)' /\ (Clean(c)' => NoGap(Stream(c), c)')
  BY <1>1, <1>2, <1>4, <1>5 DEF InOrder, NoGap, Has
<1>7. Pure(Stream(c), c)'
  BY <1>3, <1>4 DEF Pure
<1> QED BY <1>6, <1>7 DEF StreamOK

\* What is not reached is not followed by what is.
LEMMA ReachedInOrder ==
  ASSUME PageTypeOK', NEW c \in Speeches, NEW x \in Script(c), NEW y \in Script(c),
         Precedes(x, y), Reached(c, y)'
  PROVE  Reached(c, x)'
<1>1. segment'[c] \in Nat /\ engine'.task.given \in Nat
  BY TypesAre DEF PageTypeOK, TaskOK
<1>2. x[3] \in Int /\ x[4] \in Int /\ y[3] \in Int /\ y[4] \in Int
  BY ScriptIs
<1> QED BY <1>1, <1>2 DEF Precedes, Reached

LEMMA StreamGoesOn ==
  ASSUME PageTypeOK', NEW c \in Speeches, page'.current = c,
         NEW n \in Seq(Item), n = Stream(c)', InOrder(n, c), Pure(n, c), crossed \subseteq crossed',
         \A x \in Script(c) :
           /\ Has(n, x) => Reached(c, x)'
           /\ Clean(c)' /\ Reached(c, x)' => Has(n, x)
  PROVE  StreamOK(c)'
<1>1. Pure(n, c)'
  BY PureGrows
<1>2. ASSUME Clean(c)' PROVE NoGap(n, c)
  <2>1. SUFFICES ASSUME NEW i \in DOMAIN n, IsOwn(n[i], c), NEW x \in Script(c), Precedes(x, n[i])
                 PROVE  Has(n, x)
    BY DEF NoGap
  <2>2. n[i] \in Script(c)
    BY <2>1, OwnIsScript
  <2>3. Has(n, n[i])
    BY DEF Has
  <2>4. Reached(c, n[i])'
    BY <2>2, <2>3
  <2>5. Reached(c, x)'
    BY <2>1, <2>2, <2>4, ReachedInOrder
  <2> QED BY <1>2, <2>5
<1>3. /\ InOrder(Stream(c), c)' /\ (Clean(c)' => NoGap(Stream(c), c)')
      /\ \A x : Has(Stream(c), x)' <=> Has(n, x)
  BY <1>2 DEF InOrder, NoGap, Has
<1>4. Pure(Stream(c), c)'
  BY <1>1 DEF Pure
<1>5. \A x \in Script(c) :
        /\ Has(Stream(c), x)' => Reached(c, x)'
        /\ Clean(c)' /\ Reached(c, x)' => Has(Stream(c), x)'
  BY <1>3
<1> QED BY <1>3, <1>4, <1>5 DEF StreamOK

LEMMA StreamBegins ==
  ASSUME PageTypeOK, PageTypeOK', Floor, crossed \subseteq crossed', NEW c \in Speeches, Begins(c)
  PROVE  StreamOK(c)'
<1>1. /\ told'[c] = <<>> /\ page'.current = c /\ page'.kept = <<>> /\ ~page'.chunked
      /\ segment'[c] = 1
  BY TypesAre DEF Begins, Floor, RestOK
<1>2. <<>> \in Seq(Item) /\ <<>> \o <<>> = <<>> /\ DOMAIN (<<>>) = {}
  BY EmptySeq, ConcatEmptySeq
<1>3. PICK n \in Seq(Item) : n = <<>> /\ DOMAIN n = {}
  BY <1>2
<1>4. n = Stream(c)'
  BY <1>1, <1>2, <1>3 DEF Stream
<1>5. InOrder(n, c) /\ Pure(n, c) /\ \A x : ~Has(n, x)
  BY <1>3 DEF InOrder, Pure, Has
<1>6. ASSUME NEW x \in Script(c) PROVE ~Reached(c, x)'
  <2>1. x[3] \in Nat \ {0}
    BY ScriptIs
  <2> QED BY <1>1, <2>1 DEF Reached
<1> QED BY <1>1, <1>4, <1>5, <1>6, StreamGoesOn

LEMMA MarkIsNoAudio == \A i \in 1..Len(Mark) : ~IsAudio(Mark[i])
BY DEF Mark, IsAudio
LEMMA DoneIsNoAudio == \A i \in 1..Len(Done) : ~IsAudio(Done[i])
BY DEF Done, IsAudio
LEMMA ErrorIsNoAudio == \A i \in 1..Len(Error) : ~IsAudio(Error[i])
BY DEF Error, IsAudio

LEMMA StreamTurns ==
  ASSUME PageTypeOK, PageTypeOK', Floor, Texts, Streams, crossed \subseteq crossed',
         NEW c \in Speeches, Turns(c)
  PROVE  StreamOK(c)'
<1>t. PageOK(page) /\ RestOK
  BY TypesAre
<1>1. /\ page.current = c /\ page.session = c /\ page.ended /\ at[c] = "wait" /\ ~page.muted
      /\ page'.current = c /\ ~page'.chunked /\ segment'[c] = segment[c] + 1
  BY <1>t DEF Turns, RestOK, Floor
<1>2. PICK k \in 0..Len(page.kept) :
        /\ told' = Tell(page, told, Passed(page.kept, k) \o Mark)
        /\ page'.kept = Held(page.kept, k)
  BY DEF Turns
<1>3. told[c] \in Seq(Item) /\ page.kept \in Seq(Item) /\ Mark \in Seq(Item)
  BY StreamIs, ItemsAreItems DEF Mark
<1>4. told'[c] = told[c] \o (Passed(page.kept, k) \o Mark)
  <2>1. Passed(page.kept, k) \o Mark \in Seq(Item)
    BY <1>t, <1>3, PassingOn DEF RestOK
  <2> QED BY <1>1, <1>2, <2>1, ToldIs
<1>5. Stream(c) = told[c] \o page.kept /\ InOrder(Stream(c), c) /\ Pure(Stream(c), c)
  BY <1>1 DEF Stream, Streams, StreamOK
<1> DEFINE q == (told[c] \o (Passed(page.kept, k) \o Mark)) \o Held(page.kept, k)
<1>6. /\ q \in Seq(Item) /\ InOrder(q, c) /\ Pure(q, c)
      /\ \A x : IsAudio(x) => (Has(q, x) <=> Has(told[c] \o page.kept, x))
  BY <1>3, <1>5, MarkIsNoAudio, SpreadTold
<1>7. q = Stream(c)'
  BY <1>1, <1>2, <1>4 DEF Stream
<1> HIDE DEF q
<1>8. PICK n \in Seq(Item) : n = q
  BY <1>6
<1>9. ASSUME NEW x \in Script(c)
      PROVE  /\ Has(n, x) => Reached(c, x)'
             /\ Clean(c)' /\ Reached(c, x)' => Has(n, x)
  <2>1. x[3] \in Nat /\ IsAudio(x) /\ segment[c] \in Nat
    BY <1>t, ScriptIs DEF RestOK
  <2>2. Reached(c, x)' <=> x[3] <= segment[c]
    BY <1>1, <2>1 DEF Reached
  <2>3. Has(n, x) <=> Has(Stream(c), x)
    BY <1>5, <1>6, <1>8, <2>1
  <2>4. Has(Stream(c), x) => Reached(c, x)
    BY <1>1 DEF Streams, StreamOK
  <2>5. Reached(c, x) => x[3] <= segment[c]
    BY <2>1 DEF Reached
  <2>6. ASSUME Clean(c)', x[3] <= segment[c]
        PROVE  Has(Stream(c), x)
    <3>1. Clean(c)
      BY <2>6 DEF Clean
    <3>2. engine.task = Idle /\ page.chunked
      BY <1>1, <3>1 DEF Texts, Floor
    <3>3. engine.task.call # c
      BY <3>2, CallsAreDistinct DEF Idle
    <3>4. Reached(c, x)
      BY <1>1, <2>1, <2>6, <3>2, <3>3 DEF Reached
    <3> QED BY <1>1, <3>1, <3>4 DEF Streams, StreamOK
  <2> QED BY <2>2, <2>3, <2>4, <2>5, <2>6
<1> QED BY <1>1, <1>6, <1>7, <1>8, <1>9, StreamGoesOn

\* Nothing is heard, and the engine has got no further.
LEMMA StreamSame ==
  ASSUME PageTypeOK, PageTypeOK', Streams, crossed \subseteq crossed', NEW c \in Speeches,
         page.current = c, page'.current = c, page'.kept = page.kept, told'[c] = told[c],
         \A x \in Script(c) : (Has(Stream(c), x) /\ Reached(c, x) => Reached(c, x)')
                              /\ (Clean(c)' /\ Reached(c, x)' => Reached(c, x))
  PROVE  StreamOK(c)'
<1>1. PICK n \in Seq(Item) : n = Stream(c)
  BY StreamIs
<1>2. n = Stream(c)'
  BY <1>1 DEF Stream
<1>3. /\ InOrder(n, c) /\ Pure(n, c)
      /\ \A x \in Script(c) : (Has(n, x) => Reached(c, x)) /\ (Clean(c) /\ Reached(c, x) => Has(n, x))
  BY <1>1 DEF Streams, StreamOK
<1>4. Clean(c)' => Clean(c)
  BY DEF Clean
<1> QED BY <1>1, <1>2, <1>3, <1>4, StreamGoesOn

LEMMA StreamChunk ==
  ASSUME PageTypeOK, PageTypeOK', Floor, Texts, Streams, crossed \subseteq crossed',
         NEW c \in Speeches, page.current = c, Chunk
  PROVE  StreamOK(c)'
<1>t. PageOK(page) /\ RestOK /\ c \in Calls
  BY TypesAre
<1> DEFINE text == engine.task
           x == <<"audio", text.call, text.segment, text.given + 1>>
           got == Append(page.kept, x)
<1>0. page.session = c /\ ~page.muted
  BY ItsOwnPort
<1>1. /\ text.call \in Calls /\ text.segment \in Nat \ {0} /\ text.given \in Nat
      /\ text.given < Chunks[text.call]
      /\ \/ engine'.task = Idle /\ text.given + 1 = Chunks[text.call]
         \/ engine'.task.call = text.call /\ engine'.task.given = text.given + 1
      /\ UNCHANGED <<at, segment, crossed>>
      /\ page'.current = c /\ page'.chunked
  BY ChunkComes
<1>2. PICK k \in 0..Len(page.kept) + 1 :
        page'.kept = Held(got, k) /\ told' = Tell(page, told, Passed(got, k))
  BY ChunkComes
<1>3. x \in Item /\ told[c] \in Seq(Item) /\ page.kept \in Seq(Item)
  <2>1. x \in Item
    BY <1>1, SMTT(30) DEF Item
  <2> QED BY <2>1, StreamIs
<1>4. got \in Seq(Item) /\ Len(got) = Len(page.kept) + 1
  BY <1>3, AppendProperties
<1>5. Stream(c) = told[c] \o page.kept /\ InOrder(Stream(c), c) /\ Pure(Stream(c), c)
  BY <1>0 DEF Stream, Streams, StreamOK
<1>6. \/ text.call = c /\ at[c] = "wait" /\ text.segment = segment[c]
         /\ (page.chunked \/ text.given = 0)
      \/ text.call \in Preloads \cap crossed /\ c \in crossed /\ ~Clean(c) /\ text.call # c
  BY <1>1 DEF Texts, Clean
<1>7. x \in Script(c) \/ (c \in crossed /\ x[2] \in Preloads \cap crossed)
  <2>1. CASE text.call = c
    <3>1. segment[c] \in 1..Segments[c]
      BY <1>t, <1>6, <2>1 DEF RestOK, SegmentOK
    <3>2. text.given + 1 \in 1..Chunks[c]
      BY <1>1, <2>1
    <3> QED BY <1>6, <2>1, <3>1, <3>2 DEF Script
  <2>2. CASE text.call # c
    BY <1>6, <2>2
  <2> QED BY <2>1, <2>2
<1>8. ASSUME NEW y \in Script(c), Has(Stream(c), y), x \in Script(c)
      PROVE  Precedes(y, x)
  <2>1. Reached(c, y)
    BY <1>8, <1>0 DEF Streams, StreamOK
  <2>2. text.call = c
    BY <1>8, ScriptIs
  <2>3. y[3] \in Nat /\ y[4] \in Nat
    BY ScriptIs
  <2> QED BY <1>1, <1>6, <2>1, <2>2, <2>3 DEF Reached, Precedes
<1> DEFINE mid == told[c] \o got
<1>9. /\ mid \in Seq(Item) /\ InOrder(mid, c) /\ Pure(mid, c)
      /\ \A y : Has(mid, y) <=> Has(Stream(c), y) \/ y = x
  <2>1. \A y \in Script(c) : Has(told[c] \o page.kept, y) /\ x \in Script(c) => Precedes(y, x)
    BY <1>5, <1>8
  <2> HIDE DEF x
  <2> QED BY <1>3, <1>5, <1>7, <2>1, Coming
<1> HIDE DEF got
<1> DEFINE q == (told[c] \o (Passed(got, k) \o <<>>)) \o Held(got, k)
<1>10. /\ q \in Seq(Item) /\ InOrder(q, c) /\ Pure(q, c)
       /\ \A y : IsAudio(y) => (Has(q, y) <=> Has(mid, y))
  <2>1. <<>> \in Seq(Item) /\ \A i \in 1..Len(<<>>) : ~IsAudio(<<>>[i])
    BY EmptySeq
  <2>2. k \in 0..Len(got)
    BY <1>4
  <2> QED BY <1>3, <1>4, <1>9, <2>1, <2>2, SpreadTold
<1>11. q = Stream(c)'
  <2>1. Passed(got, k) \in Seq(Item)
    <3>1. Len(got) \in Nat /\ k \in 0..Len(got) /\ \A i \in 1..k : got[i] \in Item
      BY <1>4, LenProperties, ElementOfSeq
    <3> QED BY <3>1, SubSeqProperties DEF Passed
  <2>2. Passed(got, k) \o <<>> = Passed(got, k)
    BY <2>1, ConcatEmptySeq
  <2>3. told'[c] = told[c] \o Passed(got, k)
    BY <1>t, <1>0, <1>2, <2>1, ToldIs
  <2> QED BY <1>1, <1>2, <2>2, <2>3 DEF Stream
<1> HIDE DEF q, mid
<1>12. PICK n \in Seq(Item) : n = q
  BY <1>10
<1>13. ASSUME NEW y \in Script(c)
       PROVE  /\ Has(n, y) => Reached(c, y)'
              /\ Clean(c)' /\ Reached(c, y)' => Has(n, y)
  <2>1. /\ y[3] \in Nat /\ y[4] \in 1..Chunks[c] /\ IsAudio(y) /\ y = <<"audio", c, y[3], y[4]>>
        /\ segment[c] \in Nat
    BY <1>t, ScriptIs DEF RestOK
  <2>2. Has(n, y) <=> Has(Stream(c), y) \/ y = x
    BY <1>9, <1>10, <1>12, <2>1
  <2>3. /\ Has(Stream(c), y) => Reached(c, y)
        /\ Clean(c) /\ Reached(c, y) => Has(Stream(c), y)
    BY <1>0 DEF Streams, StreamOK
  <2>4. Clean(c)' <=> Clean(c)
    BY <1>1 DEF Clean
  <2>5. Idle.call # c
    BY <1>t DEF Idle
  <2>6. CASE text.call = c
    <3>1. at[c] = "wait" /\ text.segment = segment[c] /\ (page.chunked \/ text.given = 0)
      BY <1>6, <2>6
    <3>2. y = x <=> y[3] = segment[c] /\ y[4] = text.given + 1
      BY <2>1, <2>6, <3>1
    <3>3. Reached(c, y) <=> y[3] < segment[c] \/ (y[3] = segment[c] /\ page.chunked /\ y[4] <= text.given)
      BY <2>6, <3>1 DEF Reached
    <3>4. Reached(c, y)' <=> y[3] < segment[c] \/ (y[3] = segment[c] /\ y[4] <= text.given + 1)
      BY <1>1, <2>1, <2>5, <2>6, <3>1, SMTT(30) DEF Reached
    <3>5. Reached(c, y)' <=> Reached(c, y) \/ y = x
      <4>1. PICK g \in Nat, h \in Nat : g = text.given /\ h = y[4] /\ h # 0
        BY <1>1, <2>1, SMTT(30)
      <4>2. \A a, b \in Nat : /\ b <= a + 1 <=> b <= a \/ b = a + 1
                            /\ a = 0 /\ b # 0 => (b <= a + 1 <=> b = a + 1)
        OBVIOUS
      <4>3. /\ h <= g + 1 <=> h <= g \/ h = g + 1
            /\ g = 0 => (h <= g + 1 <=> h = g + 1)
        BY <4>1, <4>2
      <4>4. (Reached(c, y) <=> y[3] < segment[c] \/ (y[3] = segment[c] /\ page.chunked /\ h <= g))
            /\ (Reached(c, y)' <=> y[3] < segment[c] \/ (y[3] = segment[c] /\ h <= g + 1))
            /\ (y = x <=> y[3] = segment[c] /\ h = g + 1)
            /\ (page.chunked \/ g = 0)
        BY <3>1, <3>2, <3>3, <3>4, <4>1
      <4> QED BY <4>2, <4>3, <4>4
    <3> QED BY <2>2, <2>3, <2>4, <3>5
  <2>7. CASE text.call # c
    <3>1. ~Clean(c) /\ y # x
      BY <1>6, <2>1, <2>7
    <3>2. Reached(c, y) => Reached(c, y)'
      BY <1>1, <2>5, <2>7 DEF Reached
    <3> QED BY <2>2, <2>3, <2>4, <3>1, <3>2
  <2> QED BY <2>6, <2>7
<1> QED BY <1>1, <1>10, <1>11, <1>12, <1>13, StreamGoesOn

\* The part m of o that is left in n, after which there is no audio.
Leaves(o, n, m) ==
  /\ m \in 0..Len(o) /\ m <= Len(n)
  /\ \A i \in 1..m : n[i] = o[i]
  /\ \A i \in m + 1..Len(n) : ~IsAudio(n[i])

LEMMA Dropped ==
  ASSUME NEW s \in Seq(Item), NEW t \in Seq(Item), NEW e \in Seq(Item),
         \A i \in 1..Len(e) : ~IsAudio(e[i])
  PROVE  /\ Leaves(s, s \o e, Len(s)) /\ Leaves(s \o t, s \o e, Len(s))
         /\ s \o e \in Seq(Item)
<1>1. PICK n \in Seq(Item) : n = s \o e
  BY Joining
<1>2. PICK o \in Seq(Item) : o = s \o t
  BY Joining
<1>3. /\ Len(n) = Len(s) + Len(e)
      /\ \A i \in 1..Len(s) : n[i] = s[i]
      /\ \A i \in 1..Len(e) : n[Len(s) + i] = e[i]
  BY <1>1, Joining
<1>4. Len(o) = Len(s) + Len(t) /\ \A i \in 1..Len(s) : o[i] = s[i]
  BY <1>2, Joining
<1>5. Len(s) \in Nat /\ Len(e) \in Nat /\ Len(t) \in Nat
  BY LenProperties
<1>6. ASSUME NEW i \in Len(s) + 1..Len(n) PROVE ~IsAudio(n[i])
  <2>1. i - Len(s) \in 1..Len(e) /\ Len(s) + (i - Len(s)) = i
    BY <1>3, <1>5
  <2>2. n[Len(s) + (i - Len(s))] = e[i - Len(s)]
    BY <1>3, <2>1
  <2> QED BY <2>1, <2>2
<1>7. Leaves(s, n, Len(s))
  BY <1>3, <1>5, <1>6 DEF Leaves
<1>8. Leaves(o, n, Len(s))
  BY <1>3, <1>4, <1>5, <1>6 DEF Leaves
<1> QED BY <1>1, <1>2, <1>7, <1>8

LEMMA Flushed ==
  ASSUME NEW s \in Seq(Item), NEW t \in Seq(Item), NEW e \in Seq(Item),
         \A i \in 1..Len(e) : ~IsAudio(e[i])
  PROVE  /\ Leaves(s \o t, s \o (t \o e), Len(s \o t)) /\ s \o (t \o e) \in Seq(Item)
<1>1. PICK n \in Seq(Item) : n = s \o (t \o e)
  BY JoiningThree
<1>2. PICK o \in Seq(Item) : o = s \o t
  BY Joining
<1>3. /\ Len(n) = Len(s) + Len(t) + Len(e)
      /\ \A i \in 1..Len(s) : n[i] = s[i]
      /\ \A i \in 1..Len(t) : n[Len(s) + i] = t[i]
      /\ \A i \in 1..Len(e) : n[Len(s) + Len(t) + i] = e[i]
  BY <1>1, JoiningThree
<1>4. /\ Len(o) = Len(s) + Len(t)
      /\ \A i \in 1..Len(s) : o[i] = s[i]
      /\ \A i \in 1..Len(t) : o[Len(s) + i] = t[i]
  BY <1>2, Joining
<1>5. Len(s) \in Nat /\ Len(e) \in Nat /\ Len(t) \in Nat
  BY LenProperties
<1>6. ASSUME NEW i \in Len(o) + 1..Len(n) PROVE ~IsAudio(n[i])
  <2>1. i - Len(o) \in 1..Len(e) /\ Len(s) + Len(t) + (i - Len(o)) = i
    BY <1>3, <1>4, <1>5
  <2>2. n[Len(s) + Len(t) + (i - Len(o))] = e[i - Len(o)]
    BY <1>3, <2>1
  <2> QED BY <2>1, <2>2
<1>7. ASSUME NEW i \in 1..Len(o) PROVE n[i] = o[i]
  <2>1. CASE i <= Len(s)
    BY <1>3, <1>4, <1>5, <2>1
  <2>2. CASE i > Len(s)
    <3>1. i - Len(s) \in 1..Len(t) /\ Len(s) + (i - Len(s)) = i
      BY <1>4, <1>5, <2>2
    <3>2. n[Len(s) + (i - Len(s))] = t[i - Len(s)] /\ o[Len(s) + (i - Len(s))] = t[i - Len(s)]
      BY <1>3, <1>4, <3>1
    <3> QED BY <3>1, <3>2
  <2> QED BY <1>4, <1>5, <2>1, <2>2
<1>8. Leaves(o, n, Len(o))
  BY <1>3, <1>4, <1>5, <1>6, <1>7 DEF Leaves
<1> QED BY <1>1, <1>2, <1>8

\* A speech that loses the token, or has none, is told no more audio unless it is flushed.
LEMMA StreamStops ==
  ASSUME PageTypeOK, PageTypeOK', Streams, crossed \subseteq crossed',
         NEW c \in Speeches, page'.current # c,
         \/ told'[c] \in {told[c], told[c] \o Error}
         \/ page.current = c /\ told'[c] = told[c] \o (page.kept \o Done)
  PROVE  StreamOK(c)'
<1>1. PICK s \in Seq(Item) : s = told[c]
  BY StreamIs
<1>2. PICK t \in Seq(Item) : t = page.kept
  BY StreamIs
<1>3. <<>> \in Seq(Item) /\ Error \in Seq(Item) /\ Done \in Seq(Item)
      /\ (\A i \in 1..Len(<<>>) : ~IsAudio(<<>>[i])) /\ s \o <<>> = s
  BY ItemsAreItems, EmptySeq, ConcatEmptySeq DEF Error, Done
<1>4. Stream(c) = IF page.current = c THEN s \o t ELSE s
  BY <1>1, <1>2 DEF Stream
<1>5. PICK o \in Seq(Item) : o = Stream(c)
  BY StreamIs
<1>6. \E n \in Seq(Item), m \in Nat : n = told'[c] /\ Leaves(o, n, m)
  <2>1. Len(s) \in Nat /\ Len(o) \in Nat
    BY LenProperties
  <2>2. CASE told'[c] = told[c]
    <3>1. Leaves(s, s \o <<>>, Len(s)) /\ Leaves(s \o t, s \o <<>>, Len(s)) /\ s \o <<>> \in Seq(Item)
      BY <1>3, Dropped
    <3>2. told'[c] = s \o <<>>
      BY <1>1, <1>3, <2>2
    <3>3. Leaves(o, told'[c], Len(s)) /\ told'[c] \in Seq(Item)
      BY <1>4, <1>5, <3>1, <3>2
    <3> QED BY <2>1, <3>3
  <2>3. CASE told'[c] = told[c] \o Error
    <3>1. Leaves(s, s \o Error, Len(s)) /\ Leaves(s \o t, s \o Error, Len(s)) /\ s \o Error \in Seq(Item)
      BY <1>3, Dropped, ErrorIsNoAudio
    <3>2. told'[c] = s \o Error
      BY <1>1, <1>3, <2>3
    <3>3. Leaves(o, told'[c], Len(s)) /\ told'[c] \in Seq(Item)
      BY <1>4, <1>5, <3>1, <3>2
    <3> QED BY <2>1, <3>3
  <2>4. CASE page.current = c /\ told'[c] = told[c] \o (page.kept \o Done)
    <3>1. Leaves(s \o t, s \o (t \o Done), Len(s \o t)) /\ s \o (t \o Done) \in Seq(Item)
      BY <1>3, Flushed, DoneIsNoAudio
    <3>2. told'[c] = s \o (t \o Done) /\ o = s \o t
      BY <1>1, <1>2, <1>4, <1>5, <2>4
    <3> QED BY <2>1, <3>1, <3>2
  <2> QED BY <2>2, <2>3, <2>4
<1>7. PICK n \in Seq(Item), m \in Nat : n = told'[c] /\ Leaves(o, n, m)
  BY <1>6
<1>8. /\ m \in 0..Len(o) /\ m <= Len(n)
      /\ \A i \in 1..m : n[i] = o[i]
      /\ \A i \in m + 1..Len(n) : ~IsAudio(n[i])
  BY <1>7 DEF Leaves
<1> QED BY <1>5, <1>7, <1>8, StreamEnds

\* What a step tells a call that does not have the token before or after it.
LEMMA Others ==
  ASSUME PageTypeOK, PageTypeOK', Floor, Acts, NEW c \in Calls,
         page.current # c \/ page'.current # c
  PROVE  \/ told'[c] \in {told[c], told[c] \o Error}
         \/ page.current = c /\ told'[c] = told[c] \o (page.kept \o Done)
<1>t. PageOK(page) /\ RestOK /\ c \in Calls
  BY TypesAre
<1>k. page.kept \in Seq(Item) /\ Error \in Seq(Item) /\ Mark \in Seq(Item) /\ Done \in Seq(Item)
      /\ page.kept \o Done \in Seq(Item)
  <2>1. page.kept \in Seq(Item) /\ Error \in Seq(Item) /\ Mark \in Seq(Item) /\ Done \in Seq(Item)
    BY <1>t, ItemsAreItems DEF PageOK, Pages, Error, Mark, Done
  <2> QED BY <2>1, Joining
<1>1. CASE Halts
  BY <1>t, <1>k, <1>1, ToldIs DEF Halts
<1>2. ASSUME NEW d \in Speeches, SpeechGoesOn(d)
      PROVE  \/ told'[c] \in {told[c], told[c] \o Error}
             \/ page.current = c /\ told'[c] = told[c] \o (page.kept \o Done)
  <2>1. CASE Begins(d) \/ Awaits(d) \/ Loads(d) \/ Reports(d)
    BY <2>1 DEF Begins, Awaits, Loads, Reports
  <2>2. CASE Turns(d)
    <3>1. PICK k \in 0..Len(page.kept) : told' = Tell(page, told, Passed(page.kept, k) \o Mark)
      BY <2>2 DEF Turns
    <3>2. Passed(page.kept, k) \o Mark \in Seq(Item)
      BY <1>t, <1>k, PassingOn DEF RestOK
    <3>3. page.session # c
      BY <2>2 DEF Turns
    <3> QED BY <1>t, <3>1, <3>2, <3>3, ToldIs
  <2>3. CASE Finishes(d)
    BY <1>t, <1>k, <2>3, ToldIs DEF Finishes
  <2> QED BY <1>2, <2>1, <2>2, <2>3 DEF SpeechGoesOn
<1>3. ASSUME NEW d \in Preloads, Takeover(d) \/ GoesOnSilently(d)
      PROVE  told'[c] = told[c]
  BY <1>3 DEF Takeover, GoesOnSilently
<1>4. CASE Prepare \/ EndOfText
  BY <1>4 DEF Prepare, EndOfText
<1>5. CASE Chunk
  <2>1. CASE UNCHANGED <<page, told>>
    BY <2>1
  <2>2. ASSUME Takes, NEW got, NEW k \in 0..Len(got),
               got = Append(page.kept, <<"audio", engine.task.call, engine.task.segment, engine.task.given + 1>>),
               told' = Tell(page, told, Passed(got, k)),
               page' = [page EXCEPT !.chunked = TRUE, !.kept = Held(got, k)]
        PROVE  told'[c] = told[c]
    <3>1. page'.current = page.current
      BY <1>t, <2>2 DEF PageOK, Pages
    <3>2. page.session # c
      BY <1>t, <2>2, <3>1 DEF Takes, PageOK, Pages
    <3> QED BY <1>t, <2>2, <3>2 DEF Tell, RestOK
  <2> QED BY <1>5, <2>1, <2>2 DEF Chunk
<1> QED BY <1>1, <1>2, <1>3, <1>4, <1>5 DEF Acts

LEMMA StreamsStep ==
  ASSUME PageTypeOK, PageTypeOK', Crossings, Floor, Floor', Texts, Streams,
         crossed \subseteq crossed', Acts
  PROVE  Streams'
<1>t. PageOK(page) /\ RestOK
  BY TypesAre
<1> SUFFICES ASSUME NEW c \in Speeches
             PROVE  StreamOK(c)'
  BY DEF Streams
<1>1. CASE page'.current # c
  BY <1>1, Others, StreamStops
<1>2. CASE page'.current = c
  <2>0. c \in Calls /\ Nobody \notin Speeches /\ c \notin Preloads
    OBVIOUS
  <2>1. ASSUME NEW d \in Speeches, SpeechGoesOn(d)
        PROVE  StreamOK(c)'
    <3>1. CASE Begins(d)
      <4>1. d = c
        BY <1>2, <3>1 DEF Begins
      <4> QED BY <3>1, <4>1, StreamBegins
    <3>2. CASE Turns(d)
      <4>1. d = c
        BY <1>2, <3>2 DEF Turns
      <4> QED BY <3>2, <4>1, StreamTurns
    <3>3. CASE Awaits(d)
      <4>1. /\ page.current = c /\ d # c /\ UNCHANGED <<page, engine, told, segment>>
            /\ at'[c] = at[c]
        BY <1>t, <1>2, <3>3 DEF Awaits, Floor, RestOK
      <4>2. \A x \in Script(c) : Reached(c, x)' <=> Reached(c, x)
        BY <4>1 DEF Reached
      <4> QED BY <1>2, <4>1, <4>2, StreamSame
    <3>4. CASE Loads(d)
      <4>1. /\ page.current = c /\ d = c /\ UNCHANGED <<page, told, segment, crossed>>
            /\ at[c] = "load" /\ at'[c] = "wait" /\ engine'.task.call = c /\ engine'.task.given = 0
        BY <1>t, <1>2, <3>4 DEF Loads, RestOK, Text
      <4>2. Clean(c)' => ~page.chunked
        BY <4>1 DEF Texts, Clean
      <4>3. \A x \in Script(c) : (Reached(c, x) => Reached(c, x)')
                                 /\ (Clean(c)' /\ Reached(c, x)' => Reached(c, x))
        BY <4>1, <4>2 DEF Reached
      <4> QED BY <1>2, <4>1, <4>3, StreamSame
    <3>5. CASE Reports(d)
      <4>1. /\ page.current = c /\ page'.kept = page.kept /\ page'.chunked = page.chunked
            /\ UNCHANGED <<engine, told, segment, crossed>>
            /\ at'[c] = at[c] \/ (at[c] = "load" /\ at'[c] = "wait")
        BY <1>t, <1>2, <3>5 DEF Reports, RestOK, PageOK, Pages
      <4>2. Clean(c)' /\ at[c] = "load" => ~page.chunked
        BY <4>1 DEF Texts, Clean
      <4>3. \A x \in Script(c) : (Reached(c, x) => Reached(c, x)')
                                 /\ (Clean(c)' /\ Reached(c, x)' => Reached(c, x))
        BY <4>1, <4>2 DEF Reached
      <4> QED BY <1>2, <4>1, <4>3, StreamSame
    <3>6. CASE Finishes(d)
      BY <1>2, <2>0, <3>6 DEF Finishes
    <3> QED BY <2>1, <3>1, <3>2, <3>3, <3>4, <3>5, <3>6 DEF SpeechGoesOn
  <2>2. ASSUME NEW p \in Preloads, GoesOnSilently(p)
        PROVE  StreamOK(c)'
    <3>1. /\ page.current = c /\ page'.kept = page.kept /\ page'.chunked = page.chunked
          /\ UNCHANGED <<told, segment, crossed>> /\ at'[c] = at[c]
          /\ engine'.task \in {engine.task, Idle, Text(p, 1)}
      BY <1>2, <2>0, <2>2 DEF GoesOnSilently
    <3>2. p \in crossed /\ c \in crossed
      <4>1. c \in Running /\ p \in Running
        BY <2>2, <3>1, ItsOwnPort DEF GoesOnSilently, Running
      <4> QED BY <2>0, <4>1 DEF Crossings
    <3>3. ~Clean(c)'
      BY <3>1, <3>2 DEF Clean
    <3>4. Idle.call # c /\ Text(p, 1).call # c
      BY <2>0 DEF Idle, Text
    <3>5. \A x \in Script(c) : Reached(c, x) => Reached(c, x)'
      BY <3>1, <3>4 DEF Reached
    <3> QED BY <1>2, <3>1, <3>3, <3>5, StreamSame
  <2>3. ASSUME NEW p \in Preloads, Takeover(p)
        PROVE  StreamOK(c)'
    BY <1>2, <2>0, <2>3 DEF Takeover
  <2>4. CASE Prepare \/ EndOfText
    <3>1. /\ page.current = c /\ page'.kept = page.kept /\ page'.chunked = page.chunked
          /\ UNCHANGED <<told, segment, crossed, at, engine>>
      BY <1>t, <1>2, <2>4 DEF Prepare, EndOfText, PageOK, Pages
    <3>2. \A x \in Script(c) : Reached(c, x)' <=> Reached(c, x)
      BY <3>1 DEF Reached
    <3> QED BY <1>2, <3>1, <3>2, StreamSame
  <2>5. CASE Chunk
    <3>1. page.current = c
      BY <1>t, <1>2, <2>5 DEF Chunk, PageOK, Pages
    <3> QED BY <2>5, <3>1, StreamChunk
  <2>6. CASE Halts
    BY <1>2, <2>0, <2>6 DEF Halts
  <2> QED BY <2>1, <2>2, <2>3, <2>4, <2>5, <2>6 DEF Acts
<1> QED BY <1>1, <1>2

-----------------------------------------------------------------------------
(* The theorems                                                              *)

PageInv == PageTypeOK /\ Crossings /\ Floor /\ Texts /\ Streams

LEMMA PageInvInit == PageInit => PageInv
<1> SUFFICES ASSUME PageInit PROVE PageInv
  OBVIOUS
<1>1. PageTypeOK
  BY TypesInit
<1>2. /\ page.current = Nobody /\ page.session = Nobody /\ ~page.ended
      /\ silenced = {} /\ \A c \in Calls : at[c] = "new" /\ told[c] = <<>>
  BY DEF PageInit
<1>3. Crossings /\ Floor /\ Texts
  BY <1>2 DEF Crossings, Floor, Texts, Running
<1>4. ASSUME NEW c \in Speeches PROVE StreamOK(c)
  <2>1. Stream(c) = <<>> /\ page.current # c
    BY <1>2 DEF Stream
  <2>2. DOMAIN (<<>>) = {}
    OBVIOUS
  <2> QED BY <2>1, <2>2 DEF StreamOK, InOrder, Pure, NoGap
<1> QED BY <1>1, <1>3, <1>4 DEF PageInv, Streams

LEMMA PageInvStep == PageInv /\ [PageNext]_harnessVars => PageInv'
<1> SUFFICES ASSUME PageInv, [PageNext]_harnessVars PROVE PageInv'
  OBVIOUS
<1>1. PageTypeOK /\ Crossings /\ Floor /\ Texts /\ Streams
  BY DEF PageInv
<1>2. CASE PageNext
  <2>1. PageTypeOK' /\ Overlaps /\ Acts
    BY <1>1, <1>2, StepsAre
  <2>2. Crossings' /\ crossed \subseteq crossed'
    BY <1>1, <2>1, CrossingsStep
  <2>3. Floor'
    BY <1>1, <2>1, FloorStep
  <2>4. Texts'
    BY <1>1, <2>1, <2>2, <2>3, TextsStep
  <2>5. Streams'
    BY <1>1, <2>1, <2>2, <2>3, StreamsStep
  <2> QED BY <2>1, <2>2, <2>3, <2>4, <2>5 DEF PageInv
<1>3. CASE UNCHANGED harnessVars
  <2>1. UNCHANGED <<page, engine, at, segment, told, crossed, silenced>>
    BY <1>3 DEF harnessVars
  <2>2. PageTypeOK'
    BY <1>1, <1>3, Standing
  <2>3. Crossings' /\ Floor' /\ Texts'
    BY <1>1, <2>1 DEF Crossings, Running, Floor, Started, Texts, Clean
  <2>4. Streams'
    <3>1. SUFFICES ASSUME NEW c \in Speeches PROVE StreamOK(c)'
      BY DEF Streams
    <3>2. Stream(c)' = Stream(c) /\ (page'.current = c <=> page.current = c)
      BY <2>1 DEF Stream
    <3>3. (Clean(c)' <=> Clean(c)) /\ \A x : Reached(c, x)' <=> Reached(c, x)
      BY <2>1 DEF Clean, Reached
    <3>4. /\ InOrder(Stream(c), c)' <=> InOrder(Stream(c), c)
          /\ NoGap(Stream(c), c)' <=> NoGap(Stream(c), c)
          /\ \A x : Has(Stream(c), x)' <=> Has(Stream(c), x)
      BY <3>2 DEF InOrder, NoGap, Has
    <3>5. Pure(Stream(c), c)' <=> Pure(Stream(c), c)
      BY <2>1, <3>2 DEF Pure
    <3>6. StreamOK(c)
      BY <1>1 DEF Streams
    <3> QED BY <3>2, <3>3, <3>4, <3>5, <3>6 DEF StreamOK
  <2> QED BY <2>2, <2>3, <2>4 DEF PageInv
<1> QED BY <1>2, <1>3

LEMMA PageInvariant == PageSpec => []PageInv
BY PageInvInit, PageInvStep, PTL DEF PageSpec

\* What a speech was told, without what the page keeps for it.
LEMMA ToldOK ==
  ASSUME PageInv, NEW c \in Speeches
  PROVE  InOrder(told[c], c) /\ Pure(told[c], c) /\ (Clean(c) => NoGap(told[c], c))
<1>1. PageTypeOK /\ StreamOK(c)
  BY DEF PageInv, Streams
<1>2. PICK s \in Seq(Item), t \in Seq(Item), o \in Seq(Item) :
        s = told[c] /\ t = page.kept /\ o = Stream(c)
  BY <1>1, StreamIs
<1>3. <<>> \in Seq(Item) /\ s \o <<>> = s /\ \A i \in 1..Len(<<>>) : ~IsAudio(<<>>[i])
  BY EmptySeq, ConcatEmptySeq
<1>4. Leaves(s, s \o <<>>, Len(s)) /\ Leaves(s \o t, s \o <<>>, Len(s))
  BY <1>3, Dropped
<1>5. Leaves(o, s, Len(s))
  BY <1>2, <1>3, <1>4 DEF Stream
<1>6. InOrder(o, c) /\ Pure(o, c) /\ (Clean(c) => NoGap(o, c))
  BY <1>1, <1>2 DEF StreamOK
<1>7. PICK m \in Nat : Leaves(o, s, m)
  BY <1>5, LenProperties
<1>8. /\ m \in 0..Len(o) /\ m <= Len(s)
      /\ \A i \in 1..m : s[i] = o[i]
      /\ \A i \in m + 1..Len(s) : ~IsAudio(s[i])
  BY <1>7 DEF Leaves
<1>9. InOrder(s, c) /\ Pure(s, c) /\ (NoGap(o, c) => NoGap(s, c))
  BY <1>6, <1>8, Cut
<1> QED BY <1>2, <1>6, <1>9

\* A session is told no audio of another speech, its own in the order of its text and no
\* chunk twice, and without a gap unless a preload was made while it ran: whatever the
\* calls, the stops and the failures, and the order in which they come.
THEOREM HearsItsOwn == PageSpec => []OwnAudio
<1>1. PageInv => OwnAudio
  <2>1. SUFFICES ASSUME PageInv, NEW c \in Speeches
                 PROVE  /\ \A i \in HeardAt(c) : told[c][i] \in Script(c)
                                                 \/ told[c][i][2] \in Preloads \cap crossed
                        /\ \A i, j \in OwnAt(c) : i < j => Precedes(told[c][i], told[c][j])
                        /\ Preloads \cap crossed = {} =>
                             \A i \in OwnAt(c) : \A x \in Script(c) :
                               Precedes(x, told[c][i]) => \E j \in OwnAt(c) : told[c][j] = x
    BY DEF OwnAudio
  <2>2. InOrder(told[c], c) /\ Pure(told[c], c) /\ (Clean(c) => NoGap(told[c], c))
    BY <2>1, ToldOK
  <2>3. \A i \in HeardAt(c) : told[c][i] \in Script(c) \/ told[c][i][2] \in Preloads \cap crossed
    BY <2>2 DEF HeardAt, Pure
  <2>4. \A i, j \in OwnAt(c) : i < j => Precedes(told[c][i], told[c][j])
    BY <2>2 DEF OwnAt, InOrder
  <2>5. ASSUME Preloads \cap crossed = {}, NEW i \in OwnAt(c), NEW x \in Script(c),
               Precedes(x, told[c][i])
        PROVE  \E j \in OwnAt(c) : told[c][j] = x
    <3>1. NoGap(told[c], c)
      BY <2>2, <2>5 DEF Clean
    <3>2. PICK j \in DOMAIN told[c] : told[c][j] = x
      BY <2>5, <3>1 DEF NoGap, OwnAt, Has
    <3> QED BY <3>2, ScriptIs DEF OwnAt
  <2> QED BY <2>3, <2>4, <2>5
<1> QED BY <1>1, PageInvariant, PTL

\* A speech that nothing crossed returns only when it has been told all.
LEMMA EndsAlone ==
  ASSUME PageInv, PageNext, NEW c \in Speeches, at[c] = "wait", at'[c] = "done", c \notin crossed'
  PROVE  Finishes(c)
<1>1. PageTypeOK /\ Crossings
  BY DEF PageInv
<1>2. PageTypeOK' /\ crossed \subseteq crossed'
  BY <1>1, StepsAre, CrossingsStep
<1>3. c \in Running /\ c \in Calls /\ page.current = c
  BY <1>1, <1>2 DEF Running, Crossings
<1>4. ASSUME NEW d \in Calls, d # c, Makes(d) \/ Proceeds(d)
      PROVE  FALSE
  BY <1>1, <1>2, <1>3, <1>4 DEF Makes, Proceeds, Crossings
<1>5. ~Same /\ ~Interrupts
  BY <1>3 DEF Same, Interrupts
<1>6. ASSUME NEW d \in Speeches, Speak(d) \/ SpeakFails(d) \/ SpeakReports(d) \/ GoesOn(d)
      PROVE  Finishes(c)
  <2>1. d = c
    BY <1>1, <1>4, <1>5, <1>6, SpeechStep
  <2>2. ~Speak(c) /\ ~SpeakReports(c) /\ ~SpeakInited(c) /\ ~SpeakLoaded(c)
    BY DEF Speak, SpeakReports, SpeakInited, SpeakLoaded
  <2>3. ~NextSegment(c)
    BY <1>1, NextSegmentStep DEF Turns
  <2>4. ~SpeakFails(c) /\ ~SpeakHears(c)
    <3>1. ~Fails(c)
      <4>1. Fails(c) => at'[c] = "failed"
        <5>1. SUFFICES ASSUME Fails(c) PROVE at'[c] = "failed"
          OBVIOUS
        <5>2. PICK awake : at' = [Return(awake) EXCEPT ![c] = "failed"]
          BY <5>1 DEF Fails, EndSpeech
        <5> QED BY <1>3, <5>2 DEF Return
      <4> QED BY <4>1
    <3> QED BY <3>1 DEF SpeakFails, SpeakHears
  <2>5. FinishSpeech(c)
    BY <1>6, <2>1, <2>2, <2>3, <2>4 DEF GoesOn
  <2> QED BY <1>1, <1>3, <2>5, FinishSpeechStep
<1>7. ASSUME NEW d \in Preloads, Preload(d) \/ PreloadFails(d) \/ GoesOn(d)
      PROVE  Finishes(c)
  BY <1>1, <1>3, <1>4, <1>7, PreloadsStep
<1>8. CASE PageStop
  BY <1>1, <1>5, <1>8, PageStopStep
<1>9. CASE Engine
  BY <1>1, <1>5, <1>9, PrepareStep, ChunkStep, EndOfTextStep DEF Engine
<1>10. ASSUME NEW d \in Calls, GoesOn(d)
       PROVE  Finishes(c)
  BY <1>6, <1>7, <1>10
<1> QED BY <1>6, <1>7, <1>8, <1>9, <1>10 DEF PageNext

LEMMA AllTold ==
  ASSUME PageInv, NEW c \in Speeches, Finishes(c), c \notin crossed,
         page.chunked => engine.task = Idle
  PROVE  /\ \A x \in Script(c) : \E i \in DOMAIN told'[c] : told'[c][i] = x
         /\ \A i \in DOMAIN told'[c] : IsAudio(told'[c][i]) => told'[c][i] \in Script(c)
         /\ told'[c][Len(told'[c])] = <<"done">>
<1>1. PageTypeOK /\ Floor /\ StreamOK(c) /\ RestOK /\ c \in Calls
  BY TypesAre DEF PageInv, Streams
<1>2. /\ page.current = c /\ page.session = c /\ at[c] = "wait" /\ segment[c] = Segments[c]
      /\ Drained /\ told' = Tell(page, told, page.kept \o Done) /\ ~page.muted
  BY <1>1 DEF Finishes, Floor
<1>3. page.chunked /\ engine.task = Idle
  BY <1>1, <1>2 DEF Drained, Floor
<1>4. PICK s \in Seq(Item), t \in Seq(Item) : s = told[c] /\ t = page.kept
  BY <1>1, StreamIs
<1>5. Done \in Seq(Item) /\ Len(Done) = 1 /\ Done[1] = <<"done">>
  BY ItemsAreItems DEF Done
<1>6. told'[c] = s \o (t \o Done)
  <2>1. page.kept \o Done \in Seq(Item)
    BY <1>4, <1>5, Joining
  <2> QED BY <1>1, <1>2, <1>4, <2>1, ToldIs
<1>7. PICK n \in Seq(Item) : n = s \o (t \o Done)
  BY <1>5, JoiningThree
<1>8. PICK o \in Seq(Item) : o = s \o t
  BY Joining
<1>9. Leaves(o, n, Len(o))
  BY <1>5, <1>7, <1>8, Flushed, DoneIsNoAudio
<1>10. /\ Len(n) = Len(s) + Len(t) + 1 /\ n[Len(s) + Len(t) + 1] = <<"done">>
  <2>1. PICK e \in Seq(Item) : e = Done
    BY <1>5
  <2>2. n = s \o (t \o e) /\ Len(e) = 1 /\ e[1] = <<"done">>
    BY <1>5, <1>7, <2>1
  <2>3. /\ Len(s \o (t \o e)) = Len(s) + Len(t) + Len(e)
        /\ \A i \in 1..Len(e) : (s \o (t \o e))[Len(s) + Len(t) + i] = e[i]
    BY JoiningThree
  <2>4. 1 \in 1..Len(e)
    BY <2>2
  <2> QED BY <2>2, <2>3, <2>4
<1>11. Stream(c) = o
  BY <1>2, <1>4, <1>8 DEF Stream
<1>12. Len(o) \in Nat /\ DOMAIN n = 1..Len(n) /\ DOMAIN o = 1..Len(o)
  BY LenProperties
<1>13. ASSUME NEW x \in Script(c) PROVE \E i \in DOMAIN n : n[i] = x
  <2>1. Reached(c, x)
    <3>1. x[3] \in 1..Segments[c] /\ Segments[c] \in Nat
      BY ScriptIs
    <3>2. engine.task.call # c
      BY <1>1, <1>3, CallsAreDistinct DEF Idle
    <3> QED BY <1>2, <1>3, <3>1, <3>2 DEF Reached
  <2>2. Has(o, x)
    BY <1>1, <1>2, <1>11, <2>1 DEF StreamOK, Clean
  <2>3. PICK i \in DOMAIN o : o[i] = x
    BY <2>2 DEF Has
  <2>4. i \in DOMAIN n /\ n[i] = x
    BY <1>9, <1>12, <2>3, LenProperties DEF Leaves
  <2> QED BY <2>4
<1>14. ASSUME NEW i \in DOMAIN n, IsAudio(n[i]) PROVE n[i] \in Script(c)
  <2>1. i \in DOMAIN o /\ n[i] = o[i]
    <3>1. i \in 1..Len(n) /\ ~(i \in Len(o) + 1..Len(n))
      BY <1>9, <1>12, <1>14 DEF Leaves
    <3>2. Len(n) \in Nat
      BY LenProperties
    <3>3. i \in 1..Len(o)
      BY <1>12, <3>1, <3>2
    <3> QED BY <1>9, <1>12, <3>3 DEF Leaves
  <2>2. Pure(o, c)
    BY <1>1, <1>11 DEF StreamOK
  <2> QED BY <1>14, <2>1, <2>2 DEF Pure
<1> QED BY <1>6, <1>7, <1>10, <1>13, <1>14

\* A speech that nothing crossed and whose audio did not stall has been told all of its
\* text, no other audio, and at last that it is done when it returns, whatever the calls
\* and stops before it have left behind.
THEOREM TellsAll == PageSpec => Whole
<1> DEFINE Ended(c) ==
      at[c] = "wait" /\ at'[c] = "done" /\ c \notin crossed'
        /\ (page.chunked => engine.task = Idle) =>
        /\ \A x \in Script(c) : \E i \in DOMAIN told'[c] : told'[c][i] = x
        /\ \A i \in DOMAIN told'[c] : IsAudio(told'[c][i]) => told'[c][i] \in Script(c)
        /\ told'[c][Len(told'[c])] = <<"done">>
<1>1. ASSUME PageInv, PageNext PROVE \A c \in Speeches : Ended(c)
  <2>1. SUFFICES ASSUME NEW c \in Speeches, at[c] = "wait", at'[c] = "done", c \notin crossed',
                        page.chunked => engine.task = Idle
                 PROVE  /\ \A x \in Script(c) : \E i \in DOMAIN told'[c] : told'[c][i] = x
                        /\ \A i \in DOMAIN told'[c] : IsAudio(told'[c][i]) => told'[c][i] \in Script(c)
                        /\ told'[c][Len(told'[c])] = <<"done">>
    OBVIOUS
  <2>2. Finishes(c)
    BY <1>1, <2>1, EndsAlone
  <2>3. c \notin crossed
    BY <2>1, <2>2 DEF Finishes
  <2> QED BY <1>1, <2>1, <2>2, <2>3, AllTold
<1>2. PageInv /\ [PageNext]_harnessVars => [\A c \in Speeches : Ended(c)]_harnessVars
  BY <1>1
<1> QED BY <1>2, PageInvariant, PTL DEF PageSpec, Whole

\* A session that was stopped, ended or taken over is told nothing more, except an error
\* of an older call.
THEOREM StaysSilent == PageSpec => Silence
<1> DEFINE Quiet(c) ==
      /\ DOMAIN told[c] \subseteq DOMAIN told'[c]
      /\ \A i \in DOMAIN told'[c] :
           told'[c][i] = IF i \in DOMAIN told[c] THEN told[c][i] ELSE <<"error">>
<1>1. ASSUME PageInv, PageNext PROVE \A c \in silenced : Quiet(c)
  <2>1. SUFFICES ASSUME NEW c \in silenced PROVE Quiet(c)
    OBVIOUS
  <2>2. PageTypeOK /\ Floor /\ RestOK /\ PageTypeOK' /\ Acts
    BY <1>1, StepsAre, TypesAre DEF PageInv
  <2>3. c \in Calls /\ page.current # c
    BY <2>1, <2>2 DEF RestOK, Floor
  <2>4. told'[c] \in {told[c], told[c] \o Error}
    BY <2>2, <2>3, Others
  <2>5. PICK s \in Seq(Item) : s = told[c]
    BY <2>2, <2>3 DEF RestOK
  <2>6. Error \in Seq(Item) /\ Len(Error) = 1 /\ Error[1] = <<"error">>
    BY ItemsAreItems DEF Error
  <2>7. PICK n \in Seq(Item) : n = s \o Error
    BY <2>5, <2>6, Joining
  <2>8. /\ Len(n) = Len(s) + 1 /\ n[Len(s) + 1] = <<"error">>
        /\ \A i \in 1..Len(s) : n[i] = s[i]
    <3>1. PICK e \in Seq(Item) : e = Error
      BY <2>6
    <3>2. n = s \o e /\ Len(e) = 1 /\ e[1] = <<"error">>
      BY <2>6, <2>7, <3>1
    <3>3. /\ Len(s \o e) = Len(s) + Len(e)
          /\ \A i \in 1..Len(s) : (s \o e)[i] = s[i]
          /\ \A i \in 1..Len(e) : (s \o e)[Len(s) + i] = e[i]
      BY Joining
    <3>4. 1 \in 1..Len(e)
      BY <3>2
    <3> QED BY <3>2, <3>3, <3>4
  <2>9. Len(s) \in Nat /\ DOMAIN s = 1..Len(s) /\ DOMAIN n = 1..Len(n)
    BY LenProperties
  <2>10. CASE told'[c] = told[c]
    BY <2>10
  <2>11. CASE told'[c] = n
    <3>1. ASSUME NEW i \in DOMAIN n
          PROVE  n[i] = IF i \in DOMAIN s THEN s[i] ELSE <<"error">>
      <4>1. i \in DOMAIN s \/ i = Len(s) + 1
        BY <2>8, <2>9
      <4>2. Len(s) + 1 \notin DOMAIN s
        BY <2>9
      <4> QED BY <2>8, <2>9, <4>1, <4>2
    <3>2. DOMAIN s \subseteq DOMAIN n
      BY <2>8, <2>9
    <3> QED BY <2>5, <2>11, <3>1, <3>2
  <2> QED BY <2>4, <2>5, <2>7, <2>10, <2>11
<1>2. PageInv /\ [PageNext]_harnessVars => [\A c \in silenced : Quiet(c)]_harnessVars
  BY <1>1
<1> QED BY <1>2, PageInvariant, PTL DEF PageSpec, Silence

-----------------------------------------------------------------------------
(* Both ends together                                                        *)

\* A behaviour of MCPage is one of the channel and one of the page: a step of one end
\* is a stutter of the other.
LEMMA EachEndItsOwn == BothSpec => Spec /\ PageSpec
<1>1. BothInit => Init /\ PageInit
  BY DEF BothInit
<1>2. [BothNext]_bothVars => [Next]_vars
  BY DEF BothNext, bothVars
<1>3. [BothNext]_bothVars => [PageNext]_harnessVars
  BY DEF BothNext, bothVars
<1> QED BY <1>1, <1>2, <1>3, PTL DEF BothSpec, Spec, PageSpec

\* The variables of the channel (bridge.py) and of the page (bridgeHarness.js) keep
\* their types side by side, whichever end moves.
THEOREM BothAreTyped == BothSpec => []BothTypeOK
<1>1. TypeOK /\ PageTypeOK <=> BothTypeOK
  BY DEF BothTypeOK
<1> QED BY <1>1, EachEndItsOwn, TypeCorrect, PageTyped, PTL

\* What each end promises alone holds for both together: a request leaves nothing behind,
\* hears its own answer and is always woken; a session is told its own audio, all of it
\* if nothing crosses it, and nothing after its end.
THEOREM BothAreSafe ==
  BothSpec => /\ []NothingLeft /\ []OwnAudio
              /\ LastCallWakes /\ Correlated /\ Whole /\ Silence
  BY EachEndItsOwn, TablesAreClean, HearsItsOwn, LastCallIsHeard, KeepsExchange, TellsAll,
     StaysSilent, PTL
=============================================================================
