--------------------------- MODULE MCSpeechDriver ---------------------------
(* Small instances of the driver: requests of a marked text and an index.     *)
EXTENDS SpeechDriverProps

CONSTANTS W1, W2, W3

OneWarmer == {W1}
TwoWarmers == {W1, W2}
ThreeWarmers == {W1, W2, W3}
Scripts == [r \in Requests |-> IF r % 2 = 1 THEN <<"marked", "index">> ELSE <<"text", "index">>]
TextAndIndex == [r \in Requests |-> <<"marked", "index">>]
OneMark == [r \in Requests |-> <<"marked">>]
OneText == [r \in Requests |-> <<"text">>]

\* Warm-up threads are alike: they are taken in one order.
InUse(w) == pc[w] # "unborn" \/ \E t \in Callers : fresh[t] = w
TakenInOrder ==
  /\ W2 \in Warmers => (InUse(W2)' => InUse(W1)')
  /\ W3 \in Warmers => (InUse(W3)' => InUse(W2)')

\* Two requests, or a request and warm-ups: a second request comes when the warm-up
\* has ended, a second warm-up only with one request.
FewAtOnce ==
  /\ TakenInOrder
  /\ asked' = 2 => pc'[W1] \in {"unborn", "dead"} /\ ~InUse(W2)'

\* The warm-up after a recycle cannot start, and no change of voice comes beside it.
RecycleWarmsNothing ==
  /\ TakenInOrder
  /\ pc[Worker] = "start" => pc'[fresh[Worker]] # "delay"
  /\ pc'[Worker] \in {"warm", "swap", "assign", "start"} => voices' = 0
=============================================================================
