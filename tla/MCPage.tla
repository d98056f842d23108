------------------------------- MODULE MCPage -------------------------------
(***************************************************************************)
(* Small instances of the DevTools channel and of the page behind it.  They *)
(* share no variable, so a behaviour moves one part: interleaving them would *)
(* show nothing more.                                                       *)
(***************************************************************************)
EXTENDS CdpChannelProps, BridgeHarnessProps, TLC

CONSTANTS r1, r2, s1, s2, pre, english, german

AllRequests == {r1, r2}
AllFaults == {"timeout", "send", "network", "handler"}

\* Speech has events and can be cancelled; other requests are r2.
Speech == {r1}
EventsOf == r1 :> 2 @@ r2 :> 0

\* All that befalls a connection befalls the first; the second shows that the next
\* connection is not touched by it.
SecondLasts == ~stopped'[2] /\ socket'[2] # "broken"

\* A speech of two segments, and one with the voice that is preloaded.
SegmentsOf == s1 :> 2 @@ s2 :> 1
ChunksOf == s1 :> 1 @@ s2 :> 2 @@ pre :> 1
Voices == s1 :> english @@ s2 :> german @@ pre :> german

VARIABLE part

bothVars == <<part, vars, harnessVars>>

BothInit == part \in {"channel", "page"} /\ Init /\ PageInit

BothNext ==
  /\ \/ part = "channel" /\ Next /\ UNCHANGED harnessVars
     \/ part = "page" /\ PageNext /\ UNCHANGED vars
  /\ UNCHANGED part

\* The variables of both parts have their types.
BothTypeOK == TypeOK /\ PageTypeOK

BothSpec == BothInit /\ [][BothNext]_bothVars /\ PageFairness
=============================================================================
