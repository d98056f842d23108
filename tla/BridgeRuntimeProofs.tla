------------------------ MODULE BridgeRuntimeProofs ------------------------
(* For any number of warm-up threads, browsers and calls: the types, who owns   *)
(* a half-prepared connection, that no browser process is orphaned, and that no *)
(* call is heard twice.                                                         *)
EXTENDS BridgeRuntimeProps, TLAPS

USE DEF Clients, Threads, Runtimes, NoRuntime, Labels, Startup, HoldsBridge, InPm, Deciding, Recycling, Raised

\* A profile directory opened for an installed browser keeps the profile's type.
LEMMA OpenProfileTypes ==
  ASSUME NEW r \in Runtimes, NEW keep \in BOOLEAN,
         profile \in Runtimes \cup {NoRuntime}, cache \subseteq Runtimes, OpenProfile(r, keep)
  PROVE  profile' \in Runtimes \cup {NoRuntime} /\ cache' \subseteq Runtimes
BY DEF OpenProfile

\* Starting a process keeps the handle's type and counts in the naturals.
LEMMA SpawnTypes ==
  ASSUME orphans \in Nat, Spawn
  PROVE  proc' \in {"none", "up", "down"} /\ orphans' \in Nat
BY DEF Spawn

\* Every decision to recycle leads to its own next step.
LEMMA DecisionLeadsOn ==
  ASSUME NEW t \in Clients, pc[t] \in Deciding
  PROVE  /\ AfterDecision[pc[t]] \in Recycling
         /\ AfterDecision[pc[t]] = "recycleTidy" <=> pc[t] = "decidedTidy"
         /\ AfterDecision[pc[t]] = "recycleRetry" <=> pc[t] = "decidedRetry"
BY DEF AfterDecision

\* Every variable keeps its type, for every instance of the bridge.
THEOREM TypeCorrect == Spec => []TypeOK
<1>1. Init => TypeOK
  <2>1. Init => ThreadTypes
    BY BoundsAreNatural DEF Init, ThreadTypes
  <2>2. Init => SwitchTypes
    BY BoundsAreNatural DEF Init, SwitchTypes
  <2>3. Init => BrowserTypes
    BY BoundsAreNatural DEF Init, BrowserTypes
  <2>4. Init => LinkTypes
    BY BoundsAreNatural DEF Init, LinkTypes
  <2>5. Init => EngineTypes
    BY BoundsAreNatural DEF Init, EngineTypes
  <2>6. Init => CallTypes
    BY BoundsAreNatural DEF Init, CallTypes
  <2>7. Init => SpeechTypes
    BY BoundsAreNatural DEF Init, SpeechTypes
  <2> QED
    BY <2>1, <2>2, <2>3, <2>4, <2>5, <2>6, <2>7 DEF TypeOK
<1>2. TypeOK /\ [Next]_vars => TypeOK'
  <2> SUFFICES ASSUME TypeOK, [Next]_vars PROVE TypeOK'
    OBVIOUS
  <2> USE BoundsAreNatural DEF TypeOK, Goto, lockVars, procVars, connVars, flagVars, callVars, startVars, speechVars
  <2>1. ASSUME NEW t \in Clients, Call(t) \/ Cancel(t) \/ Step(t) \/ HearAudio(t)
        PROVE  TypeOK'
    <3>1. CASE Call(t)
      <4>1. ThreadTypes'
        BY <3>1 DEF Call, ThreadTypes, OpsOf, FirstLabel
      <4>2. SwitchTypes'
        BY <3>1 DEF Call, SwitchTypes, OpsOf, FirstLabel
      <4>3. BrowserTypes'
        BY <3>1 DEF Call, BrowserTypes, OpsOf, FirstLabel
      <4>4. LinkTypes'
        BY <3>1 DEF Call, LinkTypes, OpsOf, FirstLabel
      <4>5. EngineTypes'
        BY <3>1 DEF Call, EngineTypes, OpsOf, FirstLabel
      <4>6. CallTypes'
        BY <3>1 DEF Call, CallTypes, OpsOf, FirstLabel
      <4>7. SpeechTypes'
        BY <3>1 DEF Call, SpeechTypes, OpsOf, FirstLabel
      <4> QED
        BY <4>1, <4>2, <4>3, <4>4, <4>5, <4>6, <4>7
    <3>2. CASE Cancel(t)
      <4>1. ThreadTypes'
        BY <3>2 DEF Cancel, ThreadTypes
      <4>2. SwitchTypes'
        BY <3>2 DEF Cancel, SwitchTypes
      <4>3. BrowserTypes'
        BY <3>2 DEF Cancel, BrowserTypes
      <4>4. LinkTypes'
        BY <3>2 DEF Cancel, LinkTypes
      <4>5. EngineTypes'
        BY <3>2 DEF Cancel, EngineTypes
      <4>6. CallTypes'
        BY <3>2 DEF Cancel, CallTypes
      <4>7. SpeechTypes'
        BY <3>2 DEF Cancel, SpeechTypes
      <4> QED
        BY <4>1, <4>2, <4>3, <4>4, <4>5, <4>6, <4>7
    <3>3. CASE Begin(t)
      <4>1. ThreadTypes'
        BY <3>3 DEF Begin, ThreadTypes, Return, StartRecycle, RecycleDue
      <4>2. SwitchTypes'
        BY <3>3 DEF Begin, SwitchTypes, Return, StartRecycle, RecycleDue
      <4>3. BrowserTypes'
        BY <3>3 DEF Begin, BrowserTypes, Return, StartRecycle, RecycleDue
      <4>4. LinkTypes'
        BY <3>3 DEF Begin, LinkTypes, Return, StartRecycle, RecycleDue
      <4>5. EngineTypes'
        BY <3>3 DEF Begin, EngineTypes, Return, StartRecycle, RecycleDue
      <4>6. CallTypes'
        BY <3>3 DEF Begin, CallTypes, Return, StartRecycle, RecycleDue
      <4>7. SpeechTypes'
        BY <3>3 DEF Begin, SpeechTypes, Return, StartRecycle, RecycleDue
      <4> QED
        BY <4>1, <4>2, <4>3, <4>4, <4>5, <4>6, <4>7
    <3>4. CASE Tidy(t)
      <4>1. ThreadTypes'
        BY <3>4 DEF Tidy, ThreadTypes, Return, StartRecycle, RecycleDue
      <4>2. SwitchTypes'
        BY <3>4 DEF Tidy, SwitchTypes, Return, StartRecycle, RecycleDue
      <4>3. BrowserTypes'
        BY <3>4 DEF Tidy, BrowserTypes, Return, StartRecycle, RecycleDue
      <4>4. LinkTypes'
        BY <3>4 DEF Tidy, LinkTypes, Return, StartRecycle, RecycleDue
      <4>5. EngineTypes'
        BY <3>4 DEF Tidy, EngineTypes, Return, StartRecycle, RecycleDue
      <4>6. CallTypes'
        BY <3>4 DEF Tidy, CallTypes, Return, StartRecycle, RecycleDue
      <4>7. SpeechTypes'
        BY <3>4 DEF Tidy, SpeechTypes, Return, StartRecycle, RecycleDue
      <4> QED
        BY <4>1, <4>2, <4>3, <4>4, <4>5, <4>6, <4>7
    <3>5. CASE FinishRecycle(t)
      <4>1. ThreadTypes'
        BY <3>5 DEF FinishRecycle, ThreadTypes, Return, PmTerminate, ProcessStopped, UrlsGone, ReleaseProfile, FreshEngine, MayRetry, Recycling, PmFree
      <4>2. SwitchTypes'
        BY <3>5 DEF FinishRecycle, SwitchTypes, Return, PmTerminate, ProcessStopped, UrlsGone, ReleaseProfile, FreshEngine, MayRetry, Recycling, PmFree
      <4>3. BrowserTypes'
        BY <3>5 DEF FinishRecycle, BrowserTypes, Return, PmTerminate, ProcessStopped, UrlsGone, ReleaseProfile, FreshEngine, MayRetry, Recycling, PmFree
      <4>4. LinkTypes'
        BY <3>5 DEF FinishRecycle, LinkTypes, Return, PmTerminate, ProcessStopped, UrlsGone, ReleaseProfile, FreshEngine, MayRetry, Recycling, PmFree
      <4>5. EngineTypes'
        BY <3>5 DEF FinishRecycle, EngineTypes, Return, PmTerminate, ProcessStopped, UrlsGone, ReleaseProfile, FreshEngine, MayRetry, Recycling, PmFree
      <4>6. CallTypes'
        BY <3>5 DEF FinishRecycle, CallTypes, Return, PmTerminate, ProcessStopped, UrlsGone, ReleaseProfile, FreshEngine, MayRetry, Recycling, PmFree
      <4>7. SpeechTypes'
        <5>1. attempt' \in [Clients -> 0..1]
          <6>1. CASE pc[t] = "recycleRetry"
            BY <3>5, <6>1 DEF FinishRecycle, SpeechTypes, MayRetry
          <6>2. CASE pc[t] # "recycleRetry"
            BY <3>5, <6>2 DEF FinishRecycle, SpeechTypes
          <6> QED
            BY <6>1, <6>2
        <5>2. UNCHANGED <<skip, left, started, audio, heard>>
          BY <3>5 DEF FinishRecycle
        <5> QED
          BY <5>1, <5>2 DEF SpeechTypes
      <4> QED
        BY <4>1, <4>2, <4>3, <4>4, <4>5, <4>6, <4>7
    <3>6. CASE Ensure(t)
      <4>1. ThreadTypes'
        BY <3>6 DEF Ensure, ThreadTypes, Return, IsConnected
      <4>2. SwitchTypes'
        BY <3>6 DEF Ensure, SwitchTypes, Return, IsConnected
      <4>3. BrowserTypes'
        BY <3>6 DEF Ensure, BrowserTypes, Return, IsConnected
      <4>4. LinkTypes'
        BY <3>6 DEF Ensure, LinkTypes, Return, IsConnected
      <4>5. EngineTypes'
        BY <3>6 DEF Ensure, EngineTypes, Return, IsConnected
      <4>6. CallTypes'
        BY <3>6 DEF Ensure, CallTypes, Return, IsConnected
      <4>7. SpeechTypes'
        BY <3>6 DEF Ensure, SpeechTypes, Return, IsConnected
      <4> QED
        BY <4>1, <4>2, <4>3, <4>4, <4>5, <4>6, <4>7
    <3>7. CASE Acquire(t)
      <4>1. ThreadTypes'
        BY <3>7 DEF Acquire, ThreadTypes, Return
      <4>2. SwitchTypes'
        BY <3>7 DEF Acquire, SwitchTypes, Return
      <4>3. BrowserTypes'
        BY <3>7 DEF Acquire, BrowserTypes, Return
      <4>4. LinkTypes'
        BY <3>7 DEF Acquire, LinkTypes, Return
      <4>5. EngineTypes'
        BY <3>7 DEF Acquire, EngineTypes, Return
      <4>6. CallTypes'
        BY <3>7 DEF Acquire, CallTypes, Return
      <4>7. SpeechTypes'
        BY <3>7 DEF Acquire, SpeechTypes, Return
      <4> QED
        BY <4>1, <4>2, <4>3, <4>4, <4>5, <4>6, <4>7
    <3>8. CASE Recheck(t)
      <4>1. ThreadTypes'
        BY <3>8 DEF Recheck, ThreadTypes, IsConnected
      <4>2. SwitchTypes'
        BY <3>8 DEF Recheck, SwitchTypes, IsConnected
      <4>3. BrowserTypes'
        BY <3>8 DEF Recheck, BrowserTypes, IsConnected
      <4>4. LinkTypes'
        BY <3>8 DEF Recheck, LinkTypes, IsConnected
      <4>5. EngineTypes'
        BY <3>8 DEF Recheck, EngineTypes, IsConnected
      <4>6. CallTypes'
        BY <3>8 DEF Recheck, CallTypes, IsConnected
      <4>7. SpeechTypes'
        BY <3>8 DEF Recheck, SpeechTypes, IsConnected
      <4> QED
        BY <4>1, <4>2, <4>3, <4>4, <4>5, <4>6, <4>7
    <3>9. CASE Attempt(t)
      <4>1. ThreadTypes'
        BY <3>9 DEF Attempt, ThreadTypes, Return
      <4>2. SwitchTypes'
        BY <3>9 DEF Attempt, SwitchTypes, Return
      <4>3. BrowserTypes'
        BY <3>9 DEF Attempt, BrowserTypes, Return
      <4>4. LinkTypes'
        BY <3>9 DEF Attempt, LinkTypes, Return
      <4>5. EngineTypes'
        BY <3>9 DEF Attempt, EngineTypes, Return
      <4>6. CallTypes'
        BY <3>9 DEF Attempt, CallTypes, Return
      <4>7. SpeechTypes'
        BY <3>9 DEF Attempt, SpeechTypes, Return
      <4> QED
        BY <4>1, <4>2, <4>3, <4>4, <4>5, <4>6, <4>7
    <3>10. CASE Start(t)
      <4>1. ThreadTypes'
        BY <3>10 DEF Start, ThreadTypes, StopBrowser, ProcessStopped, UrlsGone, ReleaseProfile, RemoveProfile, PmFree
      <4>2. SwitchTypes'
        BY <3>10 DEF Start, SwitchTypes, StopBrowser, ProcessStopped, UrlsGone, ReleaseProfile, RemoveProfile, PmFree
      <4>3. BrowserTypes'
        BY <3>10 DEF Start, BrowserTypes, StopBrowser, ProcessStopped, UrlsGone, ReleaseProfile, RemoveProfile, PmFree
      <4>4. LinkTypes'
        BY <3>10 DEF Start, LinkTypes, StopBrowser, ProcessStopped, UrlsGone, ReleaseProfile, RemoveProfile, PmFree
      <4>5. EngineTypes'
        BY <3>10 DEF Start, EngineTypes, StopBrowser, ProcessStopped, UrlsGone, ReleaseProfile, RemoveProfile, PmFree
      <4>6. CallTypes'
        BY <3>10 DEF Start, CallTypes, StopBrowser, ProcessStopped, UrlsGone, ReleaseProfile, RemoveProfile, PmFree
      <4>7. SpeechTypes'
        BY <3>10 DEF Start, SpeechTypes, StopBrowser, ProcessStopped, UrlsGone, ReleaseProfile, RemoveProfile, PmFree
      <4> QED
        BY <4>1, <4>2, <4>3, <4>4, <4>5, <4>6, <4>7
    <3>11. CASE Launch(t)
      <4>1. ThreadTypes'
        BY <3>11 DEF Launch, ThreadTypes, LeavePm, OpenProfile, Spawn, ProcessStopped, UrlsGone
      <4>2. SwitchTypes'
        BY <3>11 DEF Launch, SwitchTypes, LeavePm, OpenProfile, Spawn, ProcessStopped, UrlsGone
      <4>3. BrowserTypes'
        <5>1. CASE left[t] = {} \/ cancelled[t]
          BY <3>11, <5>1 DEF Launch, BrowserTypes
        <5>2. ASSUME NEW r \in left[t], OpenProfile(r, TRUE), Spawn
              PROVE  BrowserTypes'
          <6>1. r \in Runtimes
            BY DEF SpeechTypes
          <6> QED
            BY <5>2, <6>1, OpenProfileTypes, SpawnTypes DEF BrowserTypes
        <5>3. ASSUME NEW r \in left[t], ProcessStopped, cache' = cache \ {r}, profile' = NoRuntime
              PROVE  BrowserTypes'
          BY <5>3 DEF ProcessStopped, BrowserTypes
        <5> QED
          BY <3>11, <5>1, <5>2, <5>3 DEF Launch
      <4>4. LinkTypes'
        BY <3>11 DEF Launch, LinkTypes, LeavePm, OpenProfile, Spawn, ProcessStopped, UrlsGone
      <4>5. EngineTypes'
        BY <3>11 DEF Launch, EngineTypes, LeavePm, OpenProfile, Spawn, ProcessStopped, UrlsGone
      <4>6. CallTypes'
        BY <3>11 DEF Launch, CallTypes, LeavePm, OpenProfile, Spawn, ProcessStopped, UrlsGone
      <4>7. SpeechTypes'
        BY <3>11 DEF Launch, SpeechTypes, LeavePm, OpenProfile, Spawn, ProcessStopped, UrlsGone
      <4> QED
        BY <4>1, <4>2, <4>3, <4>4, <4>5, <4>6, <4>7
    <3>12. CASE Relaunch(t)
      <4>1. ThreadTypes'
        BY <3>12 DEF Relaunch, ThreadTypes, LeavePm, OpenProfile, Spawn, Tried
      <4>2. SwitchTypes'
        BY <3>12 DEF Relaunch, SwitchTypes, LeavePm, OpenProfile, Spawn, Tried
      <4>3. BrowserTypes'
        <5>1. CASE cancelled[t]
          BY <3>12, <5>1 DEF Relaunch, BrowserTypes
        <5>2. CASE ~cancelled[t]
          <6>1. PICK r \in Tried(t) : OpenProfile(r, FALSE)
            BY <3>12, <5>2 DEF Relaunch
          <6>2. Spawn /\ r \in Runtimes
            BY <3>12, <5>2, <6>1 DEF Relaunch, Tried
          <6> QED
            BY <6>1, <6>2, OpenProfileTypes, SpawnTypes DEF BrowserTypes
        <5> QED
          BY <5>1, <5>2
      <4>4. LinkTypes'
        BY <3>12 DEF Relaunch, LinkTypes, LeavePm, OpenProfile, Spawn, Tried
      <4>5. EngineTypes'
        BY <3>12 DEF Relaunch, EngineTypes, LeavePm, OpenProfile, Spawn, Tried
      <4>6. CallTypes'
        BY <3>12 DEF Relaunch, CallTypes, LeavePm, OpenProfile, Spawn, Tried
      <4>7. SpeechTypes'
        BY <3>12 DEF Relaunch, SpeechTypes, LeavePm, OpenProfile, Spawn, Tried
      <4> QED
        BY <4>1, <4>2, <4>3, <4>4, <4>5, <4>6, <4>7
    <3>13. CASE Port(t)
      <4>1. ThreadTypes'
        BY <3>13 DEF Port, ThreadTypes, LeavePm, StopBrowser, ProcessStopped, UrlsGone, RemoveProfile, ReleaseProfile
      <4>2. SwitchTypes'
        BY <3>13 DEF Port, SwitchTypes, LeavePm, StopBrowser, ProcessStopped, UrlsGone, RemoveProfile, ReleaseProfile
      <4>3. BrowserTypes'
        BY <3>13 DEF Port, BrowserTypes, LeavePm, StopBrowser, ProcessStopped, UrlsGone, RemoveProfile, ReleaseProfile
      <4>4. LinkTypes'
        BY <3>13 DEF Port, LinkTypes, LeavePm, StopBrowser, ProcessStopped, UrlsGone, RemoveProfile, ReleaseProfile
      <4>5. EngineTypes'
        BY <3>13 DEF Port, EngineTypes, LeavePm, StopBrowser, ProcessStopped, UrlsGone, RemoveProfile, ReleaseProfile
      <4>6. CallTypes'
        BY <3>13 DEF Port, CallTypes, LeavePm, StopBrowser, ProcessStopped, UrlsGone, RemoveProfile, ReleaseProfile
      <4>7. SpeechTypes'
        BY <3>13 DEF Port, SpeechTypes, LeavePm, StopBrowser, ProcessStopped, UrlsGone, RemoveProfile, ReleaseProfile
      <4> QED
        BY <4>1, <4>2, <4>3, <4>4, <4>5, <4>6, <4>7
    <3>14. CASE Page(t)
      <4>1. ThreadTypes'
        BY <3>14 DEF Page, ThreadTypes, LeavePm, StopBrowser, ProcessStopped, UrlsGone, RemoveProfile, ReleaseProfile
      <4>2. SwitchTypes'
        BY <3>14 DEF Page, SwitchTypes, LeavePm, StopBrowser, ProcessStopped, UrlsGone, RemoveProfile, ReleaseProfile
      <4>3. BrowserTypes'
        BY <3>14 DEF Page, BrowserTypes, LeavePm, StopBrowser, ProcessStopped, UrlsGone, RemoveProfile, ReleaseProfile
      <4>4. LinkTypes'
        BY <3>14 DEF Page, LinkTypes, LeavePm, StopBrowser, ProcessStopped, UrlsGone, RemoveProfile, ReleaseProfile
      <4>5. EngineTypes'
        BY <3>14 DEF Page, EngineTypes, LeavePm, StopBrowser, ProcessStopped, UrlsGone, RemoveProfile, ReleaseProfile
      <4>6. CallTypes'
        BY <3>14 DEF Page, CallTypes, LeavePm, StopBrowser, ProcessStopped, UrlsGone, RemoveProfile, ReleaseProfile
      <4>7. SpeechTypes'
        BY <3>14 DEF Page, SpeechTypes, LeavePm, StopBrowser, ProcessStopped, UrlsGone, RemoveProfile, ReleaseProfile
      <4> QED
        BY <4>1, <4>2, <4>3, <4>4, <4>5, <4>6, <4>7
    <3>15. CASE Note(t)
      <4>1. ThreadTypes'
        BY <3>15 DEF Note, ThreadTypes
      <4>2. SwitchTypes'
        BY <3>15 DEF Note, SwitchTypes
      <4>3. BrowserTypes'
        BY <3>15 DEF Note, BrowserTypes
      <4>4. LinkTypes'
        BY <3>15 DEF Note, LinkTypes
      <4>5. EngineTypes'
        BY <3>15 DEF Note, EngineTypes
      <4>6. CallTypes'
        BY <3>15 DEF Note, CallTypes
      <4>7. SpeechTypes'
        BY <3>15 DEF Note, SpeechTypes, BrowserTypes
      <4> QED
        BY <4>1, <4>2, <4>3, <4>4, <4>5, <4>6, <4>7
    <3>16. CASE Connect(t)
      <4>1. ThreadTypes'
        BY <3>16 DEF Connect, ThreadTypes
      <4>2. SwitchTypes'
        BY <3>16 DEF Connect, SwitchTypes
      <4>3. BrowserTypes'
        BY <3>16 DEF Connect, BrowserTypes
      <4>4. LinkTypes'
        BY <3>16 DEF Connect, LinkTypes
      <4>5. EngineTypes'
        BY <3>16 DEF Connect, EngineTypes
      <4>6. CallTypes'
        BY <3>16 DEF Connect, CallTypes
      <4>7. SpeechTypes'
        BY <3>16 DEF Connect, SpeechTypes
      <4> QED
        BY <4>1, <4>2, <4>3, <4>4, <4>5, <4>6, <4>7
    <3>17. CASE Enable(t)
      <4>1. ThreadTypes'
        BY <3>17 DEF Enable, ThreadTypes, TakeBridge
      <4>2. SwitchTypes'
        BY <3>17 DEF Enable, SwitchTypes, TakeBridge
      <4>3. BrowserTypes'
        BY <3>17 DEF Enable, BrowserTypes, TakeBridge
      <4>4. LinkTypes'
        BY <3>17 DEF Enable, LinkTypes, TakeBridge
      <4>5. EngineTypes'
        BY <3>17 DEF Enable, EngineTypes, TakeBridge
      <4>6. CallTypes'
        BY <3>17 DEF Enable, CallTypes, TakeBridge
      <4>7. SpeechTypes'
        BY <3>17 DEF Enable, SpeechTypes, TakeBridge
      <4> QED
        BY <4>1, <4>2, <4>3, <4>4, <4>5, <4>6, <4>7
    <3>18. CASE Enabled(t)
      <4>1. ThreadTypes'
        BY <3>18 DEF Enabled, ThreadTypes, AwaitBrowser, IsConnected
      <4>2. SwitchTypes'
        BY <3>18 DEF Enabled, SwitchTypes, AwaitBrowser, IsConnected
      <4>3. BrowserTypes'
        BY <3>18 DEF Enabled, BrowserTypes, AwaitBrowser, IsConnected
      <4>4. LinkTypes'
        BY <3>18 DEF Enabled, LinkTypes, AwaitBrowser, IsConnected
      <4>5. EngineTypes'
        BY <3>18 DEF Enabled, EngineTypes, AwaitBrowser, IsConnected
      <4>6. CallTypes'
        BY <3>18 DEF Enabled, CallTypes, AwaitBrowser, IsConnected
      <4>7. SpeechTypes'
        BY <3>18 DEF Enabled, SpeechTypes, AwaitBrowser, IsConnected
      <4> QED
        BY <4>1, <4>2, <4>3, <4>4, <4>5, <4>6, <4>7
    <3>19. CASE Await(t)
      <4>1. ThreadTypes'
        BY <3>19 DEF Await, ThreadTypes, TakeBridge
      <4>2. SwitchTypes'
        BY <3>19 DEF Await, SwitchTypes, TakeBridge
      <4>3. BrowserTypes'
        BY <3>19 DEF Await, BrowserTypes, TakeBridge
      <4>4. LinkTypes'
        BY <3>19 DEF Await, LinkTypes, TakeBridge
      <4>5. EngineTypes'
        BY <3>19 DEF Await, EngineTypes, TakeBridge
      <4>6. CallTypes'
        BY <3>19 DEF Await, CallTypes, TakeBridge
      <4>7. SpeechTypes'
        BY <3>19 DEF Await, SpeechTypes, TakeBridge
      <4> QED
        BY <4>1, <4>2, <4>3, <4>4, <4>5, <4>6, <4>7
    <3>20. CASE Awaited(t)
      <4>1. ThreadTypes'
        BY <3>20 DEF Awaited, ThreadTypes, AwaitBrowser, IsConnected
      <4>2. SwitchTypes'
        BY <3>20 DEF Awaited, SwitchTypes, AwaitBrowser, IsConnected
      <4>3. BrowserTypes'
        BY <3>20 DEF Awaited, BrowserTypes, AwaitBrowser, IsConnected
      <4>4. LinkTypes'
        BY <3>20 DEF Awaited, LinkTypes, AwaitBrowser, IsConnected
      <4>5. EngineTypes'
        BY <3>20 DEF Awaited, EngineTypes, AwaitBrowser, IsConnected
      <4>6. CallTypes'
        BY <3>20 DEF Awaited, CallTypes, AwaitBrowser, IsConnected
      <4>7. SpeechTypes'
        BY <3>20 DEF Awaited, SpeechTypes, AwaitBrowser, IsConnected
      <4> QED
        BY <4>1, <4>2, <4>3, <4>4, <4>5, <4>6, <4>7
    <3>21. CASE Stamp(t)
      <4>1. ThreadTypes'
        BY <3>21 DEF Stamp, ThreadTypes
      <4>2. SwitchTypes'
        BY <3>21 DEF Stamp, SwitchTypes
      <4>3. BrowserTypes'
        BY <3>21 DEF Stamp, BrowserTypes
      <4>4. LinkTypes'
        BY <3>21 DEF Stamp, LinkTypes
      <4>5. EngineTypes'
        BY <3>21 DEF Stamp, EngineTypes
      <4>6. CallTypes'
        BY <3>21 DEF Stamp, CallTypes
      <4>7. SpeechTypes'
        BY <3>21 DEF Stamp, SpeechTypes
      <4> QED
        BY <4>1, <4>2, <4>3, <4>4, <4>5, <4>6, <4>7
    <3>22. CASE DropCancelled(t)
      <4>1. ThreadTypes'
        BY <3>22 DEF DropCancelled, ThreadTypes, CloseConnection, Return
      <4>2. SwitchTypes'
        BY <3>22 DEF DropCancelled, SwitchTypes, CloseConnection, Return
      <4>3. BrowserTypes'
        BY <3>22 DEF DropCancelled, BrowserTypes, CloseConnection, Return
      <4>4. LinkTypes'
        BY <3>22 DEF DropCancelled, LinkTypes, CloseConnection, Return
      <4>5. EngineTypes'
        BY <3>22 DEF DropCancelled, EngineTypes, CloseConnection, Return
      <4>6. CallTypes'
        BY <3>22 DEF DropCancelled, CallTypes, CloseConnection, Return
      <4>7. SpeechTypes'
        BY <3>22 DEF DropCancelled, SpeechTypes, CloseConnection, Return
      <4> QED
        BY <4>1, <4>2, <4>3, <4>4, <4>5, <4>6, <4>7
    <3>23. CASE DropFailed(t)
      <4>1. ThreadTypes'
        BY <3>23 DEF DropFailed, ThreadTypes, CloseConnection
      <4>2. SwitchTypes'
        BY <3>23 DEF DropFailed, SwitchTypes, CloseConnection
      <4>3. BrowserTypes'
        BY <3>23 DEF DropFailed, BrowserTypes, CloseConnection
      <4>4. LinkTypes'
        BY <3>23 DEF DropFailed, LinkTypes, CloseConnection
      <4>5. EngineTypes'
        BY <3>23 DEF DropFailed, EngineTypes, CloseConnection
      <4>6. CallTypes'
        BY <3>23 DEF DropFailed, CallTypes, CloseConnection
      <4>7. SpeechTypes'
        BY <3>23 DEF DropFailed, SpeechTypes, CloseConnection
      <4> QED
        BY <4>1, <4>2, <4>3, <4>4, <4>5, <4>6, <4>7
    <3>24. CASE Killing(t)
      <4>1. ThreadTypes'
        BY <3>24 DEF Killing, ThreadTypes, PmTerminate, ProcessStopped, UrlsGone, ReleaseProfile, Return, PmFree, MaySkip
      <4>2. SwitchTypes'
        BY <3>24 DEF Killing, SwitchTypes, PmTerminate, ProcessStopped, UrlsGone, ReleaseProfile, Return, PmFree, MaySkip
      <4>3. BrowserTypes'
        BY <3>24 DEF Killing, BrowserTypes, PmTerminate, ProcessStopped, UrlsGone, ReleaseProfile, Return, PmFree, MaySkip
      <4>4. LinkTypes'
        BY <3>24 DEF Killing, LinkTypes, PmTerminate, ProcessStopped, UrlsGone, ReleaseProfile, Return, PmFree, MaySkip
      <4>5. EngineTypes'
        BY <3>24 DEF Killing, EngineTypes, PmTerminate, ProcessStopped, UrlsGone, ReleaseProfile, Return, PmFree, MaySkip
      <4>6. CallTypes'
        BY <3>24 DEF Killing, CallTypes, PmTerminate, ProcessStopped, UrlsGone, ReleaseProfile, Return, PmFree, MaySkip
      <4>7. SpeechTypes'
        BY <3>24 DEF Killing, SpeechTypes, PmTerminate, ProcessStopped, UrlsGone, ReleaseProfile, Return, PmFree, MaySkip, BrowserTypes
      <4> QED
        BY <4>1, <4>2, <4>3, <4>4, <4>5, <4>6, <4>7
    <3>25. CASE Capture(t)
      <4>1. ThreadTypes'
        BY <3>25 DEF Capture, ThreadTypes, Return
      <4>2. SwitchTypes'
        BY <3>25 DEF Capture, SwitchTypes, Return
      <4>3. BrowserTypes'
        BY <3>25 DEF Capture, BrowserTypes, Return
      <4>4. LinkTypes'
        BY <3>25 DEF Capture, LinkTypes, Return
      <4>5. EngineTypes'
        BY <3>25 DEF Capture, EngineTypes, Return
      <4>6. CallTypes'
        BY <3>25 DEF Capture, CallTypes, Return
      <4>7. SpeechTypes'
        BY <3>25 DEF Capture, SpeechTypes, Return
      <4> QED
        BY <4>1, <4>2, <4>3, <4>4, <4>5, <4>6, <4>7
    <3>26. CASE Ask(t)
      <4>1. ThreadTypes'
        BY <3>26 DEF Ask, ThreadTypes, Return
      <4>2. SwitchTypes'
        BY <3>26 DEF Ask, SwitchTypes, Return
      <4>3. BrowserTypes'
        BY <3>26 DEF Ask, BrowserTypes, Return
      <4>4. LinkTypes'
        BY <3>26 DEF Ask, LinkTypes, Return
      <4>5. EngineTypes'
        BY <3>26 DEF Ask, EngineTypes, Return
      <4>6. CallTypes'
        BY <3>26 DEF Ask, CallTypes, Return
      <4>7. SpeechTypes'
        BY <3>26 DEF Ask, SpeechTypes, Return
      <4> QED
        BY <4>1, <4>2, <4>3, <4>4, <4>5, <4>6, <4>7
    <3>27. CASE Send(t)
      <4>1. ThreadTypes'
        BY <3>27 DEF Send, ThreadTypes, LeaveRequest, Requesting, IsConnected
      <4>2. SwitchTypes'
        BY <3>27 DEF Send, SwitchTypes, LeaveRequest, Requesting, IsConnected
      <4>3. BrowserTypes'
        BY <3>27 DEF Send, BrowserTypes, LeaveRequest, Requesting, IsConnected
      <4>4. LinkTypes'
        BY <3>27 DEF Send, LinkTypes, LeaveRequest, Requesting, IsConnected
      <4>5. EngineTypes'
        BY <3>27 DEF Send, EngineTypes, LeaveRequest, Requesting, IsConnected
      <4>6. CallTypes'
        BY <3>27 DEF Send, CallTypes, LeaveRequest, Requesting, IsConnected
      <4>7. SpeechTypes'
        BY <3>27 DEF Send, SpeechTypes, LeaveRequest, Requesting, IsConnected
      <4> QED
        BY <4>1, <4>2, <4>3, <4>4, <4>5, <4>6, <4>7
    <3>28. CASE HearAudio(t)
      <4>1. ThreadTypes'
        BY <3>28 DEF HearAudio, ThreadTypes, Requesting
      <4>2. SwitchTypes'
        BY <3>28 DEF HearAudio, SwitchTypes, Requesting
      <4>3. BrowserTypes'
        BY <3>28 DEF HearAudio, BrowserTypes, Requesting
      <4>4. LinkTypes'
        BY <3>28 DEF HearAudio, LinkTypes, Requesting
      <4>5. EngineTypes'
        BY <3>28 DEF HearAudio, EngineTypes, Requesting
      <4>6. CallTypes'
        BY <3>28 DEF HearAudio, CallTypes, Requesting
      <4>7. SpeechTypes'
        BY <3>28 DEF HearAudio, SpeechTypes, Requesting
      <4> QED
        BY <4>1, <4>2, <4>3, <4>4, <4>5, <4>6, <4>7
    <3>29. CASE Answered(t)
      <4>1. ThreadTypes'
        BY <3>29 DEF Answered, ThreadTypes, LeaveRequest, Requesting, Return
      <4>2. SwitchTypes'
        BY <3>29 DEF Answered, SwitchTypes, LeaveRequest, Requesting, Return
      <4>3. BrowserTypes'
        BY <3>29 DEF Answered, BrowserTypes, LeaveRequest, Requesting, Return
      <4>4. LinkTypes'
        BY <3>29 DEF Answered, LinkTypes, LeaveRequest, Requesting, Return
      <4>5. EngineTypes'
        BY <3>29 DEF Answered, EngineTypes, LeaveRequest, Requesting, Return
      <4>6. CallTypes'
        BY <3>29 DEF Answered, CallTypes, LeaveRequest, Requesting, Return
      <4>7. SpeechTypes'
        BY <3>29 DEF Answered, SpeechTypes, LeaveRequest, Requesting, Return
      <4> QED
        BY <4>1, <4>2, <4>3, <4>4, <4>5, <4>6, <4>7
    <3>30. CASE PageRejects(t)
      <4>1. ThreadTypes'
        BY <3>30 DEF PageRejects, ThreadTypes, LeaveRequest, Requesting, Return
      <4>2. SwitchTypes'
        BY <3>30 DEF PageRejects, SwitchTypes, LeaveRequest, Requesting, Return
      <4>3. BrowserTypes'
        BY <3>30 DEF PageRejects, BrowserTypes, LeaveRequest, Requesting, Return
      <4>4. LinkTypes'
        BY <3>30 DEF PageRejects, LinkTypes, LeaveRequest, Requesting, Return
      <4>5. EngineTypes'
        BY <3>30 DEF PageRejects, EngineTypes, LeaveRequest, Requesting, Return
      <4>6. CallTypes'
        BY <3>30 DEF PageRejects, CallTypes, LeaveRequest, Requesting, Return
      <4>7. SpeechTypes'
        BY <3>30 DEF PageRejects, SpeechTypes, LeaveRequest, Requesting, Return
      <4> QED
        BY <4>1, <4>2, <4>3, <4>4, <4>5, <4>6, <4>7
    <3>31. CASE SpeechFails(t)
      <4>1. ThreadTypes'
        BY <3>31 DEF SpeechFails, ThreadTypes, LeaveRequest, Requesting
      <4>2. SwitchTypes'
        BY <3>31 DEF SpeechFails, SwitchTypes, LeaveRequest, Requesting
      <4>3. BrowserTypes'
        BY <3>31 DEF SpeechFails, BrowserTypes, LeaveRequest, Requesting
      <4>4. LinkTypes'
        BY <3>31 DEF SpeechFails, LinkTypes, LeaveRequest, Requesting
      <4>5. EngineTypes'
        BY <3>31 DEF SpeechFails, EngineTypes, LeaveRequest, Requesting
      <4>6. CallTypes'
        BY <3>31 DEF SpeechFails, CallTypes, LeaveRequest, Requesting
      <4>7. SpeechTypes'
        BY <3>31 DEF SpeechFails, SpeechTypes, LeaveRequest, Requesting
      <4> QED
        BY <4>1, <4>2, <4>3, <4>4, <4>5, <4>6, <4>7
    <3>32. CASE RequestFails(t)
      <4>1. ThreadTypes'
        BY <3>32 DEF RequestFails, ThreadTypes, LeaveRequest, Requesting
      <4>2. SwitchTypes'
        BY <3>32 DEF RequestFails, SwitchTypes, LeaveRequest, Requesting
      <4>3. BrowserTypes'
        BY <3>32 DEF RequestFails, BrowserTypes, LeaveRequest, Requesting
      <4>4. LinkTypes'
        BY <3>32 DEF RequestFails, LinkTypes, LeaveRequest, Requesting
      <4>5. EngineTypes'
        BY <3>32 DEF RequestFails, EngineTypes, LeaveRequest, Requesting
      <4>6. CallTypes'
        BY <3>32 DEF RequestFails, CallTypes, LeaveRequest, Requesting
      <4>7. SpeechTypes'
        BY <3>32 DEF RequestFails, SpeechTypes, LeaveRequest, Requesting
      <4> QED
        BY <4>1, <4>2, <4>3, <4>4, <4>5, <4>6, <4>7
    <3>33. CASE RequestCancelled(t)
      <4>1. ThreadTypes'
        BY <3>33 DEF RequestCancelled, ThreadTypes, LeaveRequest, Requesting, Return
      <4>2. SwitchTypes'
        BY <3>33 DEF RequestCancelled, SwitchTypes, LeaveRequest, Requesting, Return
      <4>3. BrowserTypes'
        BY <3>33 DEF RequestCancelled, BrowserTypes, LeaveRequest, Requesting, Return
      <4>4. LinkTypes'
        BY <3>33 DEF RequestCancelled, LinkTypes, LeaveRequest, Requesting, Return
      <4>5. EngineTypes'
        BY <3>33 DEF RequestCancelled, EngineTypes, LeaveRequest, Requesting, Return
      <4>6. CallTypes'
        BY <3>33 DEF RequestCancelled, CallTypes, LeaveRequest, Requesting, Return
      <4>7. SpeechTypes'
        BY <3>33 DEF RequestCancelled, SpeechTypes, LeaveRequest, Requesting, Return
      <4> QED
        BY <4>1, <4>2, <4>3, <4>4, <4>5, <4>6, <4>7
    <3>34. CASE Mark(t)
      <4>1. ThreadTypes'
        BY <3>34 DEF Mark, ThreadTypes, Return
      <4>2. SwitchTypes'
        BY <3>34 DEF Mark, SwitchTypes, Return
      <4>3. BrowserTypes'
        BY <3>34 DEF Mark, BrowserTypes, Return
      <4>4. LinkTypes'
        BY <3>34 DEF Mark, LinkTypes, Return
      <4>5. EngineTypes'
        BY <3>34 DEF Mark, EngineTypes, Return
      <4>6. CallTypes'
        BY <3>34 DEF Mark, CallTypes, Return
      <4>7. SpeechTypes'
        BY <3>34 DEF Mark, SpeechTypes, Return
      <4> QED
        BY <4>1, <4>2, <4>3, <4>4, <4>5, <4>6, <4>7
    <3>35. CASE Retry(t)
      <4>1. ThreadTypes'
        BY <3>35 DEF Retry, ThreadTypes, Return, StartRecycle, RecycleDue
      <4>2. SwitchTypes'
        BY <3>35 DEF Retry, SwitchTypes, Return, StartRecycle, RecycleDue
      <4>3. BrowserTypes'
        BY <3>35 DEF Retry, BrowserTypes, Return, StartRecycle, RecycleDue
      <4>4. LinkTypes'
        BY <3>35 DEF Retry, LinkTypes, Return, StartRecycle, RecycleDue
      <4>5. EngineTypes'
        BY <3>35 DEF Retry, EngineTypes, Return, StartRecycle, RecycleDue
      <4>6. CallTypes'
        BY <3>35 DEF Retry, CallTypes, Return, StartRecycle, RecycleDue
      <4>7. SpeechTypes'
        BY <3>35 DEF Retry, SpeechTypes, Return, StartRecycle, RecycleDue
      <4> QED
        BY <4>1, <4>2, <4>3, <4>4, <4>5, <4>6, <4>7
    <3>36. CASE CloseForRecycle(t)
      <4>1. ThreadTypes'
        BY <3>36, DecisionLeadsOn DEF CloseForRecycle, ThreadTypes, CloseConnection
      <4>2. SwitchTypes'
        BY <3>36, DecisionLeadsOn DEF CloseForRecycle, SwitchTypes, CloseConnection
      <4>3. BrowserTypes'
        BY <3>36, DecisionLeadsOn DEF CloseForRecycle, BrowserTypes, CloseConnection
      <4>4. LinkTypes'
        BY <3>36, DecisionLeadsOn DEF CloseForRecycle, LinkTypes, CloseConnection
      <4>5. EngineTypes'
        BY <3>36, DecisionLeadsOn DEF CloseForRecycle, EngineTypes, CloseConnection
      <4>6. CallTypes'
        BY <3>36, DecisionLeadsOn DEF CloseForRecycle, CallTypes, CloseConnection
      <4>7. SpeechTypes'
        BY <3>36, DecisionLeadsOn DEF CloseForRecycle, SpeechTypes, CloseConnection
      <4> QED
        BY <4>1, <4>2, <4>3, <4>4, <4>5, <4>6, <4>7
    <3> QED
      BY <2>1, <3>1, <3>2, <3>3, <3>4, <3>5, <3>6, <3>7, <3>8, <3>9, <3>10, <3>11, <3>12, <3>13, <3>14, <3>15, <3>16, <3>17, <3>18, <3>19, <3>20, <3>21, <3>22, <3>23, <3>24, <3>25, <3>26, <3>27, <3>28, <3>29, <3>30, <3>31, <3>32, <3>33, <3>34, <3>35, <3>36 DEF Step
  <2>2. CASE Terminate
    <3>1. ThreadTypes'
      BY <2>2 DEF Terminate, ThreadTypes, CloseConnection
    <3>2. SwitchTypes'
      BY <2>2 DEF Terminate, SwitchTypes, CloseConnection
    <3>3. BrowserTypes'
      BY <2>2 DEF Terminate, BrowserTypes, CloseConnection
    <3>4. LinkTypes'
      BY <2>2 DEF Terminate, LinkTypes, CloseConnection
    <3>5. EngineTypes'
      BY <2>2 DEF Terminate, EngineTypes, CloseConnection
    <3>6. CallTypes'
      BY <2>2 DEF Terminate, CallTypes, CloseConnection
    <3>7. SpeechTypes'
      BY <2>2 DEF Terminate, SpeechTypes, CloseConnection
    <3> QED
      BY <3>1, <3>2, <3>3, <3>4, <3>5, <3>6, <3>7
  <2>3. CASE FinishTerminate
    <3>1. ThreadTypes'
      BY <2>3 DEF FinishTerminate, ThreadTypes, PmTerminate, ProcessStopped, UrlsGone, ReleaseProfile, FreshEngine, PmFree
    <3>2. SwitchTypes'
      BY <2>3 DEF FinishTerminate, SwitchTypes, PmTerminate, ProcessStopped, UrlsGone, ReleaseProfile, FreshEngine, PmFree
    <3>3. BrowserTypes'
      BY <2>3 DEF FinishTerminate, BrowserTypes, PmTerminate, ProcessStopped, UrlsGone, ReleaseProfile, FreshEngine, PmFree
    <3>4. LinkTypes'
      BY <2>3 DEF FinishTerminate, LinkTypes, PmTerminate, ProcessStopped, UrlsGone, ReleaseProfile, FreshEngine, PmFree
    <3>5. EngineTypes'
      BY <2>3 DEF FinishTerminate, EngineTypes, PmTerminate, ProcessStopped, UrlsGone, ReleaseProfile, FreshEngine, PmFree
    <3>6. CallTypes'
      BY <2>3 DEF FinishTerminate, CallTypes, PmTerminate, ProcessStopped, UrlsGone, ReleaseProfile, FreshEngine, PmFree
    <3>7. SpeechTypes'
      BY <2>3 DEF FinishTerminate, SpeechTypes, PmTerminate, ProcessStopped, UrlsGone, ReleaseProfile, FreshEngine, PmFree
    <3> QED
      BY <3>1, <3>2, <3>3, <3>4, <3>5, <3>6, <3>7
  <2>4. CASE Crash
    <3>1. ThreadTypes'
      BY <2>4 DEF Crash, ThreadTypes, UrlsGone
    <3>2. SwitchTypes'
      BY <2>4 DEF Crash, SwitchTypes, UrlsGone
    <3>3. BrowserTypes'
      BY <2>4 DEF Crash, BrowserTypes, UrlsGone
    <3>4. LinkTypes'
      BY <2>4 DEF Crash, LinkTypes, UrlsGone
    <3>5. EngineTypes'
      BY <2>4 DEF Crash, EngineTypes, UrlsGone
    <3>6. CallTypes'
      BY <2>4 DEF Crash, CallTypes, UrlsGone
    <3>7. SpeechTypes'
      BY <2>4 DEF Crash, SpeechTypes, UrlsGone
    <3> QED
      BY <3>1, <3>2, <3>3, <3>4, <3>5, <3>6, <3>7
  <2>5. CASE SocketDropped
    <3>1. ThreadTypes'
      BY <2>5 DEF SocketDropped, ThreadTypes, CloseConnection
    <3>2. SwitchTypes'
      BY <2>5 DEF SocketDropped, SwitchTypes, CloseConnection
    <3>3. BrowserTypes'
      BY <2>5 DEF SocketDropped, BrowserTypes, CloseConnection
    <3>4. LinkTypes'
      BY <2>5 DEF SocketDropped, LinkTypes, CloseConnection
    <3>5. EngineTypes'
      BY <2>5 DEF SocketDropped, EngineTypes, CloseConnection
    <3>6. CallTypes'
      BY <2>5 DEF SocketDropped, CallTypes, CloseConnection
    <3>7. SpeechTypes'
      BY <2>5 DEF SocketDropped, SpeechTypes, CloseConnection
    <3> QED
      BY <3>1, <3>2, <3>3, <3>4, <3>5, <3>6, <3>7
  <2>6. CASE UNCHANGED vars
    BY <2>6 DEF vars, ThreadTypes, SwitchTypes, BrowserTypes, LinkTypes, EngineTypes, CallTypes, SpeechTypes
  <2> QED
    BY <2>1, <2>2, <2>3, <2>4, <2>5, <2>6 DEF Next
<1> QED
  BY <1>1, <1>2, PTL DEF Spec

\* Each lock's owner is the thread whose pc is inside that lock's region.
THEOREM LocksCorrect == Spec => []LocksOwned
<1>1. Init => LocksOwned
  BY ThreadsDistinct DEF Init, LocksOwned
<1>2. TypeOK /\ LocksOwned /\ [Next]_vars => LocksOwned'
  <2> SUFFICES ASSUME TypeOK, LocksOwned, [Next]_vars PROVE LocksOwned'
    OBVIOUS
  <2> USE ThreadsDistinct DEF LocksOwned, TypeOK, ThreadTypes, Goto, lockVars, procVars, connVars, flagVars, callVars, startVars, speechVars
  <2>1. ASSUME NEW t \in Clients, Call(t) \/ Cancel(t) \/ Step(t) \/ HearAudio(t)
        PROVE  LocksOwned'
    <3>1. CASE Call(t)
      BY <3>1 DEF Call, OpsOf, FirstLabel
    <3>2. CASE Cancel(t)
      BY <3>2 DEF Cancel
    <3>3. CASE Begin(t)
      BY <3>3 DEF Begin, Return, StartRecycle, RecycleDue
    <3>4. CASE Tidy(t)
      BY <3>4 DEF Tidy, Return, StartRecycle, RecycleDue
    <3>5. CASE FinishRecycle(t)
      <4>1. pc' = [pc EXCEPT ![t] = "ensure"] \/ pc' = [pc EXCEPT ![t] = "idle"] \/ pc' = [pc EXCEPT ![t] = "begin"]
        BY <3>5 DEF FinishRecycle, Return
      <4>2. bridgeLock' = Nobody /\ UNCHANGED <<connLock, pmLock>> /\ pc[t] \in Recycling
        BY <3>5 DEF FinishRecycle, Return
      <4> QED
        BY <4>1, <4>2
    <3>6. CASE Ensure(t)
      BY <3>6 DEF Ensure, Return, IsConnected
    <3>7. CASE Acquire(t)
      BY <3>7 DEF Acquire, Return
    <3>8. CASE Recheck(t)
      BY <3>8 DEF Recheck, IsConnected
    <3>9. CASE Attempt(t)
      BY <3>9 DEF Attempt, Return
    <3>10. CASE Start(t)
      BY <3>10 DEF Start, StopBrowser, ProcessStopped, UrlsGone, ReleaseProfile, RemoveProfile, PmFree
    <3>11. CASE Launch(t)
      BY <3>11 DEF Launch, LeavePm, OpenProfile, Spawn, ProcessStopped, UrlsGone
    <3>12. CASE Relaunch(t)
      BY <3>12 DEF Relaunch, LeavePm, OpenProfile, Spawn, Tried
    <3>13. CASE Port(t)
      BY <3>13 DEF Port, LeavePm, StopBrowser, ProcessStopped, UrlsGone, RemoveProfile, ReleaseProfile
    <3>14. CASE Page(t)
      BY <3>14 DEF Page, LeavePm, StopBrowser, ProcessStopped, UrlsGone, RemoveProfile, ReleaseProfile
    <3>15. CASE Note(t)
      BY <3>15 DEF Note
    <3>16. CASE Connect(t)
      BY <3>16 DEF Connect
    <3>17. CASE Enable(t)
      BY <3>17 DEF Enable, TakeBridge
    <3>18. CASE Enabled(t)
      BY <3>18 DEF Enabled, AwaitBrowser, IsConnected
    <3>19. CASE Await(t)
      BY <3>19 DEF Await, TakeBridge
    <3>20. CASE Awaited(t)
      BY <3>20 DEF Awaited, AwaitBrowser, IsConnected
    <3>21. CASE Stamp(t)
      BY <3>21 DEF Stamp
    <3>22. CASE DropCancelled(t)
      BY <3>22 DEF DropCancelled, CloseConnection, Return
    <3>23. CASE DropFailed(t)
      BY <3>23 DEF DropFailed, CloseConnection
    <3>24. CASE Killing(t)
      BY <3>24 DEF Killing, PmTerminate, ProcessStopped, UrlsGone, ReleaseProfile, Return, PmFree, MaySkip
    <3>25. CASE Capture(t)
      BY <3>25 DEF Capture, Return
    <3>26. CASE Ask(t)
      <4>1. pc' = [pc EXCEPT ![t] = "send"] \/ pc' = [pc EXCEPT ![t] = "idle"]
        BY <3>26 DEF Ask, Return
      <4>2. UNCHANGED lockVars /\ pc[t] = "ask"
        BY <3>26 DEF Ask, Return
      <4> QED
        BY <4>1, <4>2
    <3>27. CASE Send(t)
      <4>1. pc' = [pc EXCEPT ![t] = "wait"] \/ pc' = [pc EXCEPT ![t] = "mark"]
        BY <3>27 DEF Send
      <4>2. UNCHANGED lockVars /\ pc[t] = "send"
        BY <3>27 DEF Send, Requesting
      <4> QED
        BY <4>1, <4>2
    <3>28. CASE HearAudio(t)
      BY <3>28 DEF HearAudio, Requesting
    <3>29. CASE Answered(t)
      BY <3>29 DEF Answered, LeaveRequest, Requesting, Return
    <3>30. CASE PageRejects(t)
      BY <3>30 DEF PageRejects, LeaveRequest, Requesting, Return
    <3>31. CASE SpeechFails(t)
      BY <3>31 DEF SpeechFails, LeaveRequest, Requesting
    <3>32. CASE RequestFails(t)
      BY <3>32 DEF RequestFails, LeaveRequest, Requesting
    <3>33. CASE RequestCancelled(t)
      BY <3>33 DEF RequestCancelled, LeaveRequest, Requesting, Return
    <3>34. CASE Mark(t)
      BY <3>34 DEF Mark, Return
    <3>35. CASE Retry(t)
      BY <3>35 DEF Retry, Return, StartRecycle, RecycleDue
    <3>36. CASE CloseForRecycle(t)
      BY <3>36, DecisionLeadsOn DEF CloseForRecycle, CloseConnection
    <3> QED
      BY <2>1, <3>1, <3>2, <3>3, <3>4, <3>5, <3>6, <3>7, <3>8, <3>9, <3>10, <3>11, <3>12, <3>13, <3>14, <3>15, <3>16, <3>17, <3>18, <3>19, <3>20, <3>21, <3>22, <3>23, <3>24, <3>25, <3>26, <3>27, <3>28, <3>29, <3>30, <3>31, <3>32, <3>33, <3>34, <3>35, <3>36 DEF Step
  <2>2. CASE Terminate
    BY <2>2 DEF Terminate, CloseConnection
  <2>3. CASE FinishTerminate
    BY <2>3 DEF FinishTerminate, PmTerminate, ProcessStopped, UrlsGone, ReleaseProfile, FreshEngine, PmFree
  <2>4. CASE Crash
    BY <2>4 DEF Crash, UrlsGone
  <2>5. CASE SocketDropped
    BY <2>5 DEF SocketDropped, CloseConnection
  <2>6. CASE UNCHANGED vars
    BY <2>6 DEF vars
  <2> QED
    BY <2>1, <2>2, <2>3, <2>4, <2>5, <2>6 DEF Next
<1> QED
  BY <1>1, <1>2, TypeCorrect, PTL DEF Spec

\* A half-prepared connection belongs to the startup that is at the matching step.
THEOREM StagesCorrect == Spec => []StageOwned
<1>1. Init => StageOwned
  BY ThreadsDistinct DEF Init, StageOwned
<1>2. TypeOK /\ LocksOwned /\ StageOwned /\ [Next]_vars => StageOwned'
  <2> SUFFICES ASSUME TypeOK, LocksOwned, StageOwned, [Next]_vars PROVE StageOwned'
    OBVIOUS
  <2> USE ThreadsDistinct DEF StageOwned, TypeOK, ThreadTypes, LocksOwned, Goto, lockVars, procVars, connVars, flagVars, callVars, startVars, speechVars
  <2>1. ASSUME NEW t \in Clients, Call(t) \/ Cancel(t) \/ Step(t) \/ HearAudio(t)
        PROVE  StageOwned'
    <3>1. CASE Call(t)
      BY <3>1 DEF Call, OpsOf, FirstLabel
    <3>2. CASE Cancel(t)
      BY <3>2 DEF Cancel
    <3>3. CASE Begin(t)
      BY <3>3 DEF Begin, Return, StartRecycle, RecycleDue
    <3>4. CASE Tidy(t)
      BY <3>4 DEF Tidy, Return, StartRecycle, RecycleDue
    <3>5. CASE FinishRecycle(t)
      BY <3>5 DEF FinishRecycle, Return, PmTerminate, ProcessStopped, UrlsGone, ReleaseProfile, FreshEngine, MayRetry, Recycling, PmFree
    <3>6. CASE Ensure(t)
      BY <3>6 DEF Ensure, Return, IsConnected
    <3>7. CASE Acquire(t)
      BY <3>7 DEF Acquire, Return
    <3>8. CASE Recheck(t)
      BY <3>8 DEF Recheck, IsConnected
    <3>9. CASE Attempt(t)
      BY <3>9 DEF Attempt, Return
    <3>10. CASE Start(t)
      BY <3>10 DEF Start, StopBrowser, ProcessStopped, UrlsGone, ReleaseProfile, RemoveProfile, PmFree
    <3>11. CASE Launch(t)
      BY <3>11 DEF Launch, LeavePm, OpenProfile, Spawn, ProcessStopped, UrlsGone
    <3>12. CASE Relaunch(t)
      BY <3>12 DEF Relaunch, LeavePm, OpenProfile, Spawn, Tried
    <3>13. CASE Port(t)
      BY <3>13 DEF Port, LeavePm, StopBrowser, ProcessStopped, UrlsGone, RemoveProfile, ReleaseProfile
    <3>14. CASE Page(t)
      BY <3>14 DEF Page, LeavePm, StopBrowser, ProcessStopped, UrlsGone, RemoveProfile, ReleaseProfile
    <3>15. CASE Note(t)
      BY <3>15 DEF Note
    <3>16. CASE Connect(t)
      BY <3>16 DEF Connect
    <3>17. CASE Enable(t)
      BY <3>17 DEF Enable, TakeBridge
    <3>18. CASE Enabled(t)
      BY <3>18 DEF Enabled, AwaitBrowser, IsConnected
    <3>19. CASE Await(t)
      BY <3>19 DEF Await, TakeBridge
    <3>20. CASE Awaited(t)
      BY <3>20 DEF Awaited, AwaitBrowser, IsConnected
    <3>21. CASE Stamp(t)
      BY <3>21 DEF Stamp
    <3>22. CASE DropCancelled(t)
      BY <3>22 DEF DropCancelled, CloseConnection, Return
    <3>23. CASE DropFailed(t)
      BY <3>23 DEF DropFailed, CloseConnection
    <3>24. CASE Killing(t)
      BY <3>24 DEF Killing, PmTerminate, ProcessStopped, UrlsGone, ReleaseProfile, Return, PmFree, MaySkip
    <3>25. CASE Capture(t)
      BY <3>25 DEF Capture, Return
    <3>26. CASE Ask(t)
      BY <3>26 DEF Ask, Return
    <3>27. CASE Send(t)
      BY <3>27 DEF Send, LeaveRequest, Requesting, IsConnected
    <3>28. CASE HearAudio(t)
      BY <3>28 DEF HearAudio, Requesting
    <3>29. CASE Answered(t)
      BY <3>29 DEF Answered, LeaveRequest, Requesting, Return
    <3>30. CASE PageRejects(t)
      BY <3>30 DEF PageRejects, LeaveRequest, Requesting, Return
    <3>31. CASE SpeechFails(t)
      BY <3>31 DEF SpeechFails, LeaveRequest, Requesting
    <3>32. CASE RequestFails(t)
      BY <3>32 DEF RequestFails, LeaveRequest, Requesting
    <3>33. CASE RequestCancelled(t)
      BY <3>33 DEF RequestCancelled, LeaveRequest, Requesting, Return
    <3>34. CASE Mark(t)
      BY <3>34 DEF Mark, Return
    <3>35. CASE Retry(t)
      BY <3>35 DEF Retry, Return, StartRecycle, RecycleDue
    <3>36. CASE CloseForRecycle(t)
      BY <3>36, DecisionLeadsOn DEF CloseForRecycle, CloseConnection
    <3> QED
      BY <2>1, <3>1, <3>2, <3>3, <3>4, <3>5, <3>6, <3>7, <3>8, <3>9, <3>10, <3>11, <3>12, <3>13, <3>14, <3>15, <3>16, <3>17, <3>18, <3>19, <3>20, <3>21, <3>22, <3>23, <3>24, <3>25, <3>26, <3>27, <3>28, <3>29, <3>30, <3>31, <3>32, <3>33, <3>34, <3>35, <3>36 DEF Step
  <2>2. CASE Terminate
    BY <2>2 DEF Terminate, CloseConnection
  <2>3. CASE FinishTerminate
    BY <2>3 DEF FinishTerminate, PmTerminate, ProcessStopped, UrlsGone, ReleaseProfile, FreshEngine, PmFree
  <2>4. CASE Crash
    BY <2>4 DEF Crash, UrlsGone
  <2>5. CASE SocketDropped
    BY <2>5 DEF SocketDropped, CloseConnection
  <2>6. CASE UNCHANGED vars
    BY <2>6 DEF vars
  <2> QED
    BY <2>1, <2>2, <2>3, <2>4, <2>5, <2>6 DEF Next
<1> QED
  BY <1>1, <1>2, TypeCorrect, LocksCorrect, PTL DEF Spec

\* A websocket that is open although its page is not ready is in the hands of the
\* thread that holds the connection lock, whatever fails or is cancelled.
THEOREM ReadyOutsideStartup == Spec => []ReadyUnlessStarting
<1>1. StageOwned => ReadyUnlessStarting
  BY DEF StageOwned, ReadyUnlessStarting
<1> QED
  BY <1>1, StagesCorrect, PTL

\* A process is started only where the handle refers to none, and a live browser is
\* left behind only with its port known.
THEOREM HandleCorrect == Spec => []HandleKept
<1>1. Init => HandleKept
  BY ThreadsDistinct DEF Init, HandleKept
<1>2. TypeOK /\ LocksOwned /\ HandleKept /\ [Next]_vars => HandleKept'
  <2> SUFFICES ASSUME TypeOK, LocksOwned, HandleKept, [Next]_vars PROVE HandleKept'
    OBVIOUS
  <2> USE ThreadsDistinct DEF HandleKept, TypeOK, ThreadTypes, BrowserTypes, LocksOwned, Goto, lockVars, procVars, connVars, flagVars, callVars, startVars, speechVars
  <2>1. ASSUME NEW t \in Clients, Call(t) \/ Cancel(t) \/ Step(t) \/ HearAudio(t)
        PROVE  HandleKept'
    <3>1. CASE Call(t)
      BY <3>1 DEF Call, OpsOf, FirstLabel
    <3>2. CASE Cancel(t)
      BY <3>2 DEF Cancel
    <3>3. CASE Begin(t)
      BY <3>3 DEF Begin, Return, StartRecycle, RecycleDue
    <3>4. CASE Tidy(t)
      BY <3>4 DEF Tidy, Return, StartRecycle, RecycleDue
    <3>5. CASE FinishRecycle(t)
      <4>1. proc' = "none" /\ UNCHANGED <<orphans, pmLock>> /\ pmLock = Nobody
        BY <3>5 DEF FinishRecycle, PmTerminate, ProcessStopped, PmFree
      <4>2. \E l \in {"ensure", "idle", "begin"} : pc' = [pc EXCEPT ![t] = l]
        BY <3>5 DEF FinishRecycle, Return
      <4>3. \A u \in Clients : pc[u] \notin InPm
        BY <4>1
      <4> QED BY <4>1, <4>2, <4>3
    <3>6. CASE Ensure(t)
      BY <3>6 DEF Ensure, Return, IsConnected
    <3>7. CASE Acquire(t)
      BY <3>7 DEF Acquire, Return
    <3>8. CASE Recheck(t)
      BY <3>8 DEF Recheck, IsConnected
    <3>9. CASE Attempt(t)
      BY <3>9 DEF Attempt, Return
    <3>10. CASE Start(t)
      BY <3>10 DEF Start, StopBrowser, ProcessStopped, UrlsGone, ReleaseProfile, RemoveProfile, PmFree
    <3>11. CASE Launch(t)
      BY <3>11 DEF Launch, LeavePm, OpenProfile, Spawn, ProcessStopped, UrlsGone
    <3>12. CASE Relaunch(t)
      BY <3>12 DEF Relaunch, LeavePm, OpenProfile, Spawn, Tried
    <3>13. CASE Port(t)
      BY <3>13 DEF Port, LeavePm, StopBrowser, ProcessStopped, UrlsGone, RemoveProfile, ReleaseProfile
    <3>14. CASE Page(t)
      BY <3>14 DEF Page, LeavePm, StopBrowser, ProcessStopped, UrlsGone, RemoveProfile, ReleaseProfile
    <3>15. CASE Note(t)
      BY <3>15 DEF Note
    <3>16. CASE Connect(t)
      BY <3>16 DEF Connect
    <3>17. CASE Enable(t)
      BY <3>17 DEF Enable, TakeBridge
    <3>18. CASE Enabled(t)
      BY <3>18 DEF Enabled, AwaitBrowser, IsConnected
    <3>19. CASE Await(t)
      BY <3>19 DEF Await, TakeBridge
    <3>20. CASE Awaited(t)
      BY <3>20 DEF Awaited, AwaitBrowser, IsConnected
    <3>21. CASE Stamp(t)
      BY <3>21 DEF Stamp
    <3>22. CASE DropCancelled(t)
      BY <3>22 DEF DropCancelled, CloseConnection, Return
    <3>23. CASE DropFailed(t)
      BY <3>23 DEF DropFailed, CloseConnection
    <3>24. CASE Killing(t)
      BY <3>24 DEF Killing, PmTerminate, ProcessStopped, UrlsGone, ReleaseProfile, Return, PmFree, MaySkip
    <3>25. CASE Capture(t)
      BY <3>25 DEF Capture, Return
    <3>26. CASE Ask(t)
      BY <3>26 DEF Ask, Return
    <3>27. CASE Send(t)
      <4>1. /\ UNCHANGED <<proc, orphans, port, pmLock>>
            /\ \E l \in {"wait", "mark"} : pc' = [pc EXCEPT ![t] = l]
        BY <3>27 DEF Send, Requesting
      <4> QED BY <4>1
    <3>28. CASE HearAudio(t)
      BY <3>28 DEF HearAudio, Requesting
    <3>29. CASE Answered(t)
      BY <3>29 DEF Answered, LeaveRequest, Requesting, Return
    <3>30. CASE PageRejects(t)
      BY <3>30 DEF PageRejects, LeaveRequest, Requesting, Return
    <3>31. CASE SpeechFails(t)
      BY <3>31 DEF SpeechFails, LeaveRequest, Requesting
    <3>32. CASE RequestFails(t)
      BY <3>32 DEF RequestFails, LeaveRequest, Requesting
    <3>33. CASE RequestCancelled(t)
      BY <3>33 DEF RequestCancelled, LeaveRequest, Requesting, Return
    <3>34. CASE Mark(t)
      BY <3>34 DEF Mark, Return
    <3>35. CASE Retry(t)
      BY <3>35 DEF Retry, Return, StartRecycle, RecycleDue
    <3>36. CASE CloseForRecycle(t)
      BY <3>36, DecisionLeadsOn DEF CloseForRecycle, CloseConnection
    <3> QED
      BY <2>1, <3>1, <3>2, <3>3, <3>4, <3>5, <3>6, <3>7, <3>8, <3>9, <3>10, <3>11, <3>12, <3>13, <3>14, <3>15, <3>16, <3>17, <3>18, <3>19, <3>20, <3>21, <3>22, <3>23, <3>24, <3>25, <3>26, <3>27, <3>28, <3>29, <3>30, <3>31, <3>32, <3>33, <3>34, <3>35, <3>36 DEF Step
  <2>2. CASE Terminate
    BY <2>2 DEF Terminate, CloseConnection
  <2>3. CASE FinishTerminate
    BY <2>3 DEF FinishTerminate, PmTerminate, ProcessStopped, UrlsGone, ReleaseProfile, FreshEngine, PmFree
  <2>4. CASE Crash
    BY <2>4 DEF Crash, UrlsGone
  <2>5. CASE SocketDropped
    BY <2>5 DEF SocketDropped, CloseConnection
  <2>6. CASE UNCHANGED vars
    BY <2>6 DEF vars
  <2> QED
    BY <2>1, <2>2, <2>3, <2>4, <2>5, <2>6 DEF Next
<1> QED
  BY <1>1, <1>2, TypeCorrect, LocksCorrect, PTL DEF Spec

\* No interleaving of starts, cancellations, recycles and terminations loses a
\* running browser process.
THEOREM NoBrowserOrphaned == Spec => []NoOrphanBrowser
<1>1. HandleKept => NoOrphanBrowser
  BY DEF HandleKept, NoOrphanBrowser
<1> QED
  BY <1>1, HandleCorrect, PTL

\* Audio is counted once per attempt, and no attempt follows one that was heard.
THEOREM AttemptsCorrect == Spec => []HeardOnce
<1>1. Init => HeardOnce
  BY ThreadsDistinct DEF Init, HeardOnce
<1>2. TypeOK /\ HeardOnce /\ [Next]_vars => HeardOnce'
  <2> SUFFICES ASSUME TypeOK, HeardOnce, [Next]_vars PROVE HeardOnce'
    OBVIOUS
  <2> USE ThreadsDistinct DEF HeardOnce, TypeOK, ThreadTypes, SpeechTypes, Goto, lockVars, procVars, connVars, flagVars, callVars, startVars, speechVars
  <2>1. ASSUME NEW t \in Clients, Call(t) \/ Cancel(t) \/ Step(t) \/ HearAudio(t)
        PROVE  HeardOnce'
    <3>1. CASE Call(t)
      BY <3>1 DEF Call, OpsOf, FirstLabel
    <3>2. CASE Cancel(t)
      BY <3>2 DEF Cancel
    <3>3. CASE Begin(t)
      BY <3>3 DEF Begin, Return, StartRecycle, RecycleDue
    <3>4. CASE Tidy(t)
      BY <3>4 DEF Tidy, Return, StartRecycle, RecycleDue
    <3>5. CASE FinishRecycle(t)
      <4>1. UNCHANGED <<audio, heard>> /\ pc[t] \in Recycling
        BY <3>5 DEF FinishRecycle
      <4>2. CASE pc' = [pc EXCEPT ![t] = "idle"]
        BY <4>1, <4>2
      <4>3. CASE \E l \in {"ensure", "begin"} : pc' = [pc EXCEPT ![t] = l] /\ ~audio[t]
        BY <4>1, <4>3
      <4>4. pc[t] # "recycleRetry" => ~audio[t]
        BY <4>1
      <4>5. CASE pc[t] = "recycleRetry"
        BY <3>5, <4>2, <4>3, <4>5 DEF FinishRecycle, Return, MayRetry
      <4>6. CASE pc[t] # "recycleRetry"
        BY <3>5, <4>1, <4>2, <4>3, <4>4, <4>6 DEF FinishRecycle, Return
      <4> QED BY <4>5, <4>6
    <3>6. CASE Ensure(t)
      BY <3>6 DEF Ensure, Return, IsConnected
    <3>7. CASE Acquire(t)
      BY <3>7 DEF Acquire, Return
    <3>8. CASE Recheck(t)
      BY <3>8 DEF Recheck, IsConnected
    <3>9. CASE Attempt(t)
      BY <3>9 DEF Attempt, Return
    <3>10. CASE Start(t)
      BY <3>10 DEF Start, StopBrowser, ProcessStopped, UrlsGone, ReleaseProfile, RemoveProfile, PmFree
    <3>11. CASE Launch(t)
      BY <3>11 DEF Launch, LeavePm, OpenProfile, Spawn, ProcessStopped, UrlsGone
    <3>12. CASE Relaunch(t)
      BY <3>12 DEF Relaunch, LeavePm, OpenProfile, Spawn, Tried
    <3>13. CASE Port(t)
      BY <3>13 DEF Port, LeavePm, StopBrowser, ProcessStopped, UrlsGone, RemoveProfile, ReleaseProfile
    <3>14. CASE Page(t)
      BY <3>14 DEF Page, LeavePm, StopBrowser, ProcessStopped, UrlsGone, RemoveProfile, ReleaseProfile
    <3>15. CASE Note(t)
      BY <3>15 DEF Note
    <3>16. CASE Connect(t)
      BY <3>16 DEF Connect
    <3>17. CASE Enable(t)
      BY <3>17 DEF Enable, TakeBridge
    <3>18. CASE Enabled(t)
      BY <3>18 DEF Enabled, AwaitBrowser, IsConnected
    <3>19. CASE Await(t)
      BY <3>19 DEF Await, TakeBridge
    <3>20. CASE Awaited(t)
      BY <3>20 DEF Awaited, AwaitBrowser, IsConnected
    <3>21. CASE Stamp(t)
      BY <3>21 DEF Stamp
    <3>22. CASE DropCancelled(t)
      BY <3>22 DEF DropCancelled, CloseConnection, Return
    <3>23. CASE DropFailed(t)
      BY <3>23 DEF DropFailed, CloseConnection
    <3>24. CASE Killing(t)
      BY <3>24 DEF Killing, PmTerminate, ProcessStopped, UrlsGone, ReleaseProfile, Return, PmFree, MaySkip
    <3>25. CASE Capture(t)
      BY <3>25 DEF Capture, Return
    <3>26. CASE Ask(t)
      BY <3>26 DEF Ask, Return
    <3>27. CASE Send(t)
      BY <3>27 DEF Send, LeaveRequest, Requesting, IsConnected
    <3>28. CASE HearAudio(t)
      BY <3>28 DEF HearAudio, Requesting
    <3>29. CASE Answered(t)
      BY <3>29 DEF Answered, LeaveRequest, Requesting, Return
    <3>30. CASE PageRejects(t)
      BY <3>30 DEF PageRejects, LeaveRequest, Requesting, Return
    <3>31. CASE SpeechFails(t)
      BY <3>31 DEF SpeechFails, LeaveRequest, Requesting
    <3>32. CASE RequestFails(t)
      BY <3>32 DEF RequestFails, LeaveRequest, Requesting
    <3>33. CASE RequestCancelled(t)
      BY <3>33 DEF RequestCancelled, LeaveRequest, Requesting, Return
    <3>34. CASE Mark(t)
      BY <3>34 DEF Mark, Return
    <3>35. CASE Retry(t)
      BY <3>35 DEF Retry, Return, StartRecycle, RecycleDue
    <3>36. CASE CloseForRecycle(t)
      BY <3>36, DecisionLeadsOn DEF CloseForRecycle, CloseConnection
    <3> QED
      BY <2>1, <3>1, <3>2, <3>3, <3>4, <3>5, <3>6, <3>7, <3>8, <3>9, <3>10, <3>11, <3>12, <3>13, <3>14, <3>15, <3>16, <3>17, <3>18, <3>19, <3>20, <3>21, <3>22, <3>23, <3>24, <3>25, <3>26, <3>27, <3>28, <3>29, <3>30, <3>31, <3>32, <3>33, <3>34, <3>35, <3>36 DEF Step
  <2>2. CASE Terminate
    BY <2>2 DEF Terminate, CloseConnection
  <2>3. CASE FinishTerminate
    BY <2>3 DEF FinishTerminate, PmTerminate, ProcessStopped, UrlsGone, ReleaseProfile, FreshEngine, PmFree
  <2>4. CASE Crash
    BY <2>4 DEF Crash, UrlsGone
  <2>5. CASE SocketDropped
    BY <2>5 DEF SocketDropped, CloseConnection
  <2>6. CASE UNCHANGED vars
    BY <2>6 DEF vars
  <2> QED
    BY <2>1, <2>2, <2>3, <2>4, <2>5, <2>6 DEF Next
<1> QED
  BY <1>1, <1>2, TypeCorrect, PTL DEF Spec

\* A text is never heard twice, although speak retries it.
THEOREM NoCallHeardTwice == Spec => []OneAttemptHeard
<1>1. HeardOnce => OneAttemptHeard
  BY DEF HeardOnce, OneAttemptHeard
<1> QED
  BY <1>1, AttemptsCorrect, PTL

-----------------------------------------------------------------------------
(* After terminate.  The calls that are left were cancelled first, so none of   *)
(* them starts a browser any more; and once the old one is stopped no address   *)
(* of a page is left to connect to.                                            *)

TidyAlone == \A t \in Clients : op[t] = "tidy" => pc[t] \in {"idle", "tidy", "decidedTidy", "recycleTidy"}
AfterTerminate ==
  retired =>
    /\ \A t \in Clients : pc[t] = "idle" \/ cancelled[t] \/ op[t] = "tidy"
    /\ conn = "none"
    /\ pc[Main] = "terminating" \/ (proc = "none" /\ \A t \in Clients : url[t] # "good")
Retired == TidyAlone /\ AfterTerminate

\* Steps that begin no call, open no connection and start no browser.
LEMMA RetiredRest ==
  ASSUME Retired, UNCHANGED <<retired, op>>, pc'[Main] = pc[Main],
         \A t \in Clients : /\ cancelled[t] => cancelled'[t]
                            /\ pc[t] = "idle" => pc'[t] = "idle"
                            /\ op[t] = "tidy" => pc'[t] \in {"idle", "tidy", "decidedTidy", "recycleTidy"},
         retired => /\ conn' = "none"
                    /\ pc[Main] = "terminating" \/ (proc' = "none" /\ \A t \in Clients : url'[t] # "good")
  PROVE  Retired'
BY DEF Retired, TidyAlone, AfterTerminate

LEMMA RetiredCall ==
  ASSUME TypeOK, LocksOwned, Retired, NEW t \in Clients, Cancel(t) \/ Step(t) \/ HearAudio(t)
  PROVE  Retired'
<1> USE ThreadsDistinct DEF TypeOK, ThreadTypes, LinkTypes, CallTypes, Goto, Return, lockVars, procVars,
        connVars, flagVars, callVars, startVars, speechVars
<1>1. /\ retired => conn = "none" /\ (pc[t] = "idle" \/ cancelled[t] \/ op[t] = "tidy")
      /\ retired /\ pc[Main] # "terminating" => proc = "none" /\ \A u \in Clients : url[u] # "good"
      /\ op[t] = "tidy" => pc[t] \in {"idle", "tidy", "decidedTidy", "recycleTidy"}
      /\ \A u \in Clients : op[u] = "tidy" => pc[u] \in {"idle", "tidy", "decidedTidy", "recycleTidy"}
      /\ pc[Main] = "terminating" => bridgeLock = Main
  BY DEF Retired, TidyAlone, AfterTerminate, LocksOwned
<1> DEFINE Moves == /\ pc[t] # "idle"
                    /\ \E l \in Labels : /\ pc' = [pc EXCEPT ![t] = l]
                                         /\ op[t] = "tidy" => l \in {"idle", "decidedTidy", "recycleTidy"}
<1>2. CASE Cancel(t) \/ HearAudio(t)
  BY <1>1, <1>2, RetiredRest DEF Cancel, HearAudio, Requesting
<1>3. CASE Begin(t) \/ Tidy(t) \/ Retry(t)
  <2>1. UNCHANGED <<retired, op, cancelled, proc, url, conn>>
    BY <1>3 DEF Begin, Tidy, Retry, StartRecycle
  <2>2. CASE Begin(t)
    <3>1. Moves
      BY <1>1, <2>2 DEF Begin, StartRecycle
    <3> QED BY <1>1, <2>1, <3>1, RetiredRest
  <2>3. CASE Tidy(t)
    <3>1. Moves
      BY <1>1, <2>3 DEF Tidy, StartRecycle
    <3> QED BY <1>1, <2>1, <3>1, RetiredRest
  <2>4. CASE Retry(t)
    <3>1. Moves
      BY <1>1, <2>4 DEF Retry, StartRecycle
    <3> QED BY <1>1, <2>1, <3>1, RetiredRest
  <2> QED BY <1>3, <2>2, <2>3, <2>4
<1>4. CASE Ensure(t) \/ Acquire(t) \/ Recheck(t) \/ Attempt(t) \/ Note(t)
  BY <1>1, <1>4, RetiredRest DEF Ensure, Acquire, Recheck, Attempt, Note
<1>5. CASE Enable(t) \/ Await(t) \/ Stamp(t) \/ Capture(t) \/ Mark(t)
  BY <1>1, <1>5, RetiredRest DEF Enable, Await, TakeBridge, Stamp, Capture, Mark
<1>6. CASE Ask(t) \/ Send(t) \/ Answered(t) \/ PageRejects(t) \/ SpeechFails(t)
           \/ RequestFails(t) \/ RequestCancelled(t)
  <2>1. UNCHANGED <<retired, op, cancelled, proc, url, conn>>
    BY <1>6 DEF Ask, Send, Answered, PageRejects, SpeechFails, RequestFails, RequestCancelled, Requesting
  <2>2. Moves
    BY <1>1, <1>6 DEF Ask, Send, Answered, PageRejects, SpeechFails, RequestFails, RequestCancelled
  <2> QED BY <1>1, <2>1, <2>2, RetiredRest
<1>7. CASE Enabled(t) \/ Awaited(t)
  BY <1>1, <1>7, RetiredRest DEF Enabled, Awaited, AwaitBrowser, IsConnected
<1>8. CASE DropCancelled(t) \/ DropFailed(t)
  BY <1>1, <1>8, RetiredRest DEF DropCancelled, DropFailed, CloseConnection
<1>9. CASE FinishRecycle(t)
  <2>1. /\ UNCHANGED <<retired, op, cancelled, conn>> /\ proc' = "none"
        /\ \A u \in Clients : url'[u] # "good"
    BY <1>9 DEF FinishRecycle, PmTerminate, ProcessStopped, UrlsGone
  <2>2. Moves
    BY <1>1, <1>9 DEF FinishRecycle
  <2> QED BY <1>1, <2>1, <2>2, RetiredRest
<1>17. CASE CloseForRecycle(t)
  <2>1. UNCHANGED <<retired, op, cancelled, proc, url>> /\ conn' = "none"
    BY <1>17 DEF CloseForRecycle, CloseConnection
  <2>2. Moves
    BY <1>1, <1>17, DecisionLeadsOn DEF CloseForRecycle
  <2> QED BY <1>1, <2>1, <2>2, RetiredRest
<1>10. CASE Killing(t)
  BY <1>1, <1>10, RetiredRest DEF Killing, PmTerminate, ProcessStopped, UrlsGone
<1>11. CASE Start(t)
  BY <1>1, <1>11, RetiredRest DEF Start, StopBrowser, ProcessStopped, UrlsGone
<1>12. CASE Launch(t)
  <2>1. UNCHANGED <<retired, op, cancelled, conn>> /\ op[t] # "tidy"
    BY <1>1, <1>12 DEF Launch
  <2>2. retired => cancelled[t]
    BY <1>1, <1>12 DEF Launch
  <2>3. retired => UNCHANGED <<proc, url>>
    BY <1>12, <2>2 DEF Launch
  <2>4. Moves \/ UNCHANGED pc
    BY <1>12, <2>1 DEF Launch, LeavePm
  <2> QED BY <1>1, <2>1, <2>3, <2>4, RetiredRest
<1>13. CASE Relaunch(t)
  <2>1. UNCHANGED <<retired, op, conn, url, cancelled>>
    BY <1>13 DEF Relaunch
  <2>2. retired => cancelled[t] /\ op[t] # "tidy"
    BY <1>1, <1>13 DEF Relaunch
  <2>3. retired => proc' = proc
    BY <1>13, <2>2 DEF Relaunch
  <2>4. Moves
    BY <1>1, <1>13 DEF Relaunch, LeavePm
  <2> QED BY <1>1, <2>1, <2>3, <2>4, RetiredRest
<1>14. CASE Port(t)
  BY <1>1, <1>14, RetiredRest DEF Port, LeavePm, StopBrowser, ProcessStopped, UrlsGone
<1>15. CASE Page(t)
  BY <1>1, <1>15, RetiredRest DEF Page, LeavePm, StopBrowser, ProcessStopped, UrlsGone
<1>16. CASE Connect(t)
  BY <1>1, <1>16, RetiredRest DEF Connect
<1> QED BY <1>2, <1>3, <1>4, <1>5, <1>6, <1>7, <1>8, <1>9, <1>10, <1>11, <1>12, <1>13, <1>14, <1>15,
        <1>16, <1>17 DEF Step

LEMMA RetiredKept == TypeOK /\ LocksOwned /\ Retired /\ [Next]_vars => Retired'
<1> SUFFICES ASSUME TypeOK, LocksOwned, Retired, [Next]_vars PROVE Retired'
  OBVIOUS
<1> USE ThreadsDistinct DEF TypeOK, ThreadTypes, LinkTypes, CallTypes, Goto, Retired, TidyAlone,
        AfterTerminate
<1>1. ASSUME NEW t \in Clients, Call(t) PROVE Retired'
  BY <1>1 DEF Call, OpsOf, FirstLabel
<1>2. ASSUME NEW t \in Clients, Cancel(t) \/ Step(t) \/ HearAudio(t) PROVE Retired'
  BY <1>2, RetiredCall
<1>3. CASE Terminate
  BY <1>3 DEF Terminate, CloseConnection, callVars
<1>4. CASE FinishTerminate
  BY <1>4 DEF FinishTerminate, PmTerminate, ProcessStopped, UrlsGone, connVars, callVars
<1>5. CASE Crash
  BY <1>5 DEF Crash, UrlsGone, callVars
<1>6. CASE SocketDropped
  BY <1>6 DEF SocketDropped, CloseConnection, procVars, callVars
<1>7. CASE UNCHANGED vars
  BY <1>7 DEF vars, procVars, connVars, callVars
<1> QED BY <1>1, <1>2, <1>3, <1>4, <1>5, <1>6, <1>7 DEF Next

\* A start that is cut short leaves no browser unaccounted for: it can be reused
\* while the bridge lives, and is gone when terminate and the calls are back.
THEOREM NoBrowserUnknown == Spec => []BrowserKnown
<1>1. Init => Retired
  BY DEF Init, Retired, TidyAlone, AfterTerminate
<1>2. HandleKept /\ Retired => BrowserKnown
  BY DEF HandleKept, Retired, AfterTerminate, BrowserKnown, IdleBrowserReusable, QuietAfterTerminate
<1> QED BY <1>1, <1>2, RetiredKept, TypeCorrect, LocksCorrect, HandleCorrect, PTL DEF Spec

-----------------------------------------------------------------------------
(* Recycling.  One thread speaks; while its request is under way on the engine  *)
(* object the bridge still has, that object is busy.  So where a recycle has    *)
(* found the object not busy, a speech that is under way on it began later.     *)

BusyWhileSpeaking ==
  \A t \in Clients :
    /\ op[t] = "speak" => t = Speaker
    /\ op[t] = "speak" /\ held[t] = "current" /\ pc[t] \in {"send", "wait"} => busy
    /\ req[t] = "live" => pc[t] = "wait"

LateWhileDeciding ==
  (\E u \in Clients : pc[u] \in Deciding) =>
    \A t \in Clients :
      op[t] = "speak" /\ held[t] = "current" /\ pc[t] \in {"send", "wait"} => t \in late

SpeechKnown == BusyWhileSpeaking /\ LateWhileDeciding

\* Steps that leave the engine object and the requests alone and decide nothing.
LEMMA BusyRest ==
  ASSUME SpeechKnown, UNCHANGED <<op, busy, held, late>>,
         \A t \in Clients : /\ req'[t] = "live" => req[t] = "live"
                            /\ pc[t] = "wait" => pc'[t] = "wait"
                            /\ pc'[t] \in {"send", "wait"} => pc[t] \in {"send", "wait"}
                            /\ pc'[t] \in Deciding => pc[t] \in Deciding
  PROVE  SpeechKnown'
BY DEF SpeechKnown, BusyWhileSpeaking, LateWhileDeciding

\* A recycle is decided only where the engine is not busy, so that no speech is
\* under way on it.
LEMMA DecidedWhenIdle ==
  ASSUME TypeOK, SpeechKnown, NEW t \in Clients, Begin(t) \/ Tidy(t) \/ Retry(t)
  PROVE  SpeechKnown'
<1> USE ThreadsDistinct DEF TypeOK, ThreadTypes, SwitchTypes, Goto, Return, connVars, flagVars, callVars
<1>1. UNCHANGED <<op, busy, held, late, req>> /\ pc[t] \notin {"send", "wait"}
  BY DEF Begin, Tidy, Retry
<1>2. CASE \E l \in {"idle", "ensure"} : pc' = [pc EXCEPT ![t] = l]
  BY <1>1, <1>2, BusyRest
<1>3. CASE ~busy /\ \E l \in Deciding : pc' = [pc EXCEPT ![t] = l]
  BY <1>1, <1>3 DEF SpeechKnown, BusyWhileSpeaking, LateWhileDeciding
<1>4. CASE Begin(t)
  BY <1>2, <1>3, <1>4 DEF Begin, StartRecycle, RecycleDue
<1>5. CASE Tidy(t)
  BY <1>2, <1>3, <1>5 DEF Tidy, StartRecycle, RecycleDue
<1>6. CASE Retry(t)
  BY <1>2, <1>3, <1>6 DEF Retry, StartRecycle, RecycleDue
<1> QED BY <1>4, <1>5, <1>6

LEMMA SpeechKept == TypeOK /\ LocksOwned /\ SpeechKnown /\ [Next]_vars => SpeechKnown'
<1> SUFFICES ASSUME TypeOK, LocksOwned, SpeechKnown, [Next]_vars PROVE SpeechKnown'
  OBVIOUS
<1> USE ThreadsDistinct DEF TypeOK, ThreadTypes, SwitchTypes, EngineTypes, LinkTypes, CallTypes, Goto, Return,
        lockVars, procVars, connVars, flagVars, callVars, startVars, speechVars
<1>1. ASSUME NEW t \in Clients, Call(t) PROVE SpeechKnown'
  BY <1>1 DEF Call, OpsOf, FirstLabel, SpeechKnown, BusyWhileSpeaking, LateWhileDeciding
<1>2. ASSUME NEW t \in Clients, Cancel(t) \/ HearAudio(t) PROVE SpeechKnown'
  BY <1>2, BusyRest DEF Cancel, HearAudio, Requesting
<1>3. ASSUME NEW t \in Clients, Begin(t) \/ Tidy(t) \/ Retry(t) PROVE SpeechKnown'
  BY <1>3, DecidedWhenIdle
<1>4. ASSUME NEW t \in Clients, Ensure(t) \/ Acquire(t) \/ Recheck(t) \/ Attempt(t) \/ Note(t)
      PROVE  SpeechKnown'
  BY <1>4, BusyRest DEF Ensure, Acquire, Recheck, Attempt, Note
<1>5. ASSUME NEW t \in Clients, Enable(t) \/ Await(t) \/ Stamp(t) \/ Mark(t) \/ Enabled(t) \/ Awaited(t)
      PROVE  SpeechKnown'
  BY <1>5, BusyRest DEF Enable, Await, TakeBridge, Stamp, Mark, Enabled, Awaited, AwaitBrowser
<1>6. ASSUME NEW t \in Clients, DropCancelled(t) \/ DropFailed(t) \/ Connect(t)
      PROVE  SpeechKnown'
  BY <1>6, BusyRest DEF DropCancelled, DropFailed, Connect, CloseConnection
<1>7. ASSUME NEW t \in Clients, Start(t) \/ Launch(t) \/ Relaunch(t) \/ Port(t) \/ Page(t) \/ Killing(t)
      PROVE  SpeechKnown'
  <2>1. UNCHANGED <<op, busy, held, late, req>> /\ pc[t] # "wait"
    BY <1>7 DEF Start, Launch, Relaunch, Port, Page, Killing
  <2>2. pc' = pc \/ \E l \in (Startup \cup {"idle", "mark"}) : pc' = [pc EXCEPT ![t] = l]
    <3>1. CASE Start(t) \/ Launch(t)
      BY <3>1 DEF Start, Launch, LeavePm
    <3>2. CASE Relaunch(t) \/ Port(t)
      BY <3>2 DEF Relaunch, Port, LeavePm
    <3>3. CASE Page(t) \/ Killing(t)
      BY <3>3 DEF Page, Killing, LeavePm
    <3> QED BY <1>7, <3>1, <3>2, <3>3
  <2> QED BY <2>1, <2>2, BusyRest
<1>8. ASSUME NEW t \in Clients, LeaveRequest(t), UNCHANGED <<op, late>>,
             \E l \in {"idle", "mark", "markSpeech"} : pc' = [pc EXCEPT ![t] = l]
      PROVE  SpeechKnown'
  <2>1. \A u \in Clients : u # t => /\ held'[u] = held[u] /\ req'[u] = req[u] /\ pc'[u] = pc[u]
    BY <1>8 DEF LeaveRequest
  <2>2. held'[t] = "none" /\ req'[t] = "none"
    BY <1>8 DEF LeaveRequest
  <2>3. op[t] # "speak" => busy' = busy
    BY <1>8 DEF LeaveRequest
  <2>4. \A u \in Clients : op[u] = "speak" => u = Speaker
    BY DEF SpeechKnown, BusyWhileSpeaking
  <2>5. BusyWhileSpeaking'
    BY <1>8, <2>1, <2>2, <2>3, <2>4 DEF SpeechKnown, BusyWhileSpeaking
  <2>6. LateWhileDeciding'
    BY <1>8, <2>1, <2>2 DEF SpeechKnown, LateWhileDeciding
  <2> QED BY <2>5, <2>6 DEF SpeechKnown
<1>9. ASSUME NEW t \in Clients, FinishRecycle(t) PROVE SpeechKnown'
  <2>1. UNCHANGED <<op, req>> /\ pc[t] # "wait" /\ \A u \in Clients : held'[u] # "current"
    BY <1>9 DEF FinishRecycle, FreshEngine
  <2>2. \E l \in Labels : pc' = [pc EXCEPT ![t] = l]
    BY <1>9 DEF FinishRecycle
  <2> QED BY <2>1, <2>2 DEF SpeechKnown, BusyWhileSpeaking, LateWhileDeciding
<1>10. ASSUME NEW t \in Clients, Capture(t) PROVE SpeechKnown'
  BY <1>10 DEF Capture, SpeechKnown, BusyWhileSpeaking, LateWhileDeciding
<1>11. ASSUME NEW t \in Clients, Ask(t) PROVE SpeechKnown'
  <2>1. UNCHANGED <<op, req>> /\ pc[t] = "ask" /\ (held' = held \/ held' = [held EXCEPT ![t] = "none"])
    BY <1>11 DEF Ask
  <2>2. CASE pc' = [pc EXCEPT ![t] = "send"] /\ op[t] = "speak" /\ held[t] = "current"
    <3>1. /\ busy' = TRUE /\ held' = held
          /\ late' = IF \E u \in Clients : pc[u] \in Deciding THEN late \cup {t} ELSE late
      BY <1>11, <2>1, <2>2 DEF Ask
    <3>2. BusyWhileSpeaking'
      BY <2>1, <2>2, <3>1 DEF SpeechKnown, BusyWhileSpeaking
    <3>3. LateWhileDeciding'
      BY <2>1, <2>2, <3>1 DEF SpeechKnown, LateWhileDeciding
    <3> QED BY <3>2, <3>3 DEF SpeechKnown
  <2>3. CASE /\ \E l \in {"send", "idle"} : pc' = [pc EXCEPT ![t] = l]
             /\ UNCHANGED <<busy, late>>
             /\ pc'[t] = "send" => op[t] # "speak" \/ held[t] # "current"
    BY <2>1, <2>3 DEF SpeechKnown, BusyWhileSpeaking, LateWhileDeciding
  <2>4. CASE pc' = [pc EXCEPT ![t] = "send"] /\ ~(op[t] = "speak" /\ held[t] = "current")
    <3>1. UNCHANGED <<busy, late>>
      BY <1>11, <2>1, <2>4 DEF Ask
    <3> QED BY <2>3, <2>4, <3>1
  <2>5. CASE pc' = [pc EXCEPT ![t] = "idle"]
    <3>1. UNCHANGED <<busy, late>>
      BY <1>11, <2>1, <2>5 DEF Ask
    <3> QED BY <2>1, <2>3, <2>5, <3>1
  <2>6. pc' = [pc EXCEPT ![t] = "send"] \/ pc' = [pc EXCEPT ![t] = "idle"]
    BY <1>11 DEF Ask
  <2> QED BY <2>2, <2>4, <2>5, <2>6
<1>12. ASSUME NEW t \in Clients, Send(t) PROVE SpeechKnown'
  <2>1. CASE IsConnected
    BY <1>12, <2>1 DEF Send, Requesting, SpeechKnown, BusyWhileSpeaking, LateWhileDeciding
  <2>2. CASE ~IsConnected
    BY <1>8, <1>12, <2>2 DEF Send, Requesting
  <2> QED BY <2>1, <2>2
<1>13. ASSUME NEW t \in Clients,
              Answered(t) \/ PageRejects(t) \/ SpeechFails(t) \/ RequestFails(t) \/ RequestCancelled(t)
       PROVE  SpeechKnown'
  <2>1. /\ LeaveRequest(t) /\ UNCHANGED <<op, late>>
        /\ \E l \in {"idle", "mark", "markSpeech"} : pc' = [pc EXCEPT ![t] = l]
    BY <1>13 DEF Answered, PageRejects, SpeechFails, RequestFails, RequestCancelled, Requesting
  <2> QED BY <1>8, <2>1
<1>14. ASSUME NEW t \in Clients, CloseForRecycle(t) PROVE SpeechKnown'
  <2>1. /\ UNCHANGED <<op, busy, held>> /\ \A u \in Clients : req'[u] = "live" => req[u] = "live"
        /\ \E l \in Recycling : pc' = [pc EXCEPT ![t] = l]
    BY <1>14, DecisionLeadsOn DEF CloseForRecycle, CloseConnection
  <2>2. bridgeLock = t /\ \A u \in Clients : pc'[u] \notin Deciding
    BY <1>14, <2>1 DEF CloseForRecycle, LocksOwned
  <2> QED BY <1>14, <2>1, <2>2 DEF CloseForRecycle, SpeechKnown, BusyWhileSpeaking, LateWhileDeciding
<1>15. CASE Terminate
  BY <1>15, BusyRest DEF Terminate, CloseConnection
<1>16. CASE FinishTerminate
  BY <1>16 DEF FinishTerminate, FreshEngine, SpeechKnown, BusyWhileSpeaking, LateWhileDeciding
<1>17. CASE Crash \/ SocketDropped
  BY <1>17, BusyRest DEF Crash, SocketDropped, CloseConnection
<1>18. CASE UNCHANGED vars
  BY <1>18 DEF vars, SpeechKnown, BusyWhileSpeaking, LateWhileDeciding
<1> QED BY <1>1, <1>2, <1>3, <1>4, <1>5, <1>6, <1>7, <1>8, <1>9, <1>10, <1>11, <1>12, <1>13, <1>14,
        <1>15, <1>16, <1>17, <1>18 DEF Next, Step

\* A step that closes the connection for a recycle is one of a thread that had
\* decided on it.
LEMMA ClosesAsDecided ==
  ASSUME TypeOK, Next, NEW u \in Clients, pc[u] \notin Recycling, pc'[u] \in Recycling
  PROVE  pc[u] \in Deciding
<1> USE ThreadsDistinct DEF TypeOK, ThreadTypes, Goto, Return
<1>1. ASSUME NEW t \in Clients, CloseForRecycle(t) PROVE pc[u] \in Deciding
  BY <1>1 DEF CloseForRecycle
<1>2. ASSUME NEW t \in Clients, Call(t) \/ Cancel(t) \/ HearAudio(t) \/ Ensure(t) \/ Acquire(t)
              \/ Recheck(t) \/ Attempt(t) \/ Note(t)
      PROVE  FALSE
  BY <1>2 DEF Call, OpsOf, FirstLabel, Cancel, HearAudio, Ensure, Acquire, Recheck, Attempt, Note
<1>3. ASSUME NEW t \in Clients, Enable(t) \/ Await(t) \/ Stamp(t) \/ Mark(t) \/ Enabled(t) \/ Awaited(t)
             \/ DropCancelled(t) \/ DropFailed(t) \/ Connect(t)
      PROVE  FALSE
  BY <1>3 DEF Enable, Await, TakeBridge, Stamp, Mark, Enabled, Awaited, AwaitBrowser, DropCancelled,
     DropFailed, Connect
<1>4. ASSUME NEW t \in Clients, Start(t) \/ Launch(t) \/ Relaunch(t) \/ Port(t) \/ Page(t) \/ Killing(t)
      PROVE  FALSE
  <2>1. CASE Start(t) \/ Launch(t)
    BY <2>1 DEF Start, Launch, LeavePm
  <2>2. CASE Relaunch(t) \/ Port(t)
    BY <2>2 DEF Relaunch, LeavePm, Port
  <2>3. CASE Page(t) \/ Killing(t)
    BY <2>3 DEF Page, Killing, LeavePm
  <2> QED BY <1>4, <2>1, <2>2, <2>3
<1>5. ASSUME NEW t \in Clients, FinishRecycle(t) \/ Begin(t) \/ Tidy(t) \/ Retry(t) PROVE FALSE
  BY <1>5 DEF FinishRecycle, Begin, Tidy, Retry, StartRecycle
<1>6. ASSUME NEW t \in Clients, Capture(t) \/ Ask(t) \/ Send(t) \/ Answered(t) \/ PageRejects(t)
             \/ SpeechFails(t) \/ RequestFails(t) \/ RequestCancelled(t)
      PROVE  FALSE
  BY <1>6 DEF Capture, Ask, Send, Answered, PageRejects, SpeechFails, RequestFails, RequestCancelled
<1>7. CASE Terminate \/ FinishTerminate \/ Crash \/ SocketDropped
  BY <1>7 DEF Terminate, FinishTerminate, Crash, SocketDropped
<1> QED BY <1>1, <1>2, <1>3, <1>4, <1>5, <1>6, <1>7 DEF Next, Step

-----------------------------------------------------------------------------
(* Stopping.  A thread that is about to start or stop a browser has closed the  *)
(* connection, or found none, and keeps a lock without which none is opened.   *)

Unlinked == {"attempt", "start", "launch", "relaunch", "port", "page", "note", "connect",
             "killing", "terminating"} \cup Recycling
LinkClosed ==
  /\ \A t \in Clients : req[t] = "live" => conn # "none"
  /\ \A t \in Threads : pc[t] \in Unlinked => conn = "none"
  /\ pc[Main] \in {"idle", "terminating"}

\* Steps that open no connection and send no request.
LEMMA LinkRest ==
  ASSUME LinkClosed,
         (conn' = conn /\ \A t \in Clients : req'[t] = "live" => req[t] = "live")
           \/ (conn' = "none" /\ \A t \in Clients : req'[t] # "live"),
         \A t \in Threads : pc'[t] \in Unlinked => pc[t] \in Unlinked \/ conn' = "none",
         pc'[Main] \in {pc[Main], "idle", "terminating"}
  PROVE  LinkClosed'
BY DEF LinkClosed

LEMMA LinkKept == TypeOK /\ LocksOwned /\ LinkClosed /\ [Next]_vars => LinkClosed'
<1> SUFFICES ASSUME TypeOK, LocksOwned, LinkClosed, [Next]_vars PROVE LinkClosed'
  OBVIOUS
<1> USE ThreadsDistinct DEF TypeOK, ThreadTypes, LinkTypes, Goto, Return, Unlinked,
        lockVars, procVars, connVars
<1>1. ASSUME NEW t \in Clients, Call(t) \/ Cancel(t) \/ HearAudio(t) PROVE LinkClosed'
  BY <1>1, LinkRest DEF Call, OpsOf, FirstLabel, Cancel, HearAudio, Requesting
<1>2. ASSUME NEW t \in Clients, Begin(t) \/ Tidy(t) \/ Retry(t) PROVE LinkClosed'
  <2>1. UNCHANGED <<conn, req>>
    BY <1>2 DEF Begin, Tidy, Retry
  <2>2. \E l \in Deciding \cup {"idle", "ensure"} : pc' = [pc EXCEPT ![t] = l]
    BY <1>2 DEF Begin, Tidy, Retry, StartRecycle
  <2> QED BY <2>1, <2>2, LinkRest
<1>3. ASSUME NEW t \in Clients, Ensure(t) \/ Acquire(t) \/ Recheck(t) \/ Attempt(t) \/ Note(t)
      PROVE  LinkClosed'
  BY <1>3, LinkRest DEF Ensure, Acquire, Recheck, Attempt, Note, IsConnected
<1>4. ASSUME NEW t \in Clients, Enable(t) \/ Await(t) \/ Stamp(t) \/ Mark(t) \/ Capture(t)
      PROVE  LinkClosed'
  BY <1>4, LinkRest DEF Enable, Await, TakeBridge, Stamp, Mark, Capture
<1>5. ASSUME NEW t \in Clients, Enabled(t) \/ Awaited(t) PROVE LinkClosed'
  <2>1. /\ UNCHANGED req /\ (conn' = conn \/ (conn # "none" /\ conn' # "none"))
        /\ \E l \in {"await", "stamp", "dropCancelled", "dropFailed"} : pc' = [pc EXCEPT ![t] = l]
    BY <1>5 DEF Enabled, Awaited, AwaitBrowser, IsConnected
  <2> QED BY <2>1 DEF LinkClosed
<1>6. ASSUME NEW t \in Clients, DropCancelled(t) \/ DropFailed(t) \/ CloseForRecycle(t)
      PROVE  LinkClosed'
  BY <1>6, LinkRest DEF DropCancelled, DropFailed, CloseForRecycle, CloseConnection
<1>7. ASSUME NEW t \in Clients, Start(t) \/ Launch(t) \/ Relaunch(t) \/ Port(t) \/ Page(t) \/ Killing(t)
      PROVE  LinkClosed'
  <2>1. UNCHANGED <<conn, req>> /\ conn = "none"
    BY <1>7 DEF Start, Launch, Relaunch, Port, Page, Killing, LinkClosed
  <2>2. pc'[Main] = pc[Main]
    BY <1>7 DEF Start, Launch, Relaunch, Port, Page, Killing, LeavePm
  <2> QED BY <2>1, <2>2, LinkRest
<1>8. ASSUME NEW t \in Clients, Connect(t) PROVE LinkClosed'
  <2>1. CASE pc' = [pc EXCEPT ![t] = "enable"]
    <3>1. bridgeLock = Nobody /\ connLock = t /\ \A u \in Clients : u # t => pc'[u] = pc[u]
      BY <1>8, <2>1 DEF Connect, LocksOwned
    <3>2. ASSUME NEW u \in Threads PROVE pc'[u] \notin Unlinked
      <4>1. CASE u = t
        BY <2>1, <4>1
      <4>2. CASE u # t
        <5>1. pc'[u] = pc[u] /\ pc[u] \notin HoldsBridge
          BY <2>1, <3>1, <4>2 DEF LocksOwned
        <5>2. u \in Clients => pc[u] \notin Startup
          BY <3>1, <4>2 DEF LocksOwned
        <5>3. CASE u \in Clients
          BY <5>1, <5>2, <5>3
        <5>4. CASE u = Main
          BY <5>1, <5>4 DEF LinkClosed
        <5> QED BY <5>3, <5>4
      <4> QED BY <4>1, <4>2
    <3>3. conn' = "open"
      BY <1>8, <2>1 DEF Connect
    <3>4. pc'[Main] = pc[Main]
      BY <2>1
    <3> QED BY <3>2, <3>3, <3>4 DEF LinkClosed
  <2>2. CASE conn' = "none"
    BY <1>8, <2>2, LinkRest DEF Connect
  <2> QED BY <1>8, <2>1, <2>2 DEF Connect
<1>9. ASSUME NEW t \in Clients, FinishRecycle(t) PROVE LinkClosed'
  <2>1. UNCHANGED <<conn, req>> /\ conn = "none"
    BY <1>9 DEF FinishRecycle, LinkClosed
  <2>2. pc'[Main] = pc[Main]
    BY <1>9 DEF FinishRecycle
  <2> QED BY <2>1, <2>2, LinkRest
<1>10. ASSUME NEW t \in Clients, Ask(t) PROVE LinkClosed'
  BY <1>10, LinkRest DEF Ask
<1>11. ASSUME NEW t \in Clients, LeaveRequest(t), UNCHANGED conn,
              \E l \in {"idle", "mark", "markSpeech"} : pc' = [pc EXCEPT ![t] = l]
       PROVE  LinkClosed'
  BY <1>11, LinkRest DEF LeaveRequest
<1>12. ASSUME NEW t \in Clients, Send(t) PROVE LinkClosed'
  <2>1. CASE IsConnected
    BY <1>12, <2>1 DEF Send, Requesting, LinkClosed, IsConnected
  <2>2. CASE ~IsConnected
    BY <1>11, <1>12, <2>2 DEF Send, Requesting
  <2> QED BY <2>1, <2>2
<1>13. ASSUME NEW t \in Clients,
              Answered(t) \/ PageRejects(t) \/ SpeechFails(t) \/ RequestFails(t) \/ RequestCancelled(t)
       PROVE  LinkClosed'
  BY <1>11, <1>13 DEF Answered, PageRejects, SpeechFails, RequestFails, RequestCancelled, Requesting
<1>14. CASE Terminate \/ FinishTerminate \/ Crash \/ SocketDropped
  BY <1>14, LinkRest DEF Terminate, FinishTerminate, Crash, SocketDropped, CloseConnection
<1>15. CASE UNCHANGED vars
  BY <1>15, LinkRest DEF vars
<1> QED BY <1>1, <1>2, <1>3, <1>4, <1>5, <1>6, <1>7, <1>8, <1>9, <1>10, <1>12, <1>13, <1>14,
        <1>15 DEF Next, Step

\* A live browser is stopped only by a thread that is past the closing.
LEMMA StopsUnlinked ==
  ASSUME TypeOK, HandleKept, LinkClosed, Next, proc = "up", proc' = "none"
  PROVE  conn = "none"
<1> USE ThreadsDistinct DEF TypeOK, ThreadTypes, BrowserTypes, Unlinked, procVars
<1>1. ASSUME NEW t \in Clients, pc[t] \in Unlinked PROVE conn = "none"
  BY <1>1 DEF LinkClosed
<1>2. CASE \E t \in Clients : \/ Start(t) \/ Launch(t) \/ Relaunch(t) \/ Port(t) \/ Page(t)
                              \/ Killing(t) \/ FinishRecycle(t)
  BY <1>1, <1>2 DEF Start, Launch, Relaunch, Port, Page, Killing, FinishRecycle
<1>3. CASE FinishTerminate
  BY <1>3 DEF FinishTerminate, LinkClosed
<1>4. CASE Terminate \/ Crash \/ SocketDropped
  BY <1>4 DEF Terminate, Crash, SocketDropped
<1>5. CASE \E t \in Clients : \/ Call(t) \/ Cancel(t) \/ HearAudio(t) \/ Begin(t) \/ Tidy(t)
                              \/ CloseForRecycle(t) \/ Ensure(t) \/ Acquire(t) \/ Recheck(t)
  BY <1>5 DEF Call, Cancel, HearAudio, Requesting, Begin, Tidy, CloseForRecycle, Ensure, Acquire, Recheck
<1>6. CASE \E t \in Clients : \/ Attempt(t) \/ Note(t) \/ Connect(t) \/ Enable(t) \/ Enabled(t)
                              \/ Await(t) \/ Awaited(t) \/ Stamp(t) \/ DropCancelled(t) \/ DropFailed(t)
  BY <1>6 DEF Attempt, Note, Connect, Enable, Enabled, Await, Awaited, TakeBridge, AwaitBrowser,
     Stamp, DropCancelled, DropFailed
<1>7. CASE \E t \in Clients : \/ Capture(t) \/ Ask(t) \/ Send(t) \/ Answered(t) \/ PageRejects(t)
                              \/ SpeechFails(t) \/ RequestFails(t) \/ RequestCancelled(t)
                              \/ Mark(t) \/ Retry(t)
  BY <1>7 DEF Capture, Ask, Send, Answered, PageRejects, SpeechFails, RequestFails, RequestCancelled,
     Requesting, Mark, Retry
<1> QED BY <1>2, <1>3, <1>4, <1>5, <1>6, <1>7 DEF Next, Step

\* A recycle by one thread cuts no speech of another on the engine object the
\* bridge still has, unless that speech began after the recycle had found the
\* object not busy; and no browser is stopped under a request.
THEOREM RecycleSparesSpeech == Spec => RecycleSparesBusySpeech
<1>1. Init => SpeechKnown /\ LinkClosed
  BY ThreadsDistinct DEF Init, SpeechKnown, BusyWhileSpeaking, LateWhileDeciding, LinkClosed, Unlinked
<1>2. TypeOK /\ SpeechKnown /\ [Next]_vars =>
        [\A t, u \in Clients :
           /\ t # u /\ pc[u] \notin Recycling /\ pc'[u] \in Recycling
           /\ op[t] = "speak" /\ req[t] = "live" /\ held[t] = "current" /\ req'[t] # "live"
           => t \in late]_vars
  BY ClosesAsDecided DEF SpeechKnown, BusyWhileSpeaking, LateWhileDeciding
<1>3. TypeOK /\ HandleKept /\ LinkClosed /\ [Next]_vars =>
        [proc = "up" /\ proc' = "none" => \A t \in Clients : req[t] # "live"]_vars
  BY StopsUnlinked DEF LinkClosed
<1> QED BY <1>1, <1>2, <1>3, SpeechKept, LinkKept, TypeCorrect, LocksCorrect, HandleCorrect,
        PTL DEF Spec, RecycleSparesBusySpeech

=============================================================================
