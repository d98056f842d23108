---------------------------- MODULE StandbyProofs ----------------------------
(* Proofs about Standby for any number of workers, watchers, bridges, packages *)
(* and settings, and any bounds.                                               *)
EXTENDS StandbyProps, TLAPS

USE ActorsDistinct, BoundsAreNatural DEF Actors, Signatures

-----------------------------------------------------------------------------
(* Type correctness.  A driver that exists, or is about to claim a bridge,      *)
(* knows its packages: what it releases has a signature.                       *)

PackKnown == op = "claim" \/ synth # None => synthPack # None
Typed == TypeOK /\ PackKnown

LEMMA CancelTypes ==
  [w \in Workers |-> cancelled[w] \/ w = current] \in [Workers -> BOOLEAN]
<1>1. \A w \in Workers : (cancelled[w] \/ w = current) \in BOOLEAN
  BY Zenon
<1> QED BY <1>1, Zenon

\* A refresh keeps the types, whoever asks for it.
LEMMA RefreshTypes ==
  ASSUME Typed, NEW a \in Actors, NEW f \in BOOLEAN, RefreshAsync(a, f),
         UNCHANGED <<worldVars, synth, synthPack, ops, bridgeVars>>
  PROVE  /\ ManagerTypes' /\ SwitchTypes' /\ BridgeTypes' /\ WorkTypes'
         /\ watch' \in [Watchers -> {"unborn", "starting", "on", "off"}]
         /\ watchGen' \in [Watchers -> Nat]
<1> USE DEF Typed, TypeOK
<1>1. ManagerTypes'
  BY DEF RefreshAsync, NoRefresh, RefreshOff, NewWorker, CancelWorker, ClearStandby, KeepStandby,
         LeaveToUnwinding, LeftToWorker, Alive, DetachWatcher, managerVars, ManagerTypes, SwitchTypes
<1>2. SwitchTypes'
  BY DEF RefreshAsync, NoRefresh, RefreshOff, NewWorker, ClearStandby, KeepStandby,
         LeaveToUnwinding, managerVars, worldVars, SwitchTypes
<1>3. BridgeTypes'
  BY DEF RefreshAsync, NoRefresh, RefreshOff, NewWorker, ClearStandby, KeepStandby,
         LeaveToUnwinding, managerVars, bridgeVars, ManagerTypes, BridgeTypes
<1>4. WorkTypes'
  <2>1. at' \in [Workers -> {"unused", "early", "load", "none", "pick", "warm", "publish",
                            "failed", "finish", "end", "done"}]
    BY DEF RefreshAsync, NoRefresh, RefreshOff, NewWorker, WorkTypes
  <2>2. cancelled' \in [Workers -> BOOLEAN]
    BY CancelTypes DEF RefreshAsync, NoRefresh, RefreshOff, NewWorker, CancelWorker, WorkTypes
  <2>3. restart' \in [Workers -> BOOLEAN]
    BY DEF RefreshAsync, NoRefresh, RefreshOff, NewWorker, WorkTypes
  <2>4. workGen' \in [Workers -> Nat]
    BY DEF RefreshAsync, NoRefresh, RefreshOff, NewWorker, ManagerTypes, WorkTypes
  <2> QED BY <2>1, <2>2, <2>3, <2>4 DEF RefreshAsync, WorkTypes
<1>5. watch' \in [Watchers -> {"unborn", "starting", "on", "off"}] /\ watchGen' \in [Watchers -> Nat]
  BY DEF RefreshAsync, NoRefresh, RefreshOff, NewWorker, DetachWatcher, Detached, WatchTypes
<1> QED BY <1>1, <1>2, <1>3, <1>4, <1>5

LEMMA StartTypes ==
  ASSUME ManagerTypes, WatchTypes, StartWatcher \/ UnchangedWatch, UNCHANGED call
  PROVE  WatchTypes'
<1>1. Detached \in [Watchers -> {"unborn", "starting", "on", "off"}]
  BY DEF Detached, WatchTypes
<1>2. CASE UnchangedWatch
  BY <1>2 DEF UnchangedWatch, WatchTypes
<1>3. CASE StartWatcher
  <2>1. CASE DetachWatcher /\ UNCHANGED watchGen
    BY <1>1, <2>1 DEF DetachWatcher, WatchTypes
  <2>2. ASSUME NEW x \in Watchers, watch' = [Detached EXCEPT ![x] = "starting"],
               watchGen' = [watchGen EXCEPT ![x] = generation]
        PROVE  WatchTypes'
    BY <1>1, <2>2 DEF ManagerTypes, WatchTypes
  <2> QED BY <1>3, <2>1, <2>2 DEF StartWatcher
<1> QED BY <1>2, <1>3

LEMMA TypesKept == Typed /\ [Next]_vars => Typed'
<1> SUFFICES ASSUME Typed, Next PROVE Typed'
  BY DEF Typed, TypeOK, PackKnown, ManagerTypes, SwitchTypes, WorldTypes, BridgeTypes, WorkTypes,
         WatchTypes, vars, managerVars, worldVars, mainVars, bridgeVars, workVars, watchVars
<1> USE CancelTypes DEF Typed, TypeOK, PackKnown
<1>1. Typed'
  <2>1. CASE Initialize
    <3>1. ManagerTypes'
      BY <2>1 DEF Initialize, Begin, worldVars, bridgeVars, workVars, watchVars, ManagerTypes
    <3>2. SwitchTypes'
      BY <2>1 DEF Initialize, Begin, worldVars, bridgeVars, workVars, watchVars, SwitchTypes
    <3>3. WorldTypes' /\ PackKnown'
      BY <2>1 DEF Initialize, Begin, worldVars, bridgeVars, workVars, watchVars, WorldTypes
    <3>4. BridgeTypes'
      BY <2>1 DEF Initialize, Begin, worldVars, bridgeVars, workVars, watchVars, BridgeTypes
    <3>5. WorkTypes'
      BY <2>1 DEF Initialize, Begin, worldVars, bridgeVars, workVars, watchVars, WorkTypes
    <3>6. WatchTypes'
      BY <2>1 DEF Initialize, Begin, worldVars, bridgeVars, workVars, watchVars, WatchTypes,
             ManagerTypes
    <3> QED BY <3>1, <3>2, <3>3, <3>4, <3>5, <3>6
  <2>2. CASE Shutdown
    <3>1. ManagerTypes'
      BY <2>2 DEF Shutdown, Begin, CancelWorker, ClearStandby, DetachWatcher, Detached,
             worldVars, bridgeVars, ManagerTypes
    <3>2. SwitchTypes'
      BY <2>2 DEF Shutdown, Begin, CancelWorker, ClearStandby, DetachWatcher, Detached,
             worldVars, bridgeVars, SwitchTypes
    <3>3. WorldTypes' /\ PackKnown'
      BY <2>2 DEF Shutdown, Begin, CancelWorker, ClearStandby, DetachWatcher, Detached,
             worldVars, bridgeVars, WorldTypes
    <3>4. BridgeTypes'
      BY <2>2 DEF Shutdown, Begin, CancelWorker, ClearStandby, DetachWatcher, Detached,
             worldVars, bridgeVars, BridgeTypes, ManagerTypes, WorldTypes, WorkTypes
    <3>5. WorkTypes'
      BY <2>2 DEF Shutdown, Begin, CancelWorker, ClearStandby, DetachWatcher, Detached,
             worldVars, bridgeVars, WorkTypes
    <3>6. WatchTypes'
      BY <2>2 DEF Shutdown, Begin, CancelWorker, ClearStandby, DetachWatcher, Detached,
             worldVars, bridgeVars, WatchTypes, ManagerTypes
    <3> QED BY <3>1, <3>2, <3>3, <3>4, <3>5, <3>6
  <2>3. CASE SaveSettings
    BY <2>3 DEF SaveSettings, Begin, MainOnly, managerVars, bridgeVars, workVars, watchVars,
           ManagerTypes, SwitchTypes, WorldTypes, BridgeTypes, WorkTypes, WatchTypes
  <2>4. CASE SaveBrowser
    BY <2>4 DEF SaveBrowser, Begin, MainOnly, managerVars, bridgeVars, workVars, watchVars,
           ManagerTypes, SwitchTypes, WorldTypes, BridgeTypes, WorkTypes, WatchTypes
  <2>5. CASE ChangePackages
    BY <2>5 DEF ChangePackages, Begin, MainOnly, managerVars, bridgeVars, workVars,
           watchVars, ManagerTypes, SwitchTypes, WorldTypes, BridgeTypes, WorkTypes,
           WatchTypes
  <2>6. CASE LoadDriver
    BY <2>6 DEF LoadDriver, Begin, MainOnly, managerVars, bridgeVars, workVars, watchVars,
           worldVars, ManagerTypes, SwitchTypes, WorldTypes, BridgeTypes, WorkTypes,
           WatchTypes
  <2>7. CASE Release
    <3>1. ManagerTypes'
      BY <2>7 DEF Release, Begin, CancelWorker, DetachWatcher, Detached, worldVars,
             bridgeVars, ManagerTypes, WorldTypes, WorkTypes, WatchTypes, BridgeTypes
    <3>2. SwitchTypes'
      BY <2>7 DEF Release, Begin, CancelWorker, DetachWatcher, Detached, worldVars,
             bridgeVars, SwitchTypes
    <3>3. WorldTypes' /\ PackKnown'
      BY <2>7 DEF Release, Begin, CancelWorker, DetachWatcher, Detached, worldVars,
             bridgeVars, WorldTypes, ManagerTypes
    <3>4. BridgeTypes'
      BY <2>7 DEF Release, Begin, CancelWorker, DetachWatcher, Detached, worldVars,
             bridgeVars, BridgeTypes, ManagerTypes, WorldTypes, WorkTypes
    <3>5. WorkTypes'
      BY <2>7 DEF Release, Begin, CancelWorker, DetachWatcher, Detached, worldVars,
             bridgeVars, WorkTypes
    <3>6. WatchTypes'
      BY <2>7 DEF Release, Begin, CancelWorker, DetachWatcher, Detached, worldVars,
             bridgeVars, WatchTypes, ManagerTypes
    <3> QED BY <3>1, <3>2, <3>3, <3>4, <3>5, <3>6
  <2>8. CASE Discard
    BY <2>8 DEF Discard, Begin, managerVars, worldVars, bridgeVars, workVars, watchVars,
           ManagerTypes, SwitchTypes, WorldTypes, BridgeTypes, WorkTypes, WatchTypes
  <2>9. CASE Note
    <3>1. ManagerTypes'
      BY <2>9 DEF Note, CancelWorker, ClearStandby, DetachWatcher, Detached, managerVars,
             worldVars, bridgeVars, ManagerTypes
    <3>2. SwitchTypes'
      BY <2>9 DEF Note, CancelWorker, ClearStandby, DetachWatcher, Detached, managerVars,
             worldVars, bridgeVars, SwitchTypes
    <3>3. WorldTypes' /\ PackKnown'
      BY <2>9 DEF Note, CancelWorker, ClearStandby, DetachWatcher, Detached, managerVars,
             worldVars, bridgeVars, WorldTypes
    <3>4. BridgeTypes'
      BY <2>9 DEF Note, CancelWorker, ClearStandby, DetachWatcher, Detached, managerVars,
             worldVars, bridgeVars, BridgeTypes, ManagerTypes, WorldTypes, WorkTypes
    <3>5. WorkTypes'
      BY <2>9 DEF Note, CancelWorker, ClearStandby, DetachWatcher, Detached, managerVars,
             worldVars, bridgeVars, WorkTypes
    <3>6. WatchTypes'
      BY <2>9 DEF Note, CancelWorker, ClearStandby, DetachWatcher, Detached, managerVars,
             worldVars, bridgeVars, WatchTypes, ManagerTypes
    <3> QED BY <3>1, <3>2, <3>3, <3>4, <3>5, <3>6
  <2>10. CASE Claim
    <3>1. ManagerTypes'
      BY <2>10 DEF Claim, CancelWorker, ClearStandby, DetachWatcher, Detached, managerVars,
             worldVars, bridgeVars, HandOut, OwnBridge, NewBridge, Fits, ManagerTypes,
             WorldTypes, WorkTypes, WatchTypes, BridgeTypes
    <3>2. SwitchTypes'
      BY <2>10 DEF Claim, CancelWorker, ClearStandby, DetachWatcher, Detached, managerVars,
             worldVars, bridgeVars, HandOut, OwnBridge, NewBridge, Fits, SwitchTypes
    <3>3. WorldTypes' /\ PackKnown'
      BY <2>10 DEF Claim, CancelWorker, ClearStandby, DetachWatcher, Detached, managerVars,
             worldVars, bridgeVars, HandOut, OwnBridge, NewBridge, Fits, WorldTypes,
             ManagerTypes
    <3>4. BridgeTypes'
      BY <2>10 DEF Claim, CancelWorker, ClearStandby, DetachWatcher, Detached, managerVars,
             worldVars, bridgeVars, HandOut, OwnBridge, NewBridge, Fits, BridgeTypes,
             ManagerTypes, WorldTypes, WorkTypes
    <3>5. WorkTypes'
      BY <2>10 DEF Claim, CancelWorker, ClearStandby, DetachWatcher, Detached, managerVars,
             worldVars, bridgeVars, HandOut, OwnBridge, NewBridge, Fits, WorkTypes
    <3>6. WatchTypes'
      BY <2>10 DEF Claim, CancelWorker, ClearStandby, DetachWatcher, Detached, managerVars,
             worldVars, bridgeVars, HandOut, OwnBridge, NewBridge, Fits, WatchTypes,
             ManagerTypes
    <3> QED BY <3>1, <3>2, <3>3, <3>4, <3>5, <3>6
  <2>11. CASE ReleaseWithoutBridge
    <3>1. ManagerTypes'
      BY <2>11 DEF ReleaseWithoutBridge, CancelWorker, DetachWatcher, Detached, worldVars,
             bridgeVars, ManagerTypes
    <3>2. SwitchTypes'
      BY <2>11 DEF ReleaseWithoutBridge, CancelWorker, DetachWatcher, Detached, worldVars,
             bridgeVars, SwitchTypes
    <3>3. WorldTypes' /\ PackKnown'
      BY <2>11 DEF ReleaseWithoutBridge, CancelWorker, DetachWatcher, Detached, worldVars,
             bridgeVars, WorldTypes
    <3>4. BridgeTypes'
      BY <2>11 DEF ReleaseWithoutBridge, CancelWorker, DetachWatcher, Detached, worldVars,
             bridgeVars, BridgeTypes
    <3>5. WorkTypes'
      BY <2>11 DEF ReleaseWithoutBridge, CancelWorker, DetachWatcher, Detached, worldVars,
             bridgeVars, WorkTypes
    <3>6. WatchTypes'
      BY <2>11 DEF ReleaseWithoutBridge, CancelWorker, DetachWatcher, Detached, worldVars,
             bridgeVars, WatchTypes, ManagerTypes
    <3> QED BY <3>1, <3>2, <3>3, <3>4, <3>5, <3>6
  <2>12. CASE FilesChange
    BY <2>12 DEF FilesChange, managerVars, mainVars, bridgeVars, workVars, ManagerTypes,
           SwitchTypes, WorldTypes, BridgeTypes, WorkTypes, WatchTypes
  <2>13. ASSUME NEW w \in Workers, Early(w) PROVE Typed'
    <3>1. ManagerTypes'
      BY <2>13 DEF Early, WorkOnly, GoTo, worldVars, mainVars, StartWatcher, DetachWatcher,
             Detached, UnchangedWatch, bridgeVars, Fits, ManagerTypes, WorldTypes,
             WorkTypes, WatchTypes, BridgeTypes
    <3>2. SwitchTypes'
      BY <2>13 DEF Early, WorkOnly, GoTo, worldVars, mainVars, StartWatcher, DetachWatcher,
             Detached, UnchangedWatch, bridgeVars, Fits, SwitchTypes
    <3>3. WorldTypes' /\ PackKnown'
      BY <2>13 DEF Early, WorkOnly, GoTo, worldVars, mainVars, StartWatcher, DetachWatcher,
             Detached, UnchangedWatch, bridgeVars, Fits, WorldTypes
    <3>4. BridgeTypes'
      BY <2>13 DEF Early, WorkOnly, GoTo, worldVars, mainVars, StartWatcher, DetachWatcher,
             Detached, UnchangedWatch, bridgeVars, Fits, BridgeTypes, ManagerTypes,
             WorldTypes, WorkTypes
    <3>5. WorkTypes'
      BY <2>13 DEF Early, WorkOnly, GoTo, worldVars, mainVars, bridgeVars, Fits, WorldTypes, WorkTypes
    <3>6. WatchTypes'
      <4>1. StartWatcher \/ UnchangedWatch
        BY <2>13 DEF Early, UnchangedWatch
      <4>2. UNCHANGED call
        BY <2>13 DEF Early, WorkOnly
      <4> QED BY <4>1, <4>2, StartTypes
    <3> QED BY <3>1, <3>2, <3>3, <3>4, <3>5, <3>6
  <2>14. ASSUME NEW w \in Workers, Load(w) PROVE Typed'
    BY <2>14 DEF Load, WorkOnly, GoTo, worldVars, mainVars, SignatureOf, managerVars,
           bridgeVars, ManagerTypes, SwitchTypes, WorldTypes, BridgeTypes, WorkTypes,
           WatchTypes
  <2>15. ASSUME NEW w \in Workers, NoCatalog(w) PROVE Typed'
    <3>1. ManagerTypes'
      BY <2>15 DEF NoCatalog, WorkOnly, GoTo, worldVars, mainVars, StartWatcher,
             DetachWatcher, Detached, UnchangedWatch, GiveUp, ClearStandby, KeepStandby,
             bridgeVars, ManagerTypes, WorldTypes, WorkTypes, WatchTypes, BridgeTypes
    <3>2. SwitchTypes'
      BY <2>15 DEF NoCatalog, WorkOnly, GoTo, worldVars, mainVars, StartWatcher,
             DetachWatcher, Detached, UnchangedWatch, GiveUp, ClearStandby, KeepStandby,
             bridgeVars, SwitchTypes
    <3>3. WorldTypes' /\ PackKnown'
      BY <2>15 DEF NoCatalog, WorkOnly, GoTo, worldVars, mainVars, StartWatcher,
             DetachWatcher, Detached, UnchangedWatch, GiveUp, ClearStandby, KeepStandby,
             bridgeVars, WorldTypes
    <3>4. BridgeTypes'
      BY <2>15 DEF NoCatalog, WorkOnly, GoTo, worldVars, mainVars, StartWatcher,
             DetachWatcher, Detached, UnchangedWatch, GiveUp, ClearStandby, KeepStandby,
             bridgeVars, BridgeTypes, ManagerTypes, WorldTypes, WorkTypes
    <3>5. WorkTypes'
      BY <2>15 DEF NoCatalog, WorkOnly, GoTo, worldVars, mainVars, StartWatcher,
             DetachWatcher, Detached, UnchangedWatch, GiveUp, ClearStandby, KeepStandby,
             bridgeVars, WorkTypes
    <3>6. WatchTypes'
      <4>1. StartWatcher \/ UnchangedWatch
        BY <2>15 DEF NoCatalog, GiveUp, UnchangedWatch
      <4>2. UNCHANGED call
        BY <2>15 DEF NoCatalog, WorkOnly
      <4> QED BY <4>1, <4>2, StartTypes
    <3> QED BY <3>1, <3>2, <3>3, <3>4, <3>5, <3>6
  <2>16. ASSUME NEW w \in Workers, Pick(w) PROVE Typed'
    <3>1. ManagerTypes'
      BY <2>16 DEF Pick, WorkOnly, GoTo, worldVars, mainVars, NewBridge, bridgeVars,
             ManagerTypes, WorldTypes, WorkTypes, WatchTypes, BridgeTypes
    <3>2. SwitchTypes'
      BY <2>16 DEF Pick, WorkOnly, GoTo, worldVars, mainVars, NewBridge, bridgeVars,
             SwitchTypes
    <3>3. WorldTypes' /\ PackKnown'
      BY <2>16 DEF Pick, WorkOnly, GoTo, worldVars, mainVars, NewBridge, bridgeVars,
             WorldTypes
    <3>4. BridgeTypes'
      BY <2>16 DEF Pick, WorkOnly, GoTo, worldVars, mainVars, NewBridge, bridgeVars,
             BridgeTypes, ManagerTypes, WorldTypes, WorkTypes
    <3>5. WorkTypes'
      BY <2>16 DEF Pick, WorkOnly, GoTo, worldVars, mainVars, NewBridge, bridgeVars,
             WorkTypes, ManagerTypes, WorldTypes, BridgeTypes
    <3>6. WatchTypes'
      BY <2>16 DEF Pick, WorkOnly, GoTo, worldVars, mainVars, NewBridge, bridgeVars,
             WatchTypes, ManagerTypes
    <3> QED BY <3>1, <3>2, <3>3, <3>4, <3>5, <3>6
  <2>17. ASSUME NEW w \in Workers, Warm(w) PROVE Typed'
    BY <2>17 DEF Warm, WorkOnly, GoTo, worldVars, mainVars, managerVars, bridgeVars,
           ManagerTypes, SwitchTypes, WorldTypes, BridgeTypes, WorkTypes, WatchTypes
  <2>18. ASSUME NEW w \in Workers, Publish(w) PROVE Typed'
    <3>1. ManagerTypes'
      BY <2>18 DEF Publish, WorkOnly, GoTo, worldVars, mainVars, StartWatcher, DetachWatcher,
             Detached, UnchangedWatch, ClearStandby, KeepStandby, bridgeVars,
             ManagerTypes, WorldTypes, WorkTypes, WatchTypes, BridgeTypes
    <3>2. SwitchTypes'
      BY <2>18 DEF Publish, WorkOnly, GoTo, worldVars, mainVars, StartWatcher, DetachWatcher,
             Detached, UnchangedWatch, ClearStandby, KeepStandby, bridgeVars,
             SwitchTypes
    <3>3. WorldTypes' /\ PackKnown'
      BY <2>18 DEF Publish, WorkOnly, GoTo, worldVars, mainVars, StartWatcher, DetachWatcher,
             Detached, UnchangedWatch, ClearStandby, KeepStandby, bridgeVars, WorldTypes
    <3>4. BridgeTypes'
      BY <2>18 DEF Publish, WorkOnly, GoTo, worldVars, mainVars, StartWatcher, DetachWatcher,
             Detached, UnchangedWatch, ClearStandby, KeepStandby, bridgeVars,
             BridgeTypes, ManagerTypes, WorldTypes, WorkTypes
    <3>5. WorkTypes'
      BY <2>18 DEF Publish, WorkOnly, GoTo, worldVars, mainVars, StartWatcher, DetachWatcher,
             Detached, UnchangedWatch, ClearStandby, KeepStandby, bridgeVars, WorkTypes
    <3>6. WatchTypes'
      <4>1. StartWatcher \/ UnchangedWatch
        BY <2>18 DEF Publish, UnchangedWatch
      <4>2. UNCHANGED call
        BY <2>18 DEF Publish, WorkOnly
      <4> QED BY <4>1, <4>2, StartTypes
    <3> QED BY <3>1, <3>2, <3>3, <3>4, <3>5, <3>6
  <2>19. ASSUME NEW w \in Workers, Failed(w) PROVE Typed'
    <3>1. ManagerTypes'
      BY <2>19 DEF Failed, WorkOnly, GoTo, worldVars, mainVars, StartWatcher, DetachWatcher,
             Detached, UnchangedWatch, GiveUp, ClearStandby, KeepStandby, bridgeVars,
             ManagerTypes, WorldTypes, WorkTypes, WatchTypes, BridgeTypes
    <3>2. SwitchTypes'
      BY <2>19 DEF Failed, WorkOnly, GoTo, worldVars, mainVars, StartWatcher, DetachWatcher,
             Detached, UnchangedWatch, GiveUp, ClearStandby, KeepStandby, bridgeVars,
             SwitchTypes
    <3>3. WorldTypes' /\ PackKnown'
      BY <2>19 DEF Failed, WorkOnly, GoTo, worldVars, mainVars, StartWatcher, DetachWatcher,
             Detached, UnchangedWatch, GiveUp, ClearStandby, KeepStandby, bridgeVars,
             WorldTypes
    <3>4. BridgeTypes'
      BY <2>19 DEF Failed, WorkOnly, GoTo, worldVars, mainVars, StartWatcher, DetachWatcher,
             Detached, UnchangedWatch, GiveUp, ClearStandby, KeepStandby, bridgeVars,
             BridgeTypes, ManagerTypes, WorldTypes, WorkTypes
    <3>5. WorkTypes'
      BY <2>19 DEF Failed, WorkOnly, GoTo, worldVars, mainVars, StartWatcher, DetachWatcher,
             Detached, UnchangedWatch, GiveUp, ClearStandby, KeepStandby, bridgeVars,
             WorkTypes
    <3>6. WatchTypes'
      <4>1. StartWatcher \/ UnchangedWatch
        BY <2>19 DEF Failed, GiveUp, UnchangedWatch
      <4>2. UNCHANGED call
        BY <2>19 DEF Failed, WorkOnly
      <4> QED BY <4>1, <4>2, StartTypes
    <3> QED BY <3>1, <3>2, <3>3, <3>4, <3>5, <3>6
  <2>20. ASSUME NEW w \in Workers, Finish(w) PROVE Typed'
    BY <2>20 DEF Finish, WorkOnly, GoTo, worldVars, mainVars, bridgeVars, ManagerTypes,
           SwitchTypes, WorldTypes, BridgeTypes, WorkTypes, WatchTypes
  <2>21. ASSUME NEW w \in Workers, End(w) PROVE Typed'
    BY <2>21 DEF End, WorkOnly, GoTo, worldVars, mainVars, managerVars, bridgeVars,
           ManagerTypes, SwitchTypes, WorldTypes, BridgeTypes, WorkTypes, WatchTypes
  <2>22. ASSUME NEW x \in Watchers, Watching(x) PROVE Typed'
    BY <2>22 DEF Watching, managerVars, worldVars, mainVars, bridgeVars, workVars,
           ManagerTypes, SwitchTypes, WorldTypes, BridgeTypes, WorkTypes, WatchTypes
  <2>23. ASSUME NEW x \in Watchers, Check(x) PROVE Typed'
    BY <2>23 DEF Check, managerVars, worldVars, mainVars, bridgeVars, workVars, ManagerTypes,
           SwitchTypes, WorldTypes, BridgeTypes, WorkTypes, WatchTypes
  <2>24. ASSUME NEW a \in Actors, Terminate(a) PROVE Typed'
    BY <2>24 DEF Terminate, managerVars, worldVars, mainVars, workVars, watchVars,
           ManagerTypes, SwitchTypes, WorldTypes, BridgeTypes, WorkTypes, WatchTypes
  <2>25. CASE Refresh
    BY <2>25, RefreshTypes DEF Refresh, WorldTypes, WatchTypes, worldVars
  <2>26. ASSUME NEW x \in Watchers, Notify(x) PROVE Typed'
    BY <2>26, RefreshTypes DEF Notify, WorldTypes, WatchTypes, worldVars, mainVars
  <2> QED BY <2>1, <2>2, <2>3, <2>4, <2>5, <2>6, <2>7, <2>8, <2>9, <2>10, <2>11, <2>12, <2>13,
             <2>14, <2>15, <2>16, <2>17, <2>18, <2>19, <2>20, <2>21, <2>22, <2>23, <2>24, <2>25, <2>26
          DEF Next, Ask, Continue, Work, Answer
<1> QED BY <1>1
LEMMA TypedAtFirst == Init => Typed
<1> SUFFICES ASSUME Init PROVE Typed
  OBVIOUS
<1>1. ManagerTypes /\ BridgeTypes /\ WatchTypes
  BY DEF Init, ManagerTypes, BridgeTypes, WatchTypes
<1>2. SwitchTypes
  BY DEF Init, SwitchTypes
<1>3. WorldTypes /\ PackKnown
  BY DEF Init, WorldTypes, PackKnown
<1>4. WorkTypes
  BY DEF Init, WorkTypes
<1> QED BY <1>1, <1>2, <1>3, <1>4 DEF Typed, TypeOK

\* Every variable keeps its type.
THEOREM TypeCorrect == Spec => []TypeOK
<1>1. Typed => TypeOK
  BY DEF Typed
<1> QED BY <1>1, TypedAtFirst, TypesKept, PTL DEF Spec

-----------------------------------------------------------------------------
(* Generations.  No two workers have the same one, and a worker that nobody     *)
(* cancelled is the current one.                                               *)

Numbered ==
  /\ \A w \in Workers : workGen[w] <= generation
  /\ \A v, w \in Workers : at[v] # "unused" /\ at[w] # "unused" /\ workGen[v] = workGen[w] => v = w
  /\ \A w \in Workers : Alive(w) /\ ~cancelled[w] => current = w /\ Current(w)

\* A call that starts a new generation without a worker cancels the current one.
LEMMA NumberedBump ==
  ASSUME Typed, Numbered, generation' = generation + 1, CancelWorker, UNCHANGED <<at, workGen>>
  PROVE  Numbered'
<1> USE DEF Typed, TypeOK, ManagerTypes, WorkTypes, Numbered
<1>1. \A w \in Workers : workGen'[w] <= generation'
  OBVIOUS
<1>2. \A v, w \in Workers : at'[v] # "unused" /\ at'[w] # "unused" /\ workGen'[v] = workGen'[w] => v = w
  OBVIOUS
<1>3. \A w \in Workers : Alive(w) => cancelled'[w]
  BY DEF CancelWorker
<1> QED BY <1>1, <1>2, <1>3 DEF Alive

\* Steps that start no worker and no generation.
LEMMA NumberedRest ==
  ASSUME Numbered, UNCHANGED <<generation, current, cancelled, workGen>>,
         \A w \in Workers : /\ at[w] = "unused" => at'[w] = "unused"
                            /\ ~Alive(w) => ~Alive(w)'
  PROVE  Numbered'
BY DEF Numbered, Alive, Current

LEMMA NumberedRefresh ==
  ASSUME Typed, Numbered, NEW a \in Actors, NEW f \in BOOLEAN, RefreshAsync(a, f)
  PROVE  Numbered'
<1>1. CASE NoRefresh
  BY <1>1, NumberedRest DEF NoRefresh, managerVars, Alive
<1>2. CASE RefreshOff(a)
  BY <1>2, NumberedBump DEF RefreshOff
<1>3. CASE NewWorker(a, f)
  <2> USE DEF Typed, TypeOK, ManagerTypes, WorkTypes, Numbered
  <2>1. PICK w \in Workers :
          /\ at[w] = "unused" /\ current' = w /\ generation' = generation + 1
          /\ at' = [at EXCEPT ![w] = "early"]
          /\ workGen' = [workGen EXCEPT ![w] = generation']
          /\ cancelled' = [v \in Workers |-> cancelled[v] \/ v = current]
    BY <1>3 DEF NewWorker
  <2>2. \A v \in Workers : workGen'[v] <= generation'
    BY <2>1
  <2>3. \A u, v \in Workers : at'[u] # "unused" /\ at'[v] # "unused" /\ workGen'[u] = workGen'[v] => u = v
    BY <2>1
  <2>4. \A v \in Workers : Alive(v) => cancelled'[v]
    BY <2>1
  <2>5. \A v \in Workers : Alive(v)' /\ ~cancelled'[v] => v = w
    BY <2>1, <2>4 DEF Alive
  <2> QED BY <2>1, <2>2, <2>3, <2>5 DEF Current
<1> QED BY <1>1, <1>2, <1>3 DEF RefreshAsync

LEMMA NumberedKept == Typed /\ Numbered /\ [Next]_vars => Numbered'
<1> SUFFICES ASSUME Typed, Numbered, Next PROVE Numbered'
  BY NumberedRest DEF vars, managerVars, workVars, Alive
<1>1. CASE Shutdown
  BY <1>1, NumberedBump DEF Shutdown
<1>2. CASE Note
  BY <1>2, NumberedBump, NumberedRest DEF Note, managerVars, Alive
<1>3. CASE Claim
  BY <1>3, NumberedBump, NumberedRest DEF Claim, managerVars, Alive
<1>4. CASE Release
  BY <1>4, NumberedBump, NumberedRest DEF Release, Alive
<1>5. CASE ReleaseWithoutBridge
  BY <1>5, NumberedBump, NumberedRest DEF ReleaseWithoutBridge, Alive
<1>6. CASE Refresh
  BY <1>6, NumberedRefresh DEF Refresh
<1>7. ASSUME NEW x \in Watchers, Notify(x) PROVE Numbered'
  BY <1>7, NumberedRefresh DEF Notify
<1>8. CASE \/ Initialize \/ SaveSettings \/ SaveBrowser \/ ChangePackages
           \/ LoadDriver \/ Discard \/ FilesChange
  BY <1>8, NumberedRest DEF Initialize, SaveSettings, SaveBrowser, ChangePackages, LoadDriver,
     Discard, FilesChange, MainOnly, managerVars, workVars, Alive
<1>9. ASSUME NEW x \in Watchers, Watching(x) \/ Check(x) PROVE Numbered'
  BY <1>9, NumberedRest DEF Watching, Check, managerVars, workVars, Alive
<1>10. ASSUME NEW a \in Actors, Terminate(a) PROVE Numbered'
  BY <1>10, NumberedRest DEF Terminate, managerVars, workVars, Alive
<1>11. ASSUME NEW w \in Workers, Work(w) PROVE Numbered'
  <2>1. UNCHANGED <<generation, current, cancelled, workGen>>
    BY <1>11 DEF Work, Early, Load, NoCatalog, Pick, Warm, Publish, Failed, Finish, End, WorkOnly,
       managerVars
  <2>2. Alive(w) /\ \E l \in {"load", "none", "pick", "warm", "publish", "failed", "finish", "end",
     "done"} :
          GoTo(w, l)
    BY <1>11 DEF Work, Early, Load, NoCatalog, Pick, Warm, Publish, Failed, Finish, End, Alive, Typed,
       TypeOK, WorkTypes
  <2>3. \A v \in Workers : (at[v] = "unused" => at'[v] = "unused") /\ (~Alive(v) => ~Alive(v)')
    BY <2>2 DEF GoTo, Alive, Typed, TypeOK, WorkTypes
  <2> QED BY <2>1, <2>3, NumberedRest
<1> QED BY <1>1, <1>2, <1>3, <1>4, <1>5, <1>6, <1>7, <1>8, <1>9, <1>10, <1>11
        DEF Next, Ask, Continue, Answer

-----------------------------------------------------------------------------
(* Ownership.  A worker that was not cancelled warms the bridge that is kept,   *)
(* so warming never starts a browser for a bridge that was given up.  A thread  *)
(* gives a bridge up only after it has terminated the one before.              *)

WarmsKept ==
  \A w \in Workers : at[w] = "warm" /\ ~cancelled[w] => using[w] = bridge /\ bridge # None
DropsOne ==
  /\ op \in {"note", "claim"} => drop[Main] = None
  /\ \A w \in Workers : drop[w] # None => at[w] \in {"warm", "finish", "end"}
ClaimsFirst == op = "claim" => synth = None
Owners == WarmsKept /\ DropsOne /\ ClaimsFirst /\ OneOwner

Known == Typed /\ Numbered /\ Owners

\* Steps that move no bridge, start no worker and give up nothing.
LEMMA OwnersRest ==
  ASSUME Owners, UNCHANGED <<bridge, synth, life, drop>>,
         op' = op \/ op' \notin {"note", "claim"} \/ (drop[Main] = None /\ synth = None) \/ (op' = "note" /\ drop[Main] = None),
         \A w \in Workers :
           /\ at'[w] = "warm" => at[w] = "warm" /\ using'[w] = using[w] /\ (cancelled[w] => cancelled'[w])
           /\ drop[w] # None => at'[w] = at[w]
  PROVE  Owners'
BY DEF Owners, WarmsKept, DropsOne, ClaimsFirst, OneOwner, Owned, Actors

\* What happens to the bridge when it is given up by a thread that gives up none,
\* and nobody warms it for long.
LEMMA OwnersClear ==
  ASSUME Known, NEW a \in Actors, drop[a] = None, ClearStandby(a), UNCHANGED <<synth, life, using>>,
         op' = op \/ op' \notin {"note", "claim"},
         a = Main => op' # "claim" /\ op' # "note",
         a \in Workers => at'[a] = "finish",
         \A w \in Workers :
           /\ at'[w] # "warm" \/ cancelled'[w]
           /\ w # a => (drop[w] # None => at'[w] = at[w])
  PROVE  Owners'
<1> USE DEF Known, Typed, TypeOK, ManagerTypes, BridgeTypes, WorldTypes, ClearStandby, Owners
<1>1. WarmsKept' /\ DropsOne' /\ ClaimsFirst'
  BY DEF WarmsKept, DropsOne, ClaimsFirst
<1>2. OneOwner'
  BY DEF OneOwner, Owned
<1> QED BY <1>1, <1>2

\* Cancelling the current worker cancels all that warm a bridge.
LEMMA AllCancelled ==
  ASSUME Known, CancelWorker
  PROVE  \A w \in Workers : at[w] = "warm" => cancelled'[w]
BY DEF Known, CancelWorker, Numbered, Alive, Typed, TypeOK, WorkTypes

\* A refresh either moves no bridge or gives the kept one up.
LEMMA OwnersRefresh ==
  ASSUME Known, NEW a \in {Main} \cup Watchers, NEW f \in BOOLEAN, RefreshAsync(a, f), drop[a] = None,
         UNCHANGED <<synth, bridgeVars>>, op' = IF a = Main THEN "idle" ELSE op
  PROVE  Owners'
<1> USE DEF Known
<1>1. a \notin Workers /\ a \in Actors /\ UNCHANGED <<life, using>>
  BY DEF RefreshAsync, bridgeVars
<1>2. CASE NoRefresh
  BY <1>1, <1>2, OwnersRest DEF NoRefresh, managerVars
<1>3. CASE RefreshOff(a)
  <2>1. \A w \in Workers : at'[w] = "warm" => cancelled'[w]
    BY <1>3, AllCancelled DEF RefreshOff
  <2> QED BY <1>1, <1>3, <2>1, OwnersClear DEF RefreshOff
<1>4. CASE NewWorker(a, f)
  <2>1. PICK w \in Workers :
          /\ at[w] = "unused" /\ at' = [at EXCEPT ![w] = "early"]
          /\ cancelled' = [v \in Workers |-> cancelled[v] \/ v = current]
    BY <1>4 DEF NewWorker
  <2>2. \A v \in Workers : at'[v] = "warm" => at[v] = "warm" /\ cancelled'[v]
    BY <2>1 DEF Numbered, Alive, Typed, TypeOK, WorkTypes
  <2>3. \A v \in Workers : drop[v] # None => at'[v] = at[v]
    BY <2>1 DEF Owners, DropsOne, Typed, TypeOK, WorkTypes
  <2>4. CASE ClearStandby(a)
    BY <1>1, <2>2, <2>3, <2>4, OwnersClear
  <2>5. CASE KeepStandby
    BY <1>1, <2>2, <2>3, <2>5, OwnersRest DEF KeepStandby
  <2> QED BY <1>4, <2>4, <2>5 DEF NewWorker, LeaveToUnwinding
<1> QED BY <1>2, <1>3, <1>4 DEF RefreshAsync

LEMMA OwnersKept == Known /\ [Next]_vars => Owners'
<1> SUFFICES ASSUME Known, Next PROVE Owners'
  BY OwnersRest DEF Known, vars, managerVars, mainVars, bridgeVars, workVars
<1> USE DEF Known
<1>1. CASE Shutdown
  BY <1>1, AllCancelled, OwnersClear DEF Shutdown, Begin, bridgeVars
<1>2. CASE Note
  <2>1. CASE UNCHANGED <<managerVars, drop, cancelled, watch>>
    BY <1>2, <2>1, OwnersRest DEF Note, managerVars, bridgeVars
  <2>2. CASE CancelWorker /\ ClearStandby(Main)
    BY <1>2, <2>2, AllCancelled, OwnersClear DEF Note, Owners, DropsOne, bridgeVars
  <2> QED BY <1>2, <2>1, <2>2 DEF Note
<1>3. CASE Claim
  <2> USE DEF Typed, TypeOK, ManagerTypes, BridgeTypes, WorldTypes
  <2>1. op = "claim" /\ op' = "idle" /\ synth = None /\ drop[Main] = None /\ UNCHANGED <<at, using>>
    BY <1>3 DEF Claim, Owners, ClaimsFirst, DropsOne
  <2>2. DropsOne' /\ ClaimsFirst'
    BY <1>3, <2>1 DEF Claim, ClearStandby, HandOut, managerVars, DropsOne, ClaimsFirst, Owners
  <2>3. WarmsKept'
    <3>1. CASE UNCHANGED <<managerVars, cancelled>>
      BY <2>1, <3>1 DEF managerVars, WarmsKept, Owners
    <3>2. CASE CancelWorker
      BY <2>1, <3>2, AllCancelled DEF WarmsKept
    <3> QED BY <1>3, <3>1, <3>2 DEF Claim
  <2>4. OneOwner'
    <3>1. CASE OwnBridge /\ UNCHANGED <<bridge, drop>>
      BY <2>1, <3>1 DEF OwnBridge, NewBridge, OneOwner, Owned, Owners
    <3>2. CASE HandOut
      BY <2>1, <3>2 DEF HandOut, bridgeVars, OneOwner, Owned, Owners
    <3>3. CASE ClearStandby(Main) /\ OwnBridge
      BY <2>1, <3>3 DEF ClearStandby, OwnBridge, NewBridge, OneOwner, Owned, Owners
    <3> QED BY <1>3, <3>1, <3>2, <3>3 DEF Claim, managerVars
  <2> QED BY <2>2, <2>3, <2>4 DEF Owners
<1>4. CASE Release
  <2> USE DEF Typed, TypeOK, ManagerTypes, BridgeTypes, WorldTypes
  <2>1. /\ op = "idle" /\ op' \in {"idle", "refresh"} /\ drop[Main] = None
        /\ synth # None /\ synth' = None
        /\ UNCHANGED <<at, using, life>>
    BY <1>4 DEF Release, Begin, bridgeVars
  <2>2. DropsOne' /\ ClaimsFirst'
    BY <1>4, <2>1 DEF Release, DropsOne, ClaimsFirst, Owners
  <2>3. WarmsKept'
    <3>1. CASE UNCHANGED <<bridge, cancelled>>
      BY <2>1, <3>1 DEF WarmsKept, Owners
    <3>2. CASE CancelWorker
      BY <2>1, <3>2, AllCancelled DEF WarmsKept
    <3> QED BY <1>4, <3>1, <3>2 DEF Release
  <2>4. OneOwner'
    <3>1. CASE drop' = [drop EXCEPT ![Main] = synth] /\ bridge' = bridge
      BY <2>1, <3>1 DEF OneOwner, Owned, Owners
    <3>2. CASE drop' = [drop EXCEPT ![Main] = bridge] /\ bridge' = synth
      BY <2>1, <3>2 DEF OneOwner, Owned, Owners
    <3> QED BY <1>4, <3>1, <3>2 DEF Release
  <2> QED BY <2>2, <2>3, <2>4 DEF Owners
<1>5. CASE Discard
  BY <1>5 DEF Discard, Begin, managerVars, bridgeVars, workVars, Owners, WarmsKept, DropsOne,
     ClaimsFirst,
     OneOwner, Owned, Typed, TypeOK, ManagerTypes, BridgeTypes, WorldTypes
<1>6. CASE Refresh
  BY <1>6, OwnersRefresh DEF Refresh
<1>7. ASSUME NEW x \in Watchers, Notify(x) PROVE Owners'
  BY <1>7, OwnersRefresh DEF Notify, mainVars
<1>8. CASE ReleaseWithoutBridge
  BY <1>8, AllCancelled, OwnersRest DEF ReleaseWithoutBridge, CancelWorker, bridgeVars, Typed, TypeOK,
     WorkTypes
<1>9. CASE \/ Initialize \/ SaveSettings \/ SaveBrowser \/ ChangePackages
           \/ LoadDriver \/ FilesChange
  BY <1>9, OwnersRest DEF Initialize, SaveSettings, SaveBrowser, ChangePackages, LoadDriver, FilesChange,
     Begin, MainOnly, managerVars, mainVars, bridgeVars, workVars
<1>10. ASSUME NEW x \in Watchers, Watching(x) \/ Check(x) PROVE Owners'
  BY <1>10, OwnersRest DEF Watching, Check, managerVars, mainVars, bridgeVars, workVars
<1>11. ASSUME NEW a \in Actors, Terminate(a) PROVE Owners'
  <2>1. WarmsKept' /\ DropsOne' /\ ClaimsFirst'
    BY <1>11 DEF Terminate, managerVars, mainVars, workVars, WarmsKept, DropsOne, ClaimsFirst, Owners,
       Typed, TypeOK, BridgeTypes
  <2>2. OneOwner'
    BY <1>11 DEF Terminate, managerVars, mainVars, OneOwner, Owned, Owners, Typed, TypeOK, BridgeTypes
  <2> QED BY <2>1, <2>2 DEF Owners
<1>12. ASSUME NEW w \in Workers, Work(w) PROVE Owners'
  <2>1. CASE Early(w)
    BY <2>1, OwnersRest DEF Early, WorkOnly, GoTo, mainVars, bridgeVars, Typed, TypeOK, WorkTypes,
       Owners, DropsOne
  <2>2. CASE Load(w)
    BY <2>2, OwnersRest DEF Load, WorkOnly, GoTo, managerVars, mainVars, bridgeVars, Typed, TypeOK,
       WorkTypes, Owners, DropsOne
  <2>3. CASE Finish(w) \/ End(w)
    <3>1. OneOwner' /\ WarmsKept' /\ ClaimsFirst'
      BY <2>3 DEF Finish, End, WorkOnly, GoTo, managerVars, mainVars, bridgeVars, Typed, TypeOK,
         WorkTypes,
         Owners, OneOwner, Owned, WarmsKept, ClaimsFirst
    <3>2. DropsOne'
      BY <2>3 DEF Finish, End, WorkOnly, GoTo, managerVars, mainVars, Typed, TypeOK, WorkTypes, Owners,
         DropsOne
    <3> QED BY <3>1, <3>2 DEF Owners
  <2>4. Current(w) /\ Alive(w) => \A v \in Workers : v # w => at[v] # "warm" \/ cancelled[v]
    BY DEF Numbered, Current, Alive
  <2>5. ASSUME NoCatalog(w) \/ Publish(w) \/ Failed(w) PROVE Owners'
    <3>1. /\ at[w] \in {"none", "publish", "failed"} /\ at' = [at EXCEPT ![w] = "finish"]
          /\ UNCHANGED <<life, using, cancelled, synth, op>>
      BY <2>5 DEF NoCatalog, Publish, Failed, GoTo, WorkOnly, mainVars, bridgeVars
    <3>2. drop[w] = None /\ Alive(w)
      BY <3>1 DEF Owners, DropsOne, Alive
    <3>3. \A v \in Workers : at'[v] = "warm" => at[v] = "warm"
      BY <3>1 DEF Typed, TypeOK, WorkTypes
    <3>4. \A v \in Workers : v # w => at'[v] = at[v]
      BY <3>1 DEF Typed, TypeOK, WorkTypes
    <3>5. at'[w] = "finish"
      BY <3>1 DEF Typed, TypeOK, WorkTypes
    <3>6. CASE UNCHANGED <<bridge, drop>>
      BY <3>1, <3>2, <3>3, <3>4, <3>6, OwnersRest
    <3>7. CASE ClearStandby(w) /\ Current(w)
      BY <2>4, <3>1, <3>2, <3>3, <3>4, <3>5, <3>7, OwnersClear
    <3> QED BY <2>5, <3>6, <3>7 DEF NoCatalog, Publish, Failed, GiveUp, KeepStandby, MayPublish
  <2>6. CASE Pick(w)
    <3> USE DEF Typed, TypeOK, ManagerTypes, BridgeTypes, WorldTypes, WorkTypes
    <3>1. at[w] = "pick" /\ drop[w] = None /\ Alive(w) /\ UNCHANGED <<synth, op, cancelled>>
      BY <2>6 DEF Pick, Owners, DropsOne, Alive, WorkOnly, mainVars
    <3>2. CASE at' = [at EXCEPT ![w] = "finish"] /\ UNCHANGED <<bridge, drop, life, using>>
      BY <3>1, <3>2, OwnersRest
    <3>3. CASE /\ Current(w) /\ at' = [at EXCEPT ![w] = "warm"] /\ using' = [using EXCEPT ![w] = bridge]
               /\ bridge # None /\ UNCHANGED <<bridge, drop, life>>
      BY <3>1, <3>3 DEF Owners, WarmsKept, DropsOne, ClaimsFirst, OneOwner, Owned
    <3>4. ASSUME NEW b \in Bridges, Current(w), at' = [at EXCEPT ![w] = "warm"],
       using' = [using EXCEPT ![w] = b],
                 bridge' = b, drop' = [drop EXCEPT ![w] = bridge], NewBridge(b)
          PROVE  Owners'
      <4>1. WarmsKept'
        BY <2>4, <3>1, <3>4 DEF WarmsKept
      <4>2. DropsOne' /\ ClaimsFirst'
        BY <3>1, <3>4 DEF DropsOne, ClaimsFirst, Owners
      <4>3. OneOwner'
        BY <3>1, <3>4 DEF NewBridge, OneOwner, Owned, Owners
      <4> QED BY <4>1, <4>2, <4>3 DEF Owners
    <3> QED BY <2>6, <3>2, <3>3, <3>4 DEF Pick, MayPick, GoTo, bridgeVars
  <2>7. CASE Warm(w)
    <3> USE DEF Typed, TypeOK, ManagerTypes, BridgeTypes, WorkTypes
    <3>1. at[w] = "warm" /\ drop[w] = None /\ UNCHANGED <<bridge, drop, synth, op, using, cancelled>>
      BY <2>7 DEF Warm, WorkOnly, managerVars, mainVars
    <3>2. UNCHANGED life
      BY <2>7, <3>1 DEF Warm, Owners, WarmsKept, OneOwner, Owned
    <3>3. \E l \in {"finish", "publish", "failed"} : at' = [at EXCEPT ![w] = l]
      BY <2>7 DEF Warm, GoTo
    <3> QED BY <3>1, <3>2, <3>3, OwnersRest
  <2> QED BY <1>12, <2>1, <2>2, <2>3, <2>5, <2>6, <2>7 DEF Work
<1> QED BY <1>1, <1>2, <1>3, <1>4, <1>5, <1>6, <1>7, <1>8, <1>9, <1>10, <1>11, <1>12
        DEF Next, Ask, Continue, Answer

LEMMA KnownKept == Known /\ [Next]_vars => Known'
BY TypesKept, NumberedKept, OwnersKept DEF Known

LEMMA KnownAtFirst == Init => Known
<1> SUFFICES ASSUME Init PROVE Known
  OBVIOUS
<1>1. Typed
  BY TypedAtFirst
<1>2. Numbered
  BY DEF Init, Numbered, Alive
<1>3. Owners
  BY DEF Init, Owners, WarmsKept, DropsOne, ClaimsFirst, OneOwner, Owned
<1> QED BY <1>1, <1>2, <1>3 DEF Known

LEMMA AlwaysKnown == Spec => []Known
BY KnownAtFirst, KnownKept, PTL DEF Spec

\* A running bridge has exactly one owner among the standby manager, the
\* synthesizer and the threads about to terminate one, and an owned bridge runs.
THEOREM EveryBridgeOwned == Spec => []OneOwner
BY AlwaysKnown, PTL DEF Known, Owners

-----------------------------------------------------------------------------
(* Each step hands bridges over as BridgeCustody allows.                       *)

\* How the owners may change in one step: a bridge starts in the hands of the
\* manager or the synthesizer, one that is given up stays given up until it is
\* terminated, and a terminated one stays so.
HandsOver(b) ==
  /\ life[b] = "unborn" /\ life'[b] # "unborn" => b = bridge' \/ b = synth'
  /\ life[b] = "alive" => life'[b] \in {"alive", "dead"}
  /\ life[b] = "dead" => life'[b] = "dead"
  /\ \A a \in Actors : drop[a] = b => life'[b] = "dead" \/ drop'[a] = b
  /\ life[b] = "alive" /\ life'[b] = "dead" => \E a \in Actors : drop[a] = b

LEMMA CustodyStep ==
  ASSUME TypeOK, OneOwner, TypeOK', OneOwner', \A b \in Bridges : HandsOver(b)
  PROVE  Custody!Next
<1> USE DEF TypeOK, ManagerTypes, WorldTypes, BridgeTypes
<1>1. \A b \in Bridges : Custodian(b)' \in Custody!Custodians
  BY DEF OneOwner, Owned, Custodian, Custody!Custodians
<1>2. ASSUME NEW b \in Bridges PROVE Custodian(b)' \in Custody!MayBecome[Custodian(b)]
  <2> USE DEF HandsOver, Custodian, Custody!MayBecome
  <2>1. CASE life[b] = "unborn"
    BY <2>1 DEF OneOwner, Owned
  <2>2. CASE life[b] = "dead"
    BY <2>2
  <2>3. CASE life[b] = "alive" /\ b = bridge
    BY <2>3 DEF OneOwner, Owned
  <2>4. CASE life[b] = "alive" /\ b = synth
    BY <2>4 DEF OneOwner, Owned
  <2>5. CASE life[b] = "alive" /\ \E a \in Actors : drop[a] = b
    BY <2>5 DEF OneOwner, Owned
  <2> QED BY <2>1, <2>2, <2>3, <2>4, <2>5 DEF OneOwner, Owned
<1>3. ASSUME NEW b \in Bridges, NEW c \in Bridges, Custodian(b)' = Custodian(c)',
             Custodian(b)' \in {"standby", "synth"}
      PROVE  b = c
  BY <1>3 DEF Custodian
<1> QED BY <1>1, <1>2, <1>3 DEF Custody!Next

LEMMA StepHandsOver ==
  ASSUME Known, Next, NEW b \in Bridges
  PROVE  HandsOver(b)
<1> USE DEF Known, Typed, TypeOK, ManagerTypes, WorldTypes, BridgeTypes
<1>1. CASE UNCHANGED <<life, drop>>
  BY <1>1 DEF HandsOver
<1>2. ASSUME NEW a \in Actors, drop[a] = None, life' = life,
   drop' = [drop EXCEPT ![a] = bridge] \/ drop' = [drop EXCEPT ![a] = synth]
      PROVE  HandsOver(b)
  BY <1>2 DEF HandsOver
<1>3. ASSUME NEW a \in Actors, Terminate(a) PROVE HandsOver(b)
  BY <1>3 DEF Terminate, HandsOver, Owners, OneOwner, Owned, managerVars, mainVars
<1>4. CASE Claim
  <2>1. op = "claim" /\ drop[Main] = None
    BY <1>4 DEF Claim, Owners, DropsOne
  <2> QED BY <1>2, <1>4, <2>1 DEF Claim, HandOut, OwnBridge, NewBridge, ClearStandby, HandsOver,
     bridgeVars
<1>5. ASSUME NEW w \in Workers, Pick(w) PROVE HandsOver(b)
  <2>1. drop[w] = None
    BY <1>5 DEF Pick, Owners, DropsOne
  <2> QED BY <1>5, <2>1 DEF Pick, NewBridge, HandsOver, bridgeVars
<1>6. ASSUME NEW w \in Workers, Warm(w) PROVE HandsOver(b)
  BY <1>1, <1>6 DEF Warm, Owners, WarmsKept, OneOwner, Owned
<1>7. ASSUME NEW a \in Actors, NEW f \in BOOLEAN, RefreshAsync(a, f), drop[a] = None,
   life' = life PROVE HandsOver(b)
  BY <1>1, <1>2, <1>7 DEF RefreshAsync, NoRefresh, RefreshOff, NewWorker, LeaveToUnwinding,
     KeepStandby, ClearStandby
<1>8. CASE Refresh
  BY <1>7, <1>8 DEF Refresh, bridgeVars
<1>9. ASSUME NEW x \in Watchers, Notify(x) PROVE HandsOver(b)
  BY <1>7, <1>9 DEF Notify, bridgeVars
<1>10. ASSUME NEW w \in Workers, NoCatalog(w) \/ Publish(w) \/ Failed(w) PROVE HandsOver(b)
  <2>1. drop[w] = None /\ life' = life
    BY <1>10 DEF NoCatalog, Publish, Failed, Owners, DropsOne, bridgeVars
  <2> QED BY <1>1, <1>2, <1>10, <2>1 DEF NoCatalog, Publish, Failed, GiveUp, KeepStandby, ClearStandby
<1>11. CASE Shutdown \/ Release \/ Discard
  BY <1>1, <1>2, <1>11 DEF Shutdown, Release, Discard, Begin, ClearStandby, bridgeVars
<1>12. CASE Note
  BY <1>1, <1>2, <1>12 DEF Note, ClearStandby, bridgeVars, Owners, DropsOne
<1>13. CASE \/ Initialize \/ SaveSettings \/ SaveBrowser \/ ChangePackages
           \/ LoadDriver \/ ReleaseWithoutBridge \/ FilesChange
  BY <1>1, <1>13 DEF Initialize, SaveSettings, SaveBrowser, ChangePackages, LoadDriver,
     ReleaseWithoutBridge,
     FilesChange, MainOnly, bridgeVars
<1>14. ASSUME NEW x \in Watchers, Watching(x) \/ Check(x) PROVE HandsOver(b)
  BY <1>1, <1>14 DEF Watching, Check, bridgeVars
<1>15. ASSUME NEW w \in Workers, Early(w) \/ Load(w) \/ Finish(w) \/ End(w) PROVE HandsOver(b)
  BY <1>1, <1>15 DEF Early, Load, Finish, End, bridgeVars
<1> QED BY <1>3, <1>4, <1>5, <1>6, <1>8, <1>9, <1>10, <1>11, <1>12, <1>13, <1>14, <1>15
        DEF Next, Ask, Continue, Work, Answer

\* The standby manager keeps the promise of BridgeCustody.
THEOREM KeepsCustody == Spec => HandedOver
<1>1. Init => Custody!Init
  BY DEF Init, Custody!Init, Custodian
<1>2. ASSUME Known, Known', [Next]_vars PROVE [Custody!Next]_([b \in Bridges |-> Custodian(b)])
  <2>1. CASE Next
    BY <1>2, <2>1, StepHandsOver, CustodyStep DEF Known, Typed, Owners
  <2>2. CASE UNCHANGED vars
    BY <2>2 DEF vars, managerVars, mainVars, bridgeVars, Custodian
  <2> QED BY <1>2, <2>1, <2>2
<1> QED BY <1>1, <1>2, AlwaysKnown, PTL DEF Spec, HandedOver, Custody!Spec

-----------------------------------------------------------------------------
(* What is not wanted.  While no bridge may be kept, no worker of the present   *)
(* generation is alive to pick one.                                            *)

Unwanted == shutdown \/ synthActive \/ (~keep /\ op \in {"idle", "claim"})
Rested == Unwanted => bridge = None /\ watcher = None /\ \A w \in Workers : Alive(w) => ~Current(w)

\* After a new generation no worker is of the present one.
LEMMA NoneCurrent ==
  ASSUME Known, generation' = generation + 1, UNCHANGED <<at, workGen>>
  PROVE  \A w \in Workers : ~Current(w)'
BY DEF Known, Typed, TypeOK, ManagerTypes, WorkTypes, Numbered, Current

\* Steps that leave the manager alone.
LEMMA RestedRest ==
  ASSUME Rested, Unwanted' => Unwanted, UNCHANGED <<bridge, watcher, generation, workGen>>,
         \A w \in Workers : ~Alive(w) => ~Alive(w)'
  PROVE  Rested'
BY DEF Rested, Current

LEMMA RestedRefresh ==
  ASSUME Known, Rested, NEW a \in Actors, NEW f \in BOOLEAN, RefreshAsync(a, f), UNCHANGED <<keep,
     synth>>,
         f \/ op' = "idle", f => op' = op
  PROVE  Rested'
<1>1. CASE NoRefresh /\ (shutdown \/ op' = op)
  BY <1>1, RestedRest DEF NoRefresh, managerVars, Unwanted, Alive
<1>2. CASE RefreshOff(a)
  BY <1>2, NoneCurrent DEF RefreshOff, ClearStandby, DetachWatcher, Rested
<1>3. CASE NewWorker(a, f) /\ keep /\ ~shutdown /\ ~synthActive
  BY <1>3 DEF NewWorker, Rested, Unwanted
<1> QED BY <1>1, <1>2, <1>3 DEF RefreshAsync, LeftToWorker

LEMMA RestedKept == Known /\ Rested /\ [Next]_vars => Rested'
<1> SUFFICES ASSUME Known, Rested, Next PROVE Rested'
  BY RestedRest DEF vars, managerVars, worldVars, mainVars, workVars, Unwanted, Alive
<1>1. CASE Shutdown
  BY <1>1, NoneCurrent DEF Shutdown, ClearStandby, DetachWatcher, Rested
<1>2. CASE Note
  BY <1>2, NoneCurrent, RestedRest DEF Note, ClearStandby, DetachWatcher, Rested, Unwanted,
     managerVars, worldVars, Alive
<1>3. CASE Claim
  BY <1>3, NoneCurrent, RestedRest DEF Claim, HandOut, ClearStandby, DetachWatcher, Rested, Unwanted,
     managerVars, worldVars, Alive
<1>4. CASE Release
  BY <1>4, RestedRest DEF Release, Begin, Rested, Unwanted, worldVars, Alive
<1>5. CASE ReleaseWithoutBridge
  BY <1>5, RestedRest DEF ReleaseWithoutBridge, Rested, Unwanted, worldVars, Alive
<1>6. CASE Refresh
  BY <1>6, RestedRefresh DEF Refresh, worldVars
<1>7. ASSUME NEW x \in Watchers, Notify(x) PROVE Rested'
  BY <1>7, RestedRefresh DEF Notify, worldVars, mainVars
<1>8. CASE \/ Initialize \/ SaveSettings \/ SaveBrowser \/ ChangePackages
           \/ LoadDriver \/ Discard \/ FilesChange
  BY <1>8, RestedRest DEF Initialize, SaveSettings, SaveBrowser, ChangePackages, LoadDriver, Discard,
     FilesChange,
     Begin, MainOnly, managerVars, worldVars, mainVars, workVars, Unwanted, Alive
<1>9. ASSUME NEW x \in Watchers, Watching(x) \/ Check(x) PROVE Rested'
  BY <1>9, RestedRest DEF Watching, Check, managerVars, worldVars, mainVars, workVars, Unwanted, Alive
<1>10. ASSUME NEW a \in Actors, Terminate(a) PROVE Rested'
  BY <1>10, RestedRest DEF Terminate, managerVars, worldVars, mainVars, workVars, Unwanted, Alive
<1>11. ASSUME NEW w \in Workers, Work(w) PROVE Rested'
  <2>1. /\ UNCHANGED <<generation, workGen, shutdown, synthActive, keep, op>>
        /\ Alive(w) /\ \E l \in {"load", "none", "pick", "warm", "publish", "failed", "finish", "end",
           "done"} : GoTo(w, l)
    BY <1>11 DEF Work, Early, Load, NoCatalog, Pick, Warm, Publish, Failed, Finish, End, WorkOnly,
       managerVars,
       worldVars, mainVars, Alive, Known, Typed, TypeOK, WorkTypes
  <2>2. \A v \in Workers : ~Alive(v) => ~Alive(v)'
    BY <2>1 DEF GoTo, Alive, Known, Typed, TypeOK, WorkTypes
  <2>3. Unwanted' => Unwanted
    BY <2>1 DEF Unwanted
  <2>4. Unwanted => bridge' = None
    BY <1>11, <2>1 DEF Work, Early, Load, NoCatalog, Pick, Warm, Publish, Failed, Finish, End,
       managerVars,
       GiveUp, ClearStandby, KeepStandby, MayPick, Rested
  <2>5. Unwanted => watcher' = None
    BY <1>11, <2>1 DEF Work, Early, Load, NoCatalog, Pick, Warm, Publish, Failed, Finish, End,
       managerVars,
       GiveUp, StartWatcher, UnchangedWatch, DetachWatcher, Rested, Unwanted
  <2>6. Unwanted => \A v \in Workers : Alive(v)' => ~Current(v)'
    BY <2>1, <2>2 DEF Rested, Current
  <2> QED BY <2>3, <2>4, <2>5, <2>6 DEF Rested
<1> QED BY <1>1, <1>2, <1>3, <1>4, <1>5, <1>6, <1>7, <1>8, <1>9, <1>10, <1>11
        DEF Next, Ask, Continue, Answer

\* No bridge is kept warm and no file is watched while a synthesizer of this
\* add-on speaks, after the plugin's end, or once the setting is off.
THEOREM NothingWarmUnwanted == Spec => []NothingKeptUnwanted
<1>1. Init => Rested
  BY DEF Init, Rested, Alive
<1>2. Rested => NothingKeptUnwanted
  BY DEF Rested, Unwanted, NothingKeptUnwanted
<1> QED BY <1>1, <1>2, RestedKept, AlwaysKnown, PTL DEF Spec

-----------------------------------------------------------------------------
\* A worker whose generation has passed changes nothing of what is kept warm.
THEOREM SupersededDoesNothing == Spec => SupersededIsHarmless
<1>1. ASSUME Known, Next, NEW w \in Workers, Alive(w), ~Current(w), at'[w] # at[w]
      PROVE  UNCHANGED <<bridge, signature, ready>>
  <2> USE DEF Known, Typed, TypeOK, WorkTypes
  <2>1. CASE Work(w)
    BY <1>1, <2>1 DEF Work, Early, Load, NoCatalog, Pick, Warm, Publish, Failed, Finish, End,
       managerVars,
       KeepStandby, MayPick, MayPublish
  <2>2. ASSUME NEW v \in Workers, Work(v), v # w PROVE FALSE
    BY <1>1, <2>2 DEF Work, Early, Load, NoCatalog, Pick, Warm, Publish, Failed, Finish, End, GoTo
  <2>3. ASSUME NEW a \in Actors, NEW f \in BOOLEAN, RefreshAsync(a, f) PROVE FALSE
    BY <1>1, <2>3 DEF RefreshAsync, NoRefresh, RefreshOff, NewWorker, Alive
  <2>4. CASE Refresh
    BY <2>3, <2>4 DEF Refresh
  <2>5. ASSUME NEW x \in Watchers, Answer(x) PROVE FALSE
    BY <1>1, <2>3, <2>5 DEF Answer, Watching, Check, Notify, workVars
  <2>6. CASE Ask \/ Note \/ Claim \/ ReleaseWithoutBridge \/ FilesChange \/ \E a \in Actors : Terminate(a)
    BY <1>1, <2>6 DEF Ask, Initialize, Shutdown, SaveSettings, SaveBrowser, ChangePackages, LoadDriver,
       Release,
       Discard, Note, Claim, ReleaseWithoutBridge, FilesChange, Terminate, MainOnly, workVars
  <2> QED BY <1>1, <2>1, <2>2, <2>4, <2>5, <2>6 DEF Next, Continue
<1>2. ASSUME Known, [Next]_vars
      PROVE  [\A w \in Workers : Alive(w) /\ ~Current(w) /\ at'[w] # at[w]
                                   => UNCHANGED <<bridge, signature, ready>>]_vars
  BY <1>1, <1>2
<1> QED BY <1>2, AlwaysKnown, PTL DEF Spec, SupersededIsHarmless

-----------------------------------------------------------------------------
(* Who is at work.  A worker of the present generation is the one the manager   *)
(* knows, was not cancelled, and works on the bridge that is kept; none is of    *)
(* the present generation while nothing may be kept.                            *)

Busy == {"early", "load", "none", "pick", "warm", "publish", "failed", "finish"}
CancelledIsPast == \A w \in Workers : at[w] # "unused" /\ cancelled[w] => ~Current(w)
CurrentIsKnown == \A w \in Workers : Current(w) /\ at[w] \in Busy => worker = w
CurrentWorksOnKept ==
  \A w \in Workers : Current(w) /\ at[w] \in {"warm", "publish"} =>
    using[w] = bridge /\ bridge # None /\ signature = workSig[w]
NoneStarted == Unwanted => ~Started
Manned == CancelledIsPast /\ CurrentIsKnown /\ CurrentWorksOnKept /\ NoneStarted

ReadyIsKept == ready => bridge # None
FreshIsEmpty ==
  \A w \in Workers :
    /\ at[w] = "unused" => ~cancelled[w] /\ current # w
    /\ at[w] \in {"unused", "early"} => loaded[w] = None
UsedIsBorn == \A w \in Workers : using[w] # None => life[using[w]] # "unborn"
Furnished == ReadyIsKept /\ FreshIsEmpty /\ UsedIsBorn

Orderly == Known /\ Rested /\ Manned /\ Furnished

\* A new generation has no worker yet.
LEMMA MannedBump ==
  ASSUME Known, generation' = generation + 1, UNCHANGED <<at, workGen>>
  PROVE  Manned'
BY NoneCurrent DEF Manned, CancelledIsPast, CurrentIsKnown, CurrentWorksOnKept, NoneStarted, Started

\* Steps that leave the workers and what they work on alone.
LEMMA MannedRest ==
  ASSUME Manned, Unwanted' => Unwanted,
         UNCHANGED <<generation, cancelled, worker, bridge, signature, at, workGen, using, workSig>>
  PROVE  Manned'
BY DEF Manned, CancelledIsPast, CurrentIsKnown, CurrentWorksOnKept, NoneStarted, Started, Current

\* How a worker goes on.
MayGo(l, m) ==
  \/ l = "early" /\ m \in {"load", "failed", "finish"}
  \/ l = "load" /\ m \in {"none", "pick", "failed", "finish"}
  \/ l = "pick" /\ m \in {"warm", "finish"}
  \/ l = "warm" /\ m \in {"publish", "failed", "finish"}
  \/ l \in {"none", "publish", "failed"} /\ m = "finish"
  \/ l = "finish" /\ m = "end"
  \/ l = "end" /\ m = "done"

LEMMA WorkMoves ==
  ASSUME Typed, NEW w \in Workers, Work(w)
  PROVE  /\ MayGo(at[w], at'[w])
         /\ \A v \in Workers : v # w => at'[v] = at[v]
         /\ UNCHANGED <<generation, current, cancelled, workGen, restart, call>>
         /\ UNCHANGED <<synthActive, shutdown, worldVars, mainVars>>
<1> USE DEF GoTo, WorkOnly, MayGo, managerVars, bridgeVars, Typed, TypeOK, WorkTypes
<1>1. CASE Early(w)
  BY <1>1 DEF Early
<1>2. CASE Load(w)
  BY <1>2 DEF Load
<1>3. CASE NoCatalog(w)
  BY <1>3 DEF NoCatalog
<1>4. CASE Pick(w)
  BY <1>4 DEF Pick
<1>5. CASE Warm(w)
  BY <1>5 DEF Warm
<1>6. CASE Publish(w)
  BY <1>6 DEF Publish
<1>7. CASE Failed(w)
  BY <1>7 DEF Failed
<1>8. CASE Finish(w)
  BY <1>8 DEF Finish
<1>9. CASE End(w)
  BY <1>9 DEF End
<1> QED BY <1>1, <1>2, <1>3, <1>4, <1>5, <1>6, <1>7, <1>8, <1>9 DEF Work

\* What a refresh does to the workers.
LEMMA RefreshWorkers ==
  ASSUME Typed, NEW a \in Actors, NEW f \in BOOLEAN, RefreshAsync(a, f)
  PROVE  /\ UNCHANGED <<shutdown, synthActive, loaded, using, workSig, watchGen>>
         /\ \/ /\ shutdown \/ (keep /\ ~synthActive /\ f /\ Alive(worker))
               /\ NoRefresh
            \/ /\ ~shutdown /\ (~keep \/ synthActive)
               /\ RefreshOff(a)
            \/ /\ ~shutdown /\ keep /\ ~synthActive
               /\ NewWorker(a, f)
BY DEF RefreshAsync, NoRefresh, RefreshOff, NewWorker, LeftToWorker, managerVars

LEMMA FreshUncancelled ==
  ASSUME Furnished, NEW w \in Workers, at[w] = "unused"
  PROVE  ~cancelled[w] /\ current # w
BY DEF Furnished, FreshIsEmpty

LEMMA MannedNewWorker ==
  ASSUME Orderly, NEW a \in Actors, NEW f \in BOOLEAN, NewWorker(a, f), keep, ~shutdown, ~synthActive,
         UNCHANGED <<keep, using, workSig>>
  PROVE  Manned'
<1> USE DEF Orderly, Known, Typed, TypeOK, ManagerTypes, WorkTypes
<1>1. PICK w \in Workers :
        /\ at[w] = "unused" /\ worker' = w /\ generation' = generation + 1
        /\ at' = [at EXCEPT ![w] = "early"]
        /\ workGen' = [workGen EXCEPT ![w] = generation']
        /\ cancelled' = [v \in Workers |-> cancelled[v] \/ v = current]
  BY DEF NewWorker
<1>2. \A v \in Workers : v # w => ~Current(v)'
  BY <1>1 DEF Numbered, Current
<1>3. at'[w] = "early" /\ ~cancelled'[w]
  <2>1. ~cancelled[w] /\ current # w
    BY <1>1, FreshUncancelled
  <2>2. cancelled'[w] = (cancelled[w] \/ w = current)
    BY <1>1
  <2> QED BY <1>1, <2>1, <2>2
<1>4. ~Unwanted'
  BY DEF Unwanted, NewWorker
<1> QED BY <1>1, <1>2, <1>3, <1>4 DEF Manned, CancelledIsPast, CurrentIsKnown, CurrentWorksOnKept, NoneStarted

\* A worker's step disturbs the kept bridge only while the worker is the one of
\* the present generation.
LEMMA OnlyCurrentPicks ==
  ASSUME Typed, NEW w \in Workers, Work(w), ~Current(w)
  PROVE  UNCHANGED <<bridge, signature, ready>>
BY DEF Work, Early, Load, NoCatalog, Pick, Warm, Publish, Failed, Finish, End, managerVars,
   KeepStandby, MayPick, MayPublish

LEMMA MannedWork ==
  ASSUME Orderly, NEW w \in Workers, Work(w)
  PROVE  Manned'
<1> USE DEF Orderly, Known
<1>1. /\ MayGo(at[w], at'[w])
      /\ \A v \in Workers : v # w => at'[v] = at[v]
      /\ UNCHANGED <<generation, cancelled, workGen, synthActive, shutdown, keep, op>>
  BY WorkMoves DEF worldVars, mainVars
<1>2. \A v \in Workers : Current(v)' <=> Current(v)
  BY <1>1 DEF Current
<1>3. \A v \in Workers : at'[v] # "unused" => at[v] # "unused"
  BY <1>1 DEF MayGo
<1>4. CancelledIsPast'
  BY <1>1, <1>2, <1>3 DEF Manned, CancelledIsPast
<1>5. NoneStarted'
  BY <1>1, <1>2, <1>3 DEF Manned, NoneStarted, Started, Unwanted
<1>6. \A v \in Workers : Current(v) /\ v # w /\ at[v] # "unused" => ~Current(w)
  <2>1. at[w] # "unused"
    BY <1>1 DEF MayGo
  <2> QED BY <2>1 DEF Numbered, Current
<1>7. CurrentIsKnown'
  <2>1. at'[w] \in Busy => at[w] \in Busy /\ at[w] # "finish"
    BY <1>1 DEF MayGo, Busy
  <2>2. worker' = worker \/ (at[w] = "finish" /\ Current(w))
    BY DEF Work, Early, Load, NoCatalog, Pick, Warm, Publish, Failed, Finish, End, managerVars
  <2>3. \A v \in Workers : at'[v] \in Busy => at[v] \in Busy /\ at[v] # "unused"
    BY <1>1, <2>1 DEF Busy
  <2> QED BY <1>2, <1>6, <2>1, <2>2, <2>3 DEF Manned, CurrentIsKnown
<1>8. CurrentWorksOnKept'
  <2> USE DEF Typed, TypeOK, WorkTypes
  <2>1. \A v \in Workers : v # w => using'[v] = using[v] /\ workSig'[v] = workSig[v]
    BY DEF Work, Early, Load, NoCatalog, Pick, Warm, Publish, Failed, Finish, End, WorkOnly, managerVars
  <2>2. ASSUME NEW v \in Workers, v # w, Current(v), at[v] \in {"warm", "publish"}
        PROVE  using'[v] = bridge' /\ bridge' # None /\ signature' = workSig'[v]
    BY <1>6, <2>1, <2>2, OnlyCurrentPicks DEF Manned, CurrentWorksOnKept
  <2>3. ASSUME Current(w), at'[w] \in {"warm", "publish"}
        PROVE  using'[w] = bridge' /\ bridge' # None /\ signature' = workSig'[w]
    <3>1. Pick(w) \/ Warm(w)
      BY <1>1, <2>3 DEF Work, Early, Load, NoCatalog, Publish, Failed, Finish, End, GoTo
    <3>2. CASE Pick(w)
      BY <2>3, <3>2 DEF Pick, GoTo, WorkOnly, Fits, NewBridge, ManagerTypes, BridgeTypes
    <3>3. CASE Warm(w)
      BY <2>3, <3>3 DEF Warm, GoTo, WorkOnly, managerVars, Manned, CurrentWorksOnKept
    <3> QED BY <3>1, <3>2, <3>3
  <2> QED BY <1>1, <1>2, <2>2, <2>3 DEF CurrentWorksOnKept
<1> QED BY <1>4, <1>5, <1>7, <1>8 DEF Manned

LEMMA MannedKept == Orderly /\ [Next]_vars => Manned'
<1> SUFFICES ASSUME Orderly, Next PROVE Manned'
  BY MannedRest DEF Orderly, vars, managerVars, worldVars, mainVars, workVars, Unwanted
<1> USE DEF Orderly
<1>1. CASE Shutdown
  BY <1>1, MannedBump DEF Shutdown
<1>2. CASE Note
  BY <1>2, MannedBump, MannedRest DEF Note, managerVars, worldVars, Unwanted
<1>3. CASE Claim
  BY <1>3, MannedBump, MannedRest DEF Claim, managerVars, worldVars, Unwanted
<1>4. CASE Release
  BY <1>4, MannedBump, MannedRest DEF Release, Begin, worldVars, Unwanted
<1>5. CASE ReleaseWithoutBridge
  BY <1>5, MannedBump, MannedRest DEF ReleaseWithoutBridge, worldVars, Unwanted
<1>6. ASSUME NEW a \in Actors, NEW f \in BOOLEAN, RefreshAsync(a, f), UNCHANGED keep,
             f => op' = op
      PROVE  Manned'
  <2>1. CASE NoRefresh /\ (shutdown \/ (keep /\ ~synthActive /\ f))
    <3>1. Unwanted' => Unwanted
      BY <1>6, <2>1 DEF NoRefresh, managerVars, Unwanted
    <3> QED BY <1>6, <2>1, <3>1, MannedRest, RefreshWorkers DEF NoRefresh, managerVars, Known
  <2>2. CASE RefreshOff(a)
    BY <1>6, <2>2, MannedBump DEF RefreshOff
  <2>3. CASE NewWorker(a, f) /\ keep /\ ~shutdown /\ ~synthActive
    BY <1>6, <2>3, MannedNewWorker, RefreshWorkers DEF Known
  <2> QED BY <1>6, <2>1, <2>2, <2>3, RefreshWorkers DEF Known
<1>7. CASE Refresh
  BY <1>6, <1>7 DEF Refresh, worldVars, Actors
<1>8. ASSUME NEW x \in Watchers, Notify(x) PROVE Manned'
  BY <1>6, <1>8 DEF Notify, worldVars, mainVars, Actors
<1>9. CASE \/ Initialize \/ SaveSettings \/ SaveBrowser \/ ChangePackages
           \/ LoadDriver \/ Discard \/ FilesChange
  BY <1>9, MannedRest DEF Initialize, SaveSettings, SaveBrowser, ChangePackages, LoadDriver, Discard,
     FilesChange, Begin, MainOnly, managerVars, worldVars, mainVars, workVars, Unwanted
<1>10. ASSUME NEW x \in Watchers, Watching(x) \/ Check(x) PROVE Manned'
  BY <1>10, MannedRest DEF Watching, Check, managerVars, worldVars, mainVars, workVars, Unwanted
<1>11. ASSUME NEW a \in Actors, Terminate(a) PROVE Manned'
  BY <1>11, MannedRest DEF Terminate, managerVars, worldVars, mainVars, workVars, Unwanted
<1>12. ASSUME NEW w \in Workers, Work(w) PROVE Manned'
  BY <1>12, MannedWork
<1> QED BY <1>1, <1>2, <1>3, <1>4, <1>5, <1>7, <1>8, <1>9, <1>10, <1>11, <1>12
        DEF Next, Ask, Continue, Answer

\* Steps that leave the kept bridge, the workers and what they have alone.
LEMMA FurnishedRest ==
  ASSUME Furnished, (bridge' = bridge /\ ready' = ready) \/ ~ready' \/ bridge' # None,
         \A b \in Bridges : life[b] # "unborn" => life'[b] # "unborn",
         using \in [Workers -> Bridges \cup {None}], cancelled \in [Workers -> BOOLEAN],
         UNCHANGED <<at, loaded, using>>,
         (UNCHANGED <<cancelled, current>>) \/ (CancelWorker /\ None \notin Workers)
  PROVE  Furnished'
<1>1. ReadyIsKept'
  BY DEF Furnished, ReadyIsKept
<1>2. UsedIsBorn'
  BY DEF Furnished, UsedIsBorn
<1>3. FreshIsEmpty'
  <2>1. CASE UNCHANGED <<cancelled, current>>
    BY <2>1 DEF Furnished, FreshIsEmpty
  <2>2. CASE CancelWorker /\ None \notin Workers
    BY <2>2 DEF Furnished, FreshIsEmpty, CancelWorker
  <2> QED BY <2>1, <2>2
<1> QED BY <1>1, <1>2, <1>3 DEF Furnished

LEMMA FurnishedNewWorker ==
  ASSUME Orderly, NEW a \in Actors, NEW f \in BOOLEAN, NewWorker(a, f), UNCHANGED <<loaded, using, life>>
  PROVE  Furnished'
<1> USE DEF Orderly, Known, Typed, TypeOK, ManagerTypes, WorkTypes
<1>1. PICK w \in Workers :
        /\ at[w] = "unused" /\ current' = w
        /\ at' = [at EXCEPT ![w] = "early"]
        /\ cancelled' = [v \in Workers |-> cancelled[v] \/ v = current]
  BY DEF NewWorker
<1>2. FreshIsEmpty'
  BY <1>1, FreshUncancelled DEF Furnished, FreshIsEmpty
<1>3. ReadyIsKept'
  BY DEF NewWorker, LeaveToUnwinding, ClearStandby, KeepStandby, Furnished, ReadyIsKept
<1>4. UsedIsBorn'
  BY DEF Furnished, UsedIsBorn
<1> QED BY <1>2, <1>3, <1>4 DEF Furnished

LEMMA FurnishedWork ==
  ASSUME Orderly, NEW w \in Workers, Work(w)
  PROVE  Furnished'
<1> USE DEF Orderly, Known, Typed, TypeOK, ManagerTypes, BridgeTypes, WorkTypes
<1>1. /\ MayGo(at[w], at'[w])
      /\ \A v \in Workers : v # w => at'[v] = at[v]
      /\ UNCHANGED <<cancelled, current>>
  BY WorkMoves
<1>2. FreshIsEmpty'
  <2>1. at'[w] \notin {"unused", "early"}
    BY <1>1 DEF MayGo
  <2>2. \A v \in Workers : v # w => loaded'[v] = loaded[v]
    BY DEF Work, Early, Load, NoCatalog, Pick, Warm, Publish, Failed, Finish, End, WorkOnly
  <2> QED BY <1>1, <2>1, <2>2 DEF Furnished, FreshIsEmpty
<1>3. ReadyIsKept'
  <2>1. CASE Publish(w)
    BY <2>1 DEF Publish, MayPublish, ClearStandby, KeepStandby, Furnished, ReadyIsKept, Manned,
       CurrentWorksOnKept
  <2>2. CASE ~Publish(w)
    BY <2>2 DEF Work, Early, Load, NoCatalog, Pick, Warm, Failed, Finish, End, managerVars,
       GiveUp, ClearStandby, KeepStandby, Furnished, ReadyIsKept
  <2> QED BY <2>1, <2>2
<1>4. UsedIsBorn'
  <2>1. CASE Pick(w)
    <3>1. bridge # None => life[bridge] = "alive"
      BY DEF Owners, OneOwner, Owned
    <3> QED BY <2>1, <3>1 DEF Pick, NewBridge, bridgeVars, Furnished, UsedIsBorn
  <2>2. CASE ~Pick(w)
    BY <2>2 DEF Work, Early, Load, NoCatalog, Warm, Publish, Failed, Finish, End, bridgeVars,
       Furnished, UsedIsBorn
  <2> QED BY <2>1, <2>2
<1> QED BY <1>2, <1>3, <1>4 DEF Furnished

LEMMA FurnishedKept == Orderly /\ [Next]_vars => Furnished'
<1> SUFFICES ASSUME Orderly, Next PROVE Furnished'
  BY DEF Orderly, Furnished, ReadyIsKept, FreshIsEmpty, UsedIsBorn, vars, managerVars, workVars, bridgeVars
<1> USE DEF Orderly
<1>0. /\ using \in [Workers -> Bridges \cup {None}] /\ cancelled \in [Workers -> BOOLEAN]
      /\ None \notin Workers /\ life \in [Bridges -> {"unborn", "alive", "dead"}]
      /\ drop \in [Actors -> Bridges \cup {None}]
      /\ bridge # None \/ ~ready
  BY ActorsDistinct DEF Known, Typed, TypeOK, WorkTypes, BridgeTypes, Actors, Furnished, ReadyIsKept
<1>1. CASE Shutdown
  BY <1>0, <1>1, FurnishedRest DEF Shutdown, ClearStandby, bridgeVars
<1>2. CASE Note
  BY <1>0, <1>2, FurnishedRest DEF Note, managerVars, ClearStandby, bridgeVars
<1>3. CASE Claim
  <2>1. \A b \in Bridges : life[b] # "unborn" => life'[b] # "unborn"
    BY <1>0, <1>3 DEF Claim, HandOut, OwnBridge, NewBridge, bridgeVars
  <2> QED BY <1>0, <1>3, <2>1, FurnishedRest DEF Claim, managerVars, HandOut, ClearStandby
<1>4. CASE Release
  BY <1>0, <1>4, FurnishedRest DEF Release, bridgeVars
<1>5. CASE ReleaseWithoutBridge
  BY <1>0, <1>5, FurnishedRest DEF ReleaseWithoutBridge, bridgeVars
<1>6. ASSUME NEW a \in Actors, NEW f \in BOOLEAN, RefreshAsync(a, f), UNCHANGED bridgeVars
      PROVE  Furnished'
  <2> USE <1>6, RefreshWorkers DEF bridgeVars, Known
  <2>1. CASE NoRefresh
    BY <1>0, <2>1, FurnishedRest DEF NoRefresh, managerVars
  <2>2. CASE RefreshOff(a)
    BY <1>0, <2>2, FurnishedRest DEF RefreshOff, ClearStandby
  <2>3. CASE NewWorker(a, f)
    BY <2>3, FurnishedNewWorker
  <2> QED BY <2>1, <2>2, <2>3
<1>7. CASE Refresh
  BY <1>6, <1>7 DEF Refresh, Actors
<1>8. ASSUME NEW x \in Watchers, Notify(x) PROVE Furnished'
  BY <1>6, <1>8 DEF Notify, Actors
<1>9. CASE \/ Initialize \/ SaveSettings \/ SaveBrowser \/ ChangePackages
           \/ LoadDriver \/ Discard \/ FilesChange
  BY <1>0, <1>9, FurnishedRest DEF Initialize, SaveSettings, SaveBrowser, ChangePackages, LoadDriver,
     Discard, FilesChange, MainOnly, managerVars, bridgeVars, workVars
<1>10. ASSUME NEW x \in Watchers, Watching(x) \/ Check(x) PROVE Furnished'
  BY <1>0, <1>10, FurnishedRest DEF Watching, Check, managerVars, bridgeVars, workVars
<1>11. ASSUME NEW a \in Actors, Terminate(a) PROVE Furnished'
  BY <1>0, <1>11, FurnishedRest DEF Terminate, managerVars, workVars
<1>12. ASSUME NEW w \in Workers, Work(w) PROVE Furnished'
  BY <1>12, FurnishedWork
<1> QED BY <1>1, <1>2, <1>3, <1>4, <1>5, <1>7, <1>8, <1>9, <1>10, <1>11, <1>12
        DEF Next, Ask, Continue, Answer

LEMMA OrderlyAtFirst == Init => Orderly
<1> SUFFICES ASSUME Init PROVE Orderly
  OBVIOUS
<1>1. Known
  BY KnownAtFirst
<1>2. Rested
  BY DEF Init, Rested, Alive
<1>3. Manned
  BY DEF Init, Manned, CancelledIsPast, CurrentIsKnown, CurrentWorksOnKept, NoneStarted, Started, Busy
<1>4. Furnished
  BY ActorsDistinct DEF Init, Furnished, ReadyIsKept, FreshIsEmpty, UsedIsBorn, Actors
<1> QED BY <1>1, <1>2, <1>3, <1>4 DEF Orderly

LEMMA OrderlyKept == Orderly /\ [Next]_vars => Orderly'
BY KnownKept, RestedKept, MannedKept, FurnishedKept DEF Orderly

LEMMA AlwaysOrderly == Spec => []Orderly
BY OrderlyAtFirst, OrderlyKept, PTL DEF Spec

-----------------------------------------------------------------------------
(* Two that warm.  While no watched file changes, a worker of the present       *)
(* generation has read what is installed now, so it never takes a bridge that   *)
(* is ready: it would have left it alone at once.  So the bridge a worker warms  *)
(* is not ready until that worker says so, and belongs to nobody else.          *)

Stands == <<pack, setting>>
Still == (\A x \in Watchers : call[x] = "wait") /\ (\A w \in Workers : ~restart[w])
Informed ==
  \A w \in Workers : Current(w) /\ Alive(w) /\ op # "refresh" =>
    /\ loaded[w] # None => loaded[w] = pack
    /\ at[w] \in {"pick", "warm", "publish"} => workSig[w] = Stands /\ pack # None
    /\ at[w] \in {"load", "pick"} /\ ready /\ pack # None => signature # Stands
WarmsOne ==
  \A w \in Workers : at[w] = "warm" =>
    /\ using[w] # None /\ using[w] # synth
    /\ using[w] = bridge => worker = w /\ (op = "refresh" \/ (Current(w) /\ ~ready))
Separate == Still /\ Informed /\ WarmsOne /\ NoSharedWarmup
Apart == changes = 0 => Separate

LEMMA StillKept ==
  ASSUME Typed, Still, Next, ~FilesChange
  PROVE  Still'
<1> USE DEF Still
<1>1. CASE Ask
  BY <1>1 DEF Ask, Initialize, Shutdown, SaveSettings, SaveBrowser, ChangePackages, LoadDriver, Release,
     Discard, MainOnly, workVars, watchVars
<1>2. CASE Note \/ Claim \/ ReleaseWithoutBridge \/ \E a \in Actors : Terminate(a)
  BY <1>2 DEF Note, Claim, ReleaseWithoutBridge, Terminate, workVars, watchVars
<1>3. CASE Refresh
  <2>1. \A w \in Workers : ~restart'[w]
    BY <1>3 DEF Refresh, RefreshAsync, NoRefresh, RefreshOff, NewWorker, Typed, TypeOK, WorkTypes
  <2> QED BY <1>3, <2>1 DEF Refresh
<1>4. ASSUME NEW w \in Workers, Work(w) PROVE Still'
  BY <1>4, WorkMoves
<1>5. ASSUME NEW x \in Watchers, Answer(x) PROVE Still'
  BY <1>5 DEF Answer, Watching, Check, Notify, workVars
<1> QED BY <1>1, <1>2, <1>3, <1>4, <1>5 DEF Next, Continue

\* Nobody of the present generation has to be informed.
LEMMA InformedNone ==
  ASSUME \A w \in Workers : ~Current(w)' \/ ~Alive(w)' \/ op' = "refresh"
  PROVE  Informed'
BY DEF Informed

LEMMA InformedRest ==
  ASSUME Informed, UNCHANGED <<generation, workGen, at, loaded, workSig, pack, setting>>,
         op # "refresh", UNCHANGED <<ready, signature>>
  PROVE  Informed'
BY DEF Informed, Stands, Current, Alive

LEMMA InformedWork ==
  ASSUME Orderly, Separate, NEW w \in Workers, Work(w), op # "refresh"
  PROVE  Informed'
<1> USE DEF Orderly, Known, Typed, TypeOK, WorkTypes
<1>1. /\ MayGo(at[w], at'[w])
      /\ \A v \in Workers : v # w => at'[v] = at[v]
      /\ UNCHANGED <<generation, workGen, pack, setting, op>>
  BY WorkMoves DEF worldVars, mainVars
<1>2. Alive(w)
  BY <1>1, ActorsDistinct DEF MayGo, Alive, Actors
<1>3. \A v \in Workers : Current(v)' <=> Current(v)
  BY <1>1 DEF Current
<1>4. ASSUME NEW v \in Workers, v # w, Current(v), Alive(v)'
      PROVE  /\ loaded'[v] # None => loaded'[v] = pack'
             /\ at'[v] \in {"pick", "warm", "publish"} => workSig'[v] = Stands' /\ pack' # None
             /\ at'[v] \in {"load", "pick"} /\ ready' /\ pack' # None => signature' # Stands'
  <2>1. ~Current(w) /\ Alive(v)
    BY <1>1, <1>2, <1>4 DEF Numbered, Alive, Current
  <2>2. UNCHANGED <<bridge, signature, ready>>
    BY <2>1, OnlyCurrentPicks
  <2>3. loaded'[v] = loaded[v] /\ workSig'[v] = workSig[v] /\ at'[v] = at[v]
    BY <1>1, <1>4 DEF Work, Early, Load, NoCatalog, Pick, Warm, Publish, Failed, Finish, End, WorkOnly
  <2> QED BY <1>1, <1>4, <2>1, <2>2, <2>3 DEF Separate, Informed, Stands
<1>5. ASSUME Current(w)
      PROVE  /\ loaded'[w] # None => loaded'[w] = pack'
             /\ at'[w] \in {"pick", "warm", "publish"} => workSig'[w] = Stands' /\ pack' # None
             /\ at'[w] \in {"load", "pick"} /\ ready' /\ pack' # None => signature' # Stands'
  <2>1. /\ loaded[w] # None => loaded[w] = pack
        /\ at[w] \in {"pick", "warm", "publish"} => workSig[w] = Stands /\ pack # None
        /\ at[w] \in {"load", "pick"} /\ ready /\ pack # None => signature # Stands
    BY <1>2, <1>5 DEF Separate, Informed
  <2>2. CASE Early(w)
    <3>1. ~restart[w]
      BY DEF Separate, Still
    <3>2. ready => bridge # None
      BY DEF Furnished, ReadyIsKept
    <3> QED BY <1>1, <2>1, <2>2, <3>1, <3>2 DEF Early, GoTo, Fits, Stands
  <2>3. CASE Load(w)
    BY <1>1, <2>1, <2>3 DEF Load, GoTo, SignatureOf, Stands, managerVars
  <2>4. CASE Pick(w)
    BY <1>1, <2>1, <2>4 DEF Pick, GoTo, Stands
  <2>5. CASE Warm(w)
    BY <1>1, <2>1, <2>5 DEF Warm, GoTo, Stands
  <2>6. CASE NoCatalog(w) \/ Publish(w) \/ Failed(w) \/ Finish(w) \/ End(w)
    BY <1>1, <2>1, <2>6 DEF NoCatalog, Publish, Failed, Finish, End, GoTo
  <2> QED BY <2>2, <2>3, <2>4, <2>5, <2>6 DEF Work
<1> QED BY <1>3, <1>4, <1>5 DEF Informed

LEMMA InformedKept ==
  ASSUME Orderly, Separate, Next, ~FilesChange
  PROVE  Informed'
<1> USE DEF Orderly, Separate
<1>1. CASE Shutdown
  BY <1>1, NoneCurrent, InformedNone DEF Shutdown
<1>2. CASE Note \/ SaveSettings \/ SaveBrowser \/ ChangePackages
  <2>1. CASE op' = "refresh"
    BY <2>1, InformedNone
  <2>2. CASE op' # "refresh"
    BY <1>2, <2>2, InformedRest DEF Note, SaveSettings, SaveBrowser, ChangePackages, Begin, MainOnly,
       managerVars, workVars
  <2> QED BY <2>1, <2>2
<1>3. CASE Claim
  BY <1>3, NoneCurrent, InformedNone, InformedRest DEF Claim, managerVars, worldVars
<1>4. CASE Release
  BY <1>4, NoneCurrent, InformedNone, InformedRest DEF Release, Begin, worldVars
<1>5. CASE ReleaseWithoutBridge
  BY <1>5, NoneCurrent, InformedNone, InformedRest DEF ReleaseWithoutBridge, worldVars
<1>6. CASE Refresh
  <2>1. RefreshAsync(Main, FALSE) /\ Main \in Actors
    BY <1>6 DEF Refresh, Actors
  <2>2. CASE shutdown /\ NoRefresh
    <3>1. \A w \in Workers : ~Alive(w) \/ ~Current(w)
      BY <2>2 DEF Rested, Unwanted
    <3> QED BY <2>2, <3>1, InformedNone DEF NoRefresh, managerVars, Alive, Current
  <2>3. CASE RefreshOff(Main)
    BY <2>3, NoneCurrent, InformedNone DEF RefreshOff
  <2>4. CASE NewWorker(Main, FALSE)
    <3> USE DEF Known, Typed, TypeOK, ManagerTypes, WorkTypes
    <3>1. PICK w \in Workers :
            /\ at[w] = "unused" /\ generation' = generation + 1
            /\ at' = [at EXCEPT ![w] = "early"]
            /\ workGen' = [workGen EXCEPT ![w] = generation']
      BY <2>4 DEF NewWorker
    <3>2. \A v \in Workers : v # w => ~Current(v)'
      BY <3>1 DEF Numbered, Current
    <3>3. at'[w] = "early" /\ loaded'[w] = None
      BY <2>1, <3>1, RefreshWorkers DEF Furnished, FreshIsEmpty
    <3> QED BY <3>1, <3>2, <3>3 DEF Informed
  <2> QED BY <2>1, <2>2, <2>3, <2>4, RefreshWorkers DEF Known
<1>7. ASSUME NEW x \in Watchers, Notify(x) PROVE FALSE
  BY <1>7 DEF Notify, Still
<1>8. CASE Initialize \/ LoadDriver \/ Discard
  BY <1>8, InformedRest DEF Initialize, LoadDriver, Discard, Begin, MainOnly, managerVars, worldVars, workVars
<1>9. ASSUME NEW x \in Watchers, Watching(x) \/ Check(x) PROVE Informed'
  BY <1>9, InformedRest, InformedNone DEF Watching, Check, managerVars, worldVars, mainVars, workVars
<1>10. ASSUME NEW a \in Actors, Terminate(a) PROVE Informed'
  BY <1>10, InformedRest, InformedNone DEF Terminate, managerVars, worldVars, mainVars, workVars
<1>11. ASSUME NEW w \in Workers, Work(w) PROVE Informed'
  <2>1. CASE op # "refresh"
    BY <1>11, <2>1, InformedWork
  <2>2. CASE op = "refresh"
    BY <1>11, <2>2, WorkMoves, InformedNone DEF mainVars, Known
  <2> QED BY <2>1, <2>2
<1> QED BY <1>1, <1>2, <1>3, <1>4, <1>5, <1>6, <1>7, <1>8, <1>9, <1>10, <1>11
        DEF Next, Ask, Continue, Answer

\* Steps after which no bridge is kept, or the same one in the same state.
LEMMA WarmsOneRest ==
  ASSUME WarmsOne, UNCHANGED using,
         \A w \in Workers : at'[w] = "warm" => at[w] = "warm",
         None \notin Bridges, using \in [Workers -> Bridges \cup {None}],
         synth' \in {synth, None},
         \/ bridge' = None
         \/ UNCHANGED <<bridge, worker, ready, generation, workGen>> /\ (op = "refresh" => op' = "refresh")
         \/ UNCHANGED <<bridge, worker>> /\ op' = "refresh"
  PROVE  WarmsOne'
<1>1. \A w \in Workers : at'[w] = "warm" => using'[w] # None /\ using'[w] # synth'
  BY DEF WarmsOne
<1>2. CASE bridge' = None
  BY <1>1, <1>2 DEF WarmsOne
<1>3. CASE UNCHANGED <<bridge, worker, ready, generation, workGen>> /\ (op = "refresh" => op' = "refresh")
  BY <1>1, <1>3 DEF WarmsOne, Current
<1>4. CASE UNCHANGED <<bridge, worker>> /\ op' = "refresh"
  BY <1>1, <1>4 DEF WarmsOne
<1> QED BY <1>2, <1>3, <1>4

LEMMA WarmsOneWork ==
  ASSUME Orderly, Separate, NEW w \in Workers, Work(w)
  PROVE  WarmsOne' /\ NoSharedWarmup'
<1> USE DEF Orderly, Known, Typed, TypeOK, ManagerTypes, WorldTypes, BridgeTypes, WorkTypes
<1>1. /\ MayGo(at[w], at'[w])
      /\ \A v \in Workers : v # w => at'[v] = at[v]
      /\ UNCHANGED <<generation, workGen, op, synth>>
  BY WorkMoves DEF mainVars
<1>2. None \notin Bridges
  BY ActorsDistinct
<1>3. CASE Pick(w) /\ at'[w] = "warm"
  <2>1. Current(w) /\ worker = w /\ worker' = worker /\ at[w] = "pick" /\ Alive(w)
    BY <1>2, <1>3, ActorsDistinct DEF Pick, GoTo, MayPick, Manned, CurrentIsKnown, Busy, Alive, Actors
  <2>2. bridge' # None /\ using' = [using EXCEPT ![w] = bridge']
    BY <1>2, <1>3 DEF Pick, GoTo
  <2>3. op = "refresh" \/ ~ready'
    <3>1. ~restart[w]
      BY DEF Separate, Still
    <3>2. op # "refresh" => workSig[w] = Stands /\ pack # None /\ (ready => signature # Stands)
      BY <2>1 DEF Separate, Informed
    <3> QED BY <1>3, <3>1, <3>2 DEF Pick, GoTo, Fits
  <2>4. CASE UNCHANGED <<bridge, signature, ready>>
    <3>1. bridge # synth
      BY <2>2, <2>4 DEF Owners, OneOwner
    <3>2. \A v \in Workers : v # w /\ at[v] = "warm" => using[v] # bridge
      BY <2>1 DEF Separate, WarmsOne
    <3>3. WarmsOne'
      BY <1>1, <2>1, <2>2, <2>3, <2>4, <3>1, <3>2 DEF Separate, WarmsOne, Current
    <3>4. NoSharedWarmup'
      BY <1>1, <2>2, <2>4, <3>2 DEF Separate, NoSharedWarmup
    <3> QED BY <3>3, <3>4
  <2>5. CASE NewBridge(bridge')
    <3>1. bridge' # synth
      <4>1. synth # None => life[synth] = "alive"
        BY DEF Owners, OneOwner, Owned
      <4> QED BY <2>2, <2>5, <4>1 DEF NewBridge
    <3>2. \A v \in Workers : using[v] # bridge'
      BY <2>2, <2>5 DEF NewBridge, Furnished, UsedIsBorn
    <3>3. WarmsOne'
      BY <1>1, <2>1, <2>2, <2>3, <3>1, <3>2 DEF Separate, WarmsOne, Current
    <3>4. NoSharedWarmup'
      BY <1>1, <2>2, <3>2 DEF Separate, NoSharedWarmup
    <3> QED BY <3>3, <3>4
  <2> QED BY <1>3, <2>4, <2>5 DEF Pick, GoTo
<1>4. CASE ~(Pick(w) /\ at'[w] = "warm")
  <2>1. UNCHANGED using /\ at'[w] # "warm"
    BY <1>1, <1>4 DEF Work, Early, Load, NoCatalog, Pick, Warm, Publish, Failed, Finish, End, GoTo, MayGo
  <2>2. NoSharedWarmup'
    BY <1>1, <2>1 DEF Separate, NoSharedWarmup
  <2>3. bridge' \in {bridge, None}
    BY <1>4 DEF Work, Early, Load, NoCatalog, Pick, Warm, Publish, Failed, Finish, End, managerVars,
       GoTo, GiveUp, ClearStandby, KeepStandby
  <2>4. ASSUME NEW v \in Workers, at[v] = "warm", v # w, using[v] = bridge, op # "refresh"
        PROVE  ~Current(w) /\ worker = v /\ ~ready
    <3>1. Current(v) /\ worker = v /\ ~ready
      BY <2>4 DEF Separate, WarmsOne
    <3>2. at[w] # "unused"
      BY <1>1 DEF MayGo
    <3> QED BY <2>4, <3>1, <3>2 DEF Numbered, Current
  <2>5. ASSUME NEW v \in Workers, at[v] = "warm", v # w, using[v] = bridge
        PROVE  worker' = v
    <3>1. worker = v
      BY <2>5 DEF Separate, WarmsOne
    <3> QED BY <2>5, <3>1 DEF Work, Early, Load, NoCatalog, Pick, Warm, Publish, Failed, Finish, End, managerVars
  <2>6. WarmsOne'
    BY <1>1, <1>2, <2>1, <2>3, <2>4, <2>5, OnlyCurrentPicks DEF Separate, WarmsOne, Current
  <2> QED BY <2>2, <2>6
<1> QED BY <1>3, <1>4

\* Nothing but a worker's step makes a worker warm a bridge.
LEMMA SharedRest ==
  ASSUME NoSharedWarmup, UNCHANGED using, \A w \in Workers : at'[w] = "warm" => at[w] = "warm"
  PROVE  NoSharedWarmup'
BY DEF NoSharedWarmup

LEMMA WarmsOneKept ==
  ASSUME Orderly, Separate, Next, ~FilesChange
  PROVE  WarmsOne' /\ NoSharedWarmup'
<1> USE DEF Orderly, Separate
<1>0. /\ None \notin Bridges /\ using \in [Workers -> Bridges \cup {None}]
      /\ at \in [Workers -> {"unused", "early", "load", "none", "pick", "warm", "publish",
                             "failed", "finish", "end", "done"}]
  BY ActorsDistinct DEF Known, Typed, TypeOK, WorkTypes
<1> USE <1>0
<1>1. CASE Shutdown
  BY <1>1, WarmsOneRest, SharedRest DEF Shutdown, ClearStandby
<1>2. CASE Note
  BY <1>2, WarmsOneRest, SharedRest DEF Note, managerVars, ClearStandby
<1>3. CASE Claim
  <2>1. UNCHANGED <<at, using, worker, workGen>> /\ op = "claim"
    BY <1>3 DEF Claim, managerVars
  <2>2. CASE OwnBridge /\ UNCHANGED <<bridge, ready, generation>>
    <3>1. \A v \in Workers : using[v] # None => using[v] # synth'
      BY <2>2 DEF OwnBridge, NewBridge, Furnished, UsedIsBorn
    <3> QED BY <1>3, <2>1, <2>2, <3>1, SharedRest DEF WarmsOne, Current, Claim
  <2>3. CASE bridge' = None /\ OwnBridge
    <3>1. \A v \in Workers : using[v] # None => using[v] # synth'
      BY <2>3 DEF OwnBridge, NewBridge, Furnished, UsedIsBorn
    <3> QED BY <2>1, <2>3, <3>1, SharedRest DEF WarmsOne
  <2>4. CASE HandOut
    BY <2>1, <2>4, SharedRest DEF HandOut, WarmsOne
  <2> QED BY <1>3, <2>2, <2>3, <2>4 DEF Claim, managerVars, ClearStandby
<1>4. CASE Release
  <2>1. UNCHANGED <<at, using, worker, workGen>> /\ synth' = None /\ op = "idle"
    BY <1>4 DEF Release, Begin
  <2>2. CASE UNCHANGED <<bridge, ready, generation>>
    BY <2>1, <2>2, WarmsOneRest, SharedRest
  <2>3. CASE bridge' = synth
    BY <2>1, <2>3, SharedRest DEF WarmsOne
  <2> QED BY <1>4, <2>2, <2>3 DEF Release
<1>5. CASE ReleaseWithoutBridge
  BY <1>5, WarmsOneRest, SharedRest DEF ReleaseWithoutBridge
<1>6. CASE Refresh
  <2>1. RefreshAsync(Main, FALSE) /\ Main \in Actors /\ synth' = synth /\ UNCHANGED using
    BY <1>6 DEF Refresh, mainVars, Actors, RefreshAsync
  <2>2. CASE shutdown /\ NoRefresh
    BY <2>1, <2>2, WarmsOneRest, SharedRest DEF NoRefresh, managerVars, Rested, Unwanted
  <2>3. CASE RefreshOff(Main)
    BY <2>1, <2>3, WarmsOneRest, SharedRest DEF RefreshOff, ClearStandby
  <2>4. CASE NewWorker(Main, FALSE)
    <3>1. \A w \in Workers : at'[w] = "warm" => at[w] = "warm"
      BY <2>4 DEF NewWorker
    <3>2. CASE bridge' = None
      BY <2>1, <3>1, <3>2, WarmsOneRest, SharedRest
    <3>3. CASE ~Alive(worker) /\ bridge' = bridge
      <4>1. \A w \in Workers : at[w] = "warm" => using[w] # bridge
        BY <3>3, ActorsDistinct DEF WarmsOne, Alive, Actors
      <4> QED BY <2>1, <3>1, <3>3, <4>1, SharedRest DEF WarmsOne
    <3> QED BY <2>4, <3>2, <3>3 DEF NewWorker, LeaveToUnwinding, ClearStandby, KeepStandby
  <2> QED BY <2>1, <2>2, <2>3, <2>4, RefreshWorkers DEF Known
<1>7. ASSUME NEW x \in Watchers, Notify(x) PROVE FALSE
  BY <1>7 DEF Notify, Still
<1>8. CASE \/ Initialize \/ SaveSettings \/ SaveBrowser \/ ChangePackages \/ LoadDriver \/ Discard
  BY <1>8, WarmsOneRest, SharedRest DEF Initialize, SaveSettings, SaveBrowser, ChangePackages,
     LoadDriver, Discard, Begin, MainOnly, managerVars, workVars
<1>9. ASSUME NEW x \in Watchers, Watching(x) \/ Check(x) PROVE WarmsOne' /\ NoSharedWarmup'
  BY <1>9, WarmsOneRest, SharedRest DEF Watching, Check, managerVars, mainVars, workVars
<1>10. ASSUME NEW a \in Actors, Terminate(a) PROVE WarmsOne' /\ NoSharedWarmup'
  BY <1>10, WarmsOneRest, SharedRest DEF Terminate, managerVars, mainVars, workVars
<1>11. ASSUME NEW w \in Workers, Work(w) PROVE WarmsOne' /\ NoSharedWarmup'
  BY <1>11, WarmsOneWork
<1> QED BY <1>1, <1>2, <1>3, <1>4, <1>5, <1>6, <1>7, <1>8, <1>9, <1>10, <1>11
        DEF Next, Ask, Continue, Answer

LEMMA ApartKept == Orderly /\ Apart /\ [Next]_vars => Apart'
<1> SUFFICES ASSUME Orderly, Apart, [Next]_vars, changes' = 0 PROVE Separate'
  BY DEF Apart
<1>1. CASE UNCHANGED vars
  BY <1>1 DEF vars, managerVars, worldVars, mainVars, workVars, watchVars, Apart, Separate, Still,
     Informed, WarmsOne, NoSharedWarmup, Alive, Current, Stands
<1>2. CASE Next
  <2>1. changes \in Nat
    BY BoundsAreNatural DEF Orderly, Known, Typed, TypeOK, WorldTypes
  <2>2. ~FilesChange
    BY <2>1 DEF FilesChange
  <2>3. changes = 0
    <3>1. ASSUME NEW w \in Workers, Work(w) PROVE changes' = changes
      BY <3>1, WorkMoves DEF worldVars, Orderly, Known
    <3> QED BY <1>2, <2>2, <3>1 DEF Next, Ask, Continue, Answer, Initialize, Shutdown, SaveSettings,
       SaveBrowser, ChangePackages, LoadDriver, Release, Discard, Note, Refresh, Claim,
       ReleaseWithoutBridge, Watching, Check, Notify, Terminate, worldVars
  <2> QED BY <1>2, <2>2, <2>3, StillKept, InformedKept, WarmsOneKept DEF Apart, Separate, Orderly, Known
<1> QED BY <1>1, <1>2

LEMMA AlwaysApart == Spec => []Apart
<1>1. Init => Apart
  BY DEF Init, Apart, Separate, Still, Informed, WarmsOne, NoSharedWarmup, Alive
<1> QED BY <1>1, ApartKept, AlwaysOrderly, PTL DEF Spec

\* While the watched files stay as they are, no two workers warm the same bridge:
\* the replacement of a worker that is still unwinding takes another.
THEOREM WarmsAlone == Spec => [](changes = 0 => NoSharedWarmup)
<1>1. Apart => (changes = 0 => NoSharedWarmup)
  BY DEF Apart, Separate
<1> QED BY <1>1, AlwaysApart, PTL

\* And no synthesizer gets a bridge that a worker is still warming.
THEOREM ClaimsIdle == Spec => [](changes = 0 => ClaimedIsIdle)
<1>1. Apart => (changes = 0 => ClaimedIsIdle)
  BY DEF Apart, Separate, WarmsOne, ClaimedIsIdle
<1> QED BY <1>1, AlwaysApart, PTL

-----------------------------------------------------------------------------
(* Kept and watched.  With a catalog that loads, a worker of the present        *)
(* generation leaves a watcher behind however it ends, and looks at the kept     *)
(* bridge before it does; a bridge kept outside the main thread's calls is the   *)
(* work of such a worker.                                                       *)

KeptIsStarted == op = "idle" /\ bridge # None => Started
FinishWatched ==
  \A w \in Workers : op = "idle" /\ Current(w) /\ at[w] \in {"finish", "end", "done"} => watcher # None
FailsOnKept == \A w \in Workers : Current(w) /\ at[w] = "failed" => using[w] = bridge
Looking == \E w \in Workers : Current(w) /\ at[w] \in {"early", "load", "none", "pick"}
Replaced == changes = 0 /\ ready /\ op = "idle" => signature = Stands \/ Looking
Watched == KeptIsStarted /\ FinishWatched /\ FailsOnKept /\ Replaced

\* Steps after which the main thread still has a call to make, or no worker is
\* of the present generation and no bridge is kept.
LEMMA WatchedBusy ==
  ASSUME FailsOnKept, UNCHANGED <<generation, at, workGen, bridge, using>>, op' # "idle"
  PROVE  Watched'
BY DEF Watched, KeptIsStarted, FinishWatched, FailsOnKept, Replaced, Current

LEMMA WatchedNone ==
  ASSUME \A w \in Workers : ~Current(w)' \/ at'[w] \in {"unused", "early"},
         op' # "idle" \/ (bridge' = None /\ ~ready')
  PROVE  Watched'
BY DEF Watched, KeptIsStarted, FinishWatched, FailsOnKept, Replaced

LEMMA WatchedRest ==
  ASSUME Watched, op = "idle" \/ op' # "idle", changes' = 0 => changes = 0,
         UNCHANGED <<generation, at, workGen, using, bridge, ready, signature, watcher>>,
         op' = "idle" => UNCHANGED <<pack, setting>> \/ changes' # 0
  PROVE  Watched'
BY DEF Watched, KeptIsStarted, FinishWatched, FailsOnKept, Replaced, Started, Looking, Stands, Current

\* Steps of the main thread while nothing may be kept anyway.
LEMMA WatchedUnwanted ==
  ASSUME Orderly, Unwanted, UNCHANGED <<generation, at, workGen, bridge, ready>>
  PROVE  Watched'
<1>1. \A w \in Workers : at[w] = "unused" \/ ~Current(w)
  BY DEF Orderly, Manned, NoneStarted, Started
<1>2. bridge = None /\ ~ready
  BY DEF Orderly, Rested, Furnished, ReadyIsKept
<1> QED BY <1>1, <1>2, WatchedNone DEF Current

LEMMA StartsToWatch ==
  ASSUME ~shutdown, ~synthActive, keep, StartWatcher
  PROVE  watcher' # None
<1>1. None \notin Watchers
  BY ActorsDistinct DEF Actors
<1> QED BY <1>1 DEF StartWatcher

LEMMA WatchedWork ==
  ASSUME Orderly, Apart, Watched, "catalog" \notin Faults, NEW w \in Workers, Work(w)
  PROVE  Watched'
<1> USE DEF Orderly, Known, Typed, TypeOK, ManagerTypes, WorkTypes
<1>1. /\ MayGo(at[w], at'[w])
      /\ \A v \in Workers : v # w => at'[v] = at[v]
      /\ UNCHANGED <<generation, workGen, synthActive, shutdown, keep, op, pack, setting, changes>>
  BY WorkMoves DEF worldVars, mainVars
<1>2. (\A v \in Workers : Current(v)' <=> Current(v)) /\ at[w] # "unused" /\ at'[w] # "unused"
  BY <1>1 DEF Current, MayGo
<1>3. \A v \in Workers : v # w /\ at[v] # "unused" /\ Current(v) => ~Current(w)
  BY <1>2 DEF Numbered, Current
<1>4. op = "idle" /\ Started => ~shutdown /\ ~synthActive /\ keep
  BY DEF Manned, NoneStarted, Unwanted
<1>5. Current(w) => Started
  BY <1>2 DEF Started
<1>6. KeptIsStarted'
  <2>1. CASE Current(w)
    BY <1>2, <2>1 DEF KeptIsStarted, Started
  <2>2. CASE ~Current(w)
    <3>1. Started => Started'
      BY <1>1, <1>2 DEF Started
    <3> QED BY <1>1, <2>2, <3>1, OnlyCurrentPicks DEF Watched, KeptIsStarted
  <2> QED BY <2>1, <2>2
<1>7. watcher' = watcher \/ StartWatcher
  BY DEF Work, Early, Load, NoCatalog, Pick, Warm, Publish, Failed, Finish, End, managerVars, UnchangedWatch, GiveUp
<1>8. op = "idle" /\ Started /\ watcher # None => watcher' # None
  BY <1>4, <1>7, StartsToWatch
<1>9. FailsOnKept'
  <2>1. ASSUME NEW v \in Workers, v # w, Current(v), at[v] = "failed" PROVE using'[v] = bridge'
    <3>1. using'[v] = using[v]
      BY <2>1 DEF Work, Early, Load, NoCatalog, Pick, Warm, Publish, Failed, Finish, End
    <3> QED BY <1>3, <2>1, <3>1, OnlyCurrentPicks DEF Watched, FailsOnKept
  <2>2. ASSUME Current(w), at'[w] = "failed" PROVE using'[w] = bridge'
    <3>1. Warm(w)
      BY <1>1, <2>2 DEF Work, Early, Load, NoCatalog, Pick, Publish, Failed, Finish, End, GoTo
    <3> QED BY <2>2, <3>1 DEF Warm, managerVars, Manned, CurrentWorksOnKept
  <2> QED BY <1>1, <1>2, <2>1, <2>2 DEF FailsOnKept
<1>10. FinishWatched'
  <2>1. ASSUME op = "idle", NEW v \in Workers, v # w, Current(v), at[v] \in {"finish", "end", "done"}
        PROVE  watcher' # None
    BY <1>8, <2>1 DEF Watched, FinishWatched, Started
  <2>2. ASSUME op = "idle", Current(w), at'[w] \in {"finish", "end", "done"}
        PROVE  watcher' # None
    <3>1. ~shutdown /\ ~synthActive /\ keep /\ ~cancelled[w]
      BY <1>2, <1>4, <1>5, <2>2 DEF Manned, CancelledIsPast
    <3>2. CASE Finish(w) \/ End(w)
      BY <2>2, <3>2 DEF Finish, End, managerVars, Watched, FinishWatched
    <3>3. CASE Early(w)
      BY <2>2, <3>1, <3>3, StartsToWatch DEF Early, GoTo
    <3>4. CASE Load(w) \/ Warm(w) \/ Pick(w)
      BY <2>2, <3>1, <3>4 DEF Load, Warm, Pick, MayPick, GoTo
    <3>5. CASE NoCatalog(w)
      BY <2>2, <3>1, <3>5, StartsToWatch DEF NoCatalog, GiveUp
    <3>6. CASE Publish(w)
      <4>1. MayPublish(w)
        BY <2>2, <3>6 DEF Publish, MayPublish, Manned, CurrentWorksOnKept
      <4> QED BY <3>1, <3>6, <4>1, StartsToWatch DEF Publish
    <3>7. CASE Failed(w)
      BY <2>2, <3>1, <3>7, StartsToWatch DEF Failed, GiveUp, Watched, FailsOnKept
    <3> QED BY <3>2, <3>3, <3>4, <3>5, <3>6, <3>7 DEF Work
  <2> QED BY <1>1, <1>2, <2>1, <2>2 DEF FinishWatched
<1>11. Replaced'
  <2> SUFFICES ASSUME changes = 0, ready', op = "idle" PROVE signature' = Stands' \/ Looking'
    BY <1>1 DEF Replaced
  <2>1. CASE ~Current(w)
    <3>1. UNCHANGED <<signature, ready>>
      BY <2>1, OnlyCurrentPicks
    <3>2. Looking => Looking'
      BY <1>1, <1>2, <2>1 DEF Looking
    <3> QED BY <1>1, <3>1, <3>2 DEF Watched, Replaced, Stands
  <2>2. CASE Current(w)
    <3>1. ~Looking' => at'[w] \notin {"early", "load", "none", "pick"}
      BY <1>2, <2>2 DEF Looking
    <3>2. ~shutdown /\ ~synthActive /\ keep /\ ~cancelled[w]
      BY <1>2, <1>4, <1>5, <2>2 DEF Manned, CancelledIsPast
    <3>3. Alive(w)
      BY <1>1, ActorsDistinct DEF MayGo, Alive, Actors
    <3>4. at[w] \in {"pick", "warm", "publish"} => workSig[w] = Stands
      BY <2>2, <3>3 DEF Apart, Separate, Informed
    <3>5. at[w] \notin {"early", "load", "none", "pick"} => ~Looking
      BY <1>2, <1>3, <2>2 DEF Looking
    <3>6. CASE Early(w)
      BY <1>1, <3>1, <3>6 DEF Early, GoTo, Fits, Stands
    <3>7. CASE Load(w)
      BY <3>1, <3>2, <3>7 DEF Load, GoTo
    <3>8. CASE NoCatalog(w) \/ Failed(w)
      BY <2>2, <3>8 DEF NoCatalog, Failed, GiveUp, ClearStandby, Watched, FailsOnKept
    <3>9. CASE Pick(w)
      BY <1>1, <2>2, <3>1, <3>2, <3>4, <3>9 DEF Pick, MayPick, GoTo, Fits, Stands
    <3>10. CASE Warm(w) \/ Finish(w) \/ End(w)
      BY <1>1, <3>5, <3>10 DEF Warm, Finish, End, managerVars, Watched, Replaced, Stands
    <3>11. CASE Publish(w)
      BY <1>1, <2>2, <3>4, <3>11 DEF Publish, MayPublish, ClearStandby, Manned, CurrentWorksOnKept, Stands
    <3> QED BY <3>6, <3>7, <3>8, <3>9, <3>10, <3>11 DEF Work
  <2> QED BY <2>1, <2>2
<1> QED BY <1>6, <1>9, <1>10, <1>11 DEF Watched

LEMMA WatchedRefresh ==
  ASSUME Orderly, Watched, NEW a \in Actors, NEW f \in BOOLEAN, RefreshAsync(a, f),
         UNCHANGED <<pack, setting, changes>>, ~f \/ op' = op
  PROVE  Watched'
<1> USE DEF Orderly
<1>1. CASE NoRefresh /\ shutdown
  BY <1>1, WatchedUnwanted DEF NoRefresh, managerVars, Unwanted
<1>2. CASE NoRefresh /\ f
  <2>1. UNCHANGED <<generation, at, workGen, using, bridge, ready, signature, watcher, op>>
    BY <1>2, RefreshWorkers DEF NoRefresh, managerVars, Known
  <2> QED BY <2>1, WatchedRest
<1>3. CASE RefreshOff(a)
  BY <1>3, NoneCurrent, WatchedNone DEF RefreshOff, ClearStandby
<1>4. CASE NewWorker(a, f)
  <2> USE DEF Known, Typed, TypeOK, ManagerTypes, WorkTypes
  <2>1. PICK w \in Workers :
          /\ at[w] = "unused" /\ generation' = generation + 1
          /\ at' = [at EXCEPT ![w] = "early"]
          /\ workGen' = [workGen EXCEPT ![w] = generation']
    BY <1>4 DEF NewWorker
  <2>2. (\A v \in Workers : v # w => ~Current(v)') /\ at'[w] = "early" /\ Current(w)'
    BY <2>1 DEF Numbered, Current
  <2> QED BY <2>2 DEF Watched, KeptIsStarted, FinishWatched, FailsOnKept, Replaced, Started, Looking
<1> QED BY <1>1, <1>2, <1>3, <1>4, RefreshWorkers DEF Known

LEMMA WatchedKept ==
  ASSUME Orderly, Apart, Watched, "catalog" \notin Faults, [Next]_vars
  PROVE  Watched'
<1> SUFFICES ASSUME Next PROVE Watched'
  BY DEF vars, managerVars, worldVars, mainVars, workVars, Watched, KeptIsStarted, FinishWatched,
     FailsOnKept, Replaced, Started, Looking, Stands, Current
<1> USE DEF Orderly
<1>0. changes \in Nat /\ (shutdown => Unwanted)
  BY BoundsAreNatural DEF Known, Typed, TypeOK, WorldTypes, Unwanted
<1>1. CASE Shutdown
  BY <1>1, NoneCurrent, WatchedNone DEF Shutdown, ClearStandby
<1>2. CASE Note
  BY <1>2, NoneCurrent, WatchedNone, WatchedBusy DEF Note, managerVars, Watched
<1>3. CASE Claim
  BY <1>0, <1>3, NoneCurrent, WatchedNone, WatchedUnwanted DEF Claim, managerVars, HandOut, ClearStandby
<1>4. CASE Release
  <2>1. CASE shutdown \/ ~keep
    <3>1. Unwanted
      BY <1>4, <2>1 DEF Release, Begin, Unwanted
    <3> QED BY <1>4, <2>1, <3>1, WatchedUnwanted DEF Release
  <2>2. CASE ~shutdown /\ keep
    BY <1>4, <2>2, NoneCurrent, WatchedNone DEF Release, Begin
  <2> QED BY <2>1, <2>2
<1>5. CASE ReleaseWithoutBridge
  BY <1>0, <1>5, NoneCurrent, WatchedNone, WatchedUnwanted DEF ReleaseWithoutBridge
<1>6. CASE Refresh
  BY <1>6, WatchedRefresh DEF Refresh, worldVars, Actors
<1>7. ASSUME NEW x \in Watchers, Notify(x) PROVE Watched'
  BY <1>7, WatchedRefresh DEF Notify, worldVars, mainVars, Actors
<1>8. CASE \/ Initialize \/ SaveSettings \/ SaveBrowser \/ ChangePackages \/ LoadDriver \/ Discard
  BY <1>8, WatchedRest, WatchedBusy DEF Initialize, SaveSettings, SaveBrowser, ChangePackages,
     LoadDriver, Discard, Begin, MainOnly, managerVars, worldVars, workVars, Watched
<1>9. CASE FilesChange
  BY <1>0, <1>9, WatchedRest DEF FilesChange, managerVars, mainVars, workVars
<1>10. ASSUME NEW x \in Watchers, Watching(x) \/ Check(x) PROVE Watched'
  BY <1>10, WatchedRest DEF Watching, Check, managerVars, worldVars, mainVars, workVars
<1>11. ASSUME NEW a \in Actors, Terminate(a) PROVE Watched'
  BY <1>11, WatchedRest DEF Terminate, managerVars, worldVars, mainVars, workVars
<1>12. ASSUME NEW w \in Workers, Work(w) PROVE Watched'
  BY <1>12, WatchedWork
<1> QED BY <1>1, <1>2, <1>3, <1>4, <1>5, <1>6, <1>7, <1>8, <1>9, <1>10, <1>11, <1>12
        DEF Next, Ask, Continue, Answer

\* With a catalog that loads: a kept bridge is watched over or a worker is at
\* work on it, and once everything is at rest a ready bridge is one for the
\* packages and settings of now, unless files changed unwatched.
THEOREM KeptStaysCurrent ==
  ASSUME "catalog" \notin Faults
  PROVE  Spec => []KeptCurrent
<1>1. Init => Watched
  BY DEF Init, Watched, KeptIsStarted, FinishWatched, FailsOnKept, Replaced
<1>2. Orderly /\ Apart /\ Watched /\ [Next]_vars => Watched'
  BY WatchedKept
<1>3. Watched => KeptCurrent
  <2> SUFFICES ASSUME Watched PROVE Tended /\ SettledIsCurrent
    BY DEF KeptCurrent
  <2>0. \A w \in Workers : Alive(w) <=> at[w] \notin {"unused", "done"}
    BY ActorsDistinct DEF Alive, Actors
  <2>1. Tended
    BY <2>0 DEF Watched, KeptIsStarted, FinishWatched, Tended, Started, AtWork
  <2>2. SettledIsCurrent
    BY <2>0 DEF Watched, Replaced, SettledIsCurrent, Quiet, Looking, Stands
  <2> QED BY <2>1, <2>2
<1> QED BY <1>1, <1>2, <1>3, AlwaysOrderly, AlwaysApart, PTL DEF Spec

=============================================================================
