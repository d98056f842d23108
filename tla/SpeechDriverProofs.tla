------------------------- MODULE SpeechDriverProofs -------------------------
(***************************************************************************)
(* Proofs about SpeechDriver, for any number of requests, warm-up threads, *)
(* voices and errors, any script and any choice of faults: the driver is   *)
(* type correct, its shutdown leaves nothing to speak, a bridge kept by    *)
(* standby is quiet and one that was ended stays ended, and the driver     *)
(* implements SpeechService.                                               *)
(***************************************************************************)
EXTENDS SpeechDriverProps, SequenceTheorems, FiniteSetTheorems, TLAPS

USE ThreadsDistinct, BoundsAreNatural DEF Threads, Callers

LEMMA TypesKept == TypeOK /\ [Next]_vars => TypeOK'
<1> SUFFICES ASSUME TypeOK, [Next]_vars PROVE TypeOK'
  OBVIOUS
<1> USE DEF TypeOK, WorkerPlaces, MainPlaces, WarmPlaces, Goto, WorkerAt, WorkerGoes, MainAt, MainGoes
<1>0. CASE UNCHANGED vars
  <2>1. DriverTypes' /\ NvdaTypes' /\ ToldTypes'
    BY <1>0 DEF vars, driverVars, nvdaVars, toldVars, DriverTypes, NvdaTypes, ToldTypes
  <2>2. PlaceTypes' /\ WarmTypes'
    BY <1>0 DEF vars, warmVars, PlaceTypes, WarmTypes
  <2>3. WorkTypes' /\ BridgeTypes'
    BY <1>0 DEF vars, driverVars, workVars, bridgeVars, WorkTypes, BridgeTypes, Connecting
  <2> QED BY <2>1, <2>2, <2>3
<1>1. CASE Take
  <2>1. DriverTypes' /\ NvdaTypes' /\ ToldTypes'
    <3>1. queue # <<>> => Head(queue) \in Requests /\ Tail(queue) \in Seq(Requests)
      BY HeadTailProperties DEF DriverTypes
    <3> QED BY <1>1, <3>1 DEF Take, nvdaVars, toldVars, DriverTypes, NvdaTypes, ToldTypes, PlaceTypes
  <2>2. PlaceTypes' /\ WarmTypes'
    BY <1>1 DEF Take, warmVars, PlaceTypes, WarmTypes
  <2>3. WorkTypes' /\ BridgeTypes'
    BY <1>1 DEF Take, bridgeVars, WorkTypes, BridgeTypes, PlaceTypes, WarmTypes, DriverTypes,
           Connecting
  <2> QED BY <2>1, <2>2, <2>3
<1>2. CASE NextItem
  <2>1. DriverTypes' /\ NvdaTypes' /\ ToldTypes'
    BY <1>2 DEF NextItem, driverVars, nvdaVars, toldVars, DriverTypes, NvdaTypes, ToldTypes,
           PlaceTypes, WorkTypes
  <2>2. PlaceTypes' /\ WarmTypes'
    BY <1>2 DEF NextItem, warmVars, PlaceTypes, WarmTypes
  <2>3. WorkTypes' /\ BridgeTypes'
    BY <1>2 DEF NextItem, driverVars, bridgeVars, WorkTypes, BridgeTypes, PlaceTypes, WarmTypes,
           DriverTypes, Connecting
  <2> QED BY <2>1, <2>2, <2>3
<1>3. CASE Raise
  <2>1. DriverTypes' /\ NvdaTypes' /\ ToldTypes'
    BY <1>3 DEF Raise, driverVars, nvdaVars, DriverTypes, NvdaTypes, ToldTypes, PlaceTypes,
           WorkTypes
  <2>2. PlaceTypes' /\ WarmTypes'
    BY <1>3 DEF Raise, Closes, warmVars, PlaceTypes, WarmTypes
  <2>3. WorkTypes' /\ BridgeTypes'
    BY <1>3 DEF Raise, Closes, driverVars, workVars, WorkTypes, BridgeTypes, PlaceTypes,
           WarmTypes, DriverTypes, Connecting
  <2> QED BY <2>1, <2>2, <2>3
<1>4. CASE Spoken
  <2>1. DriverTypes' /\ NvdaTypes' /\ ToldTypes'
    BY <1>4 DEF Spoken, driverVars, nvdaVars, toldVars, DriverTypes, NvdaTypes, ToldTypes,
           PlaceTypes, WorkTypes
  <2>2. PlaceTypes' /\ WarmTypes'
    BY <1>4 DEF Spoken, warmVars, PlaceTypes, WarmTypes
  <2>3. WorkTypes' /\ BridgeTypes'
    BY <1>4 DEF Spoken, Connected, driverVars, workVars, bridgeVars, WorkTypes, BridgeTypes,
           PlaceTypes, WarmTypes, DriverTypes, Connecting
  <2> QED BY <2>1, <2>2, <2>3
<1>5. CASE SpeakCancelled
  <2>1. DriverTypes' /\ NvdaTypes' /\ ToldTypes'
    BY <1>5 DEF SpeakCancelled, driverVars, nvdaVars, toldVars, DriverTypes, NvdaTypes,
           ToldTypes, PlaceTypes, WorkTypes
  <2>2. PlaceTypes' /\ WarmTypes'
    BY <1>5 DEF SpeakCancelled, Closes, warmVars, PlaceTypes, WarmTypes
  <2>3. WorkTypes' /\ BridgeTypes'
    BY <1>5 DEF SpeakCancelled, Closes, driverVars, workVars, WorkTypes, BridgeTypes,
           PlaceTypes, WarmTypes, DriverTypes, Connecting
  <2> QED BY <2>1, <2>2, <2>3
<1>6. CASE LeftOver
  <2>1. DriverTypes' /\ NvdaTypes' /\ ToldTypes'
    BY <1>6 DEF LeftOver, driverVars, nvdaVars, toldVars, DriverTypes, NvdaTypes, ToldTypes,
           PlaceTypes, WorkTypes
  <2>2. PlaceTypes' /\ WarmTypes'
    BY <1>6 DEF LeftOver, warmVars, PlaceTypes, WarmTypes
  <2>3. WorkTypes' /\ BridgeTypes'
    BY <1>6 DEF LeftOver, driverVars, bridgeVars, WorkTypes, BridgeTypes, PlaceTypes, WarmTypes,
           DriverTypes, Connecting
  <2> QED BY <2>1, <2>2, <2>3
<1>7. CASE Synced
  <2>1. DriverTypes' /\ NvdaTypes' /\ ToldTypes'
    BY <1>7 DEF Synced, driverVars, nvdaVars, toldVars, DriverTypes, NvdaTypes, ToldTypes,
           PlaceTypes, WorkTypes
  <2>2. PlaceTypes' /\ WarmTypes'
    BY <1>7 DEF Synced, warmVars, PlaceTypes, WarmTypes
  <2>3. WorkTypes' /\ BridgeTypes'
    BY <1>7 DEF Synced, driverVars, bridgeVars, WorkTypes, BridgeTypes, PlaceTypes, WarmTypes,
           DriverTypes, Connecting
  <2> QED BY <2>1, <2>2, <2>3
<1>8. CASE TellIndex
  <2>1. DriverTypes' /\ NvdaTypes' /\ ToldTypes'
    BY <1>8 DEF TellIndex, Tell, driverVars, nvdaVars, DriverTypes, NvdaTypes, ToldTypes,
           PlaceTypes, WorkTypes
  <2>2. PlaceTypes' /\ WarmTypes'
    BY <1>8 DEF TellIndex, warmVars, PlaceTypes, WarmTypes
  <2>3. WorkTypes' /\ BridgeTypes'
    <3>1. item' \in Nat
      BY <1>8 DEF TellIndex, WorkTypes
    <3>2. inner' \in BOOLEAN
      BY <1>8 DEF TellIndex
    <3>3. UNCHANGED <<idle, calling, active, up, preparing, fate>>
      BY <1>8 DEF TellIndex, driverVars, bridgeVars
    <3>4. pc'[Worker] = "item" /\ \A t \in Threads \ {Worker} : pc'[t] = pc[t]
      BY <1>8 DEF TellIndex, PlaceTypes
    <3>5. WorkTypes'
      BY <1>8, <3>1, <3>2, <3>3, <3>4 DEF TellIndex, WorkTypes
    <3> QED BY <1>8, <3>3, <3>4, <3>5 DEF TellIndex, BridgeTypes, Connecting
  <2> QED BY <2>1, <2>2, <2>3
<1>9. CASE PlayOut
  <2>1. DriverTypes' /\ NvdaTypes' /\ ToldTypes'
    BY <1>9 DEF PlayOut, driverVars, nvdaVars, toldVars, DriverTypes, NvdaTypes, ToldTypes,
           PlaceTypes, WorkTypes
  <2>2. PlaceTypes' /\ WarmTypes'
    BY <1>9 DEF PlayOut, warmVars, PlaceTypes, WarmTypes
  <2>3. WorkTypes' /\ BridgeTypes'
    BY <1>9 DEF PlayOut, driverVars, workVars, bridgeVars, WorkTypes, BridgeTypes, PlaceTypes,
           WarmTypes, DriverTypes, Connecting
  <2> QED BY <2>1, <2>2, <2>3
<1>10. CASE CheckEnd
  <2>1. DriverTypes' /\ NvdaTypes' /\ ToldTypes'
    BY <1>10 DEF CheckEnd, driverVars, nvdaVars, toldVars, DriverTypes, NvdaTypes, ToldTypes,
           PlaceTypes, WorkTypes
  <2>2. PlaceTypes' /\ WarmTypes'
    BY <1>10 DEF CheckEnd, warmVars, PlaceTypes, WarmTypes
  <2>3. WorkTypes' /\ BridgeTypes'
    BY <1>10 DEF CheckEnd, driverVars, workVars, bridgeVars, WorkTypes, BridgeTypes, PlaceTypes,
           WarmTypes, DriverTypes, Connecting
  <2> QED BY <2>1, <2>2, <2>3
<1>11. CASE Done
  <2>1. DriverTypes' /\ NvdaTypes' /\ ToldTypes'
    BY <1>11 DEF Done, nvdaVars, DriverTypes, NvdaTypes, ToldTypes, PlaceTypes, WorkTypes
  <2>2. PlaceTypes' /\ WarmTypes'
    BY <1>11 DEF Done, warmVars, PlaceTypes, WarmTypes
  <2>3. WorkTypes' /\ BridgeTypes'
    BY <1>11 DEF Done, workVars, bridgeVars, WorkTypes, BridgeTypes, PlaceTypes, WarmTypes,
           DriverTypes, Connecting
  <2> QED BY <2>1, <2>2, <2>3
<1>12. CASE Handle
  <2>1. DriverTypes' /\ NvdaTypes' /\ ToldTypes'
    BY <1>12 DEF Handle, driverVars, nvdaVars, toldVars, DriverTypes, NvdaTypes, ToldTypes,
           PlaceTypes, WorkTypes
  <2>2. PlaceTypes' /\ WarmTypes'
    BY <1>12 DEF Handle, warmVars, PlaceTypes, WarmTypes
  <2>3. WorkTypes' /\ BridgeTypes'
    BY <1>12 DEF Handle, driverVars, workVars, bridgeVars, WorkTypes, BridgeTypes, PlaceTypes,
           WarmTypes, DriverTypes, Connecting
  <2> QED BY <2>1, <2>2, <2>3
<1>13. CASE FailedDone
  <2>1. DriverTypes' /\ NvdaTypes' /\ ToldTypes'
    BY <1>13 DEF FailedDone, driverVars, nvdaVars, DriverTypes, NvdaTypes, ToldTypes,
           PlaceTypes, WorkTypes
  <2>2. PlaceTypes' /\ WarmTypes'
    BY <1>13 DEF FailedDone, warmVars, PlaceTypes, WarmTypes
  <2>3. WorkTypes' /\ BridgeTypes'
    BY <1>13 DEF FailedDone, driverVars, workVars, bridgeVars, WorkTypes, BridgeTypes,
           PlaceTypes, WarmTypes, DriverTypes, Connecting
  <2> QED BY <2>1, <2>2, <2>3
<1>14. CASE CountError
  <2>1. DriverTypes' /\ NvdaTypes' /\ ToldTypes'
    BY <1>14 DEF CountError, MayPost, Hopeless, toldVars, DriverTypes, NvdaTypes, ToldTypes,
           PlaceTypes, WorkTypes
  <2>2. PlaceTypes' /\ WarmTypes'
    BY <1>14 DEF CountError, warmVars, PlaceTypes, WarmTypes
  <2>3. WorkTypes' /\ BridgeTypes'
    BY <1>14 DEF CountError, workVars, bridgeVars, WorkTypes, BridgeTypes, PlaceTypes,
           WarmTypes, DriverTypes, Connecting
  <2> QED BY <2>1, <2>2, <2>3
<1>15. CASE Tidy
  <2>1. DriverTypes' /\ NvdaTypes' /\ ToldTypes'
    BY <1>15 DEF Tidy, driverVars, nvdaVars, toldVars, DriverTypes, NvdaTypes, ToldTypes,
           PlaceTypes, WorkTypes
  <2>2. PlaceTypes' /\ WarmTypes'
    BY <1>15 DEF Tidy, warmVars, PlaceTypes, WarmTypes
  <2>3. WorkTypes' /\ BridgeTypes'
    BY <1>15 DEF Tidy, driverVars, bridgeVars, WorkTypes, BridgeTypes, PlaceTypes, WarmTypes,
           DriverTypes, Connecting
  <2> QED BY <2>1, <2>2, <2>3
<1>16. CASE Recycle
  <2>1. DriverTypes' /\ NvdaTypes' /\ ToldTypes'
    BY <1>16 DEF Recycle, driverVars, nvdaVars, toldVars, DriverTypes, NvdaTypes, ToldTypes,
           PlaceTypes, WorkTypes
  <2>2. PlaceTypes' /\ WarmTypes'
    BY <1>16 DEF Recycle, warmVars, PlaceTypes, WarmTypes
  <2>3. WorkTypes' /\ BridgeTypes'
    BY <1>16 DEF Recycle, driverVars, workVars, WorkTypes, BridgeTypes, PlaceTypes, WarmTypes,
           DriverTypes, Connecting
  <2> QED BY <2>1, <2>2, <2>3
<1>17. CASE Crash
  <2>1. DriverTypes' /\ NvdaTypes' /\ ToldTypes'
    BY <1>17 DEF Crash, MayPost, driverVars, toldVars, DriverTypes, NvdaTypes, ToldTypes,
           PlaceTypes, WorkTypes
  <2>2. PlaceTypes' /\ WarmTypes'
    BY <1>17 DEF Crash, PlaceTypes, WarmTypes
  <2>3. WorkTypes' /\ BridgeTypes'
    BY <1>17 DEF Crash, driverVars, workVars, bridgeVars, WorkTypes, BridgeTypes, PlaceTypes,
           WarmTypes, DriverTypes, Connecting
  <2> QED BY <2>1, <2>2, <2>3
<1>18. CASE Clear
  <2>1. DriverTypes' /\ NvdaTypes' /\ ToldTypes'
    BY <1>18 DEF Clear, nvdaVars, toldVars, DriverTypes, NvdaTypes, ToldTypes, PlaceTypes,
           WorkTypes
  <2>2. PlaceTypes' /\ WarmTypes'
    BY <1>18 DEF Clear, warmVars, PlaceTypes, WarmTypes
  <2>3. WorkTypes' /\ BridgeTypes'
    BY <1>18 DEF Clear, workVars, bridgeVars, WorkTypes, BridgeTypes, PlaceTypes, WarmTypes,
           DriverTypes, Connecting
  <2> QED BY <2>1, <2>2, <2>3
<1>19. CASE Speak
  <2>1. DriverTypes' /\ NvdaTypes' /\ ToldTypes'
    BY <1>19 DEF Speak, SetWarmEvent, driverVars, nvdaVars, toldVars, DriverTypes, NvdaTypes, ToldTypes,
           PlaceTypes, WarmTypes
  <2>2. PlaceTypes' /\ WarmTypes'
    BY <1>19 DEF Speak, SetWarmEvent, warmVars, PlaceTypes, WarmTypes
  <2>3. WorkTypes' /\ BridgeTypes'
    BY <1>19 DEF Speak, driverVars, workVars, bridgeVars, WorkTypes, BridgeTypes, PlaceTypes,
           WarmTypes, DriverTypes, Connecting
  <2> QED BY <2>1, <2>2, <2>3
<1>20. CASE Enqueue
  <2>1. DriverTypes' /\ NvdaTypes' /\ ToldTypes'
    <3>1. CASE ~shutdown
      <4>1. queue' = Append(queue, asked + 1) /\ asked' = asked + 1 /\ asked + 1 \in Requests
        BY <1>20, <3>1 DEF Enqueue, Requests, NvdaTypes
      <4> QED BY <1>20, <4>1, AppendProperties DEF Enqueue, toldVars, DriverTypes, NvdaTypes, ToldTypes, PlaceTypes, Requests
    <3>2. CASE shutdown
      BY <1>20, <3>2 DEF Enqueue, toldVars, DriverTypes, NvdaTypes, ToldTypes, PlaceTypes
    <3> QED BY <3>1, <3>2
  <2>2. PlaceTypes' /\ WarmTypes'
    BY <1>20 DEF Enqueue, warmVars, PlaceTypes, WarmTypes
  <2>3. WorkTypes' /\ BridgeTypes'
    BY <1>20 DEF Enqueue, workVars, bridgeVars, WorkTypes, BridgeTypes, PlaceTypes, WarmTypes,
           DriverTypes, Connecting
  <2> QED BY <2>1, <2>2, <2>3
<1>21. CASE Cancel
  <2>1. DriverTypes' /\ NvdaTypes' /\ ToldTypes'
    BY <1>21 DEF Cancel, CancelRequests, Withdrawn, Queued, nvdaVars, toldVars, DriverTypes,
           NvdaTypes, ToldTypes, PlaceTypes, WorkTypes
  <2>2. PlaceTypes' /\ WarmTypes'
    BY <1>21 DEF Cancel, CancelRequests, warmVars, PlaceTypes, WarmTypes
  <2>3. WorkTypes' /\ BridgeTypes'
    BY <1>21 DEF Cancel, CancelRequests, workVars, bridgeVars, WorkTypes, BridgeTypes,
           PlaceTypes, WarmTypes, DriverTypes, Connecting
  <2> QED BY <2>1, <2>2, <2>3
<1>22. CASE SetVoice
  <2>1. DriverTypes' /\ NvdaTypes' /\ ToldTypes'
    BY <1>22 DEF SetVoice, driverVars, toldVars, DriverTypes, NvdaTypes, ToldTypes, PlaceTypes,
           WorkTypes
  <2>2. PlaceTypes' /\ WarmTypes'
    BY <1>22 DEF SetVoice, warmVars, PlaceTypes, WarmTypes
  <2>3. WorkTypes' /\ BridgeTypes'
    BY <1>22 DEF SetVoice, driverVars, workVars, bridgeVars, WorkTypes, BridgeTypes, PlaceTypes,
           WarmTypes, DriverTypes, Connecting
  <2> QED BY <2>1, <2>2, <2>3
<1>23. CASE Fallback
  <2>1. DriverTypes' /\ NvdaTypes' /\ ToldTypes'
    <3>1. queue' \in Seq(Requests) /\ fallback' \in BOOLEAN
      BY <1>23, EmptySeq DEF Fallback, DriverTypes
    <3>2. pc'[Main] # "queue"
      BY <1>23 DEF Fallback, PlaceTypes
    <3> QED BY <1>23, <3>1, <3>2 DEF Fallback, toldVars, DriverTypes, NvdaTypes, ToldTypes
  <2>2. PlaceTypes' /\ WarmTypes'
    BY <1>23 DEF Fallback, warmVars, PlaceTypes, WarmTypes
  <2>3. WorkTypes' /\ BridgeTypes'
    BY <1>23 DEF Fallback, workVars, bridgeVars, WorkTypes, BridgeTypes, PlaceTypes, WarmTypes,
           DriverTypes, Connecting
  <2> QED BY <2>1, <2>2, <2>3
<1>24. CASE GiveUp
  <2>1. DriverTypes' /\ NvdaTypes' /\ ToldTypes'
    BY <1>24 DEF GiveUp, CancelRequests, Withdrawn, Queued, nvdaVars, toldVars, DriverTypes,
           NvdaTypes, ToldTypes, PlaceTypes, WorkTypes
  <2>2. PlaceTypes' /\ WarmTypes'
    BY <1>24 DEF GiveUp, CancelRequests, warmVars, PlaceTypes, WarmTypes
  <2>3. WorkTypes' /\ BridgeTypes'
    BY <1>24 DEF GiveUp, CancelRequests, workVars, bridgeVars, WorkTypes, BridgeTypes,
           PlaceTypes, WarmTypes, DriverTypes, Connecting
  <2> QED BY <2>1, <2>2, <2>3
<1>25. CASE Terminate
  <2>1. DriverTypes' /\ NvdaTypes' /\ ToldTypes'
    BY <1>25 DEF Terminate, SetWarmEvent, driverVars, nvdaVars, toldVars, DriverTypes, NvdaTypes, ToldTypes,
           PlaceTypes, WarmTypes
  <2>2. PlaceTypes' /\ WarmTypes'
    BY <1>25 DEF Terminate, SetWarmEvent, warmVars, PlaceTypes, WarmTypes
  <2>3. WorkTypes' /\ BridgeTypes'
    BY <1>25 DEF Terminate, driverVars, workVars, bridgeVars, WorkTypes, BridgeTypes,
           PlaceTypes, WarmTypes, DriverTypes, Connecting
  <2> QED BY <2>1, <2>2, <2>3
<1>26. CASE CancelAll
  <2>1. DriverTypes' /\ NvdaTypes' /\ ToldTypes'
    BY <1>26 DEF CancelAll, CancelRequests, Withdrawn, Queued, nvdaVars, toldVars, DriverTypes,
           NvdaTypes, ToldTypes, PlaceTypes, WorkTypes
  <2>2. PlaceTypes' /\ WarmTypes'
    BY <1>26 DEF CancelAll, CancelRequests, warmVars, PlaceTypes, WarmTypes
  <2>3. WorkTypes' /\ BridgeTypes'
    BY <1>26 DEF CancelAll, CancelRequests, workVars, bridgeVars, WorkTypes, BridgeTypes,
           PlaceTypes, WarmTypes, DriverTypes, Connecting
  <2> QED BY <2>1, <2>2, <2>3
<1>27. CASE Stopped
  <2>1. DriverTypes' /\ NvdaTypes' /\ ToldTypes'
    BY <1>27 DEF Stopped, SetWarmEvent, nvdaVars, toldVars, DriverTypes, NvdaTypes, ToldTypes,
           PlaceTypes, WarmTypes
  <2>2. PlaceTypes' /\ WarmTypes'
    BY <1>27 DEF Stopped, SetWarmEvent, warmVars, PlaceTypes, WarmTypes
  <2>3. WorkTypes' /\ BridgeTypes'
    BY <1>27 DEF Stopped, workVars, bridgeVars, WorkTypes, BridgeTypes, PlaceTypes, WarmTypes,
           DriverTypes, Connecting
  <2> QED BY <2>1, <2>2, <2>3
<1>28. CASE CheckBridge
  <2>1. DriverTypes' /\ NvdaTypes' /\ ToldTypes'
    BY <1>28 DEF CheckBridge, driverVars, nvdaVars, toldVars, DriverTypes, NvdaTypes, ToldTypes,
           PlaceTypes, WorkTypes
  <2>2. PlaceTypes' /\ WarmTypes'
    BY <1>28 DEF CheckBridge, warmVars, PlaceTypes, WarmTypes
  <2>3. WorkTypes' /\ BridgeTypes'
    BY <1>28 DEF CheckBridge, driverVars, workVars, bridgeVars, WorkTypes, BridgeTypes,
           PlaceTypes, WarmTypes, DriverTypes, Connecting
  <2> QED BY <2>1, <2>2, <2>3
<1>29. CASE CheckQueue
  <2>1. DriverTypes' /\ NvdaTypes' /\ ToldTypes'
    BY <1>29 DEF CheckQueue, driverVars, nvdaVars, toldVars, DriverTypes, NvdaTypes, ToldTypes,
           PlaceTypes, WorkTypes
  <2>2. PlaceTypes' /\ WarmTypes'
    BY <1>29 DEF CheckQueue, warmVars, PlaceTypes, WarmTypes
  <2>3. WorkTypes' /\ BridgeTypes'
    BY <1>29 DEF CheckQueue, driverVars, workVars, bridgeVars, WorkTypes, BridgeTypes,
           PlaceTypes, WarmTypes, DriverTypes, Connecting
  <2> QED BY <2>1, <2>2, <2>3
<1>30. CASE Release
  <2>1. DriverTypes' /\ NvdaTypes' /\ ToldTypes'
    BY <1>30 DEF Release, driverVars, nvdaVars, toldVars, DriverTypes, NvdaTypes, ToldTypes,
           PlaceTypes, WorkTypes
  <2>2. PlaceTypes' /\ WarmTypes'
    BY <1>30 DEF Release, warmVars, PlaceTypes, WarmTypes
  <2>3. WorkTypes' /\ BridgeTypes'
    BY <1>30 DEF Release, driverVars, workVars, WorkTypes, BridgeTypes, PlaceTypes, WarmTypes,
           DriverTypes, Connecting
  <2> QED BY <2>1, <2>2, <2>3
<1>31. CASE EndBridge
  <2>1. DriverTypes' /\ NvdaTypes' /\ ToldTypes'
    BY <1>31 DEF EndBridge, driverVars, nvdaVars, toldVars, DriverTypes, NvdaTypes, ToldTypes,
           PlaceTypes, WorkTypes
  <2>2. PlaceTypes' /\ WarmTypes'
    BY <1>31 DEF EndBridge, warmVars, PlaceTypes, WarmTypes
  <2>3. WorkTypes' /\ BridgeTypes'
    BY <1>31 DEF EndBridge, driverVars, workVars, WorkTypes, BridgeTypes, PlaceTypes, WarmTypes,
           DriverTypes, Connecting
  <2> QED BY <2>1, <2>2, <2>3
<1>32. CASE Callback
  <2>1. DriverTypes' /\ NvdaTypes' /\ ToldTypes'
    BY <1>32 DEF Callback, driverVars, nvdaVars, toldVars, DriverTypes, NvdaTypes, ToldTypes,
           PlaceTypes, WorkTypes
  <2>2. PlaceTypes' /\ WarmTypes'
    BY <1>32 DEF Callback, warmVars, PlaceTypes, WarmTypes
  <2>3. WorkTypes' /\ BridgeTypes'
    BY <1>32 DEF Callback, Connected, driverVars, bridgeVars, WorkTypes, BridgeTypes,
           PlaceTypes, WarmTypes, DriverTypes, Connecting
  <2> QED BY <2>1, <2>2, <2>3
<1>33. ASSUME NEW t \in Callers, WarmCheck(t) PROVE TypeOK'
  <2>1. DriverTypes' /\ NvdaTypes' /\ ToldTypes'
    BY <1>33 DEF WarmCheck, AfterWarm, driverVars, nvdaVars, toldVars, DriverTypes, NvdaTypes, ToldTypes,
           PlaceTypes, WarmTypes
  <2>2. PlaceTypes' /\ WarmTypes'
    BY <1>33 DEF WarmCheck, AfterWarm, PlaceTypes, WarmTypes
  <2>3. WorkTypes' /\ BridgeTypes'
    BY <1>33 DEF WarmCheck, AfterWarm, driverVars, workVars, bridgeVars, WorkTypes, BridgeTypes,
           PlaceTypes, WarmTypes, DriverTypes, Connecting
  <2> QED BY <2>1, <2>2, <2>3
<1>34. ASSUME NEW t \in Callers, WarmSwap(t) PROVE TypeOK'
  <2>1. DriverTypes' /\ NvdaTypes' /\ ToldTypes'
    BY <1>34 DEF WarmSwap, SetWarmEvent, driverVars, nvdaVars, toldVars, DriverTypes, NvdaTypes, ToldTypes,
           PlaceTypes, WarmTypes
  <2>2. PlaceTypes' /\ WarmTypes'
    BY <1>34 DEF WarmSwap, SetWarmEvent, warmVars, PlaceTypes, WarmTypes
  <2>3. WorkTypes' /\ BridgeTypes'
    BY <1>34 DEF WarmSwap, driverVars, workVars, bridgeVars, WorkTypes, BridgeTypes, PlaceTypes,
           WarmTypes, DriverTypes, Connecting
  <2> QED BY <2>1, <2>2, <2>3
<1>35. ASSUME NEW t \in Callers, WarmAssign(t) PROVE TypeOK'
  <2>1. DriverTypes' /\ NvdaTypes' /\ ToldTypes'
    BY <1>35 DEF WarmAssign, driverVars, nvdaVars, toldVars, DriverTypes, NvdaTypes, ToldTypes,
           PlaceTypes, WorkTypes
  <2>2. PlaceTypes' /\ WarmTypes'
    BY <1>35 DEF WarmAssign, PlaceTypes, WarmTypes
  <2>3. WorkTypes' /\ BridgeTypes'
    BY <1>35 DEF WarmAssign, driverVars, workVars, bridgeVars, WorkTypes, BridgeTypes,
           PlaceTypes, WarmTypes, DriverTypes, Connecting
  <2> QED BY <2>1, <2>2, <2>3
<1>36. ASSUME NEW t \in Callers, WarmStart(t) PROVE TypeOK'
  <2>1. DriverTypes' /\ NvdaTypes' /\ ToldTypes'
    BY <1>36 DEF WarmStart, AfterWarm, driverVars, nvdaVars, toldVars, DriverTypes, NvdaTypes, ToldTypes,
           PlaceTypes, WarmTypes
  <2>2. PlaceTypes' /\ WarmTypes'
    BY <1>36 DEF WarmStart, AfterWarm, PlaceTypes, WarmTypes
  <2>3. WorkTypes' /\ BridgeTypes'
    BY <1>36 DEF WarmStart, AfterWarm, driverVars, workVars, bridgeVars, WorkTypes, BridgeTypes,
           PlaceTypes, WarmTypes, DriverTypes, Connecting
  <2> QED BY <2>1, <2>2, <2>3
<1>37. ASSUME NEW w \in Warmers, WarmDelay(w) PROVE TypeOK'
  <2>1. DriverTypes' /\ NvdaTypes' /\ ToldTypes'
    BY <1>37 DEF WarmDelay, driverVars, nvdaVars, toldVars, DriverTypes, NvdaTypes, ToldTypes,
           PlaceTypes, WorkTypes
  <2>2. PlaceTypes' /\ WarmTypes'
    BY <1>37 DEF WarmDelay, warmVars, PlaceTypes, WarmTypes
  <2>3. WorkTypes' /\ BridgeTypes'
    BY <1>37 DEF WarmDelay, driverVars, workVars, bridgeVars, WorkTypes, BridgeTypes,
           PlaceTypes, WarmTypes, DriverTypes, Connecting
  <2> QED BY <2>1, <2>2, <2>3
<1>38. ASSUME NEW w \in Warmers, WarmConnect(w) PROVE TypeOK'
  <2>1. DriverTypes' /\ NvdaTypes' /\ ToldTypes'
    BY <1>38 DEF WarmConnect, MayPost, driverVars, toldVars, DriverTypes, NvdaTypes, ToldTypes,
           PlaceTypes, WorkTypes
  <2>2. PlaceTypes' /\ WarmTypes'
    BY <1>38 DEF WarmConnect, Closes, warmVars, PlaceTypes, WarmTypes
  <2>3. WorkTypes' /\ BridgeTypes'
    <3>1. WorkTypes'
      BY <1>38 DEF WarmConnect, driverVars, workVars, WorkTypes, PlaceTypes
    <3>2. preparing' # w /\ (preparing' = preparing \/ preparing' = None) /\ up' \in BOOLEAN
      BY <1>38 DEF WarmConnect, Connected, Closes, BridgeTypes
    <3>3. \A t \in Threads \ {w} : pc'[t] = pc[t]
      BY <1>38 DEF WarmConnect, PlaceTypes
    <3> QED BY <1>38, <3>1, <3>2, <3>3 DEF WarmConnect, BridgeTypes, Connecting
  <2> QED BY <2>1, <2>2, <2>3
<1>39. ASSUME NEW w \in Warmers, WarmReady(w) PROVE TypeOK'
  <2>1. DriverTypes' /\ NvdaTypes' /\ ToldTypes'
    BY <1>39 DEF WarmReady, driverVars, nvdaVars, toldVars, DriverTypes, NvdaTypes, ToldTypes,
           PlaceTypes, WorkTypes
  <2>2. PlaceTypes' /\ WarmTypes'
    BY <1>39 DEF WarmReady, warmVars, PlaceTypes, WarmTypes
  <2>3. WorkTypes' /\ BridgeTypes'
    BY <1>39 DEF WarmReady, driverVars, workVars, bridgeVars, WorkTypes, BridgeTypes,
           PlaceTypes, WarmTypes, DriverTypes, Connecting
  <2> QED BY <2>1, <2>2, <2>3
<1>40. ASSUME NEW w \in Warmers, WarmPreload(w) PROVE TypeOK'
  <2>1. DriverTypes' /\ NvdaTypes' /\ ToldTypes'
    BY <1>40 DEF WarmPreload, driverVars, nvdaVars, toldVars, DriverTypes, NvdaTypes, ToldTypes,
           PlaceTypes, WorkTypes
  <2>2. PlaceTypes' /\ WarmTypes'
    BY <1>40 DEF WarmPreload, Closes, warmVars, PlaceTypes, WarmTypes
  <2>3. WorkTypes' /\ BridgeTypes'
    BY <1>40 DEF WarmPreload, Connected, Closes, driverVars, workVars, WorkTypes, BridgeTypes,
           PlaceTypes, WarmTypes, DriverTypes, Connecting
  <2> QED BY <2>1, <2>2, <2>3
<1>41. ASSUME NEW t \in Threads, BrowserStarts(t) PROVE TypeOK'
  <2>1. DriverTypes' /\ NvdaTypes' /\ ToldTypes'
    BY <1>41 DEF BrowserStarts, driverVars, nvdaVars, toldVars, DriverTypes, NvdaTypes,
           ToldTypes, PlaceTypes, WorkTypes
  <2>2. PlaceTypes' /\ WarmTypes'
    BY <1>41 DEF BrowserStarts, warmVars, PlaceTypes, WarmTypes
  <2>3. WorkTypes' /\ BridgeTypes'
    BY <1>41 DEF BrowserStarts, driverVars, workVars, WorkTypes, BridgeTypes, PlaceTypes,
           WarmTypes, DriverTypes, Connecting
  <2> QED BY <2>1, <2>2, <2>3
<1>42. ASSUME NEW t \in Threads, PageReady(t) PROVE TypeOK'
  <2>1. DriverTypes' /\ NvdaTypes' /\ ToldTypes'
    BY <1>42 DEF PageReady, driverVars, nvdaVars, toldVars, DriverTypes, NvdaTypes, ToldTypes,
           PlaceTypes, WorkTypes
  <2>2. PlaceTypes' /\ WarmTypes'
    BY <1>42 DEF PageReady, warmVars, PlaceTypes, WarmTypes
  <2>3. WorkTypes' /\ BridgeTypes'
    BY <1>42 DEF PageReady, driverVars, workVars, WorkTypes, BridgeTypes, PlaceTypes, WarmTypes,
           DriverTypes, Connecting
  <2> QED BY <2>1, <2>2, <2>3
<1>43. ASSUME NEW r \in Requests, CallbackTells(r) PROVE TypeOK'
  <2>1. DriverTypes' /\ NvdaTypes' /\ ToldTypes'
    BY <1>43 DEF CallbackTells, Tell, driverVars, nvdaVars, DriverTypes, NvdaTypes, ToldTypes,
           PlaceTypes, WorkTypes
  <2>2. PlaceTypes' /\ WarmTypes'
    BY <1>43 DEF CallbackTells, warmVars, PlaceTypes, WarmTypes
  <2>3. WorkTypes' /\ BridgeTypes'
    BY <1>43 DEF CallbackTells, driverVars, workVars, bridgeVars, WorkTypes, BridgeTypes,
           PlaceTypes, WarmTypes, DriverTypes, Connecting
  <2> QED BY <2>1, <2>2, <2>3
<1> QED
  BY <1>0, <1>1, <1>2, <1>3, <1>4, <1>5, <1>6, <1>7, <1>8, <1>9, <1>10, <1>11, <1>12, <1>13, <1>14, <1>15, <1>16, <1>17, <1>18, <1>19, <1>20, <1>21, <1>22, <1>23, <1>24, <1>25, <1>26, <1>27, <1>28, <1>29, <1>30, <1>31, <1>32, <1>33, <1>34, <1>35, <1>36, <1>37, <1>38, <1>39, <1>40, <1>41, <1>42, <1>43
  DEF Next, Serve, Continue, Ask, WarmUp, StartsWarmup

\* Every step of the driver keeps its fields, threads and reports well typed.
THEOREM TypeCorrect == Spec => []TypeOK
<1>1. Init => TypeOK
  <2> SUFFICES ASSUME Init PROVE TypeOK
    OBVIOUS
  <2>1. DriverTypes /\ NvdaTypes /\ ToldTypes
    <3>1. pc[Main] = "warm"
      BY DEF Init
    <3>2. queue \in Seq(Requests)
      <4>1. queue = <<>>
        BY DEF Init
      <4> QED BY <4>1, EmptySeq
    <3>3. DriverTypes
      BY <3>2 DEF Init, DriverTypes
    <3>4. NvdaTypes
      BY <3>1 DEF Init, NvdaTypes
    <3>5. ToldTypes
      BY DEF Init, ToldTypes
    <3> QED BY <3>3, <3>4, <3>5
  <2>2. PlaceTypes /\ WarmTypes
    BY DEF Init, PlaceTypes, WarmTypes, WorkerPlaces, MainPlaces, WarmPlaces
  <2>3. WorkTypes /\ BridgeTypes
    BY DEF Init, WorkTypes, BridgeTypes, Connecting
  <2> QED BY <2>1, <2>2, <2>3 DEF TypeOK
<1> QED BY <1>1, TypesKept, PTL DEF Spec

-----------------------------------------------------------------------------
(* Shutdown                                                                  *)

\* Where the main thread is once terminate has shut the worker down.
Released == {"release", "check", "keep", "end", "gone"}

\* Between the cancel and the shutdown nothing is queued, and the worker takes
\* nothing: what it still serves is cancelled.
Phases ==
  /\ pc[Main] \in Released => shutdown
  /\ shutdown => pc[Main] \in Released \cup {"queue"}
  /\ pc[Main] = "stopping" \/ shutdown =>
       queue = <<>> /\ (active # None => active \in cancelled)
  /\ pc[Main] = "keep" \/ fate = "kept" => active = None /\ shutdown

\* Steps of other threads that leave the queue, the request and the bridge.
LEMMA PhasesRest ==
  ASSUME Phases, UNCHANGED <<queue, active, shutdown, fate>>, pc'[Main] = pc[Main],
         cancelled \subseteq cancelled'
  PROVE  Phases'
BY DEF Phases, Released

LEMMA PhasesKept == TypeOK /\ Phases /\ [Next]_vars => Phases'
<1> SUFFICES ASSUME TypeOK, Phases, [Next]_vars PROVE Phases'
  OBVIOUS
<1> USE DEF Goto, WorkerAt, WorkerGoes, MainAt, MainGoes
<1>t. /\ PlaceTypes /\ WarmTypes /\ WorkTypes
  BY DEF TypeOK
<1>0. CASE UNCHANGED vars
  BY <1>0, PhasesRest DEF vars, driverVars, bridgeVars
<1>1. CASE Take
  \* There is something to take before the shutdown only.
  <2>1. pc'[Main] = pc[Main] /\ UNCHANGED <<shutdown, fate, cancelled>>
    BY <1>t, <1>1 DEF Take, bridgeVars, PlaceTypes
  <2>2. CASE shutdown
    BY <1>1, <2>1, <2>2, PhasesRest DEF Take
  <2>3. CASE ~shutdown
    <3>1. queue # <<>> /\ pc[Main] # "stopping"
      BY <1>1, <2>3 DEF Take, Phases
    <3> QED BY <2>1, <2>3, <3>1 DEF Phases
  <2> QED BY <2>2, <2>3
<1>2. CASE Clear
  <2>1. pc'[Main] = pc[Main] /\ UNCHANGED <<queue, shutdown, fate, cancelled>> /\ active' = None
    BY <1>t, <1>2 DEF Clear, bridgeVars, PlaceTypes
  <2> QED BY <2>1 DEF Phases
<1>3. CASE NextItem
  BY <1>t, <1>3, PhasesRest DEF NextItem, driverVars, bridgeVars, PlaceTypes
<1>4. CASE Raise
  BY <1>t, <1>4, PhasesRest DEF Raise, driverVars, bridgeVars, PlaceTypes
<1>5. CASE Spoken
  BY <1>t, <1>5, PhasesRest DEF Spoken, driverVars, bridgeVars, PlaceTypes
<1>6. CASE SpeakCancelled
  BY <1>t, <1>6, PhasesRest DEF SpeakCancelled, driverVars, bridgeVars, PlaceTypes
<1>7. CASE LeftOver
  BY <1>t, <1>7, PhasesRest DEF LeftOver, driverVars, bridgeVars, PlaceTypes
<1>8. CASE Synced
  BY <1>t, <1>8, PhasesRest DEF Synced, driverVars, bridgeVars, PlaceTypes
<1>9. CASE TellIndex
  BY <1>t, <1>9, PhasesRest DEF TellIndex, driverVars, bridgeVars, PlaceTypes
<1>10. CASE PlayOut
  BY <1>t, <1>10, PhasesRest DEF PlayOut, driverVars, bridgeVars, PlaceTypes
<1>11. CASE CheckEnd
  BY <1>t, <1>11, PhasesRest DEF CheckEnd, driverVars, bridgeVars, PlaceTypes
<1>12. CASE Done
  BY <1>t, <1>12, PhasesRest DEF Done, driverVars, bridgeVars, PlaceTypes
<1>13. CASE Handle
  BY <1>t, <1>13, PhasesRest DEF Handle, driverVars, bridgeVars, PlaceTypes
<1>14. CASE FailedDone
  BY <1>t, <1>14, PhasesRest DEF FailedDone, driverVars, bridgeVars, PlaceTypes
<1>15. CASE CountError
  BY <1>t, <1>15, PhasesRest DEF CountError, driverVars, bridgeVars, PlaceTypes
<1>16. CASE Tidy
  BY <1>t, <1>16, PhasesRest DEF Tidy, driverVars, bridgeVars, PlaceTypes
<1>17. CASE Recycle
  BY <1>t, <1>17, PhasesRest DEF Recycle, driverVars, bridgeVars, PlaceTypes
<1>18. CASE Callback
  BY <1>t, <1>18, PhasesRest DEF Callback, driverVars, bridgeVars, PlaceTypes
<1>19. CASE Crash
  BY <1>t, <1>19, PhasesRest DEF Crash, driverVars, bridgeVars, PlaceTypes, WarmTypes
<1>20. ASSUME NEW w \in Warmers, WarmDelay(w) PROVE Phases'
  BY <1>t, <1>20, PhasesRest DEF WarmDelay, driverVars, bridgeVars, PlaceTypes
<1>21. ASSUME NEW w \in Warmers, WarmConnect(w) PROVE Phases'
  BY <1>t, <1>21, PhasesRest DEF WarmConnect, driverVars, bridgeVars, PlaceTypes
<1>22. ASSUME NEW w \in Warmers, WarmReady(w) PROVE Phases'
  BY <1>t, <1>22, PhasesRest DEF WarmReady, driverVars, bridgeVars, PlaceTypes
<1>23. ASSUME NEW w \in Warmers, WarmPreload(w) PROVE Phases'
  BY <1>t, <1>23, PhasesRest DEF WarmPreload, driverVars, bridgeVars, PlaceTypes
<1>24. ASSUME NEW t \in Threads, BrowserStarts(t) PROVE Phases'
  BY <1>24, PhasesRest DEF BrowserStarts, driverVars, bridgeVars
<1>25. ASSUME NEW t \in Threads, PageReady(t) PROVE Phases'
  BY <1>25, PhasesRest DEF PageReady, driverVars, bridgeVars
<1>26. ASSUME NEW r \in Requests, CallbackTells(r) PROVE Phases'
  BY <1>26, PhasesRest DEF CallbackTells, driverVars, bridgeVars
<1>27. ASSUME NEW t \in Callers, WarmCheck(t) PROVE Phases'
  <2>1. UNCHANGED <<queue, active, shutdown, fate>> /\ cancelled \subseteq cancelled'
    BY <1>27 DEF WarmCheck, SetWarmEvent, driverVars, bridgeVars
  <2>2. \/ pc'[Main] = pc[Main]
        \/ pc[Main] \in {"warm", "swap", "assign", "start"} /\ pc'[Main] \in {"swap", "assign", "start", "idle"}
    BY <1>t, <1>27 DEF WarmCheck, AfterWarm, PlaceTypes, WarmTypes
  <2> QED BY <2>1, <2>2, PhasesRest DEF Phases, Released
<1>28. ASSUME NEW t \in Callers, WarmSwap(t) PROVE Phases'
  <2>1. UNCHANGED <<queue, active, shutdown, fate>> /\ cancelled \subseteq cancelled'
    BY <1>28 DEF WarmSwap, SetWarmEvent, driverVars, bridgeVars
  <2>2. \/ pc'[Main] = pc[Main]
        \/ pc[Main] \in {"warm", "swap", "assign", "start"} /\ pc'[Main] \in {"swap", "assign", "start", "idle"}
    BY <1>t, <1>28 DEF WarmSwap, AfterWarm, PlaceTypes, WarmTypes
  <2> QED BY <2>1, <2>2, PhasesRest DEF Phases, Released
<1>29. ASSUME NEW t \in Callers, WarmAssign(t) PROVE Phases'
  <2>1. UNCHANGED <<queue, active, shutdown, fate>> /\ cancelled \subseteq cancelled'
    BY <1>29 DEF WarmAssign, SetWarmEvent, driverVars, bridgeVars
  <2>2. \/ pc'[Main] = pc[Main]
        \/ pc[Main] \in {"warm", "swap", "assign", "start"} /\ pc'[Main] \in {"swap", "assign", "start", "idle"}
    BY <1>t, <1>29 DEF WarmAssign, AfterWarm, PlaceTypes, WarmTypes
  <2> QED BY <2>1, <2>2, PhasesRest DEF Phases, Released
<1>30. ASSUME NEW t \in Callers, WarmStart(t) PROVE Phases'
  <2>1. UNCHANGED <<queue, active, shutdown, fate>> /\ cancelled \subseteq cancelled'
    BY <1>30 DEF WarmStart, SetWarmEvent, driverVars, bridgeVars
  <2>2. \/ pc'[Main] = pc[Main]
        \/ pc[Main] \in {"warm", "swap", "assign", "start"} /\ pc'[Main] \in {"swap", "assign", "start", "idle"}
    BY <1>t, <1>30 DEF WarmStart, AfterWarm, PlaceTypes, WarmTypes
  <2> QED BY <2>1, <2>2, PhasesRest DEF Phases, Released
<1>31. CASE Speak
  BY <1>t, <1>31 DEF Speak, Phases, Released, PlaceTypes, driverVars, bridgeVars, MayPost, SetWarmEvent,
    CancelRequests, Withdrawn, Queued, NothingActive
<1>32. CASE Enqueue
  BY <1>t, <1>32 DEF Enqueue, Phases, Released, PlaceTypes, driverVars, bridgeVars, MayPost, SetWarmEvent,
    CancelRequests, Withdrawn, Queued, NothingActive
<1>33. CASE Cancel
  BY <1>t, <1>33 DEF Cancel, Phases, Released, PlaceTypes, driverVars, bridgeVars, MayPost, SetWarmEvent,
    CancelRequests, Withdrawn, Queued, NothingActive
<1>34. CASE SetVoice
  BY <1>t, <1>34 DEF SetVoice, Phases, Released, PlaceTypes, driverVars, bridgeVars, MayPost, SetWarmEvent,
    CancelRequests, Withdrawn, Queued, NothingActive
<1>35. CASE Fallback
  BY <1>t, <1>35 DEF Fallback, Phases, Released, PlaceTypes, driverVars, bridgeVars, MayPost, SetWarmEvent,
    CancelRequests, Withdrawn, Queued, NothingActive
<1>36. CASE GiveUp
  BY <1>t, <1>36 DEF GiveUp, Phases, Released, PlaceTypes, driverVars, bridgeVars, MayPost, SetWarmEvent,
    CancelRequests, Withdrawn, Queued, NothingActive
<1>37. CASE Terminate
  BY <1>t, <1>37 DEF Terminate, Phases, Released, PlaceTypes, driverVars, bridgeVars, MayPost, SetWarmEvent,
    CancelRequests, Withdrawn, Queued, NothingActive
<1>38. CASE CancelAll
  BY <1>t, <1>38 DEF CancelAll, Phases, Released, PlaceTypes, driverVars, bridgeVars, MayPost, SetWarmEvent,
    CancelRequests, Withdrawn, Queued, NothingActive
<1>39. CASE Stopped
  BY <1>t, <1>39 DEF Stopped, Phases, Released, PlaceTypes, driverVars, bridgeVars, MayPost, SetWarmEvent,
    CancelRequests, Withdrawn, Queued, NothingActive
<1>40. CASE CheckBridge
  BY <1>t, <1>40 DEF CheckBridge, Phases, Released, PlaceTypes, driverVars, bridgeVars, MayPost, SetWarmEvent,
    CancelRequests, Withdrawn, Queued, NothingActive
<1>41. CASE CheckQueue
  BY <1>t, <1>41 DEF CheckQueue, Phases, Released, PlaceTypes, driverVars, bridgeVars, MayPost, SetWarmEvent,
    CancelRequests, Withdrawn, Queued, NothingActive
<1>42. CASE Release
  BY <1>t, <1>42 DEF Release, Phases, Released, PlaceTypes, driverVars, bridgeVars, MayPost, SetWarmEvent,
    CancelRequests, Withdrawn, Queued, NothingActive
<1>43. CASE EndBridge
  BY <1>t, <1>43 DEF EndBridge, Phases, Released, PlaceTypes, driverVars, bridgeVars, MayPost, SetWarmEvent,
    CancelRequests, Withdrawn, Queued, NothingActive
<1> QED
  BY <1>0, <1>1, <1>2, <1>3, <1>4, <1>5, <1>6, <1>7, <1>8, <1>9, <1>10, <1>11, <1>12, <1>13, <1>14, <1>15, <1>16, <1>17, <1>18, <1>19, <1>20, <1>21, <1>22, <1>23, <1>24, <1>25, <1>26, <1>27, <1>28, <1>29, <1>30, <1>31, <1>32, <1>33, <1>34, <1>35, <1>36, <1>37, <1>38, <1>39, <1>40, <1>41, <1>42, <1>43
  DEF Next, Serve, Continue, Ask, WarmUp, StartsWarmup

LEMMA PhasesHold == Spec => []Phases
<1>1. Init => Phases
  BY DEF Init, Phases, Released
<1> QED BY <1>1, TypeCorrect, PhasesKept, PTL DEF Spec

\* terminate cancels before it shuts the worker down, and no speak or fallback
\* comes in between: after the shutdown nothing is queued, and what the worker
\* still serves is cancelled.
THEOREM ShutdownLeavesNothing == Spec => []ShutdownCancels
<1>1. Phases => ShutdownCancels
  BY DEF Phases, ShutdownCancels, Cancelled
<1> QED BY <1>1, PhasesHold, PTL

\* _bridge_safe_for_standby_release suffices: standby never takes a bridge over
\* that the speech worker still uses, and the worker takes no request after it.
THEOREM KeptBridgeIsQuiet == Spec => []KeptIsQuiet
<1>1. TypeOK /\ Phases => KeptIsQuiet
  BY DEF Phases, KeptIsQuiet, TypeOK, WorkTypes
<1> QED BY <1>1, TypeCorrect, PhasesHold, PTL

\* Both together: however many requests, setters and warm-ups are under way, when
\* terminate ends the bridge or hands it over no speech is on it, and none follows.
THEOREM DriverEndsOrderly == Spec => []EndsOrderly
<1>1. ShutdownCancels /\ KeptIsQuiet => EndsOrderly
  BY DEF EndsOrderly
<1> QED BY <1>1, ShutdownLeavesNothing, KeptBridgeIsQuiet, PTL

-----------------------------------------------------------------------------
(* The browser that is left                                                  *)

\* Without a recycle only the main thread warms up: whatever warm-up is under way
\* was cancelled or is the one terminate cancels, and after the end nobody may
\* start the browser.
Warming == {"warm", "swap", "assign", "start"}
LastWarmupCancelled == warmEvent \in cancelled \cup {None}
Ending == pc[Main] = "terminate" \/ (pc[Main] = "stopping" /\ goal = "terminate") \/ shutdown
Recalled ==
  /\ pc[Worker] \notin Warming /\ fresh[Worker] = None
  /\ \A w \in Warmers : pc[w] \notin {"unborn", "dead"} => w \in cancelled \cup {warmEvent}
  /\ pc[Main] = "assign" \/ Ending => LastWarmupCancelled
  /\ pc[Main] = "start" => warmEvent = fresh[Main]
  /\ fate = "ended" => shutdown /\ pc[Main] \in {"gone", "queue"} /\ ~up

\* Steps of the worker and of the warm-up threads.
LEMMA RecalledRest ==
  ASSUME Recalled, UNCHANGED <<warmEvent, fresh, shutdown, fate, goal>>,
         cancelled \subseteq cancelled', pc'[Main] = pc[Main], up' => up,
         pc'[Worker] \notin Warming,
         \A w \in Warmers : pc'[w] \notin {"unborn", "dead"} => pc[w] \notin {"unborn", "dead"}
  PROVE  Recalled'
BY DEF Recalled, Ending, LastWarmupCancelled

LEMMA RecalledKept ==
  ASSUME "recycle" \notin Faults
  PROVE  TypeOK /\ Phases /\ Recalled /\ [Next]_vars => Recalled'
<1> SUFFICES ASSUME TypeOK, Phases, Recalled, [Next]_vars PROVE Recalled'
  OBVIOUS
<1> USE DEF Goto, WorkerAt, WorkerGoes, MainAt, MainGoes
<1>t. /\ PlaceTypes /\ WarmTypes /\ WorkTypes
  BY DEF TypeOK
<1>0. CASE UNCHANGED vars
  BY <1>0, RecalledRest DEF vars, driverVars, warmVars, bridgeVars, Recalled
<1>1. CASE Take
  <2>1. UNCHANGED <<warmEvent, fresh, shutdown, fate, goal, cancelled>> /\ (up' => up)
    BY <1>1 DEF Take, driverVars, warmVars, bridgeVars
  <2>2. /\ pc'[Worker] \notin Warming /\ pc'[Main] = pc[Main]
        /\ \A w \in Warmers : pc'[w] = pc[w]
    BY <1>t, <1>1 DEF Take, PlaceTypes, Warming
  <2> QED BY <2>1, <2>2, RecalledRest
<1>2. CASE NextItem
  <2>1. UNCHANGED <<warmEvent, fresh, shutdown, fate, goal, cancelled>> /\ (up' => up)
    BY <1>2 DEF NextItem, driverVars, warmVars, bridgeVars
  <2>2. /\ pc'[Worker] \notin Warming /\ pc'[Main] = pc[Main]
        /\ \A w \in Warmers : pc'[w] = pc[w]
    BY <1>t, <1>2 DEF NextItem, PlaceTypes, Warming
  <2> QED BY <2>1, <2>2, RecalledRest
<1>3. CASE Raise
  <2>1. UNCHANGED <<warmEvent, fresh, shutdown, fate, goal, cancelled>> /\ (up' => up)
    BY <1>3 DEF Raise, Closes, driverVars, warmVars, bridgeVars
  <2>2. /\ pc'[Worker] \notin Warming /\ pc'[Main] = pc[Main]
        /\ \A w \in Warmers : pc'[w] = pc[w]
    BY <1>t, <1>3 DEF Raise, PlaceTypes, Warming
  <2> QED BY <2>1, <2>2, RecalledRest
<1>4. CASE Spoken
  <2>1. UNCHANGED <<warmEvent, fresh, shutdown, fate, goal, cancelled>> /\ (up' => up)
    BY <1>4 DEF Spoken, driverVars, warmVars, bridgeVars
  <2>2. /\ pc'[Worker] \notin Warming /\ pc'[Main] = pc[Main]
        /\ \A w \in Warmers : pc'[w] = pc[w]
    BY <1>t, <1>4 DEF Spoken, PlaceTypes, Warming
  <2> QED BY <2>1, <2>2, RecalledRest
<1>5. CASE SpeakCancelled
  <2>1. UNCHANGED <<warmEvent, fresh, shutdown, fate, goal, cancelled>> /\ (up' => up)
    BY <1>5 DEF SpeakCancelled, Closes, driverVars, warmVars, bridgeVars
  <2>2. /\ pc'[Worker] \notin Warming /\ pc'[Main] = pc[Main]
        /\ \A w \in Warmers : pc'[w] = pc[w]
    BY <1>t, <1>5 DEF SpeakCancelled, PlaceTypes, Warming
  <2> QED BY <2>1, <2>2, RecalledRest
<1>6. CASE LeftOver
  <2>1. UNCHANGED <<warmEvent, fresh, shutdown, fate, goal, cancelled>> /\ (up' => up)
    BY <1>6 DEF LeftOver, driverVars, warmVars, bridgeVars
  <2>2. /\ pc'[Worker] \notin Warming /\ pc'[Main] = pc[Main]
        /\ \A w \in Warmers : pc'[w] = pc[w]
    BY <1>t, <1>6 DEF LeftOver, PlaceTypes, Warming
  <2> QED BY <2>1, <2>2, RecalledRest
<1>7. CASE Synced
  <2>1. UNCHANGED <<warmEvent, fresh, shutdown, fate, goal, cancelled>> /\ (up' => up)
    BY <1>7 DEF Synced, driverVars, warmVars, bridgeVars
  <2>2. /\ pc'[Worker] \notin Warming /\ pc'[Main] = pc[Main]
        /\ \A w \in Warmers : pc'[w] = pc[w]
    BY <1>t, <1>7 DEF Synced, PlaceTypes, Warming
  <2> QED BY <2>1, <2>2, RecalledRest
<1>8. CASE TellIndex
  <2>1. UNCHANGED <<warmEvent, fresh, shutdown, fate, goal, cancelled>> /\ (up' => up)
    BY <1>8 DEF TellIndex, driverVars, warmVars, bridgeVars
  <2>2. /\ pc'[Worker] \notin Warming /\ pc'[Main] = pc[Main]
        /\ \A w \in Warmers : pc'[w] = pc[w]
    BY <1>t, <1>8 DEF TellIndex, PlaceTypes, Warming
  <2> QED BY <2>1, <2>2, RecalledRest
<1>9. CASE PlayOut
  <2>1. UNCHANGED <<warmEvent, fresh, shutdown, fate, goal, cancelled>> /\ (up' => up)
    BY <1>9 DEF PlayOut, driverVars, warmVars, bridgeVars
  <2>2. /\ pc'[Worker] \notin Warming /\ pc'[Main] = pc[Main]
        /\ \A w \in Warmers : pc'[w] = pc[w]
    BY <1>t, <1>9 DEF PlayOut, PlaceTypes, Warming
  <2> QED BY <2>1, <2>2, RecalledRest
<1>10. CASE CheckEnd
  <2>1. UNCHANGED <<warmEvent, fresh, shutdown, fate, goal, cancelled>> /\ (up' => up)
    BY <1>10 DEF CheckEnd, driverVars, warmVars, bridgeVars
  <2>2. /\ pc'[Worker] \notin Warming /\ pc'[Main] = pc[Main]
        /\ \A w \in Warmers : pc'[w] = pc[w]
    BY <1>t, <1>10 DEF CheckEnd, PlaceTypes, Warming
  <2> QED BY <2>1, <2>2, RecalledRest
<1>11. CASE Done
  <2>1. UNCHANGED <<warmEvent, fresh, shutdown, fate, goal, cancelled>> /\ (up' => up)
    BY <1>11 DEF Done, driverVars, warmVars, bridgeVars
  <2>2. /\ pc'[Worker] \notin Warming /\ pc'[Main] = pc[Main]
        /\ \A w \in Warmers : pc'[w] = pc[w]
    BY <1>t, <1>11 DEF Done, PlaceTypes, Warming
  <2> QED BY <2>1, <2>2, RecalledRest
<1>12. CASE Handle
  <2>1. UNCHANGED <<warmEvent, fresh, shutdown, fate, goal, cancelled>> /\ (up' => up)
    BY <1>12 DEF Handle, driverVars, warmVars, bridgeVars
  <2>2. /\ pc'[Worker] \notin Warming /\ pc'[Main] = pc[Main]
        /\ \A w \in Warmers : pc'[w] = pc[w]
    BY <1>t, <1>12 DEF Handle, PlaceTypes, Warming
  <2> QED BY <2>1, <2>2, RecalledRest
<1>13. CASE FailedDone
  <2>1. UNCHANGED <<warmEvent, fresh, shutdown, fate, goal, cancelled>> /\ (up' => up)
    BY <1>13 DEF FailedDone, driverVars, warmVars, bridgeVars
  <2>2. /\ pc'[Worker] \notin Warming /\ pc'[Main] = pc[Main]
        /\ \A w \in Warmers : pc'[w] = pc[w]
    BY <1>t, <1>13 DEF FailedDone, PlaceTypes, Warming
  <2> QED BY <2>1, <2>2, RecalledRest
<1>14. CASE CountError
  <2>1. UNCHANGED <<warmEvent, fresh, shutdown, fate, goal, cancelled>> /\ (up' => up)
    BY <1>14 DEF CountError, driverVars, warmVars, bridgeVars
  <2>2. /\ pc'[Worker] \notin Warming /\ pc'[Main] = pc[Main]
        /\ \A w \in Warmers : pc'[w] = pc[w]
    BY <1>t, <1>14 DEF CountError, PlaceTypes, Warming
  <2> QED BY <2>1, <2>2, RecalledRest
<1>15. CASE Tidy
  <2>1. UNCHANGED <<warmEvent, fresh, shutdown, fate, goal, cancelled>> /\ (up' => up)
    BY <1>15 DEF Tidy, driverVars, warmVars, bridgeVars
  <2>2. /\ pc'[Worker] \notin Warming /\ pc'[Main] = pc[Main]
        /\ \A w \in Warmers : pc'[w] = pc[w]
    BY <1>t, <1>15 DEF Tidy, PlaceTypes, Warming
  <2> QED BY <2>1, <2>2, RecalledRest
<1>16. CASE Recycle
  <2>1. UNCHANGED <<warmEvent, fresh, shutdown, fate, goal, cancelled>> /\ (up' => up)
    BY <1>16 DEF Recycle, driverVars, warmVars, bridgeVars
  <2>2. /\ pc'[Worker] \notin Warming /\ pc'[Main] = pc[Main]
        /\ \A w \in Warmers : pc'[w] = pc[w]
    BY <1>t, <1>16 DEF Recycle, PlaceTypes, Warming
  <2> QED BY <2>1, <2>2, RecalledRest
<1>17. CASE Clear
  <2>1. UNCHANGED <<warmEvent, fresh, shutdown, fate, goal, cancelled>> /\ (up' => up)
    BY <1>17 DEF Clear, driverVars, warmVars, bridgeVars
  <2>2. /\ pc'[Worker] \notin Warming /\ pc'[Main] = pc[Main]
        /\ \A w \in Warmers : pc'[w] = pc[w]
    BY <1>t, <1>17 DEF Clear, PlaceTypes, Warming
  <2> QED BY <2>1, <2>2, RecalledRest
<1>18. CASE Callback
  <2>1. UNCHANGED <<warmEvent, fresh, shutdown, fate, goal, cancelled>> /\ (up' => up)
    BY <1>18 DEF Callback, driverVars, warmVars, bridgeVars
  <2>2. /\ pc'[Worker] \notin Warming /\ pc'[Main] = pc[Main]
        /\ \A w \in Warmers : pc'[w] = pc[w]
    BY <1>t, <1>18 DEF Callback, PlaceTypes, Warming, Recalled
  <2> QED BY <2>1, <2>2, RecalledRest
<1>19. ASSUME NEW w \in Warmers, WarmDelay(w) PROVE Recalled'
  <2>1. UNCHANGED <<warmEvent, fresh, shutdown, fate, goal, cancelled>> /\ (up' => up)
    BY <1>19 DEF WarmDelay, Closes, driverVars, warmVars, bridgeVars
  <2>2. /\ pc'[Worker] = pc[Worker] /\ pc'[Main] = pc[Main]
        /\ pc[w] \notin {"unborn", "dead"} /\ \A v \in Warmers \ {w} : pc'[v] = pc[v]
    BY <1>t, <1>19 DEF WarmDelay, PlaceTypes
  <2> QED BY <2>1, <2>2, RecalledRest DEF Recalled
<1>20. ASSUME NEW w \in Warmers, WarmConnect(w) PROVE Recalled'
  <2>1. UNCHANGED <<warmEvent, fresh, shutdown, fate, goal, cancelled>> /\ (up' => up)
    BY <1>20 DEF WarmConnect, Closes, driverVars, warmVars, bridgeVars
  <2>2. /\ pc'[Worker] = pc[Worker] /\ pc'[Main] = pc[Main]
        /\ pc[w] \notin {"unborn", "dead"} /\ \A v \in Warmers \ {w} : pc'[v] = pc[v]
    BY <1>t, <1>20 DEF WarmConnect, PlaceTypes
  <2> QED BY <2>1, <2>2, RecalledRest DEF Recalled
<1>21. ASSUME NEW w \in Warmers, WarmReady(w) PROVE Recalled'
  <2>1. UNCHANGED <<warmEvent, fresh, shutdown, fate, goal, cancelled>> /\ (up' => up)
    BY <1>21 DEF WarmReady, Closes, driverVars, warmVars, bridgeVars
  <2>2. /\ pc'[Worker] = pc[Worker] /\ pc'[Main] = pc[Main]
        /\ pc[w] \notin {"unborn", "dead"} /\ \A v \in Warmers \ {w} : pc'[v] = pc[v]
    BY <1>t, <1>21 DEF WarmReady, PlaceTypes
  <2> QED BY <2>1, <2>2, RecalledRest DEF Recalled
<1>22. ASSUME NEW w \in Warmers, WarmPreload(w) PROVE Recalled'
  <2>1. UNCHANGED <<warmEvent, fresh, shutdown, fate, goal, cancelled>> /\ (up' => up)
    BY <1>22 DEF WarmPreload, Closes, driverVars, warmVars, bridgeVars
  <2>2. /\ pc'[Worker] = pc[Worker] /\ pc'[Main] = pc[Main]
        /\ pc[w] \notin {"unborn", "dead"} /\ \A v \in Warmers \ {w} : pc'[v] = pc[v]
    BY <1>t, <1>22 DEF WarmPreload, PlaceTypes
  <2> QED BY <2>1, <2>2, RecalledRest DEF Recalled
\* After the end every call that could start the browser is cancelled.
<1>23. ASSUME NEW t \in Threads, BrowserStarts(t) PROVE Recalled'
  <2>1. fate # "ended"
    <3> SUFFICES ASSUME fate = "ended" PROVE FALSE
      OBVIOUS
    <3>1. shutdown /\ LastWarmupCancelled
      BY DEF Recalled, Ending
    <3>2. CASE t = Main
      BY <1>t, <3>2, <1>23 DEF BrowserStarts, Connecting, PlaceTypes, MainPlaces
    <3>3. CASE t = Worker
      BY <1>t, <3>1, <3>3, <1>23 DEF BrowserStarts, Connecting, CallCancelled, Cancelled, WorkTypes, Phases
    <3>4. CASE t \in Warmers
      BY <3>1, <3>4, <1>23 DEF BrowserStarts, Connecting, CallCancelled, Cancelled, Recalled,
        LastWarmupCancelled
    <3> QED BY <3>2, <3>3, <3>4
  <2> QED BY <2>1, <1>23 DEF BrowserStarts, driverVars, warmVars, Recalled, Ending, LastWarmupCancelled
<1>24. ASSUME NEW t \in Threads, PageReady(t) PROVE Recalled'
  BY <1>24, RecalledRest DEF PageReady, driverVars, warmVars, Recalled
<1>25. ASSUME NEW r \in Requests, CallbackTells(r) PROVE Recalled'
  BY <1>25, RecalledRest DEF CallbackTells, driverVars, warmVars, bridgeVars, Recalled
<1>26. CASE Crash \/ StartsWarmup(Worker)
  BY <1>26 DEF Crash, StartsWarmup, WarmCheck, WarmSwap, WarmAssign, WarmStart, Recalled, Warming
\* The main thread warms up: the event before is set before the new one takes
\* its place, and the thread starts when its event is the one to be set.
<1>27. CASE WarmCheck(Main)
  <2>1. UNCHANGED <<cancelled, warmEvent, shutdown, fate, goal, up>> /\ fresh'[Worker] = fresh[Worker]
    BY <1>t, <1>27 DEF WarmCheck, driverVars, bridgeVars, WarmTypes
  <2>2. /\ pc[Main] = "warm" /\ pc'[Main] \in {"swap", "idle"}
        /\ \A t \in Threads \ {Main} : pc'[t] = pc[t]
    BY <1>t, <1>27 DEF WarmCheck, AfterWarm, PlaceTypes
  <2> QED BY <2>1, <2>2 DEF Recalled, Ending, LastWarmupCancelled
<1>28. CASE WarmSwap(Main)
  <2>1. UNCHANGED <<warmEvent, fresh, shutdown, fate, goal, up>>
    BY <1>28 DEF WarmSwap, driverVars, warmVars, bridgeVars
  <2>2. cancelled' = cancelled \cup ({warmEvent} \ {None})
    BY <1>28 DEF WarmSwap, SetWarmEvent
  <2>3. /\ pc[Main] = "swap" /\ pc'[Main] = "assign"
        /\ \A t \in Threads \ {Main} : pc'[t] = pc[t]
    BY <1>t, <1>28 DEF WarmSwap, PlaceTypes
  <2> QED BY <2>1, <2>2, <2>3 DEF Recalled, Ending, LastWarmupCancelled
<1>29. CASE WarmAssign(Main)
  <2>1. UNCHANGED <<cancelled, fresh, shutdown, fate, goal, up>> /\ warmEvent' = fresh[Main]
    BY <1>29 DEF WarmAssign, driverVars, bridgeVars
  <2>2. /\ pc[Main] = "assign" /\ pc'[Main] = "start"
        /\ \A t \in Threads \ {Main} : pc'[t] = pc[t]
    BY <1>t, <1>29 DEF WarmAssign, PlaceTypes
  <2>3. \A w \in Warmers : pc[w] \notin {"unborn", "dead"} => w \in cancelled
    BY <2>2 DEF Recalled, LastWarmupCancelled
  <2>4. ~Ending'
    BY <2>1, <2>2 DEF Ending, Phases, Released
  <2> QED BY <2>1, <2>2, <2>3, <2>4 DEF Recalled
<1>30. CASE WarmStart(Main)
  <2>1. UNCHANGED <<cancelled, warmEvent, shutdown, fate, goal, up>> /\ fresh'[Worker] = fresh[Worker]
    BY <1>t, <1>30 DEF WarmStart, driverVars, bridgeVars, WarmTypes
  <2>2. pc[Main] = "start" /\ fresh[Main] \in Warmers /\ warmEvent = fresh[Main]
    BY <1>t, <1>30 DEF WarmStart, WarmTypes, Recalled
  <2>3. pc'[Main] = "idle" /\ \A t \in Threads \ {Main, fresh[Main]} : pc'[t] = pc[t]
    BY <1>t, <2>2, <1>30 DEF WarmStart, AfterWarm, PlaceTypes
  <2>4. ~Ending' /\ fate' # "ended"
    BY <2>1, <2>2, <2>3 DEF Ending, Phases, Released, Recalled
  <2> QED BY <2>1, <2>2, <2>3, <2>4 DEF Recalled
<1>31. CASE Speak
  <2>1. UNCHANGED <<warmEvent, fresh>> /\ cancelled \subseteq cancelled'
    BY <1>31 DEF Speak, SetWarmEvent, CancelRequests, driverVars, warmVars
  <2>2. \A t \in Threads \ {Main} : pc'[t] = pc[t]
    BY <1>t, <1>31 DEF Speak, CancelRequests, PlaceTypes
  <2>3. /\ pc'[Main] \notin {"assign", "start"}
        /\ Ending' => LastWarmupCancelled'
        /\ fate' = "ended" => shutdown' /\ pc'[Main] \in {"gone", "queue"} /\ ~up'
    BY <1>t, <2>1, <1>31 DEF Speak, CancelRequests, SetWarmEvent, MayPost, Ending, LastWarmupCancelled, Recalled,
      Phases, Released, PlaceTypes, driverVars, warmVars, bridgeVars
  <2> QED BY <2>1, <2>2, <2>3 DEF Recalled
<1>32. CASE Enqueue
  <2>1. UNCHANGED <<warmEvent, fresh>> /\ cancelled \subseteq cancelled'
    BY <1>32 DEF Enqueue, SetWarmEvent, CancelRequests, driverVars, warmVars
  <2>2. \A t \in Threads \ {Main} : pc'[t] = pc[t]
    BY <1>t, <1>32 DEF Enqueue, CancelRequests, PlaceTypes
  <2>3. /\ pc'[Main] \notin {"assign", "start"}
        /\ Ending' => LastWarmupCancelled'
        /\ fate' = "ended" => shutdown' /\ pc'[Main] \in {"gone", "queue"} /\ ~up'
    BY <1>t, <2>1, <1>32 DEF Enqueue, CancelRequests, SetWarmEvent, MayPost, Ending, LastWarmupCancelled, Recalled,
      Phases, Released, PlaceTypes, driverVars, warmVars, bridgeVars
  <2> QED BY <2>1, <2>2, <2>3 DEF Recalled
<1>33. CASE Cancel
  <2>1. UNCHANGED <<warmEvent, fresh>> /\ cancelled \subseteq cancelled'
    BY <1>33 DEF Cancel, SetWarmEvent, CancelRequests, driverVars, warmVars
  <2>2. \A t \in Threads \ {Main} : pc'[t] = pc[t]
    BY <1>t, <1>33 DEF Cancel, CancelRequests, PlaceTypes
  <2>3. /\ pc'[Main] \notin {"assign", "start"}
        /\ Ending' => LastWarmupCancelled'
        /\ fate' = "ended" => shutdown' /\ pc'[Main] \in {"gone", "queue"} /\ ~up'
    BY <1>t, <2>1, <1>33 DEF Cancel, CancelRequests, SetWarmEvent, MayPost, Ending, LastWarmupCancelled, Recalled,
      Phases, Released, PlaceTypes, driverVars, warmVars, bridgeVars
  <2> QED BY <2>1, <2>2, <2>3 DEF Recalled
<1>34. CASE SetVoice
  <2>1. UNCHANGED <<warmEvent, fresh>> /\ cancelled \subseteq cancelled'
    BY <1>34 DEF SetVoice, SetWarmEvent, CancelRequests, driverVars, warmVars
  <2>2. \A t \in Threads \ {Main} : pc'[t] = pc[t]
    BY <1>t, <1>34 DEF SetVoice, CancelRequests, PlaceTypes
  <2>3. /\ pc'[Main] \notin {"assign", "start"}
        /\ Ending' => LastWarmupCancelled'
        /\ fate' = "ended" => shutdown' /\ pc'[Main] \in {"gone", "queue"} /\ ~up'
    BY <1>t, <2>1, <1>34 DEF SetVoice, CancelRequests, SetWarmEvent, MayPost, Ending, LastWarmupCancelled, Recalled,
      Phases, Released, PlaceTypes, driverVars, warmVars, bridgeVars
  <2> QED BY <2>1, <2>2, <2>3 DEF Recalled
<1>35. CASE Fallback
  <2>1. UNCHANGED <<warmEvent, fresh>> /\ cancelled \subseteq cancelled'
    BY <1>35 DEF Fallback, SetWarmEvent, CancelRequests, driverVars, warmVars
  <2>2. \A t \in Threads \ {Main} : pc'[t] = pc[t]
    BY <1>t, <1>35 DEF Fallback, CancelRequests, PlaceTypes
  <2>3. /\ pc'[Main] \notin {"assign", "start"}
        /\ Ending' => LastWarmupCancelled'
        /\ fate' = "ended" => shutdown' /\ pc'[Main] \in {"gone", "queue"} /\ ~up'
    BY <1>t, <2>1, <1>35 DEF Fallback, CancelRequests, SetWarmEvent, MayPost, Ending, LastWarmupCancelled, Recalled,
      Phases, Released, PlaceTypes, driverVars, warmVars, bridgeVars
  <2> QED BY <2>1, <2>2, <2>3 DEF Recalled
<1>36. CASE GiveUp
  <2>1. UNCHANGED <<warmEvent, fresh>> /\ cancelled \subseteq cancelled'
    BY <1>36 DEF GiveUp, SetWarmEvent, CancelRequests, driverVars, warmVars
  <2>2. \A t \in Threads \ {Main} : pc'[t] = pc[t]
    BY <1>t, <1>36 DEF GiveUp, CancelRequests, PlaceTypes
  <2>3. /\ pc'[Main] \notin {"assign", "start"}
        /\ Ending' => LastWarmupCancelled'
        /\ fate' = "ended" => shutdown' /\ pc'[Main] \in {"gone", "queue"} /\ ~up'
    BY <1>t, <2>1, <1>36 DEF GiveUp, CancelRequests, SetWarmEvent, MayPost, Ending, LastWarmupCancelled, Recalled,
      Phases, Released, PlaceTypes, driverVars, warmVars, bridgeVars
  <2> QED BY <2>1, <2>2, <2>3 DEF Recalled
<1>37. CASE Terminate
  <2>1. UNCHANGED <<warmEvent, fresh>> /\ cancelled \subseteq cancelled'
    BY <1>37 DEF Terminate, SetWarmEvent, CancelRequests, driverVars, warmVars
  <2>2. \A t \in Threads \ {Main} : pc'[t] = pc[t]
    BY <1>t, <1>37 DEF Terminate, CancelRequests, PlaceTypes
  <2>3. /\ pc'[Main] \notin {"assign", "start"}
        /\ Ending' => LastWarmupCancelled'
        /\ fate' = "ended" => shutdown' /\ pc'[Main] \in {"gone", "queue"} /\ ~up'
    BY <1>t, <2>1, <1>37 DEF Terminate, CancelRequests, SetWarmEvent, MayPost, Ending, LastWarmupCancelled, Recalled,
      Phases, Released, PlaceTypes, driverVars, warmVars, bridgeVars
  <2> QED BY <2>1, <2>2, <2>3 DEF Recalled
<1>38. CASE CancelAll
  <2>1. UNCHANGED <<warmEvent, fresh>> /\ cancelled \subseteq cancelled'
    BY <1>38 DEF CancelAll, SetWarmEvent, CancelRequests, driverVars, warmVars
  <2>2. \A t \in Threads \ {Main} : pc'[t] = pc[t]
    BY <1>t, <1>38 DEF CancelAll, CancelRequests, PlaceTypes
  <2>3. /\ pc'[Main] \notin {"assign", "start"}
        /\ Ending' => LastWarmupCancelled'
        /\ fate' = "ended" => shutdown' /\ pc'[Main] \in {"gone", "queue"} /\ ~up'
    BY <1>t, <2>1, <1>38 DEF CancelAll, CancelRequests, SetWarmEvent, MayPost, Ending, LastWarmupCancelled, Recalled,
      Phases, Released, PlaceTypes, driverVars, warmVars, bridgeVars
  <2> QED BY <2>1, <2>2, <2>3 DEF Recalled
<1>39. CASE Stopped
  <2>1. UNCHANGED <<warmEvent, fresh>> /\ cancelled \subseteq cancelled'
    BY <1>39 DEF Stopped, SetWarmEvent, CancelRequests, driverVars, warmVars
  <2>2. \A t \in Threads \ {Main} : pc'[t] = pc[t]
    BY <1>t, <1>39 DEF Stopped, CancelRequests, PlaceTypes
  <2>3. /\ pc'[Main] \notin {"assign", "start"}
        /\ Ending' => LastWarmupCancelled'
        /\ fate' = "ended" => shutdown' /\ pc'[Main] \in {"gone", "queue"} /\ ~up'
    BY <1>t, <2>1, <1>39 DEF Stopped, CancelRequests, SetWarmEvent, MayPost, Ending, LastWarmupCancelled, Recalled,
      Phases, Released, PlaceTypes, driverVars, warmVars, bridgeVars
  <2> QED BY <2>1, <2>2, <2>3 DEF Recalled
<1>40. CASE CheckBridge
  <2>1. UNCHANGED <<warmEvent, fresh>> /\ cancelled \subseteq cancelled'
    BY <1>40 DEF CheckBridge, SetWarmEvent, CancelRequests, driverVars, warmVars
  <2>2. \A t \in Threads \ {Main} : pc'[t] = pc[t]
    BY <1>t, <1>40 DEF CheckBridge, CancelRequests, PlaceTypes
  <2>3. /\ pc'[Main] \notin {"assign", "start"}
        /\ Ending' => LastWarmupCancelled'
        /\ fate' = "ended" => shutdown' /\ pc'[Main] \in {"gone", "queue"} /\ ~up'
    BY <1>t, <2>1, <1>40 DEF CheckBridge, CancelRequests, SetWarmEvent, MayPost, Ending, LastWarmupCancelled, Recalled,
      Phases, Released, PlaceTypes, driverVars, warmVars, bridgeVars
  <2> QED BY <2>1, <2>2, <2>3 DEF Recalled
<1>41. CASE CheckQueue
  <2>1. UNCHANGED <<warmEvent, fresh>> /\ cancelled \subseteq cancelled'
    BY <1>41 DEF CheckQueue, SetWarmEvent, CancelRequests, driverVars, warmVars
  <2>2. \A t \in Threads \ {Main} : pc'[t] = pc[t]
    BY <1>t, <1>41 DEF CheckQueue, CancelRequests, PlaceTypes
  <2>3. /\ pc'[Main] \notin {"assign", "start"}
        /\ Ending' => LastWarmupCancelled'
        /\ fate' = "ended" => shutdown' /\ pc'[Main] \in {"gone", "queue"} /\ ~up'
    BY <1>t, <2>1, <1>41 DEF CheckQueue, CancelRequests, SetWarmEvent, MayPost, Ending, LastWarmupCancelled, Recalled,
      Phases, Released, PlaceTypes, driverVars, warmVars, bridgeVars
  <2> QED BY <2>1, <2>2, <2>3 DEF Recalled
<1>42. CASE Release
  <2>1. UNCHANGED <<warmEvent, fresh>> /\ cancelled \subseteq cancelled'
    BY <1>42 DEF Release, SetWarmEvent, CancelRequests, driverVars, warmVars
  <2>2. \A t \in Threads \ {Main} : pc'[t] = pc[t]
    BY <1>t, <1>42 DEF Release, CancelRequests, PlaceTypes
  <2>3. /\ pc'[Main] \notin {"assign", "start"}
        /\ Ending' => LastWarmupCancelled'
        /\ fate' = "ended" => shutdown' /\ pc'[Main] \in {"gone", "queue"} /\ ~up'
    BY <1>t, <2>1, <1>42 DEF Release, CancelRequests, SetWarmEvent, MayPost, Ending, LastWarmupCancelled, Recalled,
      Phases, Released, PlaceTypes, driverVars, warmVars, bridgeVars
  <2> QED BY <2>1, <2>2, <2>3 DEF Recalled
<1>43. CASE EndBridge
  <2>1. UNCHANGED <<warmEvent, fresh>> /\ cancelled \subseteq cancelled'
    BY <1>43 DEF EndBridge, SetWarmEvent, CancelRequests, driverVars, warmVars
  <2>2. \A t \in Threads \ {Main} : pc'[t] = pc[t]
    BY <1>t, <1>43 DEF EndBridge, CancelRequests, PlaceTypes
  <2>3. /\ pc'[Main] \notin {"assign", "start"}
        /\ Ending' => LastWarmupCancelled'
        /\ fate' = "ended" => shutdown' /\ pc'[Main] \in {"gone", "queue"} /\ ~up'
    BY <1>t, <2>1, <1>43 DEF EndBridge, CancelRequests, SetWarmEvent, MayPost, Ending, LastWarmupCancelled, Recalled,
      Phases, Released, PlaceTypes, driverVars, warmVars, bridgeVars
  <2> QED BY <2>1, <2>2, <2>3 DEF Recalled
<1> QED
  BY <1>0, <1>1, <1>2, <1>3, <1>4, <1>5, <1>6, <1>7, <1>8, <1>9, <1>10, <1>11, <1>12, <1>13, <1>14, <1>15, <1>16, <1>17, <1>18, <1>19, <1>20, <1>21, <1>22, <1>23, <1>24, <1>25, <1>26, <1>27, <1>28, <1>29, <1>30, <1>31, <1>32, <1>33, <1>34, <1>35, <1>36, <1>37, <1>38, <1>39, <1>40, <1>41, <1>42, <1>43
  DEF Next, Serve, Continue, Ask, WarmUp, StartsWarmup

\* Where the browser is not recycled under the driver, terminate leaves none: a
\* warm-up that still runs was cancelled, by the one after it or by terminate, and
\* with the bridge ended nothing starts the browser again.  With a recycle the run
\* driver_leak finds one left.
THEOREM NothingLeftRunning ==
  ASSUME "recycle" \notin Faults
  PROVE  Spec => []NoBrowserLeft
<1>1. Init => Recalled
  BY DEF Init, Recalled, Ending, LastWarmupCancelled, Warming
<1>2. Recalled => NoBrowserLeft
  BY DEF Recalled, NoBrowserLeft
<1>3. Spec => []Recalled
  BY <1>1, RecalledKept, TypeCorrect, PhasesHold, PTL DEF Spec
<1> QED BY <1>2, <1>3, PTL

\* Only terminate ends the bridge, after it has shut the worker down; and only a
\* call that makes the connection starts the browser.
EndedIsShut == fate = "ended" => shutdown
LEMMA StartsOnly ==
  ASSUME TypeOK, Phases, EndedIsShut, [Next]_vars
  PROVE  /\ EndedIsShut'
         /\ ~up /\ up' => \E t \in Threads : BrowserStarts(t)
<1> USE DEF Goto, WorkerAt, WorkerGoes, MainAt, MainGoes, EndedIsShut
<1>0. CASE UNCHANGED vars
  BY <1>0 DEF vars, driverVars, bridgeVars
<1>1. CASE Take
  BY <1>1 DEF Take, driverVars, bridgeVars
<1>2. CASE NextItem
  BY <1>2 DEF NextItem, driverVars, bridgeVars
<1>3. CASE Raise
  BY <1>3 DEF Raise, Closes, driverVars, bridgeVars
<1>4. CASE Spoken
  BY <1>4 DEF Spoken, driverVars, bridgeVars
<1>5. CASE SpeakCancelled
  BY <1>5 DEF SpeakCancelled, Closes, driverVars, bridgeVars
<1>6. CASE LeftOver
  BY <1>6 DEF LeftOver, driverVars, bridgeVars
<1>7. CASE Synced
  BY <1>7 DEF Synced, driverVars, bridgeVars
<1>8. CASE TellIndex
  BY <1>8 DEF TellIndex, driverVars, bridgeVars
<1>9. CASE PlayOut
  BY <1>9 DEF PlayOut, driverVars, bridgeVars
<1>10. CASE CheckEnd
  BY <1>10 DEF CheckEnd, driverVars, bridgeVars
<1>11. CASE Done
  BY <1>11 DEF Done, driverVars, bridgeVars
<1>12. CASE Handle
  BY <1>12 DEF Handle, driverVars, bridgeVars
<1>13. CASE FailedDone
  BY <1>13 DEF FailedDone, driverVars, bridgeVars
<1>14. CASE CountError
  BY <1>14 DEF CountError, driverVars, bridgeVars
<1>15. CASE Tidy
  BY <1>15 DEF Tidy, driverVars, bridgeVars
<1>16. CASE Recycle
  BY <1>16 DEF Recycle, driverVars, bridgeVars
<1>17. CASE Crash
  BY <1>17 DEF Crash, driverVars, bridgeVars
<1>18. CASE Clear
  BY <1>18 DEF Clear, driverVars, bridgeVars
<1>19. CASE Callback
  BY <1>19 DEF Callback, driverVars, bridgeVars
<1>20. CASE Speak
  BY <1>20 DEF Speak, driverVars, bridgeVars
<1>21. CASE Enqueue
  BY <1>21 DEF Enqueue, driverVars, bridgeVars
<1>22. CASE Cancel
  BY <1>22 DEF Cancel, CancelRequests, driverVars, bridgeVars
<1>23. CASE SetVoice
  BY <1>23 DEF SetVoice, driverVars, bridgeVars
<1>24. CASE Fallback
  BY <1>24 DEF Fallback, driverVars, bridgeVars
<1>25. CASE GiveUp
  BY <1>25 DEF GiveUp, CancelRequests, driverVars, bridgeVars
<1>26. CASE Terminate
  BY <1>26 DEF Terminate, driverVars, bridgeVars
<1>27. CASE CancelAll
  BY <1>27 DEF CancelAll, CancelRequests, driverVars, bridgeVars
<1>28. CASE Stopped
  BY <1>28 DEF Stopped, driverVars, bridgeVars
<1>29. CASE CheckBridge
  BY <1>29 DEF CheckBridge, driverVars, bridgeVars
<1>30. CASE CheckQueue
  BY <1>30 DEF CheckQueue, driverVars, bridgeVars
<1>31. CASE Release
  BY <1>31 DEF Release, Phases, Released, driverVars, bridgeVars
<1>32. CASE EndBridge
  BY <1>32 DEF EndBridge, Phases, Released, driverVars, bridgeVars
<1>33. ASSUME NEW w \in Warmers, WarmDelay(w)
      PROVE  EndedIsShut' /\ (up' => up)
  BY <1>33 DEF WarmDelay, Closes, driverVars, bridgeVars
<1>34. ASSUME NEW w \in Warmers, WarmConnect(w)
      PROVE  EndedIsShut' /\ (up' => up)
  BY <1>34 DEF WarmConnect, Closes, driverVars, bridgeVars
<1>35. ASSUME NEW w \in Warmers, WarmReady(w)
      PROVE  EndedIsShut' /\ (up' => up)
  BY <1>35 DEF WarmReady, Closes, driverVars, bridgeVars
<1>36. ASSUME NEW w \in Warmers, WarmPreload(w)
      PROVE  EndedIsShut' /\ (up' => up)
  BY <1>36 DEF WarmPreload, Closes, driverVars, bridgeVars
<1>37. ASSUME NEW t \in Callers, WarmCheck(t)
      PROVE  EndedIsShut' /\ (up' => up)
  BY <1>37 DEF WarmCheck, driverVars, bridgeVars
<1>38. ASSUME NEW t \in Callers, WarmSwap(t)
      PROVE  EndedIsShut' /\ (up' => up)
  BY <1>38 DEF WarmSwap, driverVars, bridgeVars
<1>39. ASSUME NEW t \in Callers, WarmAssign(t)
      PROVE  EndedIsShut' /\ (up' => up)
  BY <1>39 DEF WarmAssign, driverVars, bridgeVars
<1>40. ASSUME NEW t \in Callers, WarmStart(t)
      PROVE  EndedIsShut' /\ (up' => up)
  BY <1>40 DEF WarmStart, driverVars, bridgeVars
<1>41. ASSUME NEW t \in Threads, BrowserStarts(t) PROVE EndedIsShut'
  BY <1>41 DEF BrowserStarts, driverVars
<1>42. ASSUME NEW t \in Threads, PageReady(t)
      PROVE  EndedIsShut' /\ (up' => up)
  BY <1>42 DEF PageReady, driverVars
<1>43. ASSUME NEW r \in Requests, CallbackTells(r)
      PROVE  EndedIsShut' /\ (up' => up)
  BY <1>43 DEF CallbackTells, driverVars, bridgeVars
<1> QED
  BY <1>0, <1>1, <1>2, <1>3, <1>4, <1>5, <1>6, <1>7, <1>8, <1>9, <1>10, <1>11, <1>12, <1>13, <1>14, <1>15, <1>16, <1>17, <1>18, <1>19, <1>20, <1>21, <1>22, <1>23, <1>24, <1>25, <1>26, <1>27, <1>28, <1>29, <1>30, <1>31, <1>32, <1>33, <1>34, <1>35, <1>36, <1>37, <1>38, <1>39, <1>40, <1>41, <1>42, <1>43
  DEF Next, Serve, Continue, Ask, WarmUp, StartsWarmup

\* After terminate has ended the bridge, what starts the browser again is a warm-up
\* thread nobody has cancelled.
StartedByWarmup ==
  \E w \in Warmers : pc[w] \in {"connect", "preload"} /\ w \notin cancelled
OnlyWarmupsRevive == [][fate = "ended" /\ ~up /\ up' => StartedByWarmup]_vars

\* With recycles too, the worker and the text it was speaking revive nothing: of a
\* browser that is left behind, a warm-up that escaped terminate is the only cause.
THEOREM SpeechRevivesNothing == Spec => OnlyWarmupsRevive
<1>1. Init => EndedIsShut
  BY DEF Init, EndedIsShut
<1>2. TypeOK /\ Phases /\ EndedIsShut /\ [Next]_vars => EndedIsShut'
  BY StartsOnly
<1>3. TypeOK /\ Phases /\ EndedIsShut /\ [Next]_vars
        => (fate = "ended" /\ ~up /\ up' => StartedByWarmup)
  <2> SUFFICES ASSUME TypeOK, Phases, EndedIsShut, [Next]_vars, fate = "ended", ~up, up'
               PROVE  StartedByWarmup
    OBVIOUS
  <2>1. PICK t \in Threads : BrowserStarts(t)
    BY StartsOnly
  <2>2. Connecting(t) /\ ~CallCancelled(t)
    BY <2>1 DEF BrowserStarts
  <2>3. t # Main
    BY <2>2 DEF Connecting, TypeOK, PlaceTypes, MainPlaces
  <2>4. t # Worker
    BY <2>2 DEF Connecting, CallCancelled, Cancelled, TypeOK, WorkTypes, Phases, EndedIsShut
  <2>5. t \in Warmers /\ pc[t] \in WarmPlaces
    BY <2>3, <2>4 DEF TypeOK, PlaceTypes
  <2>6. pc[t] \in {"connect", "preload"} /\ t \notin cancelled
    BY <2>2, <2>4, <2>5 DEF Connecting, CallCancelled, Cancelled, WarmPlaces
  <2> QED BY <2>5, <2>6 DEF StartedByWarmup
<1> QED BY <1>1, <1>2, <1>3, TypeCorrect, PhasesHold, PTL DEF Spec, OnlyWarmupsRevive

-----------------------------------------------------------------------------
(* The indexes of a request                                                  *)

\* The indexes of request r before its chunk i.
MarksBefore(r, i) == {p \in DOMAIN Script[r] : p < i /\ Script[r][p] # "text"}
Before(r, i) == Cardinality(MarksBefore(r, i))
IsMark(r, i) == i \in DOMAIN Script[r] /\ Script[r][i] # "text"

LEMMA MarksFinite ==
  ASSUME NEW r \in Requests
  PROVE  /\ DOMAIN Script[r] = 1..Len(Script[r]) /\ Len(Script[r]) \in Nat
         /\ \A S \in SUBSET DOMAIN Script[r] : IsFiniteSet(S) /\ Cardinality(S) \in Nat
<1>1. Script[r] \in Seq({"text", "marked", "index"})
  BY ScriptIsKnown
<1>2. DOMAIN Script[r] = 1..Len(Script[r]) /\ Len(Script[r]) \in Nat
  BY <1>1, LenProperties
<1>3. IsFiniteSet(DOMAIN Script[r])
  BY <1>2, FS_Interval
<1> QED BY <1>2, <1>3, FS_Subset, FS_CardinalityType

LEMMA BeforeStart ==
  ASSUME NEW r \in Requests
  PROVE  Before(r, 1) = 0
<1>1. MarksBefore(r, 1) = {}
  BY MarksFinite DEF MarksBefore
<1> QED BY <1>1, FS_EmptySet DEF Before

\* A chunk with an index adds one, a text none.
LEMMA BeforeStep ==
  ASSUME NEW r \in Requests, NEW i \in DOMAIN Script[r]
  PROVE  Before(r, i + 1) = IF IsMark(r, i) THEN Before(r, i) + 1 ELSE Before(r, i)
<1>1. i \in Nat /\ \A p \in DOMAIN Script[r] : p \in Nat
  BY MarksFinite
<1>2. i \notin MarksBefore(r, i)
  BY <1>1 DEF MarksBefore
<1>3. IsFiniteSet(MarksBefore(r, i))
  BY MarksFinite DEF MarksBefore
<1>4. CASE IsMark(r, i)
  <2>1. MarksBefore(r, i + 1) = MarksBefore(r, i) \cup {i}
    BY <1>1, <1>4 DEF MarksBefore, IsMark
  <2> QED BY <1>2, <1>3, <1>4, <2>1, FS_AddElement DEF Before
<1>5. CASE ~IsMark(r, i)
  <2>1. MarksBefore(r, i + 1) = MarksBefore(r, i)
    BY <1>1, <1>5 DEF MarksBefore, IsMark
  <2> QED BY <1>5, <2>1 DEF Before
<1> QED BY <1>4, <1>5

LEMMA MarksAreAll ==
  ASSUME NEW r \in Requests
  PROVE  /\ Marks[r] = Cardinality({p \in DOMAIN Script[r] : Script[r][p] # "text"})
         /\ Marks[r] \in Nat
<1>1. Marks[r] = Cardinality({p \in DOMAIN Script[r] : Script[r][p] # "text"})
  BY DEF Marks
<1>2. {p \in DOMAIN Script[r] : Script[r][p] # "text"} \in SUBSET DOMAIN Script[r]
  OBVIOUS
<1> QED BY <1>1, <1>2, MarksFinite

LEMMA BeforeEnd ==
  ASSUME NEW r \in Requests, NEW i \in Nat, i > Len(Script[r])
  PROVE  Before(r, i) = Marks[r]
<1>1. MarksBefore(r, i) = {p \in DOMAIN Script[r] : Script[r][p] # "text"}
  BY MarksFinite DEF MarksBefore
<1> QED BY <1>1, MarksAreAll DEF Before

\* There is an index to report at a chunk that has one.
LEMMA BeforeMark ==
  ASSUME NEW r \in Requests, NEW i, IsMark(r, i)
  PROVE  Before(r, i) < Marks[r]
<1> DEFINE all == {p \in DOMAIN Script[r] : Script[r][p] # "text"}
<1>1. i \in DOMAIN Script[r] /\ i \in Nat
  BY MarksFinite DEF IsMark
<1>2. MarksBefore(r, i + 1) \subseteq all
  BY DEF MarksBefore
<1>3. IsFiniteSet(all)
  BY MarksFinite
<1>4. Cardinality(MarksBefore(r, i + 1)) <= Cardinality(all)
  BY <1>2, <1>3, FS_Subset
<1>5. Before(r, i + 1) = Before(r, i) + 1
  BY <1>1, BeforeStep
<1>6. Before(r, i) \in Nat
  BY MarksFinite DEF Before, MarksBefore
<1> QED BY <1>4, <1>5, <1>6, MarksAreAll DEF Before

-----------------------------------------------------------------------------
(* The invariant                                                             *)

\* A request that the worker has not begun.
Untouched(r) == told[r] = 0 /\ r \notin done \cup failed \cup late \cup calling

\* What waits was asked for, is new and is not cancelled.
Ordered ==
  /\ \A i \in DOMAIN queue :
       /\ queue[i] \in 1..asked /\ queue[i] # active
       /\ queue[i] \notin cancelled /\ Untouched(queue[i])
  /\ \A i, j \in DOMAIN queue : queue[i] = queue[j] => i = j
  /\ \A r \in Requests : r > asked => Untouched(r) /\ r \notin cancelled
  /\ active # None => active \in 1..asked

\* A callback under way has an index to report, in time or once late.
Owes ==
  \A r \in calling :
    /\ r \notin late /\ told[r] < Marks[r]
    /\ (r = active /\ r \notin done) \/ r \in (done \cap failed) \cup cancelled

Serving ==
  {"item", "speak", "spoken", "sync", "tell", "last", "end", "done", "failed", "failedDone"}
Finishing == {"tidy", "recycle", "warm", "swap", "assign", "start", "clear"}

\* The end of the active request is ahead, and no callback is under way where
\* the worker does not wait for the bridge.
EndAhead ==
  /\ WorkerAt("count") => active \in done \cap failed
  /\ pc[Worker] \in Finishing => active \in done \cup cancelled
  /\ pc[Worker] \in Serving => active \notin done /\ (active \in late => Cancelled(active))
  /\ pc[Worker] \in {"failed", "failedDone"} => active \in failed
  /\ pc[Worker] \in {"item", "spoken", "sync", "tell", "last", "end", "done"} =>
       active \notin calling \/ Cancelled(active)

\* While it is not cancelled, the indexes before the chunk were reported.
AtChunk(r) ==
  /\ WorkerAt("item") => told[r] = Before(r, item)
  /\ pc[Worker] \in {"speak", "spoken"} =>
       /\ item \in DOMAIN Script[r]
       /\ inner \/ r \in calling => IsMark(r, item) /\ told[r] = Before(r, item)
       /\ ~inner /\ r \notin calling => told[r] = Before(r, item + 1)
       /\ inner => r \notin calling
  /\ WorkerAt("sync") => IsMark(r, item) /\ told[r] = Before(r, item)
  /\ pc[Worker] \in {"last", "end"} => told[r] = Marks[r]
InOrder ==
  /\ pc[Worker] \in Serving /\ ~Cancelled(active) => AtChunk(active)
  /\ WorkerAt("tell") =>
       /\ active \notin calling \cup late
       /\ IsMark(active, item) /\ told[active] = Before(active, item)
  /\ WorkerAt("done") => told[active] = Marks[active]

Inv == TypeOK /\ Ordered /\ Owes /\ EndAhead /\ InOrder

\* What a step has to keep, and the step of SpeechService that it is.
Kept == Ordered' /\ Owes' /\ EndAhead' /\ InOrder'
Implements == Service!Next \/ UNCHANGED Service!vars

\* Steps that leave requests and reports alone.
SameRequests ==
  /\ UNCHANGED <<asked, queue, active, told, done, failed, late, calling>>
  /\ cancelled' \cap Requests = cancelled \cap Requests

LEMMA SameOrder ==
  ASSUME Inv, SameRequests
  PROVE  Ordered' /\ Owes' /\ Implements
<1>1. \A r \in Requests : r \in cancelled' <=> r \in cancelled
  BY DEF SameRequests
<1>2. 1..asked \subseteq Requests /\ calling \subseteq Requests
  BY DEF Inv, TypeOK, NvdaTypes, WorkTypes, Requests
<1>3. Ordered'
  BY <1>1, <1>2 DEF Inv, Ordered, SameRequests, Untouched
<1>4. Owes'
  BY <1>1, <1>2 DEF Inv, Owes, SameRequests
<1>5. UNCHANGED Service!vars
  BY DEF SameRequests, Service!vars
<1> QED BY <1>3, <1>4, <1>5 DEF Implements

\* Steps of other threads.
LEMMA SamePlace ==
  ASSUME Inv, SameRequests, UNCHANGED <<item, inner>>, pc'[Worker] = pc[Worker]
  PROVE  Kept /\ Implements
<1>1. pc[Worker] \notin {"loop", "gone"} => (active \in cancelled' <=> active \in cancelled)
  BY DEF Inv, TypeOK, DriverTypes, WorkTypes, SameRequests
<1>2. EndAhead'
  BY <1>1 DEF Inv, EndAhead, SameRequests, WorkerAt, Cancelled, Serving, Finishing
<1>3. InOrder'
  BY <1>1 DEF Inv, InOrder, AtChunk, SameRequests, WorkerAt, Cancelled, Serving
<1> QED BY <1>2, <1>3, SameOrder DEF Kept

\* Steps of the worker after a request.
LEMMA FinishingStep ==
  ASSUME Inv, SameRequests, pc[Worker] \in Finishing \cup {"count"}, pc'[Worker] \in Finishing
  PROVE  Kept /\ Implements
<1>1. active \in Requests /\ (active \in cancelled' <=> active \in cancelled)
  BY DEF Inv, TypeOK, DriverTypes, WorkTypes, SameRequests, Finishing
<1>2. active \in done \cup cancelled
  BY DEF Inv, EndAhead, WorkerAt
<1>3. EndAhead'
  BY <1>1, <1>2 DEF EndAhead, SameRequests, WorkerAt, Serving, Finishing
<1>4. InOrder'
  BY DEF InOrder, WorkerAt, Serving, Finishing
<1> QED BY <1>3, <1>4, SameOrder DEF Kept

\* Steps of the worker inside a request.
LEMMA ServingStep ==
  ASSUME Inv, SameRequests, cancelled' = cancelled, pc[Worker] \in Serving,
         EndAhead', InOrder'
  PROVE  Kept /\ Implements
BY SameOrder DEF Kept

LEMMA ServeKeeps == Inv /\ Serve => Kept /\ Implements
<1> SUFFICES ASSUME Inv, Serve PROVE Kept /\ Implements
  OBVIOUS
<1> USE DEF Goto, WorkerAt, WorkerGoes
<1>t. PlaceTypes /\ WarmTypes /\ WorkTypes /\ DriverTypes /\ NvdaTypes /\ ToldTypes
  BY DEF Inv, TypeOK
<1>a. pc[Worker] \notin {"loop", "gone"} => active \in Requests
  BY <1>t DEF WorkTypes, DriverTypes
<1>1. CASE CountError
  <2>1. SameRequests
    <3>1. UNCHANGED <<asked, queue, active, cancelled, calling>> /\ UNCHANGED toldVars
      BY <1>1 DEF CountError
    <3> QED BY <3>1 DEF SameRequests, toldVars
  <2>2. pc[Worker] \in Finishing \cup {"count"} /\ pc'[Worker] \in Finishing
    BY <1>1, <1>t DEF CountError, PlaceTypes, WarmTypes, Finishing
  <2> QED BY <2>1, <2>2, FinishingStep
<1>2. CASE Tidy
  <2>1. SameRequests
    BY <1>2, <1>t DEF SameRequests, Tidy, driverVars, nvdaVars, toldVars
  <2>2. pc[Worker] \in Finishing \cup {"count"} /\ pc'[Worker] \in Finishing
    BY <1>2, <1>t DEF Tidy, PlaceTypes, WarmTypes, Finishing
  <2> QED BY <2>1, <2>2, FinishingStep
<1>3. CASE Recycle
  <2>1. SameRequests
    BY <1>3, <1>t DEF SameRequests, Recycle, driverVars, nvdaVars, toldVars
  <2>2. pc[Worker] \in Finishing \cup {"count"} /\ pc'[Worker] \in Finishing
    BY <1>3, <1>t DEF Recycle, PlaceTypes, WarmTypes, Finishing
  <2> QED BY <2>1, <2>2, FinishingStep
<1>4. CASE Crash
  <2>1. SameRequests
    BY <1>4, <1>t DEF SameRequests, Crash, driverVars, nvdaVars, toldVars
  <2>2. pc[Worker] \in Finishing \cup {"count"} /\ pc'[Worker] \in Finishing
    BY <1>4, <1>t DEF Crash, PlaceTypes, WarmTypes, Finishing
  <2> QED BY <2>1, <2>2, FinishingStep
<1>5. CASE StartsWarmup(Worker)
  <2>1. SameRequests
    <3>1. cancelled' \cap Requests = cancelled \cap Requests
      BY <1>5, <1>t DEF StartsWarmup, WarmCheck, WarmSwap, WarmAssign, WarmStart, SetWarmEvent, WarmTypes
    <3> QED BY <1>5, <3>1 DEF StartsWarmup, WarmCheck, WarmSwap, WarmAssign, WarmStart,
             SameRequests, driverVars, nvdaVars, toldVars
  <2>2. pc[Worker] \in Finishing /\ pc'[Worker] \in Finishing
    BY <1>5, <1>t DEF StartsWarmup, WarmCheck, WarmSwap, WarmAssign, WarmStart, AfterWarm,
       PlaceTypes, WarmTypes, Finishing
  <2> QED BY <2>1, <2>2, FinishingStep
<1>6. CASE NextItem
  <2>1. SameRequests /\ cancelled' = cancelled
    BY <1>6 DEF SameRequests, NextItem, driverVars, nvdaVars, toldVars
  <2>2. pc[Worker] \in {"item"} /\ active \in Requests
    BY <1>6, <1>a DEF NextItem
  <2>3. /\ item \in DOMAIN Script[active] => Before(active, item + 1) = IF IsMark(active, item)
                THEN Before(active, item) + 1 ELSE Before(active, item)
        /\ item > Len(Script[active]) => Before(active, item) = Marks[active]
        /\ item \in DOMAIN Script[active] => (IsMark(active, item) <=> Script[active][item] # "text")
    BY <1>t, <2>2, BeforeStep, BeforeEnd DEF IsMark, WorkTypes
  <2>8. EndAhead'
    BY <1>6, <1>t, <2>1, <2>2 DEF NextItem, Inv, EndAhead, SameRequests, PlaceTypes, Cancelled, Serving, Finishing
  <2>9. InOrder'
    <3>1. CASE Cancelled(active)
      BY <1>6, <1>t, <3>1 DEF NextItem, InOrder, PlaceTypes, Serving, Cancelled
    <3>2. CASE ~Cancelled(active)
      <4>1. told[active] = Before(active, item) /\ active \notin calling
        BY <1>6, <2>2, <3>2 DEF Inv, InOrder, AtChunk, EndAhead, Serving
      <4>2. AtChunk(active)'
        <5>1. CASE item > Len(Script[active])
          BY <1>6, <1>t, <2>1, <2>3, <3>2, <4>1, <5>1 DEF NextItem, AtChunk, SameRequests, PlaceTypes
        <5>2. CASE item \in DOMAIN Script[active]
          <6>1. /\ inner' = (Script[active][item] = "marked")
                /\ pc'[Worker] \in (IF Script[active][item] = "index" THEN {"sync"} ELSE {"speak", "spoken"})
                /\ UNCHANGED <<item, active, told, calling>>
            BY <1>6, <1>t, <2>1, <2>3, <3>2, <5>2 DEF NextItem, SameRequests, PlaceTypes
          <6>2. Script[active][item] \in {"text", "marked", "index"}
            BY <2>2, <5>2, ScriptIsKnown, ElementOfSeq, MarksFinite
          <6> QED BY <2>3, <4>1, <5>2, <6>1, <6>2 DEF AtChunk
        <5> QED BY <1>6, <3>2, <5>1, <5>2 DEF NextItem
      <4>3. pc'[Worker] \notin {"tell", "done"}
        BY <1>6, <1>t, <3>2 DEF NextItem, PlaceTypes
      <4> QED BY <2>1, <4>2, <4>3 DEF InOrder
    <3> QED BY <3>1, <3>2
  <2> QED BY <2>1, <2>2, <2>8, <2>9, ServingStep DEF Serving
<1>7. CASE Spoken
  <2>1. SameRequests /\ cancelled' = cancelled
    BY <1>7 DEF SameRequests, Spoken, driverVars, nvdaVars, toldVars
  <2>2. pc[Worker] \in {"speak"} /\ active \in Requests
    BY <1>7, <1>a DEF Spoken
  <2>8. EndAhead'
    BY <1>7, <1>t, <2>1, <2>2 DEF Spoken, Inv, EndAhead, SameRequests, PlaceTypes, Cancelled, Serving, Finishing
  <2>9. InOrder'
    BY <1>7, <1>t, <2>1, <2>2 DEF Spoken, Inv, InOrder, AtChunk, EndAhead, SameRequests, PlaceTypes, workVars, Cancelled, Serving
  <2> QED BY <2>1, <2>2, <2>8, <2>9, ServingStep DEF Serving
<1>8. CASE SpeakCancelled
  <2>1. SameRequests /\ cancelled' = cancelled
    BY <1>8 DEF SameRequests, SpeakCancelled, driverVars, nvdaVars, toldVars
  <2>2. pc[Worker] \in {"speak"} /\ active \in Requests
    BY <1>8, <1>a DEF SpeakCancelled
  <2>8. EndAhead'
    BY <1>8, <1>t, <2>1, <2>2 DEF SpeakCancelled, Inv, EndAhead, SameRequests, PlaceTypes, Cancelled, Serving, Finishing
  <2>9. InOrder'
    BY <1>8, <1>t, <2>1, <2>2 DEF SpeakCancelled, Inv, InOrder, AtChunk, EndAhead, SameRequests, PlaceTypes, workVars, Cancelled, Serving
  <2> QED BY <2>1, <2>2, <2>8, <2>9, ServingStep DEF Serving
<1>9. CASE LeftOver
  <2>1. SameRequests /\ cancelled' = cancelled
    BY <1>9 DEF SameRequests, LeftOver, driverVars, nvdaVars, toldVars
  <2>2. pc[Worker] \in {"spoken"} /\ active \in Requests
    BY <1>9, <1>a DEF LeftOver
  <2>8. EndAhead'
    BY <1>9, <1>t, <2>1, <2>2 DEF LeftOver, Inv, EndAhead, SameRequests, PlaceTypes, Cancelled, Serving, Finishing
  <2>9. InOrder'
    BY <1>9, <1>t, <2>1, <2>2 DEF LeftOver, Inv, InOrder, AtChunk, EndAhead, SameRequests, PlaceTypes, workVars, Cancelled, Serving
  <2> QED BY <2>1, <2>2, <2>8, <2>9, ServingStep DEF Serving
<1>10. CASE Synced
  <2>1. SameRequests /\ cancelled' = cancelled
    BY <1>10 DEF SameRequests, Synced, driverVars, nvdaVars, toldVars
  <2>2. pc[Worker] \in {"sync"} /\ active \in Requests
    BY <1>10, <1>a DEF Synced
  <2>3. /\ item \in DOMAIN Script[active] => Before(active, item + 1) = IF IsMark(active, item)
                THEN Before(active, item) + 1 ELSE Before(active, item)
        /\ item > Len(Script[active]) => Before(active, item) = Marks[active]
        /\ item \in DOMAIN Script[active] => (IsMark(active, item) <=> Script[active][item] # "text")
    BY <1>t, <2>2, BeforeStep, BeforeEnd DEF IsMark, WorkTypes
  <2>8. EndAhead'
    BY <1>10, <1>t, <2>1, <2>2 DEF Synced, MayTell, Inv, EndAhead, SameRequests, PlaceTypes, Cancelled, Serving, Finishing
  <2>9. InOrder'
    BY <1>10, <1>t, <2>1, <2>2, <2>3 DEF Synced, MayTell, Inv, InOrder, AtChunk, EndAhead, SameRequests, PlaceTypes, workVars, Cancelled, Serving
  <2> QED BY <2>1, <2>2, <2>8, <2>9, ServingStep DEF Serving
<1>11. CASE PlayOut
  <2>1. SameRequests /\ cancelled' = cancelled
    BY <1>11 DEF SameRequests, PlayOut, driverVars, nvdaVars, toldVars
  <2>2. pc[Worker] \in {"last"} /\ active \in Requests
    BY <1>11, <1>a DEF PlayOut
  <2>8. EndAhead'
    BY <1>11, <1>t, <2>1, <2>2 DEF PlayOut, Inv, EndAhead, SameRequests, PlaceTypes, Cancelled, Serving, Finishing
  <2>9. InOrder'
    BY <1>11, <1>t, <2>1, <2>2 DEF PlayOut, Inv, InOrder, AtChunk, EndAhead, SameRequests, PlaceTypes, workVars, Cancelled, Serving
  <2> QED BY <2>1, <2>2, <2>8, <2>9, ServingStep DEF Serving
<1>12. CASE CheckEnd
  <2>1. SameRequests /\ cancelled' = cancelled
    BY <1>12 DEF SameRequests, CheckEnd, driverVars, nvdaVars, toldVars
  <2>2. pc[Worker] \in {"end"} /\ active \in Requests
    BY <1>12, <1>a DEF CheckEnd
  <2>8. EndAhead'
    BY <1>12, <1>t, <2>1, <2>2 DEF CheckEnd, Inv, EndAhead, SameRequests, PlaceTypes, Cancelled, Serving, Finishing
  <2>9. InOrder'
    BY <1>12, <1>t, <2>1, <2>2 DEF CheckEnd, Inv, InOrder, AtChunk, EndAhead, SameRequests, PlaceTypes, workVars, Cancelled, Serving
  <2> QED BY <2>1, <2>2, <2>8, <2>9, ServingStep DEF Serving
<1>13. CASE Handle
  <2>1. SameRequests /\ cancelled' = cancelled
    BY <1>13 DEF SameRequests, Handle, driverVars, nvdaVars, toldVars
  <2>2. pc[Worker] \in {"failed"} /\ active \in Requests
    BY <1>13, <1>a DEF Handle
  <2>8. EndAhead'
    BY <1>13, <1>t, <2>1, <2>2 DEF Handle, Inv, EndAhead, SameRequests, PlaceTypes, Cancelled, Serving, Finishing
  <2>9. InOrder'
    BY <1>13, <1>t, <2>1, <2>2 DEF Handle, Inv, InOrder, AtChunk, EndAhead, SameRequests, PlaceTypes, workVars, Cancelled, Serving
  <2> QED BY <2>1, <2>2, <2>8, <2>9, ServingStep DEF Serving
<1>14. CASE Take
  <2>1. CASE shutdown
    <3>1. SameRequests /\ pc'[Worker] = "gone" /\ pc[Worker] = "loop"
      BY <1>14, <1>t, <2>1 DEF SameRequests, Take, nvdaVars, toldVars, PlaceTypes
    <3>2. EndAhead' /\ InOrder'
      BY <3>1 DEF EndAhead, InOrder, Serving, Finishing
    <3> QED BY <3>1, <3>2, SameOrder DEF Kept
  <2>2. CASE ~shutdown
    <3>1. /\ active = None /\ queue # <<>> /\ pc'[Worker] = "item" /\ item' = 1
          /\ queue' = Tail(queue) /\ active' = Head(queue)
          /\ UNCHANGED <<asked, told, done, failed, late, calling, cancelled>>
      BY <1>14, <1>t, <2>2 DEF Take, nvdaVars, toldVars, PlaceTypes, WorkTypes
    <3>2. /\ Head(queue) = queue[1] /\ 1 \in DOMAIN queue
          /\ DOMAIN Tail(queue) = 1..(Len(queue) - 1) /\ DOMAIN queue = 1..Len(queue)
          /\ Len(queue) \in Nat
          /\ \A i \in DOMAIN Tail(queue) : Tail(queue)[i] = queue[i + 1]
      BY <1>t, <3>1, HeadTailProperties, LenProperties DEF DriverTypes
    <3>3. active' \in 1..asked /\ Untouched(active') /\ active' \notin cancelled
      BY <3>1, <3>2 DEF Inv, Ordered
    <3>4. Ordered'
      <4>1. \A i \in DOMAIN queue' : i + 1 \in DOMAIN queue /\ queue'[i] = queue[i + 1] /\ i + 1 # 1
        BY <3>1, <3>2
      <4>2. \A i \in DOMAIN queue' :
              /\ queue'[i] \in 1..asked /\ queue'[i] # active'
              /\ queue'[i] \notin cancelled /\ Untouched(queue'[i])
        BY <3>1, <3>2, <4>1 DEF Inv, Ordered
      <4>3. \A i, j \in DOMAIN queue' : queue'[i] = queue'[j] => i = j
        BY <3>1, <3>2, <4>1 DEF Inv, Ordered
      <4> QED BY <3>1, <3>3, <4>2, <4>3 DEF Inv, Ordered, Untouched
    <3>5. Owes'
      BY <1>t, <3>1 DEF Inv, Owes, WorkTypes, Requests
    <3>6. active' \in Requests
      BY <1>t, <3>3 DEF NvdaTypes, Requests
    <3>7. EndAhead'
      BY <3>1, <3>3 DEF EndAhead, Untouched, Serving, Finishing, Cancelled
    <3>8. InOrder'
      <4>1. told[active'] = Before(active', 1)
        BY <3>3, <3>6, BeforeStart DEF Untouched
      <4> QED BY <3>1, <4>1 DEF InOrder, AtChunk
    <3>9. Service!Start
      BY <3>1 DEF Service!Start
    <3> QED BY <3>4, <3>5, <3>7, <3>8, <3>9 DEF Kept, Implements, Service!Next
  <2> QED BY <2>1, <2>2
<1>15. CASE Raise
  <2>1. /\ pc[Worker] \in {"item", "speak", "spoken", "sync", "last"} /\ pc'[Worker] = "failed"
        /\ failed' = failed \cup {active}
        /\ UNCHANGED <<asked, queue, active, told, done, late, calling, cancelled>>
    BY <1>15, <1>t DEF Raise, driverVars, nvdaVars, PlaceTypes
  <2>2. active \in Requests /\ active \notin done
    BY <1>a, <2>1 DEF Inv, EndAhead, Serving
  <2>3. Ordered'
    <3>1. \A r \in Requests \ {active} : Untouched(r) => Untouched(r)'
      BY <2>1 DEF Untouched
    <3>2. 1..asked \subseteq Requests /\ \A r \in Requests : r > asked => r # active
      BY <1>t, <2>2 DEF Inv, Ordered, NvdaTypes, Requests
    <3> QED BY <2>1, <3>1, <3>2 DEF Inv, Ordered
  <2>4. Owes'
    BY <2>1 DEF Inv, Owes
  <2>5. EndAhead' /\ InOrder'
    BY <2>1, <2>2 DEF Inv, EndAhead, InOrder, AtChunk, Serving, Finishing, Cancelled
  <2>6. Service!Fail
    BY <2>1, <2>2 DEF Service!Fail, Requests
  <2> QED BY <2>3, <2>4, <2>5, <2>6 DEF Kept, Implements, Service!Next
<1>16. CASE TellIndex
  <2>1. /\ pc[Worker] = "tell" /\ pc'[Worker] = "item" /\ item' = item + 1
        /\ told' = [told EXCEPT ![active] = @ + 1]
        /\ late' = IF active \in done \cup cancelled THEN late \cup {active} ELSE late
        /\ UNCHANGED <<asked, queue, active, done, failed, calling, cancelled>>
    BY <1>16, <1>t DEF TellIndex, Tell, driverVars, nvdaVars, PlaceTypes
  <2>2. /\ active \in Requests /\ active \notin done \cup calling \cup late
        /\ IsMark(active, item) /\ told[active] = Before(active, item)
    BY <1>a, <2>1 DEF Inv, EndAhead, InOrder, Serving
  <2>3. told[active] < Marks[active]
    BY <2>2, BeforeMark
  <2>4. told'[active] = told[active] + 1 /\ \A r \in Requests \ {active} : told'[r] = told[r]
    BY <1>t, <2>1, <2>2 DEF ToldTypes
  <2>5. Ordered'
    <3>1. \A r \in Requests \ {active} : Untouched(r) => Untouched(r)'
      BY <2>1, <2>4 DEF Untouched
    <3>2. 1..asked \subseteq Requests /\ \A r \in Requests : r > asked => r # active
      BY <1>t, <2>2 DEF Inv, Ordered, NvdaTypes, Requests
    <3> QED BY <2>1, <3>1, <3>2 DEF Inv, Ordered
  <2>6. Owes'
    BY <1>t, <2>1, <2>2, <2>4 DEF Inv, Owes, WorkTypes
  <2>7. EndAhead'
    BY <2>1, <2>2 DEF EndAhead, Serving, Finishing, Cancelled
  <2>8. InOrder'
    <3>1. Before(active, item + 1) = Before(active, item) + 1
      BY <2>2, BeforeStep DEF IsMark
    <3> QED BY <2>1, <2>2, <2>4, <3>1 DEF InOrder, AtChunk
  <2>9. Service!Tell(active)
    BY <1>t, <2>1, <2>2, <2>3 DEF Service!Tell
  <2> QED BY <2>2, <2>5, <2>6, <2>7, <2>8, <2>9 DEF Kept, Implements, Service!Next, Service!Requests, Requests
<1>17. CASE Done \/ FailedDone
  <2>1. /\ \/ pc[Worker] = "done" /\ pc'[Worker] = "tidy"
           \/ pc[Worker] = "failedDone" /\ pc'[Worker] = "count"
        /\ done' = done \cup {active}
        /\ UNCHANGED <<asked, queue, active, told, failed, late, calling, cancelled>>
    BY <1>17, <1>t DEF Done, FailedDone, driverVars, nvdaVars, PlaceTypes
  <2>2. /\ active \in Requests /\ active \notin done
        /\ pc[Worker] = "done" => told[active] = Marks[active] /\ (active \notin calling \/ active \in cancelled)
        /\ pc[Worker] = "failedDone" => active \in failed
    BY <1>a, <2>1 DEF Inv, EndAhead, InOrder, Serving, Cancelled
  <2>3. Ordered'
    <3>1. \A r \in Requests \ {active} : Untouched(r) => Untouched(r)'
      BY <2>1 DEF Untouched
    <3>2. 1..asked \subseteq Requests /\ \A r \in Requests : r > asked => r # active
      BY <1>t, <2>2 DEF Inv, Ordered, NvdaTypes, Requests
    <3> QED BY <2>1, <3>1, <3>2 DEF Inv, Ordered
  <2>4. Owes'
    BY <2>1, <2>2 DEF Inv, Owes
  <2>5. EndAhead' /\ InOrder'
    BY <2>1, <2>2 DEF EndAhead, InOrder, Serving, Finishing, Cancelled
  <2>6. Service!Finish
    BY <2>1, <2>2 DEF Service!Finish
  <2> QED BY <2>3, <2>4, <2>5, <2>6 DEF Kept, Implements, Service!Next
<1>18. CASE Clear
  <2>1. /\ pc[Worker] = "clear" /\ pc'[Worker] = "loop" /\ active' = None
        /\ UNCHANGED <<asked, queue, told, done, failed, late, calling, cancelled>>
    BY <1>18, <1>t DEF Clear, nvdaVars, toldVars, PlaceTypes
  <2>2. active \in Requests /\ active \in done \cup cancelled
    BY <1>a, <2>1 DEF Inv, EndAhead, Finishing
  <2>3. Ordered'
    <3>1. \A i \in DOMAIN queue : queue[i] \in Requests /\ queue[i] # None
      BY <1>t DEF Inv, Ordered, NvdaTypes, Requests
    <3> QED BY <2>1, <3>1 DEF Inv, Ordered, Untouched
  <2>4. Owes'
    BY <2>1, <2>2 DEF Inv, Owes
  <2>5. EndAhead' /\ InOrder'
    BY <2>1 DEF EndAhead, InOrder, Serving, Finishing
  <2>6. Service!Leave
    BY <2>1, <2>2 DEF Service!Leave
  <2> QED BY <2>3, <2>4, <2>5, <2>6 DEF Kept, Implements, Service!Next
<1> QED
  BY <1>1, <1>2, <1>3, <1>4, <1>5, <1>6, <1>7, <1>8, <1>9, <1>10, <1>11, <1>12, <1>13, <1>14, <1>15, <1>16, <1>17, <1>18 DEF Serve

\* cancel, give up and terminate: whatever waits or is served is withdrawn.
LEMMA CancelKeeps ==
  ASSUME Inv, NEW after, CancelRequests(after), pc'[Worker] = pc[Worker],
         UNCHANGED <<asked, active, calling, item, inner, told, done, failed, late>>
  PROVE  Kept /\ Implements
<1>1. /\ queue' = <<>> /\ cancelled' = cancelled \cup Withdrawn
      /\ DOMAIN queue' = {}
  BY DEF CancelRequests
<1>2. /\ Withdrawn \subseteq Requests
      /\ \A r \in Withdrawn : r \in 1..asked
      /\ active # None => active \in Withdrawn
  <2>1. \A i \in DOMAIN queue : queue[i] \in 1..asked
    BY DEF Inv, Ordered
  <2>2. active # None => active \in 1..asked
    BY DEF Inv, Ordered
  <2> QED BY <2>1, <2>2 DEF Inv, TypeOK, NvdaTypes, Withdrawn, Queued, Requests
<1>3. Ordered'
  <2>1. asked \in Nat
    BY DEF Inv, TypeOK, NvdaTypes
  <2>2. \A r \in Requests : r > asked => r \notin Withdrawn
    BY <1>2, <2>1 DEF Requests
  <2> QED BY <1>1, <2>2 DEF Inv, Ordered, Untouched
<1>4. Owes'
  BY <1>1 DEF Inv, Owes
<1>5. pc[Worker] \notin {"loop", "gone"} => active \in cancelled'
  BY <1>1, <1>2 DEF Inv, TypeOK, WorkTypes
<1>6. EndAhead'
  BY <1>1, <1>5 DEF Inv, EndAhead, WorkerAt, Serving, Finishing, Cancelled
<1>7. InOrder'
  BY <1>5 DEF Inv, InOrder, WorkerAt, Serving, Cancelled
<1>8. Service!Withdraw
  <2>1. cancelled' \cap Requests = (cancelled \cap Requests) \cup Withdrawn
    BY <1>1, <1>2
  <2> QED BY <1>1, <2>1 DEF Service!Withdraw, Withdrawn, Queued
<1> QED BY <1>3, <1>4, <1>6, <1>7, <1>8 DEF Kept, Implements, Service!Next

LEMMA MainKeeps == Inv /\ (Continue \/ Ask) => Kept /\ Implements
<1> SUFFICES ASSUME Inv, Continue \/ Ask PROVE Kept /\ Implements
  OBVIOUS
<1> USE DEF Goto, MainAt, MainGoes
<1>t. PlaceTypes /\ WarmTypes /\ WorkTypes /\ DriverTypes /\ NvdaTypes /\ ToldTypes
  BY DEF Inv, TypeOK
<1>1. CASE Enqueue
  <2>1. CASE shutdown
    <3>1. SameRequests /\ UNCHANGED <<item, inner>> /\ pc'[Worker] = pc[Worker]
      BY <1>1, <1>t, <2>1 DEF Enqueue, SameRequests, workVars, toldVars, PlaceTypes
    <3> QED BY <3>1, SamePlace
  <2>2. CASE ~shutdown
    <3>1. /\ asked' = asked + 1 /\ queue' = Append(queue, asked + 1) /\ pc'[Worker] = pc[Worker]
          /\ UNCHANGED <<active, cancelled, calling, item, inner, told, done, failed, late>>
      BY <1>1, <1>t, <2>2 DEF Enqueue, workVars, toldVars, PlaceTypes
    <3>2. asked < MaxRequests /\ asked \in Nat /\ asked + 1 \in Requests
      BY <1>1, <1>t DEF Enqueue, NvdaTypes, Requests
    <3>3. Untouched(asked + 1) /\ asked + 1 \notin cancelled /\ active # asked + 1
      BY <1>t, <3>2 DEF Inv, Ordered, DriverTypes
    <3>4. /\ DOMAIN queue = 1..Len(queue) /\ Len(queue) \in Nat
          /\ DOMAIN queue' = 1..(Len(queue) + 1)
          /\ \A i \in DOMAIN queue : queue'[i] = queue[i]
          /\ queue'[Len(queue) + 1] = asked + 1
      BY <1>t, <3>1, <3>2, AppendProperties, LenProperties DEF DriverTypes
    <3>5. \A i \in DOMAIN queue' : i \in DOMAIN queue \/ i = Len(queue) + 1
      BY <3>4
    <3>6. \A i \in DOMAIN queue :
            queue[i] \in 1..(asked + 1) /\ queue[i] # asked + 1 /\ queue[i] # active
            /\ queue[i] \notin cancelled /\ Untouched(queue[i])
      BY <3>2 DEF Inv, Ordered
    <3>7. \A i, j \in DOMAIN queue' : queue'[i] = queue'[j] => i = j
      BY <3>4, <3>5, <3>6 DEF Inv, Ordered
    <3>8. \A i \in DOMAIN queue' :
            queue'[i] \in 1..(asked + 1) /\ queue'[i] # active
            /\ queue'[i] \notin cancelled /\ Untouched(queue'[i])
      BY <3>2, <3>3, <3>4, <3>5, <3>6
    <3>9. \A r \in Requests : r > asked + 1 => Untouched(r) /\ r \notin cancelled
      BY <3>2 DEF Inv, Ordered, Requests
    <3>10. active # None => active \in 1..(asked + 1)
      BY <3>2 DEF Inv, Ordered
    <3>11. Ordered'
      BY <3>1, <3>7, <3>8, <3>9, <3>10 DEF Ordered, Untouched
    <3>12. Owes' /\ EndAhead' /\ InOrder'
      BY <3>1 DEF Inv, Owes, EndAhead, InOrder, AtChunk, WorkerAt, Cancelled, Serving, Finishing
    <3>13. Service!Accept
      BY <3>1, <3>2 DEF Service!Accept
    <3> QED BY <3>11, <3>12, <3>13 DEF Kept, Implements, Service!Next
  <2> QED BY <2>1, <2>2
<1>2. CASE Cancel \/ GiveUp \/ CancelAll
  <2>1. \E after \in {"cancel", "switch", "terminate"} : CancelRequests(after)
    BY <1>2 DEF Cancel, GiveUp, CancelAll
  <2>2. /\ pc'[Worker] = pc[Worker]
        /\ UNCHANGED <<asked, active, calling, item, inner, told, done, failed, late>>
    BY <1>2, <1>t DEF Cancel, GiveUp, CancelAll, CancelRequests, workVars, nvdaVars, toldVars,
       PlaceTypes
  <2> QED BY <2>1, <2>2, CancelKeeps
<1>3. CASE Fallback
  <2>1. CASE MayPost
    <3>1. /\ queue' = <<>> /\ pc'[Worker] = pc[Worker] /\ DOMAIN queue' = {}
          /\ UNCHANGED <<asked, active, cancelled, calling, item, inner, told, done, failed, late>>
      BY <1>3, <1>t, <2>1 DEF Fallback, workVars, toldVars, PlaceTypes
    <3>2. Ordered'
      BY <3>1 DEF Inv, Ordered, Untouched
    <3>3. Owes' /\ EndAhead' /\ InOrder'
      BY <3>1 DEF Inv, Owes, EndAhead, InOrder, AtChunk, WorkerAt, Cancelled, Serving, Finishing
    <3>4. Service!Drop
      BY <3>1 DEF Service!Drop
    <3> QED BY <3>2, <3>3, <3>4 DEF Kept, Implements, Service!Next
  <2>2. CASE ~MayPost
    <3>1. SameRequests /\ UNCHANGED <<item, inner>> /\ pc'[Worker] = pc[Worker]
      BY <1>3, <2>2 DEF Fallback, SameRequests, workVars, toldVars
    <3> QED BY <3>1, SamePlace
  <2> QED BY <2>1, <2>2
<1>4. CASE Speak
  <2>1. SameRequests /\ UNCHANGED <<item, inner>> /\ pc'[Worker] = pc[Worker]
    BY <1>4, <1>t DEF Speak, SameRequests, driverVars, nvdaVars, SetWarmEvent, workVars, toldVars, PlaceTypes, WarmTypes
  <2> QED BY <2>1, SamePlace
<1>5. CASE SetVoice
  <2>1. SameRequests /\ UNCHANGED <<item, inner>> /\ pc'[Worker] = pc[Worker]
    BY <1>5, <1>t DEF SetVoice, SameRequests, driverVars, workVars, toldVars, PlaceTypes, WarmTypes
  <2> QED BY <2>1, SamePlace
<1>6. CASE Terminate
  <2>1. SameRequests /\ UNCHANGED <<item, inner>> /\ pc'[Worker] = pc[Worker]
    BY <1>6, <1>t DEF Terminate, SameRequests, driverVars, nvdaVars, SetWarmEvent, workVars, toldVars, PlaceTypes, WarmTypes
  <2> QED BY <2>1, SamePlace
<1>7. CASE Stopped
  <2>1. SameRequests /\ UNCHANGED <<item, inner>> /\ pc'[Worker] = pc[Worker]
    BY <1>7, <1>t DEF Stopped, SameRequests, nvdaVars, SetWarmEvent, workVars, toldVars, PlaceTypes, WarmTypes
  <2> QED BY <2>1, SamePlace
<1>8. CASE CheckBridge
  <2>1. SameRequests /\ UNCHANGED <<item, inner>> /\ pc'[Worker] = pc[Worker]
    BY <1>8, <1>t DEF CheckBridge, SameRequests, driverVars, nvdaVars, workVars, toldVars, PlaceTypes, WarmTypes
  <2> QED BY <2>1, SamePlace
<1>9. CASE CheckQueue
  <2>1. SameRequests /\ UNCHANGED <<item, inner>> /\ pc'[Worker] = pc[Worker]
    BY <1>9, <1>t DEF CheckQueue, SameRequests, driverVars, nvdaVars, workVars, toldVars, PlaceTypes, WarmTypes
  <2> QED BY <2>1, SamePlace
<1>10. CASE Release
  <2>1. SameRequests /\ UNCHANGED <<item, inner>> /\ pc'[Worker] = pc[Worker]
    BY <1>10, <1>t DEF Release, SameRequests, driverVars, nvdaVars, workVars, toldVars, PlaceTypes, WarmTypes
  <2> QED BY <2>1, SamePlace
<1>11. CASE EndBridge
  <2>1. SameRequests /\ UNCHANGED <<item, inner>> /\ pc'[Worker] = pc[Worker]
    BY <1>11, <1>t DEF EndBridge, SameRequests, driverVars, nvdaVars, workVars, toldVars, PlaceTypes, WarmTypes
  <2> QED BY <2>1, SamePlace
<1>12. CASE StartsWarmup(Main)
  <2>1. SameRequests
    <3>1. cancelled' \cap Requests = cancelled \cap Requests
      BY <1>12, <1>t DEF StartsWarmup, WarmCheck, WarmSwap, WarmAssign, WarmStart, SetWarmEvent, WarmTypes
    <3> QED BY <1>12, <3>1 DEF StartsWarmup, WarmCheck, WarmSwap, WarmAssign, WarmStart,
             SameRequests, driverVars, nvdaVars, toldVars
  <2>2. UNCHANGED <<item, inner>> /\ pc'[Worker] = pc[Worker]
    BY <1>12, <1>t DEF StartsWarmup, WarmCheck, WarmSwap, WarmAssign, WarmStart, workVars,
       PlaceTypes, WarmTypes
  <2> QED BY <2>1, <2>2, SamePlace
<1> QED
  BY <1>1, <1>2, <1>3, <1>4, <1>5, <1>6, <1>7, <1>8, <1>9, <1>10, <1>11, <1>12 DEF Continue, Ask

\* The reader thread, the warm-up threads and the bridge.
LEMMA OthersKeep ==
  ASSUME Inv,
         \/ Callback \/ \E w \in Warmers : WarmUp(w)
         \/ \E t \in Threads : BrowserStarts(t) \/ PageReady(t)
         \/ \E r \in Requests : CallbackTells(r)
  PROVE  Kept /\ Implements
<1> USE DEF Goto, WorkerAt
<1>t. PlaceTypes /\ WorkTypes /\ DriverTypes /\ ToldTypes
  BY DEF Inv, TypeOK
<1>1. CASE Callback
  <2>1. /\ pc[Worker] = "speak" /\ pc'[Worker] = "speak" /\ inner /\ active \notin cancelled
        /\ inner' = FALSE /\ calling' = calling \cup {active}
        /\ UNCHANGED <<asked, queue, active, cancelled, item, told, done, failed, late>>
    BY <1>1 DEF Callback, driverVars, nvdaVars, toldVars, Cancelled
  <2>2. /\ active \in Requests /\ active \notin done \cup late
        /\ item \in DOMAIN Script[active]
        /\ IsMark(active, item) /\ told[active] = Before(active, item)
    BY <1>t, <2>1 DEF Inv, EndAhead, InOrder, AtChunk, WorkTypes, DriverTypes, Serving, Cancelled
  <2>3. told[active] < Marks[active]
    BY <2>2, BeforeMark
  <2>4. Ordered'
    <3>1. \A r \in Requests \ {active} : Untouched(r) => Untouched(r)'
      BY <2>1 DEF Untouched
    <3>2. 1..asked \subseteq Requests /\ \A r \in Requests : r > asked => r # active
      BY <2>2 DEF Inv, TypeOK, Ordered, NvdaTypes, Requests
    <3> QED BY <2>1, <3>1, <3>2 DEF Inv, Ordered
  <2>5. Owes'
    BY <2>1, <2>2, <2>3 DEF Inv, Owes
  <2>6. EndAhead' /\ InOrder'
    BY <2>1, <2>2 DEF EndAhead, InOrder, AtChunk, Serving, Finishing, Cancelled
  <2>7. UNCHANGED Service!vars
    BY <2>1 DEF Service!vars
  <2> QED BY <2>4, <2>5, <2>6, <2>7 DEF Kept, Implements
<1>2. ASSUME NEW r \in Requests, CallbackTells(r) PROVE Kept /\ Implements
  <2>1. /\ r \in calling /\ calling' = calling \ {r}
        /\ told' = [told EXCEPT ![r] = @ + 1]
        /\ late' = IF r \in done \cup cancelled THEN late \cup {r} ELSE late
        /\ UNCHANGED <<asked, queue, active, cancelled, done, failed, item, inner, pc>>
    BY <1>2 DEF CallbackTells, Tell, driverVars, workVars, nvdaVars
  <2>2. /\ r \notin late /\ told[r] < Marks[r]
        /\ (r = active /\ r \notin done) \/ r \in (done \cap failed) \cup cancelled
    BY <2>1 DEF Inv, Owes
  <2>3. /\ told[r] \in Nat /\ told'[r] = told[r] + 1
        /\ \A s \in Requests \ {r} : told'[s] = told[s]
    BY <1>t, <2>1 DEF ToldTypes
  <2>4. Ordered'
    <3>1. \A s \in Requests : Untouched(s) => Untouched(s)'
      BY <2>1, <2>3 DEF Untouched
    <3>2. 1..asked \subseteq Requests
      BY DEF Inv, TypeOK, NvdaTypes, Requests
    <3> QED BY <2>1, <3>1, <3>2 DEF Inv, Ordered
  <2>5. Owes'
    BY <1>t, <2>1, <2>3 DEF Inv, Owes, WorkTypes
  <2>6. EndAhead'
    BY <2>1 DEF Inv, EndAhead, Serving, Finishing, Cancelled
  <2>7. InOrder'
    <3>1. CASE r # active
      <4>1. pc[Worker] \in Serving => active \in Requests /\ told'[active] = told[active]
                                    /\ (active \in late' <=> active \in late)
                                    /\ (active \in calling' <=> active \in calling)
        BY <1>t, <2>1, <2>3, <3>1 DEF WorkTypes, DriverTypes, Serving
      <4> QED BY <2>1, <4>1 DEF Inv, InOrder, AtChunk, Serving, Cancelled
    <3>2. CASE r = active
      <4>1. pc[Worker] # "tell"
        BY <2>1, <3>2 DEF Inv, InOrder
      <4>2. pc[Worker] # "done"
        <5>1. told[active] < Marks[active] /\ told[active] \in Nat /\ Marks[active] \in Nat
          BY <2>2, <2>3, <3>2, MarksAreAll
        <5> QED BY <5>1 DEF Inv, InOrder
      <4>3. pc[Worker] \in Serving /\ active \notin cancelled => AtChunk(active)'
        <5> SUFFICES ASSUME pc[Worker] \in Serving, active \notin cancelled PROVE AtChunk(active)'
          OBVIOUS
        <5>1. pc[Worker] \in {"speak", "failed", "failedDone"}
          BY <2>1, <3>2, <4>1 DEF Inv, EndAhead, Serving, Cancelled
        <5>2. CASE pc[Worker] = "speak"
          <6>1. /\ item \in DOMAIN Script[active] /\ IsMark(active, item) /\ ~inner
                /\ told[active] = Before(active, item)
            BY <2>1, <3>2, <5>2 DEF Inv, InOrder, AtChunk, Serving, Cancelled
          <6>2. Before(active, item + 1) = Before(active, item) + 1
            BY <3>2, <6>1, BeforeStep
          <6> QED BY <2>1, <2>3, <3>2, <5>2, <6>1, <6>2 DEF AtChunk
        <5>3. CASE pc[Worker] \in {"failed", "failedDone"}
          BY <2>1, <5>3 DEF AtChunk
        <5> QED BY <5>1, <5>2, <5>3
      <4> QED BY <2>1, <4>1, <4>2, <4>3 DEF InOrder, Cancelled
    <3> QED BY <3>1, <3>2
  <2>8. Service!Tell(r)
    BY <2>1, <2>2 DEF Service!Tell
  <2> QED BY <2>4, <2>5, <2>6, <2>7, <2>8 DEF Kept, Implements, Service!Next, Service!Requests, Requests
<1>3. ASSUME NEW w \in Warmers, WarmUp(w) PROVE Kept /\ Implements
  <2>1. SameRequests /\ UNCHANGED <<item, inner>> /\ pc'[Worker] = pc[Worker]
    BY <1>3, <1>t DEF WarmUp, WarmDelay, WarmConnect, WarmReady, WarmPreload, SameRequests,
       driverVars, workVars, nvdaVars, toldVars, PlaceTypes
  <2> QED BY <2>1, SamePlace
<1>4. ASSUME NEW t \in Threads, BrowserStarts(t) \/ PageReady(t) PROVE Kept /\ Implements
  <2>1. SameRequests /\ UNCHANGED <<item, inner>> /\ pc'[Worker] = pc[Worker]
    BY <1>4 DEF BrowserStarts, PageReady, SameRequests, driverVars, workVars, nvdaVars, toldVars
  <2> QED BY <2>1, SamePlace
<1> QED BY <1>1, <1>2, <1>3, <1>4

LEMMA RequestsKept == Inv /\ [Next]_vars => Kept /\ Implements
<1> SUFFICES ASSUME Inv, [Next]_vars PROVE Kept /\ Implements
  OBVIOUS
<1>1. CASE UNCHANGED vars
  <2>1. SameRequests /\ UNCHANGED <<item, inner>> /\ pc'[Worker] = pc[Worker]
    BY <1>1 DEF vars, SameRequests, driverVars, workVars, nvdaVars, toldVars
  <2> QED BY <2>1, SamePlace
<1>2. CASE Serve
  BY <1>2, ServeKeeps
<1>3. CASE Continue \/ Ask
  BY <1>3, MainKeeps
<1>4. CASE \/ Callback \/ \E w \in Warmers : WarmUp(w)
           \/ \E t \in Threads : BrowserStarts(t) \/ PageReady(t)
           \/ \E r \in Requests : CallbackTells(r)
  BY <1>4, OthersKeep
<1> QED BY <1>1, <1>2, <1>3, <1>4 DEF Next

LEMMA InvHolds == Spec => []Inv
<1>1. Init => Ordered /\ Owes /\ EndAhead /\ InOrder
  BY DEF Init, Ordered, Owes, EndAhead, InOrder, Untouched, WorkerAt, Serving, Finishing
<1>2. Inv /\ TypeOK' /\ [Next]_vars => Inv'
  BY RequestsKept DEF Inv, Kept
<1>3. Init /\ TypeOK => Inv
  BY <1>1 DEF Inv
<1> QED BY <1>2, <1>3, TypeCorrect, PTL DEF Spec

\* With any interleaving of NVDA's calls, the worker, the warm-ups and the
\* callbacks of the reader thread, the driver keeps the promises of
\* SpeechService: requests in the order of speak, indexes in order and each
\* once, one end, and at most one index after an end or a cancel.
THEOREM KeepsPromises == Spec => Promises
<1>1. Init => Service!Init
  BY DEF Init, Service!Init, Service!Requests, Requests
<1>2. Inv /\ [Next]_vars => [Service!Next]_(Service!vars)
  BY RequestsKept DEF Implements
<1> QED BY <1>1, <1>2, InvHolds, PTL DEF Spec, Promises, Service!Spec
=============================================================================
