------------------------- MODULE HostLifecycleProofs -------------------------
(***************************************************************************)
(* Proofs about the life cycle of the binary, for any set of devices and   *)
(* any bounds: the wait group counts what owes it a Done, shutdown posts   *)
(* its final list when both loops have ended, and what is proved of one    *)
(* life of the watcher holds through signals, crashes and restarts.        *)
(***************************************************************************)
EXTENDS HostLifecycle, DeviceWatcherProofs

\* Watch is started by main, and launchTunnel by Watch, once per process.
StartInv ==
    /\ mainPc \in {"init", "sync", "watcher"} => watchGo = "none"
    /\ watchGo \in {"none", "tunnel"} => tunnelGo = "none"

\* The listener closes stopChan first, and nobody opens it again.
StopInv == listenerPc # "wait" => stopChan = "closed"

\* After a clean final post nothing but empty lists is on its way.
CleanInv ==
    cleared = "clean" =>
        /\ listenerPc \in {"killTunnel", "done"}
        /\ late \subseteq {Empty}
        /\ \A d \in Device, s \in Status : flight[<<d, s>>] = 0
        /\ view = ListView(Empty)

-----------------------------------------------------------------------------
(* What a step of each loop does to its own place, and leaves alone.       *)

WatchMoves ==
    /\ watchPc \in {"check", "ios", "android", "diff"}
    /\ watchPc' \in {"check", "ios", "android", "diff", "done"}
    /\ watchPc = "check" /\ stopChan = "closed" => watchPc' = "done"
    /\ watchPc = "diff" \/ flight' = flight
    /\ UNCHANGED <<keepPc, kaList, stopChan, late, view>>

LEMMA WatchDevicesMoves == WatchDevices => WatchMoves
<1> USE DEF WatchMoves, keepVars, wireVars
<1>1. ASSUME WatchStop
      PROVE  WatchMoves
  BY <1>1 DEF WatchStop
<1>2. ASSUME NEW ok \in BOOLEAN, WatchBegin(ok)
      PROVE  WatchMoves
  BY <1>2 DEF WatchBegin
<1>3. ASSUME NEW ok \in BOOLEAN, ScanIos(ok)
      PROVE  WatchMoves
  BY <1>3 DEF ScanIos
<1>4. ASSUME NEW ok \in BOOLEAN, ScanAndroid(ok)
      PROVE  WatchMoves
  BY <1>4 DEF ScanAndroid
<1>5. ASSUME NEW d \in Device, Compare(d)
      PROVE  WatchMoves
  BY <1>5 DEF Compare
<1>6. ASSUME Publish
      PROVE  WatchMoves
  BY <1>6 DEF Publish
<1>7. QED
  BY <1>1, <1>2, <1>3, <1>4, <1>5, <1>6 DEF WatchDevices

KeepMoves ==
    /\ keepPc \in {"check", "sleep", "post"}
    /\ keepPc' \in {"check", "sleep", "post", "done"}
    /\ keepPc = "check" /\ stopChan = "closed" => keepPc' = "done"
    /\ keepPc = "post" \/ UNCHANGED <<late, view>>
    /\ UNCHANGED <<watchPc, stopChan, flight>>

LEMMA KeepAliveMoves == KeepAlive => KeepMoves
<1> USE DEF KeepMoves, watchVars, wireVars, EndSync
<1>1. ASSUME KeepAliveCheck
      PROVE  KeepMoves
  BY <1>1 DEF KeepAliveCheck
<1>2. ASSUME KeepAliveSnapshot
      PROVE  KeepMoves
  BY <1>2 DEF KeepAliveSnapshot
<1>3. ASSUME KeepAlivePost
      PROVE  KeepMoves
  BY <1>3 DEF KeepAlivePost
<1>4. ASSUME KeepAliveNoTunnel
      PROVE  KeepMoves
  BY <1>4 DEF KeepAliveNoTunnel
<1>5. ASSUME KeepAlivePostFails
      PROVE  KeepMoves
  BY <1>5 DEF KeepAlivePostFails
<1>6. QED
  BY <1>1, <1>2, <1>3, <1>4, <1>5 DEF KeepAlive

\* The environment moves neither loop and does not touch stopChan.
EnvironmentMoves == UNCHANGED <<watchPc, keepPc, kaList, stopChan>>

LEMMA EnvironmentStays == Environment => EnvironmentMoves
<1> USE DEF EnvironmentMoves, watchVars, keepVars
<1>1. ASSUME NEW d \in Device, NEW s \in Seen, HardwareChange(d, s)
      PROVE  EnvironmentMoves
  BY <1>1 DEF HardwareChange
<1>2. ASSUME NEW d \in Device, NEW s \in Status, ApplySync(d, s)
      PROVE  EnvironmentMoves
  BY <1>2 DEF ApplySync
<1>3. ASSUME NEW d \in Device, NEW s \in Status, LoseSync(d, s)
      PROVE  EnvironmentMoves
  BY <1>3 DEF LoseSync
<1>4. ASSUME NEW l \in late, ApplyLate(l)
      PROVE  EnvironmentMoves
  BY <1>4 DEF ApplyLate
<1>5. QED
  BY <1>1, <1>2, <1>3, <1>4 DEF Environment

-----------------------------------------------------------------------------
(* The wait group.                                                         *)

GroupInv == StartInv /\ WaitGroupBalanced

\* The goroutines the wait group counts, and what WaitGroupBalanced reads.
GroupFrame == UNCHANGED <<mainPc, watchGo, tunnelGo, watchPc, keepPc, wg>>

LEMMA GroupUnchanged == GroupInv /\ GroupFrame => GroupInv'
  BY DEF GroupInv, GroupFrame, StartInv, WaitGroupBalanced, One

LEMMA GroupMain == GroupInv /\ Main => GroupInv'
<1> SUFFICES ASSUME GroupInv, Main
             PROVE  GroupInv'
  OBVIOUS
<1> USE DEF GroupInv, StartInv, WaitGroupBalanced, One, vars, watchVars, keepVars, goVars, mainVars
<1>1. CASE InitializeServices
  BY <1>1 DEF InitializeServices
<1>2. CASE MainSync
  BY <1>2 DEF MainSync
<1>3. CASE StartDeviceWatcher
  BY <1>3 DEF StartDeviceWatcher
<1>4. CASE StartServer
  BY <1>4 DEF StartServer
<1>5. CASE MainExits
  BY <1>5 DEF MainExits
<1>6. QED
  BY <1>1, <1>2, <1>3, <1>4, <1>5 DEF Main

LEMMA GroupWatch == GroupInv /\ (Watch \/ LaunchTunnelReturns) => GroupInv'
<1> SUFFICES ASSUME GroupInv, Watch \/ LaunchTunnelReturns
             PROVE  GroupInv'
  OBVIOUS
<1> USE DEF GroupInv, StartInv, WaitGroupBalanced, One, vars, watchVars, keepVars, mainVars
<1>1. CASE WatchLaunchesTunnel
  BY <1>1 DEF WatchLaunchesTunnel
<1>2. CASE WatchStartsDevices
  BY <1>2 DEF WatchStartsDevices, GoWatchDevices
<1>3. CASE WatchRunsKeepAlive
  BY <1>3 DEF WatchRunsKeepAlive, RunKeepAlive
<1>4. CASE WatchReturns
  BY <1>4 DEF WatchReturns
<1>5. CASE LaunchTunnelReturns
  BY <1>5 DEF LaunchTunnelReturns
<1>6. QED
  BY <1>1, <1>2, <1>3, <1>4, <1>5 DEF Watch

LEMMA GroupLoops == GroupInv /\ (LifeWatchDevices \/ LifeKeepAlive) => GroupInv'
<1> SUFFICES ASSUME GroupInv, LifeWatchDevices \/ LifeKeepAlive
             PROVE  GroupInv'
  OBVIOUS
<1> USE DEF GroupInv, StartInv, WaitGroupBalanced, One, mainVars
<1>1. CASE LifeWatchDevices
  BY <1>1, WatchDevicesMoves DEF LifeWatchDevices, WatchMoves
<1>2. CASE LifeKeepAlive
  BY <1>2, KeepAliveMoves DEF LifeKeepAlive, KeepMoves
<1>3. QED
  BY <1>1, <1>2

\* No step of the listener touches what the wait group counts.
LEMMA GroupListener == GroupInv /\ Listener => GroupInv'
<1> SUFFICES ASSUME Listener
             PROVE  GroupFrame
  BY GroupUnchanged
<1> USE DEF GroupFrame, ListenerFrame, watchVars, keepVars, goVars
<1>1. CASE ListenerCloses
  BY <1>1 DEF ListenerCloses
<1>2. CASE ListenerKillsServer
  BY <1>2 DEF ListenerKillsServer
<1>3. CASE ListenerWaits
  BY <1>3 DEF ListenerWaits
<1>4. CASE ListenerSync
  BY <1>4 DEF ListenerSync
<1>5. CASE ListenerEnds
  BY <1>5 DEF ListenerEnds
<1>6. QED
  BY <1>1, <1>2, <1>3, <1>4, <1>5 DEF Listener

LEMMA GroupEnvironment == GroupInv /\ LifeEnvironment => GroupInv'
<1> SUFFICES ASSUME GroupInv, LifeEnvironment
             PROVE  GroupInv'
  OBVIOUS
<1> USE DEF vars, lifeVars, mainVars, goVars, watchVars, keepVars
<1>1. CASE Environment /\ UNCHANGED lifeVars
  BY <1>1, EnvironmentStays, GroupUnchanged DEF EnvironmentMoves, GroupFrame
<1>2. ASSUME NEW d \in Device, NEW s \in Status, SyncDies(d, s)
      PROVE  GroupInv'
  BY <1>2, GroupUnchanged DEF SyncDies, GroupFrame
<1>3. CASE Signal
  BY <1>3, GroupUnchanged DEF Signal, GroupFrame
<1>4. CASE Crash
  BY <1>4, GroupUnchanged DEF Crash, GroupFrame
<1>5. CASE Restart
  BY <1>5 DEF Restart, FreshProcess, GroupInv, StartInv, WaitGroupBalanced, One
<1>6. QED
  BY <1>1, <1>2, <1>3, <1>4, <1>5 DEF LifeEnvironment

LEMMA GroupStep == GroupInv /\ [LifeNext]_allVars => GroupInv'
<1> SUFFICES ASSUME GroupInv, [LifeNext]_allVars
             PROVE  GroupInv'
  OBVIOUS
<1>1. CASE UNCHANGED allVars
  BY <1>1, GroupUnchanged DEF allVars, vars, lifeVars, mainVars, goVars, watchVars, keepVars, GroupFrame
<1>2. QED
  BY <1>1, GroupMain, GroupWatch, GroupLoops, GroupListener, GroupEnvironment
  DEF LifeNext, Gone

LEMMA GroupInit == LifeInit => GroupInv
  BY DEF LifeInit, Init, GroupInv, StartInv, WaitGroupBalanced, One

\* common.WG is at any moment the number of goroutines that have still to call
\* Done, so it never panics and Wait returns just when they all have returned.
THEOREM WaitGroupBalancedHolds == LifeSpec => []WaitGroupBalanced
<1>1. GroupInv => WaitGroupBalanced
  BY DEF GroupInv
<1>2. QED
  BY <1>1, GroupInit, GroupStep, PTL DEF LifeSpec

-----------------------------------------------------------------------------
(* The order of the shutdown.                                              *)

OrderInv == GroupInv /\ StopInv /\ FinalSyncAfterLoops

OrderFrame == UNCHANGED <<listenerPc, stopChan, watchPc, keepPc>>

LEMMA OrderUnchanged ==
    StopInv /\ FinalSyncAfterLoops /\ OrderFrame => StopInv' /\ FinalSyncAfterLoops'
  BY DEF OrderFrame, StopInv, FinalSyncAfterLoops

\* Steps of main only start things.
LEMMA MainOrder == Main => OrderFrame
<1> USE DEF OrderFrame, vars, watchVars, keepVars
<1>1. Main => \/ InitializeServices \/ MainSync \/ StartDeviceWatcher
              \/ StartServer \/ MainExits
  BY DEF Main
<1>2. InitializeServices => OrderFrame
  BY DEF InitializeServices
<1>3. MainSync => OrderFrame
  BY DEF MainSync
<1>4. StartDeviceWatcher => OrderFrame
  BY DEF StartDeviceWatcher
<1>5. StartServer => OrderFrame
  BY DEF StartServer
<1>6. MainExits => OrderFrame
  BY DEF MainExits
<1>7. QED
  BY <1>1, <1>2, <1>3, <1>4, <1>5, <1>6

\* The loops are started at their check, whatever the listener has done by then.
LEMMA WatchOrder ==
    OrderInv /\ (Watch \/ LaunchTunnelReturns) => StopInv' /\ FinalSyncAfterLoops'
<1> SUFFICES ASSUME OrderInv, Watch \/ LaunchTunnelReturns
             PROVE  StopInv' /\ FinalSyncAfterLoops'
  OBVIOUS
<1> USE DEF OrderInv, vars, watchVars, keepVars
<1>1. CASE WatchLaunchesTunnel
  BY <1>1, OrderUnchanged DEF WatchLaunchesTunnel, OrderFrame
<1>2. CASE WatchStartsDevices
  BY <1>2 DEF WatchStartsDevices, GoWatchDevices, StopInv, FinalSyncAfterLoops
<1>3. CASE WatchRunsKeepAlive
  BY <1>3 DEF WatchRunsKeepAlive, RunKeepAlive, StopInv, FinalSyncAfterLoops
<1>4. CASE WatchReturns
  BY <1>4, OrderUnchanged DEF WatchReturns, OrderFrame
<1>5. CASE LaunchTunnelReturns
  BY <1>5, OrderUnchanged DEF LaunchTunnelReturns, OrderFrame
<1>6. QED
  BY <1>1, <1>2, <1>3, <1>4, <1>5 DEF Watch

\* With stopChan closed a loop at its check can only return.
LEMMA LoopsOrder ==
    OrderInv /\ (LifeWatchDevices \/ LifeKeepAlive) => StopInv' /\ FinalSyncAfterLoops'
<1> SUFFICES ASSUME OrderInv, LifeWatchDevices \/ LifeKeepAlive
             PROVE  StopInv' /\ FinalSyncAfterLoops'
  OBVIOUS
<1> USE DEF OrderInv, StopInv, FinalSyncAfterLoops
<1>1. CASE LifeWatchDevices
  BY <1>1, WatchDevicesMoves DEF LifeWatchDevices, WatchMoves
<1>2. CASE LifeKeepAlive
  BY <1>2, KeepAliveMoves DEF LifeKeepAlive, KeepMoves
<1>3. QED
  BY <1>1, <1>2

\* With the counter at zero neither loop is between its start and its return.
LEMMA ZeroMeansDone ==
    ASSUME WaitGroupBalanced, wg = 0
    PROVE  watchPc \in {"idle", "done"} /\ keepPc \in {"idle", "done"}
  BY DEF WaitGroupBalanced, One

LEMMA ListenerOrder == OrderInv /\ Listener => StopInv' /\ FinalSyncAfterLoops'
<1> SUFFICES ASSUME OrderInv, Listener
             PROVE  StopInv' /\ FinalSyncAfterLoops'
  OBVIOUS
<1> USE DEF OrderInv, ListenerFrame, watchVars, keepVars, StopInv, FinalSyncAfterLoops
<1>1. CASE ListenerCloses
  BY <1>1 DEF ListenerCloses
<1>2. CASE ListenerKillsServer
  BY <1>2 DEF ListenerKillsServer
<1>3. CASE ListenerWaits
  BY <1>3, ZeroMeansDone DEF ListenerWaits, GroupInv
<1>4. CASE ListenerSync
  BY <1>4 DEF ListenerSync
<1>5. CASE ListenerEnds
  BY <1>5 DEF ListenerEnds
<1>6. QED
  BY <1>1, <1>2, <1>3, <1>4, <1>5 DEF Listener

LEMMA EnvironmentOrder ==
    OrderInv /\ LifeEnvironment => StopInv' /\ FinalSyncAfterLoops'
<1> SUFFICES ASSUME OrderInv, LifeEnvironment
             PROVE  StopInv' /\ FinalSyncAfterLoops'
  OBVIOUS
<1> USE DEF OrderInv, vars, lifeVars, watchVars, keepVars
<1>1. CASE Environment /\ UNCHANGED lifeVars
  BY <1>1, EnvironmentStays, OrderUnchanged DEF EnvironmentMoves, OrderFrame
<1>2. ASSUME NEW d \in Device, NEW s \in Status, SyncDies(d, s)
      PROVE  StopInv' /\ FinalSyncAfterLoops'
  BY <1>2, OrderUnchanged DEF SyncDies, OrderFrame
<1>3. CASE Signal
  BY <1>3, OrderUnchanged DEF Signal, OrderFrame
<1>4. CASE Crash
  BY <1>4, OrderUnchanged DEF Crash, OrderFrame
<1>5. CASE Restart
  BY <1>5 DEF Restart, FreshProcess, StopInv, FinalSyncAfterLoops
<1>6. QED
  BY <1>1, <1>2, <1>3, <1>4, <1>5 DEF LifeEnvironment

LEMMA OrderStep == OrderInv /\ [LifeNext]_allVars => OrderInv'
<1> SUFFICES ASSUME OrderInv, [LifeNext]_allVars
             PROVE  OrderInv'
  OBVIOUS
<1>1. GroupInv'
  BY GroupStep DEF OrderInv
<1>2. StopInv' /\ FinalSyncAfterLoops'
  <2>1. CASE UNCHANGED allVars
    BY <2>1, OrderUnchanged DEF allVars, vars, lifeVars, watchVars, keepVars, OrderFrame, OrderInv
  <2>2. CASE Main
    BY <2>2, MainOrder, OrderUnchanged DEF OrderInv
  <2>3. QED
    BY <2>1, <2>2, WatchOrder, LoopsOrder, ListenerOrder, EnvironmentOrder
    DEF LifeNext, Gone
<1>3. QED
  BY <1>1, <1>2 DEF OrderInv

LEMMA OrderInit == LifeInit => OrderInv
  BY GroupInit DEF LifeInit, Init, OrderInv, StopInv, FinalSyncAfterLoops

\* From the moment shutdown posts its final list neither loop is in the middle
\* of a round, also when the watcher was started after the signal.
THEOREM FinalSyncAfterLoopsHolds == LifeSpec => []FinalSyncAfterLoops
<1>1. OrderInv => FinalSyncAfterLoops
  BY DEF OrderInv
<1>2. QED
  BY <1>1, OrderInit, OrderStep, PTL DEF LifeSpec

-----------------------------------------------------------------------------
(* Type correctness.                                                       *)

\* What SyncBinaryHost may change keeps its type.
SyncTypes ==
    /\ tunnelInfo' \in BOOLEAN /\ faults' \in 0..MaxFaults
    /\ late' \in SUBSET Registry /\ view' \in [Device -> Status]
    /\ retries' \in [Callers -> 0..1]

LEMMA SyncType ==
    ASSUME LifeTypeOK, NEW c \in Callers,
           SyncRetry(c) \/ SyncPost(c) \/ SyncPostFails(c)
    PROVE  SyncTypes
<1> USE WatcherAssumption DEF WatcherAssumption, LifeTypeOK, TypeOK, SyncTypes, GetTunnelId, Fault
<1>1. CASE SyncRetry(c)
  BY <1>1 DEF SyncRetry
<1>2. CASE SyncPost(c)
  BY <1>2, EmptyRegistry, ListViewType DEF SyncPost
<1>3. CASE SyncPostFails(c)
  BY <1>3, EmptyRegistry DEF SyncPostFails
<1>4. QED
  BY <1>1, <1>2, <1>3

\* The variables of HostLifecycle, but for the wait group's counter.
OwnTypeOK ==
    /\ proc \in {"up", "down", "exited"} /\ crashes \in 0..MaxCrashes
    /\ mainPc \in {"init", "sync", "watcher", "server", "wait"}
    /\ listenerPc \in {"wait", "kill", "waitGroup", "sync", "killTunnel", "done"}
    /\ signal \in BOOLEAN
    /\ watchGo \in {"none", "tunnel", "devices", "keepAlive", "inKeepAlive", "done"}
    /\ tunnelGo \in {"none", "running", "done"}
    /\ srv \in {"nil", "serving", "closed"}
    /\ retries \in [Callers -> 0..1]
    /\ cleared \in {"no", "stragglers", "clean"}

LEMMA MainType == LifeTypeOK /\ Main => TypeOK' /\ OwnTypeOK'
<1> SUFFICES ASSUME LifeTypeOK, Main
             PROVE  TypeOK' /\ OwnTypeOK'
  OBVIOUS
<1> USE DEF LifeTypeOK, OwnTypeOK, mainVars, goVars
<1>1. ASSUME UNCHANGED vars
      PROVE  TypeOK'
  BY <1>1, TypeStep
<1>2. CASE InitializeServices
  BY <1>1, <1>2 DEF InitializeServices
<1>3. CASE MainSync
  <2>1. SyncTypes
    BY <1>3, SyncType DEF MainSync, Callers
  <2>2. TypeOK'
    BY <1>3, <2>1 DEF MainSync, SyncTypes, TypeOK, envVars, watchVars, storeVars, keepVars
  <2>3. OwnTypeOK'
    BY <1>3, <2>1 DEF MainSync, SyncTypes
  <2>4. QED
    BY <2>2, <2>3
<1>4. CASE StartDeviceWatcher
  BY <1>1, <1>4 DEF StartDeviceWatcher
<1>5. CASE StartServer
  BY <1>1, <1>5 DEF StartServer
<1>6. CASE MainExits
  BY <1>1, <1>6 DEF MainExits
<1>7. QED
  BY <1>2, <1>3, <1>4, <1>5, <1>6 DEF Main

LEMMA GoroutineType ==
    LifeTypeOK /\ (Watch \/ LaunchTunnelReturns \/ LifeWatchDevices \/ LifeKeepAlive)
        => TypeOK' /\ OwnTypeOK'
<1> SUFFICES ASSUME LifeTypeOK, Watch \/ LaunchTunnelReturns \/ LifeWatchDevices \/ LifeKeepAlive
             PROVE  TypeOK' /\ OwnTypeOK'
  OBVIOUS
<1> USE TypeStep DEF LifeTypeOK, OwnTypeOK, mainVars
<1>1. CASE WatchLaunchesTunnel
  BY <1>1 DEF WatchLaunchesTunnel
<1>2. CASE WatchStartsDevices
  BY <1>2 DEF WatchStartsDevices, Next
<1>3. CASE WatchRunsKeepAlive
  BY <1>3 DEF WatchRunsKeepAlive, Next
<1>4. CASE WatchReturns
  BY <1>4 DEF WatchReturns
<1>5. CASE LaunchTunnelReturns
  BY <1>5 DEF LaunchTunnelReturns
<1>6. CASE LifeWatchDevices
  BY <1>6 DEF LifeWatchDevices, Next
<1>7. CASE LifeKeepAlive
  BY <1>7 DEF LifeKeepAlive, Next
<1>8. QED
  BY <1>1, <1>2, <1>3, <1>4, <1>5, <1>6, <1>7 DEF Watch

LEMMA ListenerType == LifeTypeOK /\ Listener => TypeOK' /\ OwnTypeOK'
<1> SUFFICES ASSUME LifeTypeOK, Listener
             PROVE  TypeOK' /\ OwnTypeOK'
  OBVIOUS
<1> USE DEF LifeTypeOK, TypeOK, OwnTypeOK, ListenerFrame, goVars, envVars, watchVars, storeVars, keepVars
<1>1. CASE ListenerCloses
  BY <1>1 DEF ListenerCloses
<1>2. CASE ListenerKillsServer
  BY <1>2 DEF ListenerKillsServer
<1>3. CASE ListenerWaits
  BY <1>3 DEF ListenerWaits
<1>4. CASE ListenerSync
  <2>1. SyncTypes
    BY <1>4, SyncType DEF ListenerSync, Callers
  <2>2. TypeOK'
    BY <1>4, <2>1 DEF ListenerSync, SyncTypes
  <2>3. OwnTypeOK'
    BY <1>4, <2>1 DEF ListenerSync, SyncTypes
  <2>4. QED
    BY <2>2, <2>3
<1>5. CASE ListenerEnds
  BY <1>5 DEF ListenerEnds
<1>6. QED
  BY <1>1, <1>2, <1>3, <1>4, <1>5 DEF Listener

LEMMA LifeEnvironmentType == LifeTypeOK /\ LifeEnvironment => TypeOK' /\ OwnTypeOK'
<1> SUFFICES ASSUME LifeTypeOK, LifeEnvironment
             PROVE  TypeOK' /\ OwnTypeOK'
  OBVIOUS
<1> USE LifecycleAssumption DEF LifecycleAssumption, LifeTypeOK, OwnTypeOK, mainVars, goVars, lifeVars
<1>1. CASE Environment /\ UNCHANGED lifeVars
  BY <1>1, TypeStep DEF Next
<1>2. ASSUME NEW d \in Device, NEW s \in Status, SyncDies(d, s)
      PROVE  TypeOK' /\ OwnTypeOK'
  <2>1. TypeOK'
    BY <1>2 DEF SyncDies, TypeOK, envVars, watchVars, storeVars, keepVars
  <2>2. OwnTypeOK'
    BY <1>2 DEF SyncDies
  <2>3. QED
    BY <2>1, <2>2
<1>3. CASE Signal
  BY <1>3, TypeStep DEF Signal
<1>4. CASE Crash
  <2>1. Posting \subseteq Registry
    BY EmptyRegistry DEF Posting, TypeOK
  <2>2. TypeOK'
    BY <1>4, <2>1 DEF Crash, TypeOK, envVars, watchVars, storeVars, keepVars
  <2>3. OwnTypeOK'
    BY <1>4 DEF Crash
  <2>4. QED
    BY <2>2, <2>3
<1>5. CASE Restart
  <2>1. TypeOK'
    BY <1>5, EmptyRegistry, WatcherAssumption
    DEF Restart, FreshProcess, WatcherAssumption, TypeOK, Status, envVars, wireVars
  <2>2. retries' \in [Callers -> 0..1]
    BY <1>5 DEF Restart, FreshProcess
  <2>3. OwnTypeOK'
    BY <1>5, <2>2 DEF Restart, FreshProcess
  <2>4. QED
    BY <2>1, <2>3
<1>6. QED
  BY <1>1, <1>2, <1>3, <1>4, <1>5 DEF LifeEnvironment

TypeInv == GroupInv /\ LifeTypeOK

LEMMA LifeTypeStep == TypeInv /\ [LifeNext]_allVars => TypeInv'
<1> SUFFICES ASSUME TypeInv, [LifeNext]_allVars
             PROVE  TypeInv'
  OBVIOUS
<1>1. GroupInv'
  BY GroupStep DEF TypeInv
<1>2. wg' \in Nat
  BY <1>1 DEF GroupInv, WaitGroupBalanced, One
<1>3. TypeOK' /\ OwnTypeOK'
  <2>1. CASE UNCHANGED allVars
    BY <2>1, TypeStep DEF allVars, lifeVars, mainVars, goVars, TypeInv, LifeTypeOK, OwnTypeOK
  <2>2. QED
    BY <2>1, MainType, GoroutineType, ListenerType, LifeEnvironmentType
    DEF LifeNext, Gone, TypeInv
<1>4. QED
  BY <1>1, <1>2, <1>3 DEF TypeInv, LifeTypeOK, OwnTypeOK

LEMMA LifeTypeInit == LifeInit => TypeInv
<1> SUFFICES ASSUME LifeInit
             PROVE  TypeInv
  OBVIOUS
<1>1. TypeOK
  BY InitType DEF LifeInit
<1>2. retries \in [Callers -> 0..1]
  BY DEF LifeInit
<1>3. crashes \in 0..MaxCrashes /\ wg \in Nat
  BY LifecycleAssumption DEF LifecycleAssumption, LifeInit
<1>4. LifeTypeOK
  BY <1>1, <1>2, <1>3 DEF LifeInit, LifeTypeOK
<1>5. QED
  BY <1>4, GroupInit DEF TypeInv

\* Every variable of the life cycle keeps the type the code gives it; the
\* counter of common.WG in particular never goes negative, which would panic.
THEOREM LifeTypeCorrect == LifeSpec => []LifeTypeOK
<1>1. TypeInv => LifeTypeOK
  BY DEF TypeInv
<1>2. QED
  BY <1>1, LifeTypeInit, LifeTypeStep, PTL DEF LifeSpec

-----------------------------------------------------------------------------
(* A clean shutdown.                                                       *)

IInv == LifeTypeOK /\ OrderInv /\ CleanInv

CleanFrame == UNCHANGED <<cleared, listenerPc, late, flight, view>>

LEMMA CleanUnchanged == CleanInv /\ CleanFrame => CleanInv'
  BY DEF CleanFrame, CleanInv, ListView, Empty

LEMMA CleanMain == IInv /\ Main => CleanInv'
<1> SUFFICES ASSUME IInv, Main
             PROVE  CleanInv'
  OBVIOUS
<1> USE DEF IInv, vars, wireVars, CleanFrame
<1>1. CASE InitializeServices
  BY <1>1, CleanUnchanged DEF InitializeServices
<1>2. CASE MainSync
  <2>1. late' = late \/ late' = {Empty}
    BY <1>2 DEF MainSync, SyncRetry, SyncPost, SyncPostFails
  <2>2. view' = view \/ view' = ListView(Empty)
    BY <1>2 DEF MainSync, SyncRetry, SyncPost, SyncPostFails
  <2>3. UNCHANGED <<cleared, listenerPc, flight>>
    BY <1>2 DEF MainSync
  <2>4. Empty' = Empty /\ ListView(Empty)' = ListView(Empty)
    BY DEF Empty, ListView
  <2>5. QED
    BY <2>1, <2>2, <2>3, <2>4 DEF CleanInv
<1>3. CASE StartDeviceWatcher
  BY <1>3, CleanUnchanged DEF StartDeviceWatcher
<1>4. CASE StartServer
  BY <1>4, CleanUnchanged DEF StartServer
<1>5. CASE MainExits
  BY <1>5, CleanUnchanged DEF MainExits
<1>6. QED
  BY <1>1, <1>2, <1>3, <1>4, <1>5 DEF Main

LEMMA CleanWatch == IInv /\ (Watch \/ LaunchTunnelReturns) => CleanInv'
<1> SUFFICES ASSUME IInv, Watch \/ LaunchTunnelReturns
             PROVE  CleanInv'
  OBVIOUS
<1> USE CleanUnchanged DEF IInv, vars, wireVars, CleanFrame
<1>1. CASE WatchLaunchesTunnel
  BY <1>1 DEF WatchLaunchesTunnel
<1>2. CASE WatchStartsDevices
  BY <1>2 DEF WatchStartsDevices, GoWatchDevices
<1>3. CASE WatchRunsKeepAlive
  BY <1>3 DEF WatchRunsKeepAlive, RunKeepAlive
<1>4. CASE WatchReturns
  BY <1>4 DEF WatchReturns
<1>5. CASE LaunchTunnelReturns
  BY <1>5 DEF LaunchTunnelReturns
<1>6. QED
  BY <1>1, <1>2, <1>3, <1>4, <1>5 DEF Watch

\* After the final post neither loop is where it could start or make a post.
LEMMA CleanLoops == IInv /\ (LifeWatchDevices \/ LifeKeepAlive) => CleanInv'
<1> SUFFICES ASSUME IInv, LifeWatchDevices \/ LifeKeepAlive
             PROVE  CleanInv'
  OBVIOUS
<1>1. UNCHANGED <<cleared, listenerPc>>
  BY DEF LifeWatchDevices, LifeKeepAlive
<1>2. CASE cleared = "clean"
  <2>1. listenerPc \in {"sync", "killTunnel", "done"}
    BY <1>2 DEF IInv, CleanInv
  <2>2. watchPc \in {"idle", "check", "done"} /\ keepPc \in {"idle", "check", "done"}
    BY <2>1 DEF IInv, OrderInv, FinalSyncAfterLoops
  <2>3. CASE LifeWatchDevices
    BY <1>1, <2>2, <2>3, WatchDevicesMoves, CleanUnchanged
    DEF LifeWatchDevices, WatchMoves, CleanFrame, IInv
  <2>4. CASE LifeKeepAlive
    BY <1>1, <2>2, <2>4, KeepAliveMoves, CleanUnchanged
    DEF LifeKeepAlive, KeepMoves, CleanFrame, IInv
  <2>5. QED
    BY <2>3, <2>4
<1>3. CASE cleared # "clean"
  BY <1>1, <1>3 DEF CleanInv
<1>4. QED
  BY <1>2, <1>3

LEMMA CleanListener == IInv /\ Listener => CleanInv'
<1> SUFFICES ASSUME IInv, Listener
             PROVE  CleanInv'
  OBVIOUS
<1> USE DEF IInv, ListenerFrame
<1>1. CASE ListenerCloses
  BY <1>1 DEF ListenerCloses, CleanInv
<1>2. CASE ListenerKillsServer
  BY <1>2 DEF ListenerKillsServer, CleanInv
<1>3. CASE ListenerWaits
  BY <1>3 DEF ListenerWaits, CleanInv
<1>4. CASE ListenerSync
  <2>1. cleared # "clean"
    BY <1>4 DEF ListenerSync, CleanInv
  <2>2. CASE cleared' # "clean"
    BY <2>2 DEF CleanInv
  <2>3. CASE cleared' = "clean"
    <3>1. ~Stragglers /\ SyncPost("listener") /\ listenerPc' = "killTunnel"
      BY <1>4, <2>1, <2>3 DEF ListenerSync
    <3>2. flight' = flight
      BY <1>4 DEF ListenerSync
    <3>3. late' = {}
      BY <3>1 DEF Stragglers, SyncPost
    <3>4. \A d \in Device, s \in Status : flight'[<<d, s>>] = 0
      <4>1. \A d \in Device, s \in Status : flight[<<d, s>>] \in Nat
        BY DEF LifeTypeOK, TypeOK
      <4>2. \A d \in Device, s \in Status : ~(flight[<<d, s>>] > 0)
        BY <3>1 DEF Stragglers
      <4>3. \A n \in Nat : ~(n > 0) => n = 0
        OBVIOUS
      <4>4. QED
        BY <3>2, <4>1, <4>2, <4>3
    <3>5. view' = ListView(Empty)'
      BY <3>1 DEF SyncPost, ListView, Empty
    <3>6. QED
      BY <3>1, <3>3, <3>4, <3>5 DEF CleanInv
  <2>4. QED
    BY <2>2, <2>3
<1>5. CASE ListenerEnds
  BY <1>5 DEF ListenerEnds, CleanInv, ListView, Empty
<1>6. QED
  BY <1>1, <1>2, <1>3, <1>4, <1>5 DEF Listener

LEMMA CleanEnvironment == IInv /\ LifeEnvironment => CleanInv'
<1> SUFFICES ASSUME IInv, LifeEnvironment, cleared' = "clean"
             PROVE  CleanInv'
  BY DEF CleanInv
<1> USE DEF IInv, vars, lifeVars, wireVars, CleanFrame
<1>1. \A d \in Device, s \in Status : cleared = "clean" => ~(flight[<<d, s>>] > 0)
  BY DEF CleanInv
<1>2. CASE Environment /\ UNCHANGED lifeVars
  <2>1. cleared = "clean"
    BY <1>2
  <2>2. ASSUME NEW d \in Device, NEW s \in Seen, HardwareChange(d, s)
        PROVE  CleanInv'
    BY <1>2, <2>2, CleanUnchanged DEF HardwareChange
  <2>3. ASSUME NEW d \in Device, NEW s \in Status, ApplySync(d, s) \/ LoseSync(d, s)
        PROVE  CleanInv'
    BY <1>1, <2>1, <2>3 DEF ApplySync, LoseSync
  <2>4. ASSUME NEW l \in late, ApplyLate(l)
        PROVE  CleanInv'
    <3>1. l = Empty
      BY <2>1, <2>4 DEF CleanInv
    <3>2. late' \subseteq late /\ view' = ListView(Empty) /\ flight' = flight
      BY <2>4, <3>1 DEF ApplyLate
    <3>3. ListView(Empty)' = ListView(Empty) /\ Empty' = Empty
      BY DEF ListView, Empty
    <3>4. QED
      BY <1>2, <2>1, <3>2, <3>3 DEF CleanInv
  <2>5. QED
    BY <1>2, <2>2, <2>3, <2>4 DEF Environment
<1>3. ASSUME NEW d \in Device, NEW s \in Status, SyncDies(d, s)
      PROVE  CleanInv'
  BY <1>1, <1>3 DEF SyncDies
<1>4. CASE Signal
  BY <1>4, CleanUnchanged DEF Signal
<1>5. CASE Crash
  <2>1. cleared = "clean" /\ UNCHANGED <<listenerPc, flight, view>>
    BY <1>5 DEF Crash
  <2>2. Posting \subseteq {Empty}
    BY <2>1 DEF Posting, CleanInv, OrderInv, FinalSyncAfterLoops
  <2>3. late' \subseteq {Empty}
    BY <1>5, <2>1, <2>2 DEF Crash, CleanInv
  <2>4. ListView(Empty)' = ListView(Empty) /\ Empty' = Empty
    BY DEF ListView, Empty
  <2>5. QED
    BY <2>1, <2>3, <2>4 DEF CleanInv
<1>6. CASE Restart
  BY <1>6 DEF Restart, FreshProcess
<1>7. QED
  BY <1>2, <1>3, <1>4, <1>5, <1>6 DEF LifeEnvironment

LEMMA IInvStep == IInv /\ [LifeNext]_allVars => IInv'
<1> SUFFICES ASSUME IInv, [LifeNext]_allVars
             PROVE  IInv'
  OBVIOUS
<1>1. OrderInv'
  BY OrderStep DEF IInv
<1>2. LifeTypeOK'
  BY LifeTypeStep DEF IInv, OrderInv, TypeInv
<1>3. CleanInv'
  <2>1. CASE UNCHANGED allVars
    BY <2>1, CleanUnchanged DEF allVars, vars, lifeVars, wireVars, CleanFrame, IInv
  <2>2. QED
    BY <2>1, CleanMain, CleanWatch, CleanLoops, CleanListener, CleanEnvironment
    DEF LifeNext, Gone
<1>4. QED
  BY <1>1, <1>2, <1>3 DEF IInv

LEMMA IInvInit == LifeInit => IInv
<1> SUFFICES ASSUME LifeInit
             PROVE  IInv
  OBVIOUS
<1>1. CleanInv
  BY DEF LifeInit, CleanInv
<1>2. QED
  BY <1>1, OrderInit, LifeTypeInit DEF IInv, TypeInv

\* When shutdown's empty list was applied with no earlier post on its way, the
\* backend lists no device of this host until the binary is started again.
THEOREM CleanShutdownStaysHolds == LifeSpec => []CleanShutdownStays
<1>1. IInv => CleanShutdownStays
  BY DEF IInv, CleanInv, CleanShutdownStays
<1>2. QED
  BY <1>1, IInvInit, IInvStep, PTL DEF LifeSpec

-----------------------------------------------------------------------------
(* The watcher across the lives of the binary.                             *)

\* What a step of main, of the listener, of a dying process may do to what the
\* watcher works with: posts that replace the host's list by the empty one, lists
\* that travel on, sync goroutines that end.
Beside ==
    /\ UNCHANGED <<watchVars, storeVars, keepVars>>
    /\ view' = view \/ view' = ListView(Empty)
    /\ late' = late \/ late' = {Empty} \/ late' = {kaList}
    /\ \A m \in Device \X Status : flight'[m] <= flight[m]

LEMMA SameFlight ==
    ASSUME TypeOK, flight' = flight
    PROVE  \A m \in Device \X Status : flight'[m] <= flight[m]
  BY DEF TypeOK

LEMMA SyncBeside ==
    ASSUME NEW c, SyncRetry(c) \/ SyncPost(c) \/ SyncPostFails(c)
    PROVE  /\ view' = view \/ view' = ListView(Empty)
           /\ late' = late \/ late' = {Empty}
  BY DEF SyncRetry, SyncPost, SyncPostFails

LEMMA MainSteps == TypeOK /\ Main => UNCHANGED vars \/ Beside
<1> SUFFICES ASSUME TypeOK, Main
             PROVE  UNCHANGED vars \/ Beside
  OBVIOUS
<1>1. CASE MainSync
  BY <1>1, SyncBeside, SameFlight DEF MainSync, Beside
<1>2. CASE InitializeServices \/ StartDeviceWatcher \/ StartServer \/ MainExits
  BY <1>2 DEF InitializeServices, StartDeviceWatcher, StartServer, MainExits
<1>3. QED
  BY <1>1, <1>2 DEF Main

LEMMA WatchSteps ==
    Watch \/ LaunchTunnelReturns \/ LifeWatchDevices \/ LifeKeepAlive => [Next]_vars
<1> SUFFICES ASSUME Watch \/ LaunchTunnelReturns \/ LifeWatchDevices \/ LifeKeepAlive
             PROVE  [Next]_vars
  OBVIOUS
<1>1. CASE WatchLaunchesTunnel \/ WatchReturns \/ LaunchTunnelReturns
  BY <1>1 DEF WatchLaunchesTunnel, WatchReturns, LaunchTunnelReturns
<1>2. CASE WatchStartsDevices \/ WatchRunsKeepAlive
  BY <1>2 DEF WatchStartsDevices, WatchRunsKeepAlive, Next
<1>3. CASE LifeWatchDevices \/ LifeKeepAlive
  BY <1>3 DEF LifeWatchDevices, LifeKeepAlive, Next
<1>4. QED
  BY <1>1, <1>2, <1>3 DEF Watch

LEMMA ListenerSteps == TypeOK /\ Listener => Beside
<1> SUFFICES ASSUME TypeOK, Listener
             PROVE  Beside
  OBVIOUS
<1> USE SameFlight DEF Beside, ListenerFrame
<1>1. CASE ListenerCloses
  BY <1>1 DEF ListenerCloses
<1>2. CASE ListenerKillsServer
  BY <1>2 DEF ListenerKillsServer
<1>3. CASE ListenerWaits
  BY <1>3 DEF ListenerWaits
<1>4. CASE ListenerSync
  BY <1>4, SyncBeside DEF ListenerSync
<1>5. CASE ListenerEnds
  BY <1>5 DEF ListenerEnds
<1>6. QED
  BY <1>1, <1>2, <1>3, <1>4, <1>5 DEF Listener

LEMMA LifeEnvironmentSteps ==
    TypeOK /\ LifeEnvironment => [Next]_vars \/ Beside \/ Restart
<1> SUFFICES ASSUME TypeOK, LifeEnvironment, ~Restart
             PROVE  [Next]_vars \/ Beside
  OBVIOUS
<1>1. CASE Environment /\ UNCHANGED lifeVars
  BY <1>1 DEF Next
<1>2. ASSUME NEW d \in Device, NEW s \in Status, SyncDies(d, s)
      PROVE  Beside
  <2>1. \A m \in Device \X Status : flight'[m] <= flight[m]
    BY <1>2 DEF SyncDies, TypeOK
  <2>2. QED
    BY <1>2, <2>1 DEF SyncDies, Beside
<1>3. CASE Signal
  BY <1>3 DEF Signal
<1>4. CASE Crash
  <2>1. late' = late \/ late' = {Empty} \/ late' = {kaList}
    BY <1>4 DEF Crash, Posting
  <2>2. QED
    BY <1>4, <2>1, SameFlight DEF Crash, Beside
<1>5. QED
  BY <1>1, <1>2, <1>3, <1>4 DEF LifeEnvironment

\* Any step of a life is, for the watcher, one of its own steps or one beside it.
LEMMA LifeSteps == TypeOK /\ [LifeNext]_allVars => [Next]_vars \/ Beside \/ Restart
<1> SUFFICES ASSUME TypeOK, [LifeNext]_allVars
             PROVE  [Next]_vars \/ Beside \/ Restart
  OBVIOUS
<1>1. CASE UNCHANGED allVars \/ Gone
  BY <1>1 DEF allVars, Gone
<1>2. QED
  BY <1>1, MainSteps, WatchSteps, ListenerSteps, LifeEnvironmentSteps DEF LifeNext

\* The invariants of the watcher, taken over from the proofs about it alone.
WatcherInv == IosInv /\ PortsInv /\ RegistryInv

LEMMA WatcherInvBeside ==
    ASSUME TypeOK, TypeOK', WatcherInv, Beside
    PROVE  WatcherInv'
<1> USE DEF WatcherInv, Beside, watchVars, storeVars, keepVars
<1>1. IosInv'
  <2> SUFFICES ASSUME NEW d \in Ios
               PROVE  /\ newDevices'[d] # "ready" /\ oldDevices'[d] # "ready"
                      /\ kaList'[d] # "ready" /\ view'[d] # "ready"
                      /\ \A l \in late' : l[d] # "ready"
                      /\ flight'[<<d, "ready">>] = 0
    BY DEF IosInv
  <2>1. d \in Device /\ <<d, "ready">> \in Device \X Status
    BY DEF Device, Status
  <2>2. ListView(Empty)[d] # "ready" /\ Empty[d] # "ready"
    BY <2>1 DEF ListView, Empty, Report
  <2>3. flight[<<d, "ready">>] = 0 /\ flight'[<<d, "ready">>] \in Nat
    BY <2>1 DEF IosInv, TypeOK
  <2>4. flight'[<<d, "ready">>] = 0
    BY <2>1, <2>3
  <2>5. view'[d] # "ready" /\ \A l \in late' : l[d] # "ready"
    BY <2>2 DEF IosInv
  <2>6. QED
    BY <2>4, <2>5 DEF IosInv
<1>2. PortsInv'
  BY DEF PortsInv, PortsDistinct
<1>3. RegistryInv'
  BY DEF RegistryInv, AnnouncedMatchesRegistry, Changed
<1>4. QED
  BY <1>1, <1>2, <1>3

\* A fresh process forgets what the watcher knew, but not what still travels.
LEMMA WatcherInvRestart ==
    ASSUME WatcherInv, Restart
    PROVE  WatcherInv'
<1> USE DEF WatcherInv, Restart, FreshProcess, wireVars
<1>1. IosInv'
  BY DEF IosInv, Empty, Device
<1>2. PortsInv'
  BY WatcherAssumption DEF WatcherAssumption, PortsInv, PortsDistinct
<1>3. RegistryInv'
  BY DEF RegistryInv, AnnouncedMatchesRegistry, Report, Empty
<1>4. QED
  BY <1>1, <1>2, <1>3

LEMMA WatcherInvStep ==
    LifeTypeOK /\ LifeTypeOK' /\ WatcherInv /\ [LifeNext]_allVars => WatcherInv'
<1> SUFFICES ASSUME TypeOK, TypeOK', WatcherInv, [LifeNext]_allVars
             PROVE  WatcherInv'
  BY DEF LifeTypeOK
<1>1. CASE [Next]_vars
  BY <1>1, IosStep, PortsStep, RegistryStep DEF WatcherInv
<1>2. QED
  BY <1>1, LifeSteps, WatcherInvBeside, WatcherInvRestart

LEMMA WatcherInvInit == LifeInit => WatcherInv
  BY IosInit, PortsInit, RegistryInit DEF LifeInit, WatcherInv

LEMMA WatcherInvHolds == LifeSpec => []WatcherInv
  BY WatcherInvInit, WatcherInvStep, LifeTypeCorrect, PTL DEF LifeSpec

\* However often the binary crashes and is started again: no two devices share a
\* port, no iOS device is "ready" in a registry, in a post or in the backend's
\* record, and what was announced last of a device is what the registry holds.
THEOREM WatcherHoldsInEveryLife ==
    LifeSpec => [](PortsDistinct /\ IosNeverReady /\ AnnouncedMatchesRegistry)
<1>1. WatcherInv => PortsDistinct /\ IosNeverReady /\ AnnouncedMatchesRegistry
  BY DEF WatcherInv, PortsInv, IosInv, IosNeverReady, RegistryInv
<1>2. QED
  BY <1>1, WatcherInvHolds, PTL

\* Also then a device is announced again only with another status: what happens
\* beside the watcher starts no sync goroutine.
THEOREM NoRepeatedAnnouncementInAnyLife == LifeSpec => NoRepeatedAnnouncement
<1> DEFINE Fresh == \A d \in Device, s \in Status :
              flight'[<<d, s>>] > flight[<<d, s>>] => announced[d] # s
<1>1. TypeOK /\ TypeOK' /\ WatcherInv /\ [LifeNext]_allVars => [Fresh]_vars
  <2> SUFFICES ASSUME TypeOK, TypeOK', WatcherInv, [LifeNext]_allVars
               PROVE  Fresh
    OBVIOUS
  <2>1. CASE [Next]_vars
    BY <2>1, AnnounceStep DEF WatcherInv
  <2>2. \A m \in Device \X Status : flight[m] \in Nat /\ flight'[m] \in Nat
    BY DEF TypeOK
  <2>3. CASE Beside
    BY <2>2, <2>3 DEF Beside
  <2>4. CASE Restart
    BY <2>2, <2>4 DEF Restart, wireVars
  <2>5. QED
    BY <2>1, <2>3, <2>4, LifeSteps
<1>2. LifeTypeOK => TypeOK
  BY DEF LifeTypeOK
<1>3. QED
  BY <1>1, <1>2, WatcherInvHolds, LifeTypeCorrect, PTL DEF LifeSpec, NoRepeatedAnnouncement

\* The ports are leased as PortLease promises, and only a restart takes them back.
THEOREM LeaseInEveryLife == LifeSpec => [][Lease!Next \/ Restart]_ports
<1>1. LifeTypeOK /\ WatcherInv /\ [LifeNext]_allVars => [Lease!Next \/ Restart]_ports
  <2> SUFFICES ASSUME TypeOK, WatcherInv, [LifeNext]_allVars, ~Restart
               PROVE  [Lease!Next]_ports
    BY DEF LifeTypeOK
  <2>1. CASE [Next]_vars
    BY <2>1, LeaseStep DEF WatcherInv
  <2>2. CASE Beside
    BY <2>2 DEF Beside, storeVars
  <2>3. QED
    BY <2>1, <2>2, LifeSteps
<1>2. QED
  BY <1>1, WatcherInvHolds, LifeTypeCorrect, PTL DEF LifeSpec

-----------------------------------------------------------------------------
(* The ports of the devices that a run of the binary presents.             *)

\* A device in the registry, compared and about to enter it, or in keepAlive's list,
\* has a port.
PresentInv ==
    StoreMayFail \/ \A d \in Device : Registered(d) \/ kaList[d] # "absent" => ports[d] # 0

\* keepAlive takes its list from the registry.
LEMMA ListStep ==
    ASSUME [Next]_vars, NEW d \in Device, kaList'[d] # "absent"
    PROVE  kaList[d] # "absent" \/ Registered(d)
<1> USE DEF keepVars
<1>1. CASE KeepAlive
  <2>1. Empty[d] = "absent"
    BY DEF Empty
  <2>2. QED
    BY <1>1, <2>1 DEF KeepAlive, KeepAliveCheck, KeepAliveSnapshot, KeepAlivePost,
       KeepAliveNoTunnel, KeepAlivePostFails, EndSync, Registered
<1>2. CASE GoWatchDevices \/ RunKeepAlive \/ CloseStopChan \/ Stopped \/ UNCHANGED vars
  BY <1>2 DEF GoWatchDevices, RunKeepAlive, CloseStopChan, Stopped, vars
<1>3. CASE WatchDevices
  BY <1>3, WatchDevicesMoves DEF WatchMoves
<1>4. CASE Environment
  BY <1>4, EnvironmentStays DEF EnvironmentMoves
<1>5. QED
  BY <1>1, <1>2, <1>3, <1>4 DEF Next

LEMMA PresentStep ==
    ASSUME TypeOK, PortsInv, RegistryInv, PresentInv, [Next]_vars
    PROVE  PresentInv'
<1> SUFFICES ASSUME ~StoreMayFail, NEW d \in Device, Registered(d)' \/ kaList'[d] # "absent"
             PROVE  ports'[d] # 0
  BY DEF PresentInv
<1>1. CASE Registered(d) \/ kaList[d] # "absent"
  BY <1>1, PortKept DEF PresentInv
<1>2. CASE ~Registered(d) /\ kaList[d] = "absent"
  <2>1. Compare(d) /\ newDevices[d] # "absent"
    BY <1>2, ListStep, RegisteredStep
  <2>2. oldDevices[d] = "absent"
    BY <1>2 DEF Registered
  <2>3. CASE ports[d] # 0
    BY <2>3, PortKept
  <2>4. CASE ports[d] = 0
    <3>1. ports' = [ports EXCEPT ![d] = baseAppiumPort]
      BY <2>1, <2>2, <2>4 DEF Compare, SetAppiumPort
    <3>2. baseAppiumPort # 0 /\ ports \in [Device -> Nat]
      BY WatcherAssumption DEF WatcherAssumption, PortsInv, TypeOK
    <3>3. QED
      BY <3>1, <3>2
  <2>5. QED
    BY <2>3, <2>4
<1>3. QED
  BY <1>1, <1>2

LEMMA PresentLifeStep ==
    LifeTypeOK /\ WatcherInv /\ PresentInv /\ [LifeNext]_allVars => PresentInv'
<1> SUFFICES ASSUME TypeOK, WatcherInv, PresentInv, [LifeNext]_allVars
             PROVE  PresentInv'
  BY DEF LifeTypeOK
<1>1. CASE [Next]_vars
  BY <1>1, PresentStep DEF WatcherInv
<1>2. CASE Beside
  BY <1>2 DEF Beside, PresentInv, Registered, watchVars, storeVars, keepVars
<1>3. CASE Restart
  BY <1>3 DEF Restart, FreshProcess, PresentInv, Registered, Empty
<1>4. QED
  BY <1>1, <1>2, <1>3, LifeSteps

LEMMA PresentLifeInit == LifeInit => PresentInv
  BY DEF LifeInit, Init, PresentInv, Registered, Empty

LEMMA AnnouncedIsRegistered ==
    ASSUME AnnouncedMatchesRegistry, NEW d \in Device, announced[d] # "disconnected"
    PROVE  Registered(d)
  BY DEF AnnouncedMatchesRegistry, Report, Registered

LEMMA PresentSuffices == WatcherInv /\ PresentInv => PresentDevicesHavePorts
  BY AnnouncedIsRegistered DEF WatcherInv, RegistryInv, PresentInv, PresentDevicesHavePorts

\* A device that a run of the binary has announced as present or is about to list
\* has a port in that run's store, whatever posts of earlier runs still travel.
THEOREM PresentDevicesHavePortsHolds == LifeSpec => []PresentDevicesHavePorts
  BY PresentSuffices, PresentLifeInit, PresentLifeStep, WatcherInvHolds,
     LifeTypeCorrect, PTL DEF LifeSpec

=============================================================================
