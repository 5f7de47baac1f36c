--------------------------- MODULE SessionHostProofs ---------------------------
(***************************************************************************)
(* Proofs about the binary as a whole, for any sets of devices and         *)
(* handlers and any bounds: it behaves as HostLifecycle says and, seen     *)
(* from the handlers, as AppiumSessions says, so that what is proved of    *)
(* each of them holds of both together.                                    *)
(***************************************************************************)
EXTENDS SessionHost, HostLifecycleProofs

-----------------------------------------------------------------------------
(* The life cycle and the watcher, with handlers beside them.              *)

LEMMA HostStepsLife == [HostNext]_hostVars => [LifeNext]_allVars
<1> SUFFICES ASSUME [HostNext]_hostVars
             PROVE  [LifeNext]_allVars
  OBVIOUS
<1>1. ASSUME NEW h \in Handler, HandlerStep(h) \/ RequestArrives(h)
      PROVE  UNCHANGED allVars
  BY <1>1 DEF HandlerStep, RequestArrives
<1>2. ASSUME NEW h \in Handler, KillsItself(h)
      PROVE  LifeNext
  BY <1>2 DEF KillsItself, LifeNext, LifeEnvironment
<1>3. AppiumStep => UNCHANGED allVars
  BY DEF AppiumStep
<1>4. LifeStep => LifeNext
  BY DEF LifeStep
<1>5. UNCHANGED hostVars => UNCHANGED allVars
  BY DEF hostVars
<1>6. QED
  BY <1>1, <1>2, <1>3, <1>4, <1>5 DEF HostNext

\* What handlers do never disturbs main, the watcher or the shutdown, except that
\* a kill -9 of the own process is a crash: every invariant of the life cycle holds.
THEOREM HostImplementsLife == HostSpec => LifeSpec
<1>1. HostInit => LifeInit
  BY DEF HostInit
<1>2. QED
  BY <1>1, HostStepsLife, PTL DEF HostSpec, LifeSpec

\* How a step of the life cycle moves the process.
ProcMoves ==
    \/ UNCHANGED <<proc, crashes>>
    \/ /\ proc = "up" /\ proc' = "exited"
       /\ UNCHANGED <<crashes, ports>>
    \/ /\ proc = "up" /\ proc' = "down" /\ crashes' = crashes + 1
       /\ crashes < MaxCrashes /\ UNCHANGED ports
    \/ Restart

LEMMA LifeMovesProc == LifeNext => ProcMoves
<1> SUFFICES ASSUME LifeNext
             PROVE  ProcMoves
  OBVIOUS
<1> USE DEF ProcMoves
<1>1. CASE Main
  BY <1>1 DEF Main, InitializeServices, MainSync, StartDeviceWatcher, StartServer,
     MainExits, vars, storeVars
<1>2. CASE Watch \/ LaunchTunnelReturns
  BY <1>2 DEF Watch, WatchLaunchesTunnel, WatchStartsDevices, WatchRunsKeepAlive,
     WatchReturns, LaunchTunnelReturns
<1>3. CASE LifeWatchDevices \/ LifeKeepAlive
  BY <1>3 DEF LifeWatchDevices, LifeKeepAlive
<1>4. CASE Listener
  BY <1>4 DEF Listener, ListenerCloses, ListenerKillsServer, ListenerWaits,
     ListenerSync, ListenerEnds, ListenerFrame
<1>5. CASE LifeEnvironment
  BY <1>5 DEF LifeEnvironment, SyncDies, Signal, Crash, lifeVars, storeVars
<1>6. CASE Gone
  BY <1>6 DEF Gone, allVars, lifeVars
<1>7. QED
  BY <1>1, <1>2, <1>3, <1>4, <1>5, <1>6 DEF LifeNext

-----------------------------------------------------------------------------
(* The sessions.                                                           *)

\* A process that runs has not been killed.
KilledInv == proc = "up" => ~killed

HostInv == LifeTypeOK /\ WatcherInv /\ PresentInv /\ KilledInv

LEMMA KilledStep == KilledInv /\ [HostNext]_hostVars => KilledInv'
<1> SUFFICES ASSUME KilledInv, [HostNext]_hostVars
             PROVE  KilledInv'
  OBVIOUS
<1> USE DEF KilledInv
<1>1. ASSUME UNCHANGED <<proc, killed>>
      PROVE  KilledInv'
  BY <1>1
<1>2. ASSUME NEW h \in Handler, HandlerStep(h) \/ RequestArrives(h)
      PROVE  KilledInv'
  BY <1>1, <1>2 DEF HandlerStep, RequestArrives, allVars, lifeVars
<1>3. ASSUME NEW h \in Handler, KillsItself(h)
      PROVE  KilledInv'
  BY <1>3 DEF KillsItself, Crash
<1>4. CASE AppiumStep
  BY <1>1, <1>4 DEF AppiumStep, allVars, lifeVars
<1>5. CASE LifeStep
  <2>1. ProcMoves
    BY <1>5, LifeMovesProc DEF LifeStep
  <2>2. CASE proc = "down" /\ proc' = "up"
    BY <1>5, <2>2 DEF LifeStep, ForgetSessions
  <2>3. CASE ~(proc = "down" /\ proc' = "up")
    <3>1. killed' = killed
      BY <1>5, <2>3 DEF LifeStep, processVars
    <3>2. proc' = "up" => proc = "up"
      BY <2>1, <2>3 DEF ProcMoves, Restart
    <3>3. QED
      BY <3>1, <3>2
  <2>4. QED
    BY <2>2, <2>3
<1>6. CASE UNCHANGED hostVars
  BY <1>1, <1>6 DEF hostVars, allVars, lifeVars, processVars
<1>7. QED
  BY <1>2, <1>3, <1>4, <1>5, <1>6 DEF HostNext

LEMMA HostInvHolds == HostSpec => []HostInv
<1>1. HostInit => KilledInv /\ PresentInv
  BY PresentLifeInit DEF HostInit, KilledInv
<1>2. HostSpec => []KilledInv
  BY <1>1, KilledStep, PTL DEF HostSpec
<1>3. LifeSpec => []PresentInv
  BY PresentLifeInit, PresentLifeStep, WatcherInvHolds, LifeTypeCorrect, PTL DEF LifeSpec
<1>4. QED
  BY <1>2, <1>3, HostImplementsLife, WatcherInvHolds, LifeTypeCorrect, PTL DEF HostInv

\* While the process runs on, a step of the life cycle at most leases a port.
LEMMA LeasesToSessions ==
    ASSUME HostInv, LifeStep, UNCHANGED <<proc, crashes>>
    PROVE  [Sessions!Next]_Sessions!vars
<1>1. UNCHANGED keptVars /\ UNCHANGED processVars
  BY DEF LifeStep
<1>2. UNCHANGED <<Binary, Restarts>>
  BY <1>1 DEF Binary, Restarts, processVars
<1>f. UNCHANGED <<Sessions!runVars, Sessions!hostVars, Sessions!mapVars, served,
                  Sessions!history, Sessions!handlerVars>>
  BY <1>1, <1>2 DEF Sessions!runVars, Sessions!hostVars, Sessions!mapVars,
     Sessions!history, Sessions!handlerVars, keptVars, processVars
<1>3. CASE ports' = ports
  BY <1>3, <1>f DEF Sessions!vars
<1>4. CASE ports' # ports
  <2>1. TypeOK /\ PortsInv /\ ~Restart /\ [LifeNext]_allVars
    BY <1>4 DEF HostInv, LifeTypeOK, WatcherInv, LifeStep, Restart
  <2>2. [Next]_vars
    BY <2>1, <1>4, LifeSteps DEF Beside, storeVars
  <2>3. PICK d \in Device : SetAppiumPort(d)
    BY <1>4, <2>2, StoreSteps DEF storeVars
  <2>4. /\ ports[d] = 0 /\ ports' = [ports EXCEPT ![d] = baseAppiumPort]
        /\ baseAppiumPort' = baseAppiumPort + 1
    BY <1>4, <2>3 DEF SetAppiumPort, storeVars
  <2>5. /\ FirstPort \in Nat \ {0} /\ MaxPort \in Nat /\ baseAppiumPort \in Nat
        /\ ports \in [Device -> Nat]
    BY <2>1, WatcherAssumption, HostAssumption DEF WatcherAssumption, HostAssumption, TypeOK
  <2>6. baseAppiumPort \in FirstPort..MaxPort
    BY <2>1, <2>4, <2>5 DEF LifeStep, PortsInv
  <2>7. \A e \in Device : ports[e] # baseAppiumPort
    BY <2>1, <2>5 DEF PortsInv
  <2>8. Sessions!LeasePort(d, baseAppiumPort)
    BY <1>f, <2>4, <2>7 DEF Sessions!LeasePort
  <2>9. QED
    BY <2>6, <2>8 DEF Sessions!Next, Sessions!Host
<1>5. QED
  BY <1>3, <1>4

\* main returning, and a crash, end the handlers and leave everything else.
LEMMA EndsForSessions ==
    ASSUME HostInv, LifeStep, ProcMoves, proc = "up", proc' # "up"
    PROVE  Sessions!Ends
<1>1. UNCHANGED keptVars /\ UNCHANGED processVars
  BY DEF LifeStep
<1>2. crashes \in 0..MaxCrashes /\ MaxCrashes \in Nat /\ ~killed
  BY LifecycleAssumption DEF LifecycleAssumption, HostInv, LifeTypeOK, KilledInv
<1>3. /\ ports' = ports
      /\ \/ proc' = "exited" /\ crashes' = crashes
         \/ proc' = "down" /\ crashes' = crashes + 1
  BY DEF ProcMoves, Restart
<1>4. Binary = "up" /\ Binary' = "ended"
  BY <1>1, <1>2 DEF Binary, processVars
<1>5. Restarts' = Restarts /\ Restarts < MaxCrashes + 1
  BY <1>2, <1>3 DEF Restarts
<1>6. QED
  BY <1>1, <1>3, <1>4, <1>5 DEF Sessions!Ends, Sessions!hostVars, Sessions!mapVars,
     Sessions!history, Sessions!handlerVars, keptVars, processVars

\* A fresh process has the store and the maps empty.
LEMMA RestartForSessions ==
    ASSUME HostInv, LifeStep, Restart
    PROVE  Sessions!Restart
<1>1. proc = "down" /\ proc' = "up" /\ crashes' = crashes /\ ports' = [d \in Device |-> 0]
  BY DEF Restart, FreshProcess
<1>2. UNCHANGED keptVars /\ ForgetSessions
  BY <1>1 DEF LifeStep
<1>3. crashes \in 0..MaxCrashes /\ MaxCrashes \in Nat
  BY LifecycleAssumption DEF LifecycleAssumption, HostInv, LifeTypeOK
<1>4. Binary # "up" /\ Binary' = "up"
  BY <1>1 DEF Binary
<1>5. Restarts < MaxCrashes + 1 /\ Restarts' = Restarts + 1
  BY <1>1, <1>3 DEF Restarts
<1>6. QED
  BY <1>1, <1>2, <1>4, <1>5 DEF Sessions!Restart, ForgetSessions, keptVars, Sessions!history

LEMMA HostStepsSessions ==
    HostInv /\ [HostNext]_hostVars => [Sessions!Next]_Sessions!vars
<1> SUFFICES ASSUME HostInv, [HostNext]_hostVars
             PROVE  [Sessions!Next]_Sessions!vars
  OBVIOUS
<1>1. ASSUME NEW h \in Handler, HandlerStep(h)
      PROVE  Sessions!Next
  BY <1>1 DEF HandlerStep, Sessions!Next
<1>2. ASSUME NEW h \in Handler, RequestArrives(h)
      PROVE  Sessions!Next
  BY <1>2 DEF RequestArrives, Sessions!Next
<1>3. ASSUME NEW h \in Handler, KillsItself(h)
      PROVE  Sessions!Next
  <2>1. Binary = "up" /\ Sessions!StopKill9(h)
    BY <1>3 DEF KillsItself, Crash, Binary
  <2>2. QED
    BY <2>1 DEF Sessions!Next, Sessions!Handle
<1>4. CASE AppiumStep
  BY <1>4 DEF AppiumStep, Sessions!Next, Sessions!Host
<1>5. CASE LifeStep
  <2>1. ProcMoves
    BY <1>5, LifeMovesProc DEF LifeStep
  <2>2. CASE UNCHANGED <<proc, crashes>>
    BY <1>5, <2>2, LeasesToSessions
  <2>3. CASE Restart
    BY <1>5, <2>3, RestartForSessions DEF Sessions!Next
  <2>4. CASE proc = "up" /\ proc' # "up"
    BY <1>5, <2>1, <2>4, EndsForSessions DEF Sessions!Next
  <2>5. QED
    BY <2>1, <2>2, <2>3, <2>4 DEF ProcMoves
<1>6. CASE UNCHANGED hostVars
  BY <1>6 DEF hostVars, allVars, vars, storeVars, lifeVars, keptVars, processVars,
     Binary, Restarts, Sessions!vars, Sessions!runVars, Sessions!hostVars,
     Sessions!mapVars, Sessions!history, Sessions!handlerVars
<1>7. QED
  BY <1>1, <1>2, <1>3, <1>4, <1>5, <1>6 DEF HostNext

\* The watcher and the life cycle give the session handlers the surroundings that
\* AppiumSessions takes for granted: the binary as a whole implements it.
THEOREM HostImplementsSessions == HostSpec => SessionsSpec
<1>1. HostInit => Sessions!Init
  BY DEF HostInit
<1>2. QED
  BY <1>1, HostStepsSessions, HostInvHolds, PTL DEF HostSpec, SessionsSpec, Sessions!Spec

-----------------------------------------------------------------------------
(* What is proved of the sessions, taken over to the binary as a whole.    *)

Proved == INSTANCE AppiumSessionsProofs WITH
    Port <- FirstPort..MaxPort, MaxRestarts <- MaxCrashes + 1,
    binary <- Binary, restarts <- Restarts

\* The proofs' instance of AppiumSessions is the one the host is composed of.
LEMMA SameInit == Sessions!Init => Proved!Init
  BY DEF Sessions!Init, Proved!Init, Sessions!NoTask, Proved!NoTask,
     Sessions!Session, Proved!Session, Sessions!Process, Proved!Process

LEMMA SameNext == Sessions!Next => Proved!Next
  BY DEF Sessions!Next, Proved!Next, Sessions!Arrive, Proved!Arrive,
     Sessions!ArriveNew, Proved!ArriveNew, Sessions!ArriveDelete,
     Proved!ArriveDelete, Sessions!ArriveCommand, Proved!ArriveCommand,
     Sessions!RouteDelete, Proved!RouteDelete, Sessions!RouteCommand,
     Proved!RouteCommand, Sessions!Launch, Proved!Launch, Sessions!LaunchFails,
     Proved!LaunchFails, Sessions!StoreServer, Proved!StoreServer,
     Sessions!OpenSession, Proved!OpenSession, Sessions!BadGateway,
     Proved!BadGateway, Sessions!StoreRoute, Proved!StoreRoute,
     Sessions!ForwardDelete, Proved!ForwardDelete, Sessions!StopKill,
     Proved!StopKill, Sessions!StopForgets, Proved!StopForgets, Sessions!StopLsof,
     Proved!StopLsof, Sessions!StopNothing, Proved!StopNothing, Sessions!StopKill9,
     Proved!StopKill9, Sessions!LeasePort, Proved!LeasePort, Sessions!AppiumBinds,
     Proved!AppiumBinds, Sessions!AppiumExits, Proved!AppiumExits,
     Sessions!ConnectionCloses, Proved!ConnectionCloses, Sessions!Ends, Proved!Ends,
     Sessions!Restart, Proved!Restart, Sessions!Quiet, Proved!Quiet,
     Sessions!Handle, Proved!Handle, Sessions!Client, Proved!Client, Sessions!Host,
     Proved!Host, Sessions!vars, Proved!vars, Sessions!hostVars, Proved!hostVars,
     Sessions!mapVars, Proved!mapVars, Sessions!runVars, Proved!runVars,
     Sessions!handlerVars, Proved!handlerVars, Sessions!history, Proved!history,
     Sessions!Goto, Proved!Goto, Sessions!Return, Proved!Return, Sessions!Listening,
     Proved!Listening, Sessions!OnPort, Proved!OnPort, Sessions!BodyPort,
     Proved!BodyPort, Sessions!BodyServer, Proved!BodyServer, Sessions!Kill,
     Proved!Kill, Sessions!NoTask, Proved!NoTask, Sessions!Session, Proved!Session,
     Sessions!Process, Proved!Process, Sessions!Binary, Proved!Binary

LEMMA SameStep == [Sessions!Next]_Sessions!vars => [Proved!Next]_Proved!vars
  BY SameNext DEF Sessions!vars, Proved!vars, Sessions!hostVars, Proved!hostVars,
     Sessions!mapVars, Proved!mapVars, Sessions!runVars, Proved!runVars,
     Sessions!handlerVars, Proved!handlerVars, Sessions!history, Proved!history

LEMMA SameSpec == Sessions!Spec => Proved!Spec
  BY SameInit, SameStep, PTL DEF Sessions!Spec, Proved!Spec

LEMMA SessionsAssumptionHolds ==
    /\ NoDevice \notin Device
    /\ FirstPort..MaxPort \subseteq Nat \ {0}
    /\ ShellMayFork \in BOOLEAN
    /\ MaxRequests \in Nat /\ MaxLaunches \in Nat /\ MaxCrashes + 1 \in Nat
  BY HostAssumption, WatcherAssumption, LifecycleAssumption
     DEF HostAssumption, WatcherAssumption, LifecycleAssumption

LEMMA HostProved == HostSpec => Proved!Spec
  BY HostImplementsSessions, SameSpec, PTL DEF SessionsSpec

\* On the whole host, with ports leased by the watcher in any order and processes
\* that crash or are shut down at any point: a session id leads to the port of its
\* own device, and a session is held by a server launched for that device unless
\* an earlier run has left one there.
THEOREM SessionsCorrectOnHost ==
    HostSpec => [](Sessions!RoutesToItsDevice /\ Sessions!HeldByItsDevicesServer)
<1>1. Proved!Spec => []Proved!RoutesToItsDevice
  BY Proved!RoutesCorrect, SessionsAssumptionHolds
<1>2. Proved!Spec => []Proved!HeldByItsDevicesServer
  BY Proved!HoldersCorrect, SessionsAssumptionHolds
<1>3. Proved!RoutesToItsDevice => Sessions!RoutesToItsDevice
  BY DEF Proved!RoutesToItsDevice, Sessions!RoutesToItsDevice, Proved!Session, Sessions!Session
<1>4. Proved!HeldByItsDevicesServer => Sessions!HeldByItsDevicesServer
  BY DEF Proved!HeldByItsDevicesServer, Sessions!HeldByItsDevicesServer,
     Proved!Session, Sessions!Session
<1>5. QED
  BY <1>1, <1>2, <1>3, <1>4, HostProved, PTL

\* On the whole host a stopAppium ends only the server on the port of the device it
\* was called for, and does end the one it found there.
THEOREM StopCorrectOnHost ==
    HostSpec => Sessions!StopReachesNamedDevice /\ Sessions!StopEndsServer
<1>1. Proved!Spec => Proved!StopReachesNamedDevice
  BY Proved!StopReachesCorrect, SessionsAssumptionHolds
<1>2. Proved!Spec => Proved!StopEndsServer
  BY Proved!StopEndsCorrect, SessionsAssumptionHolds
<1>3. Proved!StopReachesNamedDevice => Sessions!StopReachesNamedDevice
  BY DEF Sessions!StopReachesNamedDevice, Proved!StopReachesNamedDevice,
     Sessions!Process, Proved!Process, Sessions!BodyPort, Proved!BodyPort,
     Sessions!vars, Proved!vars, Sessions!hostVars, Proved!hostVars,
     Sessions!mapVars, Proved!mapVars, Sessions!runVars, Proved!runVars,
     Sessions!handlerVars, Proved!handlerVars, Sessions!history, Proved!history
<1>4. Proved!StopEndsServer => Sessions!StopEndsServer
  BY DEF Sessions!StopEndsServer, Proved!StopEndsServer, Sessions!vars, Proved!vars,
     Sessions!hostVars, Proved!hostVars, Sessions!mapVars, Proved!mapVars,
     Sessions!runVars, Proved!runVars, Sessions!handlerVars, Proved!handlerVars,
     Sessions!history, Proved!history
<1>5. QED
  BY <1>1, <1>2, <1>3, <1>4, HostProved, PTL

-----------------------------------------------------------------------------
(* The port of a server that is launched.                                  *)

\* Only startAppium starts an Appium process.
LEMMA HandleLaunches ==
    ASSUME NEW h \in Handler, Sessions!Handle(h), launched' # launched
    PROVE  Sessions!Launch(h)
  BY DEF Sessions!Handle, Sessions!RouteDelete, Sessions!RouteCommand,
     Sessions!LaunchFails, Sessions!StoreServer, Sessions!OpenSession,
     Sessions!BadGateway, Sessions!StoreRoute, Sessions!ForwardDelete,
     Sessions!StopKill, Sessions!StopForgets, Sessions!StopLsof, Sessions!StopNothing,
     Sessions!StopKill9, Sessions!hostVars

LEMMA HostLaunches ==
    ASSUME [HostNext]_hostVars, launched' # launched
    PROVE  \E h \in Handler : Sessions!Launch(h) /\ UNCHANGED allVars
<1>1. ASSUME NEW h \in Handler, HandlerStep(h)
      PROVE  Sessions!Launch(h) /\ UNCHANGED allVars
  BY <1>1, HandleLaunches DEF HandlerStep
<1>2. ASSUME NEW h \in Handler, RequestArrives(h)
      PROVE  FALSE
  BY <1>2 DEF RequestArrives, Sessions!Client, Sessions!ArriveNew, Sessions!ArriveDelete,
     Sessions!ArriveCommand, Sessions!Arrive, Sessions!hostVars
<1>3. ASSUME NEW h \in Handler, KillsItself(h)
      PROVE  FALSE
  BY <1>3 DEF KillsItself, Sessions!StopKill9
<1>4. CASE AppiumStep
  BY <1>4 DEF AppiumStep, Sessions!AppiumBinds, Sessions!AppiumExits,
     Sessions!ConnectionCloses
<1>5. CASE LifeStep \/ UNCHANGED hostVars
  BY <1>5 DEF LifeStep, hostVars, keptVars
<1>6. QED
  BY <1>1, <1>2, <1>3, <1>4, <1>5 DEF HostNext

\* startAppium finds a port for each device this run of the binary has announced
\* as present, also when the POST races with the scan that announces it.
THEOREM AnnouncedGetServerWithPortHolds == HostSpec => AnnouncedGetServerWithPort
<1> DEFINE Given == \A d \in Device :
      launched' # launched /\ forDevice'[launched'] = d /\ announced[d] # "disconnected"
          => StoreMayFail \/ portOf'[launched'] # 0
<1>1. Proved!Spec => []Proved!TypeOK
  BY Proved!TypeCorrect, SessionsAssumptionHolds
<1>2. Proved!TypeOK => launched \in 0..MaxLaunches
                       /\ portOf \in [1..MaxLaunches -> (FirstPort..MaxPort) \cup {0}]
                       /\ forDevice \in [1..MaxLaunches -> Device \cup {NoDevice}]
  BY DEF Proved!TypeOK, Proved!Process
<1>3. HostInv /\ Proved!TypeOK /\ [HostNext]_hostVars => [Given]_hostVars
  <2> SUFFICES ASSUME HostInv, Proved!TypeOK, [HostNext]_hostVars,
                      NEW d \in Device, launched' # launched,
                      forDevice'[launched'] = d, announced[d] # "disconnected",
                      ~StoreMayFail
               PROVE  portOf'[launched'] # 0
    OBVIOUS
  <2>1. PICK h \in Handler : Sessions!Launch(h)
    BY HostLaunches
  <2>2. launched' \in 1..MaxLaunches
    BY <1>2, <2>1, HostAssumption DEF HostAssumption, Sessions!Launch
  <2>3. d = task[h].dev /\ portOf'[launched'] = ports[d]
    BY <1>2, <2>1, <2>2 DEF Sessions!Launch
  <2>4. PresentDevicesHavePorts
    BY PresentSuffices DEF HostInv
  <2>5. QED
    BY <2>3, <2>4 DEF PresentDevicesHavePorts
<1>4. QED
  BY <1>1, <1>3, HostInvHolds, HostProved, PTL DEF HostSpec, AnnouncedGetServerWithPort

=============================================================================
