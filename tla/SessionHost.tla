----------------------------- MODULE SessionHost -----------------------------
(***************************************************************************)
(* The binary as a whole: the watcher leases Appium ports, the session     *)
(* handlers read them from the same byod.db, main starts and stops the     *)
(* HTTP server the handlers run under, and a crash or an exit ends them    *)
(* all.  The handlers are those of AppiumSessions, whose assumptions about *)
(* its surroundings (LeasePort, Ends, Restart) the life cycle and the      *)
(* watcher have to fulfil.                                                 *)
(***************************************************************************)
EXTENDS HostLifecycle

CONSTANTS
    NoDevice, Handler, ShellMayFork,    \* as in AppiumSessions
    MaxRequests, MaxLaunches,           \* bounds: as in AppiumSessions
    MaxPort                             \* bound: the last port leased

ASSUME HostAssumption ==
    /\ NoDevice \notin Device
    /\ ShellMayFork \in BOOLEAN
    /\ MaxRequests \in Nat /\ MaxLaunches \in Nat /\ MaxPort \in Nat

VARIABLES
    killed,       \* the process was ended by its own stopAppium
    appium, portOf, launched, conns, live, appiumServers, routes, served,
    pc, task, owner, forDevice, orphans    \* as in AppiumSessions

keptVars    == <<appium, portOf, launched, live, served, owner, forDevice>>
processVars == <<killed, conns, appiumServers, routes, pc, task, orphans>>
hostVars    == <<allVars, keptVars, processVars>>

\* What the session handlers see of the process that runs them.
Binary == IF proc = "up" THEN "up" ELSE IF killed THEN "killed" ELSE "ended"

\* Every crash but the one the process is down from was followed by a restart.
Restarts == IF proc = "down" THEN crashes - 1 ELSE crashes

Sessions == INSTANCE AppiumSessions WITH
    Port <- FirstPort..MaxPort, MaxRestarts <- MaxCrashes + 1,
    binary <- Binary, restarts <- Restarts

HostInit == LifeInit /\ killed = FALSE /\ Sessions!Init

-----------------------------------------------------------------------------
\* A handler, or a stopAppium it has started, goes on; this needs no server.
HandlerStep(h) ==
    /\ proc = "up"
    /\ UNCHANGED <<allVars, killed>>
    /\ Sessions!Handle(h)

\* The HTTP server accepts a request.
RequestArrives(h) ==
    /\ proc = "up" /\ srv = "serving"
    /\ UNCHANGED <<allVars, killed>>
    /\ Sessions!Client(h)

\* stopAppium's kill -9 hits this very process, which dies as in a crash.
KillsItself(h) ==
    /\ Crash
    /\ killed' = TRUE
    /\ Sessions!StopKill9(h)

\* Appium processes and connections move on by themselves, whatever the binary does.
AppiumStep ==
    /\ UNCHANGED <<allVars, killed>>
    /\ \E p \in Sessions!Process :
          \/ Sessions!AppiumBinds(p) \/ Sessions!AppiumExits(p)
          \/ Sessions!ConnectionCloses(p)

\* A fresh process has the maps of services empty, and no handler runs.
ForgetSessions ==
    /\ killed' = FALSE
    /\ appiumServers' = [d \in Device |-> 0]
    /\ routes' = [s \in Sessions!Session |-> 0]
    /\ conns' = {}
    /\ pc' = [h \in Handler |-> "idle"]
    /\ task' = [h \in Handler |-> Sessions!NoTask]
    /\ orphans' = 1..launched

\* A step of main, of the watcher or of the world around them.  Bound: no port
\* beyond MaxPort is leased.
LifeStep ==
    /\ LifeNext
    /\ baseAppiumPort' <= MaxPort + 1
    /\ UNCHANGED keptVars
    /\ IF proc = "down" /\ proc' = "up" THEN ForgetSessions
                                        ELSE UNCHANGED processVars

HostNext ==
    \/ \E h \in Handler : HandlerStep(h) \/ RequestArrives(h) \/ KillsItself(h)
    \/ AppiumStep
    \/ LifeStep

HostSpec == HostInit /\ [][HostNext]_hostVars

-----------------------------------------------------------------------------
(* Properties.                                                             *)

\* Seen from the session handlers the watcher and the life cycle behave as
\* AppiumSessions takes for granted: ports appear one at a time, free ones, for
\* devices that have none, and are lost only together with the handlers and maps.
SessionsSpec == Sessions!Spec

\* startAppium finds a port for each device this run of the binary has announced
\* as present, also when the POST races with the comparison that announces it.
AnnouncedGetServerWithPort ==
    [][\A d \in Device :
          launched' # launched /\ forDevice'[launched'] = d /\ announced[d] # "disconnected"
              => StoreMayFail \/ portOf'[launched'] # 0]_hostVars
=============================================================================
