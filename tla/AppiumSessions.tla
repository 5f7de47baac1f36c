---------------------------- MODULE AppiumSessions ----------------------------
(***************************************************************************)
(* WebDriver sessions (services/session.go): POST /wd/hub/session starts   *)
(* an Appium server on the port leased to the device and forwards the      *)
(* request to it; the session id in the answer is mapped to that server;   *)
(* DELETE forwards and then, in a goroutine of its own, stops the server.  *)
(* Handlers and these goroutines share AppiumServers, ReverseProxyMap, the *)
(* port store and the host's processes; nothing makes one wait for another.*)
(***************************************************************************)
EXTENDS Naturals, FiniteSets

CONSTANTS
    Device, NoDevice,   \* UDIDs; what a body without "udid" decodes to
    Handler,            \* goroutines of the HTTP server
    Port,               \* ports the watcher may lease
    ShellMayFork,       \* whether `sh -c` may run the command in a child
    MaxRequests,        \* bound: requests served
    MaxLaunches,        \* bound: Appium processes started
    MaxRestarts         \* bound: starts of the binary after its first

ASSUME SessionsAssumption ==
    /\ NoDevice \notin Device
    /\ Port \subseteq Nat \ {0}
    /\ ShellMayFork \in BOOLEAN
    /\ MaxRequests \in Nat /\ MaxLaunches \in Nat /\ MaxRestarts \in Nat

Session == 1..MaxRequests    \* a session is named after the request that opens it
Process == 1..MaxLaunches
Binary  == 0                 \* this process, among those lsof may list

\* What a handler holds while it serves a request.
Task == [dev : Device \cup {NoDevice}, id : 0..MaxRequests, manual : BOOLEAN,
         port : Port \cup {0}, pid : 0..MaxLaunches, target : 0..MaxLaunches]

NoTask == [dev |-> NoDevice, id |-> 0, manual |-> FALSE, port |-> 0, pid |-> 0,
           target |-> 0]

VARIABLES
    ports,        \* "Appium_Port_"+udid in byod.db, 0 = no entry
    binary,       \* "up", "killed" by its own kill -9, or "ended" in another way
    restarts,     \* how often it was started again
    appium,       \* Appium processes: "none", "starting", "listening", "dead"
    portOf,       \* the -p argument a process was given
    launched,     \* Appium processes started so far
    conns,        \* processes the proxies hold a connection to
    live,         \* live[s]: the process that holds session s, 0 = none
    appiumServers,  \* AppiumServers, 0 = no entry
    routes,       \* ReverseProxyMap of session ids: a proxy's port, 0 = no entry
    served,       \* requests that have arrived
    pc, task,     \* per handler: where it is; the udid and session it is about,
                  \* startAppium's and stopAppium's port and process and, as
                  \* history, what listened when stopAppium began (target)
    owner,        \* history: the device a session was asked for
    forDevice,    \* history: the device an Appium process was launched for
    orphans       \* history: the Appium processes an earlier run had launched

hostVars    == <<appium, portOf, launched, conns, live>>
mapVars     == <<appiumServers, routes>>
runVars     == <<binary, restarts, orphans>>
handlerVars == <<pc, task>>
history     == <<owner, forDevice>>
vars == <<ports, runVars, hostVars, mapVars, served, history, handlerVars>>

Listening(q) == {p \in Process : appium[p] = "listening" /\ portOf[p] = q}

Goto(h, l) == pc' = [pc EXCEPT ![h] = l]

\* The handler, or the goroutine that went on from it, returns.
Return(h) == Goto(h, "idle") /\ task' = [task EXCEPT ![h] = NoTask]

-----------------------------------------------------------------------------
Init ==
    /\ ports = [d \in Device |-> 0]
    /\ binary = "up" /\ restarts = 0 /\ orphans = {}
    /\ appium = [p \in Process |-> "none"]
    /\ portOf = [p \in Process |-> 0]
    /\ launched = 0 /\ conns = {}
    /\ live = [s \in Session |-> 0]
    /\ appiumServers = [d \in Device |-> 0]
    /\ routes = [s \in Session |-> 0]
    /\ served = 0
    /\ pc = [h \in Handler |-> "idle"]
    /\ task = [h \in Handler |-> NoTask]
    /\ owner = [s \in Session |-> NoDevice]
    /\ forDevice = [p \in Process |-> NoDevice]

-----------------------------------------------------------------------------
(* Around the handlers: the watcher, the Appium processes, connections.    *)

\* The watcher's setAppiumPort, as PortLease says it.
LeasePort(d, q) ==
    /\ ports[d] = 0 /\ \A e \in Device : ports[e] # q
    /\ ports' = [ports EXCEPT ![d] = q]
    /\ UNCHANGED <<runVars, hostVars, mapVars, served, history, handlerVars>>

\* Appium takes its port, however long after its start.
AppiumBinds(p) ==
    /\ appium[p] = "starting" /\ portOf[p] # 0 /\ Listening(portOf[p]) = {}
    /\ appium' = [appium EXCEPT ![p] = "listening"]
    /\ UNCHANGED <<ports, runVars, portOf, launched, conns, live, mapVars, served,
                   history, handlerVars>>

\* Appium exits when it was given no port, or one that is taken.
AppiumExits(p) ==
    /\ appium[p] = "starting" /\ (portOf[p] = 0 \/ Listening(portOf[p]) # {})
    /\ appium' = [appium EXCEPT ![p] = "dead"]
    /\ UNCHANGED <<ports, runVars, portOf, launched, conns, live, mapVars, served,
                   history, handlerVars>>

\* A connection kept open for reuse is closed, by a timeout or by Appium's end.
ConnectionCloses(p) ==
    /\ p \in conns
    /\ conns' = conns \ {p}
    /\ UNCHANGED <<ports, runVars, appium, portOf, launched, live, mapVars, served,
                   history, handlerVars>>

-----------------------------------------------------------------------------
(* SessionHandler.                                                         *)

\* A request comes in.
Arrive(h, l, t) ==
    /\ binary = "up" /\ pc[h] = "idle" /\ served < MaxRequests
    /\ served' = served + 1
    /\ Goto(h, l)
    /\ task' = [task EXCEPT ![h] = t]
    /\ UNCHANGED <<ports, runVars, hostVars, mapVars, forDevice>>

\* POST /wd/hub/session: a session on a device, for a manual test or another.
ArriveNew(h, d, manual) ==
    /\ Arrive(h, "launch", [NoTask EXCEPT !.dev = d, !.id = served + 1, !.manual = manual])
    /\ owner' = [owner EXCEPT ![served + 1] = d]

\* DELETE of a session that was asked for.  Whatever udid the body has is the one
\* Appium is stopped for, be it the session's, another device's or none.
ArriveDelete(h, s, d) ==
    /\ s <= served
    /\ Arrive(h, "delete", [NoTask EXCEPT !.dev = d, !.id = s])
    /\ UNCHANGED owner

\* A WebDriver command for it, on a path below the session's.
ArriveCommand(h, s) ==
    /\ s <= served
    /\ Arrive(h, "command", [NoTask EXCEPT !.id = s])
    /\ UNCHANGED owner

\* ReverseProxyMap.Load: an id without an entry is an invalid session.
RouteDelete(h) ==
    /\ pc[h] = "delete"
    /\ IF routes[task[h].id] = 0 THEN Return(h)
       ELSE Goto(h, "forward") /\ task' = [task EXCEPT ![h].port = routes[task[h].id]]
    /\ UNCHANGED <<ports, runVars, hostVars, mapVars, served, history>>

\* regexSessionID does not match the path, so the id is "", which has no entry.
RouteCommand(h) ==
    /\ pc[h] = "command"
    /\ Return(h)
    /\ UNCHANGED <<ports, runVars, hostVars, mapVars, served, history>>

-----------------------------------------------------------------------------
(* handleNewSession.                                                       *)

\* startAppium reads the port, which is "" without an entry, and executes Appium.
Launch(h) ==
    /\ pc[h] = "launch" /\ launched < MaxLaunches
    /\ launched' = launched + 1
    /\ appium' = [appium EXCEPT ![launched'] = "starting"]
    /\ portOf' = [portOf EXCEPT ![launched'] = ports[task[h].dev]]
    /\ task' = [task EXCEPT ![h].port = ports[task[h].dev], ![h].pid = launched']
    /\ forDevice' = [forDevice EXCEPT ![launched'] = task[h].dev]
    /\ Goto(h, "store")
    /\ UNCHANGED <<ports, runVars, conns, live, mapVars, served, owner>>

\* sh cannot be started: an empty port, and on to the proxy.
LaunchFails(h) ==
    /\ pc[h] = "launch"
    /\ Goto(h, "open")
    /\ UNCHANGED <<ports, runVars, hostVars, mapVars, served, history, task>>

\* AppiumServers.Store replaces what is there; 5 s of sleep follow.
StoreServer(h) ==
    /\ pc[h] = "store"
    /\ appiumServers' = [appiumServers EXCEPT ![task[h].dev] = task[h].pid]
    /\ Goto(h, "open")
    /\ UNCHANGED <<ports, runVars, hostVars, routes, served, history, task>>

\* Mutant of OpenSession: the handlers share one target, the last one launched.
OpenSessionShared(h) ==
    /\ pc[h] = "open" /\ task[h].manual
    /\ \E p \in IF launched = 0 THEN {} ELSE Listening(portOf[launched]) :
          /\ live' = [live EXCEPT ![task[h].id] = p]
          /\ conns' = conns \cup {p}
    /\ Goto(h, "answer")
    /\ UNCHANGED <<ports, runVars, appium, portOf, launched, mapVars, served, history,
                   task>>

\* The proxy forwards to whatever listens on the port.  Only a manual test has a
\* body left to send: that of any other was read by SessionHandler's decoder, and
\* the transport refuses a request shorter than its Content-Length.
OpenSession(h) ==
    /\ pc[h] = "open" /\ task[h].manual
    /\ \E p \in Listening(task[h].port) :
          /\ live' = [live EXCEPT ![task[h].id] = p]
          /\ conns' = conns \cup {p}
    /\ Goto(h, "answer")
    /\ UNCHANGED <<ports, runVars, appium, portOf, launched, mapVars, served, history,
                   task>>

BadGateway(h) ==
    /\ pc[h] = "open" /\ (~task[h].manual \/ Listening(task[h].port) = {})
    /\ Return(h)
    /\ UNCHANGED <<ports, runVars, hostVars, mapVars, served, history>>

\* Mutant of StoreRoute: the command's number is stored in place of its port.
StoreRoutePid(h) ==
    /\ pc[h] = "answer"
    /\ routes' = [routes EXCEPT ![task[h].id] = task[h].pid]
    /\ Return(h)
    /\ UNCHANGED <<ports, runVars, hostVars, appiumServers, served, history>>

\* Mutant of StoreRoute: the handlers share one target, the last one launched.
StoreRouteShared(h) ==
    /\ pc[h] = "answer"
    /\ routes' = [routes EXCEPT ![task[h].id] = portOf[launched]]
    /\ Return(h)
    /\ UNCHANGED <<ports, runVars, hostVars, appiumServers, served, history>>

\* ModifyResponse maps the id in the answer to the proxy it came through.
StoreRoute(h) ==
    /\ pc[h] = "answer"
    /\ routes' = [routes EXCEPT ![task[h].id] = task[h].port]
    /\ Return(h)
    /\ UNCHANGED <<ports, runVars, hostVars, appiumServers, served, history>>

-----------------------------------------------------------------------------
(* handleSessionDeletion and stopAppium.                                   *)

\* What the body's udid finds in the store and in AppiumServers.
BodyPort(h)   == IF task[h].dev = NoDevice THEN 0 ELSE ports[task[h].dev]
BodyServer(h) == IF task[h].dev = NoDevice THEN 0 ELSE appiumServers[task[h].dev]

\* The DELETE is forwarded and answered, whatever came of it; `go stopAppium`.
ForwardDelete(h) ==
    /\ pc[h] = "forward"
    /\ conns' = conns \cup Listening(task[h].port)
    /\ live' = IF live[task[h].id] \in Listening(task[h].port)
               THEN [live EXCEPT ![task[h].id] = 0] ELSE live
    /\ \E p \in IF Listening(BodyPort(h)) = {} THEN {0} ELSE Listening(BodyPort(h)) :
          task' = [task EXCEPT ![h].target = p]
    /\ Goto(h, "kill")
    /\ UNCHANGED <<ports, runVars, appium, portOf, launched, mapVars, served, history>>

Kill(p) == appium' = [appium EXCEPT ![p] = "dead"]

\* The command found in AppiumServers is killed: Appium itself, or only the shell.
StopKill(h) ==
    /\ pc[h] = "kill"
    /\ \/ BodyServer(h) = 0 /\ Goto(h, "lsof") /\ UNCHANGED appium
       \/ BodyServer(h) # 0 /\ Goto(h, "forget") /\ Kill(BodyServer(h))
       \/ BodyServer(h) # 0 /\ Goto(h, "forget") /\ ShellMayFork /\ UNCHANGED appium
    /\ UNCHANGED <<ports, runVars, portOf, launched, conns, live, mapVars, served,
                   history, task>>

\* Mutant of StopForgets: with an entry found, the port is not looked at.
StopForgetsOnly(h) ==
    /\ pc[h] = "forget"
    /\ appiumServers' = [appiumServers EXCEPT ![task[h].dev] = 0]
    /\ Return(h)
    /\ UNCHANGED <<ports, runVars, hostVars, routes, served, history>>

\* The entry is deleted, whichever command it holds by now.
StopForgets(h) ==
    /\ pc[h] = "forget"
    /\ appiumServers' = [appiumServers EXCEPT ![task[h].dev] = 0]
    /\ Goto(h, "lsof")
    /\ UNCHANGED <<ports, runVars, hostVars, routes, served, history, task>>

\* Mutant of OnPort: lsof is not told the port.
OnAnyPort(q) == {p \in Process : appium[p] = "listening"}

\* What `lsof -i:<port>` lists: who listens there and who is connected to that,
\* the proxies' connections being this very process.  (A connection to a process
\* that has ended is taken to be closed by the time lsof looks.)
OnPort(q) ==
    Listening(q) \cup (IF conns \cap Listening(q) # {} THEN {Binary} ELSE {})

\* KillProcessOnPort takes the process on the first line, the lowest pid.
StopLsof(h) ==
    /\ pc[h] = "lsof" /\ BodyPort(h) # 0
    /\ \E p \in OnPort(BodyPort(h)) : task' = [task EXCEPT ![h].pid = p]
    /\ Goto(h, "kill9")
    /\ UNCHANGED <<ports, runVars, hostVars, mapVars, served, history>>

\* There is no port, or lsof lists nothing.
StopNothing(h) ==
    /\ pc[h] = "lsof" /\ (BodyPort(h) = 0 \/ OnPort(BodyPort(h)) = {})
    /\ Return(h)
    /\ UNCHANGED <<ports, runVars, hostVars, mapVars, served, history>>

StopKill9(h) ==
    /\ pc[h] = "kill9"
    /\ IF task[h].pid = Binary
       THEN binary' = "killed" /\ UNCHANGED appium
       ELSE Kill(task[h].pid) /\ UNCHANGED binary
    /\ Return(h)
    /\ UNCHANGED <<ports, restarts, orphans, portOf, launched, conns, live, mapVars,
                   served, history>>

Handle(h) ==
    /\ binary = "up"
    /\ \/ RouteDelete(h) \/ RouteCommand(h)
       \/ Launch(h) \/ LaunchFails(h) \/ StoreServer(h)
       \/ OpenSession(h) \/ BadGateway(h) \/ StoreRoute(h)
       \/ ForwardDelete(h) \/ StopKill(h) \/ StopForgets(h)
       \/ StopLsof(h) \/ StopNothing(h) \/ StopKill9(h)

Client(h) ==
    \/ \E d \in Device, manual \in BOOLEAN : ArriveNew(h, d, manual)
    \/ \E s \in Session : \/ ArriveCommand(h, s)
                          \/ \E d \in Device \cup {NoDevice} : ArriveDelete(h, s, d)

Host ==
    \/ \E d \in Device, q \in Port : LeasePort(d, q)
    \/ \E p \in Process : AppiumBinds(p) \/ AppiumExits(p) \/ ConnectionCloses(p)

-----------------------------------------------------------------------------
(* The binary ends and is started again.                                   *)

\* The handlers are gone; the Appium processes are not.
Ends ==
    /\ binary = "up" /\ restarts < MaxRestarts
    /\ binary' = "ended"
    /\ UNCHANGED <<ports, restarts, orphans, hostVars, mapVars, served, history,
                   handlerVars>>

\* storage.init removes byod.db, and nothing of the maps is kept: the ports are
\* leased anew while servers of the earlier run may listen on them.
Restart ==
    /\ binary # "up" /\ restarts < MaxRestarts
    /\ binary' = "up" /\ restarts' = restarts + 1
    /\ ports' = [d \in Device |-> 0]
    /\ appiumServers' = [d \in Device |-> 0]
    /\ routes' = [s \in Session |-> 0]
    /\ conns' = {}
    /\ pc' = [h \in Handler |-> "idle"]
    /\ task' = [h \in Handler |-> NoTask]
    /\ orphans' = 1..launched
    /\ UNCHANGED <<appium, portOf, launched, live, served, history>>

\* The requests of the bound are served, or the process that serves them is gone.
Quiet ==
    /\ \/ binary # "up"
       \/ served = MaxRequests /\ \A h \in Handler : pc[h] = "idle"
    /\ UNCHANGED vars

Next == (\E h \in Handler : Handle(h) \/ Client(h)) \/ Host \/ Ends \/ Restart \/ Quiet

Spec == Init /\ [][Next]_vars

-----------------------------------------------------------------------------
(* Properties.                                                             *)

\* Every variable ranges over the values the code can give it.
TypeOK ==
    /\ ports \in [Device -> Port \cup {0}]
    /\ binary \in {"up", "killed", "ended"} /\ restarts \in 0..MaxRestarts
    /\ orphans \in SUBSET Process
    /\ appium \in [Process -> {"none", "starting", "listening", "dead"}]
    /\ portOf \in [Process -> Port \cup {0}]
    /\ launched \in 0..MaxLaunches
    /\ conns \in SUBSET Process
    /\ live \in [Session -> 0..MaxLaunches]
    /\ appiumServers \in [Device -> 0..MaxLaunches]
    /\ routes \in [Session -> Port \cup {0}]
    /\ served \in 0..MaxRequests
    /\ pc \in [Handler -> {"idle", "delete", "command", "launch", "store", "open",
                           "answer", "forward", "kill", "forget", "lsof", "kill9"}]
    /\ task \in [Handler -> Task]
    /\ owner \in [Session -> Device \cup {NoDevice}]
    /\ forDevice \in [Process -> Device \cup {NoDevice}]

\* A session id leads to the port of the device the session was asked for, and a
\* session that is open there is held by a process on that very port.
RoutesToItsDevice ==
    \A s \in Session : routes[s] # 0 =>
        /\ owner[s] \in Device /\ routes[s] = ports[owner[s]]
        /\ live[s] # 0 => portOf[live[s]] = routes[s]

\* A session is held by a server launched for its own device, in whatever order
\* requests, launches, late stops and leases came; only a server that an earlier
\* run of the binary has left on the port may hold one of another device.
HeldByItsDevicesServer ==
    \A s \in Session : live[s] # 0 =>
        live[s] \in orphans \/ forDevice[live[s]] = owner[s]

\* A listening server dies only at the hands of a stopAppium for the device that
\* its port is leased to: whichever command AppiumServers holds by then, whatever
\* overlapping POSTs, late stops and restarts have left in the store and on the
\* ports, a stop reaches no other device than the one it was called for.  (Which
\* one that is the body of the DELETE says, and not the session that is deleted.)
StopReachesNamedDevice ==
    [][\A p \in Process :
          appium[p] = "listening" /\ appium'[p] = "dead" =>
              \E h \in Handler : /\ pc[h] \in {"kill", "kill9"} /\ pc'[h] # pc[h]
                                 /\ BodyPort(h) = portOf[p]]_vars

\* When stopAppium has returned, the server that listened on the device's port
\* when it began is gone, also when AppiumServers held another one by then or the
\* kill only hit the shell; unless this process has ended instead.
StopEndsServer ==
    [][\A h \in Handler :
          pc[h] \in {"kill", "forget", "lsof", "kill9"} /\ pc'[h] = "idle" =>
              \/ task[h].target = 0
              \/ appium'[task[h].target] = "dead"
              \/ binary' = "killed"
              \/ binary # "up"]_vars

\* session.go:142: stopAppium stops the Appium server of the device; it does not
\* stop the binary that runs it.
BinarySurvivesStop == binary # "killed"
=============================================================================
