------------------------- MODULE AppiumSessionsProofs -------------------------
(***************************************************************************)
(* Proofs about WebDriver sessions, for any number of devices, handlers,   *)
(* ports, requests, Appium processes and restarts of the binary.           *)
(***************************************************************************)
EXTENDS AppiumSessions, TLAPS

-----------------------------------------------------------------------------
(* The inductive invariant, in the parts the code's argument has.          *)

\* The Appium processes this run of the binary has launched.
Own == (1..launched) \ orphans

\* Processes are numbered in the order of their launch.  A listening one has a port,
\* alone; one of this run that was given a port was given its device's.
ProcessInv ==
    /\ orphans \subseteq 1..launched
    /\ \A p \in Process : p > launched => appium[p] = "none"
    /\ \A p \in Process : appium[p] = "listening" => portOf[p] # 0
    /\ \A p, q \in Process :
          appium[p] = "listening" /\ appium[q] = "listening" /\ portOf[p] = portOf[q]
              => p = q
    /\ \A p \in Own :
          portOf[p] # 0 => forDevice[p] \in Device /\ portOf[p] = ports[forDevice[p]]

\* A port is leased to one device, and AppiumServers holds processes of this run.
DeviceInv ==
    /\ \A d, e \in Device : ports[d] # 0 /\ ports[d] = ports[e] => d = e
    /\ \A d \in Device : appiumServers[d] # 0 =>
          appiumServers[d] \in Own /\ forDevice[appiumServers[d]] = d

\* A handler that opens a session holds the device it was asked for, and its port or
\* none; whoever holds the session so far is on that port.
OpenOk(h) ==
    pc[h] \in {"launch", "store", "open", "answer"} =>
        /\ task[h].dev \in Device /\ task[h].id \in 1..served
        /\ owner[task[h].id] = task[h].dev
        /\ task[h].port \in {0, ports[task[h].dev]}
        /\ live[task[h].id] # 0 => portOf[live[task[h].id]] = ports[task[h].dev]
        /\ live[task[h].id] # 0 => ports[task[h].dev] # 0
        /\ pc[h] = "store" => task[h].pid \in Own /\ forDevice[task[h].pid] = task[h].dev
        /\ pc[h] = "answer" => task[h].port # 0

OpenInv == \A h \in Handler : OpenOk(h)

\* What stopAppium is after still listens on the device's port, or has ended; once
\* lsof has answered, it is what will be killed, unless this process is.
StopOk(h) ==
    /\ pc[h] \in {"delete", "forward", "kill", "forget", "lsof", "kill9"} =>
          task[h].id \in 1..served
    /\ pc[h] \in {"kill", "forget", "lsof", "kill9"} /\ task[h].target # 0 =>
          \/ appium[task[h].target] = "dead"
          \/ /\ appium[task[h].target] = "listening"
             /\ portOf[task[h].target] = BodyPort(h)
    /\ pc[h] = "forget" => task[h].dev \in Device
    /\ pc[h] = "kill9" => BodyPort(h) # 0
    /\ pc[h] = "kill9" /\ task[h].pid # Binary =>
          task[h].pid <= launched /\ portOf[task[h].pid] = BodyPort(h)
    /\ pc[h] = "kill9" /\ task[h].target # 0 =>
          appium[task[h].target] = "dead" \/ task[h].pid \in {Binary, task[h].target}

StopInv == \A h \in Handler : StopOk(h)

\* Sessions belong to requests that have arrived, and to processes launched.
SessionInv ==
    /\ RoutesToItsDevice /\ HeldByItsDevicesServer
    /\ \A s \in Session : live[s] <= launched
    /\ \A s \in Session : s > served => live[s] = 0 /\ routes[s] = 0

IInv == TypeOK /\ ProcessInv /\ DeviceInv /\ OpenInv /\ StopInv /\ SessionInv

-----------------------------------------------------------------------------
LEMMA NoTaskType == NoTask \in Task
  BY SessionsAssumption DEF SessionsAssumption, NoTask, Task

\* A step that leaves a handler and what it looks at alone keeps its part.
LEMMA OpenFrame ==
    ASSUME NEW g \in Handler, OpenOk(g), task'[g] = task[g], pc'[g] = pc[g],
           UNCHANGED <<ports, owner, served, live, portOf, forDevice, launched, orphans>>
    PROVE  OpenOk(g)'
  BY DEF OpenOk, Own

LEMMA StopFrame ==
    ASSUME NEW g \in Handler, StopOk(g), task'[g] = task[g], pc'[g] = pc[g],
           UNCHANGED <<ports, served, appium, portOf, launched>>
    PROVE  StopOk(g)'
  BY DEF StopOk, BodyPort

\* The same for a step that changes processes, or whom sessions are held by: none of
\* this run is taken away, and a session that is held is on its device's port.
LEMMA OpenStep ==
    ASSUME NEW g \in Handler, OpenOk(g), task'[g] = task[g], pc'[g] = pc[g], TypeOK,
           ports' = ports, served <= served', served' \in Nat,
           \A s \in 1..served : owner'[s] = owner[s],
           \A s \in 1..served : live'[s] # 0 =>
              \/ live'[s] = live[s] /\ portOf'[live[s]] = portOf[live[s]]
              \/ ports[owner[s]] # 0 /\ portOf'[live'[s]] = ports[owner[s]],
           \A p \in Own : p \in Own' /\ forDevice'[p] = forDevice[p]
    PROVE  OpenOk(g)'
<1>1. SUFFICES ASSUME pc[g] \in {"launch", "store", "open", "answer"}
               PROVE  OpenOk(g)'
  BY DEF OpenOk
<1> DEFINE s == task[g].id
<1>2. /\ task[g].dev \in Device /\ s \in 1..served /\ s \in 1..served'
      /\ owner[s] = task[g].dev /\ owner'[s] = task[g].dev
      /\ task[g].port \in {0, ports[task[g].dev]}
  BY <1>1 DEF OpenOk, TypeOK
<1>3. live'[s] # 0 => portOf'[live'[s]] = ports[task[g].dev] /\ ports[task[g].dev] # 0
  BY <1>1, <1>2 DEF OpenOk
<1>4. QED
  BY <1>1, <1>2, <1>3 DEF OpenOk

\* And for stopAppium: processes are added, and listening ones may end.
LEMMA StopStep ==
    ASSUME NEW g \in Handler, StopOk(g), task'[g] = task[g], pc'[g] = pc[g], TypeOK,
           ProcessInv, ports' = ports, served <= served', served' \in Nat,
           launched <= launched', launched' \in Nat,
           \A p \in 1..launched : portOf'[p] = portOf[p],
           \A p \in Process : appium[p] = "dead" => appium'[p] = "dead",
           \A p \in Process : appium[p] = "listening" =>
              appium'[p] \in {"listening", "dead"}
    PROVE  StopOk(g)'
<1> DEFINE t == task[g]
<1>1. /\ t.id \in 0..MaxRequests /\ t.pid \in 0..MaxLaunches /\ t.target \in 0..MaxLaunches
      /\ served \in Nat /\ launched \in 0..MaxLaunches /\ MaxLaunches \in Nat
  BY SessionsAssumption DEF SessionsAssumption, TypeOK, Task
<1>2. BodyPort(g)' = BodyPort(g)
  BY DEF BodyPort
<1>3. t.target # 0 /\ appium[t.target] = "listening" => t.target \in 1..launched
  BY <1>1 DEF ProcessInv, Process
<1>4. t.target # 0 => t.target \in Process
  BY <1>1 DEF Process
<1>5. pc[g] \in {"delete", "forward", "kill", "forget", "lsof", "kill9"} =>
         t.id \in 1..served'
  BY <1>1 DEF StopOk
<1>6. pc[g] \in {"kill", "forget", "lsof", "kill9"} /\ t.target # 0 =>
         \/ appium'[t.target] = "dead"
         \/ appium'[t.target] = "listening" /\ portOf'[t.target] = BodyPort(g)
  BY <1>3, <1>4 DEF StopOk
<1>7. pc[g] = "kill9" /\ t.pid # Binary =>
         t.pid <= launched' /\ portOf'[t.pid] = BodyPort(g)
  BY <1>1 DEF StopOk, Binary
<1>8. pc[g] = "kill9" /\ t.target # 0 =>
         appium'[t.target] = "dead" \/ t.pid \in {Binary, t.target}
  BY <1>4 DEF StopOk
<1>9. QED
  BY <1>2, <1>5, <1>6, <1>7, <1>8 DEF StopOk, BodyPort

\* The fields a handler updates may hold what they are given.
LEMMA TaskUpdate ==
    ASSUME NEW t \in Task
    PROVE  /\ \A q \in Port \cup {0} : [t EXCEPT !.port = q] \in Task
           /\ \A p \in 0..MaxLaunches : [t EXCEPT !.pid = p] \in Task
           /\ \A p \in 0..MaxLaunches : [t EXCEPT !.target = p] \in Task
           /\ \A q \in Port \cup {0}, p \in 0..MaxLaunches :
                 [t EXCEPT !.port = q, !.pid = p] \in Task
  BY DEF Task

\* A handler is cleared, or its task replaced.
LEMMA TaskType ==
    ASSUME TypeOK, NEW h \in Handler, NEW t \in Task, task' = [task EXCEPT ![h] = t]
    PROVE  task' \in [Handler -> Task]
  BY DEF TypeOK

\* The tasks that requests arrive with.
LEMMA NewTask ==
    ASSUME NEW d \in Device \cup {NoDevice}, NEW i \in 0..MaxRequests
    PROVE  /\ \A m \in BOOLEAN : [NoTask EXCEPT !.dev = d, !.id = i, !.manual = m] \in Task
           /\ [NoTask EXCEPT !.dev = d, !.id = i] \in Task
           /\ [NoTask EXCEPT !.id = i] \in Task
<1>1. [NoTask EXCEPT !.dev = d, !.id = i] \in Task /\ [NoTask EXCEPT !.id = i] \in Task
  BY NoTaskType DEF NoTask, Task
<1>2. \A t \in Task, m \in BOOLEAN : [t EXCEPT !.manual = m] \in Task
  BY DEF Task
<1>3. \A m \in BOOLEAN : [NoTask EXCEPT !.dev = d, !.id = i, !.manual = m]
                            = [[NoTask EXCEPT !.dev = d, !.id = i] EXCEPT !.manual = m]
  OBVIOUS
<1>4. QED
  BY <1>1, <1>2, <1>3

LEMMA InitIInv == Init => IInv
<1> SUFFICES ASSUME Init
             PROVE  IInv
  OBVIOUS
<1> USE SessionsAssumption DEF SessionsAssumption, Init
<1>1. TypeOK
  BY NoTaskType DEF TypeOK
<1>2. ProcessInv /\ DeviceInv
  BY DEF ProcessInv, DeviceInv, Own
<1>3. OpenInv /\ StopInv
  BY DEF OpenInv, OpenOk, StopInv, StopOk
<1>4. SessionInv
  BY DEF SessionInv, RoutesToItsDevice, HeldByItsDevicesServer
<1>5. QED
  BY <1>1, <1>2, <1>3, <1>4 DEF IInv

LEMMA LeasePortIInv ==
    ASSUME IInv, NEW d \in Device, NEW q \in Port, LeasePort(d, q)
    PROVE  IInv'
<1> USE SessionsAssumption DEF SessionsAssumption, IInv, hostVars, mapVars, handlerVars,
        runVars, history, Goto
<1>1. TypeOK'
  BY DEF TypeOK, Process, LeasePort
<1>2. ProcessInv'
  BY DEF TypeOK, ProcessInv, Own, Process, LeasePort
<1>3. DeviceInv'
  BY DEF TypeOK, DeviceInv, ProcessInv, Own, Process, LeasePort
<1>4. OpenInv'
  BY DEF TypeOK, OpenInv, OpenOk, Own, Process, Session, LeasePort
<1>5. StopInv'
  <2>1. ASSUME NEW g \in Handler
        PROVE  StopOk(g)'
    <3>1. StopOk(g) /\ task'[g] = task[g] /\ pc'[g] = pc[g]
          /\ UNCHANGED <<appium, portOf, launched, served>>
      BY DEF StopInv, LeasePort
    <3>2. BodyPort(g)' = BodyPort(g) \/ (BodyPort(g) = 0)
      BY DEF BodyPort, LeasePort, TypeOK, Task
    <3>3. task[g].target \in 0..MaxLaunches /\ task[g].pid \in 0..MaxLaunches
      BY DEF TypeOK, Task
    <3>4. pc[g] \in {"kill", "forget", "lsof", "kill9"} /\ task[g].target # 0
          /\ appium[task[g].target] # "dead" => BodyPort(g) # 0
      BY <3>1, <3>3 DEF StopOk, ProcessInv, Process
    <3>5. QED
      BY <3>1, <3>2, <3>3, <3>4 DEF StopOk
  <2>2. QED
    BY <2>1 DEF StopInv
<1>6. SessionInv'
  BY DEF TypeOK, SessionInv, RoutesToItsDevice, HeldByItsDevicesServer, OpenInv, OpenOk, LeasePort
<1>7. QED
  BY <1>1, <1>2, <1>3, <1>4, <1>5, <1>6

LEMMA AppiumBindsIInv ==
    ASSUME IInv, NEW p \in Process, AppiumBinds(p)
    PROVE  IInv'
<1> USE SessionsAssumption DEF SessionsAssumption, IInv, hostVars, mapVars, handlerVars,
        runVars, history, Goto
<1>1. TypeOK'
  BY DEF TypeOK, Process, AppiumBinds, Listening
<1>2. ProcessInv'
  BY DEF TypeOK, ProcessInv, Own, Process, AppiumBinds, Listening
<1>3. DeviceInv'
  BY DEF TypeOK, DeviceInv, ProcessInv, Own, Process, AppiumBinds, Listening
<1>4. OpenInv'
  BY DEF TypeOK, OpenInv, OpenOk, Own, Process, Session, AppiumBinds, Listening
<1>5. StopInv'
  BY DEF TypeOK, StopInv, StopOk, BodyPort, Task, Process, AppiumBinds, Listening
<1>6. SessionInv'
  BY DEF TypeOK, SessionInv, RoutesToItsDevice, HeldByItsDevicesServer, OpenInv, OpenOk, AppiumBinds, Listening
<1>7. QED
  BY <1>1, <1>2, <1>3, <1>4, <1>5, <1>6

LEMMA AppiumExitsIInv ==
    ASSUME IInv, NEW p \in Process, AppiumExits(p)
    PROVE  IInv'
<1> USE SessionsAssumption DEF SessionsAssumption, IInv, hostVars, mapVars, handlerVars,
        runVars, history, Goto
<1>1. TypeOK'
  BY DEF TypeOK, Process, AppiumExits
<1>2. ProcessInv'
  BY DEF TypeOK, ProcessInv, Own, Process, AppiumExits
<1>3. DeviceInv'
  BY DEF TypeOK, DeviceInv, ProcessInv, Own, Process, AppiumExits
<1>4. OpenInv'
  BY DEF TypeOK, OpenInv, OpenOk, Own, Process, Session, AppiumExits
<1>5. StopInv'
  BY DEF TypeOK, StopInv, StopOk, BodyPort, Task, Process, AppiumExits
<1>6. SessionInv'
  BY DEF TypeOK, SessionInv, RoutesToItsDevice, HeldByItsDevicesServer, OpenInv, OpenOk, AppiumExits
<1>7. QED
  BY <1>1, <1>2, <1>3, <1>4, <1>5, <1>6

LEMMA ConnectionClosesIInv ==
    ASSUME IInv, NEW p \in Process, ConnectionCloses(p)
    PROVE  IInv'
<1> USE SessionsAssumption DEF SessionsAssumption, IInv, hostVars, mapVars, handlerVars,
        runVars, history, Goto
<1>1. TypeOK'
  BY DEF TypeOK, Process, ConnectionCloses
<1>2. ProcessInv'
  BY DEF TypeOK, ProcessInv, Own, Process, ConnectionCloses
<1>3. DeviceInv'
  BY DEF TypeOK, DeviceInv, ProcessInv, Own, Process, ConnectionCloses
<1>4. OpenInv'
  BY DEF TypeOK, OpenInv, OpenOk, Own, Process, Session, ConnectionCloses
<1>5. StopInv'
  BY DEF TypeOK, StopInv, StopOk, BodyPort, Task, Process, ConnectionCloses
<1>6. SessionInv'
  BY DEF TypeOK, SessionInv, RoutesToItsDevice, HeldByItsDevicesServer, OpenInv, OpenOk, ConnectionCloses
<1>7. QED
  BY <1>1, <1>2, <1>3, <1>4, <1>5, <1>6

LEMMA ArriveNewIInv ==
    ASSUME IInv, NEW h \in Handler, NEW d \in Device, NEW manual \in BOOLEAN, ArriveNew(h, d, manual)
    PROVE  IInv'
<1> USE SessionsAssumption DEF SessionsAssumption, IInv, hostVars, mapVars, handlerVars,
        runVars, history, Goto
<1>o. \A g \in Handler \ {h} : task'[g] = task[g] /\ pc'[g] = pc[g]
  BY DEF TypeOK, ArriveNew, Arrive, NoTask
<1> DEFINE t == [NoTask EXCEPT !.dev = d, !.id = served + 1, !.manual = manual]
<1>a. /\ t \in Task /\ task' = [task EXCEPT ![h] = t] /\ served' = served + 1
      /\ pc[h] = "idle" /\ pc' = [pc EXCEPT ![h] = "launch"]
      /\ served \in Nat /\ served' \in 0..MaxRequests /\ served' \in Session
  <2>1. /\ task' = [task EXCEPT ![h] = t] /\ served' = served + 1 /\ served < MaxRequests
        /\ pc[h] = "idle" /\ pc' = [pc EXCEPT ![h] = "launch"]
    BY DEF ArriveNew, Arrive
  <2>2. served \in Nat /\ served' \in 0..MaxRequests /\ served' \in Session
    BY <2>1 DEF TypeOK, Session
  <2>3. t \in Task
    <3>1. served' \in 0..MaxRequests
      BY <2>2 DEF Session
    <3>2. QED
      BY <2>1, <3>1, NewTask
  <2>4. QED
    BY <2>1, <2>2, <2>3
<1>b. task'[h] = t /\ pc'[h] = "launch"
  BY <1>a DEF TypeOK
<1>f. t.dev = d /\ t.id = served + 1 /\ t.port = 0
  BY DEF NoTask
<1> HIDE DEF t
<1>c. UNCHANGED <<ports, runVars, hostVars, mapVars, forDevice>>
  BY DEF ArriveNew, Arrive
<1>d. owner' = [owner EXCEPT ![served + 1] = d]
  BY DEF ArriveNew
<1>e. /\ owner'[served'] = d /\ live[served'] = 0 /\ routes[served'] = 0
      /\ \A s \in Session : s # served' => owner'[s] = owner[s]
  BY <1>a, <1>d DEF TypeOK, SessionInv
<1>1. TypeOK'
  <2>1. task' \in [Handler -> Task]
    BY <1>a, TaskType
  <2>2. pc' \in [Handler -> {"idle", "delete", "command", "launch", "store", "open",
                             "answer", "forward", "kill", "forget", "lsof", "kill9"}]
    BY <1>a DEF TypeOK
  <2>3. owner' \in [Session -> Device \cup {NoDevice}]
    BY <1>d DEF TypeOK
  <2>4. QED
    BY <1>a, <1>c, <2>1, <2>2, <2>3 DEF TypeOK
<1>2. ProcessInv'
  BY <1>c DEF ProcessInv, Own
<1>3. DeviceInv'
  BY <1>c DEF DeviceInv, Own
<1>4. OpenInv'
  <2>1. ASSUME NEW g \in Handler \ {h}
        PROVE  OpenOk(g)'
    <3>1. OpenOk(g) /\ served <= served' /\ served' \in Nat
      BY <1>a DEF OpenInv
    <3>2. \A i \in 1..served : owner'[i] = owner[i]
      BY <1>a, <1>e DEF Session, TypeOK
    <3>3. \A p \in Own : p \in Own' /\ forDevice'[p] = forDevice[p]
      BY <1>c DEF Own
    <3>4. QED
      BY <1>o, <1>c, <3>1, <3>2, <3>3, OpenStep
  <2>2. OpenOk(h)'
    BY <1>a, <1>b, <1>c, <1>f, <1>e DEF OpenOk
  <2>3. QED
    BY <2>1, <2>2 DEF OpenInv
<1>5. StopInv'
  <2>1. ASSUME NEW g \in Handler \ {h}
        PROVE  StopOk(g)'
    <3>1. StopOk(g) /\ served <= served' /\ served' \in Nat
      BY <1>a DEF StopInv
    <3>2. launched' = launched /\ launched \in Nat
      BY <1>c DEF TypeOK
    <3>3. QED
      BY <1>o, <1>c, <3>1, <3>2, StopStep
  <2>2. StopOk(h)'
    BY <1>a, <1>b, <1>f DEF StopOk
  <2>3. QED
    BY <2>1, <2>2 DEF StopInv
<1>6. SessionInv'
  <2>1. RoutesToItsDevice'
    BY <1>c, <1>e DEF SessionInv, RoutesToItsDevice
  <2>2. HeldByItsDevicesServer'
    BY <1>c, <1>e DEF SessionInv, HeldByItsDevicesServer
  <2>3. QED
    BY <1>a, <1>c, <2>1, <2>2 DEF SessionInv, Session
<1>7. QED
  BY <1>1, <1>2, <1>3, <1>4, <1>5, <1>6

LEMMA ArriveDeleteIInv ==
    ASSUME IInv, NEW h \in Handler, NEW s \in Session, NEW d \in Device \cup {NoDevice}, ArriveDelete(h, s, d)
    PROVE  IInv'
<1> USE SessionsAssumption DEF SessionsAssumption, IInv, hostVars, mapVars, handlerVars,
        runVars, history, Goto
<1>o. \A g \in Handler \ {h} : task'[g] = task[g] /\ pc'[g] = pc[g]
  BY DEF TypeOK, ArriveDelete, Arrive, NoTask
<1> DEFINE t == [NoTask EXCEPT !.dev = d, !.id = s]
<1>a. /\ t \in Task /\ task' = [task EXCEPT ![h] = t] /\ served' = served + 1
      /\ pc[h] = "idle" /\ pc' = [pc EXCEPT ![h] = "delete"]
      /\ served \in Nat /\ served' \in 0..MaxRequests /\ served' \in Session
  <2>1. /\ task' = [task EXCEPT ![h] = t] /\ served' = served + 1 /\ served < MaxRequests
        /\ pc[h] = "idle" /\ pc' = [pc EXCEPT ![h] = "delete"]
    BY DEF ArriveDelete, Arrive
  <2>2. served \in Nat /\ served' \in 0..MaxRequests /\ served' \in Session
    BY <2>1 DEF TypeOK, Session
  <2>3. t \in Task
    <3>1. s \in 0..MaxRequests
      BY <2>2 DEF Session
    <3>2. QED
      BY <2>1, <3>1, NewTask
  <2>4. QED
    BY <2>1, <2>2, <2>3
<1>b. task'[h] = t /\ pc'[h] = "delete"
  BY <1>a DEF TypeOK
<1>f. t.dev = d /\ t.id = s /\ t.port = 0
  BY DEF NoTask
<1> HIDE DEF t
<1>c. UNCHANGED <<ports, runVars, hostVars, mapVars, forDevice>>
  BY DEF ArriveDelete, Arrive
<1>d. UNCHANGED owner /\ s \in 1..served
  BY DEF ArriveDelete, Session, TypeOK
<1>1. TypeOK'
  <2>1. task' \in [Handler -> Task]
    BY <1>a, TaskType
  <2>2. pc' \in [Handler -> {"idle", "delete", "command", "launch", "store", "open",
                             "answer", "forward", "kill", "forget", "lsof", "kill9"}]
    BY <1>a DEF TypeOK
  <2>3. owner' \in [Session -> Device \cup {NoDevice}]
    BY <1>d DEF TypeOK
  <2>4. QED
    BY <1>a, <1>c, <2>1, <2>2, <2>3 DEF TypeOK
<1>2. ProcessInv'
  BY <1>c DEF ProcessInv, Own
<1>3. DeviceInv'
  BY <1>c DEF DeviceInv, Own
<1>4. OpenInv'
  <2>1. ASSUME NEW g \in Handler \ {h}
        PROVE  OpenOk(g)'
    <3>1. OpenOk(g) /\ served <= served' /\ served' \in Nat
      BY <1>a DEF OpenInv
    <3>2. \A i \in 1..served : owner'[i] = owner[i]
      BY <1>a, <1>d DEF Session, TypeOK
    <3>3. \A p \in Own : p \in Own' /\ forDevice'[p] = forDevice[p]
      BY <1>c DEF Own
    <3>4. QED
      BY <1>o, <1>c, <3>1, <3>2, <3>3, OpenStep
  <2>2. OpenOk(h)'
    BY <1>a, <1>b, <1>c, <1>f DEF OpenOk
  <2>3. QED
    BY <2>1, <2>2 DEF OpenInv
<1>5. StopInv'
  <2>1. ASSUME NEW g \in Handler \ {h}
        PROVE  StopOk(g)'
    <3>1. StopOk(g) /\ served <= served' /\ served' \in Nat
      BY <1>a DEF StopInv
    <3>2. launched' = launched /\ launched \in Nat
      BY <1>c DEF TypeOK
    <3>3. QED
      BY <1>o, <1>c, <3>1, <3>2, StopStep
  <2>2. StopOk(h)'
    BY <1>a, <1>b, <1>f, <1>d DEF StopOk
  <2>3. QED
    BY <2>1, <2>2 DEF StopInv
<1>6. SessionInv'
  BY <1>a, <1>c, <1>d DEF SessionInv, RoutesToItsDevice, HeldByItsDevicesServer, Session
<1>7. QED
  BY <1>1, <1>2, <1>3, <1>4, <1>5, <1>6

LEMMA ArriveCommandIInv ==
    ASSUME IInv, NEW h \in Handler, NEW s \in Session, ArriveCommand(h, s)
    PROVE  IInv'
<1> USE SessionsAssumption DEF SessionsAssumption, IInv, hostVars, mapVars, handlerVars,
        runVars, history, Goto
<1>o. \A g \in Handler \ {h} : task'[g] = task[g] /\ pc'[g] = pc[g]
  BY DEF TypeOK, ArriveCommand, Arrive, NoTask
<1> DEFINE t == [NoTask EXCEPT !.id = s]
<1>a. /\ t \in Task /\ task' = [task EXCEPT ![h] = t] /\ served' = served + 1
      /\ pc[h] = "idle" /\ pc' = [pc EXCEPT ![h] = "command"]
      /\ served \in Nat /\ served' \in 0..MaxRequests /\ served' \in Session
  <2>1. /\ task' = [task EXCEPT ![h] = t] /\ served' = served + 1 /\ served < MaxRequests
        /\ pc[h] = "idle" /\ pc' = [pc EXCEPT ![h] = "command"]
    BY DEF ArriveCommand, Arrive
  <2>2. served \in Nat /\ served' \in 0..MaxRequests /\ served' \in Session
    BY <2>1 DEF TypeOK, Session
  <2>3. t \in Task
    <3>1. s \in 0..MaxRequests
      BY <2>2 DEF Session
    <3>2. QED
      BY <2>1, <3>1, NewTask
  <2>4. QED
    BY <2>1, <2>2, <2>3
<1>b. task'[h] = t /\ pc'[h] = "command"
  BY <1>a DEF TypeOK
<1>f. t.id = s /\ t.port = 0
  BY DEF NoTask
<1> HIDE DEF t
<1>c. UNCHANGED <<ports, runVars, hostVars, mapVars, forDevice>>
  BY DEF ArriveCommand, Arrive
<1>d. UNCHANGED owner /\ s \in 1..served
  BY DEF ArriveCommand, Session, TypeOK
<1>1. TypeOK'
  <2>1. task' \in [Handler -> Task]
    BY <1>a, TaskType
  <2>2. pc' \in [Handler -> {"idle", "delete", "command", "launch", "store", "open",
                             "answer", "forward", "kill", "forget", "lsof", "kill9"}]
    BY <1>a DEF TypeOK
  <2>3. owner' \in [Session -> Device \cup {NoDevice}]
    BY <1>d DEF TypeOK
  <2>4. QED
    BY <1>a, <1>c, <2>1, <2>2, <2>3 DEF TypeOK
<1>2. ProcessInv'
  BY <1>c DEF ProcessInv, Own
<1>3. DeviceInv'
  BY <1>c DEF DeviceInv, Own
<1>4. OpenInv'
  <2>1. ASSUME NEW g \in Handler \ {h}
        PROVE  OpenOk(g)'
    <3>1. OpenOk(g) /\ served <= served' /\ served' \in Nat
      BY <1>a DEF OpenInv
    <3>2. \A i \in 1..served : owner'[i] = owner[i]
      BY <1>a, <1>d DEF Session, TypeOK
    <3>3. \A p \in Own : p \in Own' /\ forDevice'[p] = forDevice[p]
      BY <1>c DEF Own
    <3>4. QED
      BY <1>o, <1>c, <3>1, <3>2, <3>3, OpenStep
  <2>2. OpenOk(h)'
    BY <1>a, <1>b, <1>c, <1>f DEF OpenOk
  <2>3. QED
    BY <2>1, <2>2 DEF OpenInv
<1>5. StopInv'
  <2>1. ASSUME NEW g \in Handler \ {h}
        PROVE  StopOk(g)'
    <3>1. StopOk(g) /\ served <= served' /\ served' \in Nat
      BY <1>a DEF StopInv
    <3>2. launched' = launched /\ launched \in Nat
      BY <1>c DEF TypeOK
    <3>3. QED
      BY <1>o, <1>c, <3>1, <3>2, StopStep
  <2>2. StopOk(h)'
    BY <1>a, <1>b, <1>f, <1>d DEF StopOk
  <2>3. QED
    BY <2>1, <2>2 DEF StopInv
<1>6. SessionInv'
  BY <1>a, <1>c, <1>d DEF SessionInv, RoutesToItsDevice, HeldByItsDevicesServer, Session
<1>7. QED
  BY <1>1, <1>2, <1>3, <1>4, <1>5, <1>6

LEMMA RouteIInv ==
    ASSUME IInv, NEW h \in Handler, RouteDelete(h) \/ RouteCommand(h)
    PROVE  IInv'
<1> USE SessionsAssumption DEF SessionsAssumption, IInv, hostVars, mapVars, handlerVars,
        runVars, history, Goto
<1>o. \A g \in Handler \ {h} : task'[g] = task[g] /\ pc'[g] = pc[g]
  BY DEF TypeOK, RouteDelete, RouteCommand, Return
<1>1. TypeOK'
  <2>1. task' \in [Handler -> Task]
    <3>1. task[h] \in Task
      BY DEF TypeOK
    <3>2. CASE task' = [task EXCEPT ![h] = NoTask]
      BY <3>2, NoTaskType, TaskType
    <3>3. CASE RouteDelete(h) /\ task' = [task EXCEPT ![h].port = routes[task[h].id]]
      <4>1. routes[task[h].id] \in Port \cup {0}
        BY <3>3 DEF RouteDelete, StopInv, StopOk, TypeOK, Session
      <4>2. [task[h] EXCEPT !.port = routes[task[h].id]] \in Task
        BY <3>1, <4>1, TaskUpdate
      <4>3. QED
        BY <3>3, <4>2, TaskType DEF TypeOK
    <3>4. QED
      BY <3>2, <3>3 DEF RouteDelete, RouteCommand, Return
  <2>2. QED
    BY <2>1 DEF TypeOK, Process, RouteDelete, RouteCommand, Return
<1>2. ProcessInv'
  BY DEF TypeOK, ProcessInv, Own, Process, RouteDelete, RouteCommand, Return
<1>3. DeviceInv'
  BY DEF TypeOK, DeviceInv, ProcessInv, Own, Process, RouteDelete, RouteCommand, Return
<1>4. OpenInv'
  <2>1. ASSUME NEW g \in Handler \ {h}
        PROVE  OpenOk(g)'
    BY <1>o, OpenFrame DEF OpenInv, RouteDelete, RouteCommand, Return
  <2>2. OpenOk(h)'
    BY DEF TypeOK, OpenInv, OpenOk, Own, Task, Process, Session, RouteDelete, RouteCommand, Return
  <2>3. QED
    BY <2>1, <2>2 DEF OpenInv
<1>5. StopInv'
  <2>1. ASSUME NEW g \in Handler \ {h}
        PROVE  StopOk(g)'
    BY <1>o, StopFrame DEF StopInv, RouteDelete, RouteCommand, Return
  <2>2. StopOk(h)'
    <3>1. pc'[h] = "idle" \/ (pc[h] = "delete" /\ pc'[h] = "forward"
                             /\ task'[h].id = task[h].id)
      BY DEF RouteDelete, RouteCommand, Return, TypeOK, Task
    <3>2. QED
      BY <3>1 DEF StopInv, StopOk, RouteDelete, RouteCommand
  <2>3. QED
    BY <2>1, <2>2 DEF StopInv
<1>6. SessionInv'
  BY DEF TypeOK, SessionInv, RoutesToItsDevice, HeldByItsDevicesServer, OpenInv, OpenOk, RouteDelete, RouteCommand, Return
<1>7. QED
  BY <1>1, <1>2, <1>3, <1>4, <1>5, <1>6

LEMMA LaunchIInv ==
    ASSUME IInv, NEW h \in Handler, Launch(h)
    PROVE  IInv'
<1> USE SessionsAssumption DEF SessionsAssumption, IInv, hostVars, mapVars, handlerVars,
        runVars, history, Goto
<1>o. \A g \in Handler \ {h} : task'[g] = task[g] /\ pc'[g] = pc[g]
  BY DEF TypeOK, Launch
<1> DEFINE n == launched + 1
<1> DEFINE q == ports[task[h].dev]
<1> DEFINE t == [task[h] EXCEPT !.port = q, !.pid = n]
<1>a. /\ n \in Process /\ launched' = n /\ launched \in Nat
      /\ task[h] \in Task /\ task[h].dev \in Device /\ q \in Port \cup {0}
      /\ pc[h] = "launch" /\ pc'[h] = "store"
  BY DEF TypeOK, Launch, OpenInv, OpenOk, Process
<1>b. t \in Task /\ task' = [task EXCEPT ![h] = t]
  <2>1. n \in 0..MaxLaunches
    BY <1>a DEF Process
  <2>2. t \in Task
    BY <1>a, <2>1, TaskUpdate
  <2>3. task' = [task EXCEPT ![h] = t]
    BY <1>a DEF Launch, TypeOK, Task
  <2>4. QED
    BY <2>2, <2>3
<1>c. /\ task'[h] = t /\ t.port = q /\ t.pid = n
      /\ t.dev = task[h].dev /\ t.id = task[h].id /\ t.target = task[h].target
  BY <1>a, <1>b DEF TypeOK, Task
<1>d. /\ appium' = [appium EXCEPT ![n] = "starting"]
      /\ portOf' = [portOf EXCEPT ![n] = q]
      /\ forDevice' = [forDevice EXCEPT ![n] = task[h].dev]
  BY <1>a DEF Launch
<1>e. n \notin orphans /\ appium[n] = "none" /\ Own' = Own \cup {n} /\ n \notin Own
  BY <1>a DEF ProcessInv, Own, Launch
<1>f. UNCHANGED <<ports, live, served, owner, orphans>>
  BY DEF Launch
<1>1. TypeOK'
  BY <1>a, <1>b, <1>d, TaskType DEF TypeOK, Launch
<1>2. ProcessInv'
  <2>1. orphans' \subseteq 1..launched'
    BY <1>a, <1>f DEF ProcessInv
  <2>2. \A p \in Process : p > launched' => appium'[p] = "none"
    <3>1. \A p \in Process : p > n => p > launched /\ p # n
      BY <1>a DEF Process
    <3>2. QED
      BY <1>a, <1>d, <3>1 DEF ProcessInv, TypeOK
  <2>3. \A p \in Process : appium'[p] = "listening" =>
           p # n /\ appium[p] = "listening" /\ portOf'[p] = portOf[p]
    BY <1>a, <1>d DEF TypeOK
  <2>4. \A p \in Own' : portOf'[p] # 0 =>
           forDevice'[p] \in Device /\ portOf'[p] = ports[forDevice'[p]]
    <3>1. forDevice'[n] = task[h].dev /\ portOf'[n] = q
      BY <1>a, <1>d DEF TypeOK
    <3>2. \A p \in Own : forDevice'[p] = forDevice[p] /\ portOf'[p] = portOf[p]
      BY <1>a, <1>d, <1>e DEF TypeOK, Own, Process
    <3>3. QED
      BY <1>a, <1>e, <3>1, <3>2 DEF ProcessInv
  <2>5. QED
    BY <2>1, <2>2, <2>3, <2>4, <1>f DEF ProcessInv
<1>3. DeviceInv'
  BY <1>a, <1>d, <1>e, <1>f DEF DeviceInv, Own, TypeOK, Launch
<1>4. OpenInv'
  <2>1. ASSUME NEW g \in Handler \ {h}
        PROVE  OpenOk(g)'
    <3>1. \A p \in Own : p \in Own' /\ forDevice'[p] = forDevice[p]
      <4>1. ASSUME NEW p \in Own
            PROVE  forDevice'[p] = forDevice[p]
        <5>1. p \in Process /\ p # n
          BY <1>a, <1>e DEF Own, Process, TypeOK
        <5>2. QED
          BY <1>d, <5>1 DEF TypeOK
      <4>2. QED
        BY <1>e, <4>1
    <3>2. \A s \in 1..served : live[s] # 0 => portOf'[live[s]] = portOf[live[s]]
      BY <1>a, <1>d DEF SessionInv, TypeOK, Session
    <3>3. served \in Nat
      BY DEF TypeOK
    <3>4. QED
      BY <1>o, <1>f, <3>1, <3>2, <3>3, OpenStep DEF OpenInv
  <2>2. OpenOk(h)'
    <3>1. live[task[h].id] # 0 => portOf'[live[task[h].id]] = portOf[live[task[h].id]]
      BY <1>a, <1>d DEF SessionInv, TypeOK, Session, OpenInv, OpenOk
    <3>2. forDevice'[n] = task[h].dev /\ n \in Own'
      BY <1>a, <1>d, <1>e DEF TypeOK
    <3>3. QED
      BY <1>a, <1>c, <1>f, <3>1, <3>2 DEF OpenInv, OpenOk
  <2>3. QED
    BY <2>1, <2>2 DEF OpenInv
<1>5. StopInv'
  <2>1. ASSUME NEW g \in Handler \ {h}
        PROVE  StopOk(g)'
    <3>1. \A p \in 1..launched : portOf'[p] = portOf[p]
      BY <1>a, <1>d DEF TypeOK, Process
    <3>2. \A p \in Process \ {n} : appium'[p] = appium[p]
      BY <1>a, <1>d DEF TypeOK
    <3>3. served \in Nat
      BY DEF TypeOK
    <3>4. QED
      BY <1>o, <1>a, <1>e, <1>f, <3>1, <3>2, <3>3, StopStep DEF StopInv
  <2>2. StopOk(h)'
    BY <1>a DEF StopOk
  <2>3. QED
    BY <2>1, <2>2 DEF StopInv
<1>6. SessionInv'
  <2>1. \A s \in Session : live[s] # 0 =>
           live[s] <= launched /\ portOf'[live[s]] = portOf[live[s]]
                               /\ forDevice'[live[s]] = forDevice[live[s]]
    BY <1>a, <1>d DEF SessionInv, TypeOK
  <2>2. UNCHANGED routes /\ \A s \in Session : live[s] <= launched'
    BY <1>a DEF SessionInv, Launch, mapVars, TypeOK
  <2>3. QED
    BY <1>f, <2>1, <2>2 DEF SessionInv, RoutesToItsDevice, HeldByItsDevicesServer
<1>7. QED
  BY <1>1, <1>2, <1>3, <1>4, <1>5, <1>6

LEMMA LaunchFailsIInv ==
    ASSUME IInv, NEW h \in Handler, LaunchFails(h)
    PROVE  IInv'
<1> USE SessionsAssumption DEF SessionsAssumption, IInv, hostVars, mapVars, handlerVars,
        runVars, history, Goto
<1>o. \A g \in Handler \ {h} : task'[g] = task[g] /\ pc'[g] = pc[g]
  BY DEF TypeOK, LaunchFails
<1>1. TypeOK'
  BY DEF TypeOK, Process, LaunchFails
<1>2. ProcessInv'
  BY DEF TypeOK, ProcessInv, Own, Process, LaunchFails
<1>3. DeviceInv'
  BY DEF TypeOK, DeviceInv, ProcessInv, Own, Process, LaunchFails
<1>4. OpenInv'
  <2>1. ASSUME NEW g \in Handler \ {h}
        PROVE  OpenOk(g)'
    BY <1>o, OpenFrame DEF OpenInv, LaunchFails
  <2>2. OpenOk(h)'
    BY DEF TypeOK, OpenInv, OpenOk, Own, Task, Process, Session, LaunchFails
  <2>3. QED
    BY <2>1, <2>2 DEF OpenInv
<1>5. StopInv'
  <2>1. ASSUME NEW g \in Handler \ {h}
        PROVE  StopOk(g)'
    BY <1>o, StopFrame DEF StopInv, LaunchFails
  <2>2. StopOk(h)'
    BY DEF TypeOK, StopInv, StopOk, BodyPort, Task, Process, LaunchFails
  <2>3. QED
    BY <2>1, <2>2 DEF StopInv
<1>6. SessionInv'
  BY DEF TypeOK, SessionInv, RoutesToItsDevice, HeldByItsDevicesServer, OpenInv, OpenOk, LaunchFails
<1>7. QED
  BY <1>1, <1>2, <1>3, <1>4, <1>5, <1>6

LEMMA StoreServerIInv ==
    ASSUME IInv, NEW h \in Handler, StoreServer(h)
    PROVE  IInv'
<1> USE SessionsAssumption DEF SessionsAssumption, IInv, hostVars, mapVars, handlerVars,
        runVars, history, Goto
<1>o. \A g \in Handler \ {h} : task'[g] = task[g] /\ pc'[g] = pc[g]
  BY DEF TypeOK, StoreServer
<1>1. TypeOK'
  BY DEF TypeOK, OpenInv, OpenOk, Own, StoreServer
<1>2. ProcessInv'
  BY DEF TypeOK, ProcessInv, Own, Process, StoreServer
<1>3. DeviceInv'
  BY DEF TypeOK, DeviceInv, OpenInv, OpenOk, Own, StoreServer
<1>4. OpenInv'
  <2>1. ASSUME NEW g \in Handler \ {h}
        PROVE  OpenOk(g)'
    BY <1>o, OpenFrame DEF OpenInv, StoreServer
  <2>2. OpenOk(h)'
    BY DEF TypeOK, OpenInv, OpenOk, Own, Task, Process, Session, StoreServer
  <2>3. QED
    BY <2>1, <2>2 DEF OpenInv
<1>5. StopInv'
  <2>1. ASSUME NEW g \in Handler \ {h}
        PROVE  StopOk(g)'
    BY <1>o, StopFrame DEF StopInv, StoreServer
  <2>2. StopOk(h)'
    BY DEF TypeOK, StopInv, StopOk, BodyPort, Task, Process, StoreServer
  <2>3. QED
    BY <2>1, <2>2 DEF StopInv
<1>6. SessionInv'
  BY DEF TypeOK, SessionInv, RoutesToItsDevice, HeldByItsDevicesServer, OpenInv, OpenOk, StoreServer
<1>7. QED
  BY <1>1, <1>2, <1>3, <1>4, <1>5, <1>6

LEMMA OpenSessionIInv ==
    ASSUME IInv, NEW h \in Handler, OpenSession(h)
    PROVE  IInv'
<1> USE SessionsAssumption DEF SessionsAssumption, IInv, hostVars, mapVars, handlerVars,
        runVars, history, Goto
<1>o. \A g \in Handler \ {h} : task'[g] = task[g] /\ pc'[g] = pc[g]
  BY DEF TypeOK, OpenSession, Listening
<1>a. PICK p \in Listening(task[h].port) :
         live' = [live EXCEPT ![task[h].id] = p] /\ conns' = conns \cup {p}
  BY DEF OpenSession
<1> DEFINE i == task[h].id
<1>b. /\ p \in Process /\ appium[p] = "listening" /\ portOf[p] = task[h].port
      /\ p <= launched /\ p # 0 /\ portOf[p] # 0
  BY DEF Listening, ProcessInv, Process, TypeOK
<1>c. /\ task[h].dev \in Device /\ i \in 1..served /\ i \in Session
      /\ owner[i] = task[h].dev /\ pc[h] = "open" /\ pc'[h] = "answer"
      /\ portOf[p] = ports[task[h].dev]
  BY <1>b DEF OpenSession, OpenInv, OpenOk, TypeOK, Session
<1>d. live'[i] = p /\ \A s \in Session \ {i} : live'[s] = live[s]
  BY <1>a, <1>c DEF TypeOK
<1>e. UNCHANGED <<ports, orphans, portOf, launched, served, owner, forDevice, task, routes>>
  BY DEF OpenSession
<1>f. p \in orphans \/ forDevice[p] = task[h].dev
  <2>1. CASE p \in Own
    BY <1>b, <1>c, <2>1 DEF ProcessInv, DeviceInv
  <2>2. p \in 1..launched
    BY <1>b DEF Process, TypeOK
  <2>3. QED
    BY <2>1, <2>2 DEF Own
<1>1. TypeOK'
  <2>1. live' \in [Session -> 0..MaxLaunches] /\ conns' \in SUBSET Process
    <3>1. p \in 0..MaxLaunches
      BY <1>b DEF Process
    <3>2. QED
      BY <1>a, <1>b, <3>1 DEF TypeOK
  <2>2. pc' = [pc EXCEPT ![h] = "answer"]
    BY DEF OpenSession
  <2>3. QED
    BY <1>e, <2>1, <2>2 DEF TypeOK, OpenSession
<1>2. ProcessInv'
  BY DEF TypeOK, ProcessInv, Own, Process, OpenSession, Listening
<1>3. DeviceInv'
  BY DEF TypeOK, DeviceInv, ProcessInv, Own, Process, OpenSession, Listening
<1>4. OpenInv'
  <2>1. ASSUME NEW g \in Handler \ {h}
        PROVE  OpenOk(g)'
    <3>1. \A s \in 1..served : s \in Session /\ served \in Nat
      BY DEF TypeOK, Session
    <3>2. \A s \in 1..served : live'[s] # 0 =>
              \/ live'[s] = live[s] /\ portOf'[live[s]] = portOf[live[s]]
              \/ ports[owner[s]] # 0 /\ portOf'[live'[s]] = ports[owner[s]]
      BY <1>b, <1>c, <1>d, <1>e, <3>1
    <3>3. /\ OpenOk(g) /\ task'[g] = task[g] /\ pc'[g] = pc[g]
          /\ served <= served' /\ served' \in Nat
      BY <1>o, <1>e DEF OpenInv, TypeOK
    <3>4. \A p2 \in Own : p2 \in Own' /\ forDevice'[p2] = forDevice[p2]
      BY <1>e DEF Own
    <3>5. QED
      BY <1>e, <3>2, <3>3, <3>4, OpenStep
  <2>2. OpenOk(h)'
    BY <1>b, <1>c, <1>d, <1>e DEF OpenInv, OpenOk
  <2>3. QED
    BY <2>1, <2>2 DEF OpenInv
<1>5. StopInv'
  <2>1. ASSUME NEW g \in Handler \ {h}
        PROVE  StopOk(g)'
    BY <1>o, StopFrame DEF StopInv, OpenSession, Listening
  <2>2. StopOk(h)'
    BY DEF TypeOK, StopInv, StopOk, BodyPort, Task, Process, OpenSession, Listening
  <2>3. QED
    BY <2>1, <2>2 DEF StopInv
<1>6. SessionInv'
  <2>1. RoutesToItsDevice'
    BY <1>b, <1>c, <1>d, <1>e DEF SessionInv, RoutesToItsDevice
  <2>2. HeldByItsDevicesServer'
    BY <1>c, <1>d, <1>e, <1>f DEF SessionInv, HeldByItsDevicesServer
  <2>3. i <= served /\ \A s \in Session : live'[s] <= launched
    BY <1>b, <1>c, <1>d DEF SessionInv, TypeOK
  <2>4. QED
    BY <1>d, <1>e, <2>1, <2>2, <2>3 DEF SessionInv, Session, TypeOK
<1>7. QED
  BY <1>1, <1>2, <1>3, <1>4, <1>5, <1>6

LEMMA BadGatewayIInv ==
    ASSUME IInv, NEW h \in Handler, BadGateway(h)
    PROVE  IInv'
<1> USE SessionsAssumption DEF SessionsAssumption, IInv, hostVars, mapVars, handlerVars,
        runVars, history, Goto
<1>o. \A g \in Handler \ {h} : task'[g] = task[g] /\ pc'[g] = pc[g]
  BY DEF TypeOK, BadGateway, Return
<1>1. TypeOK'
  BY NoTaskType DEF TypeOK, Process, BadGateway, Return
<1>2. ProcessInv'
  BY DEF TypeOK, ProcessInv, Own, Process, BadGateway, Return
<1>3. DeviceInv'
  BY DEF TypeOK, DeviceInv, ProcessInv, Own, Process, BadGateway, Return
<1>4. OpenInv'
  <2>1. ASSUME NEW g \in Handler \ {h}
        PROVE  OpenOk(g)'
    BY <1>o, OpenFrame DEF OpenInv, BadGateway, Return
  <2>2. OpenOk(h)'
    BY DEF TypeOK, OpenInv, OpenOk, Own, Task, Process, Session, BadGateway, Return
  <2>3. QED
    BY <2>1, <2>2 DEF OpenInv
<1>5. StopInv'
  <2>1. ASSUME NEW g \in Handler \ {h}
        PROVE  StopOk(g)'
    BY <1>o, StopFrame DEF StopInv, BadGateway, Return
  <2>2. StopOk(h)'
    BY DEF TypeOK, StopInv, StopOk, BodyPort, Task, Process, BadGateway, Return
  <2>3. QED
    BY <2>1, <2>2 DEF StopInv
<1>6. SessionInv'
  BY DEF TypeOK, SessionInv, RoutesToItsDevice, HeldByItsDevicesServer, OpenInv, OpenOk, BadGateway, Return
<1>7. QED
  BY <1>1, <1>2, <1>3, <1>4, <1>5, <1>6

LEMMA StoreRouteIInv ==
    ASSUME IInv, NEW h \in Handler, StoreRoute(h)
    PROVE  IInv'
<1> USE SessionsAssumption DEF SessionsAssumption, IInv, hostVars, mapVars, handlerVars,
        runVars, history, Goto
<1>o. \A g \in Handler \ {h} : task'[g] = task[g] /\ pc'[g] = pc[g]
  BY DEF TypeOK, StoreRoute, Return
<1>1. TypeOK'
  BY NoTaskType DEF TypeOK, OpenInv, OpenOk, Task, StoreRoute, Return
<1>2. ProcessInv'
  BY DEF TypeOK, ProcessInv, Own, Process, StoreRoute, Return
<1>3. DeviceInv'
  BY DEF TypeOK, DeviceInv, ProcessInv, Own, Process, StoreRoute, Return
<1>4. OpenInv'
  <2>1. ASSUME NEW g \in Handler \ {h}
        PROVE  OpenOk(g)'
    BY <1>o, OpenFrame DEF OpenInv, StoreRoute, Return
  <2>2. OpenOk(h)'
    BY DEF TypeOK, OpenInv, OpenOk, Own, Task, Process, Session, StoreRoute, Return
  <2>3. QED
    BY <2>1, <2>2 DEF OpenInv
<1>5. StopInv'
  <2>1. ASSUME NEW g \in Handler \ {h}
        PROVE  StopOk(g)'
    BY <1>o, StopFrame DEF StopInv, StoreRoute, Return
  <2>2. StopOk(h)'
    BY DEF TypeOK, StopInv, StopOk, BodyPort, Task, Process, StoreRoute, Return
  <2>3. QED
    BY <2>1, <2>2 DEF StopInv
<1>6. SessionInv'
  BY DEF TypeOK, SessionInv, RoutesToItsDevice, HeldByItsDevicesServer, OpenInv, OpenOk, StoreRoute, Return
<1>7. QED
  BY <1>1, <1>2, <1>3, <1>4, <1>5, <1>6

LEMMA ForwardDeleteIInv ==
    ASSUME IInv, NEW h \in Handler, ForwardDelete(h)
    PROVE  IInv'
<1> USE SessionsAssumption DEF SessionsAssumption, IInv, hostVars, mapVars, handlerVars,
        runVars, history, Goto
<1>o. \A g \in Handler \ {h} : task'[g] = task[g] /\ pc'[g] = pc[g]
  BY DEF TypeOK, ForwardDelete, Listening
<1>a. PICK p \in IF Listening(BodyPort(h)) = {} THEN {0} ELSE Listening(BodyPort(h)) :
         task' = [task EXCEPT ![h].target = p]
  BY DEF ForwardDelete
<1>b. p \in 0..MaxLaunches /\ task[h] \in Task
      /\ (p # 0 => p \in Process /\ appium[p] = "listening" /\ portOf[p] = BodyPort(h))
  BY <1>a DEF Listening, Process, TypeOK
<1>c. /\ [task[h] EXCEPT !.target = p] \in Task
      /\ task' = [task EXCEPT ![h] = [task[h] EXCEPT !.target = p]]
  BY <1>a, <1>b, TaskUpdate DEF TypeOK
<1>d. /\ task'[h].target = p /\ task'[h].dev = task[h].dev /\ task'[h].id = task[h].id
      /\ pc[h] = "forward" /\ pc'[h] = "kill"
  BY <1>b, <1>c DEF TypeOK, ForwardDelete, Task
<1>e. \A s \in Session : live'[s] \in {live[s], 0}
  BY DEF ForwardDelete, TypeOK
<1>f. UNCHANGED <<ports, orphans, appium, portOf, launched, served, owner, forDevice,
                 routes>>
  BY DEF ForwardDelete
<1>1. TypeOK'
  <2>1. task' \in [Handler -> Task]
    BY <1>c, TaskType
  <2>2. live' \in [Session -> 0..MaxLaunches]
    <3>1. live' = live \/ live' = [live EXCEPT ![task[h].id] = 0]
      BY DEF ForwardDelete
    <3>2. QED
      BY <3>1 DEF TypeOK
  <2>3. QED
    BY <2>1, <2>2 DEF TypeOK, ForwardDelete, Listening
<1>2. ProcessInv'
  BY DEF TypeOK, ProcessInv, Own, Process, ForwardDelete, Listening
<1>3. DeviceInv'
  BY DEF TypeOK, DeviceInv, ProcessInv, Own, Process, ForwardDelete, Listening
<1>4. OpenInv'
  <2>1. ASSUME NEW g \in Handler \ {h}
        PROVE  OpenOk(g)'
    <3>1. served \in Nat /\ \A s \in 1..served : s \in Session
      BY DEF TypeOK, Session
    <3>2. Own' = Own
      BY <1>f DEF Own
    <3>3. QED
      BY <1>o, <1>e, <1>f, <3>1, <3>2, OpenStep DEF OpenInv
  <2>2. OpenOk(h)'
    BY <1>d DEF OpenOk
  <2>3. QED
    BY <2>1, <2>2 DEF OpenInv
<1>5. StopInv'
  <2>1. ASSUME NEW g \in Handler \ {h}
        PROVE  StopOk(g)'
    BY <1>o, StopFrame DEF StopInv, ForwardDelete, Listening
  <2>2. StopOk(h)'
    <3>1. BodyPort(h)' = BodyPort(h)
      BY <1>d, <1>f DEF BodyPort
    <3>2. QED
      BY <1>b, <1>d, <1>f, <3>1 DEF StopInv, StopOk
  <2>3. QED
    BY <2>1, <2>2 DEF StopInv
<1>6. SessionInv'
  <2>1. RoutesToItsDevice'
    BY <1>e, <1>f DEF SessionInv, RoutesToItsDevice
  <2>2. HeldByItsDevicesServer'
    BY <1>e, <1>f DEF SessionInv, HeldByItsDevicesServer
  <2>3. launched \in Nat
    BY DEF TypeOK
  <2>4. QED
    BY <1>e, <1>f, <2>1, <2>2, <2>3 DEF SessionInv
<1>7. QED
  BY <1>1, <1>2, <1>3, <1>4, <1>5, <1>6

LEMMA StopKillIInv ==
    ASSUME IInv, NEW h \in Handler, StopKill(h)
    PROVE  IInv'
<1> USE SessionsAssumption DEF SessionsAssumption, IInv, hostVars, mapVars, handlerVars,
        runVars, history, Goto
<1>o. \A g \in Handler \ {h} : task'[g] = task[g] /\ pc'[g] = pc[g]
  BY DEF TypeOK, StopKill, Kill
<1>u. UNCHANGED <<ports, orphans, portOf, launched, live, served, owner, forDevice>>
  BY DEF StopKill
<1> DEFINE b == BodyServer(h)
<1>x. b # 0 => b \in Own /\ b <= launched /\ task[h].dev \in Device
  BY DEF BodyServer, DeviceInv, TypeOK, Task, Own
<1>w. /\ \/ b = 0 /\ pc' = [pc EXCEPT ![h] = "lsof"] /\ appium' = appium
         \/ b # 0 /\ pc' = [pc EXCEPT ![h] = "forget"] /\ appium' = [appium EXCEPT ![b] = "dead"]
         \/ b # 0 /\ pc' = [pc EXCEPT ![h] = "forget"] /\ appium' = appium
      /\ pc[h] = "kill" /\ task' = task
  BY DEF StopKill, Kill
<1>k. \A p \in Process : appium'[p] = appium[p] \/ (p = b /\ appium'[p] = "dead")
  BY <1>w DEF TypeOK
<1>v. \A p \in Process : appium'[p] # appium[p] => p <= launched
  BY <1>k, <1>x DEF Process, Binary
<1>1. TypeOK'
  BY <1>w DEF TypeOK, StopKill
<1>2. ProcessInv'
  <2>1. \A p \in Process : appium'[p] = "listening" => appium[p] = "listening"
    BY <1>k
  <2>2. \A p \in Process : p > launched => appium'[p] = "none"
    BY <1>k, <1>v DEF ProcessInv, Process, TypeOK
  <2>3. QED
    BY <1>u, <2>1, <2>2 DEF ProcessInv, Own
<1>3. DeviceInv'
  BY DEF TypeOK, DeviceInv, ProcessInv, Own, Process, StopKill, Kill
<1>4. OpenInv'
  <2>1. ASSUME NEW g \in Handler \ {h}
        PROVE  OpenOk(g)'
    BY <1>o, OpenFrame DEF OpenInv, StopKill, Kill
  <2>2. OpenOk(h)'
    BY DEF TypeOK, OpenInv, OpenOk, Own, Task, Process, Session, StopKill, Kill
  <2>3. QED
    BY <2>1, <2>2 DEF OpenInv
<1>5. StopInv'
  <2>1. ASSUME NEW g \in Handler \ {h}
        PROVE  StopOk(g)'
    <3>1. StopOk(g) /\ served \in Nat /\ launched \in Nat
      BY DEF StopInv, TypeOK
    <3>2. QED
      BY <1>o, <1>k, <1>u, <3>1, StopStep
  <2>2. StopOk(h)'
    <3>1. BodyPort(h)' = BodyPort(h) /\ pc'[h] \in {"lsof", "forget"}
      BY <1>u, <1>w DEF BodyPort, TypeOK
    <3>2. task[h].target \in 0..MaxLaunches
      BY DEF TypeOK, Task
    <3>3. task[h].target # 0 =>
             \/ appium'[task[h].target] = "dead"
             \/ /\ appium'[task[h].target] = "listening"
                /\ portOf'[task[h].target] = BodyPort(h)
      BY <1>k, <1>u, <1>w, <3>2 DEF StopInv, StopOk, Process
    <3>4. pc'[h] = "forget" => task[h].dev \in Device
      BY <1>w, <1>x DEF TypeOK
    <3>5. QED
      BY <1>u, <1>w, <3>1, <3>3, <3>4 DEF StopInv, StopOk
  <2>3. QED
    BY <2>1, <2>2 DEF StopInv
<1>6. SessionInv'
  BY DEF TypeOK, SessionInv, RoutesToItsDevice, HeldByItsDevicesServer, OpenInv, OpenOk, StopKill, Kill
<1>7. QED
  BY <1>1, <1>2, <1>3, <1>4, <1>5, <1>6

LEMMA StopForgetsIInv ==
    ASSUME IInv, NEW h \in Handler, StopForgets(h)
    PROVE  IInv'
<1> USE SessionsAssumption DEF SessionsAssumption, IInv, hostVars, mapVars, handlerVars,
        runVars, history, Goto
<1>o. \A g \in Handler \ {h} : task'[g] = task[g] /\ pc'[g] = pc[g]
  BY DEF TypeOK, StopForgets
<1>1. TypeOK'
  BY DEF TypeOK, StopInv, StopOk, StopForgets
<1>2. ProcessInv'
  BY DEF TypeOK, ProcessInv, Own, Process, StopForgets
<1>3. DeviceInv'
  BY DEF TypeOK, DeviceInv, ProcessInv, Own, Process, StopForgets
<1>4. OpenInv'
  <2>1. ASSUME NEW g \in Handler \ {h}
        PROVE  OpenOk(g)'
    BY <1>o, OpenFrame DEF OpenInv, StopForgets
  <2>2. OpenOk(h)'
    BY DEF TypeOK, OpenInv, OpenOk, Own, Task, Process, Session, StopForgets
  <2>3. QED
    BY <2>1, <2>2 DEF OpenInv
<1>5. StopInv'
  <2>1. ASSUME NEW g \in Handler \ {h}
        PROVE  StopOk(g)'
    BY <1>o, StopFrame DEF StopInv, StopForgets
  <2>2. StopOk(h)'
    BY DEF TypeOK, StopInv, StopOk, BodyPort, Task, Process, StopForgets
  <2>3. QED
    BY <2>1, <2>2 DEF StopInv
<1>6. SessionInv'
  BY DEF TypeOK, SessionInv, RoutesToItsDevice, HeldByItsDevicesServer, OpenInv, OpenOk, StopForgets
<1>7. QED
  BY <1>1, <1>2, <1>3, <1>4, <1>5, <1>6

LEMMA StopLsofIInv ==
    ASSUME IInv, NEW h \in Handler, StopLsof(h)
    PROVE  IInv'
<1> USE SessionsAssumption DEF SessionsAssumption, IInv, hostVars, mapVars, handlerVars,
        runVars, history, Goto
<1>o. \A g \in Handler \ {h} : task'[g] = task[g] /\ pc'[g] = pc[g]
  BY DEF TypeOK, StopLsof, OnPort, Listening, Binary
<1>1. TypeOK'
  <2>1. task' \in [Handler -> Task]
    <3>1. PICK p \in OnPort(BodyPort(h)) : task' = [task EXCEPT ![h].pid = p]
      BY DEF StopLsof
    <3>2. p \in 0..MaxLaunches /\ task[h] \in Task
      BY DEF OnPort, Listening, Process, Binary, TypeOK
    <3>3. [task[h] EXCEPT !.pid = p] \in Task
      BY <3>2, TaskUpdate
    <3>4. QED
      BY <3>1, <3>3, TaskType DEF TypeOK
  <2>2. QED
    BY <2>1 DEF TypeOK, Process, StopLsof
<1>2. ProcessInv'
  BY DEF TypeOK, ProcessInv, Own, Process, StopLsof, OnPort, Listening, Binary
<1>3. DeviceInv'
  BY DEF TypeOK, DeviceInv, ProcessInv, Own, Process, StopLsof, OnPort, Listening, Binary
<1>4. OpenInv'
  <2>1. ASSUME NEW g \in Handler \ {h}
        PROVE  OpenOk(g)'
    BY <1>o, OpenFrame DEF OpenInv, StopLsof, OnPort, Listening, Binary
  <2>2. OpenOk(h)'
    BY DEF TypeOK, OpenInv, OpenOk, Own, Task, Process, Session, StopLsof, OnPort, Listening, Binary
  <2>3. QED
    BY <2>1, <2>2 DEF OpenInv
<1>5. StopInv'
  <2>1. ASSUME NEW g \in Handler \ {h}
        PROVE  StopOk(g)'
    BY <1>o, StopFrame DEF StopInv, StopLsof, OnPort, Listening, Binary
  <2>2. StopOk(h)'
    <3>1. PICK p \in OnPort(BodyPort(h)) : task' = [task EXCEPT ![h].pid = p]
      BY DEF StopLsof
    <3>2. /\ task'[h].pid = p /\ task'[h].target = task[h].target
          /\ task'[h].dev = task[h].dev /\ task'[h].id = task[h].id
          /\ pc[h] = "lsof" /\ pc'[h] = "kill9"
      BY <3>1 DEF TypeOK, StopLsof, Task
    <3>3. p = Binary \/ (p \in Process /\ appium[p] = "listening" /\ portOf[p] = BodyPort(h))
      BY DEF OnPort, Listening, Binary
    <3>4. p # Binary => p <= launched
      BY <3>3 DEF ProcessInv, Process, TypeOK
    <3>5. task[h].target \in 0..MaxLaunches
      BY DEF TypeOK, Task
    <3>6. task[h].target # 0 => appium[task[h].target] = "dead" \/ p \in {Binary, task[h].target}
      BY <3>2, <3>3, <3>5 DEF StopInv, StopOk, ProcessInv, Process, Binary
    <3>7. BodyPort(h)' = BodyPort(h) /\ UNCHANGED <<appium, portOf, launched, served>>
      BY <3>2 DEF BodyPort, StopLsof
    <3>8. QED
      BY <3>2, <3>3, <3>4, <3>6, <3>7 DEF StopInv, StopOk, StopLsof
  <2>3. QED
    BY <2>1, <2>2 DEF StopInv
<1>6. SessionInv'
  BY DEF TypeOK, SessionInv, RoutesToItsDevice, HeldByItsDevicesServer, OpenInv, OpenOk, StopLsof, OnPort, Listening, Binary
<1>7. QED
  BY <1>1, <1>2, <1>3, <1>4, <1>5, <1>6

LEMMA StopNothingIInv ==
    ASSUME IInv, NEW h \in Handler, StopNothing(h)
    PROVE  IInv'
<1> USE SessionsAssumption DEF SessionsAssumption, IInv, hostVars, mapVars, handlerVars,
        runVars, history, Goto
<1>o. \A g \in Handler \ {h} : task'[g] = task[g] /\ pc'[g] = pc[g]
  BY DEF TypeOK, StopNothing, Return
<1>1. TypeOK'
  BY NoTaskType DEF TypeOK, Process, StopNothing, Return
<1>2. ProcessInv'
  BY DEF TypeOK, ProcessInv, Own, Process, StopNothing, Return
<1>3. DeviceInv'
  BY DEF TypeOK, DeviceInv, ProcessInv, Own, Process, StopNothing, Return
<1>4. OpenInv'
  <2>1. ASSUME NEW g \in Handler \ {h}
        PROVE  OpenOk(g)'
    BY <1>o, OpenFrame DEF OpenInv, StopNothing, Return
  <2>2. OpenOk(h)'
    BY DEF TypeOK, OpenInv, OpenOk, Own, Task, Process, Session, StopNothing, Return
  <2>3. QED
    BY <2>1, <2>2 DEF OpenInv
<1>5. StopInv'
  <2>1. ASSUME NEW g \in Handler \ {h}
        PROVE  StopOk(g)'
    BY <1>o, StopFrame DEF StopInv, StopNothing, Return
  <2>2. StopOk(h)'
    BY DEF TypeOK, StopInv, StopOk, BodyPort, Task, Process, StopNothing, Return
  <2>3. QED
    BY <2>1, <2>2 DEF StopInv
<1>6. SessionInv'
  BY DEF TypeOK, SessionInv, RoutesToItsDevice, HeldByItsDevicesServer, OpenInv, OpenOk, StopNothing, Return
<1>7. QED
  BY <1>1, <1>2, <1>3, <1>4, <1>5, <1>6

LEMMA StopKill9IInv ==
    ASSUME IInv, NEW h \in Handler, StopKill9(h)
    PROVE  IInv'
<1> USE SessionsAssumption DEF SessionsAssumption, IInv, hostVars, mapVars, handlerVars,
        runVars, history, Goto
<1>o. \A g \in Handler \ {h} : task'[g] = task[g] /\ pc'[g] = pc[g]
  BY DEF TypeOK, StopKill9, Kill, Return
<1>u. UNCHANGED <<ports, orphans, portOf, launched, live, served, owner, forDevice>>
  BY DEF StopKill9
<1> DEFINE b == task[h].pid
<1>x. b \in 0..MaxLaunches /\ (b # Binary => b <= launched)
  BY DEF StopInv, StopOk, StopKill9, TypeOK, Task
<1>w. /\ \/ appium' = appium
         \/ b # Binary /\ appium' = [appium EXCEPT ![b] = "dead"]
      /\ binary' \in {binary, "killed"}
      /\ pc' = [pc EXCEPT ![h] = "idle"] /\ task' = [task EXCEPT ![h] = NoTask]
  BY DEF StopKill9, Kill, Return
<1>k. \A p \in Process : appium'[p] = appium[p] \/ (p = b /\ b # Binary /\ appium'[p] = "dead")
  BY <1>w DEF TypeOK
<1>v. \A p \in Process : appium'[p] # appium[p] => p <= launched
  BY <1>k, <1>x DEF Process, Binary
<1>1. TypeOK'
  <2>1. task' \in [Handler -> Task]
    BY <1>w, NoTaskType, TaskType
  <2>2. QED
    BY <1>w, <2>1 DEF TypeOK, StopKill9
<1>2. ProcessInv'
  <2>1. \A p \in Process : appium'[p] = "listening" => appium[p] = "listening"
    BY <1>k
  <2>2. \A p \in Process : p > launched => appium'[p] = "none"
    BY <1>k, <1>v DEF ProcessInv, Process, TypeOK
  <2>3. QED
    BY <1>u, <2>1, <2>2 DEF ProcessInv, Own
<1>3. DeviceInv'
  BY DEF TypeOK, DeviceInv, ProcessInv, Own, Process, StopKill9, Kill, Return
<1>4. OpenInv'
  <2>1. ASSUME NEW g \in Handler \ {h}
        PROVE  OpenOk(g)'
    BY <1>o, OpenFrame DEF OpenInv, StopKill9, Kill, Return
  <2>2. OpenOk(h)'
    BY DEF TypeOK, OpenInv, OpenOk, Own, Task, Process, Session, StopKill9, Kill, Return
  <2>3. QED
    BY <2>1, <2>2 DEF OpenInv
<1>5. StopInv'
  <2>1. ASSUME NEW g \in Handler \ {h}
        PROVE  StopOk(g)'
    <3>1. StopOk(g) /\ served \in Nat /\ launched \in Nat
      BY DEF StopInv, TypeOK
    <3>2. QED
      BY <1>o, <1>k, <1>u, <3>1, StopStep
  <2>2. StopOk(h)'
    BY DEF TypeOK, StopInv, StopOk, BodyPort, Task, Process, StopKill9, Kill, Return
  <2>3. QED
    BY <2>1, <2>2 DEF StopInv
<1>6. SessionInv'
  BY DEF TypeOK, SessionInv, RoutesToItsDevice, HeldByItsDevicesServer, OpenInv, OpenOk, StopKill9, Kill, Return
<1>7. QED
  BY <1>1, <1>2, <1>3, <1>4, <1>5, <1>6

LEMMA EndsIInv ==
    ASSUME IInv, Ends
    PROVE  IInv'
<1> USE SessionsAssumption DEF SessionsAssumption, IInv, hostVars, mapVars, handlerVars,
        runVars, history, Goto
<1>1. TypeOK'
  BY DEF TypeOK, Process, Ends
<1>2. ProcessInv'
  BY DEF TypeOK, ProcessInv, Own, Process, Ends
<1>3. DeviceInv'
  BY DEF TypeOK, DeviceInv, ProcessInv, Own, Process, Ends
<1>4. OpenInv'
  BY DEF TypeOK, OpenInv, OpenOk, Own, Process, Session, Ends
<1>5. StopInv'
  BY DEF TypeOK, StopInv, StopOk, BodyPort, Task, Process, Ends
<1>6. SessionInv'
  BY DEF TypeOK, SessionInv, RoutesToItsDevice, HeldByItsDevicesServer, OpenInv, OpenOk, Ends
<1>7. QED
  BY <1>1, <1>2, <1>3, <1>4, <1>5, <1>6

LEMMA RestartIInv ==
    ASSUME IInv, Restart
    PROVE  IInv'
<1> USE SessionsAssumption DEF SessionsAssumption, IInv, hostVars, mapVars, handlerVars,
        runVars, history, Goto
<1>1. TypeOK'
  <2>1. task' \in [Handler -> Task]
    BY NoTaskType DEF Restart
  <2>2. QED
    BY <2>1 DEF TypeOK, Restart, ProcessInv, Process
<1>2. ProcessInv'
  BY DEF TypeOK, ProcessInv, Own, Process, Restart
<1>3. DeviceInv'
  BY DEF TypeOK, DeviceInv, ProcessInv, Own, Process, Restart
<1>4. OpenInv'
  BY DEF TypeOK, OpenInv, OpenOk, Own, Process, Session, Restart
<1>5. StopInv'
  BY DEF TypeOK, StopInv, StopOk, BodyPort, Task, Process, Restart
<1>6. SessionInv'
  BY DEF TypeOK, SessionInv, RoutesToItsDevice, HeldByItsDevicesServer, OpenInv, OpenOk, Restart
<1>7. QED
  BY <1>1, <1>2, <1>3, <1>4, <1>5, <1>6

-----------------------------------------------------------------------------
(* What the specification has by its inductive invariant.                  *)

LEMMA NextIInv == IInv /\ [Next]_vars => IInv'
<1> SUFFICES ASSUME IInv, [Next]_vars
             PROVE  IInv'
  OBVIOUS
<1>1. CASE UNCHANGED vars
  BY <1>1 DEF vars, runVars, hostVars, mapVars, handlerVars, history, IInv, TypeOK,
     ProcessInv, DeviceInv, OpenInv, OpenOk, StopInv, StopOk, SessionInv, Own, BodyPort,
     RoutesToItsDevice, HeldByItsDevicesServer
<1>2. ASSUME NEW h \in Handler, Handle(h)
      PROVE  IInv'
  BY <1>2, RouteIInv, LaunchIInv, LaunchFailsIInv, StoreServerIInv, OpenSessionIInv,
     BadGatewayIInv, StoreRouteIInv, ForwardDeleteIInv, StopKillIInv, StopForgetsIInv,
     StopLsofIInv, StopNothingIInv, StopKill9IInv DEF Handle
<1>3. ASSUME NEW h \in Handler, Client(h)
      PROVE  IInv'
  BY <1>3, ArriveNewIInv, ArriveDeleteIInv, ArriveCommandIInv DEF Client
<1>4. CASE Host
  BY <1>4, LeasePortIInv, AppiumBindsIInv, AppiumExitsIInv, ConnectionClosesIInv DEF Host
<1>5. CASE Ends \/ Restart
  BY <1>5, EndsIInv, RestartIInv
<1>6. CASE Quiet
  BY <1>1, <1>6 DEF Quiet
<1>7. QED
  BY <1>1, <1>2, <1>3, <1>4, <1>5, <1>6 DEF Next

LEMMA SpecIInv == Spec => []IInv
  BY InitIInv, NextIInv, PTL DEF Spec

\* Every variable keeps to the values the code can give it.
THEOREM TypeCorrect == Spec => []TypeOK
  BY SpecIInv, PTL DEF IInv

\* A session id leads to the port of the device its session was asked for, and to the
\* process that holds the session, whatever handlers and stops run at once.
THEOREM RoutesCorrect == Spec => []RoutesToItsDevice
  BY SpecIInv, PTL DEF IInv, SessionInv

\* A session is held by a server of its device, or by one of an earlier run.
THEOREM HoldersCorrect == Spec => []HeldByItsDevicesServer
  BY SpecIInv, PTL DEF IInv, SessionInv

\* stopAppium is the only end of a listening server, and it ends that of its device:
\* AppiumServers names a process launched for the device, on its port if on any, and
\* lsof is asked for that port.
LEMMA StopReachesStep ==
    ASSUME IInv, [Next]_vars, NEW p \in Process,
           appium[p] = "listening", appium'[p] = "dead"
    PROVE  \E h \in Handler : /\ pc[h] \in {"kill", "kill9"} /\ pc'[h] # pc[h]
                              /\ BodyPort(h) = portOf[p]
<1> USE DEF IInv, Goto
<1>1. ASSUME NEW h \in Handler, StopKill(h)
      PROVE  pc[h] \in {"kill", "kill9"} /\ pc'[h] # pc[h] /\ BodyPort(h) = portOf[p]
  <2>1. p = BodyServer(h) /\ p # 0
    BY <1>1 DEF StopKill, Kill, TypeOK, Process
  <2>2. task[h].dev \in Device /\ p = appiumServers[task[h].dev]
        /\ BodyPort(h) = ports[task[h].dev]
    BY <2>1 DEF BodyServer, BodyPort, TypeOK, Task
  <2>3. p \in Own /\ forDevice[p] = task[h].dev /\ portOf[p] # 0
    BY <2>1, <2>2 DEF DeviceInv, ProcessInv
  <2>4. pc[h] = "kill" /\ pc'[h] # pc[h]
    BY <1>1 DEF StopKill, TypeOK
  <2>5. QED
    BY <2>2, <2>3, <2>4 DEF ProcessInv
<1>2. ASSUME NEW h \in Handler, StopKill9(h)
      PROVE  pc[h] \in {"kill", "kill9"} /\ pc'[h] # pc[h] /\ BodyPort(h) = portOf[p]
  <2>1. p = task[h].pid /\ p # Binary
    BY <1>2 DEF StopKill9, Kill, TypeOK
  <2>2. pc[h] = "kill9" /\ pc'[h] # pc[h]
    BY <1>2 DEF StopKill9, Return, TypeOK
  <2>3. QED
    BY <2>1, <2>2 DEF StopInv, StopOk
<1>3. ASSUME NEW h \in Handler, Launch(h)
      PROVE  FALSE
  BY <1>3 DEF Launch, TypeOK
<1>4. ASSUME NEW h \in Handler, Handle(h), ~StopKill(h), ~StopKill9(h), ~Launch(h)
      PROVE  appium' = appium
  BY <1>4 DEF Handle, RouteDelete, RouteCommand, LaunchFails, StoreServer, OpenSession,
     BadGateway, StoreRoute, ForwardDelete, StopForgets, StopLsof, StopNothing, hostVars
<1>5. ASSUME NEW h \in Handler, Client(h)
      PROVE  appium' = appium
  BY <1>5 DEF Client, ArriveNew, ArriveDelete, ArriveCommand, Arrive, hostVars
<1>6. CASE Host
  BY <1>6 DEF Host, LeasePort, AppiumBinds, AppiumExits, ConnectionCloses, TypeOK, hostVars
<1>7. CASE Ends \/ Restart \/ Quiet \/ UNCHANGED vars
  BY <1>7 DEF Ends, Restart, Quiet, vars, hostVars
<1>8. QED
  BY <1>1, <1>2, <1>3, <1>4, <1>5, <1>6, <1>7 DEF Next

THEOREM StopReachesCorrect == Spec => StopReachesNamedDevice
<1>1. IInv /\ [Next]_vars =>
         [\A p \in Process :
             appium[p] = "listening" /\ appium'[p] = "dead" =>
                 \E h \in Handler : /\ pc[h] \in {"kill", "kill9"} /\ pc'[h] # pc[h]
                                    /\ BodyPort(h) = portOf[p]]_vars
  BY StopReachesStep
<1>2. QED
  BY <1>1, SpecIInv, PTL DEF Spec, StopReachesNamedDevice

\* stopAppium returns when lsof finds nothing on the port, or when what lsof found is
\* killed; what listened at its start is that, or has ended, unless lsof found this
\* process.
LEMMA StopEndsStep ==
    ASSUME IInv, [Next]_vars, NEW h \in Handler,
           pc[h] \in {"kill", "forget", "lsof", "kill9"}, pc'[h] = "idle"
    PROVE  \/ task[h].target = 0
           \/ appium'[task[h].target] = "dead"
           \/ binary' = "killed"
           \/ binary # "up"
<1> USE DEF IInv, Goto
<1> DEFINE p == task[h].target
<1>1. SUFFICES ASSUME p # 0, binary = "up"
               PROVE  appium'[p] = "dead" \/ binary' = "killed"
  OBVIOUS
<1>2. p \in Process /\ task[h].pid \in 0..MaxLaunches
  BY <1>1 DEF TypeOK, Task, Process
<1>3. \/ appium[p] = "dead"
      \/ appium[p] = "listening" /\ portOf[p] = BodyPort(h) /\ portOf[p] # 0
  BY <1>1, <1>2 DEF StopInv, StopOk, ProcessInv
<1>4. CASE StopNothing(h)
  <2>1. appium' = appium
    BY <1>4 DEF StopNothing, hostVars
  <2>2. appium[p] = "listening" => p \in OnPort(BodyPort(h)) /\ BodyPort(h) # 0
    BY <1>2, <1>3 DEF OnPort, Listening
  <2>3. QED
    BY <1>3, <1>4, <2>1, <2>2 DEF StopNothing
<1>5. CASE StopKill9(h)
  <2>1. appium[p] = "dead" \/ task[h].pid \in {Binary, p}
    BY <1>1, <1>5 DEF StopInv, StopOk, StopKill9
  <2>2. QED
    BY <1>2, <1>5, <2>1 DEF StopKill9, Kill, TypeOK
<1>6. ASSUME NEW g \in Handler, Handle(g), ~StopNothing(h), ~StopKill9(h)
      PROVE  FALSE
  <2>1. pc[h] \in {"kill", "forget", "lsof", "kill9"} /\ pc \in [Handler ->
           {"idle", "delete", "command", "launch", "store", "open",
            "answer", "forward", "kill", "forget", "lsof", "kill9"}]
    BY DEF TypeOK
  <2>2. QED
    BY <1>6, <2>1 DEF Handle, RouteDelete, RouteCommand, Launch, LaunchFails, StoreServer,
       OpenSession, BadGateway, StoreRoute, ForwardDelete, StopKill, StopForgets, StopLsof,
       StopNothing, StopKill9, Return
<1>7. ASSUME NEW g \in Handler, Client(g)
      PROVE  FALSE
  BY <1>7 DEF Client, ArriveNew, ArriveDelete, ArriveCommand, Arrive, TypeOK
<1>8. CASE Host \/ Ends \/ Quiet \/ UNCHANGED vars
  BY <1>8 DEF Host, LeasePort, AppiumBinds, AppiumExits, ConnectionCloses, Ends, Quiet,
     vars, handlerVars
<1>9. CASE Restart
  BY <1>1, <1>9 DEF Restart
<1>10. QED
  BY <1>4, <1>5, <1>6, <1>7, <1>8, <1>9 DEF Next

THEOREM StopEndsCorrect == Spec => StopEndsServer
<1>1. IInv /\ [Next]_vars =>
         [\A h \in Handler :
             pc[h] \in {"kill", "forget", "lsof", "kill9"} /\ pc'[h] = "idle" =>
                 \/ task[h].target = 0
                 \/ appium'[task[h].target] = "dead"
                 \/ binary' = "killed"
                 \/ binary # "up"]_vars
  BY StopEndsStep
<1>2. QED
  BY <1>1, SpecIInv, PTL DEF Spec, StopEndsServer
=============================================================================
