-------------------------------- MODULE Tunnel --------------------------------
(***************************************************************************)
(* The tunnel client (remote/remote.go) and those who call it.  main       *)
(* launches the tunnel's process, in a process group of its own, and only  *)
(* afterwards starts the goroutine that listens for signals; GetTunnelId   *)
(* asks the info API on port 8000 and caches the answer in the global      *)
(* tunnelInfo, which main, the two loops of the watcher and shutdown read  *)
(* and write without a lock; KillTunnel ends the process this life of the  *)
(* binary has launched.                                                    *)
(***************************************************************************)
EXTENDS Integers

CONSTANTS MaxLives,    \* bound: starts of the binary
          MaxFaults    \* bound: failed calls, unusable answers, dying tunnels

ASSUME TunnelAssumption == MaxLives \in Nat \ {0} /\ MaxFaults \in Nat

\* The tunnel launched by the n-th life is process n, and n is the id the backend
\* knows it by.
Process == 1..MaxLives

\* What GetTunnelId returns: an id, "0" for a zero one, or "" beside an error.
NoId == -1

\* What a read of dw.TunnelID during a write may yield: one string's pointer with
\* the other one's length.
Torn == -2

Id == Process \cup {0}

Caller == {"main", "watch", "keep", "listener"}

VARIABLES
    proc,           \* "up"; "exited" after a graceful stop; "down" otherwise
    life,           \* which start of the binary this is
    faults,         \* how much of MaxFaults is used
    tunnel,         \* the tunnels' processes
    tunnelProcess,  \* remote.tunnelProcess, 0 = nil
    tunnelInfo,     \* remote.tunnelInfo, as far as GetTunnelId looks at it
    tunnelID,       \* dw.TunnelID
    stop,           \* stopChan is closed
    signal,         \* a termination signal is in sigChan
    pc,             \* per goroutine: where it is
    answer,         \* per goroutine: the body it got from the info API
    got,            \* per goroutine: the id GetTunnelId returned
    retries,        \* retries left in SyncBinaryHost
    posted,         \* the id in the last post to the backend, per goroutine
    orphans,        \* history: tunnels that lived on when a life ended by a crash
                    \* or by a signal nobody listened for
    zeroSeen,       \* history: this life got an answer with id 0
    raced           \* history: tunnelInfo lost its id while another call was about
                    \* to format it

tunnelVars == <<tunnel, tunnelProcess>>
callVars   == <<pc, answer, got, retries, posted>>
stopVars   == <<stop, signal>>
history    == <<orphans, zeroSeen, raced>>
vars == <<proc, life, faults, tunnelVars, tunnelInfo, tunnelID, stopVars,
          callVars, history>>

Info   == [status : {"", "OK", "FAILED"}, id : Id]
NoInfo == [status |-> "", id |-> 0]

\* A body of the info API, by what json.Unmarshal makes of it: a flaw in the syntax is
\* found before a field is assigned, one in a type is reported when the fields that
\* fit are filled.
Body == [status : {"", "OK", "FAILED"}, id : Id, flaw : {"none", "type", "syntax"}]

GoodBody(s, k)     == [status |-> s, id |-> k, flaw |-> "none"]
MistypedBody(s, k) == [status |-> s, id |-> k, flaw |-> "type"]
NoBody    == [status |-> "", id |-> 0, flaw |-> "none"]
Malformed == [status |-> "", id |-> 0, flaw |-> "syntax"]

Fields(b) == [status |-> b.status, id |-> b.id]

Fault == faults < MaxFaults /\ faults' = faults + 1

Goto(c, l) == pc' = [pc EXCEPT ![c] = l]

\* Who holds port 8000.
Serving == {p \in Process : tunnel[p] = "up"}

Alive == {p \in Process : tunnel[p] \in {"starting", "up"}}

\* What a process starts with.
FreshCallers == [c \in Caller |-> IF c = "main" THEN "launch" ELSE "none"]

Init ==
    /\ proc = "up" /\ life = 1 /\ faults = 0
    /\ tunnel = [p \in Process |-> "none"] /\ tunnelProcess = 0
    /\ tunnelInfo = NoInfo /\ tunnelID = NoId
    /\ stop = FALSE /\ signal = FALSE
    /\ pc = FreshCallers
    /\ answer = [c \in Caller |-> NoBody]
    /\ got = [c \in Caller |-> NoId]
    /\ retries = [c \in Caller |-> 1]
    /\ posted = [c \in Caller |-> NoId]
    /\ orphans = {} /\ zeroSeen = FALSE /\ raced = FALSE

-----------------------------------------------------------------------------
(* The tunnel's process, outside this repository.                          *)

\* It takes its ports, among them the info API's.
TunnelServes(p) ==
    /\ tunnel[p] = "starting" /\ Serving = {}
    /\ tunnel' = [tunnel EXCEPT ![p] = "up"]
    /\ UNCHANGED <<proc, life, faults, tunnelProcess, tunnelInfo, tunnelID,
                   stopVars, callVars, history>>

\* It exits when a port it needs is taken.
TunnelExits(p) ==
    /\ tunnel[p] = "starting" /\ Serving # {}
    /\ tunnel' = [tunnel EXCEPT ![p] = "dead"]
    /\ UNCHANGED <<proc, life, faults, tunnelProcess, tunnelInfo, tunnelID,
                   stopVars, callVars, history>>

TunnelDies(p) ==
    /\ p \in Alive
    /\ Fault
    /\ tunnel' = [tunnel EXCEPT ![p] = "dead"]
    /\ UNCHANGED <<proc, life, tunnelProcess, tunnelInfo, tunnelID, stopVars,
                   callVars, history>>

-----------------------------------------------------------------------------
(* GetTunnelId, from its first read of tunnelInfo to its return.           *)

\* A call returns an id, or "" and an error: where its caller goes then.
AfterCall(c, ok) ==
    CASE c = "watch" -> IF ok THEN "assign" ELSE "loop"
      [] c = "keep"  -> IF ok THEN "post" ELSE "loop"
      [] OTHER       -> IF ok \/ retries[c] = 0 THEN "post" ELSE "check"

CallOk(c, id) ==
    /\ got' = [got EXCEPT ![c] = id]
    /\ Goto(c, AfterCall(c, TRUE))
    /\ UNCHANGED retries

\* Mutant of CallFails: it does not stop at 0.
CallFailsAgain(c) ==
    /\ got' = [got EXCEPT ![c] = NoId]
    /\ Goto(c, AfterCall(c, FALSE))
    /\ retries' = [retries EXCEPT ![c] = @ - 1]

\* SyncBinaryHost tries once more, and then goes on with the empty id.
CallFails(c) ==
    /\ got' = [got EXCEPT ![c] = NoId]
    /\ Goto(c, AfterCall(c, FALSE))
    /\ retries' = IF c \in {"main", "listener"} /\ retries[c] > 0
                  THEN [retries EXCEPT ![c] = @ - 1] ELSE retries

\* Mutant of Usable: the id is not looked at.
UsableStatus(i) == i.status # "FAILED"

\* The condition under which the cached id is returned.
Usable(i) == i.status # "FAILED" /\ i.id > 0

\* Mutant of Check: the cached id is not looked at, each call asks the info API.
CheckNothing(c) ==
    /\ pc[c] = "check"
    /\ Goto(c, "fetch")
    /\ UNCHANGED <<proc, life, faults, tunnelVars, tunnelInfo, tunnelID, stopVars,
                   answer, got, retries, posted, history>>

Check(c) ==
    /\ pc[c] = "check"
    /\ Goto(c, IF Usable(tunnelInfo) THEN "cached" ELSE "fetch")
    /\ UNCHANGED <<proc, life, faults, tunnelVars, tunnelInfo, tunnelID, stopVars,
                   answer, got, retries, posted, history>>

\* The id is read once more, to be formatted.
Cached(c) ==
    /\ pc[c] = "cached"
    /\ CallOk(c, tunnelInfo.id)
    /\ UNCHANGED <<proc, life, faults, tunnelVars, tunnelInfo, tunnelID, stopVars,
                   answer, posted, history>>

\* The info API answers: with its id, without a usable one (not connected), or with
\* something json.Unmarshal complains about.
Fetch(c) ==
    /\ pc[c] = "fetch"
    /\ \E p \in Serving :
          \/ /\ answer' = [answer EXCEPT ![c] = GoodBody("OK", p)]
             /\ UNCHANGED faults
          \/ /\ Fault
             /\ \E b \in {GoodBody("FAILED", 0), GoodBody("OK", 0), Malformed}
                         \cup {MistypedBody(s, k) : s \in {"OK", "FAILED"}, k \in {0, p}} :
                   answer' = [answer EXCEPT ![c] = b]
    /\ Goto(c, "empty")
    /\ UNCHANGED <<proc, life, tunnelVars, tunnelInfo, tunnelID, stopVars, got,
                   retries, posted, history>>

\* Nobody serves the port, or the call fails on the way.
FetchFails(c) ==
    /\ pc[c] = "fetch"
    /\ IF Serving = {} THEN UNCHANGED faults ELSE Fault
    /\ CallFails(c)
    /\ UNCHANGED <<proc, life, tunnelVars, tunnelInfo, tunnelID, stopVars, answer,
                   posted, history>>

\* Whether another call has seen a usable tunnelInfo and has yet to read its id.
OthersReading(c) == \E e \in Caller \ {c} : pc[e] \in {"recheck", "cached"}

\* tunnelInfo = TunnelInfo{}, under whoever is reading it.
EmptyInfo(c) ==
    /\ pc[c] = "empty"
    /\ tunnelInfo' = NoInfo
    /\ Goto(c, "decode")
    /\ raced' = (raced \/ OthersReading(c))
    /\ UNCHANGED <<proc, life, faults, tunnelVars, tunnelID, stopVars, answer, got,
                   retries, posted, orphans, zeroSeen>>

\* Mutant of Decode: the error of json.Unmarshal is dropped.
DecodeAnything(c) ==
    /\ pc[c] = "decode"
    /\ tunnelInfo' = IF answer[c].flaw = "syntax" THEN tunnelInfo ELSE Fields(answer[c])
    /\ Goto(c, "recheck")
    /\ answer' = [answer EXCEPT ![c] = NoBody]
    /\ zeroSeen' = (zeroSeen \/ answer[c] = GoodBody("OK", 0))
    /\ raced' = (raced \/ (tunnelInfo'.id = 0 /\ OthersReading(c)))
    /\ UNCHANGED <<proc, life, faults, tunnelVars, tunnelID, stopVars, got, retries,
                   posted, orphans>>

\* json.Unmarshal into the global.  A call that fails for a type leaves an id that
\* fitted behind, for others to use.
Decode(c) ==
    /\ pc[c] = "decode"
    /\ tunnelInfo' = IF answer[c].flaw = "syntax" THEN tunnelInfo ELSE Fields(answer[c])
    /\ IF answer[c].flaw = "none"
       THEN Goto(c, "recheck") /\ UNCHANGED <<got, retries>>
       ELSE CallFails(c)
    /\ answer' = [answer EXCEPT ![c] = NoBody]
    /\ zeroSeen' = (zeroSeen \/ answer[c] = GoodBody("OK", 0))
    /\ raced' = (raced \/ (tunnelInfo'.id = 0 /\ OthersReading(c)))
    /\ UNCHANGED <<proc, life, faults, tunnelVars, tunnelID, stopVars, posted, orphans>>

\* The status is read back from the global.
Recheck(c) ==
    /\ pc[c] = "recheck"
    /\ IF tunnelInfo.status = "FAILED" THEN CallFails(c)
       ELSE Goto(c, "cached") /\ UNCHANGED <<got, retries>>
    /\ UNCHANGED <<proc, life, faults, tunnelVars, tunnelInfo, tunnelID, stopVars,
                   answer, posted, history>>

GetTunnelId(c) ==
    \/ Check(c) \/ Cached(c) \/ Fetch(c) \/ FetchFails(c)
    \/ EmptyInfo(c) \/ Decode(c) \/ Recheck(c)

-----------------------------------------------------------------------------
(* main.                                                                   *)

\* cmd.Start.  A tunnel that cannot be started ends the binary (os.Exit).
LaunchTunnel ==
    /\ pc["main"] = "launch"
    /\ tunnel' = [tunnel EXCEPT ![life] = "starting"]
    /\ tunnelProcess' = life
    /\ Goto("main", "sleep")
    /\ UNCHANGED <<proc, life, faults, tunnelInfo, tunnelID, stopVars, answer, got,
                   retries, posted, history>>

LaunchFails ==
    /\ pc["main"] = "launch"
    /\ Fault
    /\ proc' = "down"
    /\ UNCHANGED <<life, tunnelVars, tunnelInfo, tunnelID, stopVars, callVars, history>>

\* After 4 s of sleep, `go shutdownListener` and initializeServices.
StartListener ==
    /\ pc["main"] = "sleep"
    /\ pc' = [pc EXCEPT !["main"] = "check", !["listener"] = "wait"]
    /\ UNCHANGED <<proc, life, faults, tunnelVars, tunnelInfo, tunnelID, stopVars,
                   answer, got, retries, posted, history>>

\* SyncBinaryHost's post, whatever the id.
PostEmptyList(c) ==
    /\ c \in {"main", "listener"} /\ pc[c] = "post"
    /\ posted' = [posted EXCEPT ![c] = got[c]]
    /\ Goto(c, IF c = "main" THEN "start" ELSE "kill")
    /\ UNCHANGED <<proc, life, faults, tunnelVars, tunnelInfo, tunnelID, stopVars,
                   answer, got, retries, history>>

\* startDeviceWatcher: both loops of Watch.
StartWatcher ==
    /\ pc["main"] = "start"
    /\ pc' = [pc EXCEPT !["main"] = "wait", !["watch"] = "loop", !["keep"] = "loop"]
    /\ UNCHANGED <<proc, life, faults, tunnelVars, tunnelInfo, tunnelID, stopVars,
                   answer, got, retries, posted, history>>

\* Mutant of MainExits: main returns as soon as the shutdown has begun.
MainExitsEarly ==
    /\ pc["main"] = "wait" /\ pc["listener"] # "wait"
    /\ proc' = "exited"
    /\ UNCHANGED <<life, faults, tunnelVars, tunnelInfo, tunnelID, stopVars, callVars,
                   history>>

\* mainExit is closed, and main has come as far as waiting for it.
MainExits ==
    /\ pc["main"] = "wait" /\ pc["listener"] = "done"
    /\ proc' = "exited"
    /\ UNCHANGED <<life, faults, tunnelVars, tunnelInfo, tunnelID, stopVars, callVars,
                   history>>

Main == LaunchTunnel \/ LaunchFails \/ StartListener \/ PostEmptyList("main")
        \/ StartWatcher \/ MainExits \/ GetTunnelId("main")

-----------------------------------------------------------------------------
(* The loops of the watcher.                                               *)

\* A round of watchDevices, or the end of the loop.
WatchRound ==
    /\ pc["watch"] = "loop"
    /\ Goto("watch", IF stop THEN "done" ELSE "check")
    /\ UNCHANGED <<proc, life, faults, tunnelVars, tunnelInfo, tunnelID, stopVars,
                   answer, got, retries, posted, history>>

\* dw.TunnelID = tunnelId.  Until this step the write is under way.
WatchAssigns ==
    /\ pc["watch"] = "assign"
    /\ tunnelID' = got["watch"]
    /\ Goto("watch", "loop")
    /\ UNCHANGED <<proc, life, faults, tunnelVars, tunnelInfo, stopVars, answer, got,
                   retries, posted, history>>

\* How many digits an id has, as far as two ids need to be told apart by it.
Length(id) == IF id = NoId THEN 0 ELSE IF id = 0 THEN 1 ELSE 2

\* What keepAlive's read of dw.TunnelID may return: while it is written, either
\* string, or, when they differ in length, a mixture.
TunnelIDRead ==
    IF pc["watch"] = "assign"
    THEN {tunnelID, got["watch"]}
         \cup (IF Length(tunnelID) # Length(got["watch"]) THEN {Torn} ELSE {})
    ELSE {tunnelID}

\* keepAlive's round: sync(true, devices) reads dw.TunnelID, and asks for the id
\* itself when that is empty.
KeepRound ==
    /\ pc["keep"] = "loop"
    /\ \/ stop /\ Goto("keep", "done") /\ UNCHANGED got
       \/ /\ ~stop
          /\ \E id \in TunnelIDRead :
                /\ got' = [got EXCEPT !["keep"] = id]
                /\ Goto("keep", IF id = NoId THEN "check" ELSE "post")
    /\ UNCHANGED <<proc, life, faults, tunnelVars, tunnelInfo, tunnelID, stopVars,
                   answer, retries, posted, history>>

KeepPosts ==
    /\ pc["keep"] = "post"
    /\ posted' = [posted EXCEPT !["keep"] = got["keep"]]
    /\ Goto("keep", "loop")
    /\ UNCHANGED <<proc, life, faults, tunnelVars, tunnelInfo, tunnelID, stopVars,
                   answer, got, retries, history>>

Watch == WatchRound \/ WatchAssigns \/ GetTunnelId("watch")
Keep  == KeepRound \/ KeepPosts \/ GetTunnelId("keep")

-----------------------------------------------------------------------------
(* shutdownListener.                                                       *)

ListenerWakes ==
    /\ pc["listener"] = "wait" /\ signal
    /\ stop' = TRUE
    /\ Goto("listener", "waitGroup")
    /\ UNCHANGED <<proc, life, faults, tunnelVars, tunnelInfo, tunnelID, signal,
                   answer, got, retries, posted, history>>

\* common.WG.Wait: no loop runs, be it because main has not started them yet.
ListenerWaits ==
    /\ pc["listener"] = "waitGroup"
    /\ {pc["watch"], pc["keep"]} \subseteq {"none", "done"}
    /\ Goto("listener", "check")
    /\ UNCHANGED <<proc, life, faults, tunnelVars, tunnelInfo, tunnelID, stopVars,
                   answer, got, retries, posted, history>>

\* Mutant of KillTunnel: the check for nil is inverted.
KillTunnelUnlessStarted ==
    /\ pc["listener"] = "kill"
    /\ tunnel' = IF tunnelProcess # 0 THEN tunnel ELSE [tunnel EXCEPT ![life] = "dead"]
    /\ Goto("listener", "done")
    /\ UNCHANGED <<proc, life, faults, tunnelProcess, tunnelInfo, tunnelID, stopVars,
                   answer, got, retries, posted, history>>

\* Nobody waits for the process, so its number is not used again and Kill hits
\* nothing else when the tunnel has ended before.
KillTunnel ==
    /\ pc["listener"] = "kill"
    /\ tunnel' = IF tunnelProcess = 0 THEN tunnel
                 ELSE [tunnel EXCEPT ![tunnelProcess] = "dead"]
    /\ Goto("listener", "done")
    /\ UNCHANGED <<proc, life, faults, tunnelProcess, tunnelInfo, tunnelID, stopVars,
                   answer, got, retries, posted, history>>

Listener ==
    ListenerWakes \/ ListenerWaits \/ PostEmptyList("listener") \/ KillTunnel
    \/ GetTunnelId("listener")

-----------------------------------------------------------------------------
(* The outside world.                                                      *)

\* The process ends at once.  The tunnel lives on: it is in a group of its own.
Dies ==
    /\ proc' = "down"
    /\ orphans' = orphans \cup (Alive \cap {life})
    /\ UNCHANGED <<life, faults, tunnelVars, tunnelInfo, tunnelID, stopVars, callVars,
                   zeroSeen, raced>>

\* A signal: before signal.Notify it has its default effect.
SignalKills  == pc["listener"] = "none" /\ Dies

SignalArrives ==
    /\ pc["listener"] # "none" /\ ~signal
    /\ signal' = TRUE
    /\ UNCHANGED <<proc, life, faults, tunnelVars, tunnelInfo, tunnelID, stop, callVars,
                   history>>

\* A panic: GetOutboundIP without a network, or the use of a torn string whose
\* pointer is nil.
Crash == pc["listener"] # "none" /\ Dies

Restart ==
    /\ proc # "up" /\ life < MaxLives
    /\ proc' = "up" /\ life' = life + 1
    /\ tunnelProcess' = 0 /\ tunnelInfo' = NoInfo /\ tunnelID' = NoId
    /\ stop' = FALSE /\ signal' = FALSE
    /\ pc' = FreshCallers
    /\ answer' = [c \in Caller |-> NoBody]
    /\ got' = [c \in Caller |-> NoId]
    /\ retries' = [c \in Caller |-> 1]
    /\ posted' = [c \in Caller |-> NoId]
    /\ zeroSeen' = FALSE /\ raced' = FALSE
    /\ UNCHANGED <<faults, tunnel, orphans>>

World == \E p \in Process : TunnelServes(p) \/ TunnelExits(p) \/ TunnelDies(p)

Binary ==
    /\ proc = "up"
    /\ Main \/ Watch \/ Keep \/ Listener \/ SignalKills \/ SignalArrives \/ Crash

\* The last life of the bound has ended.
Over == proc # "up" /\ life = MaxLives /\ UNCHANGED vars

Next == Binary \/ World \/ Restart \/ Over

Spec == Init /\ [][Next]_vars

\* Goroutines that can run do run, the info API answers or fails, and a tunnel
\* that was started either serves or exits.
Fairness ==
    /\ WF_vars(proc = "up" /\ Main) /\ WF_vars(proc = "up" /\ Watch)
    /\ WF_vars(proc = "up" /\ Keep) /\ WF_vars(proc = "up" /\ Listener)
    /\ \A p \in Process : WF_vars(TunnelServes(p)) /\ WF_vars(TunnelExits(p))

FairSpec == Spec /\ Fairness

-----------------------------------------------------------------------------
(* Properties.                                                             *)

\* Every variable ranges over the values the code can give it.
TypeOK ==
    /\ proc \in {"up", "down", "exited"} /\ life \in Process
    /\ faults \in 0..MaxFaults
    /\ tunnel \in [Process -> {"none", "starting", "up", "dead"}]
    /\ tunnelProcess \in 0..MaxLives
    /\ tunnelInfo \in Info
    /\ tunnelID \in Id \cup {NoId}
    /\ stop \in BOOLEAN /\ signal \in BOOLEAN
    /\ pc \in [Caller -> {"none", "launch", "sleep", "start", "wait", "loop", "assign",
                          "waitGroup", "kill", "post", "done", "check", "cached",
                          "fetch", "empty", "decode", "recheck"}]
    /\ answer \in [Caller -> Body]
    /\ got \in [Caller -> Id \cup {NoId, Torn}]
    /\ retries \in [Caller -> 0..1]
    /\ posted \in [Caller -> Id \cup {NoId, Torn}]
    /\ orphans \in SUBSET Process /\ zeroSeen \in BOOLEAN /\ raced \in BOOLEAN

\* When main returns, the tunnel this life launched is dead, whatever the earlier lives
\* have left.  It says nothing of the other ends: a crash, or a signal that comes
\* before anybody listens for one, ends the binary and leaves its tunnel running.
GracefulStopEndsTunnel ==
    proc = "exited" => tunnelProcess \in Process /\ tunnel[tunnelProcess] = "dead"

\* The ids in use, at any of the places they are kept.
IdsInUse == {tunnelInfo.id, tunnelID} \cup {got[c] : c \in Caller}
            \cup {posted[c] : c \in Caller}

\* An id is that of the tunnel this life launched, unless an earlier life ended by
\* a crash or an unheard signal; then it may be that one's tunnel, whose port the
\* new one found taken.
IdsAreOwnOrOrphans ==
    \A p \in Process : p \in IdsInUse => p = tunnelProcess \/ p \in orphans

\* The host goes by the id "0" only after an answer that said so, or when one call
\* emptied the cache while another was about to format the id it had seen there.
ZeroNeedsRace ==
    0 \in {tunnelID} \cup {got[c] : c \in Caller} \cup {posted[c] : c \in Caller} =>
        zeroSeen \/ raced

\* While a tunnel serves, the watcher comes to go by the id of a tunnel and keeps
\* one for good, whatever zero, empty or failed answers came before and however the
\* calls of GetTunnelId overlapped.
WatcherLearnsId ==
    <>[](\/ proc # "up" \/ signal \/ Serving = {}
         \/ tunnelID \in Process)

\* Where a call is when it has seen no usable id, and when it has seen one.
Missed == {"fetch", "empty", "decode", "recheck"}

CallOf(c) == IF pc[c] \in Missed \cup {"check"} THEN "asking"
             ELSE IF pc[c] = "cached" THEN "found" ELSE "out"

\* An id in tunnelInfo is there for good once no call is left that would empty it.
Settled == Usable(tunnelInfo) /\ \A c \in Caller : pc[c] \notin Missed

CachedId == IF Settled THEN tunnelInfo.id ELSE NoId
Calls    == [c \in Caller |-> CallOf(c)]
Results  == [c \in Caller |-> IF CallOf(c) = "out" THEN got[c] ELSE NoId]

Cache == INSTANCE TunnelIdCache WITH
    Client <- Caller, Id <- Process, Zero <- 0, None <- NoId,
    cache <- CachedId, call <- Calls, result <- Results

\* Calls that empty, fill and read the unprotected tunnelInfo at once still look
\* like calls of a cache that takes one step per call: once it holds an id, no call
\* fails or returns another before the next start.
CacheSpec == Cache!Spec
=============================================================================
