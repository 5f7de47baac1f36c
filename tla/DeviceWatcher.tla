---------------------------- MODULE DeviceWatcher ----------------------------
(***************************************************************************)
(* The device watcher (watcher/watcher.go): watchDevices scans the host's  *)
(* USB devices every three seconds, leases an Appium port to each new one  *)
(* and starts a goroutine per difference that posts it to the device       *)
(* backend; keepAlive posts the whole registry every minute.  Nothing      *)
(* orders these posts, and a failed one is logged and forgotten.           *)
(***************************************************************************)
EXTENDS Naturals, FiniteSets

CONSTANTS
    Ios, Android,     \* UDIDs, by operating system
    FirstPort,        \* common.BaseAppiumPort at start, "4724"
    StoreMayFail,     \* whether a write to byod.db may fail (disk full)
    MaxChurn,         \* bound: changes of the attached hardware
    MaxFaults         \* bound: failed calls to the tunnel, usb, adb and backend

Device == Ios \cup Android

ASSUME WatcherAssumption ==
    /\ Ios \cap Android = {}
    /\ FirstPort \in Nat \ {0}
    /\ StoreMayFail \in BOOLEAN
    /\ MaxChurn \in Nat
    /\ MaxFaults \in Nat

VARIABLES
    hw,               \* what is plugged in: hw[d] \in Seen
    churn, faults,    \* how much of the two bounds is used
    tunnelInfo,       \* remote.tunnelInfo holds a usable tunnel id
    tunnelID,         \* dw.TunnelID is not ""
    stopChan,         \* "open" or "closed"
    watchPc,          \* the watchDevices goroutine
    newDevices,       \* its map under construction, "absent" = no entry
    todo,             \* devices its two comparison loops have still to visit
    oldDevices,       \* dw.OldDevices
    ports,            \* "Appium_Port_"+udid in byod.db, 0 = no entry
    baseAppiumPort,   \* common.BaseAppiumPort
    flight,           \* flight[<<d, s>>]: sync goroutines posting s for d
    keepPc, kaList,   \* the keepAlive goroutine and the list it is posting
    late,             \* a list whose client timed out but which still travels
    view,             \* the backend's record of this host's devices
    announced         \* history: the status last handed to `go dw.sync`

watchVars == <<watchPc, newDevices, todo, oldDevices, tunnelID, announced>>
storeVars == <<ports, baseAppiumPort>>
keepVars  == <<keepPc, kaList>>
envVars   == <<hw, churn>>
wireVars  == <<flight, late, view>>
vars == <<envVars, faults, tunnelInfo, stopChan, watchVars, storeVars,
          keepVars, wireVars>>

-----------------------------------------------------------------------------
(* Statuses.                                                               *)

\* A device in a map of the watcher; "absent" stands for a missing key.
Seen == {"absent", "connected", "ready"}

\* A device in a message to the backend or in the backend's record.
Status == {"connected", "ready", "disconnected"}

Registry == [Device -> Seen]

\* Mutant of Report: a device that left keeps the status it has in the map.
ReportAsIs(s) == s

\* The status the backend should hold for a device the watcher sees as s.
Report(s) == IF s = "absent" THEN "disconnected" ELSE s

\* Mutant of Stored: "ready" is assigned to the map's entry.
StoredInMap(d, s) == s

\* What the scan stores.  For iOS the map entry is written before syncDiskImages
\* runs, and "ready" is then assigned to the loop's own copy: it is lost.
Stored(d, s) == IF d \in Ios /\ s = "ready" THEN "connected" ELSE s

\* A call that fails uses up one of the faults of the bound.
Fault == faults < MaxFaults /\ faults' = faults + 1

Outcome(ok) == IF ok THEN UNCHANGED faults ELSE Fault

Empty == [d \in Device |-> "absent"]

-----------------------------------------------------------------------------
Init ==
    /\ hw \in Registry
    /\ churn = 0 /\ faults = 0
    /\ tunnelInfo = FALSE /\ tunnelID = FALSE
    /\ stopChan = "open"
    /\ watchPc = "idle" /\ newDevices = Empty /\ todo = {} /\ oldDevices = Empty
    /\ ports = [d \in Device |-> 0]
    /\ baseAppiumPort = FirstPort
    /\ flight = [m \in Device \X Status |-> 0]
    /\ keepPc = "idle" /\ kaList = Empty /\ late = {}
    /\ view = [d \in Device |-> "disconnected"]
    /\ announced = [d \in Device |-> "disconnected"]

-----------------------------------------------------------------------------
(* Environment.                                                            *)

\* A device is plugged, unplugged, goes on or off line (Android), or gets or
\* loses a mounted developer disk image (iOS).
HardwareChange(d, s) ==
    /\ churn < MaxChurn
    /\ hw[d] # s
    /\ churn' = churn + 1
    /\ hw' = [hw EXCEPT ![d] = s]
    /\ UNCHANGED <<faults, tunnelInfo, stopChan, watchVars, storeVars,
                   keepVars, wireVars>>

CloseStopChan ==
    /\ stopChan = "open"
    /\ stopChan' = "closed"
    /\ UNCHANGED <<envVars, faults, tunnelInfo, watchVars, storeVars,
                   keepVars, wireVars>>

-----------------------------------------------------------------------------
(* remote.GetTunnelId.  A usable cached id is returned without a call.     *)
(* Otherwise the info API is asked: the call may fail, also after the id   *)
(* was decoded, and it may succeed with id 0, which is not cached.         *)

GetTunnelId(ok) ==
    IF tunnelInfo THEN ok /\ UNCHANGED tunnelInfo ELSE tunnelInfo' \in BOOLEAN

-----------------------------------------------------------------------------
(* Watch: starts watchDevices as a goroutine, then becomes keepAlive.      *)

GoWatchDevices ==
    /\ watchPc = "idle"
    /\ watchPc' = "check"
    /\ UNCHANGED <<envVars, faults, tunnelInfo, stopChan, newDevices, todo,
                   oldDevices, tunnelID, announced, storeVars, keepVars, wireVars>>

RunKeepAlive ==
    /\ watchPc # "idle" /\ keepPc = "idle"
    /\ keepPc' = "check"
    /\ UNCHANGED <<envVars, faults, tunnelInfo, stopChan, watchVars, storeVars,
                   kaList, wireVars>>

-----------------------------------------------------------------------------
(* watchDevices.                                                           *)

WatchStop ==
    /\ watchPc = "check" /\ stopChan = "closed"
    /\ watchPc' = "done"
    /\ UNCHANGED <<envVars, faults, tunnelInfo, stopChan, newDevices, todo,
                   oldDevices, tunnelID, announced, storeVars, keepVars, wireVars>>

\* The select's default branch: no tunnel id means another round in 3 s.
WatchBegin(ok) ==
    /\ watchPc = "check" /\ stopChan = "open"
    /\ GetTunnelId(ok)
    /\ Outcome(ok)
    /\ IF ok THEN /\ watchPc' = "ios"
                  /\ tunnelID' = TRUE
                  /\ newDevices' = Empty
             ELSE UNCHANGED <<watchPc, tunnelID, newDevices>>
    /\ UNCHANGED <<envVars, stopChan, todo, oldDevices, announced, storeVars,
                   keepVars, wireVars>>

\* One operating system's devices enter the map; when the listing fails none do.
Listed(S, ok) ==
    IF ok THEN [d \in Device |-> IF d \in S THEN Stored(d, hw[d]) ELSE newDevices[d]]
          ELSE newDevices

ScanIos(ok) ==
    /\ watchPc = "ios"
    /\ Outcome(ok)
    /\ newDevices' = Listed(Ios, ok)
    /\ watchPc' = "android"
    /\ UNCHANGED <<envVars, tunnelInfo, stopChan, todo, oldDevices, tunnelID,
                   announced, storeVars, keepVars, wireVars>>

\* Mutant of Changed: statuses of Android devices are not compared.
ChangedPresence(d, old, new) == (old[d] = "absent") # (new[d] = "absent")

\* Mutant of Changed: every device present is reported.
ChangedOrPresent(d, old, new) == old[d] # "absent" \/ new[d] # "absent"

\* A device the comparison loops report: it left, it is new, or it is an Android
\* device whose status differs from the one registered.
Changed(d, old, new) ==
    \/ old[d] # "absent" /\ new[d] = "absent"
    \/ old[d] = "absent" /\ new[d] # "absent"
    \/ d \in Android /\ old[d] # new[d]

ScanAndroid(ok) ==
    /\ watchPc = "android"
    /\ Outcome(ok)
    /\ newDevices' = Listed(Android, ok)
    /\ todo' = {d \in Device : Changed(d, oldDevices, newDevices')}
    /\ watchPc' = "diff"
    /\ UNCHANGED <<envVars, tunnelInfo, stopChan, oldDevices, tunnelID,
                   announced, storeVars, keepVars, wireVars>>

\* Mutant of SetAppiumPort: the check for a stored port is inverted.
SetAppiumPortInverted(d) ==
    IF ports[d] # 0
    THEN ports' = [ports EXCEPT ![d] = baseAppiumPort] /\ baseAppiumPort' = baseAppiumPort + 1
    ELSE UNCHANGED storeVars

\* Mutant of SetAppiumPort: BaseAppiumPort stays where it is.
SetAppiumPortSame(d) ==
    IF ports[d] = 0
    THEN ports' = [ports EXCEPT ![d] = baseAppiumPort] /\ UNCHANGED baseAppiumPort
    ELSE UNCHANGED storeVars

\* Mutant of SetAppiumPort: a stored port is replaced when its device comes back.
SetAppiumPortAnew(d) ==
    ports' = [ports EXCEPT ![d] = baseAppiumPort] /\ baseAppiumPort' = baseAppiumPort + 1

\* A port is stored only when none is; BaseAppiumPort moves on even when the
\* write failed, since the error of Put is dropped.
SetAppiumPort(d) ==
    IF ports[d] = 0
    THEN /\ baseAppiumPort' = baseAppiumPort + 1
         /\ \/ ports' = [ports EXCEPT ![d] = baseAppiumPort]
            \/ StoreMayFail /\ UNCHANGED ports
    ELSE UNCHANGED storeVars

\* `go dw.sync(false, ...)`: one more goroutine posting status s of d.
GoSync(d, s) ==
    /\ flight' = [flight EXCEPT ![<<d, s>>] = @ + 1]
    /\ announced' = [announced EXCEPT ![d] = s]

\* One iteration of the comparison loops: first over the devices that left, then
\* over those present.  Go visits a map in any order.
Compare(d) ==
    /\ watchPc = "diff" /\ d \in todo
    /\ newDevices[d] = "absent" \/ \A e \in todo : newDevices[e] # "absent"
    /\ IF oldDevices[d] = "absent" THEN SetAppiumPort(d) ELSE UNCHANGED storeVars
    /\ GoSync(d, Report(newDevices[d]))
    /\ todo' = todo \ {d}
    /\ UNCHANGED <<envVars, faults, tunnelInfo, stopChan, watchPc, newDevices,
                   oldDevices, tunnelID, keepVars, late, view>>

\* dw.OldDevices = newDevices, then 3 s of sleep.
Publish ==
    /\ watchPc = "diff" /\ todo = {}
    /\ oldDevices' = newDevices
    /\ newDevices' = Empty
    /\ watchPc' = "check"
    /\ UNCHANGED <<envVars, faults, tunnelInfo, stopChan, todo, tunnelID,
                   announced, storeVars, keepVars, wireVars>>

WatchDevices ==
    \/ WatchStop
    \/ \E ok \in BOOLEAN : WatchBegin(ok) \/ ScanIos(ok) \/ ScanAndroid(ok)
    \/ \E d \in Device : Compare(d)
    \/ Publish

-----------------------------------------------------------------------------
(* The sync goroutines and the backend.                                    *)

\* The backend, outside this repository, applies an incremental record.
ApplySync(d, s) ==
    /\ flight[<<d, s>>] > 0
    /\ flight' = [flight EXCEPT ![<<d, s>>] = @ - 1]
    /\ view' = [view EXCEPT ![d] = s]
    /\ UNCHANGED <<envVars, faults, tunnelInfo, stopChan, watchVars, storeVars,
                   keepVars, late>>

\* The post fails; sync logs the error and returns.
LoseSync(d, s) ==
    /\ flight[<<d, s>>] > 0
    /\ Fault
    /\ flight' = [flight EXCEPT ![<<d, s>>] = @ - 1]
    /\ UNCHANGED <<envVars, tunnelInfo, stopChan, watchVars, storeVars, keepVars,
                   late, view>>

\* A record with is_sync_host set replaces the host's whole list.
ListView(l) == [d \in Device |-> Report(l[d])]

\* The backend applies a list whose sender had given up on it after 10 s.
ApplyLate(l) ==
    /\ l \in late
    /\ late' = late \ {l}
    /\ view' = ListView(l)
    /\ UNCHANGED <<envVars, faults, tunnelInfo, stopChan, watchVars, storeVars,
                   keepVars, flight>>

-----------------------------------------------------------------------------
(* keepAlive.                                                              *)

\* Mutant of KeepAliveCheck: stopChan is not looked at.
KeepAliveNoCheck ==
    /\ keepPc = "check"
    /\ keepPc' = "sleep"
    /\ UNCHANGED <<envVars, faults, tunnelInfo, stopChan, watchVars, storeVars,
                   kaList, wireVars>>

KeepAliveCheck ==
    /\ keepPc = "check"
    /\ keepPc' = IF stopChan = "closed" THEN "done" ELSE "sleep"
    /\ UNCHANGED <<envVars, faults, tunnelInfo, stopChan, watchVars, storeVars,
                   kaList, wireVars>>

\* Mutant of KeepAliveSnapshot: it reads the map a scan is still filling.
KeepAliveSnapshotNew ==
    /\ keepPc = "sleep"
    /\ kaList' = newDevices
    /\ keepPc' = "post"
    /\ UNCHANGED <<envVars, faults, tunnelInfo, stopChan, watchVars, storeVars,
                   wireVars>>

\* After 60 s the goroutine reads the registry, without a lock, into a slice.
KeepAliveSnapshot ==
    /\ keepPc = "sleep"
    /\ kaList' = oldDevices
    /\ keepPc' = "post"
    /\ UNCHANGED <<envVars, faults, tunnelInfo, stopChan, watchVars, storeVars,
                   wireVars>>

\* sync(true, devices): without dw.TunnelID the id is fetched, and on an error
\* nothing is posted.
SyncTunnel(ok) ==
    IF tunnelID THEN ok /\ UNCHANGED tunnelInfo ELSE GetTunnelId(ok)

\* The loop's slice goes out of scope.
EndSync == keepPc' = "check" /\ kaList' = Empty

KeepAlivePost ==
    /\ keepPc = "post"
    /\ SyncTunnel(TRUE)
    /\ view' = ListView(kaList)
    /\ EndSync
    /\ UNCHANGED <<envVars, faults, stopChan, watchVars, storeVars, flight, late>>

KeepAliveNoTunnel ==
    /\ keepPc = "post"
    /\ SyncTunnel(FALSE)
    /\ Fault
    /\ EndSync
    /\ UNCHANGED <<envVars, stopChan, watchVars, storeVars, wireVars>>

\* The post fails, or the client gives up on a request that still travels.
\* Bound: one such request at a time.
KeepAlivePostFails ==
    /\ keepPc = "post"
    /\ SyncTunnel(TRUE)
    /\ Fault
    /\ \/ UNCHANGED late
       \/ late = {} /\ late' = {kaList}
    /\ EndSync
    /\ UNCHANGED <<envVars, stopChan, watchVars, storeVars, flight, view>>

KeepAlive ==
    \/ KeepAliveCheck
    \/ KeepAliveSnapshot
    \/ KeepAlivePost
    \/ KeepAliveNoTunnel
    \/ KeepAlivePostFails

-----------------------------------------------------------------------------
Environment ==
    \/ \E d \in Device, s \in Seen : HardwareChange(d, s)
    \/ \E d \in Device, s \in Status : ApplySync(d, s) \/ LoseSync(d, s)
    \/ \E l \in late : ApplyLate(l)

\* Both goroutines have returned and nothing travels any more.
Stopped ==
    /\ watchPc = "done" /\ keepPc = "done"
    /\ UNCHANGED vars

Next ==
    \/ GoWatchDevices
    \/ RunKeepAlive
    \/ WatchDevices
    \/ KeepAlive
    \/ Environment
    \/ CloseStopChan
    \/ Stopped

Spec == Init /\ [][Next]_vars

\* A goroutine that can run does run (the calls it makes return), and a request
\* that is not lost is applied in the end.
Fairness ==
    /\ WF_vars(GoWatchDevices) /\ WF_vars(RunKeepAlive)
    /\ WF_vars(WatchDevices) /\ WF_vars(KeepAlive)
    /\ \A d \in Device, s \in Status : WF_vars(ApplySync(d, s))
    /\ WF_vars(\E l \in late : ApplyLate(l))

FairSpec == Spec /\ Fairness

-----------------------------------------------------------------------------
(* Properties.                                                             *)

\* Every variable ranges over the values the code can give it.
TypeOK ==
    /\ hw \in Registry /\ churn \in 0..MaxChurn /\ faults \in 0..MaxFaults
    /\ tunnelInfo \in BOOLEAN /\ tunnelID \in BOOLEAN
    /\ stopChan \in {"open", "closed"}
    /\ watchPc \in {"idle", "check", "ios", "android", "diff", "done"}
    /\ newDevices \in Registry /\ oldDevices \in Registry
    /\ todo \in SUBSET Device
    /\ ports \in [Device -> Nat] /\ baseAppiumPort \in Nat
    /\ flight \in [Device \X Status -> Nat]
    /\ keepPc \in {"idle", "check", "sleep", "post", "done"}
    /\ kaList \in Registry /\ late \in SUBSET Registry
    /\ view \in [Device -> Status]
    /\ announced \in [Device -> Status]

\* What was announced last for a device is what the registry holds: between two
\* comparisons no arrival, departure or Android status change has gone
\* unannounced, although each was noticed by comparing two maps only.
AnnouncedMatchesRegistry ==
    \A d \in Device :
        announced[d] = IF watchPc = "diff" /\ d \notin todo
                       THEN Report(newDevices[d]) ELSE Report(oldDevices[d])

\* A device the backend knows of or is going to, by any of the three routes: a
\* sync goroutine, a keep-alive list, a late list.
Known(d) ==
    \/ view[d] # "disconnected"
    \/ \E s \in Status \ {"disconnected"} : flight[<<d, s>>] > 0
    \/ kaList[d] # "absent"
    \/ \E l \in late : l[d] # "absent"

\* Such a device has its Appium port in the store, so that a session the backend
\* sends here finds one (unless a write to the store failed).
KnownDevicesHavePorts ==
    StoreMayFail \/ \A d \in Device : Known(d) => ports[d] # 0

\* Two devices never share an Appium port, even when writes to the store fail.
PortsDistinct ==
    \A d, e \in Device : ports[d] # 0 /\ ports[d] = ports[e] => d = e

\* An iOS device reaches the backend as "connected" at most: the "ready" that
\* watchDevices computes after syncDiskImages is stored in a copy.
IosNeverReady ==
    \A d \in Ios : /\ view[d] # "ready" /\ oldDevices[d] # "ready"
                   /\ flight[<<d, "ready">>] = 0

\* A device is announced again only with a status other than the last one: a
\* scan that finds what the previous one found starts no sync goroutine.
NoRepeatedAnnouncement ==
    [][\A d \in Device, s \in Status :
          flight'[<<d, s>>] > flight[<<d, s>>] => announced[d] # s]_vars

\* The ports of the store are leased as PortLease promises.
Lease == INSTANCE PortLease WITH Holder <- Device, lease <- ports
LeaseSpec == Lease!Spec

\* Once hardware and failures settle, the backend's record of the host becomes
\* what is plugged in, and stays so: reordered, lost and late posts are repaired
\* by a later keep-alive list.
BackendConverges ==
    <>[](\/ stopChan = "closed"
         \/ view = [d \in Device |-> Report(Stored(d, hw[d]))])

\* Closing stopChan ends both loops.
StopEndsLoops ==
    (stopChan = "closed" /\ watchPc # "idle" /\ keepPc # "idle")
        ~> (watchPc = "done" /\ keepPc = "done")
=============================================================================
