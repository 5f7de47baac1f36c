------------------------- MODULE DeviceWatcherProofs -------------------------
(***************************************************************************)
(* Proofs about the device watcher, for any sets of devices and any bounds. *)
(***************************************************************************)
EXTENDS DeviceWatcher, TLAPS

-----------------------------------------------------------------------------
(* Facts about the operators.                                              *)

\* What the watcher reports of a registry entry is a status of the backend.
LEMMA ReportStatus == \A s \in Seen : Report(s) \in Status
  BY DEF Report, Seen, Status

\* Distinct registry entries are reported as distinct statuses.
LEMMA ReportInjective == \A s, t \in Seen : Report(s) = Report(t) => s = t
  BY DEF Report, Seen

\* A scan stores an entry of a registry, and never "ready" for an iOS device.
LEMMA StoredSeen ==
    \A d \in Device, s \in Seen :
        Stored(d, s) \in Seen /\ (d \in Ios => Stored(d, s) # "ready")
  BY DEF Stored, Seen

LEMMA EmptyRegistry == Empty \in Registry
  BY DEF Empty, Registry, Seen

\* A list, as the backend stores it, gives every device a status.
LEMMA ListViewType == \A l \in Registry : ListView(l) \in [Device -> Status]
  BY ReportStatus DEF ListView, Registry

\* The scan of one operating system's devices leaves a registry.
LEMMA ListedRegistry ==
    ASSUME TypeOK, NEW S, NEW ok \in BOOLEAN
    PROVE  Listed(S, ok) \in Registry
  BY StoredSeen DEF Listed, TypeOK, Registry

-----------------------------------------------------------------------------
(* Type correctness.                                                       *)

LEMMA InitType == Init => TypeOK
<1> SUFFICES ASSUME Init
             PROVE  TypeOK
  OBVIOUS
<1> USE WatcherAssumption DEF WatcherAssumption, Init
<1>1. /\ hw \in Registry /\ newDevices \in Registry /\ oldDevices \in Registry
      /\ kaList \in Registry /\ late \in SUBSET Registry
  BY EmptyRegistry
<1>2. ports \in [Device -> Nat] /\ flight \in [Device \X Status -> Nat]
  OBVIOUS
<1>3. view \in [Device -> Status] /\ announced \in [Device -> Status]
  BY DEF Status
<1>4. churn \in 0..MaxChurn /\ faults \in 0..MaxFaults /\ baseAppiumPort \in Nat
  OBVIOUS
<1>5. QED
  BY <1>1, <1>2, <1>3, <1>4 DEF TypeOK

LEMMA WatchType ==
    ASSUME TypeOK, WatchDevices
    PROVE  TypeOK'
<1> USE WatcherAssumption DEF WatcherAssumption, TypeOK, envVars, watchVars, storeVars, keepVars, wireVars
<1>1. CASE WatchStop
  BY <1>1 DEF WatchStop
<1>2. ASSUME NEW ok \in BOOLEAN, WatchBegin(ok)
      PROVE  TypeOK'
  <2>1. tunnelInfo' \in BOOLEAN
    BY <1>2 DEF WatchBegin, GetTunnelId
  <2>2. faults' \in 0..MaxFaults
    BY <1>2 DEF WatchBegin, Outcome, Fault
  <2>3. CASE ok
    BY <1>2, <2>1, <2>2, <2>3, EmptyRegistry DEF WatchBegin
  <2>4. CASE ~ok
    BY <1>2, <2>1, <2>2, <2>4 DEF WatchBegin
  <2>5. QED
    BY <2>3, <2>4
<1>3. ASSUME NEW ok \in BOOLEAN, ScanIos(ok)
      PROVE  TypeOK'
  BY <1>3, ListedRegistry DEF ScanIos, Outcome, Fault
<1>4. ASSUME NEW ok \in BOOLEAN, ScanAndroid(ok)
      PROVE  TypeOK'
  BY <1>4, ListedRegistry DEF ScanAndroid, Outcome, Fault
<1>5. ASSUME NEW d \in Device, Compare(d)
      PROVE  TypeOK'
  <2>1. ports' \in [Device -> Nat] /\ baseAppiumPort' \in Nat
    BY <1>5 DEF Compare, SetAppiumPort
  <2>2. Report(newDevices[d]) \in Status
    BY ReportStatus DEF Registry
  <2>3. flight' \in [Device \X Status -> Nat] /\ announced' \in [Device -> Status]
    BY <1>5, <2>2 DEF Compare, GoSync
  <2>4. QED
    BY <1>5, <2>1, <2>3 DEF Compare
<1>6. CASE Publish
  BY <1>6, EmptyRegistry DEF Publish
<1>7. QED
  BY <1>1, <1>2, <1>3, <1>4, <1>5, <1>6 DEF WatchDevices

LEMMA KeepAliveType ==
    ASSUME TypeOK, KeepAlive
    PROVE  TypeOK'
<1> USE WatcherAssumption DEF WatcherAssumption, TypeOK, envVars, watchVars, storeVars, keepVars, wireVars
<1> USE DEF SyncTunnel, GetTunnelId, EndSync, Fault
<1>1. CASE KeepAliveCheck
  BY <1>1 DEF KeepAliveCheck
<1>2. CASE KeepAliveSnapshot
  BY <1>2 DEF KeepAliveSnapshot
<1>3. CASE KeepAlivePost
  BY <1>3, EmptyRegistry, ListViewType DEF KeepAlivePost
<1>4. CASE KeepAliveNoTunnel
  BY <1>4, EmptyRegistry DEF KeepAliveNoTunnel
<1>5. CASE KeepAlivePostFails
  BY <1>5, EmptyRegistry DEF KeepAlivePostFails
<1>6. QED
  BY <1>1, <1>2, <1>3, <1>4, <1>5 DEF KeepAlive

LEMMA EnvironmentType ==
    ASSUME TypeOK, Environment
    PROVE  TypeOK'
<1> USE WatcherAssumption DEF WatcherAssumption, TypeOK, envVars, watchVars, storeVars, keepVars, wireVars
<1>1. ASSUME NEW d \in Device, NEW s \in Seen, HardwareChange(d, s)
      PROVE  TypeOK'
  BY <1>1 DEF HardwareChange, Registry
<1>2. ASSUME NEW d \in Device, NEW s \in Status, ApplySync(d, s)
      PROVE  TypeOK'
  BY <1>2 DEF ApplySync
<1>3. ASSUME NEW d \in Device, NEW s \in Status, LoseSync(d, s)
      PROVE  TypeOK'
  BY <1>3 DEF LoseSync, Fault
<1>4. ASSUME NEW l \in late, ApplyLate(l)
      PROVE  TypeOK'
  BY <1>4, ListViewType DEF ApplyLate
<1>5. QED
  BY <1>1, <1>2, <1>3, <1>4 DEF Environment

LEMMA TypeStep == TypeOK /\ [Next]_vars => TypeOK'
<1> SUFFICES ASSUME TypeOK, [Next]_vars
             PROVE  TypeOK'
  OBVIOUS
<1> USE DEF envVars, watchVars, storeVars, keepVars, wireVars
<1>1. CASE GoWatchDevices
  BY <1>1 DEF GoWatchDevices, TypeOK
<1>2. CASE RunKeepAlive
  BY <1>2 DEF RunKeepAlive, TypeOK
<1>3. CASE WatchDevices
  BY <1>3, WatchType
<1>4. CASE KeepAlive
  BY <1>4, KeepAliveType
<1>5. CASE Environment
  BY <1>5, EnvironmentType
<1>6. CASE CloseStopChan
  BY <1>6 DEF CloseStopChan, TypeOK
<1>7. CASE UNCHANGED vars
  BY <1>7 DEF vars, TypeOK
<1>8. QED
  BY <1>1, <1>2, <1>3, <1>4, <1>5, <1>6, <1>7 DEF Next, Stopped

\* Every variable of the watcher keeps the type the code gives it.
THEOREM TypeCorrect == Spec => []TypeOK
<1>1. QED
  BY InitType, TypeStep, PTL DEF Spec

-----------------------------------------------------------------------------
(* "ready" is never recorded of an iOS device.                             *)

\* The strengthening: no place a status is kept in or travels through holds it.
IosInv ==
    \A d \in Ios :
        /\ newDevices[d] # "ready" /\ oldDevices[d] # "ready"
        /\ kaList[d] # "ready" /\ view[d] # "ready"
        /\ \A l \in late : l[d] # "ready"
        /\ flight[<<d, "ready">>] = 0

LEMMA IosInit == Init => IosInv
  BY DEF Init, IosInv, Empty, Device, Status

LEMMA IosStep == TypeOK /\ IosInv /\ [Next]_vars => IosInv'
<1> SUFFICES ASSUME TypeOK, IosInv, [Next]_vars, NEW d \in Ios
             PROVE  /\ newDevices'[d] # "ready" /\ oldDevices'[d] # "ready"
                    /\ kaList'[d] # "ready" /\ view'[d] # "ready"
                    /\ \A l \in late' : l[d] # "ready"
                    /\ flight'[<<d, "ready">>] = 0
  BY DEF IosInv
<1> USE DEF envVars, watchVars, storeVars, keepVars, wireVars
<1>d. /\ d \in Device /\ Empty[d] # "ready"
      /\ \A l \in Registry : l[d] # "ready" => ListView(l)[d] # "ready"
  BY DEF Device, Empty, ListView, Report
<1>t. /\ hw \in Registry /\ oldDevices \in Registry /\ newDevices \in Registry
      /\ kaList \in Registry /\ late \in SUBSET Registry
      /\ flight \in [Device \X Status -> Nat] /\ view \in [Device -> Status]
  BY DEF TypeOK
<1>i. /\ newDevices[d] # "ready" /\ oldDevices[d] # "ready"
      /\ kaList[d] # "ready" /\ view[d] # "ready"
      /\ \A l \in late : l[d] # "ready"
      /\ flight[<<d, "ready">>] = 0
  BY DEF IosInv
<1>1. CASE UNCHANGED <<newDevices, oldDevices, kaList, late, flight, view>>
  BY <1>1, <1>i
<1>2. ASSUME NEW ok \in BOOLEAN, WatchBegin(ok)
      PROVE  newDevices'[d] # "ready" /\ UNCHANGED <<oldDevices, kaList, wireVars>>
  BY <1>2, <1>d, <1>i DEF WatchBegin
<1>3. ASSUME NEW ok \in BOOLEAN, ScanIos(ok) \/ ScanAndroid(ok)
      PROVE  newDevices'[d] # "ready" /\ UNCHANGED <<oldDevices, kaList, wireVars>>
  <2>1. hw[d] \in Seen
    BY <1>d, <1>t DEF Registry
  <2>2. \A S : Listed(S, ok)[d] # "ready"
    BY <2>1, <1>d, <1>i, StoredSeen DEF Listed
  <2>3. QED
    BY <1>3, <2>2 DEF ScanIos, ScanAndroid
<1>4. ASSUME NEW e \in Device, Compare(e)
      PROVE  /\ flight'[<<d, "ready">>] = 0
             /\ UNCHANGED <<newDevices, oldDevices, kaList, late, view>>
  <2>1. d = e => Report(newDevices[e]) # "ready"
    BY <1>i DEF Report
  <2>2. <<e, Report(newDevices[e])>> # <<d, "ready">>
    BY <2>1
  <2>3. QED
    BY <1>4, <1>t, <1>i, <1>d, <2>2 DEF Compare, GoSync, Status
<1>5. CASE Publish
  BY <1>5, <1>d, <1>i DEF Publish
<1>6. ASSUME NEW e \in Device, NEW s \in Status, ApplySync(e, s)
      PROVE  /\ flight'[<<d, "ready">>] = 0 /\ view'[d] # "ready"
             /\ UNCHANGED <<newDevices, oldDevices, kaList, late>>
  <2>1. <<e, s>> # <<d, "ready">>
    BY <1>6, <1>i DEF ApplySync
  <2>2. QED
    BY <1>6, <1>t, <1>i, <1>d, <2>1 DEF ApplySync, Status
<1>7. ASSUME NEW e \in Device, NEW s \in Status, LoseSync(e, s)
      PROVE  /\ flight'[<<d, "ready">>] = 0
             /\ UNCHANGED <<newDevices, oldDevices, kaList, late, view>>
  <2>1. <<e, s>> # <<d, "ready">>
    BY <1>7, <1>i DEF LoseSync
  <2>2. QED
    BY <1>7, <1>t, <1>i, <1>d, <2>1 DEF LoseSync, Status
<1>8. ASSUME NEW l \in late, ApplyLate(l)
      PROVE  /\ view'[d] # "ready" /\ \A k \in late' : k[d] # "ready"
             /\ UNCHANGED <<newDevices, oldDevices, kaList, flight>>
  BY <1>8, <1>t, <1>i, <1>d DEF ApplyLate
<1>9. CASE KeepAliveSnapshot
  BY <1>9, <1>i DEF KeepAliveSnapshot
<1>10. CASE KeepAlivePost
  BY <1>10, <1>t, <1>i, <1>d DEF KeepAlivePost, EndSync
<1>11. CASE KeepAliveNoTunnel
  BY <1>11, <1>i, <1>d DEF KeepAliveNoTunnel, EndSync
<1>12. CASE KeepAlivePostFails
  BY <1>12, <1>i, <1>d DEF KeepAlivePostFails, EndSync
<1>13. ASSUME GoWatchDevices \/ RunKeepAlive \/ WatchStop \/ KeepAliveCheck
              \/ CloseStopChan \/ Stopped \/ UNCHANGED vars
       PROVE  UNCHANGED <<newDevices, oldDevices, kaList, late, flight, view>>
  BY <1>13 DEF GoWatchDevices, RunKeepAlive, WatchStop, KeepAliveCheck,
               CloseStopChan, Stopped, vars
<1>14. ASSUME NEW e \in Device, NEW s \in Seen, HardwareChange(e, s)
       PROVE  UNCHANGED <<newDevices, oldDevices, kaList, late, flight, view>>
  BY <1>14 DEF HardwareChange
<1>15. QED
  BY <1>i, <1>1, <1>2, <1>3, <1>4, <1>5, <1>6, <1>7, <1>8, <1>9, <1>10, <1>11,
     <1>12, <1>13, <1>14 DEF Next, WatchDevices, KeepAlive, Environment

\* An iOS device is never "ready" in the registry, in a post or in the backend's
\* record: what watchDevices computes after syncDiskImages goes to a copy.
THEOREM IosNeverReadyHolds == Spec => []IosNeverReady
<1>1. IosInv => IosNeverReady
  BY DEF IosInv, IosNeverReady
<1>2. QED
  BY <1>1, IosInit, IosStep, TypeCorrect, PTL DEF Spec

-----------------------------------------------------------------------------
(* The Appium ports.                                                       *)

\* The strengthening: every stored port was handed out by the counter.
PortsInv ==
    /\ baseAppiumPort >= FirstPort
    /\ \A d \in Device : /\ ports[d] < baseAppiumPort
                         /\ ports[d] = 0 \/ ports[d] >= FirstPort
    /\ PortsDistinct

\* Only an iteration of the comparison loops touches the store.
LEMMA StoreSteps ==
    ASSUME [Next]_vars, ~UNCHANGED storeVars
    PROVE  \E d \in Device : Compare(d) /\ oldDevices[d] = "absent" /\ SetAppiumPort(d)
<1> USE DEF storeVars
<1>1. ASSUME GoWatchDevices \/ RunKeepAlive \/ CloseStopChan \/ Stopped \/ UNCHANGED vars
      PROVE  FALSE
  BY <1>1 DEF GoWatchDevices, RunKeepAlive, CloseStopChan, Stopped, vars
<1>2. ASSUME KeepAlive
      PROVE  FALSE
  BY <1>2 DEF KeepAlive, KeepAliveCheck, KeepAliveSnapshot, KeepAlivePost,
              KeepAliveNoTunnel, KeepAlivePostFails
<1>3. ASSUME Environment
      PROVE  FALSE
  BY <1>3 DEF Environment, HardwareChange, ApplySync, LoseSync, ApplyLate
<1>4. ASSUME WatchStop \/ Publish \/ \E ok \in BOOLEAN : WatchBegin(ok) \/ ScanIos(ok) \/ ScanAndroid(ok)
      PROVE  FALSE
  BY <1>4 DEF WatchStop, Publish, WatchBegin, ScanIos, ScanAndroid
<1>5. PICK d \in Device : Compare(d)
  BY <1>1, <1>2, <1>3, <1>4 DEF Next, WatchDevices
<1>6. QED
  BY <1>5 DEF Compare

LEMMA PortsInit == Init => PortsInv
  BY WatcherAssumption DEF WatcherAssumption, Init, PortsInv, PortsDistinct

LEMMA PortsStep == TypeOK /\ PortsInv /\ [Next]_vars => PortsInv'
<1> SUFFICES ASSUME TypeOK, PortsInv, [Next]_vars
             PROVE  PortsInv'
  OBVIOUS
<1>1. CASE UNCHANGED storeVars
  BY <1>1 DEF PortsInv, PortsDistinct, storeVars
<1>2. CASE ~UNCHANGED storeVars
  <2>1. PICK d \in Device : oldDevices[d] = "absent" /\ SetAppiumPort(d)
    BY <1>2, StoreSteps
  <2>2. /\ ports[d] = 0 /\ baseAppiumPort' = baseAppiumPort + 1
        /\ \/ ports' = [ports EXCEPT ![d] = baseAppiumPort]
           \/ ports' = ports
    BY <1>2, <2>1 DEF SetAppiumPort, storeVars
  <2>3. /\ FirstPort \in Nat \ {0} /\ baseAppiumPort \in Nat
        /\ ports \in [Device -> Nat]
    BY WatcherAssumption DEF WatcherAssumption, TypeOK
  <2>4. CASE ports' = ports
    BY <2>2, <2>3, <2>4 DEF PortsInv, PortsDistinct
  <2>5. CASE ports' = [ports EXCEPT ![d] = baseAppiumPort]
    BY <2>2, <2>3, <2>5 DEF PortsInv, PortsDistinct
  <2>6. QED
    BY <2>2, <2>4, <2>5
<1>3. QED
  BY <1>1, <1>2

\* Two devices never share an Appium port, whichever writes to the store fail:
\* setAppiumPort moves BaseAppiumPort on in any case.
THEOREM PortsDistinctHolds == Spec => []PortsDistinct
<1>1. PortsInv => PortsDistinct
  BY DEF PortsInv
<1>2. QED
  BY <1>1, PortsInit, PortsStep, TypeCorrect, PTL DEF Spec

\* A step that changes the store grants a port as PortLease says.
LEMMA LeaseStep == TypeOK /\ PortsInv /\ [Next]_vars => [Lease!Next]_ports
<1> SUFFICES ASSUME TypeOK, PortsInv, [Next]_vars, ports' # ports
             PROVE  Lease!Next
  OBVIOUS
<1>1. PICK d \in Device : SetAppiumPort(d)
  BY StoreSteps DEF storeVars
<1>2. ports[d] = 0 /\ ports' = [ports EXCEPT ![d] = baseAppiumPort]
  BY <1>1 DEF SetAppiumPort, storeVars
<1>3. /\ FirstPort \in Nat \ {0} /\ baseAppiumPort \in Nat
      /\ ports \in [Device -> Nat]
  BY WatcherAssumption DEF WatcherAssumption, TypeOK
<1>4. baseAppiumPort >= FirstPort /\ \A e \in Device : ports[e] # baseAppiumPort
  BY <1>3 DEF PortsInv
<1>5. Lease!Grant(d)
  BY <1>2, <1>3, <1>4 DEF Lease!Grant, Lease!Free
<1>6. QED
  BY <1>5 DEF Lease!Next

\* The store implements PortLease: a port is granted when it is free and then
\* neither taken back nor replaced.
THEOREM ImplementsPortLease == Spec => LeaseSpec
<1>1. Init => Lease!Init
  BY DEF Init, Lease!Init
<1>2. QED
  BY <1>1, LeaseStep, PortsInit, PortsStep, TypeCorrect, PTL DEF Spec, LeaseSpec, Lease!Spec

-----------------------------------------------------------------------------
(* The registry, what was announced of it, and the comparison in between.  *)

\* The strengthening: devices still to visit are those that differ, and none are
\* left between two comparisons.
RegistryInv ==
    /\ \A d \in todo : Changed(d, oldDevices, newDevices)
    /\ watchPc # "diff" => todo = {}
    /\ AnnouncedMatchesRegistry

\* A device the comparison passes over is reported as before.
LEMMA UnchangedReport ==
    ASSUME NEW d \in Device, NEW old \in Registry, NEW new \in Registry,
           d \in Ios => old[d] # "ready" /\ new[d] # "ready",
           ~Changed(d, old, new)
    PROVE  Report(old[d]) = Report(new[d])
<1>1. old[d] \in Seen /\ new[d] \in Seen
  BY DEF Registry
<1>2. CASE d \in Ios
  BY <1>1, <1>2 DEF Changed, Report, Seen
<1>3. CASE d \in Android
  BY <1>3 DEF Changed
<1>4. QED
  BY <1>2, <1>3 DEF Device

\* A device the comparison stops at is reported with another status.
LEMMA ChangedReport ==
    ASSUME NEW d \in Device, NEW old \in Registry, NEW new \in Registry,
           Changed(d, old, new)
    PROVE  Report(old[d]) # Report(new[d])
  BY ReportInjective DEF Changed, Registry

LEMMA RegistryInit == Init => RegistryInv
  BY DEF Init, RegistryInv, AnnouncedMatchesRegistry, Report, Empty

LEMMA RegistryStep == TypeOK /\ IosInv /\ IosInv' /\ RegistryInv /\ [Next]_vars => RegistryInv'
<1> SUFFICES ASSUME TypeOK, TypeOK', IosInv, IosInv', RegistryInv, [Next]_vars
             PROVE  RegistryInv'
  BY TypeStep
<1> USE DEF envVars, watchVars, storeVars, keepVars, wireVars
<1>1. CASE UNCHANGED <<watchPc, newDevices, oldDevices, todo, announced>>
  BY <1>1 DEF RegistryInv, AnnouncedMatchesRegistry, Changed
<1>2. CASE GoWatchDevices
  BY <1>2 DEF GoWatchDevices, RegistryInv, AnnouncedMatchesRegistry
<1>3. CASE WatchStop
  BY <1>3 DEF WatchStop, RegistryInv, AnnouncedMatchesRegistry
<1>4. ASSUME NEW ok \in BOOLEAN, WatchBegin(ok)
      PROVE  RegistryInv'
  BY <1>4 DEF WatchBegin, RegistryInv, AnnouncedMatchesRegistry
<1>5. ASSUME NEW ok \in BOOLEAN, ScanIos(ok)
      PROVE  RegistryInv'
  BY <1>5 DEF ScanIos, RegistryInv, AnnouncedMatchesRegistry
<1>6. ASSUME NEW ok \in BOOLEAN, ScanAndroid(ok)
      PROVE  RegistryInv'
  <2>1. /\ todo' = {d \in Device : Changed(d, oldDevices, newDevices')}
        /\ watchPc = "android" /\ watchPc' = "diff"
        /\ oldDevices' = oldDevices /\ announced' = announced
    BY <1>6 DEF ScanAndroid
  <2>2. ASSUME NEW d \in Device, d \notin todo'
        PROVE  Report(oldDevices[d]) = Report(newDevices'[d])
    <3>1. ~Changed(d, oldDevices, newDevices')
      BY <2>1, <2>2
    <3>2. oldDevices \in Registry /\ newDevices' \in Registry
      BY DEF TypeOK
    <3>3. d \in Ios => oldDevices[d] # "ready" /\ newDevices'[d] # "ready"
      BY DEF IosInv
    <3>4. QED
      BY <3>1, <3>2, <3>3, UnchangedReport
  <2>3. \A d \in Device : announced[d] = Report(oldDevices[d])
    BY <2>1 DEF RegistryInv, AnnouncedMatchesRegistry
  <2>4. AnnouncedMatchesRegistry'
    BY <2>1, <2>2, <2>3 DEF AnnouncedMatchesRegistry
  <2>5. \A d \in todo' : Changed(d, oldDevices', newDevices')
    BY <2>1
  <2>6. QED
    BY <2>1, <2>4, <2>5 DEF RegistryInv, Changed
<1>7. ASSUME NEW e \in Device, Compare(e)
      PROVE  RegistryInv'
  <2>1. /\ watchPc = "diff" /\ e \in todo /\ todo' = todo \ {e}
        /\ announced' = [announced EXCEPT ![e] = Report(newDevices[e])]
        /\ UNCHANGED <<watchPc, newDevices, oldDevices>>
    BY <1>7 DEF Compare, GoSync
  <2>2. announced \in [Device -> Status] /\ todo \subseteq Device
    BY DEF TypeOK
  <2>3. AnnouncedMatchesRegistry'
    BY <2>1, <2>2 DEF RegistryInv, AnnouncedMatchesRegistry
  <2>4. QED
    BY <2>1, <2>3 DEF RegistryInv, Changed
<1>8. CASE Publish
  BY <1>8 DEF Publish, RegistryInv, AnnouncedMatchesRegistry
<1>9. ASSUME RunKeepAlive \/ KeepAlive \/ CloseStopChan \/ Stopped \/ UNCHANGED vars
      PROVE  UNCHANGED <<watchPc, newDevices, oldDevices, todo, announced>>
  BY <1>9 DEF RunKeepAlive, CloseStopChan, Stopped, vars, KeepAlive, KeepAliveCheck,
              KeepAliveSnapshot, KeepAlivePost, KeepAliveNoTunnel, KeepAlivePostFails
<1>10. ASSUME Environment
       PROVE  UNCHANGED <<watchPc, newDevices, oldDevices, todo, announced>>
  BY <1>10 DEF Environment, HardwareChange, ApplySync, LoseSync, ApplyLate
<1>11. QED
  BY <1>1, <1>2, <1>3, <1>4, <1>5, <1>6, <1>7, <1>8, <1>9, <1>10 DEF Next, WatchDevices

\* No arrival, departure or Android status change goes unannounced, although
\* each is noticed by comparing two maps only: what was last handed to a sync
\* goroutine for a device is always what the registry holds.
THEOREM AnnouncedMatchesRegistryHolds == Spec => []AnnouncedMatchesRegistry
<1>1. RegistryInv => AnnouncedMatchesRegistry
  BY DEF RegistryInv
<1>2. QED
  BY <1>1, IosInit, IosStep, RegistryInit, RegistryStep, TypeCorrect, PTL DEF Spec

\* A step that starts a sync goroutine posts another status than the last one.
LEMMA AnnounceStep ==
    TypeOK /\ RegistryInv /\ [Next]_vars =>
        \A d \in Device, s \in Status :
            flight'[<<d, s>>] > flight[<<d, s>>] => announced[d] # s
<1> SUFFICES ASSUME TypeOK, RegistryInv, [Next]_vars,
                    NEW d \in Device, NEW s \in Status,
                    flight'[<<d, s>>] > flight[<<d, s>>]
             PROVE  announced[d] # s
  OBVIOUS
<1> USE DEF envVars, watchVars, storeVars, keepVars, wireVars
<1>t. flight \in [Device \X Status -> Nat] /\ flight[<<d, s>>] \in Nat
  BY DEF TypeOK
<1>1. ASSUME UNCHANGED flight
      PROVE  FALSE
  BY <1>1, <1>t
<1>2. ASSUME NEW e \in Device, NEW r \in Status, ApplySync(e, r) \/ LoseSync(e, r)
      PROVE  FALSE
  BY <1>2, <1>t DEF ApplySync, LoseSync
<1>3. ASSUME GoWatchDevices \/ RunKeepAlive \/ CloseStopChan \/ Stopped \/ UNCHANGED vars
      PROVE  UNCHANGED flight
  BY <1>3 DEF GoWatchDevices, RunKeepAlive, CloseStopChan, Stopped, vars
<1>4. ASSUME KeepAlive
      PROVE  UNCHANGED flight
  BY <1>4 DEF KeepAlive, KeepAliveCheck, KeepAliveSnapshot, KeepAlivePost,
              KeepAliveNoTunnel, KeepAlivePostFails
<1>5. ASSUME WatchStop \/ Publish \/ \E ok \in BOOLEAN : WatchBegin(ok) \/ ScanIos(ok) \/ ScanAndroid(ok)
      PROVE  UNCHANGED flight
  BY <1>5 DEF WatchStop, Publish, WatchBegin, ScanIos, ScanAndroid
<1>6. ASSUME (\E e \in Device, r \in Seen : HardwareChange(e, r)) \/ \E l \in late : ApplyLate(l)
      PROVE  UNCHANGED flight
  BY <1>6 DEF HardwareChange, ApplyLate
<1>7. PICK e \in Device : Compare(e)
  BY <1>1, <1>2, <1>3, <1>4, <1>5, <1>6 DEF Next, WatchDevices, Environment
<1>8. <<e, Report(newDevices[e])>> = <<d, s>>
  BY <1>7, <1>t DEF Compare, GoSync
<1>9. announced[d] = Report(oldDevices[d]) /\ Changed(d, oldDevices, newDevices)
  BY <1>7, <1>8 DEF Compare, RegistryInv, AnnouncedMatchesRegistry
<1>10. oldDevices \in Registry /\ newDevices \in Registry
  BY DEF TypeOK
<1>11. QED
  BY <1>8, <1>9, <1>10, ChangedReport

\* A device is announced again only with another status than the last one.
THEOREM NoRepeatedAnnouncementHolds == Spec => NoRepeatedAnnouncement
<1>1. TypeOK /\ RegistryInv /\ [Next]_vars
        => [\A d \in Device, s \in Status :
               flight'[<<d, s>>] > flight[<<d, s>>] => announced[d] # s]_vars
  BY AnnounceStep
<1>2. QED
  BY <1>1, IosInit, IosStep, RegistryInit, RegistryStep, TypeCorrect, PTL
     DEF Spec, NoRepeatedAnnouncement

-----------------------------------------------------------------------------
(* The devices the backend knows of have ports.                            *)

\* Devices the watcher itself counts as known: registered, or already passed by
\* the comparison in progress.
Registered(d) ==
    \/ oldDevices[d] # "absent"
    \/ watchPc = "diff" /\ d \notin todo /\ newDevices[d] # "absent"

KnownInv ==
    StoreMayFail \/ \A d \in Device : Known(d) \/ Registered(d) => ports[d] # 0

LEMMA KnownInit == Init => KnownInv
<1> SUFFICES ASSUME Init, NEW d \in Device
             PROVE  ~Known(d) /\ ~Registered(d)
  BY DEF KnownInv
<1>1. /\ view[d] = "disconnected" /\ late = {}
      /\ kaList[d] = "absent" /\ oldDevices[d] = "absent" /\ newDevices[d] = "absent"
  BY DEF Init, Empty
<1>2. \A s \in Status \ {"disconnected"} : ~(flight[<<d, s>>] > 0)
  BY DEF Init
<1>3. QED
  BY <1>1, <1>2 DEF Known, Registered

\* A device keeps its port.
LEMMA PortKept ==
    ASSUME TypeOK, PortsInv, [Next]_vars, NEW d \in Device, ports[d] # 0
    PROVE  ports'[d] # 0
<1>1. CASE UNCHANGED storeVars
  BY <1>1 DEF storeVars
<1>2. CASE ~UNCHANGED storeVars
  <2>1. PICK e \in Device : SetAppiumPort(e)
    BY <1>2, StoreSteps
  <2>2. QED
    BY <1>2, <2>1 DEF SetAppiumPort, storeVars, TypeOK
<1>3. QED
  BY <1>1, <1>2

\* A list presents a device to the backend only if it holds the device.
LEMMA ListViewKnown ==
    \A l \in Registry, d \in Device :
        ListView(l)[d] # "disconnected" => l[d] # "absent"
  BY DEF ListView, Report

\* How a device can come to be known: it was, the watcher had registered it, or
\* the comparison announces it.
LEMMA KnownStep ==
    ASSUME TypeOK, [Next]_vars, NEW d \in Device, Known(d)'
    PROVE  \/ Known(d) \/ Registered(d)
           \/ Compare(d) /\ newDevices[d] # "absent"
<1> SUFFICES ASSUME ~Known(d), ~Registered(d)
             PROVE  Compare(d) /\ newDevices[d] # "absent"
  OBVIOUS
<1> USE DEF envVars, watchVars, storeVars, keepVars, wireVars
<1>t. /\ flight \in [Device \X Status -> Nat] /\ view \in [Device -> Status]
      /\ late \in SUBSET Registry /\ kaList \in Registry
      /\ oldDevices \in Registry /\ newDevices \in Registry
  BY DEF TypeOK
<1>k. /\ view[d] = "disconnected" /\ kaList[d] = "absent" /\ oldDevices[d] = "absent"
      /\ \A l \in late : l[d] = "absent"
      /\ \A s \in Status \ {"disconnected"} : flight[<<d, s>>] = 0
  BY <1>t DEF Known, Registered
<1>e. Empty[d] = "absent" /\ \A l \in Registry : l[d] = "absent" => ListView(l)[d] = "disconnected"
  BY DEF Empty, ListView, Report
<1>1. ASSUME UNCHANGED <<flight, view, late, kaList>>
      PROVE  FALSE
  BY <1>1 DEF Known
<1>2. ASSUME NEW e \in Device, NEW r \in Status, ApplySync(e, r)
      PROVE  FALSE
  <2>1. e = d => r = "disconnected"
    BY <1>2, <1>k DEF ApplySync
  <2>2. view'[d] = "disconnected"
    BY <1>2, <1>t, <1>k, <2>1 DEF ApplySync
  <2>3. \A s \in Status \ {"disconnected"} : flight'[<<d, s>>] = 0
    BY <1>2, <1>t, <1>k, <2>1 DEF ApplySync
  <2>4. QED
    BY <1>2, <1>k, <2>2, <2>3 DEF ApplySync, Known
<1>3. ASSUME NEW e \in Device, NEW r \in Status, LoseSync(e, r)
      PROVE  FALSE
  <2>1. e = d => r = "disconnected"
    BY <1>3, <1>k DEF LoseSync
  <2>2. \A s \in Status \ {"disconnected"} : flight'[<<d, s>>] = 0
    BY <1>3, <1>t, <1>k, <2>1 DEF LoseSync
  <2>3. QED
    BY <1>3, <1>k, <2>2 DEF LoseSync, Known
<1>4. ASSUME NEW l \in late, ApplyLate(l)
      PROVE  FALSE
  BY <1>4, <1>t, <1>k, <1>e DEF ApplyLate, Known
<1>5. ASSUME KeepAliveSnapshot
      PROVE  FALSE
  BY <1>5, <1>k DEF KeepAliveSnapshot, Known
<1>6. ASSUME KeepAlivePost
      PROVE  FALSE
  BY <1>6, <1>t, <1>k, <1>e DEF KeepAlivePost, EndSync, Known
<1>7. ASSUME KeepAliveNoTunnel
      PROVE  FALSE
  BY <1>7, <1>k, <1>e DEF KeepAliveNoTunnel, EndSync, Known
<1>8. ASSUME KeepAlivePostFails
      PROVE  FALSE
  <2>1. \A l \in late' : l[d] = "absent"
    BY <1>8, <1>k DEF KeepAlivePostFails
  <2>2. UNCHANGED <<flight, view>> /\ kaList'[d] = "absent"
    BY <1>8, <1>e DEF KeepAlivePostFails, EndSync
  <2>3. QED
    BY <1>k, <2>1, <2>2 DEF Known
<1>9. ASSUME \/ GoWatchDevices \/ RunKeepAlive \/ CloseStopChan \/ Stopped \/ UNCHANGED vars
             \/ KeepAliveCheck \/ WatchStop \/ Publish
             \/ \E ok \in BOOLEAN : WatchBegin(ok) \/ ScanIos(ok) \/ ScanAndroid(ok)
             \/ \E e \in Device, r \in Seen : HardwareChange(e, r)
      PROVE  UNCHANGED <<flight, view, late, kaList>>
  BY <1>9 DEF GoWatchDevices, RunKeepAlive, CloseStopChan, Stopped, vars, KeepAliveCheck,
              WatchStop, Publish, WatchBegin, ScanIos, ScanAndroid, HardwareChange
<1>10. PICK e \in Device : Compare(e)
  BY <1>1, <1>2, <1>3, <1>4, <1>5, <1>6, <1>7, <1>8, <1>9
     DEF Next, WatchDevices, KeepAlive, Environment
<1>11. PICK s \in Status \ {"disconnected"} : flight'[<<d, s>>] > 0
  BY <1>10, <1>k DEF Compare, Known
<1>12. <<e, Report(newDevices[e])>> = <<d, s>>
  BY <1>10, <1>11, <1>t, <1>k DEF Compare, GoSync
<1>13. QED
  BY <1>10, <1>11, <1>12 DEF Report

\* How a device can come to be registered: it was, or the comparison has passed it.
LEMMA RegisteredStep ==
    ASSUME TypeOK, RegistryInv, [Next]_vars,
           NEW d \in Device, ~Registered(d), Registered(d)'
    PROVE  Compare(d) /\ newDevices[d] # "absent"
<1> USE DEF envVars, watchVars, storeVars, keepVars, wireVars
<1>1. ASSUME UNCHANGED <<watchPc, newDevices, oldDevices, todo>>
      PROVE  FALSE
  BY <1>1 DEF Registered
<1>2. ASSUME GoWatchDevices \/ WatchStop
      PROVE  FALSE
  BY <1>2 DEF GoWatchDevices, WatchStop, Registered
<1>3. ASSUME NEW ok \in BOOLEAN, WatchBegin(ok) \/ ScanIos(ok)
      PROVE  FALSE
  BY <1>3 DEF WatchBegin, ScanIos, Registered
<1>4. ASSUME NEW ok \in BOOLEAN, ScanAndroid(ok)
      PROVE  FALSE
  <2>1. oldDevices[d] = "absent" /\ oldDevices' = oldDevices
    BY <1>4 DEF ScanAndroid, Registered
  <2>2. d \notin todo' /\ newDevices'[d] # "absent"
    BY <2>1 DEF Registered
  <2>3. Changed(d, oldDevices, newDevices')
    BY <2>1, <2>2 DEF Changed
  <2>4. QED
    BY <1>4, <2>2, <2>3 DEF ScanAndroid
<1>5. ASSUME Publish
      PROVE  FALSE
  BY <1>5 DEF Publish, Registered
<1>6. ASSUME RunKeepAlive \/ KeepAlive \/ CloseStopChan \/ Stopped \/ UNCHANGED vars
      PROVE  UNCHANGED <<watchPc, newDevices, oldDevices, todo>>
  BY <1>6 DEF RunKeepAlive, CloseStopChan, Stopped, vars, KeepAlive, KeepAliveCheck,
              KeepAliveSnapshot, KeepAlivePost, KeepAliveNoTunnel, KeepAlivePostFails
<1>7. ASSUME Environment
      PROVE  UNCHANGED <<watchPc, newDevices, oldDevices, todo>>
  BY <1>7 DEF Environment, HardwareChange, ApplySync, LoseSync, ApplyLate
<1>8. PICK e \in Device : Compare(e)
  BY <1>1, <1>2, <1>3, <1>4, <1>5, <1>6, <1>7 DEF Next, WatchDevices
<1>9. QED
  BY <1>8 DEF Compare, Registered

LEMMA KnownInvStep ==
    TypeOK /\ PortsInv /\ RegistryInv /\ KnownInv /\ [Next]_vars => KnownInv'
<1> SUFFICES ASSUME TypeOK, PortsInv, RegistryInv, KnownInv, [Next]_vars,
                    ~StoreMayFail, NEW d \in Device, Known(d)' \/ Registered(d)'
             PROVE  ports'[d] # 0
  BY DEF KnownInv
<1>1. CASE Known(d) \/ Registered(d)
  BY <1>1, PortKept DEF KnownInv
<1>2. CASE Compare(d) /\ newDevices[d] # "absent"
  <2>1. CASE oldDevices[d] # "absent"
    BY <2>1, PortKept DEF KnownInv, Registered
  <2>2. CASE oldDevices[d] = "absent" /\ ports[d] # 0
    BY <2>2, PortKept
  <2>3. CASE oldDevices[d] = "absent" /\ ports[d] = 0
    <3>1. ports' = [ports EXCEPT ![d] = baseAppiumPort]
      BY <1>2, <2>3 DEF Compare, SetAppiumPort
    <3>2. baseAppiumPort # 0 /\ ports \in [Device -> Nat]
      BY WatcherAssumption DEF WatcherAssumption, PortsInv, TypeOK
    <3>3. QED
      BY <3>1, <3>2
  <2>4. QED
    BY <2>1, <2>2, <2>3
<1>3. QED
  BY <1>1, <1>2, KnownStep, RegisteredStep

\* A device the backend knows of, or is going to, has its Appium port in the
\* store: the port is set before the goroutine that posts the device starts, and
\* the lists only hold devices that were compared before.
THEOREM KnownDevicesHavePortsHolds == Spec => []KnownDevicesHavePorts
<1>1. KnownInv => KnownDevicesHavePorts
  BY DEF KnownInv, KnownDevicesHavePorts
<1>2. QED
  BY <1>1, IosInit, IosStep, PortsInit, PortsStep, RegistryInit, RegistryStep,
     KnownInit, KnownInvStep, TypeCorrect, PTL DEF Spec
=============================================================================
