--------------------------- MODULE MCHostLifecycle ---------------------------
(* The binary on a host with a single Android device.                      *)
EXTENDS HostLifecycle

CONSTANT a1

MCAndroid == {a1}

\* Calls that fail in the loops without leaving a late list behind are left to the
\* runs of the watcher.
Faulty == faults' = faults \/ mainPc = "sync" \/ listenerPc = "sync" \/ late' # late

\* The device is plugged in and on line; the go-ios child ends.
PluggedSpec ==
    /\ LifeInit /\ hw = [d \in Device |-> "connected"]
    /\ [][LifeNext /\ Faulty]_allVars
    /\ LifeFairness /\ WF_allVars(LaunchTunnelReturns)
=============================================================================
