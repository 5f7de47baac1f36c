--------------------------- MODULE MCDeviceWatcher ---------------------------
(* The device watcher on one iOS and one or two Android devices.           *)
EXTENDS DeviceWatcher, TLC

CONSTANTS i1, a1, a2

MCIos == {i1}
MCOneAndroid == {a1}
MCTwoAndroids == {a1, a2}

\* Android devices are interchangeable.
AndroidSymmetry == Permutations(Android)
=============================================================================
