--------------------------- MODULE MCAppOperations ----------------------------
(* Values of AppOperations' constants for TLC: one tool of each kind, one phone *)
(* of each kind, and two apps whose URLs end in the same name.                  *)
EXTENDS AppOperations

CONSTANTS a1, p1, u1, u2, h1, h2

MCItems     == <<"adb", "DYLIBS", "go-ios">>
MCIphones   == <<p1>>
MCVersionOf == [d \in {p1} |-> "v17"]
MCAndroid   == {a1}
MCHandler   == {h1, h2}
MCApp       == {u1, u2}
MCNameOf    == [a \in MCApp |-> "app"]
MCSize      == [a \in MCApp |-> IF a = u1 THEN 1 ELSE 2]
Requested(action, d, a) == [action |-> action, device |-> d, app |-> a]
MCPreinstalled == {u1, u2}
MCRunning   == [a \in MCApp |-> IF a = u1 THEN 1 ELSE 0]

MCRequests ==
    {Requested("install", a1, a) : a \in MCApp}
    \cup {Requested(action, a1, u1) : action \in Action \ {"install"}}
    \cup {Requested("launch", a1, u2)}
    \cup {Requested(action, p1, u2) : action \in {"install", "validate", "apps"}}
=============================================================================
