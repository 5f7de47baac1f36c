---------------------------- MODULE TunnelIdCache ----------------------------
(***************************************************************************)
(* What GetTunnelId promises, said without its reads and writes of         *)
(* tunnelInfo: in each life of the binary a call may fail or find any id   *)
(* until an id is cached; from then on no call fails, each returns that    *)
(* id, and nothing changes it before the next start.                       *)
(***************************************************************************)
EXTENDS Naturals

CONSTANTS Client, Id, Zero, None    \* Zero is an answer, but no id; None is neither

VARIABLES
    life,     \* which start of the binary this is
    cache,    \* the id that is cached for good, or None
    call,     \* per client: "out" of a call, "asking", or "found" an id
    result    \* per client: the id it holds when it is out of a call

cacheVars == <<life, cache, call, result>>

Init ==
    /\ life = 1 /\ cache = None
    /\ call = [c \in Client |-> "out"]
    /\ result = [c \in Client |-> None]

\* A cached id stays; as long as there is none, any call may leave one.
Settles == IF cache = None THEN cache' \in Id \cup {None} ELSE cache' = cache

Ask(c) ==
    /\ call[c] = "out"
    /\ call' = [call EXCEPT ![c] = "asking"]
    /\ result' = [result EXCEPT ![c] = None]
    /\ UNCHANGED <<life, cache>>

Succeed(c) ==
    /\ call[c] = "asking"
    /\ call' = [call EXCEPT ![c] = "found"]
    /\ Settles
    /\ UNCHANGED <<life, result>>

\* Only without a cached id; the client may ask again at once.
Fail(c) ==
    /\ call[c] = "asking" /\ cache = None
    /\ call' \in {call, [call EXCEPT ![c] = "out"]}
    /\ Settles
    /\ UNCHANGED <<life, result>>

Return(c) ==
    /\ call[c] = "found"
    /\ call' = [call EXCEPT ![c] = "out"]
    /\ \E id \in IF cache = None THEN Id \cup {Zero} ELSE {cache} :
          result' = [result EXCEPT ![c] = id]
    /\ UNCHANGED <<life, cache>>

\* A client may also come by an id, of whatever kind, without a call.
TakeElsewhere(c) ==
    /\ call[c] = "out"
    /\ result' = [result EXCEPT ![c] = result'[c]]
    /\ UNCHANGED <<life, cache, call>>

StartAgain ==
    /\ life' = life + 1
    /\ cache' = None
    /\ call' = [c \in Client |-> "out"]
    /\ result' = [c \in Client |-> None]

Next ==
    \/ \E c \in Client : Ask(c) \/ Succeed(c) \/ Fail(c) \/ Return(c) \/ TakeElsewhere(c)
    \/ StartAgain

Spec == Init /\ [][Next]_cacheVars
=============================================================================
