----------------------------- MODULE TunnelProofs ------------------------------
(***************************************************************************)
(* Proofs about the tunnel client, for any number of lives of the binary,  *)
(* tunnels left over from earlier ones, and failed or unusable answers.    *)
(***************************************************************************)
EXTENDS Tunnel, TLAPS

-----------------------------------------------------------------------------
(* The inductive invariant.                                                *)

Labels == {"none", "launch", "sleep", "start", "wait", "loop", "assign", "waitGroup", "kill",
           "post", "done", "check", "cached", "fetch", "empty", "decode", "recheck"}

\* Which tunnels there are: those of earlier lives that run still are orphans, the
\* one of this life is known once main has launched it, and it is dead when the
\* listener is done.
LifeInv ==
    /\ tunnelProcess = IF pc["main"] = "launch" THEN 0 ELSE life
    /\ pc["main"] = "launch" => tunnel[life] = "none"
    /\ \A p \in Process : p > life => tunnel[p] = "none"
    /\ \A p \in Process : p \in Alive /\ (p < life \/ proc = "down") => p \in orphans
    /\ pc["listener"] # "none" => pc["main"] \notin {"launch", "sleep"}
    /\ pc["listener"] = "done" => tunnel[life] = "dead"
    /\ proc = "exited" => pc["listener"] = "done"

\* The ids this life may come across.
Known == {0, NoId, Torn, tunnelProcess} \cup orphans

IdsInv ==
    /\ tunnelInfo.id \in Known /\ tunnelID \in Known
    /\ \A c \in Caller : got[c] \in Known /\ posted[c] \in Known /\ answer[c].id \in Known
    /\ got["watch"] # Torn

\* An answer of the info API that is still to be decoded.
Fetched(b) == b.id > 0 \/ b.status = "FAILED" \/ b = GoodBody("OK", 0) \/ b.flaw # "none"

\* Whoever is about to format tunnelInfo's id has seen one there, or is excused.
ZeroInv ==
    /\ ZeroNeedsRace
    /\ \A c \in Caller :
          /\ pc[c] \in {"empty", "decode"} => Fetched(answer[c])
          /\ pc[c] = "cached" => tunnelInfo.id > 0 \/ zeroSeen \/ raced
          /\ pc[c] = "recheck" =>
                tunnelInfo.id > 0 \/ tunnelInfo.status = "FAILED" \/ zeroSeen \/ raced

IInv == TypeOK /\ LifeInv /\ IdsInv /\ ZeroInv

-----------------------------------------------------------------------------
(* Types of the parts.                                                     *)

LEMMA BodyTypes ==
    /\ NoInfo \in Info /\ NoInfo.id = 0
    /\ NoBody \in Body /\ NoBody.id = 0 /\ Malformed \in Body /\ Malformed.id = 0
    /\ \A i \in Info : i.id \in Id /\ i.status \in {"", "OK", "FAILED"}
    /\ \A b \in Body : b.id \in Id /\ Fields(b) \in Info /\ Fields(b).id = b.id
                       /\ Fields(b).status = b.status
    /\ \A s \in {"", "OK", "FAILED"}, k \in Id :
          /\ GoodBody(s, k) \in Body /\ MistypedBody(s, k) \in Body
          /\ GoodBody(s, k).id = k /\ MistypedBody(s, k).id = k
    /\ 0 \in Id /\ NoId \notin Process /\ Torn \notin Process /\ 0 \notin Process
    /\ NoId \notin Id /\ Torn \notin Id /\ NoId # Torn
    /\ Process \subseteq Nat /\ Id \subseteq Nat
<1>1. 0 \in Id /\ NoId \notin Process /\ Torn \notin Process /\ 0 \notin Process
      /\ NoId \notin Id /\ Torn \notin Id /\ NoId # Torn
      /\ Process \subseteq Nat /\ Id \subseteq Nat
  BY TunnelAssumption DEF Id, Process, NoId, Torn, TunnelAssumption
<1>2. \A i \in Info : i.id \in Id /\ i.status \in {"", "OK", "FAILED"}
  BY DEF Info
<1>3. \A s \in {"", "OK", "FAILED"}, k \in Id :
         /\ GoodBody(s, k) \in Body /\ MistypedBody(s, k) \in Body
         /\ GoodBody(s, k).id = k /\ MistypedBody(s, k).id = k
  BY DEF GoodBody, MistypedBody, Body
<1>4. \A b \in Body : b.id \in Id /\ Fields(b) \in Info /\ Fields(b).id = b.id
                      /\ Fields(b).status = b.status
  BY DEF Body, Fields, Info
<1>5. NoInfo \in Info /\ NoInfo.id = 0
  BY <1>1 DEF NoInfo, Info
<1>6. NoBody \in Body /\ NoBody.id = 0 /\ Malformed \in Body /\ Malformed.id = 0
  BY <1>1 DEF NoBody, Malformed, Body
<1>7. QED
  BY <1>1, <1>2, <1>3, <1>4, <1>5, <1>6

\* How a call ends.
LEMMA CallEnds ==
    ASSUME TypeOK, NEW c \in Caller, CallFails(c) \/ (\E k \in Id : CallOk(c, k))
    PROVE  /\ \E l \in {"assign", "loop", "post", "check"} :
                 pc' = [pc EXCEPT ![c] = l] /\ (l \in {"assign", "loop"} => c \notin {"main", "listener"})
           /\ retries' \in [Caller -> 0..1]
<1>1. \A r \in 0..1 : r > 0 => r - 1 \in 0..1
  OBVIOUS
<1>2. retries' \in [Caller -> 0..1]
  <2>1. CASE retries' = retries
    BY <2>1 DEF TypeOK
  <2>2. CASE retries[c] > 0 /\ retries' = [retries EXCEPT ![c] = @ - 1]
    <3>1. retries[c] - 1 \in 0..1
      BY <1>1, <2>2 DEF TypeOK
    <3>2. QED
      BY <2>2, <3>1 DEF TypeOK
  <2>3. QED
    BY <2>1, <2>2 DEF CallFails, CallOk
<1>3. \A ok \in BOOLEAN : /\ AfterCall(c, ok) \in {"assign", "loop", "post", "check"}
                          /\ AfterCall(c, ok) \in {"assign", "loop"} => c \in {"watch", "keep"}
  BY DEF AfterCall
<1>4. QED
  BY <1>2, <1>3 DEF CallFails, CallOk, Goto

\* A tunnel that serves is this life's or an orphan.
LEMMA ServingKnown ==
    ASSUME TypeOK, LifeInv, proc = "up", NEW p \in Serving
    PROVE  p \in Known /\ p \in Process /\ p > 0
<1>1. p \in Process /\ tunnel[p] = "up" /\ p \in Alive /\ p \in Nat /\ life \in Nat /\ p > 0
  BY DEF Serving, Alive, Process, TypeOK
<1>2. CASE p < life
  BY <1>1, <1>2 DEF LifeInv, Known
<1>3. CASE p = life
  BY <1>1, <1>3 DEF LifeInv, Known
<1>4. CASE p > life
  BY <1>1, <1>4 DEF LifeInv
<1>5. QED
  BY <1>1, <1>2, <1>3, <1>4

-----------------------------------------------------------------------------
(* Steps of a call.                                                        *)

\* Life goes on while a goroutine moves from one place within its loop to another.
LEMMA LifeMove ==
    ASSUME TypeOK, LifeInv, NEW c \in Caller, NEW l \in Labels,
           pc' = [pc EXCEPT ![c] = l], l \notin {"none", "launch", "sleep"},
           c = "main" => pc[c] \notin {"launch", "sleep"},
           c = "listener" => pc[c] # "none" /\ pc[c] # "done" /\ l # "done",
           UNCHANGED <<proc, life, tunnel, tunnelProcess, orphans>>
    PROVE  LifeInv'
<1>1. pc'[c] = l /\ \A e \in Caller \ {c} : pc'[e] = pc[e]
  BY DEF TypeOK
<1>2. Alive' = Alive
  BY DEF Alive
<1>3. (pc'["main"] = pc["main"] /\ c # "main")
      \/ (c = "main" /\ pc'["main"] = l /\ pc["main"] \notin {"launch", "sleep"})
  BY <1>1 DEF Caller
<1>4. (pc'["listener"] = pc["listener"] /\ c # "listener")
      \/ (c = "listener" /\ pc'["listener"] = l /\ pc["listener"] \notin {"none", "done"})
  BY <1>1 DEF Caller
<1>5. QED
  BY <1>2, <1>3, <1>4 DEF LifeInv

LEMMA CallType ==
    ASSUME IInv, proc = "up", NEW c \in Caller, GetTunnelId(c)
    PROVE  TypeOK'
<1> USE DEF IInv
<1>1. CASE Check(c)
  BY <1>1 DEF TypeOK, Check, Goto, tunnelVars, stopVars, history
<1>2. CASE Cached(c)
  <2>1. tunnelInfo.id \in Id
    BY BodyTypes DEF TypeOK
  <2>2. retries' \in [Caller -> 0..1] /\ pc' \in [Caller -> Labels]
    BY <1>2, <2>1, CallEnds DEF Cached, TypeOK, Labels
  <2>3. QED
    BY <1>2, <2>1, <2>2 DEF TypeOK, Cached, CallOk, tunnelVars, stopVars, history, Labels
<1>3. CASE Fetch(c)
  <2>1. faults' \in 0..MaxFaults
    BY <1>3, TunnelAssumption DEF Fetch, Fault, TypeOK, TunnelAssumption
  <2>2. PICK b \in Body : answer' = [answer EXCEPT ![c] = b]
    <3>1. \A p \in Serving : {0, p} \subseteq Id
      BY BodyTypes DEF Serving, Id
    <3>2. /\ \A p \in Serving : GoodBody("OK", p) \in Body
          /\ \A p \in Serving : \A s \in {"OK", "FAILED"}, k \in {0, p} : MistypedBody(s, k) \in Body
          /\ {GoodBody("FAILED", 0), GoodBody("OK", 0), Malformed} \subseteq Body
      BY <3>1, BodyTypes
    <3>3. QED
      BY <1>3, <3>2 DEF Fetch
  <2>3. QED
    BY <1>3, <2>1, <2>2 DEF TypeOK, Fetch, Goto, tunnelVars, stopVars, history
<1>4. CASE FetchFails(c)
  <2>1. faults' \in 0..MaxFaults
    BY <1>4, TunnelAssumption DEF FetchFails, Fault, TypeOK, TunnelAssumption
  <2>2. retries' \in [Caller -> 0..1] /\ pc' \in [Caller -> Labels]
    BY <1>4, CallEnds DEF FetchFails, TypeOK, Labels
  <2>3. QED
    BY <1>4, <2>1, <2>2 DEF TypeOK, FetchFails, CallFails, tunnelVars, stopVars, history, Labels
<1>5. CASE EmptyInfo(c)
  BY <1>5, BodyTypes DEF TypeOK, EmptyInfo, Goto, tunnelVars, stopVars, OthersReading
<1>6. CASE Decode(c)
  <2>1. retries' \in [Caller -> 0..1] /\ pc' \in [Caller -> Labels]
    BY <1>6, CallEnds DEF Decode, TypeOK, Labels, Goto
  <2>2. tunnelInfo' \in Info /\ answer' \in [Caller -> Body]
    BY <1>6, BodyTypes DEF Decode, TypeOK
  <2>3. got' \in [Caller -> Id \cup {NoId, Torn}]
    BY <1>6 DEF Decode, TypeOK, CallFails
  <2>4. zeroSeen' \in BOOLEAN /\ raced' \in BOOLEAN
    BY <1>6 DEF Decode, TypeOK, OthersReading
  <2>5. QED
    BY <1>6, <2>1, <2>2, <2>3, <2>4 DEF TypeOK, Decode, tunnelVars, stopVars, Labels
<1>7. CASE Recheck(c)
  <2>1. retries' \in [Caller -> 0..1] /\ pc' \in [Caller -> Labels]
    BY <1>7, CallEnds DEF Recheck, TypeOK, Labels, Goto
  <2>2. got' \in [Caller -> Id \cup {NoId, Torn}]
    BY <1>7 DEF Recheck, TypeOK, CallFails
  <2>3. QED
    BY <1>7, <2>1, <2>2 DEF TypeOK, Recheck, tunnelVars, stopVars, history, Labels
<1>8. QED
  BY <1>1, <1>2, <1>3, <1>4, <1>5, <1>6, <1>7 DEF GetTunnelId

\* The places a call passes through.
Calling == {"check", "cached", "fetch", "empty", "decode", "recheck"}

LEMMA CallMoves ==
    ASSUME TypeOK, NEW c \in Caller, GetTunnelId(c)
    PROVE  /\ pc[c] \in Calling
           /\ \E l \in Calling \cup {"assign", "loop", "post"} : pc' = [pc EXCEPT ![c] = l]
           /\ UNCHANGED <<proc, life, tunnel, tunnelProcess, tunnelID, stop, signal, posted,
                          orphans>>
<1>1. \A k \in Id : CallOk(c, k) =>
         \E l \in {"assign", "loop", "post", "check"} : pc' = [pc EXCEPT ![c] = l]
  BY CallEnds
<1>2. CallFails(c) => \E l \in {"assign", "loop", "post", "check"} : pc' = [pc EXCEPT ![c] = l]
  BY CallEnds
<1>3. tunnelInfo.id \in Id
  BY BodyTypes DEF TypeOK
<1>4. CASE Cached(c) \/ FetchFails(c) \/ Decode(c) \/ Recheck(c)
  BY <1>1, <1>2, <1>3, <1>4 DEF Cached, FetchFails, Decode, Recheck, Goto, Calling, tunnelVars,
     stopVars, history
<1>5. CASE Check(c) \/ Fetch(c) \/ EmptyInfo(c)
  BY <1>5 DEF Check, Fetch, EmptyInfo, Goto, Calling, tunnelVars, stopVars, history
<1>6. QED
  BY <1>4, <1>5 DEF GetTunnelId

LEMMA CallLife ==
    ASSUME TypeOK, LifeInv, NEW c \in Caller, GetTunnelId(c)
    PROVE  LifeInv'
<1>1. PICK l \in Calling \cup {"assign", "loop", "post"} : pc' = [pc EXCEPT ![c] = l]
  BY CallMoves
<1>2. l \in Labels /\ l \notin {"none", "launch", "sleep", "done"} /\ pc[c] \in Calling
      /\ UNCHANGED <<proc, life, tunnel, tunnelProcess, orphans>>
  BY CallMoves DEF Calling, Labels
<1>3. QED
  BY <1>1, <1>2, LifeMove DEF Calling

LEMMA CallIds ==
    ASSUME IInv, proc = "up", NEW c \in Caller, GetTunnelId(c)
    PROVE  IdsInv'
<1> USE DEF IInv
<1>1. Known' = Known /\ UNCHANGED <<tunnelID, posted>> /\ 0 \in Known /\ NoId \in Known
  BY CallMoves DEF Known
<1>2. /\ tunnelInfo' \in {tunnelInfo, NoInfo, Fields(answer[c])}
      /\ got' = got \/ got' = [got EXCEPT ![c] = NoId] \/ got' = [got EXCEPT ![c] = tunnelInfo.id]
  <2>1. CASE Check(c) \/ Cached(c) \/ Fetch(c) \/ FetchFails(c) \/ EmptyInfo(c)
    <3>1. tunnelInfo' \in {tunnelInfo, NoInfo}
      BY <2>1 DEF Check, Cached, Fetch, FetchFails, EmptyInfo
    <3>2. Check(c) \/ Fetch(c) \/ EmptyInfo(c) => got' = got
      BY DEF Check, Fetch, EmptyInfo
    <3>3. FetchFails(c) => got' = [got EXCEPT ![c] = NoId]
      BY DEF FetchFails, CallFails
    <3>4. Cached(c) => got' = [got EXCEPT ![c] = tunnelInfo.id]
      BY DEF Cached, CallOk
    <3>5. QED
      BY <2>1, <3>1, <3>2, <3>3, <3>4
  <2>2. CASE Decode(c) \/ Recheck(c)
    <3>1. got' = got \/ got' = [got EXCEPT ![c] = NoId]
      BY <2>2, Zenon DEF Decode, Recheck, CallFails
    <3>2. tunnelInfo' \in {tunnelInfo, Fields(answer[c])}
      BY <2>2 DEF Decode, Recheck
    <3>3. QED
      BY <3>1, <3>2
  <2>3. QED
    BY <2>1, <2>2 DEF GetTunnelId
<1>3. answer' = answer \/ \E b : b.id \in Known /\ answer' = [answer EXCEPT ![c] = b]
  <2>1. CASE Fetch(c)
    <3>1. \A p \in Serving : {0, p} \subseteq Known
      BY <1>1, ServingKnown
    <3>2. /\ \A p \in Serving : GoodBody("OK", p).id \in Known
          /\ \A p \in Serving : \A s \in {"OK", "FAILED"}, k \in {0, p} :
                MistypedBody(s, k).id \in Known
          /\ \A b \in {GoodBody("FAILED", 0), GoodBody("OK", 0), Malformed} : b.id \in Known
      BY <1>1, <3>1 DEF GoodBody, MistypedBody, Malformed
    <3>3. QED
      BY <2>1, <3>2 DEF Fetch
  <2>2. CASE Decode(c)
    BY <1>1, <2>2, BodyTypes DEF Decode
  <2>3. QED
    BY <2>1, <2>2 DEF GetTunnelId, Check, Cached, FetchFails, EmptyInfo, Recheck
<1>4. tunnelInfo'.id \in Known
  <2>1. answer[c] \in Body /\ Fields(answer[c]).id = answer[c].id
    BY BodyTypes DEF TypeOK
  <2>2. QED
    BY <1>1, <1>2, <2>1, BodyTypes DEF IdsInv
<1>5. \A e \in Caller : got'[e] \in Known
  BY <1>1, <1>2 DEF IdsInv, TypeOK
<1>6. \A e \in Caller : answer'[e].id \in Known
  BY <1>3 DEF IdsInv, TypeOK
<1>7. got'["watch"] # Torn
  <2>1. tunnelInfo.id \in Id
    BY BodyTypes DEF TypeOK
  <2>2. Torn # NoId /\ Torn # tunnelInfo.id
    BY <2>1, BodyTypes
  <2>3. QED
    BY <1>2, <2>2 DEF IdsInv, TypeOK, Caller
<1>8. QED
  BY <1>1, <1>4, <1>5, <1>6, <1>7 DEF IdsInv

\* The places from which a call formats tunnelInfo's id.
LEMMA CallZero ==
    ASSUME IInv, proc = "up", NEW c \in Caller, GetTunnelId(c)
    PROVE  ZeroInv'
<1> USE DEF IInv
<1>1. PICK l \in Calling \cup {"assign", "loop", "post"} : pc' = [pc EXCEPT ![c] = l]
  BY CallMoves
<1>2. pc'[c] = l /\ \A e \in Caller \ {c} : pc'[e] = pc[e]
  BY <1>1 DEF TypeOK
<1>3. UNCHANGED <<tunnelID, posted>>
  BY CallMoves
<1>4. (zeroSeen => zeroSeen') /\ (raced => raced')
  <2>1. CASE EmptyInfo(c)
    BY <2>1, Zenon DEF EmptyInfo
  <2>2. CASE Decode(c)
    BY <2>2, Zenon DEF Decode
  <2>3. CASE UNCHANGED history
    BY <2>3 DEF history
  <2>4. QED
    BY <2>1, <2>2, <2>3 DEF GetTunnelId, Check, Cached, Fetch, FetchFails, Recheck
<1>5. \A e \in Caller \ {c} : answer'[e] = answer[e]
  BY DEF GetTunnelId, Check, Cached, Fetch, FetchFails, EmptyInfo, Decode, Recheck, TypeOK
<1>6. pc'[c] \in {"empty", "decode"} => Fetched(answer'[c])
  <2>1. CASE Fetch(c)
    <3>1. \A p \in Serving : Fetched(GoodBody("OK", p))
      BY ServingKnown DEF Fetched, GoodBody
    <3>2. /\ \A b \in {GoodBody("FAILED", 0), GoodBody("OK", 0), Malformed} : Fetched(b)
          /\ \A s, k : Fetched(MistypedBody(s, k))
      BY DEF Fetched, GoodBody, MistypedBody, Malformed
    <3>3. QED
      BY <2>1, <3>1, <3>2 DEF Fetch, TypeOK
  <2>2. CASE EmptyInfo(c)
    BY <2>2 DEF EmptyInfo, ZeroInv
  <2>3. CASE Check(c)
    BY <2>3, <1>2 DEF Check, Goto, TypeOK
  <2>4. CASE Decode(c) /\ pc' = [pc EXCEPT ![c] = "recheck"]
    BY <2>4 DEF TypeOK
  <2>5. CASE Recheck(c) /\ pc' = [pc EXCEPT ![c] = "cached"]
    BY <2>5 DEF TypeOK
  <2>6. CASE CallFails(c) \/ \E k \in Id : CallOk(c, k)
    BY <2>6, CallEnds DEF TypeOK
  <2>7. tunnelInfo.id \in Id
    BY BodyTypes DEF TypeOK
  <2>8. QED
    BY <2>1, <2>2, <2>3, <2>4, <2>5, <2>6, <2>7
       DEF GetTunnelId, Cached, FetchFails, Decode, Recheck, Goto
<1>7. ASSUME NEW e \in Caller \ {c}, pc[e] \in {"cached", "recheck"}
      PROVE  \/ tunnelInfo' = tunnelInfo
             \/ tunnelInfo'.id > 0 \/ raced'
  <2>1. OthersReading(c)
    BY <1>7 DEF OthersReading
  <2>2. CASE EmptyInfo(c)
    BY <2>1, <2>2 DEF EmptyInfo
  <2>3. CASE Decode(c)
    <3>1. tunnelInfo' = tunnelInfo \/ tunnelInfo' \in Info
      BY <2>3, BodyTypes DEF Decode, TypeOK
    <3>2. CASE tunnelInfo'.id = 0
      BY <2>1, <2>3, <3>2 DEF Decode
    <3>3. CASE tunnelInfo' \in Info /\ tunnelInfo'.id # 0
      <4>1. tunnelInfo'.id \in Id
        BY <3>3, BodyTypes
      <4>2. QED
        BY <3>3, <4>1 DEF Id, Process
    <3>4. QED
      BY <3>1, <3>2, <3>3
  <2>4. QED
    BY <2>2, <2>3 DEF GetTunnelId, Check, Cached, Fetch, FetchFails, Recheck
<1>8. pc'[c] = "cached" => tunnelInfo'.id > 0 \/ zeroSeen' \/ raced'
  <2>1. CASE Check(c)
    BY <2>1 DEF Check, Goto, Usable, TypeOK
  <2>2. CASE Recheck(c) /\ tunnelInfo.status # "FAILED"
    <3>1. tunnelInfo.id > 0 \/ zeroSeen \/ raced
      BY <2>2 DEF Recheck, ZeroInv
    <3>2. tunnelInfo' = tunnelInfo
      BY <2>2 DEF Recheck
    <3>3. QED
      BY <3>1, <3>2, <1>4
  <2>3. CASE CallFails(c) \/ \E k \in Id : CallOk(c, k)
    BY <2>3, CallEnds DEF TypeOK
  <2>4. CASE Fetch(c) \/ EmptyInfo(c) \/ (Decode(c) /\ pc' = [pc EXCEPT ![c] = "recheck"])
    BY <2>4 DEF Fetch, EmptyInfo, Goto, TypeOK
  <2>5. tunnelInfo.id \in Id
    BY BodyTypes DEF TypeOK
  <2>6. QED
    BY <2>1, <2>2, <2>3, <2>4, <2>5 DEF GetTunnelId, Cached, FetchFails, Decode, Recheck, Goto
<1>9. pc'[c] = "recheck" =>
         tunnelInfo'.id > 0 \/ tunnelInfo'.status = "FAILED" \/ zeroSeen' \/ raced'
  <2>1. CASE Decode(c) /\ answer[c].flaw = "none"
    <3>1. Fetched(answer[c]) /\ tunnelInfo' = Fields(answer[c])
      BY <2>1 DEF Decode, ZeroInv
    <3>2. CASE answer[c] = GoodBody("OK", 0)
      BY <2>1, <3>2 DEF Decode
    <3>3. CASE answer[c].id > 0 \/ answer[c].status = "FAILED"
      BY <3>1, <3>3 DEF Fields
    <3>4. QED
      BY <2>1, <3>1, <3>2, <3>3 DEF Fetched
  <2>2. CASE CallFails(c) \/ \E k \in Id : CallOk(c, k)
    BY <2>2, CallEnds DEF TypeOK
  <2>3. CASE Check(c) \/ Fetch(c) \/ EmptyInfo(c)
    BY <2>3 DEF Check, Fetch, EmptyInfo, Goto, TypeOK
  <2>4. CASE Recheck(c) /\ pc' = [pc EXCEPT ![c] = "cached"]
    BY <2>4 DEF TypeOK
  <2>5. tunnelInfo.id \in Id
    BY BodyTypes DEF TypeOK
  <2>6. QED
    BY <2>1, <2>2, <2>3, <2>4, <2>5 DEF GetTunnelId, Cached, FetchFails, Decode, Recheck, Goto
<1>10. ZeroNeedsRace'
  <2>1. SUFFICES ASSUME NEW e \in Caller, got'[e] = 0, got[e] # 0
                 PROVE  zeroSeen' \/ raced'
    BY <1>3, <1>4 DEF ZeroNeedsRace, ZeroInv
  <2>2. NoId # 0
    BY DEF NoId
  <2>3. Cached(c) /\ e = c /\ tunnelInfo.id = 0
    <3>1. ASSUME CallFails(c) \/ got' = got
          PROVE  FALSE
      BY <2>1, <2>2, <3>1 DEF CallFails, TypeOK
    <3>2. Cached(c)
      BY <3>1 DEF GetTunnelId, Check, Fetch, FetchFails, EmptyInfo, Decode, Recheck
    <3>3. QED
      BY <2>1, <3>2 DEF Cached, CallOk, TypeOK
  <2>4. zeroSeen \/ raced
    BY <2>3 DEF Cached, ZeroInv
  <2>5. QED
    BY <1>4, <2>4
<1>11. ASSUME NEW e \in Caller \ {c}
       PROVE  /\ pc'[e] \in {"empty", "decode"} => Fetched(answer'[e])
              /\ pc'[e] = "cached" => tunnelInfo'.id > 0 \/ zeroSeen' \/ raced'
              /\ pc'[e] = "recheck" =>
                    tunnelInfo'.id > 0 \/ tunnelInfo'.status = "FAILED" \/ zeroSeen' \/ raced'
  <2>1. pc'[e] \in {"empty", "decode"} => Fetched(answer'[e])
    BY <1>2, <1>5 DEF ZeroInv
  <2>2. QED
    BY <1>2, <1>4, <1>7, <2>1 DEF ZeroInv
<1>12. QED
  <2>1. \A e \in Caller : Fetched(answer[e])' <=> Fetched(answer'[e])
    BY DEF Fetched
  <2>2. QED
    BY <1>6, <1>8, <1>9, <1>10, <1>11, <2>1 DEF ZeroInv

LEMMA CallIInv ==
    ASSUME IInv, proc = "up", NEW c \in Caller, GetTunnelId(c)
    PROVE  IInv'
  BY CallType, CallLife, CallIds, CallZero DEF IInv

-----------------------------------------------------------------------------
(* The other steps of the binary.                                          *)

\* Steps at which no call is in progress: nobody starts to format an id.
LEMMA ZeroQuiet ==
    ASSUME TypeOK, ZeroInv,
           \A c \in Caller : pc'[c] # pc[c] => pc'[c] \notin Calling \/ pc'[c] = "check",
           UNCHANGED <<tunnelInfo, answer, zeroSeen, raced>>,
           0 \in {tunnelID'} \cup {got'[c] : c \in Caller} \cup {posted'[c] : c \in Caller} =>
               0 \in {tunnelID} \cup {got[c] : c \in Caller} \cup {posted[c] : c \in Caller}
    PROVE  ZeroInv'
<1>1. ZeroNeedsRace'
  BY DEF ZeroInv, ZeroNeedsRace
<1>2. \A c \in Caller : Fetched(answer[c])' = Fetched(answer[c])
  BY DEF Fetched
<1>3. \A c \in Caller : pc'[c] \in {"empty", "decode", "cached", "recheck"} => pc'[c] = pc[c]
  BY DEF Calling
<1>4. QED
  BY <1>1, <1>2, <1>3 DEF ZeroInv

LEMMA StartIInv ==
    ASSUME IInv, proc = "up", LaunchTunnel \/ LaunchFails \/ StartListener \/ StartWatcher
    PROVE  IInv'
<1> USE DEF IInv
<1>1. "main" \in Caller /\ "listener" \in Caller /\ life \in Process /\ life # 0
  BY DEF Caller, TypeOK, Process
<1>2. CASE LaunchTunnel
  <2>1. /\ pc["main"] = "launch" /\ pc' = [pc EXCEPT !["main"] = "sleep"]
        /\ tunnel' = [tunnel EXCEPT ![life] = "starting"] /\ tunnelProcess' = life
        /\ UNCHANGED <<proc, life, faults, tunnelInfo, tunnelID, stop, signal, answer, got,
                       retries, posted, orphans, zeroSeen, raced>>
    BY <1>2 DEF LaunchTunnel, Goto, stopVars, history
  <2>2. tunnelProcess = 0 /\ pc["listener"] = "none"
    BY <2>1 DEF LifeInv
  <2>3. TypeOK'
    BY <1>1, <2>1 DEF TypeOK, Process
  <2>4. LifeInv'
    <3>1. pc'["main"] = "sleep" /\ pc'["listener"] = "none" /\ tunnel'[life] = "starting"
          /\ \A p \in Process : p # life => tunnel'[p] = tunnel[p]
      BY <1>1, <2>1, <2>2 DEF TypeOK
    <3>2. \A p \in Process : p < life \/ p > life => p # life
      BY DEF Process, TypeOK
    <3>3. \A p \in Process : p \in Alive' /\ p < life => p \in Alive
      BY <3>1, <3>2 DEF Alive
    <3>4. QED
      BY <2>1, <3>1, <3>2, <3>3 DEF LifeInv
  <2>5. IdsInv'
    BY <2>1, <2>2 DEF IdsInv, Known
  <2>6. ZeroInv'
    <3>1. \A c \in Caller : pc'[c] # pc[c] => pc'[c] = "sleep"
      BY <2>1 DEF TypeOK
    <3>2. QED
      BY <2>1, <3>1, ZeroQuiet DEF Calling
  <2>7. QED
    BY <2>3, <2>4, <2>5, <2>6
<1>3. CASE LaunchFails
  <2>1. /\ pc["main"] = "launch" /\ Fault /\ proc' = "down"
        /\ UNCHANGED <<life, tunnel, tunnelProcess, tunnelInfo, tunnelID, stop, signal, pc,
                       answer, got, retries, posted, orphans, zeroSeen, raced>>
    BY <1>3 DEF LaunchFails, stopVars, history, callVars, tunnelVars
  <2>2. TypeOK'
    BY <2>1, TunnelAssumption DEF TypeOK, Fault, TunnelAssumption
  <2>3. LifeInv'
    <3>1. \A p \in Process : p \in Alive => p < life
      BY <2>1 DEF LifeInv, Alive, TypeOK, Process
    <3>2. Alive' = Alive
      BY <2>1 DEF Alive
    <3>3. QED
      BY <2>1, <3>1, <3>2 DEF LifeInv
  <2>4. IdsInv'
    BY <2>1 DEF IdsInv, Known
  <2>5. ZeroInv'
    BY <2>1, ZeroQuiet
  <2>6. QED
    BY <2>2, <2>3, <2>4, <2>5
<1>4. CASE StartListener \/ StartWatcher
  <2>1. UNCHANGED <<proc, life, faults, tunnel, tunnelProcess, tunnelInfo, tunnelID, stop,
                    signal, answer, got, retries, posted, orphans, zeroSeen, raced>>
    BY <1>4 DEF StartListener, StartWatcher, stopVars, history, tunnelVars
  <2>2. \A c \in Caller : pc'[c] # pc[c] => pc'[c] \in {"check", "wait", "loop"}
    BY <1>4 DEF StartListener, StartWatcher, TypeOK
  <2>3. pc' \in [Caller -> Labels] /\ pc'["main"] \in {"check", "wait"}
        /\ pc["main"] \in {"sleep", "start"}
        /\ (pc'["listener"] = "wait" \/ pc'["listener"] = pc["listener"])
    BY <1>4 DEF StartListener, StartWatcher, TypeOK, Labels, Caller
  <2>4. TypeOK'
    BY <2>1, <2>3 DEF TypeOK, Labels
  <2>5. LifeInv'
    <3>1. Alive' = Alive
      BY <2>1 DEF Alive
    <3>2. pc["listener"] = "done" => pc'["listener"] = "done"
      BY <1>4 DEF StartListener, StartWatcher, LifeInv, TypeOK, Caller
    <3>3. QED
      BY <2>1, <2>3, <3>1, <3>2 DEF LifeInv
  <2>6. IdsInv'
    BY <2>1 DEF IdsInv, Known
  <2>7. ZeroInv'
    BY <2>1, <2>2, ZeroQuiet DEF Calling
  <2>8. QED
    BY <2>4, <2>5, <2>6, <2>7
<1>5. QED
  BY <1>2, <1>3, <1>4

\* Steps of one goroutine that change no more than its place and the ids it holds.
LEMMA QuietMove ==
    ASSUME IInv, NEW c \in Caller, NEW l \in Labels, pc' = [pc EXCEPT ![c] = l],
           l \notin {"none", "launch", "sleep"} /\ (l \in Calling => l = "check"),
           c = "main" => pc[c] \notin {"launch", "sleep"},
           c = "listener" => pc[c] # "none" /\ pc[c] # "done" /\ l # "done",
           UNCHANGED <<proc, life, faults, tunnel, tunnelProcess, tunnelInfo, signal, answer,
                       retries, orphans, zeroSeen, raced>>,
           stop' \in BOOLEAN, tunnelID' \in {tunnelID, got["watch"]},
           posted' = posted \/ posted' = [posted EXCEPT ![c] = got[c]],
           got' = got \/ (c # "watch" /\ \E k \in {tunnelID, got["watch"], Torn} :
                             got' = [got EXCEPT ![c] = k])
    PROVE  IInv'
<1> USE DEF IInv
<1>1. "watch" \in Caller /\ got["watch"] \in Id \cup {NoId} /\ got["watch"] \in Known
      /\ tunnelID \in Id \cup {NoId} /\ tunnelID \in Known /\ Torn \in Known /\ Torn # 0
  BY BodyTypes DEF Caller, TypeOK, IdsInv, Known, Torn
<1>2. LifeInv'
  BY LifeMove
<1>3. Known' = Known
  BY DEF Known
<1>4. /\ \A e \in Caller : got'[e] \in {got[e], tunnelID, got["watch"], Torn}
      /\ \A e \in Caller : posted'[e] \in {posted[e], got[e]}
      /\ got'["watch"] = got["watch"]
      /\ got' \in [Caller -> Id \cup {NoId, Torn}]
      /\ posted' \in [Caller -> Id \cup {NoId, Torn}]
  BY <1>1 DEF TypeOK
<1>5. TypeOK'
  <2>1. pc' \in [Caller -> Labels]
    BY DEF TypeOK, Labels
  <2>2. QED
    BY <1>1, <1>4, <2>1 DEF TypeOK, Labels
<1>6. IdsInv'
  BY <1>1, <1>3, <1>4 DEF IdsInv
<1>7. ZeroInv'
  <2>1. \A e \in Caller : pc'[e] # pc[e] => pc'[e] \notin Calling \/ pc'[e] = "check"
    BY DEF TypeOK
  <2>2. 0 \in {tunnelID'} \cup {got'[e] : e \in Caller} \cup {posted'[e] : e \in Caller} =>
           0 \in {tunnelID} \cup {got[e] : e \in Caller} \cup {posted[e] : e \in Caller}
    <3>1. ASSUME NEW k \in {tunnelID'} \cup {got'[e] : e \in Caller} \cup {posted'[e] : e \in Caller},
                 k = 0
          PROVE  k \in {tunnelID} \cup {got[e] : e \in Caller} \cup {posted[e] : e \in Caller}
      BY <1>1, <1>4, <3>1
    <3>2. QED
      BY <3>1
  <2>3. QED
    BY <2>1, <2>2, ZeroQuiet
<1>8. QED
  BY <1>2, <1>5, <1>6, <1>7

LEMMA LoopIInv ==
    ASSUME IInv, proc = "up",
           \/ PostEmptyList("main") \/ PostEmptyList("listener")
           \/ WatchRound \/ WatchAssigns \/ KeepRound \/ KeepPosts
           \/ ListenerWakes \/ ListenerWaits
    PROVE  IInv'
<1>1. stop \in BOOLEAN /\ Caller = {"main", "watch", "keep", "listener"}
  BY DEF IInv, TypeOK, Caller
<1>2. CASE \E c \in {"main", "listener"} : PostEmptyList(c)
  <2>1. PICK c \in {"main", "listener"} : PostEmptyList(c)
    BY <1>2
  <2> DEFINE l == IF c = "main" THEN "start" ELSE "kill"
  <2>2. /\ pc[c] = "post" /\ c \in Caller /\ l \in Labels /\ pc' = [pc EXCEPT ![c] = l]
        /\ l \notin {"none", "launch", "sleep", "done"} \cup Calling
        /\ posted' = [posted EXCEPT ![c] = got[c]]
        /\ UNCHANGED <<proc, life, faults, tunnel, tunnelProcess, tunnelInfo, tunnelID, stop,
                       signal, answer, got, retries, orphans, zeroSeen, raced>>
    BY <1>1, <2>1 DEF PostEmptyList, Goto, Labels, Calling, tunnelVars, stopVars, history
  <2> HIDE DEF l
  <2>3. QED
    BY <1>1, <2>2, QuietMove
<1>3. CASE WatchRound \/ WatchAssigns
  <2>1. PICK l \in {"done", "check", "loop"} : pc' = [pc EXCEPT !["watch"] = l]
    BY <1>3 DEF WatchRound, WatchAssigns, Goto
  <2>2. /\ tunnelID' \in {tunnelID, got["watch"]}
        /\ UNCHANGED <<proc, life, faults, tunnel, tunnelProcess, tunnelInfo, stop, signal,
                       answer, got, retries, posted, orphans, zeroSeen, raced>>
    BY <1>3 DEF WatchRound, WatchAssigns, tunnelVars, stopVars, history
  <2>3. QED
    BY <1>1, <2>1, <2>2, QuietMove DEF Labels, Calling
<1>4. CASE KeepRound \/ KeepPosts
  <2>1. PICK l \in {"done", "check", "post", "loop"} : pc' = [pc EXCEPT !["keep"] = l]
    BY <1>4 DEF KeepRound, KeepPosts, Goto
  <2>2. /\ UNCHANGED <<proc, life, faults, tunnel, tunnelProcess, tunnelInfo, tunnelID, stop,
                       signal, answer, retries, orphans, zeroSeen, raced>>
        /\ posted' = posted \/ posted' = [posted EXCEPT !["keep"] = got["keep"]]
        /\ got' = got \/ \E k \in TunnelIDRead : got' = [got EXCEPT !["keep"] = k]
    BY <1>4 DEF KeepRound, KeepPosts, tunnelVars, stopVars, history
  <2>3. TunnelIDRead \subseteq {tunnelID, got["watch"], Torn}
    BY DEF TunnelIDRead
  <2>4. QED
    BY <1>1, <2>1, <2>2, <2>3, QuietMove DEF Labels, Calling
<1>5. CASE ListenerWakes \/ ListenerWaits
  <2>1. PICK l \in {"waitGroup", "check"} : pc' = [pc EXCEPT !["listener"] = l]
    BY <1>5 DEF ListenerWakes, ListenerWaits, Goto
  <2>2. /\ UNCHANGED <<proc, life, faults, tunnel, tunnelProcess, tunnelInfo, tunnelID,
                       signal, answer, got, retries, posted, orphans, zeroSeen, raced>>
        /\ stop' \in BOOLEAN /\ pc["listener"] \in {"wait", "waitGroup"}
    BY <1>1, <1>5 DEF ListenerWakes, ListenerWaits, tunnelVars, stopVars, history
  <2>3. QED
    BY <1>1, <2>1, <2>2, QuietMove DEF Labels, Calling
<1>6. QED
  BY <1>2, <1>3, <1>4, <1>5

\* The tunnel of this life ends with the listener's last step.
LEMMA KillIInv ==
    ASSUME IInv, proc = "up", KillTunnel
    PROVE  IInv'
<1> USE DEF IInv
<1>1. /\ pc["listener"] = "kill" /\ pc' = [pc EXCEPT !["listener"] = "done"]
      /\ UNCHANGED <<proc, life, faults, tunnelProcess, tunnelInfo, tunnelID, stop, signal,
                     answer, got, retries, posted, orphans, zeroSeen, raced>>
  BY DEF KillTunnel, Goto, stopVars, history
<1>2. tunnelProcess = life /\ life # 0 /\ life \in Process
      /\ pc["main"] \notin {"launch", "sleep"}
  BY <1>1 DEF LifeInv, TypeOK, Process
<1>3. tunnel' = [tunnel EXCEPT ![life] = "dead"]
  BY <1>2 DEF KillTunnel
<1>4. pc' \in [Caller -> Labels] /\ pc'["listener"] = "done" /\ pc'["main"] = pc["main"]
      /\ \A c \in Caller : pc'[c] # pc[c] => pc'[c] = "done"
  BY <1>1 DEF TypeOK, Labels, Caller
<1>5. TypeOK'
  BY <1>1, <1>2, <1>3, <1>4 DEF TypeOK, Labels
<1>6. LifeInv'
  <2>1. tunnel'[life] = "dead" /\ \A p \in Process : p # life => tunnel'[p] = tunnel[p]
    BY <1>2, <1>3 DEF TypeOK
  <2>2. \A p \in Process : p \in Alive' => p \in Alive
    BY <2>1 DEF Alive
  <2>3. QED
    <3>1. \A p \in Process : p > life => p # life
      BY DEF Process, TypeOK
    <3>2. QED
      BY <1>1, <1>2, <1>4, <2>1, <2>2, <3>1 DEF LifeInv
<1>7. IdsInv'
  BY <1>1 DEF IdsInv, Known
<1>8. ZeroInv'
  BY <1>1, <1>4, ZeroQuiet DEF Calling
<1>9. QED
  BY <1>5, <1>6, <1>7, <1>8

-----------------------------------------------------------------------------
(* Steps that leave the goroutines where they are.                         *)

LEMMA OutsideStep ==
    ASSUME IInv, UNCHANGED <<life, tunnelProcess, tunnelInfo, tunnelID, stop, callVars,
                             zeroSeen, raced>>,
           orphans \subseteq orphans', orphans' \subseteq Process,
           proc' \in {"up", "down", "exited"}, faults' \in 0..MaxFaults, signal' \in BOOLEAN,
           tunnel' \in [Process -> {"none", "starting", "up", "dead"}], LifeInv'
    PROVE  IInv'
<1> USE DEF IInv
<1>1. UNCHANGED <<pc, answer, got, retries, posted>>
  BY DEF callVars
<1>2. TypeOK'
  BY <1>1 DEF TypeOK
<1>3. IdsInv'
  <2>1. Known \subseteq Known'
    BY DEF Known
  <2>2. QED
    BY <1>1, <2>1 DEF IdsInv
<1>4. ZeroInv'
  BY <1>1, ZeroQuiet
<1>5. QED
  BY <1>2, <1>3, <1>4

LEMMA WorldIInv == ASSUME IInv, World PROVE IInv'
<1> USE DEF IInv
<1>1. PICK p \in Process : TunnelServes(p) \/ TunnelExits(p) \/ TunnelDies(p)
  BY DEF World
<1>2. PICK s \in {"up", "dead"} : tunnel' = [tunnel EXCEPT ![p] = s]
  BY <1>1 DEF TunnelServes, TunnelExits, TunnelDies
<1>3. /\ UNCHANGED <<proc, life, tunnelProcess, tunnelInfo, tunnelID, stop, signal, callVars,
                     orphans, zeroSeen, raced>>
      /\ p \in Alive /\ faults' \in 0..MaxFaults
  BY <1>1, TunnelAssumption DEF TunnelServes, TunnelExits, TunnelDies, Alive, Fault, TypeOK,
     TunnelAssumption, stopVars, history
<1>4. /\ tunnel' \in [Process -> {"none", "starting", "up", "dead"}]
      /\ tunnel'[p] \in {"up", "dead"} /\ tunnel[p] \in {"starting", "up"}
      /\ \A q \in Process \ {p} : tunnel'[q] = tunnel[q]
  BY <1>2, <1>3 DEF TypeOK, Alive
<1>5. Alive' \subseteq Alive
  BY <1>3, <1>4 DEF Alive
<1>6. LifeInv'
  <2>1. pc' = pc
    BY <1>3 DEF callVars
  <2>2. \A q \in Process : tunnel[q] \in {"none", "dead"} => tunnel'[q] = tunnel[q]
    BY <1>4
  <2>3. life \in Process
    BY DEF TypeOK
  <2>4. QED
    BY <1>3, <1>5, <2>1, <2>2, <2>3 DEF LifeInv
<1>7. QED
  BY <1>3, <1>4, <1>6, OutsideStep DEF TypeOK

LEMMA DiesIInv == ASSUME IInv, proc = "up", Dies PROVE IInv'
<1> USE DEF IInv
<1>1. /\ proc' = "down" /\ orphans' = orphans \cup (Alive \cap {life})
      /\ UNCHANGED <<life, faults, tunnel, tunnelProcess, tunnelInfo, tunnelID, stop, signal,
                     callVars, zeroSeen, raced>>
  BY DEF Dies, tunnelVars, stopVars
<1>2. LifeInv'
  <2>1. pc' = pc /\ Alive' = Alive
    BY <1>1 DEF callVars, Alive
  <2>2. ASSUME NEW p \in Process, p \in Alive
        PROVE  p \in orphans'
    <3>1. p < life \/ p = life \/ p > life
      BY DEF Process, TypeOK
    <3>2. ~(p > life)
      BY <2>2 DEF LifeInv, Alive
    <3>3. QED
      BY <1>1, <2>2, <3>1, <3>2 DEF LifeInv
  <2>3. QED
    BY <1>1, <2>1, <2>2 DEF LifeInv
<1>3. orphans' \subseteq Process
  BY <1>1 DEF TypeOK
<1>4. QED
  BY <1>1, <1>2, <1>3, OutsideStep DEF TypeOK

LEMMA SignalIInv == ASSUME IInv, proc = "up", SignalArrives PROVE IInv'
<1> USE DEF IInv
<1>1. /\ signal' = TRUE
      /\ UNCHANGED <<proc, life, faults, tunnel, tunnelProcess, tunnelInfo, tunnelID, stop,
                     callVars, orphans, zeroSeen, raced>>
  BY DEF SignalArrives, tunnelVars, history
<1>2. LifeInv'
  BY <1>1 DEF LifeInv, callVars, Alive
<1>3. QED
  BY <1>1, <1>2, OutsideStep DEF TypeOK

LEMMA MainExitsIInv == ASSUME IInv, proc = "up", MainExits PROVE IInv'
<1> USE DEF IInv
<1>1. /\ proc' = "exited" /\ pc["listener"] = "done"
      /\ UNCHANGED <<life, faults, tunnel, tunnelProcess, tunnelInfo, tunnelID, stop, signal,
                     callVars, orphans, zeroSeen, raced>>
  BY DEF MainExits, tunnelVars, stopVars, history
<1>2. LifeInv'
  BY <1>1 DEF LifeInv, callVars, Alive
<1>3. QED
  BY <1>1, <1>2, OutsideStep DEF TypeOK

LEMMA FreshTypes ==
    /\ [c \in Caller |-> NoBody] \in [Caller -> Body]
    /\ [c \in Caller |-> NoId] \in [Caller -> Id \cup {NoId, Torn}]
    /\ [c \in Caller |-> 1] \in [Caller -> 0..1]
    /\ NoInfo \in Info /\ NoInfo.id = 0 /\ NoBody.id = 0 /\ NoId # Torn /\ NoId # 0
    /\ FreshCallers \in [Caller -> Labels]
    /\ FreshCallers["main"] = "launch" /\ FreshCallers["listener"] = "none"
    /\ \A c \in Caller : FreshCallers[c] \in {"launch", "none"}
<1>1. NoInfo \in Info /\ NoInfo.id = 0 /\ NoBody \in Body /\ NoBody.id = 0 /\ NoId # Torn
  BY BodyTypes
<1>2. NoId # 0
  BY DEF NoId
<1>3. [c \in Caller |-> NoBody] \in [Caller -> Body]
  BY <1>1
<1>4. /\ FreshCallers \in [Caller -> Labels]
      /\ FreshCallers["main"] = "launch" /\ FreshCallers["listener"] = "none"
      /\ \A c \in Caller : FreshCallers[c] \in {"launch", "none"}
  BY DEF FreshCallers, Labels, Caller
<1>5. QED
  BY <1>1, <1>2, <1>3, <1>4

\* A new life knows no id, and every tunnel that runs is an orphan.
LEMMA RestartIInv == ASSUME IInv, Restart PROVE IInv'
<1> USE DEF IInv
<1>1. /\ proc' = "up" /\ life' = life + 1 /\ life' \in Process /\ life \in Process
      /\ tunnelProcess' = 0 /\ tunnelInfo' = NoInfo /\ tunnelID' = NoId
      /\ stop' = FALSE /\ signal' = FALSE /\ pc' = FreshCallers
      /\ answer' = [c \in Caller |-> NoBody] /\ got' = [c \in Caller |-> NoId]
      /\ retries' = [c \in Caller |-> 1] /\ posted' = [c \in Caller |-> NoId]
      /\ zeroSeen' = FALSE /\ raced' = FALSE /\ UNCHANGED <<faults, tunnel, orphans>>
  BY TunnelAssumption DEF Restart, TypeOK, Process, TunnelAssumption
<1>2. TypeOK'
  <2>1. pc' \in [Caller -> Labels]
    BY <1>1, FreshTypes
  <2>2. /\ answer' \in [Caller -> Body] /\ retries' \in [Caller -> 0..1]
        /\ got' \in [Caller -> Id \cup {NoId, Torn}] /\ posted' \in [Caller -> Id \cup {NoId, Torn}]
    BY <1>1, FreshTypes
  <2>3. tunnelProcess' \in 0..MaxLives /\ tunnelInfo' \in Info /\ tunnelID' \in Id \cup {NoId}
    BY <1>1, FreshTypes, TunnelAssumption DEF TunnelAssumption
  <2>4. faults' \in 0..MaxFaults /\ tunnel' \in [Process -> {"none", "starting", "up", "dead"}]
        /\ orphans' \in SUBSET Process
    BY <1>1 DEF TypeOK
  <2>5. QED
    BY <1>1, <2>1, <2>2, <2>3, <2>4 DEF TypeOK, Labels
<1>3. LifeInv'
  <2>1. \A p \in Process : /\ p > life + 1 => p > life
                           /\ p < life + 1 => p < life \/ p = life
    BY <1>1 DEF Process
  <2>2. tunnel[life + 1] = "none"
    BY <1>1 DEF LifeInv, Process
  <2>3. life \in Alive => life \in orphans
    <3>1. CASE proc = "down"
      BY <1>1, <3>1 DEF LifeInv
    <3>2. CASE proc = "exited"
      BY <3>2 DEF LifeInv, Alive
    <3>3. QED
      BY <3>1, <3>2 DEF Restart, TypeOK
  <2>4. Alive' = Alive
    BY <1>1 DEF Alive
  <2>5. QED
    BY <1>1, <2>1, <2>2, <2>3, <2>4, FreshTypes DEF LifeInv
<1>4. IdsInv'
  BY <1>1, FreshTypes DEF IdsInv, Known, Caller
<1>5. ZeroInv'
  BY <1>1, FreshTypes DEF ZeroInv, ZeroNeedsRace
<1>6. QED
  BY <1>2, <1>3, <1>4, <1>5

-----------------------------------------------------------------------------
(* The theorems.                                                           *)

LEMMA InitIInv == Init => IInv
<1> SUFFICES ASSUME Init PROVE IInv
  OBVIOUS
<1> USE DEF Init
<1>1. 1 \in Process
  BY TunnelAssumption DEF TunnelAssumption, Process
<1>2. TypeOK
  <2>1. pc \in [Caller -> Labels]
    BY FreshTypes
  <2>2. /\ answer \in [Caller -> Body] /\ retries \in [Caller -> 0..1]
        /\ got \in [Caller -> Id \cup {NoId, Torn}] /\ posted \in [Caller -> Id \cup {NoId, Torn}]
    BY FreshTypes
  <2>3. tunnelProcess \in 0..MaxLives /\ tunnelInfo \in Info /\ tunnelID \in Id \cup {NoId}
    BY FreshTypes, TunnelAssumption DEF TunnelAssumption
  <2>4. faults \in 0..MaxFaults /\ tunnel \in [Process -> {"none", "starting", "up", "dead"}]
        /\ orphans \in SUBSET Process
    BY TunnelAssumption DEF TunnelAssumption
  <2>5. QED
    <3> HIDE DEF Init
    <3>1. proc = "up" /\ life = 1 /\ stop = FALSE /\ signal = FALSE
          /\ zeroSeen = FALSE /\ raced = FALSE
      BY DEF Init
    <3>2. QED
      BY <1>1, <2>1, <2>2, <2>3, <2>4, <3>1 DEF TypeOK, Labels
<1>3. LifeInv
  BY <1>1, FreshTypes DEF LifeInv, Alive
<1>4. IdsInv
  BY FreshTypes DEF IdsInv, Known, Caller
<1>5. ZeroInv
  BY FreshTypes DEF ZeroInv, ZeroNeedsRace
<1>6. QED
  BY <1>2, <1>3, <1>4, <1>5 DEF IInv

LEMMA NextIInv == IInv /\ [Next]_vars => IInv'
<1> SUFFICES ASSUME IInv, [Next]_vars PROVE IInv'
  OBVIOUS
<1>1. CASE UNCHANGED vars
  <2>1. /\ UNCHANGED <<proc, life, faults, tunnel, tunnelProcess, tunnelInfo, tunnelID, stop,
                       signal, callVars, orphans, zeroSeen, raced>>
    BY <1>1 DEF vars, tunnelVars, stopVars, history
  <2>2. LifeInv'
    BY <2>1 DEF IInv, LifeInv, callVars, Alive
  <2>3. QED
    BY <2>1, <2>2, OutsideStep DEF IInv, TypeOK
<1>2. CASE Binary
  <2>1. \A c \in {"main", "watch", "keep", "listener"} : c \in Caller
    BY DEF Caller
  <2>2. QED
    BY <1>2, <2>1, CallIInv, StartIInv, LoopIInv, KillIInv, DiesIInv, SignalIInv, MainExitsIInv
       DEF Binary, Main, Watch, Keep, Listener, SignalKills, Crash
<1>3. QED
  BY <1>1, <1>2, WorldIInv, RestartIInv DEF Next, Over

LEMMA SpecIInv == Spec => []IInv
  BY InitIInv, NextIInv, PTL DEF Spec

LEMMA IInvImplies == IInv => GracefulStopEndsTunnel /\ IdsAreOwnOrOrphans
<1> SUFFICES ASSUME IInv PROVE GracefulStopEndsTunnel /\ IdsAreOwnOrOrphans
  OBVIOUS
<1> USE DEF IInv
<1>1. GracefulStopEndsTunnel
  BY DEF GracefulStopEndsTunnel, LifeInv, TypeOK
<1>2. \A k \in IdsInUse : k \in Known
  BY DEF IdsInUse, IdsInv
<1>3. IdsAreOwnOrOrphans
  BY <1>2, BodyTypes DEF IdsAreOwnOrOrphans, Known
<1>4. QED
  BY <1>1, <1>3

\* Every variable keeps to the values the code can give it.
THEOREM TypeCorrect == Spec => []TypeOK
  BY SpecIInv, PTL DEF IInv

\* Whenever the signal came, a graceful stop has ended the tunnel of its life.
THEOREM StopEndsTunnel == Spec => []GracefulStopEndsTunnel
  BY SpecIInv, IInvImplies, PTL

\* No id is ever that of a tunnel some earlier life has shut down.
THEOREM IdsCorrect == Spec => []IdsAreOwnOrOrphans
  BY SpecIInv, IInvImplies, PTL

\* The id "0" comes from an answer, or from the race on tunnelInfo, and nothing else.
THEOREM ZeroCorrect == Spec => []ZeroNeedsRace
  BY SpecIInv, PTL DEF IInv, ZeroInv

-----------------------------------------------------------------------------
(* The calls as those of a cache.                                          *)

LEMMA CachedIdType == TypeOK => CachedId \in Process \cup {NoId}
<1> SUFFICES ASSUME TypeOK, Settled PROVE tunnelInfo.id \in Process
  BY DEF CachedId
<1>1. tunnelInfo.id \in Id /\ tunnelInfo.id > 0
  BY BodyTypes DEF TypeOK, Settled, Usable
<1>2. QED
  BY <1>1 DEF Id

LEMMA CachedIdTypeNext == TypeOK' => CachedId' \in Process \cup {NoId}
<1> SUFFICES ASSUME TypeOK', Settled' PROVE tunnelInfo'.id \in Process
  BY DEF CachedId
<1>1. tunnelInfo'.id \in Id /\ tunnelInfo'.id > 0
  BY BodyTypes DEF TypeOK, Settled, Usable
<1>2. QED
  BY <1>1 DEF Id

LEMMA MissedMeansUnsettled == ASSUME NEW c \in Caller, pc[c] \in Missed PROVE CachedId = NoId
  BY DEF CachedId, Settled

\* What the move of one goroutine does to the calls.
LEMMA MoveOfOne ==
    ASSUME TypeOK, NEW c \in Caller, NEW l, pc' = [pc EXCEPT ![c] = l],
           got' = got \/ \E k : got' = [got EXCEPT ![c] = k]
    PROVE  /\ Calls' = [Calls EXCEPT ![c] = Calls'[c]]
           /\ Results' = [Results EXCEPT ![c] = Results'[c]]
           /\ Calls[c] = CallOf(c)
           /\ Calls'[c] = IF l \in Missed \cup {"check"} THEN "asking"
                          ELSE IF l = "cached" THEN "found" ELSE "out"
           /\ Results'[c] = IF Calls'[c] = "out" THEN got'[c] ELSE NoId
           /\ Results[c] = IF Calls[c] = "out" THEN got[c] ELSE NoId
           /\ pc'[c] = l /\ \A e \in Caller \ {c} : pc'[e] = pc[e]
           /\ Calls'[c] = Calls[c] => Calls' = Calls
           /\ Results'[c] = Results[c] => Results' = Results
<1>1. /\ pc'[c] = l /\ \A e \in Caller \ {c} : pc'[e] = pc[e] /\ got'[e] = got[e]
  BY DEF TypeOK
<1>2. CallOf(c)' = (IF l \in Missed \cup {"check"} THEN "asking"
                    ELSE IF l = "cached" THEN "found" ELSE "out")
  BY <1>1 DEF CallOf, Missed
<1>3. \A e \in Caller \ {c} : CallOf(e)' = CallOf(e)
  BY <1>1 DEF CallOf, Missed
<1>4. Calls' = [Calls EXCEPT ![c] = Calls'[c]]
  BY <1>3 DEF Calls
<1>5. Results' = [Results EXCEPT ![c] = Results'[c]]
  BY <1>1, <1>3 DEF Results
<1>6. /\ Calls'[c] = Calls[c] => Calls' = Calls
      /\ Results'[c] = Results[c] => Results' = Results
  BY <1>1, <1>3 DEF Calls, Results
<1>7. QED
  BY <1>1, <1>2, <1>4, <1>5, <1>6 DEF Calls, Results

\* A goroutine outside a call asks, or takes an id from elsewhere, or neither.
LEMMA OutsideCalls ==
    ASSUME TypeOK, NEW c \in Caller, NEW l, pc' = [pc EXCEPT ![c] = l],
           pc[c] \notin Calling, l \notin Calling \/ l = "check",
           got' = got \/ \E k : got' = [got EXCEPT ![c] = k],
           UNCHANGED <<life, tunnelInfo>>
    PROVE  Cache!Ask(c) \/ Cache!TakeElsewhere(c)
<1>1. Calls[c] = "out"
  BY MoveOfOne DEF CallOf, Missed, Calling
<1>2. CachedId' = CachedId
  <2>1. \A e \in Caller : pc'[e] \in Missed <=> pc[e] \in Missed
    BY MoveOfOne DEF Missed, Calling
  <2>2. QED
    BY <2>1 DEF CachedId, Settled, Usable, Missed
<1>3. CASE l = "check"
  <2>1. Calls'[c] = "asking" /\ Results'[c] = NoId
    BY <1>3, MoveOfOne
  <2>2. QED
    BY <1>1, <1>2, <2>1, MoveOfOne DEF Cache!Ask
<1>4. CASE l # "check"
  <2>1. Calls'[c] = "out"
    BY <1>4, MoveOfOne DEF Missed, Calling
  <2>2. Calls' = Calls
    BY <1>1, <2>1, MoveOfOne
  <2>3. QED
    BY <1>1, <1>2, <2>2, MoveOfOne DEF Cache!TakeElsewhere
<1>5. QED
  BY <1>3, <1>4

\* A call that fails had seen no id, and no id was there for good.
LEMMA FailingCall ==
    ASSUME TypeOK, TypeOK', NEW c \in Caller, pc[c] \in Missed, CallFails(c), UNCHANGED life
    PROVE  Cache!Fail(c)
<1>1. PICK l \in {"assign", "loop", "post", "check"} : pc' = [pc EXCEPT ![c] = l]
  BY CallEnds
<1>2. got' = [got EXCEPT ![c] = NoId] /\ got'[c] = NoId
  BY DEF CallFails, TypeOK
<1>3. Calls[c] = "asking" /\ Results[c] = NoId /\ Results'[c] = NoId
  BY <1>1, <1>2, MoveOfOne DEF CallOf
<1>4. Results' = Results
  BY <1>1, <1>2, <1>3, MoveOfOne
<1>5. Calls'[c] \in {"asking", "out"}
  BY <1>1, <1>2, MoveOfOne DEF Missed
<1>6. Calls' \in {Calls, [Calls EXCEPT ![c] = "out"]}
  BY <1>1, <1>2, <1>3, <1>5, MoveOfOne
<1>7. CachedId = NoId /\ CachedId' \in Process \cup {NoId}
  BY MissedMeansUnsettled, CachedIdTypeNext
<1>8. QED
  BY <1>3, <1>4, <1>6, <1>7 DEF Cache!Fail, Cache!Settles

\* A call that is about to return an id: it has seen one in tunnelInfo.
LEMMA SucceedingCall ==
    ASSUME TypeOK, TypeOK', NEW c \in Caller, pc[c] \in Missed \cup {"check"},
           pc' = [pc EXCEPT ![c] = "cached"], UNCHANGED <<life, got, tunnelInfo>>
    PROVE  Cache!Succeed(c)
<1>1. Calls[c] = "asking" /\ Calls'[c] = "found" /\ Results' = Results
  <2>1. Calls[c] = "asking"
    BY DEF Calls, CallOf
  <2>2. "cached" \notin Missed \cup {"check"}
    BY DEF Missed
  <2>3. Calls'[c] = "found"
    BY <2>2, MoveOfOne
  <2>4. QED
    BY <2>1, <2>3, MoveOfOne
<1>2. Cache!Settles
  <2>1. CachedId' \in Process \cup {NoId}
    BY CachedIdTypeNext
  <2>2. ASSUME CachedId # NoId
        PROVE  CachedId' = CachedId
    <3>1. Settled
      BY <2>2 DEF CachedId
    <3>2. \A e \in Caller : pc'[e] \notin Missed
      BY <3>1, MoveOfOne DEF Settled, Missed
    <3>3. Settled'
      BY <3>1, <3>2 DEF Settled, Usable, Missed
    <3>4. QED
      BY <3>1, <3>3 DEF CachedId
  <2>3. QED
    BY <2>1, <2>2 DEF Cache!Settles
<1>3. QED
  BY <1>1, <1>2, MoveOfOne DEF Cache!Succeed

\* A call that has seen no id goes on: nothing its callers could tell.
LEMMA CallGoesOn ==
    ASSUME TypeOK, NEW c \in Caller, pc[c] \in Missed \cup {"check"}, NEW l \in Missed,
           pc[c] \in Missed \/ ~Usable(tunnelInfo),
           pc' = [pc EXCEPT ![c] = l], UNCHANGED <<life, got>>
    PROVE  UNCHANGED <<life, CachedId, Calls, Results>>
<1>1. Calls' = Calls /\ Results' = Results
  BY MoveOfOne DEF CallOf, Calls, Results
<1>2. CachedId = NoId
  BY MissedMeansUnsettled DEF CachedId, Settled
<1>3. pc'[c] \in Missed'
  BY DEF TypeOK, Missed
<1>4. CachedId' = NoId
  BY <1>3 DEF CachedId, Settled, NoId
<1>5. QED
  BY <1>1, <1>2, <1>4

LEMMA ReturningCall ==
    ASSUME TypeOK, NEW c \in Caller, Cached(c)
    PROVE  Cache!Return(c)
<1>1. /\ pc[c] = "cached" /\ got' = [got EXCEPT ![c] = tunnelInfo.id]
      /\ UNCHANGED <<life, tunnelInfo>> /\ tunnelInfo.id \in Id
  BY BodyTypes DEF Cached, CallOk, TypeOK
<1>2. PICK l \in {"assign", "loop", "post"} : pc' = [pc EXCEPT ![c] = l]
  BY DEF Cached, CallOk, Goto, AfterCall
<1>3. Calls[c] = "found" /\ Calls'[c] = "out" /\ Results'[c] = tunnelInfo.id
  <2>1. got'[c] = tunnelInfo.id
    BY <1>1 DEF TypeOK
  <2>2. QED
    BY <1>1, <1>2, <2>1, MoveOfOne DEF CallOf, Missed
<1>4. CachedId' = CachedId
  <2>1. \A e \in Caller : pc'[e] \in Missed <=> pc[e] \in Missed
    BY <1>1, <1>2, MoveOfOne DEF Missed
  <2>2. QED
    BY <1>1, <2>1 DEF CachedId, Settled, Usable, Missed
<1>5. tunnelInfo.id \in IF CachedId = NoId THEN Process \cup {0} ELSE {CachedId}
  BY <1>1 DEF CachedId, Id
<1>6. /\ Calls' = [Calls EXCEPT ![c] = "out"]
      /\ Results' = [Results EXCEPT ![c] = tunnelInfo.id]
  BY <1>1, <1>2, <1>3, MoveOfOne
<1>7. QED
  BY <1>1, <1>3, <1>4, <1>5, <1>6 DEF Cache!Return

\* One step of GetTunnelId is a step of the cache, or none.
LEMMA CallStep ==
    ASSUME IInv, proc = "up", NEW c \in Caller, GetTunnelId(c)
    PROVE  \/ Cache!Succeed(c) \/ Cache!Fail(c) \/ Cache!Return(c)
           \/ UNCHANGED <<life, CachedId, Calls, Results>>
<1>1. TypeOK /\ TypeOK' /\ life' = life
  BY CallType, CallMoves DEF IInv
<1>2. CASE Check(c)
  <2>1. pc[c] = "check" /\ UNCHANGED <<got, tunnelInfo>>
    BY <1>2 DEF Check
  <2>2. CASE Usable(tunnelInfo)
    BY <1>1, <1>2, <2>1, <2>2, SucceedingCall DEF Check, Goto
  <2>3. CASE ~Usable(tunnelInfo)
    <3>1. pc' = [pc EXCEPT ![c] = "fetch"] /\ "fetch" \in Missed
      BY <1>2, <2>3 DEF Check, Goto, Missed
    <3>2. QED
      BY <1>1, <2>1, <2>3, <3>1, CallGoesOn
  <2>4. QED
    BY <2>2, <2>3
<1>3. CASE Cached(c)
  BY <1>1, <1>3, ReturningCall
<1>4. CASE Fetch(c) \/ EmptyInfo(c) \/ (Decode(c) /\ answer[c].flaw = "none")
  <2>1. PICK l \in Missed : pc' = [pc EXCEPT ![c] = l]
    BY <1>4 DEF Fetch, EmptyInfo, Decode, Goto, Missed
  <2>2. pc[c] \in Missed /\ got' = got
    BY <1>4 DEF Fetch, EmptyInfo, Decode, Missed
  <2>3. QED
    BY <1>1, <2>1, <2>2, CallGoesOn
<1>5. CASE FetchFails(c) \/ (Decode(c) /\ answer[c].flaw # "none")
           \/ (Recheck(c) /\ tunnelInfo.status = "FAILED")
  <2>1. pc[c] \in Missed /\ CallFails(c)
    BY <1>5 DEF FetchFails, Decode, Recheck, Missed
  <2>2. QED
    BY <1>1, <2>1, FailingCall
<1>6. CASE Recheck(c) /\ tunnelInfo.status # "FAILED"
  <2>1. /\ pc[c] \in Missed /\ pc' = [pc EXCEPT ![c] = "cached"]
        /\ UNCHANGED <<got, tunnelInfo>>
    BY <1>6 DEF Recheck, Goto, Missed
  <2>2. QED
    BY <1>1, <2>1, SucceedingCall
<1>7. QED
  BY <1>2, <1>3, <1>4, <1>5, <1>6 DEF GetTunnelId

\* The steps of a goroutine between two calls.
LEMMA LoopStep ==
    ASSUME IInv,
           \/ LaunchTunnel \/ PostEmptyList("main") \/ PostEmptyList("listener")
           \/ WatchRound \/ WatchAssigns \/ KeepRound \/ KeepPosts
           \/ ListenerWakes \/ ListenerWaits \/ KillTunnel
    PROVE  \E c \in Caller : Cache!Ask(c) \/ Cache!TakeElsewhere(c)
<1>1. \A c \in {"main", "watch", "keep", "listener"} : c \in Caller
  BY DEF Caller
<1>2. TypeOK /\ UNCHANGED <<life, tunnelInfo>>
  BY DEF IInv, LaunchTunnel, PostEmptyList, WatchRound, WatchAssigns, KeepRound, KeepPosts,
     ListenerWakes, ListenerWaits, KillTunnel
<1>3. CASE LaunchTunnel \/ PostEmptyList("main")
  <2>1. /\ pc["main"] \notin Calling /\ got' = got
        /\ \E l : l \notin Calling /\ pc' = [pc EXCEPT !["main"] = l]
    BY <1>3 DEF LaunchTunnel, PostEmptyList, Goto, Calling
  <2>2. QED
    BY <1>1, <1>2, <2>1, OutsideCalls
<1>4. CASE WatchRound \/ WatchAssigns
  <2>1. /\ pc["watch"] \notin Calling /\ got' = got
        /\ \E l : (l \notin Calling \/ l = "check") /\ pc' = [pc EXCEPT !["watch"] = l]
    BY <1>4 DEF WatchRound, WatchAssigns, Goto, Calling
  <2>2. QED
    BY <1>1, <1>2, <2>1, OutsideCalls
<1>5. CASE KeepRound \/ KeepPosts
  <2>1. /\ pc["keep"] \notin Calling
        /\ got' = got \/ \E k : got' = [got EXCEPT !["keep"] = k]
        /\ \E l : (l \notin Calling \/ l = "check") /\ pc' = [pc EXCEPT !["keep"] = l]
    BY <1>5 DEF KeepRound, KeepPosts, Goto, Calling
  <2>2. QED
    BY <1>1, <1>2, <2>1, OutsideCalls
<1>6. CASE ListenerWakes \/ ListenerWaits \/ KillTunnel \/ PostEmptyList("listener")
  <2>1. /\ pc["listener"] \notin Calling /\ got' = got
        /\ \E l : (l \notin Calling \/ l = "check") /\ pc' = [pc EXCEPT !["listener"] = l]
    BY <1>6 DEF ListenerWakes, ListenerWaits, KillTunnel, PostEmptyList, Goto, Calling
  <2>2. QED
    BY <1>1, <1>2, <2>1, OutsideCalls
<1>7. QED
  BY <1>3, <1>4, <1>5, <1>6

\* The loops run once main has started them, after all its own calls.
StartedInv == pc["main"] # "wait" => pc["watch"] = "none" /\ pc["keep"] = "none"

LEMMA StartedStep == IInv /\ StartedInv /\ [Next]_vars => StartedInv'
<1> SUFFICES ASSUME IInv, StartedInv, [Next]_vars
             PROVE  StartedInv'
  OBVIOUS
<1> USE DEF StartedInv
<1>1. /\ \A c \in {"main", "watch", "keep", "listener"} : c \in Caller
      /\ TypeOK /\ pc \in [Caller -> Labels]
  BY DEF Caller, IInv, TypeOK, Labels
<1>2. ASSUME NEW c \in Caller, NEW l, pc' = [pc EXCEPT ![c] = l],
             pc[c] # "none", c = "main" => pc[c] # "wait"
      PROVE  StartedInv'
  BY <1>1, <1>2 DEF Caller
<1>3. CASE \E c \in Caller : GetTunnelId(c)
  <2>1. PICK c \in Caller : GetTunnelId(c)
    BY <1>3
  <2>2. pc[c] \in Calling /\ \E l : pc' = [pc EXCEPT ![c] = l]
    BY <1>1, <2>1, CallMoves
  <2>3. QED
    BY <1>2, <2>2 DEF Calling
<1>4. CASE LaunchTunnel \/ PostEmptyList("main")
  BY <1>1, <1>2, <1>4 DEF LaunchTunnel, PostEmptyList, Goto
<1>5. CASE StartListener
  BY <1>1, <1>5 DEF StartListener
<1>6. CASE StartWatcher
  BY <1>1, <1>6 DEF StartWatcher
<1>7. CASE WatchRound \/ WatchAssigns \/ KeepRound \/ KeepPosts
  <2>1. \E c \in {"watch", "keep"} : pc[c] # "none" /\ \E l : pc' = [pc EXCEPT ![c] = l]
    BY <1>7 DEF WatchRound, WatchAssigns, KeepRound, KeepPosts, Goto
  <2>2. QED
    BY <1>1, <1>2, <2>1
<1>8. CASE ListenerWakes \/ ListenerWaits \/ PostEmptyList("listener") \/ KillTunnel
  <2>1. pc["listener"] # "none" /\ \E l : pc' = [pc EXCEPT !["listener"] = l]
    BY <1>8 DEF ListenerWakes, ListenerWaits, PostEmptyList, KillTunnel, Goto
  <2>2. QED
    BY <1>1, <1>2, <2>1
<1>9. CASE UNCHANGED pc
  BY <1>9
<1>10. CASE Restart
  BY <1>10, FreshTypes DEF Restart, FreshCallers, Caller
<1>11. QED
  BY <1>1, <1>3, <1>4, <1>5, <1>6, <1>7, <1>8, <1>9, <1>10
     DEF Next, Binary, Main, Watch, Keep, Listener, World, TunnelServes, TunnelExits,
         TunnelDies, LaunchFails, MainExits, SignalKills, SignalArrives, Crash, Dies, Over,
         vars, callVars

LEMMA StartedInit == Init => StartedInv
  BY DEF Init, FreshCallers, StartedInv, Caller

\* main starts others while it goes on itself.
LEMMA StartStep ==
    ASSUME IInv, StartedInv, StartListener \/ StartWatcher
    PROVE  Cache!Ask("main") \/ UNCHANGED <<life, CachedId, Calls, Results>>
<1>1. UNCHANGED <<life, tunnelInfo, got>> /\ pc["main"] \in {"sleep", "start"}
      /\ pc \in [Caller -> Labels]
      /\ \A c \in {"main", "watch", "keep", "listener"} : c \in Caller
  BY DEF IInv, TypeOK, StartListener, StartWatcher, Caller, Labels
<1>2. /\ pc["watch"] = "none" /\ pc["keep"] = "none"
      /\ StartListener => pc["listener"] = "none"
  BY <1>1 DEF IInv, LifeInv, StartedInv, StartListener
<1>3. /\ pc'["main"] = IF StartListener THEN "check" ELSE "wait"
      /\ \A c \in Caller \ {"main"} :
            pc'[c] = pc[c] \/ {pc[c], pc'[c]} \subseteq {"none", "wait", "loop"}
  <2>1. CASE StartListener
    BY <1>1, <1>2, <2>1 DEF StartListener
  <2>2. CASE StartWatcher
    BY <1>1, <1>2, <2>2 DEF StartWatcher, StartListener
  <2>3. QED
    BY <2>1, <2>2
<1>4. \A c \in Caller \ {"main"} : CallOf(c)' = CallOf(c)
  BY <1>3 DEF CallOf, Missed
<1>5. CachedId' = CachedId
  <2>1. \A c \in Caller : pc'[c] \in Missed <=> pc[c] \in Missed
    BY <1>1, <1>3 DEF Missed
  <2>2. QED
    BY <1>1, <2>1 DEF CachedId, Settled, Usable, Missed
<1>6. CallOf("main") = "out"
  BY <1>1 DEF CallOf, Missed
<1>7. CASE StartListener
  <2>1. CallOf("main")' = "asking"
    BY <1>3, <1>7 DEF CallOf, Missed
  <2>2. Calls' = [Calls EXCEPT !["main"] = "asking"] /\ Calls["main"] = "out"
    BY <1>1, <1>4, <1>6, <2>1 DEF Calls
  <2>3. Results' = [Results EXCEPT !["main"] = NoId]
    BY <1>1, <1>4, <2>1 DEF Results
  <2>4. QED
    BY <1>1, <1>5, <2>2, <2>3 DEF Cache!Ask
<1>8. CASE ~StartListener
  <2>1. CallOf("main")' = "out"
    BY <1>3, <1>8 DEF CallOf, Missed
  <2>2. Calls' = Calls /\ Results' = Results
    BY <1>1, <1>4, <1>6, <2>1 DEF Calls, Results
  <2>3. QED
    BY <1>1, <1>5, <2>2
<1>9. QED
  BY <1>7, <1>8

\* Nothing the calls depend on.
LEMMA CacheUnchanged ==
    ASSUME UNCHANGED <<life, pc, got, tunnelInfo>>
    PROVE  UNCHANGED <<life, CachedId, Calls, Results>>
  BY DEF CachedId, Settled, Usable, Missed, Calls, Results, CallOf

LEMMA RestartStep == ASSUME IInv, Restart PROVE Cache!StartAgain
<1>1. \A c \in Caller : CallOf(c)' = "out"
  BY FreshTypes DEF Restart, CallOf, Missed
<1>2. Calls' = [c \in Caller |-> "out"] /\ Results' = [c \in Caller |-> NoId]
  BY <1>1 DEF Restart, Calls, Results
<1>3. CachedId' = NoId
  BY FreshTypes DEF Restart, CachedId, Settled, Usable
<1>4. QED
  BY <1>2, <1>3 DEF Restart, Cache!StartAgain

LEMMA CacheStep == IInv /\ StartedInv /\ [Next]_vars => [Cache!Next]_Cache!cacheVars
<1> SUFFICES ASSUME IInv, StartedInv, [Next]_vars
             PROVE  Cache!Next \/ UNCHANGED <<life, CachedId, Calls, Results>>
  BY DEF Cache!cacheVars
<1>1. \A c \in {"main", "watch", "keep", "listener"} : c \in Caller
  BY DEF Caller
<1>2. CASE Binary
  <2>1. CASE \E c \in Caller : GetTunnelId(c)
    BY <1>2, <2>1, CallStep DEF Binary, Cache!Next
  <2>2. CASE \/ LaunchTunnel \/ PostEmptyList("main") \/ PostEmptyList("listener")
             \/ WatchRound \/ WatchAssigns \/ KeepRound \/ KeepPosts
             \/ ListenerWakes \/ ListenerWaits \/ KillTunnel
    BY <2>2, LoopStep DEF Cache!Next
  <2>3. CASE StartListener \/ StartWatcher
    BY <1>1, <2>3, StartStep DEF Cache!Next
  <2>4. CASE LaunchFails \/ MainExits \/ SignalArrives \/ Dies
    BY <2>4, CacheUnchanged DEF LaunchFails, MainExits, SignalArrives, Dies, callVars
  <2>5. QED
    BY <1>1, <1>2, <2>1, <2>2, <2>3, <2>4
       DEF Binary, Main, Watch, Keep, Listener, SignalKills, Crash
<1>3. CASE World
  BY <1>3, CacheUnchanged DEF World, TunnelServes, TunnelExits, TunnelDies, callVars
<1>4. CASE Restart
  BY <1>4, RestartStep DEF Cache!Next
<1>5. CASE UNCHANGED vars
  BY <1>5, CacheUnchanged DEF vars, callVars
<1>6. QED
  BY <1>2, <1>3, <1>4, <1>5 DEF Next, Over

LEMMA CacheInit == Init => Cache!Init
<1> SUFFICES ASSUME Init PROVE Cache!Init
  OBVIOUS
<1>1. \A c \in Caller : CallOf(c) = "out"
  BY FreshTypes DEF Init, CallOf, Missed
<1>2. Calls = [c \in Caller |-> "out"] /\ Results = [c \in Caller |-> NoId]
  BY <1>1 DEF Init, Calls, Results
<1>3. CachedId = NoId
  BY FreshTypes DEF Init, CachedId, Settled, Usable
<1>4. QED
  BY <1>2, <1>3 DEF Init, Cache!Init

\* The calls of any four goroutines, in their single reads and writes of tunnelInfo,
\* are the steps of a cache that never loses or changes its id while the binary runs.
THEOREM ImplementsIdCache == Spec => CacheSpec
<1>1. Spec => []StartedInv
  BY StartedInit, StartedStep, SpecIInv, PTL DEF Spec
<1>2. QED
  BY <1>1, CacheInit, CacheStep, SpecIInv, PTL DEF Spec, CacheSpec, Cache!Spec
=============================================================================
