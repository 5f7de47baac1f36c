--------------------------- MODULE AuthCacheProofs ---------------------------
(***************************************************************************)
(* Proofs about request authentication, for any number of handlers, any    *)
(* credentials and any bounds.                                             *)
(***************************************************************************)
EXTENDS AuthCache, TLAPS

-----------------------------------------------------------------------------
(* The inductive invariant, in the parts the code's argument has.          *)

\* A handler that carries a request has its credential and its own allocation.
HandlerInv ==
    \A r \in Request :
        /\ pc[r] # "idle" => token[r] \in Token /\ creds[r] \in 1..served
        /\ pc[r] = "expiry" => token[r] \in Jwt
        /\ pc[r] = "basic" => token[r] \in Basic

\* Rounds of the cron end one by one, in the order they start.
CronInv ==
    /\ cronPc = "sweep" => started = ended + 1
    /\ cronPc # "sweep" => started = ended

\* What Range is not bound to visit any more was stored during the round.
SweepInv ==
    /\ NoEntryOutlivesSweep
    /\ cronPc = "sweep" => \A t \in jwtUsers \ sweepTodo : storedAt[t] >= started

\* Handlers never share an allocation, nor does one share it with the entries of
\* the map before it has stored its own.
AddressInv ==
    /\ \A e \in basicUsers : e.key \in 1..served
    /\ \A r \in Request : pc[r] \in {"basic", "jwt", "expiry", "upstream", "answered"}
          => \A e \in basicUsers : e.key # creds[r]
    /\ \A r, q \in Request :
          r # q /\ pc[r] # "idle" /\ pc[q] # "idle" => creds[r] # creds[q]

\* An answer with the host's organization was given of the token it is used for.
AnswerInv ==
    /\ ValidHasHostsOrg
    /\ \A r \in Request : pc[r] = "answered" /\ SameOrg(r) =>
                            <<token[r], hostOrg>> \in answered

IInv == TypeOK /\ HandlerInv /\ CronInv /\ SweepInv /\ AddressInv /\ AnswerInv

-----------------------------------------------------------------------------
LEMMA InitIInv == Init => IInv
<1> SUFFICES ASSUME Init
             PROVE  IInv
  OBVIOUS
<1> USE AuthAssumption DEF AuthAssumption, Init
<1>1. TypeOK
  BY DEF TypeOK, Entries, Answers
<1>2. HandlerInv /\ CronInv /\ AddressInv
  BY DEF HandlerInv, CronInv, AddressInv
<1>3. SweepInv /\ AnswerInv
  BY DEF SweepInv, NoEntryOutlivesSweep, AnswerInv, ValidHasHostsOrg, SameOrg
<1>4. QED
  BY <1>1, <1>2, <1>3 DEF IInv

LEMMA ArriveIInv ==
    ASSUME IInv, NEW r \in Request, NEW t \in Token, Arrive(r, t)
    PROVE  IInv'
<1> USE AuthAssumption DEF AuthAssumption, Arrive, mapVars, cronVars, envVars, IInv
<1>1. TypeOK'
  BY DEF TypeOK
<1>2. HandlerInv'
  BY DEF TypeOK, HandlerInv, Token
<1>3. CronInv' /\ SweepInv'
  BY DEF CronInv, SweepInv, NoEntryOutlivesSweep
<1>4. AddressInv'
  <2>1. creds' = [creds EXCEPT ![r] = served + 1] /\ served' = served + 1
    OBVIOUS
  <2>2. \A q \in Request \ {r} : pc'[q] = pc[q] /\ creds'[q] = creds[q]
    BY DEF TypeOK
  <2>3. creds'[r] = served + 1 /\ served \in Nat
    BY <2>1 DEF TypeOK
  <2>4. QED
    BY <2>1, <2>2, <2>3 DEF AddressInv, HandlerInv, TypeOK
<1>5. AnswerInv'
  BY DEF AnswerInv, ValidHasHostsOrg, SameOrg, TypeOK
<1>6. QED
  BY <1>1, <1>2, <1>3, <1>4, <1>5 DEF IInv

LEMMA BasicLookupIInv ==
    ASSUME IInv, NEW r \in Request, BasicLookup(r)
    PROVE  IInv'
<1> USE DEF BasicLookup, mapVars, cronVars, envVars, IInv
<1>m. pc[r] = "basic" /\ pc' = [pc EXCEPT ![r] = "upstream"]
  BY DEF BasicFound, AddressInv
<1>1. TypeOK' /\ HandlerInv'
  BY <1>m DEF TypeOK, HandlerInv
<1>2. CronInv' /\ SweepInv'
  BY DEF CronInv, SweepInv, NoEntryOutlivesSweep
<1>3. AddressInv' /\ AnswerInv'
  BY <1>m DEF AddressInv, AnswerInv, ValidHasHostsOrg, SameOrg, TypeOK
<1>4. QED
  BY <1>1, <1>2, <1>3 DEF IInv

LEMMA JwtLookupIInv ==
    ASSUME IInv, NEW r \in Request, JwtLookup(r)
    PROVE  IInv'
<1> USE DEF JwtLookup, mapVars, cronVars, envVars, IInv
<1>1. TypeOK' /\ HandlerInv'
  BY DEF TypeOK, HandlerInv
<1>2. CronInv' /\ SweepInv'
  BY DEF CronInv, SweepInv, NoEntryOutlivesSweep
<1>3. AddressInv' /\ AnswerInv'
  BY DEF AddressInv, AnswerInv, ValidHasHostsOrg, SameOrg, TypeOK
<1>4. QED
  BY <1>1, <1>2, <1>3 DEF IInv

LEMMA JwtExpiryIInv ==
    ASSUME IInv, NEW r \in Request, JwtExpiry(r)
    PROVE  IInv'
<1> USE DEF JwtExpiry, envVars, IInv
<1>1. TypeOK' /\ HandlerInv'
  BY DEF TypeOK, HandlerInv
<1>2. CronInv' /\ SweepInv'
  BY DEF CronInv, SweepInv, NoEntryOutlivesSweep
<1>3. AddressInv' /\ AnswerInv'
  BY DEF AddressInv, AnswerInv, ValidHasHostsOrg, SameOrg, TypeOK
<1>4. QED
  BY <1>1, <1>2, <1>3 DEF IInv

LEMMA UpstreamIInv ==
    ASSUME IInv, NEW r \in Request, NEW a \in Answers, Upstream(r, a)
    PROVE  IInv'
<1> USE DEF Upstream, mapVars, cronVars, envVars, IInv
<1>1. TypeOK' /\ HandlerInv'
  BY DEF TypeOK, HandlerInv, Answers
<1>2. CronInv' /\ SweepInv'
  BY DEF CronInv, SweepInv, NoEntryOutlivesSweep
<1>3. AddressInv'
  BY DEF AddressInv, TypeOK
<1>4. AnswerInv'
  <2>1. hostOrg # NoAnswer /\ hostOrg' = hostOrg
    BY AuthAssumption DEF AuthAssumption, TypeOK, OrgID, NoOrg, NoAnswer
  <2>2. \A q \in Request \ {r} : pc'[q] = pc[q] /\ token'[q] = token[q] /\ answer'[q] = answer[q]
    BY DEF TypeOK
  <2>3. pc'[r] = "answered" /\ token'[r] = token[r] /\ answer'[r] = a
    BY DEF TypeOK
  <2>4. answered \subseteq answered' /\ (a = hostOrg => <<token[r], hostOrg>> \in answered')
    BY <2>1
  <2>5. QED
    BY <2>1, <2>2, <2>3, <2>4 DEF AnswerInv, ValidHasHostsOrg, SameOrg
<1>5. QED
  BY <1>1, <1>2, <1>3, <1>4 DEF IInv

LEMMA ConcludeIInv ==
    ASSUME IInv, NEW r \in Request, Conclude(r)
    PROVE  IInv'
<1> USE DEF Conclude, mapVars, cronVars, envVars, IInv
<1>t. /\ creds[r] \in 1..served /\ token[r] \in Token /\ served \in 0..MaxRequests
      /\ pc' = [pc EXCEPT ![r] = IF SameOrg(r) THEN "valid" ELSE "invalid"]
  BY DEF HandlerInv, TypeOK
<1>1. CASE SameOrg(r) /\ token[r] \in Basic
  <2>1. basicUsers' = basicUsers \cup {[key |-> creds[r], cred |-> token[r]]}
        /\ UNCHANGED <<jwtUsers, storedAt>>
    BY <1>1
  <2>2. TypeOK' /\ HandlerInv'
    BY <2>1, <1>1, <1>t, AuthAssumption DEF AuthAssumption, TypeOK, HandlerInv, Entries
  <2>3. CronInv' /\ SweepInv'
    BY <2>1 DEF CronInv, SweepInv, NoEntryOutlivesSweep
  <2>4. AddressInv'
    BY <2>1, <1>t DEF AddressInv, TypeOK
  <2>5. AnswerInv'
    BY <2>1, <1>1, <1>t DEF AnswerInv, ValidHasHostsOrg, SameOrg, TypeOK
  <2>6. QED
    BY <2>2, <2>3, <2>4, <2>5 DEF IInv
<1>2. CASE SameOrg(r) /\ token[r] \notin Basic
  <2>1. /\ jwtUsers' = jwtUsers \cup {token[r]}
        /\ storedAt' = [storedAt EXCEPT ![token[r]] = started]
        /\ UNCHANGED basicUsers
    BY <1>2
  <2>2. token[r] \in Jwt
    BY <1>2, <1>t DEF Token
  <2>3. TypeOK' /\ HandlerInv'
    BY <2>1, <2>2, <1>t DEF TypeOK, HandlerInv
  <2>4. CronInv' /\ SweepInv'
    BY <2>1, <2>2 DEF CronInv, SweepInv, NoEntryOutlivesSweep, TypeOK
  <2>5. AddressInv'
    BY <2>1, <1>t DEF AddressInv, TypeOK
  <2>6. AnswerInv'
    BY <2>1, <1>2, <1>t DEF AnswerInv, ValidHasHostsOrg, SameOrg, TypeOK
  <2>7. QED
    BY <2>3, <2>4, <2>5, <2>6 DEF IInv
<1>3. CASE ~SameOrg(r)
  <2>1. UNCHANGED mapVars
    BY <1>3
  <2>2. TypeOK' /\ HandlerInv'
    BY <2>1, <1>t DEF TypeOK, HandlerInv
  <2>3. CronInv' /\ SweepInv'
    BY <2>1 DEF CronInv, SweepInv, NoEntryOutlivesSweep
  <2>4. AddressInv' /\ AnswerInv'
    BY <2>1, <1>3, <1>t DEF AddressInv, AnswerInv, ValidHasHostsOrg, SameOrg, TypeOK
  <2>5. QED
    BY <2>2, <2>3, <2>4 DEF IInv
<1>4. QED
  BY <1>1, <1>2, <1>3

LEMMA ReplyIInv ==
    ASSUME IInv, NEW r \in Request, Reply(r)
    PROVE  IInv'
<1> USE DEF Reply, mapVars, cronVars, envVars, IInv
<1>1. TypeOK' /\ HandlerInv'
  BY AuthAssumption DEF AuthAssumption, TypeOK, HandlerInv, Answers
<1>2. CronInv' /\ SweepInv'
  BY DEF CronInv, SweepInv, NoEntryOutlivesSweep
<1>3. AddressInv' /\ AnswerInv'
  BY DEF AddressInv, AnswerInv, ValidHasHostsOrg, SameOrg, TypeOK
<1>4. QED
  BY <1>1, <1>2, <1>3 DEF IInv

LEMMA CronIInv ==
    ASSUME IInv, Cron
    PROVE  IInv'
<1> USE AuthAssumption DEF AuthAssumption, mapVars, reqVars, envVars, IInv
<1>f. UNCHANGED <<basicUsers, reqVars, envVars, storedAt>> /\ jwtUsers' \subseteq jwtUsers
  BY DEF Cron, CronStop, SweepBegin, SweepVisit, SweepEnd, CronWakes
<1>1. TypeOK'
  BY <1>f DEF TypeOK, CronInv, Cron, CronStop, SweepBegin, SweepVisit, SweepEnd, CronWakes
<1>2. HandlerInv' /\ AddressInv' /\ AnswerInv'
  BY <1>f DEF HandlerInv, AddressInv, AnswerInv, ValidHasHostsOrg, SameOrg
<1>3. CronInv'
  BY DEF CronInv, TypeOK, Cron, CronStop, SweepBegin, SweepVisit, SweepEnd, CronWakes
<1>4. SweepInv'
  <2>1. CASE CronStop \/ CronWakes
    BY <2>1 DEF CronStop, CronWakes, SweepInv, NoEntryOutlivesSweep
  <2>2. CASE SweepBegin
    BY <2>2 DEF SweepBegin, SweepInv, NoEntryOutlivesSweep
  <2>3. ASSUME NEW t \in Jwt, SweepVisit(t)
        PROVE  SweepInv'
    BY <2>3 DEF SweepVisit, SweepInv, NoEntryOutlivesSweep
  <2>4. CASE SweepEnd
    BY <2>4 DEF SweepEnd, SweepInv, CronInv, NoEntryOutlivesSweep
  <2>5. QED
    BY <2>1, <2>2, <2>3, <2>4 DEF Cron
<1>5. QED
  BY <1>1, <1>2, <1>3, <1>4 DEF IInv

LEMMA OutsideIInv ==
    ASSUME IInv,
           \/ Stop \/ UNCHANGED vars
           \/ \E t \in Token : Expire(t) \/ \E a \in OrgID : AccountChange(t, a)
    PROVE  IInv'
<1> USE DEF mapVars, reqVars, cronVars, envVars, vars, IInv
<1>f. UNCHANGED <<hostOrg, mapVars, reqVars, cronPc, sweepTodo, started, ended>>
  BY DEF Stop, Expire, AccountChange
<1>1. TypeOK'
  BY <1>f, AuthAssumption DEF AuthAssumption, TypeOK, Stop, Expire, AccountChange
<1>2. HandlerInv' /\ CronInv' /\ SweepInv'
  BY <1>f DEF HandlerInv, CronInv, SweepInv, NoEntryOutlivesSweep
<1>3. AddressInv' /\ AnswerInv'
  BY <1>f DEF AddressInv, AnswerInv, ValidHasHostsOrg, SameOrg
<1>4. QED
  BY <1>1, <1>2, <1>3 DEF IInv

LEMMA StepIInv == IInv /\ [Next]_vars => IInv'
<1> SUFFICES ASSUME IInv, [Next]_vars
             PROVE  IInv'
  OBVIOUS
<1>1. ASSUME NEW r \in Request, Handle(r)
      PROVE  IInv'
  BY <1>1, BasicLookupIInv, JwtLookupIInv, JwtExpiryIInv, UpstreamIInv, ConcludeIInv,
     ReplyIInv DEF Handle
<1>2. QED
  BY <1>1, ArriveIInv, CronIInv, OutsideIInv DEF Next, Quiet

\* The inductive invariant holds in every reachable state.
LEMMA Inductive == Spec => []IInv
  BY InitIInv, StepIInv, PTL DEF Spec

\* Every variable of the authentication keeps the type the code gives it.
THEOREM AuthTypeCorrect == Spec => []TypeOK
<1>1. IInv => TypeOK
  BY DEF IInv
<1>2. QED
  BY <1>1, Inductive, PTL

\* main.go:36: an answer in the JWT map was stored after the last finished round
\* of the cron had begun, whatever requests store and delete during the round.
THEOREM NoEntryOutlivesSweepHolds == Spec => []NoEntryOutlivesSweep
<1>1. IInv => NoEntryOutlivesSweep
  BY DEF IInv, SweepInv
<1>2. QED
  BY <1>1, Inductive, PTL

\* IsValidUser lets a request through only on an answer the account service gave of
\* its very token with the host's organization in it, obtained now or found in one of
\* the two maps; nothing is assumed of that organization, which may be 0.
THEOREM ValidHasHostsOrgHolds == Spec => []ValidHasHostsOrg
<1>1. IInv => ValidHasHostsOrg
  BY DEF IInv, AnswerInv
<1>2. QED
  BY <1>1, Inductive, PTL

\* auth.go:70 never finds an entry of AuthenticatedUsers: the key it looks up is
\* the address of a struct allocated for this request, and each stored key is
\* the address of another.
THEOREM BasicNeverFound ==
    Spec => [](\A r \in Request : pc[r] = "basic" => ~BasicFound(r))
<1>1. IInv => \A r \in Request : pc[r] = "basic" => ~BasicFound(r)
  BY DEF IInv, AddressInv, BasicFound
<1>2. QED
  BY <1>1, Inductive, PTL
=============================================================================
