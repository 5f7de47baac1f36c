------------------------------ MODULE AuthCache ------------------------------
(***************************************************************************)
(* Request authentication (services/auth.go): the HTTP middleware asks the *)
(* account service about a credential unless a cache already holds its     *)
(* answer.  Answers for JWTs are dropped when a request finds the token    *)
(* expired and by a cron that empties the map every 30 minutes.  Requests  *)
(* and the cron run concurrently; each operation on a sync.Map is atomic,  *)
(* and what lies between two of them is not.                               *)
(***************************************************************************)
EXTENDS Integers, FiniteSets

CONSTANTS
    Request,          \* handler goroutines
    Basic, Jwt,       \* credentials, by scheme
    Org,              \* organizations of the account service
    NoToken,          \* what an idle handler carries
    MaxRequests,      \* bound: requests served
    MaxSweeps,        \* bound: rounds of the cron
    MaxChanges        \* bound: changes at the account service, expiries

Token == Basic \cup Jwt

\* OrgID as it is decoded.  No handler looks at an answer's status, and the body of
\* a refusal has no organization: it decodes to 0.
NoOrg == 0

OrgID == Org \cup {NoOrg}

ASSUME AuthAssumption ==
    /\ Basic \cap Jwt = {}
    /\ NoToken \notin Token /\ Org \subseteq Nat \ {0}
    /\ MaxRequests \in Nat /\ MaxSweeps \in Nat /\ MaxChanges \in Nat

VARIABLES
    hostOrg,          \* common.UserInfo.Organization.OrgID
    account,          \* the account service's present answer for a token
    expired,          \* tokens whose exp claim has passed
    changes,          \* how much of MaxChanges is used
    basicUsers,       \* AuthenticatedUsers: its keys are *credentials
    jwtUsers,         \* AuthenticatedJwtUsers: its keys
    served,           \* requests that have arrived
    pc, token,        \* per handler: where it is, the credential it carries
    creds,            \* per handler: the address of its credentials struct
    answer,           \* per handler: the account service's answer
    stopChan, cronPc,
    sweepTodo,        \* keys the running Range is bound to visit
    started, ended,   \* rounds of the cron started and ended
    storedAt,         \* history: `started` when the entry of a JWT was stored
    answered          \* history: what the account service has answered of a token

mapVars  == <<basicUsers, jwtUsers, storedAt>>
reqVars  == <<served, pc, token, creds, answer, answered>>
cronVars == <<stopChan, cronPc, sweepTodo, started, ended>>
envVars  == <<hostOrg, account, expired, changes>>
vars == <<mapVars, reqVars, cronVars, envVars>>

\* The call, or the decoding of its answer, has failed.
NoAnswer == -1

Answers == OrgID \cup {NoAnswer}

\* An entry's key is an address, distinct for each allocation.
Entries == [key : 1..MaxRequests, cred : Basic]

-----------------------------------------------------------------------------
Init ==
    /\ hostOrg \in OrgID
    /\ account \in [Token -> OrgID]
    /\ expired = {} /\ changes = 0
    /\ basicUsers = {} /\ jwtUsers = {}
    /\ served = 0
    /\ pc = [r \in Request |-> "idle"]
    /\ token = [r \in Request |-> NoToken]
    /\ creds = [r \in Request |-> 0]
    /\ answer = [r \in Request |-> NoAnswer]
    /\ stopChan = "open" /\ cronPc = "check" /\ sweepTodo = {}
    /\ started = 0 /\ ended = 0
    /\ storedAt = [t \in Jwt |-> 0]
    /\ answered = {}

-----------------------------------------------------------------------------
(* The outside world: accounts change, tokens expire.                      *)

AccountChange(t, a) ==
    /\ changes < MaxChanges
    /\ account[t] # a
    /\ account' = [account EXCEPT ![t] = a]
    /\ changes' = changes + 1
    /\ UNCHANGED <<hostOrg, expired, mapVars, reqVars, cronVars>>

Expire(t) ==
    /\ changes < MaxChanges
    /\ t \in Jwt \ expired
    /\ expired' = expired \cup {t}
    /\ changes' = changes + 1
    /\ UNCHANGED <<hostOrg, account, mapVars, reqVars, cronVars>>

Stop ==
    /\ stopChan = "open"
    /\ stopChan' = "closed"
    /\ UNCHANGED <<mapVars, reqVars, cronPc, sweepTodo, started, ended, envVars>>

-----------------------------------------------------------------------------
(* A request.                                                              *)

\* IsValidUser picks the scheme; BasicAuthentication allocates a credentials.
Arrive(r, t) ==
    /\ pc[r] = "idle" /\ served < MaxRequests
    /\ served' = served + 1
    /\ token' = [token EXCEPT ![r] = t]
    /\ creds' = [creds EXCEPT ![r] = served']
    /\ pc' = [pc EXCEPT ![r] = IF t \in Basic THEN "basic" ELSE "jwt"]
    /\ UNCHANGED <<answer, answered, mapVars, cronVars, envVars>>

\* AuthenticatedUsers.Load(creds) compares addresses.
BasicFound(r) == \E e \in basicUsers : e.key = creds[r]

BasicLookup(r) ==
    /\ pc[r] = "basic"
    /\ pc' = [pc EXCEPT ![r] = IF BasicFound(r) THEN "valid" ELSE "upstream"]
    /\ UNCHANGED <<served, token, creds, answer, answered, mapVars, cronVars, envVars>>

JwtLookup(r) ==
    /\ pc[r] = "jwt"
    /\ pc' = [pc EXCEPT ![r] = IF token[r] \in jwtUsers THEN "expiry" ELSE "upstream"]
    /\ UNCHANGED <<served, token, creds, answer, answered, mapVars, cronVars, envVars>>

\* The loaded answer stands unless the token has expired, even if the entry has
\* been deleted since; otherwise the key is deleted, whatever it holds by now.
JwtExpiry(r) ==
    /\ pc[r] = "expiry"
    /\ IF token[r] \notin expired
       THEN /\ pc' = [pc EXCEPT ![r] = "valid"]
            /\ UNCHANGED <<jwtUsers, sweepTodo>>
       ELSE /\ pc' = [pc EXCEPT ![r] = "upstream"]
            /\ jwtUsers' = jwtUsers \ {token[r]}
            /\ sweepTodo' = sweepTodo \ {token[r]}
    /\ UNCHANGED <<served, token, creds, answer, answered, basicUsers, storedAt,
                   stopChan, cronPc, started, ended, envVars>>

\* The account service answers, or the request to it fails.
Upstream(r, a) ==
    /\ pc[r] = "upstream"
    /\ a \in {account[token[r]], NoAnswer}
    /\ answer' = [answer EXCEPT ![r] = a]
    /\ answered' = IF a = NoAnswer THEN answered ELSE answered \cup {<<token[r], a>>}
    /\ pc' = [pc EXCEPT ![r] = "answered"]
    /\ UNCHANGED <<served, token, creds, mapVars, cronVars, envVars>>

\* The organizations are compared, also when both are 0: main.go:65 takes any answer
\* that decodes, so a binary whose own key was refused runs on with 0.
SameOrg(r) == answer[r] = hostOrg

\* Mutant of Conclude: both schemes store in the map of JWTs.
ConcludeOneMap(r) ==
    /\ pc[r] = "answered"
    /\ IF SameOrg(r)
       THEN /\ pc' = [pc EXCEPT ![r] = "valid"]
            /\ jwtUsers' = jwtUsers \cup {token[r]}
            /\ UNCHANGED <<basicUsers, storedAt>>
       ELSE pc' = [pc EXCEPT ![r] = "invalid"] /\ UNCHANGED mapVars
    /\ UNCHANGED <<served, token, creds, answer, answered, cronVars, envVars>>

\* Mutant of Conclude: the organization is not compared.
ConcludeAnyOrg(r) ==
    /\ pc[r] = "answered"
    /\ pc' = [pc EXCEPT ![r] = IF answer[r] = NoAnswer THEN "invalid" ELSE "valid"]
    /\ UNCHANGED <<served, token, creds, answer, answered, mapVars, cronVars, envVars>>

\* Users of the host's organization are stored and accepted.
Conclude(r) ==
    /\ pc[r] = "answered"
    /\ IF SameOrg(r)
       THEN /\ pc' = [pc EXCEPT ![r] = "valid"]
            /\ IF token[r] \in Basic
               THEN /\ basicUsers' = basicUsers \cup
                                       {[key |-> creds[r], cred |-> token[r]]}
                    /\ UNCHANGED <<jwtUsers, storedAt>>
               ELSE /\ jwtUsers' = jwtUsers \cup {token[r]}
                    /\ storedAt' = [storedAt EXCEPT ![token[r]] = started]
                    /\ UNCHANGED basicUsers
       ELSE pc' = [pc EXCEPT ![r] = "invalid"] /\ UNCHANGED mapVars
    /\ UNCHANGED <<served, token, creds, answer, answered, cronVars, envVars>>

\* The middleware calls the handler or replies 401; the goroutine ends.
Reply(r) ==
    /\ pc[r] \in {"valid", "invalid"}
    /\ pc' = [pc EXCEPT ![r] = "idle"]
    /\ token' = [token EXCEPT ![r] = NoToken]
    /\ creds' = [creds EXCEPT ![r] = 0]
    /\ answer' = [answer EXCEPT ![r] = NoAnswer]
    /\ UNCHANGED <<served, answered, mapVars, cronVars, envVars>>

Handle(r) ==
    \/ BasicLookup(r) \/ JwtLookup(r) \/ JwtExpiry(r)
    \/ \E a \in Answers : Upstream(r, a)
    \/ Conclude(r) \/ Reply(r)

-----------------------------------------------------------------------------
(* ResetAuthenticatedJwtUsersCron.  Range visits every key present from its *)
(* start to its end and may visit one stored meanwhile.                    *)

CronStop ==
    /\ cronPc = "check" /\ stopChan = "closed"
    /\ cronPc' = "done"
    /\ UNCHANGED <<mapVars, reqVars, stopChan, sweepTodo, started, ended, envVars>>

SweepBegin ==
    /\ cronPc = "check" /\ stopChan = "open"
    /\ started < MaxSweeps
    /\ cronPc' = "sweep"
    /\ started' = started + 1
    /\ sweepTodo' = jwtUsers
    /\ UNCHANGED <<mapVars, reqVars, stopChan, ended, envVars>>

SweepVisit(t) ==
    /\ cronPc = "sweep" /\ t \in jwtUsers
    /\ jwtUsers' = jwtUsers \ {t}
    /\ sweepTodo' = sweepTodo \ {t}
    /\ UNCHANGED <<basicUsers, storedAt, reqVars, stopChan, cronPc, started,
                   ended, envVars>>

\* Mutant of SweepEnd: Range's callback returns false, which ends the round.
SweepEndEarly ==
    /\ cronPc = "sweep"
    /\ ended' = ended + 1
    /\ cronPc' = "sleep"
    /\ UNCHANGED <<mapVars, reqVars, stopChan, sweepTodo, started, envVars>>

SweepEnd ==
    /\ cronPc = "sweep" /\ sweepTodo = {}
    /\ ended' = ended + 1
    /\ cronPc' = "sleep"
    /\ UNCHANGED <<mapVars, reqVars, stopChan, sweepTodo, started, envVars>>

CronWakes ==
    /\ cronPc = "sleep"
    /\ cronPc' = "check"
    /\ UNCHANGED <<mapVars, reqVars, stopChan, sweepTodo, started, ended, envVars>>

Cron == CronStop \/ SweepBegin \/ (\E t \in Jwt : SweepVisit(t)) \/ SweepEnd \/ CronWakes

-----------------------------------------------------------------------------
\* All requests of the bound are answered and the cron has used up its rounds.
Quiet ==
    /\ served = MaxRequests /\ \A r \in Request : pc[r] = "idle"
    /\ cronPc \in {"check", "done"}
    /\ UNCHANGED vars

Next ==
    \/ \E r \in Request : Handle(r) \/ \E t \in Token : Arrive(r, t)
    \/ Cron
    \/ \E t \in Token : Expire(t) \/ \E a \in OrgID : AccountChange(t, a)
    \/ Stop
    \/ Quiet

Spec == Init /\ [][Next]_vars

-----------------------------------------------------------------------------
(* Properties.                                                             *)

\* Every variable ranges over the values the code can give it.
TypeOK ==
    /\ hostOrg \in OrgID /\ account \in [Token -> OrgID]
    /\ expired \in SUBSET Jwt /\ changes \in 0..MaxChanges
    /\ basicUsers \in SUBSET Entries /\ jwtUsers \in SUBSET Jwt
    /\ served \in 0..MaxRequests
    /\ pc \in [Request -> {"idle", "basic", "jwt", "expiry", "upstream",
                           "answered", "valid", "invalid"}]
    /\ token \in [Request -> Token \cup {NoToken}]
    /\ creds \in [Request -> 0..MaxRequests]
    /\ answer \in [Request -> Answers]
    /\ stopChan \in {"open", "closed"}
    /\ cronPc \in {"check", "sweep", "sleep", "done"}
    /\ sweepTodo \in SUBSET Jwt
    /\ started \in 0..MaxSweeps /\ ended \in 0..MaxSweeps
    /\ storedAt \in [Jwt -> Nat]
    /\ answered \in SUBSET (Token \X OrgID)

\* main.go:36: the JWT map is reset every 30 minutes.  An answer in the map was
\* stored after the last finished round had begun: none outlives a whole round,
\* although requests store and delete while Range is running.
NoEntryOutlivesSweep == \A t \in jwtUsers : storedAt[t] >= ended

\* A request is let through only on an answer the account service gave of its very
\* token, with the host's organization in it: obtained by this request, or by
\* whichever handler filled the entry that was found, in whatever order requests,
\* expiries and the cron empty and fill the maps.  (On a host whose own key was
\* refused that is a refusal: 0 is then the organization all are compared with.)
ValidHasHostsOrg ==
    /\ \A r \in Request :
          pc[r] \in {"expiry", "valid"} => <<token[r], hostOrg>> \in answered
    /\ \A t \in jwtUsers : <<t, hostOrg>> \in answered
    /\ \A e \in basicUsers : <<e.cred, hostOrg>> \in answered

\* auth.go:16: a user found authenticated is not authenticated again.
BasicNotReauthenticated ==
    [][\A r \in Request :
          (pc[r] = "basic" /\ \E e \in basicUsers : e.cred = token[r])
              => pc'[r] # "upstream"]_vars
=============================================================================
