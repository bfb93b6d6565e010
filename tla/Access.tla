------------------------------- MODULE Access -------------------------------
(***************************************************************************)
(* Who may call: API keys, tenants and the sliding windows of the rate     *)
(* limiter (authenticate_bearer, src/server/auth.py; RateLimiter,          *)
(* src/server/rate_limit.py; ApiKeyRepo, TenantRepo), and the operators    *)
(* who issue and revoke the keys (src/server/admin/router.py with          *)
(* src/server/security/jwt_tokens.py and OperatorRepo).                    *)
(*                                                                         *)
(* Every gateway scores the entries of a window by its own clock.  Time is *)
(* kept as ages, so there is no bound on it: a tick is a fraction of a     *)
(* second, 1/Second.  Hashes and signatures are taken to be unforgeable.   *)
(***************************************************************************)
EXTENDS Integers, FiniteSets, FiniteSetsExt

CONSTANTS
    ApiKeys,      \* keys of one tenant that may be issued
    KeyLimits,    \* rate_limit_per_minute an operator may set (positive by the table's CHECK)
    TenantLimit,  \* tenant_rate_limit_per_minute
    Window,       \* 60 s, in ticks
    Second,       \* ticks of a second
    Requests,     \* requests that are served at once
    ClockOf,      \* the clock of the gateway each request is at
    TokenTtl      \* ACCESS_TTL_SECONDS, in ticks

Offsets == {ClockOf[r] : r \in Requests}

Tenant == "the tenant"
Buckets == ApiKeys \cup {Tenant}

ASSUME AccessAssumption ==
    /\ ApiKeys # {}
    /\ Tenant \notin ApiKeys
    /\ Requests # {}
    /\ KeyLimits \subseteq Nat \ {0}
    /\ TenantLimit \in Nat \ {0}
    /\ Second \in Nat \ {0}
    /\ Window \in Nat \ {0}
    /\ DOMAIN ClockOf = Requests
    /\ Offsets \subseteq 0..Window
    /\ TokenTtl \in Nat \ {0}

VARIABLES
    apiKey,   \* each key: its row
    tenant,   \* the status of the tenant, "none" before it is created
    window,   \* the sorted sets, with ages by Redis' own clock for scores
    passed,   \* history: how long ago the window let requests through
    request,  \* each request
    operator, \* "enabled" or "disabled"
    token     \* the age of the operator's access token, TokenTtl: none or expired

accessVars == <<apiKey, tenant, window, passed, request, operator, token>>

\* A member of a sorted set: the age of its score, and what makes it unique.
Entry == [age : -Window .. Window, n : Nat]

TenantStatus == {"none", "active", "suspended"}
KeyRow == [state : {"none", "active", "revoked"}, limit : KeyLimits \cup {1}]
ApiRequest == [at : {"idle", "lookup", "key", "tenant"},
            key : ApiKeys,
            limit : KeyLimits \cup {1},   \* as the row said
            entitled : BOOLEAN,   \* history: key and tenant were both active at some moment
            answer : {"none", "ok", "refused"}]

AccessTypeOK ==
    /\ apiKey \in [ApiKeys -> KeyRow]
    /\ tenant \in TenantStatus
    /\ window \in [Buckets -> SUBSET Entry]
    /\ passed \in [Buckets -> SUBSET Entry]
    /\ request \in [Requests -> ApiRequest]
    /\ operator \in {"enabled", "disabled"}
    /\ token \in 0..TokenTtl

NoRequest == [at |-> "idle", key |-> CHOOSE k \in ApiKeys : TRUE, limit |-> 1,
              entitled |-> FALSE, answer |-> "none"]

AccessInit ==
    /\ apiKey = [k \in ApiKeys |-> [state |-> "none", limit |-> 1]]
    /\ tenant = "none"
    /\ window = [b \in Buckets |-> {}]
    /\ passed = [b \in Buckets |-> {}]
    /\ request = [r \in Requests |-> NoRequest]
    /\ operator = "enabled"
    /\ token = TokenTtl

-----------------------------------------------------------------------------
(* The sliding window, SLIDING_WINDOW_LUA.                                 *)

\* What is left of a window by a clock that is off by o.
Current(b, o) == {e \in window[b] : e.age + o < Window}

\* Mutant of Refuses: one more than the limit.
RefusesLate(b, limit, o) == Cardinality(Current(b, o)) > limit

Refuses(b, limit, o) == Cardinality(Current(b, o)) >= limit

\* retry_ms: until the oldest entry leaves.
retry_after(b, o) == Max({1, Window - (Max({e.age : e \in Current(b, o)}) + o)})

\* The header: seconds.
Retry_After(b, o) == Max({1, retry_after(b, o) \div Second + 1})

\* ZADD of a new member.
With(entries, age) ==
    LET new(n) == [age |-> age, n |-> n]
    IN  entries \cup {new(CHOOSE n \in 0..Cardinality(entries) : new(n) \notin entries)}

\* The script is one step of Redis: the old entries go, and with room left the
\* request is entered.
Enter(b, limit, o) ==
    /\ window' = [window EXCEPT ![b] =
           IF Refuses(b, limit, o) THEN Current(b, o) ELSE With(Current(b, o), -o)]
    /\ passed' = IF Refuses(b, limit, o) THEN passed ELSE [passed EXCEPT ![b] = With(@, 0)]

-----------------------------------------------------------------------------
(* authenticate_bearer.                                                    *)

\* Mutant of Active: revoked_at is not looked at.
ActiveIfKnown(k) == apiKey[k].state # "none" /\ tenant = "active"

Active(k) == apiKey[k].state = "active" /\ tenant = "active"

\* History: is the key entitled now?  (Not a step of the code.)
EntitledNow(k) == apiKey[k].state = "active" /\ tenant = "active"

\* 401, 403, 429 and 500 are told apart by the actions only.
Reply(r, a) == request' = [request EXCEPT ![r].at = "idle", ![r].limit = 1, ![r].answer = a,
                                          ![r].entitled = a = "ok" /\ @]

\* A request arrives with a well-formed key.
RequestArrives(r) ==
    /\ request[r].at = "idle"
    /\ \E k \in ApiKeys :
          request' = [request EXCEPT ![r] = [NoRequest EXCEPT !.at = "lookup", !.key = k,
                                                 !.entitled = EntitledNow(k)]]
    /\ UNCHANGED <<apiKey, tenant, window, passed, operator, token>>

\* lookup_active_by_prefix, verify_secret, the status of the tenant, the scopes:
\* one read of the database; the secret or the scope may be wrong.
Lookup(r) ==
    LET k == request[r].key IN
    /\ request[r].at = "lookup"
    /\ \/ Reply(r, "refused")
       \/ /\ Active(k)
          /\ request' = [request EXCEPT ![r].at = "key", ![r].limit = apiKey[k].limit]
    /\ UNCHANGED <<apiKey, tenant, window, passed, operator, token>>

\* check_api_key.
CheckKey(r) ==
    LET k == request[r].key
        o == ClockOf[r] IN
    /\ request[r].at = "key"
    /\ Enter(k, request[r].limit, o)
    /\ IF Refuses(k, request[r].limit, o) THEN Reply(r, "refused")
       ELSE request' = [request EXCEPT ![r].at = "tenant"]
    /\ UNCHANGED <<apiKey, tenant, operator, token>>

\* check_tenant, and with that last_used and the audit entry.  A refusal here
\* does not give the entry in the key's window back.
CheckTenant(r) ==
    LET o == ClockOf[r] IN
    /\ request[r].at = "tenant"
    /\ Enter(Tenant, TenantLimit, o)
    /\ Reply(r, IF Refuses(Tenant, TenantLimit, o) THEN "refused" ELSE "ok")
    /\ UNCHANGED <<apiKey, tenant, operator, token>>

-----------------------------------------------------------------------------
(* Operators.                                                              *)

\* issue_operator_jwt.  The refresh token it makes as well is accepted nowhere.
IssueToken == token' = 0

\* decode_operator_jwt: signed, not expired, an access token.
TokenGood == token < TokenTtl

\* login: a token, unless the operator is disabled.  (logout deletes the cookie
\* and leaves the token good.)
Login ==
    /\ operator = "enabled"
    /\ IssueToken
    /\ UNCHANGED <<apiKey, tenant, window, passed, request, operator>>

\* _current_operator: the token is good and the operator is not disabled.
CurrentOperator == TokenGood /\ operator = "enabled"

\* create_tenant; a slug that is taken is answered 409.
CreateTenant ==
    /\ CurrentOperator
    /\ tenant = "none"
    /\ tenant' = "active"
    /\ UNCHANGED <<apiKey, window, passed, request, operator, token>>

\* ApiKeyRepo.create and revoke: a row is never deleted, and one that is revoked
\* is left alone.
NewKey(k, n) ==
    /\ apiKey[k].state = "none"
    /\ apiKey' = [apiKey EXCEPT ![k] = [state |-> "active", limit |-> n]]

Revoked(k) ==
    /\ apiKey[k].state = "active"
    /\ apiKey' = [apiKey EXCEPT ![k].state = "revoked"]

\* create_api_key: a fresh key, also for a suspended tenant.
CreateKey ==
    /\ CurrentOperator
    /\ tenant # "none"
    /\ \E k \in ApiKeys, n \in KeyLimits :
          /\ NewKey(k, n)
          /\ request' = [r \in Requests |-> [request[r] EXCEPT !.entitled =
                @ \/ (request[r].at # "idle" /\ request[r].key = k /\ tenant = "active")]]
    /\ UNCHANGED <<tenant, window, passed, operator, token>>

\* revoke_api_key.
RevokeKey ==
    /\ CurrentOperator
    /\ \E k \in ApiKeys : Revoked(k)
    /\ UNCHANGED <<tenant, window, passed, request, operator, token>>

\* TenantRepo.suspend and reactivate.
SetTenantStatus ==
    /\ tenant # "none"
    /\ tenant' \in {"active", "suspended"} \ {tenant}
    /\ request' = [r \in Requests |-> [request[r] EXCEPT !.entitled =
           @ \/ (request[r].at # "idle" /\ tenant' = "active"
                 /\ apiKey[request[r].key].state = "active")]]
    /\ UNCHANGED <<apiKey, window, passed, operator, token>>

\* An operator is disabled in the database (disabled_at).
DisableOperator ==
    /\ operator' = "disabled"
    /\ UNCHANGED <<apiKey, tenant, window, passed, request, token>>

-----------------------------------------------------------------------------

Aging(entries) == {e \in {[e EXCEPT !.age = @ + 1] : e \in entries} : e.age < Window}

\* A tick.  PEXPIRE takes a window away once nothing was entered for its length;
\* what no clock counts any more is dropped here already.
TimePasses ==
    /\ passed' = [b \in Buckets |-> Aging(passed[b])]
    /\ window' = [b \in Buckets |-> IF passed'[b] = {} THEN {} ELSE Aging(window[b])]
    /\ token' = Min({token + 1, TokenTtl})
    /\ UNCHANGED <<apiKey, tenant, request, operator>>

AccessNext ==
    \/ \E r \in Requests : RequestArrives(r) \/ Lookup(r) \/ CheckKey(r) \/ CheckTenant(r)
    \/ Login \/ CreateTenant \/ CreateKey \/ RevokeKey \/ SetTenantStatus \/ DisableOperator
    \/ TimePasses

AccessSpec == AccessInit /\ [][AccessNext]_accessVars

-----------------------------------------------------------------------------
(* Properties.                                                             *)

Drift == Max(Offsets) - Min(Offsets)

Limit(b) == IF b = Tenant THEN TenantLimit ELSE apiKey[b].limit

\* Several requests at once, at gateways whose clocks differ: in any stretch of
\* real time a drift shorter than the window, a key and its tenant are let
\* through at most as often as their limits say.
RateBounded ==
    \A b \in Buckets :
        Cardinality({e \in passed[b] : e.age < Window - Drift}) <= Limit(b)

\* A client that waits as long as Retry-After says finds room, if nobody else
\* took it: the conversion to whole seconds never sends it back too early.
RetryAfterSuffices ==
    \A b \in Buckets, o \in Offsets :
        Refuses(b, Limit(b), o) =>
            Cardinality({e \in window[b] : e.age + o + Retry_After(b, o) * Second < Window})
                < Limit(b)

\* A request that passed had, at some moment since it arrived, a key that was
\* not revoked and a tenant that was active: a key that was revoked before the
\* request came never passes, whatever happens to the tenant meanwhile.
OnlyEntitledPass == \A r \in Requests : request[r].answer = "ok" => request[r].entitled

\* The windows of the rate limiter, in every state: what they let through is
\* bounded, and what they tell a client to wait is enough (RateLimiter, auth.py).
RatesSound == AccessTypeOK /\ RateBounded /\ RetryAfterSuffices
=============================================================================
