----------------------------- MODULE Admission -----------------------------
(***************************************************************************)
(* Admission of requests to the API of FeedPulse: AuthGuard resolves the    *)
(* tenant of a request, then RateLimitGuard bills it to a budget, a counter *)
(* in Redis with a window that starts at its first hit, or one in each      *)
(* replica when Redis cannot run the script. API keys are revoked and, by   *)
(* every migration run, seeded; one that is created has a hash that no      *)
(* request knew before. A window is kept as the ticks that are left of it.  *)
(***************************************************************************)
EXTENDS Integers, FiniteSets

CONSTANTS
    Replicas,     \* API processes
    MaxRequests,  \* bound: requests under way at once
    Keys,         \* API keys
    BootKey,      \* BOOTSTRAP_API_KEY
    Tenants,      \* tenants
    KeyTenant,    \* api_keys.tenant_id
    Peer,         \* the address that unauthenticated requests share
    NoCredential, \* a request without a usable credential
    Session,      \* a bearer token that is a JWT
    SessionTenant,\* the tenant of the Clerk principal
    Routes,       \* kinds of /api/ routes: public, default or write
    Providers,    \* values of AUTH_PROVIDER to start from
    Stores,       \* kinds of store to start from
    Limits,       \* requests per window of each policy; 0 disables
    Window,       \* ticks of RATE_LIMIT_TTL_SECONDS
    Faults,       \* kinds of failure that may happen
    MaxFaults     \* bound: how many failures may happen

Policies == {"default", "write"}
Requests == 1 .. MaxRequests
FaultKinds == {"store_error", "reply_lost", "redis_loss", "restart"}
NoTenant == Peer

\* tenant:<id> or ip:<address>
Scopes == Tenants \cup {Peer}
Budgets == Policies \X Scopes

\* A counter in Redis, or one in the memory of each replica.
Places == Replicas \cup {"redis"}

ASSUME AdmissionAssumption ==
    /\ KeyTenant \in [Keys -> Tenants] /\ SessionTenant \in Tenants /\ Peer \notin Tenants
    /\ BootKey \in Keys /\ IsFiniteSet(Replicas) /\ "redis" \notin Replicas
    /\ NoCredential \notin Keys /\ Session \notin Keys
    /\ Routes \subseteq {"public", "default", "write"}
    /\ Providers \subseteq {"api_key", "clerk", "clerk_api_key"} /\ Stores \subseteq {"redis", "memory"}
    /\ MaxRequests \in Nat /\ Limits \in [Policies -> Nat] /\ Window \in Nat \ {0}
    /\ Faults \subseteq FaultKinds /\ MaxFaults \in Nat

VARIABLES
    provider, store,  \* the configuration
    keys,             \* the api_keys table: none, active or revoked
    boot,             \* each replica: at a statement of the boot, or up
    counters,         \* hits and ticks left of each counter
    requests,         \* the requests under way
    admitted,         \* for the properties: requests admitted per budget in each of the last Window ticks
    faults

vars == <<provider, store, keys, boot, counters, requests, admitted, faults>>

\* A request: where it is, its replica, credential and route, its tenant once it
\* is known, and whether the key it must present was revoked when
\* it arrived.
IdleRequest == [pc |-> "idle", replica |-> "redis", credential |-> NoCredential, route |-> "public",
                tenant |-> NoTenant, late |-> FALSE]

Fresh == [hits |-> 0, left |-> 0]

Init ==
    /\ provider \in Providers /\ store \in Stores
    /\ keys \in [Keys -> {"none", "active"}]
    /\ boot = [r \in Replicas |-> "read"]
    /\ counters = [p \in Places |-> [b \in Budgets |-> Fresh]]
    /\ requests = [q \in Requests |-> IdleRequest]
    /\ admitted = [b \in Budgets |-> [t \in 1 .. Window |-> 0]]
    /\ faults = 0

Fault(kind) ==
    /\ kind \in Faults
    /\ faults < MaxFaults
    /\ faults' = faults + 1

At(q, pc) == requests[q].pc = pc
End(q) == requests' = [requests EXCEPT ![q] = IdleRequest]

-----------------------------------------------------------------------------
(* AuthGuard *)

SupportsApiKey == provider \in {"api_key", "clerk_api_key"}
SupportsClerk == provider \in {"clerk", "clerk_api_key"}

\* A request for an /api/ route arrives at a replica; other routes pass both
\* guards. The bootstrap endpoint of the dashboard is public. Idle requests are
\* alike: the first one is taken.
Arrive(q, replica, credential, route) ==
    /\ boot[replica] = "up"
    /\ At(q, "idle") /\ \A p \in 1 .. q - 1 : ~At(p, "idle")
    /\ requests' = [requests EXCEPT ![q] =
          [pc |-> IF route = "public" THEN "bill" ELSE "authenticate",
           replica |-> replica, credential |-> credential, route |-> route, tenant |-> NoTenant,
           late |-> route # "public" /\ credential \in Keys /\ keys[credential] = "revoked"]]
    /\ UNCHANGED <<provider, store, keys, boot, counters, admitted, faults>>

Authenticated(q, tenant) ==
    requests' = [requests EXCEPT ![q].pc = "bill", ![q].tenant = tenant, ![q].credential = NoCredential]

\* verifyApiKey: the row with the hash of the key, unless it is revoked.
VerifyApiKey(q) ==
    LET k == requests[q].credential
    IN  /\ At(q, "authenticate") /\ k \in Keys
        /\ IF SupportsApiKey /\ keys[k] = "active" THEN Authenticated(q, KeyTenant[k]) ELSE End(q)
        /\ UNCHANGED <<provider, store, keys, boot, counters, admitted, faults>>

\* A bearer token that is a JWT: the Clerk API says whether its session is
\* active. An expired token, another answer or a timeout refuses the request.
VerifySession(q) ==
    /\ At(q, "authenticate") /\ requests[q].credential = Session
    /\ \/ SupportsClerk /\ Authenticated(q, SessionTenant)
       \/ End(q)
    /\ UNCHANGED <<provider, store, keys, boot, counters, admitted, faults>>

\* auth_required.
Refuse(q) ==
    /\ At(q, "authenticate") /\ requests[q].credential = NoCredential
    /\ End(q)
    /\ UNCHANGED <<provider, store, keys, boot, counters, admitted, faults>>

-----------------------------------------------------------------------------
(* RateLimitGuard *)

\* resolvePolicyFromRoute and resolveScope.
BudgetOf(q) ==
    <<IF requests[q].route = "write" THEN "write" ELSE "default",
      IF requests[q].tenant # NoTenant THEN requests[q].tenant ELSE Peer>>

PlaceOf(q) == IF store = "redis" THEN "redis" ELSE requests[q].replica

\* Mutant: every hit renews the window.
ConsumeRenews(q) ==
    LET b == BudgetOf(q)
    IN  counters' = [counters EXCEPT ![PlaceOf(q)][b] =
                        [hits |-> IF @.hits > Limits[b[1]] THEN @.hits ELSE @.hits + 1, left |-> Window]]

\* INCR, and PEXPIRE at the first hit of a window. Hits above the limit are all
\* alike and are counted as one.
Consume(q) ==
    LET b == BudgetOf(q)
    IN  counters' = [counters EXCEPT ![PlaceOf(q)][b] =
                        [hits |-> IF @.hits > Limits[b[1]] THEN @.hits ELSE @.hits + 1,
                         left |-> IF @.hits = 0 THEN Window ELSE @.left]]

\* Mutant: the hits before this one are compared with the limit.
WithinLimitBefore(q) == counters[PlaceOf(q)][BudgetOf(q)].hits <= Limits[BudgetOf(q)[1]]

\* totalHits, this one included, is not above the limit.
WithinLimit(q) == counters[PlaceOf(q)][BudgetOf(q)].hits + 1 <= Limits[BudgetOf(q)[1]]

Pass(q) ==
    requests' = [requests EXCEPT ![q] = [IdleRequest EXCEPT !.pc = "handle", !.replica = requests[q].replica, !.late = requests[q].late]]

Admit(q) ==
    /\ Pass(q)
    /\ admitted' = [admitted EXCEPT ![BudgetOf(q)][Window] = @ + 1]

\* canActivate: a hit is consumed, and a request above the limit is refused with
\* a 429. The hit of a refused request counts too.
Bill(q) ==
    /\ At(q, "bill") /\ Limits[BudgetOf(q)[1]] > 0
    /\ Consume(q)
    /\ IF WithinLimit(q) THEN Admit(q) ELSE End(q) /\ UNCHANGED admitted
    /\ UNCHANGED <<provider, store, keys, boot, faults>>

\* A limit of 0 disables its budget.
PassDisabled(q) ==
    /\ At(q, "bill") /\ Limits[BudgetOf(q)[1]] = 0
    /\ Pass(q)
    /\ UNCHANGED <<provider, store, keys, boot, counters, admitted, faults>>

\* Redis fails, before the script or after it: the request is let through.
FailOpen(q) ==
    /\ At(q, "bill") /\ Limits[BudgetOf(q)[1]] > 0 /\ store = "redis"
    /\ \/ Fault("store_error") /\ UNCHANGED counters
       \/ Fault("reply_lost") /\ Consume(q)
    /\ Admit(q)
    /\ UNCHANGED <<provider, store, keys, boot>>

\* The handler answers.
Handle(q) ==
    /\ At(q, "handle")
    /\ End(q)
    /\ UNCHANGED <<provider, store, keys, boot, counters, admitted, faults>>

\* A tick of the clock: a counter whose time is up is gone.
Tick ==
    /\ counters' = [p \in Places |-> [b \in Budgets |->
          IF counters[p][b].left <= 1 THEN Fresh ELSE [counters[p][b] EXCEPT !.left = @ - 1]]]
    /\ admitted' = [b \in Budgets |-> [t \in 1 .. Window |-> IF t < Window THEN admitted[b][t + 1] ELSE 0]]
    /\ UNCHANGED <<provider, store, keys, boot, requests, faults>>

-----------------------------------------------------------------------------
(* Keys *)

\* ApiKeysRepository.revoke.
Revoke(k) ==
    /\ keys[k] = "active"
    /\ keys' = [keys EXCEPT ![k] = "revoked"]
    /\ UNCHANGED <<provider, store, boot, counters, requests, admitted, faults>>

\* A container runs migrate.js and then the API. seedBootstrapApiKey, at the end
\* of the migration run, leaves a row with the hash of the key alone, revoked or not.
ReadKey(replica) ==
    /\ boot[replica] = "read"
    /\ boot' = [boot EXCEPT ![replica] = IF keys[BootKey] = "none" THEN "insert" ELSE "up"]
    /\ UNCHANGED <<provider, store, keys, counters, requests, admitted, faults>>

\* Mutant: a row that is there by now is overwritten.
InsertKeyAnyway(replica) ==
    /\ boot[replica] = "insert" /\ boot' = [boot EXCEPT ![replica] = "up"]
    /\ keys' = [keys EXCEPT ![BootKey] = "active"]
    /\ UNCHANGED <<provider, store, counters, requests, admitted, faults>>

\* INSERT ... ON CONFLICT (key_hash) DO NOTHING.
InsertKey(replica) ==
    /\ boot[replica] = "insert" /\ boot' = [boot EXCEPT ![replica] = "up"]
    /\ keys' = [keys EXCEPT ![BootKey] = IF @ = "none" THEN "active" ELSE @]
    /\ UNCHANGED <<provider, store, counters, requests, admitted, faults>>

-----------------------------------------------------------------------------
(* Failures *)

\* Redis loses its counters.
RedisLoss ==
    /\ Fault("redis_loss") /\ store = "redis"
    /\ counters' = [counters EXCEPT !["redis"] = [b \in Budgets |-> Fresh]]
    /\ UNCHANGED <<provider, store, keys, boot, requests, admitted>>

\* A replica restarts: its requests and its counters are gone.
Restart(replica) ==
    /\ boot[replica] = "up" /\ Fault("restart")
    /\ counters' = [counters EXCEPT ![replica] = [b \in Budgets |-> Fresh]]
    /\ requests' = [q \in Requests |-> IF requests[q].replica = replica THEN IdleRequest ELSE requests[q]]
    /\ boot' = [boot EXCEPT ![replica] = "read"]
    /\ UNCHANGED <<provider, store, keys, admitted>>

Credentials == Keys \cup {Session, NoCredential}

Guard(q) == VerifyApiKey(q) \/ VerifySession(q) \/ Refuse(q) \/ Bill(q) \/ PassDisabled(q) \/ FailOpen(q)

Next ==
    \/ \E q \in Requests, replica \in Replicas, credential \in Credentials, route \in Routes :
          Arrive(q, replica, credential, route)
    \/ \E q \in Requests : Guard(q) \/ Handle(q)
    \/ Tick
    \/ \E k \in Keys : Revoke(k)
    \/ \E replica \in Replicas : ReadKey(replica) \/ InsertKey(replica) \/ Restart(replica)
    \/ RedisLoss

Spec == Init /\ [][Next]_vars

\* The clock advances. Clients owe no request.
FairSpec == Spec /\ WF_vars(Tick)

-----------------------------------------------------------------------------
(* Properties *)

\* The admissions of the last Window ticks, each a tick and a number in it.
Admissions(b) == UNION {{t} \X (1 .. admitted[b][t]) : t \in 1 .. Window}

Sum(b) == Cardinality(Admissions(b))

\* However requests fall around the end of a window, no stretch of Window ticks
\* admits more than twice the limit of a budget, times the replicas when each
\* counts for itself; every failure is worth at most one more limit, because a
\* store that fails lets requests through and a store that is lost starts again.
BudgetHolds ==
    \A b \in Budgets : Limits[b[1]] > 0 =>
        Sum(b) <= Limits[b[1]] * (2 * (IF store = "redis" THEN 1 ELSE Cardinality(Replicas)) + faults)

\* A request that arrives when its key is already revoked does not reach a
\* handler, whatever seeding and restarts come in between.
RevokedKeysStayOut ==
    \A q \in Requests : At(q, "handle") => ~requests[q].late

Billed(b) == \E q \in Requests : BudgetOf(q) = b /\ Bill(q)

\* A budget that is asked of again and again admits again and again: refused
\* requests count as hits but do not renew the window, so a client that keeps
\* trying is not frozen out (the comment on CONSUME_SCRIPT).
PersistenceIsAdmitted ==
    \A b \in Budgets : []<><<Billed(b)>>_vars => []<>(Sum(b) > 0)
=============================================================================
