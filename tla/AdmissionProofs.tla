-------------------------- MODULE AdmissionProofs --------------------------
(***************************************************************************)
(* A request that presents a key revoked before it arrived reaches no       *)
(* handler, for every number of replicas, requests, keys, tenants, routes,  *)
(* failures and restarts. RevokedKeysStayOut says nothing of the request on *)
(* its way, so it is not inductive: what carries the proof is that such a   *)
(* request never leaves AuthGuard but to end (LateWaits), because its key   *)
(* stays revoked: a seeding that found no row inserts one only where there  *)
(* is still none, and nothing else activates a key.                         *)
(*                                                                          *)
(* The second half is about budgets: what was admitted in one stretch of    *)
(* Window ticks stays within the bound of BudgetHolds.                      *)
(***************************************************************************)
EXTENDS Admission, FiniteSetTheorems, TLAPS

RequestType ==
    [pc: {"idle", "authenticate", "bill", "handle"}, replica: Places, credential: Credentials,
     route: {"public", "default", "write"}, tenant: Scopes, late: BOOLEAN]

\* The types the argument needs: the table of keys and the requests.
KeysType == keys \in [Keys -> {"none", "active", "revoked"}]
RequestsType == requests \in [Requests -> RequestType]

\* A request whose key was revoked when it arrived still stands before
\* verifyApiKey, and its key is still revoked.
Waits(request) ==
    request.late => /\ request.pc = "authenticate"
                    /\ request.credential \in Keys
                    /\ keys[request.credential] = "revoked"

LateWaits == \A q \in Requests : Waits(requests[q])

IInv == KeysType /\ RequestsType /\ LateWaits

\* No step takes a revoked key back.
Revoked(k) == keys[k] = "revoked"
RevokedStay == \A k \in Keys : Revoked(k) => Revoked(k)'

-----------------------------------------------------------------------------

\* A request that has ended, or has not begun, waits for nothing.
LEMMA IdleWaits == IdleRequest \in RequestType /\ ~IdleRequest.late
BY DEF IdleRequest, RequestType, Places, Credentials, Scopes, NoTenant

\* Where keys stay revoked, a request that stands still goes on waiting.
LEMMA StillWaits ==
    ASSUME RevokedStay, NEW request, Waits(request)
    PROVE  Waits(request)'
BY DEF RevokedStay, Revoked, Waits

\* One request moves to a state of its type that waits, if it is late, at the
\* key of before; the others stand still.
LEMMA OneMoves ==
    ASSUME IInv, KeysType', RevokedStay, NEW q \in Requests, NEW request \in RequestType,
           Waits(request), requests' = [requests EXCEPT ![q] = request]
    PROVE  IInv'
<1>1. RequestsType'
  BY DEF IInv, RequestsType
<1>2. ASSUME NEW p \in Requests PROVE Waits(requests'[p])
  BY DEF IInv, RequestsType, LateWaits
<1>3. LateWaits'
  BY <1>2, StillWaits DEF LateWaits
<1> QED
  BY <1>1, <1>3 DEF IInv

\* No request moves.
LEMMA NoneMoves ==
    ASSUME IInv, KeysType', RevokedStay, requests' = requests
    PROVE  IInv'
BY StillWaits DEF IInv, RequestsType, LateWaits

\* The table stays as it is.
LEMMA SameKeys ==
    ASSUME KeysType, keys' = keys
    PROVE  KeysType' /\ RevokedStay
BY DEF KeysType, RevokedStay, Revoked

\* A request that ends.
LEMMA EndStep ==
    ASSUME IInv, keys' = keys, NEW q \in Requests, End(q)
    PROVE  IInv'
<1>1. Waits(IdleRequest)
  BY IdleWaits DEF Waits
<1> QED
  BY <1>1, IdleWaits, SameKeys, OneMoves DEF End, IInv

\* A request arrives: late exactly when its key is revoked, and then before AuthGuard.
LEMMA ArriveStep ==
    ASSUME IInv, NEW q \in Requests, NEW replica \in Replicas, NEW credential \in Credentials,
           NEW route \in Routes, Arrive(q, replica, credential, route)
    PROVE  IInv'
<1> DEFINE request ==
          [pc |-> IF route = "public" THEN "bill" ELSE "authenticate",
           replica |-> replica, credential |-> credential, route |-> route, tenant |-> NoTenant,
           late |-> route # "public" /\ credential \in Keys /\ keys[credential] = "revoked"]
<1>1. request \in RequestType
  <2>1. route \in {"public", "default", "write"}
    BY AdmissionAssumption
  <2> QED
    BY <2>1 DEF RequestType, Places, Scopes, NoTenant
<1>2. Waits(request)
  BY DEF Waits
<1>3. requests' = [requests EXCEPT ![q] = request] /\ keys' = keys
  BY DEF Arrive
<1> QED
  BY <1>1, <1>2, <1>3, SameKeys, OneMoves DEF IInv

\* AuthGuard lets a request on that is not late.
LEMMA AuthenticatedStep ==
    ASSUME IInv, keys' = keys, NEW q \in Requests, NEW tenant \in Tenants,
           ~requests[q].late, Authenticated(q, tenant)
    PROVE  IInv'
<1> DEFINE request == [requests[q] EXCEPT !.pc = "bill", !.tenant = tenant, !.credential = NoCredential]
<1>1. requests[q] \in RequestType
  BY DEF IInv, RequestsType
<1>2. request \in RequestType /\ ~request.late
  BY <1>1 DEF RequestType, Scopes, Credentials
<1>3. requests' = [requests EXCEPT ![q] = request]
  BY DEF Authenticated, IInv, RequestsType
<1>4. Waits(request)
  BY <1>2 DEF Waits
<1> QED
  BY <1>2, <1>3, <1>4, SameKeys, OneMoves DEF IInv

\* verifyApiKey and verifyClerkToken: a late request has a key, which is revoked.
LEMMA AuthStep ==
    ASSUME IInv, NEW q \in Requests, VerifyApiKey(q) \/ VerifySession(q) \/ Refuse(q)
    PROVE  IInv'
<1>1. keys' = keys
  BY DEF VerifyApiKey, VerifySession, Refuse
<1>2. Waits(requests[q])
  BY DEF IInv, LateWaits
<1>3. CASE VerifyApiKey(q) /\ SupportsApiKey /\ keys[requests[q].credential] = "active"
  <2>1. requests[q].credential \in Keys /\ Authenticated(q, KeyTenant[requests[q].credential])
    BY <1>3 DEF VerifyApiKey
  <2>2. ~requests[q].late
    BY <1>2, <1>3 DEF Waits
  <2>3. KeyTenant[requests[q].credential] \in Tenants
    BY <2>1, AdmissionAssumption
  <2> QED
    BY <1>1, <2>1, <2>2, <2>3, AuthenticatedStep
<1>4. CASE VerifySession(q) /\ Authenticated(q, SessionTenant)
  <2>1. requests[q].credential \notin Keys
    BY <1>4, AdmissionAssumption DEF VerifySession
  <2>2. ~requests[q].late
    BY <1>2, <2>1 DEF Waits
  <2> QED
    BY <1>1, <1>4, <2>2, AuthenticatedStep, AdmissionAssumption
<1>5. CASE End(q)
  BY <1>1, <1>5, EndStep
<1> QED
  BY <1>3, <1>4, <1>5 DEF VerifyApiKey, VerifySession, Refuse

\* RateLimitGuard meets no late request: what it passes on is not late.
LEMMA PassStep ==
    ASSUME IInv, keys' = keys, NEW q \in Requests, At(q, "bill"), Pass(q)
    PROVE  IInv'
<1> DEFINE request == [IdleRequest EXCEPT !.pc = "handle", !.replica = requests[q].replica, !.late = requests[q].late]
<1>1. requests[q] \in RequestType /\ requests[q].pc = "bill"
  BY DEF IInv, RequestsType, At
<1>2. ~requests[q].late
  BY <1>1 DEF IInv, LateWaits, Waits
<1>3. request \in RequestType /\ ~request.late
  BY <1>1, <1>2, IdleWaits DEF RequestType, IdleRequest
<1>4. Waits(request)
  BY <1>3 DEF Waits
<1>5. requests' = [requests EXCEPT ![q] = request]
  BY DEF Pass
<1> QED
  BY <1>3, <1>4, <1>5, SameKeys, OneMoves DEF IInv

\* canActivate of RateLimitGuard, with every outcome of the store.
LEMMA BillStep ==
    ASSUME IInv, NEW q \in Requests, Bill(q) \/ PassDisabled(q) \/ FailOpen(q)
    PROVE  IInv'
<1>1. keys' = keys /\ At(q, "bill")
  BY DEF Bill, PassDisabled, FailOpen
<1>2. Pass(q) \/ End(q)
  BY DEF Bill, PassDisabled, FailOpen, Admit
<1> QED
  BY <1>1, <1>2, PassStep, EndStep

\* Revoking and seeding: a revoked key stays revoked, also when a seeding that
\* found no row comes after the revocation.
LEMMA KeyStep ==
    ASSUME IInv,
           (\E k \in Keys : Revoke(k)) \/ (\E replica \in Replicas : InsertKey(replica))
    PROVE  IInv'
<1>1. keys \in [Keys -> {"none", "active", "revoked"}] /\ BootKey \in Keys
  BY AdmissionAssumption DEF IInv, KeysType
<1>2. KeysType'
  BY <1>1 DEF Revoke, InsertKey, KeysType
<1>3. RevokedStay
  BY <1>1 DEF Revoke, InsertKey, RevokedStay, Revoked
<1>4. requests' = requests
  BY DEF Revoke, InsertKey
<1> QED
  BY <1>2, <1>3, <1>4, NoneMoves

\* A replica restarts and its requests are gone.
LEMMA RestartStep ==
    ASSUME IInv, NEW replica \in Replicas, Restart(replica)
    PROVE  IInv'
<1>1. /\ keys' = keys
      /\ requests' = [q \in Requests |-> IF requests[q].replica = replica THEN IdleRequest ELSE requests[q]]
  BY DEF Restart
<1>2. KeysType' /\ RevokedStay
  BY <1>1, SameKeys DEF IInv
<1>3. ASSUME NEW q \in Requests PROVE requests'[q] = IdleRequest \/ requests'[q] = requests[q]
  BY <1>1
<1>4. RequestsType'
  BY <1>1, IdleWaits DEF IInv, RequestsType
<1>5. ASSUME NEW q \in Requests PROVE Waits(requests'[q])
  BY <1>3, IdleWaits DEF IInv, LateWaits, Waits
<1>6. LateWaits'
  BY <1>2, <1>5, StillWaits DEF LateWaits
<1> QED
  BY <1>2, <1>4, <1>6 DEF IInv

\* IInv is kept by every step of the specification.
LEMMA NextIInv ==
    IInv /\ [Next]_vars => IInv'
<1> SUFFICES ASSUME IInv, [Next]_vars PROVE IInv'
  OBVIOUS
<1>1. ASSUME NEW q \in Requests, NEW replica \in Replicas, NEW credential \in Credentials,
             NEW route \in Routes, Arrive(q, replica, credential, route)
      PROVE  IInv'
  BY <1>1, ArriveStep
<1>2. ASSUME NEW q \in Requests, Guard(q) \/ Handle(q) PROVE IInv'
  <2>1. CASE Handle(q)
    BY <2>1, EndStep DEF Handle
  <2> QED
    BY <1>2, <2>1, AuthStep, BillStep DEF Guard
<1>3. ASSUME NEW k \in Keys, Revoke(k) PROVE IInv'
  BY <1>3, KeyStep
<1>4. ASSUME NEW replica \in Replicas, InsertKey(replica) PROVE IInv'
  BY <1>4, KeyStep
<1>5. ASSUME NEW replica \in Replicas, Restart(replica) PROVE IInv'
  BY <1>5, RestartStep
<1>6. CASE \/ Tick \/ RedisLoss \/ UNCHANGED vars
           \/ \E replica \in Replicas : ReadKey(replica)
  <2>1. keys' = keys /\ requests' = requests
    BY <1>6 DEF Tick, RedisLoss, ReadKey, vars
  <2> QED
    BY <2>1, SameKeys, NoneMoves DEF IInv
<1> QED
  BY <1>1, <1>2, <1>3, <1>4, <1>5, <1>6 DEF Next

\* However a revocation falls between the read and the insert of a seeding, and
\* whatever restarts and failures of the store come in between: a request that
\* arrives when its key is revoked never reaches a handler.
THEOREM RevokedKeysRefused == Spec => []RevokedKeysStayOut
<1>1. Init => IInv
  <2>1. Init => KeysType /\ RequestsType /\ \A q \in Requests : ~requests[q].late
    BY IdleWaits DEF Init, KeysType, RequestsType
  <2> QED
    BY <2>1 DEF IInv, LateWaits, Waits
<1>2. IInv /\ [Next]_vars => IInv'
  BY NextIInv
<1>3. IInv => RevokedKeysStayOut
  BY DEF IInv, LateWaits, Waits, RevokedKeysStayOut, At
<1> QED
  BY <1>1, <1>2, <1>3, PTL DEF Spec

-----------------------------------------------------------------------------
(***************************************************************************)
(* The budgets. BudgetHolds counts, and counting is not inductive: what a   *)
(* step keeps is an assignment of every admission of the last Window ticks  *)
(* to a credit of its own. A place that counts has L credits for the window *)
(* under way ("now") and L for the one before ("old"), and every failure    *)
(* brings L more. The number of credits is then the bound. An admission on  *)
(* the account of the window under way is not older than that window, and   *)
(* one on the account of the window before is: when a window ends, nothing  *)
(* is left on the old account, and the current one takes its place.         *)
(***************************************************************************)

\* The places whose counters bill requests.
Active == IF store = "redis" THEN {"redis"} ELSE Replicas

IsCredit(c, P, n, L) ==
    /\ c.k \in 1 .. L
    /\ \/ c.kind \in {"now", "old"} /\ c.of \in P
       \/ c.kind = "fault" /\ c.of \in 1 .. n

\* A counter is fresh, or its window has begun and not ended.
IsCounter(c) ==
    /\ c.hits \in Nat /\ c.left \in Nat
    /\ c.hits > 0 => c.left \in 1 .. Window
    /\ c.hits = 0 => c.left = 0

\* Where the window before the one of a counter ends.
Begin(c) == IF c.hits > 0 THEN c.left ELSE Window

\* An admission of tick t may have this credit.
Entitled(t, c, C) ==
    /\ c.kind = "now" => t >= C[c.of].left /\ c.k <= C[c.of].hits
    /\ c.kind = "old" => t < Begin(C[c.of])

\* f assigns a credit of its own to each of the adm[t] admissions of each tick t,
\* where the places P count as C says and n failures have happened.
Charges(f, adm, P, n, L, C) ==
    /\ \A t \in 1 .. Window : \A m \in 1 .. adm[t] : IsCredit(f[t][m], P, n, L) /\ Entitled(t, f[t][m], C)
    /\ \A t, u \in 1 .. Window : \A m \in 1 .. adm[t], l \in 1 .. adm[u] :
          (/\ f[t][m].kind = f[u][l].kind
           /\ f[t][m].of = f[u][l].of
           /\ f[t][m].k = f[u][l].k) => t = u /\ m = l

\* The same counter, or the one after another hit.
Later(c, d) ==
    \/ d = c
    \/ /\ d.hits \in Nat /\ d.hits >= c.hits /\ d.hits > 0
       /\ d.left = IF c.hits = 0 THEN Window ELSE c.left

\* The counters D of the places P after those of C: every one later, one lost, or
\* a tick on.
AllLater(C, D, P) == \A p \in P : IsCounter(C[p]) /\ Later(C[p], D[p])

OneLost(C, D, P, lost) == \A p \in P : IsCounter(C[p]) /\ D[p] = IF p = lost THEN Fresh ELSE C[p]

Ticked(c) == IF c.left <= 1 THEN Fresh ELSE [c EXCEPT !.left = @ - 1]

AllTicked(C, D, P) ==
    \A p \in P : /\ IsCounter(C[p]) /\ D[p] = Ticked(C[p])
                /\ D[p].left = IF C[p].left <= 1 THEN 0 ELSE C[p].left - 1

\* What counters show later, and failures that are yet to be charged, leave an
\* assignment as it is.
LEMMA ChargesLater ==
    ASSUME NEW adm \in [1 .. Window -> Nat], NEW P, NEW n \in Nat, NEW e \in Nat, e >= n, NEW L \in Nat, NEW C, NEW D,
           NEW f, Charges(f, adm, P, n, L, C),
           AllLater(C, D, P)
    PROVE  Charges(f, adm, P, e, L, D)
<1>1. Window \in Nat
  BY AdmissionAssumption
<1>2. ASSUME NEW t \in 1 .. Window, NEW m \in 1 .. adm[t]
      PROVE  IsCredit(f[t][m], P, e, L) /\ Entitled(t, f[t][m], D)
  <2> DEFINE c == f[t][m]
  <2>1. IsCredit(c, P, n, L) /\ Entitled(t, c, C)
    BY DEF Charges
  <2> SUFFICES IsCredit(c, P, e, L) /\ Entitled(t, c, D)
    OBVIOUS
  <2> HIDE DEF c
  <2>2. IsCredit(c, P, e, L)
    BY <2>1 DEF IsCredit
  <2>3. CASE c.kind = "now"
    <3>1. c.of \in P /\ c.k \in 1 .. L /\ t >= C[c.of].left /\ c.k <= C[c.of].hits
      BY <2>1, <2>3 DEF IsCredit, Entitled
    <3>2. IsCounter(C[c.of]) /\ Later(C[c.of], D[c.of])
      BY <3>1 DEF AllLater
    <3>3. C[c.of].hits \in Nat /\ C[c.of].hits > 0
      BY <3>1, <3>2 DEF IsCounter
    <3>4. D[c.of].left = C[c.of].left /\ D[c.of].hits \in Nat /\ D[c.of].hits >= C[c.of].hits
      BY <3>2, <3>3 DEF Later
    <3>5. t >= D[c.of].left /\ c.k <= D[c.of].hits
      BY <3>1, <3>3, <3>4
    <3> QED
      BY <2>2, <2>3, <3>5 DEF Entitled
  <2>4. CASE c.kind = "old"
    <3>1. c.of \in P /\ t < Begin(C[c.of])
      BY <2>1, <2>4 DEF IsCredit, Entitled
    <3>2. IsCounter(C[c.of]) /\ Later(C[c.of], D[c.of])
      BY <3>1 DEF AllLater
    <3>3. Begin(C[c.of]) = Begin(D[c.of])
      BY <3>2 DEF IsCounter, Later, Begin
    <3> QED
      BY <2>2, <2>4, <3>1, <3>3 DEF Entitled
  <2>5. CASE c.kind = "fault"
    BY <2>2, <2>5 DEF Entitled
  <2> QED
    BY <2>1, <2>2, <2>3, <2>4, <2>5 DEF IsCredit
<1> QED
  BY <1>2 DEF Charges

\* One more admission, with a credit that nobody has.
LEMMA ChargesOneMore ==
    ASSUME NEW adm \in [1 .. Window -> Nat], NEW P, NEW n \in Nat, NEW L \in Nat, NEW C,
           NEW f, Charges(f, adm, P, n, L, C),
           NEW c, IsCredit(c, P, n, L), Entitled(Window, c, C),
           \A t \in 1 .. Window : \A m \in 1 .. adm[t] :
              ~(f[t][m].kind = c.kind /\ f[t][m].of = c.of /\ f[t][m].k = c.k)
    PROVE  \E g : Charges(g, [adm EXCEPT ![Window] = @ + 1], P, n, L, C)
<1> DEFINE bdm == [adm EXCEPT ![Window] = @ + 1]
           g == [t \in 1 .. Window |-> [m \in Nat |-> IF t = Window /\ m = adm[Window] + 1 THEN c ELSE f[t][m]]]
<1>1. Window \in Nat \ {0} /\ Window \in 1 .. Window
  BY AdmissionAssumption
<1>2. ASSUME NEW t \in 1 .. Window, NEW m \in 1 .. bdm[t]
      PROVE  \/ t = Window /\ m = adm[Window] + 1 /\ g[t][m] = c
             \/ m \in 1 .. adm[t] /\ g[t][m] = f[t][m] /\ ~(t = Window /\ m = adm[Window] + 1)
  BY <1>1
<1> HIDE DEF g, bdm
<1>3. ASSUME NEW t \in 1 .. Window, NEW m \in 1 .. bdm[t]
      PROVE  IsCredit(g[t][m], P, n, L) /\ Entitled(t, g[t][m], C)
  BY <1>2 DEF Charges
<1>4. ASSUME NEW t \in 1 .. Window, NEW u \in 1 .. Window, NEW m \in 1 .. bdm[t], NEW l \in 1 .. bdm[u],
             g[t][m].kind = g[u][l].kind, g[t][m].of = g[u][l].of, g[t][m].k = g[u][l].k
      PROVE  t = u /\ m = l
  <2>1. CASE t = Window /\ m = adm[Window] + 1 /\ g[t][m] = c
    <3>1. ~(l \in 1 .. adm[u] /\ g[u][l] = f[u][l])
      BY <1>4, <2>1
    <3> QED
      BY <1>2, <2>1, <3>1
  <2>2. CASE u = Window /\ l = adm[Window] + 1 /\ g[u][l] = c
    <3>1. ~(m \in 1 .. adm[t] /\ g[t][m] = f[t][m])
      BY <1>4, <2>2
    <3> QED
      BY <1>2, <2>2, <3>1
  <2>3. CASE m \in 1 .. adm[t] /\ g[t][m] = f[t][m] /\ l \in 1 .. adm[u] /\ g[u][l] = f[u][l]
    BY <1>4, <2>3 DEF Charges
  <2> QED
    BY <1>2, <2>1, <2>2, <2>3
<1>5. Charges(g, bdm, P, n, L, C)
  BY <1>3, <1>4 DEF Charges
<1> QED
  BY <1>5 DEF bdm

\* The counters of a place are lost: what is on the account of its window under
\* way is charged to the failure.
LEMMA ChargesLost ==
    ASSUME NEW adm \in [1 .. Window -> Nat], NEW P, NEW n \in Nat, NEW L \in Nat, NEW C, NEW D,
           NEW f, Charges(f, adm, P, n, L, C), NEW lost,
           OneLost(C, D, P, lost)
    PROVE  \E g : Charges(g, adm, P, n + 1, L, D)
<1> DEFINE Moves(c) == c.kind = "now" /\ c.of = lost
           Moved(c) == IF Moves(c) THEN [kind |-> "fault", of |-> n + 1, k |-> c.k] ELSE c
           g == [t \in 1 .. Window |-> [m \in Nat |-> Moved(f[t][m])]]
<1>1. Window \in Nat \ {0}
  BY AdmissionAssumption
<1>2. ASSUME NEW t \in 1 .. Window, NEW m \in 1 .. adm[t]
      PROVE  g[t][m] = Moved(f[t][m])
  OBVIOUS
<1> HIDE DEF g
<1>3. ASSUME NEW t \in 1 .. Window, NEW m \in 1 .. adm[t]
      PROVE  IsCredit(g[t][m], P, n + 1, L) /\ Entitled(t, g[t][m], D)
  <2> DEFINE c == f[t][m]
  <2>1. IsCredit(c, P, n, L) /\ Entitled(t, c, C) /\ g[t][m] = Moved(c)
    BY <1>2 DEF Charges
  <2> HIDE DEF c
  <2>2. CASE Moves(c)
    <3>1. g[t][m] = [kind |-> "fault", of |-> n + 1, k |-> c.k]
      BY <2>1, <2>2
    <3> QED
      BY <2>1, <3>1 DEF IsCredit, Entitled
  <2>3. CASE ~Moves(c)
    <3>1. g[t][m] = c
      BY <2>1, <2>3
    <3>2. IsCredit(c, P, n + 1, L)
      BY <2>1 DEF IsCredit
    <3>3. CASE c.kind = "old"
      <4>1. c.of \in P /\ t < Begin(C[c.of])
        BY <2>1, <3>3 DEF IsCredit, Entitled
      <4>2. IsCounter(C[c.of]) /\ D[c.of] = IF c.of = lost THEN Fresh ELSE C[c.of]
        BY <4>1 DEF OneLost
      <4> QED
        BY <1>1, <3>1, <3>2, <3>3, <4>1, <4>2 DEF Entitled, Begin, IsCounter, Fresh
    <3>4. CASE c.kind = "now"
      <4>1. c.of \in P /\ c.of # lost
        BY <2>1, <2>3, <3>4 DEF IsCredit
      <4>2. D[c.of] = C[c.of]
        BY <4>1 DEF OneLost
      <4> QED
        BY <2>1, <3>1, <3>2, <3>4, <4>2 DEF Entitled
    <3> QED
      BY <2>1, <3>1, <3>2, <3>3, <3>4 DEF Entitled
  <2> QED
    BY <2>2, <2>3
<1>4. ASSUME NEW t \in 1 .. Window, NEW u \in 1 .. Window, NEW m \in 1 .. adm[t], NEW l \in 1 .. adm[u],
             g[t][m].kind = g[u][l].kind, g[t][m].of = g[u][l].of, g[t][m].k = g[u][l].k
      PROVE  t = u /\ m = l
  <2> DEFINE c == f[t][m]
             d == f[u][l]
  <2>1. IsCredit(c, P, n, L) /\ g[t][m] = Moved(c) /\ IsCredit(d, P, n, L) /\ g[u][l] = Moved(d)
    BY <1>2 DEF Charges
  <2>2. (c.kind = d.kind /\ c.of = d.of /\ c.k = d.k) => t = u /\ m = l
    BY DEF Charges
  <2> HIDE DEF c, d
  <2>3. CASE Moves(c) /\ Moves(d)
    <3>1. Moved(c).k = c.k /\ Moved(d).k = d.k
      BY <2>3
    <3> QED
      BY <1>4, <2>1, <2>2, <2>3, <3>1
  <2>4. CASE ~Moves(c) /\ ~Moves(d)
    BY <1>4, <2>1, <2>2, <2>4
  <2>5. CASE Moves(c) /\ ~Moves(d)
    <3>1. Moved(c).kind = "fault" /\ Moved(c).of = n + 1 /\ Moved(d) = d
      BY <2>5
    <3> QED
      BY <1>4, <2>1, <3>1 DEF IsCredit
  <2>6. CASE ~Moves(c) /\ Moves(d)
    <3>1. Moved(d).kind = "fault" /\ Moved(d).of = n + 1 /\ Moved(c) = c
      BY <2>6
    <3> QED
      BY <1>4, <2>1, <3>1 DEF IsCredit
  <2> QED
    BY <2>3, <2>4, <2>5, <2>6
<1>5. Charges(g, adm, P, n + 1, L, D)
  BY <1>3, <1>4 DEF Charges
<1> QED
  BY <1>5

\* A tick: the admissions are one tick older and the oldest are forgotten. Where a
\* window ends, the old account is empty and takes over the current one.
LEMMA ChargesTick ==
    ASSUME NEW adm \in [1 .. Window -> Nat], NEW P, NEW n \in Nat, NEW L \in Nat, NEW C, NEW D,
           NEW f, Charges(f, adm, P, n, L, C),
           AllTicked(C, D, P),
           NEW bdm, bdm = [t \in 1 .. Window |-> IF t < Window THEN adm[t + 1] ELSE 0]
    PROVE  \E g : Charges(g, bdm, P, n, L, D)
<1> DEFINE Moves(c) == c.kind = "now" /\ C[c.of].left <= 1
           Moved(c) == IF Moves(c) THEN [kind |-> "old", of |-> c.of, k |-> c.k] ELSE c
           g == [t \in 1 .. Window |-> [m \in Nat |-> Moved(f[t + 1][m])]]
<1>0. \A p \in P : IsCounter(C[p]) /\ D[p] = Ticked(C[p]) /\ D[p].left = IF C[p].left <= 1 THEN 0 ELSE C[p].left - 1
  BY DEF AllTicked
<1>1. Window \in Nat \ {0}
  BY AdmissionAssumption
<1>2. ASSUME NEW t \in 1 .. Window, NEW m \in 1 .. bdm[t]
      PROVE  t + 1 \in 1 .. Window /\ m \in 1 .. adm[t + 1] /\ g[t][m] = Moved(f[t + 1][m])
  BY <1>1
<1> HIDE DEF g
<1>a. ASSUME NEW p \in P, C[p].left > 1
      PROVE  D[p].left = C[p].left - 1 /\ D[p].hits = C[p].hits /\ C[p].hits > 0 /\ C[p].left \in Nat
  <2>1. IsCounter(C[p]) /\ C[p].left > 1 /\ D[p] = Ticked(C[p])
    BY <1>0, <1>a
  <2>2. C[p].left \in Nat /\ C[p].hits \in Nat /\ ~(C[p].left <= 1) /\ C[p].hits > 0
    BY <2>1 DEF IsCounter
  <2>3. D[p] = [C[p] EXCEPT !.left = @ - 1]
    BY <2>1, <2>2 DEF Ticked
  <2>4. D[p].hits = C[p].hits
    BY <2>3
  <2> QED
    BY <1>0, <1>a, <2>2, <2>4
<1>b. ASSUME NEW p \in P, C[p].left <= 1
      PROVE  Begin(D[p]) = Window /\ Begin(C[p]) = IF C[p].hits > 0 THEN 1 ELSE Window
  <2>1. D[p] = Fresh /\ IsCounter(C[p])
    BY <1>0, <1>b DEF Ticked
  <2> QED
    BY <1>1, <1>b, <2>1 DEF Begin, IsCounter, Fresh
<1>3. ASSUME NEW t \in 1 .. Window, NEW m \in 1 .. bdm[t]
      PROVE  IsCredit(g[t][m], P, n, L) /\ Entitled(t, g[t][m], D)
  <2> DEFINE c == f[t + 1][m]
  <2>1. IsCredit(c, P, n, L) /\ Entitled(t + 1, c, C) /\ g[t][m] = Moved(c)
    BY <1>2 DEF Charges
  <2>0. t + 1 <= Window /\ t \in Nat
    <3>1. t + 1 \in 1 .. Window /\ t \in 1 .. Window
      BY <1>2
    <3> QED
      BY <1>1, <3>1
  <2> HIDE DEF c
  <2>2. CASE Moves(c)
    <3>1. g[t][m] = [kind |-> "old", of |-> c.of, k |-> c.k]
      BY <2>1, <2>2
    <3>2. c.of \in P /\ c.k \in 1 .. L
      BY <2>1, <2>2 DEF IsCredit
    <3>3. Begin(D[c.of]) = Window
      BY <1>b, <2>2, <3>2
    <3> QED
      BY <1>1, <2>0, <3>1, <3>2, <3>3 DEF IsCredit, Entitled
  <2>3. CASE ~Moves(c)
    <3>1. g[t][m] = c
      BY <2>1, <2>3
    <3>2. CASE c.kind = "old"
      <4>1. c.of \in P /\ t + 1 < Begin(C[c.of]) /\ IsCounter(C[c.of])
        BY <1>0, <2>1, <3>2 DEF IsCredit, Entitled
      <4>2. CASE C[c.of].left <= 1
        <5>1. t < Begin(D[c.of])
          BY <1>1, <1>b, <2>0, <4>1, <4>2
        <5> QED
          BY <2>1, <3>1, <3>2, <5>1 DEF Entitled
      <4>3. CASE C[c.of].left > 1
        <5>1. Begin(C[c.of]) = C[c.of].left /\ Begin(D[c.of]) = C[c.of].left - 1 /\ C[c.of].left \in Nat
          BY <1>a, <4>1, <4>3 DEF Begin
        <5>2. t < Begin(D[c.of])
          BY <2>0, <4>1, <5>1
        <5> QED
          BY <2>1, <3>1, <3>2, <5>2 DEF Entitled
      <4> QED
        BY <4>1, <4>2, <4>3 DEF IsCounter
    <3>3. CASE c.kind = "now"
      <4>1. c.of \in P /\ t + 1 >= C[c.of].left /\ c.k <= C[c.of].hits /\ IsCounter(C[c.of])
        BY <1>0, <2>1, <3>3 DEF IsCredit, Entitled
      <4>2. C[c.of].left > 1
        BY <2>3, <3>3, <4>1 DEF IsCounter
      <4>3. t >= D[c.of].left /\ c.k <= D[c.of].hits
        BY <1>a, <2>0, <4>1, <4>2
      <4> QED
        BY <2>1, <3>1, <3>3, <4>3 DEF Entitled
    <3> QED
      BY <2>1, <3>1, <3>2, <3>3 DEF Entitled
  <2> QED
    BY <2>2, <2>3
<1>4. ASSUME NEW t \in 1 .. Window, NEW u \in 1 .. Window, NEW m \in 1 .. bdm[t], NEW l \in 1 .. bdm[u],
             g[t][m].kind = g[u][l].kind, g[t][m].of = g[u][l].of, g[t][m].k = g[u][l].k
      PROVE  t = u /\ m = l
  <2> DEFINE c == f[t + 1][m]
             d == f[u + 1][l]
  <2>1. /\ IsCredit(c, P, n, L) /\ Entitled(t + 1, c, C) /\ g[t][m] = Moved(c)
        /\ IsCredit(d, P, n, L) /\ Entitled(u + 1, d, C) /\ g[u][l] = Moved(d)
    BY <1>2 DEF Charges
  <2>2. (c.kind = d.kind /\ c.of = d.of /\ c.k = d.k) => t = u /\ m = l
    <3>1. PICK v \in 1 .. Window : v = t + 1 /\ m \in 1 .. adm[v]
      BY <1>2
    <3>2. PICK w \in 1 .. Window : w = u + 1 /\ l \in 1 .. adm[w]
      BY <1>2
    <3>3. (/\ f[v][m].kind = f[w][l].kind
           /\ f[v][m].of = f[w][l].of
           /\ f[v][m].k = f[w][l].k) => v = w /\ m = l
      BY <3>1, <3>2 DEF Charges
    <3> QED
      BY <3>1, <3>2, <3>3
  <2> HIDE DEF c, d
  <2>3. ASSUME Moves(c), ~Moves(d) PROVE FALSE
    <3>1. Moved(c).kind = "old" /\ Moved(c).of = c.of /\ Moved(d) = d
      BY <2>3
    <3>2. d.kind = "old" /\ d.of = c.of
      BY <1>4, <2>1, <3>1
    <3>3. c.of \in P /\ c.k \in 1 .. L /\ c.k <= C[c.of].hits /\ C[c.of].hits \in Nat
      BY <1>0, <2>1, <2>3 DEF IsCredit, Entitled, IsCounter
    <3>4. u + 1 < Begin(C[c.of])
      BY <2>1, <3>2 DEF Entitled
    <3>5. Begin(C[c.of]) = 1
      BY <1>b, <2>3, <3>3
    <3> QED
      BY <3>4, <3>5
  <2>4. ASSUME ~Moves(c), Moves(d) PROVE FALSE
    <3>1. Moved(d).kind = "old" /\ Moved(d).of = d.of /\ Moved(c) = c
      BY <2>4
    <3>2. c.kind = "old" /\ c.of = d.of
      BY <1>4, <2>1, <3>1
    <3>3. d.of \in P /\ d.k \in 1 .. L /\ d.k <= C[d.of].hits /\ C[d.of].hits \in Nat
      BY <1>0, <2>1, <2>4 DEF IsCredit, Entitled, IsCounter
    <3>4. t + 1 < Begin(C[d.of])
      BY <2>1, <3>2 DEF Entitled
    <3>5. Begin(C[d.of]) = 1
      BY <1>b, <2>4, <3>3
    <3> QED
      BY <3>4, <3>5
  <2>5. CASE Moves(c) /\ Moves(d)
    <3>1. Moved(c).k = c.k /\ Moved(d).k = d.k /\ Moved(c).of = c.of /\ Moved(d).of = d.of
      BY <2>5
    <3> QED
      BY <1>4, <2>1, <2>2, <2>5, <3>1
  <2>6. CASE ~Moves(c) /\ ~Moves(d)
    BY <1>4, <2>1, <2>2, <2>6
  <2> QED
    BY <2>3, <2>4, <2>5, <2>6
<1>5. Charges(g, bdm, P, n, L, D)
  BY <1>3, <1>4 DEF Charges
<1> QED
  BY <1>5

\* There are as many credits as the bound says, and an admission for each at most.
LEMMA ChargesCount ==
    ASSUME NEW adm \in [1 .. Window -> Nat], NEW P, IsFiniteSet(P), NEW n \in Nat, NEW L \in Nat, NEW C,
           NEW f, Charges(f, adm, P, n, L, C)
    PROVE  Cardinality(UNION {{t} \X (1 .. adm[t]) : t \in 1 .. Window}) <= L * (2 * Cardinality(P) + n)
<1> DEFINE S == UNION {{t} \X (1 .. adm[t]) : t \in 1 .. Window}
           A == P \X {"now", "old"}
           B == (1 .. n) \X {"fault"}
           T == (A \cup B) \X (1 .. L)
           g == [e \in S |-> <<<<f[e[1]][e[2]].of, f[e[1]][e[2]].kind>>, f[e[1]][e[2]].k>>]
<1>1. ASSUME NEW e \in S PROVE e[1] \in 1 .. Window /\ e[2] \in 1 .. adm[e[1]] /\ e = <<e[1], e[2]>>
  <2>1. PICK t \in 1 .. Window : e \in {t} \X (1 .. adm[t])
    OBVIOUS
  <2> QED
    BY <2>1
<1>2. ASSUME NEW e \in S PROVE g[e] \in T
  <2>1. IsCredit(f[e[1]][e[2]], P, n, L)
    BY <1>1 DEF Charges
  <2> QED
    BY <2>1 DEF IsCredit
<1>3. ASSUME NEW e \in S, NEW d \in S, g[e] = g[d] PROVE e = d
  <2>1. /\ f[e[1]][e[2]].kind = f[d[1]][d[2]].kind
        /\ f[e[1]][e[2]].of = f[d[1]][d[2]].of
        /\ f[e[1]][e[2]].k = f[d[1]][d[2]].k
    BY <1>3
  <2>2. e[1] = d[1] /\ e[2] = d[2]
    BY <1>1, <2>1 DEF Charges
  <2> QED
    BY <1>1, <2>2
<1>4. g \in Injection(S, T)
  <2>1. g \in [S -> T]
    BY <1>2
  <2>2. IsInjective(g)
    BY <1>3 DEF IsInjective
  <2> QED
    BY <2>1, <2>2 DEF Injection
<1>5. IsFiniteSet({"now", "old"}) /\ Cardinality({"now", "old"}) = 2
  <2>1. {"now", "old"} = {"now"} \cup {"old"}
    OBVIOUS
  <2>2. IsFiniteSet({"now"}) /\ Cardinality({"now"}) = 1
    BY FS_Singleton
  <2>3. IsFiniteSet({"now"} \cup {"old"}) /\ Cardinality({"now"} \cup {"old"}) = 1 + 1
    <3>1. "old" \notin {"now"}
      OBVIOUS
    <3> HIDE <2>1
    <3> QED
      BY <2>2, <3>1, FS_AddElement
  <2> QED
    BY <2>1, <2>3
<1>6. IsFiniteSet(A) /\ Cardinality(A) = Cardinality(P) * 2
  BY <1>5, FS_Product
<1>7. IsFiniteSet(B) /\ Cardinality(B) = n
  <2>1. IsFiniteSet(1 .. n) /\ Cardinality(1 .. n) = n
    BY FS_Interval
  <2>2. IsFiniteSet({"fault"}) /\ Cardinality({"fault"}) = 1
    BY FS_Singleton
  <2>3. \A X, Y : IsFiniteSet(X) /\ IsFiniteSet(Y) => IsFiniteSet(X \X Y) /\ Cardinality(X \X Y) = Cardinality(X) * Cardinality(Y)
    BY FS_Product
  <2>4. IsFiniteSet(B) /\ Cardinality(B) = Cardinality(1 .. n) * Cardinality({"fault"})
    BY <2>1, <2>2, <2>3
  <2> QED
    BY <2>1, <2>2, <2>4
<1>8. IsFiniteSet(A \cup B) /\ Cardinality(A \cup B) = Cardinality(P) * 2 + n
  <2>1. A \cap B = {}
    OBVIOUS
  <2>2. Cardinality(A \cap B) = 0
    BY <2>1, FS_EmptySet
  <2>3. IsFiniteSet(A \cup B) /\ Cardinality(A \cup B) = Cardinality(A) + Cardinality(B) - Cardinality(A \cap B)
    BY <1>6, <1>7, FS_Union
  <2>4. Cardinality(P) \in Nat
    BY FS_CardinalityType
  <2> HIDE DEF A, B
  <2> QED
    BY <1>6, <1>7, <2>2, <2>3, <2>4
<1>9. IsFiniteSet(T) /\ Cardinality(T) = (Cardinality(P) * 2 + n) * L
  <2>1. IsFiniteSet(1 .. L) /\ Cardinality(1 .. L) = L
    BY FS_Interval
  <2> HIDE DEF A, B
  <2> QED
    BY <1>8, <2>1, FS_Product
<1>10. Cardinality(S) <= Cardinality(T)
  <2> HIDE DEF S, T, g
  <2> QED
    BY <1>4, <1>9, FS_Injection
<1>11. Cardinality(P) \in Nat
  BY FS_CardinalityType
<1>12. (Cardinality(P) * 2 + n) * L = L * (2 * Cardinality(P) + n)
  BY <1>11
<1> QED
  BY <1>9, <1>10, <1>12

-----------------------------------------------------------------------------

CountersType ==
    /\ counters \in [Places -> [Budgets -> [hits: Nat, left: Nat]]]
    /\ \A p \in Places, b \in Budgets : IsCounter(counters[p][b])

AdmittedType == admitted \in [Budgets -> [1 .. Window -> Nat]]

\* A request under way is at a replica, so a place that counts bills it.
Located == \A q \in Requests : requests[q].pc # "idle" => requests[q].replica \in Replicas

\* The counters of a budget, place by place.
Counts(b) == [p \in Places |-> counters[p][b]]

Charged(b) == \E f : Charges(f, admitted[b], Active, faults, Limits[b[1]], Counts(b))
AllCharged == \A b \in Budgets : Limits[b[1]] > 0 => Charged(b)

BudgetInv ==
    /\ IInv /\ CountersType /\ AdmittedType /\ faults \in Nat /\ Located
    /\ AllCharged

\* Places, budgets and limits are what the operators above take.
LEMMA BudgetFacts ==
    /\ Active \subseteq Places /\ IsFiniteSet(Active)
    /\ Window \in Nat \ {0} /\ Window \in 1 .. Window
    /\ \A b \in Budgets : b[1] \in Policies /\ Limits[b[1]] \in Nat
<1>1. IsFiniteSet(Active)
  BY AdmissionAssumption, FS_Singleton DEF Active
<1> QED
  BY <1>1, AdmissionAssumption DEF Active, Places, Budgets

\* The budget and the place of a request that RateLimitGuard has before it.
LEMMA BilledWhere ==
    ASSUME BudgetInv, NEW q \in Requests, At(q, "bill")
    PROVE  BudgetOf(q) \in Budgets /\ PlaceOf(q) \in Active /\ PlaceOf(q) \in Places
<1>1. requests[q].tenant \in Scopes /\ requests[q].replica \in Replicas
  BY DEF BudgetInv, IInv, RequestsType, RequestType, Located, At
<1>2. BudgetOf(q) \in Budgets
  BY <1>1 DEF BudgetOf, Budgets, Policies, Scopes, NoTenant
<1> QED
  BY <1>1, <1>2 DEF PlaceOf, Active, Places

\* A hit: one counter is later, by one hit unless it was above its limit; the others stay.
LEMMA ConsumeMoves ==
    ASSUME CountersType, NEW q \in Requests, Consume(q), BudgetOf(q) \in Budgets, PlaceOf(q) \in Places
    PROVE  /\ CountersType'
           /\ \A p \in Places, b \in Budgets : Later(counters[p][b], counters'[p][b])
           /\ \A p \in Places, b \in Budgets : b # BudgetOf(q) => counters'[p][b] = counters[p][b]
           /\ counters[PlaceOf(q)][BudgetOf(q)].hits + 1 <= Limits[BudgetOf(q)[1]] =>
                 counters'[PlaceOf(q)][BudgetOf(q)].hits = counters[PlaceOf(q)][BudgetOf(q)].hits + 1
<1>1. PICK b \in Budgets : b = BudgetOf(q)
  OBVIOUS
<1>2. PICK p \in Places : p = PlaceOf(q)
  OBVIOUS
<1> DEFINE c == counters[p][b]
           d == [hits |-> IF c.hits > Limits[b[1]] THEN c.hits ELSE c.hits + 1,
                 left |-> IF c.hits = 0 THEN Window ELSE c.left]
<1>3. counters' = [counters EXCEPT ![p][b] = d]
  BY <1>1, <1>2 DEF Consume
<1>4. c \in [hits: Nat, left: Nat] /\ IsCounter(c) /\ Limits[b[1]] \in Nat /\ Window \in Nat \ {0}
  BY BudgetFacts DEF CountersType
<1>5. /\ d.hits = IF c.hits > Limits[b[1]] THEN c.hits ELSE c.hits + 1
      /\ d.left = IF c.hits = 0 THEN Window ELSE c.left
  OBVIOUS
<1> HIDE DEF d
<1>6. d.hits \in Nat /\ d.hits > 0 /\ d.hits >= c.hits /\ d.left \in Nat /\ IsCounter(d)
  BY <1>4, <1>5 DEF IsCounter
<1>7. d \in [hits: Nat, left: Nat]
  BY <1>6 DEF d
<1>8. ASSUME NEW x \in Places, NEW y \in Budgets
      PROVE  counters'[x][y] = IF x = p /\ y = b THEN d ELSE counters[x][y]
  BY <1>3 DEF CountersType
<1>9. counters' \in [Places -> [Budgets -> [hits: Nat, left: Nat]]]
  BY <1>3, <1>7 DEF CountersType
<1>10. CountersType'
  BY <1>6, <1>8, <1>9 DEF CountersType, IsCounter
<1>11. Later(c, d)
  BY <1>5, <1>6 DEF Later
<1>12. ASSUME NEW x \in Places, NEW y \in Budgets PROVE Later(counters[x][y], counters'[x][y])
  BY <1>8, <1>11 DEF Later
<1>13. c.hits + 1 <= Limits[b[1]] => d.hits = c.hits + 1
  BY <1>4, <1>5
<1> QED
  BY <1>1, <1>2, <1>8, <1>10, <1>12, <1>13

\* Where no counter, admission or failure is involved, the accounts stand.
LEMMA AccountsStand ==
    ASSUME BudgetInv, store' = store, counters' = counters, admitted' = admitted, faults' = faults,
           IInv', Located'
    PROVE  BudgetInv'
<1>1. CountersType' /\ AdmittedType' /\ faults' \in Nat
  BY DEF BudgetInv, CountersType, AdmittedType
<1>2. ASSUME NEW b \in Budgets, Charged(b) PROVE Charged(b)'
  BY <1>2 DEF Charged, Counts, Active
<1> QED
  BY <1>1, <1>2 DEF BudgetInv, AllCharged

\* An admission is one more in the last tick of its budget.
LEMMA AdmitMoves ==
    ASSUME AdmittedType, NEW q \in Requests, Admit(q), BudgetOf(q) \in Budgets
    PROVE  /\ AdmittedType'
           /\ admitted'[BudgetOf(q)] = [admitted[BudgetOf(q)] EXCEPT ![Window] = @ + 1]
           /\ \A b \in Budgets : b # BudgetOf(q) => admitted'[b] = admitted[b]
<1>1. PICK b \in Budgets : b = BudgetOf(q)
  OBVIOUS
<1>2. admitted' = [admitted EXCEPT ![b][Window] = @ + 1]
  BY <1>1 DEF Admit
<1> QED
  BY <1>1, <1>2, BudgetFacts DEF AdmittedType

\* The counters of every budget as the operators above read them.
LEMMA CountsAre ==
    ASSUME CountersType, NEW b \in Budgets
    PROVE  \A p \in Active : Counts(b)[p] = counters[p][b] /\ IsCounter(Counts(b)[p])
BY BudgetFacts DEF Counts, CountersType

\* And as the next state has them.
LEMMA CountsNext ==
    ASSUME NEW b \in Budgets
    PROVE  \A p \in Active : p \in Places /\ Counts(b)'[p] = counters'[p][b]
BY BudgetFacts DEF Counts

\* A hit within the limit is the credit of its number; above it, nothing is admitted.
LEMMA BillCharges ==
    ASSUME BudgetInv, NEW q \in Requests, Bill(q)
    PROVE  CountersType' /\ AdmittedType' /\ faults' \in Nat /\ AllCharged'
<1>1. PICK b \in Budgets : b = BudgetOf(q)
  BY BilledWhere DEF Bill
<1>2. PICK x \in Active : x = PlaceOf(q) /\ x \in Places
  BY BilledWhere DEF Bill
<1>3. /\ CountersType'
      /\ \A p \in Places, d \in Budgets : Later(counters[p][d], counters'[p][d])
      /\ counters[x][b].hits + 1 <= Limits[b[1]] => counters'[x][b].hits = counters[x][b].hits + 1
  BY <1>1, <1>2, ConsumeMoves DEF Bill, BudgetInv
<1>4. store' = store /\ faults' = faults /\ faults \in Nat
  BY DEF Bill, BudgetInv
<1>5. ASSUME NEW d \in Budgets, Limits[d[1]] > 0
      PROVE  \E f : /\ Charges(f, admitted[d], Active, faults, Limits[d[1]], Counts(d))
                    /\ Charges(f, admitted[d], Active, faults, Limits[d[1]], Counts(d)')
  <2>1. PICK f : Charges(f, admitted[d], Active, faults, Limits[d[1]], Counts(d))
    BY <1>5 DEF BudgetInv, AllCharged, Charged
  <2>2. AllLater(Counts(d), Counts(d)', Active)
    BY <1>3, CountsAre, CountsNext DEF BudgetInv, AllLater
  <2>3. admitted[d] \in [1 .. Window -> Nat] /\ Limits[d[1]] \in Nat
    BY BudgetFacts DEF BudgetInv, AdmittedType
  <2>4. Charges(f, admitted[d], Active, faults, Limits[d[1]], Counts(d)')
    BY <1>4, <2>1, <2>2, <2>3, ChargesLater
  <2> QED
    BY <2>1, <2>4
<1>6. CASE WithinLimit(q)
  <2>1. /\ AdmittedType' /\ admitted'[b] = [admitted[b] EXCEPT ![Window] = @ + 1]
        /\ \A d \in Budgets : d # b => admitted'[d] = admitted[d]
    BY <1>1, <1>6, AdmitMoves DEF Bill, BudgetInv
  <2>2. Limits[b[1]] > 0 /\ counters[x][b].hits + 1 <= Limits[b[1]]
    BY <1>1, <1>2, <1>6 DEF Bill, WithinLimit
  <2>3. PICK f : /\ Charges(f, admitted[b], Active, faults, Limits[b[1]], Counts(b))
                 /\ Charges(f, admitted[b], Active, faults, Limits[b[1]], Counts(b)')
    BY <1>5, <2>2
  <2> DEFINE c == [kind |-> "now", of |-> x, k |-> counters[x][b].hits + 1]
  <2>4. /\ IsCounter(counters[x][b]) /\ counters[x][b].hits \in Nat
        /\ IsCounter(counters'[x][b]) /\ Counts(b)[x] = counters[x][b] /\ Counts(b)'[x] = counters'[x][b]
    <3>1. IsCounter(counters[x][b]) /\ IsCounter(counters[x][b])'
      BY <1>2, <1>3 DEF CountersType, BudgetInv
    <3>2. IsCounter(counters'[x][b])
      BY <3>1 DEF IsCounter
    <3> QED
      BY <1>2, <3>1, <3>2 DEF Counts, IsCounter
  <2>5. IsCredit(c, Active, faults, Limits[b[1]])
    BY <2>2, <2>4, BudgetFacts DEF IsCredit
  <2>6. Entitled(Window, c, Counts(b)')
    <3>1. counters'[x][b].hits = counters[x][b].hits + 1
      BY <1>3, <2>2
    <3>2. counters'[x][b].left \in 1 .. Window
      BY <2>4, <3>1 DEF IsCounter
    <3> QED
      BY <2>4, <3>1, <3>2, BudgetFacts DEF Entitled
  <2>7. ASSUME NEW t \in 1 .. Window, NEW m \in 1 .. admitted[b][t],
               f[t][m].kind = c.kind, f[t][m].of = c.of, f[t][m].k = c.k
        PROVE  FALSE
    <3>1. f[t][m].k <= Counts(b)[x].hits
      BY <2>3, <2>7 DEF Charges, Entitled
    <3> QED
      BY <2>4, <2>7, <3>1
  <2> HIDE DEF c
  <2>8. \E g : Charges(g, admitted'[b], Active, faults, Limits[b[1]], Counts(b)')
    <3>1. admitted[b] \in [1 .. Window -> Nat] /\ Limits[b[1]] \in Nat
      BY BudgetFacts DEF BudgetInv, AdmittedType
    <3>2. \E g : Charges(g, [admitted[b] EXCEPT ![Window] = @ + 1], Active, faults, Limits[b[1]], Counts(b)')
      BY <1>4, <2>3, <2>5, <2>6, <2>7, <3>1, ChargesOneMore
    <3> QED
      BY <2>1, <3>2
  <2>9. ASSUME NEW d \in Budgets, Limits[d[1]] > 0
        PROVE  \E f_1 : Charges(f_1, admitted'[d], Active, faults, Limits[d[1]], Counts(d)')
    BY <1>5, <2>1, <2>8, <2>9
  <2>10. AllCharged'
    BY <1>4, <2>9 DEF AllCharged, Charged, Active
  <2> QED
    BY <1>3, <1>4, <2>1, <2>10
<1>7. CASE ~WithinLimit(q)
  <2>1. admitted' = admitted
    BY <1>7 DEF Bill
  <2>2. AllCharged'
    BY <1>4, <1>5, <2>1 DEF AllCharged, Charged, Active
  <2> QED
    BY <1>3, <1>4, <2>1, <2>2 DEF BudgetInv, AdmittedType
<1> QED
  BY <1>6, <1>7

\* A request let through because the store failed has a credit of that failure,
\* also when the hit was counted and only its answer is lost.
LEMMA FailOpenCharges ==
    ASSUME BudgetInv, NEW q \in Requests, FailOpen(q)
    PROVE  CountersType' /\ AdmittedType' /\ faults' \in Nat /\ AllCharged'
<1>1. PICK b \in Budgets : b = BudgetOf(q)
  BY BilledWhere DEF FailOpen
<1>2. store' = store /\ faults \in Nat /\ faults' = faults + 1
  BY DEF FailOpen, Fault, BudgetInv
<1>3. CountersType' /\ \A p \in Places, d \in Budgets : Later(counters[p][d], counters'[p][d])
  <2>1. CASE UNCHANGED counters
    BY <2>1 DEF BudgetInv, CountersType, Later
  <2>2. CASE Consume(q)
    BY <2>2, BilledWhere, ConsumeMoves DEF FailOpen, BudgetInv
  <2> QED
    BY <2>1, <2>2 DEF FailOpen
<1>4. /\ AdmittedType' /\ admitted'[b] = [admitted[b] EXCEPT ![Window] = @ + 1]
      /\ \A d \in Budgets : d # b => admitted'[d] = admitted[d]
  BY <1>1, AdmitMoves DEF FailOpen, BudgetInv
<1>5. ASSUME NEW d \in Budgets, Limits[d[1]] > 0
      PROVE  \E f : /\ Charges(f, admitted[d], Active, faults, Limits[d[1]], Counts(d))
                    /\ Charges(f, admitted[d], Active, faults + 1, Limits[d[1]], Counts(d)')
  <2>1. PICK f : Charges(f, admitted[d], Active, faults, Limits[d[1]], Counts(d))
    BY <1>5 DEF BudgetInv, AllCharged, Charged
  <2>2. AllLater(Counts(d), Counts(d)', Active)
    BY <1>3, CountsAre, CountsNext DEF BudgetInv, AllLater
  <2>3. admitted[d] \in [1 .. Window -> Nat] /\ Limits[d[1]] \in Nat
    BY BudgetFacts DEF BudgetInv, AdmittedType
  <2>4. Charges(f, admitted[d], Active, faults + 1, Limits[d[1]], Counts(d)')
    BY <1>2, <2>1, <2>2, <2>3, ChargesLater
  <2> QED
    BY <2>1, <2>4
<1>6. \E g : Charges(g, admitted'[b], Active, faults + 1, Limits[b[1]], Counts(b)')
  <2>1. Limits[b[1]] > 0
    BY <1>1 DEF FailOpen
  <2>2. PICK f : /\ Charges(f, admitted[b], Active, faults, Limits[b[1]], Counts(b))
                 /\ Charges(f, admitted[b], Active, faults + 1, Limits[b[1]], Counts(b)')
    BY <1>5, <2>1
  <2> DEFINE c == [kind |-> "fault", of |-> faults + 1, k |-> 1]
  <2>3. IsCredit(c, Active, faults + 1, Limits[b[1]]) /\ Entitled(Window, c, Counts(b)')
    BY <1>2, <2>1, BudgetFacts DEF IsCredit, Entitled
  <2>4. ASSUME NEW t \in 1 .. Window, NEW m \in 1 .. admitted[b][t],
               f[t][m].kind = c.kind, f[t][m].of = c.of, f[t][m].k = c.k
        PROVE  FALSE
    <3>1. IsCredit(f[t][m], Active, faults, Limits[b[1]])
      BY <2>2 DEF Charges
    <3> QED
      BY <1>2, <2>4, <3>1 DEF IsCredit
  <2> HIDE DEF c
  <2>5. admitted[b] \in [1 .. Window -> Nat] /\ Limits[b[1]] \in Nat /\ faults + 1 \in Nat
    BY <1>2, BudgetFacts DEF BudgetInv, AdmittedType
  <2>6. \E g : Charges(g, [admitted[b] EXCEPT ![Window] = @ + 1], Active, faults + 1, Limits[b[1]], Counts(b)')
    BY <2>2, <2>3, <2>4, <2>5, ChargesOneMore
  <2> QED
    BY <1>4, <2>6
<1>7. ASSUME NEW d \in Budgets, Limits[d[1]] > 0
      PROVE  \E f : Charges(f, admitted'[d], Active, faults + 1, Limits[d[1]], Counts(d)')
  BY <1>4, <1>5, <1>6, <1>7
<1>8. AllCharged'
  BY <1>2, <1>7 DEF AllCharged, Charged, Active
<1> QED
  BY <1>2, <1>3, <1>4, <1>8

\* The counters of a place are lost, with a failure that pays for them.
LEMMA LossCharges ==
    ASSUME BudgetInv, NEW lost \in Places, store' = store, admitted' = admitted, faults' = faults + 1,
           counters' = [counters EXCEPT ![lost] = [b \in Budgets |-> Fresh]]
    PROVE  CountersType' /\ AdmittedType' /\ faults' \in Nat /\ AllCharged'
<1>1. ASSUME NEW p \in Places, NEW b \in Budgets
      PROVE  counters'[p][b] = IF p = lost THEN Fresh ELSE counters[p][b]
  BY DEF BudgetInv, CountersType
<1>2. CountersType'
  <2>1. IsCounter(Fresh) /\ Fresh \in [hits: Nat, left: Nat]
    BY DEF IsCounter, Fresh
  <2>2. counters' \in [Places -> [Budgets -> [hits: Nat, left: Nat]]]
    BY <2>1 DEF BudgetInv, CountersType
  <2>3. ASSUME NEW p \in Places, NEW b \in Budgets PROVE IsCounter(counters'[p][b])
    BY <1>1, <2>1 DEF BudgetInv, CountersType
  <2> QED
    BY <2>2, <2>3 DEF CountersType, IsCounter
<1>3. ASSUME NEW b \in Budgets, Limits[b[1]] > 0
      PROVE  \E g : Charges(g, admitted[b], Active, faults + 1, Limits[b[1]], Counts(b)')
  <2>1. PICK f : Charges(f, admitted[b], Active, faults, Limits[b[1]], Counts(b))
    BY <1>3 DEF BudgetInv, AllCharged, Charged
  <2>2. admitted[b] \in [1 .. Window -> Nat] /\ Limits[b[1]] \in Nat /\ faults \in Nat
    BY BudgetFacts DEF BudgetInv, AdmittedType
  <2>3. OneLost(Counts(b), Counts(b)', Active, lost)
    BY <1>1, CountsAre, CountsNext DEF BudgetInv, OneLost
  <2> QED
    BY <2>1, <2>2, <2>3, ChargesLost
<1>4. AllCharged'
  BY <1>3 DEF AllCharged, Charged, Active
<1> QED
  BY <1>2, <1>4 DEF BudgetInv, AdmittedType

\* A tick.
LEMMA TickCharges ==
    ASSUME BudgetInv, Tick
    PROVE  CountersType' /\ AdmittedType' /\ faults' \in Nat /\ AllCharged'
<1>1. /\ store' = store /\ faults' = faults
      /\ counters' = [p \in Places |-> [b \in Budgets |-> Ticked(counters[p][b])]]
      /\ admitted' = [b \in Budgets |-> [t \in 1 .. Window |-> IF t < Window THEN admitted[b][t + 1] ELSE 0]]
  BY DEF Tick, Ticked
<1>2. ASSUME NEW p \in Places, NEW b \in Budgets
      PROVE  /\ counters'[p][b] = Ticked(counters[p][b])
             /\ counters'[p][b] \in [hits: Nat, left: Nat] /\ IsCounter(counters'[p][b])
             /\ counters'[p][b].left = IF counters[p][b].left <= 1 THEN 0 ELSE counters[p][b].left - 1
  <2> DEFINE c == counters[p][b]
  <2>1. c \in [hits: Nat, left: Nat] /\ IsCounter(c) /\ counters'[p][b] = Ticked(c)
    BY <1>1 DEF BudgetInv, CountersType
  <2> HIDE DEF c
  <2>2. CASE c.left <= 1
    <3>1. Ticked(c) = Fresh
      BY <2>2 DEF Ticked
    <3> QED
      BY <2>1, <2>2, <3>1 DEF Fresh, IsCounter, c
  <2>3. CASE ~(c.left <= 1)
    <3>1. Ticked(c) = [c EXCEPT !.left = @ - 1]
      BY <2>3 DEF Ticked
    <3>2. Ticked(c).left = c.left - 1 /\ Ticked(c).hits = c.hits /\ Ticked(c) \in [hits: Nat, left: Nat]
      BY <2>1, <2>3, <3>1
    <3>3. IsCounter(Ticked(c))
      BY <2>1, <2>3, <3>2, BudgetFacts DEF IsCounter
    <3> QED
      BY <2>1, <2>3, <3>2, <3>3 DEF c
  <2> QED
    BY <2>2, <2>3
<1>3. CountersType'
  <2>1. counters' \in [Places -> [Budgets -> [hits: Nat, left: Nat]]]
    BY <1>1, <1>2
  <2> QED
    BY <1>2, <2>1 DEF CountersType, IsCounter
<1>4. AdmittedType'
  <2>1. ASSUME NEW b \in Budgets, NEW t \in 1 .. Window
        PROVE  (IF t < Window THEN admitted[b][t + 1] ELSE 0) \in Nat
    BY BudgetFacts DEF BudgetInv, AdmittedType
  <2> QED
    BY <1>1, <2>1 DEF AdmittedType
<1>5. ASSUME NEW b \in Budgets, Limits[b[1]] > 0
      PROVE  \E g : Charges(g, admitted'[b], Active, faults, Limits[b[1]], Counts(b)')
  <2>1. PICK f : Charges(f, admitted[b], Active, faults, Limits[b[1]], Counts(b))
    BY <1>5 DEF BudgetInv, AllCharged, Charged
  <2>2. admitted[b] \in [1 .. Window -> Nat] /\ Limits[b[1]] \in Nat /\ faults \in Nat
    BY BudgetFacts DEF BudgetInv, AdmittedType
  <2>3. AllTicked(Counts(b), Counts(b)', Active)
    BY <1>2, CountsAre, CountsNext DEF BudgetInv, AllTicked
  <2>4. admitted'[b] = [t \in 1 .. Window |-> IF t < Window THEN admitted[b][t + 1] ELSE 0]
    BY <1>1
  <2> QED
    BY <2>1, <2>2, <2>3, <2>4, ChargesTick
<1>6. AllCharged'
  BY <1>1, <1>5 DEF AllCharged, Charged, Active
<1> QED
  BY <1>1, <1>3, <1>4, <1>6 DEF BudgetInv

\* A request goes on at the replica it arrived at, or ends.
LEMMA LocatedStep ==
    ASSUME BudgetInv, [Next]_vars
    PROVE  Located'
<1> DEFINE Stays(q) == \/ requests'[q] = requests[q]
                       \/ requests'[q].pc = "idle"
                       \/ requests'[q].replica \in Replicas
                       \/ requests[q].pc # "idle" /\ requests'[q].replica = requests[q].replica
<1>0. requests \in [Requests -> RequestType]
  BY DEF BudgetInv, IInv, RequestsType
<1>1. ASSUME NEW q \in Requests, NEW replica \in Replicas, NEW credential \in Credentials,
             NEW route \in Routes, Arrive(q, replica, credential, route), NEW p \in Requests
      PROVE  Stays(p)
  BY <1>0, <1>1 DEF Arrive
<1>2. ASSUME NEW q \in Requests, Guard(q) \/ Handle(q), NEW p \in Requests PROVE Stays(p)
  <2>1. \/ End(q)
        \/ Pass(q) /\ At(q, "bill")
        \/ At(q, "authenticate") /\ \E tenant \in Tenants : Authenticated(q, tenant)
    BY <1>2, AdmissionAssumption
       DEF Guard, Handle, VerifyApiKey, VerifySession, Refuse, Bill, PassDisabled, FailOpen, Admit
  <2>2. CASE End(q)
    BY <1>0, <2>2 DEF End, IdleRequest
  <2>3. CASE Pass(q) /\ At(q, "bill")
    BY <1>0, <2>3 DEF Pass, At, IdleRequest
  <2>4. CASE At(q, "authenticate") /\ \E tenant \in Tenants : Authenticated(q, tenant)
    BY <1>0, <2>4 DEF Authenticated, At, RequestType
  <2> QED
    BY <2>1, <2>2, <2>3, <2>4
<1>3. ASSUME NEW replica \in Replicas, Restart(replica), NEW p \in Requests PROVE Stays(p)
  BY <1>0, <1>3 DEF Restart, IdleRequest
<1>4. ASSUME NEW p \in Requests,
             \/ Tick \/ RedisLoss \/ UNCHANGED vars \/ \E k \in Keys : Revoke(k)
             \/ \E replica \in Replicas : ReadKey(replica) \/ InsertKey(replica)
      PROVE  Stays(p)
  BY <1>4 DEF Tick, RedisLoss, vars, Revoke, ReadKey, InsertKey
<1>5. ASSUME NEW p \in Requests PROVE Stays(p)
  BY <1>1, <1>2, <1>3, <1>4 DEF Next
<1> QED
  BY <1>5 DEF BudgetInv, Located

\* BudgetInv is kept by every step of the specification.
LEMMA NextBudgetInv ==
    BudgetInv /\ [Next]_vars => BudgetInv'
<1> SUFFICES ASSUME BudgetInv, [Next]_vars PROVE BudgetInv'
  OBVIOUS
<1>1. IInv' /\ Located'
  BY NextIInv, LocatedStep DEF BudgetInv
<1>2. ASSUME NEW q \in Requests, Bill(q) PROVE BudgetInv'
  BY <1>1, <1>2, BillCharges DEF BudgetInv
<1>3. ASSUME NEW q \in Requests, FailOpen(q) PROVE BudgetInv'
  BY <1>1, <1>3, FailOpenCharges DEF BudgetInv
<1>4. CASE Tick
  BY <1>1, <1>4, TickCharges DEF BudgetInv
<1>5. CASE RedisLoss
  <2>1. /\ "redis" \in Places /\ store' = store /\ admitted' = admitted /\ faults' = faults + 1
        /\ counters' = [counters EXCEPT !["redis"] = [b \in Budgets |-> Fresh]]
    BY <1>5 DEF RedisLoss, Fault, Places
  <2> QED
    BY <1>1, <2>1, LossCharges DEF BudgetInv
<1>6. ASSUME NEW replica \in Replicas, Restart(replica) PROVE BudgetInv'
  <2>1. /\ replica \in Places /\ store' = store /\ admitted' = admitted /\ faults' = faults + 1
        /\ counters' = [counters EXCEPT ![replica] = [b \in Budgets |-> Fresh]]
    BY <1>6 DEF Restart, Fault, Places
  <2> QED
    BY <1>1, <2>1, LossCharges DEF BudgetInv
<1>7. CASE \/ \E q \in Requests, replica \in Replicas, credential \in Credentials, route \in Routes :
                 Arrive(q, replica, credential, route)
           \/ \E q \in Requests : VerifyApiKey(q) \/ VerifySession(q) \/ Refuse(q) \/ PassDisabled(q) \/ Handle(q)
           \/ \E k \in Keys : Revoke(k)
           \/ \E replica \in Replicas : ReadKey(replica) \/ InsertKey(replica)
           \/ UNCHANGED vars
  <2>1. store' = store /\ counters' = counters /\ admitted' = admitted /\ faults' = faults
    BY <1>7 DEF Arrive, VerifyApiKey, VerifySession, Refuse, PassDisabled, Handle, Revoke, ReadKey, InsertKey, vars
  <2> QED
    BY <1>1, <2>1, AccountsStand
<1> QED
  BY <1>2, <1>3, <1>4, <1>5, <1>6, <1>7 DEF Next, Guard

\* However requests fall around the ends of windows, on whatever replicas, with
\* refused hits, failures of the store, lost counters and restarts in between: a
\* budget admits in no stretch of Window ticks more than twice its limit for each
\* place that counts, and one limit more for each failure.
THEOREM BudgetsKept == Spec => []BudgetHolds
<1>1. Init => BudgetInv
  <2> SUFFICES ASSUME Init PROVE BudgetInv
    OBVIOUS
  <2>1. IInv
    BY IdleWaits DEF Init, KeysType, RequestsType, IInv, LateWaits, Waits
  <2>2. CountersType /\ AdmittedType /\ faults \in Nat
    BY DEF Init, CountersType, IsCounter, Fresh, AdmittedType
  <2>3. Located
    BY DEF Init, Located, IdleRequest
  <2>4. ASSUME NEW b \in Budgets PROVE Charged(b)
    <3>1. \A t \in 1 .. Window : admitted[b][t] = 0
      BY DEF Init
    <3>2. Charges(0, admitted[b], Active, faults, Limits[b[1]], Counts(b))
      BY <3>1 DEF Charges
    <3> QED
      BY <3>2 DEF Charged
  <2> QED
    BY <2>1, <2>2, <2>3, <2>4 DEF BudgetInv, AllCharged
<1>2. BudgetInv /\ [Next]_vars => BudgetInv'
  BY NextBudgetInv
<1>3. BudgetInv => BudgetHolds
  <2> SUFFICES ASSUME BudgetInv, NEW b \in Budgets, Limits[b[1]] > 0
               PROVE  Sum(b) <= Limits[b[1]] * (2 * (IF store = "redis" THEN 1 ELSE Cardinality(Replicas)) + faults)
    BY DEF BudgetHolds
  <2>1. PICK f : Charges(f, admitted[b], Active, faults, Limits[b[1]], Counts(b))
    BY DEF BudgetInv, AllCharged, Charged
  <2>2. admitted[b] \in [1 .. Window -> Nat] /\ Limits[b[1]] \in Nat /\ faults \in Nat /\ IsFiniteSet(Active)
    BY BudgetFacts DEF BudgetInv, AdmittedType
  <2>3. Cardinality(UNION {{t} \X (1 .. admitted[b][t]) : t \in 1 .. Window})
           <= Limits[b[1]] * (2 * Cardinality(Active) + faults)
    BY <2>1, <2>2, ChargesCount
  <2>4. Cardinality(Active) = IF store = "redis" THEN 1 ELSE Cardinality(Replicas)
    BY FS_Singleton DEF Active
  <2> QED
    BY <2>3, <2>4 DEF Sum, Admissions
<1> QED
  BY <1>1, <1>2, <1>3, PTL DEF Spec
=============================================================================
