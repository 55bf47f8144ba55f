----------------------------- MODULE FeedFetch -----------------------------
(***************************************************************************)
(* Outbound requests of FeedPulse: HttpFeedFetcher behind the per-domain    *)
(* rate limiter of its worker, and the URL probe of the API, which goes     *)
(* around the limiter. Both follow redirects by hand through safeFetch,     *)
(* which checks the target of every hop. Time is counted in ticks, and      *)
(* every deadline is kept as the ticks that are left.                       *)
(***************************************************************************)
EXTENDS Integers, FiniteSets

CONSTANTS
    Slots,           \* concurrent feed jobs of the worker
    Probes,          \* concurrent POST /feeds/validate requests
    Urls, Domain,    \* URLs and the hostname of each
    StartUrls,       \* URLs of feeds and of probe requests
    BadScheme,       \* URLs that are not http(s)
    BlockedHosts,    \* loopback, private, link-local and single-label hosts
    AllowPrivate,    \* ALLOW_PRIVATE_FEED_HOSTS
    NoUrl,           \* a fetcher that requests nothing
    MaxRedirects,    \* hops safeFetch follows
    Interval,        \* ticks between two requests: 1000 / requestsPerSecond ms
    BaseBackoff,     \* first exponential backoff
    MaxBackoff,      \* longest exponential backoff
    RetryAfters,     \* Retry-After values an origin may send, in ticks
    NoRetryAfter,    \* no Retry-After, or one parseRetryAfter rejects
    MaxTimer,        \* the longest delay setTimeout keeps: 2147483647 ms
    Timeout          \* FETCH_TIMEOUT_MS, in ticks

Fetchers == Slots \cup Probes
Domains == {Domain[u] : u \in Urls}

ASSUME FetchAssumption ==
    /\ Slots \cap Probes = {} /\ NoUrl \notin Urls
    /\ StartUrls \subseteq Urls /\ BadScheme \subseteq Urls
    /\ AllowPrivate \in BOOLEAN
    /\ MaxRedirects \in Nat /\ Interval \in Nat \ {0}
    /\ BaseBackoff \in Nat \ {0} /\ MaxBackoff \in Nat /\ Timeout \in Nat
    /\ RetryAfters \subseteq Nat /\ NoRetryAfter \notin Nat
    /\ MaxTimer \in Nat \ {0} /\ Interval <= MaxTimer
    /\ \E n \in RetryAfters \cup {MaxBackoff} : \A m \in RetryAfters \cup {MaxBackoff} : m <= n

Max2(a, b) == IF a > b THEN a ELSE b
Min2(a, b) == IF a < b THEN a ELSE b
\* The largest backoff a domain may have: the largest Retry-After, or the ceiling.
LongestBackoff == CHOOSE n \in RetryAfters \cup {MaxBackoff} : \A m \in RetryAfters \cup {MaxBackoff} : m <= n

VARIABLES
    elapsed,    \* ticks since lastRequestAt of each domain, at most Interval
    backoff,    \* ticks until backoffUntil of each domain
    fetch,      \* each fetcher: where it is, the URL it was given and the one it requests
    since,      \* for the properties: ticks since each slot was let through to each domain
    unsettled   \* for the properties: the backoff this slot waits for changed meanwhile,
                \* or is longer than a timer can be

vars == <<elapsed, backoff, fetch, since, unsettled>>

Fetch == [pc: {"idle", "backoff", "pace", "request"}, url: Urls \cup {NoUrl}, at: Urls \cup {NoUrl},
          hop: 0 .. MaxRedirects, wait: 0 .. Max2(LongestBackoff, Interval), timer: 0 .. Timeout]

IdleFetch == [pc |-> "idle", url |-> NoUrl, at |-> NoUrl, hop |-> 0, wait |-> 0, timer |-> 0]

Init ==
    /\ elapsed = [d \in Domains |-> Interval]
    /\ backoff = [d \in Domains |-> 0]
    /\ fetch = [p \in Fetchers |-> IdleFetch]
    /\ since = [p \in Slots |-> [d \in Domains |-> Interval]]
    /\ unsettled = [p \in Slots |-> FALSE]

-----------------------------------------------------------------------------
(* URL safety *)

\* isBlockedHostname, after the brackets, case and IPv4 mapping of the host
\* have been taken away.
IsBlocked(u) == Domain[u] \in BlockedHosts

\* assertSafePublicUrl: http(s), and a public host unless private ones are allowed.
SafePublicUrl(u) == u \notin BadScheme /\ (AllowPrivate \/ ~IsBlocked(u))

-----------------------------------------------------------------------------
(* The rate limiter *)

\* fetchImpl is called for the URL the fetcher was given; the timeout starts now.
Request(p, u) == [pc |-> "request", url |-> u, at |-> u, hop |-> 0, wait |-> 0, timer |-> Timeout]

\* Mutant: the interval is a tick short.
PaceShort(p, u) ==
    LET d == Domain[u]
    IN  \/ /\ elapsed[d] >= Interval - 1
           /\ fetch' = [fetch EXCEPT ![p] = Request(p, u)]
           /\ elapsed' = [elapsed EXCEPT ![d] = 0]
           /\ since' = [since EXCEPT ![p][d] = 0]
        \/ /\ elapsed[d] < Interval - 1
           /\ fetch' = [fetch EXCEPT ![p] = [IdleFetch EXCEPT !.pc = "pace", !.url = u, !.wait = Interval - elapsed[d]]]
           /\ UNCHANGED <<elapsed, since>>

\* waitForSlot after the backoff: a slot that comes too early sleeps for what is
\* missing, otherwise it is let through in the same turn of the event loop.
Pace(p, u) ==
    LET d == Domain[u]
    IN  \/ /\ elapsed[d] >= Interval
           /\ fetch' = [fetch EXCEPT ![p] = Request(p, u)]
           /\ elapsed' = [elapsed EXCEPT ![d] = 0]
           /\ since' = [since EXCEPT ![p][d] = 0]
        \/ /\ elapsed[d] < Interval
           /\ fetch' = [fetch EXCEPT ![p] = [IdleFetch EXCEPT !.pc = "pace", !.url = u, !.wait = Interval - elapsed[d]]]
           /\ UNCHANGED <<elapsed, since>>

\* sleep: setTimeout runs a delay over MaxTimer after one millisecond.
Sleep(n) == IF n > MaxTimer THEN 1 ELSE n

\* HttpFeedFetcher.fetch: the URL is checked before a slot is asked for.
Begin(p, u) ==
    /\ p \in Slots /\ fetch[p].pc = "idle"
    /\ SafePublicUrl(u)
    /\ \/ /\ backoff[Domain[u]] > 0
          /\ fetch' = [fetch EXCEPT ![p] = [IdleFetch EXCEPT !.pc = "backoff", !.url = u,
                                                                !.wait = Sleep(backoff[Domain[u]])]]
          /\ UNCHANGED <<elapsed, since>>
       \/ backoff[Domain[u]] = 0 /\ Pace(p, u)
    /\ unsettled' = [unsettled EXCEPT ![p] = backoff[Domain[u]] > MaxTimer]
    /\ UNCHANGED backoff

\* Mutant: the sleep ends a tick early.
EndBackoffEarly(p) ==
    /\ fetch[p].pc = "backoff" /\ fetch[p].wait <= 1
    /\ Pace(p, fetch[p].url)
    /\ UNCHANGED <<backoff, unsettled>>

\* The sleep of the backoff is over; the backoff is not looked at again.
EndBackoff(p) ==
    /\ fetch[p].pc = "backoff" /\ fetch[p].wait = 0
    /\ Pace(p, fetch[p].url)
    /\ UNCHANGED <<backoff, unsettled>>

\* The sleep of the pace is over; lastRequestAt is not looked at again.
EndPace(p) ==
    LET d == Domain[fetch[p].url]
    IN  /\ fetch[p].pc = "pace" /\ fetch[p].wait = 0
        /\ fetch' = [fetch EXCEPT ![p] = Request(p, fetch[p].url)]
        /\ elapsed' = [elapsed EXCEPT ![d] = 0]
        /\ since' = [since EXCEPT ![p][d] = 0]
        /\ UNCHANGED <<backoff, unsettled>>

\* The backoff of a domain changes under whoever is waiting to request it.
Unsettle(p, d) ==
    unsettled' = [q \in Slots |-> unsettled[q] \/ (q # p /\ fetch[q].url # NoUrl /\ Domain[fetch[q].url] = d)]

\* applyBackoff: Retry-After, or without one, or with 0, twice what is left of
\* the current backoff for a 429. A 503 comes here only with a Retry-After.
BackoffAfter(d, status, retryAfter) ==
    IF retryAfter # NoRetryAfter /\ retryAfter > 0 THEN retryAfter
    ELSE IF status = 429 THEN Min2(MaxBackoff, Max2(BaseBackoff, 2 * backoff[d]))
    ELSE backoff[d]

-----------------------------------------------------------------------------
(* The probe *)

\* ValidateFeedUrlUseCase.execute requests at once, with its own clamped timeout.
Probe(q, u) ==
    /\ q \in Probes /\ fetch[q].pc = "idle"
    /\ SafePublicUrl(u)
    /\ fetch' = [fetch EXCEPT ![q] = Request(q, u)]
    /\ UNCHANGED <<elapsed, backoff, since, unsettled>>

-----------------------------------------------------------------------------
(* Answers: safeFetch, and what its callers make of them *)

Done(p) == fetch' = [fetch EXCEPT ![p] = IdleFetch]

\* Mutant: the first URL is checked, the target of a redirect is not.
RedirectUnchecked(p, target) ==
    /\ fetch[p].pc = "request"
    /\ \/ /\ fetch[p].hop < MaxRedirects
          /\ fetch' = [fetch EXCEPT ![p].at = target, ![p].hop = @ + 1]
       \/ fetch[p].hop >= MaxRedirects /\ Done(p)
    /\ UNCHANGED <<elapsed, backoff, since, unsettled>>

\* A redirect: the target is checked, and then requested unless the hops are
\* used up. A missing or malformed Location ends the fetch, as an Answer does.
Redirect(p, target) ==
    /\ fetch[p].pc = "request"
    /\ \/ /\ SafePublicUrl(target) /\ fetch[p].hop < MaxRedirects
          /\ fetch' = [fetch EXCEPT ![p].at = target, ![p].hop = @ + 1]
       \/ (~SafePublicUrl(target) \/ fetch[p].hop >= MaxRedirects) /\ Done(p)
    /\ UNCHANGED <<elapsed, backoff, since, unsettled>>

\* The final response, a network error, or a body that is read or found too
\* large: the fetch is over and the limiter is not told.
Answer(p) ==
    /\ fetch[p].pc = "request"
    /\ Done(p)
    /\ UNCHANGED <<elapsed, backoff, since, unsettled>>

\* 429, or 503 with a Retry-After: the domain of the feed, not that of the last
\* hop, is backed off.
Throttled(p, status, retryAfter) ==
    LET d == Domain[fetch[p].url]
    IN  /\ p \in Slots /\ fetch[p].pc = "request"
        /\ status = 503 => retryAfter # NoRetryAfter
        /\ backoff' = [backoff EXCEPT ![d] = BackoffAfter(d, status, retryAfter)]
        /\ Done(p) /\ Unsettle(p, d)
        /\ UNCHANGED <<elapsed, since>>

\* Mutant: a fetch whose timer was started does not watch it while it follows redirects.
AbortFirstHop(p) ==
    /\ fetch[p].pc = "request" /\ fetch[p].timer = 0 /\ fetch[p].hop = 0
    /\ Done(p)
    /\ UNCHANGED <<elapsed, backoff, since, unsettled>>

\* The timeout aborts the request or the reading of its body. The fetcher clears
\* the backoff of the domain, whoever set it.
Abort(p) ==
    /\ fetch[p].pc = "request" /\ fetch[p].timer = 0
    /\ Done(p)
    /\ IF p \in Slots
       THEN /\ backoff' = [backoff EXCEPT ![Domain[fetch[p].url]] = 0]
            /\ Unsettle(p, Domain[fetch[p].url])
       ELSE UNCHANGED <<backoff, unsettled>>
    /\ UNCHANGED <<elapsed, since>>

-----------------------------------------------------------------------------

Down(n) == Max2(0, n - 1)

\* A tick of the clock: every deadline comes nearer.
Tick ==
    /\ elapsed' = [d \in Domains |-> Min2(Interval, elapsed[d] + 1)]
    /\ backoff' = [d \in Domains |-> Down(backoff[d])]
    /\ fetch' = [p \in Fetchers |-> [fetch[p] EXCEPT !.wait = Down(@), !.timer = Down(@)]]
    /\ since' = [p \in Slots |-> [d \in Domains |-> Min2(Interval, since[p][d] + 1)]]
    /\ UNCHANGED unsettled

Wake(p) == EndBackoff(p) \/ EndPace(p) \/ Abort(p)

Next ==
    \/ Tick
    \/ \E p \in Fetchers : Wake(p) \/ Answer(p)
    \/ \E p \in Fetchers, u \in StartUrls : Begin(p, u) \/ Probe(p, u)
    \/ \E p \in Fetchers, u \in Urls : Redirect(p, u)
    \/ \E p \in Fetchers, status \in {429, 503}, r \in RetryAfters \cup {NoRetryAfter} : Throttled(p, status, r)

Spec == Init /\ [][Next]_vars

\* The clock advances and due timers of the event loop are run. Origins owe no
\* answer.
FairSpec == Spec /\ WF_vars(Tick) /\ \A p \in Fetchers : WF_vars(Wake(p))

-----------------------------------------------------------------------------
(* Properties *)

\* The types of the variables.
TypeOK ==
    /\ elapsed \in [Domains -> 0 .. Interval]
    /\ backoff \in [Domains -> 0 .. LongestBackoff]
    /\ fetch \in [Fetchers -> Fetch]
    /\ since \in [Slots -> [Domains -> 0 .. Interval]]
    /\ unsettled \in [Slots -> BOOLEAN]

\* Nothing is requested from a private host or over another scheme, on the first
\* hop or on a later one, by a feed job or by a probe (safeFetch re-validates
\* every hop).
RequestsAreSafe ==
    \A p \in Fetchers : fetch[p].pc = "request" => SafePublicUrl(fetch[p].at)

LetThrough(p) == fetch[p].pc # "request" /\ fetch'[p].pc = "request"

\* However many feed jobs of one domain wait at once and read the same
\* lastRequestAt, the limiter of a worker lets no slot of that worker through to
\* a domain twice within the interval. It bounds what the limiter lets through,
\* not what an origin sees: the hops of a redirect, probes and the limiters of
\* other worker processes come on top.
SlotsArePaced ==
    [][\A p \in Slots, u \in StartUrls :
          LetThrough(p) /\ fetch'[p].url = u => since[p][Domain[u]] >= Interval]_vars

\* A fetch is not let through while its domain backs off, with two exceptions:
\* another fetch of the domain changed the backoff while this one was waiting, or
\* the backoff it found exceeds what setTimeout can wait (a Retry-After has no
\* ceiling), so that its sleep was over at once.
BackoffIsHeeded ==
    [][\A p \in Slots : LetThrough(p) /\ ~unsettled[p] => backoff[Domain[fetch'[p].url]] = 0]_vars

\* Every fetch and every probe ends, however slow the origin and however its
\* redirects are chained.
FetchesEnd == \A p \in Fetchers : (fetch[p].pc # "idle") ~> (fetch[p].pc = "idle")
=============================================================================
