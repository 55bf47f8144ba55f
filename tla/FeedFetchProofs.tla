-------------------------- MODULE FeedFetchProofs --------------------------
(***************************************************************************)
(* Outbound requests are safe and slots are paced, for every number of feed *)
(* jobs, probes, URLs and hosts, and every interval, timeout and backoff.   *)
(*                                                                          *)
(* Safety needs to be known while a fetch still waits for its slot: what    *)
(* EndBackoff and EndPace request was checked before the sleep. The pace    *)
(* needs two facts: the limiter never remembers a request of a domain as    *)
(* older than a slot's own last one, and a slot that sleeps has, with what  *)
(* is left of its sleep, a full interval behind it. Waiters that have read  *)
(* the same lastRequestAt break neither of them. A backoff is heeded because *)
(* a sleep is as long as the backoff that was read, unless that is longer    *)
(* than a timer can be, and whoever changes the backoff meanwhile unsettles  *)
(* every waiter of the domain.                                              *)
(***************************************************************************)
EXTENDS FeedFetch, TLAPS

Waiting == {"backoff", "pace"}

\* What is waited for was checked, only feed jobs wait, and what is requested is safe.
Targets ==
    \A p \in Fetchers :
        /\ fetch[p].pc # "idle" => fetch[p].url \in Urls
        /\ fetch[p].pc \in Waiting => p \in Slots /\ SafePublicUrl(fetch[p].url)
        /\ fetch[p].pc = "request" => SafePublicUrl(fetch[p].at)

\* lastRequestAt is never older than the last request of a slot, and a sleep is
\* long enough.
Pacing ==
    \A p \in Slots :
        /\ \A d \in Domains : elapsed[d] <= since[p][d]
        /\ fetch[p].pc = "pace" => since[p][Domain[fetch[p].url]] + fetch[p].wait >= Interval

IInv == TypeOK /\ Targets /\ Pacing

\* A slot that is let through has not been let through within the interval.
PacedStep ==
    \A p \in Slots, u \in StartUrls :
        LetThrough(p) /\ fetch'[p].url = u => since[p][Domain[u]] >= Interval

\* The longest backoff is one the limiter can set, and bounds every other.
LEMMA Longest ==
    /\ LongestBackoff \in Nat /\ MaxBackoff <= LongestBackoff
    /\ \A r \in RetryAfters : r <= LongestBackoff
    /\ Max2(LongestBackoff, Interval) \in Nat
    /\ LongestBackoff <= Max2(LongestBackoff, Interval) /\ Interval <= Max2(LongestBackoff, Interval)
<1>1. PICK n \in RetryAfters \cup {MaxBackoff} : \A m \in RetryAfters \cup {MaxBackoff} : m <= n
  BY FetchAssumption
<1>2. /\ LongestBackoff \in RetryAfters \cup {MaxBackoff}
      /\ \A m \in RetryAfters \cup {MaxBackoff} : m <= LongestBackoff
  BY <1>1 DEF LongestBackoff
<1>3. LongestBackoff \in Nat /\ Interval \in Nat /\ MaxBackoff \in Nat
  BY <1>2, FetchAssumption
<1>4. \A a, b \in Nat : Max2(a, b) \in Nat /\ a <= Max2(a, b) /\ b <= Max2(a, b)
  BY DEF Max2
<1> QED
  BY <1>2, <1>3, <1>4

\* What a fetcher becomes is a fetcher.
LEMMA FetchTypes ==
    /\ IdleFetch \in Fetch
    /\ \A p, u : u \in Urls => Request(p, u) \in Fetch
    /\ \A u \in Urls, n \in 0 .. Max2(LongestBackoff, Interval), c \in Waiting :
          [IdleFetch EXCEPT !.pc = c, !.url = u, !.wait = n] \in Fetch
<1>1. 0 \in 0 .. MaxRedirects /\ 0 \in 0 .. Timeout /\ Timeout \in 0 .. Timeout /\ 0 \in 0 .. Max2(LongestBackoff, Interval)
  BY Longest, FetchAssumption
<1>2. IdleFetch \in Fetch
  BY <1>1 DEF IdleFetch, Fetch
<1>3. \A p, u : u \in Urls => Request(p, u) \in Fetch
  BY <1>1 DEF Request, Fetch
<1>4. \A u \in Urls, n \in 0 .. Max2(LongestBackoff, Interval), c \in Waiting :
          [IdleFetch EXCEPT !.pc = c, !.url = u, !.wait = n] \in Fetch
  BY <1>1 DEF IdleFetch, Fetch, Waiting
<1> QED
  BY <1>2, <1>3, <1>4

\* The fields of a fetcher.
LEMMA FetchFields ==
    ASSUME NEW r \in Fetch
    PROVE  /\ r.pc \in {"idle", "request"} \cup Waiting
           /\ r.url \in Urls \cup {NoUrl} /\ r.at \in Urls \cup {NoUrl}
           /\ r.hop \in 0 .. MaxRedirects /\ r.wait \in 0 .. Max2(LongestBackoff, Interval) /\ r.timer \in 0 .. Timeout
           /\ r.hop \in Nat /\ r.wait \in Nat /\ r.timer \in Nat
BY Longest, FetchAssumption DEF Fetch, Waiting

\* Nothing has been requested when the process starts.
LEMMA InitIInv ==
    Init => IInv
<1> SUFFICES ASSUME Init PROVE IInv
  OBVIOUS
<1>1. TypeOK
  <2>1. Interval \in 0 .. Interval /\ 0 \in 0 .. LongestBackoff
    BY Longest, FetchAssumption
  <2> QED
    BY <2>1, FetchTypes DEF Init, TypeOK
<1>2. Targets
  BY DEF Init, Targets, IdleFetch, Waiting
<1>3. Pacing
  BY FetchAssumption DEF Init, Pacing, IdleFetch, Fetchers
<1> QED
  BY <1>1, <1>2, <1>3 DEF IInv

\* The part of waitForSlot after the backoff, for a URL that was checked.
LEMMA PaceStep ==
    ASSUME IInv, NEW p \in Slots, NEW u \in Urls, SafePublicUrl(u), Pace(p, u),
           fetch[p].pc # "request", UNCHANGED backoff, unsettled' \in [Slots -> BOOLEAN]
    PROVE  IInv' /\ PacedStep
<1> DEFINE d == Domain[u]
<1> USE DEF IInv
<1>0. d \in Domains /\ p \in Fetchers /\ Slots \subseteq Fetchers /\ Interval \in Nat
  BY FetchAssumption DEF Domains, Fetchers
<1>1. CASE elapsed[d] >= Interval
  <2>1. /\ fetch' = [fetch EXCEPT ![p] = Request(p, u)]
        /\ elapsed' = [elapsed EXCEPT ![d] = 0]
        /\ since' = [since EXCEPT ![p][d] = 0]
    BY <1>0, <1>1 DEF Pace, TypeOK
  <2>2. TypeOK'
    <3>1. Request(p, u) \in Fetch
      BY FetchTypes
    <3>2. fetch' \in [Fetchers -> Fetch]
      BY <2>1, <3>1 DEF TypeOK
    <3>3. elapsed' \in [Domains -> 0 .. Interval] /\ since' \in [Slots -> [Domains -> 0 .. Interval]]
      BY <1>0, <2>1 DEF TypeOK
    <3> QED
      BY <3>2, <3>3 DEF TypeOK
  <2>3. Targets'
    BY <1>0, <2>1 DEF Targets, Request, TypeOK, Waiting
  <2>4. Pacing'
    BY <1>0, <2>1 DEF Pacing, Request, TypeOK
  <2>5. PacedStep
    BY <1>0, <1>1, <2>1 DEF PacedStep, LetThrough, Request, Pacing, TypeOK
  <2> QED
    BY <2>2, <2>3, <2>4, <2>5
<1>2. CASE elapsed[d] < Interval
  <2>1. /\ fetch' = [fetch EXCEPT ![p] = [IdleFetch EXCEPT !.pc = "pace", !.url = u, !.wait = Interval - elapsed[d]]]
        /\ UNCHANGED <<elapsed, since>>
    BY <1>0, <1>2 DEF Pace, TypeOK
  <2>2. Interval - elapsed[d] \in Nat /\ Interval - elapsed[d] \in 0 .. Max2(LongestBackoff, Interval)
    BY <1>0, <1>2, Longest DEF TypeOK
  <2>3. TypeOK'
    BY <1>0, <2>1, <2>2, FetchTypes DEF TypeOK, Waiting
  <2>4. Targets'
    BY <1>0, <2>1 DEF Targets, IdleFetch, TypeOK, Waiting
  <2>5. Pacing'
    BY <1>0, <2>1, <2>2 DEF Pacing, IdleFetch, TypeOK
  <2>6. PacedStep
    BY <1>0, <2>1 DEF PacedStep, LetThrough, IdleFetch, TypeOK
  <2> QED
    BY <2>3, <2>4, <2>5, <2>6
<1> QED
  BY <1>0, <1>1, <1>2 DEF TypeOK

\* HttpFeedFetcher.fetch, from the check of the URL to the first sleep.
LEMMA BeginStep ==
    ASSUME IInv, NEW p \in Fetchers, NEW u \in StartUrls, Begin(p, u)
    PROVE  IInv' /\ PacedStep
<1> USE DEF IInv
<1>0. p \in Slots /\ u \in Urls /\ Domain[u] \in Domains /\ SafePublicUrl(u) /\ fetch[p].pc = "idle"
  BY FetchAssumption DEF Begin, Domains
<1>3. UNCHANGED backoff /\ unsettled' \in [Slots -> BOOLEAN]
  BY DEF Begin, TypeOK
<1>4. Sleep(backoff[Domain[u]]) \in 0 .. Max2(LongestBackoff, Interval)
  BY <1>0, Longest, FetchAssumption DEF TypeOK, Sleep
<1>1. CASE Pace(p, u)
  BY <1>0, <1>1, <1>3, PaceStep
<1>2. CASE /\ fetch' = [fetch EXCEPT ![p] = [IdleFetch EXCEPT !.pc = "backoff", !.url = u, !.wait = Sleep(backoff[Domain[u]])]]
           /\ UNCHANGED <<elapsed, since>>
  <2>1. TypeOK'
    BY <1>0, <1>2, <1>3, <1>4, FetchTypes DEF TypeOK, Waiting
  <2>2. Targets'
    BY <1>0, <1>2 DEF Targets, IdleFetch, TypeOK, Waiting
  <2>3. Pacing'
    BY <1>0, <1>2 DEF Pacing, IdleFetch, TypeOK, Fetchers
  <2>4. PacedStep
    BY <1>0, <1>2 DEF PacedStep, LetThrough, IdleFetch, TypeOK, Fetchers
  <2> QED
    BY <2>1, <2>2, <2>3, <2>4
<1> QED
  BY <1>1, <1>2 DEF Begin

\* A slot wakes from the sleep of the backoff.
LEMMA EndBackoffStep ==
    ASSUME IInv, NEW p \in Fetchers, EndBackoff(p)
    PROVE  IInv' /\ PacedStep
<1>1. /\ fetch[p].pc = "backoff" /\ Pace(p, fetch[p].url) /\ UNCHANGED backoff
      /\ p \in Slots /\ fetch[p].url \in Urls /\ SafePublicUrl(fetch[p].url)
  BY DEF EndBackoff, IInv, Targets, Waiting
<1>2. unsettled' \in [Slots -> BOOLEAN]
  BY DEF EndBackoff, IInv, TypeOK
<1> QED
  BY <1>1, <1>2, PaceStep

\* A slot wakes from the sleep of the pace and requests without another look.
LEMMA EndPaceStep ==
    ASSUME IInv, NEW p \in Fetchers, EndPace(p)
    PROVE  IInv' /\ PacedStep
<1> DEFINE u == fetch[p].url
           d == Domain[u]
<1> USE DEF IInv
<1>0. /\ fetch[p].pc = "pace" /\ fetch[p].wait = 0
      /\ p \in Slots /\ u \in Urls /\ SafePublicUrl(u) /\ d \in Domains
      /\ Slots \subseteq Fetchers /\ Interval \in Nat
  BY FetchAssumption DEF EndPace, Targets, Waiting, Domains, Fetchers
<1>1. /\ fetch' = [fetch EXCEPT ![p] = Request(p, u)]
      /\ elapsed' = [elapsed EXCEPT ![d] = 0]
      /\ since' = [since EXCEPT ![p][d] = 0]
      /\ UNCHANGED <<backoff, unsettled>>
  BY DEF EndPace
<1>2. TypeOK'
  <2>1. Request(p, u) \in Fetch
    BY <1>0, FetchTypes
  <2>2. fetch' \in [Fetchers -> Fetch]
    BY <1>1, <2>1 DEF TypeOK
  <2>3. elapsed' \in [Domains -> 0 .. Interval] /\ since' \in [Slots -> [Domains -> 0 .. Interval]]
    BY <1>0, <1>1 DEF TypeOK
  <2> QED
    BY <1>1, <2>2, <2>3 DEF TypeOK
<1>3. Targets'
  BY <1>0, <1>1 DEF Targets, Request, TypeOK, Waiting
<1>4. Pacing'
  BY <1>0, <1>1 DEF Pacing, Request, TypeOK
<1>5. since[p][d] >= Interval
  BY <1>0 DEF Pacing, TypeOK
<1>6. PacedStep
  BY <1>0, <1>1, <1>5 DEF PacedStep, LetThrough, Request, TypeOK
<1> QED
  BY <1>2, <1>3, <1>4, <1>6

\* POST /feeds/validate requests at once; nobody paces it.
LEMMA ProbeStep ==
    ASSUME IInv, NEW p \in Fetchers, NEW u \in StartUrls, Probe(p, u)
    PROVE  IInv' /\ PacedStep
<1> USE DEF IInv
<1>0. p \in Probes /\ p \notin Slots /\ u \in Urls /\ SafePublicUrl(u) /\ Slots \subseteq Fetchers
  BY FetchAssumption DEF Probe, Fetchers
<1>1. fetch' = [fetch EXCEPT ![p] = Request(p, u)] /\ UNCHANGED <<elapsed, backoff, since, unsettled>>
  BY DEF Probe
<1>2. TypeOK'
  BY <1>0, <1>1, FetchTypes DEF TypeOK
<1>3. Targets'
  BY <1>0, <1>1 DEF Targets, Request, TypeOK, Waiting
<1>4. Pacing'
  BY <1>0, <1>1 DEF Pacing, TypeOK
<1>5. PacedStep
  BY <1>0, <1>1 DEF PacedStep, LetThrough, TypeOK
<1> QED
  BY <1>2, <1>3, <1>4, <1>5

\* A fetch that is over, whatever becomes of the backoff of its domain.
LEMMA DoneStep ==
    ASSUME IInv, NEW p \in Fetchers, Done(p), UNCHANGED <<elapsed, since>>,
           backoff' \in [Domains -> 0 .. LongestBackoff], unsettled' \in [Slots -> BOOLEAN]
    PROVE  IInv' /\ PacedStep
<1> USE DEF IInv, Done
<1>1. TypeOK'
  BY FetchTypes DEF TypeOK
<1>2. Targets'
  BY DEF Targets, IdleFetch, TypeOK, Waiting
<1>3. Pacing'
  BY DEF Pacing, IdleFetch, TypeOK, Fetchers
<1>4. PacedStep
  BY DEF PacedStep, LetThrough, IdleFetch, TypeOK, Fetchers
<1> QED
  BY <1>1, <1>2, <1>3, <1>4

\* One hop of safeFetch: its target has been checked.
LEMMA RedirectStep ==
    ASSUME IInv, NEW p \in Fetchers, NEW u \in Urls, Redirect(p, u)
    PROVE  IInv' /\ PacedStep
<1> USE DEF IInv
<1>1. CASE Done(p)
  <2>1. backoff' \in [Domains -> 0 .. LongestBackoff] /\ UNCHANGED <<elapsed, since>> /\ unsettled' \in [Slots -> BOOLEAN]
    BY DEF Redirect, TypeOK
  <2> QED
    BY <1>1, <2>1, DoneStep
<1>2. CASE SafePublicUrl(u) /\ fetch[p].hop < MaxRedirects /\ fetch' = [fetch EXCEPT ![p].at = u, ![p].hop = @ + 1]
  <2>0. fetch[p].pc = "request" /\ UNCHANGED <<elapsed, backoff, since, unsettled>>
    BY DEF Redirect
  <2>1. TypeOK'
    <3>1. fetch[p] \in Fetch
      BY DEF TypeOK
    <3>2. fetch[p].hop + 1 \in 0 .. MaxRedirects
      BY <1>2, <3>1, FetchFields, FetchAssumption
    <3>3. [fetch[p] EXCEPT !.at = u, !.hop = @ + 1] \in Fetch
      BY <3>1, <3>2 DEF Fetch
    <3>4. fetch' = [fetch EXCEPT ![p] = [fetch[p] EXCEPT !.at = u, !.hop = @ + 1]]
      BY <1>2, <3>1 DEF TypeOK, Fetch
    <3> QED
      BY <2>0, <3>3, <3>4 DEF TypeOK
  <2>2. Targets'
    BY <1>2, <2>0 DEF Targets, TypeOK, Waiting
  <2>3. Pacing'
    BY <1>2, <2>0 DEF Pacing, TypeOK, Fetchers
  <2>4. PacedStep
    BY <1>2, <2>0 DEF PacedStep, LetThrough, TypeOK, Fetchers
  <2> QED
    BY <2>1, <2>2, <2>3, <2>4
<1> QED
  BY <1>1, <1>2 DEF Redirect

\* 429 or 503: a backoff is a number of ticks.
LEMMA ThrottledStep ==
    ASSUME IInv, NEW p \in Fetchers, NEW status \in {429, 503}, NEW r \in RetryAfters \cup {NoRetryAfter},
           Throttled(p, status, r)
    PROVE  IInv' /\ PacedStep
<1> DEFINE d == Domain[fetch[p].url]
<1>0. fetch[p].url \in Urls /\ d \in Domains /\ backoff[d] \in 0 .. LongestBackoff
  BY DEF IInv, Targets, Throttled, TypeOK, Domains
<1>1. BackoffAfter(d, status, r) \in 0 .. LongestBackoff
  BY <1>0, Longest, FetchAssumption DEF BackoffAfter, Max2, Min2
<1>2. backoff' \in [Domains -> 0 .. LongestBackoff] /\ Done(p) /\ UNCHANGED <<elapsed, since>>
  BY <1>0, <1>1 DEF Throttled, IInv, TypeOK
<1>3. unsettled' \in [Slots -> BOOLEAN]
  BY DEF Throttled, Unsettle, IInv, TypeOK
<1> QED
  BY <1>2, <1>3, DoneStep

\* A response, an error or the timeout.
LEMMA EndStep ==
    ASSUME IInv, NEW p \in Fetchers, Answer(p) \/ Abort(p)
    PROVE  IInv' /\ PacedStep
<1>1. backoff' \in [Domains -> 0 .. LongestBackoff] /\ Done(p) /\ UNCHANGED <<elapsed, since>>
  BY Longest DEF Answer, Abort, IInv, TypeOK
<1>2. unsettled' \in [Slots -> BOOLEAN]
  BY DEF Answer, Abort, Unsettle, IInv, TypeOK
<1> QED
  BY <1>1, <1>2, DoneStep

\* A tick brings the end of a sleep no nearer than the interval.
LEMMA TickStep ==
    ASSUME IInv, Tick
    PROVE  IInv' /\ PacedStep
<1> USE DEF IInv
<1>0. Interval \in Nat /\ Slots \subseteq Fetchers
  BY FetchAssumption DEF Fetchers
<1>1. /\ \A n \in Nat : Down(n) \in Nat /\ Down(n) + 1 >= n
      /\ \A m \in Nat : \A n \in 0 .. m : Down(n) \in 0 .. m
  BY DEF Down, Max2
<1>2. \A n \in 0 .. Interval : Min2(Interval, n + 1) \in 0 .. Interval
  BY <1>0 DEF Min2
<1>3. ASSUME NEW p \in Fetchers
      PROVE  /\ fetch[p] \in Fetch /\ fetch'[p] \in Fetch
             /\ fetch'[p].pc = fetch[p].pc /\ fetch'[p].url = fetch[p].url /\ fetch'[p].at = fetch[p].at
             /\ fetch'[p].wait = Down(fetch[p].wait)
  <2>1. fetch[p] \in Fetch /\ fetch'[p] = [fetch[p] EXCEPT !.wait = Down(@), !.timer = Down(@)]
    BY DEF Tick, TypeOK
  <2>2. Down(fetch[p].wait) \in 0 .. Max2(LongestBackoff, Interval) /\ Down(fetch[p].timer) \in 0 .. Timeout
    BY <1>1, <2>1, FetchFields, Longest, FetchAssumption
  <2> QED
    BY <2>1, <2>2 DEF Fetch
<1>4. TypeOK'
  <2>1. backoff' \in [Domains -> 0 .. LongestBackoff]
    BY <1>1, Longest DEF TypeOK, Tick
  <2>2. fetch' \in [Fetchers -> Fetch]
    BY <1>3 DEF Tick
  <2>3. UNCHANGED unsettled
    BY DEF Tick
  <2> QED
    BY <1>0, <1>2, <2>1, <2>2, <2>3 DEF TypeOK, Tick
<1>5. Targets'
  BY <1>3 DEF Targets
<1>6. ASSUME NEW p \in Slots, NEW d \in Domains PROVE elapsed'[d] <= since'[p][d]
  <2>1. elapsed'[d] = Min2(Interval, elapsed[d] + 1) /\ since'[p][d] = Min2(Interval, since[p][d] + 1)
    BY DEF Tick
  <2>2. elapsed[d] \in Int /\ since[p][d] \in Int /\ elapsed[d] <= since[p][d]
    BY <1>0 DEF Pacing, TypeOK
  <2> QED
    BY <1>0, <2>1, <2>2 DEF Min2
<1>7. ASSUME NEW p \in Slots, fetch'[p].pc = "pace"
      PROVE  since'[p][Domain[fetch'[p].url]] + fetch'[p].wait >= Interval
  <2> DEFINE d == Domain[fetch[p].url]
  <2>1. p \in Fetchers /\ fetch[p].pc = "pace" /\ fetch'[p].url = fetch[p].url /\ fetch'[p].wait = Down(fetch[p].wait)
    BY <1>0, <1>3, <1>7
  <2>2. d \in Domains
    BY <2>1 DEF Targets, Domains
  <2>3. since[p][d] \in 0 .. Interval /\ fetch[p].wait \in Nat /\ since[p][d] + fetch[p].wait >= Interval
    BY <1>3, <2>1, <2>2, FetchFields DEF Pacing, TypeOK
  <2>4. since'[p][d] = Min2(Interval, since[p][d] + 1)
    BY <2>2 DEF Tick
  <2>5. Down(fetch[p].wait) \in Nat /\ Down(fetch[p].wait) + 1 >= fetch[p].wait
    BY <1>1, <2>3
  <2> QED
    BY <1>0, <2>1, <2>3, <2>4, <2>5 DEF Min2
<1>8. PacedStep
  BY <1>0, <1>3 DEF PacedStep, LetThrough
<1> QED
  BY <1>4, <1>5, <1>6, <1>7, <1>8 DEF Pacing

\* IInv is kept by every step, and every step is paced.
LEMMA NextIInv ==
    ASSUME IInv, [Next]_vars
    PROVE  IInv' /\ (Next => PacedStep)
<1>1. CASE Tick
  BY <1>1, TickStep
<1>2. ASSUME NEW p \in Fetchers, Wake(p) \/ Answer(p) PROVE IInv' /\ PacedStep
  BY <1>2, EndBackoffStep, EndPaceStep, EndStep DEF Wake
<1>3. ASSUME NEW p \in Fetchers, NEW u \in StartUrls, Begin(p, u) \/ Probe(p, u) PROVE IInv' /\ PacedStep
  BY <1>3, BeginStep, ProbeStep
<1>4. ASSUME NEW p \in Fetchers, NEW u \in Urls, Redirect(p, u) PROVE IInv' /\ PacedStep
  BY <1>4, RedirectStep
<1>5. ASSUME NEW p \in Fetchers, NEW status \in {429, 503}, NEW r \in RetryAfters \cup {NoRetryAfter},
             Throttled(p, status, r)
      PROVE  IInv' /\ PacedStep
  BY <1>5, ThrottledStep
<1>6. CASE UNCHANGED vars
  <2>1. IInv'
    BY <1>6 DEF vars, IInv, TypeOK, Targets, Pacing
  <2>2. PacedStep
    BY <1>6 DEF vars, PacedStep, LetThrough
  <2> QED
    BY <2>1, <2>2
<1> QED
  BY <1>1, <1>2, <1>3, <1>4, <1>5, <1>6 DEF Next

\* Every request, on the first hop or a later one, by a feed job or by a probe,
\* goes to a checked URL (assertSafePublicUrl before every hop of safeFetch).
THEOREM SafeRequests == Spec => []RequestsAreSafe
<1>1. Init => IInv
  BY InitIInv
<1>2. IInv /\ [Next]_vars => IInv'
  BY NextIInv
<1>3. IInv => RequestsAreSafe
  BY DEF IInv, Targets, RequestsAreSafe
<1> QED
  BY <1>1, <1>2, <1>3, PTL DEF Spec

\* The limiter of a worker lets no slot through to a domain twice within the
\* interval, however many waiters have read the same lastRequestAt (waitForSlot).
THEOREM PacedSlots == Spec => SlotsArePaced
<1>1. Init => IInv
  BY InitIInv
<1>2. IInv /\ [Next]_vars => IInv'
  BY NextIInv
<1>3. IInv /\ [Next]_vars => [PacedStep]_vars
  BY NextIInv
<1> QED
  BY <1>1, <1>2, <1>3, PTL DEF Spec, SlotsArePaced, PacedStep

\* The types of the variables hold: no redirect chain, sleep, timer or backoff
\* outgrows its limit (MaxRedirects, FETCH_TIMEOUT_MS, the ceiling of applyBackoff).
THEOREM TypeCorrect == Spec => []TypeOK
<1>1. Init => IInv
  BY InitIInv
<1>2. IInv /\ [Next]_vars => IInv'
  BY NextIInv
<1>3. IInv => TypeOK
  BY DEF IInv
<1> QED
  BY <1>1, <1>2, <1>3, PTL DEF Spec

-----------------------------------------------------------------------------
(* The backoff of a domain *)

\* A waiter whose domain was left alone sleeps at least as long as the backoff
\* lasts, and has outlived it when it waits for its pace.
Heeds(p) ==
    /\ fetch[p].pc = "backoff" => backoff[Domain[fetch[p].url]] <= fetch[p].wait
    /\ fetch[p].pc = "pace" => backoff[Domain[fetch[p].url]] = 0

Heeding == \A p \in Slots : ~unsettled[p] => Heeds(p)

\* A slot that is let through meets no backoff that was there when it asked.
HeedStep ==
    \A p \in Slots : LetThrough(p) /\ ~unsettled[p] => backoff[Domain[fetch'[p].url]] = 0

\* Only p moves: the others heed the backoff as they did.
LEMMA OthersHeed ==
    ASSUME IInv, Heeding, NEW p \in Fetchers, NEW r, fetch' = [fetch EXCEPT ![p] = r],
           UNCHANGED backoff, \A q \in Slots : q # p => unsettled'[q] = unsettled[q],
           p \in Slots => (unsettled'[p] \/ Heeds(p)'),
           p \in Slots /\ fetch[p].pc # "request" /\ r.pc = "request" /\ ~unsettled[p] => backoff[Domain[r.url]] = 0
    PROVE  Heeding' /\ HeedStep
<1>1. /\ fetch'[p] = r
      /\ \A q \in Fetchers : q # p => fetch'[q] = fetch[q]
  BY DEF IInv, TypeOK
<1>2. ASSUME NEW q \in Slots, ~unsettled'[q] PROVE Heeds(q)'
  <2>1. CASE q = p
    BY <1>2, <2>1
  <2>2. CASE q # p
    BY <1>1, <1>2, <2>2 DEF Heeding, Heeds, Fetchers
  <2> QED
    BY <2>1, <2>2
<1>3. ASSUME NEW q \in Slots, LetThrough(q), ~unsettled[q] PROVE backoff[Domain[fetch'[q].url]] = 0
  BY <1>1, <1>3 DEF LetThrough, Fetchers
<1> QED
  BY <1>2, <1>3 DEF Heeding, HeedStep

\* waitForSlot after the backoff, for a slot that has outlived it.
LEMMA PaceHeeds ==
    ASSUME IInv, Heeding, NEW p \in Slots, NEW u \in Urls, Pace(p, u), UNCHANGED backoff,
           \A q \in Slots : q # p => unsettled'[q] = unsettled[q],
           unsettled'[p] \/ backoff[Domain[u]] = 0,
           unsettled[p] \/ backoff[Domain[u]] = 0
    PROVE  Heeding' /\ HeedStep
<1>0. p \in Fetchers
  BY DEF Fetchers
<1>1. CASE fetch' = [fetch EXCEPT ![p] = Request(p, u)]
  <2>1. Request(p, u).pc = "request" /\ Request(p, u).url = u
    BY DEF Request
  <2>2. Heeds(p)'
    BY <1>0, <1>1, <2>1 DEF Heeds, IInv, TypeOK
  <2> QED
    BY <1>0, <1>1, <2>1, <2>2, OthersHeed
<1>2. CASE fetch' = [fetch EXCEPT ![p] = [IdleFetch EXCEPT !.pc = "pace", !.url = u, !.wait = Interval - elapsed[Domain[u]]]]
  <2> DEFINE r == [IdleFetch EXCEPT !.pc = "pace", !.url = u, !.wait = Interval - elapsed[Domain[u]]]
  <2>1. r.pc = "pace" /\ r.url = u /\ fetch' = [fetch EXCEPT ![p] = r]
    BY <1>2 DEF IdleFetch
  <2> HIDE DEF r
  <2>2. unsettled'[p] \/ Heeds(p)'
    BY <1>0, <2>1 DEF Heeds, IInv, TypeOK
  <2> QED
    BY <1>0, <2>1, <2>2, OthersHeed
<1> QED
  BY <1>1, <1>2 DEF Pace

\* A slot that begins looks at the backoff itself.
LEMMA BeginHeeds ==
    ASSUME IInv, Heeding, NEW p \in Fetchers, NEW u \in StartUrls, Begin(p, u)
    PROVE  Heeding' /\ HeedStep
<1>0. p \in Slots /\ u \in Urls /\ Domain[u] \in Domains /\ UNCHANGED backoff /\ fetch[p].pc = "idle"
  BY FetchAssumption DEF Begin, Domains
<1>1. /\ unsettled'[p] = (backoff[Domain[u]] > MaxTimer)
      /\ \A q \in Slots : q # p => unsettled'[q] = unsettled[q]
  BY <1>0 DEF Begin, IInv, TypeOK
<1>2. CASE backoff[Domain[u]] = 0 /\ Pace(p, u)
  BY <1>0, <1>1, <1>2, PaceHeeds
<1>3. CASE fetch' = [fetch EXCEPT ![p] = [IdleFetch EXCEPT !.pc = "backoff", !.url = u, !.wait = Sleep(backoff[Domain[u]])]]
  <2> DEFINE r == [IdleFetch EXCEPT !.pc = "backoff", !.url = u, !.wait = Sleep(backoff[Domain[u]])]
  <2>1. r.pc = "backoff" /\ r.url = u /\ r.wait = Sleep(backoff[Domain[u]]) /\ fetch' = [fetch EXCEPT ![p] = r]
    BY <1>3 DEF IdleFetch
  <2> HIDE DEF r
  <2>2. backoff[Domain[u]] \in Nat
    BY <1>0, Longest DEF IInv, TypeOK
  <2>3. fetch'[p] = r
    BY <2>1 DEF IInv, TypeOK
  <2>5. ~unsettled'[p] => r.wait = backoff[Domain[u]]
    BY <1>1, <2>1, <2>2 DEF Sleep
  <2>4. unsettled'[p] \/ Heeds(p)'
    BY <1>0, <2>1, <2>2, <2>3, <2>5 DEF Heeds
  <2> QED
    BY <1>0, <1>1, <2>1, <2>4, OthersHeed
<1> QED
  BY <1>2, <1>3 DEF Begin

\* A slot that wakes had nothing left to wait for.
LEMMA WakeHeeds ==
    ASSUME IInv, Heeding, NEW p \in Fetchers, EndBackoff(p) \/ EndPace(p)
    PROVE  Heeding' /\ HeedStep
<1> DEFINE u == fetch[p].url
<1>0. p \in Slots /\ u \in Urls /\ Domain[u] \in Domains /\ UNCHANGED <<backoff, unsettled>>
  BY DEF EndBackoff, EndPace, IInv, Targets, Waiting, Domains
<1>1. backoff[Domain[u]] \in Nat /\ fetch[p].pc \in Waiting /\ fetch[p].wait = 0
  BY <1>0, Longest DEF IInv, TypeOK, EndBackoff, EndPace, Waiting
<1>2. unsettled[p] \/ backoff[Domain[u]] = 0
  BY <1>0, <1>1 DEF Heeding, Heeds, Waiting
<1>3. CASE EndBackoff(p)
  <2>1. Pace(p, u)
    BY <1>3 DEF EndBackoff
  <2> QED
    BY <1>0, <1>2, <2>1, PaceHeeds
<1>4. CASE EndPace(p)
  <2>1. fetch' = [fetch EXCEPT ![p] = Request(p, u)]
    BY <1>4 DEF EndPace
  <2>2. Request(p, u).pc = "request" /\ Request(p, u).url = u
    BY DEF Request
  <2>3. Heeds(p)'
    BY <2>1, <2>2 DEF Heeds, IInv, TypeOK
  <2> QED
    BY <1>0, <1>2, <2>1, <2>2, <2>3, OthersHeed
<1> QED
  BY <1>3, <1>4

\* A fetch that ends with the backoff of its domain changed unsettles whoever
\* waits for that domain.
LEMMA ChangedHeeds ==
    ASSUME IInv, Heeding, NEW p \in Slots, Done(p), fetch[p].pc = "request", Unsettle(p, Domain[fetch[p].url]),
           NEW n, backoff' = [backoff EXCEPT ![Domain[fetch[p].url]] = n]
    PROVE  Heeding' /\ HeedStep
<1> DEFINE d == Domain[fetch[p].url]
<1>0. p \in Fetchers /\ Slots \subseteq Fetchers
  BY DEF Fetchers
<1>1. /\ fetch'[p].pc = "idle"
      /\ \A q \in Fetchers : q # p => fetch'[q] = fetch[q]
  BY <1>0 DEF Done, IdleFetch, IInv, TypeOK
<1>2. ASSUME NEW q \in Slots, ~unsettled'[q] PROVE Heeds(q)'
  <2>1. CASE q = p
    BY <1>1, <2>1 DEF Heeds
  <2>2. CASE q # p
    <3>1. fetch'[q] = fetch[q]
      BY <1>0, <1>1, <2>2
    <3>2. ~unsettled[q] /\ (fetch[q].url = NoUrl \/ Domain[fetch[q].url] # d)
      BY <1>2, <2>2 DEF Unsettle
    <3>3. CASE fetch[q].pc \in Waiting
      <4>1. fetch[q].url \in Urls /\ Domain[fetch[q].url] \in Domains
        BY <1>0, <3>3 DEF IInv, Targets, Waiting, Domains
      <4>2. backoff'[Domain[fetch[q].url]] = backoff[Domain[fetch[q].url]]
        BY <3>2, <4>1, FetchAssumption DEF IInv, TypeOK
      <4> QED
        BY <3>1, <3>2, <4>2 DEF Heeding, Heeds
    <3>4. CASE fetch[q].pc \notin Waiting
      BY <3>1, <3>4 DEF Heeds, Waiting
    <3> QED
      BY <3>3, <3>4
  <2> QED
    BY <2>1, <2>2
<1>3. HeedStep
  BY <1>0, <1>1 DEF HeedStep, LetThrough
<1> QED
  BY <1>2, <1>3 DEF Heeding

\* A fetcher that was requesting, or is a probe, goes on or ends: no backoff changes.
LEMMA RestHeeds ==
    ASSUME IInv, Heeding, NEW p \in Fetchers, NEW r, fetch' = [fetch EXCEPT ![p] = r], UNCHANGED <<backoff, unsettled>>,
           p \in Slots => fetch[p].pc = "request" /\ r.pc \in {"idle", "request"}
    PROVE  Heeding' /\ HeedStep
<1>1. p \in Slots => Heeds(p)'
  BY DEF Heeds, IInv, TypeOK
<1> QED
  BY <1>1, OthersHeed

\* A tick shortens a sleep as it shortens the backoff.
LEMMA TickHeeds ==
    ASSUME IInv, Heeding, Tick
    PROVE  Heeding' /\ HeedStep
<1>1. \A m, n \in Nat : /\ m <= n => Down(m) <= Down(n)
                        /\ Down(0) = 0
  BY DEF Down, Max2
<1>2. ASSUME NEW p \in Slots
      PROVE  /\ fetch[p] \in Fetch /\ p \in Fetchers /\ fetch'[p].pc = fetch[p].pc /\ fetch'[p].url = fetch[p].url
             /\ fetch'[p].wait = Down(fetch[p].wait) /\ unsettled'[p] = unsettled[p]
  BY DEF Tick, IInv, TypeOK, Fetch, Fetchers
<1>3. ASSUME NEW p \in Slots, ~unsettled'[p], fetch[p].pc \in Waiting PROVE Heeds(p)'
  <2> DEFINE d == Domain[fetch[p].url]
  <2>1. d \in Domains
    BY <1>2, <1>3 DEF IInv, Targets, Waiting, Domains
  <2>2. backoff'[d] = Down(backoff[d]) /\ backoff[d] \in Nat /\ fetch[p].wait \in Nat
    <3>1. backoff'[d] = Down(backoff[d])
      BY <2>1 DEF Tick
    <3>2. backoff[d] \in Nat
      BY <2>1, Longest DEF IInv, TypeOK
    <3>3. fetch[p].wait \in Nat
      BY <1>2, FetchFields
    <3> QED
      BY <3>1, <3>2, <3>3
  <2>3. Heeds(p)
    BY <1>2, <1>3 DEF Heeding
  <2> QED
    BY <1>1, <1>2, <2>2, <2>3 DEF Heeds
<1>4. ASSUME NEW p \in Slots, fetch[p].pc \notin Waiting PROVE Heeds(p)'
  BY <1>2, <1>4 DEF Heeds, Waiting
<1>5. HeedStep
  BY <1>2 DEF HeedStep, LetThrough
<1> QED
  BY <1>3, <1>4, <1>5 DEF Heeding

\* A response or a hop, the end of the timer, a probe, and a 429 or 503.
LEMMA EndHeeds ==
    ASSUME IInv, Heeding, NEW p \in Fetchers,
           \/ Answer(p) \/ Abort(p)
           \/ \E u \in StartUrls : Probe(p, u)
           \/ \E u \in Urls : Redirect(p, u)
           \/ \E status \in {429, 503}, r \in RetryAfters \cup {NoRetryAfter} : Throttled(p, status, r)
    PROVE  Heeding' /\ HeedStep
<1>0. IdleFetch.pc \in {"idle", "request"}
  BY DEF IdleFetch
<1>1. CASE Answer(p)
  <2>1. fetch' = [fetch EXCEPT ![p] = IdleFetch] /\ UNCHANGED <<backoff, unsettled>> /\ fetch[p].pc = "request"
    BY <1>1 DEF Answer, Done
  <2> QED
    BY <1>0, <2>1, RestHeeds
<1>2. CASE Abort(p)
  <2>1. Done(p) /\ fetch[p].pc = "request"
    BY <1>2 DEF Abort
  <2>2. CASE p \in Slots
    <3>1. backoff' = [backoff EXCEPT ![Domain[fetch[p].url]] = 0] /\ Unsettle(p, Domain[fetch[p].url])
      BY <1>2, <2>2 DEF Abort
    <3> QED
      BY <2>1, <2>2, <3>1, ChangedHeeds
  <2>3. CASE p \notin Slots
    <3>1. fetch' = [fetch EXCEPT ![p] = IdleFetch] /\ UNCHANGED <<backoff, unsettled>>
      BY <1>2, <2>3 DEF Abort, Done
    <3> QED
      BY <2>3, <3>1, RestHeeds
  <2> QED
    BY <2>2, <2>3
<1>3. ASSUME NEW u \in StartUrls, Probe(p, u) PROVE Heeding' /\ HeedStep
  <2>1. p \notin Slots /\ fetch' = [fetch EXCEPT ![p] = Request(p, u)] /\ UNCHANGED <<backoff, unsettled>>
    BY <1>3, FetchAssumption DEF Probe
  <2> QED
    BY <2>1, RestHeeds
<1>4. ASSUME NEW u \in Urls, Redirect(p, u) PROVE Heeding' /\ HeedStep
  <2>1. fetch[p].pc = "request" /\ UNCHANGED <<backoff, unsettled>>
    BY <1>4 DEF Redirect
  <2>2. CASE Done(p)
    <3>1. fetch' = [fetch EXCEPT ![p] = IdleFetch]
      BY <2>2 DEF Done
    <3> QED
      BY <1>0, <2>1, <3>1, RestHeeds
  <2>3. CASE fetch' = [fetch EXCEPT ![p].at = u, ![p].hop = @ + 1]
    <3> DEFINE r == [fetch[p] EXCEPT !.at = u, !.hop = @ + 1]
    <3>1. fetch' = [fetch EXCEPT ![p] = r] /\ r.pc = "request"
      BY <2>1, <2>3 DEF IInv, TypeOK, Fetch
    <3> HIDE DEF r
    <3> QED
      BY <2>1, <3>1, RestHeeds
  <2> QED
    BY <1>4, <2>2, <2>3 DEF Redirect
<1>5. ASSUME NEW status \in {429, 503}, NEW r \in RetryAfters \cup {NoRetryAfter}, Throttled(p, status, r)
      PROVE  Heeding' /\ HeedStep
  <2> DEFINE d == Domain[fetch[p].url]
             n == BackoffAfter(d, status, r)
  <2>1. p \in Slots /\ fetch[p].pc = "request" /\ Done(p) /\ Unsettle(p, d) /\ backoff' = [backoff EXCEPT ![d] = n]
    BY <1>5 DEF Throttled
  <2> HIDE DEF n
  <2> QED
    BY <2>1, ChangedHeeds
<1> QED
  BY <1>1, <1>2, <1>3, <1>4, <1>5

\* Heeding is kept by every step, and no step ignores a backoff.
LEMMA NextHeeds ==
    ASSUME IInv, Heeding, [Next]_vars
    PROVE  Heeding' /\ (Next => HeedStep)
<1>1. CASE Tick
  BY <1>1, TickHeeds
<1>2. ASSUME NEW p \in Fetchers, Wake(p) \/ Answer(p) PROVE Heeding' /\ HeedStep
  BY <1>2, WakeHeeds, EndHeeds DEF Wake
<1>3. ASSUME NEW p \in Fetchers, NEW u \in StartUrls, Begin(p, u) \/ Probe(p, u) PROVE Heeding' /\ HeedStep
  BY <1>3, BeginHeeds, EndHeeds
<1>4. ASSUME NEW p \in Fetchers, NEW u \in Urls, Redirect(p, u) PROVE Heeding' /\ HeedStep
  BY <1>4, EndHeeds
<1>5. ASSUME NEW p \in Fetchers, NEW status \in {429, 503}, NEW r \in RetryAfters \cup {NoRetryAfter},
             Throttled(p, status, r)
      PROVE  Heeding' /\ HeedStep
  BY <1>5, EndHeeds
<1>6. CASE UNCHANGED vars
  <2>1. Heeding'
    BY <1>6 DEF vars, Heeding, Heeds
  <2>2. HeedStep
    BY <1>6 DEF vars, HeedStep, LetThrough
  <2> QED
    BY <2>1, <2>2
<1> QED
  BY <1>1, <1>2, <1>3, <1>4, <1>5, <1>6 DEF Next

\* No feed job is let through while its domain backs off, unless another job
\* changed the backoff during its sleep or the backoff was longer than setTimeout
\* can wait: waitForSlot, which looks at the backoff once, needs no second look
\* as long as nobody else writes it and its sleep is one the timer can keep.
THEOREM BackoffsHeeded == Spec => BackoffIsHeeded
<1>1. Init => IInv /\ Heeding
  BY InitIInv DEF Init, Heeding, Heeds, IdleFetch, Fetchers
<1>2. IInv /\ Heeding /\ [Next]_vars => (IInv /\ Heeding)'
  BY NextIInv, NextHeeds
<1>3. IInv /\ Heeding /\ [Next]_vars => [HeedStep]_vars
  BY NextHeeds
<1> QED
  BY <1>1, <1>2, <1>3, PTL DEF Spec, BackoffIsHeeded, HeedStep
=============================================================================
