# FeedPulse in TLA+

FeedPulse polls RSS feeds, matches new entries against the rules of each tenant
and delivers alerts by webhook, email and Telegram. It runs as three kinds of
process (API, scheduler, worker) that share PostgreSQL and five BullMQ queues in
Redis. Almost everything that is hard about it happens between those processes:
a row is read in one statement and written in another, a job runs while the row
it is about changes, a process dies between a side effect and its bookkeeping, a
job id that is still in Redis swallows the next enqueue. This project models that
part of the system and checks it.

## Inventory

| Component | State | Operations | What makes it correct |
| --- | --- | --- | --- |
| Feed claims and scheduler tick | `feeds.status`, `auto_paused`, `error_count`, `next_check_at`, `claimed_at` | sweep of stuck feeds, batch claim (`FOR UPDATE SKIP LOCKED`), enqueues | every claim ends; a pause holds |
| `fetch-feed` queue | jobs by id `feed-<id>` or `feed-<id>-manual-<ms>`, retained failures | add, deduplicate, retry, stall, evict | an enqueue is swallowed only while a job of the feed is still to run |
| Feed job | what it read when it started | fetch, report success or failure, auto-pause | failures are counted from the row, not from a stale read |
| Feed API | requests between their read and their write | PATCH, DELETE, check-now, registration | no write resurrects what another decided; the cap on feeds |
| Asking for a delivery | `alerts.delivery_status` | ingestion, `POST /alerts/:id/send` | what is asked for is attempted |
| `alert-delivery` queue and attempt | per-channel columns, `sent`, `delivery_attempts` | webhook, email, Telegram, bookkeeping | sent means received; retries do not duplicate |
| Email quota | one Redis counter per tenant and UTC day | reserve, give back, release | the limit holds under concurrency |
| Telegram digests | `telegram_digest_items` | queue, list, send, mark, converge, repair | no item lost or duplicated, bookkeeping heals |
| OPML imports | `opml_imports`, `opml_import_items`, two queues, `feeds` | upload, parse, confirm, apply | what was previewed is applied, completely, and it ends |
| Rules and keyword matching | `rules` | create, batch create, PATCH, DELETE, match | what matches is decided by one consistent read |
| Entries and alert creation | `entries`, `alerts`, etag of the feed, pool connections | insert, match, upsert by canonical link, commit, ask for deliveries | one alert per article with every rule that matched; nothing hidden by a 304; no gridlock |
| Dead letters | `dead_letter_jobs`, writes under way | record jobs that failed for good, drain at shutdown | every final failure leaves a trace |
| Domain rate limiter, fetcher, URL safety | last request and backoff per domain, timers | wait, back off, follow redirects, abort | no request to a private host; origins are paced; fetches end |
| Migrations | `schema_migrations`, advisory lock | claim, check, backfill, execute, unlock | each file once and in order; an edited file stops its container |
| Settings and tenant secrets | ciphertext of the bot token, pending upgrades | save, clear, resolve, upgrade in the background | no old token comes back; a message goes out under the bot the settings ask for |
| Authentication, API keys, throttling | `api_keys`, counters in Redis or in memory | authenticate, bill, revoke, seed | revoked keys stay out; budgets hold |
| Observability, bootstrap, dashboard | counters, wiring | read-only | not modelled |

How they interact: the scheduler claims rows and adds `fetch-feed` jobs; the
worker's feed job reports back to the same rows, and in its transaction creates
alerts for which it then asks a delivery; the delivery attempt marks the columns
of the alert or queues digest items, which the scheduler's tick flushes; an OPML
import inserts rows into the same `feeds` table. Before any of it a container
has migrated the schema and seeded its key, every API request passes two guards,
every feed request passes the limiter of its worker, and every Telegram message
resolves a token that the settings API may be replacing. There are no callbacks across
processes other than the queues. PROJECT.json lists every component with its
status and every hazard at its line.

## Modules

| Module | Models |
| --- | --- |
| `FeedClaims` | feeds rows, `fetch-feed`, scheduler, feed job, PATCH/DELETE/check-now |
| `FeedClaimsProofs` | the TLAPS proofs about `FeedClaims` |
| `AlertDelivery` | delivery columns, `alert-delivery`, the calls that enqueue, the attempt, the email quota |
| `AlertDigests` | extends `AlertDelivery` with the digest sweep of the scheduler |
| `OpmlImports` | imports, items, both OPML queues, upload, confirm, parse, apply, feed registration |
| `Rules` | the rules table, its API calls, and matching |
| `Ingestion` | extends `Rules` with the transaction of a feed job, its locks and connections, dead letters and shutdown |
| `AlertBook` | the abstract specification of alerts that `Ingestion` implements |
| `FeedFetch` | rate limiter, redirect loop and timeout of feed jobs and probes |
| `Migrations` | concurrent migration runs |
| `Admission` | authentication and throttling of API requests, revocation and seeding of keys |
| `TenantSecrets` | the bot token of a tenant, the upgrade of its key version, and the bot a message goes out under |
| `MigrationsProofs`, `FeedFetchProofs`, `TenantSecretsProofs`, `AdmissionProofs`, `IngestionProofs`, `OpmlImportsProofs` | the TLAPS proofs about those modules |
| `AlertDeliveryProofs` | the TLAPS proofs about `AlertDelivery` and `AlertDigests` |
| `MC...` | the small sets TLC uses; the `.cfg` files give the remaining constants |

An operator whose comment begins with `Mutant` is a plausible bug of the
definition that follows it; PROJECT.json says which property it breaks. It is
not part of any specification.

The three queues are modelled alike. A job is absent, waiting, delayed, active or
failed, with the attempts it has made and the stalls it has had. `queue.add` with
an id that exists in any state changes nothing. A slot that takes a job owns its
lock until it leaves the job; a slot may lose the lock and go on running
(`lock_lost`), and the stalled check then returns the job to the queue or, beyond
`maxStalledCount`, fails it. A completed job is removed; a failed one stays until
it is evicted (`removeOnFail: 100`). All of this is BullMQ's and marked external.

### FeedClaims

`feeds[f]` holds the columns the SQL of the pipeline compares. Time is abstracted
to those comparisons: `due` for `next_check_at <= NOW()`, and a claim that is
fresh or stale for the stuck threshold. A tick is the sweep, the claim of a batch
and one lookup and one add per feed (`getJob`, then `add`), each its own step;
`Promise.all` rejects on the first failure while the other enqueues go on. The
job reads `error_count` when it starts and `updateAfterFetch` overwrites status,
counters and claim when it ends. When the answer of its COMMIT, or of the update after a
304, is lost (`SuccessUnanswered`), the row is written and the catch block still
writes the failure over it. `alone` is a history field: no other slot has run the
feed since this one read its row. PATCH and DELETE read the row and write status
and `next_check_at` computed from it in a second statement. Entries and alerts,
which the same transaction writes, are in `Ingestion`.

### AlertDelivery and AlertDigests

An attempt is a record that walks through `execute`: what it read, the stages
still to run, the chats the current loop has not reached, and whether something
was refused. A message is accepted, refused, or accepted with the answer lost
(`unanswered`). `got` is a history variable: the copies each destination has
received. `AlertDigests` adds the sweep: repair, list, send, mark item by item,
converge. The list is `ORDER BY MIN(scheduled_for) LIMIT`: every item gets an age
when it becomes due, and a sweep lists at most `MaxGroups` groups, none of them
younger than one it leaves out.

### OpmlImports

A file is the sequence of its `xmlUrl`s after normalisation, with `BadUrl` for one
that `normalizeFeedUrl` rejects, or `Malformed`. `Hash` may map two URLs to one
hash, because the code has a branch for it. A row of `feeds` is hashed or
`legacy` (registered before `normalized_url_hash` existed). Parse and apply each
commit one transaction; the status they act on is read before it, outside. The
apply transaction first reads its candidates (`ListCandidates`), without a lock and
at READ COMMITTED, and later writes by the ids it read; `reads` is what it holds in
between, and `gone` says that a parse job has deleted those rows meanwhile, so that
its UPDATEs find nothing. Two apply transactions that insert the same new feeds in
opposite orders, or a late parse and an apply of one import, deadlock and PostgreSQL
aborts one (`Deadlock`).

### Rules, Ingestion and AlertBook

A text is the set of phrases that occur in it as whole expressions; a rule has
include and exclude phrases. PATCH and DELETE keep the row they read until they
write all of it.

A feed publishes versions, each a sequence of items with guid, link, date and
text. The version stands for the etag: a request for the version the row knows is
a 304. A document may be empty: its job goes on to the rules. A slot runs `execute` one statement at a time: connect, insert each entry
(waiting for an open transaction with the same guid or hash), read the rules
through the pool, collapse the matches by article (`Upserts`: the first matched
entry of an article has the rules of all of them, the others have no row), upsert
each alert in that order (waiting for an open transaction with the same article), commit, ask for the delivery of each
alert it created, release. Uncommitted work is in `run[s]`; `WriteTransaction`
moves it to the tables. `ConnectionFree` counts the clients that are checked out:
a job holds one from connect to release and needs a second one for the rules and
the deliveries, while the OPML workers of the process may hold two per slot.
Transactions that wait in a cycle are PostgreSQL's to break (`AbortVictim`).
A failed fetch that pauses its feed ends its job without another attempt
(`PauseFeed`); every other failure is thrown and tried again (`ReportFailure`).
`letters` is what became of the final failure of each job: the write is started
by the `failed` event and drained by `onApplicationShutdown`.

`AlertBook` says what remains when all of that is forgotten: a line per article
that only gains rules, and at most one request for its delivery, after it is
there. `Ingestion` implements it with `book <- alerts` and the rule ids for
`RuleSet`; TLC checks the refinement in the `ingest` run, TLAPS proves it.

### FeedFetch

Time is a tick; every deadline is what is left of it. A slot is let through at
once or sleeps for the backoff, then for the pace, and does not look again after
either sleep, as in `waitForSlot`. A probe goes around the limiter. An origin may
answer, redirect to any URL, throttle with or without Retry-After, or stay silent
until the timeout. `Sleep` is setTimeout: a delay over `MaxTimer` (2147483647 ms)
is over at once. `since` and `unsettled` are history variables.

### Migrations

Each container has the files of its image and runs them under the advisory lock;
a claim is the row inserted by an open transaction and blocks other claims of the
version. A body stands for its checksum. `LoseLock` cuts the connection that
holds the advisory lock while the run goes on with others.

### Admission

A request is authenticated by the table or by Clerk, then billed to the budget of
its policy and tenant. A counter is its hits and the ticks left of its window, in
Redis or in each replica. A replica boots through the two statements of
`seedBootstrapApiKey`. `admitted` is a history variable: admissions of the last
`Window` ticks.

### TenantSecrets

A ciphertext is the token, the master key and the version it is under and the
number of its encryption, which stands for the IV. Processes may have different
master keys while a key is replaced. `Bot` is the notifier's choice: the token the
resolver answered, or the global one when it answered none. `meant` and `heard` are history variables.

## Runs

Passing runs:

- `feed_claims` - one feed, two slots, a PATCH, DELETE or manual check, one failure
  of any kind, under fairness. A failure is counted from the row unless another
  execution overlapped or the answer of a success was lost; a feed that was not
  auto-paused stays paused once what was under way is over; every claim ends; a
  pollable feed is fetched again and again unless a retained failure holds its job
  id.
- `alert_delivery` - two alerts, two slots, a repeated send, a quota of one, four
  kinds of tenant (email; webhook with recipients but no transport; Telegram at
  once; Telegram digests), one failure of any kind. What is marked sent was
  received, copies need failures, the quota holds, and a delivered channel stays
  delivered when an attempt that lost its lock goes on.
- `alert_digest` - one alert, two chats, digests beside a webhook, instant messages
  beside email, and a webhook with recipients that no transport serves; one group
  per sweep, a repeated send, fairness and one failure. Digests are offered until
  accepted unless a group that is no younger stays in front for ever, duplicated only
  by failures, the column converges, and deliveries settle where every channel has a
  transport.
- `opml_imports` - two imports, two confirmations, one registration, one failure
  of any kind. A completed import left nothing out, unless its items were replaced
  between the read and the COMMIT of the apply; the preview is not replaced.
- `opml_live` - one import under fairness. A queued import settles.
- `ingest` - two feeds that publish the same two articles in opposite orders, one
  of them with a second version that repeats an article as two items; three jobs
  (one of them manual) on two slots, one call of the rules API, one failure or
  shutdown. Every rule that matched is in its alert, validators are stored only
  with their entries, a new alert is asked for unless something failed, final
  failures leave a letter, the pool never locks up, and `AlertBook` is implemented.
- `fetch` - two slots and a probe on one domain, an origin that does anything. No
  request to a private host; the limiter of a worker lets no slot of it through to a
  domain twice within the interval; a backoff is heeded unless another fetch changed
  it or it is too long for setTimeout; every fetch ends.
- `migrations` - three containers (old image, new image, edited image), two
  starting tables, three failures.
- `admission` - two replicas, two requests, one key, both stores, one failure.
- `secrets` - two processes, two master keys, two saves, one restart, one failure. No
  upgrade brings an old token back; a message goes out under a bot the tenant had
  since its settings were read, or under the operator's if it had none or its
  ciphertext does not open; a legacy ciphertext is upgraded.

Two violation runs, disagreements between the code and a sentence of the
repository, quoted in PROJECT.json:

- `feed_retry` - a feed whose job used up its attempts is never fetched again:
  the failed job retained under `feed-<id>` deduplicates every later enqueue.
- `secrets_bot` - a process that cannot open the ciphertext of a tenant sends the
  tenant's message under the operator's bot: the resolver answers `undefined`, and
  `isTelegramEnabled` and `sendTelegramMessage` both fall back to the global token.

### Observed disagreements

Facts of the models that differ from a sentence of the repository, or that a
reader might not expect. The passing properties are stated around them.

- A feed disabled while its fetch is in flight is active again when the fetch
  reports: `updateAfterFetch` writes the status whatever the row holds
  (`docs/api.md:124`, "Disable; history is preserved.").
- `POST /alerts/:id/send` after a delivery that failed for good adds nothing while
  the failed job is retained under `alert-<id>` (`docs/api.md:304`, "queues a
  delivery attempt").
- One chat of two refuses, and the retry sends to the other again
  (`docs/adr/0004-per-channel-delivery-tracking.md:48`, "No duplicate deliveries on
  retry").
- Two confirmations of an import at once can leave it `importing` for ever: the
  second overwrites `completed` while the job is still active, and its enqueue is
  a no-op (`docs/api.md:139`, "Idempotent confirm"). If the enqueue comes later, a
  second apply runs with no candidates: a failed import becomes completed, and
  `imported_items` becomes 0.
- An import is not subject to `MAX_FEEDS_PER_TENANT` (`docs/api.md:414`).
- `POST /rules/batch` reports a name that it lists twice both as created and as
  duplicate (`rules.controller.ts:58`, "exactly once").
- A job that the stalled check fails has made fewer attempts than it is allowed,
  is classified as retryable and leaves no dead letter (`docs/architecture.md:217`,
  "terminal BullMQ failures are written").
- Waiters of one domain that sleep for the same slot are let through together
  (`domain-rate-limiter.ts:6`, "Maximum requests per second allowed per domain").
  `SlotsArePaced` is the bound that remains.
- A fetch that times out clears the backoff of its domain, whoever set it.
- A Retry-After of more than 2147483647 ms is not waited for: setTimeout fires after
  1 ms and the fetch goes out during the backoff (`domain-rate-limiter.ts:129,147`).
- A feed that was auto-paused, and then paused or deleted by its owner, goes on being
  polled: `update` leaves `last_error` with its `auto-paused:` prefix, which is what
  `claimDueFeeds` selects by. `Dormant` leaves such feeds out.
- When the answer of a COMMIT or of the update after a 304 is lost, the catch block
  writes the error count read at the start, plus one, over the 0 that was just
  written (`process-feed-job.use-case.ts:248`).
- Digest groups that are refused sweep after sweep keep their places at the head of
  the list; with as many of them as the list is long no other group is ever offered
  (`alerts.repository.ts:676`).
- Recipients without an email transport are a required channel that is never
  attempted: the alert stays `retrying` while its job completes
  (`process-alert-delivery.use-case.ts:191-206`).
- `POST /alerts/:id/send` between the outcome of an attempt and the removal of its job
  marks the row `queued` and adds nothing; no job is left to change it.
- An import can become completed with candidates left: a parse job that lost its lock
  replaces the items after the apply transaction has read them. The same two may
  deadlock.

### Bounds, and why they are enough

- One feed (`feed_claims`): feeds interact only through batch slots and the list of
  retained failures, and the theorems cover any number of them. The thresholds of
  the auto-pause are 1, so that one failure pauses and the next fetch counts again.
  Nothing in it stops, so the deadlock check is on.
- Two slots: every race of the jobs is between two executions, one of them
  usually without its lock.
- `Attempts` 2 stands for the 3 or 4 of the queues: a first, a last and a retry. `MaxStalls` is
  BullMQ's 1. `RetainFailed` 1 stands for 100, so that the list is full at once.
- One failure per behaviour, of any kind and at any point; properties that count
  failures (`CopiesNeedFaults`, `QuotaHolds`) compare with that count.
- `ingest`: two articles in opposite orders are the smallest deadlock of upserts;
  `ConcurrencyCap` 2 and `PoolMax` 7 stand for the clamp and the pool of the code
  in the same relation, three clients per slot and one to spare. `Attempts` is 1,
  so that one failure is final; a retry is another job of the same feed. The states
  of a behaviour of `Ingestion` do not repeat, so `NoGridlock` is what liveness
  amounts to.
- `fetch`: an interval and a timeout of two ticks and backoffs of up to four
  are long enough for each timer to end before and after each other one; two
  redirects stand for five. `MaxTimer` is below the longest Retry-After and not below
  the longest backoff without one, as in the code, so that both kinds occur.
- `alert_digest`: a list of one group stands for the 30 of the code, and ages 0 and 1
  put either chat first, or let them tie. A repeated send meets every point of an
  attempt.
- `migrations`: three failures are one for each container; two tries at the lock
  stand for the deadline. `lockLost` is part of the statement of `ServesItsSchema`.
- `admission`: a limit of one and a window of two ticks put the window's end into
  every interleaving; the write budget has limit 0, the disabled case. `BudgetHolds`
  counts two windows per stretch and one limit per failure. A key that is created
  has a hash no earlier request can know, so creation is left out.
- `secrets`: two saves are a token and its replacement or clearing while an upgrade
  is under way in each process.
- Identical requests in flight are one element of a set. Chats of a loop and
  groups of a sweep are taken in any order. One scheduler, as deployed.
- Settings of a tenant do not change, and one UTC day is modelled.
- The notifier that is wired always answers `isEnabled` with true, so the
  branches for a disabled one are left out.
- A digest message shows twelve items at most; `got` counts an alert as received
  with the message that covers it.

### Fairness

Weak fairness for what a process does by itself once it began, for the timers
(`due`, stale claims, ticks), for delayed jobs and the stalled check; strong
fairness for a slot taking a given waiting job, because BullMQ's list is FIFO and
slots become free again and again. No fairness for users, for destinations, for
successful fetches, for eviction of a retained failure, or for failures.

`FeedFetch` has the clock and the timers that are due, and no answer of an origin;
`Migrations` has the runners that are alive; `Admission` has the clock alone, and
`PersistenceIsAdmitted` assumes the persistence it is about; `TenantSecrets` has
deliveries that keep coming to every process and upgrades that come to an end.
The deadlock check is off where everything may be done: the alert, OPML, ingest
and migration runs, and `fetch`, whose clock always ticks.

## Proofs

`FeedClaimsProofs` proves, for every value of the constants that satisfies
`ConstantsAssumption`:

- `TypeCorrect`: `Spec => []TypeOK`;
- `ErrorCountsAreFresh`: `Spec => []FreshErrorCount`;
- `FetchesRunAlone`: `Spec => []FetchesAlone`, assuming `Undisturbed`: no manual job
  ids, and neither lost locks nor Redis flushes among the faults;
- `DormantFeedsStay`: `Spec => DormantFeedsRest`, an action property.

They share one inductive invariant, `IInv`: the types, `BusySlots` (a slot that is
not idle has a job, a slot that owns is not idle), `RetentionAgrees` and
`OneOwnerPerJob`. Neither of the last two is inductive alone. That a job with an
owner is active is what keeps the stalled check, an eviction or a late enqueue from
handing it to a second slot; that the retained list holds exactly the failed jobs,
each once, is what keeps an eviction from removing an active one. They are facts
about BullMQ as it is used here, so they are lemmas and not results.

`ErrorCountsAreFresh` adds `AloneSlots`: a slot that is alone on its feed shares it
with no other busy slot. So the only reports that could change the count under it are
its own, and the PATCH and DELETE writes leave the column alone. `FetchesRunAlone`
says when its hypothesis is met: with only the scheduler's id and every busy slot in
possession of its lock (`AllOwn`), a feed has one job, hence one owner, hence one
fetch in flight. With a manual check or a lost lock two fetches overlap and the
second report writes a count taken from a stale read (a hazard of
`process-feed-job.use-case.ts:248`).

`DormantFeedsStay` splits dormancy into the row, the jobs, the slots and the
scheduler's lists (`AtRest`), and shows of each group of actions that it touches
none of them: a claim does not choose the row, and every other way back needs a
job, a slot or a list entry that a dormant feed does not have. A feed that was
auto-paused is not dormant, whoever paused it later: a claim does choose its row.

`MigrationsProofs` proves, from `MigrationsAssumption` (every image has at least
one file, and a database starts with a prefix of the versions applied):

- `FilesRunOnce`: `Spec => []ExecutedOnceInOrder`;
- `ServedSchema`: `Spec => []ServesItsSchema`.

The invariant adds three parts. `Progress`: every file a runner has passed is
`Settled`, that is recorded with the runner's own content, or merely recorded once
a lock was lost. `ClaimsAgree`: a version is claimed exactly by the runner that
executes it, and has no row. `Exclusive`: as long as no lock was lost, only its
holder works. The first theorem uses the claim alone; `Exclusive` is what the
backfill needs, because it reads a row without checksum in one statement and
fills it in another, and does not look whether it did. Steps that leave the rows
alone share `MoveStep`, the two that fill one in share `RecordStep`.

`FeedFetchProofs` proves, from `FetchAssumption`:

- `TypeCorrect`: `Spec => []TypeOK`, where the types bound hops, sleeps, timers
  and backoffs;
- `SafeRequests`: `Spec => []RequestsAreSafe`;
- `PacedSlots`: `Spec => SlotsArePaced`, an action property;
- `BackoffsHeeded`: `Spec => BackoffIsHeeded`, an action property.

`Targets` says that the URL a slot sleeps for was already checked, since nothing
checks it after the sleep. `Pacing` relates the limiter's memory to each slot's
own past: `lastRequestAt` is never older than the last request of a slot, and what
is left of a sleep completes an interval since that request. Several waiters that
read the same `lastRequestAt` break the pace of the domain, and none breaks its
own. `Heeding` says of a waiter whose domain nobody else changed, and that found a
backoff setTimeout can wait for, that its sleep is at least as long as the backoff, and that the backoff is over when it paces itself.
`FetchAssumption` asks for a largest Retry-After, so that there is a longest
backoff to type with; the code has no ceiling for that header.

`TenantSecretsProofs` proves, from `SecretsAssumption`:

- `SavedTokensStay`: `Spec => []TokensStay`;
- `TenantsBotSends`: `Spec => []BotsFollowSettings`.

The invariant adds `UpgradesKeepToken`: the ciphertext that a background upgrade
expects and the one it writes are of one token, so its compare-and-swap keeps the
token whenever it succeeds. The second theorem follows a delivery from its read to
its message: what it read was the tenant's then, opening it changes nothing, and a
ciphertext that does not open leaves the global bot.

`AdmissionProofs` proves, from `AdmissionAssumption`:

- `RevokedKeysRefused`: `Spec => []RevokedKeysStayOut`;
- `BudgetsKept`: `Spec => []BudgetHolds`.

A request that arrived with a revoked key is not mentioned by the property while it
is on its way; `LateWaits` says that it stands before `verifyApiKey` with its key
still revoked, and `RevokedStay` that no step, the second half of a seeding
included, takes a revocation back.

`BudgetHolds` bounds a number, and no step bounds it by itself: the admissions of a
stretch are spread over two windows, several replicas and the failures in between.
The invariant (`AllCharged`) assigns a credit of its own to each admission of the
last `Window` ticks. A place that counts has as many credits as the limit for the
window under way and as many for the one before, and every failure brings as many
again. An admission charged to the window under way is not older than that window
and has the number of one of its hits; one charged to the window before is older
(`Entitled`). A tick that ends a window finds its old account empty, because what
was on it has left the stretch, and moves the current account there; a request
that is let through takes the number of its hit; a failing store pays with the
credits of the failure. The bound is the number of credits. It is a cardinality of
pairs (tick, number) and not a fold, so that a finite injection proves it without
induction over the window.

`IngestionProofs` proves, from `IngestionAssumption` and `RulesAssumption`:

- `TypeCorrect`: `Spec => []TypeOK`;
- `FailuresTraced`: `Spec => []FailuresLeaveTrace`;
- `ValidatorsEarned`: `Spec => []ValidatorsAreEarned`;
- `AlertsCovered`: `Spec => []AlertsCoverEntries`;
- `UnaskedAreListed`: `Spec => []UnaskedNeedsFault`;
- `BookRefined`: `Spec => ImplementsAlertBook`, the refinement of `AlertBook`;
- `NoGridlockWithPool`: `Spec => []NoGridlock`, assuming `PoolSuffices`.

For each action an effect lemma says field by field what its slot becomes; the
invariants are proved from those. `Shape` is types and the place of each slot in
its document or statement. `DocumentInv` follows the items: those a job has passed
are entries or inserted by its transaction, so that the validator it commits is
earned. `RulesInv` follows the rules: the statement has one row per article with
every rule of its matched entries, and the rows already upserted and the rows left
cover them. `BookInv` follows the alerts: a job lists an alert as created only if
it was not there, and because an open transaction holds the row no second job does
so before it is; each alert is on one list, once, and is asked for from that list.
Each step is then a stutter of the book, a write of new rules at COMMIT, or one
request. `PoolSuffices` is `3 * ConcurrencyCap < PoolMax`, which holds in the code
(`WORKER_CONCURRENCY` is clamped to 3, the pool of `pg` has 10 clients): a
connection is then always free, and busy slots that all wait for locks of one
another contain a cycle, because a finite set of waiters has a smallest nonempty
subset that waits within itself.

`AlertDeliveryProofs` proves, from `DeliveryAssumption`:

- `DeliveryTypes`: `Spec => []TypeOK`; `DigestTypes`: `DigestSpec => []DigestTypeOK`;
- `SentChannelsStay`: `Spec => DeliveredStays`, an action property;
- `SentWasReceived`: `Spec => []SentMeansReceived`;
- `CopiesArePaid`: `Spec => []CopiesNeedFaults`;
- `QuotaKept`: `Spec => []QuotaHolds`;
- `FlushedWasReceived`: `DigestSpec => []FlushedMeansReceived`;
- `DigestCopiesArePaid`: `DigestSpec => []DigestCopiesNeedFaults`.

The actions are sorted into four kinds of step (an attempt at work, a slot that
lets go, a slot that takes a job, callers and queue), and what each kind may change
is said once. `Shape` has the types and that one slot owns a job. `Received`: what
an attempt is about to mark is true already. `Copies` is an account: the copies
that arrived, the attempts that may still send one, and the one that an unmarked
column can still cause, are at most one more than the failures. `Quota` is another:
the Redis counter is at least the emails sent plus the reservations held, except
for what failures took from it. The digests repeat the account with the groups the
sweep has listed and the items it has not marked.

`OpmlImportsProofs` proves, from `ImportAssumption`:

- `TypeCorrect`: `Spec => []TypeOK`;
- `CompletedIsDone`: `Spec => CompletedLeavesNothing`, an action property;
- `CandidatesApart`: `Spec => []RowsDiffer`, that the candidates an apply transaction
  has read differ in their hashes, which is what lets one action make all its inserts;
- `PreviewIsKept`: `Spec => PreviewStays`, an action property.

`Listing` says of the items, whatever the status of their import, that done items
have their feed and that candidates are apart. `Reads` relates what a transaction has
read to the items: as long as its rows are not gone, every candidate of the import is
among them, so that writing their outcomes leaves none. `Preview` says why a parse that owns
its lock and never stalled finds the import as it read it: a parse job is added
once, is in one slot, and nobody confirms or applies what is not previewed.

The proofs add assumptions only where the argument counts or orders: `Alerts` and
`Slots` of `AlertDelivery` and `Replicas` of `Admission` are finite, `RetryAfters` of
`FeedFetch` has a maximum.
TLC evaluates every assumption on the run of its module.

Only model-checked is all liveness (`ClaimsEnd`, `PolledFeedsFetched`,
`DueItemsAreOffered`, `FlushedConverges`, `QueuedDeliveriesSettle`,
`QueuedImportsSettle`, `FetchesEnd`, `RunnersEnd`, `PersistenceIsAdmitted`,
`LegacyIsUpgraded`): fairness and ENABLED are out of the prover's reach. Every
safety invariant and every safety property of a passing run has a theorem.

The type invariants are the base of the proofs and hold for every value of the
constants, so no run lists them.

## Not modelled

Message texts, formatting, logging, metrics, HTTP envelopes, the dashboard,
environment parsing, the scripts for demos, screenshots and smoke tests; parsing
of feeds and of XML (the outcome is a choice); counters, titles and paging of OPML
previews; settings other than the bot token that change; the change of the UTC day
in the quota; the purge of dead letters; creation of API keys, `last_used_at` and
the mode without authentication; the normalization of texts and of URLs by
characters; read-only listings and searches.

## Possible extensions

- Settings that change under deliveries: `AlertDelivery` with `TenantSecrets`.
- The change of the UTC day in the email quota, and the creation of API keys.
