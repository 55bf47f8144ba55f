---------------------------- MODULE AlertDelivery ----------------------------
(***************************************************************************)
(* Alert delivery in FeedPulse: the delivery columns of the `alerts` table, *)
(* the BullMQ queue `alert-delivery`, the calls that enqueue a delivery     *)
(* (ingestion and POST /alerts/:id/send), the worker's delivery attempt     *)
(* over webhook, email and Telegram, and the daily email quota in Redis.    *)
(* The alerts are those of one tenant, whose settings do not change.        *)
(***************************************************************************)
EXTENDS Integers, FiniteSets

CONSTANTS
    Alerts,        \* rows of the alerts table
    Chats,         \* Telegram chat ids
    Slots,         \* concurrency slots of the alert-delivery workers
    NoAlert,       \* what an idle slot delivers
    Configs,       \* the tenant settings and transports to consider
    Attempts,      \* `attempts` of the alert-delivery queue
    MaxStalls,     \* BullMQ's maxStalledCount
    DailyLimit,    \* RESEND_DAILY_LIMIT; 0 disables the quota
    Faults,        \* kinds of failure that may happen
    MaxFaults,     \* bound: how many failures may happen
    MaxSends,      \* bound: how many POST /alerts/:id/send may be made
    MaxCopies      \* bound: copies of a message are counted up to here

FaultKinds == {"slot_crash", "lock_lost", "db_error", "redis_error", "unanswered", "call_lost",
               "scheduler_crash"}

Channels == {"webhook", "email", "telegram"}
Stages   == Channels \cup {"digest"}
Modes    == {"instant", "digest_10m"}

\* webhook: a notifier URL; recipients: recipient emails are configured;
\* enabled: the transports that have credentials (Resend key, bot token).
Config == [webhook: BOOLEAN, recipients: BOOLEAN, chats: SUBSET Chats, mode: Modes,
           enabled: SUBSET {"email", "telegram"}]

ASSUME DeliveryAssumption ==
    /\ IsFiniteSet(Alerts) /\ IsFiniteSet(Slots)
    /\ Configs \subseteq Config
    /\ Attempts \in Nat \ {0} /\ MaxStalls \in Nat /\ DailyLimit \in Nat
    /\ Faults \subseteq FaultKinds /\ MaxFaults \in Nat /\ MaxSends \in Nat
    /\ MaxCopies \in Nat /\ MaxCopies > 1 + MaxFaults
    /\ NoAlert \notin Alerts
    /\ Chats \cap Channels = {}

VARIABLES
    config,   \* the tenant's settings
    alerts,   \* the delivery columns of each alert row
    jobs,     \* the alert-delivery queue, by alert (job id alert-<id>)
    run,      \* the delivery attempt in each slot
    calls,    \* DeliverAlertUseCase calls in progress
    items,    \* telegram_digest_items, by alert and chat
    used,     \* today's email counter in Redis
    got,      \* copies of each alert that each destination received (history)
    faults,   \* failures so far
    sends     \* POST /alerts/:id/send so far

vars == <<config, alerts, jobs, run, calls, items, used, got, faults, sends>>

-----------------------------------------------------------------------------
(* Types *)

Destinations == {"webhook", "email"} \cup Chats

AlertRow == [status: {"none", "pending", "queued", "retrying", "sent", "failed", "disabled"},
             sent: BOOLEAN, attempts: 0 .. Attempts,
             channel: [Channels -> {"pending", "sent", "failed"}]]

Job == [state: {"absent", "waiting", "delayed", "active", "failed"},
        made: 0 .. Attempts, stalls: 0 .. MaxStalls]

Attempt == [pc: {"idle", "plan", "work", "mark_webhook", "give_back", "refuse_email",
                 "send_email", "mark_email", "release", "mark_sent", "mark_pending",
                 "quota", "throw", "completed", "failed"},
            alert: Alerts \cup {NoAlert}, number: 0 .. Attempts,
            seen: SUBSET Channels,  \* channels that were 'sent' in the row it read
            todo: SUBSET Stages,    \* stages still to come
            need: SUBSET Channels,  \* channels checkAllChannelsDelivered will ask for
            chats: SUBSET Chats,    \* chats the current loop has not reached
            missed: BOOLEAN,        \* a chat refused
            errors: BOOLEAN,        \* channelErrors is not empty
            quota: BOOLEAN,         \* terminalChannelErrors is not empty
            late: BOOLEAN,          \* the digest window it computed is already over
            owns: BOOLEAN]

\* Call 0 is the feed job's, call n the n-th POST /alerts/:id/send.
Call == [alert: Alerts, number: 0 .. MaxSends, step: {"read", "mark", "add"}]

NoRow    == [status |-> "none", sent |-> FALSE, attempts |-> 0,
             channel |-> [c \in Channels |-> "pending"]]
Absent   == [state |-> "absent", made |-> 0, stalls |-> 0]
Queued   == [state |-> "waiting", made |-> 0, stalls |-> 0]
IdleSlot == [pc |-> "idle", alert |-> NoAlert, number |-> 0, seen |-> {}, todo |-> {},
             need |-> {}, chats |-> {}, missed |-> FALSE, errors |-> FALSE,
             quota |-> FALSE, late |-> FALSE, owns |-> FALSE]

\* The types of the variables.
TypeOK ==
    /\ config \in Configs
    /\ alerts \in [Alerts -> AlertRow]
    /\ jobs \in [Alerts -> Job]
    /\ run \in [Slots -> Attempt]
    /\ calls \subseteq Call
    /\ items \in [Alerts -> [Chats -> {"none", "waiting", "due", "sent"}]]
    /\ used \in Int
    /\ got \in [Alerts -> [Destinations -> 0 .. MaxCopies]]
    /\ faults \in 0 .. MaxFaults /\ sends \in 0 .. MaxSends

Init ==
    /\ config \in Configs
    /\ alerts = [a \in Alerts |-> NoRow]
    /\ jobs = [a \in Alerts |-> Absent]
    /\ run = [w \in Slots |-> IdleSlot]
    /\ calls = {}
    /\ items = [a \in Alerts |-> [c \in Chats |-> "none"]]
    /\ used = 0
    /\ got = [a \in Alerts |-> [d \in Destinations |-> 0]]
    /\ faults = 0 /\ sends = 0

Fault(kind) ==
    /\ kind \in Faults
    /\ faults < MaxFaults
    /\ faults' = faults + 1

-----------------------------------------------------------------------------
(* Asking for a delivery: DeliverAlertUseCase. The notifier that is wired is *)
(* always enabled, so the branch for a disabled one is never taken.          *)

\* The feed job's transaction commits a new alert; the job then asks for its
\* delivery.
CreateAlert(a) ==
    /\ alerts[a].status = "none"
    /\ alerts' = [alerts EXCEPT ![a].status = "pending"]
    /\ calls' = calls \cup {[alert |-> a, number |-> 0, step |-> "read"]}
    /\ UNCHANGED <<config, jobs, run, items, used, got, faults, sends>>

\* POST /alerts/:id/send.
SendAgain(a) ==
    /\ alerts[a].status # "none"
    /\ sends < MaxSends
    /\ sends' = sends + 1
    /\ calls' = calls \cup {[alert |-> a, number |-> sends + 1, step |-> "read"]}
    /\ UNCHANGED <<config, alerts, jobs, run, items, used, got, faults>>

Advance(c, step) == calls' = (calls \ {c}) \cup {[c EXCEPT !.step = step]}

\* The call reads the row: an alert already sent is left alone.
ReadAlert(c) ==
    /\ c.step = "read"
    /\ IF alerts[c.alert].sent THEN calls' = calls \ {c} ELSE Advance(c, "mark")
    /\ UNCHANGED <<config, alerts, jobs, run, items, used, got, faults, sends>>

\* markDeliveryQueued, whatever the row holds by now.
MarkDeliveryQueued(c) ==
    /\ c.step = "mark"
    /\ alerts' = [alerts EXCEPT ![c.alert].status =
                    IF alerts[c.alert].attempts > 0 THEN "retrying" ELSE "queued"]
    /\ Advance(c, "add")
    /\ UNCHANGED <<config, jobs, run, items, used, got, faults, sends>>

\* queue.add: an id that is in Redis in any state leaves the queue unchanged.
EnqueueDelivery(c) ==
    /\ c.step = "add"
    /\ jobs' = [jobs EXCEPT ![c.alert] =
                  IF jobs[c.alert].state = "absent" THEN Queued ELSE jobs[c.alert]]
    /\ calls' = calls \ {c}
    /\ UNCHANGED <<config, alerts, run, items, used, got, faults, sends>>

\* The process dies or a statement fails: the call ends where it is. After a
\* commit, deliverAlerts swallows the error.
CallLost(c) ==
    /\ Fault("call_lost")
    /\ calls' = calls \ {c}
    /\ UNCHANGED <<config, alerts, jobs, run, items, used, got, sends>>

-----------------------------------------------------------------------------
(* The queue's own moves (BullMQ, external) *)

QueueStep(a) ==
    /\ \/ /\ jobs[a].state = "delayed"      \* the backoff has elapsed
          /\ jobs' = [jobs EXCEPT ![a].state = "waiting"]
       \/ /\ jobs[a].state = "active"       \* the stalled check finds no lock
          /\ \A w \in Slots : ~(run[w].alert = a /\ run[w].owns)
          /\ jobs' = [jobs EXCEPT ![a] =
                        IF jobs[a].stalls < MaxStalls
                        THEN [jobs[a] EXCEPT !.state = "waiting", !.stalls = jobs[a].stalls + 1]
                        ELSE [jobs[a] EXCEPT !.state = "failed"]]
    /\ UNCHANGED <<config, alerts, run, calls, items, used, got, faults, sends>>

\* A retained failed job is evicted once enough other jobs have failed.
EvictFailed(a) ==
    /\ jobs[a].state = "failed"
    /\ jobs' = [jobs EXCEPT ![a] = Absent]
    /\ UNCHANGED <<config, alerts, run, calls, items, used, got, faults, sends>>

-----------------------------------------------------------------------------
(* The attempt: ProcessAlertDeliveryUseCase.execute *)

\* A slot takes a waiting job and reads the alert's channel columns.
TakeJob(w, a) ==
    /\ run[w].pc = "idle"
    /\ jobs[a].state = "waiting"
    /\ jobs' = [jobs EXCEPT ![a].state = "active"]
    /\ run' = [run EXCEPT ![w] = [IdleSlot EXCEPT
                !.pc = "plan", !.alert = a, !.number = jobs[a].made + 1, !.owns = TRUE,
                !.seen = {c \in Channels : alerts[a].channel[c] = "sent"}]]
    /\ UNCHANGED <<config, alerts, calls, items, used, got, faults, sends>>

\* Mutant: a channel is attempted whatever its column says.
ShouldAttemptAll(seen) ==
    {s \in Stages :
        \/ s = "webhook" /\ config.webhook
        \/ s = "email" /\ config.recipients /\ "email" \in config.enabled
        \/ /\ s = IF config.mode = "instant" THEN "telegram" ELSE "digest"
           /\ config.chats # {} /\ "telegram" \in config.enabled}

\* The stages to run: configured, with a transport, and not yet 'sent'.
ShouldAttempt(seen) ==
    {s \in Stages :
        \/ s = "webhook" /\ config.webhook /\ "webhook" \notin seen
        \/ s = "email" /\ config.recipients /\ "email" \in config.enabled /\ "email" \notin seen
        \/ /\ s = IF config.mode = "instant" THEN "telegram" ELSE "digest"
           /\ config.chats # {} /\ "telegram" \in config.enabled /\ "telegram" \notin seen}

\* Mutant: a digest is waited for like an instant message.
RequiredDigest ==
    {c \in Channels :
        \/ c = "webhook" /\ config.webhook
        \/ c = "email" /\ config.recipients
        \/ c = "telegram" /\ config.chats # {}}

\* The channels checkAllChannelsDelivered will ask for: the configured ones,
\* with or without a transport; a digest is not among them.
Required ==
    {c \in Channels :
        \/ c = "webhook" /\ config.webhook
        \/ c = "email" /\ config.recipients
        \/ c = "telegram" /\ config.chats # {} /\ config.mode = "instant"}

\* The settings are read and the stages chosen; with none left the alert is
\* marked 'disabled' and the job is done.
Plan(w) ==
    LET todo == ShouldAttempt(run[w].seen)
    IN  /\ run[w].pc = "plan"
        /\ \/ /\ todo # {}
              /\ run' = [run EXCEPT ![w].pc = "work", ![w].seen = {}, ![w].todo = todo,
                                    ![w].need = Required, ![w].chats = config.chats]
              /\ UNCHANGED alerts
           \/ /\ todo = {}
              /\ run' = [run EXCEPT ![w].pc = "completed", ![w].seen = {}]
              /\ alerts' = [alerts EXCEPT ![run[w].alert].status = "disabled"]
        /\ UNCHANGED <<config, jobs, calls, items, used, got, faults, sends>>

\* The stages run in this order.
Rank(s) == CASE s = "webhook" -> 1 [] s = "email" -> 2 [] OTHER -> 3

Turn(w, s) ==
    /\ run[w].pc = "work" /\ s \in run[w].todo
    /\ \A t \in run[w].todo : Rank(s) <= Rank(t)

\* The attempt record once stage s is over, with or without an error.
StageOver(r, s, error) ==
    [r EXCEPT !.pc = "work", !.todo = r.todo \ {s}, !.errors = r.errors \/ error]

\* A message is sent to d: it arrives and is acknowledged, it is refused, or it
\* arrives and the answer is lost (a timeout, a reset connection).
Message(w, d, acknowledged, refused) ==
    LET a == run[w].alert
        more == [got EXCEPT ![a][d] = IF got[a][d] < MaxCopies THEN got[a][d] + 1 ELSE MaxCopies]
    IN  \/ run' = [run EXCEPT ![w] = acknowledged] /\ got' = more /\ UNCHANGED faults
        \/ run' = [run EXCEPT ![w] = refused] /\ UNCHANGED <<got, faults>>
        \/ run' = [run EXCEPT ![w] = refused] /\ got' = more /\ Fault("unanswered")

\* Mutant: a webhook that refused is marked like one that accepted.
SendWebhookUnchecked(w) ==
    /\ Turn(w, "webhook")
    /\ Message(w, "webhook", [run[w] EXCEPT !.pc = "mark_webhook"],
                             [run[w] EXCEPT !.pc = "mark_webhook"])
    /\ UNCHANGED <<config, alerts, jobs, calls, items, used, sends>>

SendWebhook(w) ==
    /\ Turn(w, "webhook")
    /\ Message(w, "webhook", [run[w] EXCEPT !.pc = "mark_webhook"],
                             StageOver(run[w], "webhook", TRUE))
    /\ UNCHANGED <<config, alerts, jobs, calls, items, used, sends>>

\* The row of the alert of slot w after markChannelDelivered.
MarkChannelDelivered(w, c) ==
    alerts' = [alerts EXCEPT ![run[w].alert].channel[c] = "sent"]

MarkWebhook(w) ==
    /\ run[w].pc = "mark_webhook"
    /\ MarkChannelDelivered(w, "webhook")
    /\ run' = [run EXCEPT ![w] = StageOver(run[w], "webhook", FALSE)]
    /\ UNCHANGED <<config, jobs, calls, items, used, got, faults, sends>>

\* Mutant: the limit is compared with the counter before the INCR.
ReserveEmailBefore(w) ==
    /\ Turn(w, "email")
    /\ used' = used + 1
    /\ run' = [run EXCEPT ![w].pc = IF used > DailyLimit THEN "give_back" ELSE "send_email"]
    /\ UNCHANGED <<config, alerts, jobs, calls, items, got, faults, sends>>

\* reserve: INCR first; a result over the limit is given back. When Redis
\* fails, before or after the INCR, the send is granted.
ReserveEmail(w) ==
    /\ Turn(w, "email")
    /\ \/ /\ DailyLimit = 0
          /\ run' = [run EXCEPT ![w].pc = "send_email"]
          /\ UNCHANGED <<used, faults>>
       \/ /\ DailyLimit > 0
          /\ used' = used + 1
          /\ run' = [run EXCEPT ![w].pc = IF used + 1 > DailyLimit THEN "give_back"
                                                                    ELSE "send_email"]
          /\ UNCHANGED faults
       \/ /\ DailyLimit > 0
          /\ Fault("redis_error")
          /\ used' \in {used, used + 1}
          /\ run' = [run EXCEPT ![w].pc = "send_email"]
    /\ UNCHANGED <<config, alerts, jobs, calls, items, got, sends>>

\* The DECR of a reservation that overshot; a failure, of the DECR or of the
\* EXPIRE after it, grants the send too.
GiveBack(w) ==
    /\ run[w].pc = "give_back"
    /\ \/ /\ used' = used - 1
          /\ run' = [run EXCEPT ![w].pc = "refuse_email"]
          /\ UNCHANGED faults
       \/ /\ Fault("redis_error")
          /\ used' \in {used, used - 1}
          /\ run' = [run EXCEPT ![w].pc = "send_email"]
    /\ UNCHANGED <<config, alerts, jobs, calls, items, got, sends>>

\* Mutant: a late refusal demotes a channel another attempt has delivered.
RefuseEmailAnyway(w) ==
    /\ run[w].pc = "refuse_email"
    /\ alerts' = [alerts EXCEPT ![run[w].alert].channel["email"] = "failed"]
    /\ run' = [run EXCEPT ![w] = [StageOver(run[w], "email", FALSE) EXCEPT !.quota = TRUE]]
    /\ UNCHANGED <<config, jobs, calls, items, used, got, faults, sends>>

\* Over quota: markChannelFailed, which never demotes a 'sent' channel.
RefuseEmail(w) ==
    /\ run[w].pc = "refuse_email"
    /\ alerts' = [alerts EXCEPT ![run[w].alert].channel["email"] =
                    IF alerts[run[w].alert].channel["email"] = "sent" THEN "sent" ELSE "failed"]
    /\ run' = [run EXCEPT ![w] = [StageOver(run[w], "email", FALSE) EXCEPT !.quota = TRUE]]
    /\ UNCHANGED <<config, jobs, calls, items, used, got, faults, sends>>

SendEmail(w) ==
    /\ run[w].pc = "send_email"
    /\ Message(w, "email", [run[w] EXCEPT !.pc = "mark_email"], [run[w] EXCEPT !.pc = "release"])
    /\ UNCHANGED <<config, alerts, jobs, calls, items, used, sends>>

MarkEmail(w) ==
    /\ run[w].pc = "mark_email"
    /\ MarkChannelDelivered(w, "email")
    /\ run' = [run EXCEPT ![w] = StageOver(run[w], "email", FALSE)]
    /\ UNCHANGED <<config, jobs, calls, items, used, got, faults, sends>>

\* release: the failed send's reservation goes back; a Redis failure is swallowed.
ReleaseEmail(w) ==
    /\ run[w].pc = "release"
    /\ \/ used' = (IF DailyLimit = 0 THEN used ELSE used - 1) /\ UNCHANGED faults
       \/ Fault("redis_error") /\ DailyLimit > 0 /\ UNCHANGED used
    /\ run' = [run EXCEPT ![w] = StageOver(run[w], "email", TRUE)]
    /\ UNCHANGED <<config, alerts, jobs, calls, items, got, sends>>

\* One chat of the instant loop; a refusal does not stop the loop.
SendTelegram(w, chat) ==
    /\ Turn(w, "telegram") /\ chat \in run[w].chats
    /\ Message(w, chat, [run[w] EXCEPT !.chats = run[w].chats \ {chat}],
                        [run[w] EXCEPT !.chats = run[w].chats \ {chat}, !.missed = TRUE,
                                       !.errors = TRUE])
    /\ UNCHANGED <<config, alerts, jobs, calls, items, used, sends>>

\* After the loop the channel is marked if no chat refused.
MarkTelegram(w) ==
    /\ Turn(w, "telegram") /\ run[w].chats = {}
    /\ IF run[w].missed THEN UNCHANGED alerts ELSE MarkChannelDelivered(w, "telegram")
    /\ run' = [run EXCEPT ![w] = StageOver(run[w], "telegram", FALSE)]
    /\ UNCHANGED <<config, jobs, calls, items, used, got, faults, sends>>

\* queueTelegramDigestItems, one INSERT per chat, all for the window computed
\* before the first; ON CONFLICT (alert_id, chat_id) DO NOTHING.
QueueDigestItem(w, chat) ==
    LET a == run[w].alert
    IN  /\ Turn(w, "digest") /\ chat \in run[w].chats
        /\ items' = [items EXCEPT ![a][chat] =
                       IF items[a][chat] # "none" THEN items[a][chat]
                       ELSE IF run[w].late THEN "due" ELSE "waiting"]
        /\ LET r == [run[w] EXCEPT !.chats = run[w].chats \ {chat}]
           IN  run' = [run EXCEPT ![w] = IF r.chats = {} THEN StageOver(r, "digest", FALSE) ELSE r]
        /\ UNCHANGED <<config, alerts, jobs, calls, used, got, faults, sends>>

WillRetry(w) == run[w].number < Attempts

\* All stages are over: a retryable error is thrown, an exhausted quota is
\* recorded, otherwise checkAllChannelsDelivered decides.
Conclude(w) ==
    LET row == alerts[run[w].alert]
        delivered == \A c \in run[w].need : row.channel[c] = "sent"
    IN  /\ run[w].pc = "work" /\ run[w].todo = {}
        /\ run' = [run EXCEPT ![w].pc = CASE run[w].errors -> "throw"
                                           [] ~run[w].errors /\ run[w].quota -> "quota"
                                           [] ~run[w].errors /\ ~run[w].quota /\ delivered -> "mark_sent"
                                           [] OTHER -> IF WillRetry(w) THEN "mark_pending" ELSE "completed"]
        /\ UNCHANGED <<config, alerts, jobs, calls, items, used, got, faults, sends>>

Greatest(m, n) == IF m > n THEN m ELSE n

\* The UPDATE of delivery_status that ends an attempt.
RecordOutcome(w, status, sent) ==
    LET a == run[w].alert
    IN  alerts' = [alerts EXCEPT
            ![a].status = status, ![a].sent = alerts[a].sent \/ sent,
            ![a].attempts = Greatest(alerts[a].attempts, run[w].number)]

\* markSent, markDeliveryRetryPending, or markDeliveryFailure; after the last
\* one of a throw the attempt fails at the queue.
Record(w) ==
    /\ \/ run[w].pc = "mark_sent" /\ RecordOutcome(w, "sent", TRUE)
       \/ run[w].pc = "mark_pending" /\ RecordOutcome(w, "retrying", FALSE)
       \/ run[w].pc = "quota" /\ RecordOutcome(w, "failed", FALSE)
       \/ /\ run[w].pc = "throw"
          /\ RecordOutcome(w, IF WillRetry(w) THEN "retrying" ELSE "failed", FALSE)
    /\ run' = [run EXCEPT ![w].pc = IF run[w].pc = "throw" THEN "failed" ELSE "completed"]
    /\ UNCHANGED <<config, jobs, calls, items, used, got, faults, sends>>

\* Where the attempt goes when its next statement fails: a channel's own
\* try/catch, the outer one (which records and throws), or none.
AfterDbError(r) ==
    CASE r.pc = "mark_webhook" -> StageOver(r, "webhook", TRUE)
      [] r.pc = "mark_email" -> [r EXCEPT !.pc = "release"]
      [] r.pc \in {"plan", "throw"} -> [r EXCEPT !.pc = "failed"]
      [] OTHER -> [r EXCEPT !.pc = "throw"]

StatementFails(w) ==
    /\ \/ run[w].pc \in {"plan", "mark_webhook", "mark_email", "refuse_email", "mark_sent",
                         "mark_pending", "quota", "throw"}
       \/ run[w].pc = "work" /\ run[w].todo = {} /\ ~run[w].errors /\ ~run[w].quota
       \/ Turn(w, "telegram") /\ run[w].chats = {} /\ ~run[w].missed
       \/ Turn(w, "digest")
    /\ Fault("db_error")
    /\ run' = [run EXCEPT ![w] = AfterDbError(run[w])]
    /\ UNCHANGED <<config, alerts, jobs, calls, items, used, got, sends>>

\* The processor is over: BullMQ drops the job, delays its next attempt or
\* keeps it as failed; a slot without the lock changes nothing.
LeaveJob(w) ==
    LET a == run[w].alert
        made == jobs[a].made + 1
    IN  /\ run[w].pc \in {"completed", "failed"}
        /\ jobs' = IF ~run[w].owns THEN jobs
                   ELSE [jobs EXCEPT ![a] =
                            CASE run[w].pc = "completed" -> Absent
                              [] run[w].pc = "failed" /\ made < Attempts ->
                                    [jobs[a] EXCEPT !.state = "delayed", !.made = made]
                              [] OTHER -> [jobs[a] EXCEPT !.state = "failed", !.made = Attempts]]
        /\ run' = [run EXCEPT ![w] = IdleSlot]
        /\ UNCHANGED <<config, alerts, calls, items, used, got, faults, sends>>

\* The worker process dies, or it cannot renew its lock but goes on running.
SlotFails(w) ==
    /\ \/ /\ run[w].pc # "idle" /\ Fault("slot_crash")
          /\ run' = [run EXCEPT ![w] = IdleSlot]
       \/ /\ run[w].owns /\ Fault("lock_lost")
          /\ run' = [run EXCEPT ![w].owns = FALSE]
    /\ UNCHANGED <<config, alerts, jobs, calls, items, used, got, sends>>

-----------------------------------------------------------------------------
CallStep(c) == ReadAlert(c) \/ MarkDeliveryQueued(c) \/ EnqueueDelivery(c)

\* What a slot does by itself.
AttemptStep(w) ==
    \/ Plan(w) \/ SendWebhook(w) \/ MarkWebhook(w)
    \/ ReserveEmail(w) \/ GiveBack(w) \/ RefuseEmail(w) \/ SendEmail(w) \/ MarkEmail(w)
    \/ ReleaseEmail(w) \/ MarkTelegram(w)
    \/ \E chat \in Chats : SendTelegram(w, chat) \/ QueueDigestItem(w, chat)
    \/ Conclude(w) \/ Record(w) \/ LeaveJob(w)

Next ==
    \/ \E a \in Alerts : CreateAlert(a) \/ SendAgain(a) \/ QueueStep(a) \/ EvictFailed(a)
    \/ \E c \in calls : CallStep(c) \/ CallLost(c)
    \/ \E w \in Slots, a \in Alerts : TakeJob(w, a)
    \/ \E w \in Slots : AttemptStep(w) \/ StatementFails(w) \/ SlotFails(w)

Spec == Init /\ [][Next]_vars

\* Processes run what they began, PostgreSQL and Redis answer, and BullMQ
\* promotes, recovers and hands out its jobs. Nobody makes a destination
\* accept a message, a user ask again or a retained failure go away.
Fairness ==
    /\ \A a \in Alerts : WF_vars(QueueStep(a)) /\ SF_vars(\E w \in Slots : TakeJob(w, a))
    /\ \A c \in Call : WF_vars(c \in calls /\ CallStep(c))
    /\ \A w \in Slots : WF_vars(AttemptStep(w))

FairSpec == Spec /\ Fairness

-----------------------------------------------------------------------------
(* Properties *)

\* A channel marked 'sent' was received, by every chat for an instant Telegram
\* alert, and an alert marked sent has every required channel 'sent': however
\* attempts fail, retry, stall and overlap, no row claims what no reader got.
SentMeansReceived ==
    \A a \in Alerts :
        /\ \A c \in {"webhook", "email"} : alerts[a].channel[c] = "sent" => got[a][c] > 0
        /\ config.mode = "instant" /\ alerts[a].channel["telegram"] = "sent" =>
              \A chat \in config.chats : got[a][chat] > 0
        /\ alerts[a].sent => \A c \in Required : alerts[a].channel[c] = "sent"

\* Retries and repeated sends do not duplicate a webhook or an email: every
\* copy beyond the first is paid for by a failure of the infrastructure
\* (a crash or a lost lock, an answer or an UPDATE that was lost).
CopiesNeedFaults ==
    \A a \in Alerts, d \in {"webhook", "email"} : got[a][d] <= 1 + faults

\* Emails that left for the tenant, over all its alerts.
EmailCopies == {copy \in Alerts \X (1 .. MaxCopies) : copy[2] <= got[copy[1]]["email"]}
EmailsSent == Cardinality(EmailCopies)

\* The daily quota holds under concurrent reservations, refusals and give-backs;
\* only a failure (fail-open Redis, a lost answer) lets one more email through.
QuotaHolds == DailyLimit > 0 => EmailsSent <= DailyLimit + faults

\* A channel that is 'sent' stays 'sent', also when an attempt that lost its
\* lock goes on beside a newer one.
DeliveredStays ==
    [][\A a \in Alerts, c \in Channels :
        alerts[a].channel[c] = "sent" => alerts'[a].channel[c] = "sent"]_vars

\* A required channel has no transport: recipients without a Resend key, or chats
\* without a bot.
Unserved == \E c \in Required : c # "webhook" /\ c \notin config.enabled

\* The queue still owes a an attempt, or the outcome of the one that runs.
Owed(a) ==
    /\ jobs[a].state \in {"waiting", "delayed", "active"}
    /\ ~\E w \in Slots : run[w].alert = a /\ run[w].pc = "completed"

\* A delivery that is in the queue comes to an end: the row says sent, failed or
\* disabled, unless the queue gave the job up by itself, or the tenant has a channel
\* without a transport, whose alerts stay 'queued' or 'retrying' when the job is done.
\* An attempt that has recorded its outcome owes nothing: a POST /alerts/:id/send that
\* marks the row before the job leaves the queue is refused there, and the row stays.
QueuedDeliveriesSettle ==
    \A a \in Alerts :
        (alerts[a].status \in {"queued", "retrying"} /\ Owed(a)) ~>
            \/ alerts[a].status \in {"sent", "failed", "disabled"}
            \/ jobs[a].state = "failed"
            \/ Unserved /\ jobs[a].state = "absent"
=============================================================================
