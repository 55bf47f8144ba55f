------------------------ MODULE AlertDeliveryProofs ------------------------
(***************************************************************************)
(* Theorems about AlertDelivery and AlertDigests, for every set of alerts,  *)
(* chats and slots, every configuration of a tenant, and every bound on     *)
(* attempts, stalls, sends, copies, failures and emails a day.              *)
(*                                                                          *)
(* The actions are sorted into four kinds of step (Moves): one of an        *)
(* attempt, a slot that lets go, a slot that takes a job, and the callers   *)
(* and the queue. What each kind may do to the rows, the messages, the      *)
(* counter and the failures is said once, and the invariants follow from    *)
(* that:                                                                    *)
(*   Shape     types, and one slot at most that owns the lock of a job;     *)
(*   Received  what an attempt is about to write is true already;           *)
(*   Copies    the copies of a message that arrived, the attempts that may  *)
(*             still send one, and the one that an unmarked column may yet  *)
(*             cause are together at most one more than the failures;       *)
(*   Quota     the counter bounds the emails and the reservations held, and *)
(*             the emails and the grants exceed the limit only by failures. *)
(* The digests add the sweep: an item being marked was in a message its     *)
(* chat has (Flushed), and the copies a chat has, the one of a listed group *)
(* and the one of an open item are paid for like the others (DigestCopies). *)
(***************************************************************************)
EXTENDS AlertDigests, FiniteSetTheorems, TLAPS

-----------------------------------------------------------------------------
(* Shape: types, the queue's counters, and who owns which job *)

\* An attempt between its plan and its verdict, where `need` has been chosen.
Planned == {"work", "mark_webhook", "give_back", "refuse_email", "send_email", "mark_email",
            "release", "mark_sent"}

\* An attempt within its email stage.
Emailing == {"give_back", "refuse_email", "send_email", "mark_email", "release"}

\* A job that may still be attempted has attempts left.
JobOK(job) == job.state \in {"waiting", "delayed", "active"} => job.made < Attempts

\* What holds of one slot: it is idle or works on an alert, the job whose lock
\* it has is active, and its plan is that of the tenant's mode.
SlotOK(r) ==
    /\ r.pc # "idle" => r.alert \in Alerts
    /\ r.owns => r.pc # "idle" /\ jobs[r.alert].state = "active"
    /\ "telegram" \in r.todo => config.mode = "instant"
    /\ "digest" \in r.todo => config.mode # "instant"
    /\ r.pc \in Planned => r.need = Required
    /\ r.pc \in Emailing => "webhook" \notin r.todo

\* The lock of a job is in one place.
OneOwner ==
    \A v, w \in Slots : run[v].owns /\ run[w].owns /\ run[v].alert = run[w].alert => v = w

Shape ==
    /\ TypeOK
    /\ \A a \in Alerts : JobOK(jobs[a])
    /\ \A w \in Slots : SlotOK(run[w])
    /\ OneOwner

\* An idle slot is a slot.
LEMMA IdleAttempt == IdleSlot \in Attempt
BY DeliveryAssumption DEF IdleSlot, Attempt

-----------------------------------------------------------------------------
(* What a step of an attempt may do, said once for all its steps. Below, r is *)
(* the record of slot w after the step.                                       *)

\* The slot keeps its alert and its lock; the plan is made once.
Keeps(w, r) ==
    /\ run[w].pc # "idle" /\ r.pc # "idle"
    /\ r \in Attempt
    /\ run' = [run EXCEPT ![w] = r]
    /\ r.alert = run[w].alert /\ r.owns = run[w].owns
    /\ "telegram" \in r.todo => "telegram" \in run[w].todo \/ config.mode = "instant"
    /\ "digest" \in r.todo => "digest" \in run[w].todo \/ config.mode # "instant"
    /\ r.pc \in Planned => r.need = Required \/ (run[w].pc \in Planned /\ r.need = run[w].need)
    /\ r.pc \in Emailing => "webhook" \notin r.todo
    /\ UNCHANGED <<config, jobs, calls, sends>>

\* At most one failure, paid from the budget.
FaultMove == faults' \in 0 .. MaxFaults /\ faults' \in {faults, faults + 1}
Failed == faults' = faults + 1

\* A column that is 'sent' stays so, and becomes so for the slot's alert alone,
\* by the UPDATE that follows the message.
RowsMove(w) ==
    /\ alerts' \in [Alerts -> AlertRow]
    /\ \A a \in Alerts, c \in Channels :
          /\ alerts[a].channel[c] = "sent" => alerts'[a].channel[c] = "sent"
          /\ alerts'[a].channel[c] = "sent" /\ alerts[a].channel[c] # "sent" =>
                /\ a = run[w].alert
                /\ \/ c = "webhook" /\ run[w].pc = "mark_webhook"
                   \/ c = "email" /\ run[w].pc = "mark_email"
                   \/ /\ c = "telegram" /\ "telegram" \in run[w].todo
                      /\ run[w].chats = {} /\ ~run[w].missed
    /\ \A a \in Alerts : alerts'[a].sent /\ ~alerts[a].sent =>
          a = run[w].alert /\ run[w].pc = "mark_sent"

\* Items are queued where there was none.
ItemsMove ==
    /\ items' \in [Alerts -> [Chats -> {"none", "waiting", "due", "sent"}]]
    /\ \A a \in Alerts, c \in Chats : items'[a][c] # items[a][c] =>
          items[a][c] = "none" /\ items'[a][c] # "sent"

\* Destination d of the slot's alert may have received one more copy.
Reached(w, d) ==
    /\ got' \in [Alerts -> [Destinations -> 0 .. MaxCopies]]
    /\ \A a \in Alerts, e \in Destinations : a # run[w].alert \/ e # d => got'[a][e] = got[a][e]
    /\ \A a \in Alerts : a = run[w].alert => got'[a][d] >= got[a][d] /\ got'[a][d] <= got[a][d] + 1

\* An attempt is about to send d.
Sending(r, d) ==
    \/ r.pc = "plan" /\ d \notin r.seen
    \/ r.pc = "work" /\ d \in r.todo
    \/ r.pc = "mark_webhook" /\ d = "email" /\ d \in r.todo
    \/ r.pc \in {"give_back", "send_email"} /\ d = "email"

\* An attempt has sent d and has not marked it yet.
Marking(r, d) ==
    \/ r.pc = "mark_webhook" /\ d = "webhook"
    \/ r.pc = "mark_email" /\ d = "email"

\* A copy of d goes out only where the slot was about to send it; it is then
\* about to mark it, marks it, or a failure has happened.
CopyMove(w, r, d) ==
    /\ Sending(r, d) => Sending(run[w], d)
    /\ \/ /\ \A a \in Alerts : got'[a][d] = got[a][d]
          /\ Marking(run[w], d) =>
                Marking(r, d) \/ Failed \/ alerts'[run[w].alert].channel[d] = "sent"
       \/ Reached(w, d) /\ Sending(run[w], d) /\ ~Sending(r, d) /\ (Marking(r, d) \/ Failed)

\* The slots whose reservation is in the counter, and those that may send.
Holds(r) == r.pc \in {"send_email", "give_back", "release"}
Granted(r) == r.pc = "send_email"

\* How the counter, the reservation and the emails that leave go together.
QuotaMove(w, r) ==
    \/ /\ used' = used /\ \A a \in Alerts : got'[a]["email"] = got[a]["email"]
       /\ Failed \/ ((Holds(r) => Holds(run[w])) /\ (Granted(r) => Granted(run[w])))
    \/ /\ used' = used + 1 /\ \A a \in Alerts : got'[a]["email"] = got[a]["email"]
       /\ ~Holds(run[w]) /\ (Granted(r) => Failed \/ used' <= DailyLimit)
    \/ /\ used' = used - 1 /\ \A a \in Alerts : got'[a]["email"] = got[a]["email"]
       /\ Holds(run[w]) /\ (Holds(r) => Failed)
    \/ /\ used' = used /\ Reached(w, "email")
       /\ Granted(run[w]) /\ ~Granted(r) /\ (Holds(r) => Failed)

\* What the slot will write is true of what was received.
ProofMove(w, r) ==
    /\ \A d \in {"webhook", "email"} : Marking(r, d) => got'[run[w].alert][d] > 0
    /\ "telegram" \in r.todo /\ ~r.missed =>
          \/ r.chats = config.chats
          \/ /\ "telegram" \in run[w].todo /\ ~run[w].missed
             /\ \A chat \in Chats : chat \in run[w].chats /\ chat \notin r.chats => got'[run[w].alert][chat] > 0
    /\ r.pc = "mark_sent" =>
          /\ run[w].pc \in Planned
          /\ \A c \in run[w].need : alerts'[run[w].alert].channel[c] = "sent"

AttemptMove(w, r) ==
    /\ Keeps(w, r)
    /\ FaultMove
    /\ RowsMove(w)
    /\ ItemsMove
    /\ used' \in Int
    /\ got' = got \/ \E d \in Destinations : Reached(w, d) /\ (d \in Chats => config.mode = "instant")
    /\ CopyMove(w, r, "webhook") /\ CopyMove(w, r, "email")
    /\ DailyLimit > 0 => QuotaMove(w, r)
    /\ ProofMove(w, r)

-----------------------------------------------------------------------------
(* What the parts of a step do *)

\* Facts about a slot that is not idle.
LEMMA BusySlot ==
    ASSUME Shape, NEW w \in Slots, run[w].pc # "idle"
    PROVE  /\ run \in [Slots -> Attempt] /\ run[w] \in Attempt
           /\ run[w].alert \in Alerts
           /\ "telegram" \in run[w].todo => config.mode = "instant"
           /\ "digest" \in run[w].todo => config.mode # "instant"
           /\ run[w].pc \in Emailing => "webhook" \notin run[w].todo
BY DEF Shape, TypeOK, SlotOK

\* A failure counts once; a step without one is no failure.
LEMMA FaultCounts ==
    ASSUME Shape, NEW kind
    PROVE  /\ faults \in Nat
           /\ faults' = faults => FaultMove /\ ~Failed
           /\ Fault(kind) => FaultMove /\ Failed
BY DeliveryAssumption DEF Shape, TypeOK, FaultMove, Failed, Fault

\* Rows and items that are left alone have made no wrong move.
LEMMA RowsSame ==
    ASSUME Shape, NEW w \in Slots, alerts' = alerts
    PROVE  RowsMove(w)
BY DEF Shape, TypeOK, RowsMove

\* No item changes, which is a move of the items.
LEMMA ItemsSame ==
    ASSUME Shape, items' = items
    PROVE  ItemsMove
BY DEF Shape, TypeOK, ItemsMove

\* A message: what the destination has afterwards, by outcome.
LEMMA MessageSent ==
    ASSUME Shape, NEW w \in Slots, run[w].pc # "idle", NEW d \in Destinations,
           NEW acknowledged, NEW refused, Message(w, d, acknowledged, refused)
    PROVE  /\ FaultMove
           /\ Reached(w, d)
           /\ \/ /\ run' = [run EXCEPT ![w] = acknowledged]
                 /\ got'[run[w].alert][d] > 0 /\ ~Failed
              \/ run' = [run EXCEPT ![w] = refused] /\ got' = got /\ ~Failed
              \/ run' = [run EXCEPT ![w] = refused] /\ Failed
<1> DEFINE a == run[w].alert
           more == [got EXCEPT ![a][d] = IF got[a][d] < MaxCopies THEN got[a][d] + 1 ELSE MaxCopies]
<1>1. a \in Alerts
  BY BusySlot
<1>2. got \in [Alerts -> [Destinations -> 0 .. MaxCopies]] /\ MaxCopies \in Nat /\ MaxCopies > 0
  BY DeliveryAssumption DEF Shape, TypeOK
<1>3. more \in [Alerts -> [Destinations -> 0 .. MaxCopies]]
  BY <1>1, <1>2
<1>4. more[a][d] > 0 /\ more[a][d] >= got[a][d] /\ more[a][d] <= got[a][d] + 1
  BY <1>1, <1>2
<1>5. \A b \in Alerts, e \in Destinations : b # a \/ e # d => more[b][e] = got[b][e]
  BY <1>1, <1>2
<1>6. got' = more => Reached(w, d) /\ got'[a][d] > 0
  BY <1>3, <1>4, <1>5 DEF Reached
<1>7. got' = got => Reached(w, d)
  BY <1>1, <1>2 DEF Reached
<1>8. \/ run' = [run EXCEPT ![w] = acknowledged] /\ got' = more /\ faults' = faults
      \/ run' = [run EXCEPT ![w] = refused] /\ got' = got /\ faults' = faults
      \/ run' = [run EXCEPT ![w] = refused] /\ got' = more /\ Fault("unanswered")
  BY DEF Message
<1> QED
  BY <1>6, <1>7, <1>8, FaultCounts

\* A channel is marked for the slot's alert.
LEMMA ChannelMarked ==
    ASSUME Shape, NEW w \in Slots, run[w].pc # "idle", NEW c \in Channels,
           MarkChannelDelivered(w, c),
           \/ c = "webhook" /\ run[w].pc = "mark_webhook"
           \/ c = "email" /\ run[w].pc = "mark_email"
           \/ /\ c = "telegram" /\ "telegram" \in run[w].todo
              /\ run[w].chats = {} /\ ~run[w].missed
    PROVE  RowsMove(w) /\ alerts'[run[w].alert].channel[c] = "sent"
<1> DEFINE a == run[w].alert
           row == [alerts[a] EXCEPT !.channel[c] = "sent"]
<1>1. a \in Alerts /\ alerts \in [Alerts -> AlertRow]
  BY BusySlot DEF Shape, TypeOK
<1>2. alerts' = [alerts EXCEPT ![a] = row]
  BY <1>1 DEF MarkChannelDelivered
<1>3. row \in AlertRow /\ row.sent = alerts[a].sent /\ row.channel[c] = "sent"
      /\ \A e \in Channels : e # c => row.channel[e] = alerts[a].channel[e]
  BY <1>1 DEF AlertRow
<1> HIDE DEF row
<1>4. alerts' \in [Alerts -> AlertRow] /\ alerts'[a] = row
      /\ \A b \in Alerts : b # a => alerts'[b] = alerts[b]
  BY <1>1, <1>2, <1>3
<1> QED
  BY <1>1, <1>3, <1>4 DEF RowsMove

\* The columns of no alert change.
LEMMA ColumnsSame ==
    ASSUME NEW w \in Slots, alerts' \in [Alerts -> AlertRow],
           \A a \in Alerts : alerts'[a].channel = alerts[a].channel,
           \A a \in Alerts : alerts'[a].sent /\ ~alerts[a].sent =>
               a = run[w].alert /\ run[w].pc = "mark_sent"
    PROVE  RowsMove(w)
BY DEF RowsMove

\* StageOver ends one stage.
LEMMA StageEnds ==
    ASSUME NEW r0 \in Attempt, NEW s \in Stages, NEW error \in BOOLEAN
    PROVE  LET r == StageOver(r0, s, error)
           IN  /\ r \in Attempt /\ r.pc = "work" /\ r.todo = r0.todo \ {s}
               /\ r.alert = r0.alert /\ r.owns = r0.owns /\ r.need = r0.need
               /\ r.chats = r0.chats /\ r.missed = r0.missed /\ r.quota = r0.quota
<1>1. (r0.errors \/ error) \in BOOLEAN
  BY DEF Attempt
<1> QED
  BY <1>1 DEF StageOver, Attempt

-----------------------------------------------------------------------------
(* The steps of an attempt *)

\* The webhook: sent, refused, or sent with its answer lost.
LEMMA SendWebhookMove ==
    ASSUME Shape, NEW w \in Slots, SendWebhook(w)
    PROVE  \E r : AttemptMove(w, r)
<1> DEFINE ok == [run[w] EXCEPT !.pc = "mark_webhook"]
           no == StageOver(run[w], "webhook", TRUE)
<1>1. /\ run[w].pc = "work" /\ "webhook" \in run[w].todo
      /\ Message(w, "webhook", ok, no)
      /\ alerts' = alerts /\ items' = items /\ used' = used
      /\ UNCHANGED <<config, jobs, calls, sends>>
  BY DEF SendWebhook, Turn
<1>2. run[w] \in Attempt /\ used \in Int
  BY <1>1, BusySlot DEF Shape, TypeOK
<1>3. /\ ok \in Attempt /\ ok.pc = "mark_webhook" /\ ok.todo = run[w].todo
      /\ ok.alert = run[w].alert /\ ok.owns = run[w].owns /\ ok.need = run[w].need
      /\ ok.chats = run[w].chats /\ ok.missed = run[w].missed
  BY <1>2 DEF Attempt
<1>4. /\ no \in Attempt /\ no.pc = "work" /\ no.todo = run[w].todo \ {"webhook"}
      /\ no.alert = run[w].alert /\ no.owns = run[w].owns /\ no.need = run[w].need
      /\ no.chats = run[w].chats /\ no.missed = run[w].missed
  BY <1>2, StageEnds DEF Stages, Channels
<1> HIDE DEF ok, no
<1>5. "webhook" \in Destinations /\ "email" \in Destinations /\ "webhook" \notin Chats
  BY DeliveryAssumption DEF Destinations, Channels
<1>6. /\ FaultMove
      /\ Reached(w, "webhook")
      /\ \/ run' = [run EXCEPT ![w] = ok] /\ got'[run[w].alert]["webhook"] > 0 /\ ~Failed
         \/ run' = [run EXCEPT ![w] = no] /\ got' = got /\ ~Failed
         \/ run' = [run EXCEPT ![w] = no] /\ Failed
  BY <1>1, <1>5, MessageSent
<1>7. \A a \in Alerts : got'[a]["email"] = got[a]["email"]
  BY <1>5, <1>6 DEF Reached
<1>8. RowsMove(w) /\ ItemsMove
  BY <1>1, RowsSame, ItemsSame
<1>9. CASE run' = [run EXCEPT ![w] = ok] /\ got'[run[w].alert]["webhook"] > 0
  <2>1. Keeps(w, ok)
    BY <1>1, <1>3, <1>9 DEF Keeps, Planned, Emailing
  <2>2. CopyMove(w, ok, "webhook") /\ CopyMove(w, ok, "email")
    BY <1>1, <1>3, <1>6, <1>7 DEF CopyMove, Sending, Marking
  <2>3. QuotaMove(w, ok)
    BY <1>1, <1>3, <1>7 DEF QuotaMove, Holds, Granted
  <2>4. ProofMove(w, ok)
    BY <1>1, <1>3, <1>9 DEF ProofMove, Marking
  <2> QED
    BY <1>1, <1>2, <1>5, <1>6, <1>8, <2>1, <2>2, <2>3, <2>4 DEF AttemptMove
<1>10. CASE run' = [run EXCEPT ![w] = no] /\ (got' = got \/ Failed)
  <2>1. Keeps(w, no)
    BY <1>1, <1>4, <1>10 DEF Keeps, Planned, Emailing
  <2>2. CopyMove(w, no, "webhook") /\ CopyMove(w, no, "email")
    BY <1>1, <1>4, <1>6, <1>7, <1>10 DEF CopyMove, Sending, Marking
  <2>3. QuotaMove(w, no)
    BY <1>1, <1>4, <1>7 DEF QuotaMove, Holds, Granted
  <2>4. ProofMove(w, no)
    BY <1>1, <1>4 DEF ProofMove, Marking
  <2> QED
    BY <1>1, <1>2, <1>5, <1>6, <1>8, <2>1, <2>2, <2>3, <2>4 DEF AttemptMove
<1> QED
  BY <1>6, <1>9, <1>10

\* A step that sends nothing and leaves the loop over the chats alone.
Silent(w, r) ==
    /\ got' = got
    /\ r.todo \subseteq run[w].todo
    /\ r.chats = run[w].chats /\ r.missed = run[w].missed
    /\ r.pc \notin {"mark_webhook", "mark_email", "mark_sent"}
    /\ \A d \in {"webhook", "email"} :
          /\ Sending(r, d) => Sending(run[w], d)
          /\ Marking(run[w], d) => Failed \/ alerts'[run[w].alert].channel[d] = "sent"

\* A step that sends nothing is a move of its attempt.
LEMMA SilentMove ==
    ASSUME NEW w \in Slots, NEW r, Keeps(w, r), FaultMove, RowsMove(w), ItemsMove, used' \in Int,
           Silent(w, r), DailyLimit > 0 => QuotaMove(w, r)
    PROVE  \E q : AttemptMove(w, q)
<1>1. CopyMove(w, r, "webhook") /\ CopyMove(w, r, "email")
  BY DEF Silent, CopyMove
<1>2. ProofMove(w, r)
  BY DEF Silent, ProofMove, Marking
<1> QED
  BY <1>1, <1>2 DEF AttemptMove, Silent

\* The UPDATE after the webhook, and the one after the email.
LEMMA MarkWebhookMove ==
    ASSUME Shape, NEW w \in Slots, MarkWebhook(w)
    PROVE  \E r : AttemptMove(w, r)
<1> DEFINE r == StageOver(run[w], "webhook", FALSE)
<1>1. /\ run[w].pc = "mark_webhook" /\ MarkChannelDelivered(w, "webhook")
      /\ run' = [run EXCEPT ![w] = r]
      /\ items' = items /\ used' = used /\ got' = got /\ faults' = faults
      /\ UNCHANGED <<config, jobs, calls, sends>>
  BY DEF MarkWebhook
<1>2. run[w] \in Attempt /\ used \in Int
  BY <1>1, BusySlot DEF Shape, TypeOK
<1>3. /\ r \in Attempt /\ r.pc = "work" /\ r.todo = run[w].todo \ {"webhook"}
      /\ r.alert = run[w].alert /\ r.owns = run[w].owns /\ r.need = run[w].need
      /\ r.chats = run[w].chats /\ r.missed = run[w].missed
  BY <1>2, StageEnds DEF Stages, Channels
<1> HIDE DEF r
<1>4. RowsMove(w) /\ alerts'[run[w].alert].channel["webhook"] = "sent"
  BY <1>1, ChannelMarked DEF Channels
<1>5. ItemsMove /\ FaultMove
  BY <1>1, ItemsSame, FaultCounts
<1>6. Keeps(w, r)
  BY <1>1, <1>3 DEF Keeps, Planned, Emailing
<1>7. Silent(w, r)
  BY <1>1, <1>3, <1>4 DEF Silent, Sending, Marking
<1>8. QuotaMove(w, r)
  BY <1>1, <1>3 DEF QuotaMove, Holds, Granted
<1> QED
  BY <1>1, <1>2, <1>4, <1>5, <1>6, <1>7, <1>8, SilentMove

\* The email column is marked.
LEMMA MarkEmailMove ==
    ASSUME Shape, NEW w \in Slots, MarkEmail(w)
    PROVE  \E r : AttemptMove(w, r)
<1> DEFINE r == StageOver(run[w], "email", FALSE)
<1>1. /\ run[w].pc = "mark_email" /\ MarkChannelDelivered(w, "email")
      /\ run' = [run EXCEPT ![w] = r]
      /\ items' = items /\ used' = used /\ got' = got /\ faults' = faults
      /\ UNCHANGED <<config, jobs, calls, sends>>
  BY DEF MarkEmail
<1>2. run[w] \in Attempt /\ used \in Int /\ "webhook" \notin run[w].todo
  BY <1>1, BusySlot DEF Shape, TypeOK, Emailing
<1>3. /\ r \in Attempt /\ r.pc = "work" /\ r.todo = run[w].todo \ {"email"}
      /\ r.alert = run[w].alert /\ r.owns = run[w].owns /\ r.need = run[w].need
      /\ r.chats = run[w].chats /\ r.missed = run[w].missed
  BY <1>2, StageEnds DEF Stages, Channels
<1> HIDE DEF r
<1>4. RowsMove(w) /\ alerts'[run[w].alert].channel["email"] = "sent"
  BY <1>1, ChannelMarked DEF Channels
<1>5. ItemsMove /\ FaultMove
  BY <1>1, ItemsSame, FaultCounts
<1>6. Keeps(w, r)
  BY <1>1, <1>3 DEF Keeps, Planned, Emailing
<1>7. Silent(w, r)
  BY <1>1, <1>2, <1>3, <1>4 DEF Silent, Sending, Marking
<1>8. QuotaMove(w, r)
  BY <1>1, <1>3 DEF QuotaMove, Holds, Granted
<1> QED
  BY <1>1, <1>2, <1>4, <1>5, <1>6, <1>7, <1>8, SilentMove

\* The reservation of an email: INCR, then a verdict on its answer.
LEMMA ReserveEmailMove ==
    ASSUME Shape, NEW w \in Slots, ReserveEmail(w)
    PROVE  \E r : AttemptMove(w, r)
<1>1. /\ run[w].pc = "work" /\ "email" \in run[w].todo /\ "webhook" \notin run[w].todo
      /\ alerts' = alerts /\ items' = items /\ got' = got
      /\ UNCHANGED <<config, jobs, calls, sends>>
  BY DEF ReserveEmail, Turn, Rank
<1>2. run \in [Slots -> Attempt] /\ run[w] \in Attempt /\ used \in Int /\ DailyLimit \in Nat
  BY <1>1, BusySlot, DeliveryAssumption DEF Shape, TypeOK
<1>3. PICK p \in {"give_back", "send_email"} :
          /\ run' = [run EXCEPT ![w].pc = p]
          /\ \/ DailyLimit = 0 /\ used' = used /\ faults' = faults
             \/ /\ DailyLimit > 0 /\ used' = used + 1 /\ faults' = faults
                /\ p = "send_email" => used + 1 <= DailyLimit
             \/ DailyLimit > 0 /\ Fault("redis_error") /\ used' \in {used, used + 1}
  BY <1>2 DEF ReserveEmail
<1> DEFINE r == [run[w] EXCEPT !.pc = p]
<1>4. /\ r \in Attempt /\ r.pc = p /\ r.todo = run[w].todo
      /\ r.alert = run[w].alert /\ r.owns = run[w].owns /\ r.need = run[w].need
      /\ r.chats = run[w].chats /\ r.missed = run[w].missed
  BY <1>2, <1>3 DEF Attempt
<1>5. run' = [run EXCEPT ![w] = r]
  BY <1>2, <1>3
<1> HIDE DEF r
<1>6. RowsMove(w) /\ ItemsMove /\ FaultMove /\ (Fault("redis_error") => Failed)
  BY <1>1, <1>3, RowsSame, ItemsSame, FaultCounts
<1>7. Keeps(w, r)
  BY <1>1, <1>4, <1>5 DEF Keeps, Planned, Emailing
<1>8. Silent(w, r)
  BY <1>1, <1>4 DEF Silent, Sending, Marking
<1>9. DailyLimit > 0 => QuotaMove(w, r)
  BY <1>1, <1>3, <1>4, <1>6 DEF QuotaMove, Holds, Granted
<1>10. used' \in Int
  BY <1>2, <1>3
<1> QED
  BY <1>6, <1>7, <1>8, <1>9, <1>10, SilentMove

\* A reservation over the limit is given back.
LEMMA GiveBackMove ==
    ASSUME Shape, NEW w \in Slots, GiveBack(w)
    PROVE  \E r : AttemptMove(w, r)
<1>1. /\ run[w].pc = "give_back"
      /\ alerts' = alerts /\ items' = items /\ got' = got
      /\ UNCHANGED <<config, jobs, calls, sends>>
  BY DEF GiveBack
<1>2. /\ run \in [Slots -> Attempt] /\ run[w] \in Attempt /\ used \in Int
      /\ "webhook" \notin run[w].todo
  BY <1>1, BusySlot DEF Shape, TypeOK, Emailing
<1>3. PICK p \in {"refuse_email", "send_email"} :
          /\ run' = [run EXCEPT ![w].pc = p]
          /\ \/ p = "refuse_email" /\ used' = used - 1 /\ faults' = faults
             \/ Fault("redis_error") /\ used' \in {used, used - 1}
  BY DEF GiveBack
<1> DEFINE r == [run[w] EXCEPT !.pc = p]
<1>4. /\ r \in Attempt /\ r.pc = p /\ r.todo = run[w].todo
      /\ r.alert = run[w].alert /\ r.owns = run[w].owns /\ r.need = run[w].need
      /\ r.chats = run[w].chats /\ r.missed = run[w].missed
  BY <1>2, <1>3 DEF Attempt
<1>5. run' = [run EXCEPT ![w] = r]
  BY <1>2, <1>3
<1> HIDE DEF r
<1>6. RowsMove(w) /\ ItemsMove /\ FaultMove /\ (Fault("redis_error") => Failed)
  BY <1>1, <1>3, RowsSame, ItemsSame, FaultCounts
<1>7. Keeps(w, r)
  BY <1>1, <1>2, <1>4, <1>5 DEF Keeps, Planned, Emailing
<1>8. Silent(w, r)
  BY <1>1, <1>4 DEF Silent, Sending, Marking
<1>9. QuotaMove(w, r)
  BY <1>1, <1>3, <1>4, <1>6 DEF QuotaMove, Holds, Granted
<1>10. used' \in Int
  BY <1>2, <1>3
<1> QED
  BY <1>6, <1>7, <1>8, <1>9, <1>10, SilentMove

\* markChannelFailed leaves a 'sent' column alone.
LEMMA RefuseEmailMove ==
    ASSUME Shape, NEW w \in Slots, RefuseEmail(w)
    PROVE  \E r : AttemptMove(w, r)
<1> DEFINE over == StageOver(run[w], "email", FALSE)
           r == [over EXCEPT !.quota = TRUE]
           a == run[w].alert
           column == IF alerts[a].channel["email"] = "sent" THEN "sent" ELSE "failed"
           row == [alerts[a] EXCEPT !.channel["email"] = column]
<1>1. /\ run[w].pc = "refuse_email"
      /\ run' = [run EXCEPT ![w] = r]
      /\ alerts' = [alerts EXCEPT ![a].channel["email"] = column]
      /\ items' = items /\ used' = used /\ got' = got /\ faults' = faults
      /\ UNCHANGED <<config, jobs, calls, sends>>
  BY DEF RefuseEmail
<1>2. run[w] \in Attempt /\ used \in Int /\ "webhook" \notin run[w].todo /\ a \in Alerts
  BY <1>1, BusySlot DEF Shape, TypeOK, Emailing
<1>3. /\ over \in Attempt /\ over.pc = "work" /\ over.todo = run[w].todo \ {"email"}
      /\ over.alert = run[w].alert /\ over.owns = run[w].owns /\ over.need = run[w].need
      /\ over.chats = run[w].chats /\ over.missed = run[w].missed
  BY <1>2, StageEnds DEF Stages, Channels
<1> HIDE DEF over
<1>4. /\ r \in Attempt /\ r.pc = "work" /\ r.todo = run[w].todo \ {"email"}
      /\ r.alert = run[w].alert /\ r.owns = run[w].owns /\ r.need = run[w].need
      /\ r.chats = run[w].chats /\ r.missed = run[w].missed
  BY <1>3 DEF Attempt
<1> HIDE DEF r
<1>5. RowsMove(w)
  <2>1. alerts \in [Alerts -> AlertRow] /\ alerts[a] \in AlertRow
    BY <1>2 DEF Shape, TypeOK
  <2>2. alerts' = [alerts EXCEPT ![a] = row]
    BY <1>1, <1>2, <2>1
  <2>3. /\ row \in AlertRow /\ row.sent = alerts[a].sent
        /\ \A c \in Channels : row.channel[c] = "sent" <=> alerts[a].channel[c] = "sent"
    BY <2>1 DEF AlertRow, Channels
  <2> HIDE DEF row
  <2> QED
    BY <1>2, <2>1, <2>2, <2>3 DEF RowsMove
<1>6. ItemsMove /\ FaultMove
  BY <1>1, ItemsSame, FaultCounts
<1>7. Keeps(w, r)
  BY <1>1, <1>4 DEF Keeps, Planned, Emailing
<1>8. Silent(w, r)
  BY <1>1, <1>2, <1>4 DEF Silent, Sending, Marking
<1>9. QuotaMove(w, r)
  BY <1>1, <1>4 DEF QuotaMove, Holds, Granted
<1> QED
  BY <1>1, <1>2, <1>5, <1>6, <1>7, <1>8, <1>9, SilentMove

\* The email: sent, refused, or sent with its answer lost.
LEMMA SendEmailMove ==
    ASSUME Shape, NEW w \in Slots, SendEmail(w)
    PROVE  \E r : AttemptMove(w, r)
<1> DEFINE ok == [run[w] EXCEPT !.pc = "mark_email"]
           no == [run[w] EXCEPT !.pc = "release"]
<1>1. /\ run[w].pc = "send_email"
      /\ Message(w, "email", ok, no)
      /\ alerts' = alerts /\ items' = items /\ used' = used
      /\ UNCHANGED <<config, jobs, calls, sends>>
  BY DEF SendEmail
<1>2. run[w] \in Attempt /\ used \in Int /\ "webhook" \notin run[w].todo
  BY <1>1, BusySlot DEF Shape, TypeOK, Emailing
<1>3. /\ ok \in Attempt /\ ok.pc = "mark_email" /\ ok.todo = run[w].todo
      /\ ok.alert = run[w].alert /\ ok.owns = run[w].owns /\ ok.need = run[w].need
      /\ ok.chats = run[w].chats /\ ok.missed = run[w].missed
  BY <1>2 DEF Attempt
<1>4. /\ no \in Attempt /\ no.pc = "release" /\ no.todo = run[w].todo
      /\ no.alert = run[w].alert /\ no.owns = run[w].owns /\ no.need = run[w].need
      /\ no.chats = run[w].chats /\ no.missed = run[w].missed
  BY <1>2 DEF Attempt
<1> HIDE DEF ok, no
<1>5. "webhook" \in Destinations /\ "email" \in Destinations /\ "email" \notin Chats
  BY DeliveryAssumption DEF Destinations, Channels
<1>6. /\ FaultMove
      /\ Reached(w, "email")
      /\ \/ run' = [run EXCEPT ![w] = ok] /\ got'[run[w].alert]["email"] > 0 /\ ~Failed
         \/ run' = [run EXCEPT ![w] = no] /\ got' = got /\ ~Failed
         \/ run' = [run EXCEPT ![w] = no] /\ Failed
  BY <1>1, <1>5, MessageSent
<1>7. \A a \in Alerts : got'[a]["webhook"] = got[a]["webhook"]
  BY <1>5, <1>6 DEF Reached
<1>8. RowsMove(w) /\ ItemsMove
  BY <1>1, RowsSame, ItemsSame
<1>9. CASE run' = [run EXCEPT ![w] = ok] /\ got'[run[w].alert]["email"] > 0
  <2>1. Keeps(w, ok)
    BY <1>1, <1>2, <1>3, <1>9 DEF Keeps, Planned, Emailing
  <2>2. CopyMove(w, ok, "webhook") /\ CopyMove(w, ok, "email")
    BY <1>1, <1>3, <1>6, <1>7 DEF CopyMove, Sending, Marking
  <2>3. QuotaMove(w, ok)
    BY <1>1, <1>3, <1>6 DEF QuotaMove, Holds, Granted
  <2>4. ProofMove(w, ok)
    BY <1>1, <1>3, <1>9 DEF ProofMove, Marking
  <2> QED
    BY <1>1, <1>2, <1>5, <1>6, <1>8, <2>1, <2>2, <2>3, <2>4 DEF AttemptMove
<1>10. CASE run' = [run EXCEPT ![w] = no] /\ (got' = got \/ Failed)
  <2>1. Keeps(w, no)
    BY <1>1, <1>2, <1>4, <1>10 DEF Keeps, Planned, Emailing
  <2>2. CopyMove(w, no, "webhook") /\ CopyMove(w, no, "email")
    BY <1>1, <1>4, <1>6, <1>7, <1>10 DEF CopyMove, Sending, Marking
  <2>3. QuotaMove(w, no)
    <3>1. CASE got' = got
      BY <1>1, <1>4, <3>1 DEF QuotaMove, Holds, Granted
    <3>2. CASE Failed
      BY <1>1, <1>4, <1>6, <3>2 DEF QuotaMove, Holds, Granted
    <3> QED
      BY <1>10, <3>1, <3>2
  <2>4. ProofMove(w, no)
    BY <1>1, <1>4 DEF ProofMove, Marking
  <2> QED
    BY <1>1, <1>2, <1>5, <1>6, <1>8, <2>1, <2>2, <2>3, <2>4 DEF AttemptMove
<1> QED
  BY <1>6, <1>9, <1>10

\* The reservation of an email that was refused is given back.
LEMMA ReleaseEmailMove ==
    ASSUME Shape, NEW w \in Slots, ReleaseEmail(w)
    PROVE  \E r : AttemptMove(w, r)
<1> DEFINE r == StageOver(run[w], "email", TRUE)
<1>1. /\ run[w].pc = "release"
      /\ run' = [run EXCEPT ![w] = r]
      /\ \/ DailyLimit = 0 /\ used' = used /\ faults' = faults
         \/ DailyLimit # 0 /\ used' = used - 1 /\ faults' = faults
         \/ Fault("redis_error") /\ used' = used
      /\ alerts' = alerts /\ items' = items /\ got' = got
      /\ UNCHANGED <<config, jobs, calls, sends>>
  BY DEF ReleaseEmail
<1>2. run[w] \in Attempt /\ used \in Int /\ "webhook" \notin run[w].todo
  BY <1>1, BusySlot DEF Shape, TypeOK, Emailing
<1>3. /\ r \in Attempt /\ r.pc = "work" /\ r.todo = run[w].todo \ {"email"}
      /\ r.alert = run[w].alert /\ r.owns = run[w].owns /\ r.need = run[w].need
      /\ r.chats = run[w].chats /\ r.missed = run[w].missed
  BY <1>2, StageEnds DEF Stages, Channels
<1> HIDE DEF r
<1>4. RowsMove(w) /\ ItemsMove /\ FaultMove
  BY <1>1, RowsSame, ItemsSame, FaultCounts
<1>5. Keeps(w, r)
  BY <1>1, <1>3 DEF Keeps, Planned, Emailing
<1>6. Silent(w, r)
  BY <1>1, <1>2, <1>3 DEF Silent, Sending, Marking
<1>7. DailyLimit > 0 => QuotaMove(w, r)
  BY <1>1, <1>3 DEF QuotaMove, Holds, Granted
<1>8. used' \in Int
  BY <1>1, <1>2
<1> QED
  BY <1>4, <1>5, <1>6, <1>7, <1>8, SilentMove

\* One chat of the loop: it has received the alert, or the loop remembers that
\* it missed one.
LEMMA SendTelegramMove ==
    ASSUME Shape, NEW w \in Slots, NEW chat \in Chats, SendTelegram(w, chat)
    PROVE  \E r : AttemptMove(w, r)
<1> DEFINE ok == [run[w] EXCEPT !.chats = run[w].chats \ {chat}]
           no == [run[w] EXCEPT !.chats = run[w].chats \ {chat}, !.missed = TRUE, !.errors = TRUE]
<1>1. /\ run[w].pc = "work" /\ "telegram" \in run[w].todo
      /\ Message(w, chat, ok, no)
      /\ alerts' = alerts /\ items' = items /\ used' = used
      /\ UNCHANGED <<config, jobs, calls, sends>>
  BY DEF SendTelegram, Turn
<1>2. run[w] \in Attempt /\ used \in Int /\ config.mode = "instant"
  BY <1>1, BusySlot DEF Shape, TypeOK
<1>3. /\ ok \in Attempt /\ ok.pc = "work" /\ ok.todo = run[w].todo
      /\ ok.alert = run[w].alert /\ ok.owns = run[w].owns /\ ok.need = run[w].need
      /\ ok.chats = run[w].chats \ {chat} /\ ok.missed = run[w].missed
  BY <1>1, <1>2 DEF Attempt
<1>4. /\ no \in Attempt /\ no.pc = "work" /\ no.todo = run[w].todo
      /\ no.alert = run[w].alert /\ no.owns = run[w].owns /\ no.need = run[w].need
      /\ no.chats = run[w].chats \ {chat} /\ no.missed = TRUE
  BY <1>1, <1>2 DEF Attempt
<1> HIDE DEF ok, no
<1>5. /\ chat \in Destinations /\ "webhook" \in Destinations /\ "email" \in Destinations
      /\ chat # "webhook" /\ chat # "email"
  BY DeliveryAssumption DEF Destinations, Channels
<1>6. /\ FaultMove
      /\ Reached(w, chat)
      /\ \/ run' = [run EXCEPT ![w] = ok] /\ got'[run[w].alert][chat] > 0
         \/ run' = [run EXCEPT ![w] = no]
  BY <1>1, <1>5, MessageSent
<1>7. \A a \in Alerts : got'[a]["webhook"] = got[a]["webhook"] /\ got'[a]["email"] = got[a]["email"]
  BY <1>5, <1>6 DEF Reached
<1>8. RowsMove(w) /\ ItemsMove
  BY <1>1, RowsSame, ItemsSame
<1>9. CASE run' = [run EXCEPT ![w] = ok] /\ got'[run[w].alert][chat] > 0
  <2>1. Keeps(w, ok)
    BY <1>1, <1>3, <1>9 DEF Keeps, Planned, Emailing
  <2>2. CopyMove(w, ok, "webhook") /\ CopyMove(w, ok, "email")
    BY <1>1, <1>3, <1>7 DEF CopyMove, Sending, Marking
  <2>3. QuotaMove(w, ok)
    BY <1>1, <1>3, <1>7 DEF QuotaMove, Holds, Granted
  <2>4. ProofMove(w, ok)
    BY <1>1, <1>3, <1>9 DEF ProofMove, Marking
  <2> QED
    BY <1>1, <1>2, <1>5, <1>6, <1>8, <2>1, <2>2, <2>3, <2>4 DEF AttemptMove
<1>10. CASE run' = [run EXCEPT ![w] = no]
  <2>1. Keeps(w, no)
    BY <1>1, <1>4, <1>10 DEF Keeps, Planned, Emailing
  <2>2. CopyMove(w, no, "webhook") /\ CopyMove(w, no, "email")
    BY <1>1, <1>4, <1>7 DEF CopyMove, Sending, Marking
  <2>3. QuotaMove(w, no)
    BY <1>1, <1>4, <1>7 DEF QuotaMove, Holds, Granted
  <2>4. ProofMove(w, no)
    BY <1>4 DEF ProofMove, Marking
  <2> QED
    BY <1>1, <1>2, <1>5, <1>6, <1>8, <2>1, <2>2, <2>3, <2>4 DEF AttemptMove
<1> QED
  BY <1>6, <1>9, <1>10

\* The UPDATE after the loop over the chats.
LEMMA MarkTelegramMove ==
    ASSUME Shape, NEW w \in Slots, MarkTelegram(w)
    PROVE  \E r : AttemptMove(w, r)
<1> DEFINE r == StageOver(run[w], "telegram", FALSE)
<1>1. /\ run[w].pc = "work" /\ "telegram" \in run[w].todo /\ run[w].chats = {}
      /\ IF run[w].missed THEN alerts' = alerts ELSE MarkChannelDelivered(w, "telegram")
      /\ run' = [run EXCEPT ![w] = r]
      /\ items' = items /\ used' = used /\ got' = got /\ faults' = faults
      /\ UNCHANGED <<config, jobs, calls, sends>>
  BY DEF MarkTelegram, Turn
<1>2. run[w] \in Attempt /\ used \in Int
  BY <1>1, BusySlot DEF Shape, TypeOK
<1>3. /\ r \in Attempt /\ r.pc = "work" /\ r.todo = run[w].todo \ {"telegram"}
      /\ r.alert = run[w].alert /\ r.owns = run[w].owns /\ r.need = run[w].need
      /\ r.chats = run[w].chats /\ r.missed = run[w].missed
  BY <1>2, StageEnds DEF Stages, Channels
<1> HIDE DEF r
<1>4. RowsMove(w)
  BY <1>1, RowsSame, ChannelMarked DEF Channels
<1>5. ItemsMove /\ FaultMove
  BY <1>1, ItemsSame, FaultCounts
<1>6. Keeps(w, r)
  BY <1>1, <1>3 DEF Keeps, Planned, Emailing
<1>7. Silent(w, r)
  BY <1>1, <1>3 DEF Silent, Sending, Marking
<1>8. QuotaMove(w, r)
  BY <1>1, <1>3 DEF QuotaMove, Holds, Granted
<1> QED
  BY <1>1, <1>2, <1>4, <1>5, <1>6, <1>7, <1>8, SilentMove

\* One INSERT ... ON CONFLICT DO NOTHING of the digest.
LEMMA QueueDigestItemMove ==
    ASSUME Shape, NEW w \in Slots, NEW chat \in Chats, QueueDigestItem(w, chat)
    PROVE  \E r : AttemptMove(w, r)
<1> DEFINE a == run[w].alert
           one == [run[w] EXCEPT !.chats = run[w].chats \ {chat}]
           r == IF one.chats = {} THEN StageOver(one, "digest", FALSE) ELSE one
           item == IF items[a][chat] # "none" THEN items[a][chat]
                   ELSE IF run[w].late THEN "due" ELSE "waiting"
<1>1. /\ run[w].pc = "work" /\ "digest" \in run[w].todo
      /\ run' = [run EXCEPT ![w] = r]
      /\ items' = [items EXCEPT ![a][chat] = item]
      /\ alerts' = alerts /\ used' = used /\ got' = got /\ faults' = faults
      /\ UNCHANGED <<config, jobs, calls, sends>>
  BY DEF QueueDigestItem, Turn
<1>2. run[w] \in Attempt /\ used \in Int /\ config.mode # "instant" /\ "telegram" \notin run[w].todo
      /\ a \in Alerts
  BY <1>1, BusySlot DEF Shape, TypeOK
<1>3. /\ one \in Attempt /\ one.pc = "work" /\ one.todo = run[w].todo
      /\ one.alert = a /\ one.owns = run[w].owns /\ one.need = run[w].need
  BY <1>1, <1>2 DEF Attempt
<1> HIDE DEF one
<1>4. /\ r \in Attempt /\ r.pc = "work" /\ r.todo \subseteq run[w].todo
      /\ r.alert = a /\ r.owns = run[w].owns /\ r.need = run[w].need
  <2> DEFINE over == StageOver(one, "digest", FALSE)
  <2>1. /\ over \in Attempt /\ over.pc = "work" /\ over.todo = one.todo \ {"digest"}
        /\ over.alert = one.alert /\ over.owns = one.owns /\ over.need = one.need
    BY <1>3, StageEnds DEF Stages
  <2> HIDE DEF over
  <2>2. r = over \/ r = one
    BY DEF over
  <2> HIDE DEF r
  <2> QED
    BY <1>3, <2>1, <2>2
<1> HIDE DEF r
<1>5. RowsMove(w) /\ FaultMove
  BY <1>1, RowsSame, FaultCounts
<1>6. ItemsMove
  <2>1. items \in [Alerts -> [Chats -> {"none", "waiting", "due", "sent"}]]
    BY DEF Shape, TypeOK
  <2>2. item \in {"none", "waiting", "due", "sent"}
        /\ (item # items[a][chat] => items[a][chat] = "none" /\ item # "sent")
    BY <1>2, <2>1
  <2> HIDE DEF item
  <2> QED
    BY <1>1, <1>2, <2>1, <2>2 DEF ItemsMove
<1>7. Keeps(w, r)
  BY <1>1, <1>2, <1>4 DEF Keeps, Planned, Emailing
<1>8. CopyMove(w, r, "webhook") /\ CopyMove(w, r, "email")
  BY <1>1, <1>4 DEF CopyMove, Sending, Marking
<1>9. QuotaMove(w, r)
  BY <1>1, <1>4 DEF QuotaMove, Holds, Granted
<1>10. ProofMove(w, r)
  BY <1>1, <1>2, <1>4 DEF ProofMove, Marking
<1> QED
  BY <1>1, <1>2, <1>5, <1>6, <1>7, <1>8, <1>9, <1>10 DEF AttemptMove

\* The verdict: an alert is called sent when every required column is.
LEMMA ConcludeMove ==
    ASSUME Shape, NEW w \in Slots, Conclude(w)
    PROVE  \E r : AttemptMove(w, r)
<1> DEFINE delivered == \A c \in run[w].need : alerts[run[w].alert].channel[c] = "sent"
<1>1. /\ run[w].pc = "work"
      /\ alerts' = alerts /\ items' = items /\ used' = used /\ got' = got /\ faults' = faults
      /\ UNCHANGED <<config, jobs, calls, sends>>
  BY DEF Conclude
<1>2. run \in [Slots -> Attempt] /\ run[w] \in Attempt /\ used \in Int
  BY <1>1, BusySlot DEF Shape, TypeOK
<1>3. PICK p \in {"throw", "quota", "mark_sent", "mark_pending", "completed"} :
          run' = [run EXCEPT ![w].pc = p] /\ (p = "mark_sent" => delivered)
  BY DEF Conclude
<1> DEFINE r == [run[w] EXCEPT !.pc = p]
<1>4. /\ r \in Attempt /\ r.pc = p /\ r.todo = run[w].todo
      /\ r.alert = run[w].alert /\ r.owns = run[w].owns /\ r.need = run[w].need
      /\ r.chats = run[w].chats /\ r.missed = run[w].missed
  BY <1>2, <1>3 DEF Attempt
<1>5. run' = [run EXCEPT ![w] = r]
  BY <1>2, <1>3
<1> HIDE DEF r
<1>6. RowsMove(w) /\ ItemsMove /\ FaultMove
  BY <1>1, RowsSame, ItemsSame, FaultCounts
<1>7. Keeps(w, r)
  BY <1>1, <1>4, <1>5 DEF Keeps, Planned, Emailing
<1>8. CopyMove(w, r, "webhook") /\ CopyMove(w, r, "email")
  BY <1>1, <1>4 DEF CopyMove, Sending, Marking
<1>9. QuotaMove(w, r)
  BY <1>1, <1>4 DEF QuotaMove, Holds, Granted
<1>10. ProofMove(w, r)
  BY <1>1, <1>3, <1>4 DEF ProofMove, Marking, Planned
<1> QED
  BY <1>1, <1>2, <1>6, <1>7, <1>8, <1>9, <1>10 DEF AttemptMove

\* The UPDATE that ends an attempt touches no channel.
LEMMA OutcomeRecorded ==
    ASSUME Shape, NEW w \in Slots, run[w].pc # "idle", NEW status \in {"sent", "retrying", "failed"},
           NEW sent \in BOOLEAN, sent => run[w].pc = "mark_sent", RecordOutcome(w, status, sent)
    PROVE  RowsMove(w)
<1> DEFINE a == run[w].alert
           row == [alerts[a] EXCEPT !.status = status, !.sent = alerts[a].sent \/ sent,
                                    !.attempts = Greatest(alerts[a].attempts, run[w].number)]
<1>1. a \in Alerts /\ run[w] \in Attempt /\ alerts \in [Alerts -> AlertRow] /\ alerts[a] \in AlertRow
  BY BusySlot DEF Shape, TypeOK
<1>2. (alerts[a].sent \/ sent) \in BOOLEAN
  BY <1>1 DEF AlertRow
<1>3. Greatest(alerts[a].attempts, run[w].number) \in 0 .. Attempts
  BY <1>1 DEF AlertRow, Attempt, Greatest
<1>4. row \in AlertRow /\ row.channel = alerts[a].channel /\ row.sent = (alerts[a].sent \/ sent)
  BY <1>1, <1>2, <1>3 DEF AlertRow
<1>5. alerts' = [alerts EXCEPT ![a] = row]
  BY <1>1 DEF RecordOutcome
<1> HIDE DEF row
<1>6. alerts' \in [Alerts -> AlertRow] /\ alerts'[a] = row
      /\ \A b \in Alerts : b # a => alerts'[b] = alerts[b]
  BY <1>1, <1>4, <1>5
<1>7. \A b \in Alerts : alerts'[b].channel = alerts[b].channel
  BY <1>4, <1>6
<1>8. \A b \in Alerts : alerts'[b].sent /\ ~alerts[b].sent => b = a /\ run[w].pc = "mark_sent"
  BY <1>4, <1>6
<1> QED
  BY <1>6, <1>7, <1>8, ColumnsSame

\* The attempt writes its outcome.
LEMMA RecordMove ==
    ASSUME Shape, NEW w \in Slots, Record(w)
    PROVE  \E r : AttemptMove(w, r)
<1> DEFINE p == IF run[w].pc = "throw" THEN "failed" ELSE "completed"
           r == [run[w] EXCEPT !.pc = p]
<1>1. /\ run[w].pc \in {"mark_sent", "mark_pending", "quota", "throw"}
      /\ run' = [run EXCEPT ![w].pc = p]
      /\ items' = items /\ used' = used /\ got' = got /\ faults' = faults
      /\ UNCHANGED <<config, jobs, calls, sends>>
  BY DEF Record
<1>2. run \in [Slots -> Attempt] /\ run[w] \in Attempt /\ used \in Int
  BY <1>1, BusySlot DEF Shape, TypeOK
<1>3. RowsMove(w)
  <2>1. CASE run[w].pc = "mark_sent" /\ RecordOutcome(w, "sent", TRUE)
    BY <2>1, OutcomeRecorded
  <2>2. CASE run[w].pc = "mark_pending" /\ RecordOutcome(w, "retrying", FALSE)
    BY <2>2, OutcomeRecorded
  <2>3. CASE run[w].pc = "quota" /\ RecordOutcome(w, "failed", FALSE)
    BY <2>3, OutcomeRecorded
  <2>4. CASE run[w].pc = "throw" /\ RecordOutcome(w, IF WillRetry(w) THEN "retrying" ELSE "failed", FALSE)
    BY <2>4, OutcomeRecorded
  <2> QED
    BY <2>1, <2>2, <2>3, <2>4 DEF Record
<1>4. /\ r \in Attempt /\ r.pc = p /\ r.todo = run[w].todo
      /\ r.alert = run[w].alert /\ r.owns = run[w].owns /\ r.need = run[w].need
      /\ r.chats = run[w].chats /\ r.missed = run[w].missed
  BY <1>2 DEF Attempt
<1>5. run' = [run EXCEPT ![w] = r]
  BY <1>1, <1>2
<1> HIDE DEF r
<1>6. ItemsMove /\ FaultMove
  BY <1>1, ItemsSame, FaultCounts
<1>7. Keeps(w, r)
  BY <1>1, <1>4, <1>5 DEF Keeps, Planned, Emailing
<1>8. Silent(w, r)
  BY <1>1, <1>4 DEF Silent, Sending, Marking
<1>9. QuotaMove(w, r)
  BY <1>1, <1>4 DEF QuotaMove, Holds, Granted
<1> QED
  BY <1>1, <1>2, <1>3, <1>6, <1>7, <1>8, <1>9, SilentMove

\* An error of a statement is caught by its channel, or ends the attempt.
LEMMA StatementFailsMove ==
    ASSUME Shape, NEW w \in Slots, StatementFails(w)
    PROVE  \E r : AttemptMove(w, r)
<1> DEFINE r == AfterDbError(run[w])
<1>1. /\ run[w].pc \in {"plan", "mark_webhook", "mark_email", "refuse_email", "mark_sent",
                        "mark_pending", "quota", "throw", "work"}
      /\ run' = [run EXCEPT ![w] = r]
      /\ Fault("db_error")
      /\ alerts' = alerts /\ items' = items /\ used' = used /\ got' = got
      /\ UNCHANGED <<config, jobs, calls, sends>>
  BY DEF StatementFails, Turn
<1>2. /\ run[w] \in Attempt /\ used \in Int
      /\ run[w].pc = "mark_email" => "webhook" \notin run[w].todo
  BY <1>1, BusySlot DEF Shape, TypeOK, Emailing
<1>3. /\ r \in Attempt /\ r.todo \subseteq run[w].todo
      /\ r.alert = run[w].alert /\ r.owns = run[w].owns /\ r.need = run[w].need
      /\ r.chats = run[w].chats /\ r.missed = run[w].missed
      /\ \/ run[w].pc = "mark_webhook" /\ r.pc = "work" /\ "webhook" \notin r.todo
         \/ run[w].pc = "mark_email" /\ r.pc = "release"
         \/ r.pc \in {"failed", "throw"}
  <2>1. CASE run[w].pc = "mark_webhook"
    <3> DEFINE over == StageOver(run[w], "webhook", TRUE)
    <3>1. r = over
      BY <2>1 DEF AfterDbError
    <3>2. /\ over \in Attempt /\ over.pc = "work" /\ over.todo = run[w].todo \ {"webhook"}
          /\ over.alert = run[w].alert /\ over.owns = run[w].owns /\ over.need = run[w].need
          /\ over.chats = run[w].chats /\ over.missed = run[w].missed
      BY <1>2, StageEnds DEF Stages, Channels
    <3> HIDE DEF r, over
    <3> QED
      BY <2>1, <3>1, <3>2
  <2>2. CASE run[w].pc = "mark_email"
    <3>1. r = [run[w] EXCEPT !.pc = "release"]
      BY <2>2 DEF AfterDbError
    <3> QED
      BY <1>2, <2>2, <3>1 DEF Attempt
  <2>3. CASE run[w].pc \notin {"mark_webhook", "mark_email"}
    <3>1. PICK p \in {"failed", "throw"} : r = [run[w] EXCEPT !.pc = p]
      BY <2>3 DEF AfterDbError
    <3> QED
      BY <1>2, <3>1 DEF Attempt
  <2> QED
    BY <2>1, <2>2, <2>3
<1> HIDE DEF r
<1>4. RowsMove(w) /\ ItemsMove /\ FaultMove /\ Failed
  BY <1>1, RowsSame, ItemsSame, FaultCounts
<1>5. Keeps(w, r)
  BY <1>1, <1>2, <1>3 DEF Keeps, Planned, Emailing
<1>6. Silent(w, r)
  BY <1>1, <1>3, <1>4 DEF Silent, Sending, Marking
<1>7. QuotaMove(w, r)
  BY <1>1, <1>4 DEF QuotaMove
<1> QED
  BY <1>1, <1>2, <1>4, <1>5, <1>6, <1>7, SilentMove

\* The plan: stages of the tenant's mode, without the channels that were 'sent'.
LEMMA PlanMove ==
    ASSUME Shape, NEW w \in Slots, Plan(w)
    PROVE  \E r : AttemptMove(w, r)
<1> DEFINE a == run[w].alert
           todo == ShouldAttempt(run[w].seen)
<1>1. /\ run[w].pc = "plan"
      /\ items' = items /\ used' = used /\ got' = got /\ faults' = faults
      /\ UNCHANGED <<config, jobs, calls, sends>>
  BY DEF Plan
<1>2. /\ run \in [Slots -> Attempt] /\ run[w] \in Attempt /\ used \in Int /\ a \in Alerts
      /\ alerts \in [Alerts -> AlertRow] /\ config \in Config
  BY <1>1, BusySlot, DeliveryAssumption DEF Shape, TypeOK
<1>3. ItemsMove /\ FaultMove
  BY <1>1, ItemsSame, FaultCounts
<1>4. CASE todo # {}
  <2> DEFINE r == [run[w] EXCEPT !.pc = "work", !.seen = {}, !.todo = todo, !.need = Required,
                                 !.chats = config.chats]
  <2>1. run' = [run EXCEPT ![w] = r] /\ alerts' = alerts
    BY <1>2, <1>4 DEF Plan
  <2>2. /\ todo \subseteq Stages
        /\ "telegram" \in todo => config.mode = "instant"
        /\ "digest" \in todo => config.mode # "instant"
        /\ \A d \in {"webhook", "email"} : d \in todo => d \notin run[w].seen
    BY DEF ShouldAttempt
  <2>3. Required \subseteq Channels /\ config.chats \subseteq Chats
    BY <1>2 DEF Required, Config
  <2> HIDE DEF todo
  <2>4. /\ r \in Attempt /\ r.pc = "work" /\ r.todo = todo /\ r.need = Required
        /\ r.alert = a /\ r.owns = run[w].owns /\ r.chats = config.chats
    BY <1>2, <2>2, <2>3 DEF Attempt
  <2> HIDE DEF r
  <2>5. Keeps(w, r)
    BY <1>1, <2>1, <2>2, <2>4 DEF Keeps, Emailing
  <2>6. RowsMove(w)
    BY <2>1, RowsSame
  <2>7. CopyMove(w, r, "webhook") /\ CopyMove(w, r, "email")
    BY <1>1, <2>2, <2>4 DEF CopyMove, Sending, Marking
  <2>8. QuotaMove(w, r)
    BY <1>1, <2>4 DEF QuotaMove, Holds, Granted
  <2>9. ProofMove(w, r)
    BY <2>4 DEF ProofMove, Marking
  <2> QED
    BY <1>1, <1>2, <1>3, <2>5, <2>6, <2>7, <2>8, <2>9 DEF AttemptMove
<1>5. CASE todo = {}
  <2> DEFINE r == [run[w] EXCEPT !.pc = "completed", !.seen = {}]
             row == [alerts[a] EXCEPT !.status = "disabled"]
  <2>1. run' = [run EXCEPT ![w] = r] /\ alerts' = [alerts EXCEPT ![a] = row]
    BY <1>2, <1>5 DEF Plan
  <2>2. /\ r \in Attempt /\ r.pc = "completed" /\ r.todo = run[w].todo /\ r.need = run[w].need
        /\ r.alert = a /\ r.owns = run[w].owns /\ r.chats = run[w].chats /\ r.missed = run[w].missed
    BY <1>2 DEF Attempt
  <2>3. row \in AlertRow /\ row.channel = alerts[a].channel /\ row.sent = alerts[a].sent
    BY <1>2 DEF AlertRow
  <2> HIDE DEF r, row
  <2>4. alerts' \in [Alerts -> AlertRow]
        /\ \A b \in Alerts : alerts'[b].channel = alerts[b].channel /\ alerts'[b].sent = alerts[b].sent
    BY <1>2, <2>1, <2>3
  <2>5. RowsMove(w)
    BY <2>4, ColumnsSame
  <2>6. Keeps(w, r)
    BY <1>1, <2>1, <2>2 DEF Keeps, Emailing, Planned
  <2>7. Silent(w, r)
    BY <1>1, <2>2 DEF Silent, Sending, Marking
  <2>8. QuotaMove(w, r)
    BY <1>1, <2>2 DEF QuotaMove, Holds, Granted
  <2> QED
    BY <1>1, <1>2, <1>3, <2>5, <2>6, <2>7, <2>8, SilentMove
<1> QED
  BY <1>4, <1>5

\* Every step of an attempt but the last.
LEMMA AttemptMoves ==
    ASSUME Shape, NEW w \in Slots, AttemptStep(w) \/ StatementFails(w), ~LeaveJob(w)
    PROVE  \E r : AttemptMove(w, r)
<1>1. CASE Plan(w) \/ SendWebhook(w) \/ MarkWebhook(w)
  BY <1>1, PlanMove, SendWebhookMove, MarkWebhookMove
<1>2. CASE ReserveEmail(w) \/ GiveBack(w) \/ RefuseEmail(w) \/ SendEmail(w) \/ MarkEmail(w) \/ ReleaseEmail(w)
  BY <1>2, ReserveEmailMove, GiveBackMove, RefuseEmailMove, SendEmailMove, MarkEmailMove, ReleaseEmailMove
<1>3. CASE MarkTelegram(w) \/ Conclude(w) \/ Record(w) \/ StatementFails(w)
  BY <1>3, MarkTelegramMove, ConcludeMove, RecordMove, StatementFailsMove
<1>4. ASSUME NEW chat \in Chats, SendTelegram(w, chat) \/ QueueDigestItem(w, chat)
      PROVE  \E r : AttemptMove(w, r)
  BY <1>4, SendTelegramMove, QueueDigestItemMove
<1> QED
  BY <1>1, <1>2, <1>3, <1>4 DEF AttemptStep

-----------------------------------------------------------------------------
(* The other kinds of step *)

\* The slot lets go: its attempt is over or lost, or only its lock is.
StopMove(w, r) ==
    /\ run[w].pc # "idle"
    /\ r \in Attempt /\ ~r.owns
    /\ run' = [run EXCEPT ![w] = r]
    /\ \/ r = IdleSlot
       \/ /\ Failed
          /\ r.pc = run[w].pc /\ r.alert = run[w].alert /\ r.seen = run[w].seen
          /\ r.todo = run[w].todo /\ r.need = run[w].need
          /\ r.chats = run[w].chats /\ r.missed = run[w].missed
    /\ \A d \in {"webhook", "email"} : Sending(run[w], d) \/ Marking(run[w], d) => Failed
    /\ FaultMove
    /\ jobs' \in [Alerts -> Job]
    /\ \A a \in Alerts : JobOK(jobs'[a]) /\ (jobs'[a] # jobs[a] => run[w].owns /\ a = run[w].alert)
    /\ UNCHANGED <<config, alerts, items, used, got, calls, sends>>

\* The callers and the queue: no slot moves, no column and no message.
QueueMove ==
    /\ alerts' \in [Alerts -> AlertRow]
    /\ \A a \in Alerts : alerts'[a].channel = alerts[a].channel /\ alerts'[a].sent = alerts[a].sent
    /\ jobs' \in [Alerts -> Job]
    /\ \A a \in Alerts : JobOK(jobs'[a])
    /\ \A w \in Slots : run[w].owns => jobs'[run[w].alert].state = "active"
    /\ calls' \subseteq Call
    /\ sends' \in 0 .. MaxSends
    /\ FaultMove
    /\ UNCHANGED <<config, run, items, used, got>>

\* A slot takes the job of alert a, which no slot owns, and knows its 'sent' columns.
TakeMove(w, a, r) ==
    /\ run[w].pc = "idle"
    /\ r \in Attempt /\ r.pc = "plan" /\ r.alert = a /\ r.owns /\ r.todo = {}
    /\ r.seen = {c \in Channels : alerts[a].channel[c] = "sent"}
    /\ run' = [run EXCEPT ![w] = r]
    /\ \A v \in Slots : run[v].owns => run[v].alert # a
    /\ jobs' \in [Alerts -> Job]
    /\ jobs'[a].state = "active"
    /\ \A b \in Alerts : JobOK(jobs'[b]) /\ (b # a => jobs'[b] = jobs[b])
    /\ UNCHANGED <<config, alerts, items, used, got, calls, sends, faults>>

\* The processor is over, and BullMQ settles the job.
LEMMA LeaveJobMove ==
    ASSUME Shape, NEW w \in Slots, LeaveJob(w)
    PROVE  StopMove(w, IdleSlot)
<1> DEFINE a == run[w].alert
           made == jobs[a].made + 1
           job == CASE run[w].pc = "completed" -> Absent
                    [] run[w].pc = "failed" /\ made < Attempts ->
                          [jobs[a] EXCEPT !.state = "delayed", !.made = made]
                    [] OTHER -> [jobs[a] EXCEPT !.state = "failed", !.made = Attempts]
<1>1. /\ run[w].pc \in {"completed", "failed"}
      /\ jobs' = IF ~run[w].owns THEN jobs ELSE [jobs EXCEPT ![a] = job]
      /\ run' = [run EXCEPT ![w] = IdleSlot]
      /\ UNCHANGED <<config, alerts, calls, items, used, got, faults, sends>>
  BY DEF LeaveJob
<1>2. a \in Alerts /\ jobs \in [Alerts -> Job] /\ \A b \in Alerts : JobOK(jobs[b])
  BY <1>1, BusySlot DEF Shape, TypeOK
<1>3. job \in Job /\ JobOK(job)
  <2>1. Attempts \in Nat /\ Attempts > 0 /\ MaxStalls \in Nat /\ jobs[a] \in Job
    BY <1>2, DeliveryAssumption
  <2>5. jobs[a].made \in Nat
    BY <2>1 DEF Job
  <2>2. CASE run[w].pc = "completed"
    BY <2>1, <2>2 DEF Absent, Job, JobOK
  <2>3. CASE run[w].pc = "failed" /\ made < Attempts
    <3>1. job = [jobs[a] EXCEPT !.state = "delayed", !.made = made]
      BY <2>3
    <3> HIDE DEF job
    <3> QED
      <4>1. made \in 0 .. Attempts
        BY <2>1, <2>5, <2>3
      <4> HIDE DEF made
      <4>2. job \in Job /\ job.made = made
        BY <2>1, <3>1, <4>1 DEF Job
      <4> QED
        BY <2>3, <4>2 DEF JobOK
  <2>4. CASE run[w].pc = "failed" /\ ~(made < Attempts)
    <3>1. job = [jobs[a] EXCEPT !.state = "failed", !.made = Attempts]
      BY <2>4
    <3> HIDE DEF job
    <3> QED
      <4>0. Attempts \in 0 .. Attempts
        BY <2>1
      <4>1. job \in Job /\ job.state = "failed"
        BY <2>1, <3>1, <4>0 DEF Job
      <4> QED
        BY <4>1 DEF JobOK
  <2> QED
    BY <1>1, <2>2, <2>3, <2>4
<1> HIDE DEF job
<1>4. jobs' \in [Alerts -> Job]
      /\ \A b \in Alerts : JobOK(jobs'[b]) /\ (jobs'[b] # jobs[b] => run[w].owns /\ b = a)
  BY <1>1, <1>2, <1>3
<1>5. ~IdleSlot.owns /\ FaultMove
  BY <1>1, FaultCounts DEF IdleSlot
<1> QED
  BY <1>1, <1>4, <1>5, IdleAttempt DEF StopMove, Sending, Marking

\* The worker dies, or its lock is lost.
LEMMA SlotFailsMove ==
    ASSUME Shape, NEW w \in Slots, SlotFails(w)
    PROVE  \E r : StopMove(w, r)
<1>1. /\ UNCHANGED <<config, alerts, jobs, calls, items, used, got, sends>>
      /\ FaultMove /\ Failed
      /\ \/ run[w].pc # "idle" /\ run' = [run EXCEPT ![w] = IdleSlot]
         \/ run[w].owns /\ run' = [run EXCEPT ![w].owns = FALSE]
  BY FaultCounts DEF SlotFails
<1>2. jobs' \in [Alerts -> Job] /\ \A b \in Alerts : JobOK(jobs'[b]) /\ jobs'[b] = jobs[b]
  BY <1>1 DEF Shape, TypeOK
<1>3. CASE run[w].pc # "idle" /\ run' = [run EXCEPT ![w] = IdleSlot]
  <2>1. ~IdleSlot.owns
    BY DEF IdleSlot
  <2> QED
    BY <1>1, <1>2, <1>3, <2>1, IdleAttempt DEF StopMove
<1>4. CASE run[w].owns /\ run' = [run EXCEPT ![w].owns = FALSE]
  <2> DEFINE r == [run[w] EXCEPT !.owns = FALSE]
  <2>1. run[w].pc # "idle"
    BY <1>4 DEF Shape, SlotOK
  <2>2. run \in [Slots -> Attempt] /\ run[w] \in Attempt
    BY <2>1, BusySlot
  <2>3. /\ r \in Attempt /\ ~r.owns
        /\ r.pc = run[w].pc /\ r.alert = run[w].alert /\ r.seen = run[w].seen
        /\ r.todo = run[w].todo /\ r.need = run[w].need
        /\ r.chats = run[w].chats /\ r.missed = run[w].missed
    BY <2>2 DEF Attempt
  <2>4. run' = [run EXCEPT ![w] = r]
    BY <1>4, <2>2
  <2> HIDE DEF r
  <2> QED
    BY <1>1, <1>2, <2>1, <2>3, <2>4 DEF StopMove
<1> QED
  BY <1>1, <1>3, <1>4

\* A slot takes a waiting job.
LEMMA TakeJobMove ==
    ASSUME Shape, NEW w \in Slots, NEW a \in Alerts, TakeJob(w, a)
    PROVE  \E r : TakeMove(w, a, r)
<1> DEFINE seen == {c \in Channels : alerts[a].channel[c] = "sent"}
           r == [IdleSlot EXCEPT !.pc = "plan", !.alert = a, !.number = jobs[a].made + 1,
                                 !.owns = TRUE, !.seen = seen]
           job == [jobs[a] EXCEPT !.state = "active"]
<1>1. /\ run[w].pc = "idle" /\ jobs[a].state = "waiting"
      /\ jobs' = [jobs EXCEPT ![a].state = "active"]
      /\ run' = [run EXCEPT ![w] = r]
      /\ UNCHANGED <<config, alerts, calls, items, used, got, faults, sends>>
  BY DEF TakeJob
<1>2. /\ jobs \in [Alerts -> Job] /\ \A b \in Alerts : JobOK(jobs[b])
      /\ Attempts \in Nat
  BY DeliveryAssumption DEF Shape, TypeOK
<1>3. jobs[a] \in Job /\ jobs[a].made < Attempts /\ jobs[a].made + 1 \in 0 .. Attempts
  BY <1>1, <1>2 DEF JobOK, Job
<1>4. job \in Job /\ JobOK(job) /\ job.state = "active"
  BY <1>3 DEF Job, JobOK
<1>5. jobs' = [jobs EXCEPT ![a] = job]
  BY <1>1, <1>2
<1>6. seen \subseteq Channels
  OBVIOUS
<1>7. /\ r \in Attempt /\ r.pc = "plan" /\ r.alert = a /\ r.owns /\ r.todo = {} /\ r.seen = seen
  <2> HIDE DEF seen
  <2> QED
    BY <1>3, <1>6 DEF Attempt, IdleSlot
<1> HIDE DEF r, job
<1>8. jobs' \in [Alerts -> Job] /\ jobs'[a].state = "active"
      /\ \A b \in Alerts : JobOK(jobs'[b]) /\ (b # a => jobs'[b] = jobs[b])
  BY <1>2, <1>4, <1>5
<1>9. \A v \in Slots : run[v].owns => run[v].alert # a
  BY <1>1 DEF Shape, SlotOK
<1> QED
  BY <1>1, <1>7, <1>8, <1>9 DEF TakeMove

\* The rows change in nothing the invariants speak of.
LEMMA SameColumns ==
    ASSUME Shape, NEW a \in Alerts,
           NEW status \in {"none", "pending", "queued", "retrying", "sent", "failed", "disabled"},
           alerts' = [alerts EXCEPT ![a].status = status]
    PROVE  /\ alerts' \in [Alerts -> AlertRow]
           /\ \A b \in Alerts : alerts'[b].channel = alerts[b].channel /\ alerts'[b].sent = alerts[b].sent
<1> DEFINE row == [alerts[a] EXCEPT !.status = status]
<1>1. alerts \in [Alerts -> AlertRow] /\ alerts[a] \in AlertRow
  BY DEF Shape, TypeOK
<1>2. row \in AlertRow /\ row.channel = alerts[a].channel /\ row.sent = alerts[a].sent
  BY <1>1 DEF AlertRow
<1>3. alerts' = [alerts EXCEPT ![a] = row]
  BY <1>1
<1> HIDE DEF row
<1> QED
  BY <1>1, <1>2, <1>3

\* The job of one alert changes, and no slot owns it unless it is active.
LEMMA OneJob ==
    ASSUME Shape, NEW a \in Alerts, NEW job \in Job, JobOK(job),
           jobs' = [jobs EXCEPT ![a] = job],
           \/ job = jobs[a]
           \/ jobs[a].state # "active"
           \/ \A w \in Slots : ~(run[w].alert = a /\ run[w].owns)
    PROVE  /\ jobs' \in [Alerts -> Job]
           /\ \A b \in Alerts : JobOK(jobs'[b])
           /\ \A w \in Slots : run[w].owns => jobs'[run[w].alert].state = "active"
<1>1. jobs \in [Alerts -> Job] /\ \A b \in Alerts : JobOK(jobs[b])
  BY DEF Shape, TypeOK
<1>2. \A w \in Slots : run[w].owns => run[w].alert \in Alerts /\ jobs[run[w].alert].state = "active"
  BY DEF Shape, SlotOK
<1> QED
  BY <1>1, <1>2

\* Jobs that are left alone are well formed.
LEMMA JobsSame ==
    ASSUME Shape, jobs' = jobs
    PROVE  /\ jobs' \in [Alerts -> Job]
           /\ \A b \in Alerts : JobOK(jobs'[b])
           /\ \A w \in Slots : run[w].owns => jobs'[run[w].alert].state = "active"
BY DEF Shape, TypeOK, SlotOK

\* The calls that ask for a delivery, step by step or lost.
LEMMA CallMove ==
    ASSUME Shape, NEW c \in calls, CallStep(c) \/ CallLost(c)
    PROVE  QueueMove
<1>1. c \in Call /\ c.alert \in Alerts /\ calls \subseteq Call
  BY DEF Shape, TypeOK, Call
<1>2. \A step \in {"read", "mark", "add"} : [c EXCEPT !.step = step] \in Call
  BY <1>1 DEF Call
<1>3. calls' \subseteq Call
  BY <1>1, <1>2 DEF CallStep, CallLost, ReadAlert, MarkDeliveryQueued, EnqueueDelivery, Advance
<1>4. UNCHANGED <<config, run, items, used, got, sends>> /\ sends \in 0 .. MaxSends
  BY DEF CallStep, CallLost, ReadAlert, MarkDeliveryQueued, EnqueueDelivery, Shape, TypeOK
<1>5. FaultMove
  BY FaultCounts DEF CallStep, CallLost, ReadAlert, MarkDeliveryQueued, EnqueueDelivery
<1>6. /\ alerts' \in [Alerts -> AlertRow]
      /\ \A a \in Alerts : alerts'[a].channel = alerts[a].channel /\ alerts'[a].sent = alerts[a].sent
  <2>1. CASE MarkDeliveryQueued(c)
    <3> DEFINE status == IF alerts[c.alert].attempts > 0 THEN "retrying" ELSE "queued"
    <3>1. alerts' = [alerts EXCEPT ![c.alert].status = status]
      BY <2>1 DEF MarkDeliveryQueued
    <3>2. status \in {"none", "pending", "queued", "retrying", "sent", "failed", "disabled"}
      OBVIOUS
    <3> HIDE DEF status
    <3> QED
      BY <1>1, <3>1, <3>2, SameColumns
  <2>2. CASE alerts' = alerts
    BY <2>2 DEF Shape, TypeOK
  <2> QED
    BY <2>1, <2>2 DEF CallStep, CallLost, ReadAlert, EnqueueDelivery
<1>7. /\ jobs' \in [Alerts -> Job]
      /\ \A b \in Alerts : JobOK(jobs'[b])
      /\ \A w \in Slots : run[w].owns => jobs'[run[w].alert].state = "active"
  <2>1. CASE EnqueueDelivery(c)
    <3> DEFINE job == IF jobs[c.alert].state = "absent" THEN Queued ELSE jobs[c.alert]
    <3>1. jobs' = [jobs EXCEPT ![c.alert] = job]
      BY <2>1 DEF EnqueueDelivery
    <3>2. Queued \in Job /\ JobOK(Queued)
      BY DeliveryAssumption DEF Queued, Job, JobOK
    <3>3. jobs[c.alert] \in Job /\ JobOK(jobs[c.alert])
      BY <1>1 DEF Shape, TypeOK
    <3>4. job \in Job /\ JobOK(job) /\ (job = jobs[c.alert] \/ jobs[c.alert].state # "active")
      BY <3>2, <3>3
    <3> HIDE DEF job
    <3> QED
      BY <1>1, <3>1, <3>4, OneJob
  <2>2. CASE jobs' = jobs
    BY <2>2, JobsSame
  <2> QED
    BY <2>1, <2>2 DEF CallStep, CallLost, ReadAlert, MarkDeliveryQueued
<1> QED
  BY <1>3, <1>4, <1>5, <1>6, <1>7 DEF QueueMove

\* An alert is created, or sent again.
LEMMA AskMove ==
    ASSUME Shape, NEW a \in Alerts, CreateAlert(a) \/ SendAgain(a)
    PROVE  QueueMove
<1>1. /\ UNCHANGED <<config, run, items, used, got, jobs>> /\ faults' = faults
  BY DEF CreateAlert, SendAgain
<1>2. calls' \subseteq Call /\ sends' \in 0 .. MaxSends
  <2>1. sends \in 0 .. MaxSends /\ MaxSends \in Nat /\ calls \subseteq Call
    BY DeliveryAssumption DEF Shape, TypeOK
  <2>2. \A n \in 0 .. MaxSends : [alert |-> a, number |-> n, step |-> "read"] \in Call
    BY DEF Call
  <2>3. CASE CreateAlert(a)
    BY <2>1, <2>2, <2>3 DEF CreateAlert
  <2>4. CASE SendAgain(a)
    BY <2>1, <2>2, <2>4 DEF SendAgain
  <2> QED
    BY <2>3, <2>4
<1>3. /\ alerts' \in [Alerts -> AlertRow]
      /\ \A b \in Alerts : alerts'[b].channel = alerts[b].channel /\ alerts'[b].sent = alerts[b].sent
  <2>1. CASE CreateAlert(a)
    BY <2>1, SameColumns DEF CreateAlert
  <2>2. CASE SendAgain(a)
    BY <2>2 DEF SendAgain, Shape, TypeOK
  <2> QED
    BY <2>1, <2>2
<1> QED
  BY <1>1, <1>2, <1>3, JobsSame, FaultCounts DEF QueueMove

\* What the queue does by itself.
LEMMA JobMove ==
    ASSUME Shape, NEW a \in Alerts, QueueStep(a) \/ EvictFailed(a)
    PROVE  QueueMove
<1>1. /\ UNCHANGED <<config, alerts, run, items, used, got, calls, sends>> /\ faults' = faults
  BY DEF QueueStep, EvictFailed
<1>2. /\ jobs \in [Alerts -> Job] /\ jobs[a] \in Job /\ JobOK(jobs[a])
      /\ Attempts \in Nat /\ MaxStalls \in Nat
  BY DeliveryAssumption DEF Shape, TypeOK
<1>3. \E job \in Job :
          /\ JobOK(job) /\ jobs' = [jobs EXCEPT ![a] = job]
          /\ \/ jobs[a].state # "active"
             \/ \A w \in Slots : ~(run[w].alert = a /\ run[w].owns)
  <2>1. CASE jobs[a].state = "delayed" /\ jobs' = [jobs EXCEPT ![a].state = "waiting"]
    <3> DEFINE job == [jobs[a] EXCEPT !.state = "waiting"]
    <3>1. job \in Job /\ JobOK(job)
      BY <1>2, <2>1 DEF Job, JobOK
    <3>2. jobs' = [jobs EXCEPT ![a] = job]
      BY <1>2, <2>1
    <3> HIDE DEF job
    <3> QED
      BY <2>1, <3>1, <3>2
  <2>2. CASE /\ jobs[a].state = "active"
             /\ \A w \in Slots : ~(run[w].alert = a /\ run[w].owns)
             /\ jobs' = [jobs EXCEPT ![a] =
                   IF jobs[a].stalls < MaxStalls
                   THEN [jobs[a] EXCEPT !.state = "waiting", !.stalls = jobs[a].stalls + 1]
                   ELSE [jobs[a] EXCEPT !.state = "failed"]]
    <3> DEFINE again == [jobs[a] EXCEPT !.state = "waiting", !.stalls = jobs[a].stalls + 1]
               lost == [jobs[a] EXCEPT !.state = "failed"]
    <3>1. jobs[a].stalls < MaxStalls => again \in Job /\ JobOK(again)
      <4>1. SUFFICES ASSUME jobs[a].stalls < MaxStalls PROVE again \in Job /\ JobOK(again)
        OBVIOUS
      <4>2. jobs[a].stalls + 1 \in 0 .. MaxStalls
        BY <1>2, <4>1 DEF Job
      <4>3. again \in Job /\ again.made = jobs[a].made
        BY <1>2, <4>2 DEF Job
      <4> QED
        BY <1>2, <2>2, <4>3 DEF JobOK
    <3>2. lost \in Job /\ JobOK(lost)
      BY <1>2 DEF Job, JobOK
    <3> HIDE DEF again, lost
    <3>3. jobs' = [jobs EXCEPT ![a] = IF jobs[a].stalls < MaxStalls THEN again ELSE lost]
      BY <2>2 DEF again, lost
    <3> QED
      BY <2>2, <3>1, <3>2, <3>3
  <2>3. CASE jobs[a].state = "failed" /\ jobs' = [jobs EXCEPT ![a] = Absent]
    <3>1. Absent \in Job /\ JobOK(Absent)
      BY DeliveryAssumption DEF Absent, Job, JobOK
    <3> QED
      BY <2>3, <3>1
  <2> QED
    BY <2>1, <2>2, <2>3 DEF QueueStep, EvictFailed
<1>4. /\ jobs' \in [Alerts -> Job]
      /\ \A b \in Alerts : JobOK(jobs'[b])
      /\ \A w \in Slots : run[w].owns => jobs'[run[w].alert].state = "active"
  BY <1>3, OneJob
<1>5. /\ alerts' \in [Alerts -> AlertRow] /\ calls' \subseteq Call /\ sends' \in 0 .. MaxSends
      /\ \A b \in Alerts : alerts'[b].channel = alerts[b].channel /\ alerts'[b].sent = alerts[b].sent
  BY <1>1 DEF Shape, TypeOK
<1> QED
  BY <1>1, <1>4, <1>5, FaultCounts DEF QueueMove

\* Every step of the specification is of one of four kinds; one that changes
\* nothing is a move of the queue.
Moves ==
    \/ \E w \in Slots, r \in Attempt : AttemptMove(w, r)
    \/ \E w \in Slots, r \in Attempt : StopMove(w, r)
    \/ \E w \in Slots, a \in Alerts, r \in Attempt : TakeMove(w, a, r)
    \/ QueueMove

\* Every step is a move.
LEMMA NextMoves ==
    ASSUME Shape, [Next]_vars
    PROVE  Moves
<1>1. ASSUME NEW a \in Alerts, CreateAlert(a) \/ SendAgain(a) \/ QueueStep(a) \/ EvictFailed(a)
      PROVE  Moves
  BY <1>1, AskMove, JobMove DEF Moves
<1>2. ASSUME NEW c \in calls, CallStep(c) \/ CallLost(c) PROVE Moves
  BY <1>2, CallMove DEF Moves
<1>3. ASSUME NEW w \in Slots, NEW a \in Alerts, TakeJob(w, a) PROVE Moves
  BY <1>3, TakeJobMove DEF Moves, TakeMove
<1>4. ASSUME NEW w \in Slots, AttemptStep(w) \/ StatementFails(w) \/ SlotFails(w) PROVE Moves
  <2>1. CASE LeaveJob(w)
    BY <2>1, LeaveJobMove, IdleAttempt DEF Moves
  <2>2. CASE SlotFails(w)
    BY <2>2, SlotFailsMove DEF Moves, StopMove
  <2>3. CASE ~LeaveJob(w) /\ (AttemptStep(w) \/ StatementFails(w))
    BY <2>3, AttemptMoves DEF Moves, AttemptMove, Keeps
  <2> QED
    BY <1>4, <2>1, <2>2, <2>3
<1>5. CASE UNCHANGED vars
  <2>1. UNCHANGED <<config, alerts, jobs, run, calls, items, used, got, sends, faults>>
    BY <1>5 DEF vars
  <2>2. QueueMove
    BY <2>1, JobsSame, FaultCounts DEF QueueMove, Shape, TypeOK
  <2> QED
    BY <2>2 DEF Moves
<1> QED
  BY <1>1, <1>2, <1>3, <1>4, <1>5 DEF Next

-----------------------------------------------------------------------------
(* Shape is kept *)

\* Each kind of move keeps Shape.
LEMMA AttemptShape ==
    ASSUME Shape, NEW w \in Slots, NEW r \in Attempt, AttemptMove(w, r)
    PROVE  Shape'
<1>1. run \in [Slots -> Attempt] /\ run' = [run EXCEPT ![w] = r] /\ UNCHANGED <<config, jobs, calls, sends>>
  BY DEF Shape, TypeOK, AttemptMove, Keeps
<1>2. ASSUME NEW v \in Slots PROVE run'[v] = IF v = w THEN r ELSE run[v]
  BY <1>1
<1>3. Required' = Required
  BY <1>1 DEF Required
<1>4. SlotOK(r)'
  BY <1>1, <1>3 DEF Shape, SlotOK, AttemptMove, Keeps
<1>5. ASSUME NEW v \in Slots PROVE SlotOK(run[v])'
  BY <1>1, <1>2, <1>3, <1>4 DEF Shape, SlotOK
<1>6. OneOwner'
  BY <1>2 DEF Shape, OneOwner, AttemptMove, Keeps
<1>7. TypeOK'
  <2>1. run' \in [Slots -> Attempt]
    BY <1>1
  <2>2. got' \in [Alerts -> [Destinations -> 0 .. MaxCopies]]
    BY DEF AttemptMove, Reached, Shape, TypeOK
  <2> QED
    BY <1>1, <2>1, <2>2 DEF Shape, TypeOK, AttemptMove, FaultMove, RowsMove, ItemsMove
<1> QED
  BY <1>1, <1>5, <1>6, <1>7 DEF Shape

\* A slot that lets go keeps Shape.
LEMMA StopShape ==
    ASSUME Shape, NEW w \in Slots, NEW r \in Attempt, StopMove(w, r)
    PROVE  Shape'
<1>1. /\ run \in [Slots -> Attempt] /\ run' = [run EXCEPT ![w] = r] /\ ~r.owns
      /\ UNCHANGED <<config, alerts, items, used, got, calls, sends>>
  BY DEF Shape, TypeOK, StopMove
<1>2. ASSUME NEW v \in Slots PROVE run'[v] = IF v = w THEN r ELSE run[v]
  BY <1>1
<1>3. Required' = Required
  BY <1>1 DEF Required
<1>4. SlotOK(r)'
  BY <1>1, <1>3 DEF Shape, SlotOK, StopMove, IdleSlot, Planned, Emailing
<1>5. ASSUME NEW v \in Slots, v # w PROVE SlotOK(run[v])'
  <2>1. run[v].owns => jobs'[run[v].alert] = jobs[run[v].alert]
    BY <1>5 DEF Shape, SlotOK, OneOwner, StopMove
  <2> QED
    BY <1>1, <1>2, <1>3, <1>5, <2>1 DEF Shape, SlotOK
<1>6. OneOwner'
  BY <1>1, <1>2 DEF Shape, OneOwner
<1>7. TypeOK'
  BY <1>1 DEF Shape, TypeOK, StopMove, FaultMove
<1> QED
  BY <1>2, <1>4, <1>5, <1>6, <1>7 DEF Shape, StopMove

\* A slot that takes a job has its lock alone.
LEMMA TakeShape ==
    ASSUME Shape, NEW w \in Slots, NEW a \in Alerts, NEW r \in Attempt, TakeMove(w, a, r)
    PROVE  Shape'
<1>1. /\ run \in [Slots -> Attempt] /\ run' = [run EXCEPT ![w] = r]
      /\ UNCHANGED <<config, alerts, items, used, got, calls, sends, faults>>
  BY DEF Shape, TypeOK, TakeMove
<1>2. ASSUME NEW v \in Slots PROVE run'[v] = IF v = w THEN r ELSE run[v]
  BY <1>1
<1>3. Required' = Required
  BY <1>1 DEF Required
<1>4. SlotOK(r)'
  BY <1>1, <1>3 DEF SlotOK, TakeMove, Planned, Emailing
<1>5. ASSUME NEW v \in Slots, v # w PROVE SlotOK(run[v])'
  BY <1>1, <1>2, <1>3, <1>5 DEF Shape, SlotOK, TakeMove
<1>6. OneOwner'
  BY <1>1, <1>2 DEF Shape, OneOwner, TakeMove
<1>7. TypeOK'
  BY <1>1 DEF Shape, TypeOK, TakeMove
<1> QED
  BY <1>2, <1>4, <1>5, <1>6, <1>7 DEF Shape, TakeMove

\* The callers and the queue touch no job that is owned.
LEMMA QueueShape ==
    ASSUME Shape, QueueMove
    PROVE  Shape'
<1>1. UNCHANGED <<config, run, items, used, got>>
  BY DEF QueueMove
<1>2. Required' = Required
  BY <1>1 DEF Required
<1>3. ASSUME NEW v \in Slots PROVE SlotOK(run[v])'
  BY <1>1, <1>2 DEF Shape, SlotOK, QueueMove
<1>4. OneOwner'
  BY <1>1 DEF Shape, OneOwner
<1>5. TypeOK'
  BY <1>1 DEF Shape, TypeOK, QueueMove, FaultMove
<1> QED
  BY <1>3, <1>4, <1>5 DEF Shape, QueueMove

\* Shape holds at first, and every step keeps it.
LEMMA InitShape == Init => Shape
<1> SUFFICES ASSUME Init PROVE Shape
  OBVIOUS
<1>1. /\ NoRow \in AlertRow /\ Absent \in Job /\ JobOK(Absent)
  BY DeliveryAssumption DEF NoRow, AlertRow, Absent, Job, JobOK
<1>2. IdleSlot.pc = "idle" /\ ~IdleSlot.owns /\ IdleSlot.todo = {}
  BY DEF IdleSlot
<1>3. 0 \in 0 .. MaxCopies /\ 0 \in 0 .. MaxFaults /\ 0 \in 0 .. MaxSends
  BY DeliveryAssumption
<1>4. TypeOK
  BY <1>1, <1>3, IdleAttempt DEF Init, TypeOK
<1>5. \A w \in Slots : SlotOK(run[w])
  BY <1>2 DEF Init, SlotOK, Planned, Emailing
<1>6. OneOwner
  BY <1>2 DEF Init, OneOwner
<1> QED
  BY <1>1, <1>4, <1>5, <1>6 DEF Shape, Init

\* Every step keeps Shape.
LEMMA NextShape == Shape /\ [Next]_vars => Shape'
<1> SUFFICES ASSUME Shape, [Next]_vars PROVE Shape'
  OBVIOUS
<1> QED
  BY NextMoves, AttemptShape, StopShape, TakeShape, QueueShape DEF Moves

\* The delivery columns, the queue, the slots and the counters keep their types:
\* among others no job is attempted more often than the queue's `attempts`, and
\* no attempt number goes beyond it, however often jobs stall or are sent again.
THEOREM DeliveryTypes == Spec => []TypeOK
<1>1. Shape => TypeOK
  BY DEF Shape
<1> QED
  BY <1>1, InitShape, NextShape, PTL DEF Spec

-----------------------------------------------------------------------------
(* What the rows say was received *)

\* What an attempt is about to write is already true: the message it will mark
\* arrived, the chats its loop has passed have the alert unless one refused, and
\* the columns it will call complete are 'sent'.
Claims(r) ==
    /\ \A d \in {"webhook", "email"} : Marking(r, d) => got[r.alert][d] > 0
    /\ r.pc # "idle" /\ "telegram" \in r.todo /\ ~r.missed =>
          \A chat \in config.chats : chat \notin r.chats => got[r.alert][chat] > 0
    /\ r.pc = "mark_sent" => \A c \in Required : alerts[r.alert].channel[c] = "sent"

Received == SentMeansReceived /\ \A w \in Slots : Claims(run[w])

\* Messages are not unsent, and columns are not demoted.
Grows ==
    /\ \A a \in Alerts, d \in Destinations : got[a][d] > 0 => got'[a][d] > 0
    /\ \A a \in Alerts, c \in Channels : alerts[a].channel[c] = "sent" => alerts'[a].channel[c] = "sent"

\* No move takes a message or a column back.
LEMMA MovesGrow ==
    ASSUME Shape, Moves
    PROVE  Grows
<1>1. ASSUME NEW w \in Slots, NEW r \in Attempt, AttemptMove(w, r) PROVE Grows
  <2>1. \A a \in Alerts, c \in Channels : alerts[a].channel[c] = "sent" => alerts'[a].channel[c] = "sent"
    BY <1>1 DEF AttemptMove, RowsMove
  <2>2. got \in [Alerts -> [Destinations -> 0 .. MaxCopies]]
    BY DEF Shape, TypeOK
  <2>3. \A a \in Alerts, d \in Destinations : got[a][d] > 0 => got'[a][d] > 0
    <3>1. CASE got' = got
      BY <3>1
    <3>2. ASSUME NEW d \in Destinations, Reached(w, d)
          PROVE  \A a \in Alerts, e \in Destinations : got[a][e] > 0 => got'[a][e] > 0
      BY <2>2, <3>2 DEF Reached
    <3> QED
      BY <1>1, <3>1, <3>2 DEF AttemptMove
  <2> QED
    BY <2>1, <2>3 DEF Grows
<1>2. ASSUME NEW w \in Slots, NEW r \in Attempt, StopMove(w, r) PROVE Grows
  BY <1>2 DEF StopMove, Grows
<1>3. ASSUME NEW w \in Slots, NEW a \in Alerts, NEW r \in Attempt, TakeMove(w, a, r) PROVE Grows
  BY <1>3 DEF TakeMove, Grows
<1>4. CASE QueueMove
  BY <1>4 DEF QueueMove, Grows
<1> QED
  BY <1>1, <1>2, <1>3, <1>4 DEF Moves

\* A channel that is 'sent' stays 'sent': no attempt that lost its lock, no
\* refusal over the quota and no repeated send demotes it (markChannelFailed).
THEOREM SentChannelsStay == Spec => DeliveredStays
<1>1. Shape /\ [Next]_vars =>
        [\A a \in Alerts, c \in Channels :
            alerts[a].channel[c] = "sent" => alerts'[a].channel[c] = "sent"]_vars
  BY NextMoves, MovesGrow DEF Grows
<1> QED
  BY <1>1, InitShape, NextShape, PTL DEF Spec, DeliveredStays

\* The claims of a slot that stands still stay true.
LEMMA ClaimsGrow ==
    ASSUME Shape, Grows, NEW w \in Slots, Claims(run[w]), config' = config,
           run'[w] = run[w]
    PROVE  Claims(run[w])'
<1>1. /\ run[w].pc # "idle" => run[w].alert \in Alerts
      /\ Required' = Required /\ Required \subseteq Channels
  BY DEF Shape, SlotOK, Required
<1>2. config.chats \subseteq Destinations /\ {"webhook", "email"} \subseteq Destinations
  BY DeliveryAssumption DEF Shape, TypeOK, Config, Destinations
<1>3. \A d \in {"webhook", "email"} : Marking(run[w], d) => run[w].pc # "idle"
  BY DEF Marking
<1> QED
  BY <1>1, <1>2, <1>3 DEF Claims, Grows, Marking

\* Rows that gain nothing claim nothing new.
LEMMA RowsStillReceived ==
    ASSUME Shape, Grows, SentMeansReceived, config' = config,
           \A a \in Alerts, c \in Channels : alerts'[a].channel[c] = "sent" => alerts[a].channel[c] = "sent",
           \A a \in Alerts : alerts'[a].sent => alerts[a].sent
    PROVE  SentMeansReceived'
<1>1. Required' = Required /\ Required \subseteq Channels
  BY DEF Required
<1>2. config.chats \subseteq Destinations /\ {"webhook", "email"} \subseteq Destinations
  BY DeliveryAssumption DEF Shape, TypeOK, Config, Destinations
<1> QED
  BY <1>1, <1>2 DEF SentMeansReceived, Grows, Channels

\* Each kind of move keeps what the rows and the attempts claim.
LEMMA AttemptReceived ==
    ASSUME Shape, Received, NEW w \in Slots, NEW r \in Attempt, AttemptMove(w, r), Grows
    PROVE  Received'
<1> DEFINE a == run[w].alert
<1>1. /\ run \in [Slots -> Attempt] /\ run' = [run EXCEPT ![w] = r] /\ config' = config
      /\ run[w].pc # "idle" /\ r.alert = a /\ a \in Alerts
  BY DEF Shape, TypeOK, SlotOK, AttemptMove, Keeps
<1>2. ASSUME NEW v \in Slots PROVE run'[v] = IF v = w THEN r ELSE run[v]
  BY <1>1
<1>3. Required' = Required /\ Required \subseteq Channels
  BY <1>1 DEF Required
<1>4. /\ config.chats \subseteq Chats /\ config.chats \subseteq Destinations
      /\ {"webhook", "email"} \subseteq Destinations
  BY DeliveryAssumption DEF Shape, TypeOK, Config, Destinations
<1>5. Claims(run[w]) /\ ProofMove(w, r) /\ RowsMove(w) /\ (run[w].pc \in Planned => run[w].need = Required)
  BY DEF Received, AttemptMove, Shape, SlotOK
<1>6. Claims(r)'
  <2>1. \A d \in {"webhook", "email"} : Marking(r, d) => got'[a][d] > 0
    BY <1>5 DEF ProofMove
  <2>2. ASSUME "telegram" \in r.todo, ~r.missed, NEW chat \in config.chats, chat \notin r.chats
        PROVE  got'[a][chat] > 0
    BY <1>1, <1>4, <1>5, <2>2 DEF ProofMove, Claims, Grows
  <2>3. r.pc = "mark_sent" => \A c \in Required : alerts'[a].channel[c] = "sent"
    BY <1>5 DEF ProofMove
  <2> QED
    BY <1>1, <1>3, <2>1, <2>2, <2>3 DEF Claims, Marking
<1>7. \A v \in Slots : Claims(run[v])'
  <2>1. ASSUME NEW v \in Slots, v # w PROVE Claims(run[v])'
    BY <1>1, <1>2, <2>1, ClaimsGrow DEF Received
  <2>2. Claims(run[w])'
    BY <1>2, <1>6 DEF Claims, Marking
  <2> QED
    BY <2>1, <2>2
<1>8. SentMeansReceived'
  <2> SUFFICES ASSUME NEW b \in Alerts
               PROVE  /\ \A c \in {"webhook", "email"} : alerts'[b].channel[c] = "sent" => got'[b][c] > 0
                      /\ config.mode = "instant" /\ alerts'[b].channel["telegram"] = "sent" =>
                            \A chat \in config.chats : got'[b][chat] > 0
                      /\ alerts'[b].sent => \A c \in Required : alerts'[b].channel[c] = "sent"
    BY <1>1, <1>3 DEF SentMeansReceived
  <2>1. ASSUME NEW c \in {"webhook", "email"}, alerts'[b].channel[c] = "sent" PROVE got'[b][c] > 0
    BY <1>1, <1>4, <1>5, <2>1 DEF RowsMove, Received, SentMeansReceived, Claims, Marking, Grows, Channels
  <2>2. ASSUME config.mode = "instant", alerts'[b].channel["telegram"] = "sent", NEW chat \in config.chats
        PROVE  got'[b][chat] > 0
    BY <1>1, <1>4, <1>5, <2>2 DEF RowsMove, Received, SentMeansReceived, Claims, Grows, Channels
  <2>3. ASSUME alerts'[b].sent, NEW c \in Required PROVE alerts'[b].channel[c] = "sent"
    BY <1>1, <1>3, <1>5, <2>3 DEF RowsMove, Received, SentMeansReceived, Claims, Grows
  <2> QED
    BY <2>1, <2>2, <2>3
<1> QED
  BY <1>7, <1>8 DEF Received

\* A slot that lets go claims nothing.
LEMMA StopReceived ==
    ASSUME Shape, Received, NEW w \in Slots, NEW r \in Attempt, StopMove(w, r), Grows
    PROVE  Received'
<1>1. /\ run \in [Slots -> Attempt] /\ run' = [run EXCEPT ![w] = r]
      /\ UNCHANGED <<config, alerts, got>>
  BY DEF Shape, TypeOK, StopMove
<1>2. ASSUME NEW v \in Slots PROVE run'[v] = IF v = w THEN r ELSE run[v]
  BY <1>1
<1>3. Required' = Required
  BY <1>1 DEF Required
<1>4. Claims(r)'
  BY <1>1, <1>3 DEF StopMove, Received, Claims, Marking, IdleSlot
<1>5. \A v \in Slots : Claims(run[v])'
  <2>1. ASSUME NEW v \in Slots, v # w PROVE Claims(run[v])'
    BY <1>1, <1>2, <2>1, ClaimsGrow DEF Received
  <2>2. Claims(run[w])'
    BY <1>2, <1>4 DEF Claims, Marking
  <2> QED
    BY <2>1, <2>2
<1> QED
  BY <1>1, <1>5, RowsStillReceived DEF Received

\* A slot that takes a job knows only what it reads in the row.
LEMMA TakeReceived ==
    ASSUME Shape, Received, NEW w \in Slots, NEW a \in Alerts, NEW r \in Attempt, TakeMove(w, a, r), Grows
    PROVE  Received'
<1>1. /\ run \in [Slots -> Attempt] /\ run' = [run EXCEPT ![w] = r]
      /\ UNCHANGED <<config, alerts, got>>
  BY DEF Shape, TypeOK, TakeMove
<1>2. ASSUME NEW v \in Slots PROVE run'[v] = IF v = w THEN r ELSE run[v]
  BY <1>1
<1>3. Claims(r)'
  BY DEF TakeMove, Claims, Marking
<1>4. \A v \in Slots : Claims(run[v])'
  <2>1. ASSUME NEW v \in Slots, v # w PROVE Claims(run[v])'
    BY <1>1, <1>2, <2>1, ClaimsGrow DEF Received
  <2>2. Claims(run[w])'
    BY <1>2, <1>3 DEF Claims, Marking
  <2> QED
    BY <2>1, <2>2
<1> QED
  BY <1>1, <1>4, RowsStillReceived DEF Received

\* The callers and the queue mark nothing as sent.
LEMMA QueueReceived ==
    ASSUME Shape, Received, QueueMove, Grows
    PROVE  Received'
<1>1. \A v \in Slots : Claims(run[v])'
  BY ClaimsGrow DEF QueueMove, Received
<1> QED
  BY <1>1, RowsStillReceived DEF Received, QueueMove

\* Every step keeps Received.
LEMMA NextReceived == Shape /\ Received /\ [Next]_vars => Received'
<1> SUFFICES ASSUME Shape, Received, [Next]_vars PROVE Received'
  OBVIOUS
<1> QED
  BY NextMoves, MovesGrow, AttemptReceived, StopReceived, TakeReceived, QueueReceived DEF Moves

\* No row claims what no reader got: a channel marked 'sent' was received, by
\* every chat for an instant Telegram alert, and an alert marked sent has every
\* required channel 'sent', however attempts fail, retry, stall and overlap.
THEOREM SentWasReceived == Spec => []SentMeansReceived
<1>1. Init => Received
  <2> SUFFICES ASSUME Init PROVE Received
    OBVIOUS
  <2>1. \A c \in Channels : NoRow.channel[c] = "pending" /\ ~NoRow.sent
    BY DEF NoRow
  <2>2. SentMeansReceived
    BY <2>1 DEF Init, SentMeansReceived, Channels
  <2>3. \A w \in Slots : Claims(run[w])
    BY DEF Init, Claims, Marking, IdleSlot
  <2> QED
    BY <2>2, <2>3 DEF Received
<1>2. Received => SentMeansReceived
  BY DEF Received
<1> QED
  BY <1>1, <1>2, InitShape, NextShape, NextReceived, PTL DEF Spec

-----------------------------------------------------------------------------
(* How many copies of a webhook or an email leave *)

\* The slots about to send d for alert a, and whether one that has the lock of
\* the job is about to send it or to mark it.
Armed(a, d) == {w \in Slots : run[w].alert = a /\ Sending(run[w], d)}
Held(a, d) ==
    \E w \in Slots : run[w].alert = a /\ run[w].owns /\ (Sending(run[w], d) \/ Marking(run[w], d))

\* The copy a later attempt may still send: none once the column is 'sent', and
\* none while the owner of the job has it in hand.
Open(a, d) == IF alerts[a].channel[d] = "sent" \/ Held(a, d) THEN 0 ELSE 1

\* Copies that left, copies about to leave and the copy of a later attempt: at
\* most one, and one more for every failure.
CopiesOf(a, d) == got[a][d] + Cardinality(Armed(a, d)) + Open(a, d) <= 1 + faults
Copies == \A a \in Alerts, d \in {"webhook", "email"} : CopiesOf(a, d)

\* The armed attempts are finitely many.
LEMMA ArmedCount ==
    ASSUME Shape, NEW a \in Alerts, NEW d \in {"webhook", "email"}
    PROVE  /\ IsFiniteSet(Armed(a, d)) /\ Cardinality(Armed(a, d)) \in Nat
           /\ got[a][d] \in Nat /\ faults \in Nat /\ Open(a, d) \in {0, 1}
<1>1. IsFiniteSet(Armed(a, d))
  BY DeliveryAssumption, FS_Subset DEF Armed
<1>2. got[a][d] \in Nat /\ faults \in Nat
  BY DEF Shape, TypeOK, Destinations
<1> QED
  BY <1>1, <1>2, FS_CardinalityType DEF Open

\* A step that arms no slot and opens nothing for the pair.
LEMMA CopiesCalm ==
    ASSUME Shape, Shape', NEW a \in Alerts, NEW d \in {"webhook", "email"}, CopiesOf(a, d),
           got'[a][d] = got[a][d], Armed(a, d)' = Armed(a, d),
           faults' = faults \/ Failed,
           \/ Open(a, d)' <= Open(a, d)
           \/ Failed
    PROVE  CopiesOf(a, d)'
<1>1. /\ Cardinality(Armed(a, d)) \in Nat /\ got[a][d] \in Nat /\ faults \in Nat
      /\ Open(a, d) \in {0, 1} /\ Open(a, d)' \in {0, 1}
  BY ArmedCount DEF Open
<1>2. Cardinality(Armed(a, d))' = Cardinality(Armed(a, d))
  OBVIOUS
<1> QED
  BY <1>1, <1>2 DEF CopiesOf, Failed

\* A slot that was about to send no longer is: it may have sent one copy, and
\* then holds it for its mark or has failed.
LEMMA CopiesSpent ==
    ASSUME Shape, Shape', NEW a \in Alerts, NEW d \in {"webhook", "email"}, CopiesOf(a, d),
           NEW w, w \in Armed(a, d), Armed(a, d)' = Armed(a, d) \ {w},
           faults' = faults \/ Failed,
           \/ got'[a][d] = got[a][d]
           \/ got'[a][d] <= got[a][d] + 1 /\ (Failed \/ Open(a, d)' <= Open(a, d))
    PROVE  CopiesOf(a, d)'
<1>1. /\ Cardinality(Armed(a, d)) \in Nat /\ got[a][d] \in Nat /\ faults \in Nat
      /\ Open(a, d) \in {0, 1} /\ Open(a, d)' \in {0, 1} /\ IsFiniteSet(Armed(a, d))
  BY ArmedCount DEF Open
<1>4. got'[a][d] \in Nat
  BY DEF Shape, TypeOK, Destinations
<1>2. Cardinality(Armed(a, d) \ {w}) = Cardinality(Armed(a, d)) - 1
  BY <1>1, FS_RemoveElement
<1>3. Cardinality(Armed(a, d))' = Cardinality(Armed(a, d)) - 1
  BY <1>2
<1> QED
  BY <1>1, <1>3, <1>4 DEF CopiesOf, Failed

\* An attempt that sends spends the copy it was armed for.
LEMMA AttemptCopies ==
    ASSUME Shape, Shape', Copies, NEW w \in Slots, NEW r \in Attempt, AttemptMove(w, r)
    PROVE  Copies'
<1>1. /\ run \in [Slots -> Attempt] /\ run' = [run EXCEPT ![w] = r]
      /\ run[w].pc # "idle" /\ r.alert = run[w].alert /\ r.owns = run[w].owns
      /\ FaultMove /\ RowsMove(w)
  BY DEF Shape, TypeOK, AttemptMove, Keeps
<1>2. /\ run'[w] = r /\ \A v \in Slots : v # w => run'[v] = run[v]
      /\ faults' = faults \/ Failed
  BY <1>1 DEF FaultMove, Failed
<1> SUFFICES ASSUME NEW a \in Alerts, NEW d \in {"webhook", "email"} PROVE CopiesOf(a, d)'
  BY DEF Copies
<1>3. CopiesOf(a, d) /\ CopyMove(w, r, d)
  BY DEF Copies, AttemptMove
<1>4. alerts[a].channel[d] = "sent" => alerts'[a].channel[d] = "sent"
  BY <1>1 DEF RowsMove, Channels
<1>5. (Held(a, d) => Held(a, d)') => Open(a, d)' <= Open(a, d)
  BY <1>4 DEF Open
<1>6. ASSUME Held(a, d), ~Held(a, d)'
      PROVE  /\ run[w].alert = a /\ run[w].owns
             /\ Sending(run[w], d) \/ Marking(run[w], d)
             /\ ~Sending(r, d) /\ ~Marking(r, d)
  BY <1>1, <1>2, <1>6 DEF Held, Sending, Marking
<1>7. Armed(a, d)' = IF Sending(r, d) \/ run[w].alert # a THEN Armed(a, d) ELSE Armed(a, d) \ {w}
  <2>1. Sending(r, d) => Sending(run[w], d)
    BY <1>3 DEF CopyMove
  <2>2. \A v \in Slots : v \in Armed(a, d)' <=> run'[v].alert = a /\ Sending(run'[v], d)
    BY DEF Armed, Sending
  <2> QED
    BY <1>1, <1>2, <2>1, <2>2 DEF Armed
<1>8. CASE run[w].alert # a
  <2>1. got'[a][d] = got[a][d]
    BY <1>3, <1>8 DEF CopyMove, Reached, Destinations
  <2> QED
    BY <1>2, <1>3, <1>5, <1>6, <1>7, <1>8, <2>1, CopiesCalm
<1>9. CASE run[w].alert = a /\ Sending(run[w], d) /\ ~Sending(r, d)
  <2>1. w \in Armed(a, d) /\ Armed(a, d)' = Armed(a, d) \ {w}
    BY <1>7, <1>9 DEF Armed
  <2>2. \/ got'[a][d] = got[a][d]
        \/ got'[a][d] <= got[a][d] + 1 /\ (Failed \/ Marking(r, d))
    BY <1>3, <1>9 DEF CopyMove, Reached
  <2> QED
    BY <1>2, <1>3, <1>5, <1>6, <2>1, <2>2, CopiesSpent
<1>10. CASE run[w].alert = a /\ ~(Sending(run[w], d) /\ ~Sending(r, d))
  <2>1. Sending(run[w], d) <=> Sending(r, d)
    BY <1>3, <1>10 DEF CopyMove
  <2>2. Armed(a, d)' = Armed(a, d)
    <3>1. ~Sending(run[w], d) => w \notin Armed(a, d)
      BY DEF Armed
    <3> QED
      BY <1>7, <2>1, <3>1
  <2>3. /\ got'[a][d] = got[a][d]
        /\ Marking(run[w], d) => Marking(r, d) \/ Failed \/ alerts'[a].channel[d] = "sent"
    BY <1>3, <1>10, <2>1 DEF CopyMove
  <2>4. Open(a, d)' <= Open(a, d) \/ Failed
    <3>1. CASE alerts'[a].channel[d] = "sent"
      BY <3>1 DEF Open
    <3>2. CASE Held(a, d) => Held(a, d)'
      BY <1>5, <3>2
    <3>3. CASE Held(a, d) /\ ~Held(a, d)'
      BY <1>6, <2>1, <2>3, <3>1, <3>3
    <3> QED
      BY <3>2, <3>3
  <2> QED
    BY <1>2, <1>3, <2>2, <2>3, <2>4, CopiesCalm
<1> QED
  BY <1>8, <1>9, <1>10

\* An attempt that stops disarms, or has failed.
LEMMA StopCopies ==
    ASSUME Shape, Shape', Copies, NEW w \in Slots, NEW r \in Attempt, StopMove(w, r)
    PROVE  Copies'
<1>1. /\ run \in [Slots -> Attempt] /\ run' = [run EXCEPT ![w] = r] /\ run[w].pc # "idle"
      /\ run[w].alert \in Alerts /\ FaultMove /\ UNCHANGED <<alerts, got>> /\ ~r.owns
  BY DEF Shape, TypeOK, SlotOK, StopMove
<1>2. /\ run'[w] = r /\ \A v \in Slots : v # w => run'[v] = run[v]
      /\ faults' = faults \/ Failed
  BY <1>1 DEF FaultMove, Failed
<1> SUFFICES ASSUME NEW a \in Alerts, NEW d \in {"webhook", "email"} PROVE CopiesOf(a, d)'
  BY DEF Copies
<1>3. /\ Sending(r, d) => Sending(run[w], d) /\ r.alert = run[w].alert
      /\ Sending(run[w], d) \/ Marking(run[w], d) => Failed
  BY DEF StopMove, Sending, IdleSlot
<1>4. CopiesOf(a, d) /\ got'[a][d] = got[a][d]
  BY <1>1 DEF Copies
<1>5. \A v \in Slots : v \in Armed(a, d)' <=> run'[v].alert = a /\ Sending(run'[v], d)
  BY DEF Armed, Sending
<1>6. Armed(a, d)' = IF run[w].alert = a /\ Sending(run[w], d) /\ ~Sending(r, d)
                     THEN Armed(a, d) \ {w} ELSE Armed(a, d)
  BY <1>2, <1>3, <1>5 DEF Armed
<1>7. CASE run[w].alert = a /\ Sending(run[w], d) /\ ~Sending(r, d)
  BY <1>2, <1>4, <1>6, <1>7, CopiesSpent DEF Armed
<1>8. CASE ~(run[w].alert = a /\ Sending(run[w], d) /\ ~Sending(r, d))
  <2>1. Open(a, d)' <= Open(a, d) \/ Failed
    <3>1. Held(a, d) /\ ~Held(a, d)' => Sending(run[w], d) \/ Marking(run[w], d)
      BY <1>1, <1>2 DEF Held, Sending, Marking
    <3> QED
      BY <1>1, <1>3, <3>1 DEF Open
  <2> QED
    BY <1>2, <1>4, <1>6, <1>8, <2>1, CopiesCalm
<1> QED
  BY <1>7, <1>8

\* A new attempt takes the copy that was open into its hands.
LEMMA TakeCopies ==
    ASSUME Shape, Shape', Copies, NEW w \in Slots, NEW b \in Alerts, NEW r \in Attempt, TakeMove(w, b, r)
    PROVE  Copies'
<1>1. /\ run \in [Slots -> Attempt] /\ run' = [run EXCEPT ![w] = r] /\ run[w].pc = "idle"
      /\ UNCHANGED <<alerts, got, faults>> /\ r.pc = "plan" /\ r.alert = b /\ r.owns
      /\ r.seen = {c \in Channels : alerts[b].channel[c] = "sent"}
      /\ \A v \in Slots : run[v].owns => run[v].alert # b
  BY DEF Shape, TypeOK, TakeMove
<1>2. /\ run'[w] = r /\ \A v \in Slots : v # w => run'[v] = run[v]
  BY <1>1
<1> SUFFICES ASSUME NEW a \in Alerts, NEW d \in {"webhook", "email"} PROVE CopiesOf(a, d)'
  BY DEF Copies
<1>3. /\ Sending(r, d) <=> alerts[b].channel[d] # "sent"
      /\ ~Sending(run[w], d) /\ ~Marking(run[w], d) /\ w \notin Armed(a, d)
  BY <1>1 DEF Sending, Marking, Channels, Armed
<1>4. CopiesOf(a, d) /\ got'[a][d] = got[a][d] /\ faults' = faults
  BY <1>1 DEF Copies
<1>5. \A v \in Slots : v \in Armed(a, d)' <=> run'[v].alert = a /\ Sending(run'[v], d)
  BY DEF Armed, Sending
<1>6. Held(a, d) => Held(a, d)'
  BY <1>2, <1>3 DEF Held, Sending, Marking
<1>7. CASE a = b /\ alerts[b].channel[d] # "sent"
  <2>1. Armed(a, d)' = Armed(a, d) \cup {w}
    BY <1>1, <1>2, <1>3, <1>5, <1>7 DEF Armed
  <2>2. Open(a, d) = 1
    BY <1>1, <1>7 DEF Open, Held
  <2>3. Held(a, d)'
    BY <1>1, <1>2, <1>3, <1>7 DEF Held, Sending, Marking
  <2>4. Open(a, d)' = 0
    BY <2>3 DEF Open
  <2>5. /\ Cardinality(Armed(a, d)) \in Nat /\ got[a][d] \in Nat /\ faults \in Nat
        /\ IsFiniteSet(Armed(a, d))
    BY ArmedCount
  <2>6. Cardinality(Armed(a, d) \cup {w}) = Cardinality(Armed(a, d)) + 1
    BY <1>3, <2>5, FS_AddElement
  <2>7. Cardinality(Armed(a, d))' = Cardinality(Armed(a, d)) + 1
    BY <2>1, <2>6
  <2> QED
    BY <1>4, <2>2, <2>4, <2>5, <2>7 DEF CopiesOf
<1>8. CASE ~(a = b /\ alerts[b].channel[d] # "sent")
  <2>1. Armed(a, d)' = Armed(a, d)
    BY <1>1, <1>2, <1>3, <1>5, <1>8 DEF Armed
  <2>2. Open(a, d)' <= Open(a, d)
    BY <1>1, <1>6 DEF Open
  <2> QED
    BY <1>4, <2>1, <2>2, CopiesCalm
<1> QED
  BY <1>7, <1>8

\* The queue sends nothing.
LEMMA QueueCopies ==
    ASSUME Shape, Shape', Copies, QueueMove
    PROVE  Copies'
<1> SUFFICES ASSUME NEW a \in Alerts, NEW d \in {"webhook", "email"} PROVE CopiesOf(a, d)'
  BY DEF Copies
<1>1. /\ run' = run /\ got' = got /\ FaultMove /\ alerts'[a].channel = alerts[a].channel
  BY DEF QueueMove
<1>2. Armed(a, d)' = Armed(a, d) /\ (Held(a, d)' <=> Held(a, d))
  BY <1>1 DEF Armed, Held, Sending, Marking
<1>3. Open(a, d)' <= Open(a, d)
  BY <1>1, <1>2 DEF Open
<1> QED
  BY <1>1, <1>2, <1>3, CopiesCalm DEF Copies, FaultMove, Failed

\* Every step keeps Copies.
LEMMA NextCopies == Shape /\ Shape' /\ Copies /\ [Next]_vars => Copies'
<1> SUFFICES ASSUME Shape, Shape', Copies, [Next]_vars PROVE Copies'
  OBVIOUS
<1> QED
  BY NextMoves, AttemptCopies, StopCopies, TakeCopies, QueueCopies DEF Moves

\* Retries, stalls and repeated sends do not duplicate a webhook or an email:
\* every copy beyond the first is paid for by a failure of the infrastructure.
THEOREM CopiesArePaid == Spec => []CopiesNeedFaults
<1>1. Init => Copies
  <2> SUFFICES ASSUME Init, NEW a \in Alerts, NEW d \in {"webhook", "email"} PROVE CopiesOf(a, d)
    BY DEF Copies
  <2>1. Armed(a, d) = {}
    BY DEF Init, Armed, Sending, IdleSlot
  <2>2. got[a][d] = 0 /\ faults = 0 /\ Open(a, d) \in {0, 1}
    BY DEF Init, Destinations, Open
  <2>3. Cardinality(Armed(a, d)) = 0
    BY <2>1, FS_EmptySet
  <2> QED
    BY <2>2, <2>3 DEF CopiesOf
<1>2. Shape /\ Copies => CopiesNeedFaults
  <2> SUFFICES ASSUME Shape, Copies, NEW a \in Alerts, NEW d \in {"webhook", "email"}
               PROVE  got[a][d] <= 1 + faults
    BY DEF CopiesNeedFaults
  <2> QED
    BY ArmedCount DEF Copies, CopiesOf
<1> QED
  BY <1>1, <1>2, InitShape, NextShape, NextCopies, PTL DEF Spec

-----------------------------------------------------------------------------
(* The daily quota of emails *)

\* The slots whose reservation is in the counter, and those that may send.
Holders == {w \in Slots : Holds(run[w])}
Senders == {w \in Slots : Granted(run[w])}

\* Emails that left and reservations that are held are in the counter, but for
\* those a failure kept out; and emails that left and emails about to leave are
\* within the limit, but for those a failure let through. The first part is what
\* a reservation that is granted makes the second one from.
Quota ==
    /\ EmailsSent + Cardinality(Holders) <= used + faults
    /\ EmailsSent + Cardinality(Senders) <= DailyLimit + faults

\* One element comes into a finite set, or goes.
LEMMA OneIn ==
    ASSUME NEW S, IsFiniteSet(S), NEW x
    PROVE  /\ Cardinality(S) \in Nat /\ Cardinality(S \cup {x}) \in Nat
           /\ Cardinality(S \cup {x}) <= Cardinality(S) + 1
           /\ x \in S => Cardinality(S \cup {x}) = Cardinality(S)
<1>1. Cardinality(S \cup {x}) = IF x \in S THEN Cardinality(S) ELSE Cardinality(S) + 1
  BY FS_AddElement
<1>2. Cardinality(S) \in Nat
  BY FS_CardinalityType
<1> QED
  BY <1>1, <1>2

\* A slot leaves a set of slots.
LEMMA OneOut ==
    ASSUME NEW S, IsFiniteSet(S), NEW x
    PROVE  /\ Cardinality(S) \in Nat /\ Cardinality(S \ {x}) \in Nat
           /\ Cardinality(S \ {x}) <= Cardinality(S)
           /\ x \in S => Cardinality(S \ {x}) = Cardinality(S) - 1
<1>1. IsFiniteSet(S \ {x}) /\ Cardinality(S \ {x}) = IF x \in S THEN Cardinality(S) - 1 ELSE Cardinality(S)
  BY FS_RemoveElement
<1>2. Cardinality(S) \in Nat
  BY FS_CardinalityType
<1>3. Cardinality(S \ {x}) \in Nat
  BY <1>1, FS_CardinalityType
<1> QED
  BY <1>1, <1>2, <1>3

\* What Quota counts are numbers.
LEMMA QuotaCounts ==
    /\ IsFiniteSet(EmailCopies) /\ EmailsSent \in Nat
    /\ IsFiniteSet(Holders) /\ Cardinality(Holders) \in Nat
    /\ IsFiniteSet(Senders) /\ Cardinality(Senders) \in Nat
<1>1. IsFiniteSet(Alerts \X (1 .. MaxCopies))
  <2>1. 1 \in Int /\ MaxCopies \in Int /\ IsFiniteSet(Alerts)
    BY DeliveryAssumption
  <2>2. IsFiniteSet(1 .. MaxCopies)
    BY <2>1, FS_Interval
  <2> QED
    BY <2>1, <2>2, FS_Product
<1>2. IsFiniteSet(EmailCopies)
  BY <1>1, FS_Subset DEF EmailCopies
<1>3. IsFiniteSet(Holders) /\ IsFiniteSet(Senders)
  BY DeliveryAssumption, FS_Subset DEF Holders, Senders
<1> QED
  BY <1>2, <1>3, FS_CardinalityType DEF EmailsSent

\* How many emails a step adds.
LEMMA EmailsSame ==
    ASSUME \A a \in Alerts : got'[a]["email"] = got[a]["email"]
    PROVE  EmailsSent' = EmailsSent
<1>1. EmailCopies' = EmailCopies
  BY DEF EmailCopies
<1> QED
  BY <1>1 DEF EmailsSent

\* One email more, one copy more.
LEMMA EmailReached ==
    ASSUME Shape, NEW w \in Slots, run[w].alert \in Alerts, Reached(w, "email")
    PROVE  EmailsSent' \in Nat /\ EmailsSent' <= EmailsSent + 1
<1> DEFINE a == run[w].alert
           copy == <<a, got[a]["email"] + 1>>
<1>1. \A b \in Alerts : got[b]["email"] \in Nat /\ got'[b]["email"] \in Nat
  BY DEF Shape, TypeOK, Reached, Destinations
<1>2. /\ \A b \in Alerts : b # a => got'[b]["email"] = got[b]["email"]
      /\ got'[a]["email"] <= got[a]["email"] + 1
  BY DEF Reached, Destinations
<1>3. EmailCopies' \subseteq EmailCopies \cup {copy}
  <2> SUFFICES ASSUME NEW b \in Alerts, NEW n \in 1 .. MaxCopies, n <= got'[b]["email"],
                      ~(n <= got[b]["email"])
               PROVE  <<b, n>> = copy
    BY DEF EmailCopies
  <2> QED
    BY <1>1, <1>2, DeliveryAssumption
<1>4. IsFiniteSet(EmailCopies \cup {copy}) /\ Cardinality(EmailCopies \cup {copy}) <= EmailsSent + 1
  BY QuotaCounts, FS_AddElement, OneIn DEF EmailsSent
<1>5. IsFiniteSet(EmailCopies') /\ Cardinality(EmailCopies') <= Cardinality(EmailCopies \cup {copy})
  BY <1>3, <1>4, FS_Subset
<1>6. EmailsSent' \in Nat /\ EmailsSent' = Cardinality(EmailCopies')
  BY <1>5, FS_CardinalityType DEF EmailsSent
<1>7. Cardinality(EmailCopies \cup {copy}) \in Nat /\ EmailsSent \in Nat
  BY <1>4, QuotaCounts, FS_CardinalityType
<1> QED
  BY <1>4, <1>5, <1>6, <1>7

\* How a step of one slot changes the two counts.
LEMMA SlotCounts ==
    ASSUME Shape, NEW w \in Slots, NEW r, run' = [run EXCEPT ![w] = r]
    PROVE  /\ Cardinality(Holders)' \in Nat /\ Cardinality(Senders)' \in Nat
           /\ Cardinality(Holders)' <= Cardinality(Holders) + 1
           /\ Cardinality(Senders)' <= Cardinality(Senders) + 1
           /\ Holds(run[w]) \/ ~Holds(r) => Cardinality(Holders)' <= Cardinality(Holders)
           /\ Granted(run[w]) \/ ~Granted(r) => Cardinality(Senders)' <= Cardinality(Senders)
           /\ Holds(run[w]) /\ ~Holds(r) => Cardinality(Holders)' = Cardinality(Holders) - 1
           /\ Granted(run[w]) /\ ~Granted(r) => Cardinality(Senders)' = Cardinality(Senders) - 1
<1>1. run'[w] = r /\ \A v \in Slots : v # w => run'[v] = run[v]
  BY DEF Shape, TypeOK
<1>2. Holders' = IF Holds(r) THEN Holders \cup {w} ELSE Holders \ {w}
  BY <1>1 DEF Holders, Holds
<1>3. Senders' = IF Granted(r) THEN Senders \cup {w} ELSE Senders \ {w}
  BY <1>1 DEF Senders, Granted
<1>4. (w \in Holders <=> Holds(run[w])) /\ (w \in Senders <=> Granted(run[w]))
  BY DEF Holders, Senders
<1>5. Cardinality(Holders)' = Cardinality(Holders') /\ Cardinality(Senders)' = Cardinality(Senders')
  OBVIOUS
<1>6. IsFiniteSet(Holders) /\ IsFiniteSet(Senders)
  BY QuotaCounts
<1>7. /\ Cardinality(Holders') \in Nat /\ Cardinality(Holders) \in Nat
      /\ Cardinality(Holders') <= Cardinality(Holders) + 1
      /\ Holds(run[w]) \/ ~Holds(r) => Cardinality(Holders') <= Cardinality(Holders)
      /\ Holds(run[w]) /\ ~Holds(r) => Cardinality(Holders') = Cardinality(Holders) - 1
  <2>1. CASE Holds(r)
    BY <1>2, <1>4, <1>6, <2>1, OneIn
  <2>2. CASE ~Holds(r)
    BY <1>2, <1>4, <1>6, <2>2, OneOut
  <2> QED
    BY <2>1, <2>2
<1>8. /\ Cardinality(Senders') \in Nat /\ Cardinality(Senders) \in Nat
      /\ Cardinality(Senders') <= Cardinality(Senders) + 1
      /\ Granted(run[w]) \/ ~Granted(r) => Cardinality(Senders') <= Cardinality(Senders)
      /\ Granted(run[w]) /\ ~Granted(r) => Cardinality(Senders') = Cardinality(Senders) - 1
  <2>1. CASE Granted(r)
    BY <1>3, <1>4, <1>6, <2>1, OneIn
  <2>2. CASE ~Granted(r)
    BY <1>3, <1>4, <1>6, <2>2, OneOut
  <2> QED
    BY <2>1, <2>2
<1> QED
  BY <1>5, <1>7, <1>8

\* An attempt moves the counter, its reservation and the emails together.
LEMMA AttemptQuota ==
    ASSUME Shape, Quota, DailyLimit > 0, NEW w \in Slots, NEW r \in Attempt, AttemptMove(w, r)
    PROVE  Quota'
<1>1. /\ run' = [run EXCEPT ![w] = r] /\ run[w].alert \in Alerts /\ FaultMove /\ QuotaMove(w, r)
      /\ used \in Int /\ faults \in Nat /\ DailyLimit \in Nat
  BY DeliveryAssumption DEF Shape, TypeOK, SlotOK, AttemptMove, Keeps
<1>2. faults' = faults \/ Failed
  BY <1>1 DEF FaultMove, Failed
<1>3. EmailsSent \in Nat /\ Cardinality(Holders) \in Nat /\ Cardinality(Senders) \in Nat
  BY QuotaCounts
<1>4. /\ Cardinality(Holders)' \in Nat /\ Cardinality(Senders)' \in Nat
      /\ Cardinality(Holders)' <= Cardinality(Holders) + 1
      /\ Cardinality(Senders)' <= Cardinality(Senders) + 1
      /\ Holds(run[w]) \/ ~Holds(r) => Cardinality(Holders)' <= Cardinality(Holders)
      /\ Granted(run[w]) \/ ~Granted(r) => Cardinality(Senders)' <= Cardinality(Senders)
      /\ Holds(run[w]) /\ ~Holds(r) => Cardinality(Holders)' = Cardinality(Holders) - 1
      /\ Granted(run[w]) /\ ~Granted(r) => Cardinality(Senders)' = Cardinality(Senders) - 1
  BY <1>1, SlotCounts
<1>5. Granted(r) => Holds(r)
  BY DEF Granted, Holds
<1>6. CASE /\ used' = used /\ \A a \in Alerts : got'[a]["email"] = got[a]["email"]
           /\ Failed \/ ((Holds(r) => Holds(run[w])) /\ (Granted(r) => Granted(run[w])))
  <2>1. EmailsSent' = EmailsSent
    BY <1>6, EmailsSame
  <2> QED
    BY <1>1, <1>2, <1>3, <1>4, <1>6, <2>1 DEF Quota, Failed
<1>7. CASE /\ used' = used + 1 /\ \A a \in Alerts : got'[a]["email"] = got[a]["email"]
           /\ ~Holds(run[w]) /\ (Granted(r) => Failed \/ used' <= DailyLimit)
  <2>1. EmailsSent' = EmailsSent
    BY <1>7, EmailsSame
  <2>2. Senders \subseteq Holders /\ w \notin Holders
    BY <1>7 DEF Senders, Holders, Granted, Holds
  <2>3. Cardinality(Senders) <= Cardinality(Holders)
    BY <2>2, QuotaCounts, FS_Subset
  <2> QED
    BY <1>1, <1>2, <1>3, <1>4, <1>7, <2>1, <2>3 DEF Quota, Failed
<1>8. CASE /\ used' = used - 1 /\ \A a \in Alerts : got'[a]["email"] = got[a]["email"]
           /\ Holds(run[w]) /\ (Holds(r) => Failed)
  <2>1. EmailsSent' = EmailsSent
    BY <1>8, EmailsSame
  <2> QED
    BY <1>1, <1>2, <1>3, <1>4, <1>5, <1>8, <2>1 DEF Quota, Failed
<1>9. CASE /\ used' = used /\ Reached(w, "email")
           /\ Granted(run[w]) /\ ~Granted(r) /\ (Holds(r) => Failed)
  <2>1. EmailsSent' \in Nat /\ EmailsSent' <= EmailsSent + 1
    BY <1>1, <1>9, EmailReached
  <2>2. Holds(run[w])
    BY <1>9 DEF Holds, Granted
  <2> QED
    BY <1>1, <1>2, <1>3, <1>4, <1>9, <2>1, <2>2 DEF Quota, Failed
<1> QED
  BY <1>1, <1>6, <1>7, <1>8, <1>9 DEF QuotaMove

\* No other step reserves or sends.
LEMMA OtherQuota ==
    ASSUME Shape, Quota, DailyLimit > 0,
           \/ \E w \in Slots, r \in Attempt : StopMove(w, r)
           \/ \E w \in Slots, a \in Alerts, r \in Attempt : TakeMove(w, a, r)
           \/ QueueMove
    PROVE  Quota'
<1>1. /\ got' = got /\ used' = used /\ (faults' = faults \/ Failed)
      /\ used \in Int /\ faults \in Nat /\ DailyLimit \in Nat
  BY DeliveryAssumption DEF StopMove, TakeMove, QueueMove, FaultMove, Failed, Shape, TypeOK
<1>2. EmailsSent' = EmailsSent
  BY <1>1, EmailsSame
<1>3. EmailsSent \in Nat /\ Cardinality(Holders) \in Nat /\ Cardinality(Senders) \in Nat
  BY QuotaCounts
<1>4. /\ Cardinality(Holders)' \in Nat /\ Cardinality(Senders)' \in Nat
      /\ Cardinality(Holders)' <= Cardinality(Holders)
      /\ Cardinality(Senders)' <= Cardinality(Senders)
  <2>1. ASSUME NEW w \in Slots, NEW r \in Attempt, StopMove(w, r)
        PROVE  run' = [run EXCEPT ![w] = r] /\ (Holds(r) => Holds(run[w])) /\ (Granted(r) => Granted(run[w]))
    BY <2>1 DEF StopMove, Holds, Granted, IdleSlot
  <2>2. ASSUME NEW w \in Slots, NEW a \in Alerts, NEW r \in Attempt, TakeMove(w, a, r)
        PROVE  run' = [run EXCEPT ![w] = r] /\ ~Holds(r) /\ ~Granted(r)
    BY <2>2 DEF TakeMove, Holds, Granted
  <2>3. CASE QueueMove
    <3>1. Holders' = Holders /\ Senders' = Senders
      BY <2>3 DEF QueueMove, Holders, Senders, Holds, Granted
    <3> QED
      BY <1>3, <3>1
  <2> QED
    BY <2>1, <2>2, <2>3, SlotCounts
<1> QED
  BY <1>1, <1>2, <1>3, <1>4 DEF Quota, Failed

\* Every step keeps the account.
LEMMA NextQuota ==
    ASSUME DailyLimit > 0
    PROVE  Shape /\ Quota /\ [Next]_vars => Quota'
<1> SUFFICES ASSUME Shape, Quota, [Next]_vars PROVE Quota'
  OBVIOUS
<1> QED
  BY NextMoves, AttemptQuota, OtherQuota DEF Moves

\* The emails of the tenant stay within the daily limit whatever reservations,
\* refusals and give-backs run at once: only a failure (a Redis that cannot
\* answer, a lost answer of the provider) lets one more email through.
THEOREM QuotaKept == Spec => []QuotaHolds
<1>1. CASE DailyLimit > 0
  <2>1. Init => Quota
    <3> SUFFICES ASSUME Init PROVE Quota
      OBVIOUS
    <3>1. EmailCopies = {} /\ Holders = {} /\ Senders = {}
      BY DeliveryAssumption DEF Init, EmailCopies, Holders, Senders, Holds, Granted, IdleSlot, Destinations
    <3>2. EmailsSent = 0 /\ Cardinality(Holders) = 0 /\ Cardinality(Senders) = 0
      BY <3>1, FS_EmptySet DEF EmailsSent
    <3> QED
      BY <3>2, DeliveryAssumption DEF Init, Quota
  <2>2. Shape /\ Quota /\ [Next]_vars => Quota'
    BY <1>1, NextQuota
  <2>3. Shape /\ Quota => QuotaHolds
    <3> SUFFICES ASSUME Shape, Quota PROVE EmailsSent <= DailyLimit + faults
      BY DEF QuotaHolds
    <3>1. EmailsSent \in Nat /\ Cardinality(Senders) \in Nat /\ faults \in Nat /\ DailyLimit \in Nat
      BY QuotaCounts, DeliveryAssumption DEF Shape, TypeOK
    <3> QED
      BY <3>1 DEF Quota
  <2> QED
    BY <2>1, <2>2, <2>3, InitShape, NextShape, PTL DEF Spec
<1>2. CASE ~(DailyLimit > 0)
  <2>1. QuotaHolds
    BY <1>2 DEF QuotaHolds
  <2> QED
    BY <2>1, PTL
<1> QED
  BY <1>1, <1>2

-----------------------------------------------------------------------------
(* Digests: the sweep beside the deliveries *)

\* Items are being marked in one step of the sweep alone, for one chat.
SweepOK ==
    /\ sweep \in Sweep
    /\ sweep.marks # {} => sweep.pc = "mark" /\ sweep.chat \in Chats

DigestShape == Shape /\ SweepOK

\* What a step of the sweep leaves to the deliveries.
SweepMove ==
    /\ UNCHANGED <<config, jobs, run, calls, used, sends>>
    /\ alerts' \in [Alerts -> AlertRow]
    /\ items' \in [Alerts -> [Chats -> {"none", "waiting", "due", "sent"}]]
    /\ got' \in [Alerts -> [Destinations -> 0 .. MaxCopies]]
    /\ FaultMove

\* A step of the sweep keeps the shape of the deliveries.
LEMMA SweepShape ==
    ASSUME Shape, SweepMove
    PROVE  Shape'
<1>1. UNCHANGED <<config, jobs, run, calls, used, sends>>
  BY DEF SweepMove
<1>2. Required' = Required
  BY <1>1 DEF Required
<1>3. \A w \in Slots : SlotOK(run[w])'
  BY <1>1, <1>2 DEF Shape, SlotOK
<1>4. OneOwner'
  BY <1>1 DEF Shape, OneOwner
<1>5. TypeOK'
  BY <1>1 DEF Shape, TypeOK, SweepMove, FaultMove
<1> QED
  BY <1>1, <1>3, <1>4, <1>5 DEF Shape

\* So does a window that opens.
LEMMA WindowShape ==
    ASSUME Shape, WindowOpens
    PROVE  Shape'
<1>1. /\ UNCHANGED <<config, alerts, jobs, calls, used, got, faults, sends>>
      /\ run' = [w \in Slots |-> [run[w] EXCEPT !.late = run[w].late \/ Turn(w, "digest")]]
      /\ items' = [a \in Alerts |-> [c \in Chats |->
                     IF items[a][c] = "waiting" THEN "due" ELSE items[a][c]]]
  BY DEF WindowOpens
<1>2. ASSUME NEW w \in Slots
      PROVE  /\ run'[w] \in Attempt /\ run'[w].pc = run[w].pc /\ run'[w].alert = run[w].alert
             /\ run'[w].owns = run[w].owns /\ run'[w].todo = run[w].todo /\ run'[w].need = run[w].need
  <2> DEFINE late == run[w].late \/ Turn(w, "digest")
  <2>1. run[w] \in Attempt
    BY DEF Shape, TypeOK
  <2>2. late \in BOOLEAN
    BY <2>1 DEF Attempt, Turn
  <2>3. run'[w] = [run[w] EXCEPT !.late = late]
    BY <1>1
  <2> HIDE DEF late
  <2> QED
    BY <2>1, <2>2, <2>3 DEF Attempt
<1>3. run' \in [Slots -> Attempt]
  <2> DEFINE f(w) == [run[w] EXCEPT !.late = run[w].late \/ Turn(w, "digest")]
  <2>1. run' = [w \in Slots |-> f(w)]
    BY <1>1
  <2>2. \A w \in Slots : f(w) \in Attempt
    BY <1>1, <1>2
  <2> HIDE DEF f
  <2> QED
    BY <2>1, <2>2
<1>4. Required' = Required
  BY <1>1 DEF Required
<1>5. ASSUME NEW w \in Slots PROVE SlotOK(run[w])'
  BY <1>1, <1>2, <1>4 DEF Shape, SlotOK
<1>6. OneOwner'
  BY <1>2 DEF Shape, OneOwner
<1>7. TypeOK'
  BY <1>1, <1>3 DEF Shape, TypeOK
<1> QED
  BY <1>1, <1>5, <1>6, <1>7 DEF Shape

\* The message of a digest: every alert of the group counts one copy at its chat.
LEMMA DigestSent ==
    ASSUME Shape, NEW c \in Chats, NEW group \in SUBSET Alerts
    PROVE  LET more == [a \in Alerts |-> IF a \in group /\ got[a][c] < MaxCopies
                                         THEN [got[a] EXCEPT ![c] = got[a][c] + 1] ELSE got[a]]
           IN  /\ more \in [Alerts -> [Destinations -> 0 .. MaxCopies]]
               /\ \A a \in group : more[a][c] > 0
               /\ \A a \in Alerts, d \in Destinations :
                     /\ more[a][d] >= got[a][d] /\ more[a][d] <= got[a][d] + 1
                     /\ a \notin group \/ d # c => more[a][d] = got[a][d]
<1>1. got \in [Alerts -> [Destinations -> 0 .. MaxCopies]] /\ MaxCopies \in Nat /\ MaxCopies > 0
  BY DeliveryAssumption DEF Shape, TypeOK
<1>2. c \in Destinations
  BY DEF Destinations
<1> QED
  BY <1>1, <1>2

\* One UPDATE of the Telegram column.
LEMMA TelegramMarked ==
    ASSUME NEW row \in AlertRow
    PROVE  [row EXCEPT !.channel["telegram"] = "sent"] \in AlertRow
BY DEF AlertRow, Channels

\* The repair pass writes rows.
LEMMA ReconcileRows ==
    ASSUME Shape, Reconcile
    PROVE  alerts' \in [Alerts -> AlertRow]
<1>1. alerts \in [Alerts -> AlertRow]
  BY DEF Shape, TypeOK
<1> DEFINE marked(a) == [alerts[a] EXCEPT !.channel["telegram"] = "sent"]
<1>2. \A a \in Alerts : marked(a) \in AlertRow /\ alerts[a] \in AlertRow
  BY <1>1, TelegramMarked
<1>3. alerts' = [a \in Alerts |-> IF alerts[a].channel["telegram"] = "pending" /\ AllFlushed(a)
                                  THEN marked(a) ELSE alerts[a]]
  BY DEF Reconcile
<1> HIDE DEF marked
<1> QED
  BY <1>2, <1>3

\* The item of alert a for chat c is in a group to be sent, or in the group that
\* was sent and is being marked.
InGroup(a, c) == a \in sweep.groups[c]
InMarks(a, c) == sweep.chat = c /\ a \in sweep.marks

\* What a step may do to one item and the copies its chat has.
PairMove(a, c) ==
    /\ got[a][c] > 0 => got'[a][c] > 0
    /\ items[a][c] = "sent" => items'[a][c] = "sent"
    /\ items'[a][c] = "sent" => items[a][c] = "sent" \/ InMarks(a, c)
    /\ InMarks(a, c)' => InMarks(a, c) \/ got'[a][c] > 0
    /\ config' = config
    /\ faults' = faults \/ Failed
    /\ config.mode # "instant" =>
          \/ /\ got'[a][c] = got[a][c]
             /\ InGroup(a, c)' => InGroup(a, c) \/ (items[a][c] # "sent" /\ ~InMarks(a, c))
             /\ InMarks(a, c) => InMarks(a, c)' \/ items'[a][c] = "sent" \/ Failed
          \/ /\ got'[a][c] <= got[a][c] + 1
             /\ InGroup(a, c) /\ ~InGroup(a, c)'
             /\ InMarks(a, c)' \/ Failed

DigestMove == DigestShape' /\ \A a \in Alerts, c \in Chats : PairMove(a, c)

\* The sweep moves without a message or a mark.
LEMMA QuietSweep ==
    ASSUME DigestShape, SweepMove, SweepOK', items' = items, got' = got,
           \A a \in Alerts, c \in Chats :
               /\ InGroup(a, c)' => InGroup(a, c) \/ (items[a][c] # "sent" /\ ~InMarks(a, c))
               /\ InMarks(a, c)' => InMarks(a, c)
               /\ InMarks(a, c) => InMarks(a, c)' \/ Failed
    PROVE  DigestMove
<1>1. Shape' /\ (faults' = faults \/ Failed) /\ config' = config
  BY SweepShape DEF DigestShape, SweepMove, FaultMove, Failed
<1> QED
  BY <1>1 DEF DigestMove, DigestShape, PairMove

\* An idle sweep has no group and no mark.
LEMMA IdleSweepOK ==
    /\ IdleSweep \in Sweep /\ IdleSweep.marks = {} /\ \A c \in Chats : IdleSweep.groups[c] = {}
BY DEF IdleSweep, Sweep

\* The steps of the sweep, one by one.
LEMMA StartSweepMove ==
    ASSUME DigestShape, StartSweep
    PROVE  DigestMove
<1>1. /\ sweep.pc = "idle" /\ sweep' = [sweep EXCEPT !.pc = "list"] /\ sweep \in Sweep /\ sweep.marks = {}
      /\ UNCHANGED <<config, jobs, run, calls, items, used, got, sends>>
  BY DEF StartSweep, DigestShape, SweepOK
<1>2. sweep' \in Sweep /\ sweep'.groups = sweep.groups /\ sweep'.marks = {}
  BY <1>1 DEF Sweep
<1>3. FaultMove
  BY FaultCounts DEF StartSweep, DigestShape
<1>4. alerts' \in [Alerts -> AlertRow]
  BY ReconcileRows DEF StartSweep, DigestShape, Shape, TypeOK
<1>5. SweepMove
  BY <1>1, <1>3, <1>4 DEF SweepMove, DigestShape, Shape, TypeOK
<1> QED
  BY <1>1, <1>2, <1>5, QuietSweep DEF SweepOK, InGroup, InMarks

\* listDueDigestGroups: groups of open items.
LEMMA ListGroupsMove ==
    ASSUME DigestShape, ListGroups
    PROVE  DigestMove
<1>1. /\ sweep.pc = "list" /\ sweep \in Sweep /\ sweep.marks = {}
      /\ UNCHANGED <<config, alerts, jobs, run, calls, items, used, got, sends>>
  BY DEF ListGroups, DigestShape, SweepOK
<1>2. FaultMove
  BY FaultCounts DEF ListGroups, DigestShape
<1>3. SweepMove
  BY <1>1, <1>2 DEF SweepMove, DigestShape, Shape, TypeOK
<1>4. CASE sweep' = IdleSweep
  BY <1>1, <1>3, <1>4, QuietSweep, IdleSweepOK DEF SweepOK, InGroup, InMarks
<1>5. CASE sweep' # IdleSweep
  <2>1. PICK C \in SUBSET Chats :
            sweep' = [sweep EXCEPT !.pc = "groups",
                                   !.groups = [c \in Chats |-> IF c \in C THEN Due(c) ELSE {}]]
    BY <1>5 DEF ListGroups
  <2> DEFINE groups == [c \in Chats |-> IF c \in C THEN Due(c) ELSE {}]
  <2>2. groups \in [Chats -> SUBSET Alerts]
    BY DEF Due
  <2>3. \A c \in Chats, a \in Alerts : a \in groups[c] => items[a][c] = "due"
    BY DEF Due
  <2>4. sweep' = [sweep EXCEPT !.pc = "groups", !.groups = groups]
    BY <2>1
  <2> HIDE DEF groups
  <2>5. sweep' \in Sweep /\ sweep'.groups = groups /\ sweep'.marks = {}
    BY <1>1, <2>2, <2>4 DEF Sweep
  <2> QED
    BY <1>1, <1>3, <2>3, <2>5, QuietSweep DEF SweepOK, InGroup, InMarks
<1> QED
  BY <1>4, <1>5

\* One message for a group, whatever becomes of it.
LEMMA SendDigestMove ==
    ASSUME DigestShape, NEW c \in Chats, SendDigest(c)
    PROVE  DigestMove
<1> DEFINE group == sweep.groups[c]
           skip  == [sweep EXCEPT !.groups[c] = {}]
           sent  == [skip EXCEPT !.pc = "mark", !.chat = c, !.marks = group, !.flushed = group]
           more  == [a \in Alerts |-> IF a \in group /\ got[a][c] < MaxCopies
                                      THEN [got[a] EXCEPT ![c] = got[a][c] + 1] ELSE got[a]]
<1>1. /\ sweep.pc = "groups" /\ sweep \in Sweep /\ sweep.marks = {} /\ group \in SUBSET Alerts
      /\ UNCHANGED <<config, alerts, jobs, run, calls, items, used, sends>>
  BY DEF SendDigest, DigestShape, SweepOK, Sweep
<1>2. \/ sweep' = sent /\ got' = more /\ faults' = faults
      \/ sweep' = skip /\ got' = got /\ faults' = faults
      \/ sweep' = skip /\ got' = more /\ Fault("unanswered")
  BY DEF SendDigest
<1>3. /\ skip \in Sweep /\ skip.marks = {} /\ skip.groups[c] = {}
      /\ \A e \in Chats : e # c => skip.groups[e] = sweep.groups[e]
  BY <1>1 DEF Sweep
<1>4. /\ sent \in Sweep /\ sent.marks = group /\ sent.chat = c /\ sent.pc = "mark" /\ sent.groups = skip.groups
  <2> HIDE DEF skip, group
  <2> QED
    BY <1>1, <1>3 DEF Sweep
<1>5. /\ more \in [Alerts -> [Destinations -> 0 .. MaxCopies]]
      /\ \A a \in group : more[a][c] > 0
      /\ \A a \in Alerts, d \in Destinations :
            /\ more[a][d] >= got[a][d] /\ more[a][d] <= got[a][d] + 1
            /\ a \notin group \/ d # c => more[a][d] = got[a][d]
  BY <1>1, DigestSent DEF DigestShape
<1>6. Chats \subseteq Destinations /\ got \in [Alerts -> [Destinations -> 0 .. MaxCopies]]
  BY DEF Destinations, DigestShape, Shape, TypeOK
<1> HIDE DEF more, sent, skip
<1>7. FaultMove /\ (faults' = faults \/ Failed) /\ (Fault("unanswered") => Failed)
  BY <1>2, FaultCounts DEF DigestShape
<1>8. SweepMove
  BY <1>1, <1>2, <1>5, <1>6, <1>7 DEF SweepMove, DigestShape, Shape, TypeOK
<1>9. Shape' /\ SweepOK'
  BY <1>1, <1>2, <1>3, <1>4, <1>8, SweepShape DEF SweepOK, DigestShape
<1>10. ASSUME NEW a \in Alerts, NEW e \in Chats PROVE PairMove(a, e)
  <2>1. /\ got[a][e] \in Nat /\ got'[a][e] \in Nat /\ got'[a][e] >= got[a][e] /\ got'[a][e] <= got[a][e] + 1
        /\ ~InMarks(a, e) /\ (got' = more /\ InGroup(a, e) /\ e = c => got'[a][e] > 0)
    BY <1>1, <1>2, <1>5, <1>6 DEF InMarks, InGroup
  <2>2. CASE sweep' = sent /\ got' = more
    BY <1>1, <1>3, <1>4, <1>5, <1>6, <1>7, <2>1, <2>2 DEF PairMove, InMarks, InGroup
  <2>3. CASE sweep' = skip /\ got' = got
    BY <1>1, <1>3, <1>7, <2>1, <2>3 DEF PairMove, InMarks, InGroup
  <2>4. CASE sweep' = skip /\ got' = more /\ Failed
    BY <1>1, <1>3, <1>5, <1>6, <1>7, <2>1, <2>4 DEF PairMove, InMarks, InGroup
  <2> QED
    BY <1>2, <1>7, <2>2, <2>3, <2>4
<1> QED
  BY <1>9, <1>10 DEF DigestMove, DigestShape

\* One item of the message is marked.
LEMMA MarkItemMove ==
    ASSUME DigestShape, NEW a \in Alerts, MarkItem(a)
    PROVE  DigestMove
<1>1. /\ sweep.pc = "mark" /\ sweep \in Sweep /\ a \in sweep.marks /\ sweep.chat \in Chats
      /\ items' = [items EXCEPT ![a][sweep.chat] = "sent"]
      /\ sweep' = [sweep EXCEPT !.marks = sweep.marks \ {a}]
      /\ UNCHANGED <<config, alerts, jobs, run, calls, used, got, faults, sends>>
      /\ items \in [Alerts -> [Chats -> {"none", "waiting", "due", "sent"}]]
  BY DEF MarkItem, DigestShape, SweepOK, Shape, TypeOK
<1>2. /\ sweep' \in Sweep /\ sweep'.marks = sweep.marks \ {a} /\ sweep'.chat = sweep.chat
      /\ sweep'.pc = "mark" /\ sweep'.groups = sweep.groups
  BY <1>1 DEF Sweep
<1>3. SweepMove
  BY <1>1, FaultCounts DEF SweepMove, DigestShape, Shape, TypeOK
<1>4. Shape' /\ SweepOK'
  BY <1>1, <1>2, <1>3, SweepShape DEF SweepOK, DigestShape
<1>5. ASSUME NEW b \in Alerts, NEW c \in Chats PROVE PairMove(b, c)
  <2>1. items'[b][c] = IF b = a /\ c = sweep.chat THEN "sent" ELSE items[b][c]
    BY <1>1
  <2> QED
    BY <1>1, <1>2, <2>1 DEF PairMove, InGroup, InMarks
<1> QED
  BY <1>4, <1>5 DEF DigestMove, DigestShape

\* The column of an alert without open items is marked.
LEMMA ConvergeMove ==
    ASSUME DigestShape, NEW a \in Alerts, Converge(a)
    PROVE  DigestMove
<1> DEFINE row == [alerts[a] EXCEPT !.channel["telegram"] = "sent"]
<1>1. /\ sweep.pc = "mark" /\ sweep \in Sweep /\ sweep.marks = {}
      /\ alerts' = IF Unsent(a) = {} THEN [alerts EXCEPT ![a].channel["telegram"] = "sent"] ELSE alerts
      /\ sweep' = [sweep EXCEPT !.flushed = sweep.flushed \ {a}]
      /\ UNCHANGED <<config, jobs, run, calls, items, used, got, faults, sends>>
      /\ alerts \in [Alerts -> AlertRow]
  BY DEF Converge, DigestShape, SweepOK, Shape, TypeOK
<1>2. /\ sweep' \in Sweep /\ sweep'.marks = {} /\ sweep'.groups = sweep.groups
  BY <1>1 DEF Sweep
<1>3. row \in AlertRow
  BY <1>1, TelegramMarked
<1>4. alerts' = IF Unsent(a) = {} THEN [alerts EXCEPT ![a] = row] ELSE alerts
  BY <1>1
<1> HIDE DEF row
<1>5. alerts' \in [Alerts -> AlertRow]
  BY <1>1, <1>3, <1>4
<1>6. SweepMove
  BY <1>1, <1>5, FaultCounts DEF SweepMove, DigestShape, Shape, TypeOK
<1> QED
  BY <1>1, <1>2, <1>6, QuietSweep DEF SweepOK, InGroup, InMarks

\* The sweep lets go of a group, or of everything.
LEMMA SweepEndsMove ==
    ASSUME DigestShape, GroupOver \/ SweepOver \/ SchedulerCrash
    PROVE  DigestMove
<1>1. /\ UNCHANGED <<config, alerts, jobs, run, calls, items, used, got, sends>> /\ sweep \in Sweep
      /\ sweep.marks # {} => Failed
      /\ FaultMove
  BY FaultCounts DEF GroupOver, SweepOver, SchedulerCrash, DigestShape, SweepOK
<1>2. SweepMove
  BY <1>1 DEF SweepMove, DigestShape, Shape, TypeOK
<1>3. /\ sweep' \in Sweep /\ sweep'.marks = {}
      /\ \A c \in Chats : sweep'.groups[c] = {} \/ sweep'.groups[c] = sweep.groups[c]
  <2>1. CASE sweep' = IdleSweep
    BY <2>1, IdleSweepOK
  <2>2. CASE sweep' = [sweep EXCEPT !.pc = "groups", !.chat = NoChat, !.marks = {}, !.flushed = {}]
    BY <1>1, <2>2 DEF Sweep
  <2> QED
    BY <2>1, <2>2 DEF GroupOver, SweepOver, SchedulerCrash
<1> QED
  BY <1>1, <1>2, <1>3, QuietSweep DEF SweepOK, InGroup, InMarks

\* Windows open: items become due, attempts late.
LEMMA WindowMove ==
    ASSUME DigestShape, WindowOpens
    PROVE  DigestMove
<1>1. /\ config' = config /\ got' = got /\ faults' = faults /\ sweep' = sweep
      /\ items' = [a \in Alerts |-> [c \in Chats |->
                     IF items[a][c] = "waiting" THEN "due" ELSE items[a][c]]]
  BY DEF WindowOpens
<1>2. Shape' /\ SweepOK'
  BY <1>1, WindowShape DEF DigestShape, SweepOK
<1>3. ASSUME NEW a \in Alerts, NEW c \in Chats PROVE PairMove(a, c)
  <2>1. items'[a][c] = IF items[a][c] = "waiting" THEN "due" ELSE items[a][c]
    BY <1>1
  <2>2. (InGroup(a, c)' <=> InGroup(a, c)) /\ (InMarks(a, c)' <=> InMarks(a, c))
    BY <1>1 DEF InGroup, InMarks
  <2> QED
    BY <1>1, <2>1, <2>2 DEF PairMove
<1> QED
  BY <1>2, <1>3 DEF DigestMove, DigestShape

\* The deliveries beside the sweep: they queue items and, where there are
\* digests, send no message to a chat.
LEMMA DeliveryMove ==
    ASSUME DigestShape, [Next]_vars, sweep' = sweep
    PROVE  DigestMove
<1>1. Moves /\ Grows
  BY NextMoves, MovesGrow DEF DigestShape
<1>2. Shape' /\ SweepOK'
  BY NextShape DEF DigestShape, SweepOK
<1> DEFINE Beside ==
             /\ config' = config /\ FaultMove
             /\ \A a \in Alerts, c \in Chats :
                   /\ items[a][c] = "sent" <=> items'[a][c] = "sent"
                   /\ config.mode # "instant" => got'[a][c] = got[a][c]
<1>3. Beside
  <2>1. ASSUME NEW w \in Slots, NEW r \in Attempt, AttemptMove(w, r) PROVE Beside
    <3>1. config' = config /\ FaultMove /\ ItemsMove
      BY <2>1 DEF AttemptMove, Keeps
    <3>2. ASSUME NEW a \in Alerts, NEW c \in Chats, config.mode # "instant"
          PROVE  got'[a][c] = got[a][c]
      <4>1. c \in Destinations
        BY DEF Destinations
      <4>2. CASE got' = got
        BY <4>2
      <4>3. ASSUME NEW d \in Destinations, Reached(w, d), d \in Chats => config.mode = "instant"
            PROVE  got'[a][c] = got[a][c]
        BY <3>2, <4>1, <4>3 DEF Reached
      <4> QED
        BY <2>1, <4>2, <4>3 DEF AttemptMove
    <3> QED
      BY <3>1, <3>2 DEF ItemsMove
  <2>2. ASSUME NEW w \in Slots, NEW r \in Attempt, StopMove(w, r) PROVE Beside
    BY <2>2 DEF StopMove
  <2>3. ASSUME NEW w \in Slots, NEW a \in Alerts, NEW r \in Attempt, TakeMove(w, a, r) PROVE Beside
    BY <2>3, FaultCounts DEF TakeMove, DigestShape
  <2>4. CASE QueueMove
    BY <2>4 DEF QueueMove
  <2> QED
    BY <1>1, <2>1, <2>2, <2>3, <2>4 DEF Moves
<1>4. ASSUME NEW a \in Alerts, NEW c \in Chats PROVE PairMove(a, c)
  <2>1. (InGroup(a, c)' <=> InGroup(a, c)) /\ (InMarks(a, c)' <=> InMarks(a, c))
    BY DEF InGroup, InMarks
  <2>2. got[a][c] > 0 => got'[a][c] > 0
    BY <1>1 DEF Grows, Destinations
  <2> QED
    BY <1>3, <2>1, <2>2 DEF PairMove, FaultMove, Failed
<1> QED
  BY <1>2, <1>4 DEF DigestMove, DigestShape

\* Every step of deliveries and digests is such a move.
LEMMA DigestNextMove ==
    ASSUME DigestShape, [DigestNext]_digestVars
    PROVE  DigestMove
<1>1. CASE UNCHANGED digestVars
  <2>1. UNCHANGED vars /\ sweep' = sweep
    BY <1>1 DEF digestVars, vars
  <2> QED
    BY <2>1, DeliveryMove
<1>2. CASE Next /\ UNCHANGED sweep
  BY <1>2, DeliveryMove
<1>3. CASE SweepStep
  BY <1>3, StartSweepMove, ListGroupsMove, SendDigestMove, MarkItemMove, ConvergeMove, SweepEndsMove
     DEF SweepStep
<1>4. CASE SchedulerCrash
  BY <1>4, SweepEndsMove
<1> QED
  BY <1>1, <1>2, <1>3, <1>4, WindowMove DEF DigestNext, DeliveryStep

\* DigestShape holds at first, and every step keeps it.
LEMMA InitDigestShape == DigestInit => DigestShape
BY InitShape, IdleSweepOK DEF DigestInit, DigestShape, SweepOK

\* Every step keeps DigestShape.
LEMMA NextDigestShape == DigestShape /\ [DigestNext]_digestVars => DigestShape'
BY DigestNextMove DEF DigestMove

\* The ages of the items stay within their bound.
AgesOK == ages \in [Alerts -> [Chats -> 0 .. MaxAge]]

\* Every step keeps the ages within their bound.
LEMMA NextAges ==
    ASSUME DigestShape, AgesOK, [DigestNext]_digestVars
    PROVE  AgesOK'
<1>0. MaxAge \in Nat
  BY DigestAssumption
<1>1. CASE UNCHANGED ages
  BY <1>1 DEF AgesOK
<1>2. CASE DeliveryStep
  <2>1. PICK n \in 0 .. MaxAge :
          ages' = [a \in Alerts |-> [c \in Chats |->
                     IF items[a][c] # "due" /\ items'[a][c] = "due" THEN n ELSE ages[a][c]]]
    BY <1>2 DEF DeliveryStep
  <2> QED
    BY <2>1 DEF AgesOK
<1>3. CASE WindowOpens
  <2>1. ages' = [a \in Alerts |-> [c \in Chats |->
                   IF items[a][c] = "due" /\ ages[a][c] < MaxAge THEN ages[a][c] + 1 ELSE ages[a][c]]]
    BY <1>3 DEF WindowOpens
  <2> QED
    BY <1>0, <2>1 DEF AgesOK
<1>4. ASSUME NEW a \in Alerts, MarkItem(a) PROVE AgesOK'
  <2>1. ages' = [ages EXCEPT ![a][sweep.chat] = 0]
    BY <1>4 DEF MarkItem
  <2>2. 0 \in 0 .. MaxAge
    BY <1>0
  <2> QED
    BY <2>1, <2>2 DEF AgesOK
<1>5. DeliveryStep \/ WindowOpens \/ (\E a \in Alerts : MarkItem(a)) \/ UNCHANGED ages
  BY DEF DigestNext, digestVars, SweepStep, StartSweep, ListGroups, SendDigest, Converge, GroupOver,
         SweepOver, SchedulerCrash
<1> QED
  BY <1>1, <1>2, <1>3, <1>4, <1>5

\* The types hold of deliveries and digests together: a sweep marks items of one
\* chat at a time, and a window that opens while an attempt queues items leaves
\* that attempt, its job and its lock as they were.
THEOREM DigestTypes == DigestSpec => []DigestTypeOK
<1>1. DigestShape /\ AgesOK => DigestTypeOK
  BY DEF DigestShape, SweepOK, Shape, DigestTypeOK, AgesOK
<1>2. DigestInit => AgesOK
  BY DigestAssumption DEF DigestInit, AgesOK
<1>3. DigestShape /\ AgesOK /\ [DigestNext]_digestVars => AgesOK'
  BY NextAges
<1> QED
  BY <1>1, <1>2, <1>3, InitDigestShape, NextDigestShape, PTL DEF DigestSpec

\* The items being marked were in a message their chat has.
Flushed ==
    /\ FlushedMeansReceived
    /\ \A a \in Alerts, c \in Chats : InMarks(a, c) => got[a][c] > 0

\* At first there are no items, copies or failures.
LEMMA InitItems ==
    ASSUME DigestInit, NEW a \in Alerts, NEW c \in Chats
    PROVE  items[a][c] = "none" /\ got[a][c] = 0 /\ ~InGroup(a, c) /\ ~InMarks(a, c) /\ faults = 0
BY IdleSweepOK DEF DigestInit, Init, InGroup, InMarks, Destinations

\* Every step keeps Flushed.
LEMMA NextFlushed ==
    ASSUME DigestShape, Flushed, [DigestNext]_digestVars
    PROVE  Flushed'
<1>1. ASSUME NEW a \in Alerts, NEW c \in Chats
      PROVE  (items'[a][c] = "sent" => got'[a][c] > 0) /\ (InMarks(a, c)' => got'[a][c] > 0)
  <2>1. PairMove(a, c)
    BY DigestNextMove DEF DigestMove
  <2> QED
    BY <2>1 DEF PairMove, Flushed, FlushedMeansReceived
<1> QED
  BY <1>1 DEF Flushed, FlushedMeansReceived

\* An item marked sent was in a message its chat received: an item is marked
\* only as part of the group whose message was accepted, whichever UPDATE fails
\* and wherever the scheduler dies (sendDueTelegramDigests).
THEOREM FlushedWasReceived == DigestSpec => []FlushedMeansReceived
<1>1. DigestInit => Flushed
  BY InitItems DEF Flushed, FlushedMeansReceived
<1>2. DigestShape /\ Flushed /\ [DigestNext]_digestVars => Flushed'
  BY NextFlushed
<1>3. Flushed => FlushedMeansReceived
  BY DEF Flushed
<1> QED
  BY <1>1, <1>2, <1>3, InitDigestShape, NextDigestShape, PTL DEF DigestSpec

\* The copies a chat has of an alert, the copy of the listed group that is still
\* to be sent, and the one an unsent item may yet cause are together paid for.
\* Only an item that is neither listed, nor being marked, nor sent is open.
Unspent(a, c) == IF items[a][c] = "sent" \/ InGroup(a, c) \/ InMarks(a, c) THEN 0 ELSE 1
Listed(a, c) == IF InGroup(a, c) THEN 1 ELSE 0
DigestCopies ==
    config.mode # "instant" =>
        \A a \in Alerts, c \in Chats : got[a][c] + Listed(a, c) + Unspent(a, c) <= 1 + faults

\* Every step keeps the account of the copies.
LEMMA NextDigestCopies ==
    ASSUME DigestShape, DigestCopies, [DigestNext]_digestVars
    PROVE  DigestCopies'
<1>1. DigestMove
  BY DigestNextMove
<1>2. ASSUME NEW a \in Alerts, NEW c \in Chats, config'.mode # "instant"
      PROVE  (got[a][c] + Listed(a, c) + Unspent(a, c) <= 1 + faults)'
  <2>1. PairMove(a, c)
    BY <1>1 DEF DigestMove
  <2>2. config' = config /\ got[a][c] + Listed(a, c) + Unspent(a, c) <= 1 + faults
    BY <1>2, <2>1 DEF PairMove, DigestCopies
  <2>3. got[a][c] \in Nat /\ got'[a][c] \in Nat /\ faults \in Nat /\ faults' \in Nat
    BY <1>1, DeliveryAssumption DEF DigestMove, DigestShape, Shape, TypeOK, Destinations
  <2> QED
    BY <1>2, <2>1, <2>2, <2>3 DEF PairMove, Listed, Unspent, Failed
<1> QED
  BY <1>2 DEF DigestCopies

\* In digest mode a chat receives an alert once and again only after a failure:
\* the retries of a delivery and repeated sends do not bring a flushed item back,
\* and a group is sent from the list it was read into once.
THEOREM DigestCopiesArePaid == DigestSpec => []DigestCopiesNeedFaults
<1>1. DigestInit => DigestCopies
  BY InitItems DEF DigestCopies, Listed, Unspent
<1>2. DigestShape /\ DigestCopies /\ [DigestNext]_digestVars => DigestCopies'
  BY NextDigestCopies
<1>3. DigestShape /\ DigestCopies => DigestCopiesNeedFaults
  <2> SUFFICES ASSUME DigestShape, DigestCopies, config.mode = "digest_10m",
                      NEW a \in Alerts, NEW c \in Chats
               PROVE  got[a][c] <= 1 + faults
    BY DEF DigestCopiesNeedFaults
  <2>1. got[a][c] + Listed(a, c) + Unspent(a, c) <= 1 + faults
    BY DEF DigestCopies
  <2>2. got[a][c] \in Nat /\ faults \in Nat
    BY DeliveryAssumption DEF DigestShape, Shape, TypeOK, Destinations
  <2> QED
    BY <2>1, <2>2 DEF Listed, Unspent
<1> QED
  BY <1>1, <1>2, <1>3, InitDigestShape, NextDigestShape, PTL DEF DigestSpec
=============================================================================
