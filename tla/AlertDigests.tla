---------------------------- MODULE AlertDigests ----------------------------
(***************************************************************************)
(* Telegram digests in FeedPulse: delivery attempts queue one item per      *)
(* chat (AlertDelivery), and the digest part of each scheduler tick flushes  *)
(* the items whose ten-minute window is over, one message per chat, and      *)
(* then converges the Telegram column of the alerts it flushed.              *)
(***************************************************************************)
EXTENDS AlertDelivery

CONSTANTS
    NoChat,       \* no group is being flushed
    MaxGroups,    \* groups per sweep (30)
    MaxAge        \* bound: windows since an item came due are counted up to here

ASSUME DigestAssumption == MaxGroups \in Nat \ {0} /\ MaxAge \in Nat /\ NoChat \notin Chats

VARIABLES
    sweep,    \* the digest part of the scheduler's tick
    ages      \* how many windows ago each due item's own window was

digestVars == <<config, alerts, jobs, run, calls, items, used, got, faults, sends, sweep, ages>>

Sweep == [pc: {"idle", "list", "groups", "mark"},
          groups: [Chats -> SUBSET Alerts],  \* listed and not yet sent, by chat
          chat: Chats \cup {NoChat},         \* the group being marked
          marks: SUBSET Alerts,              \* its items still to be marked
          flushed: SUBSET Alerts]            \* its alerts still to be converged

IdleSweep == [pc |-> "idle", groups |-> [c \in Chats |-> {}], chat |-> NoChat,
              marks |-> {}, flushed |-> {}]

DigestInit ==
    /\ Init /\ sweep = IdleSweep
    /\ ages = [a \in Alerts |-> [c \in Chats |-> 0]]

\* The types of the variables.
DigestTypeOK == TypeOK /\ sweep \in Sweep /\ ages \in [Alerts -> [Chats -> 0 .. MaxAge]]

\* The next multiple of ten minutes is reached: it is the window of every item
\* not yet due, and of the attempts that are queueing items.
WindowOpens ==
    /\ items' = [a \in Alerts |-> [c \in Chats |->
                   IF items[a][c] = "waiting" THEN "due" ELSE items[a][c]]]
    /\ run' = [w \in Slots |-> [run[w] EXCEPT !.late = run[w].late \/ Turn(w, "digest")]]
    /\ <<items, run>>' # <<items, run>>
    /\ ages' = [a \in Alerts |-> [c \in Chats |->
                  IF items[a][c] = "due" /\ ages[a][c] < MaxAge THEN ages[a][c] + 1 ELSE ages[a][c]]]
    /\ UNCHANGED <<config, alerts, jobs, calls, used, got, faults, sends, sweep>>

\* A step of AlertDelivery. The window of an item that is inserted late was some
\* time ago.
DeliveryStep ==
    /\ Next
    /\ \E n \in 0 .. MaxAge :
        ages' = [a \in Alerts |-> [c \in Chats |->
                   IF items[a][c] # "due" /\ items'[a][c] = "due" THEN n ELSE ages[a][c]]]
    /\ UNCHANGED sweep

Unsent(a) == {c \in Chats : items[a][c] \in {"waiting", "due"}}

AllFlushed(a) == Unsent(a) = {} /\ \E c \in Chats : items[a][c] = "sent"

\* Mutant: the repair pass does nothing.
ReconcileNothing == UNCHANGED alerts

\* reconcileTelegramDigestDeliveryStatus, one UPDATE.
Reconcile ==
    alerts' = [a \in Alerts |->
                 IF alerts[a].channel["telegram"] = "pending" /\ AllFlushed(a)
                 THEN [alerts[a] EXCEPT !.channel["telegram"] = "sent"] ELSE alerts[a]]

\* The sweep repairs first; a failing repair does not stop it.
StartSweep ==
    /\ sweep.pc = "idle"
    /\ \/ Reconcile /\ UNCHANGED faults
       \/ Fault("db_error") /\ UNCHANGED alerts
    /\ sweep' = [sweep EXCEPT !.pc = "list"]
    /\ UNCHANGED <<config, jobs, run, calls, items, used, got, sends, ages>>

\* Mutant: only alerts whose Telegram column is not 'sent' are listed.
DuePending(c) == {a \in Alerts : items[a][c] = "due" /\ alerts[a].channel["telegram"] # "sent"}

Due(c) == {a \in Alerts : items[a][c] = "due"}

\* The oldest due item of c is at least as old as that of d.
NoYounger(c, d) == \E a \in Due(c) : \A b \in Due(d) : ages[a][c] >= ages[b][d]

\* listDueTelegramDigestGroups: the chats with due items, ordered by their oldest
\* item and cut at maxGroups; any of the groups of one window may come first.
ListGroups ==
    LET open == {c \in Chats : Due(c) # {}}
    IN  /\ sweep.pc = "list"
        /\ \/ /\ \E C \in SUBSET open :
                    /\ C = open \/ Cardinality(C) = MaxGroups
                    /\ Cardinality(C) <= MaxGroups
                    /\ \A c \in C, d \in open \ C : NoYounger(c, d)
                    /\ sweep' = [sweep EXCEPT !.pc = "groups",
                                   !.groups = [c \in Chats |-> IF c \in C THEN Due(c) ELSE {}]]
              /\ UNCHANGED faults
           \/ /\ Fault("db_error")        \* the tick's digest part is over
              /\ sweep' = IdleSweep
        /\ UNCHANGED <<config, alerts, jobs, run, calls, items, used, got, sends, ages>>

\* Mutant: the items are marked before the message is known to be accepted.
SendDigestUnchecked(c) ==
    /\ sweep.pc = "groups" /\ sweep.groups[c] # {}
    /\ sweep' = [sweep EXCEPT !.pc = "mark", !.groups[c] = {}, !.chat = c,
                              !.marks = sweep.groups[c], !.flushed = sweep.groups[c]]
    /\ UNCHANGED <<config, alerts, jobs, run, calls, items, used, got, faults, sends, ages>>

\* Mutant: the group is not taken off the list.
SendDigestAgain(c) ==
    /\ sweep.pc = "groups" /\ sweep.groups[c] # {}
    /\ sweep' = [sweep EXCEPT !.pc = "mark", !.chat = c, !.marks = sweep.groups[c],
                              !.flushed = sweep.groups[c]]
    /\ got' = [a \in Alerts |-> IF a \in sweep.groups[c] /\ got[a][c] < MaxCopies
                                THEN [got[a] EXCEPT ![c] = got[a][c] + 1] ELSE got[a]]
    /\ UNCHANGED <<config, alerts, jobs, run, calls, items, used, faults, sends, ages>>

\* One message for the group of chat c: accepted, refused (the sweep goes on
\* with the next group), or accepted with the answer lost. The settings do not
\* change, so Telegram is still enabled.
SendDigest(c) ==
    LET group == sweep.groups[c]
        skip  == [sweep EXCEPT !.groups[c] = {}]
        more  == [a \in Alerts |-> IF a \in group /\ got[a][c] < MaxCopies
                                   THEN [got[a] EXCEPT ![c] = got[a][c] + 1] ELSE got[a]]
    IN  /\ sweep.pc = "groups" /\ group # {}
        /\ \/ /\ sweep' = [skip EXCEPT !.pc = "mark", !.chat = c, !.marks = group,
                                       !.flushed = group]
              /\ got' = more /\ UNCHANGED faults
           \/ sweep' = skip /\ UNCHANGED <<got, faults>>
           \/ sweep' = skip /\ got' = more /\ Fault("unanswered")
        /\ UNCHANGED <<config, alerts, jobs, run, calls, items, used, sends, ages>>

\* markTelegramDigestGroupSent: first every item of the group ...
MarkItem(a) ==
    /\ sweep.pc = "mark" /\ a \in sweep.marks
    /\ items' = [items EXCEPT ![a][sweep.chat] = "sent"]
    /\ sweep' = [sweep EXCEPT !.marks = sweep.marks \ {a}]
    /\ ages' = [ages EXCEPT ![a][sweep.chat] = 0]
    /\ UNCHANGED <<config, alerts, jobs, run, calls, used, got, faults, sends>>

\* ... then every alert that has no unsent item left.
Converge(a) ==
    /\ sweep.pc = "mark" /\ sweep.marks = {} /\ a \in sweep.flushed
    /\ alerts' = IF Unsent(a) = {} THEN [alerts EXCEPT ![a].channel["telegram"] = "sent"]
                                   ELSE alerts
    /\ sweep' = [sweep EXCEPT !.flushed = sweep.flushed \ {a}]
    /\ UNCHANGED <<config, jobs, run, calls, items, used, got, faults, sends, ages>>

\* The group is over, or one of its UPDATEs fails: on to the next group.
GroupOver ==
    /\ sweep.pc = "mark"
    /\ \/ sweep.marks = {} /\ sweep.flushed = {} /\ UNCHANGED faults
       \/ sweep.flushed # {} /\ Fault("db_error")
    /\ sweep' = [sweep EXCEPT !.pc = "groups", !.chat = NoChat, !.marks = {}, !.flushed = {}]
    /\ UNCHANGED <<config, alerts, jobs, run, calls, items, used, got, sends, ages>>

\* The last group is over, or the settings of the next cannot be read: that
\* error leaves execute and the tick's digest part is over.
SweepOver ==
    /\ sweep.pc = "groups"
    /\ \/ (\A c \in Chats : sweep.groups[c] = {}) /\ UNCHANGED faults
       \/ (\E c \in Chats : sweep.groups[c] # {}) /\ Fault("db_error")
    /\ sweep' = IdleSweep
    /\ UNCHANGED <<config, alerts, jobs, run, calls, items, used, got, sends, ages>>

\* The scheduler process dies and starts again.
SchedulerCrash ==
    /\ sweep.pc # "idle" /\ Fault("scheduler_crash")
    /\ sweep' = IdleSweep
    /\ UNCHANGED <<config, alerts, jobs, run, calls, items, used, got, sends, ages>>

SweepStep ==
    \/ StartSweep \/ ListGroups \/ GroupOver \/ SweepOver
    \/ \E c \in Chats : SendDigest(c)
    \/ \E a \in Alerts : MarkItem(a) \/ Converge(a)

DigestNext ==
    \/ DeliveryStep \/ WindowOpens \/ SweepStep \/ SchedulerCrash

DigestSpec == DigestInit /\ [][DigestNext]_digestVars

\* Ticks come and run to their end, and windows open.
DigestFairSpec ==
    DigestSpec /\ Fairness /\ WF_digestVars(SweepStep) /\ WF_digestVars(WindowOpens)

-----------------------------------------------------------------------------
(* Properties *)

\* An item marked sent was part of a message its chat received (shown in it, or
\* counted by its last line: a message shows twelve items), whatever failed
\* between the send and the UPDATEs.
FlushedMeansReceived ==
    \A a \in Alerts, c \in Chats : items[a][c] = "sent" => got[a][c] > 0

\* A chat receives an alert's digest once, and again only after a failure:
\* retried attempts and repeated sends queue no second item.
DigestCopiesNeedFaults ==
    config.mode = "digest_10m" => \A a \in Alerts, c \in Chats : got[a][c] <= 1 + faults

\* MaxGroups other groups are at least as old as that of c, and may fill the list.
Crowded(c) ==
    Cardinality({d \in Chats \ {c} : Due(d) # {} /\ NoYounger(d, c)}) >= MaxGroups

\* A due item is offered to its chat again and again until it is accepted, also
\* when the alert's Telegram column is 'sent' already, unless MaxGroups groups that
\* are at least as old stay in front of it for ever: a group that is refused sweep
\* after sweep keeps its place at the head of the list.
DueItemsAreOffered ==
    \A a \in Alerts, c \in Chats :
        \/ []<>(items[a][c] # "due" \/ a \in sweep.groups[c])
        \/ <>[]Crowded(c)

\* Bookkeeping heals: when all items of an alert stay sent, its Telegram column
\* becomes 'sent', although the sweep may die between the two UPDATEs.
FlushedConverges ==
    \A a \in Alerts : []<>(~AllFlushed(a) \/ alerts[a].channel["telegram"] = "sent")
=============================================================================
