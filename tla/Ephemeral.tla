------------------------------ MODULE Ephemeral ------------------------------
(***************************************************************************)
(* Message expiry and the single-shot wake task of src/ephemeral.rs.       *)
(*                                                                         *)
(* Messages carry msgs.ephemeral_timer and msgs.ephemeral_timestamp; a     *)
(* message is trashed by delete_expired_messages once its timestamp is in  *)
(* the past.  Callers of start_ephemeral_timer (on marking a message seen) *)
(* and of delete_expired_messages (on loading a chat list, in particular   *)
(* in reaction to MsgsChanged) end in schedule_ephemeral_task, which       *)
(* queries the earliest pending timestamp, takes and cancels the task in   *)
(* Context.ephemeral_task, spawns a new one sleeping until timestamp + 1   *)
(* and stores it.  Each of those is its own step: the query, the           *)
(* take-and-cancel (the write guard lives through the cancel await), and   *)
(* the store under a second write().await.                                 *)
(*                                                                         *)
(* Callers also set a chat's timer: set_ephemeral_timer reads            *)
(* chats.ephemeral_timer, returns if it already has the value, else       *)
(* inner_set_ephemeral_timer writes it and emits                          *)
(* ChatEphemeralTimerModified, and an info message is sent.  The receive  *)
(* path calls inner_set_ephemeral_timer alone.                             *)
(*                                                                         *)
(* Time is whole seconds, time() in the code; SQL statements are atomic.   *)
(***************************************************************************)
EXTENDS Naturals, FiniteSetsExt

CONSTANTS
    Msgs,        \* message ids
    Callers,     \* concurrent callers into the engine
    Durations,   \* positive ephemeral_timer values messages may carry
    MaxTime,     \* the clock stops here
    TaskSlots,   \* task handles the model can hold at once
    SqlErrors,   \* SQL statements may fail
    Sent,        \* message -> msgs.timestamp
    Kept,        \* messages in a special chat, the self chat or the device chat
    DeleteDeviceAfter, \* the delete_device_after config in seconds, 0 = unset
    Chats,       \* chat ids
    Special      \* the special (reserved) chat ids among them

ASSUME /\ Durations \subseteq Nat \ {0} /\ Durations # {}
       /\ MaxTime \in Nat /\ SqlErrors \in BOOLEAN
       /\ TaskSlots \in Nat \ {0}
       /\ Sent \in [Msgs -> Nat] /\ Kept \subseteq Msgs
       /\ DeleteDeviceAfter \in Nat /\ Special \subseteq Chats

NoTask == 0                                   \* ephemeral_task is None
TaskIds == 1..TaskSlots
TaskState == {"unused", "sleeping", "done", "cancelled"}

\* enum Timer { Disabled, Enabled { duration } }, and its u32 encoding,
\* which is also the chats.ephemeral_timer column (ToSql / FromSql).
Disabled == [kind |-> "Disabled"]
Enabled(d) == [kind |-> "Enabled", duration |-> d]
FromU32(d) == IF d = 0 THEN Disabled ELSE Enabled(d)
ToU32(t) == IF t.kind = "Disabled" THEN 0 ELSE t.duration
Timers == {FromU32(d) : d \in {0} \cup Durations}

\* Arming (marking seen, the healer) happens no later than this second, so
\* that every expiry and wake-up falls inside the bounded clock.
ArmHorizon == MaxTime - Max(Durations) - 1

VARIABLES
    now,      \* time()
    timer,    \* msgs.ephemeral_timer, 0 = Timer::Disabled
    seen,     \* msgs.state has left InFresh / InNoticed / OutDraft
    ts,       \* msgs.ephemeral_timestamp, 0 = not armed
    trashed,  \* msgs.chat_id = DC_CHAT_ID_TRASH
    field,    \* Context.ephemeral_task: a task id or NoTask
    task,     \* [TaskIds -> [st: TaskState, at: wake-up second]]
    pc,       \* where each caller is
    arg,      \* the message a caller is marking seen
    q,        \* the timestamp schedule_ephemeral_task queried, 0 = None
    mine,     \* the task a caller spawned and has not yet stored
    reload,   \* MsgsChanged emitted and not yet answered by a chat-list load
    chatTimer, \* chats.ephemeral_timer, as stored
    chat,     \* the chat a caller sets the timer of
    want      \* the Timer it sets

vars == <<now, timer, seen, ts, trashed, field, task, pc, arg, q, mine, reload,
          chatTimer, chat, want>>
msgVars == <<now, timer, seen, ts, trashed, field, task, arg, q, mine, reload>>

-----------------------------------------------------------------------------

Goto(c, l) == pc' = [pc EXCEPT ![c] = l]

\* Mutant: the SELECT without `AND chat_id != DC_CHAT_ID_TRASH`.
EarliestWithTrash ==
    LET pending == {ts[m] : m \in {x \in Msgs : ts[x] # 0}}
    IN IF pending = {} THEN 0 ELSE Min(pending)

\* The SELECT of schedule_ephemeral_task: the earliest non-zero
\* ephemeral_timestamp outside the trash chat, or None.
Earliest ==
    LET pending == {ts[m] : m \in {x \in Msgs : ts[x] # 0 /\ ~trashed[x]}}
    IN IF pending = {} THEN 0 ELSE Min(pending)

\* A task slot the model may reuse for a new spawn.
Free(k) ==
    /\ task[k].st # "sleeping"
    /\ k # field
    /\ \A c \in Callers : mine[c] # k

-----------------------------------------------------------------------------
(* Callers                                                                 *)

\* message.rs marks the message seen (state update), then calls
\* start_ephemeral_timer.
MarkSeen(c, m) ==
    /\ pc[c] = "idle"
    /\ ~seen[m] /\ ~trashed[m]
    /\ now <= ArmHorizon
    /\ seen' = [seen EXCEPT ![m] = TRUE]
    /\ arg' = [arg EXCEPT ![c] = m]
    /\ Goto(c, "arm")
    /\ UNCHANGED <<now, timer, ts, trashed, field, task, q, mine, reload,
                   chatTimer, chat, want>>

\* Mutant: the timestamp computed as time() - duration.
StartEphemeralTimerMinus(c) ==
    LET m == arg[c]
        new == now - timer[m]
    IN /\ pc[c] = "arm"
       /\ \/ /\ timer[m] = 0
             /\ Goto(c, "idle") /\ UNCHANGED ts
          \/ /\ timer[m] # 0
             /\ ts' = [ts EXCEPT ![m] = IF @ = 0 \/ @ > new THEN new ELSE @]
             /\ Goto(c, "query")
          \/ /\ SqlErrors
             /\ Goto(c, "idle") /\ UNCHANGED ts
       /\ UNCHANGED <<now, timer, seen, trashed, field, task, arg, q, mine, reload,
                      chatTimer, chat, want>>

\* Mutant: the UPDATE without its WHERE clause on the old timestamp.
StartEphemeralTimerUnguarded(c) ==
    LET m == arg[c]
        new == now + timer[m]
    IN /\ pc[c] = "arm"
       /\ \/ /\ timer[m] = 0
             /\ Goto(c, "idle") /\ UNCHANGED ts
          \/ /\ timer[m] # 0
             /\ ts' = [ts EXCEPT ![m] = new]
             /\ Goto(c, "query")
          \/ /\ SqlErrors
             /\ Goto(c, "idle") /\ UNCHANGED ts
       /\ UNCHANGED <<now, timer, seen, trashed, field, task, arg, q, mine, reload,
                      chatTimer, chat, want>>

\* MsgId::start_ephemeral_timer: read the message's timer; if enabled set
\* the timestamp to now + duration unless it is armed no later than that,
\* then schedule_ephemeral_task.  Either SQL statement may fail (`?`).
StartEphemeralTimer(c) ==
    LET m == arg[c]
        new == now + timer[m]
    IN /\ pc[c] = "arm"
       /\ \/ /\ timer[m] = 0
             /\ Goto(c, "idle") /\ UNCHANGED ts
          \/ /\ timer[m] # 0
             /\ ts' = [ts EXCEPT ![m] = IF @ = 0 \/ @ > new THEN new ELSE @]
             /\ Goto(c, "query")
          \/ /\ SqlErrors
             /\ Goto(c, "idle") /\ UNCHANGED ts
       /\ UNCHANGED <<now, timer, seen, trashed, field, task, arg, q, mine, reload,
                      chatTimer, chat, want>>

\* The first UPDATE of delete_expired_messages: ephemeral_timestamp has
\* passed.
Expired(m) == ts[m] # 0 /\ ts[m] < now

\* The second, with delete_device_after set: msgs.timestamp is before
\* now - delete_device_after, and the chat is not special, self or device.
TooOld(m) ==
    DeleteDeviceAfter # 0 /\ m \notin Kept /\ Sent[m] + DeleteDeviceAfter < now

\* delete_expired_messages: the two UPDATEs, each returning on an SQL
\* error, then schedule_ephemeral_task.  The UI calls it on loading a chat
\* list, which it does in answer to MsgsChanged.
DeleteExpiredMessages(c) ==
    /\ pc[c] = "idle"
    /\ reload' = FALSE
    /\ \/ /\ trashed' = [m \in Msgs |-> trashed[m] \/ Expired(m) \/ TooOld(m)]
          /\ Goto(c, "query")
       \/ /\ SqlErrors
          /\ Goto(c, "idle") /\ UNCHANGED trashed
       \/ /\ SqlErrors /\ DeleteDeviceAfter # 0
          /\ trashed' = [m \in Msgs |-> trashed[m] \/ Expired(m)]
          /\ Goto(c, "idle")
    /\ UNCHANGED <<now, timer, seen, ts, field, task, arg, q, mine,
                   chatTimer, chat, want>>

\* schedule_ephemeral_task: the query; on an SQL error it logs and returns.
QueryEarliest(c) ==
    /\ pc[c] = "query"
    /\ \/ q' = [q EXCEPT ![c] = Earliest] /\ Goto(c, "take")
       \/ SqlErrors /\ Goto(c, "idle") /\ UNCHANGED q
    /\ UNCHANGED <<now, timer, seen, ts, trashed, field, task, arg, mine, reload,
                   chatTimer, chat, want>>

\* Mutant: no MsgsChanged when the expiry has already passed.
TakeAndSpawnNoEmit(c) ==
    LET until == q[c] + 1
        cancelled == IF field # NoTask /\ task[field].st = "sleeping"
                     THEN [task EXCEPT ![field].st = "cancelled"] ELSE task
    IN /\ pc[c] = "take"
       /\ field' = NoTask
       /\ \/ /\ q[c] = 0 \/ until < now
             /\ task' = cancelled
             /\ Goto(c, "idle") /\ UNCHANGED <<mine, reload>>
          \/ /\ q[c] # 0 /\ until >= now
             /\ \E k \in TaskIds :
                  /\ Free(k) \/ k = field
                  /\ task' = [cancelled EXCEPT ![k] = [st |-> "sleeping", at |-> until]]
                  /\ mine' = [mine EXCEPT ![c] = k]
             /\ Goto(c, "store") /\ UNCHANGED reload
       /\ UNCHANGED <<now, timer, seen, ts, trashed, arg, q,
                      chatTimer, chat, want>>

\* Take the stored task and cancel it; then, with the timestamp queried
\* before: nothing; spawn a task sleeping until timestamp + 1 when that is
\* still ahead (duration_since succeeds, also for a zero duration); or
\* emit MsgsChanged at once.
TakeAndSpawn(c) ==
    LET until == q[c] + 1
        cancelled == IF field # NoTask /\ task[field].st = "sleeping"
                     THEN [task EXCEPT ![field].st = "cancelled"] ELSE task
    IN /\ pc[c] = "take"
       /\ field' = NoTask
       /\ \/ /\ q[c] = 0
             /\ task' = cancelled
             /\ Goto(c, "idle") /\ UNCHANGED <<mine, reload>>
          \/ /\ q[c] # 0 /\ until >= now
             /\ \E k \in TaskIds :
                  /\ Free(k) \/ k = field
                  /\ task' = [cancelled EXCEPT ![k] = [st |-> "sleeping", at |-> until]]
                  /\ mine' = [mine EXCEPT ![c] = k]
             /\ Goto(c, "store") /\ UNCHANGED reload
          \/ /\ q[c] # 0 /\ until <= now
             /\ task' = cancelled
             /\ reload' = TRUE
             /\ Goto(c, "idle") /\ UNCHANGED mine
       /\ UNCHANGED <<now, timer, seen, ts, trashed, arg, q,
                      chatTimer, chat, want>>

\* *context.ephemeral_task.write().await = Some(task): whatever handle is
\* there is dropped, which detaches (does not cancel) its task.
StoreTask(c) ==
    /\ pc[c] = "store"
    /\ field' = mine[c]
    /\ mine' = [mine EXCEPT ![c] = NoTask]
    /\ Goto(c, "idle")
    /\ UNCHANGED <<now, timer, seen, ts, trashed, task, arg, q, reload,
                   chatTimer, chat, want>>

-----------------------------------------------------------------------------
(* Setting a chat's timer                                                  *)

\* ChatId::set_ephemeral_timer(chat, timer) is called.
SetEphemeralTimer(c, ch, t) ==
    /\ pc[c] = "idle"
    /\ chat' = [chat EXCEPT ![c] = ch]
    /\ want' = [want EXCEPT ![c] = t]
    /\ Goto(c, "set_get")
    /\ UNCHANGED <<msgVars, chatTimer>>

\* get_ephemeral_timer(..).await?: the chat's column decoded by FromSql
\* (0 is Disabled); an equal timer returns Ok at once.
GetEphemeralTimer(c) ==
    /\ pc[c] = "set_get"
    /\ \/ FromU32(chatTimer[chat[c]]) = want[c] /\ Goto(c, "idle")
       \/ FromU32(chatTimer[chat[c]]) # want[c] /\ Goto(c, "set_inner")
       \/ SqlErrors /\ Goto(c, "idle")
    /\ UNCHANGED <<msgVars, chatTimer, chat, want>>

\* inner_set_ephemeral_timer(..).await?: ensure! the chat is not special,
\* the UPDATE (ToSql of the timer), then ChatEphemeralTimerModified.
InnerSetEphemeralTimer(c) ==
    LET ch == chat[c]
    IN /\ pc[c] = "set_inner"
       /\ \/ ch \in Special /\ Goto(c, "idle") /\ UNCHANGED chatTimer
          \/ /\ ch \notin Special
             /\ chatTimer' = [chatTimer EXCEPT ![ch] = ToU32(want[c])]
             /\ Goto(c, "set_send")
          \/ ch \notin Special /\ SqlErrors /\ Goto(c, "idle") /\ UNCHANGED chatTimer
       /\ UNCHANGED <<msgVars, chat, want>>

\* The stock string and send_msg of the info message; a send error is only
\* logged and set_ephemeral_timer returns Ok.
SendTimerChangedMsg(c) ==
    /\ pc[c] = "set_send"
    /\ Goto(c, "idle")
    /\ UNCHANGED <<msgVars, chatTimer, chat, want>>

-----------------------------------------------------------------------------
(* Housekeeping, the wake task and the clock                               *)

\* start_ephemeral_timers: arm every seen message with a timer and no
\* timestamp; it does not reschedule the wake task.
StartEphemeralTimers ==
    LET due(m) == timer[m] > 0 /\ ts[m] = 0 /\ seen[m]
    IN /\ \E m \in Msgs : due(m)
       /\ now <= ArmHorizon
       /\ ts' = [m \in Msgs |-> IF due(m) THEN now + timer[m] ELSE ts[m]]
       /\ UNCHANGED <<now, timer, seen, trashed, field, task, pc, arg, q, mine, reload,
                      chatTimer, chat, want>>

\* The spawned task's sleep ends and it emits MsgsChanged.
WakeTaskFires(k) ==
    /\ task[k].st = "sleeping" /\ task[k].at <= now
    /\ task' = [task EXCEPT ![k].st = "done"]
    /\ reload' = TRUE
    /\ UNCHANGED <<now, timer, seen, ts, trashed, field, pc, arg, q, mine,
                   chatTimer, chat, want>>

\* The clock; past ArmHorizon it waits for callers about to arm a timer.
Tick ==
    /\ now < MaxTime
    /\ now >= ArmHorizon => \A c \in Callers : pc[c] # "arm"
    /\ now' = now + 1
    /\ UNCHANGED <<timer, seen, ts, trashed, field, task, pc, arg, q, mine, reload,
                   chatTimer, chat, want>>

-----------------------------------------------------------------------------

Init ==
    /\ now = 0
    /\ timer \in [Msgs -> {0} \cup Durations]
    /\ seen = [m \in Msgs |-> FALSE]
    /\ ts = [m \in Msgs |-> 0]
    /\ trashed = [m \in Msgs |-> FALSE]
    /\ field = NoTask
    /\ task = [k \in TaskIds |-> [st |-> "unused", at |-> 0]]
    /\ pc = [c \in Callers |-> "idle"]
    /\ arg = [c \in Callers |-> CHOOSE m \in Msgs : TRUE]
    /\ q = [c \in Callers |-> 0]
    /\ mine = [c \in Callers |-> NoTask]
    /\ reload = FALSE
    /\ chatTimer = [ch \in Chats |-> 0]
    /\ chat = [c \in Callers |-> CHOOSE ch \in Chats : TRUE]
    /\ want = [c \in Callers |-> Disabled]

Next ==
    \/ \E c \in Callers :
          \/ \E m \in Msgs : MarkSeen(c, m)
          \/ StartEphemeralTimer(c) \/ DeleteExpiredMessages(c)
          \/ QueryEarliest(c) \/ TakeAndSpawn(c) \/ StoreTask(c)
          \/ \E ch \in Chats, t \in Timers : SetEphemeralTimer(c, ch, t)
          \/ GetEphemeralTimer(c) \/ InnerSetEphemeralTimer(c)
          \/ SendTimerChangedMsg(c)
    \/ StartEphemeralTimers
    \/ \E k \in TaskIds : WakeTaskFires(k)
    \/ Tick

(***************************************************************************)
(* Fairness: a caller that has started runs to its end; an async-std      *)
(* sleep ends; time passes; the UI answers MsgsChanged by loading the chat *)
(* list.  The load is strongly fair: the model's callers also stand for   *)
(* the UI's other calls (setting chat timers), which can keep it busy but *)
(* do not cancel a pending reload.  Marking seen, setting timers,         *)
(* chat-list loads of the user's own accord and the housekeeping healer   *)
(* are not assumed to happen.                                              *)
(***************************************************************************)
CallerStep(c) ==
    \/ StartEphemeralTimer(c) \/ QueryEarliest(c) \/ TakeAndSpawn(c)
    \/ StoreTask(c) \/ GetEphemeralTimer(c) \/ InnerSetEphemeralTimer(c)
    \/ SendTimerChangedMsg(c)

UiReload == reload /\ \E c \in Callers : DeleteExpiredMessages(c)

Fairness ==
    /\ \A c \in Callers : WF_vars(CallerStep(c))
    /\ \A k \in TaskIds : WF_vars(WakeTaskFires(k))
    /\ WF_vars(Tick)
    /\ SF_vars(UiReload)

Spec == Init /\ [][Next]_vars /\ Fairness

-----------------------------------------------------------------------------
(* Properties                                                              *)

TypeOK ==
    /\ now \in 0..MaxTime
    /\ timer \in [Msgs -> {0} \cup Durations]
    /\ seen \in [Msgs -> BOOLEAN] /\ trashed \in [Msgs -> BOOLEAN]
    /\ ts \in [Msgs -> 0..MaxTime]
    /\ field \in TaskIds \cup {NoTask}
    /\ task \in [TaskIds -> [st: TaskState, at: 0..MaxTime]]
    /\ pc \in [Callers -> {"idle", "arm", "query", "take", "store",
                           "set_get", "set_inner", "set_send"}]
    /\ arg \in [Callers -> Msgs]
    /\ q \in [Callers -> 0..MaxTime]
    /\ mine \in [Callers -> TaskIds \cup {NoTask}]
    /\ reload \in BOOLEAN
    /\ chatTimer \in [Chats -> {0} \cup Durations]
    /\ chat \in [Callers -> Chats] /\ want \in [Callers -> Timers]

\* (spec 6) schedule_ephemeral_task leaves at most one live wake task: a
\* sleeping task is the one in Context.ephemeral_task, or one a caller
\* has just spawned and is about to store.
NoOrphanWakeTask ==
    \A k \in TaskIds :
        task[k].st = "sleeping" => k = field \/ \E c \in Callers : mine[c] = k

\* Whenever no caller is inside the engine and a non-trashed message
\* expires later, the stored wake task is asleep and wakes the UI no later
\* than one second after the earliest such expiry.
NextExpiry ==
    LET armed == {m \in Msgs : ts[m] # 0 /\ ~trashed[m]}
    IN IF armed = {} THEN 0 ELSE Min({ts[m] : m \in armed})

WakeArmed ==
    /\ \A c \in Callers : pc[c] = "idle"
    /\ NextExpiry # 0 /\ NextExpiry + 1 > now
    => /\ field # NoTask
       /\ task[field].st = "sleeping"
       /\ task[field].at <= NextExpiry + 1

\* (spec 8.3) Setting a chat timer to its current value emits no event and
\* writes no row: every ChatEphemeralTimerModified that set_ephemeral_timer
\* emits (its inner_set step) follows an UPDATE that changed the chat's
\* chats.ephemeral_timer.
TimerChangeAnnouncedOnce ==
    [][\A c \in Callers :
          pc[c] = "set_inner" /\ pc'[c] = "set_send"
          => chatTimer'[chat[c]] # chatTimer[chat[c]]]_vars

-----------------------------------------------------------------------------
(* Refinement of EphemeralExpiry                                           *)

\* The abstract state is what the database holds about each message; the
\* wake task, the callers' locals and the pending reload are hidden.
Expiry == INSTANCE EphemeralExpiry WITH
    clock    <- now,
    timerOf  <- timer,
    seenMsgs <- {m \in Msgs : seen[m]},
    expiry   <- ts,
    deleted  <- {m \in Msgs : trashed[m]}

\* Every step of the engine is an atomic arm, sweep, see or tick of
\* EphemeralExpiry, or leaves the messages alone: start_ephemeral_timer's
\* guarded UPDATE and the healer never push an expiry out or arm an unseen
\* message, and delete_expired_messages trashes exactly the due messages.
\* With the wake task and the UI's reload, every message whose expiry has
\* passed is eventually swept.
ImplementsExpiry == Expiry!ASpec

\* The safety half of ImplementsExpiry, for runs where SQL errors can
\* stop every sweep.
ImplementsExpirySafety == Expiry!ASafety

====
