# TLA+ models of juttmy-core's scheduler, ephemeral engine and account manager

These modules model the concurrent core of the engine in `src/` and check
it with TLC. Each module is translated from the Rust source. The
collaborators that are not in this repository (the job table of `job.rs`,
marking a message seen, a process crash) are modelled from `spec.md` and
marked as such in `PROJECT.json`.

| Module | Models | Runs |
|---|---|---|
| `Scheduler.tla`, `MC_Scheduler.tla` | `scheduler.rs`, `imap/idle.rs` | `sched_core`, `sched_probe_lost` |
| `Ephemeral.tla`, `MC_Ephemeral.tla` | `ephemeral.rs` | `eph_core`, `eph_sql_error`, `eph_orphan`, `eph_stale_wake`, `eph_timer_race` |
| `EphemeralExpiry.tla` | the promise of `spec.md` §4.4, refined by `Ephemeral` | (a property of `eph_core` and `eph_sql_error`) |
| `Accounts.tla`, `MC_Accounts.tla` | `accounts.rs` | `acc_core`, `acc_faults`, `acc_select_race`, `acc_migrate_fail`, `acc_create_crash` |

## 1. Inventory

### Components and how they interact

| Component | Source | State | Operations |
|---|---|---|---|
| Account manager | `accounts.rs` | `accounts` map (RwLock), `Config.inner` (RwLock) persisted to `accounts.toml` | `new`/`create`/`open`, `add_account`, `remove_account`, `migrate_account`, `import_account`, `select_account`, `get_selected_account`, `start_io`/`stop_io`/`maybe_network` fan-out, merged event emitter |
| Per-account scheduler | `scheduler.rs` | `Scheduler::{Stopped, Running}` with four `ConnectionState`s (stop, shutdown-ack and idle-interrupt channels, all `channel(1)`) and four `JoinHandle`s | `start`, `pre_stop`, `stop`, `maybe_network`, `interrupt_inbox`/`interrupt_smtp`; the loops `inbox_loop`, `simple_imap_loop` (mvbox, sentbox), `smtp_loop`; `fetch`, `fetch_idle` |
| IMAP IDLE / fake IDLE | `imap/idle.rs` | the connection's session and the receiving end of the idle-interrupt channel | `idle` (IDLE raced against the interrupt channel, 23 min timeout, 15 s `done()`), `fake_idle` (60 s poll or wait-for-interrupt) |
| IMAP client | `imap/client.rs` | a TLS or plain TCP stream | `connect_secure`, `connect_insecure`, `login`, `secure` (STARTTLS) |
| Ephemeral engine | `ephemeral.rs` | `chats.ephemeral_timer`, `msgs.ephemeral_timer/ephemeral_timestamp/chat_id`, `Context.ephemeral_task` (RwLock<Option<JoinHandle>>) | `set_ephemeral_timer`, `inner_set_ephemeral_timer`, `start_ephemeral_timer`, `delete_expired_messages`, `schedule_ephemeral_task`, `load_imap_deletion_msgid`, `start_ephemeral_timers` |
| Job table (outside `src/`) | `job.rs` | rows per thread with a retry time | `add` (insert, then interrupt the thread's loop), `load_next`, `perform_job` |

How the components interact:

- The account manager owns one `Context` per account. It fans `start_io`, `stop_io` and `maybe_network` out to them.
- `Context::start_io` and `Context::stop_io` take the scheduler's write lock. Every interrupt (`maybe_network`, and `interrupt_inbox` / `interrupt_smtp` from `job::add`) takes its read lock.
- The inbox and SMTP loops pull jobs. The mvbox and sentbox loops only fetch and idle.
- The ephemeral engine is called from chat code (on marking seen, on loading a chat list) and from housekeeping. Its wake task emits `MsgsChanged` for the UI.

### The hard behaviours

- **Four loops race their stop channel.** The race is `stop_receiver.recv().race(fut)`. The loop future is dropped at whatever `.await` it is suspended in, a `perform_job` included.
- **Capacity-1 interrupt channels with `try_send`.** An interrupt sent while one is buffered is dropped. The buffered one may carry `probe_network = false`.
- **Start and stop handshakes.** A loop that `start` never spawned still has its `ConnectionState`. Its handlers were dropped at the end of `start`. `pre_stop` still sends on its stop channel, whose receiver is gone. The channel is empty and has room for one message, so the send enqueues and returns. `shutdown_receiver.recv()` then errors, because the loop's sender was dropped too, and `pre_stop` goes on.
- **IDLE is raced against the interrupt channel.** An interrupt that wins is replaced by the default when `handle.done()` times out after 15 s.
- **The inbox loop runs jobs in bursts.** It forces a fetch after the burst. If no inbox folder is configured, that fetch is `fake_idle(None)`, which waits for an interrupt.
- **`schedule_ephemeral_task` is not atomic.** It queries the earliest timestamp, then takes and cancels the old task, then spawns a new one and stores it. Each of these steps is a separate lock or await. Two callers can interleave.
- **`set_ephemeral_timer` reads, then writes.** It compares the chat's stored timer with the new one, then calls `inner_set_ephemeral_timer`, which updates and emits. Nothing holds a lock in between.
- **The `start_io` / `stop_io` / `maybe_network` fan-outs hold the map's read lock across every account's `.await`.** Every map write waits for them.
- **Account operations span two locks and the disk.** The `accounts` map and the config are updated at different times. `?` inside `migrate_account`'s `res` block returns from the function, so the rollback branch never runs. `new_account` pushes an entry before its `sync()?` and selects it only afterwards.

### Correctness properties per component

- **Scheduler**
  - `stop_io` terminates.
  - A job added while running is seen by its loop (no lost wake-up).
  - A `maybe_network` probe reaches `load_next`.
  - The inbox runs at most 20 jobs in a row (not checked, see §3).
  - A job in progress is not aborted by stop (`spec.md` §5; not checked, see §3).
- **Ephemeral**
  - At most one wake task is live (`spec.md` §6, property 6; violated by two concurrent schedulers).
  - The wake task is set for the earliest pending expiry.
  - `set_ephemeral_timer` emits an event only when the value changes (property 3; checked, and violated by two concurrent setters).
  - An armed timestamp never moves later, only due or old messages are trashed, and every expired message is eventually trashed: the engine refines `EphemeralExpiry`.
- **Accounts**
  - The registry invariant (`spec.md` §3): ids are unique and below `next_id`, and the selection is 0 or an existing id.
  - The map and the registry agree, so `get_selected_account` never panics.
  - A failed `migrate_account` or `import_account` restores the previous state (§4.5; violated by `migrate_account`).
  - Removing the selected account selects the smallest remaining id (property 7).
  - The map never holds a `Context` for an account the registry lacks.
  - A non-empty registry always selects an account, so `get_selected_account` does not panic (holds without failures; a failed `new_account` sync breaks it).
  - After `remove_account` returns, the removed account's scheduler is not running, even with a `start_io` fan-out in flight.

## 2. Plan

Modules, in the order they are built:

1. `Scheduler.tla`: the scheduler of one account, with the IDLE and fake-IDLE waits folded into the loops' wait states. `MC_Scheduler.tla` instantiates it. *(Done.)*
2. `Ephemeral.tla`: expiry timestamps of a few messages over a discrete clock, the wake-task field, and concurrent callers of `schedule_ephemeral_task`, each a small process with its own program counter. *(Done.)* `EphemeralExpiry.tla`, the abstract promise about messages (arming, sweeping, eventual trashing) with every operation one atomic step, refined by `Ephemeral` through `INSTANCE ... WITH`. *(Done.)*
3. `Accounts.tla`: the accounts map and the in-memory and on-disk registry, with concurrent `add_account`, `remove_account`, `migrate_account`, `import_account`, `select_account` and `get_selected_account` callers. Each has a step per lock or await. File-system steps may fail, and the process may crash and reopen. *(Done.)*
4. `set_ephemeral_timer` in `Ephemeral.tla`, and the `start_io` / `stop_io` / `maybe_network` fan-out in `Accounts.tla`. *(Done.)*
   `Accounts::new`, `create` and `open` as a boot process that a crash restarts, so that `Init` is a missing directory. *(Done.)*
5. Still open:
   - the composition of `Accounts` with a `Scheduler` per account, which would check `remove_account`'s `stop_io` against the scheduler's stop handshake;
   - the liveness of due jobs (`scheduler.rs:125`, `:229`), which depends on whether `job.rs` interrupts a loop when a retry time passes.

## 3. `Scheduler.tla`

### State

| Variable | Code |
|---|---|
| `ctl` | the `Scheduler` variant, plus where `start`, `pre_stop` and `stop` are suspended |
| `pc[t]` | where each loop is suspended: `starting`, `load`, `perform`, `fetchWait` (`fetch()`'s `fake_idle(None)`), `idleWait`, `fakePoll`, `fakeNone`, `smtpIdle`, `done` |
| `spawned[t]` | the `JoinHandle` is `Some` |
| `startCh`, `stopCh`, `shutCh`, `intr` | the four channels, capacity 1 |
| `info` | the `info` / `interrupt_info` locals of the inbox and SMTP loops |
| `jobsLoaded` | `jobs_loaded` |
| `jobs` | the job table abstracted to counts of due and backed-off jobs per thread |
| `conf` | the config keys the loops read |

- Network I/O on a loop's own connection touches no shared state. It is folded into the step that awaits it, and its outcome is chosen nondeterministically (`FetchIdleOutcomes`).
- `unseen` and `probeOwed` are history variables used only by properties.

### Actions

| Action | Code |
|---|---|
| `StartIo`, `Started`, `StartDone` | `Scheduler::start` and each loop's `started.send(())` |
| `PreStop`, `PreStopDone` | `pre_stop` and `ConnectionState::stop` |
| `StopDone` | `stop` (the joins) |
| `Shutdown` | the stop race and `shutdown_sender.send` of each loop |
| `InboxLoadJob`, `InboxPostponeJob`, `InboxLoadNone`, `FetchWaitInterrupt`, `PerformJobStep` | the three arms of `inbox_loop`, and `fetch` |
| `SmtpLoadJob`, `SmtpLoadNone`, `SmtpIdle` | `smtp_loop` |
| `IdleServerEvent`, `IdleInterrupt` | `Imap::idle` |
| `FakeIdleTick`, `FakeIdleInterrupt` | `Imap::fake_idle` |
| `AddJob`, `AddJobInterrupt` | `job::add`, then `Context::interrupt_inbox` / `interrupt_smtp` |
| `MaybeNetwork` | `Context::maybe_network` |
| `BackoffExpires` | a retry time passing |

### Fairness

Every loop is a task of the async-std executor. It runs whenever it is not waiting, so these are weakly fair:

- its own steps (`LocalStep`);
- taking a buffered interrupt or stop in any of its waits, since each wait races the channel receive;
- the completion of `start`, `pre_stop`, `stop` and `job::add`'s interrupt.

Nothing is assumed of:

- the server (`IdleServerEvent`);
- the network (`FakeIdleTick`);
- when the user calls `start_io`, `stop_io` or `maybe_network`;
- when jobs are added.

The liveness properties therefore hold without any help from the server.

### Runs

| Run | Expect | Configs | What it shows |
|---|---|---|---|
| `sched_core` | pass | `WatchAll`, `NoIdle`, `Unconfigured`, `InboxOff` (one chosen by `Init`) | `TypeOK`; `StopTerminates`: once `stop_io` is called, `pre_stop` and `stop` return; `NoLostWakeup`. `job::add` inserts the row before it interrupts, and each loop races its waits against the channel, so a job added at any point is seen. The configurations cover IDLE, a server without IDLE, unset folders and watch flags off, so `fake_idle(None)`, the forced-fetch wait and never-spawned loops are all reached. For a never-spawned loop, `pre_stop`'s send enqueues and its `recv` returns an error, so `stop_io` still returns. |
| `sched_probe_lost` | violation | `JobLoopsOnly` | `ProbeNotDropped`: `job::add`'s default interrupt fills the SMTP channel, `maybe_network`'s probe is dropped by `try_send`, and the loop goes back to waiting without ever seeing `probe_network`. `spec.md` §4.3 says the probe is "propagated unconditionally". |

Two divergences from `spec.md` are reachable in this model but have no run:

- `jobs_loaded <= 20` is tested before the increment, so the inbox loop runs 21 jobs in a row before it forces a fetch. `spec.md` §4.3 says 20. `InboxLoadJob` fires with `jobsLoaded = InboxJobBurst`.
- The stop race drops the loop future inside `perform_job`. `Shutdown` fires from `perform`. `spec.md` §5 says an in-progress job runs to completion, but what a half-done job leaves behind lives in `job.rs`.

### Bounds and why they are enough

- **`MaxJobs = 1` row in the job table.** Every path of the loops depends only on whether a job is loadable. A second row adds nothing but counts. Interrupt coalescing still happens, because interrupts come from `job::add` and `maybe_network` independently.
- **`InboxJobBurst = 0`.** This makes the postpone path reachable after one job. The code's literal, 20, changes only how many loads come before it.
- **Restarts are unbounded.** `StartIo` after `StopDone` is always possible, so runs cover stop-then-start with jobs left in the table.
- **Channels have capacity 1**, as in the code.

## 4. `Ephemeral.tla`

### State

| Variable | Code |
|---|---|
| `now` | `time()`, whole seconds, bounded by `MaxTime` |
| `timer`, `ts` | `msgs.ephemeral_timer`, `msgs.ephemeral_timestamp` (0 = disabled / not armed) |
| `seen`, `trashed` | the message state has left `InFresh`/`InNoticed`/`OutDraft`; `chat_id = DC_CHAT_ID_TRASH` |
| `field` | `Context.ephemeral_task`: a task id or `NoTask` (`None`) |
| `task[k]` | each spawned wake task: `sleeping` until `at`, `done`, or `cancelled` |
| `pc[c]`, `arg[c]`, `q[c]`, `mine[c]` | where each concurrent caller is, the message it arms, the timestamp its query returned, and the task it spawned and has not stored yet |
| `reload` | a `MsgsChanged` the UI has not answered yet |
| `Sent`, `Kept`, `DeleteDeviceAfter` (constants) | `msgs.timestamp`; the messages in a special, the self or the device chat; the `delete_device_after` config |
| `chatTimer[ch]` | `chats.ephemeral_timer`, the `u32` encoding of `Timer` (`ToU32` / `FromU32`: 0 is `Disabled`) |
| `chat[c]`, `want[c]` | the `ChatId` and the `Timer` a `set_ephemeral_timer` call was given |
| `Chats`, `Special` (constants) | a few chats; those for which `is_special()` holds |

### Actions

| Action | Code |
|---|---|
| `MarkSeen` | marking a message seen (outside `src/`), which calls `start_ephemeral_timer` |
| `StartEphemeralTimer` | `MsgId::ephemeral_timer` and `start_ephemeral_timer`: the guarded `UPDATE` |
| `DeleteExpiredMessages` | `delete_expired_messages`: the `ephemeral_timestamp` UPDATE (`Expired`), then, with `delete_device_after` set, the age UPDATE (`TooOld`), either of which may fail and return |
| `QueryEarliest` | `schedule_ephemeral_task`'s `SELECT` (an error returns early) |
| `TakeAndSpawn` | `write().await.take()` and `cancel().await`, then nothing, a spawn, or an immediate `MsgsChanged` |
| `StoreTask` | `*context.ephemeral_task.write().await = Some(task)`; the old handle is dropped, which detaches its task |
| `StartEphemeralTimers` | the housekeeping healer; it does not reschedule |
| `WakeTaskFires` | the spawned task's sleep ends and it emits `MsgsChanged` |
| `Tick` | time passing |
| `SetEphemeralTimer`, `GetEphemeralTimer`, `InnerSetEphemeralTimer`, `SendTimerChangedMsg` | `set_ephemeral_timer`: the call, `get_ephemeral_timer(..).await?` and the equality test, `inner_set_ephemeral_timer` (`ensure!(!is_special())`, the `UPDATE`, the event), and the info message whose send error is only logged |

- `schedule_ephemeral_task` is three steps, because each one is a separate `.await` on the SQL pool or on the lock.
- When `SqlErrors` is TRUE, each SQL statement may fail. The model then takes the code's `?` or early return.
- `duration_since` is measured against a `SystemTime` with sub-second precision. At `until = now`, either branch can happen, so both are enabled.

### Fairness

These are weakly fair:

- a caller that has entered the engine runs to its end;
- a sleeping task wakes;
- the clock advances;
- the UI answers `MsgsChanged` with a chat-list load (`UiReload`), as `schedule_ephemeral_task`'s comment expects. This one is strongly fair. A caller in the model also stands for the UI's other calls, such as setting a chat's timer. Those calls can keep the caller busy in between, but they do not cancel the pending reload.

Marking seen, user-initiated loads and the healer are not assumed to happen.

### Runs

| Run | Expect | What it shows |
|---|---|---|
| `eph_core` | pass | One caller at a time, `delete_device_after = 2`. `TypeOK`. `WakeArmed`: when no caller is inside the engine, the stored task wakes no later than the earliest pending expiry + 1. `ImplementsExpiry`: the engine refines `EphemeralExpiry`'s `ASpec`, its fairness included. |
| `eph_sql_error` | pass | Every SQL statement may fail, `delete_device_after = 1`. `ImplementsExpirySafety`, the safety half of the refinement: the early returns on SQL errors never move an expiry later or trash a message early. With failing sweeps, nothing makes expired messages go. |
| `eph_orphan` | violation | Two callers each spawn a task. The second `StoreTask` drops the first handle, and that task sleeps on, detached (`spec.md` property 6). |
| `eph_stale_wake` | violation | A chat-list load queries before another caller arms a message. Its take then cancels that caller's fresh wake task, and it spawns nothing. |
| `eph_timer_race` | violation | `TimerChangeAnnouncedOnce` (`spec.md` property 3): two `set_ephemeral_timer(chat, t)` calls both read the old value before either writes. The second `UPDATE` writes the value already there, yet it emits a second `ChatEphemeralTimerModified` and sends a second info message. No serial order of the two calls does this. |

### Refinement of `EphemeralExpiry`

`EphemeralExpiry.tla` states what the engine promises about messages, with no wake task, callers or SQL errors in sight. It has five actions:

- `See` marks a message seen.
- `Arm(S)` sets `now + duration` for seen messages with a timer, unless the message already expires no later.
- `Sweep` moves to the trash some messages that are due (expiry strictly past) or old (`delete_device_after` set, outside the kept chats), and nothing else.
- `Tick` advances the clock.
- `ASpec` adds weak fairness on `SweepExpired`, a sweep that takes every due message.

`Ephemeral` instantiates it with this mapping:

- `clock <- now`
- `timerOf <- timer`
- `seenMsgs <- {m : seen[m]}`
- `expiry <- ts`
- `deleted <- {m : trashed[m]}`

Every other variable is hidden. Each detailed step maps onto abstract steps as follows:

- `MarkSeen` is `See`.
- A successful `StartEphemeralTimer`, and `StartEphemeralTimers`, are `Arm`.
- `DeleteExpiredMessages`, whole or cut short by the second UPDATE's error, is `Sweep`.
- `Tick` is `Tick`.
- Everything else leaves the abstract state alone.

The liveness half is where the wake task earns its keep. Only the single wake task, or the immediate `MsgsChanged`, and the UI's reload make a sweep happen after an expiry.

### Bounds

| Constant | Value | Why it is enough |
|---|---|---|
| `Msgs` | 2 messages | Enough for one to expire while the other is pending. That is the case where `Earliest` and the trash filter matter. |
| `Durations` | {1, 2} | Two expiries can be ordered either way. |
| `MaxTime` | 5 | Arming stops at `ArmHorizon = MaxTime - 3`, so every wake-up falls inside the clock. |
| `TaskSlots` | 1 with one caller, 3 with two | Enough for an orphan plus the two tasks of the racing callers. |
| `Sent`, `Kept` | both sent at 0; `m2` in the self chat | One message goes by age and one must stay, within the clock. |
| `Chats`, `Special` | a group and the trash chat, the trash special | Both of `inner_set_ephemeral_timer`'s outcomes happen: the `ensure!` rejects the trash, and the group's timer changes. `Timers` is `Disabled` plus the `Durations`, so a timer can be set, changed, set again to the same value, and disabled. |

## 5. `Accounts.tla`

### State

| Variable | Code |
|---|---|
| `reg` | `Config.inner`: the entries' ids in `Vec` order, `selected_account`, `next_id` |
| `root` | the accounts directory exists |
| `disk` | `accounts.toml`: a registry, `Torn` after an interrupted `fs::write`, or `Missing` |
| `ctxs` | the keys of the `accounts` map; a `Context` is abstracted to its presence |
| `dirs` | the account directories that exist |
| `db`, `blob` | where the database and the blob directory of a `migrate_account` call are: `Ext`, an account id, or `Gone` |
| `pc[c]`, `op[c]`, `cid[c]`, `old[c]` | where each caller is, which operation it is in, the id it works on, and `import_account`'s `old_id` |
| `up` | the process runs (`Accounts::open` succeeded) |
| `panicked` | the `expect()` sites that have panicked |
| `io` | the accounts whose `Context` runs its scheduler; `Context::start_io` / `stop_io` are reduced to this (they are outside `src/`) |
| `todo[c]` | the accounts a caller's `start_io` / `stop_io` / `maybe_network` loop has still to visit |

### Actions

| Action | Code |
|---|---|
| `Alloc`, `NewAccountSync`, `NewAccountSelect`, `NewAccountSelectSync` | `Config::new_account`: the write-locked block, `sync()?`, `select_account(id).expect("just added")` |
| `AddAccount`, `AddContext` | `add_account`: `new_account`, then `Context::new(..)?` and the map insert |
| `MigrateAccount`, `MigrateCreateDir`, `MigrateRenameDb`, `MigrateRenameBlob`, `MigrateContext` | `migrate_account`: the `ensure!`s and `new_account`, the `res` block's three file-system calls (each `?` returns from the function), then `Context::with_blobdir` and the insert |
| `RemoveAccount`, `RemoveDir`, `RemoveConfig`, `RemoveSync` | `remove_account`: map removal and `ensure!`, `remove_dir_all(..)?`, `Config::remove_account` (reselect `accounts.get(0)`), `sync()` |
| `SelectAccount`, `SelectSync` | `select_account`: `ensure!` and assignment, then `sync()` |
| `GetSelectedAccount`, `GetSelectedLookup` | `get_selected_account`: the selection under the registry's lock, then the map lookup under the map's lock, `.expect("inconsistent state")` |
| `ImportAccount`, `ImportAdd`, `ImportGet`, `ImportImex`, `ImportSelect` | `import_account`: `old_id`, `add_account()?`, `get_account(id).expect("just added")`, `imex` (Ok, or Err with `remove_account(id)?`), `select_account(old_id)?` |
| `AccountsNew` | `Accounts::new`: `create` when the directory does not exist, then `open`. It runs as one more process, `Boot`, before any caller and after every crash. An `Err` leaves the process down, and the application may call it again. |
| `CreateDir`, `ConfigNew`, `CreateNewAccount`, `CreateContext` | `Accounts::create`: `create_dir_all`, `Config::new` (the empty registry and its `sync`), `new_account` (through the same `Alloc` ... `NewAccountSelectSync` steps as `add_account`), and the default account's `Context::new`. Each `?` returns with nothing undone. |
| `Open` | `Accounts::open`: the `ensure!` that `accounts.toml` exists, `from_file` (`FromFileOk`: a torn file does not parse), and `load_accounts`, whose `Context::new` per entry recreates a missing directory and may fail part-way (`LoadedDirs`) |
| `Crash` | a process crash, also during `Accounts::new`. A sync in progress may tear the file, and everything in memory is lost. |
| `StartIo`, `StopIo`, `MaybeNetwork`, `FanOutStep` | `Accounts::start_io`, `stop_io`, `maybe_network`: take `accounts.read().await`, then one step per `account.start_io().await` / `stop_io().await` / `maybe_network().await` in id order. The read guard is held until the loop ends, so `MapWritable` (no caller is in a loop) guards every map write. |
| `IdsExhausted` | the model's bound on `next_id` is reached |

- `Config::sync` keeps the registry's read guard across `fs::write`, because the guard is a temporary of the tail expression. The snapshot and the write are therefore one step (`Synced`).
- `fs::write` truncates first. A write that fails part-way, or a crash during it, leaves `Torn`.
- `remove_account`'s `ctx.stop_io().await` is part of `RemoveDir`, and a `Crash` stops every scheduler.
- `Init` is the program before its first `Accounts::new`: no accounts directory, no `accounts.toml`, the process down.

### Fairness and deadlock

The callers are the application's API calls. Nothing obliges them to call, so `Spec` has no fairness and the runs check only safety.

Deadlock is checked in every run. A torn or missing `accounts.toml` makes every later `Accounts::new` fail, but the application can always call it again. That is a livelock: the process never comes up, but it is not a deadlock.

### Runs

| Run | Expect | Configuration | What it shows |
|---|---|---|---|
| `acc_core` | pass | two callers; every operation but `migrate_account`; no failures | `RegistryInvariant` in memory and on disk. `MapWithinRegistry`: in every state the map holds only registered accounts. `SelectedWhenNonEmpty` (`spec.md` §4.5, the reason `get_selected_account` may panic): whenever no call runs, a non-empty registry selects one of its accounts. `NoIoAfterRemove`: a removed account's scheduler runs only while its `remove_account` has not yet reached `stop_io`. A `start_io` loop cannot restart it, because it holds the read lock that the map removal waits for. `MapMatchesRegistry`: whenever no call is running, the map holds a `Context` for exactly the registry's entries, also after an `import_account` undo. `RemoveReselectsSmallest`: removing the selected account selects the smallest remaining id, because concurrent `new_account` calls append in id order. |
| `acc_faults` | pass | one caller; every operation; file-system and `Context` failures; crashes; from a missing directory through `Accounts::new` | `RegistryInvariant` for the registry in memory and for every readable `accounts.toml`, and `RemoveReselectsSmallest`, through any failure, crash and reopen. `MapWithinRegistry` holds through them too. |
| `acc_select_race` | violation | as `acc_core` | `NoPanic`: `get_selected_account` runs between `add_account`'s persisted selection and its map insert, and panics with "inconsistent state". `remove_account`'s map removal before its registry update, and `import_account`'s `get_account(id).expect` after a concurrent remove, open the same kind of window. |
| `acc_migrate_fail` | violation | one caller; `migrate_account`; failures | `MigrationRollsBack` (`spec.md` §4.5): a migration that fails in its `res` block must have removed its registry entry and restored `old_id` when it returns. TLC's trace: `create_dir_all` fails, the `?` returns before the rollback, and the new account stays registered and selected with no `Context`. |
| `acc_create_crash` | violation | as `acc_faults` | `SelectedWhenNonEmpty`: `Accounts::create` crashes after `Config::new`, the reopened registry is empty, and `add_account`'s `new_account` pushes account 1, whose `sync()?` fails. The registry then holds account 1 with `selected_account = 0`, so every `get_selected_account` panics. A crash between `new_account`'s two syncs writes the same state to `accounts.toml`. |

The mutants in `PROJECT.json` check that each passing property can fail:

- `AllocOffByOne` makes the allocated id one past `next_id`.
- `RemoveConfigNoReselect`, `RemoveConfigReselectLast` and `RemoveConfigReselectNone` get the reselection wrong.
- `AddContextNoInsert` leaves out the map insert.
- `RemoveAccountNoLock` lets `remove_account` take the map entry while a fan-out holds the read lock.
- `ImportImexKeepCtx` makes `import_account`'s undo remove the registry entry but keep the `Context`.

A further divergence from `spec.md` §4.5 is reachable in `acc_faults` but has no run of its own:

- **A failed `create` is not undone.** A failure or crash after `create_dir_all` and before `Config::new`'s sync leaves the directory without `accounts.toml`. Every later `Accounts::new` skips `create` and fails `open`'s `ensure!`. `spec.md` says "Any failure removes what was created".

### Bounds

- `MaxId = 3` gives the initial account plus two more. That is enough for two concurrent `new_account` calls, and for removing the selected account while another remains. Past the bound, `IdsExhausted` lets the run end without a false deadlock.
- Two callers are enough for every race between two locks, a fan-out against a removal included. With failures and crashes one caller is used, because every failure path is sequential.

## 6. Not modelled

- **`imap/client.rs`.** These are the connection set-up, STARTTLS and login wrappers. Each method takes the `Client` by value and returns a new one, or a `Session`. `login` and `authenticate` hand the `Client` back on error, with its `is_secure` flag. The flag and the stream belong to one task. Nothing is shared, persisted or interleaved, and every path is a straight line of awaits that a unit test reaches. A model would only restate them. The scheduler model uses just whether a connect or fetch succeeds.
- **The content of jobs, messages and `msg_id`.** `msg_id` only selects which job `load_next` prefers. The model counts jobs and does not name them.
- **The event emitter merge and logging.**
- **The rest of the ephemeral engine.**
  - `load_imap_deletion_msgid` is a read-only query.
  - Stock strings, and `Timer`'s `ToString` / `FromStr`, are formatting that no code in `src/` reads back.
  - `FromSql`'s out-of-range error: every `chats.ephemeral_timer` value in the model was written by `ToSql`.
  - Every chat in `Chats` has a row. For a missing chat, `get_ephemeral_timer` reads `Disabled` and the `UPDATE` changes nothing, yet the event is still emitted.
  - The receive path that calls `inner_set_ephemeral_timer` directly is outside `src/`.
- **The composition of `Accounts` with a `Scheduler` per account.** The fan-out reduces each scheduler to running or stopped. `Scheduler` checks that its `stop_io` returns, so the fan-out's read lock is always released. The product of the two models is beyond the five-minute budget.
- **`get_account`, `get_all` and `os_name`.** These are plain reads.
