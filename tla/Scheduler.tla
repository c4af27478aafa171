------------------------------ MODULE Scheduler ------------------------------
(***************************************************************************)
(* The per-account job and connection scheduler of src/scheduler.rs with   *)
(* the IDLE / fake-IDLE waits of src/imap/idle.rs that its IMAP loops run. *)
(*                                                                         *)
(* Four loops (inbox, mvbox, sentbox, smtp) each own one end of three      *)
(* capacity-1 channels: stop, shutdown-ack and idle-interrupt; a fourth    *)
(* channel acknowledges start-up.  Every step below is one stretch of a    *)
(* loop between two .await points; network I/O on a loop's own connection *)
(* touches no shared state and is folded into the step that awaits it,     *)
(* with its success or failure chosen nondeterministically.                *)
(*                                                                         *)
(* The job table (src/job.rs, not part of this repository) is abstracted   *)
(* to counts of due and backed-off jobs per thread; `load_next` returns a  *)
(* job when one is due, or, with probe_network set, when one is backed off.*)
(***************************************************************************)
EXTENDS Naturals, Sequences

CONSTANTS
    Configs,          \* account configurations start() may find
    InboxJobBurst,    \* the literal of `jobs_loaded <= 20` in inbox_loop
    MaxJobs,          \* capacity of the modelled job table (all threads)
    ObserveProbe      \* record probeOwed (only runs checking ProbeDelivered)

ImapTasks == {"inbox", "mvbox", "sentbox"}
Tasks     == ImapTasks \cup {"smtp"}
Threads   == {"imap", "smtp"}                       \* job::Thread
JobLoop   == [imap |-> "inbox", smtp |-> "smtp"]    \* loop running a thread's jobs
ThreadOf(t) == IF t = "smtp" THEN "smtp" ELSE "imap"

\* The Config keys the scheduler reads.
ConfigRec == [inbox_watch: BOOLEAN, mvbox_watch: BOOLEAN, sentbox_watch: BOOLEAN,
              folder: [ImapTasks -> BOOLEAN],   \* Configured*Folder is set
              can_idle: BOOLEAN]                \* server has IDLE capability

ASSUME /\ Configs # {} /\ Configs \subseteq ConfigRec
       /\ InboxJobBurst \in Nat
       /\ MaxJobs \in Nat \ {0}
       /\ ObserveProbe \in BOOLEAN

ChanCap == 1                                        \* channel(1)

\* InterruptInfo; msg_id only steers which job load_next picks, and jobs are
\* counted, not named, so it is left out.
InterruptInfo == [probe_network: BOOLEAN]
DefaultInfo   == [probe_network |-> FALSE]          \* InterruptInfo::default()
ProbeInfo     == [probe_network |-> TRUE]           \* InterruptInfo::new(true, None)

Ctl == {"Stopped", "Starting", "Running", "PreStopping", "Stopping"}
PCs == {"absent", "starting", "load", "perform", "fetchWait",
        "idleWait", "fakePoll", "fakeNone", "smtpIdle", "done"}
JobLoops == {"inbox", "smtp"}

VARIABLES
    conf,       \* the account configuration
    ctl,        \* Scheduler variant plus where start()/pre_stop()/stop() are
    pc,         \* where each loop is
    spawned,    \* [Tasks -> BOOLEAN]: the task's JoinHandle is Some
    startCh,    \* [Tasks -> BOOLEAN]: start-ack channel holds a message
    stopCh,     \* [Tasks -> BOOLEAN]: stop channel holds a message
    shutCh,     \* [Tasks -> BOOLEAN]: shutdown-ack channel holds a message
    intr,       \* [Tasks -> Seq(InterruptInfo)]: idle-interrupt channels
    info,       \* [JobLoops -> InterruptInfo]: the loop's `info` local
    jobsLoaded, \* inbox_loop's `jobs_loaded`
    jobs,       \* [Threads -> [due, backoff]] job table counts
    adder,      \* the caller of job::add: inserted, interrupt not yet sent
    unseen,     \* history: a job was added after the thread's last load_next
    probeOwed   \* history: maybe_network reached the thread's loop and no
                \* load_next has seen probe_network since

vars == <<conf, ctl, pc, spawned, startCh, stopCh, shutCh, intr, info,
          jobsLoaded, jobs, adder, unseen, probeOwed>>

-----------------------------------------------------------------------------
(* Helpers                                                                 *)

Goto(t, l) == pc' = [pc EXCEPT ![t] = l]

Alive(t) == pc[t] \notin {"absent", "done"}

\* A receiver end exists while the task's handlers are alive.
HasReceiver(t) == spawned[t] /\ pc[t] # "done"

\* Mutant: send() into an unbounded queue instead of a capacity-1 try_send.
InterruptUnbounded(t, i) ==
    IF HasReceiver(t) THEN Append(intr[t], i) ELSE intr[t]

\* ConnectionState::interrupt: try_send; the info is dropped when the
\* buffer is full or the receiver is gone.
Interrupt(t, i) ==
    IF HasReceiver(t) /\ Len(intr[t]) < ChanCap
    THEN Append(intr[t], i) ELSE intr[t]

\* idle_interrupt.recv() taking the buffered info.
Receive(t) == intr' = [intr EXCEPT ![t] = Tail(@)]

\* Rows in the job table, both threads together.
JobCount == jobs["imap"].due + jobs["imap"].backoff + jobs["smtp"].due + jobs["smtp"].backoff

\* job::load_next(ctx, thread, info) finds a job.
Loadable(th, i) == jobs[th].due > 0 \/ (i.probe_network /\ jobs[th].backoff > 0)

\* Where fetch_idle(folder) first waits: fake_idle(None) without a
\* configured folder; fake_idle(Some) when connect_configured fails or the
\* server lacks IDLE; in IDLE otherwise, unless idle() returns at once
\* ("idleSkip": setup_handle or select_folder failed, an unsolicited EXISTS
\* was queued, or IDLE init failed; an error there becomes a reconnect and
\* a default InterruptInfo).
FetchIdleOutcomes(t) ==
    IF ~conf.folder[t] THEN {"fakeNone"}
    ELSE {"fakePoll"} \cup (IF conf.can_idle THEN {"idleWait", "idleSkip"} ELSE {})

\* simple_imap_loop: fetch_idle again, until one of its waits.
FetchIdleAgain(t) ==
    \E o \in FetchIdleOutcomes(t) \ {"idleSkip"} : Goto(t, o)

\* Mutant: inbox_loop written like simple_imap_loop, calling fetch_idle
\* again instead of returning to load_next.
IdleReturnNoLoad(t, i) == FetchIdleAgain(t) /\ UNCHANGED info

\* What fetch_idle / fake_idle hand back: inbox_loop keeps it as `info`,
\* simple_imap_loop drops it and calls fetch_idle again.
IdleReturn(t, i) ==
    IF t = "inbox"
    THEN Goto(t, "load") /\ info' = [info EXCEPT ![t] = i]
    ELSE FetchIdleAgain(t) /\ UNCHANGED info

\* Bookkeeping of the history variables at a load_next call.
NoteLoad(t) ==
    /\ unseen' = [unseen EXCEPT ![ThreadOf(t)] = FALSE]
    /\ probeOwed' = [probeOwed EXCEPT ![ThreadOf(t)] = @ /\ ~info[t].probe_network]

\* job::perform_job: the job finishes or is rescheduled with a backoff.
PerformJob(th) ==
    LET j == jobs[th]
        taken == IF j.due > 0 THEN [j EXCEPT !.due = @ - 1]
                 ELSE [j EXCEPT !.backoff = @ - 1]
    IN \E retry \in BOOLEAN :
         jobs' = [jobs EXCEPT ![th] =
                    IF retry THEN [taken EXCEPT !.backoff = @ + 1] ELSE taken]

-----------------------------------------------------------------------------
(* Scheduler::start / pre_stop / stop, as driven by Context::start_io and  *)
(* Context::stop_io.                                                       *)

\* start(): fresh channels, spawn the loops whose watch flag is on, ack
\* the start channel of the others, become Running.
StartIo ==
    /\ ctl = "Stopped"
    /\ LET run(t) == t \in {"inbox", "smtp"}
                     \/ (t = "mvbox" /\ conf.mvbox_watch)
                     \/ (t = "sentbox" /\ conf.sentbox_watch)
       IN /\ spawned' = [t \in Tasks |-> run(t)]
          /\ pc' = [t \in Tasks |-> IF run(t) THEN "starting" ELSE "absent"]
          /\ startCh' = [t \in Tasks |-> ~run(t)]
    /\ ctl' = "Starting"
    /\ stopCh' = [t \in Tasks |-> FALSE]
    /\ shutCh' = [t \in Tasks |-> FALSE]
    /\ intr' = [t \in Tasks |-> <<>>]
    /\ info' = [t \in JobLoops |-> DefaultInfo]
    /\ jobsLoaded' = 0
    /\ probeOwed' = [th \in Threads |-> FALSE]
    /\ UNCHANGED <<conf, jobs, adder, unseen>>

\* A loop's first statement: started.send(()).
Started(t) ==
    /\ pc[t] = "starting"
    /\ startCh' = [startCh EXCEPT ![t] = TRUE]
    /\ IF t \in JobLoops THEN Goto(t, "load") ELSE FetchIdleAgain(t)
    /\ UNCHANGED <<conf, ctl, spawned, stopCh, shutCh, intr, info, jobsLoaded,
                   jobs, adder, unseen, probeOwed>>

\* start() returns once all four start acks are received.
StartDone ==
    /\ ctl = "Starting"
    /\ \A t \in Tasks : startCh[t]
    /\ startCh' = [t \in Tasks |-> FALSE]
    /\ ctl' = "Running"
    /\ UNCHANGED <<conf, pc, spawned, stopCh, shutCh, intr, info, jobsLoaded,
                   jobs, adder, unseen, probeOwed>>

\* pre_stop(): ConnectionState::stop on all four: send on the stop channel.
\* Every stop channel is empty here (stop only sends once), so each send
\* enqueues into the capacity-1 channel whether or not a loop holds the
\* receiver; a never-spawned loop's recv then fails once its sender drops.
PreStop ==
    /\ ctl = "Running"
    /\ ctl' = "PreStopping"
    /\ stopCh' = [t \in Tasks |-> TRUE]
    /\ UNCHANGED <<conf, pc, spawned, startCh, shutCh, intr, info, jobsLoaded,
                   jobs, adder, unseen, probeOwed>>

\* Mutant: pre_stop awaits a shutdown ack from all four loops, the
\* never-spawned ones included.
PreStopDoneAllAcks ==
    /\ ctl = "PreStopping"
    /\ \A t \in Tasks : shutCh[t]
    /\ ctl' = "Stopping"
    /\ shutCh' = [t \in Tasks |-> FALSE]
    /\ UNCHANGED <<conf, pc, spawned, startCh, stopCh, intr, info, jobsLoaded,
                   jobs, adder, unseen, probeOwed>>

\* pre_stop() returns when every stop send completed and every
\* shutdown_receiver.recv() returned: with the ack, or with an error
\* because the loop was never spawned.
PreStopDone ==
    /\ ctl = "PreStopping"
    /\ \A t \in Tasks : IF spawned[t] THEN shutCh[t] ELSE stopCh[t]
    /\ ctl' = "Stopping"
    /\ shutCh' = [t \in Tasks |-> FALSE]
    /\ UNCHANGED <<conf, pc, spawned, startCh, stopCh, intr, info, jobsLoaded,
                   jobs, adder, unseen, probeOwed>>

\* stop(): join every handle, then become Stopped.
StopDone ==
    /\ ctl = "Stopping"
    /\ \A t \in Tasks : spawned[t] => pc[t] = "done"
    /\ ctl' = "Stopped"
    /\ spawned' = [t \in Tasks |-> FALSE]
    /\ UNCHANGED <<conf, pc, startCh, stopCh, shutCh, intr, info, jobsLoaded,
                   jobs, adder, unseen, probeOwed>>

\* Mutant: the loop checks its stop channel only at the top of the job
\* loop instead of racing it against every await.
ShutdownBetweenJobs(t) ==
    /\ Alive(t) /\ pc[t] = "load"
    /\ stopCh[t]
    /\ stopCh' = [stopCh EXCEPT ![t] = FALSE]
    /\ shutCh' = [shutCh EXCEPT ![t] = TRUE]
    /\ Goto(t, "done")
    /\ UNCHANGED <<conf, ctl, spawned, startCh, intr, info, jobsLoaded,
                   jobs, adder, unseen, probeOwed>>

\* In every loop: stop_receiver.recv().race(fut) drops the loop future at
\* whatever .await it is suspended in, then shutdown_sender.send(()).
Shutdown(t) ==
    /\ Alive(t) /\ pc[t] # "starting"
    /\ stopCh[t]
    /\ stopCh' = [stopCh EXCEPT ![t] = FALSE]
    /\ shutCh' = [shutCh EXCEPT ![t] = TRUE]
    /\ Goto(t, "done")
    /\ UNCHANGED <<conf, ctl, spawned, startCh, intr, info, jobsLoaded,
                   jobs, adder, unseen, probeOwed>>

-----------------------------------------------------------------------------
(* fetch_idle(folder), Imap::idle and Imap::fake_idle                      *)

WaitVars == <<conf, ctl, spawned, startCh, stopCh, shutCh, jobsLoaded, jobs,
              adder, unseen, probeOwed>>

\* The IDLE wait ends on the server side (NewData, the 23-minute timeout,
\* a manual interrupt, an error); idle()'s own info is still the default,
\* and so is the one fetch_idle makes of a handle.done() timeout.
IdleServerEvent(t) ==
    /\ pc[t] = "idleWait"
    /\ IdleReturn(t, DefaultInfo)
    /\ UNCHANGED <<WaitVars, intr>>

\* The IDLE wait ends because the idle-interrupt channel delivered an info;
\* idle() returns it if handle.done() completes within 15 s, fetch_idle
\* replaces it by the default if it does not.
IdleInterrupt(t) ==
    /\ pc[t] = "idleWait"
    /\ intr[t] # <<>>
    /\ Receive(t)
    /\ \/ IdleReturn(t, Head(intr[t]))
       \/ IdleReturn(t, DefaultInfo)
    /\ UNCHANGED WaitVars

\* A fake_idle interval tick that connects and then either finds the
\* server can IDLE or fetch_new_messages found something: break with a
\* default info.  (A tick that cannot connect, or fetches nothing, or
\* fails, changes nothing and is a stuttering step.)
FakeIdleTick(t) ==
    /\ pc[t] = "fakePoll"
    /\ IdleReturn(t, DefaultInfo)
    /\ UNCHANGED <<WaitVars, intr>>

\* fake_idle(Some) or fake_idle(None) receives an interrupt and returns it.
FakeIdleInterrupt(t) ==
    /\ pc[t] \in {"fakePoll", "fakeNone"}
    /\ intr[t] # <<>>
    /\ Receive(t)
    /\ IdleReturn(t, Head(intr[t]))
    /\ UNCHANGED WaitVars

-----------------------------------------------------------------------------
(* inbox_loop                                                              *)

LoadVars == <<conf, ctl, spawned, startCh, stopCh, shutCh, intr, jobs, adder>>

\* Mutant: the burst counter is not checked.
InboxLoadJobUncapped ==
    /\ pc["inbox"] = "load"
    /\ Loadable("imap", info["inbox"])
    /\ jobsLoaded' = jobsLoaded + 1
    /\ NoteLoad("inbox")
    /\ Goto("inbox", "perform")
    /\ UNCHANGED <<LoadVars, info>>

\* load_next found a job and at most InboxJobBurst ran since the counter
\* was last reset.
InboxLoadJob ==
    /\ pc["inbox"] = "load"
    /\ Loadable("imap", info["inbox"])
    /\ jobsLoaded <= InboxJobBurst
    /\ jobsLoaded' = jobsLoaded + 1
    /\ NoteLoad("inbox")
    /\ Goto("inbox", "perform")
    /\ UNCHANGED <<LoadVars, info>>

\* load_next found a job but the burst is used up: reset the counter and,
\* when InboxWatch is on, fetch(): without a configured inbox folder that
\* is fake_idle(None), which waits for an interrupt; otherwise connect and
\* fetch, and loop straight back to load_next with `info` unchanged.
InboxPostponeJob ==
    /\ pc["inbox"] = "load"
    /\ Loadable("imap", info["inbox"])
    /\ jobsLoaded > InboxJobBurst
    /\ jobsLoaded' = 0
    /\ NoteLoad("inbox")
    /\ Goto("inbox", IF conf.inbox_watch /\ ~conf.folder["inbox"]
                     THEN "fetchWait" ELSE "load")
    /\ UNCHANGED <<LoadVars, info>>

\* No job: reset the counter, close the folder, run the time-based
\* warnings, then fetch_idle(ConfiguredInboxFolder), or fake_idle(None)
\* when InboxWatch is off.  The loop's `info` is overwritten by what the
\* wait returns.
InboxLoadNone ==
    /\ pc["inbox"] = "load"
    /\ ~Loadable("imap", info["inbox"])
    /\ jobsLoaded' = 0
    /\ NoteLoad("inbox")
    /\ info' = [info EXCEPT !["inbox"] = DefaultInfo]
    /\ IF conf.inbox_watch
       THEN \E o \in FetchIdleOutcomes("inbox") :
               Goto("inbox", IF o = "idleSkip" THEN "load" ELSE o)
       ELSE Goto("inbox", "fakeNone")
    /\ UNCHANGED LoadVars

\* fetch()'s fake_idle(None) returns on an interrupt, whose info is dropped.
FetchWaitInterrupt ==
    /\ pc["inbox"] = "fetchWait"
    /\ intr["inbox"] # <<>>
    /\ Receive("inbox")
    /\ Goto("inbox", "load")
    /\ UNCHANGED <<WaitVars, info>>

\* perform_job completes, then `info = Default::default()`.
PerformJobStep(t) ==
    /\ pc[t] = "perform"
    /\ PerformJob(ThreadOf(t))
    /\ info' = [info EXCEPT ![t] = DefaultInfo]
    /\ Goto(t, "load")
    /\ UNCHANGED <<conf, ctl, spawned, startCh, stopCh, shutCh, intr,
                   jobsLoaded, adder, unseen, probeOwed>>

-----------------------------------------------------------------------------
(* smtp_loop                                                               *)

SmtpLoadJob ==
    /\ pc["smtp"] = "load"
    /\ Loadable("smtp", info["smtp"])
    /\ NoteLoad("smtp")
    /\ Goto("smtp", "perform")
    /\ UNCHANGED <<LoadVars, info, jobsLoaded>>

SmtpLoadNone ==
    /\ pc["smtp"] = "load"
    /\ ~Loadable("smtp", info["smtp"])
    /\ NoteLoad("smtp")
    /\ Goto("smtp", "smtpIdle")
    /\ UNCHANGED <<LoadVars, info, jobsLoaded>>

\* interrupt_info = idle_interrupt_receiver.recv().await.unwrap_or_default()
SmtpIdle ==
    /\ pc["smtp"] = "smtpIdle"
    /\ intr["smtp"] # <<>>
    /\ info' = [info EXCEPT !["smtp"] = Head(intr["smtp"])]
    /\ Receive("smtp")
    /\ Goto("smtp", "load")
    /\ UNCHANGED WaitVars

-----------------------------------------------------------------------------
(* Callers outside the scheduler                                           *)

\* job::add saves a job row, then interrupts the thread's loop.
AddJob(th) ==
    /\ adder = "idle"
    /\ JobCount < MaxJobs
    /\ jobs' = [jobs EXCEPT ![th].due = @ + 1]
    /\ unseen' = [unseen EXCEPT ![th] = TRUE]
    /\ adder' = th
    /\ UNCHANGED <<conf, ctl, pc, spawned, startCh, stopCh, shutCh, intr, info,
                   jobsLoaded, probeOwed>>

\* Context::interrupt_inbox / interrupt_smtp: waits for the scheduler read
\* lock (held for writing during start and stop), does nothing unless
\* Running.
AddJobInterrupt ==
    /\ adder \in Threads
    /\ ctl \notin {"Starting", "Stopping"}
    /\ intr' = IF ctl \in {"Running", "PreStopping"}
               THEN [intr EXCEPT ![JobLoop[adder]] = Interrupt(JobLoop[adder], DefaultInfo)]
               ELSE intr
    /\ adder' = "idle"
    /\ UNCHANGED <<conf, ctl, pc, spawned, startCh, stopCh, shutCh, info,
                   jobsLoaded, jobs, unseen, probeOwed>>

\* Context::maybe_network: interrupt all four loops with probe_network set.
MaybeNetwork ==
    /\ ctl \in {"Running", "PreStopping"}
    /\ intr' = [t \in Tasks |-> Interrupt(t, ProbeInfo)]
    /\ probeOwed' = [th \in Threads |-> ObserveProbe]
    /\ UNCHANGED <<conf, ctl, pc, spawned, startCh, stopCh, shutCh, info,
                   jobsLoaded, jobs, adder, unseen>>

\* A backed-off job's retry time passes; nobody is interrupted.
BackoffExpires(th) ==
    /\ jobs[th].backoff > 0
    /\ jobs' = [jobs EXCEPT ![th] = [due |-> @.due + 1, backoff |-> @.backoff - 1]]
    /\ UNCHANGED <<conf, ctl, pc, spawned, startCh, stopCh, shutCh, intr, info,
                   jobsLoaded, adder, unseen, probeOwed>>

-----------------------------------------------------------------------------

Init ==
    /\ conf \in Configs
    /\ ctl = "Stopped"
    /\ pc = [t \in Tasks |-> "absent"]
    /\ spawned = [t \in Tasks |-> FALSE]
    /\ startCh = [t \in Tasks |-> FALSE]
    /\ stopCh = [t \in Tasks |-> FALSE]
    /\ shutCh = [t \in Tasks |-> FALSE]
    /\ intr = [t \in Tasks |-> <<>>]
    /\ info = [t \in JobLoops |-> DefaultInfo]
    /\ jobsLoaded = 0
    /\ jobs = [th \in Threads |-> [due |-> 0, backoff |-> 0]]
    /\ adder = "idle"
    /\ unseen = [th \in Threads |-> FALSE]
    /\ probeOwed = [th \in Threads |-> FALSE]

\* The steps of one loop.
TaskStep(t) ==
    \/ Started(t)
    \/ Shutdown(t)
    \/ /\ t = "inbox"
       /\ \/ InboxLoadJob \/ InboxPostponeJob \/ InboxLoadNone \/ FetchWaitInterrupt
    \/ /\ t = "smtp"
       /\ SmtpLoadJob \/ SmtpLoadNone \/ SmtpIdle
    \/ PerformJobStep(t)
    \/ /\ t \in ImapTasks
       /\ \/ IdleServerEvent(t) \/ IdleInterrupt(t)
          \/ FakeIdleTick(t) \/ FakeIdleInterrupt(t)

Next ==
    \/ StartIo \/ StartDone \/ PreStop \/ PreStopDone \/ StopDone
    \/ \E t \in Tasks : TaskStep(t)
    \/ \E th \in Threads : AddJob(th) \/ BackoffExpires(th)
    \/ AddJobInterrupt
    \/ MaybeNetwork

(***************************************************************************)
(* Fairness.  Every loop is a task on the executor that runs whenever it   *)
(* is not waiting: its own steps (start ack, load_next, perform_job) are   *)
(* weakly fair, and so is taking a buffered interrupt or stop in any of    *)
(* its waits (each wait races the channel receive).  Once start_io,        *)
(* stop_io or job::add has been called it runs to its end.  Nothing is     *)
(* assumed of the server, the network or the fake-IDLE tick, nor of when   *)
(* the user calls start_io / stop_io, adds jobs or reports the network.    *)
(***************************************************************************)
LocalStep(t) ==
    \/ Started(t)
    \/ PerformJobStep(t)
    \/ t = "inbox" /\ (InboxLoadJob \/ InboxPostponeJob \/ InboxLoadNone)
    \/ t = "smtp" /\ (SmtpLoadJob \/ SmtpLoadNone)

Fairness ==
    /\ \A t \in Tasks : WF_vars(LocalStep(t)) /\ WF_vars(Shutdown(t))
    /\ \A t \in ImapTasks : WF_vars(IdleInterrupt(t)) /\ WF_vars(FakeIdleInterrupt(t))
    /\ WF_vars(FetchWaitInterrupt) /\ WF_vars(SmtpIdle)
    /\ WF_vars(StartDone) /\ WF_vars(PreStopDone) /\ WF_vars(StopDone)
    /\ WF_vars(AddJobInterrupt)

Spec == Init /\ [][Next]_vars /\ Fairness

-----------------------------------------------------------------------------
(* Properties                                                              *)

TypeOK ==
    /\ conf \in ConfigRec
    /\ ctl \in Ctl
    /\ pc \in [Tasks -> PCs]
    /\ spawned \in [Tasks -> BOOLEAN]
    /\ startCh \in [Tasks -> BOOLEAN]
    /\ stopCh \in [Tasks -> BOOLEAN]
    /\ shutCh \in [Tasks -> BOOLEAN]
    /\ \A t \in Tasks : intr[t] \in Seq(InterruptInfo) /\ Len(intr[t]) <= ChanCap
    /\ info \in [JobLoops -> InterruptInfo]
    /\ jobsLoaded \in 0..(InboxJobBurst + 1)
    /\ jobs \in [Threads -> [due: 0..MaxJobs, backoff: 0..MaxJobs]] /\ JobCount <= MaxJobs
    /\ adder \in Threads \cup {"idle"}
    /\ unseen \in [Threads -> BOOLEAN]
    /\ probeOwed \in [Threads -> BOOLEAN]

\* A job added while the scheduler runs is seen by its loop's next
\* load_next: the interrupt sent by job::add after saving the row is not
\* lost, wherever the loop is (loading, performing, connecting, idling)
\* when it arrives, unless the scheduler is stopped.
NoLostWakeup ==
    \A th \in Threads :
        (unseen[th] /\ ctl = "Running") ~> (~unseen[th] \/ ctl # "Running")

\* Once stop_io is called, pre_stop and stop return: every loop observes
\* its stop channel and acks, and loops that were never spawned do not
\* block the handshake.
StopTerminates ==
    ctl \in {"PreStopping", "Stopping"} ~> ctl = "Stopped"

\* A loop is parked in one of its waits for an interrupt.
Waiting(t) == pc[t] \in {"fetchWait", "idleWait", "fakePoll", "fakeNone", "smtpIdle"}

\* A probe_network interrupt is buffered for the loop.
ProbeInFlight(t) == \E k \in 1..Len(intr[t]) : intr[t][k].probe_network

\* (spec 4.3) maybe_network's probe_network=true "is propagated
\* unconditionally": a job loop never goes back to waiting while the probe
\* has neither reached a load_next call nor is still buffered for it, be it
\* dropped by try_send coalescing behind a default interrupt of job::add,
\* or replaced by the default when IDLE's done() times out.
ProbeNotDropped ==
    \A th \in Threads :
        probeOwed[th] /\ Waiting(JobLoop[th]) => ProbeInFlight(JobLoop[th])

=============================================================================
