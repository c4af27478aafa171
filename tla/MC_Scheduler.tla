---------------------------- MODULE MC_Scheduler ----------------------------
(* Instantiates Scheduler for TLC: the account configurations start() may  *)
(* find, and the bounds.                                                   *)
EXTENDS Scheduler

AllFolders == [t \in ImapTasks |-> TRUE]

\* Default account: every folder watched and configured, server with IDLE.
WatchAll ==
    [inbox_watch |-> TRUE, mvbox_watch |-> TRUE, sentbox_watch |-> TRUE,
     folder |-> AllFolders, can_idle |-> TRUE]

\* Server without IDLE: every IMAP loop polls with fake_idle(Some).
NoIdle == [WatchAll EXCEPT !.can_idle = FALSE]

\* Mvbox not watched (its loop is never spawned), sentbox watched but its
\* folder not configured, inbox folder not configured (fetch() and
\* fetch_idle fall back to fake_idle(None)).
Unconfigured ==
    [WatchAll EXCEPT !.mvbox_watch = FALSE,
                     !.folder = [t \in ImapTasks |-> t = "mvbox"]]

\* InboxWatch off: inbox_loop only runs jobs and waits for interrupts.
InboxOff == [WatchAll EXCEPT !.inbox_watch = FALSE, !.sentbox_watch = FALSE]

\* Only the two job loops run (MvboxWatch and SentboxWatch off).
JobLoopsOnly == [WatchAll EXCEPT !.mvbox_watch = FALSE, !.sentbox_watch = FALSE]

MCConfigsAll == {WatchAll, NoIdle, Unconfigured, InboxOff}
MCConfigsJobLoops == {JobLoopsOnly}
MCConfigsStopHang == {Unconfigured}
=============================================================================
