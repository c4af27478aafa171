--------------------------- MODULE EphemeralExpiry ---------------------------
(***************************************************************************)
(* What the ephemeral engine promises about messages, with no wake task,   *)
(* callers or SQL errors in sight (spec.md 4.4):                           *)
(*   - a message is armed only once it is seen and only if its timer is    *)
(*     enabled, at no later than now + duration, and its expiry never      *)
(*     moves further out;                                                  *)
(*   - the sweep moves to the trash only messages whose expiry is         *)
(*     strictly in the past or, with delete_device_after set, messages    *)
(*     older than that outside the special, self and device chats;        *)
(*   - a message whose expiry has passed is eventually swept.              *)
(* Each operation is one atomic step here; Ephemeral implements them with  *)
(* several steps of several callers and a wake task.                       *)
(***************************************************************************)
EXTENDS Naturals

CONSTANTS
    Msgs, Durations, MaxTime,
    Sent,              \* message -> its msgs.timestamp
    Kept,              \* messages in a special, the self or the device chat
    DeleteDeviceAfter  \* seconds, 0 = not set

VARIABLES
    clock,     \* seconds
    timerOf,   \* message -> duration, 0 = disabled
    seenMsgs,  \* messages that have been seen
    expiry,    \* message -> expiry second, 0 = not armed
    deleted    \* messages in the trash chat

avars == <<clock, timerOf, seenMsgs, expiry, deleted>>

Due == {m \in Msgs : expiry[m] # 0 /\ expiry[m] < clock}

Old == IF DeleteDeviceAfter = 0 THEN {}
       ELSE {m \in Msgs \ Kept : Sent[m] + DeleteDeviceAfter < clock}

AInit ==
    /\ clock = 0
    /\ timerOf \in [Msgs -> {0} \cup Durations]
    /\ seenMsgs = {}
    /\ expiry = [m \in Msgs |-> 0]
    /\ deleted = {}

See(m) ==
    /\ m \notin seenMsgs
    /\ seenMsgs' = seenMsgs \cup {m}
    /\ UNCHANGED <<clock, timerOf, expiry, deleted>>

\* Arm the messages of S: each gets now + duration unless it already
\* expires no later than that.
Arm(S) ==
    /\ S # {}
    /\ \A m \in S : m \in seenMsgs /\ timerOf[m] # 0
    /\ expiry' = [m \in Msgs |->
                    IF m \in S /\ (expiry[m] = 0 \/ expiry[m] > clock + timerOf[m])
                    THEN clock + timerOf[m] ELSE expiry[m]]
    /\ UNCHANGED <<clock, timerOf, seenMsgs, deleted>>

\* Some of the due and old messages go to the trash, and nothing else.
Sweep ==
    /\ deleted' \in {D \in SUBSET (deleted \cup Due \cup Old) : deleted \subseteq D}
    /\ UNCHANGED <<clock, timerOf, seenMsgs, expiry>>

\* A sweep, while a due message is out of the trash, that trashes every
\* due message.
SweepExpired == Due \ deleted # {} /\ Sweep /\ Due \subseteq deleted'

Tick ==
    /\ clock < MaxTime
    /\ clock' = clock + 1
    /\ UNCHANGED <<timerOf, seenMsgs, expiry, deleted>>

ANext ==
    \/ \E m \in Msgs : See(m)
    \/ \E S \in SUBSET Msgs : Arm(S)
    \/ Sweep
    \/ Tick

\* Only the safety part: what every step may do.
ASafety == AInit /\ [][ANext]_avars

\* The promise that expired messages do not stay out of the trash.
ASpec == ASafety /\ WF_avars(SweepExpired)

====
