---------------------------- MODULE MC_Ephemeral ----------------------------
(* Instantiates Ephemeral for TLC: two messages, one or two callers.      *)
EXTENDS Ephemeral

CONSTANTS m1, m2, c1, c2

MCMsgs == {m1, m2}
MCOneCaller == {c1}
MCTwoCallers == {c1, c2}
MCDurations == {1, 2}

\* Both messages were sent at second 0; m2 is in the self chat.
MCSent == [m \in MCMsgs |-> 0]
MCKept == {m2}

\* An ordinary chat and the trash chat, a special id.
MCChats == {"group", "trash"}
MCSpecial == {"trash"}
====
