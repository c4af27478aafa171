----------------------------- MODULE MC_Accounts ------------------------------
(* Instances of Accounts for TLC.                                          *)
EXTENDS Accounts

CONSTANTS c1, c2

MCOneCaller == {c1}
MCTwoCallers == {c1, c2}

\* Operations the callers of each instance invoke.
MCOpsAll == OpNames
MCOpsNoMigrate == OpNames \ {"migrate"}
MCOpsMigrate == {"migrate"}
====
