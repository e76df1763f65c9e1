---------------------------- MODULE MCObserver ------------------------------
EXTENDS Observer

\* Two commitments; action 1 of the log sends both of them to 0.  The root "zero"
\* commits no action at all.
MCLogStep == [i \in LogIndex |-> [c \in StateCommit |-> IF i = 1 THEN 0 ELSE 1 - c]]

MCStep ==
    [a \in ActionsRoot |-> [i \in LogIndex |-> [c \in StateCommit |->
        IF a = "zero" THEN NoStep ELSE MCLogStep[i][c]]]]

MCReplay[i \in LogIndex] ==
    IF i = 0 THEN 0 ELSE MCLogStep[i - 1][MCReplay[i - 1]]

\* The whole log is in dispute.
MCDisputes ==
    {<<[idx |-> 0, commit |-> 0], [idx |-> LastIndex, commit |-> c], root>> :
        c \in StateCommit, root \in ActionsRoot}

\* A crash with a failed status write after it, a failed broadcast, or a failed
\* read (which a move deferred counts as).
Plan(kinds) == [k \in FaultKind |-> IF k \in kinds THEN 1 ELSE 0]
MCFaultPlans == {Plan({"crash", "record"}), Plan({"send"}), Plan({"read"})}

\* A crash, and a failed broadcast after it.
MCCrashThenSend == {Plan({"crash", "send"})}
=============================================================================
