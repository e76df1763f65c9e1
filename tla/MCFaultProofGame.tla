-------------------------- MODULE MCFaultProofGame --------------------------
EXTENDS FaultProofGame

\* Two commitments; every action of the log "a" maps each of them to "s".
MCStep ==
    [a \in AnyActions |-> [i \in LogIndex |-> [c \in AnyCommit |->
        IF a = "zero" THEN NoStep ELSE "s"]]]
=============================================================================
