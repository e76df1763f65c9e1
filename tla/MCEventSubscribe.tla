-------------------------- MODULE MCEventSubscribe --------------------------
(***************************************************************************)
(* Instances of EventSubscribe for TLC.                                    *)
(***************************************************************************)
EXTENDS EventSubscribe

CONSTANT c1

OneClient == {c1}

\* Four frames, the first of several events.
Frames2111 == <<2, 1, 1, 1>>

=============================================================================
