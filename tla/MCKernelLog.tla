----------------------------- MODULE MCKernelLog -----------------------------
(* Small instances of KernelLog: actions with short and long payloads. *)
EXTENDS KernelLog

Lengths == [a |-> 1, b |-> 2]

\* Many killed writers under one poll; a snapshot restored over a log that moved on.
Bounds == {[requests |-> 3, commands |-> 0, faults |-> 2],
           [requests |-> 2, commands |-> 2, faults |-> 1]}
=============================================================================
