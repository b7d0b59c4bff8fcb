-------------------------- MODULE MCMonitorService --------------------------
(* Instances of MonitorService for TLC. *)
EXTENDS MonitorService, TLC

CONSTANTS c1, c2

\* Goroutine slots are interchangeable (used by the safety runs only).
SenderSymmetry == Permutations(Senders)

\* A positive and a negative argument: counters may go down.
UpAndDown == {-1, 2}
=============================================================================
