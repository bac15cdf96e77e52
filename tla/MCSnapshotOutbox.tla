-------------------------- MODULE MCSnapshotOutbox --------------------------
(* Two items, two transactions at a time, one event to a poll.             *)
EXTENDS SnapshotOutbox, TLC

CONSTANTS a1, a2, w1, w2

MCBudgets == {[ids |-> 3, cleanups |-> 1, faults |-> 0], [ids |-> 2, cleanups |-> 1, faults |-> 1]}
=============================================================================
