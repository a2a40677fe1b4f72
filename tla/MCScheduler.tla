---------------------------- MODULE MCScheduler ----------------------------
(* Instances of Scheduler for TLC. *)
EXTENDS Scheduler

CONSTANTS w1, w2, c1, c2, k1, k2

TwoWorkers == {w1, w2}
TwoTasks == {k1, k2}

\* One client spawns, the other one does everything else.
TwoClients == {c1, c2}
First == {c1}
Second == {c2}
=============================================================================
