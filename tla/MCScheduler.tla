---------------------------- MODULE MCScheduler ----------------------------
(* Small instances of the scheduler for TLC.                               *)
EXTENDS Scheduler

MCFds1 == {1}
MCFds2 == {1, 2}
MCFds3 == {1, 2, 3}
=============================================================================
