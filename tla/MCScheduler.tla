---------------------------- MODULE MCScheduler ----------------------------
(***************************************************************************)
(* Model checking instances of Scheduler.                                  *)
(***************************************************************************)
EXTENDS Scheduler

CONSTANTS A, B, R, Q, t1, t2, t3

MCTwoScheds == {A, B}
MCTwoReactors == {R, Q}
MCNoReactors == {}
MCTwoTasks == {t1, t2}
MCThreeTasks == {t1, t2, t3}
=============================================================================
