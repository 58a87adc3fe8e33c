------------------------------ MODULE Executor ------------------------------
(***************************************************************************)
(* What a thread pool promises to the code that gives it tasks: tasks are  *)
(* started in the order of the calls, each one once, as many at a time as  *)
(* there are threads, and none is taken after the pool was closed.  No     *)
(* thread, lock or condition variable exists here; FixedThreadPool.tla has *)
(* them and implements this.                                               *)
(***************************************************************************)
EXTENDS Sequences

CONSTANTS Task

VARIABLES pending,   \* given and not started, in the order of the calls
          running,   \* started and not finished
          closed     \* no task is taken any more

execVars == <<pending, running, closed>>

ExecInit == pending = <<>> /\ running = {} /\ closed = FALSE

Submit(t) ==
  /\ ~closed
  /\ pending' = Append(pending, t)
  /\ UNCHANGED <<running, closed>>

Start ==
  /\ pending # <<>>
  /\ Head(pending) \notin running
  /\ running' = running \cup {Head(pending)}
  /\ pending' = Tail(pending)
  /\ UNCHANGED closed

Finish(t) ==
  /\ t \in running
  /\ running' = running \ {t}
  /\ UNCHANGED <<pending, closed>>

Close ==
  /\ closed' = TRUE
  /\ UNCHANGED <<pending, running>>

ExecNext == Start \/ Close \/ \E t \in Task : Submit(t) \/ Finish(t)

ExecSpec == ExecInit /\ [][ExecNext]_execVars
=============================================================================
