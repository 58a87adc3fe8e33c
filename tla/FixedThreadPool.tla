-------------------------- MODULE FixedThreadPool ---------------------------
(***************************************************************************)
(* thread_pool/thread_pool.h: detached workers share one queue of tasks    *)
(* under a mutex and sleep on a condition variable.  The workers keep the  *)
(* shared data alive by their own shared_ptr; a fixed_thread_pool object   *)
(* has data_, which is null when it was default-constructed or moved from. *)
(*                                                                         *)
(* What a thread does while it holds mtx_ is one action.  notify_one and   *)
(* notify_all come after the unlock and are actions of their own.          *)
(***************************************************************************)
EXTENDS Integers, Sequences, FiniteSets

CONSTANTS Client,    \* threads that call execute on the pool
          Worker,    \* the threads of the pool
          Task,      \* one per execute whose task has not finished (a bound)
          Object,    \* fixed_thread_pool objects
          First,     \* the object constructed with a thread count
          None       \* no task

VARIABLES tasks,       \* tasks_
          is_shutdown,
          worker,      \* where each worker is
          current,     \* current[w]: the task that w executes
          notifying,   \* the callers between unlock and notify_one
          object,      \* the life of each fixed_thread_pool object
          undefined    \* a null data_ was dereferenced

vars == <<tasks, is_shutdown, worker, current, notifying, object, undefined>>

ASSUME WorkersAssumption == IsFiniteSet(Worker) /\ Worker # {}
ASSUME ClientsAssumption == IsFiniteSet(Client) /\ Client \cap Worker = {}
ASSUME NamesAssumption == First \in Object /\ None \notin Task

(* A task may itself call execute.                                         *)
Caller == Client \cup Worker

TypeOK ==
  /\ tasks \in Seq(Task)
  /\ is_shutdown \in BOOLEAN
  /\ worker \in [Worker -> {"ready", "waiting", "executing", "exited"}]
  /\ current \in [Worker -> Task \cup {None}]
  /\ notifying \subseteq Caller
  /\ object \in [Object -> {"unborn", "holds", "null", "closing", "gone"}]
  /\ undefined \in BOOLEAN

At(s) == {w \in Worker : worker[w] = s}
Queued == {tasks[i] : i \in 1 .. Len(tasks)}
Executing == {current[w] : w \in At("executing")}

(* fixed_thread_pool(thread_count): every worker starts by taking mtx_.    *)
Init ==
  /\ tasks = <<>>
  /\ is_shutdown = FALSE
  /\ worker = [w \in Worker |-> "ready"]
  /\ current = [w \in Worker |-> None]
  /\ notifying = {}
  /\ object = [o \in Object |-> IF o = First THEN "holds" ELSE "unborn"]
  /\ undefined = FALSE

-----------------------------------------------------------------------------
(* The worker's loop.  With mtx_ held: move the front task out and unlock, *)
(* or break out of the loop, or wait.                                      *)

(* Mutant: the task given last.                                            *)
TakeTaskLast(w) ==
  /\ tasks # <<>>
  /\ current' = [current EXCEPT ![w] = tasks[Len(tasks)]]
  /\ tasks' = SubSeq(tasks, 1, Len(tasks) - 1)
  /\ worker' = [worker EXCEPT ![w] = "executing"]

TakeTask(w) ==
  /\ tasks # <<>>
  /\ current' = [current EXCEPT ![w] = Head(tasks)]
  /\ tasks' = Tail(tasks)
  /\ worker' = [worker EXCEPT ![w] = "executing"]

(* Mutant: is_shutdown is looked at before the queue.                      *)
BreakFirst(w) ==
  /\ is_shutdown
  /\ worker' = [worker EXCEPT ![w] = "exited"]
  /\ UNCHANGED <<tasks, current>>

Break(w) ==
  /\ tasks = <<>> /\ is_shutdown
  /\ worker' = [worker EXCEPT ![w] = "exited"]
  /\ UNCHANGED <<tasks, current>>

(* Mutant: is_shutdown is not looked at before the wait.                   *)
SleepAnyway(w) ==
  /\ tasks = <<>>
  /\ worker' = [worker EXCEPT ![w] = "waiting"]
  /\ UNCHANGED <<tasks, current>>

Sleep(w) ==
  /\ tasks = <<>> /\ ~is_shutdown
  /\ worker' = [worker EXCEPT ![w] = "waiting"]
  /\ UNCHANGED <<tasks, current>>

Look(w) ==
  /\ ~undefined
  /\ worker[w] = "ready"
  /\ TakeTask(w) \/ Break(w) \/ Sleep(w)
  /\ UNCHANGED <<is_shutdown, notifying, object, undefined>>

(* current() returns; next the worker takes mtx_ again.                    *)
FinishTask(w) ==
  /\ ~undefined
  /\ worker[w] = "executing" /\ w \notin notifying
  /\ worker' = [worker EXCEPT ![w] = "ready"]
  /\ current' = [current EXCEPT ![w] = None]
  /\ UNCHANGED <<tasks, is_shutdown, notifying, object, undefined>>

SpuriousWakeup(w) ==
  /\ ~undefined
  /\ worker[w] = "waiting"
  /\ worker' = [worker EXCEPT ![w] = "ready"]
  /\ UNCHANGED <<tasks, is_shutdown, current, notifying, object, undefined>>

-----------------------------------------------------------------------------
(* execute: emplace under the lock, then notify_one.                       *)
Execute(c, t) ==
  /\ ~undefined
  /\ \E o \in Object : object[o] = "holds"
  /\ c \notin notifying /\ (c \in Worker => worker[c] = "executing")
  /\ t \notin Queued \cup Executing
  /\ tasks' = Append(tasks, t)
  /\ notifying' = notifying \cup {c}
  /\ UNCHANGED <<is_shutdown, worker, current, object, undefined>>

(* Mutant: execute does not notify.                                        *)
NotifyNobody(c) ==
  /\ ~undefined
  /\ c \in notifying
  /\ notifying' = notifying \ {c}
  /\ UNCHANGED <<tasks, is_shutdown, worker, current, object, undefined>>

NotifyOne(c) ==
  /\ ~undefined
  /\ c \in notifying
  /\ notifying' = notifying \ {c}
  /\ \/ At("waiting") = {} /\ UNCHANGED worker
     \/ \E w \in At("waiting") : worker' = [worker EXCEPT ![w] = "ready"]
  /\ UNCHANGED <<tasks, is_shutdown, current, object, undefined>>

-----------------------------------------------------------------------------
(* The objects.  One thread constructs, moves and destroys them, while no  *)
(* execute is under way.                                                   *)
DefaultConstruct(o) ==
  /\ ~undefined
  /\ object[o] = "unborn"
  /\ object' = [object EXCEPT ![o] = "null"]
  /\ UNCHANGED <<tasks, is_shutdown, worker, current, notifying, undefined>>

MoveConstruct(o, from) ==
  /\ ~undefined
  /\ object[o] = "unborn" /\ object[from] \in {"holds", "null"}
  /\ notifying = {}
  /\ object' = [object EXCEPT ![o] = object[from], ![from] = "null"]
  /\ UNCHANGED <<tasks, is_shutdown, worker, current, notifying, undefined>>

(* The destructor: is_shutdown under the lock when data_ is not null, then *)
(* data_->cond_.notify_all() in either case.                               *)
Destroy(o) ==
  /\ ~undefined
  /\ object[o] = "holds" /\ notifying = {}
  /\ is_shutdown' = TRUE
  /\ object' = [object EXCEPT ![o] = "closing"]
  /\ UNCHANGED <<tasks, worker, current, notifying, undefined>>

NotifyAll(o) ==
  /\ ~undefined
  /\ object[o] = "closing"
  /\ worker' = [w \in Worker |-> IF worker[w] = "waiting" THEN "ready" ELSE worker[w]]
  /\ object' = [object EXCEPT ![o] = "gone"]
  /\ UNCHANGED <<tasks, is_shutdown, current, notifying, undefined>>

DestroyNull(o) ==
  /\ ~undefined
  /\ object[o] = "null"
  /\ object' = [object EXCEPT ![o] = "gone"]
  /\ undefined' = TRUE
  /\ UNCHANGED <<tasks, is_shutdown, worker, current, notifying>>

-----------------------------------------------------------------------------
Next ==
  \/ \E w \in Worker : Look(w) \/ FinishTask(w) \/ SpuriousWakeup(w)
  \/ \E c \in Caller : NotifyOne(c) \/ \E t \in Task : Execute(c, t)
  \/ \E o \in Object : \/ DefaultConstruct(o) \/ Destroy(o)
                       \/ NotifyAll(o) \/ DestroyNull(o)
                       \/ \E from \in Object : MoveConstruct(o, from)

Spec == Init /\ [][Next]_vars

(* Every thread that can run goes on, and every task returns after         *)
(* finitely many calls of execute.                                         *)
FairSpec ==
  /\ Spec
  /\ \A w \in Worker : WF_vars(Look(w)) /\ SF_vars(FinishTask(w))
  /\ \A c \in Caller : WF_vars(NotifyOne(c))
  /\ \A o \in Object : WF_vars(NotifyAll(o))

-----------------------------------------------------------------------------
(* While some worker sleeps, every queued task has a worker on its way to  *)
(* the mutex or a notify_one still to come: no task waits for a busy       *)
(* worker when an idle one could take it.                                  *)
WorkConserving ==
  At("waiting") # {} =>
    Len(tasks) <= Cardinality(At("ready")) + Cardinality(notifying)

(* A worker leaves its loop only when the pool was destroyed and the queue *)
(* is empty, and then for good: no task is added behind its back.          *)
DrainedAtExit ==
  At("exited") # {} => is_shutdown /\ tasks = <<>>

(* Once the destructor has returned no worker sleeps on cond_, which       *)
(* nobody will notify again.                                               *)
NobodySleepsForever ==
  is_shutdown /\ (\A o \in Object : object[o] # "closing") => At("waiting") = {}

(* An object whose data_ is null, which the constructors at lines 44 and   *)
(* 46 make and the test at line 50 expects, can be destroyed.              *)
NullObjectsDestroyed == ~undefined

(* The pool does what an executor promises: tasks start in the order of    *)
(* the execute calls, each one once, and none is taken after destruction.  *)
Exec == INSTANCE Executor WITH
          pending <- tasks, running <- Executing, closed <- is_shutdown

ImplementsExecutor == Exec!ExecSpec

(* After the destructor every worker thread ends (with DrainedAtExit: when *)
(* all tasks have been run), unless a null object has ended the process.   *)
WorkersEnd == is_shutdown ~> At("exited") = Worker \/ undefined
=============================================================================
