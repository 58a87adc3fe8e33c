--------------------------- MODULE EventLoopThread ---------------------------
(***************************************************************************)
(* thread_pool_start: the main thread creates the pool's threads one after *)
(* the other and waits, on the condition variable of each, until that      *)
(* thread has built its event loop.  Only then does it listen and hand     *)
(* connections to the loops it reads from the threads' records.            *)
(***************************************************************************)
EXTENDS Integers

CONSTANT N   \* thread_pool->thread_number

ASSUME ThreadsAssumption == N \in Nat

Threads == 1 .. N
Main == 0        \* as a holder of a mutex
Nobody == -1

VARIABLES pc,         \* what thread i does, from pthread_create to its loop
          main,       \* what the main thread does
          current,    \* the thread being started: i + 1 of the for loop
          mutex,      \* holder of eventLoopThread->mutex
          waiting,    \* main is in the wait set of the condition variable
          eventLoop,  \* whether eventLoopThread->eventLoop is still NULL
          position    \* thread_pool->position

vars == <<pc, main, current, mutex, waiting, eventLoop, position>>

TypeOK ==
  /\ pc \in [Threads -> {"none", "lock", "init", "signal", "unlock", "run"}]
  /\ main \in {"create", "lock", "check", "sleep", "wait", "unlock", "serve"}
  /\ current \in 1 .. N + 1
  /\ mutex \in [Threads -> Threads \cup {Main, Nobody}]
  /\ waiting \in BOOLEAN
  /\ eventLoop \in [Threads -> {"NULL", "loop"}]
  /\ position \in Nat /\ (position = 0 \/ position < N)

Init ==
  /\ pc = [i \in Threads |-> "none"]
  /\ main = IF N = 0 THEN "serve" ELSE "create"
  /\ current = 1
  /\ mutex = [i \in Threads |-> Nobody]
  /\ waiting = FALSE
  /\ eventLoop = [i \in Threads |-> "NULL"]
  /\ position = 0

-----------------------------------------------------------------------------
(* event_loop_thread_start, by the main thread.                            *)

PthreadCreate ==
  /\ main = "create"
  /\ pc' = [pc EXCEPT ![current] = "lock"]
  /\ main' = "lock"
  /\ UNCHANGED <<current, mutex, waiting, eventLoop, position>>

MainLock ==
  /\ main = "lock"
  /\ mutex[current] = Nobody
  /\ mutex' = [mutex EXCEPT ![current] = Main]
  /\ main' = "check"
  /\ UNCHANGED <<pc, current, waiting, eventLoop, position>>

(* while (eventLoop == NULL): what is read here is acted on only later.    *)
Check ==
  /\ main = "check"
  /\ main' = IF eventLoop[current] = "NULL" THEN "sleep" ELSE "unlock"
  /\ UNCHANGED <<pc, current, mutex, waiting, eventLoop, position>>

(* pthread_cond_wait releases the mutex and waits, in one step.            *)
CondWait ==
  /\ main = "sleep"
  /\ mutex' = [mutex EXCEPT ![current] = Nobody]
  /\ waiting' = TRUE
  /\ main' = "wait"
  /\ UNCHANGED <<pc, current, eventLoop, position>>

(* A wakeup nobody signalled, which POSIX allows.                          *)
SpuriousWakeup ==
  /\ waiting
  /\ waiting' = FALSE
  /\ UNCHANGED <<pc, main, current, mutex, eventLoop, position>>

(* Mutant: the loop around pthread_cond_wait is an if.                     *)
CondReturnOnce ==
  /\ main = "wait" /\ ~waiting
  /\ mutex[current] = Nobody
  /\ mutex' = [mutex EXCEPT ![current] = Main]
  /\ main' = "unlock"
  /\ UNCHANGED <<pc, current, waiting, eventLoop, position>>

(* pthread_cond_wait returns with the mutex held again.                    *)
CondReturn ==
  /\ main = "wait" /\ ~waiting
  /\ mutex[current] = Nobody
  /\ mutex' = [mutex EXCEPT ![current] = Main]
  /\ main' = "check"
  /\ UNCHANGED <<pc, current, waiting, eventLoop, position>>

MainUnlock ==
  /\ main = "unlock"
  /\ mutex' = [mutex EXCEPT ![current] = Nobody]
  /\ current' = current + 1
  /\ main' = IF current < N THEN "create" ELSE "serve"
  /\ UNCHANGED <<pc, waiting, eventLoop, position>>

(* thread_pool_get_loop, then a request on the loop it found.              *)
GetLoop ==
  /\ main = "serve" /\ N > 0
  /\ position' = IF position + 1 >= N THEN 0 ELSE position + 1
  /\ UNCHANGED <<pc, main, current, mutex, waiting, eventLoop>>

MainStep ==
  PthreadCreate \/ MainLock \/ Check \/ CondWait \/ CondReturn \/ MainUnlock \/ GetLoop

-----------------------------------------------------------------------------
(* event_loop_thread_run, by thread i.                                     *)

(* Mutant: the new thread does not take its mutex.                         *)
ThreadNoLock(i) ==
  /\ pc[i] = "lock"
  /\ pc' = [pc EXCEPT ![i] = "init"]
  /\ UNCHANGED <<main, current, mutex, waiting, eventLoop, position>>

ThreadLock(i) ==
  /\ pc[i] = "lock"
  /\ mutex[i] = Nobody
  /\ mutex' = [mutex EXCEPT ![i] = i]
  /\ pc' = [pc EXCEPT ![i] = "init"]
  /\ UNCHANGED <<main, current, waiting, eventLoop, position>>

EventLoopInit(i) ==
  /\ pc[i] = "init"
  /\ eventLoop' = [eventLoop EXCEPT ![i] = "loop"]
  /\ pc' = [pc EXCEPT ![i] = "signal"]
  /\ UNCHANGED <<main, current, mutex, waiting, position>>

(* Thread i's condition variable: main waits on it only while it starts i. *)
CondSignal(i) ==
  /\ pc[i] = "signal"
  /\ waiting' = (waiting /\ current # i)
  /\ pc' = [pc EXCEPT ![i] = "unlock"]
  /\ UNCHANGED <<main, current, mutex, eventLoop, position>>

ThreadUnlock(i) ==
  /\ pc[i] = "unlock"
  /\ mutex' = [mutex EXCEPT ![i] = Nobody]
  /\ pc' = [pc EXCEPT ![i] = "run"]
  /\ UNCHANGED <<main, current, waiting, eventLoop, position>>

ThreadStep(i) == ThreadLock(i) \/ EventLoopInit(i) \/ CondSignal(i) \/ ThreadUnlock(i)

Next == MainStep \/ SpuriousWakeup \/ \E i \in Threads : ThreadStep(i)

(* Every thread runs; nothing forces a spurious wakeup.  A thread that     *)
(* waits for its mutex gets it even if main keeps waking up spuriously and *)
(* takes it for a moment each time.                                        *)
Fairness ==
  /\ WF_vars(MainStep)
  /\ \A i \in Threads : WF_vars(ThreadStep(i)) /\ SF_vars(ThreadLock(i))

Spec == Init /\ [][Next]_vars
FairSpec == Spec /\ Fairness
-----------------------------------------------------------------------------
(* Properties *)

(* thread_pool_get_loop, which takes no lock, finds a loop in the record   *)
(* at its position: starting a thread waits until its loop exists.         *)
StartedLoopsExist ==
  /\ \A i \in Threads : i < current => eventLoop[i] = "loop"
  /\ main = "serve" /\ N > 0 => eventLoop[position + 1] = "loop"

(* While main sleeps on thread i, thread i still has its signal to send.   *)
SignalNotLost == waiting => pc[current] \in {"lock", "init", "signal"}

(* The pool comes up, and every thread reaches its event loop.             *)
PoolStarts == <>(main = "serve" /\ \A i \in Threads : pc[i] = "run")
==============================================================================
