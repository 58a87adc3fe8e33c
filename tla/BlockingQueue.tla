---------------------------- MODULE BlockingQueue ----------------------------
(***************************************************************************)
(* BlockingQueue<T>: a queue with one mutex and one condition variable.    *)
(* Push notifies with the mutex held; Get waits in a loop.  Threads of the *)
(* test push, or get, a number of elements one after the other, with a     *)
(* sleep between two.                                                      *)
(***************************************************************************)
EXTENDS Integers, Sequences, FiniteSets

CONSTANTS Producers, Consumers,
          Rounds     \* elements each of them pushes or gets (10 in the code)

Unlocked == "unlocked"
Users == Producers \cup Consumers

ASSUME QueueAssumption ==
  /\ IsFiniteSet(Producers) /\ IsFiniteSet(Consumers) /\ Producers \cap Consumers = {}
  /\ Cardinality(Producers) = Cardinality(Consumers) /\ Rounds \in Nat \ {0}
  /\ Unlocked \notin Users

VARIABLES at,       \* what a thread does: "call", "emplace", "notify", "look",
                    \* "asleep" or "woken" in m_Cv.wait, "take", "unlock", "end", "abort"
          round,    \* the number of its call
          m_Mt,     \* holder of the mutex, or Unlocked
          m_Queue,
          got       \* what Get returned, in the order of the pops

queueVars == <<at, round, m_Mt, m_Queue, got>>

QueueInit ==
  /\ at = [t \in Users |-> "call"]
  /\ round = [t \in Users |-> 1]
  /\ m_Mt = Unlocked /\ m_Queue = <<>> /\ got = <<>>

To(t, where) == at' = [at EXCEPT ![t] = where]

(* The mutex is taken at the start of a call.                              *)
LockQueue(t) ==
  /\ at[t] = "call" /\ m_Mt = Unlocked
  /\ m_Mt' = t
  /\ To(t, IF t \in Producers THEN "emplace" ELSE "look")
  /\ UNCHANGED <<round, m_Queue, got>>

Emplace(t) ==
  /\ at[t] = "emplace"
  /\ m_Queue' = Append(m_Queue, <<t, round[t]>>)
  /\ To(t, "notify")
  /\ UNCHANGED <<round, m_Mt, got>>

Sleepers == {c \in Consumers : at[c] = "asleep"}

(* Mutant: only the first element of the queue is announced.               *)
QueueNotifyFirst(t) ==
  /\ at[t] = "notify"
  /\ IF Sleepers = {} \/ Len(m_Queue) > 1 THEN To(t, "unlock")
     ELSE \E c \in Sleepers : at' = [at EXCEPT ![t] = "unlock", ![c] = "woken"]
  /\ UNCHANGED <<round, m_Mt, m_Queue, got>>

(* notify_one: any one of the threads that wait.                           *)
QueueNotify(t) ==
  /\ at[t] = "notify"
  /\ IF Sleepers = {} THEN To(t, "unlock")
     ELSE \E c \in Sleepers : at' = [at EXCEPT ![t] = "unlock", ![c] = "woken"]
  /\ UNCHANGED <<round, m_Mt, m_Queue, got>>

(* Wait releases the mutex and waits, in one step.                         *)
QueueLook(t) ==
  /\ at[t] = "look"
  /\ IF m_Queue = <<>> THEN To(t, "asleep") /\ m_Mt' = Unlocked
     ELSE To(t, "take") /\ UNCHANGED m_Mt
  /\ UNCHANGED <<round, m_Queue, got>>

(* A wakeup nobody notified, which the standard allows.                    *)
QueueSpurious(t) ==
  /\ at[t] = "asleep" /\ To(t, "woken")
  /\ UNCHANGED <<round, m_Mt, m_Queue, got>>

(* Mutant: an if instead of the loop around m_Cv.wait.                     *)
RelockOnce(t) ==
  /\ at[t] = "woken" /\ m_Mt = Unlocked
  /\ m_Mt' = t /\ To(t, "take")
  /\ UNCHANGED <<round, m_Queue, got>>

(* m_Cv.wait returns with the mutex held, and the loop looks again.        *)
Relock(t) ==
  /\ at[t] = "woken" /\ m_Mt = Unlocked
  /\ m_Mt' = t /\ To(t, "look")
  /\ UNCHANGED <<round, m_Queue, got>>

(* The assertion, front and pop.                                           *)
Pop(t) ==
  /\ at[t] = "take"
  /\ IF m_Queue = <<>> THEN To(t, "abort") /\ UNCHANGED <<m_Queue, got>>
     ELSE /\ got' = Append(got, Head(m_Queue))
          /\ m_Queue' = Tail(m_Queue)
          /\ To(t, "unlock")
  /\ UNCHANGED <<round, m_Mt>>

(* The end of the call; the thread sleeps and calls again, or ends.        *)
UnlockQueue(t) ==
  /\ at[t] = "unlock"
  /\ m_Mt' = Unlocked
  /\ round' = [round EXCEPT ![t] = @ + 1]
  /\ To(t, IF round[t] = Rounds THEN "end" ELSE "call")
  /\ UNCHANGED <<m_Queue, got>>

QueueStep(t) ==
  \/ LockQueue(t) \/ Emplace(t) \/ QueueNotify(t)
  \/ QueueLook(t) \/ Relock(t) \/ Pop(t) \/ UnlockQueue(t)

QueueNext == \E t \in Users : QueueStep(t) \/ QueueSpurious(t)

(* Every thread runs, and gets the mutex although others, woken spuriously *)
(* for ever, take it for a moment each time.                               *)
QueueSpec ==
  /\ QueueInit /\ [][QueueNext]_queueVars
  /\ \A t \in Users : WF_queueVars(QueueStep(t)) /\ SF_queueVars(LockQueue(t) \/ Relock(t))
-----------------------------------------------------------------------------
(* Properties *)

(* How many elements p has pushed so far.                                  *)
PushedBy(p) == IF at[p] \in {"notify", "unlock"} THEN round[p] ELSE round[p] - 1

(* What has left the queue, and behind it what is in it.                   *)
Passed == got \o m_Queue

(* Get never pops an empty queue ("assert(!m_Queue.empty())",              *)
(* t_blocking_queue.h:38), and what has been got and is queued, in this    *)
(* order, is what was pushed: every element of a producer once, and in the *)
(* order it pushed them.                                                   *)
QueueKept ==
  /\ \A c \in Consumers : at[c] # "abort"
  /\ \A n \in DOMAIN Passed :
       \E p \in Producers : \E i \in 1 .. PushedBy(p) : Passed[n] = <<p, i>>
  /\ \A p \in Producers : \A i \in 1 .. PushedBy(p) : \E n \in DOMAIN Passed : Passed[n] = <<p, i>>
  /\ \A n, k \in DOMAIN Passed :
       n < k /\ Passed[n][1] = Passed[k][1] => Passed[n][2] < Passed[k][2]

(* Every call returns: no consumer is left asleep over the elements it     *)
(* was to get.                                                             *)
EveryGetReturns == <>[](\A t \in Users : at[t] = "end")
=============================================================================
