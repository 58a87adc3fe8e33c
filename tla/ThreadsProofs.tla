---------------------------- MODULE ThreadsProofs ----------------------------
(***************************************************************************)
(* Proofs about the two places where threads wait on a condition variable  *)
(* by themselves, for any number of threads and elements.                  *)
(***************************************************************************)
EXTENDS EventLoopThread, BlockingQueue, TLAPS

-----------------------------------------------------------------------------
(* The start of the pool.  The invariant ties each mutex to the place its  *)
(* holder is at, each loop to how far its thread has come, and what main   *)
(* knows of the loop it waits for to its place.                            *)

StartInv ==
  /\ main = "serve" <=> current = N + 1
  /\ main = "unlock" => eventLoop[current] = "loop"
  /\ main = "sleep" => eventLoop[current] = "NULL"
  /\ waiting => main = "wait" /\ pc[current] \in {"lock", "init", "signal"}
  /\ \A i \in Threads :
       /\ i < current => eventLoop[i] = "loop"
       /\ eventLoop[i] = "loop" <=> pc[i] \in {"signal", "unlock", "run"}
       /\ pc[i] = "none" <=> i > current \/ (i = current /\ main = "create")
       /\ mutex[i] = i <=> pc[i] \in {"init", "signal", "unlock"}
       /\ mutex[i] = Main <=> i = current /\ main \in {"check", "sleep", "unlock"}

LoopsInv == TypeOK /\ StartInv

LEMMA LoopsInit == Init => LoopsInv
  <1> SUFFICES ASSUME Init PROVE LoopsInv
    OBVIOUS
  <1>0. waiting = FALSE /\ waiting \in BOOLEAN
    BY Zenon DEF Init
  <1> USE ThreadsAssumption DEF Init, Threads, Main, Nobody
  <1>1. TypeOK
    <2>1. CASE N = 0
      BY <1>0, <2>1 DEF TypeOK
    <2>2. CASE N > 0
      BY <1>0, <2>2 DEF TypeOK
    <2> QED
      BY <2>1, <2>2
  <1>2. StartInv
    <2>1. CASE N = 0
      BY <2>1 DEF StartInv
    <2>2. CASE N > 0
      BY <2>2 DEF StartInv
    <2> QED
      BY <2>1, <2>2
  <1> QED
    BY <1>1, <1>2 DEF LoopsInv

LEMMA LoopsStep == LoopsInv /\ [Next]_vars => LoopsInv'
  <1> SUFFICES ASSUME LoopsInv, [Next]_vars PROVE LoopsInv'
    OBVIOUS
  <1> USE ThreadsAssumption DEF LoopsInv, TypeOK, StartInv, Threads, Main, Nobody
  <1>1. CASE UNCHANGED vars
    BY <1>1 DEF vars
  <1>2. CASE PthreadCreate
    BY <1>2 DEF PthreadCreate
  <1>3. CASE MainLock
    BY <1>3 DEF MainLock
  <1>4. CASE Check
    BY <1>4 DEF Check
  <1>5. CASE CondWait
    BY <1>5 DEF CondWait
  <1>6. CASE CondReturn
    BY <1>6 DEF CondReturn
  <1>7. CASE MainUnlock
    BY <1>7 DEF MainUnlock
  <1>8. CASE GetLoop
    BY <1>8 DEF GetLoop
  <1>9. CASE SpuriousWakeup
    BY <1>9 DEF SpuriousWakeup
  <1>10. ASSUME NEW i \in Threads, ThreadLock(i) PROVE LoopsInv'
    BY <1>10 DEF ThreadLock
  <1>11. ASSUME NEW i \in Threads, EventLoopInit(i) PROVE LoopsInv'
    BY <1>11 DEF EventLoopInit
  <1>12. ASSUME NEW i \in Threads, CondSignal(i) PROVE LoopsInv'
    <2>0. waiting' \in BOOLEAN
      <3>1. waiting' = (waiting /\ current # i)
        BY <1>12 DEF CondSignal
      <3> QED
        BY <3>1, Zenon
    <2> USE <1>12 DEF CondSignal
    <2>1. TypeOK'
      <3>1. pc' \in [Threads -> {"none", "lock", "init", "signal", "unlock", "run"}]
        OBVIOUS
      <3>2. UNCHANGED <<main, current, mutex, eventLoop, position>>
        OBVIOUS
      <3> QED
        BY <2>0, <3>1, <3>2
    <2>2. waiting' => main' = "wait" /\ pc'[current'] \in {"lock", "init", "signal"}
      <3>1. waiting' => waiting /\ current # i
        BY Zenon DEF CondSignal
      <3>2. waiting /\ current # i =>
              main' = "wait" /\ pc'[current'] \in {"lock", "init", "signal"}
        OBVIOUS
      <3> QED
        BY <3>1, <3>2, Zenon
    <2>3. \A j \in Threads :
            /\ j < current' => eventLoop'[j] = "loop"
            /\ eventLoop'[j] = "loop" <=> pc'[j] \in {"signal", "unlock", "run"}
            /\ pc'[j] = "none" <=> j > current' \/ (j = current' /\ main' = "create")
            /\ mutex'[j] = j <=> pc'[j] \in {"init", "signal", "unlock"}
            /\ mutex'[j] = Main <=> j = current' /\ main' \in {"check", "sleep", "unlock"}
      OBVIOUS
    <2> QED
      BY <2>1, <2>2, <2>3
  <1>13. ASSUME NEW i \in Threads, ThreadUnlock(i) PROVE LoopsInv'
    BY <1>13 DEF ThreadUnlock
  <1> QED
    BY <1>1, <1>2, <1>3, <1>4, <1>5, <1>6, <1>7, <1>8, <1>9, <1>10, <1>11, <1>12, <1>13
    DEF Next, MainStep, ThreadStep

LEMMA LoopsInvariance == Spec => []LoopsInv
  BY LoopsInit, LoopsStep, PTL DEF Spec

(* The variables of thread_pool_start keep their types, and the position   *)
(* of the round robin stays inside the pool.                               *)
THEOREM PoolTyping == Spec => []TypeOK
  BY LoopsInvariance, PTL DEF LoopsInv

(* thread_pool_get_loop, which takes no lock, never finds a missing loop.  *)
THEOREM LoopsExist == Spec => []StartedLoopsExist
  <1>1. LoopsInv => StartedLoopsExist
    BY ThreadsAssumption
    DEF LoopsInv, TypeOK, StartInv, StartedLoopsExist, Threads
  <1> QED
    BY <1>1, LoopsInvariance, PTL

(* While main sleeps on a thread, that thread still has its signal to      *)
(* send: pthread_cond_wait in event_loop_thread_start is not entered late. *)
THEOREM SignalComes == Spec => []SignalNotLost
  <1>1. LoopsInv => SignalNotLost
    BY DEF LoopsInv, StartInv, SignalNotLost
  <1> QED
    BY <1>1, LoopsInvariance, PTL

-----------------------------------------------------------------------------
(* The blocking queue.  The invariant gives each thread the places of its  *)
(* own function, the mutex to the thread inside a call, and a consumer     *)
(* that is about to pop an element to find.                                *)

Element == Producers \X (Nat \ {0})

Holding(t) == at[t] \in {"emplace", "notify", "look", "take", "unlock"}

QueueTyped ==
  /\ at \in [Users -> {"call", "emplace", "notify", "look", "asleep", "woken", "take",
                       "unlock", "end"}]
  /\ round \in [Users -> Nat \ {0}]
  /\ m_Mt \in Users \cup {Unlocked}
  /\ m_Queue \in Seq(Element) /\ got \in Seq(Element)

QueueLocked ==
  /\ \A p \in Producers : at[p] \in {"call", "emplace", "notify", "unlock", "end"}
  /\ \A c \in Consumers : at[c] \in {"call", "look", "asleep", "woken", "take", "unlock", "end"}
  /\ \A t \in Users : Holding(t) <=> m_Mt = t
  /\ \A c \in Consumers : at[c] = "take" => m_Queue # <<>>

QueueInv == QueueTyped /\ QueueLocked /\ QueueKept

LEMMA QueueBegins == QueueInit => QueueInv
  <1> SUFFICES ASSUME QueueInit PROVE QueueInv
    OBVIOUS
  <1>1. QueueTyped
    BY QueueAssumption DEF QueueInit, QueueTyped, Users
  <1>2. QueueLocked
    BY QueueAssumption DEF QueueInit, QueueLocked, Holding, Users
  <1>3. Passed = <<>>
    BY DEF QueueInit, Passed
  <1>4. \A p \in Producers : PushedBy(p) = 0
    BY DEF QueueInit, PushedBy, Users
  <1>5. QueueKept
    BY <1>3, <1>4 DEF QueueKept, QueueInit, Users
  <1> QED
    BY <1>1, <1>2, <1>5 DEF QueueInv

(* A step that pushes nothing, and pops at most the first element, leaves  *)
(* what has passed as it was.                                              *)
LEMMA KeptUnlessPushed ==
  ASSUME QueueInv, QueueLocked', Passed' = Passed,
         \A p \in Producers : PushedBy(p)' = PushedBy(p)
  PROVE  QueueKept'
  BY DEF QueueInv, QueueKept, QueueLocked

LEMMA PopKeepsPassed ==
  ASSUME m_Queue \in Seq(Element), got \in Seq(Element), m_Queue # <<>>,
         got' = Append(got, Head(m_Queue)), m_Queue' = Tail(m_Queue)
  PROVE  Passed' = Passed /\ got' \in Seq(Element) /\ m_Queue' \in Seq(Element)
  BY DEF Passed

LEMMA PushAppends ==
  ASSUME m_Queue \in Seq(Element), got \in Seq(Element), NEW e \in Element,
         m_Queue' = Append(m_Queue, e), got' = got
  PROVE  /\ Passed \in Seq(Element)
         /\ Passed' = Append(Passed, e)
         /\ m_Queue' \in Seq(Element) /\ m_Queue' # <<>>
  BY DEF Passed

(* The steps of a thread other than Emplace and Pop.                       *)
LEMMA QuietStep ==
  ASSUME QueueInv, NEW t \in Users, UNCHANGED <<m_Queue, got>>,
         \/ LockQueue(t) \/ QueueNotify(t) \/ QueueLook(t) \/ QueueSpurious(t)
         \/ Relock(t) \/ UnlockQueue(t)
  PROVE  QueueInv'
  <1> USE QueueAssumption DEF QueueInv, QueueTyped, QueueLocked, Holding, To, Users
  <1> DEFINE Quiet == /\ QueueTyped' /\ QueueLocked'
                      /\ \A p \in Producers : PushedBy(p)' = PushedBy(p)
  <1>1. Quiet
    <2>1. CASE LockQueue(t)
      BY <2>1 DEF LockQueue, PushedBy
    <2>2. CASE QueueNotify(t)
      <3>1. CASE Sleepers = {}
        BY <2>2, <3>1 DEF QueueNotify, PushedBy
      <3>2. ASSUME NEW c \in Sleepers, at' = [at EXCEPT ![t] = "unlock", ![c] = "woken"]
            PROVE  Quiet
        BY <2>2, <3>2 DEF QueueNotify, PushedBy, Sleepers
      <3> HIDE DEF Quiet
      <3> QED
        BY <2>2, <3>1, <3>2 DEF QueueNotify
    <2>3. CASE QueueLook(t)
      BY <2>3 DEF QueueLook, PushedBy
    <2>4. CASE QueueSpurious(t)
      BY <2>4 DEF QueueSpurious, PushedBy
    <2>5. CASE Relock(t)
      BY <2>5 DEF Relock, PushedBy
    <2>6. CASE UnlockQueue(t)
      BY <2>6 DEF UnlockQueue, PushedBy
    <2> QED
      BY <2>1, <2>2, <2>3, <2>4, <2>5, <2>6
  <1>2. Passed' = Passed
    BY DEF Passed
  <1> QED
    BY <1>1, <1>2, KeptUnlessPushed

LEMMA EmplaceStep ==
  ASSUME QueueInv, NEW t \in Users, Emplace(t)
  PROVE  QueueInv'
  <1> DEFINE e == <<t, round[t]>>
  <1>1. t \in Producers /\ e \in Element /\ at[t] = "emplace"
    BY DEF QueueInv, QueueTyped, QueueLocked, Emplace, Users, Element
  <1>2. /\ Passed \in Seq(Element)
        /\ Passed' = Append(Passed, e)
        /\ m_Queue' \in Seq(Element) /\ m_Queue' # <<>>
    BY <1>1, PushAppends DEF QueueInv, QueueTyped, Emplace
  <1>3. QueueTyped'
    BY <1>2 DEF QueueInv, QueueTyped, Emplace, To
  <1>4. QueueLocked'
    BY <1>2, QueueAssumption DEF QueueInv, QueueTyped, QueueLocked, Holding, Emplace, To, Users
  <1>5. /\ PushedBy(t) = round[t] - 1 /\ PushedBy(t)' = round[t] /\ round[t] \in Nat \ {0}
        /\ \A p \in Producers \ {t} : PushedBy(p)' = PushedBy(p)
    BY <1>1 DEF QueueInv, QueueTyped, PushedBy, Emplace, To, Users
  <1>6. \A p \in Producers : PushedBy(p) \in Nat /\ PushedBy(p)' \in Nat /\ PushedBy(p) <= PushedBy(p)'
    BY <1>1, <1>5 DEF QueueInv, QueueTyped, PushedBy, Users
  <1>7. QueueKept'
    <2>1. \A c \in Consumers : at'[c] # "abort"
      BY <1>4 DEF QueueLocked
    <2>2. DOMAIN Passed' = DOMAIN Passed \cup {Len(Passed) + 1}
      BY <1>2
    <2>3. \A n \in DOMAIN Passed : Passed'[n] = Passed[n] /\ n < Len(Passed) + 1
      BY <1>2
    <2>4. Passed'[Len(Passed) + 1] = <<t, round[t]>>
      BY <1>2
    <2>5. \A n \in DOMAIN Passed' :
            \E p \in Producers : \E i \in 1 .. PushedBy(p)' : Passed'[n] = <<p, i>>
      BY <2>2, <2>3, <2>4, <1>1, <1>5, <1>6 DEF QueueInv, QueueKept
    <2>6. \A p \in Producers : \A i \in 1 .. PushedBy(p)' :
            \E n \in DOMAIN Passed' : Passed'[n] = <<p, i>>
      <3> SUFFICES ASSUME NEW p \in Producers, NEW i \in 1 .. PushedBy(p)'
                   PROVE  \E n \in DOMAIN Passed' : Passed'[n] = <<p, i>>
        OBVIOUS
      <3>1. CASE p = t /\ i = round[t]
        BY <3>1, <2>2, <2>4
      <3>2. CASE ~(p = t /\ i = round[t])
        <4>1. i \in 1 .. PushedBy(p)
          BY <3>2, <1>5, <1>6
        <4>2. PICK n \in DOMAIN Passed : Passed[n] = <<p, i>>
          BY <4>1 DEF QueueInv, QueueKept
        <4> QED
          BY <4>2, <2>2, <2>3
      <3> QED
        BY <3>1, <3>2
    <2>7. \A n, k \in DOMAIN Passed' :
            n < k /\ Passed'[n][1] = Passed'[k][1] => Passed'[n][2] < Passed'[k][2]
      <3> SUFFICES ASSUME NEW n \in DOMAIN Passed', NEW k \in DOMAIN Passed',
                          n < k, Passed'[n][1] = Passed'[k][1]
                   PROVE  Passed'[n][2] < Passed'[k][2]
        OBVIOUS
      <3>1. CASE k \in DOMAIN Passed
        <4>1. n \in DOMAIN Passed
          BY <3>1, <2>2, <2>3, <1>2
        <4> QED
          BY <4>1, <3>1, <2>3 DEF QueueInv, QueueKept
      <3>2. CASE k = Len(Passed) + 1
        <4>1. n \in DOMAIN Passed
          BY <3>2, <2>2
        <4>2. PICK p \in Producers : \E i \in 1 .. PushedBy(p) : Passed[n] = <<p, i>>
          BY <4>1 DEF QueueInv, QueueKept
        <4>3. p = t
          BY <4>1, <4>2, <3>2, <2>3, <2>4
        <4>4. Passed'[n][2] <= round[t] - 1
          BY <4>1, <4>2, <4>3, <2>3, <1>5
        <4> QED
          BY <4>4, <3>2, <2>4, <1>5, <4>1, <4>2, <2>3, <1>6
      <3> QED
        BY <3>1, <3>2, <2>2
    <2> QED
      BY <2>1, <2>5, <2>6, <2>7 DEF QueueKept
  <1> QED
    BY <1>3, <1>4, <1>7 DEF QueueInv

LEMMA PopStep ==
  ASSUME QueueInv, NEW t \in Users, Pop(t)
  PROVE  QueueInv'
  <1>1. t \in Consumers /\ at[t] = "take" /\ m_Queue # <<>>
    BY DEF QueueInv, QueueTyped, QueueLocked, Pop, Users
  <1>2. /\ got' = Append(got, Head(m_Queue)) /\ m_Queue' = Tail(m_Queue)
        /\ at' = [at EXCEPT ![t] = "unlock"] /\ UNCHANGED <<round, m_Mt>>
    BY <1>1 DEF Pop, To
  <1>3. Passed' = Passed /\ got' \in Seq(Element) /\ m_Queue' \in Seq(Element)
    BY <1>1, <1>2, PopKeepsPassed DEF QueueInv, QueueTyped
  <1>4. QueueTyped'
    BY <1>2, <1>3 DEF QueueInv, QueueTyped
  <1>5. QueueLocked'
    BY <1>1, <1>2, QueueAssumption DEF QueueInv, QueueTyped, QueueLocked, Holding, Users
  <1>6. \A p \in Producers : PushedBy(p)' = PushedBy(p)
    BY <1>1, <1>2, QueueAssumption DEF QueueInv, QueueTyped, PushedBy, Users
  <1> QED
    BY <1>3, <1>4, <1>5, <1>6, KeptUnlessPushed DEF QueueInv

LEMMA QueueStepKeeps == QueueInv /\ [QueueNext]_queueVars => QueueInv'
  <1> SUFFICES ASSUME QueueInv, [QueueNext]_queueVars PROVE QueueInv'
    OBVIOUS
  <1>1. CASE UNCHANGED queueVars
    <2>1. QueueTyped' /\ QueueLocked'
      BY <1>1 DEF queueVars, QueueInv, QueueTyped, QueueLocked, Holding
    <2>2. Passed' = Passed /\ \A p \in Producers : PushedBy(p)' = PushedBy(p)
      BY <1>1 DEF queueVars, Passed, PushedBy
    <2> QED
      BY <2>1, <2>2, KeptUnlessPushed DEF QueueInv
  <1>2. ASSUME NEW t \in Users,
               \/ LockQueue(t) \/ QueueNotify(t) \/ QueueLook(t) \/ QueueSpurious(t)
               \/ Relock(t) \/ UnlockQueue(t)
        PROVE  QueueInv'
    <2>1. UNCHANGED <<m_Queue, got>>
      BY <1>2 DEF LockQueue, QueueNotify, QueueLook, QueueSpurious, Relock, UnlockQueue
    <2> QED
      BY <1>2, <2>1, QuietStep
  <1>3. ASSUME NEW t \in Users, Emplace(t) PROVE QueueInv'
    BY <1>3, EmplaceStep
  <1>4. ASSUME NEW t \in Users, Pop(t) PROVE QueueInv'
    BY <1>4, PopStep
  <1> QED
    BY <1>1, <1>2, <1>3, <1>4 DEF QueueNext, QueueStep

(* Get never pops an empty queue, and every element of every producer is   *)
(* passed on once and in its order, whatever the number of threads.        *)
THEOREM QueueSafety == QueueSpec => []QueueKept
  <1>1. QueueInv => QueueKept
    BY DEF QueueInv
  <1> QED
    BY <1>1, QueueBegins, QueueStepKeeps, PTL DEF QueueSpec
=============================================================================
