------------------------ MODULE ConnectionPoolProofs ------------------------
(***************************************************************************)
(* Proofs about ConnectionPool for every number of clients and every       *)
(* choice of the initial and the largest size.                             *)
(***************************************************************************)
EXTENDS ConnectionPool, FiniteSetTheorems, TLAPS

(* A client that holds a connection is not inside getconnection.           *)
HoldersIdle == \A c \in Clients : held[c] # None => client[c] = "idle"

(* A producer asleep over an empty queue was left there by the scanner,    *)
(* which never goes below the initial size.                                *)
LeftByScanner == producer = "waiting" /\ queue = <<>> => cnt >= InitSize

Inv ==
  /\ TypeOK
  /\ Exclusive
  /\ CountExact
  /\ HoldersIdle
  /\ LeftByScanner
  /\ EnoughInitially

LEMMA UsersFinite ==
  /\ IsFiniteSet(InUse) /\ Cardinality(InUse) \in Nat /\ Cardinality(Clients) \in Nat
  /\ Cardinality(InUse) <= Cardinality(Clients)
  /\ Cardinality(InUse) = Cardinality(Clients) => InUse = Clients
  <1>1. InUse \subseteq Clients
    BY DEF InUse
  <1> QED
    BY <1>1, ClientsAssumption, FS_Subset, FS_CardinalityType

(* The front of a queue without repetitions, and the rest of it.           *)
LEMMA FrontAndRest ==
  ASSUME NEW q \in Seq(Connections), q # <<>>
  PROVE  /\ Head(q) = q[1] /\ Head(q) \in Connections
         /\ Tail(q) \in Seq(Connections) /\ Len(Tail(q)) = Len(q) - 1
         /\ Len(q) \in Nat \ {0}
         /\ \A i \in 1 .. Len(q) - 1 : Tail(q)[i] = q[i + 1]
  OBVIOUS

(* getconnection hands out the front of the queue.                         *)
LEMMA TakeFrontStep ==
  ASSUME Inv, ~undefined, NEW c \in Clients, held[c] = None, TakeFront(c)
  PROVE  Inv'
  <1> USE DEF Inv
  <1>1. /\ queue # <<>> /\ queue \in Seq(Connections)
        /\ held' = [held EXCEPT ![c] = Head(queue)]
        /\ queue' = Tail(queue)
        /\ client' = Woken([client EXCEPT ![c] = "idle"])
        /\ producer' = Awake(producer)
        /\ cnt' = cnt /\ undefined' = undefined
    BY DEF TakeFront, TypeOK
  <1>2. /\ Head(queue) = queue[1] /\ Head(queue) \in Connections
        /\ Tail(queue) \in Seq(Connections) /\ Len(Tail(queue)) = Len(queue) - 1
        /\ Len(queue) \in Nat \ {0}
        /\ \A i \in 1 .. Len(queue) - 1 : queue'[i] = queue[i + 1]
    BY <1>1, FrontAndRest
  <1>3. held \in [Clients -> Connections \cup {None}]
    BY DEF TypeOK
  <1>4. held'[c] = queue[1] /\ \A d \in Clients \ {c} : held'[d] = held[d]
    BY <1>1, <1>2, <1>3
  <1>5. /\ client' \in [Clients -> {"idle", "waiting", "woken"}]
        /\ client'[c] = "idle"
        /\ \A d \in Clients \ {c} : client[d] = "idle" => client'[d] = "idle"
    BY <1>1 DEF Woken, TypeOK
  <1>6. producer' \in {"running", "woken"}
    BY <1>1 DEF Awake, TypeOK
  <1>7. TypeOK'
    BY <1>1, <1>2, <1>3, <1>5, <1>6 DEF TypeOK
  <1>8. InUse' = InUse \cup {c} /\ c \notin InUse
    BY <1>2, <1>4, NoneAssumption DEF InUse
  <1>9. \A i \in 1 .. Len(queue') : queue'[i] = queue[i + 1] /\ i + 1 \in 2 .. Len(queue)
    BY <1>1, <1>2
  <1>10. Exclusive'
    <2>1. \A i, j \in 1 .. Len(queue') : queue'[i] = queue'[j] => i = j
      BY <1>2, <1>9 DEF Exclusive
    <2>2. \A d \in InUse : held[d] # queue[1]
      BY <1>2 DEF Exclusive, Queued
    <2>3. \A d \in InUse' : d = c \/ (d \in InUse /\ d # c)
      BY <1>8
    <2>4. \A d, e \in InUse' : held'[d] = held'[e] => d = e
      BY <1>4, <2>2, <2>3 DEF Exclusive, InUse
    <2>5. ASSUME NEW d \in InUse', held'[d] \in Queued' PROVE FALSE
      <3>1. PICK i \in 1 .. Len(queue') : held'[d] = queue'[i]
        BY <2>5 DEF Queued
      <3>2. held'[d] = queue[i + 1] /\ i + 1 \in 2 .. Len(queue)
        BY <1>9, <3>1
      <3>3. CASE d = c
        BY <1>2, <1>4, <3>2, <3>3 DEF Exclusive
      <3>4. CASE d \in InUse /\ d # c
        BY <1>2, <1>4, <3>2, <3>4 DEF Exclusive, Queued, InUse
      <3> QED
        BY <2>3, <3>3, <3>4
    <2> QED
      BY <2>1, <2>4, <2>5 DEF Exclusive
  <1>11. CountExact'
    <2>1. Cardinality(InUse') = Cardinality(InUse) + 1
      BY <1>8, UsersFinite, FS_AddElement
    <2>2. Cardinality(InUse) \in Nat
      BY UsersFinite
    <2>3. Len(queue') = Len(queue) - 1
      BY <1>1, <1>2
    <2>4. cnt' = Len(queue') + Cardinality(InUse')
      BY <1>1, <1>2, <2>1, <2>2, <2>3 DEF CountExact
    <2> QED
      BY <1>1, <2>4 DEF CountExact
  <1>12. HoldersIdle'
    BY <1>4, <1>5 DEF HoldersIdle
  <1>13. LeftByScanner' /\ EnoughInitially'
    BY <1>1, <1>6 DEF LeftByScanner, EnoughInitially, NoFrontOfEmpty
  <1> QED
    BY <1>7, <1>10, <1>11, <1>12, <1>13

(* A client that finds the queue empty waits, or leaves with nullptr.      *)
LEMMA EmptyHandedStep ==
  ASSUME Inv, NEW c \in Clients, held[c] = None, WaitFor(c) \/ GiveUp(c)
  PROVE  Inv'
  <1> USE DEF Inv
  <1>1. /\ queue' = queue /\ cnt' = cnt /\ held' = held
        /\ producer' = producer /\ undefined' = undefined
    BY DEF WaitFor, GiveUp
  <1>2. /\ client' \in [Clients -> {"idle", "waiting", "woken"}]
        /\ \A d \in Clients \ {c} : client'[d] = client[d]
    BY DEF WaitFor, GiveUp, TypeOK
  <1>3. TypeOK' /\ HoldersIdle'
    BY <1>1, <1>2 DEF TypeOK, HoldersIdle
  <1>4. InUse' = InUse /\ Queued' = Queued
    BY <1>1 DEF InUse, Queued
  <1> QED
    BY <1>1, <1>3, <1>4 DEF Exclusive, CountExact, LeftByScanner, EnoughInitially, NoFrontOfEmpty

(* The deleter puts the connection at the end of the queue.                *)
LEMMA ReleaseStep ==
  ASSUME Inv, NEW c \in Clients, Release(c)
  PROVE  Inv'
  <1> USE DEF Inv
  <1>1. /\ held[c] # None /\ held[c] \in Connections /\ queue \in Seq(Connections)
        /\ queue' = Append(queue, held[c])
        /\ held' = [held EXCEPT ![c] = None]
        /\ UNCHANGED <<cnt, client, producer, undefined>>
    BY DEF Release, TypeOK
  <1>2. /\ queue' \in Seq(Connections) /\ Len(queue') = Len(queue) + 1 /\ Len(queue) \in Nat
        /\ \A i \in 1 .. Len(queue) : queue'[i] = queue[i]
        /\ queue'[Len(queue) + 1] = held[c]
        /\ queue' # <<>>
    BY <1>1
  <1>3. held'[c] = None /\ \A d \in Clients \ {c} : held'[d] = held[d]
    BY <1>1 DEF TypeOK
  <1>4. InUse' = InUse \ {c} /\ c \in InUse
    BY <1>1, <1>3 DEF InUse
  <1>5. TypeOK'
    BY <1>1, <1>2 DEF TypeOK
  <1>6. \A i \in 1 .. Len(queue') : i \in 1 .. Len(queue) \/ i = Len(queue) + 1
    BY <1>2
  <1>7. \A i \in 1 .. Len(queue) : queue[i] # held[c]
    BY <1>4 DEF Exclusive, Queued
  <1>8. Exclusive'
    <2>1. \A i, j \in 1 .. Len(queue') : queue'[i] = queue'[j] => i = j
      BY <1>2, <1>6, <1>7 DEF Exclusive
    <2>2. \A d, e \in InUse' : held'[d] = held'[e] => d = e
      BY <1>3, <1>4 DEF Exclusive, InUse
    <2>3. ASSUME NEW d \in InUse', held'[d] \in Queued' PROVE FALSE
      <3>1. d \in InUse /\ d # c /\ held'[d] = held[d]
        BY <1>3, <1>4 DEF InUse
      <3>2. PICK i \in 1 .. Len(queue') : held[d] = queue'[i]
        BY <2>3, <3>1 DEF Queued
      <3>3. CASE i \in 1 .. Len(queue)
        BY <1>2, <3>1, <3>2, <3>3 DEF Exclusive, Queued
      <3>4. CASE i = Len(queue) + 1
        BY <1>2, <1>4, <3>1, <3>2, <3>4 DEF Exclusive
      <3> QED
        BY <1>6, <3>3, <3>4
    <2> QED
      BY <2>1, <2>2, <2>3 DEF Exclusive
  <1>9. CountExact'
    <2>1. Cardinality(InUse') = Cardinality(InUse) - 1 /\ Cardinality(InUse) \in Nat
      BY <1>4, UsersFinite, FS_RemoveElement
    <2> QED
      BY <1>1, <1>2, <2>1 DEF CountExact
  <1>10. HoldersIdle' /\ LeftByScanner' /\ EnoughInitially'
    BY <1>1, <1>2, <1>3 DEF HoldersIdle, LeftByScanner, EnoughInitially, NoFrontOfEmpty
  <1> QED
    BY <1>5, <1>8, <1>9, <1>10

LEMMA ProducerSteps ==
  ASSUME Inv, ProducerStep
  PROVE  Inv'
  <1> USE DEF Inv
  <1>1. CASE ProducerWait
    <2>1. /\ queue # <<>> /\ producer' = "waiting"
          /\ UNCHANGED <<queue, cnt, held, client, undefined>>
      BY <1>1 DEF ProducerWait
    <2>2. InUse' = InUse /\ Queued' = Queued
      BY <2>1 DEF InUse, Queued
    <2> QED
      BY <2>1, <2>2 DEF TypeOK, Exclusive, CountExact, HoldersIdle, LeftByScanner,
         EnoughInitially, NoFrontOfEmpty
  <1>2. ASSUME ProducerNotify
        PROVE  /\ queue = <<>> /\ producer' = "running" /\ UNCHANGED <<held, undefined>>
               /\ client' \in [Clients -> {"idle", "waiting", "woken"}]
               /\ \A d \in Clients : client[d] = "idle" => client'[d] = "idle"
               /\ InUse' = InUse
    BY <1>2 DEF ProducerNotify, Woken, TypeOK, InUse
  <1>3. CASE ProduceNothing
    <2>1. UNCHANGED <<queue, cnt>> /\ ProducerNotify
      BY <1>3 DEF ProduceNothing
    <2>2. Queued' = Queued
      BY <2>1 DEF Queued
    <2> QED
      BY <1>2, <2>1, <2>2 DEF TypeOK, Exclusive, CountExact, HoldersIdle, LeftByScanner,
         EnoughInitially, NoFrontOfEmpty
  <1>4. CASE Produce
    <2>1. PICK p \in Connections \ {held[c] : c \in Clients} : queue' = <<p>>
      BY <1>4 DEF Produce
    <2>2. ProducerNotify /\ cnt < MaxSize /\ cnt' = cnt + 1 /\ cnt \in Nat
      BY <1>4 DEF Produce, TypeOK
    <2>3. queue' \in Seq(Connections) /\ Len(queue') = 1 /\ queue'[1] = p
      BY <2>1
    <2>4. TypeOK'
      BY <1>2, <2>2, <2>3 DEF TypeOK
    <2>5. Queued' = {p}
      BY <2>3 DEF Queued
    <2>6. Exclusive'
      BY <1>2, <2>1, <2>2, <2>3, <2>5 DEF Exclusive, InUse
    <2>7. CountExact'
      <3>1. Len(queue) = 0 /\ Cardinality(InUse) \in Nat
        BY <1>2, <2>2, UsersFinite
      <3>2. cnt' = Len(queue') + Cardinality(InUse')
        BY <1>2, <2>2, <2>3, <3>1 DEF CountExact
      <3> QED
        BY <2>2, <3>2, SizesAssumption DEF CountExact
    <2> QED
      BY <1>2, <2>2, <2>4, <2>6, <2>7 DEF HoldersIdle, LeftByScanner, EnoughInitially,
         NoFrontOfEmpty
  <1> QED
    BY <1>1, <1>3, <1>4 DEF ProducerStep

(* The scanner takes a prefix of the queue and stops at the initial size;  *)
(* with few clients the queue is longer than what it may take.             *)
LEMMA ScanStep ==
  ASSUME Inv, Scan
  PROVE  Inv'
  <1> USE DEF Inv
  <1>1. PICK k \in 0 .. Len(queue) :
          /\ k <= cnt - InitSize
          /\ queue' = SubSeq(queue, k + 1, Len(queue))
          /\ cnt' = cnt - k
          /\ undefined' = (k = Len(queue) /\ k < cnt - InitSize)
    BY DEF Scan
  <1>2. UNCHANGED <<held, client, producer>> /\ cnt > InitSize /\ InUse' = InUse
    BY DEF Scan, InUse
  <1>3. queue \in Seq(Connections) /\ Len(queue) \in Nat /\ k \in Nat /\ k <= Len(queue)
    BY <1>1 DEF TypeOK
  <1>4. /\ queue' \in Seq(Connections) /\ Len(queue') = Len(queue) - k
        /\ \A i \in 1 .. Len(queue) - k : queue'[i] = queue[k + i]
    BY <1>1, <1>3
  <1>5. cnt \in Nat /\ cnt' \in Nat /\ cnt' >= InitSize /\ cnt' <= cnt /\ InitSize \in Nat
    BY <1>1, <1>3, SizesAssumption DEF TypeOK
  <1>6. TypeOK'
    BY <1>1, <1>2, <1>4, <1>5 DEF TypeOK
  <1>7. Exclusive'
    <2>1. \A i \in 1 .. Len(queue') : queue'[i] = queue[k + i] /\ k + i \in 1 .. Len(queue)
      BY <1>3, <1>4
    <2>2. \A i, j \in 1 .. Len(queue') : queue'[i] = queue'[j] => i = j
      BY <1>3, <1>4, <2>1 DEF Exclusive
    <2>3. Queued' \subseteq Queued
      BY <2>1 DEF Queued
    <2> QED
      BY <1>2, <2>2, <2>3 DEF Exclusive
  <1>8. CountExact'
    <2>1. Cardinality(InUse) \in Nat
      BY UsersFinite
    <2>2. cnt = Len(queue) + Cardinality(InUse) /\ cnt <= MaxSize
      BY DEF CountExact
    <2>3. cnt' = Len(queue') + Cardinality(InUse')
      <3>1. Cardinality(InUse') = Cardinality(InUse)
        BY <1>2
      <3>2. cnt' = cnt - k /\ Len(queue') = Len(queue) - k
        BY <1>1, <1>4
      <3> HIDE DEF Inv
      <3> DEFINE users == Cardinality(InUse)
      <3>3. users \in Nat /\ cnt = Len(queue) + users
        BY <2>1, <2>2
      <3> HIDE DEF users
      <3>4. cnt - k = (Len(queue) - k) + users
        BY <1>3, <1>5, <3>3
      <3> QED
        BY <3>1, <3>2, <3>4 DEF users
    <2>4. cnt' <= MaxSize
      BY <1>5, <2>2, SizesAssumption
    <2> QED
      BY <2>3, <2>4 DEF CountExact
  <1>9. HoldersIdle' /\ LeftByScanner'
    BY <1>2, <1>5 DEF HoldersIdle, LeftByScanner
  <1>10. EnoughInitially'
    <2> SUFFICES ASSUME Cardinality(Clients) <= InitSize, k = Len(queue), k < cnt - InitSize
                 PROVE  FALSE
      BY <1>1 DEF EnoughInitially, NoFrontOfEmpty
    <2>1. cnt = Len(queue) + Cardinality(InUse)
      BY DEF CountExact
    <2> QED
      BY <1>3, <1>5, <2>1, UsersFinite
  <1> QED
    BY <1>6, <1>7, <1>8, <1>9, <1>10

LEMMA SpuriousStep ==
  ASSUME Inv, SpuriousWakeup
  PROVE  Inv'
  <1> USE DEF Inv
  <1>1. /\ UNCHANGED <<queue, cnt, held, undefined>>
        /\ producer' = producer \/ producer' = "woken"
        /\ client' \in [Clients -> {"idle", "waiting", "woken"}]
        /\ \A d \in Clients : client[d] = "idle" => client'[d] = "idle"
    BY DEF SpuriousWakeup, TypeOK
  <1>2. InUse' = InUse /\ Queued' = Queued
    BY <1>1 DEF InUse, Queued
  <1> QED
    BY <1>1, <1>2 DEF TypeOK, Exclusive, CountExact, HoldersIdle, LeftByScanner,
       EnoughInitially, NoFrontOfEmpty

LEMMA InvInit == Init => Inv
  <1> SUFFICES ASSUME Init PROVE Inv
    OBVIOUS
  <1>1. PICK n \in 0 .. InitSize :
          /\ queue \in [1 .. n -> Connections]
          /\ \A i, j \in 1 .. n : queue[i] = queue[j] => i = j
          /\ cnt = n
    BY DEF Init
  <1>2. n \in Nat /\ n <= MaxSize
    BY <1>1, SizesAssumption
  <1>3. queue \in Seq(Connections) /\ Len(queue) = n
    BY <1>1, <1>2
  <1>4. InUse = {}
    BY DEF Init, InUse
  <1>5. Cardinality(InUse) = 0
    BY <1>4, FS_EmptySet
  <1>6. TypeOK
    BY <1>1, <1>2, <1>3 DEF Init, TypeOK
  <1>7. Exclusive
    BY <1>1, <1>3, <1>4 DEF Exclusive
  <1>8. CountExact
    BY <1>1, <1>2, <1>3, <1>5 DEF CountExact
  <1> QED
    BY <1>6, <1>7, <1>8 DEF Inv, Init, HoldersIdle, LeftByScanner, EnoughInitially, NoFrontOfEmpty

LEMMA InvStep == Inv /\ [Next]_vars => Inv'
  <1> SUFFICES ASSUME Inv, [Next]_vars PROVE Inv'
    OBVIOUS
  <1>1. CASE UNCHANGED vars
    <2>1. InUse' = InUse /\ Queued' = Queued
      BY <1>1 DEF vars, InUse, Queued
    <2> QED
      BY <1>1, <2>1 DEF vars, Inv, TypeOK, Exclusive, CountExact, HoldersIdle, LeftByScanner,
         EnoughInitially, NoFrontOfEmpty
  <1>2. ASSUME NEW c \in Clients, ClientStep(c) PROVE Inv'
    <2>1. CASE Release(c)
      BY <2>1, ReleaseStep
    <2>2. CASE GetConnection(c) \/ LookAgain(c) \/ TimedOut(c) \/ WokenTooLate(c)
      <3>1. held[c] = None /\ ~undefined
        BY <2>2 DEF GetConnection, LookAgain, TimedOut, WokenTooLate, Inv, HoldersIdle
      <3>2. TakeFront(c) \/ WaitFor(c) \/ GiveUp(c)
        BY <2>2 DEF GetConnection, LookAgain, TimedOut, WokenTooLate
      <3> QED
        BY <3>1, <3>2, TakeFrontStep, EmptyHandedStep
    <2> QED
      BY <1>2, <2>1, <2>2 DEF ClientStep
  <1> QED
    BY <1>1, <1>2, ProducerSteps, ScanStep, SpuriousStep DEF Next

LEMMA Invariance == Spec => []Inv
  BY InvInit, InvStep, PTL DEF Spec

(* The pool's variables keep their types.                                  *)
THEOREM Typing == Spec => []TypeOK
  <1>1. Inv => TypeOK
    BY DEF Inv
  <1> QED
    BY <1>1, Invariance, PTL

(* Two clients never share a connection, and the scanner never deletes one *)
(* that a client holds.                                                    *)
THEOREM NoSharing == Spec => []Exclusive
  <1>1. Inv => Exclusive
    BY DEF Inv
  <1> QED
    BY <1>1, Invariance, PTL

(* The counter says how many connections exist, and never exceeds the      *)
(* largest size.                                                           *)
THEOREM Counting == Spec => []CountExact
  <1>1. Inv => CountExact
    BY DEF Inv
  <1> QED
    BY <1>1, Invariance, PTL

(* The scanner's unguarded front() is safe when there are no more clients  *)
(* than initial connections.                                               *)
THEOREM FrontExists == Spec => []EnoughInitially
  <1>1. Inv => EnoughInitially
    BY DEF Inv
  <1> QED
    BY <1>1, Invariance, PTL

(* Under the same condition the wakeup the scanner does not send is missed *)
(* by nobody.                                                              *)
THEOREM NobodyWaitsInVain == Spec => []ProducerThereForWaiters
  <1>1. Inv => ProducerThereForWaiters
    <2> SUFFICES ASSUME Inv, Cardinality(Clients) <= InitSize,
                        producer = "waiting", queue = <<>>,
                        NEW c \in Clients
                 PROVE  client[c] = "idle"
      BY DEF ProducerThereForWaiters
    <2>1. cnt >= InitSize /\ cnt = Cardinality(InUse)
      BY UsersFinite DEF Inv, LeftByScanner, CountExact
    <2>2. Cardinality(InUse) = Cardinality(Clients)
      BY <2>1, UsersFinite, SizesAssumption
    <2>3. c \in InUse
      BY <2>2, UsersFinite
    <2> QED
      BY <2>3 DEF Inv, HoldersIdle, InUse
  <1> QED
    BY <1>1, Invariance, PTL
=============================================================================
