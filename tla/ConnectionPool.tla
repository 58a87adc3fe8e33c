--------------------------- MODULE ConnectionPool ---------------------------
(***************************************************************************)
(* The MySQL connection pool of connection/src: clients take a connection  *)
(* from a queue, waiting on a condition variable with a timeout, and give  *)
(* it back when their shared_ptr dies; one thread makes connections while  *)
(* the queue is empty, another deletes connections idle for too long.      *)
(*                                                                         *)
(* Every access to the pool happens with _queue_mutex held, so what a      *)
(* thread does between taking the mutex and releasing it, by unlocking or  *)
(* by waiting on _cv, is one action.                                       *)
(***************************************************************************)
EXTENDS Integers, Sequences, FiniteSets

CONSTANTS Clients,      \* threads that use the pool, one connection at a time
          Connections,  \* connection objects, NULL not among them
          InitSize,     \* _init_size
          MaxSize,      \* _max_size
          None          \* nullptr

VARIABLES queue,      \* _connection_que
          cnt,        \* _connection_cnt
          held,       \* held[c]: the connection of client c's shared_ptr
          client,     \* where client c is in getconnection
          producer,   \* where produce_connection_task is
          undefined   \* front() was called on an empty queue

vars == <<queue, cnt, held, client, producer, undefined>>

ASSUME SizesAssumption ==
  InitSize \in Nat /\ MaxSize \in Nat /\ InitSize <= MaxSize
ASSUME NoneAssumption == None \notin Connections
ASSUME ClientsAssumption == IsFiniteSet(Clients)

TypeOK ==
  /\ queue \in Seq(Connections)
  /\ cnt \in Nat
  /\ held \in [Clients -> Connections \cup {None}]
  /\ client \in [Clients -> {"idle", "waiting", "woken"}]
  /\ producer \in {"running", "waiting", "woken"}
  /\ undefined \in BOOLEAN

Queued == {queue[i] : i \in 1 .. Len(queue)}
InUse == {c \in Clients : held[c] # None}

(* The constructor connects _init_size times and skips what fails.         *)
Init ==
  /\ \E n \in 0 .. InitSize :
       /\ queue \in [1 .. n -> Connections]
       /\ \A i, j \in 1 .. n : queue[i] = queue[j] => i = j
       /\ cnt = n
  /\ held = [c \in Clients |-> None]
  /\ client = [c \in Clients |-> "idle"]
  /\ producer = "running"
  /\ undefined = FALSE

-----------------------------------------------------------------------------
(* _cv.notify_all(), with the client states given by cl and the producer's *)
(* given by pr.                                                            *)
Woken(cl) == [c \in Clients |-> IF cl[c] = "waiting" THEN "woken" ELSE cl[c]]
Awake(pr) == IF pr = "waiting" THEN "woken" ELSE pr

(* Mutant: the front is not popped.                                        *)
TakeFrontKeeps(c) ==
  /\ queue # <<>>
  /\ held' = [held EXCEPT ![c] = Head(queue)]
  /\ client' = Woken([client EXCEPT ![c] = "idle"])
  /\ producer' = Awake(producer)
  /\ UNCHANGED <<queue, cnt, undefined>>

(* The end of getconnection: the front of the queue goes to the client.    *)
TakeFront(c) ==
  /\ queue # <<>>
  /\ held' = [held EXCEPT ![c] = Head(queue)]
  /\ queue' = Tail(queue)
  /\ client' = Woken([client EXCEPT ![c] = "idle"])
  /\ producer' = Awake(producer)
  /\ UNCHANGED <<cnt, undefined>>

WaitFor(c) ==
  /\ queue = <<>>
  /\ client' = [client EXCEPT ![c] = "waiting"]
  /\ UNCHANGED <<queue, cnt, held, producer, undefined>>

(* getconnection, up to its return or its first wait.                      *)
GetConnection(c) ==
  /\ ~undefined
  /\ client[c] = "idle" /\ held[c] = None
  /\ TakeFront(c) \/ WaitFor(c)

(* wait_for returned before its time: the while loop looks again, and a    *)
(* new wait starts its timeout afresh.                                     *)
LookAgain(c) ==
  /\ ~undefined
  /\ client[c] = "woken"
  /\ TakeFront(c) \/ WaitFor(c)

(* wait_for timed out: nullptr when the queue is still empty.              *)
GiveUp(c) ==
  /\ queue = <<>>
  /\ client' = [client EXCEPT ![c] = "idle"]
  /\ UNCHANGED <<queue, cnt, held, producer, undefined>>

(* Mutant: wait in place of wait_for.                                      *)
TimedOutNever(c) == FALSE

TimedOut(c) ==
  /\ ~undefined
  /\ client[c] = "waiting"
  /\ TakeFront(c) \/ GiveUp(c)

(* Notified, but past the deadline by the time it has the mutex.           *)
WokenTooLate(c) ==
  /\ ~undefined
  /\ client[c] = "woken"
  /\ TakeFront(c) \/ GiveUp(c)

(* Mutants: the deleter counts the connection as gone; it drops it.        *)
ReleaseUncounted(c) ==
  /\ ~undefined
  /\ held[c] # None
  /\ queue' = Append(queue, held[c])
  /\ held' = [held EXCEPT ![c] = None]
  /\ cnt' = cnt - 1
  /\ UNCHANGED <<client, producer, undefined>>

ReleaseDropped(c) ==
  /\ ~undefined
  /\ held[c] # None
  /\ held' = [held EXCEPT ![c] = None]
  /\ UNCHANGED <<queue, cnt, client, producer, undefined>>

(* The deleter of the shared_ptr puts the connection back; no notify.      *)
Release(c) ==
  /\ ~undefined
  /\ held[c] # None
  /\ queue' = Append(queue, held[c])
  /\ held' = [held EXCEPT ![c] = None]
  /\ UNCHANGED <<cnt, client, producer, undefined>>

-----------------------------------------------------------------------------
(* produce_connection_task                                                 *)

ProducerWait ==
  /\ ~undefined
  /\ producer # "waiting"
  /\ queue # <<>>
  /\ producer' = "waiting"
  /\ UNCHANGED <<queue, cnt, held, client, undefined>>

(* The rest of the iteration ends in notify_all, whatever it did.          *)
ProducerNotify ==
  /\ ~undefined
  /\ producer # "waiting"
  /\ queue = <<>>
  /\ client' = Woken(client)
  /\ producer' = "running"
  /\ UNCHANGED <<held, undefined>>

Produce ==
  /\ ProducerNotify
  /\ cnt < MaxSize
  /\ \E p \in Connections \ {held[c] : c \in Clients} : queue' = <<p>>
  /\ cnt' = cnt + 1

(* connect failed, or the pool is as large as it may be.                   *)
ProduceNothing ==
  /\ ProducerNotify
  /\ UNCHANGED <<queue, cnt>>

-----------------------------------------------------------------------------
(* scan_connection_task, one round: it deletes the k oldest connections of *)
(* the queue, those idle for too long, and stops at _init_size or at a     *)
(* younger one; but it looks at front() without asking for empty().        *)
Scan ==
  /\ ~undefined
  /\ cnt > InitSize
  /\ \E k \in 0 .. Len(queue) :
       /\ k <= cnt - InitSize
       /\ queue' = SubSeq(queue, k + 1, Len(queue))
       /\ cnt' = cnt - k
       /\ undefined' = (k = Len(queue) /\ k < cnt - InitSize)
  /\ UNCHANGED <<held, client, producer>>

(* _cv may also wake a thread nobody notified.                             *)
SpuriousWakeup ==
  /\ ~undefined
  /\ \/ producer = "waiting" /\ producer' = "woken" /\ UNCHANGED client
     \/ \E c \in Clients : /\ client[c] = "waiting"
                           /\ client' = [client EXCEPT ![c] = "woken"]
                           /\ UNCHANGED producer
  /\ UNCHANGED <<queue, cnt, held, undefined>>

ClientStep(c) ==
  \/ GetConnection(c) \/ LookAgain(c) \/ TimedOut(c) \/ WokenTooLate(c) \/ Release(c)

ProducerStep == ProducerWait \/ Produce \/ ProduceNothing

Next ==
  \/ \E c \in Clients : ClientStep(c)
  \/ ProducerStep \/ Scan \/ SpuriousWakeup

Spec == Init /\ [][Next]_vars

(* The threads run, a wait that nobody ends times out, and the database    *)
(* accepts a connection again and again; a client need not give its        *)
(* connection back, and the scanner need not find anything idle.           *)
Fairness ==
  /\ \A c \in Clients : WF_vars(LookAgain(c)) /\ WF_vars(TimedOut(c))
  /\ WF_vars(ProducerStep)
  /\ SF_vars(Produce)

FairSpec == Spec /\ Fairness
-----------------------------------------------------------------------------
(* Properties *)

(* A connection has one place: it is in the queue once, or held by one     *)
(* client, never both, so two clients never share one and the scanner      *)
(* never deletes one in use.                                               *)
Exclusive ==
  /\ \A i, j \in 1 .. Len(queue) : queue[i] = queue[j] => i = j
  /\ \A c, d \in InUse : held[c] = held[d] => c = d
  /\ \A c \in InUse : held[c] \notin Queued

(* _connection_cnt is the number of connections alive, and _max_size       *)
(* bounds it: connections come and go by four paths and two of them leave  *)
(* the counter alone.                                                      *)
CountExact == cnt = Len(queue) + Cardinality(InUse) /\ cnt <= MaxSize

(* The scanner only looks at connections that are in the queue.            *)
NoFrontOfEmpty == ~undefined

(* With no more clients than initial connections the pool keeps up: the    *)
(* queue has a front whenever the scanner looks, although it looks blindly.*)
EnoughInitially ==
  Cardinality(Clients) <= InitSize => NoFrontOfEmpty

(* The producer blocks because the queue is not empty.                     *)
ProducerBlocksOnlyWhenFilled == producer = "waiting" => queue # <<>>

(* With no more clients than initial connections, no client waits in       *)
(* getconnection while the producer sleeps over an empty queue, although   *)
(* the scanner empties the queue without telling it.                       *)
ProducerThereForWaiters ==
  Cardinality(Clients) <= InitSize /\ producer = "waiting" /\ queue = <<>> =>
    \A c \in Clients : client[c] = "idle"

(* A call of getconnection returns: with a connection, or with nullptr     *)
(* after _connettion_timeout.                                              *)
GetConnectionReturns == \A c \in Clients : client[c] # "idle" ~> client[c] = "idle"
=============================================================================
