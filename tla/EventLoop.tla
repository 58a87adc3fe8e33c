------------------------------ MODULE EventLoop ------------------------------
(***************************************************************************)
(* The reactor of test_epoll/lib: event loops, each run by the thread that *)
(* created it, the poll or epoll dispatcher under it, the list of pending  *)
(* channel requests a loop takes from other threads, and the socket pair   *)
(* that wakes it.  The main loop accepts connections and hands each one to *)
(* a loop; that loop reads from it and removes it when the peer closes.    *)
(*                                                                         *)
(* A thread is named by the loop it runs.  The wakeup and listening        *)
(* descriptors are registered before the first step and never removed, so  *)
(* they appear only as members of a dispatch's batch of ready descriptors. *)
(***************************************************************************)
EXTENDS Integers, Sequences, FiniteSets

CONSTANTS Loops,       \* event loops, each also naming its owner thread
          MainLoop,    \* the loop the acceptor runs in
          Workers,     \* loops thread_pool_get_loop may choose
          Channels,    \* connection channels that may be created
          Fds,         \* descriptors a connection may get
          FdOf,        \* channel->fd, fixed when the channel is created
          WakeFd,      \* socketPair[1] of a loop
          ListenFd,    \* the acceptor's descriptor
          Dispatcher,  \* "poll" or "epoll" (EPOLL_ENABLE)
          PollSize,    \* slots of the poll event_set left for connections
          WakeCap,     \* bytes socketPair[0] takes before a write blocks
          None         \* the NULL pointer, and no thread

VARIABLES mutex,             \* mutex[l]: thread that holds loop l's mutex
          is_handle_pending, \* flag set while loop l walks its list
          pending,           \* pending[l]: the channel_element list
          element,           \* element[l]: index of the next one to apply
          socketPair,        \* bytes written and not yet read
          entries,           \* channelMap->entries
          interest,          \* descriptors in the dispatcher's event set
          openFds,           \* connection descriptors open in the process
          created,           \* channels accepted so far
          pc,                \* where each thread is
          batch,             \* ready descriptors of the dispatch under way
          req,               \* request a thread is making, or None
          aborted            \* an assert, a NULL dereference or error(1)

vars == <<mutex, is_handle_pending, pending, element, socketPair, entries,
          interest, openFds, created, pc, batch, req, aborted>>

Element == [type : {"add", "remove"}, channel : Channels]
Request == [loop : Loops, element : Element]

ASSUME LoopsAssumption ==
  MainLoop \in Loops /\ Workers \subseteq Loops /\ Workers # {}
ASSUME FdsAssumption ==
  /\ Fds \subseteq Nat
  /\ FdOf \in [Channels -> Fds \cup {-1}]
  /\ WakeFd \in Nat /\ ListenFd \in Nat
  /\ WakeFd # ListenFd /\ {WakeFd, ListenFd} \cap Fds = {}
ASSUME DispatcherAssumption == Dispatcher \in {"poll", "epoll"}
ASSUME SizesAssumption == PollSize \in Nat /\ WakeCap \in Nat \ {0}
ASSUME NoneAssumption == None \notin Channels /\ None \notin Loops /\ None \notin Request

TypeOK ==
  /\ mutex \in [Loops -> Loops \cup {None}]
  /\ is_handle_pending \in [Loops -> BOOLEAN]
  /\ pending \in [Loops -> Seq(Element)]
  /\ element \in [Loops -> Nat \ {0}]
  /\ socketPair \in [Loops -> 0 .. WakeCap]
  /\ entries \in [Loops -> [Fds -> Channels \cup {None}]]
  /\ interest \in [Loops -> SUBSET Fds]
  /\ openFds \subseteq Fds
  /\ created \subseteq Channels
  /\ pc \in [Loops -> {"dispatch", "events", "reqLock", "reqUnlock", "wakeup",
                       "pendLock", "pending", "callback"}]
  /\ batch \in [Loops -> SUBSET (Fds \cup {WakeFd, ListenFd})]
  /\ req \in [Loops -> Request \cup {None}]
  /\ aborted \in BOOLEAN

Init ==
  /\ mutex = [l \in Loops |-> None]
  /\ is_handle_pending = [l \in Loops |-> FALSE]
  /\ pending = [l \in Loops |-> <<>>]
  /\ element = [l \in Loops |-> 1]
  /\ socketPair = [l \in Loops |-> 0]
  /\ entries = [l \in Loops |-> [f \in Fds |-> None]]
  /\ interest = [l \in Loops |-> {}]
  /\ openFds = {}
  /\ created = {}
  /\ pc = [l \in Loops |-> "dispatch"]
  /\ batch = [l \in Loops |-> {}]
  /\ req = [l \in Loops |-> None]
  /\ aborted = FALSE

Goto(t, label) == pc' = [pc EXCEPT ![t] = label]
At(t, label) == ~aborted /\ pc[t] = label

-----------------------------------------------------------------------------
(* dispatcher->dispatch: the kernel reports connections the peers made     *)
(* ready, the wakeup descriptor exactly when a byte is there, and the      *)
(* listening descriptor when a client waits.  poll also returns with       *)
(* nothing after its one second timeout; epoll_wait blocks for ever.       *)

(* accept gives a descriptor that is not open, or fails with -1.           *)
Acceptable(d) == d \notin created /\ FdOf[d] \notin openFds

(* Mutant: the wakeup descriptor is not watched.                           *)
WakeReadyNever(t) == {}

WakeReady(t) == IF socketPair[t] > 0 THEN {WakeFd} ELSE {}

MayListen(t) ==
  IF t = MainLoop /\ \E d \in Channels : Acceptable(d) THEN {{}, {ListenFd}} ELSE {{}}

Dispatch(t) ==
  /\ At(t, "dispatch")
  /\ \E ready \in SUBSET interest[t], listen \in MayListen(t) :
       /\ batch' = [batch EXCEPT ![t] = ready \cup listen \cup WakeReady(t)]
       /\ Dispatcher = "epoll" => batch'[t] # {}
  /\ Goto(t, "events")
  /\ UNCHANGED <<mutex, is_handle_pending, pending, element, socketPair, entries,
                 interest, openFds, created, req, aborted>>

(* handleWakeup reads one byte, whatever number of wakeups was written.    *)
HandleWakeup(t) ==
  /\ At(t, "events")
  /\ WakeFd \in batch[t]
  /\ socketPair[t] > 0
  /\ socketPair' = [socketPair EXCEPT ![t] = @ - 1]
  /\ batch' = [batch EXCEPT ![t] = @ \ {WakeFd}]
  /\ UNCHANGED <<mutex, is_handle_pending, pending, element, entries, interest,
                 openFds, created, pc, req, aborted>>

(* channel_event_activate looks the descriptor up and asserts on it.       *)
ChannelFound(t, f) == entries[t][f] # None /\ FdOf[entries[t][f]] = f

(* handle_read on descriptor f got data and ran the message callback.      *)
ReadMessageOn(t, f) ==
  /\ At(t, "events")
  /\ aborted' = ~ChannelFound(t, f)
  /\ batch' = [batch EXCEPT ![t] = @ \ {f}]
  /\ UNCHANGED <<mutex, is_handle_pending, pending, element, socketPair, entries,
                 interest, openFds, created, pc, req>>

(* handle_read got 0 or -1: handle_connection_closed asks for the removal. *)
(* The descriptor is not closed.                                           *)
ReadClosedOn(t, f) ==
  /\ At(t, "events")
  /\ batch' = [batch EXCEPT ![t] = @ \ {f}]
  /\ IF ChannelFound(t, f)
     THEN /\ req' = [req EXCEPT ![t] =
               [loop |-> t, element |-> [type |-> "remove", channel |-> entries[t][f]]]]
          /\ Goto(t, "reqLock")
          /\ UNCHANGED aborted
     ELSE /\ aborted' = TRUE
          /\ UNCHANGED <<req, pc>>
  /\ UNCHANGED <<mutex, is_handle_pending, pending, element, socketPair, entries,
                 interest, openFds, created>>

(* epoll_dispatch closes a descriptor reported with EPOLLERR or EPOLLHUP,  *)
(* which takes it out of the epoll set; the channel map is not told.       *)
HangUpOn(t, f) ==
  /\ Dispatcher = "epoll"
  /\ At(t, "events")
  /\ batch' = [batch EXCEPT ![t] = @ \ {f}]
  /\ openFds' = openFds \ {f}
  /\ interest' = [interest EXCEPT ![t] = @ \ {f}]
  /\ UNCHANGED <<mutex, is_handle_pending, pending, element, socketPair, entries,
                 created, pc, req, aborted>>

(* handle_connection_established and tcp_connection_new for channel d, up  *)
(* to the call of event_loop_add_channel_event on the chosen loop w.       *)
AcceptOn(t, d, w) ==
  /\ At(t, "events")
  /\ ListenFd \in batch[t]
  /\ batch' = [batch EXCEPT ![t] = @ \ {ListenFd}]
  /\ Acceptable(d)
  /\ created' = created \cup {d}
  /\ openFds' = openFds \cup ({FdOf[d]} \cap Fds)
  /\ req' = [req EXCEPT ![t] = [loop |-> w, element |-> [type |-> "add", channel |-> d]]]
  /\ Goto(t, "reqLock")
  /\ UNCHANGED <<mutex, is_handle_pending, pending, element, socketPair, entries,
                 interest, aborted>>

ReadMessage(t) == \E f \in batch[t] \cap Fds : ReadMessageOn(t, f)
ReadClosed(t)  == \E f \in batch[t] \cap Fds : ReadClosedOn(t, f)
HangUp(t)      == \E f \in batch[t] \cap Fds : HangUpOn(t, f)
Accept(t)      == \E d \in Channels, w \in Workers : AcceptOn(t, d, w)

(* The for loop over the ready descriptors is over.                        *)
DispatchReturn(t) ==
  /\ At(t, "events")
  /\ batch[t] = {}
  /\ Goto(t, "pendLock")
  /\ UNCHANGED <<mutex, is_handle_pending, pending, element, socketPair, entries,
                 interest, openFds, created, batch, req, aborted>>

-----------------------------------------------------------------------------
(* event_loop_do_channel_event by thread t, on loop req[t].loop.           *)

RequestLock(t) ==
  /\ At(t, "reqLock")
  /\ LET l == req[t].loop IN
       /\ mutex[l] = None
       /\ mutex' = [mutex EXCEPT ![l] = t]
       /\ IF is_handle_pending[l]
          THEN aborted' = TRUE /\ UNCHANGED pending
          ELSE /\ pending' = [pending EXCEPT ![l] = Append(@, req[t].element)]
               /\ UNCHANGED aborted
  /\ Goto(t, "reqUnlock")
  /\ UNCHANGED <<is_handle_pending, element, socketPair, entries, interest,
                 openFds, created, batch, req>>

(* A thread applies a request on its own loop at once, and wakes another.  *)
(* Mutants: the other loop is not woken; an own request waits in the list. *)
AfterRequestSilent(t) == IF req[t].loop = t THEN "pendLock" ELSE "callback"
AfterRequestQueued(t) == "wakeup"

AfterRequest(t) == IF req[t].loop = t THEN "pendLock" ELSE "wakeup"

RequestUnlock(t) ==
  /\ At(t, "reqUnlock")
  /\ mutex' = [mutex EXCEPT ![req[t].loop] = None]
  /\ Goto(t, AfterRequest(t))
  /\ UNCHANGED <<is_handle_pending, pending, element, socketPair, entries,
                 interest, openFds, created, batch, req, aborted>>

Wakeup(t) ==
  /\ At(t, "wakeup")
  /\ socketPair[req[t].loop] < WakeCap
  /\ socketPair' = [socketPair EXCEPT ![req[t].loop] = @ + 1]
  /\ Goto(t, "callback")
  /\ UNCHANGED <<mutex, is_handle_pending, pending, element, entries, interest,
                 openFds, created, batch, req, aborted>>

(* The rest of the callback that made the request: the closed callback of  *)
(* the application, or the end of handle_connection_established.           *)
CallbackReturn(t) ==
  /\ At(t, "callback")
  /\ req' = [req EXCEPT ![t] = None]
  /\ Goto(t, "events")
  /\ UNCHANGED <<mutex, is_handle_pending, pending, element, socketPair, entries,
                 interest, openFds, created, batch, aborted>>

-----------------------------------------------------------------------------
(* event_loop_handle_pending_channel, called by the loop's own thread from *)
(* event_loop_run (req[t] = None) or from its own request.                 *)

PendingLock(t) ==
  /\ At(t, "pendLock")
  /\ mutex[t] = None
  /\ mutex' = [mutex EXCEPT ![t] = t]
  /\ is_handle_pending' = [is_handle_pending EXCEPT ![t] = TRUE]
  /\ element' = [element EXCEPT ![t] = 1]
  /\ Goto(t, "pending")
  /\ UNCHANGED <<pending, socketPair, entries, interest, openFds, created, batch,
                 req, aborted>>

(* Mutant: the last slot of the poll set is left free.                     *)
PollAddShort(t, f) ==
  /\ interest' = IF Cardinality(interest[t]) < PollSize - 1
                 THEN [interest EXCEPT ![t] = @ \cup {f}]
                 ELSE interest
  /\ UNCHANGED aborted

(* poll_add takes the first free slot and only logs when there is none.    *)
PollAdd(t, f) ==
  /\ interest' = IF Cardinality(interest[t]) < PollSize
                 THEN [interest EXCEPT ![t] = @ \cup {f}]
                 ELSE interest
  /\ UNCHANGED aborted

(* epoll_add exits the process when epoll_ctl fails.                       *)
EpollAdd(t, f) ==
  /\ interest' = [interest EXCEPT ![t] = @ \cup {f}]
  /\ aborted' = (f \notin openFds \/ f \in interest[t])

DispatcherAdd(t, f) ==
  \/ Dispatcher = "poll" /\ PollAdd(t, f)
  \/ Dispatcher = "epoll" /\ EpollAdd(t, f)

(* poll_del frees the slot, or only logs when there is none to free;       *)
(* epoll_del exits when epoll_ctl fails.                                   *)
PollDel(t, f) ==
  /\ interest' = [interest EXCEPT ![t] = @ \ {f}]
  /\ UNCHANGED aborted

EpollDel(t, f) ==
  /\ interest' = [interest EXCEPT ![t] = @ \ {f}]
  /\ aborted' = (f \notin openFds \/ f \notin interest[t])

(* Mutant: the dispatcher goes on watching.                                *)
DispatcherDelNothing(t, f) == UNCHANGED <<interest, aborted>>

DispatcherDel(t, f) ==
  \/ Dispatcher = "poll" /\ PollDel(t, f)
  \/ Dispatcher = "epoll" /\ EpollDel(t, f)

HandlePendingAdd(t, d) ==
  IF FdOf[d] < 0 \/ entries[t][FdOf[d]] # None
  THEN UNCHANGED <<entries, interest, aborted>>
  ELSE /\ entries' = [entries EXCEPT ![t][FdOf[d]] = d]
       /\ DispatcherAdd(t, FdOf[d])

(* Mutants: the removal is skipped; the channel map keeps the channel.     *)
HandlePendingRemoveNothing(t, d) == UNCHANGED <<entries, interest, aborted>>
HandlePendingRemoveHalf(t, d) == DispatcherDel(t, FdOf[d]) /\ UNCHANGED entries

HandlePendingRemove(t, d) ==
  IF FdOf[d] < 0 THEN UNCHANGED <<entries, interest, aborted>>
  ELSE IF entries[t][FdOf[d]] = None
  THEN aborted' = TRUE /\ UNCHANGED <<entries, interest>>
  ELSE /\ DispatcherDel(t, FdOf[entries[t][FdOf[d]]])
       /\ entries' = [entries EXCEPT ![t][FdOf[d]] = None]

PendingStep(t) ==
  /\ At(t, "pending")
  /\ element[t] <= Len(pending[t])
  /\ LET e == pending[t][element[t]] IN
       \/ e.type = "add" /\ HandlePendingAdd(t, e.channel)
       \/ e.type = "remove" /\ HandlePendingRemove(t, e.channel)
  /\ element' = [element EXCEPT ![t] = @ + 1]
  /\ UNCHANGED <<mutex, is_handle_pending, pending, socketPair, openFds, created,
                 pc, batch, req>>

PendingUnlock(t) ==
  /\ At(t, "pending")
  /\ element[t] > Len(pending[t])
  /\ pending' = [pending EXCEPT ![t] = <<>>]
  /\ element' = [element EXCEPT ![t] = 1]
  /\ is_handle_pending' = [is_handle_pending EXCEPT ![t] = FALSE]
  /\ mutex' = [mutex EXCEPT ![t] = None]
  /\ Goto(t, IF req[t] = None THEN "dispatch" ELSE "callback")
  /\ UNCHANGED <<socketPair, entries, interest, openFds, created, batch, req, aborted>>

-----------------------------------------------------------------------------

Callback(t) == HandleWakeup(t) \/ ReadMessage(t) \/ ReadClosed(t) \/ HangUp(t) \/ Accept(t)

RequestStep(t) ==
  RequestLock(t) \/ RequestUnlock(t) \/ Wakeup(t) \/ CallbackReturn(t)

HandlePending(t) == PendingLock(t) \/ PendingStep(t) \/ PendingUnlock(t)

Step(t) ==
  Dispatch(t) \/ Callback(t) \/ DispatchReturn(t) \/ RequestStep(t) \/ HandlePending(t)

Next == \E t \in Loops : Step(t)

(* A dispatch must return when its wakeup descriptor is readable, and with *)
(* poll also at the timeout; it owes nothing to silent peers.  A thread    *)
(* that waits for a mutex gets it if it is free again and again: between   *)
(* two of its short critical sections the other thread goes through a      *)
(* whole dispatch with the mutex free, and pthread_mutex_unlock wakes a    *)
(* waiter.                                                                 *)
DispatchDue(t) == Dispatch(t) /\ (Dispatcher = "poll" \/ socketPair[t] > 0)

Fairness ==
  \A t \in Loops : /\ WF_vars(DispatchDue(t))
                   /\ WF_vars(Callback(t))
                   /\ WF_vars(DispatchReturn(t))
                   /\ SF_vars(RequestLock(t))
                   /\ WF_vars(RequestUnlock(t) \/ Wakeup(t) \/ CallbackReturn(t))
                   /\ SF_vars(PendingLock(t))
                   /\ WF_vars(PendingStep(t) \/ PendingUnlock(t))

Spec == Init /\ [][Next]_vars
FairSpec == Spec /\ Fairness
-----------------------------------------------------------------------------
(* Properties *)

(* The pending list of a loop, with its flag, is touched by one thread at  *)
(* a time: event_loop_do_channel_event and                                 *)
(* event_loop_handle_pending_channel never overlap on a loop.              *)
Holds(t, l) ==
  \/ pc[t] = "reqUnlock" /\ req[t].loop = l
  \/ t = l /\ pc[t] = "pending"

ListGuarded ==
  \A l \in Loops : /\ \A t, u \in Loops : Holds(t, l) /\ Holds(u, l) => t = u
                   /\ is_handle_pending[l] <=> pc[l] = "pending"

(* No assert of event_loop.c fails, no lookup in the channel map meets a   *)
(* NULL channel, and no epoll_ctl is refused: an event is never delivered  *)
(* for a descriptor whose channel has been removed or replaced.            *)
NoAbort == ~aborted

(* A loop that waits in its dispatcher with requests in its list has a     *)
(* wakeup byte to read, or a thread is about to write one.                 *)
NoLostWakeup ==
  \A l \in Loops :
    pc[l] = "dispatch" /\ pending[l] # <<>> =>
      \/ socketPair[l] > 0
      \/ \E t \in Loops \ {l} : pc[t] \in {"reqUnlock", "wakeup"} /\ req[t].loop = l

(* handleWakeup reads a blocking socket; when it runs there is a byte, so  *)
(* a loop never hangs in it.                                               *)
WakeupReadNeverBlocks == \A l \in Loops : WakeFd \in batch[l] => socketPair[l] > 0

(* A descriptor is watched by at most one loop, although the hung up ones  *)
(* are closed behind the channel map's back and given out again, so two    *)
(* threads never run the callbacks of one connection.                      *)
OneLoopPerFd == \A l, k \in Loops : l # k => interest[l] \cap interest[k] = {}

(* When the closed callback of the application runs, the connection is out *)
(* of the dispatcher and of the channel map: handle_connection_closed may  *)
(* rely on the removal having been applied, not merely queued.             *)
RemoveIsSynchronous ==
  \A t \in Loops :
    pc[t] = "callback" /\ req[t].element.type = "remove" =>
      LET d == req[t].element.channel IN
        FdOf[d] \notin interest[t] /\ entries[t][FdOf[d]] # d

(* Applying the request to add a connection makes its loop watch it and    *)
(* find its channel.                                                       *)
AddTakesEffect ==
  [][\A t \in Loops : PendingStep(t) =>
       LET e == pending[t][element[t]]
           f == FdOf[e.channel]
       IN  e.type = "add" /\ f \in Fds => f \in interest'[t] /\ entries'[t][f] = e.channel]_vars

(* The event loops implement ChannelRegistry: the list from the element    *)
(* about to be applied on is the queue.  With FairSpec this is also the    *)
(* promise that every request is applied in the end.                       *)
Unapplied(l) == SubSeq(pending[l], element[l], Len(pending[l]))

Registry == INSTANCE ChannelRegistry
              WITH queue <- [l \in Loops |-> Unapplied(l)], registered <- entries

ImplementsRegistry == Registry!RegSpec

(* A thread that has started a request finishes it: neither the mutexes    *)
(* nor a full socket pair can hold the main loop or a worker for ever.     *)
RequestsReturn == \A t \in Loops : req[t] # None ~> req[t] = None
==============================================================================
