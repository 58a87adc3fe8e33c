-------------------------- MODULE EventLoopInvariant --------------------------
(***************************************************************************)
(* The inductive invariant behind the safety properties of EventLoop.      *)
(* Each part says what one piece of the reactor relies on; none of them is *)
(* inductive alone, because a request is looked at in one place (the       *)
(* requester, the list, the channel map) and honoured in another.          *)
(***************************************************************************)
EXTENDS EventLoop

(* The mutex is held exactly by the thread inside the critical section.    *)
LockInv ==
  /\ \A l, t \in Loops : mutex[l] = t <=> Holds(t, l)
  /\ \A l \in Loops : is_handle_pending[l] <=> pc[l] = "pending"
  /\ \A l \in Loops : pc[l] # "pending" => element[l] = 1

(* What a thread's request may be at each point of its loop.               *)
RequestInv ==
  \A t \in Loops :
    /\ pc[t] \in {"dispatch", "events"} => req[t] = None
    /\ pc[t] \in {"reqLock", "reqUnlock", "wakeup", "callback"} => req[t] \in Request
    /\ pc[t] = "wakeup" => req[t].loop # t
    /\ pc[t] \in {"pendLock", "pending"} /\ req[t] # None => req[t].loop = t
    /\ req[t] # None /\ req[t].element.type = "remove" => req[t].loop = t
    /\ req[t] = None /\ pc[t] # "events" => batch[t] = {}

(* The channel map covers what the dispatcher watches, and a ready         *)
(* descriptor not yet handled is still watched.                            *)
MapInv ==
  \A l \in Loops, f \in Fds :
    /\ entries[l][f] # None => FdOf[entries[l][f]] = f
    /\ f \in interest[l] => entries[l][f] # None /\ f \in openFds
    /\ f \in batch[l] => f \in interest[l]

(* Requests on their way: asked for but not in a list yet, or in a list    *)
(* and not applied.                                                        *)
Adds(e, f) == e.type = "add" /\ FdOf[e.channel] = f
Waiting(l) == element[l] .. Len(pending[l])
AskedAdd(t, f) == pc[t] = "reqLock" /\ Adds(req[t].element, f)
QueuedAdd(l, i, f) == Adds(pending[l][i], f)
QueuedRemove(l, i) == pending[l][i].type = "remove"

(* A descriptor on its way to a loop is open, watched by nobody and in no  *)
(* other place on its way.                                                 *)
Unwatched(f) == f \in openFds /\ \A k \in Loops : f \notin interest[k]

FlightInv ==
  \A f \in Fds :
    /\ \A t \in Loops : AskedAdd(t, f) => Unwatched(f)
    /\ \A l \in Loops : \A i \in Waiting(l) : QueuedAdd(l, i, f) => Unwatched(f)
    /\ \A t, u \in Loops : AskedAdd(t, f) /\ AskedAdd(u, f) => t = u
    /\ \A t, l \in Loops : \A i \in Waiting(l) : ~(AskedAdd(t, f) /\ QueuedAdd(l, i, f))
    /\ \A l, k \in Loops : \A i \in Waiting(l), j \in Waiting(k) :
         QueuedAdd(l, i, f) /\ QueuedAdd(k, j, f) => l = k /\ i = j

(* A channel whose removal is under way is registered and watched, and no  *)
(* event is waiting for it; a removal is in the list only while its thread *)
(* is inside the call that made it.                                        *)
Registered(t, d) ==
  /\ FdOf[d] \in interest[t]
  /\ entries[t][FdOf[d]] = d
  /\ FdOf[d] \notin batch[t]

(* A channel whose removal has been applied; its descriptor stays open, so *)
(* it cannot come back under another channel.                              *)
Removed(t, d) ==
  /\ FdOf[d] \in Fds
  /\ Unwatched(FdOf[d])
  /\ entries[t][FdOf[d]] # d
  /\ \A u \in Loops : ~AskedAdd(u, FdOf[d])
  /\ \A l \in Loops : \A i \in Waiting(l) : ~QueuedAdd(l, i, FdOf[d])

Removing(t) == req[t] # None /\ req[t].element.type = "remove"

RemovalOf(t) ==
  /\ pc[t] = "reqLock" /\ Removing(t) =>
       /\ Registered(t, req[t].element.channel)
       /\ \A i \in Waiting(t) : ~QueuedRemove(t, i)
  /\ \A i \in Waiting(t) : QueuedRemove(t, i) =>
       /\ pc[t] \in {"reqUnlock", "pendLock", "pending"}
       /\ Removing(t)
       /\ pending[t][i] = req[t].element
       /\ Registered(t, req[t].element.channel)
  /\ \A i, j \in Waiting(t) : QueuedRemove(t, i) /\ QueuedRemove(t, j) => i = j
  /\ pc[t] \in {"reqUnlock", "pendLock"} /\ Removing(t) =>
       \E i \in Waiting(t) : QueuedRemove(t, i)
  /\ pc[t] = "pending" /\ Removing(t) =>
       \/ \E i \in Waiting(t) : QueuedRemove(t, i)
       \/ Removed(t, req[t].element.channel)
  /\ pc[t] = "callback" /\ Removing(t) => Removed(t, req[t].element.channel)

RemoveInv == \A t \in Loops : RemovalOf(t)

(* All of it, with the properties that are inductive beside it.            *)
IInv ==
  /\ TypeOK
  /\ LockInv
  /\ RequestInv
  /\ MapInv
  /\ FlightInv
  /\ RemoveInv
  /\ OneLoopPerFd
  /\ NoAbort
  /\ NoLostWakeup
  /\ WakeupReadNeverBlocks
===============================================================================
