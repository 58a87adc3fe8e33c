--------------------------- MODULE EventLoopProofs ---------------------------
(***************************************************************************)
(* Proofs that the safety properties of EventLoop hold for every number of *)
(* loops, channels and descriptors, for both dispatchers and for every     *)
(* size of the poll set and of the socket pair.                            *)
(***************************************************************************)
EXTENDS EventLoopInvariant, FiniteSetTheorems, SequenceTheorems, TLAPS

(* The element about to be applied is an element of the list.              *)
LEMMA QueueElement ==
  ASSUME TypeOK, NEW l \in Loops, NEW i \in Waiting(l)
  PROVE  pending[l][i] \in Element
  <1>1. pending[l] \in Seq(Element) /\ i \in 1 .. Len(pending[l])
    BY DEF TypeOK, Waiting
  <1> QED
    BY <1>1

(* The four outcomes of applying one element, for a channel d.             *)
AddIgnored(t, d) ==
  /\ pending[t][element[t]].type = "add"
  /\ FdOf[d] < 0 \/ entries[t][FdOf[d]] # None
  /\ UNCHANGED <<entries, interest, aborted>>

AddDone(t, d) ==
  /\ pending[t][element[t]].type = "add"
  /\ FdOf[d] \in Fds /\ entries[t][FdOf[d]] = None
  /\ entries' = [entries EXCEPT ![t] = [entries[t] EXCEPT ![FdOf[d]] = d]]
  /\ interest' = interest \/ interest' = [interest EXCEPT ![t] = @ \cup {FdOf[d]}]
  /\ aborted' \in BOOLEAN
  /\ aborted' => aborted \/ FdOf[d] \notin openFds \/ FdOf[d] \in interest[t]

RemoveIgnored(t, d) ==
  /\ pending[t][element[t]].type = "remove"
  /\ FdOf[d] < 0 \/ (entries[t][FdOf[d]] = None /\ aborted' = TRUE)
  /\ FdOf[d] < 0 => UNCHANGED aborted
  /\ UNCHANGED <<entries, interest>>

RemoveDone(t, d) ==
  /\ pending[t][element[t]].type = "remove"
  /\ FdOf[d] \in Fds /\ entries[t][FdOf[d]] # None
  /\ entries' = [entries EXCEPT ![t] = [entries[t] EXCEPT ![FdOf[d]] = None]]
  /\ interest' = [interest EXCEPT ![t] = @ \ {FdOf[entries[t][FdOf[d]]]}]
  /\ aborted' \in BOOLEAN
  /\ LET g == FdOf[entries[t][FdOf[d]]] IN
       aborted' => aborted \/ g \notin openFds \/ g \notin interest[t]

(* The channel of the element about to be applied.                         *)
Current(t) == pending[t][element[t]].channel

LEMMA CurrentChannel ==
  ASSUME TypeOK, NEW t \in Loops, PendingStep(t)
  PROVE  Current(t) \in Channels /\ element[t] \in Waiting(t)
  <1>1. element[t] \in Nat \ {0} /\ pending[t] \in Seq(Element)
    BY DEF TypeOK
  <1>2. element[t] \in Waiting(t)
    BY <1>1 DEF PendingStep, Waiting
  <1>3. pending[t][element[t]] \in Element
    BY <1>2, QueueElement
  <1> QED
    BY <1>2, <1>3 DEF Element, Current

LEMMA PendingOutcome ==
  ASSUME TypeOK, NEW t \in Loops, PendingStep(t)
  PROVE  \/ AddIgnored(t, Current(t)) \/ AddDone(t, Current(t))
         \/ RemoveIgnored(t, Current(t)) \/ RemoveDone(t, Current(t))
  <1>1. Current(t) \in Channels
    BY CurrentChannel
  <1>2. \/ pending[t][element[t]].type = "add" /\ HandlePendingAdd(t, Current(t))
        \/ pending[t][element[t]].type = "remove" /\ HandlePendingRemove(t, Current(t))
    BY DEF PendingStep, Current
  <1>3. aborted \in BOOLEAN
    BY DEF TypeOK
  <1> SUFFICES ASSUME NEW d \in Channels,
                      \/ pending[t][element[t]].type = "add" /\ HandlePendingAdd(t, d)
                      \/ pending[t][element[t]].type = "remove" /\ HandlePendingRemove(t, d)
               PROVE  AddIgnored(t, d) \/ AddDone(t, d) \/ RemoveIgnored(t, d) \/ RemoveDone(t, d)
    BY <1>1, <1>2
  <1>4. FdOf[d] < 0 \/ (FdOf[d] \in Fds /\ ~(FdOf[d] < 0))
    BY FdsAssumption
  <1>5. ASSUME pending[t][element[t]].type = "add", HandlePendingAdd(t, d)
        PROVE  AddIgnored(t, d) \/ AddDone(t, d)
    <2>1. CASE FdOf[d] < 0 \/ entries[t][FdOf[d]] # None
      BY <1>5, <2>1 DEF HandlePendingAdd, AddIgnored
    <2>2. CASE ~(FdOf[d] < 0 \/ entries[t][FdOf[d]] # None)
      BY <1>3, <1>4, <1>5, <2>2 DEF HandlePendingAdd, DispatcherAdd,
           PollAdd, EpollAdd, AddDone
    <2> QED
      BY <2>1, <2>2
  <1>6. ASSUME pending[t][element[t]].type = "remove", HandlePendingRemove(t, d)
        PROVE  RemoveIgnored(t, d) \/ RemoveDone(t, d)
    <2>1. CASE FdOf[d] < 0
      BY <1>6, <2>1 DEF HandlePendingRemove, RemoveIgnored
    <2>2. CASE ~(FdOf[d] < 0) /\ entries[t][FdOf[d]] = None
      BY <1>6, <2>2 DEF HandlePendingRemove, RemoveIgnored
    <2>3. CASE ~(FdOf[d] < 0) /\ entries[t][FdOf[d]] # None
      BY <1>3, <1>4, <1>6, <2>3 DEF HandlePendingRemove, DispatcherDel,
           PollDel, EpollDel, RemoveDone
    <2> QED
      BY <2>1, <2>2, <2>3
  <1> QED
    BY <1>5, <1>6

(* Every step keeps the variables in their types.                          *)
LEMMA TypeStep == TypeOK /\ RequestInv /\ [Next]_vars => TypeOK'
  <1> SUFFICES ASSUME TypeOK, RequestInv, [Next]_vars PROVE TypeOK'
    OBVIOUS
  <1> USE DEF TypeOK, At, Goto
  <1>1. CASE UNCHANGED vars
    BY <1>1 DEF vars
  <1>2. ASSUME NEW t \in Loops, Dispatch(t) PROVE TypeOK'
    <2>1. PICK ready \in SUBSET interest[t], listen \in MayListen(t) :
            batch' = [batch EXCEPT ![t] = ready \cup listen \cup WakeReady(t)]
      BY <1>2 DEF Dispatch
    <2>2. ready \cup listen \cup WakeReady(t) \subseteq Fds \cup {WakeFd, ListenFd}
      BY DEF WakeReady, MayListen
    <2>3. batch' \in [Loops -> SUBSET (Fds \cup {WakeFd, ListenFd})]
      BY <2>1, <2>2
    <2> QED
      BY <1>2, <2>3 DEF Dispatch
  <1>3. ASSUME NEW t \in Loops, HandleWakeup(t) PROVE TypeOK'
    BY <1>3, SizesAssumption DEF HandleWakeup
  <1>4. ASSUME NEW t \in Loops, ReadMessage(t) PROVE TypeOK'
    BY <1>4 DEF ReadMessage, ReadMessageOn, ChannelFound
  <1>5. ASSUME NEW t \in Loops, ReadClosed(t) PROVE TypeOK'
    <2>1. PICK f \in batch[t] \cap Fds :
            /\ batch' = [batch EXCEPT ![t] = @ \ {f}]
            /\ IF ChannelFound(t, f)
               THEN /\ req' = [req EXCEPT ![t] = [loop |-> t,
                         element |-> [type |-> "remove", channel |-> entries[t][f]]]]
                    /\ pc' = [pc EXCEPT ![t] = "reqLock"]
                    /\ UNCHANGED aborted
               ELSE /\ aborted' = TRUE
                    /\ UNCHANGED <<req, pc>>
      BY <1>5 DEF ReadClosed, ReadClosedOn
    <2>2. ASSUME ChannelFound(t, f)
          PROVE [loop |-> t, element |-> [type |-> "remove", channel |-> entries[t][f]]] \in Request
      <3>1. entries[t][f] \in Channels
        BY <2>2 DEF ChannelFound
      <3> QED
        BY <3>1 DEF Request, Element
    <2>3. req' \in [Loops -> Request \cup {None}]
      BY <2>1, <2>2
    <2>4. aborted' \in BOOLEAN
      BY <2>1
    <2>5. UNCHANGED <<mutex, is_handle_pending, pending, element, socketPair, entries,
                      interest, openFds, created>>
      BY <1>5 DEF ReadClosed, ReadClosedOn
    <2>6. pc' = pc \/ pc' = [pc EXCEPT ![t] = "reqLock"]
      BY <2>1
    <2> QED
      BY <2>1, <2>3, <2>4, <2>5, <2>6
  <1>6. ASSUME NEW t \in Loops, HangUp(t) PROVE TypeOK'
    BY <1>6 DEF HangUp, HangUpOn
  <1>7. ASSUME NEW t \in Loops, Accept(t) PROVE TypeOK'
    <2>1. PICK d \in Channels, w \in Workers :
            /\ created' = created \cup {d}
            /\ openFds' = openFds \cup ({FdOf[d]} \cap Fds)
            /\ req' = [req EXCEPT ![t] =
                         [loop |-> w, element |-> [type |-> "add", channel |-> d]]]
      BY <1>7 DEF Accept, AcceptOn
    <2>2. [loop |-> w, element |-> [type |-> "add", channel |-> d]] \in Request
      BY LoopsAssumption DEF Request, Element
    <2>3. req' \in [Loops -> Request \cup {None}]
      BY <2>1, <2>2
    <2> QED
      BY <1>7, <2>1, <2>3 DEF Accept, AcceptOn
  <1>8. ASSUME NEW t \in Loops, DispatchReturn(t) PROVE TypeOK'
    BY <1>8 DEF DispatchReturn
  <1>9. ASSUME NEW t \in Loops, RequestLock(t) PROVE TypeOK'
    <2>1. /\ req[t] \in Request
          /\ req[t].loop \in Loops
          /\ req[t].element \in Element
      BY <1>9 DEF RequestLock, RequestInv, Request
    <2>2. pending' = pending \/ pending' = [pending EXCEPT ![req[t].loop] = Append(@, req[t].element)]
      BY <1>9 DEF RequestLock
    <2>3. pending' \in [Loops -> Seq(Element)]
      <3>1. pending[req[t].loop] \in Seq(Element)
        BY <2>1
      <3>2. Append(pending[req[t].loop], req[t].element) \in Seq(Element)
        BY <2>1, <3>1
      <3> QED
        BY <2>1, <2>2, <3>2
    <2>4. aborted' \in BOOLEAN
      BY <1>9 DEF RequestLock
    <2> QED
      BY <1>9, <2>1, <2>3, <2>4 DEF RequestLock
  <1>10. ASSUME NEW t \in Loops, RequestUnlock(t) PROVE TypeOK'
    BY <1>10 DEF RequestUnlock, AfterRequest
  <1>11. ASSUME NEW t \in Loops, Wakeup(t) PROVE TypeOK'
    <2>1. req[t].loop \in Loops
      BY <1>11 DEF Wakeup, RequestInv, Request
    <2>2. socketPair[req[t].loop] + 1 \in 0 .. WakeCap
      BY <1>11, <2>1, SizesAssumption DEF Wakeup
    <2>3. socketPair' \in [Loops -> 0 .. WakeCap]
      BY <1>11, <2>1, <2>2 DEF Wakeup
    <2> QED
      BY <1>11, <2>3 DEF Wakeup
  <1>12. ASSUME NEW t \in Loops, CallbackReturn(t) PROVE TypeOK'
    BY <1>12 DEF CallbackReturn
  <1>13. ASSUME NEW t \in Loops, PendingLock(t) PROVE TypeOK'
    BY <1>13 DEF PendingLock
  <1>14. ASSUME NEW t \in Loops, PendingStep(t) PROVE TypeOK'
    <2>1. element[t] + 1 \in Nat \ {0}
      OBVIOUS
    <2>2. PICK d \in Channels :
            AddIgnored(t, d) \/ AddDone(t, d) \/ RemoveIgnored(t, d) \/ RemoveDone(t, d)
      BY <1>14, PendingOutcome, CurrentChannel
    <2> DEFINE f == FdOf[d]
    <2>3. CASE AddIgnored(t, d) \/ RemoveIgnored(t, d)
      BY <1>14, <2>1, <2>3 DEF PendingStep, AddIgnored, RemoveIgnored
    <2>4. CASE AddDone(t, d)
      <3>1. [entries[t] EXCEPT ![f] = d] \in [Fds -> Channels \cup {None}]
        BY <2>1, <2>4 DEF AddDone
      <3>2. entries' \in [Loops -> [Fds -> Channels \cup {None}]]
        BY <3>1, <2>4 DEF AddDone
      <3>3. interest' \in [Loops -> SUBSET Fds]
        <4>1. interest[t] \cup {f} \in SUBSET Fds
          BY <2>4 DEF AddDone
        <4> QED
          BY <2>4, <4>1 DEF AddDone
      <3>4. aborted' \in BOOLEAN
        BY <2>4 DEF AddDone
      <3> QED
        BY <1>14, <2>1, <3>2, <3>3, <3>4 DEF PendingStep
    <2>5. CASE RemoveDone(t, d)
      <3>1. [entries[t] EXCEPT ![f] = None] \in [Fds -> Channels \cup {None}]
        BY <2>1, <2>5 DEF RemoveDone
      <3>2. entries' \in [Loops -> [Fds -> Channels \cup {None}]]
        BY <3>1, <2>5 DEF RemoveDone
      <3>3. interest' \in [Loops -> SUBSET Fds]
        BY <2>5 DEF RemoveDone
      <3>4. aborted' \in BOOLEAN
        BY <2>5 DEF RemoveDone
      <3> QED
        BY <1>14, <2>1, <3>2, <3>3, <3>4 DEF PendingStep
    <2> QED
      BY <2>2, <2>3, <2>4, <2>5
  <1>15. ASSUME NEW t \in Loops, PendingUnlock(t) PROVE TypeOK'
    BY <1>15 DEF PendingUnlock
  <1> QED
    BY <1>1, <1>2, <1>3, <1>4, <1>5, <1>6, <1>7, <1>8, <1>9, <1>10, <1>11, <1>12,
       <1>13, <1>14, <1>15 DEF Next, Step, Callback, RequestStep, HandlePending

(* The mutex discipline is kept.                                           *)
LEMMA LockStep == IInv /\ [Next]_vars => LockInv'
  <1> SUFFICES ASSUME IInv, [Next]_vars PROVE LockInv'
    OBVIOUS
  <1> USE DEF IInv, LockInv, Holds, TypeOK, RequestInv, At, Goto
  <1>1. CASE UNCHANGED vars
    BY <1>1 DEF vars
  <1>2. ASSUME NEW t \in Loops, Dispatch(t) PROVE LockInv'
    BY <1>2 DEF Dispatch
  <1>3. ASSUME NEW t \in Loops, HandleWakeup(t) PROVE LockInv'
    BY <1>3 DEF HandleWakeup
  <1>4. ASSUME NEW t \in Loops, ReadMessage(t) PROVE LockInv'
    BY <1>4 DEF ReadMessage, ReadMessageOn
  <1>5. ASSUME NEW t \in Loops, ReadClosed(t) PROVE LockInv'
    BY <1>5 DEF ReadClosed, ReadClosedOn
  <1>6. ASSUME NEW t \in Loops, HangUp(t) PROVE LockInv'
    BY <1>6 DEF HangUp, HangUpOn
  <1>7. ASSUME NEW t \in Loops, Accept(t) PROVE LockInv'
    BY <1>7 DEF Accept, AcceptOn
  <1>8. ASSUME NEW t \in Loops, DispatchReturn(t) PROVE LockInv'
    BY <1>8 DEF DispatchReturn
  <1>9. ASSUME NEW t \in Loops, RequestLock(t) PROVE LockInv'
    <2>1. req[t].loop \in Loops /\ mutex[req[t].loop] = None
      BY <1>9 DEF RequestLock, Request
    <2>2. /\ mutex' = [mutex EXCEPT ![req[t].loop] = t]
          /\ pc' = [pc EXCEPT ![t] = "reqUnlock"]
          /\ UNCHANGED <<is_handle_pending, element, req>>
      BY <1>9 DEF RequestLock
    <2>3. \A l, u \in Loops : (mutex'[l] = u <=> Holds(u, l)')
      BY <1>9, <2>1, <2>2, NoneAssumption DEF RequestLock
    <2> QED
      BY <1>9, <2>2, <2>3 DEF RequestLock
  <1>10. ASSUME NEW t \in Loops, RequestUnlock(t) PROVE LockInv'
    <2>1. req[t].loop \in Loops /\ mutex[req[t].loop] = t
      BY <1>10 DEF RequestUnlock, AfterRequest, Request
    <2>2. /\ mutex' = [mutex EXCEPT ![req[t].loop] = None]
          /\ pc' = [pc EXCEPT ![t] = IF req[t].loop = t THEN "pendLock" ELSE "wakeup"]
          /\ UNCHANGED <<is_handle_pending, element, req>>
      BY <1>10 DEF RequestUnlock, AfterRequest
    <2>3. \A l, u \in Loops : (mutex'[l] = u <=> Holds(u, l)')
      BY <1>10, <2>1, <2>2, NoneAssumption DEF RequestUnlock, AfterRequest
    <2> QED
      BY <1>10, <2>2, <2>3 DEF RequestUnlock, AfterRequest
  <1>11. ASSUME NEW t \in Loops, Wakeup(t) PROVE LockInv'
    BY <1>11 DEF Wakeup
  <1>12. ASSUME NEW t \in Loops, CallbackReturn(t) PROVE LockInv'
    BY <1>12 DEF CallbackReturn
  <1>13. ASSUME NEW t \in Loops, PendingLock(t) PROVE LockInv'
    BY <1>13, NoneAssumption DEF PendingLock
  <1>14. ASSUME NEW t \in Loops, PendingStep(t) PROVE LockInv'
    BY <1>14, NoneAssumption DEF PendingStep
  <1>15. ASSUME NEW t \in Loops, PendingUnlock(t) PROVE LockInv'
    BY <1>15, NoneAssumption DEF PendingUnlock
  <1> QED
    BY <1>1, <1>2, <1>3, <1>4, <1>5, <1>6, <1>7, <1>8,
       <1>9, <1>10, <1>11, <1>12, <1>13, <1>14, <1>15
    DEF Next, Step, Callback, RequestStep, HandlePending

(* The shape of the requests is kept.                                      *)
LEMMA RequestStepInv == IInv /\ [Next]_vars => RequestInv'
  <1> SUFFICES ASSUME IInv, [Next]_vars PROVE RequestInv'
    OBVIOUS
  <1> USE DEF IInv, RequestInv, TypeOK, At, Goto
  <1>1. CASE UNCHANGED vars
    BY <1>1 DEF vars
  <1>2. ASSUME NEW t \in Loops, Dispatch(t) PROVE RequestInv'
    BY <1>2 DEF Dispatch
  <1>3. ASSUME NEW t \in Loops, HandleWakeup(t) PROVE RequestInv'
    BY <1>3 DEF HandleWakeup
  <1>4. ASSUME NEW t \in Loops, ReadMessage(t) PROVE RequestInv'
    BY <1>4 DEF ReadMessage, ReadMessageOn
  <1>5. ASSUME NEW t \in Loops, ReadClosed(t) PROVE RequestInv'
    BY <1>5, NoneAssumption DEF ReadClosed, ReadClosedOn, Request, Element, ChannelFound
  <1>6. ASSUME NEW t \in Loops, HangUp(t) PROVE RequestInv'
    BY <1>6 DEF HangUp, HangUpOn
  <1>7. ASSUME NEW t \in Loops, Accept(t) PROVE RequestInv'
    BY <1>7, LoopsAssumption, NoneAssumption DEF Accept, AcceptOn, Request, Element
  <1>8. ASSUME NEW t \in Loops, DispatchReturn(t) PROVE RequestInv'
    BY <1>8 DEF DispatchReturn
  <1>9. ASSUME NEW t \in Loops, RequestLock(t) PROVE RequestInv'
    BY <1>9 DEF RequestLock
  <1>10. ASSUME NEW t \in Loops, RequestUnlock(t) PROVE RequestInv'
    BY <1>10 DEF RequestUnlock, AfterRequest
  <1>11. ASSUME NEW t \in Loops, Wakeup(t) PROVE RequestInv'
    BY <1>11 DEF Wakeup
  <1>12. ASSUME NEW t \in Loops, CallbackReturn(t) PROVE RequestInv'
    BY <1>12 DEF CallbackReturn
  <1>13. ASSUME NEW t \in Loops, PendingLock(t) PROVE RequestInv'
    BY <1>13 DEF PendingLock
  <1>14. ASSUME NEW t \in Loops, PendingStep(t) PROVE RequestInv'
    BY <1>14 DEF PendingStep
  <1>15. ASSUME NEW t \in Loops, PendingUnlock(t) PROVE RequestInv'
    BY <1>15 DEF PendingUnlock
  <1> QED
    BY <1>1, <1>2, <1>3, <1>4, <1>5, <1>6, <1>7, <1>8,
       <1>9, <1>10, <1>11, <1>12, <1>13, <1>14, <1>15
    DEF Next, Step, Callback, RequestStep, HandlePending

(* Under the invariant an add finds its descriptor open and unwatched, and *)
(* a removal finds its channel registered; neither aborts.                 *)
AddApplied(t, d) == AddDone(t, d) /\ Unwatched(FdOf[d]) /\ ~aborted'

RemoveApplied(t, d) ==
  /\ QueuedRemove(t, element[t])
  /\ Removing(t) /\ d = req[t].element.channel
  /\ FdOf[d] \in Fds /\ Registered(t, d)
  /\ entries' = [entries EXCEPT ![t] = [entries[t] EXCEPT ![FdOf[d]] = None]]
  /\ interest' = [interest EXCEPT ![t] = @ \ {FdOf[d]}]
  /\ ~aborted'

LEMMA PendingEffect ==
  ASSUME IInv, NEW t \in Loops, PendingStep(t)
  PROVE  \/ AddIgnored(t, Current(t)) \/ AddApplied(t, Current(t))
         \/ RemoveApplied(t, Current(t))
  <1> USE DEF IInv
  <1>1. Current(t) \in Channels /\ element[t] \in Waiting(t)
    BY CurrentChannel
  <1>2. CASE AddIgnored(t, Current(t))
    BY <1>2
  <1>3. CASE AddDone(t, Current(t))
    <2>1. QueuedAdd(t, element[t], FdOf[Current(t)]) /\ FdOf[Current(t)] \in Fds
      BY <1>3 DEF AddDone, QueuedAdd, Adds, Current
    <2>2. Unwatched(FdOf[Current(t)])
      BY <1>1, <2>1 DEF FlightInv
    <2>3. ~aborted'
      BY <1>3, <2>2 DEF AddDone, Unwatched, PendingStep, At
    <2> QED
      BY <1>3, <2>2, <2>3 DEF AddApplied
  <1>4. ASSUME pending[t][element[t]].type = "remove"
        PROVE  /\ Removing(t) /\ Current(t) = req[t].element.channel
               /\ Registered(t, Current(t)) /\ FdOf[Current(t)] \in Fds
               /\ FdOf[Current(t)] \in openFds
    <2>1. QueuedRemove(t, element[t])
      BY <1>4 DEF QueuedRemove
    <2>2. /\ Removing(t)
          /\ pending[t][element[t]] = req[t].element
          /\ Registered(t, req[t].element.channel)
      BY <1>1, <2>1 DEF RemoveInv, RemovalOf
    <2>3. Current(t) = req[t].element.channel
      BY <2>2 DEF Current
    <2>4. FdOf[Current(t)] \in Fds
      BY <2>2, <2>3 DEF Registered, TypeOK
    <2> QED
      BY <2>2, <2>3, <2>4 DEF Registered, MapInv
  <1>5. CASE RemoveIgnored(t, Current(t))
    <2>1. FdOf[Current(t)] \in Nat /\ entries[t][FdOf[Current(t)]] # None
      BY <1>1, <1>4, <1>5, FdsAssumption, NoneAssumption DEF RemoveIgnored, Registered
    <2>2. ~(FdOf[Current(t)] < 0)
      BY <2>1
    <2> QED
      BY <1>5, <2>1, <2>2 DEF RemoveIgnored
  <1>6. CASE RemoveDone(t, Current(t))
    <2>1. entries[t][FdOf[Current(t)]] = Current(t)
      BY <1>4, <1>6 DEF RemoveDone, Registered
    <2>2. ~aborted'
      BY <1>4, <1>6, <2>1 DEF RemoveDone, Registered, PendingStep, At
    <2> QED
      BY <1>4, <1>6, <2>1, <2>2 DEF RemoveDone, RemoveApplied, QueuedRemove
  <1> QED
    BY <1>2, <1>3, <1>5, <1>6, PendingOutcome

(* The channel map keeps covering what is watched and what is ready.       *)
LEMMA MapStep == IInv /\ [Next]_vars => MapInv'
  <1> SUFFICES ASSUME IInv, [Next]_vars PROVE MapInv'
    OBVIOUS
  <1> USE DEF IInv, MapInv, TypeOK, At, Goto
  <1>1. CASE UNCHANGED vars
    BY <1>1 DEF vars
  <1>2. ASSUME NEW t \in Loops, Dispatch(t) PROVE MapInv'
    BY <1>2, FdsAssumption DEF Dispatch, WakeReady, MayListen
  <1>3. ASSUME NEW t \in Loops, HandleWakeup(t) PROVE MapInv'
    BY <1>3 DEF HandleWakeup
  <1>4. ASSUME NEW t \in Loops, ReadMessage(t) PROVE MapInv'
    BY <1>4 DEF ReadMessage, ReadMessageOn
  <1>5. ASSUME NEW t \in Loops, ReadClosed(t) PROVE MapInv'
    BY <1>5 DEF ReadClosed, ReadClosedOn
  <1>6. ASSUME NEW t \in Loops, HangUp(t) PROVE MapInv'
    BY <1>6 DEF HangUp, HangUpOn, OneLoopPerFd
  <1>7. ASSUME NEW t \in Loops, Accept(t) PROVE MapInv'
    BY <1>7 DEF Accept, AcceptOn
  <1>8. ASSUME NEW t \in Loops, DispatchReturn(t) PROVE MapInv'
    BY <1>8 DEF DispatchReturn
  <1>9. ASSUME NEW t \in Loops, RequestLock(t) PROVE MapInv'
    BY <1>9 DEF RequestLock
  <1>10. ASSUME NEW t \in Loops, RequestUnlock(t) PROVE MapInv'
    BY <1>10 DEF RequestUnlock, AfterRequest
  <1>11. ASSUME NEW t \in Loops, Wakeup(t) PROVE MapInv'
    BY <1>11 DEF Wakeup
  <1>12. ASSUME NEW t \in Loops, CallbackReturn(t) PROVE MapInv'
    BY <1>12 DEF CallbackReturn
  <1>13. ASSUME NEW t \in Loops, PendingLock(t) PROVE MapInv'
    BY <1>13 DEF PendingLock
  <1>14. ASSUME NEW t \in Loops, PendingStep(t) PROVE MapInv'
    <2>1. PICK d \in Channels : AddIgnored(t, d) \/ AddApplied(t, d) \/ RemoveApplied(t, d)
      BY <1>14, PendingEffect, CurrentChannel
    <2>2. UNCHANGED <<openFds, batch>>
      BY <1>14 DEF PendingStep
    <2>3. CASE AddIgnored(t, d)
      BY <2>2, <2>3 DEF AddIgnored
    <2>4. CASE AddApplied(t, d)
      BY <2>2, <2>4, NoneAssumption DEF AddApplied, AddDone, Unwatched
    <2>5. CASE RemoveApplied(t, d)
      BY <2>2, <2>5 DEF RemoveApplied, Registered
    <2> QED
      BY <2>1, <2>3, <2>4, <2>5
  <1>15. ASSUME NEW t \in Loops, PendingUnlock(t) PROVE MapInv'
    BY <1>15 DEF PendingUnlock
  <1> QED
    BY <1>1, <1>2, <1>3, <1>4, <1>5, <1>6, <1>7, <1>8,
       <1>9, <1>10, <1>11, <1>12, <1>13, <1>14, <1>15
    DEF Next, Step, Callback, RequestStep, HandlePending

(* The byte a dispatch reported stays until it is read.                    *)
LEMMA ReadStep == IInv /\ [Next]_vars => WakeupReadNeverBlocks'
  <1> SUFFICES ASSUME IInv, [Next]_vars PROVE WakeupReadNeverBlocks'
    OBVIOUS
  <1> USE DEF IInv, WakeupReadNeverBlocks, TypeOK, At, Goto
  <1>1. CASE UNCHANGED vars
    BY <1>1 DEF vars
  <1>2. ASSUME NEW t \in Loops, Dispatch(t) PROVE WakeupReadNeverBlocks'
    BY <1>2, FdsAssumption DEF Dispatch, WakeReady, MayListen
  <1>3. ASSUME NEW t \in Loops, HandleWakeup(t) PROVE WakeupReadNeverBlocks'
    BY <1>3 DEF HandleWakeup
  <1>4. ASSUME NEW t \in Loops, ReadMessage(t) PROVE WakeupReadNeverBlocks'
    BY <1>4 DEF ReadMessage, ReadMessageOn
  <1>5. ASSUME NEW t \in Loops, ReadClosed(t) PROVE WakeupReadNeverBlocks'
    BY <1>5 DEF ReadClosed, ReadClosedOn
  <1>6. ASSUME NEW t \in Loops, HangUp(t) PROVE WakeupReadNeverBlocks'
    BY <1>6 DEF HangUp, HangUpOn
  <1>7. ASSUME NEW t \in Loops, Accept(t) PROVE WakeupReadNeverBlocks'
    BY <1>7 DEF Accept, AcceptOn
  <1>8. ASSUME NEW t \in Loops, DispatchReturn(t) PROVE WakeupReadNeverBlocks'
    BY <1>8 DEF DispatchReturn
  <1>9. ASSUME NEW t \in Loops, RequestLock(t) PROVE WakeupReadNeverBlocks'
    BY <1>9 DEF RequestLock
  <1>10. ASSUME NEW t \in Loops, RequestUnlock(t) PROVE WakeupReadNeverBlocks'
    BY <1>10 DEF RequestUnlock, AfterRequest
  <1>11. ASSUME NEW t \in Loops, Wakeup(t) PROVE WakeupReadNeverBlocks'
    BY <1>11 DEF Wakeup
  <1>12. ASSUME NEW t \in Loops, CallbackReturn(t) PROVE WakeupReadNeverBlocks'
    BY <1>12 DEF CallbackReturn
  <1>13. ASSUME NEW t \in Loops, PendingLock(t) PROVE WakeupReadNeverBlocks'
    BY <1>13 DEF PendingLock
  <1>14. ASSUME NEW t \in Loops, PendingStep(t) PROVE WakeupReadNeverBlocks'
    BY <1>14 DEF PendingStep
  <1>15. ASSUME NEW t \in Loops, PendingUnlock(t) PROVE WakeupReadNeverBlocks'
    BY <1>15 DEF PendingUnlock
  <1> QED
    BY <1>1, <1>2, <1>3, <1>4, <1>5, <1>6, <1>7, <1>8,
       <1>9, <1>10, <1>11, <1>12, <1>13, <1>14, <1>15
    DEF Next, Step, Callback, RequestStep, HandlePending

(* A descriptor stays with one loop.                                       *)
LEMMA DisjointStep == IInv /\ [Next]_vars => OneLoopPerFd'
  <1> SUFFICES ASSUME IInv, [Next]_vars PROVE OneLoopPerFd'
    OBVIOUS
  <1> USE DEF IInv, OneLoopPerFd, TypeOK, At, Goto
  <1>1. CASE UNCHANGED vars
    BY <1>1 DEF vars
  <1>2. ASSUME NEW t \in Loops, Dispatch(t) PROVE OneLoopPerFd'
    BY <1>2 DEF Dispatch
  <1>3. ASSUME NEW t \in Loops, HandleWakeup(t) PROVE OneLoopPerFd'
    BY <1>3 DEF HandleWakeup
  <1>4. ASSUME NEW t \in Loops, ReadMessage(t) PROVE OneLoopPerFd'
    BY <1>4 DEF ReadMessage, ReadMessageOn
  <1>5. ASSUME NEW t \in Loops, ReadClosed(t) PROVE OneLoopPerFd'
    BY <1>5 DEF ReadClosed, ReadClosedOn
  <1>6. ASSUME NEW t \in Loops, HangUp(t) PROVE OneLoopPerFd'
    BY <1>6 DEF HangUp, HangUpOn
  <1>7. ASSUME NEW t \in Loops, Accept(t) PROVE OneLoopPerFd'
    BY <1>7 DEF Accept, AcceptOn
  <1>8. ASSUME NEW t \in Loops, DispatchReturn(t) PROVE OneLoopPerFd'
    BY <1>8 DEF DispatchReturn
  <1>9. ASSUME NEW t \in Loops, RequestLock(t) PROVE OneLoopPerFd'
    BY <1>9 DEF RequestLock
  <1>10. ASSUME NEW t \in Loops, RequestUnlock(t) PROVE OneLoopPerFd'
    BY <1>10 DEF RequestUnlock, AfterRequest
  <1>11. ASSUME NEW t \in Loops, Wakeup(t) PROVE OneLoopPerFd'
    BY <1>11 DEF Wakeup
  <1>12. ASSUME NEW t \in Loops, CallbackReturn(t) PROVE OneLoopPerFd'
    BY <1>12 DEF CallbackReturn
  <1>13. ASSUME NEW t \in Loops, PendingLock(t) PROVE OneLoopPerFd'
    BY <1>13 DEF PendingLock
  <1>14. ASSUME NEW t \in Loops, PendingStep(t) PROVE OneLoopPerFd'
    <2>1. PICK d \in Channels : AddIgnored(t, d) \/ AddApplied(t, d) \/ RemoveApplied(t, d)
      BY <1>14, PendingEffect, CurrentChannel
    <2>2. CASE AddIgnored(t, d)
      BY <2>2 DEF AddIgnored
    <2>3. CASE AddApplied(t, d)
      <3>1. \A k \in Loops : FdOf[d] \notin interest[k]
        BY <2>3 DEF AddApplied, Unwatched
      <3>2. interest' = interest \/ interest' = [interest EXCEPT ![t] = @ \cup {FdOf[d]}]
        BY <2>3 DEF AddApplied, AddDone
      <3>3. CASE interest' = [interest EXCEPT ![t] = @ \cup {FdOf[d]}]
        <4>1. interest'[t] = interest[t] \cup {FdOf[d]}
          BY <3>3
        <4>2. \A k \in Loops \ {t} : interest'[k] = interest[k]
          BY <3>3
        <4>3. ASSUME NEW l \in Loops, NEW k \in Loops, l # k, NEW f \in interest'[l]
              PROVE  f \notin interest'[k]
          <5>1. CASE l = t
            BY <3>1, <4>1, <4>2, <4>3, <5>1
          <5>2. CASE k = t
            BY <3>1, <4>1, <4>2, <4>3, <5>2
          <5> QED
            BY <4>2, <4>3, <5>1, <5>2
        <4> QED
          BY <4>3
      <3> QED
        BY <3>2, <3>3
    <2>4. CASE RemoveApplied(t, d)
      BY <2>4 DEF RemoveApplied
    <2> QED
      BY <2>1, <2>2, <2>3, <2>4
  <1>15. ASSUME NEW t \in Loops, PendingUnlock(t) PROVE OneLoopPerFd'
    BY <1>15 DEF PendingUnlock
  <1> QED
    BY <1>1, <1>2, <1>3, <1>4, <1>5, <1>6, <1>7, <1>8,
       <1>9, <1>10, <1>11, <1>12, <1>13, <1>14, <1>15
    DEF Next, Step, Callback, RequestStep, HandlePending

(* No step aborts the process.                                             *)
LEMMA AbortStep == IInv /\ [Next]_vars => NoAbort'
  <1> SUFFICES ASSUME IInv, [Next]_vars PROVE NoAbort'
    OBVIOUS
  <1> USE DEF IInv, NoAbort, TypeOK, At, Goto
  <1>1. CASE UNCHANGED vars
    BY <1>1 DEF vars
  <1>2. ASSUME NEW t \in Loops, Dispatch(t) PROVE NoAbort'
    BY <1>2 DEF Dispatch
  <1>3. ASSUME NEW t \in Loops, HandleWakeup(t) PROVE NoAbort'
    BY <1>3 DEF HandleWakeup
  <1>4. ASSUME NEW t \in Loops, ReadMessage(t) PROVE NoAbort'
    BY <1>4 DEF ReadMessage, ReadMessageOn, ChannelFound, MapInv
  <1>5. ASSUME NEW t \in Loops, ReadClosed(t) PROVE NoAbort'
    BY <1>5 DEF ReadClosed, ReadClosedOn, ChannelFound, MapInv
  <1>6. ASSUME NEW t \in Loops, HangUp(t) PROVE NoAbort'
    BY <1>6 DEF HangUp, HangUpOn
  <1>7. ASSUME NEW t \in Loops, Accept(t) PROVE NoAbort'
    BY <1>7 DEF Accept, AcceptOn
  <1>8. ASSUME NEW t \in Loops, DispatchReturn(t) PROVE NoAbort'
    BY <1>8 DEF DispatchReturn
  <1>9. ASSUME NEW t \in Loops, RequestLock(t) PROVE NoAbort'
    <2>1. req[t].loop \in Loops /\ mutex[req[t].loop] = None
      BY <1>9 DEF RequestLock, RequestInv, Request
    <2>2. ~is_handle_pending[req[t].loop]
      BY <2>1, NoneAssumption DEF LockInv, Holds
    <2> QED
      BY <1>9, <2>2 DEF RequestLock
  <1>10. ASSUME NEW t \in Loops, RequestUnlock(t) PROVE NoAbort'
    BY <1>10 DEF RequestUnlock, AfterRequest
  <1>11. ASSUME NEW t \in Loops, Wakeup(t) PROVE NoAbort'
    BY <1>11 DEF Wakeup
  <1>12. ASSUME NEW t \in Loops, CallbackReturn(t) PROVE NoAbort'
    BY <1>12 DEF CallbackReturn
  <1>13. ASSUME NEW t \in Loops, PendingLock(t) PROVE NoAbort'
    BY <1>13 DEF PendingLock
  <1>14. ASSUME NEW t \in Loops, PendingStep(t) PROVE NoAbort'
    BY <1>14, PendingEffect DEF AddIgnored, AddApplied, RemoveApplied
  <1>15. ASSUME NEW t \in Loops, PendingUnlock(t) PROVE NoAbort'
    BY <1>15 DEF PendingUnlock
  <1> QED
    BY <1>1, <1>2, <1>3, <1>4, <1>5, <1>6, <1>7, <1>8,
       <1>9, <1>10, <1>11, <1>12, <1>13, <1>14, <1>15
    DEF Next, Step, Callback, RequestStep, HandlePending

(* A step that puts no add on its way, takes none out of turn, makes no    *)
(* descriptor on its way watched or closed, and leaves the channel maps.   *)
Quiet ==
  /\ \A u \in Loops : pc'[u] = "reqLock" /\ req'[u].element.type = "add" =>
                         pc[u] = "reqLock" /\ req'[u] = req[u]
  /\ \A l \in Loops : \A i \in element'[l] .. Len(pending'[l]) :
       i \in Waiting(l) /\ pending'[l][i] = pending[l][i]
  /\ \A f \in Fds : Unwatched(f) => Unwatched(f)'
  /\ UNCHANGED entries

QuietStep(t) ==
  \/ Dispatch(t) \/ HandleWakeup(t) \/ ReadMessage(t) \/ ReadClosed(t) \/ HangUp(t)
  \/ DispatchReturn(t) \/ RequestUnlock(t) \/ Wakeup(t) \/ CallbackReturn(t)
  \/ PendingLock(t) \/ PendingUnlock(t)

LEMMA QuietSteps == ASSUME IInv, NEW t \in Loops, QuietStep(t) PROVE Quiet
  <1> USE DEF IInv, TypeOK, At, Goto, Quiet, Waiting, Unwatched
  <1>1. CASE Dispatch(t)
    BY <1>1 DEF Dispatch
  <1>2. CASE HandleWakeup(t)
    BY <1>2 DEF HandleWakeup
  <1>3. CASE ReadMessage(t)
    BY <1>3 DEF ReadMessage, ReadMessageOn
  <1>4. CASE ReadClosed(t)
    BY <1>4 DEF ReadClosed, ReadClosedOn
  <1>5. CASE HangUp(t)
    BY <1>5 DEF HangUp, HangUpOn, MapInv
  <1>6. CASE DispatchReturn(t)
    BY <1>6 DEF DispatchReturn
  <1>7. CASE RequestUnlock(t)
    BY <1>7 DEF RequestUnlock, AfterRequest
  <1>8. CASE Wakeup(t)
    BY <1>8 DEF Wakeup
  <1>9. CASE CallbackReturn(t)
    BY <1>9 DEF CallbackReturn
  <1>10. CASE PendingLock(t)
    BY <1>10 DEF PendingLock, LockInv
  <1>11. CASE PendingUnlock(t)
    BY <1>11 DEF PendingUnlock
  <1> QED
    BY <1>1, <1>2, <1>3, <1>4, <1>5, <1>6, <1>7, <1>8, <1>9, <1>10, <1>11 DEF QuietStep

(* What the three other steps do to the requests on their way.             *)
LEMMA AcceptFlight ==
  ASSUME IInv, NEW t \in Loops, Accept(t)
  PROVE  /\ UNCHANGED <<pending, element, interest, entries>>
         /\ openFds \subseteq openFds'
         /\ \A f \in Fds, u \in Loops :
              AskedAdd(u, f)' => AskedAdd(u, f) \/ (u = t /\ f \notin openFds /\ f \in openFds')
         /\ \A f \in Fds : ~AskedAdd(t, f)
  <1>1. PICK d \in Channels, w \in Workers :
          /\ Acceptable(d)
          /\ openFds' = openFds \cup ({FdOf[d]} \cap Fds)
          /\ req' = [req EXCEPT ![t] =
                       [loop |-> w, element |-> [type |-> "add", channel |-> d]]]
    BY DEF Accept, AcceptOn
  <1>2. /\ pc[t] = "events" /\ pc' = [pc EXCEPT ![t] = "reqLock"]
        /\ UNCHANGED <<pending, element, interest, entries>>
    BY DEF Accept, AcceptOn, At, Goto
  <1>3. ASSUME NEW f \in Fds, NEW u \in Loops, AskedAdd(u, f)'
        PROVE  AskedAdd(u, f) \/ (u = t /\ f \notin openFds /\ f \in openFds')
    BY <1>1, <1>2, <1>3 DEF IInv, TypeOK, AskedAdd, Adds, Acceptable
  <1> QED
    BY <1>1, <1>2, <1>3 DEF AskedAdd

LEMMA RequestLockFlight ==
  ASSUME IInv, NEW t \in Loops, RequestLock(t)
  PROVE  LET l == req[t].loop IN
         /\ l \in Loops
         /\ UNCHANGED <<element, interest, openFds, entries, batch, req>>
         /\ pc' = [pc EXCEPT ![t] = "reqUnlock"]
         /\ pending' = [pending EXCEPT ![l] = Append(@, req[t].element)]
         /\ pending[l] \in Seq(Element) /\ req[t].element \in Element
         /\ element[l] = 1 /\ pc[l] # "pending" /\ pc[t] = "reqLock"
  <1> DEFINE l == req[t].loop
  <1>1. /\ pc[t] = "reqLock" /\ mutex[l] = None
        /\ pc' = [pc EXCEPT ![t] = "reqUnlock"]
        /\ UNCHANGED <<element, interest, openFds, entries, batch, req>>
    BY DEF RequestLock, At, Goto
  <1>2. l \in Loops /\ req[t].element \in Element
    BY <1>1 DEF IInv, RequestInv, Request
  <1>3. pc[l] # "pending" /\ ~is_handle_pending[l] /\ element[l] = 1
    BY <1>1, <1>2, NoneAssumption DEF IInv, LockInv, Holds
  <1>4. pending' = [pending EXCEPT ![l] = Append(@, req[t].element)]
    BY <1>3 DEF RequestLock
  <1> QED
    BY <1>1, <1>2, <1>3, <1>4 DEF IInv, TypeOK

LEMMA PendingFlight ==
  ASSUME IInv, NEW t \in Loops, PendingStep(t)
  PROVE  /\ UNCHANGED <<pending, openFds, pc, batch, req>>
         /\ pc[t] = "pending"
         /\ element[t] \in Waiting(t)
         /\ Waiting(t)' = Waiting(t) \ {element[t]}
         /\ \A k \in Loops \ {t} : Waiting(k)' = Waiting(k)
  BY CurrentChannel DEF IInv, TypeOK, PendingStep, At, Waiting

(* Descriptors on their way to a loop stay open, unwatched and single.     *)
LEMMA FlightQuiet == ASSUME IInv, Quiet PROVE FlightInv'
  <1>1. \A u \in Loops, f \in Fds : AskedAdd(u, f)' => AskedAdd(u, f)
    BY DEF Quiet, AskedAdd, Adds
  <1>2. \A l \in Loops, f \in Fds : \A i \in Waiting(l)' :
          QueuedAdd(l, i, f)' => i \in Waiting(l) /\ QueuedAdd(l, i, f)
    BY DEF Quiet, QueuedAdd, Adds, Waiting
  <1>3. \A f \in Fds : Unwatched(f) => Unwatched(f)'
    BY DEF Quiet
  <1>4. FlightInv
    BY DEF IInv
  <1> QED
    BY <1>1, <1>2, <1>3, <1>4 DEF FlightInv

LEMMA FlightAccept == ASSUME IInv, NEW t \in Loops, Accept(t) PROVE FlightInv'
  <1>1. /\ UNCHANGED <<pending, element, interest, entries>>
        /\ openFds \subseteq openFds'
        /\ \A f \in Fds, u \in Loops :
             AskedAdd(u, f)' => AskedAdd(u, f) \/ (u = t /\ f \notin openFds /\ f \in openFds')
        /\ \A f \in Fds : ~AskedAdd(t, f)
    BY AcceptFlight
  <1> SUFFICES ASSUME NEW f \in Fds
               PROVE  /\ \A u \in Loops : AskedAdd(u, f)' => Unwatched(f)'
                      /\ \A l \in Loops : \A i \in Waiting(l) : QueuedAdd(l, i, f) => Unwatched(f)'
                      /\ \A u, v \in Loops : AskedAdd(u, f)' /\ AskedAdd(v, f)' => u = v
                      /\ \A u, l \in Loops : \A i \in Waiting(l) :
                           ~(AskedAdd(u, f)' /\ QueuedAdd(l, i, f))
    BY <1>1 DEF IInv, FlightInv, Waiting, QueuedAdd, Adds
  <1>2. \A k \in Loops : f \in interest[k] => f \in openFds
    BY DEF IInv, MapInv
  <1>3. CASE f \in openFds
    BY <1>1, <1>3 DEF IInv, FlightInv, Unwatched
  <1>4. CASE f \notin openFds
    <2>1. /\ \A u \in Loops : ~AskedAdd(u, f)
          /\ \A l \in Loops : \A i \in Waiting(l) : ~QueuedAdd(l, i, f)
      BY <1>4 DEF IInv, FlightInv, Unwatched
    <2> QED
      BY <1>1, <1>2, <1>4, <2>1 DEF Unwatched
  <1> QED
    BY <1>3, <1>4

(* Appending to a list adds one position, which holds the request.         *)
LEMMA AppendedWaiting ==
  ASSUME IInv, NEW t \in Loops, RequestLock(t), NEW k \in Loops,
         NEW i \in Waiting(k)'
  PROVE  \/ i \in Waiting(k) /\ pending'[k][i] = pending[k][i]
         \/ /\ k = req[t].loop /\ i = Len(pending[k]) + 1
            /\ pending'[k][i] = req[t].element
  <1> DEFINE l == req[t].loop
  <1>1. /\ l \in Loops
        /\ UNCHANGED element
        /\ pending' = [pending EXCEPT ![l] = Append(@, req[t].element)]
        /\ pending[l] \in Seq(Element) /\ req[t].element \in Element
        /\ element[l] = 1
    BY RequestLockFlight
  <1>2. pending \in [Loops -> Seq(Element)]
    BY DEF IInv, TypeOK
  <1>3. CASE k = l
    <2>1. pending'[k] = Append(pending[k], req[t].element)
      BY <1>1, <1>2, <1>3
    <2>2. i \in 1 .. Len(pending[k]) + 1
      BY <1>1, <1>3, <2>1 DEF Waiting
    <2> QED
      BY <1>1, <1>3, <2>1, <2>2 DEF Waiting
  <1>4. CASE k # l
    BY <1>1, <1>2, <1>4 DEF Waiting
  <1> QED
    BY <1>3, <1>4

LEMMA FlightRequestLock == ASSUME IInv, NEW t \in Loops, RequestLock(t) PROVE FlightInv'
  <1> DEFINE l == req[t].loop
  <1>1. /\ l \in Loops
        /\ UNCHANGED <<element, interest, openFds, entries, batch, req>>
        /\ pc' = [pc EXCEPT ![t] = "reqUnlock"]
        /\ pc[t] = "reqLock"
    BY RequestLockFlight
  <1> SUFFICES ASSUME NEW f \in Fds
               PROVE  /\ \A u \in Loops : AskedAdd(u, f)' => Unwatched(f)'
                      /\ \A k \in Loops : \A i \in Waiting(k)' : QueuedAdd(k, i, f)' => Unwatched(f)'
                      /\ \A u, v \in Loops : AskedAdd(u, f)' /\ AskedAdd(v, f)' => u = v
                      /\ \A u, k \in Loops : \A i \in Waiting(k)' :
                           ~(AskedAdd(u, f)' /\ QueuedAdd(k, i, f)')
                      /\ \A k, m \in Loops : \A i \in Waiting(k)', j \in Waiting(m)' :
                           QueuedAdd(k, i, f)' /\ QueuedAdd(m, j, f)' => k = m /\ i = j
    BY DEF FlightInv
  <1>2. \A u \in Loops : AskedAdd(u, f)' => u # t /\ AskedAdd(u, f)
    BY <1>1 DEF AskedAdd, Adds, IInv, TypeOK
  <1>3. Unwatched(f)' <=> Unwatched(f)
    BY <1>1 DEF Unwatched
  <1>4. ASSUME NEW k \in Loops, NEW i \in Waiting(k)', QueuedAdd(k, i, f)'
        PROVE  \/ i \in Waiting(k) /\ QueuedAdd(k, i, f)
               \/ k = l /\ i = Len(pending[l]) + 1 /\ AskedAdd(t, f)
    BY <1>1, <1>4, AppendedWaiting DEF QueuedAdd, AskedAdd, Adds
  <1>5. FlightInv
    BY DEF IInv
  <1> QED
    BY <1>1, <1>2, <1>3, <1>4, <1>5 DEF FlightInv

(* Watching one descriptor leaves the others as they were.                 *)
LEMMA OthersUnwatched ==
  ASSUME TypeOK, NEW t \in Loops, NEW g, NEW f, f # g, NEW k \in Loops, f \notin interest[k],
         interest' = interest \/ interest' = [interest EXCEPT ![t] = @ \cup {g}]
  PROVE  f \notin interest'[k]
  <1>1. interest \in [Loops -> SUBSET Fds]
    BY DEF TypeOK
  <1>2. CASE interest' = [interest EXCEPT ![t] = @ \cup {g}]
    <2>1. CASE k = t
      <3>1. interest'[k] = interest[k] \cup {g}
        BY <1>1, <1>2, <2>1
      <3> QED
        BY <3>1
    <2>2. CASE k # t
      BY <1>1, <1>2, <2>2
    <2> QED
      BY <2>1, <2>2
  <1> QED
    BY <1>2

LEMMA FlightPending == ASSUME IInv, NEW t \in Loops, PendingStep(t) PROVE FlightInv'
  <1>1. /\ UNCHANGED <<pending, openFds, pc, batch, req>>
        /\ element[t] \in Waiting(t)
        /\ Waiting(t)' = Waiting(t) \ {element[t]}
        /\ \A k \in Loops \ {t} : Waiting(k)' = Waiting(k)
    BY PendingFlight
  <1>2. \A u \in Loops, f \in Fds : AskedAdd(u, f)' => AskedAdd(u, f)
    BY <1>1 DEF AskedAdd, Adds
  <1>3. \A l \in Loops, f \in Fds : \A i \in Waiting(l)' : QueuedAdd(l, i, f)' =>
          /\ i \in Waiting(l) /\ QueuedAdd(l, i, f)
          /\ l = t => i # element[t]
    BY <1>1 DEF QueuedAdd, Adds
  <1>4. ASSUME NEW f \in Fds, Unwatched(f),
               ~QueuedAdd(t, element[t], f)
        PROVE  Unwatched(f)'
    <2>1. PICK d \in Channels : /\ AddIgnored(t, d) \/ AddApplied(t, d) \/ RemoveApplied(t, d)
                                /\ d = Current(t)
      BY PendingEffect, CurrentChannel DEF IInv
    <2>2. CASE AddIgnored(t, d)
      BY <1>1, <1>4, <2>2 DEF AddIgnored, Unwatched
    <2>3. CASE AddApplied(t, d)
      <3>1. FdOf[d] # f
        BY <1>4, <2>1, <2>3 DEF AddApplied, AddDone, QueuedAdd, Adds, Current
      <3>2. interest' = interest \/ interest' = [interest EXCEPT ![t] = @ \cup {FdOf[d]}]
        BY <2>3 DEF AddApplied, AddDone
      <3>3. \A k \in Loops : f \notin interest'[k]
        BY <1>4, <3>1, <3>2, OthersUnwatched DEF Unwatched, IInv
      <3> QED
        BY <1>1, <1>4, <3>3 DEF Unwatched
    <2>4. CASE RemoveApplied(t, d)
      <3>1. \A k \in Loops : f \notin interest'[k]
        BY <1>4, <2>4 DEF RemoveApplied, Unwatched, IInv, TypeOK
      <3> QED
        BY <1>1, <1>4, <3>1 DEF Unwatched
    <2> QED
      BY <2>1, <2>2, <2>3, <2>4
  <1>5. ASSUME NEW f \in Fds, QueuedAdd(t, element[t], f)
        PROVE  /\ \A u \in Loops : ~AskedAdd(u, f)'
               /\ \A l \in Loops : \A i \in Waiting(l)' : ~QueuedAdd(l, i, f)'
    BY <1>1, <1>2, <1>3, <1>5 DEF IInv, FlightInv
  <1>6. FlightInv
    BY DEF IInv
  <1> QED
    BY <1>2, <1>3, <1>4, <1>5, <1>6 DEF FlightInv

LEMMA FlightStep == IInv /\ [Next]_vars => FlightInv'
  <1> SUFFICES ASSUME IInv, [Next]_vars PROVE FlightInv'
    OBVIOUS
  <1>1. CASE UNCHANGED vars
    BY <1>1 DEF vars, IInv, FlightInv, AskedAdd, QueuedAdd, Adds, Waiting, Unwatched
  <1>2. ASSUME NEW t \in Loops, Step(t) PROVE FlightInv'
    <2>1. CASE QuietStep(t)
      BY <2>1, QuietSteps, FlightQuiet
    <2> QED
      BY <1>2, <2>1, FlightAccept, FlightRequestLock, FlightPending
      DEF Step, Callback, RequestStep, HandlePending, QuietStep
  <1> QED
    BY <1>1, <1>2 DEF Next

(* A removed channel stays removed: nothing brings its descriptor back.    *)
LEMMA RemovedStable ==
  ASSUME IInv, NEW t \in Loops, Step(t),
         NEW u \in Loops, NEW d \in Channels, Removed(u, d)
  PROVE  Removed(u, d)'
  <1> DEFINE f == FdOf[d]
  <1>1. /\ f \in Fds /\ Unwatched(f) /\ entries[u][f] # d
        /\ \A v \in Loops : ~AskedAdd(v, f)
        /\ \A l \in Loops : \A i \in Waiting(l) : ~QueuedAdd(l, i, f)
    BY DEF Removed
  <1> SUFFICES /\ Unwatched(f)' /\ entries'[u][f] # d
               /\ \A v \in Loops : ~AskedAdd(v, f)'
               /\ \A l \in Loops : \A i \in Waiting(l)' : ~QueuedAdd(l, i, f)'
    BY <1>1 DEF Removed
  <1> HIDE DEF f
  <1>2. CASE QuietStep(t)
    <2>1. Quiet
      BY <1>2, QuietSteps
    <2>2. \A v \in Loops : ~AskedAdd(v, f)'
      BY <1>1, <2>1 DEF Quiet, AskedAdd, Adds
    <2>3. \A l \in Loops : \A i \in Waiting(l)' : ~QueuedAdd(l, i, f)'
      BY <1>1, <2>1 DEF Quiet, QueuedAdd, Adds, Waiting
    <2> QED
      BY <1>1, <2>1, <2>2, <2>3 DEF Quiet
  <1>3. CASE Accept(t)
    <2>1. /\ UNCHANGED <<pending, element, interest, entries>>
          /\ openFds \subseteq openFds'
          /\ \A v \in Loops : AskedAdd(v, f)' => AskedAdd(v, f) \/ f \notin openFds
      BY <1>1, <1>3, AcceptFlight
    <2> QED
      BY <1>1, <2>1 DEF Unwatched, QueuedAdd, Adds, Waiting
  <1>4. CASE RequestLock(t)
    <2>1. /\ UNCHANGED <<interest, openFds, entries, req>>
          /\ pc' = [pc EXCEPT ![t] = "reqUnlock"]
          /\ pc[t] = "reqLock"
      BY <1>4, RequestLockFlight
    <2>2. \A v \in Loops : ~AskedAdd(v, f)'
      BY <1>1, <2>1 DEF AskedAdd, Adds, IInv, TypeOK
    <2>3. ASSUME NEW l \in Loops, NEW i \in Waiting(l)' PROVE ~QueuedAdd(l, i, f)'
      BY <1>1, <1>4, <2>1, AppendedWaiting DEF QueuedAdd, AskedAdd, Adds
    <2> QED
      BY <1>1, <2>1, <2>2, <2>3 DEF Unwatched
  <1>5. CASE PendingStep(t)
    <2>1. /\ UNCHANGED <<pending, openFds, pc, batch, req>>
          /\ element[t] \in Waiting(t)
          /\ \A k \in Loops : Waiting(k)' \subseteq Waiting(k)
      BY <1>5, PendingFlight
    <2>2. /\ \A v \in Loops : ~AskedAdd(v, f)'
          /\ \A l \in Loops : \A i \in Waiting(l)' : ~QueuedAdd(l, i, f)'
      BY <1>1, <2>1 DEF AskedAdd, QueuedAdd, Adds
    <2>3. PICK c \in Channels : /\ AddIgnored(t, c) \/ AddApplied(t, c) \/ RemoveApplied(t, c)
                                /\ c = Current(t)
      BY <1>5, PendingEffect, CurrentChannel DEF IInv
    <2>4. Unwatched(f)' /\ entries'[u][f] # d
      <3>1. CASE AddIgnored(t, c)
        BY <1>1, <2>1, <3>1 DEF AddIgnored, Unwatched
      <3>2. CASE AddApplied(t, c)
        <4>1. FdOf[c] # f
          BY <1>1, <2>1, <2>3, <3>2 DEF AddApplied, AddDone, QueuedAdd, Adds, Current
        <4>2. interest' = interest \/ interest' = [interest EXCEPT ![t] = @ \cup {FdOf[c]}]
          BY <3>2 DEF AddApplied, AddDone
        <4>3. \A k \in Loops : f \notin interest'[k]
          BY <1>1, <4>1, <4>2, OthersUnwatched DEF Unwatched, IInv
        <4>4. entries'[u][f] = entries[u][f]
          BY <1>1, <3>2, <4>1 DEF AddApplied, AddDone, IInv, TypeOK
        <4> QED
          BY <1>1, <2>1, <4>3, <4>4 DEF Unwatched
      <3>3. CASE RemoveApplied(t, c)
        <4>1. \A k \in Loops : f \notin interest'[k]
          BY <1>1, <3>3 DEF RemoveApplied, Unwatched, IInv, TypeOK
        <4>2. entries'[u][f] # d
          BY <1>1, <3>3, NoneAssumption DEF RemoveApplied, IInv, TypeOK
        <4> QED
          BY <1>1, <2>1, <4>1, <4>2 DEF Unwatched
      <3> QED
        BY <2>3, <3>1, <3>2, <3>3
    <2> QED
      BY <2>2, <2>4
  <1> QED
    BY <1>2, <1>3, <1>4, <1>5 DEF Step, Callback, RequestStep, HandlePending, QuietStep

(* A step of thread t leaves alone what another thread u relies on while   *)
(* it removes a channel; at most it appends an add to the list of u.       *)
LEMMA OthersUntouched ==
  ASSUME IInv, NEW t \in Loops, Step(t), NEW u \in Loops \ {t}
  PROVE  /\ pc'[u] = pc[u] /\ req'[u] = req[u] /\ entries'[u] = entries[u]
         /\ interest'[u] = interest[u] /\ batch'[u] = batch[u]
         /\ \A i \in Waiting(u) : i \in Waiting(u)' /\ pending'[u][i] = pending[u][i]
         /\ \A i \in Waiting(u)' : QueuedRemove(u, i)' =>
              i \in Waiting(u) /\ QueuedRemove(u, i)
  <1> USE DEF IInv, TypeOK, At, Goto
  <1>1. CASE QuietStep(t)
    <2>1. /\ pc'[u] = pc[u] /\ req'[u] = req[u] /\ entries'[u] = entries[u]
          /\ interest'[u] = interest[u] /\ batch'[u] = batch[u]
          /\ pending'[u] = pending[u] /\ element'[u] = element[u]
      BY <1>1 DEF QuietStep, Dispatch, HandleWakeup, ReadMessage, ReadMessageOn, ReadClosed, ReadClosedOn, HangUp, HangUpOn,
           DispatchReturn, RequestUnlock, AfterRequest, Wakeup, CallbackReturn, PendingLock, PendingUnlock
    <2> QED
      BY <2>1 DEF Waiting, QueuedRemove
  <1>2. CASE Accept(t)
    BY <1>2 DEF Accept, AcceptOn, Waiting, QueuedRemove
  <1>3. CASE RequestLock(t)
    <2>1. /\ req[t].loop \in Loops
          /\ UNCHANGED <<element, interest, openFds, entries, batch, req>>
          /\ pc' = [pc EXCEPT ![t] = "reqUnlock"]
          /\ pending' = [pending EXCEPT ![req[t].loop] = Append(@, req[t].element)]
          /\ pending[req[t].loop] \in Seq(Element) /\ req[t].element \in Element
          /\ pc[t] = "reqLock"
      BY <1>3, RequestLockFlight
    <2>2. req[t].loop = u => req[t].element.type # "remove"
      BY <2>1, NoneAssumption DEF RequestInv
    <2>3. ASSUME NEW i \in Waiting(u) PROVE i \in Waiting(u)' /\ pending'[u][i] = pending[u][i]
      <3>1. CASE req[t].loop = u
        <4>1. pending'[u] = Append(pending[u], req[t].element)
          BY <2>1, <3>1
        <4> QED
          BY <2>1, <3>1, <4>1 DEF Waiting
      <3>2. CASE req[t].loop # u
        BY <2>1, <3>2 DEF Waiting
      <3> QED
        BY <3>1, <3>2
    <2>4. ASSUME NEW i \in Waiting(u)', QueuedRemove(u, i)'
          PROVE  i \in Waiting(u) /\ QueuedRemove(u, i)
      BY <1>3, <2>2, <2>4, AppendedWaiting DEF QueuedRemove
    <2> QED
      BY <2>1, <2>3, <2>4
  <1>4. CASE PendingStep(t)
    <2>1. /\ UNCHANGED <<pending, openFds, pc, batch, req>>
          /\ Waiting(u)' = Waiting(u)
      BY <1>4, PendingFlight
    <2>2. entries'[u] = entries[u] /\ interest'[u] = interest[u]
      <3>1. PICK c \in Channels : AddIgnored(t, c) \/ AddApplied(t, c) \/ RemoveApplied(t, c)
        BY <1>4, PendingEffect, CurrentChannel
      <3> QED
        BY <3>1 DEF AddIgnored, AddApplied, AddDone, RemoveApplied
    <2> QED
      BY <2>1, <2>2 DEF QueuedRemove
  <1> QED
    BY <1>1, <1>2, <1>3, <1>4 DEF Step, Callback, RequestStep, HandlePending, QuietStep

LEMMA RemovalOfOthers ==
  ASSUME IInv, NEW t \in Loops, Step(t), NEW u \in Loops \ {t}
  PROVE  RemovalOf(u)'
  <1>1. /\ pc'[u] = pc[u] /\ req'[u] = req[u] /\ entries'[u] = entries[u]
        /\ interest'[u] = interest[u] /\ batch'[u] = batch[u]
        /\ \A i \in Waiting(u) : i \in Waiting(u)' /\ pending'[u][i] = pending[u][i]
        /\ \A i \in Waiting(u)' : QueuedRemove(u, i)' =>
             i \in Waiting(u) /\ QueuedRemove(u, i)
    BY OthersUntouched
  <1>2. RemovalOf(u)
    BY DEF IInv, RemoveInv
  <1>3. Removing(u)' <=> Removing(u)
    BY <1>1 DEF Removing
  <1>4. ASSUME NEW d, Registered(u, d) PROVE Registered(u, d)'
    BY <1>1, <1>4 DEF Registered
  <1>5. Removing(u) => req[u].element.channel \in Channels
    BY NoneAssumption DEF IInv, TypeOK, Removing, Request, Element
  <1>6. Removing(u) /\ Removed(u, req[u].element.channel) => Removed(u, req[u].element.channel)'
    BY <1>1, <1>5, RemovedStable
  <1>7. \A i \in Waiting(u) : QueuedRemove(u, i) => QueuedRemove(u, i)'
    BY <1>1 DEF QueuedRemove
  <1> QED
    BY <1>1, <1>2, <1>3, <1>4, <1>6, <1>7 DEF RemovalOf

(* A loop about to sleep on a list that is not empty has a waker.          *)
Waker(u, l) == u # l /\ pc[u] \in {"reqUnlock", "wakeup"} /\ req[u].loop = l

LEMMA NoLostStep == IInv /\ [Next]_vars => NoLostWakeup'
  <1> SUFFICES ASSUME IInv, [Next]_vars, NEW l \in Loops,
                      pc'[l] = "dispatch", pending'[l] # <<>>
               PROVE  socketPair'[l] > 0 \/ \E u \in Loops : Waker(u, l)'
    BY DEF NoLostWakeup, Waker
  <1> USE DEF IInv, TypeOK, At, Goto
  <1>1. CASE UNCHANGED vars
    BY <1>1 DEF vars, NoLostWakeup, Waker
  <1>2. ASSUME NEW t \in Loops, Step(t)
        PROVE  socketPair'[l] > 0 \/ \E u \in Loops : Waker(u, l)'
    <2>1. t # l /\ pc[l] = "dispatch"
      BY <1>2 DEF Step, Callback, RequestStep, HandlePending, Dispatch, HandleWakeup,
           ReadMessage, ReadMessageOn, ReadClosed, ReadClosedOn, HangUp, HangUpOn, Accept, AcceptOn, DispatchReturn, RequestLock, RequestUnlock, AfterRequest,
           Wakeup, CallbackReturn, PendingLock, PendingStep, PendingUnlock
    <2>2. CASE RequestLock(t)
      <3>1. /\ req' = req /\ pc' = [pc EXCEPT ![t] = "reqUnlock"] /\ pc[t] = "reqLock"
            /\ socketPair' = socketPair
            /\ pending' = [pending EXCEPT ![req[t].loop] = Append(@, req[t].element)]
        BY <2>2, RequestLockFlight DEF RequestLock
      <3>2. CASE req[t].loop = l
        BY <2>1, <3>1, <3>2 DEF Waker
      <3>3. CASE req[t].loop # l
        <4>1. pending[l] # <<>>
          BY <3>1, <3>3
        <4> QED
          BY <2>1, <3>1, <4>1 DEF NoLostWakeup, Waker
      <3> QED
        BY <3>2, <3>3
    <2>3. CASE ~RequestLock(t)
      <3>1. pending'[l] = pending[l]
        BY <1>2, <2>1, <2>3 DEF Step, Callback, RequestStep, HandlePending, Dispatch, HandleWakeup,
             ReadMessage, ReadMessageOn, ReadClosed, ReadClosedOn, HangUp, HangUpOn, Accept, AcceptOn, DispatchReturn, RequestUnlock, AfterRequest,
             Wakeup, CallbackReturn, PendingLock, PendingStep, PendingUnlock
      <3>2. socketPair[l] > 0 \/ \E u \in Loops : Waker(u, l)
        BY <2>1, <3>1 DEF NoLostWakeup, Waker
      <3>3. ASSUME NEW u \in Loops, Waker(u, l), u # t
            PROVE  Waker(u, l)'
        <4>1. pc'[u] = pc[u] /\ req'[u] = req[u]
          BY <1>2, <3>3, OthersUntouched
        <4> QED
          BY <3>3, <4>1 DEF Waker
      <3>4. ASSUME socketPair[l] > 0 PROVE socketPair'[l] > 0
        <4>1. CASE Wakeup(t)
          BY <3>4, <4>1, SizesAssumption DEF Wakeup
        <4>2. CASE HandleWakeup(t)
          BY <2>1, <3>4, <4>2 DEF HandleWakeup
        <4>3. CASE ~Wakeup(t) /\ ~HandleWakeup(t)
          <5>1. socketPair' = socketPair
            BY <1>2, <2>3, <4>3 DEF Step, Callback, RequestStep, HandlePending, Dispatch,
                 ReadMessage, ReadMessageOn, ReadClosed, ReadClosedOn, HangUp, HangUpOn, Accept, AcceptOn, DispatchReturn, RequestUnlock, AfterRequest,
                 CallbackReturn, PendingLock, PendingStep, PendingUnlock
          <5> QED
            BY <3>4, <5>1
        <4> QED
          BY <4>1, <4>2, <4>3
      <3>5. CASE Waker(t, l)
        <4>1. RequestUnlock(t) \/ Wakeup(t)
          BY <1>2, <2>3, <3>5 DEF Waker, Step, Callback, RequestStep, HandlePending, Dispatch,
               HandleWakeup, ReadMessage, ReadMessageOn, ReadClosed, ReadClosedOn, HangUp, HangUpOn, Accept, AcceptOn, DispatchReturn,
               CallbackReturn, PendingLock, PendingStep, PendingUnlock
        <4>2. CASE RequestUnlock(t)
          BY <2>1, <3>5, <4>2 DEF RequestUnlock, AfterRequest, Waker
        <4>3. CASE Wakeup(t)
          BY <2>1, <3>5, <4>3 DEF Wakeup, Waker
        <4> QED
          BY <4>1, <4>2, <4>3
      <3>6. CASE socketPair[l] > 0
        BY <3>4, <3>6
      <3> QED
        BY <3>2, <3>3, <3>5, <3>6
    <2> QED
      BY <2>2, <2>3
  <1> QED
    BY <1>1, <1>2 DEF Next

(* The removals of the thread that takes the step.                         *)
LEMMA RemovalOfSelf ==
  ASSUME IInv, NEW t \in Loops, Step(t)
  PROVE  RemovalOf(t)'
  <1> USE DEF At, Goto
  <1>1. RemovalOf(t) /\ TypeOK /\ RequestInv /\ MapInv
    BY DEF IInv, RemoveInv
  <1>2. Removing(t) => /\ req[t].element.channel \in Channels
                      /\ req[t].loop = t
    BY <1>1, NoneAssumption DEF TypeOK, RequestInv, Removing, Request, Element
  <1>3. ASSUME pc[t] \in {"dispatch", "events", "wakeup", "callback"}
        PROVE  \A i \in Waiting(t) : ~QueuedRemove(t, i)
    BY <1>1, <1>3 DEF RemovalOf
  (* Steps in which the thread is not removing and its list is as before.  *)
  <1>4. ASSUME Waiting(t)' = Waiting(t), pending'[t] = pending[t], ~Removing(t)',
               \A i \in Waiting(t) : ~QueuedRemove(t, i)
        PROVE  RemovalOf(t)'
    BY <1>4 DEF RemovalOf, QueuedRemove
  <1>5. CASE Dispatch(t) \/ HandleWakeup(t) \/ ReadMessage(t) \/ HangUp(t)
    <2>1. UNCHANGED <<pending, element, req>> /\ pc[t] \in {"dispatch", "events"}
      BY <1>5 DEF Dispatch, HandleWakeup, ReadMessage, ReadMessageOn, HangUp, HangUpOn
    <2>2. ~Removing(t)'
      BY <1>1, <2>1 DEF Removing, RequestInv
    <2> QED
      BY <1>3, <1>4, <2>1, <2>2 DEF Waiting
  <1>6. CASE DispatchReturn(t)
    <2>1. UNCHANGED <<pending, element, req>> /\ pc[t] = "events"
      BY <1>6 DEF DispatchReturn
    <2>2. ~Removing(t)'
      BY <1>1, <2>1 DEF Removing, RequestInv
    <2> QED
      BY <1>3, <1>4, <2>1, <2>2 DEF Waiting
  <1>7. CASE ReadClosed(t)
    <2>1. PICK f \in batch[t] \cap Fds :
            /\ batch' = [batch EXCEPT ![t] = @ \ {f}]
            /\ IF ChannelFound(t, f)
               THEN /\ req' = [req EXCEPT ![t] = [loop |-> t,
                         element |-> [type |-> "remove", channel |-> entries[t][f]]]]
                    /\ pc' = [pc EXCEPT ![t] = "reqLock"]
               ELSE UNCHANGED <<req, pc>>
      BY <1>7 DEF ReadClosed, ReadClosedOn
    <2>2. UNCHANGED <<pending, element, entries, interest>> /\ pc[t] = "events"
      BY <1>7 DEF ReadClosed, ReadClosedOn
    <2>3. f \in interest[t] /\ entries[t][f] # None /\ FdOf[entries[t][f]] = f
      BY <1>1 DEF MapInv
    <2>4. /\ req'[t] = [loop |-> t, element |-> [type |-> "remove", channel |-> entries[t][f]]]
          /\ pc'[t] = "reqLock"
          /\ batch'[t] = batch[t] \ {f}
      BY <1>1, <2>1, <2>3 DEF ChannelFound, TypeOK
    <2>5. Registered(t, req[t].element.channel)'
      BY <2>2, <2>3, <2>4 DEF Registered
    <2>6. \A i \in Waiting(t)' : ~QueuedRemove(t, i)'
      BY <1>3, <2>2 DEF Waiting, QueuedRemove
    <2> QED
      BY <2>4, <2>5, <2>6 DEF RemovalOf
  <1>8. CASE Accept(t)
    <2>1. UNCHANGED <<pending, element>> /\ pc[t] = "events" /\ req'[t].element.type = "add"
      BY <1>1, <1>8 DEF Accept, AcceptOn, TypeOK
    <2> QED
      BY <1>3, <1>4, <2>1 DEF Waiting, Removing
  <1>9. CASE RequestLock(t)
    <2>1. /\ UNCHANGED <<element, interest, openFds, entries, batch, req>>
          /\ pc' = [pc EXCEPT ![t] = "reqUnlock"]
          /\ pending' = [pending EXCEPT ![req[t].loop] = Append(@, req[t].element)]
          /\ pending[req[t].loop] \in Seq(Element) /\ req[t].element \in Element
          /\ element[req[t].loop] = 1 /\ pc[t] = "reqLock"
      BY <1>9, RequestLockFlight
    <2>2. pc'[t] = "reqUnlock"
      BY <1>1, <2>1 DEF TypeOK
    <2>3. \A i \in Waiting(t) : QueuedRemove(t, i) => FALSE
      BY <1>1, <2>1 DEF RemovalOf
    <2>4. CASE Removing(t)
      <3>1. /\ pending'[t] = Append(pending[t], req[t].element)
            /\ pending[t] \in Seq(Element) /\ element[t] = 1
        BY <1>1, <1>2, <2>1, <2>4 DEF TypeOK
      <3>2. PICK n : n = Len(pending[t]) + 1
        OBVIOUS
      <3>3. /\ n \in Waiting(t)'
            /\ pending'[t][n] = req[t].element
        BY <2>1, <3>1, <3>2 DEF Waiting
      <3>4. \A i \in Waiting(t)' : QueuedRemove(t, i)' => i = n
        BY <1>9, <2>3, <3>2, AppendedWaiting DEF QueuedRemove
      <3>5. Registered(t, req[t].element.channel)'
        BY <1>1, <2>1, <2>4 DEF RemovalOf, Registered
      <3>6. Removing(t)'
        BY <2>1, <2>4 DEF Removing
      <3>7. QueuedRemove(t, n)'
        BY <2>4, <3>3 DEF QueuedRemove, Removing
      <3> QED
        BY <2>1, <2>2, <3>3, <3>4, <3>5, <3>6, <3>7 DEF RemovalOf
    <2>5. CASE ~Removing(t)
      <3>1. req[t].element.type # "remove"
        BY <1>1, <2>1, <2>5, NoneAssumption DEF Removing, RequestInv
      <3>2. \A i \in Waiting(t)' : ~QueuedRemove(t, i)'
        BY <1>9, <2>3, <3>1, AppendedWaiting DEF QueuedRemove
      <3>3. ~Removing(t)'
        BY <2>1, <2>5 DEF Removing
      <3> QED
        BY <3>2, <3>3 DEF RemovalOf
    <2> QED
      BY <2>4, <2>5
  <1>10. CASE RequestUnlock(t)
    <2>1. /\ UNCHANGED <<pending, element, interest, openFds, entries, batch, req>>
          /\ pc'[t] = IF req[t].loop = t THEN "pendLock" ELSE "wakeup"
          /\ pc[t] = "reqUnlock"
      BY <1>1, <1>10 DEF RequestUnlock, AfterRequest, TypeOK
    <2>2. CASE Removing(t)
      <3>1. pc'[t] = "pendLock"
        BY <1>2, <2>1, <2>2
      <3> QED
        BY <1>1, <2>1, <3>1 DEF RemovalOf, Waiting, QueuedRemove, Registered, Removing
    <2>3. CASE ~Removing(t)
      BY <1>1, <1>4, <2>1, <2>3 DEF RemovalOf, Waiting, Removing
    <2> QED
      BY <2>2, <2>3
  <1>11. CASE Wakeup(t)
    <2>1. UNCHANGED <<pending, element, req>> /\ pc[t] = "wakeup"
      BY <1>11 DEF Wakeup
    <2>2. ~Removing(t)'
      BY <1>1, <1>2, <2>1 DEF Removing, RequestInv
    <2> QED
      BY <1>3, <1>4, <2>1, <2>2 DEF Waiting
  <1>12. CASE CallbackReturn(t)
    <2>1. UNCHANGED <<pending, element>> /\ pc[t] = "callback" /\ req'[t] = None
      BY <1>1, <1>12 DEF CallbackReturn, TypeOK
    <2> QED
      BY <1>3, <1>4, <2>1 DEF Waiting, Removing
  <1>13. CASE PendingLock(t)
    <2>1. /\ UNCHANGED <<pending, element, interest, openFds, entries, batch, req>>
          /\ pc'[t] = "pending" /\ pc[t] = "pendLock"
      BY <1>1, <1>13 DEF PendingLock, TypeOK, IInv, LockInv
    <2> QED
      BY <1>1, <2>1 DEF RemovalOf, Waiting, QueuedRemove, Registered, Removing
  <1>14. CASE PendingStep(t)
    <2>1. /\ UNCHANGED <<pending, openFds, pc, batch, req>>
          /\ pc[t] = "pending"
          /\ element[t] \in Waiting(t)
          /\ Waiting(t)' = Waiting(t) \ {element[t]}
      BY <1>14, PendingFlight
    <2>2. PICK c \in Channels : /\ AddIgnored(t, c) \/ AddApplied(t, c) \/ RemoveApplied(t, c)
                                /\ c = Current(t)
      BY <1>14, PendingEffect, CurrentChannel DEF IInv
    <2>3. \A i : QueuedRemove(t, i)' <=> QueuedRemove(t, i)
      BY <2>1 DEF QueuedRemove
    <2>4. Removing(t)' <=> Removing(t)
      BY <2>1 DEF Removing
    <2>5. Removing(t) /\ Removed(t, req[t].element.channel) =>
            Removed(t, req[t].element.channel)'
      BY <1>2, <2>1, RemovedStable
    <2>6. CASE AddIgnored(t, c) \/ AddApplied(t, c)
      <3>1. ~QueuedRemove(t, element[t])
        BY <2>6 DEF AddIgnored, AddApplied, AddDone, QueuedRemove
      <3>2. ASSUME NEW d \in Channels, Registered(t, d) PROVE Registered(t, d)'
        <4>1. CASE AddIgnored(t, c)
          BY <2>1, <3>2, <4>1 DEF AddIgnored, Registered
        <4>2. CASE AddApplied(t, c)
          <5>1. FdOf[c] # FdOf[d]
            BY <3>2, <4>2 DEF AddApplied, Unwatched, Registered
          <5>2. FdOf[d] \in Fds
            BY <1>1, <3>2 DEF Registered, TypeOK
          <5>3. entries'[t][FdOf[d]] = entries[t][FdOf[d]]
            BY <1>1, <4>2, <5>1, <5>2 DEF AddApplied, AddDone, TypeOK
          <5>4. FdOf[d] \in interest'[t]
            BY <1>1, <3>2, <4>2 DEF AddApplied, AddDone, Registered, TypeOK
          <5> QED
            BY <2>1, <3>2, <5>3, <5>4 DEF Registered
        <4> QED
          BY <2>6, <4>1, <4>2
      <3>3. Removing(t) /\ Registered(t, req[t].element.channel) =>
              Registered(t, req[t].element.channel)'
        BY <1>2, <2>1, <3>2
      <3> QED
        BY <1>1, <2>1, <2>3, <2>4, <2>5, <3>1, <3>3 DEF RemovalOf
    <2>7. CASE RemoveApplied(t, c)
      <3>1. /\ QueuedRemove(t, element[t])
            /\ Removing(t) /\ c = req[t].element.channel
            /\ FdOf[c] \in Fds /\ Registered(t, c)
            /\ entries' = [entries EXCEPT ![t] = [entries[t] EXCEPT ![FdOf[c]] = None]]
            /\ interest' = [interest EXCEPT ![t] = @ \ {FdOf[c]}]
        BY <2>7 DEF RemoveApplied
      <3>2. \A i \in Waiting(t)' : ~QueuedRemove(t, i)'
        BY <1>1, <2>1, <2>3, <3>1 DEF RemovalOf
      <3>3. /\ FdOf[c] \in openFds
            /\ \A k \in Loops \ {t} : FdOf[c] \notin interest[k]
        BY <1>1, <3>1 DEF Registered, MapInv, IInv, OneLoopPerFd
      <3>4. Unwatched(FdOf[c])'
        BY <1>1, <2>1, <3>1, <3>3 DEF Unwatched, TypeOK
      <3>5. /\ \A u \in Loops : ~AskedAdd(u, FdOf[c])
            /\ \A l \in Loops : \A i \in Waiting(l) : ~QueuedAdd(l, i, FdOf[c])
        BY <3>1 DEF Registered, IInv, FlightInv, Unwatched
      <3>6. \A l \in Loops : Waiting(l)' \subseteq Waiting(l)
        BY <1>14, PendingFlight
      <3>7. /\ \A u \in Loops : ~AskedAdd(u, FdOf[c])'
            /\ \A l \in Loops : \A i \in Waiting(l)' : ~QueuedAdd(l, i, FdOf[c])'
        BY <2>1, <3>5, <3>6 DEF AskedAdd, QueuedAdd, Adds
      <3>8. entries'[t][FdOf[c]] # c
        BY <1>1, <3>1, NoneAssumption DEF TypeOK
      <3>9. Removed(t, c)'
        BY <3>1, <3>4, <3>7, <3>8 DEF Removed
      <3> QED
        BY <2>1, <2>4, <3>1, <3>2, <3>9 DEF RemovalOf
    <2> QED
      BY <2>2, <2>6, <2>7
  <1>15. CASE PendingUnlock(t)
    <2>1. /\ req' = req /\ pc[t] = "pending"
          /\ pc'[t] = IF req[t] = None THEN "dispatch" ELSE "callback"
          /\ pending'[t] = <<>> /\ element'[t] = 1
      BY <1>1, <1>15 DEF PendingUnlock, TypeOK
    <2>2. Waiting(t) = {}
      BY <1>1, <1>15 DEF PendingUnlock, TypeOK, Waiting
    <2>3. Waiting(t)' = {}
      BY <2>1 DEF Waiting
    <2>4. Removing(t) => Removed(t, req[t].element.channel)
      BY <1>1, <2>1, <2>2 DEF RemovalOf
    <2>5. Removing(t)' => Removed(t, req[t].element.channel)'
      BY <1>2, <2>1, <2>4, RemovedStable DEF Removing
    <2> QED
      BY <2>1, <2>3, <2>5 DEF RemovalOf, Removing
  <1> QED
    BY <1>5, <1>6, <1>7, <1>8, <1>9, <1>10, <1>11, <1>12, <1>13, <1>14, <1>15
    DEF Step, Callback, RequestStep, HandlePending

(* The invariant is inductive, and the properties are among its parts or   *)
(* follow from them.                                                       *)
LEMMA InvariantInit == Init => IInv
  <1> SUFFICES ASSUME Init PROVE IInv
    OBVIOUS
  <1> USE DEF Init, Waiting
  <1>1. TypeOK
    <2>1. socketPair \in [Loops -> 0 .. WakeCap]
      BY SizesAssumption
    <2>2. pending \in [Loops -> Seq(Element)] /\ element \in [Loops -> Nat \ {0}]
      OBVIOUS
    <2> QED
      BY <2>1, <2>2 DEF TypeOK
  <1>2. LockInv /\ RequestInv
    BY NoneAssumption DEF LockInv, Holds, RequestInv
  <1>3. MapInv /\ OneLoopPerFd /\ NoAbort /\ NoLostWakeup /\ WakeupReadNeverBlocks
    BY DEF MapInv, OneLoopPerFd, NoAbort, NoLostWakeup, WakeupReadNeverBlocks
  <1>4. FlightInv /\ RemoveInv
    BY DEF FlightInv, AskedAdd, RemoveInv, RemovalOf
  <1> QED
    BY <1>1, <1>2, <1>3, <1>4 DEF IInv

LEMMA InvariantStep == IInv /\ [Next]_vars => IInv'
  <1> SUFFICES ASSUME IInv, [Next]_vars PROVE IInv'
    OBVIOUS
  <1>1. RemoveInv'
    <2>1. CASE UNCHANGED vars
      BY <2>1 DEF vars, IInv, RemoveInv, RemovalOf, Removing, Registered, Removed, Unwatched,
           AskedAdd, QueuedAdd, QueuedRemove, Adds, Waiting
    <2>2. ASSUME NEW t \in Loops, Step(t) PROVE RemoveInv'
      BY <2>2, RemovalOfOthers, RemovalOfSelf DEF RemoveInv
    <2> QED
      BY <2>1, <2>2 DEF Next
  <1>2. TypeOK'
    BY TypeStep DEF IInv
  <1>3. LockInv' /\ RequestInv'
    BY LockStep, RequestStepInv
  <1>4. MapInv' /\ FlightInv'
    BY MapStep, FlightStep
  <1>5. OneLoopPerFd' /\ NoAbort'
    BY DisjointStep, AbortStep
  <1>6. NoLostWakeup' /\ WakeupReadNeverBlocks'
    BY NoLostStep, ReadStep
  <1> QED
    BY <1>1, <1>2, <1>3, <1>4, <1>5, <1>6 DEF IInv

(* The inductive invariant: the locks, the lists, the maps, the requests in *)
(* flight and the wakeup bytes of all loops fit together after every step.  *)
THEOREM Invariance == Spec => []IInv
  BY InvariantInit, InvariantStep, PTL DEF Spec

(* Every variable of the reactor keeps its type.                           *)
THEOREM Typing == Spec => []TypeOK
  <1>1. IInv => TypeOK
    BY DEF IInv
  <1> QED
    BY <1>1, Invariance, PTL

(* Only one thread at a time is inside the critical sections of            *)
(* event_loop_do_channel_event and event_loop_handle_pending_channel.      *)
THEOREM MutualExclusion == Spec => []ListGuarded
  <1>1. IInv => ListGuarded
    BY NoneAssumption DEF IInv, LockInv, ListGuarded
  <1> QED
    BY <1>1, Invariance, PTL

(* No assert of event_loop.c fails, no channel is looked up in vain and no *)
(* epoll_ctl is refused.                                                   *)
THEOREM Safety == Spec => []NoAbort
  <1>1. IInv => NoAbort
    BY DEF IInv
  <1> QED
    BY <1>1, Invariance, PTL

(* A sleeping loop with requests in its list is about to be woken, and the *)
(* read of the wakeup byte does not block.                                 *)
THEOREM Wakefulness == Spec => [](NoLostWakeup /\ WakeupReadNeverBlocks)
  <1>1. IInv => NoLostWakeup /\ WakeupReadNeverBlocks
    BY DEF IInv
  <1> QED
    BY <1>1, Invariance, PTL

(* Two loops never watch the same descriptor.                              *)
THEOREM Ownership == Spec => []OneLoopPerFd
  <1>1. IInv => OneLoopPerFd
    BY DEF IInv
  <1> QED
    BY <1>1, Invariance, PTL

(* When handle_connection_closed runs the application's closed callback,   *)
(* the channel is unregistered.                                            *)
THEOREM SynchronousRemoval == Spec => []RemoveIsSynchronous
  <1>1. IInv => RemoveIsSynchronous
    <2> SUFFICES ASSUME IInv, NEW t \in Loops, pc[t] = "callback",
                        req[t].element.type = "remove"
                 PROVE  LET d == req[t].element.channel IN
                          FdOf[d] \notin interest[t] /\ entries[t][FdOf[d]] # d
      BY DEF RemoveIsSynchronous
    <2>1. Removing(t)
      BY NoneAssumption DEF IInv, RequestInv, Removing
    <2> QED
      BY <2>1 DEF IInv, RemoveInv, RemovalOf, Removed, Unwatched
  <1> QED
    BY <1>1, Invariance, PTL
-----------------------------------------------------------------------------
(* The refinement.  The requests of a loop that are still to be applied    *)
(* are the registry's queue; only three steps change it.                   *)

LEMMA NothingUnapplied ==
  ASSUME NEW s \in Seq(Element), NEW i \in Nat \ {0}, i > Len(s)
  PROVE  SubSeq(s, i, Len(s)) = <<>>
  BY DEF Element

LEMMA AllUnapplied ==
  ASSUME NEW s \in Seq(Element)
  PROVE  SubSeq(s, 1, Len(s)) = s
  OBVIOUS

LEMMA FirstUnapplied ==
  ASSUME NEW s \in Seq(Element), NEW i \in 1 .. Len(s)
  PROVE  /\ SubSeq(s, i, Len(s)) # <<>>
         /\ Head(SubSeq(s, i, Len(s))) = s[i]
         /\ Tail(SubSeq(s, i, Len(s))) = SubSeq(s, i + 1, Len(s))
  <1>1. Len(SubSeq(s, i, Len(s))) = Len(s) - i + 1
    OBVIOUS
  <1>2. Len(s) \in i .. Len(s)
    OBVIOUS
  <1>3. /\ Head(SubSeq(s, i, Len(s))) = s[i]
        /\ Tail(SubSeq(s, i, Len(s))) = SubSeq(s, i + 1, Len(s))
    BY <1>2, HeadTailOfSubSeq
  <1>4. SubSeq(s, i, Len(s)) # <<>>
    <2> DEFINE rest == SubSeq(s, i, Len(s))
    <2>1. Len(rest) > 0
      BY <1>1
    <2> HIDE DEF rest
    <2> QED
      BY <2>1
  <1> QED
    BY <1>3, <1>4

(* event_loop_do_channel_event, the list part: the registry's Submit.      *)
LEMMA RequestLockSubmits ==
  ASSUME IInv, NEW t \in Loops, RequestLock(t)
  PROVE  Registry!RegNext
  <1>1. PICK l \in Loops, e \in Element :
          /\ UNCHANGED <<element, entries>>
          /\ pending' = [pending EXCEPT ![l] = Append(@, e)]
          /\ pending[l] \in Seq(Element) /\ element[l] = 1
    BY RequestLockFlight
  <1>2. DOMAIN pending = Loops
    BY DEF IInv, TypeOK
  <1>3. Unapplied(l)' = Append(Unapplied(l), e)
    <2>1. pending'[l] = Append(pending[l], e) /\ element'[l] = 1
      BY <1>1, <1>2
    <2>2. Unapplied(l) = pending[l]
      BY <1>1, AllUnapplied DEF Unapplied
    <2>3. pending'[l] \in Seq(Element)
      BY <1>1, <2>1
    <2>4. Unapplied(l)' = pending'[l]
      BY <2>1, <2>3, AllUnapplied DEF Unapplied
    <2> QED
      BY <2>1, <2>2, <2>4
  <1>4. \A k \in Loops \ {l} : Unapplied(k)' = Unapplied(k)
    BY <1>1, <1>2 DEF Unapplied
  <1>5. [k \in Loops |-> Unapplied(k)]' =
          [[k \in Loops |-> Unapplied(k)] EXCEPT ![l] = Append(@, e)]
    BY <1>1, <1>3, <1>4
  <1>6. e \in Registry!Element
    BY DEF Element, Registry!Element
  <1> QED
    BY <1>1, <1>5, <1>6 DEF Registry!RegNext, Registry!Submit

(* One round of event_loop_handle_pending_channel: the registry's Apply.   *)
LEMMA PendingStepApplies ==
  ASSUME IInv, NEW t \in Loops, PendingStep(t)
  PROVE  Registry!RegNext
  <1> DEFINE e == pending[t][element[t]]
  <1>1. /\ element[t] \in 1 .. Len(pending[t]) /\ element[t] \in Nat
        /\ pending[t] \in Seq(Element) /\ Current(t) \in Channels
        /\ DOMAIN element = Loops
    BY CurrentChannel DEF IInv, TypeOK, Waiting
  <1>2. element' = [element EXCEPT ![t] = @ + 1] /\ UNCHANGED pending
    BY DEF PendingStep
  <1>3. /\ Unapplied(t) # <<>> /\ Head(Unapplied(t)) = e
        /\ Unapplied(t)' = Tail(Unapplied(t))
    BY <1>1, <1>2, FirstUnapplied DEF Unapplied
  <1>4. \A k \in Loops \ {t} : Unapplied(k)' = Unapplied(k)
    BY <1>1, <1>2 DEF Unapplied
  <1>5. entries' = [entries EXCEPT ![t] = Registry!Effect(entries[t], e)]
    <2>1. entries[t] \in [Fds -> Channels \cup {None}] /\ DOMAIN entries = Loops
      BY DEF IInv, TypeOK
    <2>2. CASE AddIgnored(t, Current(t))
      <3>1. FdOf[Current(t)] \notin Fds \/ entries[t][FdOf[Current(t)]] # None
        <4>1. \A f \in Fds : f \in Nat
          BY FdsAssumption
        <4> QED
          BY <2>2, <4>1 DEF AddIgnored
      <3>2. Registry!Effect(entries[t], e) = entries[t]
        BY <2>2, <3>1 DEF AddIgnored, Current, Registry!Effect, Registry!AfterAdd
      <3> QED
        <4>1. entries = [entries EXCEPT ![t] = entries[t]]
          BY DEF IInv, TypeOK
        <4>2. entries' = entries
          BY <2>2 DEF AddIgnored
        <4> QED
          BY <3>2, <4>1, <4>2, Zenon
    <2>4. CASE AddApplied(t, Current(t))
      BY <2>1, <2>4 DEF AddApplied, AddDone, Current, Registry!Effect, Registry!AfterAdd
    <2>5. CASE RemoveApplied(t, Current(t))
      BY <2>1, <2>5
      DEF RemoveApplied, QueuedRemove, Current, Registry!Effect, Registry!AfterRemove
    <2> QED
      BY <2>2, <2>4, <2>5, PendingEffect
  <1> HIDE DEF e
  <1>6. [k \in Loops |-> Unapplied(k)]' =
          [[k \in Loops |-> Unapplied(k)] EXCEPT ![t] = Tail(@)]
    BY <1>3, <1>4
  <1> QED
    BY <1>3, <1>5, <1>6 DEF Registry!RegNext, Registry!Apply

(* No other step touches a queue or a map: PendingLock starts at the first *)
(* element, where the index already is, and PendingUnlock drops a list     *)
(* that has been applied.                                                  *)
LEMMA OthersKeepRegistry ==
  ASSUME IInv, NEW t \in Loops, QuietStep(t) \/ Accept(t)
  PROVE  UNCHANGED Registry!regVars
  <1>1. entries' = entries
    BY QuietSteps, AcceptFlight DEF Quiet
  <1>2. \A k \in Loops : Unapplied(k)' = Unapplied(k)
    <2>1. CASE PendingLock(t)
      BY <2>1 DEF PendingLock, At, IInv, LockInv, TypeOK, Unapplied
    <2>2. CASE PendingUnlock(t)
      <3>1. /\ pending' = [pending EXCEPT ![t] = <<>>] /\ element' = [element EXCEPT ![t] = 1]
            /\ element[t] > Len(pending[t])
            /\ pending \in [Loops -> Seq(Element)] /\ element \in [Loops -> Nat \ {0}]
        BY <2>2 DEF PendingUnlock, IInv, TypeOK
      <3>2. Unapplied(t) = <<>>
        BY <3>1, NothingUnapplied DEF Unapplied
      <3>3. pending'[t] = <<>> /\ element'[t] = 1
        BY <3>1
      <3>4. Unapplied(t)' = <<>>
        BY <3>3 DEF Unapplied
      <3>5. \A k \in Loops \ {t} : Unapplied(k)' = Unapplied(k)
        BY <3>1 DEF Unapplied
      <3> QED
        BY <3>2, <3>4, <3>5
    <2>3. CASE UNCHANGED <<pending, element>>
      BY <2>3 DEF Unapplied
    <2>4. PendingLock(t) \/ PendingUnlock(t) \/ UNCHANGED <<pending, element>>
      BY DEF QuietStep, Dispatch, HandleWakeup, ReadMessage, ReadMessageOn, ReadClosed,
             ReadClosedOn, HangUp, HangUpOn, DispatchReturn, RequestUnlock, Wakeup,
             CallbackReturn, Accept, AcceptOn
    <2> QED
      BY <2>1, <2>2, <2>3, <2>4
  <1> QED
    BY <1>1, <1>2 DEF Registry!regVars

(* Every request made to a loop is applied once, in the order the requests *)
(* were made to it, and nothing else changes its channel map.              *)
THEOREM RequestsInOrder == Spec => Registry!RegSafety
  <1>1. Init => Registry!RegInit
    <2> SUFFICES ASSUME Init PROVE Registry!RegInit
      OBVIOUS
    <2>1. \A l \in Loops : Unapplied(l) = <<>>
      BY DEF Init, Unapplied
    <2> QED
      BY <2>1 DEF Init, Registry!RegInit
  <1>2. IInv /\ [Next]_vars => [Registry!RegNext]_Registry!regVars
    <2> SUFFICES ASSUME IInv, [Next]_vars PROVE [Registry!RegNext]_Registry!regVars
      OBVIOUS
    <2>1. CASE UNCHANGED vars
      BY <2>1 DEF vars, Registry!regVars, Unapplied
    <2>2. ASSUME NEW t \in Loops, Step(t) PROVE [Registry!RegNext]_Registry!regVars
      BY <2>2, RequestLockSubmits, PendingStepApplies, OthersKeepRegistry
      DEF Step, Callback, RequestStep, HandlePending, QuietStep
    <2> QED
      BY <2>1, <2>2 DEF Next
  <1> QED
    BY <1>1, <1>2, Invariance, PTL DEF Spec, Registry!RegSafety

-----------------------------------------------------------------------------
(* Additions under poll, as long as there are no more descriptors than     *)
(* slots: whatever is in the channel map is polled, since poll never       *)
(* closes a descriptor behind the map's back and never finds its set full. *)

PollFits == Dispatcher = "poll" /\ IsFiniteSet(Fds) /\ Cardinality(Fds) <= PollSize

EntriesWatched == \A l \in Loops, f \in Fds : entries[l][f] # None => f \in interest[l]

LEMMA RoomInPollSet ==
  ASSUME PollFits, TypeOK, NEW t \in Loops, NEW f \in Fds, f \notin interest[t]
  PROVE  Cardinality(interest[t]) < PollSize
  <1>1. interest[t] \subseteq Fds /\ interest[t] # Fds
    BY DEF TypeOK
  <1>2. /\ IsFiniteSet(interest[t]) /\ Cardinality(interest[t]) < Cardinality(Fds)
        /\ Cardinality(Fds) \in Nat /\ Cardinality(interest[t]) \in Nat
    BY <1>1, FS_Subset, FS_CardinalityType DEF PollFits
  <1> QED
    BY <1>2, SizesAssumption DEF PollFits

LEMMA AddedIsPolled ==
  ASSUME PollFits, IInv, NEW t \in Loops, PendingStep(t), AddApplied(t, Current(t))
  PROVE  /\ FdOf[Current(t)] \in Fds
         /\ interest' = [interest EXCEPT ![t] = @ \cup {FdOf[Current(t)]}]
  <1>1. /\ FdOf[Current(t)] \in Fds /\ entries[t][FdOf[Current(t)]] = None
        /\ FdOf[Current(t)] \notin interest[t] /\ pending[t][element[t]].type = "add"
    BY DEF AddApplied, AddDone, Unwatched
  <1>2. HandlePendingAdd(t, Current(t))
    BY <1>1 DEF PendingStep, Current
  <1>3. ~(FdOf[Current(t)] < 0)
    <2>1. FdOf[Current(t)] \in Nat
      BY <1>1, FdsAssumption
    <2> QED
      BY <2>1
  <1>4. PollAdd(t, FdOf[Current(t)])
    BY <1>1, <1>2, <1>3 DEF HandlePendingAdd, DispatcherAdd, PollFits
  <1> QED
    BY <1>1, <1>4, RoomInPollSet DEF PollAdd, IInv

LEMMA WatchedStep ==
  ASSUME PollFits, IInv, EntriesWatched, [Next]_vars
  PROVE  EntriesWatched'
  <1>1. CASE UNCHANGED vars
    BY <1>1 DEF vars, EntriesWatched
  <1>2. ASSUME NEW t \in Loops, PendingStep(t) PROVE EntriesWatched'
    <2>1. CASE AddIgnored(t, Current(t))
      BY <2>1 DEF AddIgnored, EntriesWatched
    <2>2. CASE AddApplied(t, Current(t))
      <3>1. /\ FdOf[Current(t)] \in Fds
            /\ interest' = [interest EXCEPT ![t] = @ \cup {FdOf[Current(t)]}]
            /\ entries' = [entries EXCEPT ![t] = [entries[t] EXCEPT ![FdOf[Current(t)]] = Current(t)]]
        BY <1>2, <2>2, AddedIsPolled DEF AddApplied, AddDone
      <3> QED
        BY <3>1 DEF EntriesWatched, IInv, TypeOK
    <2>3. CASE RemoveApplied(t, Current(t))
      <3>1. /\ interest' = [interest EXCEPT ![t] = @ \ {FdOf[Current(t)]}]
            /\ entries' = [entries EXCEPT ![t] = [entries[t] EXCEPT ![FdOf[Current(t)]] = None]]
        BY <2>3 DEF RemoveApplied
      <3> QED
        BY <3>1 DEF EntriesWatched, IInv, TypeOK
    <2> QED
      BY <1>2, <2>1, <2>2, <2>3, PendingEffect
  <1>3. ASSUME NEW t \in Loops, Step(t), ~PendingStep(t) PROVE UNCHANGED <<entries, interest>>
    BY <1>3 DEF PollFits, Step, Callback, RequestStep, HandlePending, Dispatch, HandleWakeup,
       ReadMessage, ReadMessageOn, ReadClosed, ReadClosedOn, HangUp, HangUpOn, Accept, AcceptOn,
       DispatchReturn, RequestLock, RequestUnlock, Wakeup, CallbackReturn, PendingLock, PendingUnlock
  <1> QED
    BY <1>1, <1>2, <1>3 DEF Next, EntriesWatched

(* With poll and no more descriptors than slots, applying a request to add *)
(* a connection makes the loop watch it and find its channel.              *)
THEOREM AdditionsTakeEffect ==
  ASSUME Dispatcher = "poll", IsFiniteSet(Fds), Cardinality(Fds) <= PollSize
  PROVE  Spec => AddTakesEffect
  <1>0. PollFits
    BY DEF PollFits
  <1>1. Init => EntriesWatched
    BY DEF Init, EntriesWatched
  <1>2. IInv /\ EntriesWatched /\ [Next]_vars => EntriesWatched'
    BY <1>0, WatchedStep
  <1> DEFINE Effective(t) ==
        LET e == pending[t][element[t]]
            f == FdOf[e.channel]
        IN  e.type = "add" /\ f \in Fds => f \in interest'[t] /\ entries'[t][f] = e.channel
  <1>3. IInv /\ EntriesWatched /\ [Next]_vars =>
          [\A t \in Loops : PendingStep(t) => Effective(t)]_vars
    <2> SUFFICES ASSUME IInv, EntriesWatched, NEW t \in Loops, PendingStep(t),
                        pending[t][element[t]].type = "add", FdOf[Current(t)] \in Fds
                 PROVE  /\ FdOf[Current(t)] \in interest'[t]
                        /\ entries'[t][FdOf[Current(t)]] = Current(t)
      BY DEF Current
    <2>1. Unwatched(FdOf[Current(t)])
      BY CurrentChannel DEF IInv, FlightInv, QueuedAdd, Adds, Current
    <2>2. entries[t][FdOf[Current(t)]] = None
      BY <2>1 DEF EntriesWatched, Unwatched
    <2>3. FdOf[Current(t)] \in Nat
      BY FdsAssumption
    <2>4. AddApplied(t, Current(t))
      BY <2>2, <2>3, PendingEffect DEF AddIgnored, RemoveApplied, QueuedRemove
    <2>5. /\ FdOf[Current(t)] \in Fds
          /\ interest' = [interest EXCEPT ![t] = @ \cup {FdOf[Current(t)]}]
      BY <1>0, <2>4, AddedIsPolled
    <2>6. entries' = [entries EXCEPT ![t] = [entries[t] EXCEPT ![FdOf[Current(t)]] = Current(t)]]
      BY <2>4 DEF AddApplied, AddDone
    <2>7. t \in DOMAIN interest /\ t \in DOMAIN entries /\ DOMAIN entries[t] = Fds
      BY DEF IInv, TypeOK
    <2>8. FdOf[Current(t)] \in interest'[t]
      BY <2>5, <2>7
    <2>9. entries'[t][FdOf[Current(t)]] = Current(t)
      BY <2>5, <2>6, <2>7
    <2> QED
      BY <2>8, <2>9
  <1> QED
    BY <1>1, <1>2, <1>3, Invariance, PTL DEF Spec, AddTakesEffect
==============================================================================
