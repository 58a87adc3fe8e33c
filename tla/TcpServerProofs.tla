--------------------------- MODULE TcpServerProofs ---------------------------
(***************************************************************************)
(* The server only adds to the steps of the event loops, so what is proved *)
(* of EventLoop holds of it; and a connection has a single user.           *)
(***************************************************************************)
EXTENDS TcpServer, EventLoopProofs

(* Every place that names a channel agrees with the loop the channel was   *)
(* given to, and a channel not accepted yet is named nowhere.              *)
Owned ==
  /\ \A d \in Channels \ created : owner[d] = None
  /\ \A t \in Loops : req[t] # None => owner[req[t].element.channel] = req[t].loop
  /\ \A l \in Loops : \A i \in 1 .. Len(pending[l]) : owner[pending[l][i].channel] = l
  /\ \A l \in Loops, f \in Fds : entries[l][f] # None => owner[entries[l][f]] = l

OwnerTypeOK ==
  /\ position \in Nat
  /\ position = 0 \/ position < Len(LoopOrder)
  /\ owner \in [Channels -> Loops \cup {None}]
  /\ request \in [Channels -> {"NULL", "new"}]
  /\ data \in [Channels -> {"uninitialized", "server"}]

SrvInv == IInv /\ OwnerTypeOK /\ Owned

(* The loop chosen for a connection is one of Workers.                     *)
LEMMA ChosenLoop == OwnerTypeOK => GetLoop \in Workers /\ GetLoop \in Loops
  <1> SUFFICES ASSUME OwnerTypeOK PROVE GetLoop \in Workers /\ GetLoop \in Loops
    OBVIOUS
  <1>1. CASE LoopOrder = <<>>
    BY <1>1, LoopOrderAssumption, LoopsAssumption DEF GetLoop
  <1>2. CASE LoopOrder # <<>>
    <2>1. LoopOrder \in Seq(Loops \ {MainLoop}) /\ Len(LoopOrder) \in Nat \ {0}
      BY <1>2, LoopOrderAssumption
    <2>2. position + 1 \in 1 .. Len(LoopOrder)
      BY <2>1 DEF OwnerTypeOK
    <2>3. LoopOrder[position + 1] \in PoolLoops /\ LoopOrder[position + 1] \in Loops
      BY <2>1, <2>2 DEF PoolLoops
    <2> QED
      BY <1>2, <2>3, LoopOrderAssumption DEF GetLoop
  <1> QED
    BY <1>1, <1>2

(* A step of the server is a step of the loops, or touches none of them.   *)
LEMMA LoopsStep == OwnerTypeOK /\ [SrvNext]_srvVars => [Next]_vars
  <1> SUFFICES ASSUME OwnerTypeOK, [SrvNext]_srvVars PROVE [Next]_vars
    OBVIOUS
  <1>1. CASE UNCHANGED srvVars
    BY <1>1 DEF srvVars
  <1>2. ASSUME NEW t \in Loops, SrvStep(t) PROVE Next
    <2>1. CASE Established(t)
      BY <2>1, ChosenLoop DEF Established, Accept, Next, Step, Callback
    <2>2. CASE SetData(t) \/ ConnectionClosed(t)
      BY <2>2 DEF SetData, ConnectionClosed, Next, Step, RequestStep
    <2>3. CASE Unattended(t)
      BY <2>3 DEF Unattended, Next, Step, Callback, RequestStep
    <2> QED
      BY <1>2, <2>1, <2>2, <2>3 DEF SrvStep
  <1> QED
    BY <1>1, <1>2 DEF SrvNext

LEMMA OwnerTypeStep == IInv /\ OwnerTypeOK /\ [SrvNext]_srvVars => OwnerTypeOK'
  <1> SUFFICES ASSUME IInv, OwnerTypeOK, [SrvNext]_srvVars PROVE OwnerTypeOK'
    OBVIOUS
  <1> USE DEF OwnerTypeOK
  <1>1. CASE UNCHANGED srvVars
    BY <1>1 DEF srvVars, appVars
  <1>2. ASSUME NEW t \in Loops, SrvStep(t) PROVE OwnerTypeOK'
    <2>1. ASSUME Established(t) PROVE OwnerTypeOK'
      <3>1. GetLoop \in Loops
        BY ChosenLoop
      <3>2. Len(LoopOrder) \in Nat
        BY LoopOrderAssumption
      <3>3. NextPosition \in Nat /\ (NextPosition = 0 \/ NextPosition < Len(LoopOrder))
        BY <3>2 DEF NextPosition
      <3> QED
        BY <2>1, <3>1, <3>3 DEF Established
    <2>2. ASSUME SetData(t) PROVE OwnerTypeOK'
      BY <2>2 DEF SetData
    <2>3. ASSUME ConnectionClosed(t) PROVE OwnerTypeOK'
      BY <2>3 DEF ConnectionClosed
    <2>4. ASSUME Unattended(t) PROVE OwnerTypeOK'
      BY <2>4 DEF Unattended, appVars
    <2> QED
      BY <1>2, <2>1, <2>2, <2>3, <2>4 DEF SrvStep
  <1> QED
    BY <1>1, <1>2 DEF SrvNext

(* What the steps do to the places that name channels: nothing, or one     *)
(* that is copied from another place of the same loop.                     *)
LEMMA EstablishedOwned ==
  ASSUME SrvInv, NEW t \in Loops, Established(t)
  PROVE  Owned'
  <1>1. PICK d \in Channels : /\ AcceptOn(t, d, GetLoop)
                              /\ owner' = [owner EXCEPT ![d] = GetLoop]
    BY DEF Established
  <1>2. GetLoop \in Loops
    BY ChosenLoop DEF SrvInv
  <1>3. /\ created' = created \cup {d} /\ d \notin created
        /\ pending' = pending /\ entries' = entries
        /\ req' = [req EXCEPT ![t] = [loop |-> GetLoop,
                                      element |-> [type |-> "add", channel |-> d]]]
    BY <1>1 DEF AcceptOn, Acceptable
  <1>4. owner[d] = None /\ None \notin Loops
    BY <1>3, NoneAssumption DEF SrvInv, Owned
  <1>5. owner \in [Channels -> Loops \cup {None}] /\ TypeOK
    BY DEF SrvInv, OwnerTypeOK, IInv
  <1>6. \A c \in Channels \ {d} : owner'[c] = owner[c]
    BY <1>1, <1>5
  <1>7. owner'[d] = GetLoop
    BY <1>1, <1>5
  <1>8. \A c \in Channels \ created' : owner'[c] = None
    BY <1>3, <1>6 DEF SrvInv, Owned
  <1>9. \A u \in Loops : req'[u] # None => owner'[req'[u].element.channel] = req'[u].loop
    <2> SUFFICES ASSUME NEW u \in Loops, req'[u] # None
                 PROVE  owner'[req'[u].element.channel] = req'[u].loop
      OBVIOUS
    <2>1. CASE u = t
      BY <1>3, <1>5, <1>7, <2>1 DEF TypeOK
    <2>2. CASE u # t
      <3>1. req'[u] = req[u] /\ req[u] \in Request /\ req[u] # None
        BY <1>3, <1>5, <2>2 DEF TypeOK
      <3>2. req[u].loop \in Loops /\ req[u].element.channel \in Channels
        BY <3>1 DEF Request, Element
      <3>3. owner[req[u].element.channel] = req[u].loop
        BY <3>1 DEF SrvInv, Owned
      <3>4. req[u].element.channel \in Channels \ {d}
        BY <1>4, <3>2, <3>3
      <3>5. owner'[req[u].element.channel] = req[u].loop
        BY <1>6, <3>3, <3>4
      <3> QED
        BY <3>1, <3>5
    <2> QED
      BY <2>1, <2>2
  <1>10. \A l \in Loops : \A i \in 1 .. Len(pending'[l]) : owner'[pending'[l][i].channel] = l
    <2> SUFFICES ASSUME NEW l \in Loops, NEW i \in 1 .. Len(pending[l])
                 PROVE  owner'[pending[l][i].channel] = l
      BY <1>3
    <2>1. pending[l] \in Seq(Element)
      BY <1>5 DEF TypeOK
    <2>2. pending[l][i] \in Element
      BY <2>1
    <2>3. pending[l][i].channel \in Channels
      BY <2>2 DEF Element
    <2>4. owner[pending[l][i].channel] = l
      BY DEF SrvInv, Owned
    <2>5. pending[l][i].channel # d
      BY <1>4, <2>4
    <2> QED
      BY <1>6, <2>3, <2>4, <2>5
  <1>11. \A l \in Loops, f \in Fds : entries'[l][f] # None => owner'[entries'[l][f]] = l
    <2> SUFFICES ASSUME NEW l \in Loops, NEW f \in Fds, entries[l][f] # None
                 PROVE  owner'[entries[l][f]] = l
      BY <1>3
    <2>1. entries[l][f] \in Channels
      BY <1>5 DEF TypeOK
    <2>2. owner[entries[l][f]] = l
      BY DEF SrvInv, Owned
    <2>3. entries[l][f] # d
      BY <1>4, <2>2
    <2> QED
      BY <1>6, <2>1, <2>2, <2>3
  <1> QED
    BY <1>8, <1>9, <1>10, <1>11 DEF Owned

(* Of the steps that leave the application alone, three move channels: a   *)
(* closed read names one of the loop's own, a request joins the list of    *)
(* its loop, and an applied add enters the map of the list's loop.         *)
LEMMA UnattendedOwned ==
  ASSUME SrvInv, NEW t \in Loops, Unattended(t)
  PROVE  Owned'
  <1>1. TypeOK /\ RequestInv /\ owner' = owner
    BY DEF SrvInv, IInv, Unattended, appVars
  <1>2. ASSUME UNCHANGED <<req, pending, entries, created>> PROVE Owned'
    BY <1>1, <1>2 DEF SrvInv, Owned
  <1>3. ASSUME ReadClosed(t) PROVE Owned'
    <2>1. PICK f \in batch[t] \cap Fds : ReadClosedOn(t, f)
      BY <1>3 DEF ReadClosed
    <2>2. UNCHANGED <<pending, entries, created>>
      BY <2>1 DEF ReadClosedOn
    <2>3. \/ req' = req
          \/ /\ entries[t][f] # None
             /\ req' = [req EXCEPT ![t] = [loop |-> t,
                  element |-> [type |-> "remove", channel |-> entries[t][f]]]]
      BY <2>1 DEF ReadClosedOn, ChannelFound
    <2>4. CASE req' = req
      BY <1>2, <2>2, <2>4
    <2>5. CASE /\ entries[t][f] # None
               /\ req' = [req EXCEPT ![t] = [loop |-> t,
                    element |-> [type |-> "remove", channel |-> entries[t][f]]]]
      <3>1. owner[entries[t][f]] = t
        BY <2>5 DEF SrvInv, Owned
      <3>2. \A u \in Loops \ {t} : req'[u] = req[u]
        BY <1>1, <2>5 DEF TypeOK
      <3>3. req'[t].loop = t /\ req'[t].element.channel = entries[t][f]
        BY <1>1, <2>5 DEF TypeOK
      <3> QED
        BY <1>1, <2>2, <3>1, <3>2, <3>3 DEF SrvInv, Owned
    <2> QED
      BY <2>3, <2>4, <2>5
  <1>4. ASSUME RequestLock(t) PROVE Owned'
    <2>1. UNCHANGED <<req, entries, created>>
      BY <1>4 DEF RequestLock
    <2>2. PICK l \in Loops : l = req[t].loop /\ req[t] \in Request
      BY <1>1, <1>4 DEF RequestLock, At, RequestInv, Request
    <2>3. \/ pending' = pending
          \/ pending' = [pending EXCEPT ![l] = Append(@, req[t].element)]
      BY <1>4, <2>2 DEF RequestLock
    <2>4. owner[req[t].element.channel] = l
      BY <2>2, NoneAssumption DEF SrvInv, Owned
    <2>5. CASE pending' = pending
      BY <1>2, <2>1, <2>5
    <2>6. CASE pending' = [pending EXCEPT ![l] = Append(@, req[t].element)]
      <3> SUFFICES ASSUME NEW k \in Loops, NEW i \in 1 .. Len(pending'[k])
                   PROVE  owner[pending'[k][i].channel] = k
        BY <1>1, <2>1 DEF SrvInv, Owned
      <3>1. CASE k # l
        BY <1>1, <2>6, <3>1 DEF TypeOK, SrvInv, Owned
      <3>2. CASE k = l
        <4>1. pending'[l] = Append(pending[l], req[t].element) /\ pending[l] \in Seq(Element)
          BY <1>1, <2>6 DEF TypeOK
        <4>2. CASE i \in 1 .. Len(pending[l])
          BY <3>2, <4>1, <4>2 DEF SrvInv, Owned
        <4>3. CASE i = Len(pending[l]) + 1
          BY <2>4, <3>2, <4>1, <4>3
        <4> QED
          BY <3>2, <4>1, <4>2, <4>3
      <3> QED
        BY <3>1, <3>2
    <2> QED
      BY <2>3, <2>5, <2>6
  <1>5. ASSUME PendingStep(t) PROVE Owned'
    <2>1. UNCHANGED <<req, pending, created>>
      BY <1>5 DEF PendingStep
    <2>2. PICK d \in Channels : d = Current(t)
      BY <1>1, <1>5, CurrentChannel
    <2>3. element[t] \in 1 .. Len(pending[t])
      BY <1>1, <1>5 DEF PendingStep, TypeOK
    <2>4. owner[d] = t
      BY <2>2, <2>3 DEF Current, SrvInv, Owned
    <2>5. \/ entries' = entries
          \/ /\ FdOf[d] \in Fds
             /\ \/ entries' = [entries EXCEPT ![t] = [entries[t] EXCEPT ![FdOf[d]] = d]]
                \/ entries' = [entries EXCEPT ![t] = [entries[t] EXCEPT ![FdOf[d]] = None]]
      BY <1>1, <1>5, <2>2, PendingOutcome DEF AddIgnored, AddDone, RemoveIgnored, RemoveDone
    <2>6. \A l \in Loops, f \in Fds :
            \/ entries'[l][f] = entries[l][f]
            \/ entries'[l][f] = None
            \/ l = t /\ entries'[l][f] = d
      BY <1>1, <2>5 DEF TypeOK
    <2> QED
      BY <1>1, <2>1, <2>4, <2>6 DEF SrvInv, Owned
  <1>6. ASSUME PendingUnlock(t) PROVE Owned'
    <2>1. UNCHANGED <<req, entries, created>> /\ pending' = [pending EXCEPT ![t] = <<>>]
      BY <1>6 DEF PendingUnlock
    <2>2. \A k \in Loops : pending'[k] = pending[k] \/ pending'[k] = <<>>
      BY <1>1, <2>1 DEF TypeOK
    <2> QED
      BY <1>1, <2>1, <2>2 DEF SrvInv, Owned
  <1>7. ASSUME \/ Dispatch(t) \/ DispatchReturn(t) \/ PendingLock(t) \/ HandleWakeup(t)
               \/ ReadMessage(t) \/ HangUp(t) \/ RequestUnlock(t) \/ Wakeup(t)
        PROVE  UNCHANGED <<req, pending, entries, created>>
    BY <1>7 DEF Dispatch, DispatchReturn, PendingLock, HandleWakeup, ReadMessage, ReadMessageOn,
         HangUp, HangUpOn, RequestUnlock, AfterRequest, Wakeup
  <1> QED
    BY <1>2, <1>3, <1>4, <1>5, <1>6, <1>7 DEF Unattended, HandlePending

LEMMA ReturnOwned ==
  ASSUME SrvInv, NEW t \in Loops, SetData(t) \/ ConnectionClosed(t)
  PROVE  Owned'
  <1>1. owner' = owner /\ UNCHANGED <<pending, entries, created>>
        /\ req' = [req EXCEPT ![t] = None]
    BY DEF SetData, ConnectionClosed, CallbackReturn
  <1>2. \A u \in Loops : req'[u] = req[u] \/ req'[u] = None
    BY <1>1 DEF SrvInv, IInv, TypeOK
  <1> QED
    BY <1>1, <1>2 DEF SrvInv, Owned

LEMMA SrvInvInit == SrvInit => SrvInv
  <1> SUFFICES ASSUME SrvInit PROVE SrvInv
    OBVIOUS
  <1>1. IInv
    BY InvariantInit DEF SrvInit
  <1>2. OwnerTypeOK
    BY DEF SrvInit, OwnerTypeOK
  <1>3. Owned
    BY DEF SrvInit, Init, Owned
  <1> QED
    BY <1>1, <1>2, <1>3 DEF SrvInv

LEMMA SrvInvStep == SrvInv /\ [SrvNext]_srvVars => SrvInv'
  <1> SUFFICES ASSUME SrvInv, [SrvNext]_srvVars PROVE SrvInv'
    OBVIOUS
  <1>1. IInv'
    BY LoopsStep, InvariantStep DEF SrvInv
  <1>2. OwnerTypeOK'
    BY OwnerTypeStep DEF SrvInv
  <1>3. Owned'
    <2>1. CASE UNCHANGED srvVars
      BY <2>1 DEF srvVars, vars, appVars, SrvInv, Owned
    <2>2. ASSUME NEW t \in Loops, SrvStep(t) PROVE Owned'
      BY <2>2, EstablishedOwned, ReturnOwned, UnattendedOwned DEF SrvStep
    <2> QED
      BY <2>1, <2>2 DEF SrvNext
  <1> QED
    BY <1>1, <1>2, <1>3 DEF SrvInv

(* Every behaviour of the server is one of the event loops: the round      *)
(* robin chooses among the pool's loops and the callbacks touch none of    *)
(* the reactor's state.  All safety theorems of EventLoop hold of it.      *)
THEOREM ServerRunsOnLoops == SrvSpec => Spec
  <1>1. SrvInit => Init
    BY DEF SrvInit
  <1>2. SrvInv /\ [SrvNext]_srvVars => [Next]_vars
    BY LoopsStep DEF SrvInv
  <1> QED
    BY <1>1, <1>2, SrvInvInit, SrvInvStep, PTL DEF SrvSpec, Spec

THEOREM SrvTyping == SrvSpec => []SrvTypeOK
  <1>1. SrvInv => SrvTypeOK
    BY DEF SrvInv, IInv, OwnerTypeOK, SrvTypeOK
  <1> QED
    BY <1>1, SrvInvInit, SrvInvStep, PTL DEF SrvSpec

(* A connection is served, and removed, by the thread of the loop it was   *)
(* given to and by no other.                                               *)
THEOREM SingleUser == SrvSpec => []OneUser
  <1>1. SrvInv => OneUser
    <2> SUFFICES ASSUME SrvInv, NEW t \in Loops, req[t] # None, req[t].element.type = "remove"
                 PROVE  owner[req[t].element.channel] = t
      BY DEF SrvInv, Owned, OneUser
    <2> QED
      BY DEF SrvInv, IInv, RequestInv, Owned
  <1> QED
    BY <1>1, SrvInvInit, SrvInvStep, PTL DEF SrvSpec

-----------------------------------------------------------------------------
(* The request of a connection exists from before it is handed over until  *)
(* after it has left the channel map for good.                             *)
AskedNew ==
  \A t \in Loops :
    pc[t] = "reqLock" /\ req[t].element.type = "add" =>
      request[req[t].element.channel] = "new"

QueuedNew ==
  \A l \in Loops : \A i \in Waiting(l) :
    pending[l][i].type = "add" => request[pending[l][i].channel] = "new"

MappedNew ==
  \A l \in Loops, f \in Fds : entries[l][f] # None => request[entries[l][f]] = "new"

Attended == AskedNew /\ QueuedNew /\ MappedNew

(* The closed callback frees the request of a channel that is asked for,   *)
(* queued and mapped nowhere any more.                                     *)
LEMMA ClosedAttended ==
  ASSUME SrvInv, Attended, NEW t \in Loops, ConnectionClosed(t)
  PROVE  Attended'
  <1> DEFINE d == req[t].element.channel
             f == FdOf[req[t].element.channel]
  <1>1. TypeOK /\ RequestInv /\ MapInv /\ RemoveInv /\ OwnerTypeOK /\ Owned
    BY DEF SrvInv, IInv
  <1>2. /\ pc[t] = "callback" /\ req[t].element.type = "remove"
        /\ pc' = [pc EXCEPT ![t] = "events"] /\ req' = [req EXCEPT ![t] = None]
        /\ UNCHANGED <<pending, element, entries>>
        /\ request' = [request EXCEPT ![d] = "NULL"]
    BY DEF ConnectionClosed, CallbackReturn, At, Goto
  <1>3. req[t] \in Request /\ req[t] # None
    BY <1>1, <1>2, NoneAssumption DEF RequestInv
  <1>4. d \in Channels /\ req[t].loop = t
    BY <1>1, <1>2, <1>3 DEF RequestInv, Request, Element
  <1>5. Removed(t, d)
    BY <1>1, <1>2, <1>3 DEF RemoveInv, RemovalOf, Removing
  <1>6. owner[d] = t
    BY <1>1, <1>3, <1>4 DEF Owned
  <1>7. \A c \in Channels : c # d => request'[c] = request[c]
    BY <1>1, <1>2 DEF OwnerTypeOK
  <1>8. AskedNew'
    <2> SUFFICES ASSUME NEW u \in Loops, pc'[u] = "reqLock", req'[u].element.type = "add"
                 PROVE  request'[req'[u].element.channel] = "new"
      BY DEF AskedNew
    <2>1. u # t
      BY <1>1, <1>2 DEF TypeOK
    <2>2. pc[u] = "reqLock" /\ req'[u] = req[u]
      BY <1>1, <1>2, <2>1 DEF TypeOK
    <2>3. req[u].element.channel \in Channels
      BY <1>1, <2>2 DEF RequestInv, Request, Element
    <2>4. req[u].element.channel # d
      BY <1>5, <2>2 DEF Removed, AskedAdd, Adds
    <2> QED
      BY <1>7, <2>2, <2>3, <2>4 DEF Attended, AskedNew
  <1>9. QueuedNew'
    <2> SUFFICES ASSUME NEW l \in Loops, NEW i \in Waiting(l), pending[l][i].type = "add"
                 PROVE  request'[pending[l][i].channel] = "new"
      BY <1>2 DEF QueuedNew, Waiting
    <2>1. pending[l][i] \in Element
      BY <1>1, QueueElement
    <2>2. pending[l][i].channel \in Channels
      BY <2>1 DEF Element
    <2>3. pending[l][i].channel # d
      BY <1>5 DEF Removed, QueuedAdd, Adds
    <2> QED
      BY <1>7, <2>2, <2>3 DEF Attended, QueuedNew
  <1>10. MappedNew'
    <2> SUFFICES ASSUME NEW l \in Loops, NEW g \in Fds, entries[l][g] # None
                 PROVE  request'[entries[l][g]] = "new"
      BY <1>2 DEF MappedNew
    <2>1. entries[l][g] \in Channels /\ FdOf[entries[l][g]] = g /\ owner[entries[l][g]] = l
      BY <1>1 DEF TypeOK, MapInv, Owned
    <2>2. entries[l][g] # d
      BY <1>5, <1>6, <2>1 DEF Removed
    <2> QED
      BY <1>7, <2>1, <2>2 DEF Attended, MappedNew
  <1> QED
    BY <1>8, <1>9, <1>10 DEF Attended

(* A new connection gets its request before it is asked for.               *)
LEMMA EstablishedAttended ==
  ASSUME SrvInv, Attended, NEW t \in Loops, Established(t)
  PROVE  Attended'
  <1>1. PICK d \in Channels : /\ AcceptOn(t, d, GetLoop)
                              /\ request' = [request EXCEPT ![d] = "new"]
    BY DEF Established
  <1>2. TypeOK /\ OwnerTypeOK /\ RequestInv
    BY DEF SrvInv, IInv
  <1>3. /\ pc' = [pc EXCEPT ![t] = "reqLock"]
        /\ req' = [req EXCEPT ![t] = [loop |-> GetLoop,
                                      element |-> [type |-> "add", channel |-> d]]]
        /\ UNCHANGED <<pending, element, entries>>
    BY <1>1 DEF AcceptOn, Goto
  <1>4. \A c \in Channels : request[c] = "new" => request'[c] = "new"
    BY <1>1, <1>2 DEF OwnerTypeOK
  <1>5. request'[d] = "new"
    BY <1>1, <1>2 DEF OwnerTypeOK
  <1>6. AskedNew'
    <2> SUFFICES ASSUME NEW u \in Loops, pc'[u] = "reqLock", req'[u].element.type = "add"
                 PROVE  request'[req'[u].element.channel] = "new"
      BY DEF AskedNew
    <2>1. CASE u = t
      BY <1>2, <1>3, <1>5, <2>1 DEF TypeOK
    <2>2. CASE u # t
      <3>1. pc[u] = "reqLock" /\ req'[u] = req[u]
        BY <1>2, <1>3, <2>2 DEF TypeOK
      <3>2. req[u].element.channel \in Channels
        BY <1>2, <3>1 DEF RequestInv, Request, Element
      <3> QED
        BY <1>4, <3>1, <3>2 DEF Attended, AskedNew
    <2> QED
      BY <2>1, <2>2
  <1>7. QueuedNew'
    <2> SUFFICES ASSUME NEW l \in Loops, NEW i \in Waiting(l), pending[l][i].type = "add"
                 PROVE  request'[pending[l][i].channel] = "new"
      BY <1>3 DEF QueuedNew, Waiting
    <2>1. pending[l][i] \in Element
      BY <1>2, QueueElement
    <2> QED
      BY <1>4, <2>1 DEF Element, Attended, QueuedNew
  <1>8. MappedNew'
    BY <1>2, <1>3, <1>4 DEF TypeOK, Attended, MappedNew
  <1> QED
    BY <1>6, <1>7, <1>8 DEF Attended

(* Steps that leave the requests alone move a channel from the thread that *)
(* asked into the list and from the list into the map.                     *)
LEMMA OtherAttended ==
  ASSUME SrvInv, Attended, NEW t \in Loops, SetData(t) \/ Unattended(t)
  PROVE  Attended'
  <1>1. TypeOK /\ RequestInv /\ LockInv /\ request' = request
    BY DEF SrvInv, IInv, SetData, Unattended, appVars
  <1>2. pc \in [Loops -> {"dispatch", "events", "reqLock", "reqUnlock", "wakeup",
                          "pendLock", "pending", "callback"}]
    BY <1>1 DEF TypeOK
  <1>3. ASSUME UNCHANGED <<pending, entries, element>>,
               \A u \in Loops : pc'[u] = "reqLock" => pc[u] = "reqLock" /\ req'[u] = req[u]
        PROVE  Attended'
    BY <1>1, <1>3 DEF Attended, AskedNew, QueuedNew, MappedNew, Waiting
  <1>4. CASE SetData(t)
    <2>1. UNCHANGED <<pending, entries, element>>
          /\ pc' = [pc EXCEPT ![t] = "events"] /\ req' = [req EXCEPT ![t] = None]
      BY <1>4 DEF SetData, CallbackReturn, Goto
    <2> QED
      BY <1>1, <1>2, <1>3, <2>1 DEF TypeOK
  <1>5. CASE ReadClosed(t)
    <2>1. PICK f \in batch[t] \cap Fds : ReadClosedOn(t, f)
      BY <1>5 DEF ReadClosed
    <2>2. UNCHANGED <<pending, entries, element>>
      BY <2>1 DEF ReadClosedOn
    <2>3. \/ req' = req /\ pc' = pc
          \/ /\ pc' = [pc EXCEPT ![t] = "reqLock"]
             /\ req' = [req EXCEPT ![t] = [loop |-> t,
                  element |-> [type |-> "remove", channel |-> entries[t][f]]]]
      BY <2>1 DEF ReadClosedOn, Goto
    <2>4. \A u \in Loops : pc'[u] = "reqLock" /\ req'[u].element.type = "add" =>
            pc[u] = "reqLock" /\ req'[u] = req[u]
      <3>1. CASE req' = req /\ pc' = pc
        BY <3>1
      <3>2. CASE /\ pc' = [pc EXCEPT ![t] = "reqLock"]
                 /\ req' = [req EXCEPT ![t] = [loop |-> t,
                      element |-> [type |-> "remove", channel |-> entries[t][f]]]]
        <4>1. req'[t].element.type = "remove"
          BY <1>1, <3>2 DEF TypeOK
        <4>2. \A u \in Loops \ {t} : pc'[u] = pc[u] /\ req'[u] = req[u]
          BY <1>1, <1>2, <3>2 DEF TypeOK
        <4> QED
          BY <4>1, <4>2
      <3> QED
        BY <2>3, <3>1, <3>2
    <2> QED
      BY <1>1, <2>2, <2>4 DEF Attended, AskedNew, QueuedNew, MappedNew, Waiting
  <1>6. CASE RequestLock(t)
    <2>1. UNCHANGED <<req, entries, element>> /\ pc' = [pc EXCEPT ![t] = "reqUnlock"]
      BY <1>6 DEF RequestLock, Goto
    <2>2. PICK l \in Loops : l = req[t].loop /\ req[t] \in Request
      BY <1>1, <1>6 DEF RequestLock, At, RequestInv, Request
    <2>3. \/ pending' = pending
          \/ pending' = [pending EXCEPT ![l] = Append(@, req[t].element)]
      BY <1>6, <2>2 DEF RequestLock
    <2>4. req[t].element.type = "add" => request[req[t].element.channel] = "new"
      BY <1>6 DEF RequestLock, At, Attended, AskedNew
    <2>5. AskedNew' /\ MappedNew'
      BY <1>1, <1>2, <2>1 DEF Attended, AskedNew, MappedNew
    <2>6. QueuedNew'
      <3>1. CASE pending' = pending
        BY <1>1, <2>1, <3>1 DEF Attended, QueuedNew, Waiting
      <3>2. CASE pending' = [pending EXCEPT ![l] = Append(@, req[t].element)]
        <4> SUFFICES ASSUME NEW k \in Loops, NEW i \in element[k] .. Len(pending'[k]),
                            pending'[k][i].type = "add"
                     PROVE  request[pending'[k][i].channel] = "new"
          BY <1>1, <2>1 DEF QueuedNew, Waiting
        <4>1. CASE k # l
          <5>1. pending'[k] = pending[k]
            BY <1>1, <3>2, <4>1 DEF TypeOK
          <5> QED
            BY <5>1 DEF Attended, QueuedNew, Waiting
        <4>2. CASE k = l
          <5>1. pending'[l] = Append(pending[l], req[t].element) /\ pending[l] \in Seq(Element)
            BY <1>1, <3>2 DEF TypeOK
          <5>2. element[l] \in Nat \ {0}
            BY <1>1 DEF TypeOK
          <5>3. CASE i \in element[l] .. Len(pending[l])
            BY <4>2, <5>1, <5>2, <5>3 DEF Attended, QueuedNew, Waiting
          <5>4. CASE i = Len(pending[l]) + 1
            BY <2>4, <4>2, <5>1, <5>4
          <5> QED
            BY <4>2, <5>1, <5>2, <5>3, <5>4
        <4> QED
          BY <4>1, <4>2
      <3> QED
        BY <2>3, <3>1, <3>2
    <2> QED
      BY <2>5, <2>6 DEF Attended
  <1>7. CASE PendingStep(t)
    <2>1. UNCHANGED <<req, pending, pc>> /\ element' = [element EXCEPT ![t] = @ + 1]
      BY <1>7 DEF PendingStep
    <2>2. PICK d \in Channels : d = Current(t)
      BY <1>1, <1>7, CurrentChannel
    <2>3. element[t] \in Waiting(t)
      BY <1>1, <1>7, CurrentChannel
    <2>4. \/ entries' = entries
          \/ /\ pending[t][element[t]].type = "add" /\ FdOf[d] \in Fds
             /\ entries' = [entries EXCEPT ![t] = [entries[t] EXCEPT ![FdOf[d]] = d]]
          \/ /\ FdOf[d] \in Fds
             /\ entries' = [entries EXCEPT ![t] = [entries[t] EXCEPT ![FdOf[d]] = None]]
      BY <1>1, <1>7, <2>2, PendingOutcome DEF AddIgnored, AddDone, RemoveIgnored, RemoveDone
    <2>5. pending[t][element[t]].type = "add" => request[d] = "new"
      BY <2>2, <2>3 DEF Current, Attended, QueuedNew
    <2>6. \A l \in Loops, f \in Fds :
            entries'[l][f] # None => entries'[l][f] = entries[l][f] \/ request[entries'[l][f]] = "new"
      <3>1. CASE entries' = entries
        BY <3>1
      <3>2. CASE /\ pending[t][element[t]].type = "add" /\ FdOf[d] \in Fds
                 /\ entries' = [entries EXCEPT ![t] = [entries[t] EXCEPT ![FdOf[d]] = d]]
        <4>1. \A l \in Loops, f \in Fds : entries'[l][f] = entries[l][f] \/ entries'[l][f] = d
          BY <1>1, <3>2 DEF TypeOK
        <4> QED
          BY <2>5, <3>2, <4>1
      <3>3. CASE /\ FdOf[d] \in Fds
                 /\ entries' = [entries EXCEPT ![t] = [entries[t] EXCEPT ![FdOf[d]] = None]]
        BY <1>1, <3>3 DEF TypeOK
      <3> QED
        BY <2>4, <3>1, <3>2, <3>3
    <2>7. MappedNew'
      BY <1>1, <2>6 DEF Attended, MappedNew
    <2>8. \A l \in Loops : element'[l] \in {element[l], element[l] + 1} /\ element[l] \in Nat
      BY <1>1, <2>1 DEF TypeOK
    <2>9. \A l \in Loops : Len(pending[l]) \in Nat
      BY <1>1 DEF TypeOK
    <2>10. \A l \in Loops : \A i \in element'[l] .. Len(pending[l]) : i \in Waiting(l)
      BY <2>8, <2>9 DEF Waiting
    <2>11. QueuedNew'
      BY <1>1, <2>1, <2>10 DEF Attended, QueuedNew, Waiting
    <2> QED
      BY <1>1, <2>1, <2>7, <2>11 DEF Attended, AskedNew
  <1>8. CASE PendingLock(t)
    <2>1. UNCHANGED <<req, pending, entries>> /\ pc' = [pc EXCEPT ![t] = "pending"]
          /\ element' = [element EXCEPT ![t] = 1] /\ pc[t] = "pendLock"
      BY <1>8 DEF PendingLock, Goto, At
    <2>2. element[t] = 1
      BY <1>1, <2>1 DEF LockInv
    <2>3. element' = element
      BY <1>1, <2>1, <2>2 DEF TypeOK
    <2> QED
      BY <1>2, <1>3, <2>1, <2>3
  <1>9. CASE PendingUnlock(t)
    <2>1. UNCHANGED <<req, entries>> /\ pending' = [pending EXCEPT ![t] = <<>>]
          /\ element' = [element EXCEPT ![t] = 1]
          /\ pc' = [pc EXCEPT ![t] = IF req[t] = None THEN "dispatch" ELSE "callback"]
      BY <1>9 DEF PendingUnlock, Goto
    <2>2. AskedNew' /\ MappedNew'
      BY <1>1, <1>2, <2>1 DEF Attended, AskedNew, MappedNew
    <2>3. \A l \in Loops : \/ pending'[l] = pending[l] /\ element'[l] = element[l]
                           \/ pending'[l] = <<>> /\ element'[l] = 1
      BY <1>1, <2>1 DEF TypeOK
    <2>4. QueuedNew'
      BY <1>1, <2>3 DEF Attended, QueuedNew, Waiting
    <2> QED
      BY <2>2, <2>4 DEF Attended
  <1>10. CASE \/ DispatchReturn(t) \/ RequestUnlock(t) \/ Wakeup(t) \/ Dispatch(t)
    <2>1. UNCHANGED <<req, pending, entries, element>>
          /\ \E label \in {"events", "pendLock", "wakeup", "callback"} :
               pc' = [pc EXCEPT ![t] = label]
      BY <1>10 DEF Dispatch, DispatchReturn, RequestUnlock, AfterRequest, Wakeup, Goto
    <2> QED
      BY <1>2, <1>3, <2>1
  <1>11. CASE HandleWakeup(t) \/ ReadMessage(t) \/ HangUp(t)
    <2>1. UNCHANGED <<req, pending, entries, element, pc>>
      BY <1>11 DEF HandleWakeup, ReadMessage, ReadMessageOn, HangUp, HangUpOn
    <2> QED
      BY <1>3, <2>1
  <1> QED
    BY <1>4, <1>5, <1>6, <1>7, <1>8, <1>9, <1>10, <1>11 DEF Unattended, HandlePending

LEMMA AttendedInit == SrvInit => Attended
  BY DEF SrvInit, Init, Attended, AskedNew, QueuedNew, MappedNew, Waiting

LEMMA AttendedStep == SrvInv /\ Attended /\ [SrvNext]_srvVars => Attended'
  <1> SUFFICES ASSUME SrvInv, Attended, [SrvNext]_srvVars PROVE Attended'
    OBVIOUS
  <1>1. CASE UNCHANGED srvVars
    BY <1>1 DEF srvVars, vars, appVars, Attended, AskedNew, QueuedNew, MappedNew, Waiting
  <1>2. ASSUME NEW t \in Loops, SrvStep(t) PROVE Attended'
    BY <1>2, EstablishedAttended, ClosedAttended, OtherAttended DEF SrvStep
  <1> QED
    BY <1>1, <1>2 DEF SrvNext

(* No message callback runs on a connection without a request: neither     *)
(* before http_onConnectionCompleted has made it nor after                 *)
(* http_onConnectionClosed has freed it, whatever hangs up and however     *)
(* descriptors are given out again.                                        *)
THEOREM RequestsAttended == SrvSpec => RequestWhenMessage
  <1>1. SrvInv /\ Attended =>
          \A t \in Loops : \A f \in batch[t] \cap Fds : request[entries[t][f]] = "new"
    BY DEF SrvInv, IInv, MapInv, Attended, MappedNew
  <1>2. SrvInv /\ Attended =>
          [\A t \in Loops : \A f \in batch[t] \cap Fds :
             ReadMessageOn(t, f) => request[entries[t][f]] = "new"]_srvVars
    BY <1>1
  <1> QED
    BY <1>2, SrvInvInit, SrvInvStep, AttendedInit, AttendedStep, PTL DEF SrvSpec, RequestWhenMessage
-----------------------------------------------------------------------------
(* The round robin.  After q rounds every loop of the pool has been given  *)
(* q connections, and those before the position one more.                  *)
GivenTo(l) == {d \in Channels : owner[d] = l}

EverySetFinite == \A l \in Loops : IsFiniteSet(GivenTo(l))

InRound(q) ==
  \A i \in 1 .. Len(LoopOrder) :
    Given(LoopOrder[i]) = IF i <= position THEN q + 1 ELSE q

Rounds == EverySetFinite /\ \E q \in Nat : InRound(q)

LEMMA PoolOrder ==
  /\ Len(LoopOrder) \in Nat
  /\ \A i \in 1 .. Len(LoopOrder) : LoopOrder[i] \in Loops
  /\ \A i, j \in 1 .. Len(LoopOrder) : LoopOrder[i] = LoopOrder[j] => i = j
  BY LoopOrderAssumption

(* One connection is added to those of the chosen loop.                    *)
LEMMA OneMoreGiven ==
  ASSUME SrvInv, EverySetFinite, NEW t \in Loops, Established(t)
  PROVE  /\ EverySetFinite'
         /\ \E k \in Loops :
              /\ k = GetLoop
              /\ Given(k) \in Nat /\ Given(k)' = Given(k) + 1
              /\ \A l \in Loops \ {k} : Given(l)' = Given(l)
  <1>1. PICK d \in Channels : /\ AcceptOn(t, d, GetLoop)
                              /\ owner' = [owner EXCEPT ![d] = GetLoop]
    BY DEF Established
  <1>2. PICK k \in Loops : k = GetLoop
    BY ChosenLoop DEF SrvInv
  <1>3. owner[d] = None /\ None \notin Loops
    BY <1>1, NoneAssumption DEF AcceptOn, Acceptable, SrvInv, Owned
  <1>4. /\ DOMAIN owner = Channels
        /\ owner' = [owner EXCEPT ![d] = k]
    BY <1>1, <1>2 DEF SrvInv, OwnerTypeOK
  <1>5. GivenTo(k)' = GivenTo(k) \cup {d} /\ d \notin GivenTo(k)
    BY <1>3, <1>4 DEF GivenTo
  <1>6. \A l \in Loops \ {k} : GivenTo(l)' = GivenTo(l)
    BY <1>3, <1>4 DEF GivenTo
  <1>7. IsFiniteSet(GivenTo(k))
    BY DEF EverySetFinite
  <1>8. /\ IsFiniteSet(GivenTo(k) \cup {d})
        /\ Cardinality(GivenTo(k) \cup {d}) = Cardinality(GivenTo(k)) + 1
    BY <1>5, <1>7, FS_AddElement
  <1>9. EverySetFinite'
    BY <1>5, <1>6, <1>8 DEF EverySetFinite
  <1>10. Given(k)' = Given(k) + 1
    BY <1>5, <1>8 DEF Given, GivenTo
  <1>11. \A l \in Loops \ {k} : Given(l)' = Given(l)
    BY <1>6 DEF Given, GivenTo
  <1>12. Given(k) \in Nat
    BY <1>7, FS_CardinalityType DEF Given, GivenTo
  <1> QED
    BY <1>2, <1>9, <1>10, <1>11, <1>12

LEMMA RoundsEstablished ==
  ASSUME SrvInv, Rounds, NEW t \in Loops, Established(t)
  PROVE  Rounds'
  <1> DEFINE n == Len(LoopOrder)
  <1>1. PICK q \in Nat : InRound(q)
    BY DEF Rounds
  <1>2. PICK k \in Loops :
          /\ k = GetLoop
          /\ Given(k)' = Given(k) + 1
          /\ \A l \in Loops \ {k} : Given(l)' = Given(l)
    BY OneMoreGiven DEF Rounds
  <1>3. /\ position' = NextPosition /\ position \in Nat
        /\ position = 0 \/ position < n
    BY DEF Established, SrvInv, OwnerTypeOK
  <1>4. EverySetFinite'
    BY OneMoreGiven DEF Rounds
  <1>5. CASE n = 0
    BY <1>4, <1>5, <1>1 DEF Rounds, InRound
  <1>6. CASE n # 0
    <2>1. PICK p \in 1 .. n : p = position + 1
      BY <1>3, <1>6, PoolOrder
    <2>2. n \in Nat /\ k = LoopOrder[p]
      BY <1>2, <1>6, <2>1, PoolOrder, LoopOrderAssumption DEF GetLoop
    <2>3. Given(k) = q
      BY <1>1, <1>3, <2>1, <2>2 DEF InRound
    <2>4. Given(LoopOrder[p])' = q + 1
      BY <1>2, <2>2, <2>3
    <2>5. \A i \in 1 .. n : i # p =>
            Given(LoopOrder[i])' = IF i <= position THEN q + 1 ELSE q
      BY <1>1, <1>2, <2>1, <2>2, PoolOrder DEF InRound
    <2>6. CASE position + 1 >= n
      <3>1. position' = 0 /\ position + 1 = n
        BY <1>3, <2>1, <2>6 DEF NextPosition
      <3>2. \A i \in 1 .. n : Given(LoopOrder[i])' = q + 1
        BY <1>3, <2>1, <2>4, <2>5, <3>1
      <3>3. InRound(q + 1)'
        BY <3>1, <3>2 DEF InRound
      <3> QED
        BY <1>4, <3>3 DEF Rounds
    <2>7. CASE position + 1 < n
      <3>1. position' = position + 1
        BY <1>3, <2>1, <2>7 DEF NextPosition
      <3>2. InRound(q)'
        BY <1>3, <2>1, <2>4, <2>5, <3>1 DEF InRound
      <3> QED
        BY <1>4, <3>2 DEF Rounds
    <2> QED
      BY <1>3, <2>1, <2>6, <2>7
  <1> QED
    BY <1>5, <1>6

LEMMA RoundsStep == SrvInv /\ Rounds /\ [SrvNext]_srvVars => Rounds'
  <1> SUFFICES ASSUME SrvInv, Rounds, [SrvNext]_srvVars PROVE Rounds'
    OBVIOUS
  <1>1. CASE UNCHANGED <<position, owner>>
    BY <1>1 DEF Rounds, EverySetFinite, GivenTo, InRound, Given
  <1>2. ASSUME NEW t \in Loops, SrvStep(t), ~Established(t) PROVE UNCHANGED <<position, owner>>
    BY <1>2 DEF SrvStep, SetData, ConnectionClosed, Unattended, appVars
  <1> QED
    BY <1>1, <1>2, RoundsEstablished DEF SrvNext, srvVars, appVars

(* The round robin deals the connections evenly over the pool, whatever    *)
(* the threads do and however connections come and go.                     *)
THEOREM EvenDeal == SrvSpec => []Balanced
  <1>1. SrvInit => Rounds
    <2> SUFFICES ASSUME SrvInit PROVE Rounds
      OBVIOUS
    <2>1. \A l \in Loops : GivenTo(l) = {}
      BY NoneAssumption DEF SrvInit, GivenTo
    <2>2. EverySetFinite /\ \A l \in Loops : Given(l) = 0
      BY <2>1, FS_EmptySet DEF EverySetFinite, Given, GivenTo
    <2>3. InRound(0)
      BY <2>2, PoolOrder DEF InRound, SrvInit
    <2> QED
      BY <2>2, <2>3 DEF Rounds
  <1>2. SrvInv /\ Rounds => Balanced
    <2> SUFFICES ASSUME SrvInv, NEW q \in Nat, InRound(q),
                        NEW i \in 1 .. Len(LoopOrder), NEW j \in 1 .. Len(LoopOrder)
                 PROVE  Given(LoopOrder[i]) - Given(LoopOrder[j]) \in {-1, 0, 1}
      BY DEF Rounds, Balanced, PoolLoops
    <2>1. /\ Given(LoopOrder[i]) \in {q, q + 1}
          /\ Given(LoopOrder[j]) \in {q, q + 1}
      BY DEF InRound
    <2> QED
      BY <2>1
  <1> QED
    BY <1>1, <1>2, RoundsStep, SrvInvInit, SrvInvStep, PTL DEF SrvSpec
==============================================================================
