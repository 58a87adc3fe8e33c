------------------------------ MODULE TcpServer ------------------------------
(***************************************************************************)
(* The TCP server with the HTTP server's connection callbacks on top of    *)
(* the event loops of EventLoop: the round robin over the pool's threads,  *)
(* the tcp_connection handed to a loop, and the two pointers the callbacks *)
(* follow, tcp_connection->request and tcp_connection->data.  Three        *)
(* actions of EventLoop get the application's part conjoined; every other  *)
(* step is EventLoop's own.                                                *)
(***************************************************************************)
EXTENDS EventLoop

CONSTANT LoopOrder   \* eventLoopThreads, in order; <<>> when thread_number is 0

VARIABLES position,  \* thread_pool->position
          owner,     \* tcp_connection->eventLoop of each connection
          request,   \* tcp_connection->request
          data       \* tcp_connection->data

appVars == <<position, owner, request, data>>
srvVars == <<vars, appVars>>

(* The workers are the pool's loops, or the main loop alone.               *)
PoolLoops == {LoopOrder[i] : i \in 1 .. Len(LoopOrder)}

ASSUME LoopOrderAssumption ==
  /\ LoopOrder \in Seq(Loops \ {MainLoop})
  /\ \A i, j \in 1 .. Len(LoopOrder) : LoopOrder[i] = LoopOrder[j] => i = j
  /\ Workers = IF LoopOrder = <<>> THEN {MainLoop} ELSE PoolLoops

SrvTypeOK ==
  /\ TypeOK
  /\ position \in Nat
  /\ position = 0 \/ position < Len(LoopOrder)
  /\ owner \in [Channels -> Loops \cup {None}]
  /\ request \in [Channels -> {"NULL", "new"}]
  /\ data \in [Channels -> {"uninitialized", "server"}]

SrvInit ==
  /\ Init
  /\ position = 0
  /\ owner = [d \in Channels |-> None]
  /\ request = [d \in Channels |-> "NULL"]
  /\ data = [d \in Channels |-> "uninitialized"]

-----------------------------------------------------------------------------

(* thread_pool_get_loop: the loop, and the position it leaves behind.      *)
GetLoop == IF LoopOrder = <<>> THEN MainLoop ELSE LoopOrder[position + 1]

(* Mutant: the position does not move.                                     *)
NextPositionStuck == position

NextPosition == IF position + 1 >= Len(LoopOrder) THEN 0 ELSE position + 1

(* Mutant: thread_pool_get_loop called once for the connection and once    *)
(* for the request.                                                        *)
EstablishedTwice(t) ==
  \E d \in Channels :
    /\ AcceptOn(t, d, GetLoop)
    /\ position' = NextPosition
    /\ owner' = [owner EXCEPT ![d] = LoopOrder[NextPosition + 1]]
    /\ request' = [request EXCEPT ![d] = "new"]
    /\ UNCHANGED data

(* The tcp_connection remembers its loop, and the completed callback gives *)
(* it a request, before the loop is asked to watch it.                     *)
Established(t) ==
  \E d \in Channels :
    /\ AcceptOn(t, d, GetLoop)
    /\ position' = NextPosition
    /\ owner' = [owner EXCEPT ![d] = GetLoop]
    /\ request' = [request EXCEPT ![d] = "new"]
    /\ UNCHANGED data

(* After tcp_connection_new: tcpConnection->data = tcpServer->data.        *)
SetData(t) ==
  /\ CallbackReturn(t)
  /\ req[t].element.type = "add"
  /\ data' = [data EXCEPT ![req[t].element.channel] = "server"]
  /\ UNCHANGED <<position, owner, request>>

(* http_onConnectionClosed frees the request.                              *)
ConnectionClosed(t) ==
  /\ CallbackReturn(t)
  /\ req[t].element.type = "remove"
  /\ request' = [request EXCEPT ![req[t].element.channel] = "NULL"]
  /\ UNCHANGED <<position, owner, data>>

Unattended(t) ==
  /\ \/ Dispatch(t) \/ DispatchReturn(t) \/ HandlePending(t)
     \/ HandleWakeup(t) \/ ReadMessage(t) \/ ReadClosed(t) \/ HangUp(t)
     \/ RequestLock(t) \/ RequestUnlock(t) \/ Wakeup(t)
  /\ UNCHANGED appVars

SrvStep(t) ==
  Established(t) \/ SetData(t) \/ ConnectionClosed(t) \/ Unattended(t)

SrvNext == \E t \in Loops : SrvStep(t)

SrvSpec == SrvInit /\ [][SrvNext]_srvVars
-----------------------------------------------------------------------------
(* Properties *)

(* Only the thread of the loop a connection was given to finds it in its   *)
(* channel map, and only that thread asks for its removal, so the          *)
(* unlocked tcp_connection (its buffers, its request) has one user; this   *)
(* is what lets handle_connection_closed use tcpConnection->eventLoop.     *)
OneUser ==
  \A t \in Loops :
    /\ \A f \in Fds : entries[t][f] # None => owner[entries[t][f]] = t
    /\ req[t] # None /\ req[t].element.type = "remove" =>
         owner[req[t].element.channel] = t

(* The message callback never follows the request pointer of a connection  *)
(* whose closed callback has run (NULL), or one not set up yet.            *)
RequestWhenMessage ==
  [][\A t \in Loops : \A f \in batch[t] \cap Fds :
       ReadMessageOn(t, f) => request[entries[t][f]] = "new"]_srvVars

(* Connections are dealt evenly: the pool's loops never differ by more     *)
(* than one in the connections they were given.                            *)
Given(l) == Cardinality({d \in Channels : owner[d] = l})

Balanced == \A l, k \in PoolLoops : Given(l) - Given(k) \in {-1, 0, 1}

(* tcp_connection->data is "for callback use": when a message callback     *)
(* runs, it has been set.                                                  *)
DataWhenMessage ==
  [][\A t \in Loops : \A f \in batch[t] \cap Fds :
       ReadMessageOn(t, f) => data[entries[t][f]] = "server"]_srvVars
==============================================================================
