---------------------------- MODULE EdgeTriggered ----------------------------
(***************************************************************************)
(* HandleEpollUsing and OnEpAccept, the edge-triggered server: main starts *)
(* it in several threads: each has an epoll set of its own, every set      *)
(* watches listenfd, and a connection belongs to the set of the thread     *)
(* that accepted it.  A thread takes a batch of events and goes through    *)
(* them; the peers connect, send, finish and break off at any moment       *)
(* between two system calls.  An edge is reported once to each set; what   *)
(* the loops leave behind in a backlog or a socket is heard of again only  *)
(* when something new arrives.                                             *)
(***************************************************************************)
EXTENDS Naturals, FiniteSets, Sequences, SequencesExt

CONSTANTS Threads,    \* the threads main starts
          Clients,    \* peers
          Listen,     \* listenfd
          Backlog,    \* of listen(listenfd, 200)
          MaxEvent,   \* MAX_EVENT
          ReadLen,    \* READ_BUF_LEN
          MaxUnread,  \* bound: bytes in a receive buffer
          MaxFds      \* descriptors the process has left for connections

ASSUME EdgeAssumption ==
  /\ IsFiniteSet(Clients) /\ Listen \notin Clients
  /\ {Backlog, MaxEvent, ReadLen, MaxUnread, MaxFds} \subseteq Nat \ {0}

VARIABLES pc,         \* of a thread: at its start, in epoll_wait, at an event, accepting, reading
          events,     \* of a thread: ep_events from i on, whose descriptor, and EPOLLERR or EPOLLHUP
          ready,      \* the ready list of a thread's epoll set
          registered, \* clients whose socket is in a thread's epoll set
          open,       \* clients whose descriptor was accepted and not closed
          backlog,    \* connections not accepted yet
          peer,       \* what the peer has done
          unread,     \* bytes in the receive buffer
          ended,      \* clients whose end of file was read
          gaveUp      \* threads that left OnEpAccept with an error and no connection came since

vars == <<pc, events, ready, registered, open, backlog, peer, unread, ended, gaveUp>>
peerVars == <<backlog, peer, unread>>

Event == [of : Clients \cup {Listen}, hup : BOOLEAN]

TypeOK ==
  /\ pc \in [Threads -> {"start", "wait", "event", "accept", "read"}]
  /\ events \in [Threads -> Seq(Event)]
  /\ \A t \in Threads :
       /\ Len(events[t]) <= MaxEvent
       /\ pc[t] \in {"start", "wait"} <=> events[t] = <<>>
       /\ ready[t] \in Seq(Clients \cup {Listen}) /\ IsInjective(ready[t])
       /\ registered[t] \subseteq open
       /\ \A u \in Threads \ {t} : registered[t] \cap registered[u] = {}
  /\ DOMAIN ready = Threads /\ DOMAIN registered = Threads
  /\ open \subseteq Clients /\ Cardinality(open) <= MaxFds /\ ended \subseteq open
  /\ backlog \in Seq(Clients) /\ IsInjective(backlog) /\ Len(backlog) <= Backlog
  /\ peer \in [Clients -> {"away", "open", "fin", "rst"}]
  /\ unread \in [Clients -> 0 .. MaxUnread]
  /\ gaveUp \subseteq Threads

Init ==
  /\ pc = [t \in Threads |-> "start"]
  /\ events = [t \in Threads |-> <<>>]
  /\ ready = [t \in Threads |-> <<>>]
  /\ registered = [t \in Threads |-> {}]
  /\ open = {} /\ ended = {} /\ backlog = <<>> /\ gaveUp = {}
  /\ peer = [c \in Clients |-> "away"]
  /\ unread = [c \in Clients |-> 0]

-----------------------------------------------------------------------------
(* epoll and the peers, which are not part of the program.                 *)

Edge(list, x) == IF Contains(list, x) THEN list ELSE Append(list, x)

(* What is left of a list, in its order, when only members of S are kept.  *)
Kept(list, S) ==
  LET kept[n \in 0 .. Len(list)] ==
        IF n = 0 THEN <<>>
        ELSE IF list[n] \in S THEN Append(kept[n - 1], list[n]) ELSE kept[n - 1]
  IN  kept[Len(list)]

EdgeIfRegistered(c) ==
  [t \in Threads |-> IF c \in registered[t] THEN Edge(ready[t], c) ELSE ready[t]]

(* epoll's second look at a descriptor on the ready list.                  *)
Tells(x) ==
  IF x = Listen THEN backlog # <<>> ELSE unread[x] > 0 \/ peer[x] \in {"fin", "rst"}

Server == <<pc, events, registered, open, ended>>

Connect(c) ==
  /\ peer[c] = "away" /\ Len(backlog) < Backlog
  /\ peer' = [peer EXCEPT ![c] = "open"]
  /\ backlog' = Append(backlog, c)
  /\ ready' = [t \in Threads |-> IF pc[t] = "start" THEN <<>> ELSE Edge(ready[t], Listen)]
  /\ gaveUp' = {}
  /\ UNCHANGED <<Server, unread>>

Send(c) ==
  /\ peer[c] = "open" /\ unread[c] < MaxUnread
  /\ unread' = [unread EXCEPT ![c] = @ + 1]
  /\ ready' = EdgeIfRegistered(c)
  /\ UNCHANGED <<Server, backlog, peer, gaveUp>>

(* The peer closes its end, or resets the connection; after closing it has *)
(* no reason to reset, since nothing is ever sent to it.                   *)
Leave(c) ==
  /\ peer[c] = "open"
  /\ \E how \in {"fin", "rst"} : peer' = [peer EXCEPT ![c] = how]
  /\ ready' = EdgeIfRegistered(c)
  /\ UNCHANGED <<Server, backlog, unread, gaveUp>>

-----------------------------------------------------------------------------
(* HandleEpollUsing                                                        *)

Go(t, where) == pc' = [pc EXCEPT ![t] = where]

(* listenfd goes into the new epoll set, which looks at its backlog.  That *)
(* epoll_ctl fails, and the thread ends before it has served anybody, is   *)
(* left out.                                                               *)
Start(t) ==
  /\ pc[t] = "start" /\ Go(t, "wait")
  /\ ready' = [ready EXCEPT ![t] = IF Tells(Listen) THEN <<Listen>> ELSE <<>>]
  /\ UNCHANGED <<events, registered, open, ended, peerVars, gaveUp>>

Reported(t) == Kept(ready[t], {x \in Clients \cup {Listen} : Tells(x)})

Mask(x) == [of |-> x, hup |-> x # Listen /\ peer[x] = "rst"]

(* At most MAX_EVENT of the ready descriptors, each off the list with what *)
(* it has to tell now; one that has nothing to tell any more is dropped.   *)
EpollWait(t) ==
  LET all == Reported(t)
      n   == IF Len(all) <= MaxEvent THEN Len(all) ELSE MaxEvent
  IN  /\ pc[t] = "wait" /\ all # <<>>
      /\ events' = [events EXCEPT ![t] = [i \in 1 .. n |-> Mask(all[i])]]
      /\ ready' = [ready EXCEPT ![t] = SubSeq(all, n + 1, Len(all))]
      /\ Go(t, "event")
      /\ UNCHANGED <<registered, open, ended, peerVars, gaveUp>>

Current(t) == Head(events[t]).of

(* The next i of the loop over ep_events, or the next epoll_wait.          *)
NextEvent(t) ==
  /\ events' = [events EXCEPT ![t] = Tail(@)]
  /\ Go(t, IF Len(events[t]) = 1 THEN "wait" ELSE "event")

(* close takes the descriptor out of the epoll set; the peer may connect   *)
(* again.                                                                  *)
CloseOnError(t) ==
  LET c == Current(t)
  IN  /\ pc[t] = "event" /\ Head(events[t]).hup
      /\ open' = open \ {c}
      /\ registered' = [registered EXCEPT ![t] = @ \ {c}]
      /\ ended' = ended \ {c}
      /\ ready' = [ready EXCEPT ![t] = Kept(@, (Clients \cup {Listen}) \ {c})]
      /\ peer' = [peer EXCEPT ![c] = "away"]
      /\ unread' = [unread EXCEPT ![c] = 0]
      /\ NextEvent(t)
      /\ UNCHANGED <<backlog, gaveUp>>

EnterLoop(t) ==
  /\ pc[t] = "event" /\ ~Head(events[t]).hup
  /\ Go(t, IF Current(t) = Listen THEN "accept" ELSE "read")
  /\ UNCHANGED <<events, ready, registered, open, ended, peerVars, gaveUp>>

-----------------------------------------------------------------------------
(* OnEpAccept                                                              *)

(* accept: the descriptor of the first connection of the backlog, which    *)
(* another thread may have emptied since this one was woken.               *)
Taken(t) ==
  /\ pc[t] = "accept" /\ backlog # <<>> /\ Cardinality(open) < MaxFds
  /\ open' = open \cup {Head(backlog)}
  /\ backlog' = Tail(backlog)
  /\ UNCHANGED <<ended, peer, unread>>

(* epoll_ctl looks at the socket at once: what came before is an edge.     *)
Register(t, c) ==
  /\ registered' = [registered EXCEPT ![t] = @ \cup {c}]
  /\ ready' = IF Tells(c) THEN [ready EXCEPT ![t] = Append(@, c)] ELSE ready

(* Mutant: one connection for each event, as with a level-triggered epoll. *)
AcceptOne(t) == Taken(t) /\ Register(t, Head(backlog)) /\ NextEvent(t) /\ UNCHANGED gaveUp

Accept(t) == Taken(t) /\ Register(t, Head(backlog)) /\ UNCHANGED <<pc, events, gaveUp>>

(* SetNonblocking or epoll_ctl fails: OnEpAccept returns, with the         *)
(* descriptor open and watched by nobody.                                  *)
RegisterFails(t) ==
  /\ Taken(t) /\ NextEvent(t)
  /\ gaveUp' = gaveUp \cup {t}
  /\ UNCHANGED <<ready, registered>>

(* accept fails: EAGAIN when there is no connection, and another error at  *)
(* any time, EMFILE when there is no descriptor left.                      *)
AcceptFails(t) ==
  /\ pc[t] = "accept" /\ NextEvent(t)
  /\ gaveUp' = IF backlog # <<>> THEN gaveUp \cup {t} ELSE gaveUp
  /\ UNCHANGED <<ready, registered, open, ended, peerVars>>

-----------------------------------------------------------------------------
(* The read loop                                                           *)

Take(c, n) == unread' = [unread EXCEPT ![c] = IF @ <= n THEN 0 ELSE @ - n]

ReadBytes(t) ==
  /\ pc[t] = "read" /\ unread[Current(t)] > 0
  /\ Take(Current(t), ReadLen)
  /\ UNCHANGED <<ready, registered, open, ended, backlog, peer, gaveUp>>

(* Mutant: one read for each event.                                        *)
ReadOnce(t) == ReadBytes(t) /\ NextEvent(t)

ReadSome(t) == ReadBytes(t) /\ UNCHANGED <<pc, events>>

(* read returns 0, or -1 with EAGAIN or another error: done is set in each *)
(* case, so that the close behind the loop is never reached.               *)
ReadDone(t) ==
  /\ pc[t] = "read" /\ unread[Current(t)] = 0
  /\ ended' = IF peer[Current(t)] = "fin" THEN ended \cup {Current(t)} ELSE ended
  /\ NextEvent(t)
  /\ UNCHANGED <<ready, registered, open, peerVars, gaveUp>>

-----------------------------------------------------------------------------

Step(t) ==
  \/ Start(t) \/ EpollWait(t) \/ CloseOnError(t) \/ EnterLoop(t)
  \/ Accept(t) \/ RegisterFails(t) \/ AcceptFails(t)
  \/ ReadSome(t) \/ ReadDone(t)

PeerStep == \E c \in Clients : Connect(c) \/ Send(c) \/ Leave(c)

Next == (\E t \in Threads : Step(t)) \/ PeerStep

(* Each thread runs on; nothing is asked of the peers.                     *)
Spec == Init /\ [][Next]_vars /\ \A t \in Threads : WF_vars(Step(t))
-----------------------------------------------------------------------------
(* Properties *)

(* What epoll will still tell t of x: it is on the ready list, or its      *)
(* event is in the batch and not done with.                                *)
Heard(t, x) == Contains(ready[t], x) \/ \E i \in 1 .. Len(events[t]) : events[t][i].of = x

(* "Edge triggered, so this needs a loop" (base.cpp:183): data, an end of  *)
(* file or a reset of a watched connection is never left in the socket     *)
(* with no event to come for the one thread that watches it.               *)
NothingForgotten ==
  \A t \in Threads : \A c \in registered[t] :
    unread[c] > 0 \/ peer[c] = "rst" \/ (peer[c] = "fin" /\ c \notin ended) => Heard(t, c)

(* A thread has no event to come for a connection of the backlog only if   *)
(* it left OnEpAccept with an error and none has arrived since: one        *)
(* connection is stranded only when every running thread has done so.      *)
BacklogRemembered ==
  backlog # <<>> =>
    \A t \in Threads : pc[t] = "start" \/ t \in gaveUp \/ Heard(t, Listen)

(* Every byte of a watched connection is read, or the connection closed,   *)
(* unless one peer sends so steadily that a read loop never ends: then     *)
(* that thread serves nobody else.                                         *)
Stuck(t) == \E d \in Clients : <>[](pc[t] = "read" /\ Current(t) = d)

EverythingRead ==
  \A t \in Threads :
    \/ Stuck(t)
    \/ \A c \in Clients : c \in registered[t] /\ unread[c] > 0
                            ~> c \notin registered[t] \/ unread[c] = 0

(* What printf("Close connection") behind the read loop (base.cpp:214)     *)
(* announces: a connection whose end was read is closed.  The code does    *)
(* not meet it, because done is set on every way out of the loop.          *)
EndedConnectionsClosed == \A c \in Clients : c \in ended ~> c \notin open
=============================================================================
