--------------------------- MODULE ChannelRegistry ---------------------------
(***************************************************************************)
(* What an event loop promises to the code that calls                      *)
(* event_loop_add_channel_event and event_loop_remove_channel_event: every *)
(* request is applied exactly once, in the order the requests were made to *)
(* that loop, and a request that was made is eventually applied.  Threads, *)
(* the mutex, the wakeup bytes and the dispatcher do not exist here;       *)
(* EventLoop.tla has them and implements this specification.               *)
(***************************************************************************)
EXTENDS Integers, Sequences

CONSTANTS Loops,      \* the event loops
          Channels,   \* every channel that may ever be created
          Fds,        \* descriptors a connection may get
          FdOf,       \* channel->fd of each channel, or -1 (a failed accept)
          None        \* the NULL pointer

VARIABLES queue,      \* queue[l]: requests made to loop l, not yet applied
          registered  \* registered[l][f]: the channel loop l serves fd f with

regVars == <<queue, registered>>

Element == [type : {"add", "remove"}, channel : Channels]

(* An add registers the channel unless the descriptor is invalid or the    *)
(* slot is taken; a remove empties the slot.                               *)
AfterAdd(map, d) ==
  IF FdOf[d] \in Fds /\ map[FdOf[d]] = None
  THEN [map EXCEPT ![FdOf[d]] = d]
  ELSE map

AfterRemove(map, d) ==
  IF FdOf[d] \in Fds THEN [map EXCEPT ![FdOf[d]] = None] ELSE map

Effect(map, e) ==
  IF e.type = "add" THEN AfterAdd(map, e.channel) ELSE AfterRemove(map, e.channel)

RegInit ==
  /\ queue = [l \in Loops |-> <<>>]
  /\ registered = [l \in Loops |-> [f \in Fds |-> None]]

Submit(l) ==
  /\ \E e \in Element : queue' = [queue EXCEPT ![l] = Append(@, e)]
  /\ UNCHANGED registered

Apply(l) ==
  /\ queue[l] # <<>>
  /\ registered' = [registered EXCEPT ![l] = Effect(@, Head(queue[l]))]
  /\ queue' = [queue EXCEPT ![l] = Tail(@)]

RegNext == \E l \in Loops : Submit(l) \/ Apply(l)

(* What it never does, and what it does in the end.                        *)
RegSafety == RegInit /\ [][RegNext]_regVars
RegSpec == RegSafety /\ \A l \in Loops : WF_regVars(Apply(l))
==============================================================================
