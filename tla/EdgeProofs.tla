------------------------------ MODULE EdgeProofs ------------------------------
(***************************************************************************)
(* Proofs about the edge-triggered server, for any number of threads,      *)
(* peers and descriptors and any length of a batch of events: no loop      *)
(* leaves something behind that it will not hear of again.                 *)
(***************************************************************************)
EXTENDS EdgeTriggered, WellFoundedInduction, TLAPS

-----------------------------------------------------------------------------
(* Induction over the naturals, for sets, which the provers can use: the   *)
(* least element that is missing would follow one that is not.             *)
LEMMA Least ==
  ASSUME NEW S \in SUBSET Nat, S # {}
  PROVE  \E n \in S : \A m \in S : n <= m
  <1> DEFINE R == {ss \in Nat \X Nat : ss[1] < ss[2]}
  <1>1. IsWellFoundedOn(R, Nat)
    BY NatLessThanWellFounded DEF OpToRel
  <1>2. \A m, n \in Nat : m < n => <<m, n>> \in R
    OBVIOUS
  <1>0. S \subseteq Nat
    OBVIOUS
  <1> HIDE DEF R
  <1>3. PICK x \in S : \A y \in S : ~(<<y, x>> \in R)
    BY <1>0, <1>1, WFMin, Zenon
  <1>4. \A y \in S : x <= y
    <2> SUFFICES ASSUME NEW y \in S, y < x PROVE FALSE
      OBVIOUS
    <2> QED
      BY <1>0, <1>2, <1>3, Zenon
  <1> QED
    BY <1>4

LEMMA Induction ==
  ASSUME NEW S \in SUBSET Nat, 0 \in S, \A n \in S : n + 1 \in S
  PROVE  S = Nat
  <1> SUFFICES ASSUME Nat \ S # {} PROVE FALSE
    OBVIOUS
  <1>1. PICK n \in Nat \ S : \A m \in Nat \ S : n <= m
    BY Least
  <1>2. n # 0 /\ n - 1 \in Nat
    BY <1>1
  <1>3. n - 1 \in S
    BY <1>1, <1>2
  <1> QED
    BY <1>1, <1>2, <1>3

-----------------------------------------------------------------------------
(* What Kept computes.                                                     *)

KeptRound(list, S, f, n) ==
  IF n = 0 THEN <<>> ELSE IF list[n] \in S THEN Append(f[n - 1], list[n]) ELSE f[n - 1]

KeptRounds(list, S, f) == f = [n \in 0 .. Len(list) |-> KeptRound(list, S, f, n)]

(* There is a function that satisfies the recursive equation.              *)
LEMMA KeptExists ==
  ASSUME NEW X, NEW list \in Seq(X), NEW S
  PROVE  \E f : KeptRounds(list, S, f)
  <1> DEFINE Upto(f, k) == DOMAIN f = 0 .. k /\ \A n \in 0 .. k : f[n] = KeptRound(list, S, f, n)
             G == {k \in Nat : \E f : Upto(f, k)}
  <1>1. 0 \in G
    <2>1. Upto([n \in 0 .. 0 |-> <<>>], 0)
      BY DEF KeptRound
    <2> QED
      BY <2>1
  <1>2. ASSUME NEW k \in G PROVE k + 1 \in G
    <2>1. PICK f : Upto(f, k)
      OBVIOUS
    <2> DEFINE g == [n \in 0 .. k + 1 |-> IF n = k + 1 THEN KeptRound(list, S, f, n) ELSE f[n]]
    <2>2. \A n \in 0 .. k : g[n] = f[n] /\ n - 1 <= k
      OBVIOUS
    <2>3. g[k + 1] = KeptRound(list, S, f, k + 1)
      OBVIOUS
    <2>4. DOMAIN g = 0 .. k + 1
      OBVIOUS
    <2> HIDE DEF g
    <2>5. \A n \in 0 .. k + 1 : KeptRound(list, S, g, n) = KeptRound(list, S, f, n)
      BY <2>2 DEF KeptRound
    <2>6. Upto(g, k + 1)
      BY <2>1, <2>2, <2>3, <2>4, <2>5
    <2> QED
      BY <2>6
  <1>3. Len(list) \in G
    <2>1. G \in SUBSET Nat
      OBVIOUS
    <2> HIDE DEF G
    <2>2. G = Nat
      BY <1>1, <1>2, <2>1, Induction
    <2> QED
      BY <2>2
  <1>4. PICK f : Upto(f, Len(list))
    BY <1>3
  <1>5. KeptRounds(list, S, f)
    BY <1>4 DEF KeptRounds
  <1> QED
    BY <1>5

LEMMA KeptIsLast ==
  ASSUME NEW X, NEW list \in Seq(X), NEW S
  PROVE  \E f : KeptRounds(list, S, f) /\ Kept(list, S) = f[Len(list)]
  <1> DEFINE R(f) == [n \in 0 .. Len(list) |->
                       IF n = 0 THEN <<>>
                       ELSE IF list[n] \in S THEN Append(f[n - 1], list[n]) ELSE f[n - 1]]
             kept == CHOOSE f : f = R(f)
  <1>1. \E f : f = R(f)
    BY KeptExists DEF KeptRounds, KeptRound
  <1>2. kept = R(kept)
    <2> HIDE DEF R
    <2> QED
      BY <1>1, Zenon
  <1>3. Kept(list, S) = kept[Len(list)]
    BY DEF Kept
  <1> HIDE DEF kept
  <1> QED
    BY <1>2, <1>3 DEF KeptRounds, KeptRound

LEMMA ContainsAppend ==
  ASSUME NEW X, NEW s \in Seq(X), NEW e \in X
  PROVE  \A x : Contains(Append(s, e), x) <=> Contains(s, x) \/ x = e
  <1> DEFINE r == Append(s, e)
  <1>1. /\ Len(s) \in Nat /\ Len(r) = Len(s) + 1 /\ r[Len(s) + 1] = e
        /\ \A i \in 1 .. Len(s) : r[i] = s[i]
    OBVIOUS
  <1> HIDE DEF r
  <1>2. \A i : i \in 1 .. Len(r) <=> i \in 1 .. Len(s) \/ i = Len(s) + 1
    BY <1>1
  <1>3. \A x : Contains(r, x) <=> Contains(s, x) \/ x = e
    BY <1>1, <1>2 DEF Contains
  <1> QED
    BY <1>3 DEF r

LEMMA ContainsNothing == \A x : ~Contains(<<>>, x)
  BY DEF Contains

(* The members of a list that are in S, and nothing else, are kept.        *)
LEMMA KeptMembers ==
  ASSUME NEW X, NEW list \in Seq(X), NEW S
  PROVE  /\ Kept(list, S) \in Seq(X)
         /\ \A x \in X : Contains(Kept(list, S), x) <=> Contains(list, x) /\ x \in S
  <1>1. PICK f : KeptRounds(list, S, f) /\ Kept(list, S) = f[Len(list)]
    BY KeptIsLast
  <1> DEFINE N == Len(list)
             Done(k) == /\ f[k] \in Seq(X)
                        /\ \A x \in X : Contains(f[k], x) <=> \E i \in 1 .. k : list[i] = x /\ x \in S
             G == {k \in Nat : k <= N => Done(k)}
  <1>2. N \in Nat /\ \A k \in 0 .. N : f[k] = KeptRound(list, S, f, k)
    BY <1>1 DEF KeptRounds
  <1>3. 0 \in G
    <2>1. f[0] = <<>>
      BY <1>2 DEF KeptRound
    <2>2. <<>> \in Seq(X) /\ \A i : i \notin 1 .. 0
      OBVIOUS
    <2>3. Done(0)
      BY <2>1, <2>2, ContainsNothing
    <2> QED
      BY <2>3
  <1>4. ASSUME NEW k \in G PROVE k + 1 \in G
    <2> SUFFICES ASSUME k + 1 <= N PROVE Done(k + 1)
      OBVIOUS
    <2>1. k \in Nat /\ k + 1 \in 1 .. N /\ list[k + 1] \in X
      BY <1>2
    <2>2. f[k] \in Seq(X)
      BY <1>2, <2>1
    <2>3. \A x \in X : Contains(f[k], x) <=> \E i \in 1 .. k : list[i] = x /\ x \in S
      BY <1>2, <2>1
    <2>4. f[k + 1] = IF list[k + 1] \in S THEN Append(f[k], list[k + 1]) ELSE f[k]
      BY <1>2, <2>1 DEF KeptRound
    <2>5. \A x \in X : Contains(Append(f[k], list[k + 1]), x) <=> Contains(f[k], x) \/ x = list[k + 1]
      BY <2>1, <2>2, ContainsAppend
    <2>6. \A i : i \in 1 .. k + 1 <=> i \in 1 .. k \/ i = k + 1
      BY <2>1
    <2>7. f[k + 1] \in Seq(X)
      BY <2>1, <2>2, <2>4
    <2>8. CASE list[k + 1] \in S
      BY <2>3, <2>4, <2>5, <2>6, <2>7, <2>8
    <2>9. CASE list[k + 1] \notin S
      BY <2>3, <2>4, <2>6, <2>7, <2>9
    <2> QED
      BY <2>8, <2>9
  <1>5. N \in G
    <2>1. G \in SUBSET Nat
      OBVIOUS
    <2> HIDE DEF G
    <2>2. G = Nat
      BY <1>3, <1>4, <2>1, Induction
    <2> QED
      BY <1>2, <2>2
  <1>6. Done(N)
    BY <1>2, <1>5
  <1>7. \A x : Contains(list, x) <=> \E i \in 1 .. N : list[i] = x
    BY DEF Contains
  <1> QED
    BY <1>1, <1>6, <1>7
-----------------------------------------------------------------------------
(* The invariant.  Besides the types: a thread has events in its batch     *)
(* exactly between two waits, works on the first of them, on listenfd in   *)
(* OnEpAccept and on a connection in the read loop, and after EPOLLHUP in  *)
(* neither; a thread that has not started watches nobody.                  *)

Fd == Clients \cup {Listen}

EdgeTyped ==
  /\ pc \in [Threads -> {"start", "wait", "event", "accept", "read"}]
  /\ events \in [Threads -> Seq(Event)]
  /\ ready \in [Threads -> Seq(Fd)]
  /\ registered \in [Threads -> SUBSET Clients]
  /\ backlog \in Seq(Clients)
  /\ peer \in [Clients -> {"away", "open", "fin", "rst"}]
  /\ unread \in [Clients -> Nat]

Working(t) == pc[t] \in {"event", "accept", "read"}

BatchInv ==
  \A t \in Threads :
    /\ Working(t) <=> events[t] # <<>>
    /\ \A i \in 1 .. Len(events[t]) : events[t][i].hup => events[t][i].of # Listen
    /\ pc[t] = "accept" => Current(t) = Listen /\ ~Head(events[t]).hup
    /\ pc[t] = "read" => Current(t) # Listen /\ ~Head(events[t]).hup
    /\ pc[t] = "start" => registered[t] = {}

(* What is in a socket, and the end of the stream, is in an event to come. *)
DataHeard ==
  \A t \in Threads : \A c \in registered[t] :
    unread[c] > 0 \/ (peer[c] = "fin" /\ c \notin ended) => Heard(t, c)

(* A reset is in an event to come that says so: an event taken before the  *)
(* reset does not, and the read loop it leads to ends without closing.     *)
HeardReset(t, c) ==
  \/ Contains(ready[t], c)
  \/ \E i \in 1 .. Len(events[t]) : events[t][i].of = c /\ events[t][i].hup

ResetHeard ==
  \A t \in Threads : \A c \in registered[t] : peer[c] = "rst" => HeardReset(t, c)

EdgeInv == EdgeTyped /\ BatchInv /\ DataHeard /\ ResetHeard /\ BacklogRemembered

LEMMA EdgeBegins == Init => EdgeInv
  BY DEF Init, EdgeInv, EdgeTyped, BatchInv, Working, DataHeard, ResetHeard, BacklogRemembered

LEMMA EdgeGrows ==
  ASSUME NEW s \in Seq(Fd), NEW x \in Fd
  PROVE  /\ Edge(s, x) \in Seq(Fd)
         /\ \A y : Contains(Edge(s, x), y) <=> Contains(s, y) \/ y = x
  BY ContainsAppend DEF Edge

(* The peers.  Whatever happens at a watched connection makes an edge.     *)
LEMMA EdgesAdded ==
  ASSUME EdgeTyped, NEW c \in Clients, ready' = EdgeIfRegistered(c)
  PROVE  /\ ready' \in [Threads -> Seq(Fd)]
         /\ \A t \in Threads, y \in Fd : Contains(ready[t], y) => Contains(ready'[t], y)
         /\ \A t \in Threads : c \in registered[t] => Contains(ready'[t], c)
  <1>1. \A t \in Threads : ready[t] \in Seq(Fd) /\ c \in Fd
    BY DEF EdgeTyped, Fd
  <1>2. \A t \in Threads : ready'[t] = IF c \in registered[t] THEN Edge(ready[t], c) ELSE ready[t]
    BY DEF EdgeIfRegistered
  <1>3. \A t \in Threads : Edge(ready[t], c) \in Seq(Fd)
    BY <1>1, EdgeGrows
  <1> QED
    BY <1>1, <1>2, <1>3, EdgeGrows DEF EdgeIfRegistered

LEMMA ConnectKeeps ==
  ASSUME EdgeInv, NEW c \in Clients, Connect(c)
  PROVE  EdgeInv'
  <1> USE DEF EdgeInv
  <1>1. /\ UNCHANGED <<pc, events, registered, ended, unread>>
        /\ peer' = [peer EXCEPT ![c] = "open"]
        /\ backlog' = Append(backlog, c)
        /\ ready' = [t \in Threads |-> IF pc[t] = "start" THEN <<>> ELSE Edge(ready[t], Listen)]
    BY DEF Connect, Server
  <1>2. \A t \in Threads : ready[t] \in Seq(Fd) /\ Listen \in Fd
    BY DEF EdgeTyped, Fd
  <1>3. \A t \in Threads : pc[t] # "start" =>
          /\ ready'[t] \in Seq(Fd) /\ Contains(ready'[t], Listen)
          /\ \A y : Contains(ready[t], y) => Contains(ready'[t], y)
    BY <1>1, <1>2, EdgeGrows
  <1>4. EdgeTyped'
    <2>1. \A t \in Threads : ready'[t] \in Seq(Fd)
      BY <1>1, <1>3
    <2>2. ready' \in [Threads -> Seq(Fd)]
      BY <1>1, <2>1
    <2> QED
      BY <1>1, <2>2 DEF EdgeTyped
  <1>5. BatchInv'
    BY <1>1 DEF BatchInv, Working, Current
  <1>6. \A t \in Threads : pc[t] = "start" => registered[t] = {}
    BY DEF BatchInv
  <1>7. \A d \in Clients : peer'[d] \in {"fin", "rst"} => peer[d] = peer'[d]
    BY <1>1 DEF EdgeTyped
  <1>8. \A t \in Threads : registered[t] \subseteq Clients
    BY DEF EdgeTyped
  <1>9. DataHeard'
    <2> SUFFICES ASSUME NEW t \in Threads, NEW d \in registered[t],
                        unread[d] > 0 \/ (peer'[d] = "fin" /\ d \notin ended)
                 PROVE  Heard(t, d)'
      BY <1>1 DEF DataHeard
    <2>1. Heard(t, d) /\ pc[t] # "start"
      BY <1>6, <1>7, <1>8 DEF DataHeard
    <2> QED
      BY <1>1, <1>3, <2>1 DEF Heard
  <1>10. ResetHeard'
    <2> SUFFICES ASSUME NEW t \in Threads, NEW d \in registered[t], peer'[d] = "rst"
                 PROVE  HeardReset(t, d)'
      BY <1>1 DEF ResetHeard
    <2>1. HeardReset(t, d) /\ pc[t] # "start"
      BY <1>6, <1>7, <1>8 DEF ResetHeard
    <2> QED
      BY <1>1, <1>3, <2>1 DEF HeardReset
  <1>11. BacklogRemembered'
    BY <1>1, <1>3 DEF BacklogRemembered, Heard
  <1> QED
    BY <1>4, <1>5, <1>9, <1>10, <1>11

LEMMA SendLeaveKeep ==
  ASSUME EdgeInv, NEW c \in Clients, Send(c) \/ Leave(c)
  PROVE  EdgeInv'
  <1> USE DEF EdgeInv
  <1>1. /\ UNCHANGED <<pc, events, registered, ended, backlog, gaveUp>>
        /\ ready' = EdgeIfRegistered(c)
        /\ \A d \in Clients \ {c} : unread'[d] = unread[d] /\ peer'[d] = peer[d]
        /\ peer' \in [Clients -> {"away", "open", "fin", "rst"}]
        /\ unread' \in [Clients -> Nat]
    <2>1. CASE Send(c)
      BY <2>1 DEF Send, Server, EdgeTyped
    <2>2. CASE Leave(c)
      BY <2>2 DEF Leave, Server, EdgeTyped
    <2> QED
      BY <2>1, <2>2
  <1>2. /\ ready' \in [Threads -> Seq(Fd)]
        /\ \A t \in Threads, y \in Fd : Contains(ready[t], y) => Contains(ready'[t], y)
        /\ \A t \in Threads : c \in registered[t] => Contains(ready'[t], c)
    BY <1>1, EdgesAdded
  <1>3. EdgeTyped'
    BY <1>1, <1>2 DEF EdgeTyped
  <1>4. BatchInv'
    BY <1>1 DEF BatchInv, Working, Current
  <1>5. \A t \in Threads : registered[t] \subseteq Clients /\ Clients \subseteq Fd /\ Listen \in Fd
    BY DEF EdgeTyped, Fd
  <1>6. DataHeard'
    <2> SUFFICES ASSUME NEW t \in Threads, NEW d \in registered[t],
                        unread'[d] > 0 \/ (peer'[d] = "fin" /\ d \notin ended)
                 PROVE  Heard(t, d)'
      BY <1>1 DEF DataHeard
    <2>1. CASE d = c
      BY <1>2, <2>1 DEF Heard
    <2>2. CASE d # c
      <3>1. Heard(t, d)
        BY <1>1, <1>5, <2>2 DEF DataHeard
      <3> QED
        BY <1>1, <1>2, <1>5, <3>1 DEF Heard
    <2> QED
      BY <2>1, <2>2
  <1>7. ResetHeard'
    BY <1>1, <1>2, <1>5 DEF ResetHeard, HeardReset
  <1>8. BacklogRemembered'
    BY <1>1, <1>2, <1>5 DEF BacklogRemembered, Heard
  <1> QED
    BY <1>3, <1>4, <1>6, <1>7, <1>8
-----------------------------------------------------------------------------
(* The threads.  Leaving the first event of a batch loses no other one.    *)
LEMMA NextEventKeeps ==
  ASSUME EdgeTyped, BatchInv, NEW t \in Threads, Working(t), NextEvent(t),
         \A u \in Threads \ {t} : registered'[u] = registered[u]
  PROVE  /\ pc' \in [Threads -> {"start", "wait", "event", "accept", "read"}]
         /\ events' \in [Threads -> Seq(Event)]
         /\ BatchInv'
         /\ \A u \in Threads \ {t} : events'[u] = events[u] /\ pc'[u] = pc[u]
         /\ pc'[t] # "start"
         /\ \A i \in 1 .. Len(events[t]) : i # 1 =>
              \E j \in 1 .. Len(events'[t]) : events'[t][j] = events[t][i]
  <1>1. PICK s \in Seq(Event) : s = events[t]
    BY DEF EdgeTyped
  <1>2. s # <<>> /\ Len(s) \in Nat /\ Len(s) > 0
    BY <1>1 DEF BatchInv, Working
  <1>3. /\ events' = [events EXCEPT ![t] = Tail(s)]
        /\ pc' = [pc EXCEPT ![t] = IF Len(s) = 1 THEN "wait" ELSE "event"]
    BY <1>1 DEF NextEvent, Go
  <1>4. /\ Tail(s) \in Seq(Event) /\ Len(Tail(s)) = Len(s) - 1
        /\ \A j \in 1 .. Len(s) - 1 : Tail(s)[j] = s[j + 1]
    BY <1>2
  <1>5. Tail(s) = <<>> <=> Len(s) = 1
    <2> DEFINE r == Tail(s)
    <2>1. r \in Seq(Event) /\ Len(r) = Len(s) - 1
      BY <1>4
    <2> HIDE DEF r
    <2>2. r = <<>> <=> Len(r) = 0
      BY <2>1
    <2> QED
      BY <1>2, <2>1, <2>2 DEF r
  <1>6. /\ events'[t] = Tail(s)
        /\ pc'[t] = IF Len(s) = 1 THEN "wait" ELSE "event"
        /\ \A u \in Threads \ {t} : events'[u] = events[u] /\ pc'[u] = pc[u]
    BY <1>3 DEF EdgeTyped
  <1>7. pc' \in [Threads -> {"start", "wait", "event", "accept", "read"}]
    BY <1>3 DEF EdgeTyped
  <1>8. events' \in [Threads -> Seq(Event)]
    BY <1>3, <1>4 DEF EdgeTyped
  <1>9. \A j \in 1 .. Len(Tail(s)) : Tail(s)[j].hup => Tail(s)[j].of # Listen
    <2> SUFFICES ASSUME NEW j \in 1 .. Len(s) - 1, s[j + 1].hup PROVE s[j + 1].of # Listen
      BY <1>4
    <2>1. j + 1 \in 1 .. Len(s)
      BY <1>2
    <2> QED
      BY <1>1, <2>1 DEF BatchInv
  <1>10. BatchInv'
    <2> SUFFICES ASSUME NEW u \in Threads
                 PROVE  /\ Working(u)' <=> events'[u] # <<>>
                        /\ \A i \in 1 .. Len(events'[u]) : events'[u][i].hup => events'[u][i].of # Listen
                        /\ pc'[u] = "accept" => Current(u)' = Listen /\ ~Head(events'[u]).hup
                        /\ pc'[u] = "read" => Current(u)' # Listen /\ ~Head(events'[u]).hup
                        /\ pc'[u] = "start" => registered'[u] = {}
      BY DEF BatchInv
    <2>1. CASE u = t
      BY <1>5, <1>6, <1>9, <2>1 DEF Working
    <2>2. CASE u # t
      BY <1>6, <2>2 DEF BatchInv, Working, Current
    <2> QED
      BY <2>1, <2>2
  <1>11. \A i \in 1 .. Len(s) : i # 1 => \E j \in 1 .. Len(Tail(s)) : Tail(s)[j] = s[i]
    <2> SUFFICES ASSUME NEW i \in 1 .. Len(s), i # 1
                 PROVE  \E j \in 1 .. Len(Tail(s)) : Tail(s)[j] = s[i]
      OBVIOUS
    <2>1. i - 1 \in 1 .. Len(s) - 1
      BY <1>2
    <2> QED
      BY <1>4, <2>1
  <1> QED
    BY <1>1, <1>6, <1>7, <1>8, <1>10, <1>11

LEMMA StartKeeps ==
  ASSUME EdgeInv, NEW t \in Threads, Start(t)
  PROVE  EdgeInv'
  <1> USE DEF EdgeInv
  <1>1. /\ pc[t] = "start" /\ pc' = [pc EXCEPT ![t] = "wait"]
        /\ ready' = [ready EXCEPT ![t] = IF Tells(Listen) THEN <<Listen>> ELSE <<>>]
        /\ UNCHANGED <<events, registered, open, ended, backlog, peer, unread, gaveUp>>
    BY DEF Start, Go, peerVars
  <1>2. registered[t] = {} /\ events[t] = <<>>
    BY <1>1 DEF BatchInv, Working
  <1>3. /\ ready'[t] = IF Tells(Listen) THEN <<Listen>> ELSE <<>>
        /\ pc'[t] = "wait"
        /\ \A u \in Threads \ {t} : ready'[u] = ready[u] /\ pc'[u] = pc[u]
    BY <1>1 DEF EdgeTyped
  <1>4. EdgeTyped'
    <2>1. <<Listen>> \in Seq(Fd) /\ <<>> \in Seq(Fd)
      BY DEF Fd
    <2> QED
      BY <1>1, <2>1 DEF EdgeTyped
  <1>5. BatchInv'
    BY <1>1, <1>2, <1>3 DEF BatchInv, Working, Current
  <1>6. DataHeard'
    BY <1>1, <1>2, <1>3 DEF DataHeard, Heard
  <1>7. ResetHeard'
    BY <1>1, <1>2, <1>3 DEF ResetHeard, HeardReset
  <1>8. BacklogRemembered'
    <2>1. Contains(<<Listen>>, Listen)
      BY DEF Contains
    <2> QED
      BY <1>1, <1>3, <2>1 DEF BacklogRemembered, Heard, Tells
  <1> QED
    BY <1>4, <1>5, <1>6, <1>7, <1>8

(* epoll_wait moves what has something to tell into the batch, or leaves   *)
(* it on the list.                                                         *)
LEMMA WaitMoves ==
  ASSUME EdgeInv, NEW t \in Threads, EpollWait(t)
  PROVE  /\ EdgeTyped' /\ BatchInv'
         /\ \A x \in Fd : Contains(ready[t], x) /\ Tells(x) =>
              \/ Contains(ready'[t], x)
              \/ \E i \in 1 .. Len(events'[t]) : events'[t][i] = Mask(x)
  <1> USE DEF EdgeInv
  <1>1. PICK all \in Seq(Fd) :
          /\ all = Reported(t)
          /\ \A x \in Fd : Contains(all, x) <=> Contains(ready[t], x) /\ Tells(x)
    <2> DEFINE S == {x \in Clients \cup {Listen} : Tells(x)}
    <2>1. PICK list \in Seq(Fd) : list = ready[t]
      BY DEF EdgeTyped
    <2>2. \A x \in Fd : x \in S <=> Tells(x)
      BY DEF Fd
    <2>3. Reported(t) = Kept(list, S)
      BY <2>1 DEF Reported
    <2> HIDE DEF S
    <2>4. /\ Kept(list, S) \in Seq(Fd)
          /\ \A x \in Fd : Contains(Kept(list, S), x) <=> Contains(list, x) /\ x \in S
      BY ONLY <2>1, KeptMembers
    <2> QED
      BY <2>1, <2>2, <2>3, <2>4
  <1>2. PICK n \in Nat :
          /\ n = IF Len(all) <= MaxEvent THEN Len(all) ELSE MaxEvent
          /\ n <= Len(all) /\ n > 0
    <2>1. MaxEvent \in Nat \ {0}
      BY EdgeAssumption
    <2>2. all # <<>> /\ Len(all) \in Nat
      BY <1>1 DEF EpollWait
    <2>3. Len(all) > 0
      BY <2>2
    <2> QED
      BY <2>1, <2>2, <2>3
  <1> DEFINE batch == [i \in 1 .. n |-> Mask(all[i])]
             rest == SubSeq(all, n + 1, Len(all))
  <1>3. /\ pc[t] = "wait" /\ pc' = [pc EXCEPT ![t] = "event"]
        /\ events' = [events EXCEPT ![t] = batch]
        /\ ready' = [ready EXCEPT ![t] = rest]
        /\ UNCHANGED <<registered, open, ended, backlog, peer, unread, gaveUp>>
    BY <1>1, <1>2 DEF EpollWait, Go, peerVars
  <1>4. \A i \in 1 .. n : all[i] \in Fd
    BY <1>2
  <1>5. \A x \in Fd : Mask(x) \in Event /\ (Mask(x).hup => Mask(x).of # Listen)
    BY DEF Mask, Event, Fd
  <1>6. /\ batch \in Seq(Event) /\ Len(batch) = n /\ batch # <<>>
        /\ \A i \in 1 .. n : batch[i] = Mask(all[i])
        /\ \A i \in 1 .. Len(batch) : batch[i].hup => batch[i].of # Listen
    BY <1>2, <1>4, <1>5
  <1>7. rest \in Seq(Fd) /\ \A i \in n + 1 .. Len(all) : Contains(rest, all[i])
    <2>1. /\ rest \in Seq(Fd) /\ Len(rest) = Len(all) - n
          /\ \A j \in 1 .. Len(all) - n : rest[j] = all[n + j]
      BY <1>2
    <2> HIDE DEF rest
    <2> SUFFICES ASSUME NEW i \in n + 1 .. Len(all) PROVE Contains(rest, all[i])
      BY <2>1
    <2>2. i - n \in 1 .. Len(all) - n /\ n + (i - n) = i
      BY <1>2
    <2>3. rest[i - n] = all[i]
      BY <2>1, <2>2
    <2> QED
      BY <2>1, <2>2, <2>3 DEF Contains
  <1> HIDE DEF batch, rest
  <1>8. /\ pc'[t] = "event" /\ events'[t] = batch /\ ready'[t] = rest
        /\ \A u \in Threads \ {t} : pc'[u] = pc[u] /\ events'[u] = events[u]
    BY <1>3 DEF EdgeTyped
  <1>9. EdgeTyped'
    BY <1>3, <1>6, <1>7 DEF EdgeTyped
  <1>10. BatchInv'
    BY <1>3, <1>6, <1>8 DEF BatchInv, Working, Current
  <1>11. ASSUME NEW x \in Fd, Contains(ready[t], x), Tells(x)
         PROVE  \/ Contains(rest, x)
                \/ \E i \in 1 .. Len(batch) : batch[i] = Mask(x)
    <2>1. PICK i \in 1 .. Len(all) : all[i] = x
      BY <1>1, <1>11 DEF Contains
    <2>2. i \in 1 .. n \/ i \in n + 1 .. Len(all)
      BY <1>2
    <2> QED
      BY <1>6, <1>7, <2>1, <2>2
  <1> QED
    BY <1>8, <1>9, <1>10, <1>11

LEMMA WaitKeeps ==
  ASSUME EdgeInv, NEW t \in Threads, EpollWait(t)
  PROVE  EdgeInv'
  <1> USE DEF EdgeInv
  <1>1. /\ pc[t] = "wait" /\ events[t] = <<>>
        /\ UNCHANGED <<registered, ended, backlog, peer, unread, gaveUp>>
        /\ \A u \in Threads \ {t} : pc'[u] = pc[u] /\ events'[u] = events[u] /\ ready'[u] = ready[u]
    BY DEF EpollWait, Go, peerVars, BatchInv, Working, EdgeTyped
  <1>2. \A x \in Fd : /\ Mask(x).of = x
                      /\ Mask(x).hup <=> x # Listen /\ peer[x] = "rst"
    BY DEF Mask
  <1>3. /\ Listen \in Fd /\ Listen \notin Clients
        /\ \A c \in registered[t] : c \in Fd /\ c \in Clients
    BY EdgeAssumption DEF Fd, EdgeTyped
  <1>4. \A x \in Fd : Contains(ready[t], x) /\ Tells(x) => Heard(t, x)'
    BY <1>2, WaitMoves DEF Heard
  <1>5. \A x \in Clients : /\ x \in Fd
                           /\ unread[x] > 0 \/ peer[x] \in {"fin", "rst"} => Tells(x)
    BY EdgeAssumption DEF Tells, Fd
  <1>6. DataHeard'
    <2> SUFFICES ASSUME NEW u \in Threads, NEW d \in registered[u],
                        unread[d] > 0 \/ (peer[d] = "fin" /\ d \notin ended)
                 PROVE  Heard(u, d)'
      BY <1>1 DEF DataHeard
    <2>1. Heard(u, d)
      BY DEF DataHeard
    <2>2. CASE u = t
      <3>1. Contains(ready[t], d)
        BY <1>1, <2>1, <2>2 DEF Heard
      <3> QED
        BY <1>3, <1>4, <1>5, <2>2, <3>1
    <2>3. CASE u # t
      BY <1>1, <2>1, <2>3 DEF Heard
    <2> QED
      BY <2>2, <2>3
  <1>7. ResetHeard'
    <2> SUFFICES ASSUME NEW u \in Threads, NEW d \in registered[u], peer[d] = "rst"
                 PROVE  HeardReset(u, d)'
      BY <1>1 DEF ResetHeard
    <2>1. HeardReset(u, d)
      BY DEF ResetHeard
    <2>2. CASE u = t
      <3>1. Contains(ready[t], d)
        BY <1>1, <2>1, <2>2 DEF HeardReset
      <3> QED
        BY <1>2, <1>3, <1>5, <2>2, <3>1, WaitMoves DEF HeardReset
    <2>3. CASE u # t
      BY <1>1, <2>1, <2>3 DEF HeardReset
    <2> QED
      BY <2>2, <2>3
  <1>8. BacklogRemembered'
    <2> SUFFICES ASSUME backlog # <<>>, NEW u \in Threads, pc'[u] # "start", u \notin gaveUp
                 PROVE  Heard(u, Listen)'
      BY <1>1 DEF BacklogRemembered
    <2>1. CASE u = t
      <3>1. Contains(ready[t], Listen)
        BY <1>1, <2>1 DEF BacklogRemembered, Heard
      <3> QED
        BY <1>3, <1>4, <2>1, <3>1 DEF Tells
    <2>2. CASE u # t
      BY <1>1, <2>2 DEF BacklogRemembered, Heard
    <2> QED
      BY <2>1, <2>2
  <1> QED
    BY <1>6, <1>7, <1>8, WaitMoves

(* close takes one connection off the list, and nothing else.              *)
LEMMA CloseKeeps ==
  ASSUME EdgeInv, NEW t \in Threads, CloseOnError(t)
  PROVE  EdgeInv'
  <1> USE DEF EdgeInv
  <1>1. PICK c : c = Current(t)
    OBVIOUS
  <1>2. /\ pc[t] = "event" /\ Head(events[t]).hup /\ NextEvent(t)
        /\ registered' = [registered EXCEPT ![t] = registered[t] \ {c}]
        /\ ended' = ended \ {c}
        /\ ready' = [ready EXCEPT ![t] = Kept(ready[t], Fd \ {c})]
        /\ peer' = [peer EXCEPT ![c] = "away"]
        /\ unread' = [unread EXCEPT ![c] = 0]
        /\ UNCHANGED <<backlog, gaveUp>>
    BY <1>1 DEF CloseOnError, Fd
  <1>3. events[t] \in Seq(Event) /\ events[t] # <<>> /\ Head(events[t]) = events[t][1]
        /\ 1 \in 1 .. Len(events[t])
    BY <1>2 DEF EdgeTyped, BatchInv, Working
  <1>4. c # Listen /\ events[t][1].of = c
    BY <1>1, <1>2, <1>3 DEF BatchInv, Current
  <1>5. /\ Kept(ready[t], Fd \ {c}) \in Seq(Fd)
        /\ \A x \in Fd : Contains(Kept(ready[t], Fd \ {c}), x) <=> Contains(ready[t], x) /\ x # c
    BY KeptMembers DEF EdgeTyped
  <1>6. /\ registered'[t] = registered[t] \ {c}
        /\ ready'[t] = Kept(ready[t], Fd \ {c})
        /\ \A u \in Threads \ {t} : registered'[u] = registered[u] /\ ready'[u] = ready[u]
        /\ \A d \in Clients \ {c} : peer'[d] = peer[d] /\ unread'[d] = unread[d]
        /\ c \in Clients => peer'[c] = "away" /\ unread'[c] = 0
    BY <1>2 DEF EdgeTyped
  <1>7. /\ pc' \in [Threads -> {"start", "wait", "event", "accept", "read"}]
        /\ events' \in [Threads -> Seq(Event)]
        /\ BatchInv'
        /\ \A u \in Threads \ {t} : events'[u] = events[u] /\ pc'[u] = pc[u]
        /\ pc'[t] # "start"
        /\ \A i \in 1 .. Len(events[t]) : i # 1 =>
              \E j \in 1 .. Len(events'[t]) : events'[t][j] = events[t][i]
    BY <1>2, <1>6, NextEventKeeps DEF Working
  <1>8. EdgeTyped'
    BY <1>2, <1>5, <1>7 DEF EdgeTyped
  <1>9. \A x \in Fd \ {c} : /\ Heard(t, x) => Heard(t, x)'
                            /\ HeardReset(t, x) => HeardReset(t, x)'
    <2> SUFFICES ASSUME NEW x \in Fd \ {c}
                 PROVE  /\ Heard(t, x) => Heard(t, x)'
                        /\ HeardReset(t, x) => HeardReset(t, x)'
      OBVIOUS
    <2>1. Contains(ready[t], x) => Contains(ready'[t], x)
      BY <1>5, <1>6
    <2>2. ASSUME NEW i \in 1 .. Len(events[t]), events[t][i].of = x
          PROVE  \E j \in 1 .. Len(events'[t]) : events'[t][j] = events[t][i]
      BY <1>4, <1>7, <2>2
    <2> QED
      BY <2>1, <2>2 DEF Heard, HeardReset
  <1>10. \A u \in Threads \ {t}, x \in Fd : /\ Heard(u, x) => Heard(u, x)'
                                            /\ HeardReset(u, x) => HeardReset(u, x)'
    BY <1>6, <1>7 DEF Heard, HeardReset
  <1>11. \A u \in Threads : registered[u] \subseteq Clients /\ Clients \subseteq Fd /\ Listen \in Fd
    BY DEF EdgeTyped, Fd
  <1>12. DataHeard'
    BY <1>2, <1>6, <1>9, <1>10, <1>11 DEF DataHeard
  <1>13. ResetHeard'
    BY <1>2, <1>6, <1>9, <1>10, <1>11 DEF ResetHeard
  <1>14. BacklogRemembered'
    <2> SUFFICES ASSUME backlog # <<>>, NEW u \in Threads, pc'[u] # "start", u \notin gaveUp
                 PROVE  Heard(u, Listen)'
      BY <1>2 DEF BacklogRemembered
    <2>1. pc[u] # "start"
      BY <1>2, <1>7
    <2>2. Heard(u, Listen)
      BY <2>1 DEF BacklogRemembered
    <2> QED
      BY <1>4, <1>9, <1>10, <1>11, <2>2
  <1> QED
    BY <1>7, <1>8, <1>12, <1>13, <1>14
LEMMA EnterKeeps ==
  ASSUME EdgeInv, NEW t \in Threads, EnterLoop(t)
  PROVE  EdgeInv'
  <1> USE DEF EdgeInv
  <1>1. /\ pc[t] = "event" /\ ~Head(events[t]).hup
        /\ pc' = [pc EXCEPT ![t] = IF Current(t) = Listen THEN "accept" ELSE "read"]
        /\ UNCHANGED <<events, ready, registered, ended, backlog, peer, unread, gaveUp>>
    BY DEF EnterLoop, Go, peerVars
  <1>2. /\ pc'[t] = IF Current(t) = Listen THEN "accept" ELSE "read"
        /\ \A u \in Threads \ {t} : pc'[u] = pc[u]
    BY <1>1 DEF EdgeTyped
  <1>3. EdgeTyped'
    BY <1>1 DEF EdgeTyped
  <1>4. BatchInv'
    BY <1>1, <1>2 DEF BatchInv, Working, Current
  <1>5. DataHeard' /\ ResetHeard' /\ BacklogRemembered'
    BY <1>1, <1>2 DEF DataHeard, Heard, ResetHeard, HeardReset, BacklogRemembered
  <1> QED
    BY <1>3, <1>4, <1>5

(* accept takes the first of the backlog; a thread that goes on accepting  *)
(* keeps its event for the rest, and the new connection is looked at once. *)
LEMMA AcceptKeeps ==
  ASSUME EdgeInv, NEW t \in Threads, Accept(t)
  PROVE  EdgeInv'
  <1> USE DEF EdgeInv
  <1>0. PICK c \in Clients : c = Head(backlog)
    BY DEF Accept, Taken, EdgeTyped
  <1>1. /\ backlog # <<>> /\ backlog' = Tail(backlog) /\ backlog' \in Seq(Clients)
        /\ registered' = [registered EXCEPT ![t] = registered[t] \cup {c}]
        /\ ready' = IF Tells(c) THEN [ready EXCEPT ![t] = Append(ready[t], c)] ELSE ready
        /\ UNCHANGED <<pc, events, ended, peer, unread, gaveUp>>
    BY <1>0 DEF Accept, Taken, Register, EdgeTyped
  <1>2. /\ registered'[t] = registered[t] \cup {c}
        /\ \A u \in Threads \ {t} : registered'[u] = registered[u] /\ ready'[u] = ready[u]
        /\ ready'[t] = IF Tells(c) THEN Append(ready[t], c) ELSE ready[t]
    BY <1>1 DEF EdgeTyped
  <1>3. /\ ready[t] \in Seq(Fd) /\ c \in Fd
        /\ \A x : Contains(Append(ready[t], c), x) <=> Contains(ready[t], x) \/ x = c
    <2>1. ready[t] \in Seq(Fd) /\ c \in Fd
      BY DEF EdgeTyped, Fd
    <2> QED
      BY <2>1, ContainsAppend
  <1>4. EdgeTyped'
    <2>1. Append(ready[t], c) \in Seq(Fd)
      BY <1>3
    <2> QED
      BY <1>1, <2>1 DEF EdgeTyped
  <1>5. pc[t] = "accept"
    BY DEF Accept, Taken
  <1>6. BatchInv'
    BY <1>1, <1>2, <1>5 DEF BatchInv, Working, Current
  <1>7. \A u \in Threads : \A x : Contains(ready[u], x) => Contains(ready'[u], x)
    BY <1>2, <1>3
  <1>8. Tells(c) => Contains(ready'[t], c)
    BY <1>2, <1>3
  <1>9. unread[c] > 0 \/ peer[c] \in {"fin", "rst"} => Tells(c)
    BY EdgeAssumption DEF Tells
  <1>10. DataHeard'
    <2> SUFFICES ASSUME NEW u \in Threads, NEW d \in registered'[u],
                        unread[d] > 0 \/ (peer[d] = "fin" /\ d \notin ended)
                 PROVE  Heard(u, d)'
      BY <1>1 DEF DataHeard
    <2>1. CASE d \in registered[u]
      BY <1>1, <1>7, <2>1 DEF DataHeard, Heard
    <2>2. CASE d \notin registered[u]
      BY <1>2, <1>8, <1>9, <2>2 DEF Heard
    <2> QED
      BY <2>1, <2>2
  <1>11. ResetHeard'
    <2> SUFFICES ASSUME NEW u \in Threads, NEW d \in registered'[u], peer[d] = "rst"
                 PROVE  HeardReset(u, d)'
      BY <1>1 DEF ResetHeard
    <2>1. CASE d \in registered[u]
      BY <1>1, <1>7, <2>1 DEF ResetHeard, HeardReset
    <2>2. CASE d \notin registered[u]
      BY <1>2, <1>8, <1>9, <2>2 DEF HeardReset
    <2> QED
      BY <2>1, <2>2
  <1>12. BacklogRemembered'
    BY <1>1, <1>7 DEF BacklogRemembered, Heard
  <1> QED
    BY <1>4, <1>6, <1>10, <1>11, <1>12

(* OnEpAccept returns with an error, or with an empty backlog.             *)
LEMMA FailKeeps ==
  ASSUME EdgeInv, NEW t \in Threads, RegisterFails(t) \/ AcceptFails(t)
  PROVE  EdgeInv'
  <1> USE DEF EdgeInv
  <1>1. /\ pc[t] = "accept" /\ NextEvent(t)
        /\ UNCHANGED <<ready, registered, ended, peer, unread>>
        /\ backlog' \in Seq(Clients)
        /\ backlog' # <<>> => gaveUp' = gaveUp \cup {t}
    <2>1. CASE RegisterFails(t)
      BY <2>1 DEF RegisterFails, Taken, EdgeTyped
    <2>2. CASE AcceptFails(t)
      BY <2>2 DEF AcceptFails, peerVars, EdgeTyped
    <2> QED
      BY <2>1, <2>2
  <1>2. backlog' # <<>> => backlog # <<>>
    BY DEF RegisterFails, Taken, AcceptFails, peerVars
  <1>3. events[t] \in Seq(Event) /\ events[t] # <<>> /\ Head(events[t]) = events[t][1]
    BY <1>1 DEF EdgeTyped, BatchInv, Working
  <1>4. events[t][1].of = Listen
    BY <1>1, <1>3 DEF BatchInv, Current
  <1>5. /\ pc' \in [Threads -> {"start", "wait", "event", "accept", "read"}]
        /\ events' \in [Threads -> Seq(Event)]
        /\ BatchInv'
        /\ \A u \in Threads \ {t} : events'[u] = events[u] /\ pc'[u] = pc[u]
        /\ pc'[t] # "start"
        /\ \A i \in 1 .. Len(events[t]) : i # 1 =>
              \E j \in 1 .. Len(events'[t]) : events'[t][j] = events[t][i]
    BY <1>1, NextEventKeeps DEF Working
  <1>6. EdgeTyped'
    BY <1>1, <1>5 DEF EdgeTyped
  <1>7. \A u \in Threads, x \in Clients : /\ Heard(u, x) => Heard(u, x)'
                                          /\ HeardReset(u, x) => HeardReset(u, x)'
    <2>1. ASSUME NEW u \in Threads \ {t}, NEW x \in Clients
          PROVE  /\ Heard(u, x) => Heard(u, x)'
                 /\ HeardReset(u, x) => HeardReset(u, x)'
      BY <1>1, <1>5 DEF Heard, HeardReset
    <2>2. ASSUME NEW x \in Clients
          PROVE  /\ Heard(t, x) => Heard(t, x)'
                 /\ HeardReset(t, x) => HeardReset(t, x)'
      <3>1. ASSUME NEW i \in 1 .. Len(events[t]), events[t][i].of = x
            PROVE  \E j \in 1 .. Len(events'[t]) : events'[t][j] = events[t][i]
        BY <1>4, <1>5, <3>1, EdgeAssumption
      <3> QED
        BY <1>1, <3>1 DEF Heard, HeardReset
    <2> QED
      BY <2>1, <2>2
  <1>8. \A u \in Threads : registered[u] \subseteq Clients
    BY DEF EdgeTyped
  <1>9. DataHeard' /\ ResetHeard'
    BY <1>1, <1>7, <1>8 DEF DataHeard, ResetHeard
  <1>10. BacklogRemembered'
    BY <1>1, <1>2, <1>5 DEF BacklogRemembered, Heard
  <1> QED
    BY <1>5, <1>6, <1>9, <1>10

LEMMA ReadKeeps ==
  ASSUME EdgeInv, NEW t \in Threads, ReadSome(t)
  PROVE  EdgeInv'
  <1> USE DEF EdgeInv
  <1>1. /\ UNCHANGED <<pc, events, ready, registered, ended, backlog, peer, gaveUp>>
        /\ unread' = [unread EXCEPT ![Current(t)] = IF @ <= ReadLen THEN 0 ELSE @ - ReadLen]
    BY DEF ReadSome, ReadBytes, Take
  <1>2. unread' \in [Clients -> Nat] /\ \A d \in Clients : unread'[d] > 0 => unread[d] > 0
    <2>1. ReadLen \in Nat
      BY EdgeAssumption
    <2>2. \A d \in Clients : unread[d] \in Nat
      BY DEF EdgeTyped
    <2>3. \A d \in Clients : /\ unread'[d] \in Nat
                             /\ unread'[d] > 0 => unread[d] > 0
      BY <1>1, <2>1, <2>2 DEF EdgeTyped
    <2> QED
      BY <1>1, <2>3 DEF EdgeTyped
  <1>3. EdgeTyped'
    BY <1>1, <1>2 DEF EdgeTyped
  <1>4. BatchInv' /\ ResetHeard' /\ BacklogRemembered'
    BY <1>1 DEF BatchInv, Working, Current, ResetHeard, HeardReset, BacklogRemembered, Heard
  <1>5. \A u \in Threads : registered[u] \subseteq Clients
    BY DEF EdgeTyped
  <1>6. DataHeard'
    BY <1>1, <1>2, <1>5 DEF DataHeard, Heard
  <1> QED
    BY <1>3, <1>4, <1>6

(* The read loop ends on an empty socket.  Its event said nothing of a     *)
(* reset, so that one is still to come if the peer has made it since.      *)
LEMMA DoneKeeps ==
  ASSUME EdgeInv, NEW t \in Threads, ReadDone(t)
  PROVE  EdgeInv'
  <1> USE DEF EdgeInv
  <1>0. PICK c : c = Current(t)
    OBVIOUS
  <1>1. /\ pc[t] = "read" /\ NextEvent(t) /\ unread[c] = 0
        /\ UNCHANGED <<ready, registered, backlog, peer, unread, gaveUp>>
        /\ ended' = IF peer[c] = "fin" THEN ended \cup {c} ELSE ended
    BY <1>0 DEF ReadDone, peerVars
  <1>2. events[t] \in Seq(Event) /\ events[t] # <<>> /\ Head(events[t]) = events[t][1]
    BY <1>1 DEF EdgeTyped, BatchInv, Working
  <1>3. events[t][1].of = c /\ c # Listen /\ ~events[t][1].hup
    BY <1>0, <1>1, <1>2 DEF BatchInv, Current
  <1>4. /\ pc' \in [Threads -> {"start", "wait", "event", "accept", "read"}]
        /\ events' \in [Threads -> Seq(Event)]
        /\ BatchInv'
        /\ \A u \in Threads \ {t} : events'[u] = events[u] /\ pc'[u] = pc[u]
        /\ pc'[t] # "start"
        /\ \A i \in 1 .. Len(events[t]) : i # 1 =>
              \E j \in 1 .. Len(events'[t]) : events'[t][j] = events[t][i]
    BY <1>1, NextEventKeeps DEF Working
  <1>5. EdgeTyped'
    BY <1>1, <1>4 DEF EdgeTyped
  <1>6. \A u \in Threads : \A x : /\ x # c \/ u # t => (Heard(u, x) => Heard(u, x)')
                                  /\ HeardReset(u, x) => HeardReset(u, x)'
    <2>1. \A u \in Threads \ {t} : \A x : /\ Heard(u, x) => Heard(u, x)'
                                          /\ HeardReset(u, x) => HeardReset(u, x)'
      BY <1>1, <1>4 DEF Heard, HeardReset
    <2>2. ASSUME NEW x, NEW i \in 1 .. Len(events[t]), events[t][i].of = x,
                 x # c \/ events[t][i].hup
          PROVE  \E j \in 1 .. Len(events'[t]) : events'[t][j] = events[t][i]
      BY <1>3, <1>4, <2>2
    <2>3. \A x : /\ x # c => (Heard(t, x) => Heard(t, x)')
                 /\ HeardReset(t, x) => HeardReset(t, x)'
      BY <1>1, <2>2 DEF Heard, HeardReset
    <2> QED
      BY <2>1, <2>3
  <1>7. DataHeard'
    <2> SUFFICES ASSUME NEW u \in Threads, NEW d \in registered[u],
                        unread[d] > 0 \/ (peer[d] = "fin" /\ d \notin ended')
                 PROVE  Heard(u, d)'
      BY <1>1 DEF DataHeard
    <2>1. d # c /\ Heard(u, d)
      BY <1>1 DEF DataHeard
    <2> QED
      BY <1>6, <2>1
  <1>8. ResetHeard'
    BY <1>1, <1>6 DEF ResetHeard
  <1>9. BacklogRemembered'
    BY <1>1, <1>3, <1>4, <1>6 DEF BacklogRemembered
  <1> QED
    BY <1>4, <1>5, <1>7, <1>8, <1>9

-----------------------------------------------------------------------------
LEMMA EdgeKeeps == EdgeInv /\ [Next]_vars => EdgeInv'
  <1> SUFFICES ASSUME EdgeInv, [Next]_vars PROVE EdgeInv'
    OBVIOUS
  <1>1. CASE UNCHANGED vars
    BY <1>1 DEF vars, EdgeInv, EdgeTyped, BatchInv, Working, Current, DataHeard, Heard,
                ResetHeard, HeardReset, BacklogRemembered
  <1>2. ASSUME NEW t \in Threads, Step(t) PROVE EdgeInv'
    BY <1>2, StartKeeps, WaitKeeps, CloseKeeps, EnterKeeps, AcceptKeeps, FailKeeps, ReadKeeps,
       DoneKeeps DEF Step
  <1>3. CASE PeerStep
    BY <1>3, ConnectKeeps, SendLeaveKeep DEF PeerStep
  <1> QED
    BY <1>1, <1>2, <1>3 DEF Next

LEMMA EdgeInvariance == Spec => []EdgeInv
  BY EdgeBegins, EdgeKeeps, PTL DEF Spec

(* Data, an end of file or a reset of a watched connection is never left   *)
(* with no event to come, for any number of threads and peers and any      *)
(* batch length.                                                           *)
THEOREM EdgesSuffice == Spec => []NothingForgotten
  <1>1. EdgeInv => NothingForgotten
    <2> SUFFICES ASSUME EdgeInv, NEW t \in Threads, NEW c \in registered[t],
                        unread[c] > 0 \/ peer[c] = "rst" \/ (peer[c] = "fin" /\ c \notin ended)
                 PROVE  Heard(t, c)
      BY DEF NothingForgotten
    <2>1. HeardReset(t, c) => Heard(t, c)
      BY DEF HeardReset, Heard
    <2> QED
      BY <2>1 DEF EdgeInv, DataHeard, ResetHeard
  <1> QED
    BY <1>1, EdgeInvariance, PTL

(* A connection of the backlog is known to every running thread that has   *)
(* not left OnEpAccept with an error since it came.                        *)
THEOREM BacklogKnown == Spec => []BacklogRemembered
  <1>1. EdgeInv => BacklogRemembered
    BY DEF EdgeInv
  <1> QED
    BY <1>1, EdgeInvariance, PTL
===============================================================================
