----------------------------- MODULE EchoServer -----------------------------
(***************************************************************************)
(* The asio server: an acceptor that always waits for the next connection, *)
(* and for each connection a Session that reads what there is, writes it   *)
(* back, and only then reads again.  Its handlers run one at a time in     *)
(* io_service::run.  What the first read of a Session brings is shown to   *)
(* the PROXY protocol parser.  The stream is made of pieces: a header that *)
(* a proxy put in front comes in two of them.                              *)
(***************************************************************************)
EXTENDS ProxyProtocol, FiniteSets

CONSTANTS Clients,    \* peers of the server
          BufSize,    \* BUF_SIZE in pieces
          Window,     \* pieces a connection holds in each direction
          Headers     \* what a proxy may have put in front of a stream

ASSUME EchoAssumption ==
  /\ IsFiniteSet(Clients) /\ {BufSize, Window} \subseteq Nat \ {0}
  /\ \A h \in Headers :
       \/ h = NoHeader
       \/ h.version = 2 /\ h.bytes \in Seq(0 .. 255)
       \/ h.version = 1 /\ h.line.size \in Nat \ {0} /\ h.line.src.fam \in UNSPEC .. UNIX

VARIABLES link,     \* of a client: "away", "waiting" to be accepted, "up" or "closed"
          front,    \* the header in front of its stream
          next,     \* the piece it sends next
          up, down, \* pieces on their way to the server and back
          pending,  \* pieces it sent and did not get back
          op,       \* of its Session: "none", "read" or "write" outstanding, "gone"
          buffer_,  \* pieces in it that are still to be written
          ip        \* client_ip_

clientVars == <<link, front, next, pending>>
echoVars == <<clientVars, up, down, op, buffer_, ip>>

(* client_ip_ while it is empty, and "some ip".                            *)
EmptyIp == [fam |-> -1]
SomeIp  == [fam |-> -2]

EchoInit ==
  /\ link = [c \in Clients |-> "away"]
  /\ front \in [Clients -> Headers]
  /\ next = [c \in Clients |-> IF front[c] = NoHeader THEN 0 ELSE -2]
  /\ up = [c \in Clients |-> <<>>] /\ down = up /\ pending = up /\ buffer_ = up
  /\ op = [c \in Clients |-> "none"]
  /\ ip = [c \in Clients |-> EmptyIp]

-----------------------------------------------------------------------------
(* The peers                                                               *)

Connect(c) ==
  /\ link[c] = "away"
  /\ link' = [link EXCEPT ![c] = "waiting"]
  /\ UNCHANGED <<front, next, up, down, pending, op, buffer_, ip>>

Into(channel, c, s) == [channel EXCEPT ![c] = @ \o s]

(* The pieces of a stream: -2 and -1 are the header, then come the data.   *)
Following(piece) == IF piece < 0 THEN piece + 1 ELSE (piece + 1) % 3

Send(c) ==
  /\ link[c] \in {"waiting", "up"} /\ Len(up[c]) < Window
  /\ up' = Into(up, c, <<next[c]>>)
  /\ pending' = Into(pending, c, <<next[c]>>)
  /\ next' = [next EXCEPT ![c] = Following(@)]
  /\ UNCHANGED <<link, front, down, op, buffer_, ip>>

TakeBack(c) ==
  /\ down[c] # <<>>
  /\ down' = [down EXCEPT ![c] = Tail(@)]
  /\ pending' = [pending EXCEPT ![c] = Tail(@)]

Receive(c) == TakeBack(c) /\ UNCHANGED <<link, front, next, up, op, buffer_, ip>>

(* The peer closes, or the connection breaks: nothing reaches it any more. *)
Close(c) ==
  /\ link[c] \in {"waiting", "up"}
  /\ link' = [link EXCEPT ![c] = "closed"]
  /\ down' = [down EXCEPT ![c] = <<>>] /\ pending' = [pending EXCEPT ![c] = <<>>]
  /\ \E lost \in BOOLEAN : up' = IF lost THEN [up EXCEPT ![c] = <<>>] ELSE up
  /\ UNCHANGED <<front, next, op, buffer_, ip>>

-----------------------------------------------------------------------------
(* Server                                                                  *)

Outstanding(c, what) == op' = [op EXCEPT ![c] = what]

(* The handler of async_accept starts a Session, which begins to read, and *)
(* accepts again.                                                          *)
OnAccept(c) ==
  /\ op[c] = "none" /\ link[c] \in {"waiting", "closed"}
  /\ link' = [link EXCEPT ![c] = IF @ = "waiting" THEN "up" ELSE @]
  /\ Outstanding(c, "read")
  /\ UNCHANGED <<front, next, up, down, pending, buffer_, ip>>

(* A connection its peer has given up may be an error of accept instead.   *)
OnAcceptError(c) ==
  /\ op[c] = "none" /\ link[c] = "closed"
  /\ Outstanding(c, "gone")
  /\ UNCHANGED <<clientVars, up, down, buffer_, ip>>

-----------------------------------------------------------------------------
(* Session                                                                 *)

(* strlen(buffer_) stops at the zero in the signature of version 2.        *)
StrLen(header, n) == IF header.version = 2 /\ n > 4 THEN 4 ELSE n

(* Half of the header in its first piece.                                  *)
SizeOf(header, pieces) ==
  IF header = NoHeader THEN 0
  ELSE IF pieces = 1 THEN Size(header) \div 2 ELSE Size(header)

(* The first read decides: the source address of a header that is all      *)
(* there, or of one whose address was refused with a positive number.      *)
ParseClientIp(header, pieces) ==
  LET found == Parse(header, StrLen(header, SizeOf(header, pieces)))
  IN  IF header # NoHeader /\ found.rc > 0 /\ found.info.src # NoText
      THEN found.info.src ELSE SomeIp

(* Mutant: every read is parsed.                                           *)
IpEachTime(c, pieces) ==
  ParseClientIp(IF ip[c] = EmptyIp THEN front[c] ELSE NoHeader, pieces)

IpAfter(c, pieces) == IF ip[c] = EmptyIp THEN ParseClientIp(front[c], pieces) ELSE ip[c]

Read(c, n) ==
  /\ op[c] = "read" /\ up[c] # <<>> /\ n \in 1 .. BufSize /\ n <= Len(up[c])
  /\ buffer_' = [buffer_ EXCEPT ![c] = SubSeq(up[c], 1, n)]
  /\ up' = [up EXCEPT ![c] = SubSeq(@, n + 1, Len(@))]
  /\ ip' = [ip EXCEPT ![c] = IpAfter(c, n)]
  /\ UNCHANGED <<clientVars, down>>

(* OnRead without an error: DoWrite of what was read.                      *)
OnRead(c) == \E n \in 1 .. BufSize : Read(c, n) /\ Outstanding(c, "write")

(* OnRead with an error, the end of the stream among them: no handler is   *)
(* left that holds the Session.                                            *)
OnReadError(c) ==
  /\ op[c] = "read" /\ link[c] = "closed" /\ up[c] = <<>>
  /\ Outstanding(c, "gone")
  /\ UNCHANGED <<clientVars, up, down, buffer_, ip>>

(* async_write sends as much as the connection takes, again and again; a   *)
(* peer that has closed gets none of it.                                   *)
WriteSome(c) ==
  /\ op[c] = "write" /\ buffer_[c] # <<>>
  /\ \E n \in 1 .. Len(buffer_[c]) :
       /\ Len(down[c]) + n <= Window
       /\ down' = IF link[c] = "up" THEN Into(down, c, SubSeq(buffer_[c], 1, n)) ELSE down
       /\ buffer_' = [buffer_ EXCEPT ![c] = SubSeq(@, n + 1, Len(@))]
  /\ UNCHANGED <<clientVars, up, op, ip>>

(* Mutant: the Session stops after an answer.                              *)
OnWriteStops(c) ==
  /\ op[c] = "write" /\ buffer_[c] = <<>> /\ Outstanding(c, "gone")
  /\ UNCHANGED <<clientVars, up, down, buffer_, ip>>

(* Mutant: the next read is begun while the answer is being written.       *)
OnWriteEarly(c) ==
  /\ op[c] = "write" /\ Outstanding(c, "read")
  /\ UNCHANGED <<clientVars, up, down, buffer_, ip>>

OnWrite(c) ==
  /\ op[c] = "write" /\ buffer_[c] = <<>> /\ Outstanding(c, "read")
  /\ UNCHANGED <<clientVars, up, down, buffer_, ip>>

(* OnWrite with an error reads no more.                                    *)
OnWriteError(c) ==
  /\ op[c] = "write" /\ link[c] = "closed"
  /\ Outstanding(c, "gone") /\ buffer_' = [buffer_ EXCEPT ![c] = <<>>]
  /\ UNCHANGED <<clientVars, up, down, ip>>

SessionStep(c) ==
  \/ OnAccept(c) \/ OnAcceptError(c) \/ OnRead(c) \/ OnReadError(c)
  \/ WriteSome(c) \/ OnWrite(c) \/ OnWriteError(c)

PeerStep(c) == Connect(c) \/ Send(c) \/ Receive(c) \/ Close(c)

(* io_service runs every handler that is due; nothing is asked of peers.   *)
SessionsRun == \A c \in Clients : WF_echoVars(SessionStep(c))
-----------------------------------------------------------------------------
(* Properties *)

(* Nothing is lost, doubled or changed in its order: what a client still   *)
(* waits for is what is on its way back, in the buffer of its Session and  *)
(* on its way there, in this order.                                        *)
EchoConserved ==
  \A c \in Clients : link[c] # "closed" => pending[c] = down[c] \o buffer_[c] \o up[c]

(* Whatever a client waits for makes its way back, as long as the client   *)
(* stays, whether or not it was accepted already.                          *)
EchoComesBack ==
  \A c \in Clients :
    pending[c] # <<>> ~> down[c] # <<>> \/ pending[c] = <<>> \/ link[c] = "closed"

(* client_ip_ is settled once, by the first read, whatever comes later;    *)
(* and a Session takes an address for its client's only if a line in front *)
(* of the stream gave it and the whole line came with that read.           *)
IpTold ==
  [][\A c \in Clients : ip'[c] # ip[c] =>
       /\ ip[c] = EmptyIp
       /\ ip'[c] # SomeIp =>
            /\ front[c].version = 1 /\ ip'[c] = front[c].line.src
            /\ \A i \in DOMAIN up'[c] : up'[c][i] >= 0]_echoVars
=============================================================================
