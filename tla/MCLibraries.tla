----------------------------- MODULE MCLibraries -----------------------------
(* Three parts of the repository that share nothing: the buffer of the     *)
(* reactor, the PROXY protocol library between two ends that use it, and   *)
(* the asio echo server, which uses it too, with a talk client and a peer. *)
(* A behaviour is about one of them; the others stay as they began.        *)
EXTENDS Buffer, ProxyExchange, TalkClient

VARIABLE subject

libraryVars == <<vars, exchangeVars, echoVars, talkVars, subject>>

V4(a, b, c, d) == TextOf(INET, <<a, b, c, d>>)
V6(n) == TextOf(INET6, [i \in 1 .. 16 |-> 16 + n])
With(family, src, dst) ==
  [Cleared EXCEPT !.family = family, !.src = src, !.dst = dst]
Inet == [With(INET, V4(10, 0, 0, 1), V4(192, 168, 0, 12)) EXCEPT
           !.transport = STREAM, !.sport = 443, !.dport = 65535]
Inet6 == [With(INET6, V6(1), V6(2)) EXCEPT !.transport = DGRAM, !.sport = 7]
Sock(n) == [fam |-> UNIX, bytes |-> [i \in 1 .. n |-> 47], size |-> n]
Unix == [With(UNIX, Sock(2), Sock(UnixPath)) EXCEPT !.transport = STREAM]
Local == [Cleared EXCEPT !.local = 1]
Tls == [Inet EXCEPT !.ssl = [ssl |-> 1, conn |-> 1, sess |-> 0, verified |-> 1]]
Use(version, adds, infos) == {[version |-> version, adds |-> adds, info |-> i] : i \in infos}
Adorned(i, powers) == {[i EXCEPT !.power = p, !.crc32c = c] : p \in powers, c \in {0, 1}}
MCInfos ==
  Use(2, 3, {Tls})
  \cup Use(2, 2, {[Inet EXCEPT !.power = 2]})
  \cup Use(2, 1, Adorned(Tls, {0, 2, 5}) \cup Adorned(Inet6, {3}) \cup Adorned(Unix, {0}) \cup Adorned(Local, {2}))
  \cup Use(2, 0, {Healthcheck(p, c) : p \in {0, 2, 3}, c \in {0, 1}})
  \cup Use(2, 0, {Cleared, [Inet EXCEPT !.family = 4], [Inet EXCEPT !.transport = 3],
                  [Inet EXCEPT !.dst = V6(1)], [Inet6 EXCEPT !.src = V4(1, 1, 1, 1)]})
  \cup Use(1, 0, {Inet, Cleared, Unix, Inet6, [Inet6 EXCEPT !.transport = STREAM],
                  [Inet EXCEPT !.transport = STREAM, !.sport = 0],
                  [Inet EXCEPT !.dst = Sock(2)], [Inet EXCEPT !.dst = Sock(40)]})
  \cup Use(3, 0, {Inet})
MCTexts == {<<>>, <<1>>, <<2, 3>>}
MCFound == {<<0, 0, 0>>, <<34, 0, 0>>}
(* "123456789" and the checksum the literature gives for it.               *)
ASSUME CheckValue == Crc32c(<<49, 50, 51, 52, 53, 54, 55, 56, 57>>) = <<131, 146, 6, 227>>
(* In front of the peer's stream there may be a header of version 1, one   *)
(* whose writer was given a name for an address, or one of version 2.      *)
Name == [fam |-> UNSPEC, bytes |-> <<>>, size |-> 9]
MCHeaders ==
  {NoHeader, Header(1, [Inet EXCEPT !.transport = STREAM]), Header(1, [Inet EXCEPT !.src = Name]), Header(2, Inet)}

TwoBytes == {0, 1}

(* The loop of make_room copies byte by byte within one array.  Going      *)
(* upwards it never reads a byte it has already overwritten, so that Moved *)
(* may be written as if everything were copied at once.                    *)
CopyLoop(b) ==
  LET copied[i \in 0 .. Readable(b)] ==
        IF i = 0 THEN b.data
        ELSE [copied[i - 1] EXCEPT ![i - 1] = copied[i - 1][b.readIndex + i - 1]]
  IN  copied[Readable(b)]

AtOnce(b) == [i \in 0 .. 4 |-> IF i < Readable(b) THEN b.data[b.readIndex + i] ELSE b.data[i]]

Arrays == [data : [0 .. 4 -> {0, 1, 2}], readIndex : 0 .. 5, writeIndex : 0 .. 5]

ASSUME CopyLoopMoves ==
  \A b \in {a \in Arrays : a.readIndex <= a.writeIndex} : CopyLoop(b) = AtOnce(b)

LibrariesInit ==
  /\ subject \in {"buffer", "proxy", "talk"}
  /\ Init
  /\ ExchangeInit /\ (subject = "proxy" \/ use.version = 3)
  /\ TalkInit /\ (subject = "talk" \/ \A c \in Clients : front[c] = NoHeader)

LibrariesNext ==
  /\ UNCHANGED subject
  /\ \/ subject = "buffer" /\ Next /\ UNCHANGED <<exchangeVars, echoVars, talkVars>>
     \/ subject = "proxy" /\ ExchangeNext /\ UNCHANGED <<vars, echoVars, talkVars>>
     \/ subject = "talk" /\ TalkNext /\ UNCHANGED <<vars, exchangeVars>>

LibrariesSpec ==
  /\ LibrariesInit /\ [][LibrariesNext]_libraryVars
  /\ \A c \in Clients : WF_echoVars(subject = "talk" /\ SessionStep(c))
  /\ \A t \in Talkers : WF_<<echoVars, talkVars>>(subject = "talk" /\ Talk(t))

(* Its liveness, in the behaviours about the talk client.                  *)
TalkerGoesOn == subject = "talk" => TalkGoesOn
=============================================================================
