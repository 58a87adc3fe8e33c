----------------------------- MODULE TalkClient -----------------------------
(***************************************************************************)
(* talk_to_svr at the other end of the echo server: it logs in, and from   *)
(* then on writes a request, reads the answer byte by byte up to the line  *)
(* break, and sleeps.  Other peers send and receive as they like.          *)
(***************************************************************************)
EXTENDS EchoServer

CONSTANT Talkers   \* clients that run talk_to_svr

ASSUME TalkAssumption == Talkers \subseteq Clients

VARIABLES pc,     \* "connect", "write", "answer", "sleep", or "end" after an exception
          line,   \* the line it wrote last
          buff,   \* buff_: what it has read of the answer
          short   \* write_some has taken a part of a line only

talkVars == <<pc, line, buff, short>>

Break == 9
Login == <<1, Break>>
Ping  == <<2, Break>>

TalkInit ==
  /\ EchoInit /\ \A t \in Talkers : front[t] = NoHeader
  /\ pc = [t \in Talkers |-> "connect"]
  /\ line = [t \in Talkers |-> Login]
  /\ buff = [t \in Talkers |-> <<>>]
  /\ short = [t \in Talkers |-> FALSE]

Goes(t, where) == pc' = [pc EXCEPT ![t] = where]

(* sock_.connect                                                           *)
TalkConnect(t) ==
  /\ pc[t] = "connect" /\ Connect(t) /\ Goes(t, "write")
  /\ UNCHANGED <<line, buff, short>>

(* write: write_some sends what there is room for, a part if it must, and  *)
(* its result is not looked at.                                            *)
TalkWrite(t) ==
  /\ pc[t] = "write"
  /\ \E n \in 1 .. Len(line[t]) :
       /\ Len(up[t]) + n <= Window
       /\ up' = Into(up, t, SubSeq(line[t], 1, n))
       /\ pending' = Into(pending, t, SubSeq(line[t], 1, n))
       /\ short' = [short EXCEPT ![t] = @ \/ n < Len(line[t])]
  /\ Goes(t, "answer")
  /\ buff' = [buff EXCEPT ![t] = <<>>]
  /\ UNCHANGED <<link, front, next, down, op, buffer_, ip, line>>

(* Mutant: the read is over with the first bytes that come.                *)
ReadComplete1(bytes) == bytes # <<>>

(* read_complete asks for one more byte until the line break is there.     *)
ReadComplete(bytes) == Break \in {bytes[i] : i \in 1 .. Len(bytes)}

(* read_answer; process_msg, which would look at the answer, is not called *)
(* and already_read_ stays 0.                                              *)
TalkRead(t) ==
  /\ pc[t] = "answer" /\ TakeBack(t)
  /\ buff' = [buff EXCEPT ![t] = Append(@, Head(down[t]))]
  /\ Goes(t, IF ReadComplete(Append(buff[t], Head(down[t]))) THEN "sleep" ELSE "answer")
  /\ UNCHANGED <<link, front, next, up, op, buffer_, ip, line, short>>

(* sleep_for, then write_request.                                          *)
TalkSleep(t) ==
  /\ pc[t] = "sleep" /\ Goes(t, "write")
  /\ line' = [line EXCEPT ![t] = Ping]
  /\ UNCHANGED <<echoVars, buff, short>>

(* Any call throws once the connection is broken, which ends the client.   *)
TalkBreaks(t) ==
  /\ pc[t] \in {"write", "answer"} /\ Close(t) /\ Goes(t, "end")
  /\ UNCHANGED <<line, buff, short>>

Talk(t) == TalkConnect(t) \/ TalkWrite(t) \/ TalkRead(t) \/ TalkSleep(t)

TalkNext ==
  \/ \E t \in Talkers : Talk(t) \/ TalkBreaks(t)
  \/ \E c \in Clients \ Talkers : PeerStep(c) /\ UNCHANGED talkVars
  \/ \E c \in Clients : SessionStep(c) /\ UNCHANGED talkVars

(* A client that has not ended goes on with its loop.                      *)
TalkSpec ==
  /\ TalkInit /\ [][TalkNext]_<<echoVars, talkVars>>
  /\ SessionsRun /\ \A t \in Talkers : WF_<<echoVars, talkVars>>(Talk(t))
-----------------------------------------------------------------------------
(* Properties *)

(* The answer the client goes to sleep with is the one to the line it      *)
(* wrote last: it never runs ahead of the server or behind it.             *)
InStep == \A t \in Talkers : pc[t] = "sleep" => buff[t] = line[t]

(* The loop of talk_to_svr goes round for ever, unless its connection      *)
(* breaks or write_some once takes a part of a line: the rest is never     *)
(* sent, and both ends wait for each other.                                *)
TalkGoesOn ==
  \A t \in Talkers : <>(short[t] \/ pc[t] = "end") \/ []<>(pc[t] = "sleep")
=============================================================================
