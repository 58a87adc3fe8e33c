--------------------------- MODULE HttpConnection ---------------------------
(***************************************************************************)
(* The HTTP server on one connection: handle_read fills the input buffer,  *)
(* http_onMessage parses a request from it, answers it through             *)
(* tcp_connection_send_buffer and resets the http_request for the next.    *)
(* One thread runs all of it, so the client is the only other actor.       *)
(*                                                                         *)
(* A request is a sequence of lines, the request line first; a line's text *)
(* is one token, what ends it is the token "crlf".  A segment of the TCP   *)
(* stream may end between the two, or between lines.                       *)
(***************************************************************************)
EXTENDS Integers, Sequences

CONSTANTS Requests,       \* requests the client may send
          MaxRequests,    \* how many it sends (a bound)
          Pipelined,      \* whether it sends the next before the answer
          Split,          \* whether a read may return a part of a request
          PartialWrites   \* whether write may take less than it is given

RequestLine == {"http10", "http11"}
(* "Connection: close", "Connection: Keep-Alive", "Name: value" and        *)
(* "Name:value", which has no ": " in it.                                  *)
Header == {"close", "keep", "plain", "tight"}
Token == RequestLine \cup Header \cup {"crlf"}

ASSUME RequestsAssumption ==
  \A r \in Requests : r \in Seq(Token) /\ r # <<>> /\ r[1] \in RequestLine /\
                      \A i \in 2 .. Len(r) : r[i] \in Header
ASSUME SwitchesAssumption ==
  MaxRequests \in Nat /\ Pipelined \in BOOLEAN /\ Split \in BOOLEAN /\ PartialWrites \in BOOLEAN

VARIABLES sent,            \* the requests the client has sent
          wire,            \* tokens on their way
          input,           \* tokens in input_buffer
          current_state,   \* of the http_request
          parsed,          \* the lines the http_request was built from
          thread,          \* idle, or inside http_onMessage
          answered,        \* the requests answered, as they were parsed
          shut,            \* tcp_connection_shutdown was called
          closed,          \* by the client; by handle_connection_closed
          crashed          \* why the process has no defined next step

vars == <<sent, wire, input, current_state, parsed, thread, answered, shut, closed, crashed>>

TypeOK ==
  /\ sent \in Seq(Requests) /\ Len(sent) <= MaxRequests
  /\ wire \in Seq(Token) /\ input \in Seq(Token)
  /\ current_state \in {"REQUEST_STATUS", "REQUEST_HEADERS", "REQUEST_DONE"}
  /\ parsed \in Seq(Token)
  /\ thread \in {"idle", "message"}
  /\ answered \in Seq(Seq(Token))
  /\ shut \in BOOLEAN
  /\ closed \in {"no", "client", "both"}
  /\ crashed \in {"no", "assert", "null", "sigpipe", "update"}

Init ==
  /\ sent = <<>> /\ wire = <<>> /\ input = <<>>
  /\ current_state = "REQUEST_STATUS"
  /\ parsed = <<>>
  /\ thread = "idle"
  /\ answered = <<>>
  /\ shut = FALSE
  /\ closed = "no"
  /\ crashed = "no"

Lines(s) == {s[i] : i \in 1 .. Len(s)}

-----------------------------------------------------------------------------
(* The client.  Every line is followed by CRLF, the last by one more.  It  *)
(* sends nothing after a request that asks for the end of the connection.  *)
Encode(r) ==
  [i \in 1 .. 2 * Len(r) + 1 |->
     IF i % 2 = 1 /\ i < 2 * Len(r) THEN r[(i + 1) \div 2] ELSE "crlf"]

Send(r) ==
  /\ crashed = "no" /\ closed = "no"
  /\ Len(sent) < MaxRequests
  /\ Pipelined \/ Len(answered) = Len(sent)
  /\ \A i \in 1 .. Len(sent) : "close" \notin Lines(sent[i])
  /\ sent' = Append(sent, r)
  /\ wire' = wire \o Encode(r)
  /\ UNCHANGED <<input, current_state, parsed, thread, answered, shut, closed, crashed>>

ClientClose ==
  /\ crashed = "no" /\ closed = "no"
  /\ closed' = "client"
  /\ UNCHANGED <<sent, wire, input, current_state, parsed, thread, answered, shut, crashed>>

-----------------------------------------------------------------------------
(* handle_read: what has arrived goes to the end of input_buffer.          *)
Read(n) ==
  /\ crashed = "no" /\ closed # "both" /\ thread = "idle"
  /\ Split \/ n = Len(wire)
  /\ input' = input \o SubSeq(wire, 1, n)
  /\ wire' = SubSeq(wire, n + 1, Len(wire))
  /\ thread' = "message"
  /\ UNCHANGED <<sent, current_state, parsed, answered, shut, closed, crashed>>

(* readv returned 0, or -1 after a reset, which what is still on the wire  *)
(* does not survive: the connection is removed, the http_request freed.    *)
ReadEnd ==
  /\ crashed = "no" /\ closed = "client" /\ thread = "idle"
  /\ closed' = "both"
  /\ UNCHANGED <<sent, wire, input, current_state, parsed, thread, answered, shut, crashed>>

-----------------------------------------------------------------------------
(* parse_http_request, one round of its loop.  FirstLine is the text up to *)
(* the first CRLF, "" when there is none before it; a round that finds no  *)
(* CRLF changes nothing, and the loop goes round again.                    *)
HasCRLF == "crlf" \in Lines(input)
FirstLine == IF input[1] = "crlf" THEN "" ELSE input[1]

InParser == crashed = "no" /\ thread = "message" /\ current_state # "REQUEST_DONE"

(* Mutant: only the text is taken from the buffer.                         *)
TakeText == input' = Tail(input)

TakeLine == input' = SubSeq(input, 3, Len(input))

(* process_status_line, when it finds its two spaces.                      *)
ParseStatus ==
  /\ InParser /\ HasCRLF /\ current_state = "REQUEST_STATUS"
  /\ FirstLine \in RequestLine
  /\ parsed' = <<FirstLine>>
  /\ TakeLine
  /\ current_state' = "REQUEST_HEADERS"
  /\ UNCHANGED <<sent, wire, thread, answered, shut, closed, crashed>>

(* It asserts on the spaces when it does not.                              *)
StatusAssert ==
  /\ InParser /\ HasCRLF /\ current_state = "REQUEST_STATUS"
  /\ FirstLine \notin RequestLine
  /\ crashed' = "assert"
  /\ UNCHANGED <<sent, wire, input, current_state, parsed, thread, answered, shut, closed>>

HasColon(text) == text \in {"close", "keep", "plain"}

ParseHeader ==
  /\ InParser /\ HasCRLF /\ current_state = "REQUEST_HEADERS"
  /\ HasColon(FirstLine)
  /\ parsed' = Append(parsed, FirstLine)
  /\ TakeLine
  /\ UNCHANGED <<sent, wire, current_state, thread, answered, shut, closed, crashed>>

(* Without ": " the line is taken for the empty last one: two bytes go,    *)
(* which are the CRLF or the first two of the text.                        *)
ParseEnd ==
  /\ InParser /\ HasCRLF /\ current_state = "REQUEST_HEADERS"
  /\ ~HasColon(FirstLine)
  /\ input' = IF FirstLine = "" THEN Tail(input) ELSE input
  /\ current_state' = "REQUEST_DONE"
  /\ UNCHANGED <<sent, wire, parsed, thread, answered, shut, closed, crashed>>

-----------------------------------------------------------------------------
(* The rest of http_onMessage: the answer, the shutdown, the reset.        *)

(* Mutant: every answer is the last one.                                   *)
AlwaysCloses == TRUE

(* The first Connection header decides.                                    *)
WantsClose ==
  \E i \in 1 .. Len(parsed) : parsed[i] = "close" /\ \A j \in 1 .. i - 1 : parsed[j] # "keep"

(* strncmp(connection, KEEP_ALIVE, ...) with connection NULL.              *)
BareHttp10 == "http10" \in Lines(parsed) /\ Lines(parsed) \cap {"close", "keep"} = {}

(* tcp_connection_send_data.  A write that does not take everything, or    *)
(* fails (-1 becomes the largest size_t, so the error branch is dead),     *)
(* ends in channel_write_event_enable, which takes channel->data, a        *)
(* tcp_connection, for an event_loop.  SIGPIPE is not ignored by a process *)
(* that listens through acceptor_init.  What a client that has closed does *)
(* to a write depends on the resets that have come by then: the socket     *)
(* still takes it, or fails with EPIPE and the signal, or with ECONNRESET. *)
SendFault ==
  {IF shut THEN "sigpipe" ELSE "no"}
  \cup (IF closed = "client" THEN {"sigpipe", "update"} ELSE {})
  \cup (IF PartialWrites /\ ~shut THEN {"update"} ELSE {})

AfterRespond(fault) ==
  IF fault # "no" THEN fault ELSE IF ~WantsClose /\ BareHttp10 THEN "null" ELSE "no"

HttpRequestReset == parsed' = <<>> /\ current_state' = "REQUEST_STATUS"

Respond ==
  /\ crashed = "no" /\ thread = "message" /\ current_state = "REQUEST_DONE"
  /\ \E fault \in SendFault :
       /\ answered' = IF fault = "no" THEN Append(answered, parsed) ELSE answered
       /\ crashed' = AfterRespond(fault)
  /\ shut' = (shut \/ WantsClose)
  /\ HttpRequestReset
  /\ thread' = "idle"
  /\ UNCHANGED <<sent, wire, input, closed>>

-----------------------------------------------------------------------------
Client == ClientClose \/ \E r \in Requests : Send(r)
Parse == ParseStatus \/ StatusAssert \/ ParseHeader \/ ParseEnd
Message == Parse \/ Respond
HandleRead == ReadEnd \/ \E n \in 1 .. Len(wire) : Read(n)

Next == Client \/ HandleRead \/ Message

Spec == Init /\ [][Next]_vars

(* The loop's thread runs and the network delivers; the client owes        *)
(* nothing.                                                                *)
FairSpec == Spec /\ WF_vars(HandleRead) /\ WF_vars(Message)
-----------------------------------------------------------------------------
(* Properties *)

(* Answers belong to requests: the n-th answer is made from the lines of   *)
(* the n-th request and no others, however the stream was cut; from those  *)
(* before the first header without ": ", if there is one.                  *)
BeforeTight(r) ==
  LET StopsAt(n) == (\A i \in 1 .. n : r[i] # "tight") /\ (n = Len(r) \/ r[n + 1] = "tight")
  IN  SubSeq(r, 1, CHOOSE n \in 0 .. Len(r) : StopsAt(n))

AnswersMatch ==
  /\ Len(answered) <= Len(sent)
  /\ \A i \in 1 .. Len(answered) : answered[i] = BeforeTight(sent[i])

(* No byte is lost or taken twice: behind the lines of the request being   *)
(* parsed comes what is still in the buffer, then what is on the wire.     *)
Tight(r) == "tight" \in Lines(r)

Consumed ==
  IF current_state = "REQUEST_DONE" THEN Encode(parsed)
  ELSE SubSeq(Encode(parsed), 1, 2 * Len(parsed))

EncodeAll(rs) ==
  LET upTo[n \in 0 .. Len(rs)] == IF n = 0 THEN <<>> ELSE upTo[n - 1] \o Encode(rs[n])
  IN  upTo[Len(rs)]

StreamKept ==
  crashed = "no" /\ (\A i \in 1 .. Len(sent) : ~Tight(sent[i])) =>
    EncodeAll(answered) \o Consumed \o input \o wire = EncodeAll(sent)

(* Well-formed requests end the process in three cases only: after the     *)
(* answer to an HTTP/1.0 request without a Connection header, whose NULL   *)
(* value http_request_close_connection compares; when the rest of a        *)
(* request with a header without ": " is parsed as a request line; and in  *)
(* the answer to a request whose client has closed, or whose socket does   *)
(* not take all of it.                                                     *)
CrashesExplained ==
  crashed # "no" =>
    \/ /\ crashed = "null"
       /\ "http10" \in Lines(sent[Len(answered)])
       /\ {"close", "keep"} \cap Lines(answered[Len(answered)]) = {}
    \/ crashed = "assert" /\ Tight(sent[Len(answered)])
    \/ /\ crashed \in {"sigpipe", "update"} /\ Len(answered) < Len(sent)
       /\ closed = "client" \/ (crashed = "update" /\ PartialWrites)

(* http_onMessage handles "the case that the data is not enough": it       *)
(* returns to the loop.                                                    *)
MessageReturns == thread = "message" ~> thread = "idle"

(* When the answer is encoded, all request data has been processed.        *)
AllDataProcessed ==
  [][Respond => ~HasCRLF]_vars

(* A line without ": " is the last one of its request.                     *)
DoneAtLastLine ==
  [][ParseEnd => FirstLine = ""]_vars

(* What the socket does not take is in the buffer and the framework takes  *)
(* it over from there.                                                     *)
RestIsTakenOver == crashed # "update"
=============================================================================
