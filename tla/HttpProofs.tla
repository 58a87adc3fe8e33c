------------------------------ MODULE HttpProofs ------------------------------
(***************************************************************************)
(* Proofs about the HTTP server on one connection, for any requests, any   *)
(* number of them and any way the stream is cut into reads.                *)
(***************************************************************************)
EXTENDS HttpConnection, WellFoundedInduction, TLAPS

-----------------------------------------------------------------------------
(* The stream a client has sent is laid out request by request: the n-th   *)
(* ends at off[n] and begins behind the one before it.                     *)

Layout(rs, stream, off) ==
  /\ stream \in Seq(Token)
  /\ off \in [0 .. Len(rs) -> Nat] /\ off[0] = 0 /\ Len(stream) = off[Len(rs)]
  /\ \A n \in 0 .. Len(rs) : off[n] <= Len(stream)
  /\ \A n \in 1 .. Len(rs) :
       /\ off[n] = off[n - 1] + 2 * Len(rs[n]) + 1
       /\ \A i \in 1 .. Len(rs[n]) : /\ stream[off[n - 1] + 2 * i - 1] = rs[n][i]
                                     /\ stream[off[n - 1] + 2 * i] = "crlf"
       /\ stream[off[n]] = "crlf"

(* What is in the buffer and on the wire is the end of it.                 *)
Position(stream) == Len(stream) - Len(input) - Len(wire)

Unread(stream) ==
  /\ Position(stream) >= 0
  /\ \A i \in 1 .. Len(input) : input[i] = stream[Position(stream) + i]
  /\ \A i \in 1 .. Len(wire) : wire[i] = stream[Position(stream) + Len(input) + i]

(* The lines of the request being parsed, and none without ": ".           *)
PartOf(r) ==
  /\ Len(parsed) \in 1 .. Len(r)
  /\ \A i \in 1 .. Len(parsed) : parsed[i] = r[i] /\ r[i] # "tight"

AtTight(stream) ==
  Position(stream) < Len(stream) /\ stream[Position(stream) + 1] = "tight"

AtStatus(stream, off) ==
  LET k == Len(answered)
  IN  /\ parsed = <<>>
      /\ \/ Position(stream) = off[k]
         \/ k > 0 /\ Tight(sent[k]) /\ AtTight(stream)

AtHeaders(stream, off) ==
  LET k == Len(answered)
  IN  /\ k < Len(sent) /\ PartOf(sent[k + 1])
      /\ Position(stream) = off[k] + 2 * Len(parsed)

AtDone(stream, off) ==
  LET k == Len(answered)
  IN  /\ k < Len(sent) /\ PartOf(sent[k + 1])
      /\ \/ Len(parsed) = Len(sent[k + 1]) /\ Position(stream) = off[k + 1]
         \/ /\ Len(parsed) < Len(sent[k + 1]) /\ sent[k + 1][Len(parsed) + 1] = "tight"
            /\ AtTight(stream)

AtPlace(stream, off) ==
  /\ current_state = "REQUEST_STATUS" => AtStatus(stream, off)
  /\ current_state = "REQUEST_HEADERS" => AtHeaders(stream, off)
  /\ current_state = "REQUEST_DONE" => AtDone(stream, off) /\ thread = "message"

InStream(stream, off) == Layout(sent, stream, off) /\ Unread(stream) /\ AtPlace(stream, off)

CloseIsLast == \A i \in 1 .. Len(sent) : "close" \in Lines(sent[i]) => i = Len(sent)

ShutAtEnd ==
  crashed = "no" /\ shut => \E i \in 1 .. Len(answered) : "close" \in Lines(sent[i])

HttpInv ==
  /\ TypeOK
  /\ AnswersMatch
  /\ CloseIsLast
  /\ ShutAtEnd
  /\ crashed = "no" => \E stream, off : InStream(stream, off)
  /\ CrashesExplained

-----------------------------------------------------------------------------
(* A request, and its bytes.                                               *)

LEMMA RequestsAre ==
  ASSUME NEW r \in Requests
  PROVE  /\ r \in Seq(Token) /\ Len(r) \in Nat \ {0} /\ r[1] \in RequestLine
         /\ \A i \in 2 .. Len(r) : r[i] \in Header
         /\ \A i \in 1 .. Len(r) : r[i] \in Token /\ r[i] # "crlf"
  <1>1. r \in Seq(Token) /\ r # <<>> /\ r[1] \in RequestLine /\ \A i \in 2 .. Len(r) : r[i] \in Header
    BY RequestsAssumption
  <1>2. Len(r) \in Nat \ {0} /\ \A i \in 1 .. Len(r) : r[i] \in Token
    BY <1>1
  <1>3. \A i \in 1 .. Len(r) : r[i] # "crlf"
    <2> SUFFICES ASSUME NEW i \in 1 .. Len(r) PROVE r[i] # "crlf"
      OBVIOUS
    <2>1. CASE i = 1
      BY <1>1, <2>1 DEF RequestLine
    <2>2. CASE i # 1
      BY <1>1, <1>2, <2>2 DEF Header
    <2> QED
      BY <2>1, <2>2
  <1> QED
    BY <1>1, <1>2, <1>3

LEMMA Encoded ==
  ASSUME NEW r \in Seq(Token)
  PROVE  /\ Encode(r) \in Seq(Token) /\ Len(Encode(r)) = 2 * Len(r) + 1
         /\ \A i \in 1 .. Len(r) : Encode(r)[2 * i - 1] = r[i] /\ Encode(r)[2 * i] = "crlf"
         /\ Encode(r)[2 * Len(r) + 1] = "crlf"
  <1> DEFINE N == 2 * Len(r) + 1
             e(i) == IF i % 2 = 1 /\ i < 2 * Len(r) THEN r[(i + 1) \div 2] ELSE "crlf"
  <1>1. Len(r) \in Nat /\ N \in Nat /\ \A i \in 1 .. Len(r) : r[i] \in Token
    OBVIOUS
  <1>2. \A i \in 1 .. N : i % 2 = 1 /\ i < 2 * Len(r) => (i + 1) \div 2 \in 1 .. Len(r)
    BY <1>1
  <1>3. "crlf" \in Token
    BY DEF Token
  <1>4. \A i \in 1 .. N : e(i) \in Token
    BY <1>1, <1>2, <1>3
  <1>5. Encode(r) = [i \in 1 .. N |-> e(i)]
    BY DEF Encode
  <1>6. \A i \in 1 .. Len(r) : /\ 2 * i - 1 \in 1 .. N /\ 2 * i \in 1 .. N
                               /\ (2 * i - 1) % 2 = 1 /\ 2 * i - 1 < 2 * Len(r)
                               /\ (2 * i - 1 + 1) \div 2 = i /\ (2 * i) % 2 = 0
    BY <1>1
  <1>7. \A i \in 1 .. Len(r) : e(2 * i - 1) = r[i] /\ e(2 * i) = "crlf"
    BY <1>6
  <1>8. e(N) = "crlf" /\ N \in 1 .. N
    BY <1>1
  <1> HIDE DEF e
  <1>9. Encode(r) \in Seq(Token) /\ Len(Encode(r)) = N
    BY <1>1, <1>4, <1>5
  <1> QED
    BY <1>5, <1>6, <1>7, <1>8, <1>9

(* The lines before the first header without ": ".                         *)
LEMMA Stops ==
  ASSUME NEW r \in Seq(Token), NEW s \in Seq(Token), Len(s) <= Len(r),
         \A i \in 1 .. Len(s) : s[i] = r[i] /\ r[i] # "tight",
         Len(s) = Len(r) \/ r[Len(s) + 1] = "tight"
  PROVE  BeforeTight(r) = s
  <1> DEFINE StopsAt(n) == (\A i \in 1 .. n : r[i] # "tight") /\ (n = Len(r) \/ r[n + 1] = "tight")
             n == CHOOSE m \in 0 .. Len(r) : StopsAt(m)
  <1>1. Len(r) \in Nat /\ Len(s) \in 0 .. Len(r) /\ StopsAt(Len(s))
    OBVIOUS
  <1>2. \A m \in 0 .. Len(r) : StopsAt(m) => m = Len(s)
    BY <1>1
  <1>3. n = Len(s)
    <2> HIDE DEF StopsAt
    <2> QED
      BY <1>1, <1>2
  <1>4. BeforeTight(r) = SubSeq(r, 1, n)
    BY DEF BeforeTight
  <1> HIDE DEF n
  <1>5. SubSeq(r, 1, Len(s)) = s
    BY <1>1
  <1> QED
    BY <1>3, <1>4, <1>5

LEMMA Joined ==
  ASSUME NEW X, NEW s \in Seq(X), NEW t \in Seq(X)
  PROVE  /\ s \o t \in Seq(X) /\ Len(s \o t) = Len(s) + Len(t)
         /\ \A i \in 1 .. Len(s) : (s \o t)[i] = s[i]
         /\ \A i \in 1 .. Len(t) : (s \o t)[Len(s) + i] = t[i]
  OBVIOUS

(* Another request is laid out behind those that were sent.                *)
LEMMA LayoutExtends ==
  ASSUME NEW rs \in Seq(Requests), NEW stream, NEW off, Layout(rs, stream, off), NEW r \in Requests
  PROVE  \E more : /\ Layout(Append(rs, r), stream \o Encode(r), more)
                   /\ \A n \in 0 .. Len(rs) : more[n] = off[n]
  <1> DEFINE N == Len(rs)
             new == Append(rs, r)
             e == Encode(r)
             longer == stream \o e
             more == [n \in 0 .. N + 1 |-> IF n <= N THEN off[n] ELSE off[N] + 2 * Len(r) + 1]
  <1>1. /\ r \in Seq(Token) /\ Len(r) \in Nat /\ e \in Seq(Token) /\ Len(e) = 2 * Len(r) + 1
        /\ \A i \in 1 .. Len(r) : e[2 * i - 1] = r[i] /\ e[2 * i] = "crlf"
        /\ e[2 * Len(r) + 1] = "crlf"
    BY RequestsAre, Encoded
  <1>2. N \in Nat /\ Len(new) = N + 1 /\ new[N + 1] = r /\ \A n \in 1 .. N : new[n] = rs[n]
    OBVIOUS
  <1>3. /\ stream \in Seq(Token) /\ off \in [0 .. N -> Nat] /\ off[0] = 0 /\ Len(stream) = off[N]
        /\ \A n \in 0 .. N : off[n] <= Len(stream)
    BY DEF Layout
  <1>4. /\ \A n \in 0 .. N : more[n] = off[n]
        /\ more[N + 1] = Len(stream) + 2 * Len(r) + 1
        /\ more \in [0 .. N + 1 -> Nat]
    BY <1>1, <1>2, <1>3
  <1> HIDE DEF more, e
  <1>5. /\ longer \in Seq(Token) /\ Len(longer) = Len(stream) + 2 * Len(r) + 1
        /\ \A i \in 1 .. Len(stream) : longer[i] = stream[i]
        /\ \A i \in 1 .. 2 * Len(r) + 1 : longer[Len(stream) + i] = e[i]
    <2>1. /\ longer \in Seq(Token) /\ Len(longer) = Len(stream) + Len(e)
          /\ \A i \in 1 .. Len(stream) : longer[i] = stream[i]
          /\ \A i \in 1 .. Len(e) : longer[Len(stream) + i] = e[i]
      <3>1. stream \in Seq(Token) /\ e \in Seq(Token)
        BY <1>1, <1>3
      <3> QED
        BY <3>1, Joined
    <2> HIDE DEF longer
    <2>2. Len(stream) \in Nat
      BY <1>3
    <2> QED
      BY <1>1, <2>1, <2>2
  <1> HIDE DEF longer, new
  <1>6. \A n \in 1 .. N : Len(rs[n]) \in Nat
    BY RequestsAre
  <1>7. ASSUME NEW n \in 1 .. N + 1
        PROVE  /\ more[n] = more[n - 1] + 2 * Len(new[n]) + 1
               /\ \A i \in 1 .. Len(new[n]) : /\ longer[more[n - 1] + 2 * i - 1] = new[n][i]
                                              /\ longer[more[n - 1] + 2 * i] = "crlf"
               /\ longer[more[n]] = "crlf"
    <2>1. CASE n = N + 1
      <3>1. more[n - 1] = Len(stream) /\ more[n] = Len(stream) + 2 * Len(r) + 1 /\ new[n] = r
        BY <1>2, <1>3, <1>4, <2>1
      <3>2. \A i \in 1 .. Len(r) : /\ 2 * i - 1 \in 1 .. 2 * Len(r) + 1
                                   /\ 2 * i \in 1 .. 2 * Len(r) + 1
        BY <1>1
      <3>3. \A i \in 1 .. Len(r) : /\ longer[Len(stream) + (2 * i - 1)] = r[i]
                                   /\ longer[Len(stream) + 2 * i] = "crlf"
        BY <1>1, <1>5, <3>2
      <3>4. longer[Len(stream) + (2 * Len(r) + 1)] = "crlf"
        BY <1>1, <1>5
      <3>5. Len(stream) \in Nat
        BY <1>3
      <3> QED
        BY <1>1, <3>1, <3>3, <3>4, <3>5
    <2>2. CASE n # N + 1
      <3>1. n \in 1 .. N /\ n - 1 \in 0 .. N /\ n \in 0 .. N
        BY <1>2, <2>2
      <3>2. more[n - 1] = off[n - 1] /\ more[n] = off[n] /\ new[n] = rs[n]
        BY <1>2, <1>4, <3>1
      <3>3. /\ off[n - 1] \in Nat /\ off[n] \in Nat /\ off[n] <= Len(stream) /\ Len(stream) \in Nat
            /\ off[n] = off[n - 1] + 2 * Len(rs[n]) + 1 /\ Len(rs[n]) \in Nat
        <4>1. off[n] = off[n - 1] + 2 * Len(rs[n]) + 1
          BY <3>1 DEF Layout
        <4> QED
          BY <1>3, <1>6, <3>1, <4>1
      <3>4. /\ \A i \in 1 .. Len(rs[n]) : /\ stream[off[n - 1] + 2 * i - 1] = rs[n][i]
                                          /\ stream[off[n - 1] + 2 * i] = "crlf"
            /\ stream[off[n]] = "crlf"
        BY <3>1 DEF Layout
      <3>5. \A i \in 1 .. Len(rs[n]) : /\ off[n - 1] + 2 * i - 1 \in 1 .. Len(stream)
                                       /\ off[n - 1] + 2 * i \in 1 .. Len(stream)
        <4>1. PICK b \in Nat, c \in Nat, d \in Nat : b = off[n - 1] /\ c = Len(stream) /\ d = Len(rs[n])
          BY <3>3
        <4>2. b + 2 * d + 1 <= c
          BY <3>3, <4>1
        <4>3. \A i \in 1 .. d : b + 2 * i - 1 \in 1 .. c /\ b + 2 * i \in 1 .. c
          BY <4>2
        <4> QED
          BY <4>1, <4>3
      <3>6. off[n] \in 1 .. Len(stream)
        BY <3>3
      <3> QED
        BY <1>5, <3>2, <3>3, <3>4, <3>5, <3>6
    <2> QED
      BY <2>1, <2>2
  <1>8. \A n \in 0 .. N + 1 : more[n] <= Len(longer)
    <2>1. \A n \in 0 .. N + 1 : n = N + 1 \/ n \in 0 .. N
      BY <1>2
    <2>2. Len(stream) \in Nat
      BY <1>3
    <2>3. \A n \in 0 .. N : more[n] \in Nat /\ more[n] <= Len(stream)
      BY <1>2, <1>3, <1>4
    <2>4. Len(stream) <= Len(longer) /\ more[N + 1] = Len(longer) /\ Len(longer) \in Nat
      BY <1>1, <1>4, <1>5, <2>2
    <2>5. \A n \in 0 .. N : more[n] <= Len(longer)
      BY <2>2, <2>3, <2>4
    <2> QED
      BY <2>1, <2>4, <2>5
  <1>9. more[0] = 0
    BY <1>2, <1>3, <1>4
  <1>10. Layout(new, longer, more)
    BY <1>2, <1>4, <1>5, <1>7, <1>8, <1>9 DEF Layout
  <1> QED
    BY <1>4, <1>10 DEF new, longer, e

(* Where the lines of request k + 1 are.                                   *)
BlockAt(rs, stream, off, k) ==
  /\ off[k] \in Nat /\ Len(stream) \in Nat /\ rs[k + 1] \in Requests
  /\ off[k + 1] = off[k] + 2 * Len(rs[k + 1]) + 1 /\ off[k + 1] <= Len(stream)
  /\ \A i \in 1 .. Len(rs[k + 1]) : /\ stream[off[k] + 2 * i - 1] = rs[k + 1][i]
                                    /\ stream[off[k] + 2 * i] = "crlf"
  /\ stream[off[k + 1]] = "crlf"

LEMMA Block ==
  ASSUME NEW rs \in Seq(Requests), NEW stream, NEW off, Layout(rs, stream, off),
         NEW k \in 0 .. Len(rs) - 1
  PROVE  BlockAt(rs, stream, off, k)
  <1>1. k \in 0 .. Len(rs) /\ k + 1 \in 1 .. Len(rs) /\ k + 1 \in 0 .. Len(rs) /\ (k + 1) - 1 = k
    OBVIOUS
  <1>2. rs[k + 1] \in Requests
    BY <1>1
  <1>3. off[k] \in Nat /\ Len(stream) \in Nat /\ off[k + 1] <= Len(stream)
    BY <1>1 DEF Layout
  <1>4. \A n \in 1 .. Len(rs) :
          /\ off[n] = off[n - 1] + 2 * Len(rs[n]) + 1
          /\ \A i \in 1 .. Len(rs[n]) : /\ stream[off[n - 1] + 2 * i - 1] = rs[n][i]
                                        /\ stream[off[n - 1] + 2 * i] = "crlf"
          /\ stream[off[n]] = "crlf"
    BY DEF Layout
  <1>5. /\ off[k + 1] = off[(k + 1) - 1] + 2 * Len(rs[k + 1]) + 1
        /\ \A i \in 1 .. Len(rs[k + 1]) : /\ stream[off[(k + 1) - 1] + 2 * i - 1] = rs[k + 1][i]
                                          /\ stream[off[(k + 1) - 1] + 2 * i] = "crlf"
        /\ stream[off[k + 1]] = "crlf"
    BY <1>1, <1>4
  <1> QED
    BY <1>1, <1>2, <1>3, <1>5 DEF BlockAt

-----------------------------------------------------------------------------
(* What is left to read, and its first token.                              *)

LEMMA AtHead ==
  ASSUME TypeOK, NEW stream \in Seq(Token), Unread(stream), HasCRLF
  PROVE  /\ Len(input) \in Nat \ {0} /\ Position(stream) \in Nat /\ Position(stream) < Len(stream)
         /\ input[1] = stream[Position(stream) + 1]
  <1>1. Len(input) \in Nat /\ Len(wire) \in Nat /\ Len(stream) \in Nat
    BY DEF TypeOK
  <1>2. Len(input) # 0
    BY <1>1 DEF HasCRLF, Lines
  <1>3. Position(stream) \in Nat /\ Position(stream) < Len(stream)
    BY <1>1, <1>2 DEF Unread, Position
  <1>4. input[1] = stream[Position(stream) + 1]
    BY <1>1, <1>2 DEF Unread
  <1> QED
    BY <1>1, <1>2, <1>3, <1>4

(* Text at the head of the buffer has its CRLF behind it.                  *)
LEMMA Room ==
  ASSUME TypeOK, HasCRLF, input[1] # "crlf"
  PROVE  2 \in 1 .. Len(input)
  <1>1. Len(input) \in Nat
    BY DEF TypeOK
  <1>2. PICK i \in 1 .. Len(input) : input[i] = "crlf"
    BY DEF HasCRLF, Lines
  <1> QED
    BY <1>1, <1>2

LEMMA Dropped ==
  ASSUME NEW X, NEW s \in Seq(X), NEW n \in 0 .. Len(s)
  PROVE  /\ SubSeq(s, n + 1, Len(s)) \in Seq(X) /\ Len(SubSeq(s, n + 1, Len(s))) = Len(s) - n
         /\ \A i \in 1 .. Len(s) - n : SubSeq(s, n + 1, Len(s))[i] = s[n + i]
  OBVIOUS

(* The parser takes bytes off the buffer, a read moves them there, and the *)
(* client adds them to the wire.                                           *)
LEMMA Taken ==
  ASSUME TypeOK, NEW stream \in Seq(Token), Unread(stream), NEW n \in 1 .. Len(input),
         input' = SubSeq(input, n + 1, Len(input)), wire' = wire
  PROVE  input' \in Seq(Token) /\ Unread(stream)' /\ Position(stream)' = Position(stream) + n
  <1>1. /\ Len(input) \in Nat /\ Len(wire) \in Nat /\ Len(stream) \in Nat /\ n \in Nat
        /\ input \in Seq(Token)
    BY DEF TypeOK
  <1>2. /\ input' \in Seq(Token) /\ Len(input') = Len(input) - n
        /\ \A i \in 1 .. Len(input) - n : input'[i] = input[n + i]
    BY <1>1, Dropped
  <1>3. Position(stream)' = Position(stream) + n /\ Position(stream) \in Nat
    <2>1. Len(input') = Len(input) - n /\ Len(wire') = Len(wire)
      BY <1>2
    <2>2. Position(stream) >= 0
      BY DEF Unread
    <2>3. PICK a \in Nat, b \in Nat, c \in Nat : a = Len(stream) /\ b = Len(input) /\ c = Len(wire)
      BY <1>1
    <2>4. Position(stream)' = a - (b - n) - c /\ Position(stream) = a - b - c
      BY <2>1, <2>3 DEF Position
    <2> QED
      BY <1>1, <2>2, <2>4
  <1>4. PICK p \in Nat : p = Position(stream)
    BY <1>3
  <1>5. \A i \in 1 .. Len(input') : input'[i] = stream[p + n + i]
    BY <1>1, <1>2, <1>4 DEF Unread
  <1>6. \A i \in 1 .. Len(wire') : wire'[i] = stream[p + n + Len(input') + i]
    BY <1>1, <1>2, <1>4 DEF Unread
  <1> QED
    BY <1>1, <1>2, <1>3, <1>4, <1>5, <1>6 DEF Unread

LEMMA Received ==
  ASSUME TypeOK, NEW stream \in Seq(Token), Unread(stream), NEW n \in 1 .. Len(wire), Read(n)
  PROVE  /\ input' \in Seq(Token) /\ wire' \in Seq(Token)
         /\ Unread(stream)' /\ Position(stream)' = Position(stream)
  <1> DEFINE part == SubSeq(wire, 1, n)
  <1>1. /\ Len(input) \in Nat /\ Len(wire) \in Nat /\ Len(stream) \in Nat /\ n \in Nat
        /\ input \in Seq(Token) /\ wire \in Seq(Token) /\ n \in 0 .. Len(wire)
    BY DEF TypeOK
  <1>2. /\ wire' \in Seq(Token) /\ Len(wire') = Len(wire) - n
        /\ \A i \in 1 .. Len(wire) - n : wire'[i] = wire[n + i]
    BY <1>1, Dropped DEF Read
  <1>3. part \in Seq(Token) /\ Len(part) = n /\ \A i \in 1 .. n : part[i] = wire[i]
    BY <1>1
  <1>4. input' = input \o part
    BY DEF Read
  <1> HIDE DEF part
  <1>5. /\ input' \in Seq(Token) /\ Len(input') = Len(input) + n
        /\ \A i \in 1 .. Len(input) : input'[i] = input[i]
        /\ \A i \in 1 .. n : input'[Len(input) + i] = part[i]
    <2>1. /\ input \o part \in Seq(Token) /\ Len(input \o part) = Len(input) + Len(part)
          /\ \A i \in 1 .. Len(input) : (input \o part)[i] = input[i]
          /\ \A i \in 1 .. Len(part) : (input \o part)[Len(input) + i] = part[i]
      <3>1. input \in Seq(Token) /\ part \in Seq(Token)
        BY <1>1, <1>3
      <3> QED
        BY <3>1, Joined
    <2> QED
      BY <1>3, <1>4, <2>1
  <1>6. Position(stream)' = Position(stream) /\ Position(stream) \in Nat
    BY <1>1, <1>2, <1>5 DEF Position, Unread
  <1>7. PICK p \in Nat : p = Position(stream)
    BY <1>6
  <1>8. \A i \in 1 .. Len(input') : input'[i] = stream[p + i]
    <2> SUFFICES ASSUME NEW i \in 1 .. Len(input') PROVE input'[i] = stream[p + i]
      OBVIOUS
    <2>1. CASE i <= Len(input)
      BY <1>1, <1>5, <1>7, <2>1 DEF Unread
    <2>2. CASE i > Len(input)
      <3>1. PICK j \in 1 .. n : i = Len(input) + j
        <4>1. i - Len(input) \in 1 .. n /\ i = Len(input) + (i - Len(input))
          BY <1>1, <1>5, <2>2
        <4> QED
          BY <4>1
      <3>2. input'[i] = wire[j] /\ j \in 1 .. Len(wire)
        BY <1>1, <1>3, <1>5, <3>1
      <3>3. wire[j] = stream[p + Len(input) + j]
        BY <1>7, <3>2 DEF Unread
      <3> QED
        BY <1>1, <3>1, <3>2, <3>3
    <2> QED
      BY <1>1, <1>5, <2>1, <2>2
  <1>9. \A i \in 1 .. Len(wire') : wire'[i] = stream[p + Len(input') + i]
    <2> SUFFICES ASSUME NEW i \in 1 .. Len(wire') PROVE wire'[i] = stream[p + Len(input') + i]
      OBVIOUS
    <2>1. wire'[i] = wire[n + i] /\ n + i \in 1 .. Len(wire) /\ i \in Nat
      BY <1>1, <1>2
    <2>2. wire[n + i] = stream[p + Len(input) + (n + i)]
      BY <1>7, <2>1 DEF Unread
    <2>3. p + Len(input) + (n + i) = p + Len(input') + i
      BY <1>1, <1>5, <2>1
    <2> QED
      BY <2>1, <2>2, <2>3
  <1> QED
    BY <1>2, <1>5, <1>6, <1>7, <1>8, <1>9 DEF Unread

LEMMA Sent ==
  ASSUME TypeOK, NEW stream \in Seq(Token), Unread(stream), NEW r \in Requests,
         input' = input, wire' = wire \o Encode(r)
  PROVE  /\ wire' \in Seq(Token) /\ Unread(stream \o Encode(r))'
         /\ Position(stream \o Encode(r))' = Position(stream)
         /\ stream \o Encode(r) \in Seq(Token) /\ Len(stream) <= Len(stream \o Encode(r))
         /\ \A i \in 1 .. Len(stream) : (stream \o Encode(r))[i] = stream[i]
  <1>1. PICK e : e = Encode(r)
    OBVIOUS
  <1>2. e \in Seq(Token) /\ Len(e) \in Nat /\ r \in Seq(Token)
    BY <1>1, RequestsAre, Encoded
  <1>3. PICK longer : longer = stream \o e
    OBVIOUS
  <1>4. /\ longer \in Seq(Token) /\ Len(longer) = Len(stream) + Len(e)
        /\ \A i \in 1 .. Len(stream) : longer[i] = stream[i]
        /\ \A i \in 1 .. Len(e) : longer[Len(stream) + i] = e[i]
    BY <1>2, <1>3, Joined
  <1>5. wire \in Seq(Token)
    BY DEF TypeOK
  <1>6. /\ wire' \in Seq(Token) /\ Len(wire') = Len(wire) + Len(e)
        /\ \A i \in 1 .. Len(wire) : wire'[i] = wire[i]
        /\ \A i \in 1 .. Len(e) : wire'[Len(wire) + i] = e[i]
    BY <1>1, <1>2, <1>5, Joined
  <1>7. Len(input) \in Nat /\ Len(wire) \in Nat /\ Len(stream) \in Nat
    BY DEF TypeOK
  <1>8. Position(longer)' = Position(stream) /\ Position(stream) \in Nat
    BY <1>2, <1>4, <1>6, <1>7 DEF Position, Unread
  <1>9. PICK p \in Nat : p = Position(stream) /\ p + Len(input) + Len(wire) = Len(stream)
    <2>1. Position(stream) + Len(input) + Len(wire) = Len(stream)
      BY <1>7 DEF Position
    <2> QED
      BY <1>8, <2>1
  <1>10. \A i \in 1 .. Len(input) : input[i] = longer[p + i]
    BY <1>4, <1>7, <1>9 DEF Unread
  <1>11. \A i \in 1 .. Len(wire') : wire'[i] = longer[p + Len(input) + i]
    <2> SUFFICES ASSUME NEW i \in 1 .. Len(wire') PROVE wire'[i] = longer[p + Len(input) + i]
      OBVIOUS
    <2>1. CASE i <= Len(wire)
      <3>1. i \in 1 .. Len(wire) /\ p + Len(input) + i \in 1 .. Len(stream)
        BY <1>7, <1>9, <2>1
      <3>2. wire[i] = stream[p + Len(input) + i]
        BY <1>9, <3>1 DEF Unread
      <3> QED
        BY <1>4, <1>6, <3>1, <3>2
    <2>2. CASE i > Len(wire)
      <3>1. PICK j \in 1 .. Len(e) : i = Len(wire) + j
        <4>1. i - Len(wire) \in 1 .. Len(e) /\ i = Len(wire) + (i - Len(wire))
          BY <1>2, <1>6, <1>7, <2>2
        <4> QED
          BY <4>1
      <3>2. wire'[i] = e[j] /\ longer[Len(stream) + j] = e[j]
        BY <1>4, <1>6, <3>1
      <3>3. p + Len(input) + i = Len(stream) + j
        <4>1. PICK a \in Nat, b \in Nat, c \in Nat : a = Len(stream) /\ b = Len(input) /\ c = Len(wire)
          BY <1>7
        <4>2. j \in Nat /\ p + b + c = a /\ i = c + j
          BY <1>2, <1>9, <3>1, <4>1
        <4>3. p + b + (c + j) = a + j
          BY <4>2
        <4> QED
          BY <4>1, <4>2, <4>3
      <3> QED
        BY <3>2, <3>3
    <2> QED
      BY <1>2, <1>6, <1>7, <2>1, <2>2
  <1>12. Unread(longer)'
    BY <1>8, <1>9, <1>10, <1>11 DEF Unread
  <1>13. Len(stream) <= Len(longer)
    BY <1>2, <1>4, <1>7
  <1> QED
    BY <1>1, <1>3, <1>4, <1>6, <1>8, <1>12, <1>13

-----------------------------------------------------------------------------
(* Each step keeps the invariant.                                          *)

LEMMA SendKeeps ==
  ASSUME HttpInv, NEW r \in Requests, Send(r)
  PROVE  HttpInv'
  <1>0. TypeOK /\ AnswersMatch /\ CloseIsLast /\ ShutAtEnd /\ crashed = "no" /\ crashed' = "no"
    BY DEF HttpInv, Send
  <1>1. PICK stream, off : InStream(stream, off)
    BY <1>0 DEF HttpInv
  <1>2. /\ Layout(sent, stream, off) /\ Unread(stream) /\ AtPlace(stream, off)
        /\ sent \in Seq(Requests) /\ stream \in Seq(Token)
    BY <1>0, <1>1 DEF InStream, Layout, TypeOK
  <1>3. PICK longer : longer = stream \o Encode(r)
    OBVIOUS
  <1>4. PICK more : Layout(Append(sent, r), longer, more) /\ \A n \in 0 .. Len(sent) : more[n] = off[n]
    BY <1>2, <1>3, LayoutExtends
  <1>5. /\ sent' = Append(sent, r) /\ wire' = wire \o Encode(r) /\ Len(sent) < MaxRequests
        /\ \A i \in 1 .. Len(sent) : "close" \notin Lines(sent[i])
        /\ UNCHANGED <<input, current_state, parsed, thread, answered, shut, closed, crashed>>
    BY DEF Send
  <1>6. /\ wire' \in Seq(Token) /\ Unread(longer)' /\ Position(longer)' = Position(stream)
        /\ Len(stream) <= Len(longer) /\ \A i \in 1 .. Len(stream) : longer[i] = stream[i]
    BY <1>0, <1>2, <1>3, <1>5, Sent
  <1>7. /\ Len(sent) \in Nat /\ Len(sent') = Len(sent) + 1 /\ sent' \in Seq(Requests)
        /\ \A i \in 1 .. Len(sent) : sent'[i] = sent[i]
    BY <1>2, <1>5
  <1>8. PICK k \in 0 .. Len(sent) : k = Len(answered)
    BY <1>0, <1>7 DEF AnswersMatch, TypeOK
  <1>9. Position(stream) \in Nat /\ Len(stream) \in Nat
    <2>1. Len(input) \in Nat /\ Len(wire) \in Nat /\ Len(stream) \in Nat
      BY <1>0, <1>2 DEF TypeOK
    <2>2. Position(stream) >= 0
      BY <1>2 DEF Unread
    <2> QED
      BY <2>1, <2>2 DEF Position
  <1>10. AtTight(stream) => AtTight(longer)'
    BY <1>6, <1>9 DEF AtTight
  <1>11. /\ more[k] = off[k]
         /\ k < Len(sent) => /\ more[k + 1] = off[k + 1] /\ sent'[k + 1] = sent[k + 1]
                             /\ k < Len(sent')
         /\ k > 0 => sent'[k] = sent[k]
    BY <1>4, <1>7, <1>8
  <1>12. TypeOK'
    BY <1>0, <1>5, <1>6, <1>7, SwitchesAssumption DEF TypeOK
  <1>13. AnswersMatch'
    BY <1>0, <1>5, <1>7 DEF AnswersMatch
  <1>14. CloseIsLast'
    BY <1>5, <1>7 DEF CloseIsLast
  <1>15. ShutAtEnd'
    <2>1. \A i \in 1 .. Len(answered) : i \in 1 .. Len(sent)
      BY <1>7, <1>8
    <2> QED
      BY <1>0, <1>5, <1>7, <2>1 DEF ShutAtEnd
  <1>16. AtPlace(longer, more)'
    <2>1. CASE current_state = "REQUEST_STATUS"
      BY <1>2, <1>5, <1>6, <1>8, <1>10, <1>11, <2>1 DEF AtPlace, AtStatus
    <2>2. CASE current_state = "REQUEST_HEADERS"
      BY <1>2, <1>5, <1>6, <1>8, <1>11, <2>2 DEF AtPlace, AtHeaders, PartOf
    <2>3. CASE current_state = "REQUEST_DONE"
      BY <1>2, <1>5, <1>6, <1>8, <1>10, <1>11, <2>3 DEF AtPlace, AtDone, PartOf
    <2> QED
      BY <1>0, <1>5, <2>1, <2>2, <2>3 DEF TypeOK, AtPlace
  <1>17. InStream(longer, more)'
    BY <1>4, <1>5, <1>6, <1>16 DEF InStream
  <1> QED
    BY <1>0, <1>12, <1>13, <1>14, <1>15, <1>17 DEF HttpInv, CrashesExplained

LEMMA CloseKeeps ==
  ASSUME HttpInv, ClientClose \/ ReadEnd \/ UNCHANGED vars
  PROVE  HttpInv'
  <1>1. /\ UNCHANGED <<sent, wire, input, current_state, parsed, thread, answered, shut, crashed>>
        /\ closed' \in {"no", "client", "both"} /\ (crashed # "no" => closed' = closed)
    BY DEF ClientClose, ReadEnd, vars, HttpInv, TypeOK
  <1>2. /\ TypeOK' /\ AnswersMatch' /\ CloseIsLast' /\ ShutAtEnd'
        /\ CrashesExplained'
    BY <1>1 DEF HttpInv, TypeOK, AnswersMatch, CloseIsLast, ShutAtEnd, CrashesExplained
  <1>3. ASSUME NEW stream, NEW off, InStream(stream, off) PROVE InStream(stream, off)'
    BY <1>1, <1>3 DEF InStream, Unread, Position, AtPlace, AtStatus, AtHeaders, AtDone, PartOf, AtTight
  <1>4. crashed' = "no" => \E stream, off : InStream(stream, off)'
    <2>1. crashed = "no" => \E stream, off : InStream(stream, off)
      BY DEF HttpInv
    <2> SUFFICES ASSUME crashed' = "no" PROVE \E stream, off : InStream(stream, off)'
      OBVIOUS
    <2>2. PICK stream, off : InStream(stream, off)
      BY <1>1, <2>1
    <2>3. InStream(stream, off)'
      BY <1>3, <2>2
    <2> QED
      BY <2>3
  <1> QED
    BY <1>2, <1>4 DEF HttpInv

LEMMA ReadKeeps ==
  ASSUME HttpInv, NEW n \in 1 .. Len(wire), Read(n)
  PROVE  HttpInv'
  <1>0. TypeOK /\ AnswersMatch /\ CloseIsLast /\ ShutAtEnd /\ crashed = "no" /\ thread = "idle"
    BY DEF HttpInv, Read
  <1>1. PICK stream, off : InStream(stream, off)
    BY <1>0 DEF HttpInv
  <1>2. /\ Layout(sent, stream, off) /\ Unread(stream) /\ AtPlace(stream, off)
        /\ stream \in Seq(Token)
    BY <1>1 DEF InStream, Layout
  <1>3. UNCHANGED <<sent, current_state, parsed, answered, shut, closed, crashed>> /\ thread' = "message"
    BY DEF Read
  <1>4. /\ input' \in Seq(Token) /\ wire' \in Seq(Token)
        /\ Unread(stream)' /\ Position(stream)' = Position(stream)
    BY <1>0, <1>2, Received
  <1>5. TypeOK' /\ AnswersMatch' /\ CloseIsLast' /\ ShutAtEnd'
    BY <1>0, <1>3, <1>4 DEF TypeOK, AnswersMatch, CloseIsLast, ShutAtEnd
  <1>6. AtPlace(stream, off)'
    BY <1>0, <1>2, <1>3, <1>4 DEF AtPlace, AtStatus, AtHeaders, PartOf, AtTight
  <1>7. InStream(stream, off)'
    BY <1>2, <1>3, <1>4, <1>6 DEF InStream
  <1> QED
    BY <1>0, <1>3, <1>5, <1>7 DEF HttpInv, CrashesExplained

(* The first line of a request is at the head of the buffer when the       *)
(* parser begins one, unless a header without ": " has stopped it.         *)
LEMMA AtFirstLine ==
  ASSUME HttpInv, InParser, HasCRLF, current_state = "REQUEST_STATUS",
         NEW stream, NEW off, InStream(stream, off), NEW k \in Nat, k = Len(answered)
  PROVE  \/ /\ k \in 0 .. Len(sent) - 1 /\ Position(stream) = off[k]
            /\ FirstLine = sent[k + 1][1] /\ FirstLine \in RequestLine
         \/ k > 0 /\ Tight(sent[k]) /\ FirstLine = "tight"
  <1>1. /\ TypeOK /\ Layout(sent, stream, off) /\ Unread(stream) /\ AtStatus(stream, off)
        /\ stream \in Seq(Token) /\ sent \in Seq(Requests)
    BY DEF HttpInv, InStream, AtPlace, Layout, TypeOK
  <1>2. /\ Position(stream) \in Nat /\ Position(stream) < Len(stream)
        /\ input[1] = stream[Position(stream) + 1]
    BY <1>1, AtHead
  <1>3. k \in 0 .. Len(sent)
    BY <1>1 DEF HttpInv, AnswersMatch, TypeOK
  <1>4. CASE Position(stream) = off[k]
    <2>1. k \in 0 .. Len(sent) - 1
      <3>1. k # Len(sent)
        BY <1>1, <1>2, <1>4 DEF Layout
      <3> QED
        BY <1>3, <3>1
    <2>2. /\ sent[k + 1] \in Requests
          /\ \A i \in 1 .. Len(sent[k + 1]) : stream[off[k] + 2 * i - 1] = sent[k + 1][i]
      <3>1. sent \in Seq(Requests) /\ Layout(sent, stream, off)
        BY <1>1
      <3>2. BlockAt(sent, stream, off, k)
        BY <2>1, <3>1, Block
      <3> QED
        BY <3>2 DEF BlockAt
    <2>3. 1 \in 1 .. Len(sent[k + 1]) /\ sent[k + 1][1] \in RequestLine /\ sent[k + 1][1] # "crlf"
      BY <2>2, RequestsAre
    <2>4. stream[off[k] + 2 * 1 - 1] = sent[k + 1][1]
      BY <2>2, <2>3
    <2>5. input[1] = sent[k + 1][1]
      BY <1>2, <1>4, <2>4
    <2> QED
      BY <1>4, <2>1, <2>3, <2>5 DEF FirstLine
  <1>5. CASE Position(stream) # off[k]
    BY <1>1, <1>2, <1>5 DEF AtStatus, AtTight, FirstLine
  <1> QED
    BY <1>4, <1>5

LEMMA StatusKeeps ==
  ASSUME HttpInv, ParseStatus
  PROVE  HttpInv'
  <1>0. /\ TypeOK /\ AnswersMatch /\ CloseIsLast /\ ShutAtEnd /\ crashed = "no"
        /\ InParser /\ HasCRLF /\ current_state = "REQUEST_STATUS" /\ FirstLine \in RequestLine
    BY DEF HttpInv, ParseStatus, InParser
  <1>1. PICK stream, off : InStream(stream, off)
    BY <1>0 DEF HttpInv
  <1>2. /\ Layout(sent, stream, off) /\ Unread(stream) /\ stream \in Seq(Token)
        /\ sent \in Seq(Requests)
    BY <1>0, <1>1 DEF InStream, Layout, TypeOK
  <1>3. PICK k \in Nat : k = Len(answered)
    BY <1>0 DEF TypeOK
  <1>4. /\ k \in 0 .. Len(sent) - 1 /\ Position(stream) = off[k] /\ FirstLine = sent[k + 1][1]
    BY <1>0, <1>1, <1>3, AtFirstLine DEF RequestLine
  <1>5. /\ parsed' = <<FirstLine>> /\ input' = SubSeq(input, 3, Len(input))
        /\ current_state' = "REQUEST_HEADERS"
        /\ UNCHANGED <<sent, wire, thread, answered, shut, closed, crashed>>
    BY DEF ParseStatus, TakeLine
  <1>6. 2 \in 1 .. Len(input)
    BY <1>0, Room DEF RequestLine, FirstLine
  <1>7. input' \in Seq(Token) /\ Unread(stream)' /\ Position(stream)' = Position(stream) + 2
    BY <1>0, <1>2, <1>5, <1>6, Taken
  <1>8. PICK r \in Requests : r = sent[k + 1]
    BY <1>2, <1>4
  <1>9. /\ r \in Seq(Token) /\ 1 \in 1 .. Len(r) /\ r[1] # "tight" /\ r[1] \in Token
    BY <1>0, <1>4, <1>8, RequestsAre DEF RequestLine, Token
  <1>10. parsed' \in Seq(Token) /\ Len(parsed') = 1 /\ parsed'[1] = r[1]
    BY <1>4, <1>5, <1>8, <1>9
  <1>11. TypeOK' /\ AnswersMatch' /\ CloseIsLast' /\ ShutAtEnd'
    BY <1>0, <1>5, <1>7, <1>10 DEF TypeOK, AnswersMatch, CloseIsLast, ShutAtEnd
  <1>12. AtHeaders(stream, off)'
    <2>1. k < Len(sent) /\ off[k] + 2 = off[k] + 2 * 1
      BY <1>4
    <2>2. PartOf(r)'
      BY <1>9, <1>10 DEF PartOf
    <2> QED
      BY <1>3, <1>4, <1>5, <1>7, <1>8, <1>10, <2>1, <2>2 DEF AtHeaders
  <1>13. InStream(stream, off)'
    BY <1>2, <1>5, <1>7, <1>12 DEF InStream, AtPlace
  <1> QED
    BY <1>0, <1>5, <1>11, <1>13 DEF HttpInv, CrashesExplained

LEMMA AssertKeeps ==
  ASSUME HttpInv, StatusAssert
  PROVE  HttpInv'
  <1>0. /\ TypeOK /\ AnswersMatch /\ CloseIsLast /\ crashed = "no"
        /\ InParser /\ HasCRLF /\ current_state = "REQUEST_STATUS" /\ FirstLine \notin RequestLine
    BY DEF HttpInv, StatusAssert, InParser
  <1>1. PICK stream, off : InStream(stream, off)
    BY <1>0 DEF HttpInv
  <1>2. Len(answered) > 0 /\ Tight(sent[Len(answered)])
    <2>1. Len(answered) \in Nat
      BY <1>0 DEF TypeOK
    <2> QED
      BY <1>0, <1>1, <2>1, AtFirstLine
  <1>3. /\ crashed' = "assert"
        /\ UNCHANGED <<sent, wire, input, current_state, parsed, thread, answered, shut, closed>>
    BY DEF StatusAssert
  <1>4. TypeOK' /\ AnswersMatch' /\ CloseIsLast' /\ ShutAtEnd'
    BY <1>0, <1>3 DEF TypeOK, AnswersMatch, CloseIsLast, ShutAtEnd
  <1>5. CrashesExplained'
    BY <1>2, <1>3 DEF CrashesExplained
  <1> QED
    BY <1>3, <1>4, <1>5 DEF HttpInv

(* While headers are parsed, the next line of the request or the CRLF      *)
(* behind its last one is at the head of the buffer.                       *)
LEMMA AtNextLine ==
  ASSUME HttpInv, InParser, HasCRLF, current_state = "REQUEST_HEADERS",
         NEW stream, NEW off, InStream(stream, off),
         NEW k \in Nat, k = Len(answered), NEW m \in Nat, m = Len(parsed)
  PROVE  /\ k \in 0 .. Len(sent) - 1 /\ m \in 1 .. Len(sent[k + 1])
         /\ PartOf(sent[k + 1]) /\ Position(stream) = off[k] + 2 * m /\ off[k] \in Nat
         /\ Position(stream) < Len(stream) /\ Len(stream) \in Nat
         /\ input[1] = stream[Position(stream) + 1]
         /\ \/ /\ m < Len(sent[k + 1]) /\ input[1] = sent[k + 1][m + 1]
               /\ input[1] \in Header
            \/ /\ m = Len(sent[k + 1]) /\ input[1] = "crlf"
               /\ off[k + 1] = Position(stream) + 1
  <1>1. /\ TypeOK /\ Layout(sent, stream, off) /\ Unread(stream) /\ AtHeaders(stream, off)
        /\ stream \in Seq(Token) /\ sent \in Seq(Requests)
    BY DEF HttpInv, InStream, AtPlace, Layout, TypeOK
  <1>2. /\ Position(stream) \in Nat /\ Position(stream) < Len(stream) /\ Len(stream) \in Nat
        /\ input[1] = stream[Position(stream) + 1]
    BY <1>1, AtHead
  <1>3. /\ k \in 0 .. Len(sent) - 1 /\ PartOf(sent[k + 1]) /\ Position(stream) = off[k] + 2 * m
    BY <1>1 DEF AtHeaders, TypeOK
  <1>4. PICK r \in Requests : r = sent[k + 1]
    BY <1>1, <1>3
  <1>5. m \in 1 .. Len(r) /\ Len(r) \in Nat
    BY <1>3, <1>4, RequestsAre DEF PartOf
  <1>6. /\ off[k] \in Nat /\ off[k + 1] = off[k] + 2 * Len(r) + 1
        /\ \A i \in 1 .. Len(r) : stream[off[k] + 2 * i - 1] = r[i]
        /\ stream[off[k + 1]] = "crlf"
    <2>1. sent \in Seq(Requests) /\ Layout(sent, stream, off) /\ k \in 0 .. Len(sent) - 1
      BY <1>1, <1>3
    <2>2. BlockAt(sent, stream, off, k)
      BY <2>1, Block
    <2>3. /\ off[k] \in Nat /\ off[k + 1] = off[k] + 2 * Len(sent[k + 1]) + 1
          /\ \A i \in 1 .. Len(sent[k + 1]) : stream[off[k] + 2 * i - 1] = sent[k + 1][i]
          /\ stream[off[k + 1]] = "crlf"
      BY <2>2 DEF BlockAt
    <2> QED
      BY <1>4, <2>3
  <1>7. CASE m < Len(r)
    <2>1. m + 1 \in 2 .. Len(r) /\ m + 1 \in 1 .. Len(r)
      BY <1>5, <1>7
    <2>2. stream[off[k] + 2 * (m + 1) - 1] = r[m + 1] /\ r[m + 1] \in Header
      BY <1>6, <2>1, RequestsAre
    <2>3. off[k] + 2 * (m + 1) - 1 = Position(stream) + 1
      BY <1>3, <1>6
    <2> QED
      BY <1>2, <1>3, <1>4, <1>5, <1>6, <1>7, <2>2, <2>3
  <1>8. CASE m = Len(r)
    <2>1. off[k + 1] = Position(stream) + 1
      BY <1>3, <1>6, <1>8
    <2> QED
      BY <1>2, <1>3, <1>4, <1>5, <1>6, <1>8, <2>1
  <1> QED
    BY <1>5, <1>7, <1>8

LEMMA HeaderKeeps ==
  ASSUME HttpInv, ParseHeader
  PROVE  HttpInv'
  <1>0. /\ TypeOK /\ AnswersMatch /\ CloseIsLast /\ ShutAtEnd /\ crashed = "no"
        /\ InParser /\ HasCRLF /\ current_state = "REQUEST_HEADERS"
        /\ FirstLine \in {"close", "keep", "plain"}
    BY DEF HttpInv, ParseHeader, InParser, HasColon
  <1>1. PICK stream, off : InStream(stream, off)
    BY <1>0 DEF HttpInv
  <1>2. /\ Layout(sent, stream, off) /\ Unread(stream) /\ stream \in Seq(Token)
        /\ sent \in Seq(Requests)
    BY <1>0, <1>1 DEF InStream, Layout, TypeOK
  <1>3. PICK k \in Nat, m \in Nat : k = Len(answered) /\ m = Len(parsed)
    BY <1>0 DEF TypeOK
  <1>4. input[1] # "crlf" /\ FirstLine = input[1]
    BY <1>0 DEF FirstLine
  <1>5. /\ k \in 0 .. Len(sent) - 1 /\ PartOf(sent[k + 1])
        /\ Position(stream) = off[k] + 2 * m /\ off[k] \in Nat
        /\ m + 1 \in 1 .. Len(sent[k + 1]) /\ input[1] = sent[k + 1][m + 1]
    <2>1. /\ k \in 0 .. Len(sent) - 1 /\ m \in 1 .. Len(sent[k + 1]) /\ PartOf(sent[k + 1])
          /\ Position(stream) = off[k] + 2 * m /\ off[k] \in Nat
          /\ m < Len(sent[k + 1]) /\ input[1] = sent[k + 1][m + 1]
      BY <1>0, <1>1, <1>3, <1>4, AtNextLine
    <2>2. Len(sent[k + 1]) \in Nat
      BY <1>2, <2>1, RequestsAre
    <2> QED
      BY <2>1, <2>2
  <1>6. /\ parsed' = Append(parsed, input[1]) /\ input' = SubSeq(input, 3, Len(input))
        /\ UNCHANGED <<sent, wire, current_state, thread, answered, shut, closed, crashed>>
    BY <1>4 DEF ParseHeader, TakeLine
  <1>7. 2 \in 1 .. Len(input)
    BY <1>0, <1>4, Room
  <1>8. input' \in Seq(Token) /\ Unread(stream)' /\ Position(stream)' = Position(stream) + 2
    BY <1>0, <1>2, <1>6, <1>7, Taken
  <1>9. input[1] \in Token /\ input[1] # "tight"
    BY <1>0, <1>4 DEF Token, Header
  <1>10. /\ parsed' \in Seq(Token) /\ Len(parsed') = m + 1 /\ parsed'[m + 1] = input[1]
         /\ \A i \in 1 .. m : parsed'[i] = parsed[i]
    BY <1>0, <1>3, <1>6, <1>9 DEF TypeOK
  <1>11. TypeOK' /\ AnswersMatch' /\ CloseIsLast' /\ ShutAtEnd'
    BY <1>0, <1>6, <1>8, <1>10 DEF TypeOK, AnswersMatch, CloseIsLast, ShutAtEnd
  <1>12. PartOf(sent[k + 1])'
    <2>1. \A i \in 1 .. m : parsed[i] = sent[k + 1][i] /\ sent[k + 1][i] # "tight"
      BY <1>3, <1>5 DEF PartOf
    <2>2. \A i \in 1 .. m + 1 : i \in 1 .. m \/ i = m + 1
      OBVIOUS
    <2>3. \A i \in 1 .. m + 1 : parsed'[i] = sent[k + 1][i] /\ sent[k + 1][i] # "tight"
      BY <1>5, <1>9, <1>10, <2>1, <2>2
    <2>4. sent'[k + 1] = sent[k + 1]
      BY <1>6
    <2> QED
      BY <1>5, <1>10, <2>3, <2>4 DEF PartOf
  <1>13. AtHeaders(stream, off)'
    <2>1. k < Len(sent) /\ off[k] + 2 * m + 2 = off[k] + 2 * (m + 1)
      BY <1>5
    <2> QED
      BY <1>3, <1>5, <1>6, <1>8, <1>10, <1>12, <2>1 DEF AtHeaders
  <1>14. InStream(stream, off)'
    BY <1>0, <1>2, <1>6, <1>8, <1>13 DEF InStream, AtPlace
  <1> QED
    BY <1>0, <1>6, <1>11, <1>14 DEF HttpInv, CrashesExplained

LEMMA EndKeeps ==
  ASSUME HttpInv, ParseEnd
  PROVE  HttpInv'
  <1>0. /\ TypeOK /\ AnswersMatch /\ CloseIsLast /\ ShutAtEnd /\ crashed = "no" /\ thread = "message"
        /\ InParser /\ HasCRLF /\ current_state = "REQUEST_HEADERS"
        /\ FirstLine \notin {"close", "keep", "plain"}
    BY DEF HttpInv, ParseEnd, InParser, HasColon
  <1>1. PICK stream, off : InStream(stream, off)
    BY <1>0 DEF HttpInv
  <1>2. /\ Layout(sent, stream, off) /\ Unread(stream) /\ stream \in Seq(Token)
        /\ sent \in Seq(Requests)
    BY <1>0, <1>1 DEF InStream, Layout, TypeOK
  <1>3. PICK k \in Nat, m \in Nat : k = Len(answered) /\ m = Len(parsed)
    BY <1>0 DEF TypeOK
  <1>4. /\ k \in 0 .. Len(sent) - 1 /\ PartOf(sent[k + 1]) /\ Position(stream) < Len(stream)
        /\ input[1] = stream[Position(stream) + 1]
        /\ \/ /\ m < Len(sent[k + 1]) /\ input[1] = sent[k + 1][m + 1]
              /\ input[1] \in Header
           \/ /\ m = Len(sent[k + 1]) /\ input[1] = "crlf"
              /\ off[k + 1] = Position(stream) + 1
    BY <1>0, <1>1, <1>3, AtNextLine
  <1>5. /\ current_state' = "REQUEST_DONE"
        /\ UNCHANGED <<sent, wire, parsed, thread, answered, shut, closed, crashed>>
    BY DEF ParseEnd
  <1>6. k < Len(sent) /\ PartOf(sent[k + 1])'
    BY <1>4, <1>5 DEF PartOf
  <1>7. input' \in Seq(Token) /\ Unread(stream)' /\ AtDone(stream, off)'
    <2>1. CASE input[1] = "crlf"
      <3>1. input' = Tail(input)
        BY <2>1 DEF ParseEnd, FirstLine
      <3>2. m = Len(sent[k + 1]) /\ off[k + 1] = Position(stream) + 1
        BY <1>4, <2>1 DEF Header
      <3>3. input \in Seq(Token) /\ Len(input) \in Nat \ {0}
        BY <1>0, <1>2, AtHead DEF TypeOK
      <3>4. input' = SubSeq(input, 1 + 1, Len(input)) /\ 1 \in 1 .. Len(input)
        BY <3>1, <3>3
      <3>5. input' \in Seq(Token) /\ Unread(stream)' /\ Position(stream)' = Position(stream) + 1
        BY <1>0, <1>2, <1>5, <3>4, Taken
      <3> QED
        BY <1>3, <1>5, <1>6, <3>2, <3>5 DEF AtDone
    <2>2. CASE input[1] # "crlf"
      <3>1. FirstLine = input[1] /\ input[1] \in Header
        BY <1>4, <2>2 DEF FirstLine
      <3>2. input[1] = "tight" /\ m < Len(sent[k + 1]) /\ input[1] = sent[k + 1][m + 1]
        BY <1>0, <1>4, <2>2, <3>1 DEF Header
      <3>3. input' = input
        BY <3>1, <3>2 DEF ParseEnd
      <3>4. Position(stream)' = Position(stream) /\ Unread(stream)'
        BY <1>2, <1>5, <3>3 DEF Position, Unread
      <3>5. AtTight(stream)'
        BY <1>4, <3>2, <3>4 DEF AtTight
      <3>6. AtDone(stream, off)'
        BY <1>3, <1>5, <1>6, <3>2, <3>5 DEF AtDone
      <3> QED
        BY <1>0, <3>3, <3>4, <3>6 DEF TypeOK
    <2> QED
      BY <2>1, <2>2
  <1>8. TypeOK' /\ AnswersMatch' /\ CloseIsLast' /\ ShutAtEnd'
    BY <1>0, <1>5, <1>7 DEF TypeOK, AnswersMatch, CloseIsLast, ShutAtEnd
  <1>9. InStream(stream, off)'
    BY <1>0, <1>2, <1>5, <1>7 DEF InStream, AtPlace
  <1> QED
    BY <1>0, <1>5, <1>8, <1>9 DEF HttpInv, CrashesExplained

(* A request that is answered: its lines, and what shut and the stream say. *)
LEMMA RespondKeeps ==
  ASSUME HttpInv, Respond
  PROVE  HttpInv'
  <1>0. /\ TypeOK /\ AnswersMatch /\ CloseIsLast /\ ShutAtEnd /\ crashed = "no"
        /\ current_state = "REQUEST_DONE"
    BY DEF HttpInv, Respond
  <1>1. PICK stream, off : InStream(stream, off)
    BY <1>0 DEF HttpInv
  <1>2. /\ Layout(sent, stream, off) /\ Unread(stream) /\ AtDone(stream, off)
        /\ sent \in Seq(Requests)
    BY <1>0, <1>1 DEF InStream, AtPlace, TypeOK
  <1>3. PICK k \in Nat, m \in Nat : k = Len(answered) /\ m = Len(parsed)
    BY <1>0 DEF TypeOK
  <1>4. k \in 0 .. Len(sent) - 1 /\ k + 1 \in 1 .. Len(sent)
    BY <1>2, <1>3 DEF AtDone, TypeOK
  <1>5. PICK r \in Requests : r = sent[k + 1]
    BY <1>2, <1>4
  <1>6. /\ PartOf(r)
        /\ \/ m = Len(r) /\ Position(stream) = off[k + 1]
           \/ m < Len(r) /\ r[m + 1] = "tight" /\ AtTight(stream)
    BY <1>2, <1>3, <1>5 DEF AtDone
  <1>7. r \in Seq(Token) /\ Len(r) \in Nat /\ parsed \in Seq(Token)
    BY <1>0, RequestsAre DEF TypeOK
  <1>8. \A line : line \in Lines(parsed) => line \in Lines(r)
    BY <1>6, <1>7 DEF PartOf, Lines
  <1>9. ~shut
    <2> SUFFICES ASSUME shut PROVE FALSE
      OBVIOUS
    <2>1. PICK i \in 1 .. k : "close" \in Lines(sent[i])
      BY <1>0, <1>3 DEF ShutAtEnd
    <2>2. i \in 1 .. Len(sent) /\ i # Len(sent)
      BY <1>4
    <2> QED
      BY <1>0, <2>1, <2>2 DEF CloseIsLast
  <1>10. PICK fault \in SendFault :
           /\ answered' = (IF fault = "no" THEN Append(answered, parsed) ELSE answered)
           /\ crashed' = AfterRespond(fault)
    BY DEF Respond
  <1>11. \/ fault = "no"
         \/ fault \in {"sigpipe", "update"} /\ (closed = "client" \/ (fault = "update" /\ PartialWrites))
    BY <1>9, <1>10 DEF SendFault
  <1>12. /\ parsed' = <<>> /\ current_state' = "REQUEST_STATUS"
         /\ shut' = (shut \/ WantsClose) /\ thread' = "idle"
         /\ UNCHANGED <<sent, wire, input, closed>>
    BY DEF Respond, HttpRequestReset
  <1>13. shut' = WantsClose /\ WantsClose \in BOOLEAN
    BY <1>9, <1>12 DEF WantsClose
  <1>14. CASE fault # "no"
    <2>1. answered' = answered /\ crashed' = fault
      BY <1>10, <1>14 DEF AfterRespond
    <2>2. TypeOK'
      BY <1>0, <1>11, <1>12, <1>13, <1>14, <2>1 DEF TypeOK
    <2>3. AnswersMatch' /\ CloseIsLast' /\ ShutAtEnd'
      BY <1>0, <1>12, <1>14, <2>1 DEF AnswersMatch, CloseIsLast, ShutAtEnd
    <2>4. CrashesExplained'
      BY <1>3, <1>4, <1>11, <1>12, <1>14, <2>1 DEF CrashesExplained
    <2> QED
      BY <1>14, <2>1, <2>2, <2>3, <2>4 DEF HttpInv
  <1>15. CASE fault = "no"
    <2>1. /\ answered' = Append(answered, parsed)
          /\ crashed' = IF ~WantsClose /\ BareHttp10 THEN "null" ELSE "no"
      BY <1>10, <1>15 DEF AfterRespond
    <2>2. /\ answered' \in Seq(Seq(Token)) /\ Len(answered') = k + 1 /\ answered'[k + 1] = parsed
          /\ \A i \in 1 .. k : answered'[i] = answered[i]
      BY <1>0, <1>3, <1>7, <2>1 DEF TypeOK
    <2>3. TypeOK'
      BY <1>0, <1>12, <1>13, <2>1, <2>2 DEF TypeOK
    <2>4. BeforeTight(r) = parsed
      BY <1>3, <1>6, <1>7, Stops DEF PartOf
    <2>5. \A i \in 1 .. k + 1 : i = k + 1 \/ i \in 1 .. k
      OBVIOUS
    <2>6. AnswersMatch'
      <3>1. \A i \in 1 .. k : answered[i] = BeforeTight(sent[i])
        BY <1>0, <1>3 DEF AnswersMatch
      <3>2. \A i \in 1 .. k + 1 : answered'[i] = BeforeTight(sent[i])
        BY <1>5, <2>2, <2>4, <2>5, <3>1
      <3> QED
        BY <1>4, <1>12, <2>2, <3>2 DEF AnswersMatch
    <2>7. CloseIsLast'
      BY <1>0, <1>12 DEF CloseIsLast
    <2>8. ShutAtEnd'
      <3>1. WantsClose => "close" \in Lines(sent[k + 1]) /\ k + 1 \in 1 .. Len(answered')
        <4>1. WantsClose => "close" \in Lines(parsed)
          BY ONLY <1>7 DEF WantsClose, Lines
        <4> QED
          BY <1>5, <1>8, <2>2, <4>1
      <3> QED
        BY <1>12, <1>13, <3>1 DEF ShutAtEnd
    <2>9. AtStatus(stream, off)'
      <3>1. Position(stream)' = Position(stream) /\ (AtTight(stream) => AtTight(stream)')
        BY <1>12 DEF Position, AtTight
      <3>2. m < Len(r) /\ r[m + 1] = "tight" => Tight(r)
        BY <1>7 DEF Tight, Lines
      <3> QED
        BY <1>5, <1>6, <1>12, <2>2, <3>1, <3>2 DEF AtStatus
    <2>10. InStream(stream, off)'
      BY <1>2, <1>12, <2>9 DEF InStream, AtPlace, Unread, Position
    <2>11. CrashesExplained'
      <3>1. crashed' # "no" => crashed' = "null" /\ BareHttp10
        BY <2>1
      <3>2. BareHttp10 => /\ "http10" \in Lines(sent[k + 1])
                          /\ {"close", "keep"} \cap Lines(parsed) = {}
        BY <1>5, <1>8 DEF BareHttp10
      <3>3. sent'[Len(answered')] = sent[k + 1] /\ answered'[Len(answered')] = parsed
        BY <1>12, <2>2
      <3> QED
        BY <3>1, <3>2, <3>3 DEF CrashesExplained
    <2> QED
      BY <2>3, <2>6, <2>7, <2>8, <2>10, <2>11 DEF HttpInv
  <1> QED
    BY <1>11, <1>14, <1>15

LEMMA HttpBegins == Init => HttpInv
  <1> SUFFICES ASSUME Init PROVE HttpInv
    OBVIOUS
  <1>1. /\ sent = <<>> /\ wire = <<>> /\ input = <<>> /\ parsed = <<>> /\ answered = <<>>
        /\ current_state = "REQUEST_STATUS" /\ crashed = "no" /\ shut = FALSE
        /\ thread = "idle" /\ closed = "no"
    BY DEF Init
  <1>2. TypeOK
    <2>1. /\ Len(<<>>) = 0 /\ MaxRequests \in Nat /\ <<>> \in Seq(Token) /\ <<>> \in Seq(Requests)
          /\ <<>> \in Seq(Seq(Token))
      BY SwitchesAssumption
    <2>2. sent \in Seq(Requests) /\ Len(sent) <= MaxRequests
      BY <1>1, <2>1
    <2> QED
      BY <1>1, <2>1, <2>2 DEF TypeOK
  <1>3. AnswersMatch /\ CloseIsLast /\ ShutAtEnd /\ CrashesExplained
    BY <1>1 DEF AnswersMatch, CloseIsLast, ShutAtEnd, CrashesExplained
  <1>4. PICK off : off = [n \in {0} |-> 0]
    OBVIOUS
  <1>5. Layout(<<>>, <<>>, off)
    <2>1. off \in [0 .. 0 -> Nat] /\ off[0] = 0
      BY <1>4
    <2>2. Len(<<>>) = 0 /\ <<>> \in Seq(Token)
      OBVIOUS
    <2> QED
      BY <2>1, <2>2 DEF Layout
  <1>6. Unread(<<>>) /\ AtPlace(<<>>, off)
    BY <1>1, <1>4 DEF Unread, Position, AtPlace, AtStatus
  <1>7. InStream(<<>>, off)
    BY <1>1, <1>5, <1>6 DEF InStream
  <1> QED
    BY <1>2, <1>3, <1>7 DEF HttpInv

LEMMA HttpKeeps == HttpInv /\ [Next]_vars => HttpInv'
  BY SendKeeps, CloseKeeps, ReadKeeps, StatusKeeps, AssertKeeps, HeaderKeeps, EndKeeps, RespondKeeps
     DEF Next, Client, HandleRead, Message, Parse

LEMMA HttpInvariance == Spec => []HttpInv
  BY HttpBegins, HttpKeeps, PTL DEF Spec

(* The variables keep their types and no more requests are sent than the   *)
(* bound.                                                                  *)
THEOREM Typing == Spec => []TypeOK
  <1>1. HttpInv => TypeOK
    BY DEF HttpInv
  <1> QED
    BY <1>1, HttpInvariance, PTL

(* The n-th answer is made from the lines of the n-th request, up to the   *)
(* first header without ": ", for any requests and any way the stream is   *)
(* cut into reads.                                                         *)
THEOREM AnswersBelong == Spec => []AnswersMatch
  <1>1. HttpInv => AnswersMatch
    BY DEF HttpInv
  <1> QED
    BY <1>1, HttpInvariance, PTL

(* Well-formed requests end the process in three ways only: the NULL value *)
(* of a missing Connection header is compared, the rest of a request with  *)
(* a header without ": " is parsed as a request line, or an answer is not  *)
(* taken whole or meets the client's end of the connection.                *)
THEOREM CrashCauses == Spec => []CrashesExplained
  <1>1. HttpInv => CrashesExplained
    BY DEF HttpInv
  <1> QED
    BY <1>1, HttpInvariance, PTL

-----------------------------------------------------------------------------
(* The bytes of several requests.                                          *)

EncodeRound(rs, f, n) == IF n = 0 THEN <<>> ELSE f[n - 1] \o Encode(rs[n])

EncodeRounds(rs, f) == f = [n \in 0 .. Len(rs) |-> EncodeRound(rs, f, n)]

(* Induction over the naturals, for sets: the least element that is        *)
(* missing would follow one that is not.                                   *)
LEMMA Least ==
  ASSUME NEW S \in SUBSET Nat, S # {}
  PROVE  \E n \in S : \A m \in S : n <= m
  <1> DEFINE R == {ss \in Nat \X Nat : ss[1] < ss[2]}
  <1>1. IsWellFoundedOn(R, Nat)
    BY NatLessThanWellFounded DEF OpToRel
  <1>2. \A m, n \in Nat : m < n => <<m, n>> \in R
    OBVIOUS
  <1>0. S \subseteq Nat
    OBVIOUS
  <1> HIDE DEF R
  <1>3. PICK x \in S : \A y \in S : ~(<<y, x>> \in R)
    BY <1>0, <1>1, WFMin, Zenon
  <1>4. \A y \in S : x <= y
    <2> SUFFICES ASSUME NEW y \in S, y < x PROVE FALSE
      OBVIOUS
    <2> QED
      BY <1>0, <1>2, <1>3, Zenon
  <1> QED
    BY <1>4

LEMMA Induction ==
  ASSUME NEW S \in SUBSET Nat, 0 \in S, \A n \in S : n + 1 \in S
  PROVE  S = Nat
  <1> SUFFICES ASSUME Nat \ S # {} PROVE FALSE
    OBVIOUS
  <1>1. PICK n \in Nat \ S : \A m \in Nat \ S : n <= m
    BY Least
  <1>2. n # 0 /\ n - 1 \in Nat
    BY <1>1
  <1>3. n - 1 \in S
    BY <1>1, <1>2
  <1> QED
    BY <1>1, <1>2, <1>3

(* There is a function that satisfies the recursive equation.              *)
LEMMA EncodeExists ==
  ASSUME NEW rs, Len(rs) \in Nat
  PROVE  \E f : EncodeRounds(rs, f)
  <1> DEFINE Upto(f, k) == DOMAIN f = 0 .. k /\ \A n \in 0 .. k : f[n] = EncodeRound(rs, f, n)
             G == {k \in Nat : \E f : Upto(f, k)}
  <1>1. 0 \in G
    <2>1. Upto([n \in 0 .. 0 |-> <<>>], 0)
      BY DEF EncodeRound
    <2> QED
      BY <2>1
  <1>2. ASSUME NEW k \in G PROVE k + 1 \in G
    <2>1. PICK f : Upto(f, k)
      OBVIOUS
    <2> DEFINE g == [n \in 0 .. k + 1 |-> IF n = k + 1 THEN EncodeRound(rs, f, n) ELSE f[n]]
    <2>2. \A n \in 0 .. k : g[n] = f[n] /\ n - 1 <= k
      OBVIOUS
    <2>3. g[k + 1] = EncodeRound(rs, f, k + 1)
      OBVIOUS
    <2>4. DOMAIN g = 0 .. k + 1
      OBVIOUS
    <2> HIDE DEF g
    <2>5. \A n \in 0 .. k + 1 : EncodeRound(rs, g, n) = EncodeRound(rs, f, n)
      BY <2>2 DEF EncodeRound
    <2>6. Upto(g, k + 1)
      BY <2>1, <2>2, <2>3, <2>4, <2>5
    <2> QED
      BY <2>6
  <1>3. Len(rs) \in G
    <2>1. G \in SUBSET Nat
      OBVIOUS
    <2> HIDE DEF G
    <2>2. G = Nat
      BY <1>1, <1>2, <2>1, Induction
    <2> QED
      BY <2>2
  <1>4. PICK f : Upto(f, Len(rs))
    BY <1>3
  <1>5. f = [n \in 0 .. Len(rs) |-> f[n]]
    BY <1>4
  <1>6. EncodeRounds(rs, f)
    BY <1>4 DEF EncodeRounds, EncodeRound
  <1> QED
    BY <1>6

(* EncodeAll is its last value, and unfolds step by step.                  *)
LEMMA EncodeIsLast ==
  ASSUME NEW rs, NEW N \in Nat, N = Len(rs)
  PROVE  \E f : /\ f[0] = <<>> /\ EncodeAll(rs) = f[N]
               /\ \A n \in 1 .. N : f[n] = f[n - 1] \o Encode(rs[n])
  <1> DEFINE R(f) == [n \in 0 .. Len(rs) |-> IF n = 0 THEN <<>> ELSE f[n - 1] \o Encode(rs[n])]
             all == CHOOSE f : f = R(f)
  <1>1. \E f : f = R(f)
    BY EncodeExists DEF EncodeRounds, EncodeRound
  <1>2. all = R(all)
    <2> HIDE DEF R
    <2> QED
      BY <1>1, Zenon
  <1>3. EncodeAll(rs) = all[Len(rs)]
    BY DEF EncodeAll
  <1> HIDE DEF all
  <1>4. \A n \in 0 .. N : all[n] = IF n = 0 THEN <<>> ELSE all[n - 1] \o Encode(rs[n])
    <2> SUFFICES ASSUME NEW n \in 0 .. N
                 PROVE  all[n] = IF n = 0 THEN <<>> ELSE all[n - 1] \o Encode(rs[n])
      OBVIOUS
    <2>1. R(all)[n] = IF n = 0 THEN <<>> ELSE all[n - 1] \o Encode(rs[n])
      OBVIOUS
    <2> HIDE DEF R
    <2> QED
      BY <1>2, <2>1
  <1> HIDE DEF R
  <1>5. all[0] = <<>>
    <2>1. 0 \in 0 .. N
      OBVIOUS
    <2> QED
      BY <1>4, <2>1, Zenon
  <1>6. \A n \in 1 .. N : all[n] = all[n - 1] \o Encode(rs[n])
    <2>1. \A n \in 1 .. N : n \in 0 .. N /\ n # 0
      OBVIOUS
    <2> QED
      BY <1>4, <2>1, Zenon
  <1> QED
    BY <1>3, <1>5, <1>6

LEMMA EncodedTogether ==
  ASSUME NEW rs \in Seq(Seq(Token))
  PROVE  EncodeAll(rs) \in Seq(Token)
  <1>1. PICK N \in Nat : N = Len(rs)
    OBVIOUS
  <1>2. PICK f : /\ f[0] = <<>> /\ EncodeAll(rs) = f[N]
                 /\ \A n \in 1 .. N : f[n] = f[n - 1] \o Encode(rs[n])
    BY <1>1, EncodeIsLast
  <1> DEFINE G == {n \in Nat : n <= N => f[n] \in Seq(Token)}
  <1>3. 0 \in G
    <2>1. f[0] \in Seq(Token)
      BY <1>2
    <2> QED
      BY <2>1
  <1>4. ASSUME NEW n \in G PROVE n + 1 \in G
    <2> SUFFICES ASSUME n + 1 <= N PROVE f[n + 1] \in Seq(Token)
      OBVIOUS
    <2>1. n + 1 \in 1 .. N /\ (n + 1) - 1 = n /\ f[n] \in Seq(Token)
      BY <1>1
    <2>2. f[n + 1] = f[n] \o Encode(rs[n + 1])
      BY <1>2, <2>1
    <2>3. rs[n + 1] \in Seq(Token)
      BY <1>1, <2>1
    <2>4. Encode(rs[n + 1]) \in Seq(Token)
      BY <2>3, Encoded
    <2> QED
      BY <2>1, <2>2, <2>4
  <1>5. G \in SUBSET Nat
    OBVIOUS
  <1> HIDE DEF G
  <1>6. G = Nat
    BY <1>3, <1>4, <1>5, Induction
  <1> QED
    BY <1>1, <1>2, <1>6 DEF G

(* One request more adds its bytes at the end.                             *)
LEMMA EncodeOneMore ==
  ASSUME NEW rs \in Seq(Seq(Token)), NEW r \in Seq(Token)
  PROVE  EncodeAll(Append(rs, r)) = EncodeAll(rs) \o Encode(r)
  <1> DEFINE N == Len(rs)
             new == Append(rs, r)
  <1>1. N \in Nat /\ Len(new) = N + 1 /\ new[N + 1] = r /\ \A n \in 1 .. N : new[n] = rs[n]
    OBVIOUS
  <1> HIDE DEF new
  <1>2. PICK f : /\ f[0] = <<>> /\ EncodeAll(rs) = f[N]
                 /\ \A n \in 1 .. N : f[n] = f[n - 1] \o Encode(rs[n])
    BY <1>1, EncodeIsLast
  <1>3. PICK g : /\ g[0] = <<>> /\ EncodeAll(new) = g[N + 1]
                 /\ \A n \in 1 .. N + 1 : g[n] = g[n - 1] \o Encode(new[n])
    <2>1. N + 1 \in Nat
      BY <1>1
    <2> QED
      BY <1>1, <2>1, EncodeIsLast
  <1> DEFINE G == {n \in Nat : n <= N => g[n] = f[n]}
  <1>5. 0 \in G
    BY <1>2, <1>3
  <1>6. ASSUME NEW n \in G PROVE n + 1 \in G
    <2> SUFFICES ASSUME n + 1 <= N PROVE g[n + 1] = f[n + 1]
      OBVIOUS
    <2>1. n + 1 \in 1 .. N /\ n + 1 \in 1 .. N + 1 /\ (n + 1) - 1 = n /\ g[n] = f[n]
      BY <1>1
    <2> QED
      BY <1>1, <1>2, <1>3, <2>1
  <1>7. G \in SUBSET Nat
    OBVIOUS
  <1> HIDE DEF G
  <1>8. G = Nat
    BY <1>5, <1>6, <1>7, Induction
  <1>9. g[N] = f[N]
    BY <1>1, <1>8 DEF G
  <1>10. g[N + 1] = g[N] \o Encode(r)
    <2>1. N + 1 \in 1 .. N + 1 /\ (N + 1) - 1 = N
      BY <1>1
    <2> QED
      BY <1>1, <1>2, <1>3, <2>1
  <1> QED
    BY <1>2, <1>3, <1>9, <1>10 DEF new

-----------------------------------------------------------------------------
(* No byte is lost or taken twice.                                         *)

LEMMA Joins ==
  ASSUME NEW X, NEW s \in Seq(X), NEW t \in Seq(X)
  PROVE  s \o t \in Seq(X)
  OBVIOUS

LEMMA Assoc ==
  ASSUME NEW r \in Seq(Token), NEW s \in Seq(Token), NEW t \in Seq(Token)
  PROVE  (r \o s) \o t = r \o (s \o t)
  OBVIOUS

LEMMA Empty ==
  ASSUME NEW X, NEW s \in Seq(X)
  PROVE  s \o <<>> = s /\ <<>> \o s = s
  OBVIOUS

LEMMA Halves ==
  ASSUME NEW X, NEW s \in Seq(X), NEW n \in 0 .. Len(s)
  PROVE  /\ SubSeq(s, 1, n) \in Seq(X) /\ SubSeq(s, n + 1, Len(s)) \in Seq(X)
         /\ s = SubSeq(s, 1, n) \o SubSeq(s, n + 1, Len(s))
  <1> DEFINE a == SubSeq(s, 1, n)
             b == SubSeq(s, n + 1, Len(s))
  <1>1. Len(s) \in Nat /\ n \in Nat /\ n <= Len(s)
    OBVIOUS
  <1>2. a \in Seq(X) /\ Len(a) = n /\ \A i \in 1 .. n : a[i] = s[i]
    OBVIOUS
  <1>3. b \in Seq(X) /\ Len(b) = Len(s) - n /\ \A i \in 1 .. Len(s) - n : b[i] = s[n + i]
    BY Dropped
  <1> HIDE DEF a, b
  <1>4. PICK c : c = a \o b
    OBVIOUS
  <1>5. /\ c \in Seq(X) /\ Len(c) = Len(a) + Len(b)
        /\ \A i \in 1 .. Len(a) : c[i] = a[i]
        /\ \A i \in 1 .. Len(b) : c[Len(a) + i] = b[i]
    BY <1>2, <1>3, <1>4, Joined
  <1>6. ASSUME NEW i \in 1 .. Len(s) PROVE c[i] = s[i]
    <2>1. CASE i <= n
      BY <1>1, <1>2, <1>5, <2>1
    <2>2. CASE i > n
      <3>1. i - n \in 1 .. Len(s) - n /\ n + (i - n) = i
        BY <1>1, <2>2
      <3>2. c[n + (i - n)] = b[i - n] /\ b[i - n] = s[n + (i - n)]
        BY <1>2, <1>3, <1>5, <3>1
      <3> QED
        BY <3>1, <3>2
    <2> QED
      BY <1>1, <2>1, <2>2
  <1>7. Len(c) = Len(s)
    BY <1>1, <1>2, <1>3, <1>5
  <1>8. c = s
    BY <1>5, <1>6, <1>7
  <1> QED
    BY <1>2, <1>3, <1>4, <1>8 DEF a, b

(* The bytes consumed grow by a line and its CRLF, and by the last CRLF.   *)
LEMMA LineTaken ==
  ASSUME NEW s \in Seq(Token), NEW text \in Token
  PROVE  SubSeq(Encode(Append(s, text)), 1, 2 * Len(Append(s, text)))
           = SubSeq(Encode(s), 1, 2 * Len(s)) \o <<text, "crlf">>
  <1>0. PICK n \in Nat : n = Len(s)
    OBVIOUS
  <1> DEFINE new == Append(s, text)
             line == <<text, "crlf">>
  <1>1. /\ n \in Nat /\ new \in Seq(Token) /\ Len(new) = n + 1 /\ new[n + 1] = text
        /\ \A i \in 1 .. n : new[i] = s[i]
    BY <1>0
  <1>2. PICK e \in Seq(Token), f \in Seq(Token) : e = Encode(s) /\ f = Encode(new)
    BY <1>1, Encoded
  <1> HIDE DEF new
  <1>3. /\ Len(e) = 2 * n + 1
        /\ \A i \in 1 .. n : e[2 * i - 1] = s[i] /\ e[2 * i] = "crlf"
    BY ONLY <1>0, <1>2, s \in Seq(Token), Encoded
  <1>4. /\ Len(f) = 2 * (n + 1) + 1
        /\ \A i \in 1 .. n + 1 : f[2 * i - 1] = new[i] /\ f[2 * i] = "crlf"
    <2>1. new \in Seq(Token) /\ Len(new) = n + 1
      BY ONLY <1>1
    <2> QED
      BY ONLY <1>2, <2>1, Encoded
  <1>5. "crlf" \in Token
    BY DEF Token
  <1>6. line \in Seq(Token) /\ Len(line) = 2 /\ line[1] = text /\ line[2] = "crlf"
    BY <1>5
  <1> HIDE DEF line
  <1> DEFINE left == SubSeq(f, 1, 2 * (n + 1))
             head == SubSeq(e, 1, 2 * n)
  <1>7. left \in Seq(Token) /\ Len(left) = 2 * n + 2 /\ \A j \in 1 .. 2 * n + 2 : left[j] = f[j]
    BY <1>1, <1>4
  <1>8. head \in Seq(Token) /\ Len(head) = 2 * n /\ \A j \in 1 .. 2 * n : head[j] = e[j]
    BY <1>1, <1>3
  <1> HIDE DEF left, head
  <1>9. PICK right : right = head \o line
    OBVIOUS
  <1>10. /\ right \in Seq(Token) /\ Len(right) = 2 * n + 2
         /\ \A j \in 1 .. 2 * n : right[j] = head[j]
         /\ \A j \in 1 .. 2 : right[2 * n + j] = line[j]
    <2>1. /\ head \o line \in Seq(Token) /\ Len(head \o line) = Len(head) + Len(line)
          /\ \A j \in 1 .. Len(head) : (head \o line)[j] = head[j]
          /\ \A j \in 1 .. Len(line) : (head \o line)[Len(head) + j] = line[j]
      <3>1. head \in Seq(Token) /\ line \in Seq(Token)
        BY <1>6, <1>8
      <3> QED
        BY <3>1, Joined
    <2> QED
      BY <1>1, <1>6, <1>8, <1>9, <2>1
  <1>11. ASSUME NEW j \in 1 .. 2 * n PROVE f[j] = e[j]
    <2>1. \E i \in 1 .. n : j = 2 * i - 1 \/ j = 2 * i
      <3>1. CASE j % 2 = 0
        <4>1. j = 2 * (j \div 2) /\ j \div 2 \in 1 .. n
          BY <1>1, <3>1
        <4> QED
          BY <4>1
      <3>2. CASE j % 2 = 1
        <4>1. PICK q \in Nat : q = j \div 2
          BY <1>1
        <4>2. j = 2 * q + 1
          BY <1>1, <3>2, <4>1
        <4>3. j = 2 * (q + 1) - 1 /\ q + 1 \in 1 .. n
          BY <4>2
        <4> QED
          BY <4>3
      <3> QED
        BY <1>1, <3>1, <3>2
    <2>2. PICK i \in 1 .. n : j = 2 * i - 1 \/ j = 2 * i
      BY <2>1
    <2>3. i \in 1 .. n + 1
      BY <1>1
    <2> QED
      BY <1>1, <1>3, <1>4, <2>2, <2>3
  <1>12. f[2 * n + 1] = text /\ f[2 * n + 2] = "crlf"
    <2>1. n + 1 \in 1 .. n + 1 /\ 2 * (n + 1) - 1 = 2 * n + 1 /\ 2 * (n + 1) = 2 * n + 2
      BY <1>1
    <2> QED
      BY <1>1, <1>4, <2>1
  <1>13. ASSUME NEW j \in 1 .. 2 * n + 2 PROVE left[j] = right[j]
    <2>1. CASE j \in 1 .. 2 * n
      BY <1>7, <1>8, <1>10, <1>11, <2>1
    <2>2. CASE j = 2 * n + 1
      <3>1. right[2 * n + 1] = line[1] /\ j \in 1 .. 2 * n + 2
        BY <1>10
      <3> QED
        BY <1>6, <1>7, <1>12, <2>2, <3>1
    <2>3. CASE j = 2 * n + 2
      <3>1. right[2 * n + 2] = line[2] /\ j \in 1 .. 2 * n + 2
        BY <1>10
      <3> QED
        BY <1>6, <1>7, <1>12, <2>3, <3>1
    <2>4. j \in 1 .. 2 * n \/ j = 2 * n + 1 \/ j = 2 * n + 2
      OBVIOUS
    <2> QED
      BY <2>1, <2>2, <2>3, <2>4
  <1>14. left = right
    BY <1>1, <1>7, <1>10, <1>13
  <1> QED
    BY <1>0, <1>1, <1>2, <1>9, <1>14 DEF left, head, new, line

LEMMA LastTaken ==
  ASSUME NEW s \in Seq(Token)
  PROVE  Encode(s) = SubSeq(Encode(s), 1, 2 * Len(s)) \o <<"crlf">>
  <1>1. PICK e \in Seq(Token) : e = Encode(s)
    BY Encoded
  <1>2. Len(s) \in Nat /\ Len(e) = 2 * Len(s) + 1 /\ e[2 * Len(s) + 1] = "crlf"
    BY <1>1, Encoded
  <1>3. PICK n \in Nat : n = 2 * Len(s)
    BY <1>2
  <1>4. n \in 0 .. Len(e) /\ Len(e) = n + 1
    BY <1>2, <1>3
  <1>5. e = SubSeq(e, 1, n) \o SubSeq(e, n + 1, Len(e))
    BY <1>4, Halves
  <1>6. SubSeq(e, n + 1, Len(e)) = <<"crlf">>
    <2>1. PICK d : d = SubSeq(e, n + 1, Len(e))
      OBVIOUS
    <2>2. d \in Seq(Token) /\ Len(d) = Len(e) - n /\ \A i \in 1 .. Len(e) - n : d[i] = e[n + i]
      BY <1>4, <2>1, Dropped
    <2>3. Len(d) = 1 /\ d[1] = "crlf"
      BY <1>2, <1>3, <1>4, <2>2
    <2>4. d = <<"crlf">>
      BY <2>2, <2>3
    <2> QED
      BY <2>1, <2>4
  <1> QED
    BY <1>1, <1>3, <1>5, <1>6

LEMMA NothingTaken == SubSeq(Encode(<<>>), 1, 2 * Len(<<>>)) = <<>>
  <1>1. <<>> \in Seq(Token) /\ Len(<<>>) = 0
    OBVIOUS
  <1>2. PICK e \in Seq(Token) : e = Encode(<<>>)
    BY <1>1, Encoded
  <1>3. SubSeq(e, 1, 0) = <<>>
    BY <1>2
  <1> QED
    BY <1>1, <1>2, <1>3

NoTight == \A i \in 1 .. Len(sent) : ~Tight(sent[i])

(* What the equation of StreamKept is made of.                             *)
LEMMA StreamParts ==
  ASSUME TypeOK
  PROVE  /\ EncodeAll(answered) \in Seq(Token) /\ Consumed \in Seq(Token)
         /\ input \in Seq(Token) /\ wire \in Seq(Token)
         /\ sent \in Seq(Seq(Token)) /\ EncodeAll(sent) \in Seq(Token)
  <1>1. /\ answered \in Seq(Seq(Token)) /\ parsed \in Seq(Token)
        /\ input \in Seq(Token) /\ wire \in Seq(Token) /\ sent \in Seq(Requests)
    BY DEF TypeOK
  <1>2. EncodeAll(answered) \in Seq(Token)
    BY <1>1, EncodedTogether
  <1>3. Consumed \in Seq(Token)
    <2>1. PICK e \in Seq(Token) : e = Encode(parsed) /\ Len(e) = 2 * Len(parsed) + 1
      BY <1>1, Encoded
    <2>2. PICK n \in Nat : n = 2 * Len(parsed)
      BY <1>1
    <2>3. n \in 0 .. Len(e)
      BY <2>1, <2>2
    <2>4. SubSeq(e, 1, n) \in Seq(Token)
      BY <2>3, Halves
    <2> QED
      BY <2>1, <2>2, <2>4 DEF Consumed
  <1>4. sent \in Seq(Seq(Token))
    <2>1. Requests \subseteq Seq(Token)
      BY RequestsAre
    <2> QED
      BY <1>1, <2>1
  <1>5. EncodeAll(sent) \in Seq(Token)
    BY <1>4, EncodedTogether
  <1> QED
    BY <1>1, <1>2, <1>3, <1>4, <1>5

(* A line moves from the buffer to what is consumed, both sides of it as   *)
(* before.                                                                 *)
LEMMA LineMoves ==
  ASSUME TypeOK, TypeOK', UNCHANGED <<wire, answered>>,
         NEW line \in Seq(Token), Consumed' = Consumed \o line, input = line \o input'
  PROVE  EncodeAll(answered)' \o Consumed' \o input' \o wire'
           = EncodeAll(answered) \o Consumed \o input \o wire
  <1>1. /\ EncodeAll(answered) \in Seq(Token) /\ Consumed \in Seq(Token) /\ wire \in Seq(Token)
    BY StreamParts
  <1>2. input' \in Seq(Token)
    BY DEF TypeOK
  <1>3. PICK a, c, i, w : a = EncodeAll(answered) /\ c = Consumed /\ i = input' /\ w = wire
    OBVIOUS
  <1>4. ((a \o c) \o (line \o i)) \o w = (a \o (c \o line) \o i) \o w
    <2>0. a \in Seq(Token) /\ c \in Seq(Token) /\ i \in Seq(Token)
      BY <1>1, <1>2, <1>3
    <2>1. (a \o c) \o (line \o i) = ((a \o c) \o line) \o i
      <3>1. PICK b : b = a \o c
        OBVIOUS
      <3>2. b \in Seq(Token)
        BY <2>0, <3>1, Joins
      <3>3. b \o (line \o i) = (b \o line) \o i
        BY <2>0, <3>2, Assoc
      <3> QED
        BY <3>1, <3>3
    <2>2. (a \o c) \o line = a \o (c \o line)
      BY <2>0, Assoc
    <2> QED
      BY <2>1, <2>2
  <1>5. EncodeAll(answered)' = a
    BY <1>3
  <1> QED
    BY <1>3, <1>4, <1>5

(* A line with its CRLF is at the head of the buffer and is taken off it.  *)
LineAtHead == 2 \in 1 .. Len(input) /\ input[1] \in Token /\ input[2] = "crlf"

LEMMA LineLeaves ==
  ASSUME TypeOK, TypeOK', StreamKept, UNCHANGED <<sent, wire, answered, crashed>>,
         LineAtHead, input' = SubSeq(input, 3, Len(input)),
         Consumed' = Consumed \o <<input[1], "crlf">>
  PROVE  StreamKept'
  <1>1. PICK line : line = <<input[1], "crlf">>
    OBVIOUS
  <1>2. line \in Seq(Token)
    BY <1>1 DEF LineAtHead, Token
  <1>3. input = line \o input'
    <2>1. input \in Seq(Token) /\ Len(input) \in Nat /\ 2 \in 0 .. Len(input)
      BY DEF TypeOK, LineAtHead
    <2>2. input = SubSeq(input, 1, 2) \o SubSeq(input, 2 + 1, Len(input))
      BY <2>1, Halves
    <2>3. SubSeq(input, 1, 2) = <<input[1], input[2]>>
      <3>1. PICK d : d = SubSeq(input, 1, 2)
        OBVIOUS
      <3>2. d \in Seq(Token) /\ Len(d) = 2 /\ d[1] = input[1] /\ d[2] = input[2]
        BY <2>1, <3>1
      <3>3. d = <<input[1], input[2]>>
        BY <3>2
      <3> QED
        BY <3>1, <3>3
    <2> QED
      BY <1>1, <2>2, <2>3 DEF LineAtHead
  <1>4. EncodeAll(answered)' \o Consumed' \o input' \o wire'
          = EncodeAll(answered) \o Consumed \o input \o wire
    BY <1>1, <1>2, <1>3, LineMoves
  <1> QED
    BY <1>4 DEF StreamKept

LEMMA StreamSend ==
  ASSUME HttpInv, StreamKept, NEW r \in Requests, Send(r)
  PROVE  StreamKept'
  <1>1. TypeOK /\ TypeOK' /\ crashed = "no"
    BY SendKeeps DEF HttpInv, Send
  <1>2. /\ sent' = Append(sent, r) /\ wire' = wire \o Encode(r)
        /\ UNCHANGED <<input, answered, parsed, current_state>>
    BY DEF Send
  <1> SUFFICES ASSUME NoTight'
               PROVE  EncodeAll(answered)' \o Consumed' \o input' \o wire' = EncodeAll(sent)'
    BY DEF StreamKept, NoTight
  <1>3. NoTight
    <2>1. \A i \in 1 .. Len(sent) : i \in 1 .. Len(sent') /\ sent'[i] = sent[i]
      BY <1>1, <1>2 DEF TypeOK
    <2> QED
      BY <2>1 DEF NoTight
  <1>4. EncodeAll(answered) \o Consumed \o input \o wire = EncodeAll(sent)
    BY <1>1, <1>3 DEF StreamKept, NoTight
  <1>5. /\ EncodeAll(answered) \in Seq(Token) /\ Consumed \in Seq(Token)
        /\ input \in Seq(Token) /\ wire \in Seq(Token) /\ sent \in Seq(Seq(Token))
    BY <1>1, StreamParts
  <1>6. PICK a, e : a = EncodeAll(answered) \o Consumed \o input /\ e = Encode(r)
    OBVIOUS
  <1>7. a \in Seq(Token) /\ r \in Seq(Token) /\ e \in Seq(Token)
    <2>1. EncodeAll(answered) \o Consumed \in Seq(Token)
      BY <1>5, Joins
    <2>2. a \in Seq(Token)
      BY <1>5, <1>6, <2>1, Joins
    <2>3. r \in Seq(Token)
      BY RequestsAre
    <2> QED
      BY <1>6, <2>2, <2>3, Encoded
  <1>8. (a \o wire) \o e = a \o (wire \o e)
    <2>1. a \in Seq(Token) /\ wire \in Seq(Token) /\ e \in Seq(Token)
      BY <1>5, <1>7
    <2> QED
      BY <2>1, Assoc
  <1>9. EncodeAll(sent)' = EncodeAll(sent) \o e
    <2>1. EncodeAll(Append(sent, r)) = EncodeAll(sent) \o Encode(r)
      BY <1>5, <1>7, EncodeOneMore
    <2> QED
      BY <1>2, <1>6, <2>1
  <1>10. EncodeAll(answered)' \o Consumed' \o input' = a
    BY <1>2, <1>6 DEF Consumed
  <1> QED
    BY <1>2, <1>4, <1>6, <1>8, <1>9, <1>10

LEMMA StreamRead ==
  ASSUME HttpInv, StreamKept, NEW n \in 1 .. Len(wire), Read(n)
  PROVE  StreamKept'
  <1>1. TypeOK /\ crashed = "no"
    BY DEF HttpInv, Read
  <1>2. PICK b, d : b = SubSeq(wire, 1, n) /\ d = SubSeq(wire, n + 1, Len(wire))
    OBVIOUS
  <1>3. input' = input \o b /\ wire' = d /\ UNCHANGED <<sent, answered, parsed, current_state, crashed>>
    BY <1>2 DEF Read
  <1>4. /\ EncodeAll(answered) \in Seq(Token) /\ Consumed \in Seq(Token)
        /\ input \in Seq(Token) /\ wire \in Seq(Token)
    BY <1>1, StreamParts
  <1>5. b \in Seq(Token) /\ d \in Seq(Token) /\ wire = b \o d
    <2>1. n \in 0 .. Len(wire)
      BY ONLY n \in 1 .. Len(wire), <1>4
    <2>2. wire \in Seq(Token)
      BY ONLY <1>4
    <2>3. /\ SubSeq(wire, 1, n) \in Seq(Token) /\ SubSeq(wire, n + 1, Len(wire)) \in Seq(Token)
          /\ wire = SubSeq(wire, 1, n) \o SubSeq(wire, n + 1, Len(wire))
      BY ONLY <2>1, <2>2, Halves
    <2> QED
      BY ONLY <1>2, <2>3
  <1>6. PICK a : a = EncodeAll(answered) \o Consumed
    OBVIOUS
  <1>7. a \in Seq(Token) /\ a \o input \in Seq(Token)
    BY <1>4, <1>6, Joins
  <1>8. a \o (input \o b) \o d = a \o input \o (b \o d)
    <2>1. (a \o input) \o b = a \o (input \o b)
      <3>1. a \in Seq(Token) /\ input \in Seq(Token) /\ b \in Seq(Token)
        BY ONLY <1>4, <1>5, <1>7
      <3> QED
        BY ONLY <3>1, Assoc
    <2>2. PICK e : e = a \o input
      OBVIOUS
    <2>3. (e \o b) \o d = e \o (b \o d)
      <3>1. e \in Seq(Token)
        BY <1>7, <2>2
      <3> QED
        BY <1>5, <3>1, Assoc
    <2> QED
      BY <2>1, <2>2, <2>3
  <1>9. EncodeAll(answered)' \o Consumed' = a /\ EncodeAll(sent)' = EncodeAll(sent)
    BY <1>3, <1>6 DEF Consumed
  <1>10. EncodeAll(answered)' \o Consumed' \o input' \o wire'
           = EncodeAll(answered) \o Consumed \o input \o wire
    BY <1>3, <1>5, <1>6, <1>8, <1>9
  <1> QED
    BY <1>3, <1>9, <1>10 DEF StreamKept

LEMMA StreamStatus ==
  ASSUME HttpInv, StreamKept, ParseStatus
  PROVE  StreamKept'
  <1>1. /\ TypeOK /\ TypeOK' /\ crashed = "no" /\ InParser /\ HasCRLF
        /\ current_state = "REQUEST_STATUS" /\ current_state' = "REQUEST_HEADERS"
        /\ FirstLine \in RequestLine
        /\ parsed' = <<FirstLine>> /\ input' = SubSeq(input, 3, Len(input))
        /\ UNCHANGED <<sent, wire, answered, crashed>>
    BY StatusKeeps DEF HttpInv, ParseStatus, InParser, TakeLine
  <1>2. PICK stream, off : InStream(stream, off)
    BY <1>1 DEF HttpInv
  <1>3. parsed = <<>>
    BY <1>1, <1>2 DEF InStream, AtPlace, AtStatus
  <1>4. input[1] # "crlf" /\ FirstLine = input[1] /\ input[1] \in Token
    BY <1>1 DEF FirstLine, RequestLine, Token
  <1>5. 2 \in 1 .. Len(input)
    BY <1>1, <1>4, Room
  <1>6. input[2] = "crlf"
    <2>1. PICK k \in Nat : k = Len(answered)
      BY <1>1 DEF TypeOK
    <2>2. k \in 0 .. Len(sent) - 1 /\ Position(stream) = off[k]
      BY <1>1, <1>2, <2>1, AtFirstLine DEF RequestLine
    <2>3. /\ Layout(sent, stream, off) /\ sent \in Seq(Requests)
          /\ input[2] = stream[Position(stream) + 2]
      BY <1>1, <1>2, <1>5 DEF InStream, Unread, TypeOK
    <2>4. /\ off[k] \in Nat /\ sent[k + 1] \in Requests
          /\ \A i \in 1 .. Len(sent[k + 1]) : stream[off[k] + 2 * i] = "crlf"
      <3>1. Layout(sent, stream, off) /\ sent \in Seq(Requests) /\ k \in 0 .. Len(sent) - 1
        BY <2>2, <2>3
      <3>2. BlockAt(sent, stream, off, k)
        BY <3>1, Block
      <3> QED
        BY <3>2 DEF BlockAt
    <2>5. 1 \in 1 .. Len(sent[k + 1])
      BY <2>4, RequestsAre
    <2>6. stream[off[k] + 2 * 1] = "crlf" /\ off[k] + 2 * 1 = off[k] + 2
      BY <2>4, <2>5
    <2> QED
      BY <2>2, <2>3, <2>6
  <1>7. LineAtHead
    BY <1>4, <1>5, <1>6 DEF LineAtHead
  <1>8. Consumed' = Consumed \o <<input[1], "crlf">>
    <2>1. Consumed = <<>>
      BY <1>1, <1>3, NothingTaken DEF Consumed
    <2>2. PICK text \in Token : text = input[1]
      BY <1>4
    <2>3. <<>> \in Seq(Token) /\ Append(<<>>, text) = <<text>>
      OBVIOUS
    <2>4. /\ SubSeq(Encode(Append(<<>>, text)), 1, 2 * Len(Append(<<>>, text)))
               = SubSeq(Encode(<<>>), 1, 2 * Len(<<>>)) \o <<text, "crlf">>
      BY <2>3, LineTaken
    <2>5. Consumed' = SubSeq(Encode(<<text>>), 1, 2 * Len(<<text>>))
      BY <1>1, <1>4, <2>2 DEF Consumed
    <2> QED
      BY <2>1, <2>2, <2>3, <2>4, <2>5, NothingTaken
  <1> QED
    BY <1>1, <1>7, <1>8, LineLeaves

LEMMA StreamHeader ==
  ASSUME HttpInv, StreamKept, ParseHeader
  PROVE  StreamKept'
  <1>1. /\ TypeOK /\ TypeOK' /\ crashed = "no" /\ InParser /\ HasCRLF
        /\ current_state = "REQUEST_HEADERS" /\ current_state' = "REQUEST_HEADERS"
        /\ FirstLine \in {"close", "keep", "plain"}
        /\ parsed' = Append(parsed, FirstLine) /\ input' = SubSeq(input, 3, Len(input))
        /\ UNCHANGED <<sent, wire, answered, crashed>>
    BY HeaderKeeps DEF HttpInv, ParseHeader, InParser, TakeLine, HasColon
  <1>2. PICK stream, off : InStream(stream, off)
    BY <1>1 DEF HttpInv
  <1>4. input[1] # "crlf" /\ FirstLine = input[1] /\ input[1] \in Token
    BY <1>1 DEF FirstLine, Header, Token
  <1>5. 2 \in 1 .. Len(input)
    BY <1>1, <1>4, Room
  <1>6. input[2] = "crlf"
    <2>1. PICK k \in Nat, m \in Nat : k = Len(answered) /\ m = Len(parsed)
      BY <1>1 DEF TypeOK
    <2>2. /\ k \in 0 .. Len(sent) - 1 /\ Position(stream) = off[k] + 2 * m
          /\ m \in 1 .. Len(sent[k + 1]) /\ m < Len(sent[k + 1])
      BY <1>1, <1>2, <1>4, <2>1, AtNextLine
    <2>3. /\ Layout(sent, stream, off) /\ sent \in Seq(Requests)
          /\ input[2] = stream[Position(stream) + 2]
      BY <1>1, <1>2, <1>5 DEF InStream, Unread, TypeOK
    <2>4. /\ off[k] \in Nat /\ sent[k + 1] \in Requests
          /\ \A i \in 1 .. Len(sent[k + 1]) : stream[off[k] + 2 * i] = "crlf"
      <3>1. BlockAt(sent, stream, off, k)
        BY <2>2, <2>3, Block
      <3> QED
        BY <3>1 DEF BlockAt
    <2>5. m + 1 \in 1 .. Len(sent[k + 1])
      BY <2>2, <2>4, RequestsAre
    <2>6. stream[off[k] + 2 * (m + 1)] = "crlf" /\ off[k] + 2 * (m + 1) = off[k] + 2 * m + 2
      BY <2>4, <2>5
    <2> QED
      BY <2>2, <2>3, <2>6
  <1>7. LineAtHead
    BY <1>4, <1>5, <1>6 DEF LineAtHead
  <1>8. Consumed' = Consumed \o <<input[1], "crlf">>
    <2>1. Consumed = SubSeq(Encode(parsed), 1, 2 * Len(parsed))
      BY <1>1 DEF Consumed
    <2>2. PICK text \in Token : text = input[1]
      BY <1>4
    <2>3. parsed \in Seq(Token)
      BY <1>1 DEF TypeOK
    <2>4. /\ SubSeq(Encode(Append(parsed, text)), 1, 2 * Len(Append(parsed, text)))
               = SubSeq(Encode(parsed), 1, 2 * Len(parsed)) \o <<text, "crlf">>
      BY <2>3, LineTaken
    <2>5. Consumed' = SubSeq(Encode(Append(parsed, text)), 1, 2 * Len(Append(parsed, text)))
      BY <1>1, <1>4, <2>2 DEF Consumed
    <2> QED
      BY <2>1, <2>2, <2>4, <2>5
  <1> QED
    BY <1>1, <1>7, <1>8, LineLeaves

(* A request with no header without ": " ends with its last CRLF.          *)
LEMMA StreamEnd ==
  ASSUME HttpInv, StreamKept, ParseEnd
  PROVE  StreamKept'
  <1>1. /\ TypeOK /\ TypeOK' /\ crashed = "no" /\ InParser /\ HasCRLF
        /\ current_state = "REQUEST_HEADERS" /\ current_state' = "REQUEST_DONE"
        /\ FirstLine \notin {"close", "keep", "plain"}
        /\ UNCHANGED <<sent, wire, parsed, answered, crashed>>
    BY EndKeeps DEF HttpInv, ParseEnd, InParser, HasColon
  <1> SUFFICES ASSUME NoTight
               PROVE  EncodeAll(answered)' \o Consumed' \o input' \o wire' = EncodeAll(sent)'
    BY <1>1 DEF StreamKept, NoTight
  <1>2. EncodeAll(answered) \o Consumed \o input \o wire = EncodeAll(sent)
    BY <1>1 DEF StreamKept, NoTight
  <1>3. PICK stream, off : InStream(stream, off)
    BY <1>1 DEF HttpInv
  <1>4. input[1] = "crlf"
    <2> SUFFICES ASSUME input[1] # "crlf" PROVE FALSE
      OBVIOUS
    <2>1. PICK k \in Nat, m \in Nat : k = Len(answered) /\ m = Len(parsed)
      BY <1>1 DEF TypeOK
    <2>2. /\ k \in 0 .. Len(sent) - 1 /\ m \in 1 .. Len(sent[k + 1]) /\ m < Len(sent[k + 1])
          /\ input[1] = sent[k + 1][m + 1] /\ input[1] \in Header
      BY <1>1, <1>3, <2>1, AtNextLine
    <2>3. input[1] = "tight"
      BY <1>1, <2>2 DEF FirstLine, Header
    <2>4. sent[k + 1] \in Requests /\ k + 1 \in 1 .. Len(sent)
      BY <1>1, <2>2 DEF TypeOK
    <2>5. m + 1 \in 1 .. Len(sent[k + 1])
      BY <2>2, <2>4, RequestsAre
    <2> QED
      BY <2>2, <2>3, <2>4, <2>5 DEF NoTight, Tight, Lines
  <1>5. input \in Seq(Token) /\ Len(input) \in Nat \ {0}
    <2>1. stream \in Seq(Token) /\ Unread(stream)
      BY <1>3 DEF InStream, Layout
    <2> QED
      BY <1>1, <2>1, AtHead DEF TypeOK
  <1>6. input = <<"crlf">> \o input' /\ <<"crlf">> \in Seq(Token)
    <2>1. input' = Tail(input)
      BY <1>4 DEF ParseEnd, FirstLine
    <2>2. input = <<input[1]>> \o Tail(input)
      BY <1>5
    <2> QED
      BY <1>4, <2>1, <2>2 DEF Token
  <1>7. Consumed' = Consumed \o <<"crlf">>
    <2>1. parsed \in Seq(Token)
      BY <1>1 DEF TypeOK
    <2> QED
      BY <1>1, <2>1, LastTaken DEF Consumed
  <1>8. EncodeAll(answered)' \o Consumed' \o input' \o wire'
          = EncodeAll(answered) \o Consumed \o input \o wire
    BY <1>1, <1>6, <1>7, LineMoves
  <1> QED
    BY <1>1, <1>2, <1>8

LEMMA StreamRespond ==
  ASSUME HttpInv, StreamKept, Respond
  PROVE  StreamKept'
  <1> SUFFICES ASSUME crashed' = "no", NoTight'
               PROVE  EncodeAll(answered)' \o Consumed' \o input' \o wire' = EncodeAll(sent)'
    BY DEF StreamKept, NoTight
  <1>1. /\ TypeOK /\ crashed = "no" /\ current_state = "REQUEST_DONE"
        /\ parsed' = <<>> /\ current_state' = "REQUEST_STATUS"
        /\ UNCHANGED <<sent, wire, input>>
    BY DEF HttpInv, Respond, HttpRequestReset
  <1>2. EncodeAll(answered) \o Consumed \o input \o wire = EncodeAll(sent)
    BY <1>1 DEF StreamKept, NoTight
  <1>3. answered' = Append(answered, parsed)
    BY <1>1 DEF Respond, AfterRespond
  <1>4. answered \in Seq(Seq(Token)) /\ parsed \in Seq(Token)
    BY <1>1 DEF TypeOK
  <1>5. EncodeAll(answered)' = EncodeAll(answered) \o Consumed
    <2>1. EncodeAll(Append(answered, parsed)) = EncodeAll(answered) \o Encode(parsed)
      BY <1>4, EncodeOneMore
    <2>2. Consumed = Encode(parsed)
      BY <1>1 DEF Consumed
    <2> QED
      BY <1>3, <2>1, <2>2
  <1>6. Consumed' = <<>>
    BY <1>1, NothingTaken DEF Consumed
  <1>7. PICK a : a = EncodeAll(answered) \o Consumed
    OBVIOUS
  <1>8. a \in Seq(Token)
    BY <1>1, <1>7, StreamParts, Joins
  <1>9. a \o <<>> = a
    BY <1>8, Empty
  <1> QED
    BY <1>1, <1>2, <1>5, <1>6, <1>7, <1>9

LEMMA StreamOther ==
  ASSUME StreamKept, StatusAssert \/ ClientClose \/ ReadEnd \/ UNCHANGED vars
  PROVE  StreamKept'
  <1>1. \/ crashed' = "assert"
        \/ UNCHANGED <<sent, wire, input, current_state, parsed, answered, crashed>>
    BY DEF StatusAssert, ClientClose, ReadEnd, vars
  <1> QED
    BY <1>1 DEF StreamKept, Consumed

LEMMA StreamBegins == Init => StreamKept
  <1> SUFFICES ASSUME Init PROVE StreamKept
    OBVIOUS
  <1>1. /\ sent = <<>> /\ wire = <<>> /\ input = <<>> /\ parsed = <<>> /\ answered = <<>>
        /\ current_state = "REQUEST_STATUS"
    BY DEF Init
  <1>2. Consumed = <<>>
    BY <1>1, NothingTaken DEF Consumed
  <1>3. <<>> \in Seq(Seq(Token))
    OBVIOUS
  <1>4. PICK a : a = EncodeAll(<<>>)
    OBVIOUS
  <1>5. a \in Seq(Token)
    BY <1>3, <1>4, EncodedTogether
  <1>6. a \o <<>> = a
    BY <1>5, Empty
  <1> QED
    BY <1>1, <1>2, <1>4, <1>6 DEF StreamKept

LEMMA StreamKeeps == HttpInv /\ StreamKept /\ [Next]_vars => StreamKept'
  BY StreamSend, StreamRead, StreamStatus, StreamHeader, StreamEnd, StreamRespond, StreamOther
     DEF Next, Client, HandleRead, Message, Parse

(* The parser takes every byte once: the requests answered, the lines of   *)
(* the one being parsed, the buffer and the wire are together what was     *)
(* sent, as long as every header has its ": ".                             *)
THEOREM StreamIntact == Spec => []StreamKept
  BY StreamBegins, StreamKeeps, HttpInvariance, PTL DEF Spec
===============================================================================
