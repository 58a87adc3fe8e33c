--------------------------- MODULE LibrariesProofs ---------------------------
(***************************************************************************)
(* Proofs about the parts that MCLibraries checks together: the buffer,    *)
(* for every array size and every byte; the PROXY protocol library between *)
(* two ends, for every pp_info_t, any TLVs and whatever bytes arrive; the  *)
(* echo server and the talk client, for any number of clients and any      *)
(* sizes of buffer and connection.                                         *)
(***************************************************************************)
EXTENDS Buffer, ProxyExchange, TalkClient, FiniteSetTheorems, SequenceTheorems,
        WellFoundedInduction, TLAPS

-----------------------------------------------------------------------------
(* The buffer: the indices stay in order, nothing unwritten is readable,   *)
(* no append leaves the array when realloc succeeds, and every operation   *)
(* is the one of ByteQueue.                                                *)

(* A well-formed struct buffer.                                            *)
Sound(b) ==
  /\ b.readIndex \in Nat /\ b.writeIndex \in Nat /\ b.total_size \in Nat
  /\ b.readIndex <= b.writeIndex /\ b.writeIndex <= b.total_size
  /\ InitSize <= b.total_size
  /\ b.data \in [0 .. b.total_size - 1 -> Byte \cup {Junk}]
  /\ \A i \in b.readIndex .. b.writeIndex - 1 : b.data[i] \in Byte

(* It has the fields of the struct and no others.                          *)
Struct(b) ==
  b = [data |-> b.data, readIndex |-> b.readIndex,
       writeIndex |-> b.writeIndex, total_size |-> b.total_size]

Inv ==
  /\ Struct(buffer)
  /\ Sound(buffer)
  /\ buffer.total_size <= MaxTotal
  /\ overrun \in BOOLEAN
  /\ NoOverrun

LEMMA ContentType ==
  ASSUME NEW b, Sound(b)
  PROVE  Content(b) \in Seq(Byte) /\ Len(Content(b)) = Readable(b) /\ Readable(b) \in Nat
  <1>1. Readable(b) \in Nat
    BY DEF Sound, Readable
  <1>2. \A i \in 1 .. Readable(b) : b.data[b.readIndex + i - 1] \in Byte
    <2> SUFFICES ASSUME NEW i \in 1 .. Readable(b)
                 PROVE  b.data[b.readIndex + i - 1] \in Byte
      OBVIOUS
    <2>1. b.readIndex + i - 1 \in b.readIndex .. b.writeIndex - 1
      BY DEF Sound, Readable
    <2> QED
      BY <2>1 DEF Sound
  <1>3. Content(b) \in [1 .. Readable(b) -> Byte]
    BY <1>2 DEF Content
  <1> QED
    BY <1>1, <1>3

(* Moving the readable bytes to the front keeps them, and turns the space  *)
(* in front of them into writeable space.                                  *)
LEMMA MovedKeeps ==
  ASSUME NEW b, Sound(b)
  PROVE  /\ Sound(Moved(b))
         /\ Content(Moved(b)) = Content(b)
         /\ Writeable(Moved(b)) = FrontSpare(b) + Writeable(b)
         /\ Moved(b).total_size = b.total_size
  <1> DEFINE data == [i \in DOMAIN b.data |->
                        IF i < Readable(b) THEN b.data[b.readIndex + i] ELSE b.data[i]]
  <1>1. Moved(b) = [data |-> data, readIndex |-> 0, writeIndex |-> Readable(b),
                    total_size |-> b.total_size]
    BY DEF Moved
  <1>2. DOMAIN b.data = 0 .. b.total_size - 1
    BY DEF Sound
  <1>3. Readable(b) \in Nat /\ Readable(b) <= b.total_size
    BY DEF Sound, Readable
  <1>4. \A i \in 0 .. Readable(b) - 1 : b.data[b.readIndex + i] \in Byte
    BY DEF Sound, Readable
  <1>5. data \in [0 .. b.total_size - 1 -> Byte \cup {Junk}]
    BY <1>2, <1>3, <1>4 DEF Sound
  <1>6. \A i \in 0 .. Readable(b) - 1 : data[i] = b.data[b.readIndex + i]
    BY <1>2, <1>3 DEF Sound
  <1>7. Sound(Moved(b))
    BY <1>1, <1>3, <1>4, <1>5, <1>6 DEF Sound
  <1>8. Readable(Moved(b)) = Readable(b)
    BY <1>1, <1>3 DEF Readable
  <1>9. \A i \in 1 .. Readable(b) : Moved(b).data[Moved(b).readIndex + i - 1]
                                      = b.data[b.readIndex + i - 1]
    <2> SUFFICES ASSUME NEW i \in 1 .. Readable(b)
                 PROVE  data[0 + i - 1] = b.data[b.readIndex + i - 1]
      BY <1>1
    <2>1. i - 1 \in 0 .. Readable(b) - 1 /\ 0 + i - 1 = i - 1
      BY <1>3
    <2>2. b.readIndex + (i - 1) = b.readIndex + i - 1
      BY <1>3 DEF Sound
    <2> QED
      BY <1>6, <2>1, <2>2
  <1>10. Content(Moved(b)) = Content(b)
    BY <1>8, <1>9 DEF Content
  <1>11. Writeable(Moved(b)) = FrontSpare(b) + Writeable(b)
    BY <1>1 DEF Sound, Writeable, FrontSpare, Readable
  <1> QED
    BY <1>1, <1>7, <1>10, <1>11

(* Growing the array keeps the readable bytes.                             *)
LEMMA GrownKeeps ==
  ASSUME NEW b, Sound(b), NEW size \in Nat
  PROVE  /\ Sound(Grown(b, size))
         /\ Content(Grown(b, size)) = Content(b)
         /\ Writeable(Grown(b, size)) = Writeable(b) + size
  <1> DEFINE data == [i \in 0 .. b.total_size + size - 1 |->
                        IF i < b.total_size THEN b.data[i] ELSE Junk]
  <1>1. Grown(b, size) = [data |-> data, readIndex |-> b.readIndex,
                          writeIndex |-> b.writeIndex, total_size |-> b.total_size + size]
    BY DEF Grown
  <1>2. data \in [0 .. b.total_size + size - 1 -> Byte \cup {Junk}]
    BY DEF Sound
  <1>3. \A i \in 0 .. b.total_size - 1 : data[i] = b.data[i]
    BY DEF Sound
  <1>4. \A i \in b.readIndex .. b.writeIndex - 1 : data[i] = b.data[i]
    BY <1>3 DEF Sound
  <1>5. Sound(Grown(b, size))
    <2> DEFINE g == Grown(b, size)
    <2>1. /\ g.readIndex = b.readIndex /\ g.writeIndex = b.writeIndex
          /\ g.total_size = b.total_size + size /\ g.data = data
      BY <1>1
    <2>2. b.total_size + size \in Nat /\ b.total_size <= b.total_size + size
      BY DEF Sound
    <2>3. \A i \in b.readIndex .. b.writeIndex - 1 : data[i] \in Byte
      BY <1>4 DEF Sound
    <2> HIDE DEF data, g
    <2>4. Sound(g)
      <3>1. /\ b.readIndex \in Nat /\ b.writeIndex \in Nat /\ b.total_size \in Nat
            /\ b.readIndex <= b.writeIndex /\ b.writeIndex <= b.total_size /\ InitSize <= b.total_size
        BY ONLY Sound(b) DEF Sound
      <3>2. b.writeIndex <= b.total_size + size /\ InitSize <= b.total_size + size
        BY ONLY <2>2, <3>1, SizesAssumption, size \in Nat
      <3> QED
        BY ONLY <1>2, <2>1, <2>2, <2>3, <3>1, <3>2 DEF Sound
    <2> QED
      BY <2>4 DEF g
  <1>6. Readable(Grown(b, size)) = Readable(b) /\ Readable(b) \in Nat
    BY <1>1 DEF Sound, Readable
  <1>7. \A i \in 1 .. Readable(b) : data[b.readIndex + i - 1] = b.data[b.readIndex + i - 1]
    BY <1>4 DEF Sound, Readable
  <1>8. Content(Grown(b, size)) = Content(b)
    <2>1. Grown(b, size).data = data /\ Grown(b, size).readIndex = b.readIndex
      BY <1>1
    <2> HIDE DEF data
    <2> QED
      BY <1>6, <1>7, <2>1 DEF Content
  <1>9. Writeable(Grown(b, size)) = Writeable(b) + size
    BY <1>1 DEF Sound, Writeable
  <1> QED
    BY <1>5, <1>8, <1>9

(* The layouts make_room leaves hold the same bytes; without a failing     *)
(* realloc they have the room asked for.                                   *)
LEMMA RoomKeeps ==
  ASSUME NEW b, Sound(b), NEW size \in Nat, NEW r \in MakeRoom(b, size)
  PROVE  /\ Sound(r)
         /\ Content(r) = Content(b)
         /\ ~ReallocFails => Writeable(r) >= size
  <1>1. Writeable(b) \in Nat /\ FrontSpare(b) \in Nat
    BY DEF Sound, Writeable, FrontSpare
  <1>2. CASE Writeable(b) >= size
    BY <1>2 DEF MakeRoom
  <1>3. CASE ~(Writeable(b) >= size) /\ FrontSpare(b) + Writeable(b) >= size
    BY <1>3, MovedKeeps DEF MakeRoom
  <1>4. CASE ~(Writeable(b) >= size) /\ ~(FrontSpare(b) + Writeable(b) >= size)
    <2>1. r = Grown(b, size) \/ (ReallocFails /\ r = b)
      BY <1>4 DEF MakeRoom
    <2>2. Sound(Grown(b, size)) /\ Content(Grown(b, size)) = Content(b)
      BY GrownKeeps
    <2>3. Writeable(Grown(b, size)) >= size
      BY <1>1, GrownKeeps
    <2> QED
      BY <2>1, <2>2, <2>3
  <1> QED
    BY <1>2, <1>3, <1>4

(* A write that fits appends its bytes and nothing else.                   *)
LEMMA WrittenAppends ==
  ASSUME NEW b, Sound(b), NEW s \in Seq(Byte), Fits(b, s)
  PROVE  /\ Sound(Written(b, s))
         /\ Content(Written(b, s)) = Content(b) \o s
         /\ Written(b, s).total_size = b.total_size
  <1> DEFINE w == b.writeIndex
             data == [i \in DOMAIN b.data |->
                        IF i >= w /\ i < w + Len(s) THEN s[i - w + 1] ELSE b.data[i]]
  <1>1. Written(b, s) = [data |-> data, readIndex |-> b.readIndex,
                         writeIndex |-> w + Len(s), total_size |-> b.total_size]
    BY DEF Written
  <1>2. Len(s) \in Nat /\ w + Len(s) <= b.total_size /\ w \in Nat
    BY DEF Fits, Writeable, Sound
  <1>3. DOMAIN b.data = 0 .. b.total_size - 1
    BY DEF Sound
  <1>4. \A j \in 1 .. Len(s) : s[j] \in Byte
    OBVIOUS
  <1>5. \A i \in w .. w + Len(s) - 1 : data[i] = s[i - w + 1] /\ data[i] \in Byte
    <2> SUFFICES ASSUME NEW i \in w .. w + Len(s) - 1
                 PROVE  data[i] = s[i - w + 1] /\ data[i] \in Byte
      OBVIOUS
    <2>1. i \in DOMAIN b.data
      BY <1>2, <1>3 DEF Sound
    <2>2. data[i] = s[i - w + 1]
      BY <1>2, <2>1
    <2>3. i - w + 1 \in 1 .. Len(s)
      BY <1>2
    <2> QED
      BY <1>4, <2>2, <2>3
  <1>6. \A i \in 0 .. b.total_size - 1 :
          ~(i >= w /\ i < w + Len(s)) => data[i] = b.data[i]
    BY <1>3
  <1>7. data \in [0 .. b.total_size - 1 -> Byte \cup {Junk}]
    <2>1. \A i \in 0 .. b.total_size - 1 : data[i] \in Byte \cup {Junk}
      <3> SUFFICES ASSUME NEW i \in 0 .. b.total_size - 1 PROVE data[i] \in Byte \cup {Junk}
        OBVIOUS
      <3>1. CASE i >= w /\ i < w + Len(s)
        BY <1>2, <1>5, <3>1
      <3>2. CASE ~(i >= w /\ i < w + Len(s))
        BY <1>6, <3>2 DEF Sound
      <3> QED
        BY <3>1, <3>2
    <2> QED
      BY <1>3, <2>1
  <1>8. \A i \in b.readIndex .. w - 1 : data[i] = b.data[i] /\ data[i] \in Byte
    BY <1>2, <1>6 DEF Sound
  <1>9. \A i \in b.readIndex .. w + Len(s) - 1 : data[i] \in Byte
    <2> SUFFICES ASSUME NEW i \in b.readIndex .. w + Len(s) - 1 PROVE data[i] \in Byte
      OBVIOUS
    <2>1. i \in b.readIndex .. w - 1 \/ i \in w .. w + Len(s) - 1
      BY <1>2 DEF Sound
    <2> QED
      BY <1>5, <1>8, <2>1
  <1>10. Sound(Written(b, s))
    BY <1>1, <1>2, <1>7, <1>9 DEF Sound
  <1>11. Readable(Written(b, s)) = Readable(b) + Len(s) /\ Readable(b) \in Nat
    BY <1>1, <1>2 DEF Readable, Sound
  <1>12. Content(b) \in Seq(Byte) /\ Len(Content(b)) = Readable(b)
    BY ContentType
  <1>13. Content(Written(b, s)) \in Seq(Byte)
         /\ Len(Content(Written(b, s))) = Readable(b) + Len(s)
    BY <1>10, <1>11, ContentType
  <1>14. Content(b) \o s \in Seq(Byte) /\ Len(Content(b) \o s) = Readable(b) + Len(s)
    BY <1>12
  <1>15. \A i \in 1 .. Readable(b) + Len(s) : Content(Written(b, s))[i] = (Content(b) \o s)[i]
    <2> SUFFICES ASSUME NEW i \in 1 .. Readable(b) + Len(s)
                 PROVE  Content(Written(b, s))[i] = (Content(b) \o s)[i]
      OBVIOUS
    <2>1. Content(Written(b, s))[i] = data[b.readIndex + i - 1]
      BY <1>1, <1>11 DEF Content
    <2>2. CASE i <= Readable(b)
      <3>1. b.readIndex + i - 1 \in b.readIndex .. w - 1
        BY <1>2, <1>11, <2>2 DEF Sound, Readable
      <3>2. data[b.readIndex + i - 1] = b.data[b.readIndex + i - 1]
        BY <1>8, <3>1
      <3>3. Content(b)[i] = b.data[b.readIndex + i - 1]
        BY <1>11, <2>2 DEF Content
      <3>4. (Content(b) \o s)[i] = Content(b)[i]
        BY <1>11, <1>12, <2>2
      <3> QED
        BY <2>1, <3>2, <3>3, <3>4
    <2>3. CASE i > Readable(b)
      <3>0. b.readIndex + i - 1 \in w .. w + Len(s) - 1
        BY <1>2, <1>11, <2>3 DEF Sound, Readable
      <3>1. PICK j \in w .. w + Len(s) - 1 : j = b.readIndex + i - 1
        BY <3>0
      <3>2. data[j] = s[j - w + 1]
        BY <1>5
      <3>3. j - w + 1 = i - Readable(b)
        BY <1>2, <3>1 DEF Sound, Readable
      <3>4. (Content(b) \o s)[i] = s[i - Readable(b)]
        BY <1>11, <1>12, <2>3
      <3> QED
        BY <2>1, <3>1, <3>2, <3>3, <3>4
    <2>4. i <= Readable(b) \/ i > Readable(b)
      BY <1>2, <1>11
    <2> QED
      BY <2>2, <2>3, <2>4
  <1>16. Content(Written(b, s)) = Content(b) \o s
    BY <1>13, <1>14, <1>15
  <1> QED
    BY <1>1, <1>10, <1>16

(* buffer_append, to any well-formed buffer.                               *)
LEMMA Appending ==
  ASSUME NEW b, Sound(b), NEW s \in Seq(Byte), AppendTo(b, s)
  PROVE  /\ Sound(buffer)' /\ buffer'.total_size <= MaxTotal
         /\ overrun' = TRUE \/ overrun' = overrun
         /\ ~ReallocFails => overrun' = overrun
         /\ overrun' = overrun /\ ~overrun => Content(buffer') = Content(b) \o s
  <1>1. PICK r \in MakeRoom(b, Len(s)) :
          /\ r.total_size <= MaxTotal
          /\ IF Fits(r, s) THEN buffer' = Written(r, s) /\ UNCHANGED overrun
             ELSE buffer' = r /\ overrun' = TRUE
    BY DEF AppendTo
  <1>2. Len(s) \in Nat
    OBVIOUS
  <1>3. /\ Sound(r) /\ Content(r) = Content(b)
        /\ ~ReallocFails => Writeable(r) >= Len(s)
    BY <1>2, RoomKeeps
  <1>4. CASE Fits(r, s)
    <2>1. buffer' = Written(r, s) /\ overrun' = overrun
      BY <1>1, <1>4
    <2>2. /\ Sound(Written(r, s)) /\ Content(Written(r, s)) = Content(r) \o s
          /\ Written(r, s).total_size = r.total_size
      BY <1>3, <1>4, WrittenAppends
    <2>3. Sound(buffer)'
      BY <2>1, <2>2 DEF Sound
    <2> QED
      BY <1>1, <1>3, <2>1, <2>2, <2>3
  <1>5. CASE ~Fits(r, s)
    <2>1. buffer' = r /\ overrun' = TRUE
      BY <1>1, <1>5
    <2>2. ReallocFails
      BY <1>2, <1>3, <1>5, ReallocAssumption DEF Fits, Sound, Writeable
    <2>3. Sound(buffer)'
      BY <1>3, <2>1 DEF Sound
    <2> QED
      BY <1>1, <2>1, <2>2, <2>3
  <1> QED
    BY <1>4, <1>5

LEMMA SequencesOfBytes ==
  /\ \A s \in Chunk : s \in Seq(Byte)
  /\ Sound(buffer) => \A s \in Received :
       s \in Seq(Byte) /\ Len(s) <= Writeable(buffer) + InitSize
  <1>1. ASSUME NEW s \in Chunk PROVE s \in Seq(Byte)
    BY <1>1, SizesAssumption DEF Chunk
  <1>2. ASSUME Sound(buffer), NEW s \in Received
        PROVE  s \in Seq(Byte) /\ Len(s) <= Writeable(buffer) + InitSize
    <2>1. PICK n \in 1 .. Writeable(buffer) + InitSize : s \in [1 .. n -> Byte]
      BY <1>2 DEF Received
    <2>2. Writeable(buffer) + InitSize \in Nat
      BY <1>2, SizesAssumption DEF Sound, Writeable
    <2>3. n \in Nat /\ n <= Writeable(buffer) + InitSize
      BY <2>1, <2>2
    <2> HIDE <2>2
    <2> QED
      BY <2>1, <2>3
  <1> QED
    BY <1>1, <1>2

(* The stepwise facts: each operation keeps Inv and does to the content    *)
(* what the operation of ByteQueue does.                                   *)
LEMMA AppendsStruct ==
  ASSUME NEW b, Struct(b), NEW s, AppendTo(b, s)
  PROVE  Struct(buffer)'
  <1>1. PICK r \in MakeRoom(b, Len(s)) : buffer' = Written(r, s) \/ buffer' = r
    BY DEF AppendTo
  <1>2. r = b \/ r = Moved(b) \/ r = Grown(b, Len(s))
    BY <1>1 DEF MakeRoom
  <1>3. Struct(r)
    BY <1>2 DEF Struct, Moved, Grown
  <1>4. Struct(Written(r, s))
    BY DEF Struct, Written
  <1>5. ASSUME NEW c, Struct(c), buffer' = c PROVE Struct(buffer)'
    BY <1>5 DEF Struct
  <1> QED
    BY <1>1, <1>3, <1>4, <1>5

LEMMA AppendStep ==
  ASSUME Inv, NEW s \in Seq(Byte), BufferAppend(s)
  PROVE  Inv' /\ (~overrun' => Content(buffer') = Content(buffer) \o s)
  <1>1. Struct(buffer) /\ Sound(buffer) /\ ~overrun /\ AppendTo(buffer, s)
    BY DEF Inv, BufferAppend
  <1>2. Struct(buffer)'
    BY <1>1, AppendsStruct
  <1> QED
    BY <1>1, <1>2, Appending, ReallocAssumption DEF Inv, NoOverrun

LEMMA ReadStep ==
  ASSUME Inv, NEW s \in Seq(Byte), SocketRead(s)
  PROVE  Inv' /\ (~overrun' => Content(buffer') = Content(buffer) \o s)
  <1> DEFINE max == Writeable(buffer)
             head == SubSeq(s, 1, max)
             tail == SubSeq(s, max + 1, Len(s))
  <1>1. Sound(buffer) /\ max \in Nat /\ Len(s) \in Nat
    BY DEF Inv, Sound, Writeable
  <1>2. CASE Len(s) <= max
    <2>1. buffer' = Written(buffer, s) /\ overrun' = overrun
      BY <1>2 DEF SocketRead
    <2>2. /\ Sound(Written(buffer, s)) /\ Content(Written(buffer, s)) = Content(buffer) \o s
          /\ Written(buffer, s).total_size = buffer.total_size
      BY <1>1, <1>2, WrittenAppends DEF Fits
    <2>3. Sound(buffer)' /\ buffer'.total_size <= MaxTotal
      BY <2>1, <2>2 DEF Inv, Sound
    <2>4. Struct(buffer)'
      BY <2>1 DEF Struct, Written
    <2> QED
      BY <2>1, <2>2, <2>3, <2>4 DEF Inv, NoOverrun
  <1>3. CASE ~(Len(s) <= max)
    <2>1. head \in Seq(Byte) /\ tail \in Seq(Byte)
      <3>1. \A i \in 1 .. max : s[i] \in Byte
        BY <1>1, <1>3
      <3>2. \A i \in max + 1 .. Len(s) : s[i] \in Byte
        BY <1>1, <1>3
      <3> QED
        BY <1>1, <1>3, <3>1, <3>2, SubSeqProperties
    <2>2. Len(head) = max
      BY <1>1, <1>3, SubSeqProperties
    <2>3. head \o tail = s
      <3>1. 1 \in 1 .. Len(s) + 1 /\ max \in 1 - 1 .. Len(s) /\ Len(s) \in max .. Len(s)
        BY <1>1, <1>3
      <3> HIDE DEF max
      <3>2. head \o tail = SubSeq(s, 1, Len(s))
        BY <3>1, ConcatAdjacentSubSeq
      <3> QED
        BY <3>2, SubSeqFull
    <2>4. AppendTo(Written(buffer, head), tail) /\ ~overrun
      BY <1>3 DEF SocketRead
    <2>5. Fits(buffer, head)
      BY <1>1, <2>2 DEF Fits
    <2> HIDE DEF head, tail
    <2>6. Sound(Written(buffer, head)) /\ Content(Written(buffer, head)) = Content(buffer) \o head
      BY <1>1, <2>1, <2>5, WrittenAppends
    <2>7. /\ Sound(buffer)' /\ buffer'.total_size <= MaxTotal
          /\ overrun' = TRUE \/ overrun' = overrun
          /\ ~ReallocFails => overrun' = overrun
          /\ overrun' = overrun /\ ~overrun =>
               Content(buffer') = Content(Written(buffer, head)) \o tail
      BY <2>1, <2>4, <2>6, Appending
    <2>8. Content(buffer) \in Seq(Byte)
      BY <1>1, ContentType
    <2>9. (Content(buffer) \o head) \o tail = Content(buffer) \o s
      <3>1. (Content(buffer) \o head) \o tail = Content(buffer) \o (head \o tail)
        BY <2>1, <2>8, ConcatAssociative
      <3> QED
        BY <2>3, <3>1
    <2>10. Struct(buffer)'
      <3>1. Struct(Written(buffer, head))
        BY DEF Struct, Written
      <3> QED
        BY <2>4, <3>1, AppendsStruct
    <2>11. overrun' \in BOOLEAN /\ (~ReallocFails => ~overrun')
      <3>1. overrun = FALSE
        BY <2>4 DEF Inv
      <3>2. overrun' = TRUE \/ overrun' = FALSE
        BY <2>7, <3>1
      <3>3. ~ReallocFails => overrun' = FALSE
        BY <2>7, <3>1
      <3> QED
        BY <3>2, <3>3
    <2>12. Inv'
      BY <2>7, <2>10, <2>11 DEF Inv, NoOverrun
    <2> QED
      BY <2>4, <2>6, <2>7, <2>9, <2>11, <2>12
  <1> QED
    BY <1>2, <1>3

LEMMA ConsumeStep ==
  ASSUME Inv, NEW n \in 1 .. Readable(buffer), Consume(n)
  PROVE  /\ Inv'
         /\ n <= Len(Content(buffer))
         /\ Content(buffer') = SubSeq(Content(buffer), n + 1, Len(Content(buffer)))
  <1>1. Sound(buffer) /\ Struct(buffer)
    BY DEF Inv
  <1>2. buffer' = [data |-> buffer.data, readIndex |-> buffer.readIndex + n,
                   writeIndex |-> buffer.writeIndex, total_size |-> buffer.total_size]
    BY <1>1 DEF Consume, Struct
  <1>3. n \in Nat /\ n <= Readable(buffer) /\ Readable(buffer) \in Nat /\ overrun' = overrun
    BY <1>1 DEF Consume, Sound, Readable
  <1>4. Sound(buffer)'
    BY <1>1, <1>2, <1>3 DEF Sound, Readable
  <1>5. Inv'
    BY <1>2, <1>3, <1>4 DEF Inv, Struct, NoOverrun
  <1>6. Readable(buffer') = Readable(buffer) - n
    BY <1>1, <1>2, <1>3 DEF Sound, Readable
  <1>7. Content(buffer) \in Seq(Byte) /\ Len(Content(buffer)) = Readable(buffer)
    BY <1>1, ContentType
  <1>8. Content(buffer') = [i \in 1 .. Readable(buffer) - n |->
                              buffer.data[buffer.readIndex + n + i - 1]]
    BY <1>2, <1>6 DEF Content
  <1>9. SubSeq(Content(buffer), n + 1, Readable(buffer))
          = [i \in 1 .. Readable(buffer) - n |-> Content(buffer)[n + i]]
    BY <1>3, <1>7
  <1>10. \A i \in 1 .. Readable(buffer) - n :
           Content(buffer)[n + i] = buffer.data[buffer.readIndex + n + i - 1]
    <2> SUFFICES ASSUME NEW i \in 1 .. Readable(buffer) - n
                 PROVE  Content(buffer)[n + i] = buffer.data[buffer.readIndex + n + i - 1]
      OBVIOUS
    <2>1. n + i \in 1 .. Readable(buffer)
      BY <1>3
    <2>2. Content(buffer)[n + i] = buffer.data[buffer.readIndex + (n + i) - 1]
      BY <2>1 DEF Content
    <2>3. buffer.readIndex + (n + i) - 1 = buffer.readIndex + n + i - 1
      BY <1>1, <1>3 DEF Sound
    <2> QED
      BY <2>2, <2>3
  <1>11. Content(buffer') = SubSeq(Content(buffer), n + 1, Readable(buffer))
    BY <1>8, <1>9, <1>10
  <1> QED
    BY <1>3, <1>5, <1>7, <1>11

LEMMA InvInit == Init => Inv
  <1> SUFFICES ASSUME Init PROVE Inv
    OBVIOUS
  <1>1. Sound(buffer)
    BY SizesAssumption DEF Init, Sound
  <1>2. Struct(buffer)
    BY DEF Init, Struct
  <1>3. buffer.total_size <= MaxTotal /\ overrun = FALSE
    BY SizesAssumption DEF Init
  <1> QED
    BY <1>1, <1>2, <1>3 DEF Inv, NoOverrun

LEMMA InvStep == Inv /\ [Next]_vars => Inv'
  <1> SUFFICES ASSUME Inv, [Next]_vars PROVE Inv'
    OBVIOUS
  <1>1. CASE UNCHANGED vars
    BY <1>1 DEF vars, Inv, Sound, Struct, NoOverrun
  <1>2. ASSUME NEW s \in Chunk, BufferAppend(s) PROVE Inv'
    BY <1>2, AppendStep, SequencesOfBytes
  <1>3. ASSUME NEW s \in Received, SocketRead(s) PROVE Inv'
    BY <1>3, ReadStep, SequencesOfBytes DEF Inv
  <1>4. ASSUME NEW n \in 1 .. Readable(buffer), Consume(n) PROVE Inv'
    BY <1>4, ConsumeStep
  <1> QED
    BY <1>1, <1>2, <1>3, <1>4 DEF Next

LEMMA Invariance == Spec => []Inv
  BY InvInit, InvStep, PTL DEF Spec

(* The fields of struct buffer keep their ranges.                          *)
THEOREM Typing == Spec => []TypeOK
  <1>1. Inv => TypeOK
    <2> SUFFICES ASSUME Inv PROVE TypeOK
      OBVIOUS
    <2>1. /\ buffer.total_size \in InitSize .. MaxTotal
          /\ buffer.readIndex \in 0 .. buffer.total_size
          /\ buffer.writeIndex \in 0 .. buffer.total_size
          /\ buffer.data \in [0 .. buffer.total_size - 1 -> Byte \cup {Junk}]
      BY SizesAssumption DEF Inv, Sound
    <2>2. PICK n \in InitSize .. MaxTotal : n = buffer.total_size
      BY <2>1
    <2>3. buffer \in [data : [0 .. n - 1 -> Byte \cup {Junk}],
                      readIndex : 0 .. n, writeIndex : 0 .. n, total_size : {n}]
      BY <2>1, <2>2 DEF Inv, Struct
    <2> QED
      BY <2>3 DEF TypeOK, Inv
  <1> QED
    BY <1>1, Invariance, PTL

(* No reader of the buffer ever sees a byte that was not written to it.    *)
THEOREM NothingUnwritten == Spec => []ReadableWasWritten
  <1>1. Inv => ReadableWasWritten
    BY DEF Inv, Sound, ReadableWasWritten
  <1> QED
    BY <1>1, Invariance, PTL

(* Appending stays inside the array, when realloc never returns NULL.      *)
THEOREM InBounds == Spec => []NoOverrun
  <1>1. Inv => NoOverrun
    BY DEF Inv
  <1> QED
    BY <1>1, Invariance, PTL

(* The buffer neither shows nor touches memory that is not its own.        *)
THEOREM MemorySafety == Spec => []MemorySafe
  BY NothingUnwritten, InBounds, PTL DEF MemorySafe

(* Every operation does to the readable bytes what the operation of        *)
(* ByteQueue does to its content.                                          *)
THEOREM Agreement == Spec => OperationsAgree
  <1> DEFINE A == /\ \A s \in Chunk : BufferAppend(s) /\ ~overrun' => Queue!Write(s)
                  /\ \A s \in Received : SocketRead(s) /\ ~overrun' => Queue!Write(s)
                  /\ \A n \in 1 .. Readable(buffer) : Consume(n) => Queue!Take(n)
  <1>1. Inv => A
    <2> SUFFICES ASSUME Inv PROVE A
      OBVIOUS
    <2>1. ASSUME NEW s \in Chunk, BufferAppend(s), ~overrun' PROVE Queue!Write(s)
      BY <2>1, AppendStep, SequencesOfBytes DEF Queue!Write
    <2>2. ASSUME NEW s \in Received, SocketRead(s), ~overrun' PROVE Queue!Write(s)
      BY <2>2, ReadStep, SequencesOfBytes DEF Queue!Write, Inv
    <2>3. ASSUME NEW n \in 1 .. Readable(buffer), Consume(n) PROVE Queue!Take(n)
      BY <2>3, ConsumeStep DEF Queue!Take
    <2> QED
      BY <2>1, <2>2, <2>3
  <1> DEFINE B == buffer' # buffer => A
  <1>2. Inv /\ [Next]_vars => [B]_vars
    BY <1>1
  <1> QED
    BY <1>2, Invariance, PTL DEF Spec, OperationsAgree

-----------------------------------------------------------------------------
(* Every error that ends the work of a writer or of the parser of version  *)
(* 2, or tells of a port, has a number, and the number is not zero.        *)
LEMMA ErrorsAre ==
  ASSUME NEW i \in 1 .. Len(Errors)
  PROVE  ERR(Errors[i]) \in Nat \ {0}
  <1>1. ERR(Errors[i]) \in 1 .. Len(Errors)
    BY DEF ERR
  <1>2. Len(Errors) \in Nat
    BY DEF Errors
  <1> QED
    BY <1>1, <1>2

LEMMA ErrorNumbers ==
  /\ \A name \in {"PP_VERSION", "PP2_VERSION", "PP2_CMD", "PP2_ADDR_FAMILY", "PP2_TRANSPORT_PROTOCOL",
                   "PP2_LENGTH"} : ERR(name) \in Nat \ {0}
  /\ \A name \in {"PP2_IPV4_SRC_IP", "PP2_IPV4_DST_IP", "PP2_IPV6_SRC_IP", "PP2_IPV6_DST_IP"} :
       ERR(name) \in Nat \ {0}
  /\ \A name \in {"PP2_TLV_LENGTH", "PP2_TYPE_CRC32C", "PP2_TYPE_SSL", "PP2_TYPE_UNIQUE_ID",
                   "PP2_TYPE_AWS", "PP2_TYPE_AZURE"} : ERR(name) \in Nat \ {0}
  /\ \A name \in {"PP1_CRLF", "PP1_SRC_PORT", "PP1_DST_PORT"} : ERR(name) \in Nat \ {0}
  <1> DEFINE G(i) == ERR(Errors[i]) \in Nat \ {0}
  <1>1. \A i \in 1 .. 28 : G(i)
    <2>1. Len(Errors) = 28
      BY DEF Errors
    <2> QED
      BY <2>1, ErrorsAre
  <1> HIDE DEF G
  <1>2. /\ G(1) /\ G(3) /\ G(4) /\ G(5) /\ G(6) /\ G(7) /\ G(8) /\ G(9) /\ G(10) /\ G(11)
        /\ G(12) /\ G(13) /\ G(14) /\ G(15) /\ G(16) /\ G(17) /\ G(18) /\ G(26) /\ G(27)
    BY <1>1
  <1>3. /\ Errors[1] = "PP_VERSION" /\ Errors[3] = "PP2_VERSION" /\ Errors[4] = "PP2_CMD"
        /\ Errors[5] = "PP2_ADDR_FAMILY" /\ Errors[6] = "PP2_TRANSPORT_PROTOCOL"
        /\ Errors[7] = "PP2_LENGTH" /\ Errors[8] = "PP2_IPV4_SRC_IP"
        /\ Errors[9] = "PP2_IPV4_DST_IP" /\ Errors[10] = "PP2_IPV6_SRC_IP"
        /\ Errors[11] = "PP2_IPV6_DST_IP" /\ Errors[12] = "PP2_TLV_LENGTH"
        /\ Errors[13] = "PP2_TYPE_CRC32C" /\ Errors[14] = "PP2_TYPE_SSL"
        /\ Errors[15] = "PP2_TYPE_UNIQUE_ID" /\ Errors[16] = "PP2_TYPE_AWS"
        /\ Errors[17] = "PP2_TYPE_AZURE" /\ Errors[18] = "PP1_CRLF"
        /\ Errors[26] = "PP1_SRC_PORT" /\ Errors[27] = "PP1_DST_PORT"
    BY DEF Errors
  <1> QED
    BY <1>2, <1>3 DEF G

-----------------------------------------------------------------------------
(* Induction over the naturals, for sets, which the provers can use: the   *)
(* least element that is missing would follow one that is not.             *)
LEMMA Least ==
  ASSUME NEW S \in SUBSET Nat, S # {}
  PROVE  \E n \in S : \A m \in S : n <= m
  <1> DEFINE R == {ss \in Nat \X Nat : ss[1] < ss[2]}
  <1>1. IsWellFoundedOn(R, Nat)
    BY NatLessThanWellFounded DEF OpToRel
  <1>2. \A m, n \in Nat : m < n => <<m, n>> \in R
    OBVIOUS
  <1>0. S \subseteq Nat
    OBVIOUS
  <1> HIDE DEF R
  <1>3. PICK x \in S : \A y \in S : ~(<<y, x>> \in R)
    BY <1>0, <1>1, WFMin, Zenon
  <1>4. \A y \in S : x <= y
    <2> SUFFICES ASSUME NEW y \in S, y < x PROVE FALSE
      OBVIOUS
    <2> QED
      BY <1>0, <1>2, <1>3, Zenon
  <1> QED
    BY <1>4

LEMMA Induction ==
  ASSUME NEW S \in SUBSET Nat, 0 \in S, \A n \in S : n + 1 \in S
  PROVE  S = Nat
  <1> SUFFICES ASSUME Nat \ S # {} PROVE FALSE
    OBVIOUS
  <1>1. PICK n \in Nat \ S : \A m \in Nat \ S : n <= m
    BY Least
  <1>2. n # 0 /\ n - 1 \in Nat
    BY <1>1
  <1>3. n - 1 \in S
    BY <1>1, <1>2
  <1> QED
    BY <1>1, <1>2, <1>3

-----------------------------------------------------------------------------
(* The PROXY library: the array of TLVs, at the end that adds to it and at *)
(* the end that parses.                                                    *)

(* The array has room for what it holds.                                   *)
Roomy(info) ==
  /\ {"tlvs", "size", "ssl", "crc32c"} \subseteq DOMAIN info
  /\ \E S : info.tlvs \in Seq(S)
  /\ info.size \in Nat /\ Len(info.tlvs) <= info.size

LEMMA AppendedRoomy ==
  ASSUME NEW info, Roomy(info), NEW tlv
  PROVE  Roomy(Appended(info, tlv))
  <1>1. PICK S : info.tlvs \in Seq(S)
    BY DEF Roomy
  <1>2. PICK n \in Nat : n = Len(info.tlvs)
    BY <1>1
  <1>3. PICK m \in Nat : m = info.size /\ n <= m
    BY <1>2 DEF Roomy
  <1>4. /\ Append(info.tlvs, tlv) \in Seq(S \cup {tlv})
        /\ Len(Append(info.tlvs, tlv)) = n + 1
    <2>1. info.tlvs \in Seq(S \cup {tlv})
      BY <1>1
    <2> QED
      BY <1>2, <2>1
  <1>5. Room(n, m) \in Nat /\ n + 1 <= Room(n, m)
    BY <1>3 DEF Room
  <1> DEFINE new == Appended(info, tlv)
  <1>6. /\ new.tlvs = Append(info.tlvs, tlv) /\ new.size = Room(n, m)
        /\ DOMAIN new = DOMAIN info
    BY <1>2, <1>3 DEF Appended, Roomy
  <1> HIDE DEF new
  <1>7. Roomy(new)
    BY <1>4, <1>5, <1>6 DEF Roomy
  <1> QED
    BY <1>7 DEF new

LEMMA FlagsRoomy ==
  ASSUME NEW info, Roomy(info), NEW v
  PROVE  Roomy([info EXCEPT !.ssl = v]) /\ Roomy([info EXCEPT !.crc32c = v])
  BY DEF Roomy

LEMMA ClearedRoomy ==
  ASSUME NEW a, NEW b, NEW c
  PROVE  /\ Roomy(Cleared)
         /\ Roomy([Cleared EXCEPT !.local = a, !.family = b, !.transport = c])
  <1>1. Cleared.tlvs = <<>> /\ Cleared.size = 0 /\ <<>> \in Seq({}) /\ Len(<<>>) = 0
    BY DEF Cleared
  <1>2. {"tlvs", "size", "ssl", "crc32c"} \subseteq DOMAIN Cleared
    BY DEF Cleared
  <1> DEFINE new == [Cleared EXCEPT !.local = a, !.family = b, !.transport = c]
  <1>3. /\ DOMAIN new = DOMAIN Cleared
        /\ new.tlvs = Cleared.tlvs /\ new.size = Cleared.size
    BY DEF Cleared
  <1> HIDE DEF new
  <1>4. Roomy(Cleared)
    BY <1>1, <1>2 DEF Roomy
  <1>5. Roomy(new)
    BY <1>1, <1>2, <1>3 DEF Roomy
  <1> QED
    BY <1>4, <1>5 DEF new

-----------------------------------------------------------------------------
(* The two loops of the parser, over TLVs and over the sub-TLVs of one.    *)

Round(of, s) == IF of = "TLVs" THEN NextTlv(s) ELSE TakeSub(s)
TheRound(of, x) == CHOOSE s \in {Round(of, r) : r \in {x}} : TRUE
Rounds(of, start, n, f) == f = [k \in 0 .. n |-> IF k = 0 THEN start ELSE TheRound(of, f[k - 1])]

LEMMA RoundsExist ==
  ASSUME NEW of, NEW start, NEW n \in Nat
  PROVE  \E f : Rounds(of, start, n, f)
  <1> DEFINE Onward(f, k) == IF k = 0 THEN start ELSE TheRound(of, f[k - 1])
             Upto(f, m) == DOMAIN f = 0 .. m /\ \A k \in 0 .. m : f[k] = Onward(f, k)
             G == {m \in Nat : \E f : Upto(f, m)}
  <1>1. 0 \in G
    <2>1. Upto([k \in 0 .. 0 |-> start], 0)
      OBVIOUS
    <2> QED
      BY <2>1
  <1>2. ASSUME NEW m \in G PROVE m + 1 \in G
    <2>1. PICK f : Upto(f, m)
      OBVIOUS
    <2> DEFINE g == [k \in 0 .. m + 1 |-> IF k = m + 1 THEN Onward(f, k) ELSE f[k]]
    <2>2. \A k \in 0 .. m : g[k] = f[k] /\ k - 1 <= m
      OBVIOUS
    <2>3. g[m + 1] = Onward(f, m + 1)
      OBVIOUS
    <2>4. DOMAIN g = 0 .. m + 1
      OBVIOUS
    <2> HIDE DEF g
    <2>5. \A k \in 0 .. m + 1 : Onward(g, k) = Onward(f, k)
      BY <2>2
    <2>6. Upto(g, m + 1)
      BY <2>1, <2>2, <2>3, <2>4, <2>5
    <2> QED
      BY <2>6
  <1>3. G \in SUBSET Nat
    OBVIOUS
  <1>4. n \in G
    <2> HIDE DEF G
    <2>1. G = Nat
      BY <1>1, <1>2, <1>3, Induction
    <2> QED
      BY <2>1
  <1>5. PICK f : Upto(f, n)
    BY <1>4
  <1> DEFINE g == [k \in 0 .. n |-> f[k]]
  <1>6. \A k \in 0 .. n : g[k] = f[k] /\ (k # 0 => g[k - 1] = f[k - 1])
    OBVIOUS
  <1>7. g = [k \in 0 .. n |-> IF k = 0 THEN start ELSE TheRound(of, g[k - 1])]
    BY <1>5, <1>6
  <1> QED
    BY <1>7 DEF Rounds

LEMMA RoundIs ==
  ASSUME NEW of, NEW x
  PROVE  TheRound(of, x) = Round(of, x)
  BY DEF TheRound

SubTlvs(start, n) == Loop(TakeSub, start, n)
AllTlvs(start, n) == Loop(NextTlv, start, n)

(* Each round starts from what the one before it left.                     *)
SubChain(f, start, n) ==
  f[0] = start /\ SubTlvs(start, n) = f[n] /\ \A k \in 1 .. n : f[k] = TakeSub(f[k - 1])
TlvChain(f, start, n) ==
  f[0] = start /\ AllTlvs(start, n) = f[n] /\ \A k \in 1 .. n : f[k] = NextTlv(f[k - 1])

LEMMA LoopsAre ==
  ASSUME NEW start, NEW n \in Nat
  PROVE  (\E f : SubChain(f, start, n)) /\ (\E f : TlvChain(f, start, n))
  <1> DEFINE S(f) == [k \in 0 .. n |->
                       IF k = 0 THEN start ELSE CHOOSE s \in {TakeSub(r) : r \in {f[k - 1]}} : TRUE]
             T(f) == [k \in 0 .. n |->
                       IF k = 0 THEN start ELSE CHOOSE s \in {NextTlv(r) : r \in {f[k - 1]}} : TRUE]
             s == CHOOSE f : f = S(f)
             t == CHOOSE f : f = T(f)
  <1>1. \A f : S(f) = [k \in 0 .. n |-> IF k = 0 THEN start ELSE TheRound("sub-TLVs", f[k - 1])]
    BY DEF TheRound, Round
  <1>2. \A f : T(f) = [k \in 0 .. n |-> IF k = 0 THEN start ELSE TheRound("TLVs", f[k - 1])]
    BY DEF TheRound, Round
  <1>3. SubTlvs(start, n) = s[n] /\ AllTlvs(start, n) = t[n]
    BY DEF SubTlvs, AllTlvs, Loop
  <1>4. s = S(s)
    <2>1. PICK f : Rounds("sub-TLVs", start, n, f)
      BY RoundsExist
    <2>2. f = S(f)
      BY <1>1, <2>1 DEF Rounds
    <2> HIDE DEF S
    <2> QED
      BY <2>2, Zenon
  <1>5. t = T(t)
    <2>1. PICK f : Rounds("TLVs", start, n, f)
      BY RoundsExist
    <2>2. f = T(f)
      BY <1>2, <2>1 DEF Rounds
    <2> HIDE DEF T
    <2> QED
      BY <2>2, Zenon
  <1> HIDE DEF S, T, s, t
  <1>6. /\ s[0] = start
        /\ \A k \in 1 .. n : s[k] = TheRound("sub-TLVs", s[k - 1])
    BY <1>1, <1>4
  <1>7. /\ t[0] = start
        /\ \A k \in 1 .. n : t[k] = TheRound("TLVs", t[k - 1])
    BY <1>2, <1>5
  <1>8. \A k \in 1 .. n : s[k] = TakeSub(s[k - 1]) /\ t[k] = NextTlv(t[k - 1])
    BY <1>6, <1>7, RoundIs DEF Round
  <1>9. SubChain(s, start, n)
    BY ONLY <1>3, <1>6, <1>8 DEF SubChain
  <1>10. TlvChain(t, start, n)
    BY ONLY <1>3, <1>7, <1>8 DEF TlvChain
  <1> QED
    BY ONLY <1>9, <1>10

(* The sub-TLVs: whatever the bytes are.                                   *)
SubState(s) ==
  /\ {"rc", "info", "at", "version"} \subseteq DOMAIN s
  /\ s.rc \in Int /\ Roomy(s.info)

LEMMA TakeSubKeeps ==
  ASSUME NEW s, SubState(s)
  PROVE  SubState(TakeSub(s))
  <1> DEFINE type  == s.value[s.at]
             len   == 256 * s.value[s.at + 1] + s.value[s.at + 2]
             value == SubSeq(s.value, s.at + 3, s.at + 2 + len)
             onward  == [s EXCEPT !.at = @ + 3 + len]
             text  == KeepText(onward, type, value)
             plain == Keep(onward, type, value)
             noted == [text EXCEPT !.version = 1]
  <1>1. TakeSub(s) \in {s, noted, text, plain, Fail(s, "PP2_TYPE_SSL"), Astray(s)}
    BY DEF TakeSub
  <1>2. SubState(onward)
    BY DEF SubState
  <1> HIDE DEF onward, type, value
  <1>3. SubState(text) /\ SubState(plain)
    <2>1. /\ Roomy(AppendUsAscii(onward.info, type, value))
          /\ Roomy(AppendNew(onward.info, type, value))
      BY <1>2, AppendedRoomy DEF SubState, AppendUsAscii, AppendNew
    <2> QED
      BY <1>2, <2>1 DEF SubState, Keep, KeepText
  <1>4. SubState(noted)
    <2> HIDE DEF text
    <2> QED
      BY <1>3 DEF SubState
  <1>5. SubState(Fail(s, "PP2_TYPE_SSL"))
    <2>0. ERR("PP2_TYPE_SSL") \in Nat
      BY ONLY ErrorNumbers
    <2>1. -ERR("PP2_TYPE_SSL") \in Int
      BY ONLY <2>0
    <2> QED
      BY <2>1 DEF SubState, Fail
  <1>6. SubState(Astray(s))
    BY DEF SubState, Astray, Undefined
  <1> HIDE DEF text, plain, noted
  <1> QED
    BY <1>1, <1>3, <1>4, <1>5, <1>6

LEMMA SubTlvsKeep ==
  ASSUME NEW start, SubState(start), NEW n \in Nat
  PROVE  SubState(SubTlvs(start, n))
  <1>1. PICK f : /\ f[0] = start /\ SubTlvs(start, n) = f[n]
                 /\ \A k \in 1 .. n : f[k] = TakeSub(f[k - 1])
    <2>1. PICK f : SubChain(f, start, n)
      BY LoopsAre
    <2> QED
      BY ONLY <2>1 DEF SubChain
  <1> DEFINE G == {k \in Nat : k <= n => SubState(f[k])}
  <1>2. 0 \in G
    BY <1>1
  <1>3. ASSUME NEW k \in G PROVE k + 1 \in G
    <2>1. CASE k + 1 <= n
      <3>1. k + 1 \in 1 .. n /\ (k + 1) - 1 = k /\ SubState(f[k])
        BY <2>1
      <3>2. f[k + 1] = TakeSub(f[k])
        BY <1>1, <3>1
      <3> QED
        BY <3>1, <3>2, TakeSubKeeps
    <2>2. CASE ~(k + 1 <= n)
      BY <2>2
    <2> QED
      BY <2>1, <2>2
  <1>4. G \in SUBSET Nat
    OBVIOUS
  <1> HIDE DEF G
  <1>5. G = Nat
    BY <1>2, <1>3, <1>4, Induction
  <1> QED
    BY <1>1, <1>5 DEF G

(* A TLV.  The parser in the midst of its work.                            *)
Reading(s) ==
  /\ DOMAIN s = {"rc", "info", "buf", "at", "left"}
  /\ s.rc \in Int /\ Roomy(s.info)

LEMMA BlankedBytes ==
  ASSUME NEW buf \in Seq(Octet), NEW from, NEW n
  PROVE  Blanked(buf, from, n) \in Seq(Octet) /\ Len(Blanked(buf, from, n)) = Len(buf)
  <1> DEFINE N == Len(buf)
             r == Blanked(buf, from, n)
  <1>1. N \in Nat /\ buf = [i \in 1 .. N |-> buf[i]] /\ \A i \in 1 .. N : buf[i] \in Octet
    OBVIOUS
  <1>2. r = [i \in 1 .. N |-> IF i \in from .. from + n - 1 THEN 0 ELSE buf[i]]
    BY DEF Blanked
  <1>3. \A i \in 1 .. N : r[i] \in Octet
    BY <1>1, <1>2 DEF Octet
  <1> HIDE DEF r, N
  <1>4. r \in [1 .. N -> Octet]
    BY <1>2, <1>3
  <1>5. r \in Seq(Octet) /\ Len(r) = N
    BY <1>1, <1>4
  <1> QED
    BY <1>5 DEF r, N

LEMMA TakeSslKeeps ==
  ASSUME NEW s, Reading(s), NEW value \in Seq(Octet)
  PROVE  /\ Reading(TakeSsl(s, value))
         /\ TakeSsl(s, value).buf = s.buf
         /\ TakeSsl(s, value).at = s.at /\ TakeSsl(s, value).left = s.left
  <1> DEFINE bit(n) == (value[1] \div n) % 2
             flags == [ssl |-> bit(1), conn |-> bit(2), sess |-> bit(4),
                       verified |-> IF SubSeq(value, 2, 5) = Zeros(4) THEN 1 ELSE 0]
             start == [rc |-> 0, info |-> [s.info EXCEPT !.ssl = flags], value |-> value,
                       at |-> 6, version |-> 0]
             end   == SubTlvs(start, Len(value) \div 3)
             failed == [s EXCEPT !.rc = end.rc, !.info = end.info]
             wrong == [Fail(s, "PP2_TYPE_SSL") EXCEPT !.info = end.info]
             taken == [s EXCEPT !.info = end.info]
             lost  == Astray(s)
  <1>1. TakeSsl(s, value) \in {failed, wrong, taken, lost}
    <2> HIDE DEF end, flags
    <2> QED
      BY DEF TakeSsl, SubTlvs, end, flags
  <1>2. SubState(start)
    <2> HIDE DEF flags
    <2>1. Roomy([s.info EXCEPT !.ssl = flags])
      BY FlagsRoomy DEF Reading
    <2> QED
      BY <2>1 DEF SubState
  <1>3. Len(value) \div 3 \in Nat
    OBVIOUS
  <1> HIDE DEF start
  <1>4. Roomy(end.info) /\ end.rc \in Int
    BY <1>2, <1>3, SubTlvsKeep DEF SubState
  <1> HIDE DEF end
  <1>5. \A t \in {failed, wrong, taken, lost} :
          Reading(t) /\ t.buf = s.buf /\ t.at = s.at /\ t.left = s.left
    <2>0. ERR("PP2_TYPE_SSL") \in Nat
      BY ONLY ErrorNumbers
    <2>1. -ERR("PP2_TYPE_SSL") \in Int
      BY ONLY <2>0
    <2>2. Reading(s)
      OBVIOUS
    <2>3. Reading(lost) /\ lost.buf = s.buf /\ lost.at = s.at /\ lost.left = s.left
      BY ONLY <2>2 DEF Reading, Astray, Undefined
    <2> HIDE DEF lost
    <2> QED
      BY ONLY <1>4, <2>1, <2>2, <2>3 DEF Reading, Fail
  <1> HIDE DEF failed, wrong, taken, lost
  <1> QED
    BY <1>1, <1>5

LEMMA KeepReading ==
  ASSUME NEW s, Reading(s), NEW type, NEW value, NEW name, ERR(name) \in Nat
  PROVE  /\ Reading(Keep(s, type, value)) /\ Reading(KeepText(s, type, value))
         /\ Reading(Fail(s, name))
         /\ \A t \in {Keep(s, type, value), KeepText(s, type, value), Fail(s, name)} :
              t.buf = s.buf /\ t.at = s.at /\ t.left = s.left
  <1>1. /\ Roomy(AppendUsAscii(s.info, type, value))
        /\ Roomy(AppendNew(s.info, type, value))
    BY AppendedRoomy DEF Reading, AppendUsAscii, AppendNew
  <1>2. -ERR(name) \in Int
    OBVIOUS
  <1> QED
    BY <1>1, <1>2 DEF Reading, Keep, KeepText, Fail

(* The same place in the same buffer, but for bytes set to zero.           *)
SamePlace(t, s) ==
  /\ Reading(t) /\ t.at = s.at /\ t.left = s.left
  /\ t.buf \in Seq(Octet) /\ Len(t.buf) = Len(s.buf)

LEMMA TakeCrc32cKeeps ==
  ASSUME NEW s, Reading(s), s.buf \in Seq(Octet), NEW value
  PROVE  SamePlace(TakeCrc32c(s, value), s)
  <1> DEFINE blank == Blanked(s.buf, s.at + 3, 4)
             failed == Fail(s, "PP2_TYPE_CRC32C")
             wrong == [failed EXCEPT !.buf = blank]
             kept  == Keep(s, Type.CRC32C, value)
             right == [kept EXCEPT !.buf = blank, !.info.crc32c = 1]
  <1>1. TakeCrc32c(s, value) \in {failed, wrong, right}
    BY DEF TakeCrc32c
  <1>2. blank \in Seq(Octet) /\ Len(blank) = Len(s.buf)
    BY BlankedBytes
  <1>3. /\ Reading(kept) /\ kept.at = s.at /\ kept.left = s.left
        /\ Reading(failed) /\ failed.at = s.at /\ failed.left = s.left /\ failed.buf = s.buf
    <2>1. ERR("PP2_TYPE_CRC32C") \in Nat
      BY ONLY ErrorNumbers
    <2> QED
      BY <2>1, KeepReading
  <1> HIDE DEF blank, failed, kept
  <1>4. SamePlace(failed, s)
    BY <1>3 DEF SamePlace
  <1>5. SamePlace(wrong, s)
    BY <1>2, <1>3 DEF SamePlace, Reading
  <1>6. SamePlace(right, s)
    <2>1. Roomy([kept.info EXCEPT !.crc32c = 1])
      BY <1>3, FlagsRoomy DEF Reading
    <2>2. /\ DOMAIN right = DOMAIN kept /\ right.rc = kept.rc
          /\ right.info = [kept.info EXCEPT !.crc32c = 1]
          /\ right.buf = blank /\ right.at = kept.at /\ right.left = kept.left
      BY <1>3 DEF Reading
    <2> HIDE DEF right
    <2> QED
      BY <1>2, <1>3, <2>1, <2>2 DEF SamePlace, Reading
  <1> HIDE DEF wrong, right
  <1> QED
    BY <1>1, <1>4, <1>5, <1>6

LEMMA TakeTlvKeeps ==
  ASSUME NEW s, Reading(s), s.buf \in Seq(Octet), NEW type, NEW value \in Seq(Octet)
  PROVE  SamePlace(TakeTlv(s, type, value), s)
  <1> DEFINE names == {"PP2_TYPE_UNIQUE_ID", "PP2_TYPE_AWS", "PP2_TYPE_AZURE"}
  <1>1. TakeTlv(s, type, value) \in
          {s, Keep(s, type, value), KeepText(s, type, value), TakeCrc32c(s, value), TakeSsl(s, value)}
          \cup {Fail(s, name) : name \in names}
    BY DEF TakeTlv
  <1>2. SamePlace(s, s)
    BY DEF SamePlace
  <1>3. \A name \in names : ERR(name) \in Nat
    BY ErrorNumbers
  <1>4. /\ SamePlace(Keep(s, type, value), s) /\ SamePlace(KeepText(s, type, value), s)
        /\ \A name \in names : SamePlace(Fail(s, name), s)
    <2>1. ERR("PP2_TYPE_AWS") \in Nat
      BY <1>3
    <2>2. SamePlace(Keep(s, type, value), s) /\ SamePlace(KeepText(s, type, value), s)
      BY <2>1, KeepReading DEF SamePlace
    <2>3. \A name \in names : SamePlace(Fail(s, name), s)
      BY <1>3, KeepReading DEF SamePlace
    <2> QED
      BY <2>2, <2>3
  <1>5. SamePlace(TakeCrc32c(s, value), s)
    BY TakeCrc32cKeeps
  <1>6. SamePlace(TakeSsl(s, value), s)
    BY TakeSslKeeps DEF SamePlace
  <1> QED
    BY <1>1, <1>2, <1>4, <1>5, <1>6

LEMMA ByteAt ==
  ASSUME NEW b \in Seq(Octet), NEW i \in 1 .. Len(b)
  PROVE  b[i] \in Nat /\ b[i] < 256
  <1>1. b[i] \in Octet
    OBVIOUS
  <1>2. \A x \in Octet : x \in Nat /\ x < 256
    BY DEF Octet
  <1> QED
    BY <1>1, <1>2, Zenon

(* The rest of the announced length is in the buffer.                      *)
InBuffer(s) ==
  /\ Reading(s)
  /\ s.buf \in Seq(Octet) /\ s.at \in Nat \ {0} /\ s.left \in Int
  /\ s.left > 3 => s.at + s.left <= Len(s.buf) + 1

LEMMA NextTlvKeeps ==
  ASSUME NEW s, InBuffer(s)
  PROVE  InBuffer(NextTlv(s))
  <1> DEFINE len  == 256 * s.buf[s.at + 1] + s.buf[s.at + 2]
             step == (3 + len) % 65536
             value == SubSeq(s.buf, s.at + 3, s.at + 2 + len)
             read == TakeTlv(s, s.buf[s.at], value)
             onward == [read EXCEPT !.at = @ + 3 + len, !.left = @ - 3 - len]
  <1>1. CASE s.rc < 0 \/ s.left <= 3
    BY <1>1 DEF NextTlv
  <1>2. CASE ~(s.rc < 0 \/ s.left <= 3) /\ step > s.left
    <2>1. NextTlv(s) = Fail(s, "PP2_TLV_LENGTH")
      BY <1>2 DEF NextTlv
    <2>2. LET t == Fail(s, "PP2_TLV_LENGTH") IN
            Reading(t) /\ t.buf = s.buf /\ t.at = s.at /\ t.left = s.left
      <3>1. ERR("PP2_TLV_LENGTH") \in Nat
        BY ONLY ErrorNumbers
      <3> QED
        BY <3>1, KeepReading DEF InBuffer
    <2> QED
      BY <2>1, <2>2 DEF InBuffer
  <1>4. CASE ~(s.rc < 0 \/ s.left <= 3) /\ ~(step > s.left) /\ step < 3
    <2>1. NextTlv(s) = TakeOverlong(s, s.buf[s.at])
      BY <1>4 DEF NextTlv
    <2>2. NextTlv(s) \in {Fail(s, "PP2_TYPE_CRC32C"), Fail(s, "PP2_TYPE_UNIQUE_ID"), Astray(s)}
      BY <2>1 DEF TakeOverlong
    <2>3. \A t \in {Fail(s, "PP2_TYPE_CRC32C"), Fail(s, "PP2_TYPE_UNIQUE_ID")} :
            Reading(t) /\ t.buf = s.buf /\ t.at = s.at /\ t.left = s.left
      <3>1. ERR("PP2_TYPE_CRC32C") \in Nat /\ ERR("PP2_TYPE_UNIQUE_ID") \in Nat
        BY ONLY ErrorNumbers
      <3> QED
        BY <3>1, KeepReading DEF InBuffer
    <2>4. LET t == Astray(s) IN
            Reading(t) /\ t.buf = s.buf /\ t.at = s.at /\ t.left = s.left
      BY DEF Astray, Undefined, InBuffer, Reading
    <2> QED
      BY <2>2, <2>3, <2>4 DEF InBuffer
  <1>3. CASE ~(s.rc < 0 \/ s.left <= 3) /\ ~(step > s.left) /\ ~(step < 3)
    <2>1. NextTlv(s) \in {read, onward}
      BY <1>3 DEF NextTlv
    <2>2. PICK n \in Nat : n = Len(s.buf)
      BY DEF InBuffer
    <2>3. PICK at \in Nat \ {0}, left \in Int : at = s.at /\ left = s.left
      BY DEF InBuffer
    <2>4. left > 3 /\ at + left <= n + 1
      BY <1>3, <2>2, <2>3 DEF InBuffer
    <2>5. at + 1 \in 1 .. n /\ at + 2 \in 1 .. n
      BY <2>4
    <2>6. PICK hi \in Nat, lo \in Nat : /\ hi = s.buf[at + 1] /\ lo = s.buf[at + 2]
                                        /\ hi < 256 /\ lo < 256
      <3>1. PICK buf \in Seq(Octet) : buf = s.buf
        BY DEF InBuffer
      <3>2. PICK i \in 1 .. Len(buf), j \in 1 .. Len(buf) : i = at + 1 /\ j = at + 2
        BY <2>2, <2>5, <3>1
      <3>3. buf[i] \in Nat /\ buf[j] \in Nat /\ buf[i] < 256 /\ buf[j] < 256
        BY ByteAt
      <3> QED
        BY <3>1, <3>2, <3>3, Zenon
    <2>7. PICK l \in Nat : l = len /\ 3 + l <= left
      <3>1. len = 256 * hi + lo
        BY <2>3, <2>6
      <3>2. step = (3 + len) % 65536 /\ ~(step > left) /\ ~(step < 3)
        BY <1>3, <2>3
      <3> HIDE DEF len, step
      <3>3. PICK l \in Nat : l = len /\ l < 65536
        BY ONLY <2>6, <3>1, hi \in Nat, lo \in Nat
      <3>4. step = IF 3 + l < 65536 THEN 3 + l ELSE 3 + l - 65536
        BY ONLY <3>2, <3>3, l \in Nat
      <3>5. 3 + l <= left
        BY ONLY <3>2, <3>3, <3>4, l \in Nat, left \in Int
      <3> QED
        BY <3>3, <3>5
    <2>8. value \in Seq(Octet)
      <3>1. at + 3 \in 1 .. n + 1 /\ at + 2 + l \in 0 .. n
        BY <2>4, <2>7
      <3>2. s.buf \in Seq(Octet) /\ SubSeq(s.buf, at + 3, at + 2 + l) \in Seq(Octet)
        BY <2>2, <3>1 DEF InBuffer
      <3> QED
        BY <2>3, <2>7, <3>2
    <2> HIDE DEF len, value
    <2>9. SamePlace(read, s)
      BY <2>8, TakeTlvKeeps DEF InBuffer
    <2> HIDE DEF read
    <2>10. InBuffer(read)
      BY <2>9 DEF SamePlace, InBuffer
    <2>11. InBuffer(onward)
      <3>1. /\ DOMAIN onward = DOMAIN read /\ onward.rc = read.rc
            /\ onward.info = read.info /\ onward.buf = read.buf
            /\ onward.at = at + 3 + l /\ onward.left = left - 3 - l
        BY <2>3, <2>7, <2>9 DEF SamePlace, Reading
      <3> HIDE DEF onward
      <3> QED
        BY <2>2, <2>4, <2>7, <2>9, <3>1 DEF SamePlace, Reading, InBuffer
    <2> HIDE DEF onward
    <2> QED
      BY <2>1, <2>10, <2>11
  <1> QED
    BY <1>1, <1>2, <1>3, <1>4

LEMMA AllTlvsKeep ==
  ASSUME NEW start, InBuffer(start), NEW n \in Nat
  PROVE  InBuffer(AllTlvs(start, n))
  <1>1. PICK f : /\ f[0] = start /\ AllTlvs(start, n) = f[n]
                 /\ \A k \in 1 .. n : f[k] = NextTlv(f[k - 1])
    <2>1. PICK f : TlvChain(f, start, n)
      BY LoopsAre
    <2> QED
      BY ONLY <2>1 DEF TlvChain
  <1> DEFINE G == {k \in Nat : k <= n => InBuffer(f[k])}
  <1>2. 0 \in G
    BY <1>1
  <1>3. ASSUME NEW k \in G PROVE k + 1 \in G
    <2>1. CASE k + 1 <= n
      <3>1. k + 1 \in 1 .. n /\ (k + 1) - 1 = k /\ InBuffer(f[k])
        BY <2>1
      <3>2. f[k + 1] = NextTlv(f[k])
        BY <1>1, <3>1
      <3> QED
        BY <3>1, <3>2, NextTlvKeeps
    <2>2. CASE ~(k + 1 <= n)
      BY <2>2
    <2> QED
      BY <2>1, <2>2
  <1>4. G \in SUBSET Nat
    OBVIOUS
  <1> HIDE DEF G
  <1>5. G = Nat
    BY <1>2, <1>3, <1>4, Induction
  <1> QED
    BY <1>1, <1>5 DEF G

LEMMA AddrRoomy ==
  ASSUME NEW info, Roomy(info), NEW buf
  PROVE  Roomy(TakeAddr(info, buf))
  <1> DEFINE part(from, n) == SubSeq(buf, from, from + n - 1)
             word(at)      == 256 * buf[at] + buf[at + 1]
             width         == IF info.family = INET THEN 4 ELSE 16
             path == [info EXCEPT !.src = PathText(part(17, UnixPath)),
                                  !.dst = PathText(part(17 + UnixPath, UnixPath))]
             inet == [info EXCEPT !.src = TextOf(info.family, part(17, width)),
                                  !.dst = TextOf(info.family, part(17 + width, width)),
                                  !.sport = word(17 + 2 * width), !.dport = word(19 + 2 * width)]
  <1>1. TakeAddr(info, buf) \in {info, path, inet}
    BY DEF TakeAddr
  <1>2. \A t \in {info, path, inet} : Roomy(t)
    <2> HIDE DEF part, word, width
    <2> QED
      BY DEF Roomy
  <1> HIDE DEF path, inet
  <1> QED
    BY <1>1, <1>2

LEMMA AddrLenType ==
  /\ AddrLen(UNSPEC) = 0 /\ AddrLen(INET) = 12 /\ AddrLen(INET6) = 36
  /\ AddrLen(UNIX) = 2 * UnixPath /\ UnixPath \in Nat
  /\ \A family \in UNSPEC .. UNIX : AddrLen(family) \in Nat
  <1>1. /\ AddrLen(UNSPEC) = 0 /\ AddrLen(INET) = 12 /\ AddrLen(INET6) = 36
        /\ AddrLen(UNIX) = 2 * UnixPath /\ UnixPath \in Nat
    BY UnixAssumption DEF AddrLen, UNSPEC, INET, INET6, UNIX
  <1>2. \A family \in UNSPEC .. UNIX : family \in {UNSPEC, INET, INET6, UNIX}
    BY DEF UNSPEC, INET, INET6, UNIX
  <1> QED
    BY <1>1, <1>2

(* Whatever bytes arrive, if those the header announces are there: the     *)
(* array has room, and a positive answer is the length of a whole header.  *)
LEMMA Parse2Answers ==
  ASSUME NEW buf \in Seq(Octet), Len(buf) >= 16, NEW n,
         Arrived(buf, n) => 16 + 256 * buf[15] + buf[16] <= Len(buf)
  PROVE  /\ Roomy(Parse2(buf, n).info)
         /\ Parse2(buf, n).rc > 0 =>
              Arrived(buf, n) /\ Parse2(buf, n).rc = 16 + 256 * buf[15] + buf[16]
  <1> DEFINE command   == buf[13] % 16
             family    == buf[14] \div 16
             transport == buf[14] % 16
             len       == 256 * buf[15] + buf[16]
             info  == [Cleared EXCEPT !.local = 1 - command, !.family = family,
                                      !.transport = transport]
             start == [rc |-> 0, info |-> info, buf |-> buf, at |-> 17, left |-> 0]
             addrs == [start EXCEPT !.info = TakeAddr(info, buf), !.at = 17 + AddrLen(family),
                                    !.left = IF family = UNIX THEN 0 ELSE len - AddrLen(family)]
             end   == AllTlvs(addrs, len \div 3)
             done  == [end EXCEPT !.rc = 16 + len]
             names == {"PP2_VERSION", "PP2_CMD", "PP2_ADDR_FAMILY", "PP2_TRANSPORT_PROTOCOL",
                       "PP2_LENGTH"}
  <1>1. \/ \E name \in names : Parse2(buf, n) = Fail(start, name)
        \/ /\ ~(family > UNIX) /\ Arrived(buf, n)
           /\ \/ Parse2(buf, n) = end /\ end.rc < 0
              \/ Parse2(buf, n) = done
    <2> HIDE DEF end, start, addrs
    <2> QED
      BY DEF Parse2, AllTlvs, end, start, addrs
  <1>2. Roomy(info)
    BY ClearedRoomy
  <1>3. Reading(start) /\ start.buf = buf
    <2> HIDE DEF info
    <2> QED
      BY <1>2 DEF Reading
  <1>4. \A name \in names : Roomy(Fail(start, name).info) /\ ~(Fail(start, name).rc > 0)
    <2> HIDE DEF start
    <2>1. \A name \in names : ERR(name) \in Nat
      BY ErrorNumbers
    <2>2. \A name \in names : Reading(Fail(start, name))
      BY <1>3, <2>1, KeepReading
    <2>3. \A name \in names : Fail(start, name).rc = -ERR(name)
      BY <1>3 DEF Fail, Reading
    <2> HIDE DEF names
    <2> QED
      BY <2>1, <2>2, <2>3 DEF Reading
  <1>5. ASSUME ~(family > UNIX), Arrived(buf, n)
        PROVE  Roomy(end.info) /\ Roomy(done.info) /\ end.rc \in Int /\ done.rc = 16 + len
    <2>1. /\ buf[14] \in Nat /\ buf[15] \in Nat /\ buf[16] \in Nat /\ Len(buf) \in Nat
      <3>1. 14 \in 1 .. Len(buf) /\ 15 \in 1 .. Len(buf) /\ 16 \in 1 .. Len(buf) /\ Len(buf) \in Nat
        OBVIOUS
      <3> QED
        BY <3>1, ByteAt
    <2>2. PICK l \in Nat : l = len
      BY <2>1
    <2>3. PICK N \in Nat : N = Len(buf) /\ 16 + l <= N
      BY <1>5, <2>1, <2>2
    <2>4. PICK f \in 0 .. 3 : f = family
      BY <1>5, <2>1 DEF UNIX
    <2>5. PICK a \in Nat : a = AddrLen(family)
      BY <2>4, AddrLenType DEF UNIX, UNSPEC
    <2>6. Roomy(TakeAddr(info, buf))
      BY <1>2, AddrRoomy
    <2> HIDE DEF info, len, family
    <2>7. /\ DOMAIN addrs = DOMAIN start /\ addrs.rc = 0 /\ addrs.info = TakeAddr(info, buf)
          /\ addrs.buf = buf /\ addrs.at = 17 + a
          /\ addrs.left = IF family = UNIX THEN 0 ELSE l - a
      BY <2>2, <2>5
    <2>8. InBuffer(addrs)
      <3> HIDE DEF addrs, start
      <3> QED
        BY <1>3, <2>3, <2>6, <2>7 DEF InBuffer, Reading
    <2>9. len \div 3 \in Nat
      BY <2>2
    <2> HIDE DEF addrs
    <2>10. InBuffer(end)
      BY <2>8, <2>9, AllTlvsKeep
    <2> HIDE DEF end
    <2> QED
      BY <2>10 DEF InBuffer, Reading
  <1>6. 16 + len = 16 + 256 * buf[15] + buf[16]
    <2>1. buf[15] \in Nat /\ buf[16] \in Nat
      <3>1. 15 \in 1 .. Len(buf) /\ 16 \in 1 .. Len(buf)
        OBVIOUS
      <3> QED
        BY <3>1, ByteAt
    <2> QED
      BY <2>1
  <1> HIDE DEF end, start, done, family, len, names
  <1>7. CASE \E name \in names : Parse2(buf, n) = Fail(start, name)
    BY <1>4, <1>7
  <1>8. CASE ~(family > UNIX) /\ Arrived(buf, n) /\ Parse2(buf, n) = end /\ end.rc < 0
    BY <1>5, <1>8
  <1>9. CASE ~(family > UNIX) /\ Arrived(buf, n) /\ Parse2(buf, n) = done
    BY <1>5, <1>6, <1>9
  <1> QED
    BY <1>1, <1>7, <1>8, <1>9

-----------------------------------------------------------------------------
(* What the writer of version 2 makes: bytes, as many as announced, and    *)
(* the announced length among them.                                        *)

LEMMA Joining ==
  ASSUME NEW s \in Seq(Octet), NEW t \in Seq(Octet)
  PROVE  /\ s \o t \in Seq(Octet) /\ Len(s \o t) = Len(s) + Len(t)
         /\ Len(s) \in Nat /\ Len(t) \in Nat
         /\ \A i \in 1 .. Len(s) : (s \o t)[i] = s[i]
         /\ \A i \in 1 .. Len(t) : (s \o t)[Len(s) + i] = t[i]
  OBVIOUS

LEMMA TypesAre ==
  /\ {Type.ALPN, Type.AUTHORITY, Type.CRC32C, Type.NOOP, Type.UNIQUE_ID, Type.SSL} \subseteq Octet
  /\ {Type.VERSION, Type.CN, Type.CIPHER, Type.SIG_ALG, Type.KEY_ALG} \subseteq Octet
  /\ {Type.NETNS, Type.AWS, Type.AZURE} \subseteq Octet
  BY DEF Type, Octet

LEMMA U16Is ==
  ASSUME NEW n \in Nat
  PROVE  /\ U16(n) \in Seq(Octet) /\ Len(U16(n)) = 2
         /\ U16(n)[1] \in Octet /\ U16(n)[2] \in Octet
         /\ 256 * U16(n)[1] + U16(n)[2] = n % 65536
  <1>1. 256 * ((n % 65536) \div 256) + (n % 256) = n % 65536
    OBVIOUS
  <1>2. (n % 65536) \div 256 \in 0 .. 255
    OBVIOUS
  <1>3. n % 256 \in 0 .. 255
    OBVIOUS
  <1>4. PICK hi \in 0 .. 255 : hi = (n % 65536) \div 256
    BY <1>2
  <1>5. PICK lo \in 0 .. 255 : hi = (n % 65536) \div 256 /\ lo = n % 256
    BY <1>3, <1>4
  <1>6. 256 * hi + lo = n % 65536
    BY <1>1, <1>5
  <1>7. U16(n) = <<hi, lo>>
    BY <1>5 DEF U16
  <1>8. <<hi, lo>> \in Seq(Octet) /\ Len(<<hi, lo>>) = 2 /\ hi \in Octet /\ lo \in Octet
    BY DEF Octet
  <1> QED
    BY <1>6, <1>7, <1>8

LEMMA ZerosAre ==
  ASSUME NEW n \in Int
  PROVE  Zeros(n) \in Seq(Octet) /\ (n \in Nat => Len(Zeros(n)) = n)
  <1>1. CASE n \in Nat
    BY <1>1 DEF Zeros, Octet
  <1>2. CASE n \notin Nat
    <2>1. 1 .. n = 1 .. 0
      BY <1>2
    <2>2. Zeros(n) = [i \in 1 .. 0 |-> 0]
      BY <2>1 DEF Zeros
    <2>3. [i \in 1 .. 0 |-> 0] \in Seq(Octet)
      BY DEF Octet
    <2> QED
      BY <1>2, <2>2, <2>3
  <1> QED
    BY <1>1, <1>2

LEMMA TlvIs ==
  ASSUME NEW type \in Octet, NEW value \in Seq(Octet)
  PROVE  Tlv(type, value) \in Seq(Octet) /\ Len(Tlv(type, value)) = 3 + Len(value)
  <1>1. <<type>> \in Seq(Octet) /\ Len(<<type>>) = 1
    OBVIOUS
  <1>2. Len(value) \in Nat
    OBVIOUS
  <1>3. U16(Len(value)) \in Seq(Octet) /\ Len(U16(Len(value))) = 2
    BY <1>2, U16Is
  <1> DEFINE ahead == <<type>> \o U16(Len(value))
  <1>4. ahead \in Seq(Octet) /\ Len(ahead) = 3
    BY <1>1, <1>3, Joining
  <1> HIDE DEF ahead
  <1>5. ahead \o value \in Seq(Octet) /\ Len(ahead \o value) = Len(ahead) + Len(value)
    BY <1>4, Joining
  <1> QED
    BY <1>4, <1>5 DEF Tlv, ahead

LEMMA ChecksumIs ==
  ASSUME NEW bytes
  PROVE  Crc32c(bytes) \in Seq(Octet) /\ Len(Crc32c(bytes)) = 4
  <1>1. \A v : OfBits(v) \in Octet
    BY DEF OfBits, Octet
  <1>2. PICK w : Crc32c(bytes) = [k \in 1 .. 4 |-> ByteOf(w, k - 1)]
    BY DEF Crc32c
  <1>3. \A v, k : ByteOf(v, k) \in Octet
    BY <1>1 DEF ByteOf
  <1> QED
    BY <1>2, <1>3

(* FlattenSeq puts sequences of bytes together.                            *)
FlatRound(seqs, f, n) == IF n = 1 THEN seqs[n] ELSE f[n - 1] \o seqs[n]

LEMMA FlatExists ==
  ASSUME NEW seqs, NEW n \in Nat
  PROVE  \E f : f = [k \in 1 .. n |-> FlatRound(seqs, f, k)]
  <1> DEFINE Upto(f, m) == \A k \in 1 .. m : f[k] = FlatRound(seqs, f, k)
             G == {m \in Nat : \E f : Upto(f, m)}
  <1>1. 0 \in G
    OBVIOUS
  <1>2. ASSUME NEW m \in G PROVE m + 1 \in G
    <2>1. PICK f : Upto(f, m)
      OBVIOUS
    <2> DEFINE g == [k \in 1 .. m + 1 |-> IF k = m + 1 THEN FlatRound(seqs, f, k) ELSE f[k]]
    <2>2. \A k \in 1 .. m : g[k] = f[k] /\ k - 1 <= m
      OBVIOUS
    <2>3. g[m + 1] = FlatRound(seqs, f, m + 1)
      OBVIOUS
    <2> HIDE DEF g
    <2>4. \A k \in 1 .. m + 1 : FlatRound(seqs, g, k) = FlatRound(seqs, f, k)
      BY <2>2 DEF FlatRound
    <2>5. Upto(g, m + 1)
      BY <2>1, <2>2, <2>3, <2>4
    <2> QED
      BY <2>5
  <1>3. G \in SUBSET Nat
    OBVIOUS
  <1>4. n \in G
    <2> HIDE DEF G
    <2>1. G = Nat
      BY <1>1, <1>2, <1>3, Induction
    <2> QED
      BY <2>1
  <1>5. PICK f : Upto(f, n)
    BY <1>4
  <1> DEFINE g == [k \in 1 .. n |-> f[k]]
  <1>6. \A k \in 1 .. n : g[k] = f[k] /\ (k # 1 => g[k - 1] = f[k - 1])
    OBVIOUS
  <1>7. g = [k \in 1 .. n |-> FlatRound(seqs, g, k)]
    BY <1>5, <1>6 DEF FlatRound
  <1> QED
    BY <1>7

LEMMA Flattened ==
  ASSUME NEW seqs \in Seq(Seq(Octet))
  PROVE  FlattenSeq(seqs) \in Seq(Octet)
  <1>1. PICK n \in Nat : n = Len(seqs)
    OBVIOUS
  <1>2. CASE n = 0
    <2>1. seqs = <<>> /\ <<>> \in Seq(Octet)
      BY <1>1, <1>2, EmptySeq
    <2>2. FlattenSeq(seqs) = seqs
      BY <1>1, <1>2 DEF FlattenSeq
    <2> QED
      BY <2>1, <2>2
  <1>3. CASE n # 0
    <2> DEFINE S(f) == [i \in 1 .. Len(seqs) |-> IF i = 1 THEN seqs[i] ELSE f[i - 1] \o seqs[i]]
               flat == CHOOSE f : f = S(f)
    <2>1. FlattenSeq(seqs) = flat[n]
      BY <1>1, <1>3 DEF FlattenSeq
    <2>2. flat = S(flat)
      <3>1. PICK f : f = [k \in 1 .. n |-> FlatRound(seqs, f, k)]
        BY FlatExists
      <3>2. f = S(f)
        BY <1>1, <3>1 DEF FlatRound
      <3> HIDE DEF S
      <3> QED
        BY <3>2, Zenon
    <2> HIDE DEF flat
    <2>3. \A i \in 1 .. n : flat[i] = IF i = 1 THEN seqs[i] ELSE flat[i - 1] \o seqs[i]
      BY <1>1, <2>2
    <2> DEFINE G == {k \in Nat : k + 1 <= n => flat[k + 1] \in Seq(Octet)}
    <2>4. \A i \in 1 .. n : seqs[i] \in Seq(Octet)
      BY <1>1
    <2>5. 0 \in G
      BY <1>3, <2>3, <2>4
    <2>6. ASSUME NEW k \in G PROVE k + 1 \in G
      <3>1. CASE k + 2 <= n
        <4>1. PICK i \in 1 .. n : i = k + 2
          BY <3>1
        <4>2. flat[i - 1] \in Seq(Octet) /\ seqs[i] \in Seq(Octet)
          <5>1. i - 1 = k + 1 /\ k + 1 <= n
            BY <3>1, <4>1
          <5>2. flat[i - 1] = flat[k + 1] /\ flat[k + 1] \in Seq(Octet)
            BY <5>1
          <5> QED
            BY <2>4, <5>2
        <4>3. flat[i] = flat[i - 1] \o seqs[i]
          <5>1. i # 1
            BY <4>1
          <5> QED
            BY <2>3, <5>1
        <4>4. flat[i] \in Seq(Octet)
          BY <4>2, <4>3, Joining
        <4> QED
          BY <4>1, <4>4
      <3>2. CASE ~(k + 2 <= n)
        BY <3>2
      <3> QED
        BY <3>1, <3>2
    <2>7. G \in SUBSET Nat
      OBVIOUS
    <2> HIDE DEF G
    <2>8. n - 1 \in G
      <3>1. G = Nat
        BY <2>5, <2>6, <2>7, Induction
      <3> QED
        BY <1>3, <3>1
    <2>9. flat[(n - 1) + 1] \in Seq(Octet)
      BY <2>8 DEF G
    <2> QED
      BY <2>1, <2>9
  <1> QED
    BY <1>2, <1>3

(* A pp_info_t a header may be made of.                                    *)
Sendable(info) ==
  /\ FilledIn(info) /\ info.tlvs \in Seq(Seq(Octet))
  /\ Fault2(info) = 0

LEMMA SendableHas ==
  ASSUME NEW info, Sendable(info)
  PROVE  /\ info.family \in Nat /\ info.transport \in Nat /\ info.power \in 0 .. 15
         /\ info.sport \in Nat /\ info.dport \in Nat /\ info.crc32c \in {0, 1}
         /\ AddressText(info.src, info.family) /\ AddressText(info.dst, info.family)
  <1>1. FilledIn(info)
    BY DEF Sendable
  <1>2. Octet \subseteq Nat /\ Word \subseteq Nat
    BY DEF Octet, Word
  <1>3. /\ info.family \in Octet /\ info.transport \in Octet /\ info.power \in 0 .. 15
        /\ info.crc32c \in {0, 1} /\ {info.sport, info.dport} \subseteq Word
        /\ AddressText(info.src, info.family) /\ AddressText(info.dst, info.family)
    BY <1>1 DEF FilledIn
  <1>4. info.family \in Nat /\ info.sport \in Nat /\ info.dport \in Nat
    BY <1>2, <1>3, Zenon
  <1>5. info.transport \in Nat
    BY <1>2, <1>3, Zenon
  <1> QED
    BY <1>3, <1>4, <1>5, Zenon

(* A version 2 header is made for known families and transports only, and  *)
(* with addresses of the family.                                           *)
LEMMA SendableIs ==
  ASSUME NEW info, Sendable(info)
  PROVE  /\ info.family \in 0 .. 3 /\ info.transport \in 0 .. 2
         /\ info.family \in {INET, INET6} => info.src.fam = info.family /\ info.dst.fam = info.family
  <1>1. PICK family \in Nat, transport \in Nat : family = info.family /\ transport = info.transport
    BY SendableHas
  <1>2. Fault2(info) = 0
    BY DEF Sendable
  <1>3. \A name \in {"PP2_CMD", "PP2_ADDR_FAMILY", "PP2_TRANSPORT_PROTOCOL"} : ERR(name) # 0
    BY ONLY ErrorNumbers
  <1>4. \A f, e : Refused(f, e) # 0
    BY ErrorNumbers DEF Refused
  <1>5. /\ info.family \in UNSPEC .. UNIX /\ ~(info.transport > DGRAM)
        /\ info.family \in {INET, INET6} => info.src.fam = info.family /\ info.dst.fam = info.family
    BY <1>2, <1>3, <1>4 DEF Fault2
  <1> QED
    BY <1>1, <1>5 DEF UNSPEC, UNIX, DGRAM

LEMMA PathIs ==
  ASSUME NEW text, NEW bytes \in Seq(Octet), text.bytes = bytes, Len(bytes) <= UnixPath
  PROVE  Path(text) \in Seq(Octet) /\ Len(Path(text)) = UnixPath
  <1>1. PICK n \in Nat : n = Len(bytes)
    OBVIOUS
  <1>2. n <= UnixPath
    BY <1>1
  <1>3. PICK rest \in Nat : rest = UnixPath - n
    BY ONLY <1>2, UnixAssumption
  <1>4. Zeros(rest) \in Seq(Octet) /\ Len(Zeros(rest)) = rest
    BY ZerosAre
  <1>5. /\ bytes \o Zeros(rest) \in Seq(Octet)
        /\ Len(bytes \o Zeros(rest)) = Len(bytes) + Len(Zeros(rest))
    BY <1>4, Joining
  <1>6. Len(bytes \o Zeros(rest)) = UnixPath
    <2>1. n + rest = UnixPath
      BY <1>3, UnixAssumption
    <2> QED
      BY <1>1, <1>4, <1>5, <2>1
  <1>7. Path(text) = bytes \o Zeros(rest)
    BY <1>1, <1>3 DEF Path
  <1> QED
    BY <1>5, <1>6, <1>7

LEMMA JoinedLength ==
  ASSUME NEW s \in Seq(Octet), NEW t \in Seq(Octet), NEW m \in Nat, NEW n \in Nat,
         Len(s) = m, Len(t) = n
  PROVE  s \o t \in Seq(Octet) /\ Len(s \o t) = m + n
  <1>1. s \o t \in Seq(Octet) /\ Len(s \o t) = Len(s) + Len(t)
    BY Joining
  <1> QED
    BY <1>1

LEMMA AddrBytesAre ==
  ASSUME NEW info, Sendable(info)
  PROVE  /\ AddrBytes(info) \in Seq(Octet)
         /\ Len(AddrBytes(info)) = AddrLen(info.family)
  <1>1. PICK family \in 0 .. 3 : family = info.family
    BY SendableIs
  <1>2. PICK src \in Seq(Octet), dst \in Seq(Octet) : src = info.src.bytes /\ dst = info.dst.bytes
    BY SendableHas DEF AddressText
  <1>3. CASE family = UNSPEC
    <2>1. AddrBytes(info) = <<>>
      BY <1>1, <1>3 DEF AddrBytes, UNSPEC, UNIX
    <2> QED
      BY <1>1, <1>3, <2>1, AddrLenType
  <1>4. CASE family = UNIX
    <2>1. Len(src) <= UnixPath /\ Len(dst) <= UnixPath
      BY <1>1, <1>2, <1>4, SendableHas DEF AddressText
    <2>2. \A text : text \in {info.src, info.dst} =>
             Path(text) \in Seq(Octet) /\ Len(Path(text)) = UnixPath
      <3> SUFFICES ASSUME NEW text, text \in {info.src, info.dst}
                   PROVE  Path(text) \in Seq(Octet) /\ Len(Path(text)) = UnixPath
        OBVIOUS
      <3>1. PICK bytes \in Seq(Octet) : bytes = text.bytes /\ Len(bytes) <= UnixPath
        BY <1>2, <2>1
      <3> QED
        BY <3>1, PathIs
    <2>3. AddrBytes(info) = Path(info.src) \o Path(info.dst)
      BY <1>1, <1>4 DEF AddrBytes, UNIX, UNSPEC
    <2>4. /\ Path(info.src) \o Path(info.dst) \in Seq(Octet)
          /\ Len(Path(info.src) \o Path(info.dst)) = UnixPath + UnixPath
      <3>1. PICK a \in Seq(Octet) : a = Path(info.src) /\ Len(a) = UnixPath
        BY ONLY <2>2
      <3>2. PICK b \in Seq(Octet) : b = Path(info.dst) /\ Len(b) = UnixPath
        BY ONLY <2>2
      <3>3. a \o b \in Seq(Octet) /\ Len(a \o b) = Len(a) + Len(b)
        BY ONLY Joining, <3>1, <3>2
      <3> QED
        BY ONLY <3>1, <3>2, <3>3
    <2> QED
      BY <1>1, <1>4, <2>3, <2>4, AddrLenType
  <1>5. CASE family \in {INET, INET6}
    <2>1. PICK w \in Nat : /\ Len(src) = w /\ Len(dst) = w
                           /\ AddrLen(family) = 2 * w + 4
      <3>1. info.src.fam = family /\ info.dst.fam = family
        BY <1>1, <1>5, SendableIs
      <3>2. CASE family = INET
        <4>1. Len(src) = 4 /\ Len(dst) = 4
          BY <1>2, <3>1, <3>2, SendableHas DEF AddressText
        <4> QED
          BY <3>2, <4>1, AddrLenType
      <3>3. CASE family = INET6
        <4>1. Len(src) = 16 /\ Len(dst) = 16
          BY <1>2, <3>1, <3>3, SendableHas DEF AddressText
        <4> QED
          BY <3>3, <4>1, AddrLenType
      <3> QED
        BY <1>5, <3>2, <3>3
    <2>2. info.sport \in Nat /\ info.dport \in Nat
      BY SendableHas
    <2>3. /\ U16(info.sport) \in Seq(Octet) /\ Len(U16(info.sport)) = 2
          /\ U16(info.dport) \in Seq(Octet) /\ Len(U16(info.dport)) = 2
      BY <2>2, U16Is
    <2> DEFINE ends == src \o dst
               one  == ends \o U16(info.sport)
               both == one \o U16(info.dport)
    <2>4. ends \in Seq(Octet) /\ Len(ends) = w + w
      BY <2>1, JoinedLength
    <2> HIDE DEF ends
    <2>5. one \in Seq(Octet) /\ Len(one) = w + w + 2
      <3>1. one \in Seq(Octet) /\ Len(one) = Len(ends) + Len(U16(info.sport))
        BY <2>3, <2>4, Joining
      <3> HIDE DEF one
      <3> QED
        BY <2>3, <2>4, <3>1
    <2> HIDE DEF one
    <2>6. both \in Seq(Octet) /\ Len(both) = w + w + 2 + 2
      <3>1. both \in Seq(Octet) /\ Len(both) = Len(one) + Len(U16(info.dport))
        BY <2>3, <2>5, Joining
      <3> HIDE DEF both
      <3> QED
        BY <2>3, <2>5, <3>1
    <2>7. AddrBytes(info) = both
      <3>1. info.family # UNSPEC /\ info.family # UNIX
        BY <1>1, <1>5 DEF UNIX, UNSPEC, INET, INET6
      <3> QED
        BY <1>2, <3>1 DEF AddrBytes, one, ends
    <2> HIDE DEF both
    <2> QED
      BY <1>1, <2>1, <2>6, <2>7
  <1> QED
    BY <1>3, <1>4, <1>5 DEF UNIX, UNSPEC, INET, INET6

(* An alignment of a uint16_t that does not overflow.                      *)
LEMMA Alignments ==
  ASSUME NEW power \in 2 .. 15
  PROVE  2 ^ power \in Nat /\ 2 ^ power >= 4
  <1>1. /\ 2 ^ 2 = 4 /\ 2 ^ 3 = 8 /\ 2 ^ 4 = 16 /\ 2 ^ 5 = 32 /\ 2 ^ 6 = 64 /\ 2 ^ 7 = 128
        /\ 2 ^ 8 = 256 /\ 2 ^ 9 = 512 /\ 2 ^ 10 = 1024 /\ 2 ^ 11 = 2048 /\ 2 ^ 12 = 4096
        /\ 2 ^ 13 = 8192 /\ 2 ^ 14 = 16384 /\ 2 ^ 15 = 32768
    OBVIOUS
  <1>2. power \in {2, 3, 4, 5, 6, 7, 8, 9, 10, 11, 12, 13, 14, 15}
    OBVIOUS
  <1> DEFINE f == [n \in 2 .. 15 |-> 2 ^ n]
  <1>3. f[power] = 2 ^ power
    OBVIOUS
  <1>4. /\ f[2] = 4 /\ f[3] = 8 /\ f[4] = 16 /\ f[5] = 32 /\ f[6] = 64 /\ f[7] = 128
        /\ f[8] = 256 /\ f[9] = 512 /\ f[10] = 1024 /\ f[11] = 2048 /\ f[12] = 4096
        /\ f[13] = 8192 /\ f[14] = 16384 /\ f[15] = 32768
    BY <1>1
  <1> HIDE DEF f
  <1>5. f[power] \in Nat /\ f[power] >= 4
    BY <1>2, <1>4
  <1> QED
    BY <1>3, <1>5

LEMMA PlainIs ==
  ASSUME NEW info, Sendable(info)
  PROVE  /\ FlattenSeq(info.tlvs) \in Seq(Octet)
         /\ Plain(info) \in Nat /\ Plain(info) >= 16
         /\ AddrLen(info.family) \in Nat
  <1>1. FlattenSeq(info.tlvs) \in Seq(Octet)
    BY Flattened DEF Sendable
  <1>2. PICK n \in Nat : n = Len(FlattenSeq(info.tlvs))
    BY <1>1
  <1>3. PICK a \in Nat : a = AddrLen(info.family)
    BY SendableIs, AddrLenType DEF UNSPEC, UNIX
  <1>4. PICK c \in Nat : c = IF info.crc32c = 1 THEN 7 ELSE 0
    OBVIOUS
  <1>5. Plain(info) = 16 + a + n + c
    BY <1>2, <1>3, <1>4 DEF Plain
  <1> QED
    BY <1>1, <1>3, <1>5

LEMMA Multiples ==
  ASSUME NEW p \in Nat, NEW a \in Nat, a >= 4, p % a # 0
  PROVE  LET above == (p \div a + 1) * a IN
         /\ above \in Nat /\ above > p /\ above % a = 0 /\ (above + a) % a = 0 /\ above + a \in Nat
  <1>1. PICK q \in Nat : q = p \div a
    OBVIOUS
  <1>2. p = a * q + (p % a) /\ p % a \in 0 .. a - 1
    BY <1>1
  <1>3. (q + 1) * a = a * q + a /\ (q + 1) * a + a = (q + 2) * a
    OBVIOUS
  <1>4. ((q + 1) * a) % a = 0 /\ ((q + 2) * a) % a = 0
    <2>1. \A k \in Nat : (k * a) % a = 0
      OBVIOUS
    <2> QED
      BY <2>1
  <1>5. (q + 1) * a \in Nat
    OBVIOUS
  <1>6. (q + 1) * a > p
    <2>1. PICK aq \in Int : aq = a * q
      OBVIOUS
    <2> QED
      BY <1>2, <1>3, <2>1
  <1> QED
    BY <1>1, <1>3, <1>4, <1>5, <1>6

LEMMA PaddedIs ==
  ASSUME NEW info, Sendable(info)
  PROVE  /\ Padded(info) \in Nat /\ Padded(info) >= Plain(info)
         /\ info.power <= 1 => Padded(info) = Plain(info)
         /\ info.power > 1 => Padded(info) % (2 ^ info.power) = 0
         /\ Padded(info) # Plain(info) => info.power > 1 /\ Padded(info) >= Plain(info) + 3
  <1>1. PICK p \in Nat : p = Plain(info)
    BY PlainIs
  <1>2. PICK power \in 0 .. 15 : power = info.power
    BY SendableHas
  <1>3. CASE power <= 1
    BY <1>1, <1>2, <1>3 DEF Padded
  <1>4. CASE power > 1
    <2>1. PICK a \in Nat : a = 2 ^ power /\ a >= 4
      <3>1. power \in 2 .. 15
        BY <1>4
      <3> QED
        BY <3>1, Alignments
    <2>2. CASE p % a = 0
      <3>1. Padded(info) = p
        BY <1>1, <1>2, <2>1, <2>2 DEF Padded
      <3> QED
        BY <1>1, <1>2, <1>4, <2>1, <2>2, <3>1
    <2>3. CASE p % a # 0
      <3>1. PICK above \in Nat : /\ above = (p \div a + 1) * a /\ above > p
                                 /\ above % a = 0 /\ (above + a) % a = 0
        BY <2>1, <2>3, Multiples
      <3>2. Padded(info) = IF above - p < 3 THEN above + a ELSE above
        BY <1>1, <1>2, <1>4, <2>1, <2>3, <3>1 DEF Padded
      <3> QED
        BY <1>1, <1>2, <1>4, <2>1, <3>1, <3>2
    <2> QED
      BY <2>2, <2>3
  <1> QED
    BY <1>2, <1>3, <1>4

(* As many bytes as announced, and what is announced in two of them.       *)
LEMMA Header2Is ==
  ASSUME NEW info, Sendable(info)
  PROVE  LET bytes == Header2(info) IN
         /\ bytes \in Seq(Octet) /\ Len(bytes) = Padded(info)
         /\ 256 * bytes[15] + bytes[16] = (Padded(info) - 16) % 65536
  <1> DEFINE announced == Padded(info)
             command == IF info.family = UNSPEC THEN 32 ELSE 33
             kind    == <<command, 16 * info.family + info.transport>>
             length  == U16(announced - 16)
             addr    == AddrBytes(info)
             tlvs    == FlattenSeq(info.tlvs)
             noop    == Noop(info)
             one     == Signature \o kind
             two     == one \o length
             three   == two \o addr
             four    == three \o tlvs
             ahead   == four \o noop
             zeroed  == ahead \o (IF info.crc32c = 1 THEN Tlv(Type.CRC32C, Zeros(4)) ELSE <<>>)
             sum     == Crc32c(SubSeq(zeroed, 1, announced))
             summed  == ahead \o Tlv(Type.CRC32C, sum)
             all     == IF info.crc32c = 1 THEN summed ELSE ahead
  <1>1. Header2(info) = SubSeq(all, 1, announced)
    BY DEF Header2
  <1>2. PICK p \in Nat, n \in Nat : p = Plain(info) /\ n = announced /\ n >= p /\ p >= 16
    BY PlainIs, PaddedIs
  <1>3. Signature \in Seq(Octet) /\ Len(Signature) = 12
    BY DEF Signature, Octet
  <1>4. kind \in Seq(Octet) /\ Len(kind) = 2
    <2>1. PICK family \in 0 .. 3, transport \in 0 .. 2 :
             family = info.family /\ transport = info.transport
      BY SendableIs
    <2>2. 16 * info.family + info.transport \in Octet /\ command \in Octet
      BY <2>1 DEF Octet
    <2> HIDE DEF command
    <2> QED
      BY <2>2
  <1>5. /\ length \in Seq(Octet) /\ Len(length) = 2
        /\ 256 * length[1] + length[2] = (announced - 16) % 65536
    <2>1. announced - 16 \in Nat
      BY <1>2
    <2> HIDE DEF announced
    <2> QED
      BY <2>1, U16Is
  <1>6. addr \in Seq(Octet) /\ Len(addr) = AddrLen(info.family) /\ AddrLen(info.family) \in Nat
    BY AddrBytesAre, PlainIs
  <1>7. tlvs \in Seq(Octet) /\ Len(tlvs) \in Nat
    BY PlainIs
  <1>8. /\ noop \in Seq(Octet) /\ Len(noop) \in Nat
        /\ n # p => Len(noop) = n - p
    <2>1. CASE info.power > 1
      <3> DEFINE gap == announced - Plain(info) - 3
      <3>1. gap \in Int
        BY <1>2
      <3>2. n # p => gap \in Nat /\ gap + 3 = n - p
        BY <1>2, PaddedIs
      <3> HIDE DEF gap
      <3>3. Zeros(gap) \in Seq(Octet) /\ (n # p => Len(Zeros(gap)) + 3 = n - p)
        BY <3>1, <3>2, ZerosAre
      <3>4. /\ Tlv(Type.NOOP, Zeros(gap)) \in Seq(Octet)
            /\ Len(Tlv(Type.NOOP, Zeros(gap))) = 3 + Len(Zeros(gap))
        BY <3>3, TypesAre, TlvIs
      <3>5. noop = Tlv(Type.NOOP, Zeros(gap))
        BY <2>1 DEF Noop, gap
      <3>6. Len(Zeros(gap)) \in Nat
        BY <3>3
      <3> HIDE DEF noop
      <3> QED
        BY <3>3, <3>4, <3>5, <3>6
    <2>2. CASE ~(info.power > 1)
      <3>1. n = p
        BY <1>2, <2>2, PaddedIs
      <3>2. noop = <<>>
        BY <2>2 DEF Noop
      <3> HIDE DEF noop
      <3> QED
        BY <3>1, <3>2
    <2> QED
      BY <2>1, <2>2
  <1>9. Len(noop) >= n - p
    <2> HIDE DEF noop
    <2> QED
      BY <1>2, <1>8
  <1> HIDE DEF announced, command, kind, length, addr, tlvs, noop
  <1>10. one \in Seq(Octet) /\ Len(one) = 14
    <2>1. one \in Seq(Octet) /\ Len(one) = Len(Signature) + Len(kind)
      BY <1>3, <1>4, Joining
    <2> QED
      BY <1>3, <1>4, <2>1
  <1> HIDE DEF one
  <1>11. two \in Seq(Octet) /\ Len(two) = 16 /\ two[15] = length[1] /\ two[16] = length[2]
    <2>1. /\ two \in Seq(Octet) /\ Len(two) = Len(one) + Len(length)
          /\ \A i \in 1 .. Len(length) : two[Len(one) + i] = length[i]
      <3>1. length \in Seq(Octet)
        BY <1>5
      <3>2. one \in Seq(Octet)
        BY <1>10
      <3> QED
        BY ONLY <3>1, <3>2, Joining DEF two
    <2> HIDE DEF two
    <2>2. two[14 + 1] = length[1] /\ two[14 + 2] = length[2]
      BY <1>5, <1>10, <2>1
    <2> QED
      BY <1>5, <1>10, <2>1, <2>2
  <1> HIDE DEF two
  <1>12. /\ three \in Seq(Octet) /\ Len(three) = Len(two) + Len(addr)
         /\ \A i \in 1 .. Len(two) : three[i] = two[i]
    BY <1>6, <1>11, Joining
  <1> HIDE DEF three
  <1>13. /\ four \in Seq(Octet) /\ Len(four) = Len(three) + Len(tlvs)
         /\ \A i \in 1 .. Len(three) : four[i] = three[i]
    BY <1>7, <1>12, Joining
  <1> HIDE DEF four
  <1>14. /\ ahead \in Seq(Octet) /\ Len(ahead) = Len(four) + Len(noop)
         /\ \A i \in 1 .. Len(four) : ahead[i] = four[i]
    BY <1>8, <1>13, Joining
  <1> HIDE DEF ahead
  <1>15. PICK m \in Nat : m = Len(ahead) /\ m = 16 + AddrLen(info.family) + Len(tlvs) + Len(noop)
    BY <1>6, <1>7, <1>8, <1>11, <1>12, <1>13, <1>14
  <1>16. ahead[15] = length[1] /\ ahead[16] = length[2]
    <2>1. 15 \in 1 .. Len(two) /\ 16 \in 1 .. Len(two)
      BY <1>11
    <2>2. 15 \in 1 .. Len(three) /\ 16 \in 1 .. Len(three)
      BY <1>6, <1>11, <1>12
    <2>3. 15 \in 1 .. Len(four) /\ 16 \in 1 .. Len(four)
      BY <1>6, <1>7, <1>11, <1>12, <1>13
    <2>4. \A i \in {15, 16} : ahead[i] = two[i]
      BY <1>12, <1>13, <1>14, <2>1, <2>2, <2>3
    <2> QED
      BY <1>11, <2>4
  <1>17. /\ summed \in Seq(Octet) /\ Len(summed) = m + 7
         /\ \A i \in 1 .. m : summed[i] = ahead[i]
    <2>1. sum \in Seq(Octet) /\ Len(sum) = 4
      BY ChecksumIs
    <2> HIDE DEF sum
    <2>2. Tlv(Type.CRC32C, sum) \in Seq(Octet) /\ Len(Tlv(Type.CRC32C, sum)) = 7
      <3>1. Type.CRC32C \in Octet
        BY TypesAre
      <3>2. /\ Tlv(Type.CRC32C, sum) \in Seq(Octet)
            /\ Len(Tlv(Type.CRC32C, sum)) = 3 + Len(sum)
        BY <2>1, <3>1, TlvIs
      <3> QED
        BY <2>1, <3>2
    <2>3. /\ summed \in Seq(Octet) /\ Len(summed) = Len(ahead) + Len(Tlv(Type.CRC32C, sum))
          /\ \A i \in 1 .. Len(ahead) : summed[i] = ahead[i]
      BY <1>14, <2>2, Joining
    <2> HIDE DEF summed
    <2> QED
      BY <1>15, <2>2, <2>3
  <1> HIDE DEF summed
  <1>18. /\ all \in Seq(Octet) /\ Len(all) \in Nat /\ Len(all) >= n
         /\ all[15] = length[1] /\ all[16] = length[2]
    <2>1. CASE info.crc32c = 1
      <3>1. p + Len(noop) = m + 7
        BY <1>2, <1>6, <1>7, <1>8, <1>15, <2>1 DEF Plain, tlvs
      <3>2. n <= m + 7
        BY <1>2, <1>8, <1>9, <3>1
      <3>3. m >= 16
        BY <1>6, <1>7, <1>8, <1>15
      <3>4. 15 \in 1 .. m /\ 16 \in 1 .. m
        BY <3>3
      <3>5. summed[15] = length[1] /\ summed[16] = length[2]
        BY <1>16, <1>17, <3>4
      <3> QED
        BY <1>17, <2>1, <3>2, <3>5
    <2>2. CASE info.crc32c # 1
      <3>1. p + Len(noop) = m
        BY <1>2, <1>6, <1>7, <1>8, <1>15, <2>2 DEF Plain, tlvs
      <3>2. n <= m
        BY <1>2, <1>8, <1>9, <3>1
      <3> QED
        BY <1>14, <1>15, <1>16, <2>2, <3>2
    <2> QED
      BY <2>1, <2>2
  <1> HIDE DEF all
  <1>19. /\ SubSeq(all, 1, n) \in Seq(Octet) /\ Len(SubSeq(all, 1, n)) = n
         /\ \A i \in 1 .. n : SubSeq(all, 1, n)[i] = all[i]
    BY <1>18
  <1>20. 15 \in 1 .. n /\ 16 \in 1 .. n
    BY <1>2
  <1>21. Header2(info) = SubSeq(all, 1, n)
    BY <1>1, <1>2 DEF announced
  <1> QED
    BY <1>2, <1>5, <1>18, <1>19, <1>20, <1>21 DEF announced

-----------------------------------------------------------------------------
(* The exchange.  What the sender has filled in and added stays a          *)
(* pp_info_t with TLVs of bytes and room for them.                         *)
Filling(info) == FilledIn(info) /\ info.tlvs \in Seq(Seq(Octet)) /\ Roomy(info)

LEMMA AppendedFills ==
  ASSUME NEW info, Filling(info), NEW tlv \in Seq(Octet)
  PROVE  Filling(Appended(info, tlv))
  <1> DEFINE new == Appended(info, tlv)
             size == Room(Len(info.tlvs), info.size)
  <1>1. /\ new = [info EXCEPT !.size = size, !.tlvs = Append(info.tlvs, tlv)]
        /\ DOMAIN info = DOMAIN Cleared
    BY DEF Appended, Filling, FilledIn
  <1> HIDE DEF size
  <1>2. /\ DOMAIN new = DOMAIN info /\ new.tlvs = Append(info.tlvs, tlv)
        /\ \A f \in DOMAIN info \ {"size", "tlvs"} : new[f] = info[f]
    BY <1>1 DEF Cleared
  <1>3. {"family", "transport", "power", "crc32c", "sport", "dport", "src", "dst", "ssl"}
           \subseteq DOMAIN info \ {"size", "tlvs"}
    BY <1>1 DEF Cleared
  <1>4. Roomy(new)
    BY AppendedRoomy DEF Filling
  <1> HIDE DEF new
  <1>5. FilledIn(new)
    <2>1. /\ new.family = info.family /\ new.transport = info.transport /\ new.power = info.power
          /\ new.crc32c = info.crc32c /\ new.sport = info.sport /\ new.dport = info.dport
          /\ new.src = info.src /\ new.dst = info.dst /\ new.ssl = info.ssl
      BY <1>2, <1>3
    <2>2. FilledIn(info)
      BY DEF Filling
    <2> QED
      BY <1>2, <2>1, <2>2 DEF FilledIn
  <1>6. new.tlvs \in Seq(Seq(Octet))
    <2>1. info.tlvs \in Seq(Seq(Octet))
      BY DEF Filling
    <2> QED
      BY <1>2, <2>1
  <1> QED
    BY <1>4, <1>5, <1>6 DEF Filling, new

LEMMA TextsAre ==
  ASSUME NEW v \in Texts
  PROVE  v \in Seq(Octet) /\ Append(v, 0) \in Seq(Octet) /\ <<1>> \o v \in Seq(Octet)
  <1>1. 0 \in Octet /\ 1 \in Octet /\ Octet \ {0} \subseteq Octet
    BY DEF Octet
  <1>2. v \in Seq(Octet \ {0})
    BY ExchangeAssumption
  <1>3. v \in Seq(Octet)
    BY <1>1, <1>2
  <1>4. <<1>> \in Seq(Octet)
    BY <1>1
  <1> QED
    BY <1>1, <1>3, <1>4

LEMMA NewFills ==
  ASSUME NEW info, Filling(info), NEW type \in Octet, NEW value \in Seq(Octet)
  PROVE  Filling(AppendNew(info, type, value))
  <1>1. Tlv(type, value) \in Seq(Octet)
    BY TlvIs
  <1> QED
    BY <1>1, AppendedFills DEF AppendNew

(* The octets of a sequence written out.                                   *)
LEMMA OctetsAre ==
  ASSUME NEW n \in Int, NEW f, \A i \in 1 .. n : f[i] \in Octet, DOMAIN f = 1 .. n,
         f = [i \in 1 .. n |-> f[i]]
  PROVE  f \in Seq(Octet)
  <1>1. CASE n \in Nat
    BY <1>1
  <1>2. CASE n \notin Nat
    <2>1. 1 .. n = 1 .. 0
      BY <1>2
    <2>2. f \in [1 .. 0 -> Octet]
      BY <2>1
    <2> QED
      BY <2>2
  <1> QED
    BY <1>1, <1>2

(* A byte of the flags, whatever of the TLS members is set.                *)
LEMMA BitsAre ==
  ASSUME NEW info, Filling(info)
  PROVE  ClientBits(info.ssl) \in Octet /\ 1 - info.ssl.verified \in Octet
  <1>1. PICK a \in {0, 1}, b \in {0, 1}, c \in {0, 1} :
           a = info.ssl.ssl /\ b = info.ssl.conn /\ c = info.ssl.verified
    BY DEF Filling, FilledIn
  <1>2. a + 2 * b + 4 * b \in 0 .. 255 /\ 1 - c \in 0 .. 255
    OBVIOUS
  <1> QED
    BY <1>1, <1>2 DEF ClientBits, Octet

LEMMA SubTlvIs ==
  ASSUME NEW type \in Octet, NEW value \in Seq(Octet)
  PROVE  SubTlv(type, value) \in Seq(Octet)
  <1>1. Tlv(type, value) \in Seq(Octet) /\ <<>> \in Seq(Octet)
    BY TlvIs
  <1> QED
    BY <1>1 DEF SubTlv

LEMMA SslFills ==
  ASSUME NEW info, Filling(info), NEW v \in Texts, NEW cn \in Texts, NEW found \in Found
  PROVE  Filling(AddSsl(info, v, v, <<7>>, v, cn, found))
  <1>1. v \in Seq(Octet) /\ cn \in Seq(Octet) /\ <<7>> \in Seq(Octet)
    <2>1. 7 \in Octet
      BY DEF Octet
    <2> QED
      BY <2>1, TextsAre
  <1> DEFINE one   == SubTlv(Type.VERSION, v)
             two   == SubTlv(Type.CIPHER, v)
             three == SubTlv(Type.SIG_ALG, <<7>>)
             four  == SubTlv(Type.KEY_ALG, v)
             five  == SubTlv(Type.CN, cn)
             subs  == one \o two \o three \o four \o five
             given5 == v \o v \o <<7>> \o v \o cn
             absent == 15 + Len(given5) - Len(subs)
             tail  == [i \in 1 .. absent |-> found[1 + ((i - 1) % 3)]]
             flags == <<ClientBits(info.ssl), 1 - info.ssl.verified, 0, 0, 0>>
             value == flags \o subs \o tail
  <1>2. /\ one \in Seq(Octet) /\ two \in Seq(Octet) /\ three \in Seq(Octet)
        /\ four \in Seq(Octet) /\ five \in Seq(Octet)
    BY <1>1, SubTlvIs, TypesAre
  <1> HIDE DEF one, two, three, four, five
  <1>3. subs \in Seq(Octet)
    BY <1>2
  <1>4. given5 \in Seq(Octet)
    BY <1>1
  <1> HIDE DEF subs, given5
  <1>5. absent \in Int
    BY <1>3, <1>4
  <1> HIDE DEF absent
  <1>6. tail \in Seq(Octet)
    <2>1. \A i \in 1 .. absent : 1 + ((i - 1) % 3) \in 1 .. 3
      BY <1>5
    <2>2. \A k \in 1 .. 3 : found[k] \in Octet
      BY ExchangeAssumption
    <2>3. \A i \in 1 .. absent : tail[i] \in Octet
      BY <2>1, <2>2
    <2>4. DOMAIN tail = 1 .. absent /\ tail = [i \in 1 .. absent |-> tail[i]]
      OBVIOUS
    <2> HIDE DEF tail
    <2> QED
      BY <1>5, <2>3, <2>4, OctetsAre
  <1> HIDE DEF tail
  <1>7. flags \in Seq(Octet)
    <2>1. PICK a \in Octet, b \in Octet : a = ClientBits(info.ssl) /\ b = 1 - info.ssl.verified
      BY BitsAre
    <2>2. 0 \in Octet
      BY DEF Octet
    <2>3. <<a, b, 0, 0, 0>> \in Seq(Octet)
      BY <2>2
    <2> QED
      BY <2>1, <2>3
  <1> HIDE DEF flags
  <1>8. value \in Seq(Octet)
    <2>1. flags \o subs \in Seq(Octet)
      BY <1>3, <1>7
    <2> QED
      BY <1>6, <2>1
  <1>9. AddSsl(info, v, v, <<7>>, v, cn, found) = AppendNew(info, Type.SSL, value)
    BY DEF AddSsl, flags, tail, absent, given5, subs, one, two, three, four, five
  <1> HIDE DEF value
  <1>10. Type.SSL \in Octet
    BY TypesAre
  <1> QED
    BY <1>8, <1>9, <1>10, NewFills

(* What the header is when one has been made, and what may have become of  *)
(* it on its way.                                                          *)
HeaderMade ==
  \/ /\ use.version = 2 /\ Sendable(sinfo)
     /\ header = [version |-> 2, bytes |-> header.bytes]
     /\ header.bytes \in Seq(Octet) /\ Len(header.bytes) = Padded(sinfo)
     /\ ~changed => header.bytes = Header2(sinfo)
     /\ changed => arrived \in {0, Len(header.bytes)}
  \/ /\ use.version = 1 /\ Fault1(sinfo) = 0
     /\ header = [version |-> 1, line |-> Header1(sinfo)]
     /\ ~changed

ExchangeInv ==
  /\ Filling(sinfo)
  /\ stage \in {"fill", "failed", "send", "arrived", "parsed", "done"}
  /\ changed \in BOOLEAN /\ arrived \in Nat
  /\ stage = "fill" => ~changed /\ arrived = 0
  /\ stage \in {"send", "arrived", "parsed", "done"} => HeaderMade
  /\ answer = IF stage = "parsed" THEN Parse(header, arrived) ELSE None

LEMMA ExchangeBegins == ExchangeInit => ExchangeInv
  <1> SUFFICES ASSUME ExchangeInit PROVE ExchangeInv
    OBVIOUS
  <1>1. PICK i \in Infos : sinfo = i.info
    BY DEF ExchangeInit
  <1>2. FilledIn(sinfo) /\ sinfo.tlvs = <<>> /\ sinfo.size = 0
    BY <1>1, ExchangeAssumption
  <1>3. Roomy(sinfo)
    <2>1. {"tlvs", "size", "ssl", "crc32c"} \subseteq DOMAIN sinfo
      BY <1>2 DEF FilledIn, Cleared
    <2>2. <<>> \in Seq({}) /\ Len(<<>>) = 0
      OBVIOUS
    <2> QED
      BY <1>2, <2>1, <2>2 DEF Roomy
  <1>4. <<>> \in Seq(Seq(Octet))
    OBVIOUS
  <1>5. Filling(sinfo)
    BY <1>2, <1>3, <1>4 DEF Filling
  <1>6. stage = "fill" /\ changed = FALSE /\ arrived = 0 /\ answer = None
    BY DEF ExchangeInit
  <1> QED
    BY <1>5, <1>6 DEF ExchangeInv

(* Every pp_info_add_* of the sender.                                      *)
LEMMA AddingFills ==
  ASSUME ExchangeInv, AddBytes \/ AddLongId \/ AddNames \/ AddTls
  PROVE  /\ Filling(sinfo') /\ stage = "fill"
         /\ UNCHANGED <<stage, header, changed, arrived, answer>>
  <1>1. Filling(sinfo)
    BY DEF ExchangeInv
  <1>2. \A type \in {Type.ALPN, Type.AUTHORITY, Type.UNIQUE_ID, Type.NETNS, Type.AWS, Type.AZURE},
           value \in Seq(Octet) : Filling(AppendNew(sinfo, type, value))
    BY <1>1, NewFills, TypesAre
  <1>3. CASE AddBytes
    <2>1. PICK v \in Texts : \/ Add(AddAlpn(sinfo, v), <<<<Type.ALPN, v>>>>)
                             \/ Add(AddAuthority(sinfo, v), <<<<Type.AUTHORITY, v>>>>)
                             \/ AddId(v)
      BY <1>3 DEF AddBytes
    <2>2. v \in Seq(Octet)
      BY TextsAre
    <2>3. /\ Filling(AddAlpn(sinfo, v)) /\ Filling(AddAuthority(sinfo, v))
          /\ Filling(AddUniqueId(sinfo, v))
      BY <1>1, <1>2, <2>2 DEF AddAlpn, AddAuthority, AddUniqueId
    <2> QED
      BY <2>1, <2>3 DEF Add, AddId
  <1>4. CASE AddLongId
    <2>1. PICK n \in {128, 129} : AddId([i \in 1 .. n |-> 1])
      BY <1>4, Zenon DEF AddLongId
    <2>2. [i \in 1 .. n |-> 1] \in Seq(Octet)
      <3>1. 1 \in Octet
        BY DEF Octet
      <3>2. n \in Nat
        OBVIOUS
      <3> QED
        BY <3>1, <3>2
    <2> DEFINE id == [i \in 1 .. n |-> 1]
    <2> HIDE DEF id
    <2>3. Filling(AddUniqueId(sinfo, id))
      BY <1>1, <1>2, <2>2 DEF AddUniqueId, id
    <2> QED
      BY <2>1, <2>3 DEF Add, AddId, id
  <1>5. CASE AddNames
    <2>1. PICK v \in Texts \ {<<>>} : \E what :
             Add(AddNetns(sinfo, v), what) \/ Add(AddVpceId(sinfo, v), what)
             \/ Add(AddLinkid(sinfo, <<1, 0, 0, 0>>), what)
      BY <1>5 DEF AddNames
    <2>2. v \in Seq(Octet) /\ <<1>> \o v \in Seq(Octet)
      BY TextsAre
    <2>3. <<1>> \o <<1, 0, 0, 0>> \in Seq(Octet)
      <3>1. 1 \in Octet /\ 0 \in Octet
        BY DEF Octet
      <3>2. <<1>> \in Seq(Octet) /\ <<1, 0, 0, 0>> \in Seq(Octet)
        BY <3>1
      <3> QED
        BY <3>2
    <2>4. /\ Filling(AddNetns(sinfo, v)) /\ Filling(AddVpceId(sinfo, v))
          /\ Filling(AddLinkid(sinfo, <<1, 0, 0, 0>>))
      BY <1>2, <2>2, <2>3 DEF AddNetns, AddVpceId, AddLinkid
    <2> QED
      BY <2>1, <2>4 DEF Add
  <1>6. CASE AddTls
    <2>1. PICK v \in Texts \ {<<>>}, cn \in Texts, f \in Found : \E what :
             Add(AddSsl(sinfo, v, v, <<7>>, v, cn, f), what)
      BY <1>6 DEF AddTls
    <2>2. Filling(AddSsl(sinfo, v, v, <<7>>, v, cn, f))
      BY <1>1, SslFills
    <2> QED
      BY <2>1, <2>2 DEF Add
  <1> QED
    BY <1>3, <1>4, <1>5, <1>6

LEMMA CreateKeeps ==
  ASSUME ExchangeInv, Create
  PROVE  ExchangeInv'
  <1>1. /\ stage = "fill" /\ ~changed /\ arrived = 0 /\ Filling(sinfo) /\ answer = None
        /\ UNCHANGED <<use, sinfo, given, changed, arrived, answer>>
    BY DEF ExchangeInv, Create
  <1>2. CASE Fault(use.version, sinfo) # 0
    <2>1. stage' = "failed"
      BY <1>2 DEF Create
    <2> QED
      BY <1>1, <2>1 DEF ExchangeInv
  <1>3. CASE Fault(use.version, sinfo) = 0
    <2>1. stage' = "send" /\ header' = Header(use.version, sinfo)
      BY <1>3 DEF Create
    <2>2. ERR("PP_VERSION") # 0
      BY ONLY ErrorNumbers
    <2>3. use.version = 2 \/ use.version = 1
      BY <1>3, <2>2 DEF Fault
    <2>4. CASE use.version = 2
      <3>1. Fault2(sinfo) = 0
        BY <1>3, <2>4 DEF Fault
      <3>2. Sendable(sinfo)
        BY <1>1, <3>1 DEF Sendable, Filling
      <3>3. Header2(sinfo) \in Seq(Octet) /\ Len(Header2(sinfo)) = Padded(sinfo)
        BY <3>2, Header2Is
      <3>4. header' = [version |-> 2, bytes |-> Header2(sinfo)]
        BY <2>1, <2>4 DEF Header
      <3>5. HeaderMade'
        BY <1>1, <2>4, <3>2, <3>3, <3>4 DEF HeaderMade
      <3> QED
        BY <1>1, <2>1, <3>5 DEF ExchangeInv
    <2>5. CASE use.version = 1
      <3>1. Fault1(sinfo) = 0
        BY <1>3, <2>5 DEF Fault
      <3>2. header' = [version |-> 1, line |-> Header1(sinfo)]
        BY <2>1, <2>5 DEF Header
      <3>3. HeaderMade'
        BY <1>1, <2>5, <3>1, <3>2 DEF HeaderMade
      <3> QED
        BY <1>1, <2>1, <3>3 DEF ExchangeInv
    <2> QED
      BY <2>3, <2>4, <2>5
  <1> QED
    BY <1>2, <1>3

LEMMA CorruptKeeps ==
  ASSUME ExchangeInv, Corrupt
  PROVE  ExchangeInv'
  <1>1. /\ stage = "send" /\ arrived = 0 /\ ~changed /\ header.version = 2
        /\ changed' = TRUE /\ UNCHANGED <<stage, use, sinfo, given, arrived, answer>>
    BY DEF Corrupt
  <1>2. PICK i \in 1 .. Len(header.bytes), d \in {1, 128} :
           header' = [header EXCEPT !.bytes[i] = (@ + d) % 256]
    BY DEF Corrupt
  <1>3. PICK bytes \in Seq(Octet) :
           /\ header = [version |-> 2, bytes |-> bytes] /\ Len(bytes) = Padded(sinfo)
           /\ use.version = 2 /\ Sendable(sinfo)
    BY <1>1 DEF ExchangeInv, HeaderMade
  <1> DEFINE other == [bytes EXCEPT ![i] = (@ + d) % 256]
  <1>4. header' = [version |-> 2, bytes |-> other]
    BY <1>2, <1>3
  <1>5. other \in Seq(Octet) /\ Len(other) = Len(bytes)
    <2>1. PICK b \in Nat : b = bytes[i]
      BY <1>3, ByteAt
    <2>2. (b + d) % 256 \in 0 .. 255
      OBVIOUS
    <2>3. PICK c \in Octet : c = (bytes[i] + d) % 256
      BY <2>1, <2>2 DEF Octet
    <2>4. [bytes EXCEPT ![i] = c] \in Seq(Octet) /\ Len([bytes EXCEPT ![i] = c]) = Len(bytes)
      BY <1>3
    <2> QED
      BY <2>3, <2>4
  <1> HIDE DEF other
  <1>6. HeaderMade'
    BY <1>1, <1>3, <1>4, <1>5 DEF HeaderMade
  <1> QED
    BY <1>1, <1>6 DEF ExchangeInv

(* The number of digits is one.                                            *)
LEMMA DigitsAre ==
  ASSUME NEW n
  PROVE  Digits(n) \in Nat
  <1> DEFINE all  == {10, 100, 1000, 10000}
             some == {m \in all : n >= m}
  <1>1. IsFiniteSet(all)
    <2>1. IsFiniteSet({})
      BY FS_EmptySet
    <2>2. IsFiniteSet({10})
      BY <2>1, FS_Singleton
    <2>3. IsFiniteSet({10} \cup {100})
      BY <2>2, FS_AddElement
    <2>4. IsFiniteSet(({10} \cup {100}) \cup {1000})
      BY <2>3, FS_AddElement
    <2>5. IsFiniteSet((({10} \cup {100}) \cup {1000}) \cup {10000})
      BY <2>4, FS_AddElement
    <2>6. all = (({10} \cup {100}) \cup {1000}) \cup {10000}
      OBVIOUS
    <2> QED
      BY <2>5, <2>6
  <1>2. IsFiniteSet(some)
    <2> HIDE DEF all
    <2>1. some \subseteq all
      OBVIOUS
    <2> HIDE DEF some
    <2> QED
      BY <1>1, <2>1, FS_Subset
  <1>3. Cardinality(some) \in Nat
    <2> HIDE DEF some
    <2> QED
      BY <1>2, FS_CardinalityType
  <1> HIDE DEF some
  <1>4. Digits(n) = 1 + Cardinality(some)
    BY DEF Digits, some
  <1> QED
    BY <1>3, <1>4

(* A header has a size, as long as one has been made.                      *)
LEMMA SizeIs ==
  ASSUME ExchangeInv, HeaderMade
  PROVE  /\ Size(header) \in Nat
         /\ header.version = 2 => Size(header) = Len(header.bytes)
         /\ header.version = 1 => Size(header) = Header1(sinfo).size
  <1>1. CASE header.version = 2
    <2>1. header.bytes \in Seq(Octet)
      BY <1>1 DEF HeaderMade
    <2> QED
      BY <1>1, <2>1 DEF Size
  <1>2. CASE header.version # 2
    <2>1. header.version = 1 /\ header.line = Header1(sinfo)
      BY <1>2 DEF HeaderMade
    <2>2. PICK s \in Nat, d \in Nat : s = sinfo.src.size /\ d = sinfo.dst.size
      BY DEF ExchangeInv, Filling, FilledIn, AddressText
    <2>3. PICK m \in Nat, n \in Nat : m = Digits(sinfo.sport) /\ n = Digits(sinfo.dport)
      BY DigitsAre
    <2>4. Header1(sinfo).size \in {15, 16 + s + d + m + n}
      BY <2>2, <2>3 DEF Header1
    <2>5. Header1(sinfo).size \in Nat
      BY <2>4
    <2> QED
      BY <1>2, <2>1, <2>5 DEF Size
  <1> QED
    BY <1>1, <1>2

LEMMA DeliverKeeps ==
  ASSUME ExchangeInv, Deliver
  PROVE  ExchangeInv'
  <1>1. /\ stage = "send" /\ stage' = "arrived" /\ HeaderMade /\ answer = None
        /\ UNCHANGED <<use, sinfo, given, header, changed, answer>>
    BY DEF ExchangeInv, Deliver
  <1>2. PICK n \in Cuts : n > arrived /\ arrived' = n
    BY DEF Deliver
  <1>3. PICK size \in Nat : size = Size(header)
    BY <1>1, SizeIs
  <1>4. Behind \in Nat
    BY ExchangeAssumption
  <1>5. n \in Int /\ (changed => n = size)
    BY <1>3, <1>4 DEF Cuts
  <1>6. arrived' \in Nat
    BY <1>2, <1>5 DEF ExchangeInv
  <1>7. HeaderMade'
    <2>1. header.version = 2 => size = Len(header.bytes)
      BY <1>1, <1>3, SizeIs
    <2> QED
      BY <1>1, <1>2, <1>5, <2>1 DEF HeaderMade
  <1> QED
    BY <1>1, <1>6, <1>7 DEF ExchangeInv

LEMMA ExchangeStep == ExchangeInv /\ [ExchangeNext]_exchangeVars => ExchangeInv'
  <1> SUFFICES ASSUME ExchangeInv, [ExchangeNext]_exchangeVars PROVE ExchangeInv'
    OBVIOUS
  <1>1. CASE AddBytes \/ AddLongId \/ AddNames \/ AddTls
    BY <1>1, AddingFills DEF ExchangeInv
  <1>2. CASE Create
    BY <1>2, CreateKeeps
  <1>3. CASE Corrupt
    BY <1>3, CorruptKeeps
  <1>4. CASE Deliver
    BY <1>4, DeliverKeeps
  <1>5. CASE ParseArrived
    BY <1>5 DEF ParseArrived, ExchangeInv, HeaderMade
  <1>6. CASE ClearAndRetry
    BY <1>6 DEF ClearAndRetry, ExchangeInv, HeaderMade
  <1>7. CASE UNCHANGED exchangeVars
    BY <1>7 DEF exchangeVars, ExchangeInv, HeaderMade
  <1> QED
    BY <1>1, <1>2, <1>3, <1>4, <1>5, <1>6, <1>7 DEF ExchangeNext

LEMMA ExchangeInvariance == ExchangeSpec => []ExchangeInv
  BY ExchangeBegins, ExchangeStep, PTL DEF ExchangeSpec

-----------------------------------------------------------------------------
(* What the receiver is told.  Parse2 is asked for a header that is there  *)
(* as far as it announces.                                                 *)
LEMMA ParsedBytes ==
  ASSUME ExchangeInv, HeaderMade, use.version = 2
  PROVE  /\ header.bytes \in Seq(Octet) /\ Len(header.bytes) >= 16
         /\ Len(header.bytes) = Padded(sinfo) /\ Padded(sinfo) \in Nat
         /\ ~changed => 256 * header.bytes[15] + header.bytes[16] = (Padded(sinfo) - 16) % 65536
         /\ Arrived(header.bytes, arrived) =>
              16 + 256 * header.bytes[15] + header.bytes[16] <= Len(header.bytes)
  <1>1. PICK bytes \in Seq(Octet) :
           /\ bytes = header.bytes /\ Sendable(sinfo) /\ Len(bytes) = Padded(sinfo)
           /\ ~changed => bytes = Header2(sinfo)
           /\ changed => arrived \in {0, Len(bytes)}
    BY DEF HeaderMade
  <1>2. PICK p \in Nat : p = Padded(sinfo) /\ p >= 16
    BY <1>1, PlainIs, PaddedIs
  <1>3. 15 \in 1 .. Len(bytes) /\ 16 \in 1 .. Len(bytes)
    BY <1>1, <1>2
  <1>4. PICK hi \in Nat, lo \in Nat : hi = bytes[15] /\ lo = bytes[16]
    BY <1>3, ByteAt
  <1>5. ~changed => 256 * hi + lo = (p - 16) % 65536
    BY <1>1, <1>2, <1>4, Header2Is
  <1>6. Arrived(bytes, arrived) => 16 + 256 * hi + lo <= p
    <2>1. CASE changed
      <3>1. Arrived(bytes, arrived) <=> arrived >= 16 + 256 * hi + lo
        BY <1>4 DEF Arrived
      <3>2. arrived \in {0, p}
        BY <1>1, <1>2, <2>1
      <3> QED
        BY <3>1, <3>2
    <2>2. CASE ~changed
      <3>1. p - 16 \in Nat
        BY <1>2
      <3>2. (p - 16) % 65536 <= p - 16
        BY <3>1
      <3> QED
        BY <1>2, <1>5, <2>2, <3>2
    <2> QED
      BY <2>1, <2>2
  <1> QED
    BY <1>1, <1>2, <1>4, <1>5, <1>6

LEMMA LineRoomy ==
  ASSUME NEW of, NEW n
  PROVE  Roomy(Parse1(of, n).info)
  <1> DEFINE info == [Cleared EXCEPT !.family = of.family, !.transport = STREAM]
             src  == [info EXCEPT !.src = of.src]
             dst  == [src EXCEPT !.dst = of.dst]
             all  == [dst EXCEPT !.sport = of.sport, !.dport = of.dport]
             none == [all EXCEPT !.dport = 0]
  <1>1. Parse1(of, n).info \in {Cleared, src, dst, all, none}
    BY DEF Parse1
  <1>2. /\ DOMAIN info = DOMAIN Cleared /\ info.tlvs = <<>> /\ info.size = 0
    BY DEF Cleared
  <1> HIDE DEF info
  <1>3. /\ DOMAIN src = DOMAIN Cleared /\ src.tlvs = <<>> /\ src.size = 0
        /\ DOMAIN dst = DOMAIN Cleared /\ dst.tlvs = <<>> /\ dst.size = 0
        /\ DOMAIN all = DOMAIN Cleared /\ all.tlvs = <<>> /\ all.size = 0
        /\ DOMAIN none = DOMAIN Cleared /\ none.tlvs = <<>> /\ none.size = 0
    BY <1>2
  <1> HIDE DEF src, dst, all, none
  <1>4. /\ {"tlvs", "size", "ssl", "crc32c"} \subseteq DOMAIN Cleared
        /\ <<>> \in Seq({}) /\ Len(<<>>) = 0
    BY DEF Cleared
  <1>5. Roomy(src) /\ Roomy(dst) /\ Roomy(all) /\ Roomy(none)
    BY <1>3, <1>4 DEF Roomy
  <1> QED
    BY <1>1, <1>5, ClearedRoomy

LEMMA AnswerRoomy ==
  ASSUME ExchangeInv
  PROVE  Roomy(answer.info)
  <1>1. Roomy(None.info)
    BY ClearedRoomy DEF None
  <1>2. CASE stage # "parsed"
    BY <1>1, <1>2 DEF ExchangeInv
  <1>3. CASE stage = "parsed"
    <2>1. HeaderMade /\ answer = Parse(header, arrived)
      BY <1>3 DEF ExchangeInv
    <2>2. CASE use.version = 2
      <3>1. header.version = 2
        BY <2>1, <2>2 DEF HeaderMade
      <3>2. answer.info \in {None.info, Parse2(header.bytes, arrived).info}
        BY <2>1, <3>1 DEF Parse
      <3>3. Roomy(Parse2(header.bytes, arrived).info)
        BY <2>1, <2>2, ParsedBytes, Parse2Answers
      <3> QED
        BY <1>1, <3>2, <3>3
    <2>3. CASE use.version # 2
      <3>1. header.version = 1
        BY <2>1, <2>3 DEF HeaderMade
      <3>2. answer.info \in {None.info, Parse1(header.line, arrived).info}
        BY <2>1, <3>1 DEF Parse
      <3> QED
        BY <1>1, <3>2, LineRoomy
    <2> QED
      BY <2>2, <2>3
  <1> QED
    BY <1>2, <1>3

(* Neither end ever has more TLVs in tlv_array than tlv_array_append_tlv   *)
(* has allocated elements for, whatever was added and whatever arrived.    *)
THEOREM RoomForTlvs == ExchangeSpec => []ArrayHolds
  <1>1. ExchangeInv => ArrayHolds
    <2> SUFFICES ASSUME ExchangeInv PROVE ArrayHolds
      OBVIOUS
    <2>1. Roomy(sinfo) /\ Roomy(answer.info)
      BY AnswerRoomy DEF ExchangeInv, Filling
    <2> QED
      BY <2>1 DEF Roomy, ArrayHolds
  <1> QED
    BY <1>1, ExchangeInvariance, PTL

(* *pp2_hdr_len and the len of the header are uint16_t: what is announced  *)
(* is what is meant up to this length.                                     *)
InAWord == Padded(sinfo) < 65536

(* A header pp2_create_hdr returns is a multiple of the alignment that was *)
(* asked for, and its len is the number of bytes that follow, as long as   *)
(* the length is one a uint16_t holds.                                     *)
THEOREM Aligned == ExchangeSpec => [](InAWord => HeaderAligned)
  <1>1. ExchangeInv => (InAWord => HeaderAligned)
    <2> SUFFICES ASSUME ExchangeInv, InAWord, stage = "send", header.version = 2, ~changed
                 PROVE  /\ sinfo.power > 1 => Size(header) % 2 ^ sinfo.power = 0
                        /\ 16 + 256 * header.bytes[15] + header.bytes[16] = Size(header)
      BY DEF HeaderAligned
    <2>1. HeaderMade
      BY DEF ExchangeInv
    <2>2. use.version = 2 /\ Sendable(sinfo)
      BY <2>1 DEF HeaderMade
    <2>3. PICK p \in Nat : /\ p = Padded(sinfo) /\ p >= 16 /\ p < 65536
                           /\ Len(header.bytes) = p
      BY <2>1, <2>2, ParsedBytes DEF InAWord
    <2>4. Size(header) = p
      BY <2>3 DEF Size
    <2>5. sinfo.power > 1 => p % (2 ^ sinfo.power) = 0
      BY <2>2, <2>3, PaddedIs
    <2>6. PICK hi \in Nat, lo \in Nat : hi = header.bytes[15] /\ lo = header.bytes[16]
      <3>1. PICK bytes \in Seq(Octet) : bytes = header.bytes /\ Len(bytes) = p
        BY <2>1, <2>2, <2>3, ParsedBytes
      <3>2. 15 \in 1 .. Len(bytes) /\ 16 \in 1 .. Len(bytes)
        BY <2>3, <3>1
      <3> QED
        BY <3>1, <3>2, ByteAt
    <2>7. 256 * hi + lo = (p - 16) % 65536
      BY <2>1, <2>2, <2>3, <2>6, ParsedBytes
    <2>8. (p - 16) % 65536 = p - 16
      BY <2>3
    <2>9. 16 + 256 * header.bytes[15] + header.bytes[16] = Size(header)
      <3>1. 16 + 256 * hi + lo = p
        BY <2>3, <2>7, <2>8
      <3> QED
        BY <2>4, <2>6, <3>1
    <2> QED
      BY <2>4, <2>5, <2>9
  <1> QED
    BY <1>1, ExchangeInvariance, PTL

LEMMA PartOfLine ==
  ASSUME ExchangeInv, HeaderMade, use.version = 1, Parse1(header.line, arrived).rc > 0
  PROVE  /\ arrived >= Size(header)
         /\ Parse1(header.line, arrived).rc = Size(header) \/ Lossy
  <1> DEFINE of == header.line
             rc == Parse1(of, arrived).rc
  <1>1. of = Header1(sinfo) /\ header.version = 1
    BY DEF HeaderMade
  <1>2. PICK n \in Nat, size \in Nat : n = arrived /\ size = Size(header) /\ size = of.size
    BY <1>1, SizeIs DEF ExchangeInv
  <1>3. /\ -ERR("PP1_CRLF") \in Int /\ -ERR("PP1_CRLF") < 0
        /\ -ERR("PP1_SRC_PORT") \in Int /\ -ERR("PP1_SRC_PORT") < 0
        /\ -ERR("PP1_DST_PORT") \in Int /\ -ERR("PP1_DST_PORT") < 0
    <2>1. \A name \in {"PP1_CRLF", "PP1_SRC_PORT", "PP1_DST_PORT"} : ERR(name) \in Nat \ {0}
      BY ErrorNumbers
    <2> QED
      BY <2>1
  <1>4. ~(n < size)
    <2>1. CASE n < size
      <3>1. rc = -ERR("PP1_CRLF")
        BY <1>2, <2>1 DEF Parse1
      <3> QED
        BY <1>3, <3>1
    <2> QED
      BY <2>1
  <1>5. CASE sinfo.family = UNSPEC
    <2>1. of.family = UNSPEC
      BY <1>1, <1>5 DEF Header1
    <2>2. rc = size
      BY <1>2, <1>4, <2>1 DEF Parse1
    <2> QED
      BY <1>2, <1>4, <2>2
  <1>6. CASE sinfo.family # UNSPEC
    <2>1. of.family = sinfo.family /\ of.src = sinfo.src /\ of.dst = sinfo.dst
      BY <1>1, <1>6 DEF Header1
    <2>2. CASE of.src.fam # of.family \/ of.dst.fam # of.family
      <3>1. {sinfo.src.fam, sinfo.dst.fam} # {sinfo.family}
        BY <2>1, <2>2
      <3>2. Lossy
        BY <1>6, <3>1 DEF Lossy
      <3> QED
        BY <1>2, <1>4, <3>2
    <2>3. CASE of.src.fam = of.family /\ of.dst.fam = of.family
      <3>1. rc \in {-ERR("PP1_SRC_PORT"), -ERR("PP1_DST_PORT"), size}
        BY <1>2, <1>4, <1>6, <2>1, <2>3 DEF Parse1
      <3>2. rc = size
        BY <1>3, <3>1
      <3> QED
        BY <1>2, <1>4, <3>2
    <2> QED
      BY <2>2, <2>3
  <1> QED
    BY <1>5, <1>6

(* pp_parse_hdr answers a positive number only when the last byte of the   *)
(* header has arrived, and then the length pp_create_hdr announced; the    *)
(* exception is a line with a text that is no address.  A receiver that    *)
(* clears its pp_info_t and tries again with more never stops too early.   *)
THEOREM WholeHeaders == ExchangeSpec => [](InAWord => NoHeaderFromAPart)
  <1>1. ExchangeInv => (InAWord => NoHeaderFromAPart)
    <2> SUFFICES ASSUME ExchangeInv, InAWord, stage = "parsed", answer.rc > 0, ~changed
                 PROVE  \/ arrived >= Size(header) /\ answer.rc = Size(header)
                        \/ use.version = 1 /\ Lossy /\ arrived >= Size(header)
      BY DEF NoHeaderFromAPart
    <2>1. HeaderMade /\ answer = Parse(header, arrived)
      BY DEF ExchangeInv
    <2>2. None.rc = 0
      BY DEF None
    <2>3. CASE use.version = 2
      <3>1. header.version = 2
        BY <2>1, <2>3 DEF HeaderMade
      <3>2. Parse2(header.bytes, arrived).rc > 0 /\ answer.rc = Parse2(header.bytes, arrived).rc
        BY <2>1, <2>2, <3>1 DEF Parse
      <3>3. PICK bytes \in Seq(Octet), p \in Nat :
               /\ bytes = header.bytes /\ p = Padded(sinfo) /\ Len(bytes) = p /\ p >= 16
               /\ 256 * bytes[15] + bytes[16] = (p - 16) % 65536
        BY <2>1, <2>3, ParsedBytes
      <3>4. PICK hi \in Nat, lo \in Nat : hi = bytes[15] /\ lo = bytes[16]
        <4>1. 15 \in 1 .. Len(bytes) /\ 16 \in 1 .. Len(bytes)
          BY <3>3
        <4> QED
          BY <4>1, ByteAt
      <3>5. 16 + 256 * hi + lo = p
        <4>1. (p - 16) % 65536 = p - 16
          BY <3>3 DEF InAWord
        <4>2. 256 * hi + lo = (p - 16) % 65536
          BY <3>3, <3>4
        <4> QED
          BY <4>1, <4>2
      <3>6. Arrived(bytes, arrived) /\ answer.rc = 16 + 256 * bytes[15] + bytes[16]
        BY <2>1, <2>3, <3>2, <3>3, ParsedBytes, Parse2Answers
      <3>7. answer.rc = p /\ arrived >= p
        BY <3>4, <3>5, <3>6 DEF Arrived
      <3>8. Size(header) = p
        BY <3>1, <3>3 DEF Size
      <3> QED
        BY <3>7, <3>8
    <2>4. CASE use.version = 1
      <3>1. header.version = 1
        BY <2>1, <2>4 DEF HeaderMade
      <3>2. /\ Parse1(header.line, arrived).rc > 0
            /\ answer.rc = Parse1(header.line, arrived).rc
        BY <2>1, <2>2, <3>1 DEF Parse
      <3> QED
        BY <2>1, <2>4, <3>2, PartOfLine
    <2> QED
      BY <2>1, <2>3, <2>4 DEF HeaderMade
  <1> QED
    BY <1>1, ExchangeInvariance, PTL

-----------------------------------------------------------------------------
(* What one function of the library packs another one finds again: where a *)
(* sequence of bytes lies within another one.                              *)
Holds(s, at, t) == at + Len(t) <= Len(s) /\ \A i \in 1 .. Len(t) : s[at + i] = t[i]

LEMMA HoldsBoth ==
  ASSUME NEW s \in Seq(Octet), NEW t \in Seq(Octet)
  PROVE  Holds(s \o t, 0, s) /\ Holds(s \o t, Len(s), t)
  <1>1. PICK m \in Nat, n \in Nat : m = Len(s) /\ n = Len(t)
    OBVIOUS
  <1>2. /\ Len(s \o t) = m + n
        /\ \A i \in 1 .. m : (s \o t)[i] = s[i]
        /\ \A i \in 1 .. n : (s \o t)[m + i] = t[i]
    BY <1>1, Joining
  <1>3. \A i \in 1 .. m : 0 + i = i
    OBVIOUS
  <1> QED
    BY <1>1, <1>2, <1>3 DEF Holds

LEMMA HoldsOn ==
  ASSUME NEW s \in Seq(Octet), NEW t \in Seq(Octet), NEW at \in Nat, NEW u \in Seq(Octet),
         Holds(s, at, u)
  PROVE  Holds(s \o t, at, u)
  <1>1. PICK m \in Nat, n \in Nat, k \in Nat : m = Len(s) /\ n = Len(t) /\ k = Len(u)
    OBVIOUS
  <1>2. /\ Len(s \o t) = m + n
        /\ \A i \in 1 .. m : (s \o t)[i] = s[i]
    BY <1>1, Joining
  <1>3. at + k <= m /\ \A i \in 1 .. k : s[at + i] = u[i]
    BY <1>1 DEF Holds
  <1>4. \A i \in 1 .. k : at + i \in 1 .. m
    BY <1>3
  <1>5. \A i \in 1 .. k : (s \o t)[at + i] = u[i]
    BY <1>2, <1>3, <1>4
  <1>6. at + k <= m + n
    BY <1>3
  <1> QED
    BY <1>1, <1>2, <1>5, <1>6 DEF Holds

(* A part of a part.                                                       *)
LEMMA HoldsIn ==
  ASSUME NEW s \in Seq(Octet), NEW at \in Nat, NEW t \in Seq(Octet), Holds(s, at, t),
         NEW in \in Nat, NEW u \in Seq(Octet), Holds(t, in, u)
  PROVE  Holds(s, at + in, u)
  <1>1. PICK m \in Nat, n \in Nat, k \in Nat : m = Len(s) /\ n = Len(t) /\ k = Len(u)
    OBVIOUS
  <1>2. at + n <= m /\ \A i \in 1 .. n : s[at + i] = t[i]
    BY <1>1 DEF Holds
  <1>3. in + k <= n /\ \A i \in 1 .. k : t[in + i] = u[i]
    BY <1>1 DEF Holds
  <1>4. \A i \in 1 .. k : in + i \in 1 .. n /\ at + (in + i) = (at + in) + i
    BY <1>3
  <1>5. \A i \in 1 .. k : s[(at + in) + i] = u[i]
    <2> TAKE i \in 1 .. k
    <2>1. PICK j \in 1 .. n : j = in + i /\ at + j = (at + in) + i
      BY <1>4
    <2>2. s[at + j] = t[j] /\ t[in + i] = u[i]
      BY <1>2, <1>3
    <2> QED
      BY <2>1, <2>2
  <1>6. (at + in) + k <= m
    BY <1>2, <1>3
  <1> QED
    BY <1>1, <1>5, <1>6 DEF Holds

(* What is held is cut out again.                                          *)
LEMMA HeldIsCut ==
  ASSUME NEW s \in Seq(Octet), NEW at \in Nat, NEW t \in Seq(Octet), Holds(s, at, t)
  PROVE  SubSeq(s, at + 1, at + Len(t)) = t
  <1>1. PICK m \in Nat, n \in Nat : m = Len(s) /\ n = Len(t)
    OBVIOUS
  <1>2. at + n <= m /\ \A i \in 1 .. n : s[at + i] = t[i]
    BY <1>1 DEF Holds
  <1> DEFINE u == SubSeq(s, at + 1, at + n)
  <1>3. u \in Seq(Octet) /\ Len(u) = n /\ \A i \in 1 .. n : u[i] = s[at + i]
    <2>1. \A i \in at + 1 .. at + n : s[i] \in Octet
      BY <1>1, <1>2
    <2>2. /\ u \in Seq(Octet)
          /\ Len(u) = IF at + 1 <= at + n THEN at + n - (at + 1) + 1 ELSE 0
          /\ \A i \in 1 .. at + n - (at + 1) + 1 : u[i] = s[(at + 1) + i - 1]
      <3>1. at + 1 \in Int /\ at + n \in Int
        OBVIOUS
      <3> QED
        BY <2>1, <3>1, SubSeqProperties
    <2>3. at + n - (at + 1) + 1 = n /\ \A i \in 1 .. n : (at + 1) + i - 1 = at + i
      OBVIOUS
    <2>4. Len(u) = n
      <3>1. CASE n = 0
        BY <2>2, <3>1
      <3>2. CASE n # 0
        <4>1. at + 1 <= at + n
          BY <3>2
        <4> QED
          BY <2>2, <2>3, <4>1
      <3> QED
        BY <3>1, <3>2
    <2> QED
      BY <2>2, <2>3, <2>4
  <1> HIDE DEF u
  <1>4. u = t
    BY <1>1, <1>2, <1>3, SeqEqual
  <1> QED
    BY <1>1, <1>4 DEF u

(* A TLV, seen by the getters and by the parser.                           *)
LEMMA TlvBytes ==
  ASSUME NEW type \in Octet, NEW value \in Seq(Octet)
  PROVE  /\ TlvType(Tlv(type, value)) = type /\ TlvValue(Tlv(type, value)) = value
         /\ Holds(Tlv(type, value), 3, value)
         /\ Len(value) < 65536 =>
              256 * Tlv(type, value)[2] + Tlv(type, value)[3] = Len(value)
  <1> DEFINE n   == Len(value)
             one == <<type>>
             two == one \o U16(n)
             tlv == two \o value
  <1>1. n \in Nat
    OBVIOUS
  <1>2. one \in Seq(Octet) /\ Len(one) = 1 /\ one[1] = type
    OBVIOUS
  <1>3. /\ U16(n) \in Seq(Octet) /\ Len(U16(n)) = 2
        /\ 256 * U16(n)[1] + U16(n)[2] = n % 65536
    BY <1>1, U16Is
  <1> HIDE DEF n
  <1>4. /\ two \in Seq(Octet) /\ Len(two) = 3
        /\ two[1] = type /\ two[2] = U16(n)[1] /\ two[3] = U16(n)[2]
    <2>1. one \in Seq(Octet) /\ U16(n) \in Seq(Octet)
      BY <1>2, <1>3
    <2>2. /\ two \in Seq(Octet) /\ Len(two) = Len(one) + Len(U16(n))
          /\ \A i \in 1 .. Len(one) : two[i] = one[i]
          /\ \A i \in 1 .. Len(U16(n)) : two[Len(one) + i] = U16(n)[i]
      BY ONLY <2>1, Joining DEF two
    <2>3. Len(one) = 1 /\ one[1] = type /\ Len(U16(n)) = 2
      BY <1>2, <1>3
    <2> HIDE DEF two, one
    <2>4. two[1 + 1] = U16(n)[1] /\ two[1 + 2] = U16(n)[2] /\ two[1] = one[1]
      BY ONLY <2>2, <2>3
    <2> QED
      BY <2>2, <2>3, <2>4
  <1> HIDE DEF two
  <1>5. /\ tlv \in Seq(Octet) /\ Len(tlv) = 3 + n
        /\ \A i \in 1 .. 3 : tlv[i] = two[i]
    <2>1. two \in Seq(Octet) /\ Len(two) = 3
      BY <1>4
    <2>2. /\ two \o value \in Seq(Octet) /\ Len(two \o value) = Len(two) + Len(value)
          /\ \A i \in 1 .. Len(two) : (two \o value)[i] = two[i]
      BY ONLY <2>1, value \in Seq(Octet), Joining
    <2> QED
      BY <2>1, <2>2 DEF n
  <1>6. Holds(tlv, 3, value)
    BY <1>4, HoldsBoth
  <1> HIDE DEF tlv
  <1>7. tlv[1] = type /\ tlv[2] = U16(n)[1] /\ tlv[3] = U16(n)[2]
    BY <1>4, <1>5
  <1>8. SubSeq(tlv, 3 + 1, 3 + Len(value)) = value
    BY <1>5, <1>6, HeldIsCut
  <1>9. n < 65536 => n % 65536 = n
    BY <1>1
  <1>10. Tlv(type, value) = tlv
    BY DEF Tlv, tlv, two, one, n
  <1>11. TlvValue(tlv) = value
    BY <1>5, <1>8 DEF TlvValue, n
  <1> QED
    BY <1>3, <1>6, <1>7, <1>9, <1>10, <1>11 DEF TlvType, n

(* The parser behind a TLV with a value of n bytes.                        *)
Onward(s, n) == [s EXCEPT !.at = @ + 3 + n, !.left = @ - 3 - n]

(* A TLV ahead, with room for it.                                          *)
TlvAhead(buf, read, left, type, value) ==
  /\ buf \in Seq(Octet) /\ read \in Nat /\ left \in Int /\ type \in Octet /\ value \in Seq(Octet)
  /\ 3 + Len(value) < 65536 /\ Holds(buf, read, Tlv(type, value))
  /\ left > 3 /\ 3 + Len(value) <= left

(* One TLV in front of the parser is read as it was written.               *)
LEMMA OneRound ==
  ASSUME NEW s, NEW buf, NEW at, NEW left, s.rc = 0, s.buf = buf, s.at = at + 1, s.left = left,
         NEW type, NEW value, TlvAhead(buf, at, left, type, value),
         NEW n \in Nat, n = Len(value), NEW taken, taken = TakeTlv(s, type, value), ~(taken.rc < 0)
  PROVE  NextTlv(s) = Onward(taken, n)
  <1>0. /\ buf \in Seq(Octet) /\ at \in Nat /\ left \in Int /\ type \in Octet /\ value \in Seq(Octet)
        /\ 3 + Len(value) < 65536 /\ Len(value) < 65536 /\ Holds(buf, at, Tlv(type, value))
        /\ left > 3 /\ 3 + Len(value) <= left
    BY DEF TlvAhead
  <1> DEFINE tlv == Tlv(type, value)
             len == 256 * s.buf[s.at + 1] + s.buf[s.at + 2]
  <1>1. n \in Nat /\ s.buf \in Seq(Octet) /\ Holds(s.buf, at, Tlv(type, value))
    BY <1>0
  <1>2. tlv \in Seq(Octet) /\ Len(tlv) = 3 + n
    BY <1>0, TlvIs
  <1>3. tlv[1] = type /\ 256 * tlv[2] + tlv[3] = n /\ Holds(tlv, 3, value)
    BY <1>0, TlvBytes DEF TlvType
  <1> HIDE DEF tlv
  <1>4. s.buf[at + 1] = tlv[1] /\ s.buf[at + 2] = tlv[2] /\ s.buf[at + 3] = tlv[3]
    <2>1. 1 \in 1 .. Len(tlv) /\ 2 \in 1 .. Len(tlv) /\ 3 \in 1 .. Len(tlv)
      BY <1>1, <1>2
    <2> QED
      BY <1>1, <2>1 DEF Holds, tlv
  <1>5. len = n /\ s.buf[s.at] = type
    <2>1. s.at + 1 = at + 2 /\ s.at + 2 = at + 3
      BY <1>0
    <2> QED
      BY <1>3, <1>4, <2>1
  <1>6. SubSeq(s.buf, s.at + 3, s.at + 2 + len) = value
    <2>1. Holds(s.buf, at, tlv)
      BY <1>1 DEF tlv
    <2>2. Holds(s.buf, at + 3, value)
      BY <1>0, <1>1, <1>2, <1>3, <2>1, HoldsIn
    <2>5. at + 3 \in Nat /\ value \in Seq(Octet) /\ s.buf \in Seq(Octet)
      BY <1>0, <1>1
    <2>3. SubSeq(s.buf, (at + 3) + 1, (at + 3) + Len(value)) = value
      BY ONLY <2>2, <2>5, HeldIsCut
    <2>4. s.at + 3 = (at + 3) + 1 /\ s.at + 2 + len = (at + 3) + Len(value)
      <3>1. len = n
        BY <1>5
      <3> HIDE DEF len
      <3> QED
        BY ONLY <1>0, <3>1, n \in Nat, n = Len(value), s.at = at + 1
    <2> QED
      BY <2>3, <2>4
  <1> HIDE DEF len
  <1>7. ~(s.rc < 0 \/ s.left <= 3) /\ ~((3 + len) % 65536 > s.left) /\ ~((3 + len) % 65536 < 3)
    <2>1. (3 + n) % 65536 = 3 + n /\ 3 + n <= left
      BY <1>0, <1>1
    <2> QED
      BY <1>0, <1>1, <1>5, <2>1
  <1>8. PICK read : read = TakeTlv(s, s.buf[s.at], SubSeq(s.buf, s.at + 3, s.at + 2 + len))
    OBVIOUS
  <1>9. NextTlv(s) = IF read.rc < 0 THEN read
                     ELSE [read EXCEPT !.at = @ + 3 + len, !.left = @ - 3 - len]
    BY <1>7, <1>8 DEF NextTlv, len
  <1>10. read = TakeTlv(s, type, value)
    <2>1. s.buf[s.at] = type /\ SubSeq(s.buf, s.at + 3, s.at + 2 + len) = value
      BY <1>5, <1>6
    <2> HIDE DEF len
    <2> QED
      BY ONLY <1>8, <2>1
  <1>11. read = taken /\ ~(read.rc < 0)
    BY <1>10
  <1>12. NextTlv(s) = [read EXCEPT !.at = @ + 3 + len, !.left = @ - 3 - len]
    BY ONLY <1>9, <1>11
  <1> QED
    BY ONLY <1>5, <1>11, <1>12 DEF Onward

(* Cut off behind it.                                                      *)
LEMMA HoldsCut ==
  ASSUME NEW s \in Seq(Octet), NEW at \in Nat, NEW t \in Seq(Octet), Holds(s, at, t),
         NEW n \in Nat, at + Len(t) <= n, n <= Len(s)
  PROVE  Holds(SubSeq(s, 1, n), at, t)
  <1>1. PICK m \in Nat, k \in Nat : m = Len(s) /\ k = Len(t)
    OBVIOUS
  <1>2. at + k <= m /\ \A i \in 1 .. k : s[at + i] = t[i]
    BY <1>1 DEF Holds
  <1> DEFINE u == SubSeq(s, 1, n)
  <1>3. u \in Seq(Octet) /\ Len(u) = n /\ \A i \in 1 .. n : u[i] = s[i]
    BY <1>1
  <1> HIDE DEF u
  <1>4. \A i \in 1 .. k : at + i \in 1 .. n
    BY <1>1
  <1>5. \A i \in 1 .. k : u[at + i] = t[i]
    BY <1>2, <1>3, <1>4
  <1>6. Holds(u, at, t)
    BY <1>1, <1>3, <1>5 DEF Holds
  <1> QED
    BY <1>6 DEF u

(* Where the sequences of bytes lie that are put together: each behind the *)
(* one before it.                                                          *)
Places(p, seqs) ==
  /\ p \in [0 .. Len(seqs) -> Nat] /\ p[0] = 0
  /\ \A k \in 1 .. Len(seqs) : p[k] = p[k - 1] + Len(seqs[k])

LEMMA FlatPlaces ==
  ASSUME NEW seqs \in Seq(Seq(Octet))
  PROVE  \E p : /\ Places(p, seqs) /\ p[Len(seqs)] = Len(FlattenSeq(seqs))
                /\ \A k \in 1 .. Len(seqs) : Holds(FlattenSeq(seqs), p[k - 1], seqs[k])
  <1>1. PICK n \in Nat : n = Len(seqs)
    OBVIOUS
  <1>2. CASE n = 0
    <2>1. seqs = <<>>
      BY <1>1, <1>2, EmptySeq
    <2>2. FlattenSeq(seqs) = seqs
      BY <1>1, <1>2 DEF FlattenSeq
    <2> DEFINE p == [k \in 0 .. 0 |-> 0]
    <2>3. p \in [0 .. 0 -> Nat] /\ p[0] = 0
      OBVIOUS
    <2> HIDE DEF p
    <2>4. \A k \in 1 .. 0 : FALSE
      OBVIOUS
    <2>5. Places(p, seqs) /\ p[Len(seqs)] = Len(FlattenSeq(seqs))
      BY <1>1, <1>2, <2>2, <2>3, <2>4 DEF Places
    <2>6. \A k \in 1 .. Len(seqs) : Holds(FlattenSeq(seqs), p[k - 1], seqs[k])
      BY <1>1, <1>2, <2>4
    <2> QED
      BY <2>5, <2>6
  <1>3. CASE n # 0
    <2> DEFINE S(f) == [i \in 1 .. Len(seqs) |-> IF i = 1 THEN seqs[i] ELSE f[i - 1] \o seqs[i]]
               flat == CHOOSE f : f = S(f)
    <2>1. FlattenSeq(seqs) = flat[n]
      BY <1>1, <1>3 DEF FlattenSeq
    <2>2. flat = S(flat)
      <3>1. PICK f : f = [k \in 1 .. n |-> FlatRound(seqs, f, k)]
        BY FlatExists
      <3>2. f = S(f)
        BY <1>1, <3>1 DEF FlatRound
      <3> HIDE DEF S
      <3> QED
        BY <3>2, Zenon
    <2> HIDE DEF flat
    <2>3. \A i \in 1 .. n : flat[i] = IF i = 1 THEN seqs[i] ELSE flat[i - 1] \o seqs[i]
      BY <1>1, <2>2
    <2>4. \A i \in 1 .. n : seqs[i] \in Seq(Octet)
      BY <1>1
    <2> DEFINE p == [k \in 0 .. n |-> IF k = 0 THEN 0 ELSE Len(flat[k])]
               Meets(k) == /\ flat[k] \in Seq(Octet)
                           /\ p[k] = p[k - 1] + Len(seqs[k])
                           /\ \A j \in 0 .. k : p[j] \in Nat
                           /\ \A j \in 1 .. k : Holds(flat[k], p[j - 1], seqs[j])
               G == {k \in Nat : k + 1 <= n => Meets(k + 1)}
    <2>5. p[0] = 0 /\ \A k \in 1 .. n : p[k] = Len(flat[k])
      OBVIOUS
    <2>55. p = [k \in 0 .. n |-> p[k]]
      OBVIOUS
    <2> HIDE DEF p
    <2>6. 0 \in G
      <3>1. 1 \in 1 .. n /\ 0 + 1 = 1 /\ 1 - 1 = 0
        BY <1>3
      <3>2. flat[1] = seqs[1] /\ flat[1] \in Seq(Octet) /\ seqs[1] \in Seq(Octet)
        BY <2>3, <2>4, <3>1
      <3>3. p[1] = Len(seqs[1]) /\ p[1] \in Nat /\ p[0] = 0
        BY <2>5, <3>1, <3>2
      <3>4. Holds(flat[1], 0, seqs[1])
        <4>1. \A i \in 1 .. Len(seqs[1]) : 0 + i = i
          BY <3>2
        <4>2. 0 + Len(seqs[1]) <= Len(flat[1])
          BY <3>2, <3>3
        <4> QED
          BY <3>2, <4>1, <4>2 DEF Holds
      <3>5. \A j \in 1 .. 1 : j = 1
        OBVIOUS
      <3>6. Meets(1)
        <4>1. \A j \in 1 .. 1 : Holds(flat[1], p[j - 1], seqs[j])
          BY <3>1, <3>3, <3>4, <3>5
        <4>2. \A j \in 0 .. 1 : p[j] \in Nat
          <5>1. \A j \in 0 .. 1 : j = 0 \/ j = 1
            OBVIOUS
          <5> QED
            BY <3>3, <5>1
        <4> QED
          BY <3>1, <3>2, <3>3, <4>1, <4>2
      <3> HIDE DEF Meets
      <3> QED
        BY <3>1, <3>6
    <2>7. ASSUME NEW k \in G PROVE k + 1 \in G
      <3> SUFFICES ASSUME k + 2 <= n PROVE Meets(k + 2)
        <4>1. (k + 1) + 1 = k + 2
          OBVIOUS
        <4> HIDE DEF Meets
        <4> QED
          BY <4>1
      <3>0. k \in Nat
        OBVIOUS
      <3>1. PICK l \in Nat, m \in Nat : l = k + 1 /\ m = k + 2 /\ m = l + 1
        BY <3>0
      <3>2. l \in 1 .. n /\ m \in 1 .. n /\ m # 1 /\ m - 1 = l
        BY <3>0, <3>1
      <3>3. Meets(l)
        <4> HIDE DEF Meets
        <4> QED
          BY <3>1, <3>2
      <3>4. flat[m] = flat[l] \o seqs[m]
        BY <2>3, <3>2
      <3>5. flat[l] \in Seq(Octet) /\ seqs[m] \in Seq(Octet)
        BY <2>4, <3>2, <3>3
      <3>6. /\ flat[m] \in Seq(Octet) /\ Len(flat[m]) = Len(flat[l]) + Len(seqs[m])
            /\ Len(flat[l]) \in Nat /\ Len(seqs[m]) \in Nat
        BY ONLY <3>4, <3>5, Joining
      <3>7. p[m] = Len(flat[m]) /\ p[l] = Len(flat[l])
        BY <2>5, <3>2
      <3>8. p[m] \in Nat /\ p[m] = p[m - 1] + Len(seqs[m])
        <4>1. m - 1 = l
          BY <3>2
        <4>2. PICK x \in Nat, y \in Nat : x = Len(flat[l]) /\ y = Len(seqs[m])
          BY <3>6
        <4>3. p[m] = x + y /\ p[l] = x
          BY ONLY <3>6, <3>7, <4>2
        <4>4. p[m - 1] = x
          BY <4>1, <4>3
        <4>5. x + y \in Nat
          OBVIOUS
        <4> QED
          BY ONLY <4>2, <4>3, <4>4, <4>5
      <3>9. /\ \A j \in 0 .. m : p[j] \in Nat
            /\ \A j \in 1 .. l : p[j - 1] \in Nat /\ seqs[j] \in Seq(Octet)
        <4>1. \A j \in 0 .. l : p[j] \in Nat
          BY <3>3
        <4>2. /\ \A j \in 0 .. m : j \in 0 .. l \/ j = m
              /\ \A j \in 1 .. l : j \in 1 .. n /\ j - 1 \in 0 .. l
          BY <3>1, <3>2
        <4>3. \A j \in 1 .. l : p[j - 1] \in Nat
          BY <4>1, <4>2
        <4> QED
          BY <2>4, <3>8, <4>1, <4>2, <4>3
      <3>10. \A j \in 1 .. l : Holds(flat[m], p[j - 1], seqs[j])
        <4> TAKE j \in 1 .. l
        <4>1. Holds(flat[l], p[j - 1], seqs[j])
          BY <3>3
        <4>2. p[j - 1] \in Nat /\ seqs[j] \in Seq(Octet)
          BY <3>9
        <4>3. Holds(flat[l] \o seqs[m], p[j - 1], seqs[j])
          BY ONLY <3>5, <4>1, <4>2, HoldsOn
        <4> QED
          BY <3>4, <4>3
      <3>11. Holds(flat[m], p[m - 1], seqs[m])
        <4>1. Holds(flat[l] \o seqs[m], Len(flat[l]), seqs[m])
          BY ONLY <3>5, HoldsBoth
        <4> QED
          BY <3>2, <3>4, <3>7, <4>1
      <3>12. \A j \in 1 .. m : Holds(flat[m], p[j - 1], seqs[j])
        <4>1. \A j \in 1 .. m : j \in 1 .. l \/ j = m
          BY <3>1
        <4> QED
          BY <3>10, <3>11, <4>1
      <3>13. Meets(m)
        BY <3>6, <3>8, <3>9, <3>12
      <3> HIDE DEF Meets
      <3> QED
        BY <3>1, <3>13
    <2> HIDE DEF Meets
    <2>8. G = Nat
      <3>1. G \in SUBSET Nat
        OBVIOUS
      <3> HIDE DEF G
      <3> QED
        BY <2>6, <2>7, <3>1, Induction
    <2>9. \A k \in 1 .. n : Meets(k)
      <3> TAKE k \in 1 .. n
      <3>1. PICK j \in Nat : j + 1 = k
        <4>1. k - 1 \in Nat /\ (k - 1) + 1 = k
          OBVIOUS
        <4> QED
          BY <4>1
      <3>2. j \in G
        BY <2>8
      <3> QED
        BY <3>1, <3>2
    <2>10. \A k \in 1 .. n : p[k] \in Nat /\ p[k] = p[k - 1] + Len(seqs[k])
      <3> TAKE k \in 1 .. n
      <3>1. k \in 0 .. k
        OBVIOUS
      <3> QED
        BY <2>9, <3>1 DEF Meets
    <2>11. p \in [0 .. n -> Nat]
      <3>1. \A k \in 0 .. n : p[k] \in Nat
        <4>1. \A k \in 0 .. n : k = 0 \/ k \in 1 .. n
          OBVIOUS
        <4> QED
          BY <2>5, <2>10, <4>1
      <3> QED
        BY <2>55, <3>1
    <2>12. Places(p, seqs)
      BY <1>1, <2>5, <2>10, <2>11 DEF Places
    <2>13. n \in 1 .. n
      BY <1>3
    <2>14. p[Len(seqs)] = Len(FlattenSeq(seqs))
      BY <1>1, <2>1, <2>5, <2>13
    <2>15. \A k \in 1 .. Len(seqs) : Holds(FlattenSeq(seqs), p[k - 1], seqs[k])
      BY <1>1, <2>1, <2>9, <2>13 DEF Meets
    <2> QED
      BY <2>12, <2>14, <2>15
  <1> QED
    BY <1>2, <1>3

(* The two bytes behind the signature, and a version 2 header up to its    *)
(* checksum.                                                               *)
Kind(info) ==
  <<IF info.family = UNSPEC THEN 32 ELSE 33, 16 * info.family + info.transport>>
Ahead(info) ==
  Signature \o Kind(info) \o U16(Padded(info) - 16) \o AddrBytes(info)
  \o FlattenSeq(info.tlvs) \o Noop(info)

LEMMA KindIs ==
  ASSUME NEW info, Sendable(info)
  PROVE  Kind(info) \in Seq(Octet) /\ Len(Kind(info)) = 2
  <1>1. PICK f \in 0 .. 3, t \in 0 .. 2 : f = info.family /\ t = info.transport
    BY SendableIs
  <1>2. PICK x \in Octet, y \in Octet :
          x = (IF info.family = UNSPEC THEN 32 ELSE 33) /\ y = 16 * info.family + info.transport
    <2>1. 16 * f + t \in Octet /\ 32 \in Octet /\ 33 \in Octet
      BY DEF Octet
    <2> QED
      BY <1>1, <2>1
  <1>3. Kind(info) = <<x, y>>
    BY <1>2 DEF Kind
  <1> QED
    BY <1>3

LEMMA NoopIs ==
  ASSUME NEW info, Sendable(info)
  PROVE  /\ Noop(info) \in Seq(Octet)
         /\ info.power <= 1 => Len(Noop(info)) = 0
         /\ Padded(info) # Plain(info) =>
              /\ Len(Noop(info)) = Padded(info) - Plain(info)
              /\ Noop(info) = Tlv(Type.NOOP, Zeros(Padded(info) - Plain(info) - 3))
  <1>1. PICK n \in Nat, p \in Nat : n = Padded(info) /\ p = Plain(info)
    BY PlainIs, PaddedIs
  <1>2. PICK power \in 0 .. 15 : power = info.power
    BY SendableHas
  <1>3. CASE power <= 1
    <2>1. ~(info.power > 1)
      BY <1>2, <1>3
    <2>2. Noop(info) = <<>>
      BY <2>1 DEF Noop
    <2>3. n = p
      BY <1>1, <1>2, <1>3, PaddedIs
    <2>4. <<>> \in Seq(Octet) /\ Len(<<>>) = 0
      OBVIOUS
    <2> QED
      BY <1>1, <2>2, <2>3, <2>4
  <1>4. CASE power > 1
    <2>1. info.power > 1 /\ ~(info.power <= 1)
      BY <1>2, <1>4
    <2>2. PICK gap \in Int : gap = n - p - 3
      OBVIOUS
    <2>3. Noop(info) = Tlv(Type.NOOP, Zeros(gap))
      BY <1>1, <2>1, <2>2 DEF Noop
    <2>4. PICK z \in Seq(Octet) : z = Zeros(gap) /\ (gap \in Nat => Len(z) = gap)
      BY ZerosAre
    <2>5. Type.NOOP \in Octet
      BY TypesAre
    <2>6. Tlv(Type.NOOP, z) \in Seq(Octet) /\ Len(Tlv(Type.NOOP, z)) = 3 + Len(z)
      BY <2>4, <2>5, TlvIs
    <2>7. n # p => gap \in Nat /\ 3 + gap = n - p
      BY <1>1, <2>2, PaddedIs
    <2>8. n # p => Len(Noop(info)) = n - p
      BY ONLY <2>3, <2>4, <2>6, <2>7
    <2>9. Noop(info) \in Seq(Octet)
      BY ONLY <2>3, <2>4, <2>6
    <2>10. n # p => Noop(info) = Tlv(Type.NOOP, Zeros(n - p - 3))
      BY <2>2, <2>3
    <2> QED
      BY <1>1, <2>1, <2>8, <2>9, <2>10
  <1> QED
    BY <1>3, <1>4

LEMMA AheadHas ==
  ASSUME NEW info, Sendable(info)
  PROVE  /\ Ahead(info) \in Seq(Octet)
         /\ Len(Ahead(info)) = 16 + AddrLen(info.family) + Len(FlattenSeq(info.tlvs)) + Len(Noop(info))
         /\ Holds(Ahead(info), 0, Signature) /\ Holds(Ahead(info), 12, Kind(info))
         /\ Holds(Ahead(info), 16, AddrBytes(info))
         /\ Holds(Ahead(info), 16 + AddrLen(info.family), FlattenSeq(info.tlvs))
         /\ Holds(Ahead(info), 16 + AddrLen(info.family) + Len(FlattenSeq(info.tlvs)), Noop(info))
  <1> DEFINE kind == Kind(info)
             length == U16(Padded(info) - 16)
             addr == AddrBytes(info)
             flat == FlattenSeq(info.tlvs)
             noop == Noop(info)
             one  == Signature \o kind
             two  == one \o length
             three == two \o addr
             four == three \o flat
             five == four \o noop
  <1>1. Signature \in Seq(Octet) /\ Len(Signature) = 12
    BY DEF Signature, Octet
  <1>2. kind \in Seq(Octet) /\ Len(kind) = 2
    BY KindIs
  <1>3. length \in Seq(Octet) /\ Len(length) = 2
    <2>1. Padded(info) - 16 \in Nat
      BY PlainIs, PaddedIs
    <2> QED
      BY <2>1, U16Is
  <1>4. PICK a \in Nat, l \in Nat, m \in Nat :
          a = AddrLen(info.family) /\ l = Len(flat) /\ m = Len(noop)
    BY PlainIs, NoopIs
  <1>5. /\ addr \in Seq(Octet) /\ Len(addr) = a
        /\ flat \in Seq(Octet) /\ Len(flat) = l
        /\ noop \in Seq(Octet) /\ Len(noop) = m
    BY <1>4, AddrBytesAre, PlainIs, NoopIs
  <1>6. Ahead(info) = five
    BY DEF Ahead
  <1> HIDE DEF kind, length, addr, flat, noop
  <1>7. one \in Seq(Octet) /\ Len(one) = 14 /\ Holds(one, 0, Signature) /\ Holds(one, 12, kind)
    <2>1. one \in Seq(Octet) /\ Len(one) = Len(Signature) + Len(kind)
      BY ONLY <1>1, <1>2, Joining
    <2>2. Holds(one, 0, Signature) /\ Holds(one, Len(Signature), kind)
      BY ONLY <1>1, <1>2, HoldsBoth
    <2> HIDE DEF one
    <2> QED
      BY <1>1, <1>2, <2>1, <2>2
  <1> HIDE DEF one
  <1>8. two \in Seq(Octet) /\ Len(two) = 16 /\ Holds(two, 0, Signature) /\ Holds(two, 12, kind)
    <2>1. two \in Seq(Octet) /\ Len(two) = Len(one) + Len(length)
      BY ONLY <1>3, <1>7, Joining
    <2>2. 0 \in Nat /\ 12 \in Nat
      OBVIOUS
    <2>3. Holds(two, 0, Signature) /\ Holds(two, 12, kind)
      BY ONLY <1>1, <1>2, <1>3, <1>7, <2>2, HoldsOn
    <2> HIDE DEF two
    <2> QED
      BY <1>3, <1>7, <2>1, <2>3
  <1> HIDE DEF two
  <1>9. /\ three \in Seq(Octet) /\ Len(three) = 16 + a
        /\ Holds(three, 0, Signature) /\ Holds(three, 12, kind) /\ Holds(three, 16, addr)
    <2>1. three \in Seq(Octet) /\ Len(three) = Len(two) + Len(addr)
      BY ONLY <1>5, <1>8, Joining
    <2>2. 0 \in Nat /\ 12 \in Nat
      OBVIOUS
    <2>3. Holds(three, 0, Signature) /\ Holds(three, 12, kind)
      BY ONLY <1>1, <1>2, <1>5, <1>8, <2>2, HoldsOn
    <2>4. Holds(three, Len(two), addr)
      BY ONLY <1>5, <1>8, HoldsBoth
    <2> HIDE DEF three
    <2> QED
      BY <1>5, <1>8, <2>1, <2>3, <2>4
  <1> HIDE DEF three
  <1>10. /\ four \in Seq(Octet) /\ Len(four) = 16 + a + l
         /\ Holds(four, 0, Signature) /\ Holds(four, 12, kind) /\ Holds(four, 16, addr)
         /\ Holds(four, 16 + a, flat)
    <2>1. 16 \in Nat /\ 0 \in Nat /\ 12 \in Nat /\ 16 + a \in Nat
      OBVIOUS
    <2>2. four \in Seq(Octet) /\ Len(four) = 16 + a + l
      <3>1. a \in Nat /\ l \in Nat
        OBVIOUS
      <3> QED
        BY ONLY <1>5, <1>9, <2>1, <3>1, JoinedLength
    <2>3. Holds(four, 0, Signature) /\ Holds(four, 12, kind) /\ Holds(four, 16, addr)
      BY ONLY <1>1, <1>2, <1>5, <1>9, <2>1, HoldsOn
    <2>4. Holds(four, Len(three), flat)
      BY ONLY <1>5, <1>9, HoldsBoth
    <2> HIDE DEF four
    <2> QED
      BY <1>9, <2>2, <2>3, <2>4
  <1> HIDE DEF four
  <1>11. /\ five \in Seq(Octet) /\ Len(five) = 16 + a + l + m
         /\ Holds(five, 0, Signature) /\ Holds(five, 12, kind) /\ Holds(five, 16, addr)
         /\ Holds(five, 16 + a, flat) /\ Holds(five, 16 + a + l, noop)
    <2>1. 16 \in Nat /\ 0 \in Nat /\ 12 \in Nat /\ 16 + a \in Nat /\ 16 + a + l \in Nat
      OBVIOUS
    <2>2. five \in Seq(Octet) /\ Len(five) = 16 + a + l + m
      <3>1. m \in Nat
        OBVIOUS
      <3> QED
        BY ONLY <1>5, <1>10, <2>1, <3>1, JoinedLength
    <2>3. Holds(five, 0, Signature) /\ Holds(five, 12, kind) /\ Holds(five, 16, addr)
      BY ONLY <1>1, <1>2, <1>5, <1>10, <2>1, HoldsOn
    <2>4. Holds(five, 16 + a, flat)
      BY ONLY <1>5, <1>10, <2>1, HoldsOn
    <2>5. Holds(five, Len(four), noop)
      BY ONLY <1>5, <1>10, HoldsBoth
    <2> HIDE DEF five
    <2> QED
      BY <1>10, <2>2, <2>3, <2>4, <2>5
  <1> HIDE DEF five
  <1>12. /\ Ahead(info) \in Seq(Octet)
         /\ Len(Ahead(info)) = 16 + AddrLen(info.family) + Len(flat) + Len(noop)
    BY <1>4, <1>5, <1>6, <1>11
  <1>13. /\ Holds(Ahead(info), 0, Signature) /\ Holds(Ahead(info), 12, kind)
         /\ Holds(Ahead(info), 16, addr) /\ Holds(Ahead(info), 16 + AddrLen(info.family), flat)
         /\ Holds(Ahead(info), 16 + AddrLen(info.family) + Len(flat), noop)
    BY <1>4, <1>5, <1>6, <1>11
  <1> QED
    BY <1>12, <1>13 DEF kind, addr, flat, noop

(* In front of a value is its length, whatever the value.                  *)
LEMMA TlvFront ==
  ASSUME NEW type \in Octet, NEW v \in Seq(Octet), NEW w \in Seq(Octet), Len(v) = Len(w)
  PROVE  \A i \in 1 .. 3 : Tlv(type, v)[i] = Tlv(type, w)[i]
  <1> DEFINE one   == <<type>>
             word  == U16(Len(v))
             ahead == one \o word
  <1>1. one \in Seq(Octet) /\ Len(one) = 1
    OBVIOUS
  <1>2. word \in Seq(Octet) /\ Len(word) = 2
    <2>1. Len(v) \in Nat
      OBVIOUS
    <2> QED
      BY <2>1, U16Is
  <1> HIDE DEF one, word
  <1>3. ahead \in Seq(Octet) /\ Len(ahead) = Len(one) + Len(word)
    BY ONLY <1>1, <1>2, Joining
  <1>4. Tlv(type, v) = ahead \o v /\ Tlv(type, w) = ahead \o w
    BY DEF Tlv, one, word
  <1> HIDE DEF ahead
  <1>5. Len(ahead) = 3
    BY <1>1, <1>2, <1>3
  <1>6. /\ \A i \in 1 .. Len(ahead) : (ahead \o v)[i] = ahead[i]
        /\ \A i \in 1 .. Len(ahead) : (ahead \o w)[i] = ahead[i]
    <2>1. ahead \in Seq(Octet) /\ v \in Seq(Octet) /\ w \in Seq(Octet)
      BY <1>3
    <2> QED
      BY ONLY <2>1, Joining
  <1> QED
    BY <1>4, <1>5, <1>6

(* The header with the bytes of its checksum zero is what the checksum was *)
(* taken of.                                                               *)
LEMMA SumOf ==
  ASSUME NEW ahead \in Seq(Octet), NEW sum \in Seq(Octet), Len(sum) = 4,
         NEW n \in Nat, n = Len(ahead) + 7
  PROVE  Blanked(ahead \o Tlv(Type.CRC32C, sum), n - 3, 4) = ahead \o Tlv(Type.CRC32C, Zeros(4))
  <1> DEFINE last  == Tlv(Type.CRC32C, sum)
             empty == Tlv(Type.CRC32C, Zeros(4))
             all   == ahead \o last
             none  == ahead \o empty
             blank == Blanked(all, n - 3, 4)
  <1>1. PICK m \in Nat : m = Len(ahead) /\ n = m + 7
    OBVIOUS
  <1>2. Zeros(4) \in Seq(Octet) /\ Len(Zeros(4)) = 4
    <2>1. 4 \in Int /\ 4 \in Nat
      OBVIOUS
    <2> QED
      BY <2>1, ZerosAre, Zenon
  <1>3. Type.CRC32C \in Octet
    BY TypesAre
  <1>4. /\ last \in Seq(Octet) /\ Len(last) = 3 + Len(sum)
        /\ empty \in Seq(Octet) /\ Len(empty) = 3 + Len(Zeros(4))
    BY <1>2, <1>3, TlvIs
  <1>5. \A i \in 1 .. 3 : last[i] = empty[i]
    BY <1>2, <1>3, TlvFront
  <1>6. Holds(empty, 3, Zeros(4))
    BY <1>2, <1>3, TlvBytes
  <1> HIDE DEF last, empty
  <1>7. Len(last) = 7 /\ Len(empty) = 7
    <2>1. Len(last) = 3 + 4 /\ Len(empty) = 3 + 4
      BY <1>2, <1>4, Zenon
    <2> QED
      BY ONLY <2>1
  <1>8. \A i \in 4 .. 7 : empty[i] = 0
    <2>1. \A i \in 1 .. 4 : empty[3 + i] = Zeros(4)[i]
      BY <1>2, <1>6 DEF Holds
    <2>2. \A i \in 1 .. 4 : Zeros(4)[i] = 0
      BY DEF Zeros
    <2>3. \A i \in 4 .. 7 : i - 3 \in 1 .. 4 /\ 3 + (i - 3) = i
      OBVIOUS
    <2> QED
      BY <2>1, <2>2, <2>3
  <1>9. /\ all \in Seq(Octet) /\ Len(all) = m + 7
        /\ none \in Seq(Octet) /\ Len(none) = m + 7
        /\ \A i \in 1 .. m : all[i] = ahead[i] /\ none[i] = ahead[i]
        /\ \A i \in 1 .. 7 : all[m + i] = last[i] /\ none[m + i] = empty[i]
    <2>1. /\ all \in Seq(Octet) /\ Len(all) = Len(ahead) + Len(last)
          /\ \A i \in 1 .. Len(ahead) : all[i] = ahead[i]
          /\ \A i \in 1 .. Len(last) : all[Len(ahead) + i] = last[i]
      BY <1>4, Joining
    <2>2. /\ none \in Seq(Octet) /\ Len(none) = Len(ahead) + Len(empty)
          /\ \A i \in 1 .. Len(ahead) : none[i] = ahead[i]
          /\ \A i \in 1 .. Len(empty) : none[Len(ahead) + i] = empty[i]
      BY <1>4, Joining
    <2> HIDE DEF all, none
    <2> QED
      BY <1>1, <1>7, <2>1, <2>2
  <1> HIDE DEF all, none
  <1>10. blank = [i \in 1 .. n |-> IF i \in n - 3 .. n THEN 0 ELSE all[i]]
    <2>1. DOMAIN all = 1 .. n
      BY <1>1, <1>9
    <2>2. n - 3 .. n - 3 + 4 - 1 = n - 3 .. n
      OBVIOUS
    <2> QED
      BY <2>1, <2>2 DEF Blanked
  <1>11. \A i \in 1 .. n : blank[i] = none[i]
    <2> TAKE i \in 1 .. n
    <2>1. CASE i <= m
      <3>1. i \in 1 .. m /\ i \notin n - 3 .. n
        BY <1>1, <2>1
      <3> QED
        BY <1>9, <1>10, <3>1
    <2>2. CASE i > m /\ i <= m + 3
      <3>1. PICK j \in 1 .. 3 : i = m + j
        <4>1. i - m \in 1 .. 3 /\ i = m + (i - m)
          BY <2>2
        <4> QED
          BY <4>1
      <3>2. i \notin n - 3 .. n /\ j \in 1 .. 7
        BY <1>1, <3>1
      <3>3. all[m + j] = last[j] /\ none[m + j] = empty[j]
        BY <1>9, <3>2
      <3> QED
        BY <1>5, <1>10, <3>1, <3>2, <3>3
    <2>3. CASE i > m + 3
      <3>1. PICK j \in 4 .. 7 : i = m + j
        <4>1. i - m \in 4 .. 7 /\ i = m + (i - m)
          BY <1>1, <2>3
        <4> QED
          BY <4>1
      <3>2. i \in n - 3 .. n /\ j \in 1 .. 7
        BY <1>1, <3>1
      <3>3. none[m + j] = empty[j]
        BY <1>9, <3>2
      <3> QED
        BY <1>8, <1>10, <3>1, <3>2, <3>3
    <2> QED
      BY <2>1, <2>2, <2>3
  <1>12. DOMAIN none = 1 .. n /\ DOMAIN blank = 1 .. n
    BY <1>1, <1>9, <1>10
  <1>13. none = [i \in 1 .. n |-> none[i]]
    BY <1>9, <1>12
  <1>14. blank = none
    BY <1>10, <1>11, <1>13
  <1> QED
    BY <1>14 DEF all, none, last, empty

(* What pp2_create_hdr returns, byte range after byte range.               *)
LEMMA Layout ==
  ASSUME NEW info, Sendable(info), NEW b, b = Header2(info)
  PROVE  LET a    == AddrLen(info.family)
             flat == FlattenSeq(info.tlvs)
             gap  == Padded(info) - Plain(info)
         IN  /\ Holds(b, 0, Signature) /\ Holds(b, 12, Kind(info))
             /\ Holds(b, 16, AddrBytes(info)) /\ Holds(b, 16 + a, flat)
             /\ gap # 0 => Holds(b, 16 + a + Len(flat), Tlv(Type.NOOP, Zeros(gap - 3)))
             /\ info.crc32c = 1 /\ ~BehindTheEnd(info) =>
                  Holds(b, Padded(info) - 7,
                        Tlv(Type.CRC32C, Crc32c(Blanked(b, Padded(info) - 3, 4))))
  <1> DEFINE n      == Padded(info)
             ahead  == Ahead(info)
             flat   == FlattenSeq(info.tlvs)
             noop   == Noop(info)
             zeroed == ahead \o Tlv(Type.CRC32C, Zeros(4))
             unsummed == ahead \o (IF info.crc32c = 1 THEN Tlv(Type.CRC32C, Zeros(4)) ELSE <<>>)
             sum    == Crc32c(SubSeq(unsummed, 1, n))
             last   == Tlv(Type.CRC32C, sum)
             all    == IF info.crc32c = 1 THEN ahead \o last ELSE ahead
  <1>1. b = SubSeq(all, 1, n)
    BY DEF Header2, Ahead, Kind
  <1>2. PICK p \in Nat, a \in Nat, l \in Nat, k \in Nat :
           /\ p = Plain(info) /\ a = AddrLen(info.family) /\ l = Len(flat) /\ k = Len(noop)
    BY PlainIs, NoopIs
  <1>3. /\ n \in Nat /\ n >= p
        /\ n # p => k = n - p
        /\ info.power <= 1 => k = 0 /\ n = p
        /\ n # p => noop = Tlv(Type.NOOP, Zeros(n - p - 3))
    BY <1>2, PaddedIs, NoopIs
  <1>4. p = 16 + a + l + (IF info.crc32c = 1 THEN 7 ELSE 0)
    BY <1>2 DEF Plain
  <1>5. flat \in Seq(Octet) /\ noop \in Seq(Octet) /\ AddrBytes(info) \in Seq(Octet)
        /\ Signature \in Seq(Octet) /\ Kind(info) \in Seq(Octet)
    BY PlainIs, NoopIs, AddrBytesAre, KindIs DEF Signature, Octet
  <1>6. /\ ahead \in Seq(Octet) /\ Len(ahead) = 16 + a + l + k
        /\ Holds(ahead, 0, Signature) /\ Holds(ahead, 12, Kind(info))
        /\ Holds(ahead, 16, AddrBytes(info)) /\ Holds(ahead, 16 + a, flat)
        /\ Holds(ahead, 16 + a + l, noop)
    BY <1>2, AheadHas
  <1>7. Len(AddrBytes(info)) = a /\ Len(Signature) = 12 /\ Len(Kind(info)) = 2
    BY <1>2, AddrBytesAre, KindIs DEF Signature
  <1>8. sum \in Seq(Octet) /\ Len(sum) = 4
    BY ChecksumIs
  <1>9. /\ Type.CRC32C \in Octet /\ last \in Seq(Octet) /\ Len(last) = 3 + Len(sum)
    <2> HIDE DEF sum
    <2>1. Type.CRC32C \in Octet
      BY TypesAre
    <2> QED
      BY <1>8, <2>1, TlvIs
  <1> DEFINE m == 16 + a + l + k
  <1>10. ahead = Ahead(info) /\ flat = FlattenSeq(info.tlvs) /\ n = Padded(info)
    OBVIOUS
  <1> HIDE DEF n, ahead, flat, noop, last
  <1>11. Len(last) = 7
    <2> HIDE DEF sum
    <2> QED
      BY ONLY <1>8, <1>9
  <1>12. /\ all \in Seq(Octet) /\ Len(all) >= n /\ Len(all) \in Nat
         /\ info.crc32c = 1 => Len(all) = m + 7
         /\ info.crc32c # 1 => Len(all) = m
    <2>1. /\ ahead \o last \in Seq(Octet) /\ Len(ahead \o last) = Len(ahead) + Len(last)
      BY ONLY <1>6, <1>9, Joining
    <2>2. Len(ahead \o last) = m + 7
      BY ONLY <1>6, <1>11, <2>1
    <2>3. CASE info.crc32c = 1
      <3>1. all = ahead \o last
        BY <2>3
      <3>2. m + 7 >= n /\ m + 7 \in Nat
        BY <1>3, <1>4, <2>3
      <3> HIDE DEF all
      <3> QED
        BY <2>1, <2>2, <2>3, <3>1, <3>2
    <2>4. CASE info.crc32c # 1
      <3>1. all = ahead
        BY <2>4
      <3>2. m >= n /\ m \in Nat
        BY <1>3, <1>4, <2>4
      <3> HIDE DEF all
      <3> QED
        BY <1>6, <2>4, <3>1, <3>2
    <2> QED
      BY <2>3, <2>4
  <1>13. \A at \in Nat, t \in Seq(Octet) : Holds(ahead, at, t) => Holds(all, at, t)
    <2> TAKE at \in Nat, t \in Seq(Octet)
    <2> HAVE Holds(ahead, at, t)
    <2>1. Holds(ahead \o last, at, t)
      BY ONLY <1>6, <1>9, Holds(ahead, at, t), at \in Nat, t \in Seq(Octet), HoldsOn
    <2> QED
      BY <2>1
  <1> HIDE DEF all
  <1>14. \A at \in Nat, t \in Seq(Octet) : Holds(ahead, at, t) /\ at + Len(t) <= n => Holds(b, at, t)
    <2> TAKE at \in Nat, t \in Seq(Octet)
    <2> HAVE Holds(ahead, at, t) /\ at + Len(t) <= n
    <2>1. Holds(all, at, t)
      BY <1>13
    <2>2. Holds(SubSeq(all, 1, n), at, t)
      <3>1. all \in Seq(Octet) /\ n \in Nat /\ n <= Len(all) /\ at + Len(t) <= n
        BY ONLY <1>3, <1>12, at + Len(t) <= n
      <3> QED
        BY ONLY <2>1, <3>1, at \in Nat, t \in Seq(Octet), HoldsCut
    <2> QED
      BY <1>1, <2>2
  <1>15. 0 \in Nat /\ 12 \in Nat /\ 16 \in Nat /\ 16 + a \in Nat /\ 16 + a + l \in Nat
    OBVIOUS
  <1>16. /\ 0 + Len(Signature) <= n /\ 12 + Len(Kind(info)) <= n
         /\ 16 + Len(AddrBytes(info)) <= n /\ 16 + a + Len(flat) <= n
         /\ n # p => 16 + a + l + Len(noop) <= n
    <2>1. Len(flat) = l /\ Len(noop) = k
      BY ONLY <1>2 DEF flat, noop
    <2>2. 16 + a + l <= p
      BY ONLY <1>4, a \in Nat, l \in Nat, p \in Nat
    <2>3. n \in Nat /\ n >= p /\ (n # p => k = n - p)
      BY ONLY <1>3
    <2>4. n # p => 16 + a + l + k <= n
      BY ONLY <2>2, <2>3, a \in Nat, l \in Nat, p \in Nat, k \in Nat
    <2>5. 12 <= n /\ 14 <= n /\ 16 + a <= n /\ 16 + a + l <= n
      BY ONLY <2>2, <2>3, a \in Nat, l \in Nat, p \in Nat
    <2> QED
      BY ONLY <1>7, <2>1, <2>4, <2>5
  <1>17. /\ Holds(b, 0, Signature) /\ Holds(b, 12, Kind(info))
         /\ Holds(b, 16, AddrBytes(info)) /\ Holds(b, 16 + a, flat)
         /\ n # p => Holds(b, 16 + a + l, noop)
    BY ONLY <1>5, <1>6, <1>14, <1>15, <1>16
  <1>18. ASSUME info.crc32c = 1, ~BehindTheEnd(info)
         PROVE  Holds(b, n - 7, Tlv(Type.CRC32C, Crc32c(Blanked(b, n - 3, 4))))
    <2>1. n = m + 7
      <3>1. info.power \in 0 .. 15
        BY SendableHas
      <3>2. n # p \/ info.power <= 1
        BY <1>2, <1>18, <3>1 DEF BehindTheEnd, n
      <3> QED
        BY <1>3, <1>4, <1>18, <3>2
    <2>2. all = ahead \o last
      BY <1>18 DEF all
    <2>3. b = all
      <3>1. Len(all) = n
        BY <1>12, <1>18, <2>1
      <3>2. SubSeq(all, 1, n) = all
        <4>1. /\ SubSeq(all, 1, n) \in Seq(Octet) /\ Len(SubSeq(all, 1, n)) = n
              /\ \A i \in 1 .. n : SubSeq(all, 1, n)[i] = all[i]
          BY <1>3, <1>12, <3>1
        <4> QED
          BY <1>12, <3>1, <4>1, SeqEqual
      <3> QED
        BY <1>1, <3>2
    <2>4. n = Len(ahead) + 7
      BY <1>6, <2>1
    <2>5. Blanked(ahead \o last, n - 3, 4) = zeroed
      <3> HIDE DEF sum
      <3>1. Blanked(ahead \o Tlv(Type.CRC32C, sum), n - 3, 4) = zeroed
        BY <1>3, <1>6, <1>8, <2>4, SumOf
      <3> QED
        BY <3>1 DEF last
    <2>6. sum = Crc32c(zeroed)
      <3>1. unsummed = zeroed
        BY <1>18
      <3>2. Zeros(4) \in Seq(Octet) /\ Len(Zeros(4)) = 4
        <4>1. 4 \in Int /\ 4 \in Nat
          OBVIOUS
        <4> QED
          BY <4>1, ZerosAre, Zenon
      <3>3. zeroed \in Seq(Octet) /\ Len(zeroed) = n
        <4>1. PICK none \in Seq(Octet) : none = Tlv(Type.CRC32C, Zeros(4)) /\ Len(none) = 3 + Len(Zeros(4))
          BY <1>9, <3>2, TlvIs
        <4>2. Len(none) = 3 + 4
          BY <3>2, <4>1, Zenon
        <4>3. ahead \o none \in Seq(Octet) /\ Len(ahead \o none) = Len(ahead) + Len(none)
          BY ONLY <1>6, <4>1, Joining
        <4>4. Len(ahead \o none) = n
          BY ONLY <1>6, <2>4, <4>2, <4>3
        <4> QED
          BY <4>1, <4>3, <4>4
      <3> HIDE DEF zeroed
      <3>4. SubSeq(zeroed, 1, n) = zeroed
        <4>1. /\ SubSeq(zeroed, 1, n) \in Seq(Octet) /\ Len(SubSeq(zeroed, 1, n)) = n
              /\ \A i \in 1 .. n : SubSeq(zeroed, 1, n)[i] = zeroed[i]
          BY <1>3, <3>3
        <4> QED
          BY <3>3, <4>1, SeqEqual
      <3> HIDE DEF unsummed
      <3> QED
        BY <3>1, <3>4
    <2>7. Holds(ahead \o last, Len(ahead), last)
      BY ONLY <1>6, <1>9, HoldsBoth
    <2>8. Len(ahead) = n - 7
      BY <1>6, <2>1
    <2> HIDE DEF sum, zeroed
    <2>9. last = Tlv(Type.CRC32C, Crc32c(Blanked(b, n - 3, 4)))
      BY <2>2, <2>3, <2>5, <2>6 DEF last
    <2> QED
      BY <2>2, <2>3, <2>7, <2>8, <2>9
  <1>19. n - p - 3 = (n - p) - 3 /\ (n - p # 0 => n # p)
    BY <1>3
  <1>20. n - p # 0 => Holds(b, 16 + a + l, Tlv(Type.NOOP, Zeros((n - p) - 3)))
    BY <1>3, <1>17, <1>19
  <1> QED
    BY <1>2, <1>17, <1>18, <1>20 DEF n, flat

(* What pp_parse_hdr stores of what was added.  An item is an entry of     *)
(* given: the type and the value a getter finds.                           *)
LEMMA TypeNumbers ==
  /\ Type.ALPN = 1 /\ Type.AUTHORITY = 2 /\ Type.CRC32C = 3 /\ Type.NOOP = 4
  /\ Type.UNIQUE_ID = 5 /\ Type.SSL = 32 /\ Type.VERSION = 33 /\ Type.CN = 34
  /\ Type.CIPHER = 35 /\ Type.SIG_ALG = 36 /\ Type.KEY_ALG = 37 /\ Type.NETNS = 48
  /\ Type.AWS = 234 /\ Type.AZURE = 238
  BY DEF Type

(* The TLV that was written, and the item it gives back.                   *)
Spelt(type, value, item) ==
  \/ type \in {Type.ALPN, Type.AUTHORITY} /\ item = <<type, value>>
  \/ type = Type.UNIQUE_ID /\ Len(value) <= 128 /\ item = <<type, value>>
  \/ type = Type.NETNS /\ value # <<>> /\ item = <<type, Append(value, 0)>>
  \/ type = Type.AWS /\ \E v \in Seq(Octet) : v # <<>> /\ value = <<1>> \o v /\ item = <<type, Append(v, 0)>>
  \/ type = Type.AZURE /\ value = <<1>> \o <<1, 0, 0, 0>> /\ item = <<type, <<1, 0, 0, 0>>>>

(* What the parser appends for an item: a subtype stays in front.          *)
Stored(item) ==
  Tlv(item[1], IF item[1] \in {Type.AWS, Type.AZURE} THEN <<1>> \o item[2] ELSE item[2])

LEMMA StoredIs ==
  ASSUME NEW type, NEW v, NEW item, item = <<type, v>>
  PROVE  item[1] = type /\ item[2] = v
         /\ Stored(item) = Tlv(type, IF type \in {Type.AWS, Type.AZURE} THEN <<1>> \o v ELSE v)
  <1>1. item[1] = type /\ item[2] = v
    OBVIOUS
  <1> QED
    BY <1>1 DEF Stored

LEMMA OneTaken ==
  ASSUME NEW s, NEW type, NEW value \in Seq(Octet), NEW item, Spelt(type, value, item)
  PROVE  /\ TakeTlv(s, type, value) = [s EXCEPT !.info = Appended(s.info, Stored(item))]
         /\ type \in Octet /\ item[1] = type /\ item[2] \in Seq(Octet)
         /\ Stored(item) \in Seq(Octet)
         /\ type \notin {Type.CRC32C, Type.VERSION, Type.CN, Type.SSL}
  <1>1. /\ Keep(s, type, value) = [s EXCEPT !.info = Appended(s.info, Tlv(type, value))]
        /\ KeepText(s, type, value) = [s EXCEPT !.info = Appended(s.info, Tlv(type, Append(value, 0)))]
    BY DEF Keep, KeepText, AppendNew, AppendUsAscii
  <1>2. \A t \in Octet, w \in Seq(Octet) : Tlv(t, w) \in Seq(Octet)
    BY TlvIs
  <1>3. Append(value, 0) \in Seq(Octet)
    BY DEF Octet
  <1>4. CASE type \in {Type.ALPN, Type.AUTHORITY} /\ item = <<type, value>>
    <2>1. type = 1 \/ type = 2
      BY <1>4, TypeNumbers
    <2>2. TakeTlv(s, type, value) = Keep(s, type, value)
      <3>1. type \in {Type.ALPN, Type.AUTHORITY}
            /\ type \notin {Type.CRC32C, Type.UNIQUE_ID, Type.SSL, Type.NETNS, Type.AWS, Type.AZURE}
        BY <1>4, <2>1, TypeNumbers
      <3> QED
        BY <3>1 DEF TakeTlv
    <2>3. type \in Octet
      BY <2>1 DEF Octet
    <2>4. type \notin {Type.AWS, Type.AZURE} /\ type \notin {Type.CRC32C, Type.VERSION, Type.CN, Type.SSL}
      BY <2>1, TypeNumbers
    <2>5. item[1] = type /\ item[2] = value /\ Stored(item) = Tlv(type, value)
      BY <1>4, <2>4, StoredIs
    <2> QED
      BY <1>1, <1>2, <2>2, <2>3, <2>4, <2>5
  <1>5. CASE type = Type.UNIQUE_ID /\ Len(value) <= 128 /\ item = <<type, value>>
    <2>1. type = 5
      BY <1>5, TypeNumbers
    <2>2. TakeTlv(s, type, value) = Keep(s, type, value)
      <3>1. type \notin {Type.ALPN, Type.AUTHORITY, Type.CRC32C, Type.SSL, Type.NETNS, Type.AWS, Type.AZURE}
            /\ type = Type.UNIQUE_ID
            /\ ~(Len(value) > 128) /\ Len(value) <= 128
        BY <1>5, <2>1, TypeNumbers
      <3> QED
        BY <3>1 DEF TakeTlv
    <2>3. type \in Octet
      BY <2>1 DEF Octet
    <2>4. type \notin {Type.AWS, Type.AZURE} /\ type \notin {Type.CRC32C, Type.VERSION, Type.CN, Type.SSL}
      BY <2>1, TypeNumbers
    <2>5. item[1] = type /\ item[2] = value /\ Stored(item) = Tlv(type, value)
      BY <1>5, <2>4, StoredIs
    <2> QED
      BY <1>1, <1>2, <2>2, <2>3, <2>4, <2>5
  <1>6. CASE type = Type.NETNS /\ item = <<type, Append(value, 0)>>
    <2>1. type = 48
      BY <1>6, TypeNumbers
    <2>2. TakeTlv(s, type, value) = KeepText(s, type, value)
      <3>1. type \notin {Type.ALPN, Type.AUTHORITY, Type.CRC32C, Type.UNIQUE_ID, Type.SSL, Type.AWS, Type.AZURE}
            /\ type = Type.NETNS
        BY <1>6, <2>1, TypeNumbers
      <3> QED
        BY <3>1 DEF TakeTlv
    <2>3. type \in Octet
      BY <2>1 DEF Octet
    <2>4. type \notin {Type.AWS, Type.AZURE} /\ type \notin {Type.CRC32C, Type.VERSION, Type.CN, Type.SSL}
      BY <2>1, TypeNumbers
    <2>5. item[1] = type /\ item[2] = Append(value, 0) /\ Stored(item) = Tlv(type, Append(value, 0))
      <3>1. PICK more : more = Append(value, 0)
        OBVIOUS
      <3>2. item = <<type, more>>
        BY <1>6, <3>1
      <3>3. item[1] = type /\ item[2] = more /\ Stored(item) = Tlv(type, more)
        BY <2>4, <3>2, StoredIs
      <3> QED
        BY <3>1, <3>3
    <2> QED
      BY <1>1, <1>2, <1>3, <2>2, <2>3, <2>4, <2>5
  <1>7. CASE type = Type.AWS /\ \E v \in Seq(Octet) : v # <<>> /\ value = <<1>> \o v /\ item = <<type, Append(v, 0)>>
    <2>1. type = 234
      BY <1>7, TypeNumbers
    <2>2. PICK v \in Seq(Octet) : v # <<>> /\ value = <<1>> \o v /\ item = <<type, Append(v, 0)>>
      BY <1>7
    <2>3. PICK one \in Seq(Octet) : one = <<1>> /\ Len(one) = 1 /\ one[1] = 1
      <3>1. <<1>> \in Seq(Octet) /\ Len(<<1>>) = 1 /\ <<1>>[1] = 1
        BY DEF Octet
      <3> QED
        BY <3>1
    <2>4. value[1] = 1 /\ Len(value) >= 2
      <3>1. one \o v \in Seq(Octet) /\ Len(one \o v) = Len(one) + Len(v)
            /\ Len(v) \in Nat
            /\ \A i \in 1 .. Len(one) : (one \o v)[i] = one[i]
        BY ONLY one \in Seq(Octet), v \in Seq(Octet), Joining
      <3>2. Len(v) # 0
        BY <2>2, EmptySeq
      <3>3. value = one \o v
        BY <2>2, <2>3
      <3> QED
        BY <2>3, <3>1, <3>2, <3>3
    <2>5. TakeTlv(s, type, value) = KeepText(s, type, value)
      <3>1. type \notin {Type.ALPN, Type.AUTHORITY, Type.CRC32C, Type.UNIQUE_ID, Type.SSL, Type.NETNS, Type.AZURE}
            /\ type = Type.AWS /\ ~(Len(value) < 2)
        BY <1>7, <2>1, <2>4, TypeNumbers
      <3> QED
        BY <2>4, <3>1 DEF TakeTlv
    <2>6. Append(value, 0) = <<1>> \o Append(v, 0)
      <3>1. Append(one \o v, 0) = one \o Append(v, 0)
        BY ONLY one \in Seq(Octet), v \in Seq(Octet), 0 \in Nat
      <3> QED
        BY <2>2, <2>3, <3>1
    <2>7. type \in Octet
      BY <2>1 DEF Octet
    <2>8. type \in {Type.AWS, Type.AZURE} /\ type \notin {Type.CRC32C, Type.VERSION, Type.CN, Type.SSL}
      BY <1>7, <2>1, TypeNumbers
    <2>9. item[1] = type /\ item[2] = Append(v, 0) /\ Stored(item) = Tlv(type, <<1>> \o Append(v, 0))
      BY <2>2, <2>8, StoredIs
    <2>10. Append(v, 0) \in Seq(Octet)
      BY DEF Octet
    <2> QED
      <3>1. Stored(item) = Tlv(type, Append(value, 0))
        BY <2>6, <2>9
      <3>2. TakeTlv(s, type, value) = [s EXCEPT !.info = Appended(s.info, Stored(item))]
        BY <1>1, <2>5, <3>1
      <3>3. Stored(item) \in Seq(Octet)
        BY <1>2, <1>3, <2>7, <3>1
      <3> QED
        BY <2>7, <2>8, <2>9, <2>10, <3>2, <3>3
  <1>8. CASE type = Type.AZURE /\ value = <<1>> \o <<1, 0, 0, 0>> /\ item = <<type, <<1, 0, 0, 0>>>>
    <2>1. type = 238
      BY <1>8, TypeNumbers
    <2>2. value[1] = 1 /\ Len(value) = 5 /\ <<1, 0, 0, 0>> \in Seq(Octet)
      BY <1>8 DEF Octet
    <2>3. TakeTlv(s, type, value) = Keep(s, type, value)
      <3>1. type \notin {Type.ALPN, Type.AUTHORITY, Type.CRC32C, Type.UNIQUE_ID, Type.SSL, Type.NETNS, Type.AWS}
            /\ type = Type.AZURE /\ ~(Len(value) < 5) /\ Len(value) >= 5
        BY <1>8, <2>1, <2>2, TypeNumbers
      <3> QED
        BY <2>2, <3>1 DEF TakeTlv
    <2>4. type \in Octet
      BY <2>1 DEF Octet
    <2>5. type \in {Type.AWS, Type.AZURE} /\ type \notin {Type.CRC32C, Type.VERSION, Type.CN, Type.SSL}
      BY <1>8, <2>1, TypeNumbers
    <2>6. item[1] = type /\ item[2] = <<1, 0, 0, 0>> /\ Stored(item) = Tlv(type, <<1>> \o <<1, 0, 0, 0>>)
      BY <1>8, <2>5, StoredIs
    <2> QED
      BY <1>1, <1>2, <1>8, <2>2, <2>3, <2>4, <2>5, <2>6
  <1> QED
    BY <1>4, <1>5, <1>6, <1>7, <1>8 DEF Spelt

(* The sub-TLVs of the SSL TLV.  The parser in the midst of them: bytes    *)
(* read, the information so far, and whether a version was among them.     *)
Within(info, value, read, version) ==
  [rc |-> 0, info |-> info, value |-> value, at |-> read + 1, version |-> version]

SubWritten(type, v, item) ==
  \/ type \in {Type.VERSION, Type.CIPHER, Type.SIG_ALG, Type.KEY_ALG} /\ item = <<type, Append(v, 0)>>
  \/ type = Type.CN /\ item = <<type, v>>

(* What TakeSub sees of a sub-TLV.                                         *)
Sees(s, type, v) ==
  /\ s.value[s.at] = type /\ 256 * s.value[s.at + 1] + s.value[s.at + 2] = Len(v)
  /\ SubSeq(s.value, s.at + 3, s.at + 2 + Len(v)) = v
  /\ ~(s.rc < 0 \/ s.at > Len(s.value)) /\ ~(s.at - 6 + 3 + Len(v) > 65535)

LEMMA SubSeen ==
  ASSUME NEW info, NEW value \in Seq(Octet), NEW read \in Nat, NEW version,
         NEW type \in Octet, NEW v \in Seq(Octet), Len(v) < 65536, Holds(value, read, Tlv(type, v)),
         Len(value) < 65536
  PROVE  Sees(Within(info, value, read, version), type, v)
  <1> DEFINE s == Within(info, value, read, version)
  <1>1. s.rc = 0 /\ s.value = value /\ s.at = read + 1
    BY DEF Within
  <1> HIDE DEF s
  <1>2. PICK n \in Nat, tlv \in Seq(Octet) : n = Len(v) /\ tlv = Tlv(type, v) /\ Len(tlv) = 3 + n
    BY TlvIs
  <1>3. tlv[1] = type /\ 256 * tlv[2] + tlv[3] = n /\ Holds(tlv, 3, v)
    <2>1. TlvType(Tlv(type, v)) = type /\ Holds(Tlv(type, v), 3, v)
          /\ (Len(v) < 65536 => 256 * Tlv(type, v)[2] + Tlv(type, v)[3] = Len(v))
      BY TlvBytes
    <2> QED
      BY <1>2, <2>1 DEF TlvType
  <1>4. /\ read + (3 + n) <= Len(value)
        /\ value[read + 1] = tlv[1] /\ value[read + 2] = tlv[2] /\ value[read + 3] = tlv[3]
    <2>1. Holds(value, read, tlv)
      BY <1>2
    <2>2. 1 \in 1 .. Len(tlv) /\ 2 \in 1 .. Len(tlv) /\ 3 \in 1 .. Len(tlv)
      BY <1>2
    <2> QED
      BY <1>2, <2>1, <2>2 DEF Holds
  <1>5. SubSeq(value, read + 4, read + 3 + n) = v
    <2>1. 3 \in Nat /\ Holds(value, read, tlv) /\ read + 3 \in Nat
      BY <1>2
    <2>2. Holds(value, read + 3, v)
      BY <1>2, <1>3, <2>1, HoldsIn
    <2>3. SubSeq(value, (read + 3) + 1, (read + 3) + Len(v)) = v
      BY <2>1, <2>2, HeldIsCut
    <2>4. (read + 3) + 1 = read + 4 /\ (read + 3) + Len(v) = read + 3 + n
      BY <1>2
    <2> QED
      BY <2>3, <2>4
  <1>6. s.at + 1 = read + 2 /\ s.at + 2 = read + 3 /\ s.at + 3 = read + 4 /\ s.at + 2 + Len(v) = read + 3 + n
    BY <1>1, <1>2
  <1>7. ~(s.rc < 0 \/ s.at > Len(s.value))
    <2>1. Len(value) \in Nat
      OBVIOUS
    <2> QED
      BY <1>1, <1>4, <2>1
  <1>8. s.value[s.at] = type /\ 256 * s.value[s.at + 1] + s.value[s.at + 2] = Len(v)
    BY ONLY <1>1, <1>2, <1>3, <1>4, <1>6
  <1>9. SubSeq(s.value, s.at + 3, s.at + 2 + Len(v)) = v
    BY ONLY <1>1, <1>5, <1>6
  <1>10. ~(s.at - 6 + 3 + Len(v) > 65535)
    <2>1. PICK m \in Nat : m = Len(value) /\ m < 65536
      OBVIOUS
    <2> QED
      BY <1>1, <1>2, <1>4, <2>1
  <1> QED
    BY <1>7, <1>8, <1>9, <1>10 DEF Sees, s

(* The functions that append, on such a state.                             *)
LEMMA SubMoved ==
  ASSUME NEW info, NEW value, NEW read \in Nat, NEW version, NEW n \in Nat
  PROVE  [Within(info, value, read, version) EXCEPT !.at = @ + 3 + n]
           = Within(info, value, read + 3 + n, version)
  <1>1. (read + 1) + 3 + n = (read + 3 + n) + 1
    OBVIOUS
  <1> QED
    BY <1>1 DEF Within

LEMMA SubKept ==
  ASSUME NEW info, NEW value, NEW read \in Nat, NEW version, NEW type, NEW v
  PROVE  Keep(Within(info, value, read, version), type, v)
           = Within(Appended(info, Tlv(type, v)), value, read, version)
  <1>1. PICK one : one = Appended(info, Tlv(type, v))
    OBVIOUS
  <1>2. Keep(Within(info, value, read, version), type, v) = Within(one, value, read, version)
    BY <1>1 DEF Within, Keep, AppendNew
  <1> QED
    BY <1>1, <1>2

LEMMA SubKeptText ==
  ASSUME NEW info, NEW value, NEW read \in Nat, NEW version, NEW type, NEW v
  PROVE  KeepText(Within(info, value, read, version), type, v)
           = Within(Appended(info, Tlv(type, Append(v, 0))), value, read, version)
  <1>1. PICK one : one = Appended(info, Tlv(type, Append(v, 0)))
    OBVIOUS
  <1>2. KeepText(Within(info, value, read, version), type, v) = Within(one, value, read, version)
    BY <1>1 DEF Within, KeepText, AppendUsAscii
  <1> QED
    BY <1>1, <1>2

LEMMA SubNoted ==
  ASSUME NEW info, NEW value, NEW read \in Nat, NEW version
  PROVE  [Within(info, value, read, version) EXCEPT !.version = 1] = Within(info, value, read, 1)
  BY DEF Within

(* A sub-TLV that is not the end is taken by its type.                     *)
TakenSub(s, later, type, v) ==
  CASE type = Type.VERSION -> [KeepText(later, type, v) EXCEPT !.version = 1]
    [] type \in {Type.CIPHER, Type.SIG_ALG, Type.KEY_ALG} -> KeepText(later, type, v)
    [] type = Type.CN -> Keep(later, type, v)
    [] OTHER -> Fail(s, "PP2_TYPE_SSL")

LEMMA TakeSubIs ==
  ASSUME NEW s
  PROVE  TakeSub(s) =
           LET kind == s.value[s.at]
               len  == 256 * s.value[s.at + 1] + s.value[s.at + 2]
           IN  IF s.rc < 0 \/ s.at > Len(s.value) THEN s
               ELSE IF s.at - 6 + 3 + len > 65535 /\ kind \in SubTypes THEN Astray(s)
               ELSE TakenSub(s, [s EXCEPT !.at = @ + 3 + len], kind, SubSeq(s.value, s.at + 3, s.at + 2 + len))
  BY ONLY SMT DEF TakeSub, TakenSub

LEMMA TakesSub ==
  ASSUME NEW s, NEW type, NEW v, Sees(s, type, v)
  PROVE  TakeSub(s) = TakenSub(s, [s EXCEPT !.at = @ + 3 + Len(v)], type, v)
  <1> DEFINE kind  == s.value[s.at]
             len   == 256 * s.value[s.at + 1] + s.value[s.at + 2]
             value == SubSeq(s.value, s.at + 3, s.at + 2 + len)
             onward == [s EXCEPT !.at = @ + 3 + len]
             later == [s EXCEPT !.at = @ + 3 + Len(v)]
             wraps == s.at - 6 + 3 + len > 65535
             ends  == s.rc < 0 \/ s.at > Len(s.value)
  <1>1. TakeSub(s) = IF ends THEN s ELSE IF wraps /\ kind \in SubTypes THEN Astray(s)
                     ELSE TakenSub(s, onward, kind, value)
    BY ONLY TakeSubIs
  <1>2. len = Len(v) /\ kind = type
    BY DEF Sees
  <1> HIDE DEF len
  <1>3. value = v /\ onward = later /\ ~wraps /\ ~ends
    BY <1>2 DEF Sees
  <1> HIDE DEF value, onward, later, wraps, ends, kind
  <1>4. TakeSub(s) = TakenSub(s, later, type, v)
    BY ONLY <1>1, <1>2, <1>3
  <1> QED
    BY ONLY <1>4 DEF later

(* One round: the sub-TLV it stands in front of becomes an element of the  *)
(* array.                                                                  *)
LEMMA SubStep ==
  ASSUME NEW info, NEW value, NEW read \in Nat, NEW version,
         NEW type, NEW v \in Seq(Octet), NEW to \in Nat, to = read + 3 + Len(v),
         Sees(Within(info, value, read, version), type, v),
         NEW item, SubWritten(type, v, item), type # Type.VERSION
  PROVE  TakeSub(Within(info, value, read, version)) = Within(Appended(info, Stored(item)), value, to, version)
  <1>1. PICK n \in Nat : n = Len(v)
    OBVIOUS
  <1>2. PICK s : s = Within(info, value, read, version)
    OBVIOUS
  <1>3. PICK later : later = [s EXCEPT !.at = @ + 3 + Len(v)]
    OBVIOUS
  <1>4. /\ s.value[s.at] = type /\ 256 * s.value[s.at + 1] + s.value[s.at + 2] = Len(v)
        /\ SubSeq(s.value, s.at + 3, s.at + 2 + Len(v)) = v
        /\ ~(s.rc < 0 \/ s.at > Len(s.value)) /\ ~(s.at - 6 + 3 + Len(v) > 65535)
    BY <1>2 DEF Sees
  <1>5. later = Within(info, value, to, version)
    <2>1. [Within(info, value, read, version) EXCEPT !.at = @ + 3 + n]
              = Within(info, value, read + 3 + n, version)
      BY SubMoved
    <2> QED
      BY <1>1, <1>2, <1>3, <2>1
  <1>8. TakeSub(s) = TakenSub(s, later, type, v)
    <2>1. Sees(s, type, v)
      BY <1>2
    <2>2. TakeSub(s) = TakenSub(s, [s EXCEPT !.at = @ + 3 + Len(v)], type, v)
      BY ONLY <2>1, TakesSub
    <2> QED
      BY ONLY <1>3, <2>2
  <1>6. CASE type = Type.CN /\ item = <<type, v>>
    <2>1. type \notin {Type.VERSION, Type.CIPHER, Type.SIG_ALG, Type.KEY_ALG} /\ type \notin {Type.AWS, Type.AZURE}
      BY <1>6, TypeNumbers
    <2>2. TakeSub(s) = Keep(later, type, v)
      BY ONLY <1>6, <1>8, <2>1 DEF TakenSub
    <2>3. Stored(item) = Tlv(type, v)
      BY <1>6, <2>1, StoredIs
    <2>4. Keep(later, type, v) = Within(Appended(info, Tlv(type, v)), value, to, version)
      BY <1>5, SubKept
    <2> QED
      BY <1>2, <2>2, <2>3, <2>4
  <1>7. CASE type \in {Type.CIPHER, Type.SIG_ALG, Type.KEY_ALG} /\ item = <<type, Append(v, 0)>>
    <2>1. type \notin {Type.VERSION, Type.CN} /\ type \notin {Type.AWS, Type.AZURE}
      BY <1>7, TypeNumbers
    <2>2. TakeSub(s) = KeepText(later, type, v)
      BY ONLY <1>7, <1>8, <2>1 DEF TakenSub
    <2>3. PICK more : more = Append(v, 0)
      OBVIOUS
    <2>4. item = <<type, more>>
      BY <1>7, <2>3
    <2>5. Stored(item) = Tlv(type, more)
      BY <2>1, <2>4, StoredIs
    <2>6. KeepText(later, type, v) = Within(Appended(info, Tlv(type, Append(v, 0))), value, to, version)
      BY <1>5, SubKeptText
    <2> QED
      BY <1>2, <2>2, <2>3, <2>5, <2>6
  <1> QED
    BY <1>6, <1>7 DEF SubWritten

LEMMA VersionStep ==
  ASSUME NEW info, NEW value, NEW read \in Nat, NEW version,
         NEW v \in Seq(Octet), NEW to \in Nat, to = read + 3 + Len(v),
         Sees(Within(info, value, read, version), Type.VERSION, v),
         NEW item, item = <<Type.VERSION, Append(v, 0)>>
  PROVE  TakeSub(Within(info, value, read, version)) = Within(Appended(info, Stored(item)), value, to, 1)
  <1>1. PICK n \in Nat : n = Len(v)
    OBVIOUS
  <1>2. PICK s, type : s = Within(info, value, read, version) /\ type = Type.VERSION
    OBVIOUS
  <1>3. PICK later : later = [s EXCEPT !.at = @ + 3 + Len(v)]
    OBVIOUS
  <1>4. /\ s.value[s.at] = type /\ 256 * s.value[s.at + 1] + s.value[s.at + 2] = Len(v)
        /\ SubSeq(s.value, s.at + 3, s.at + 2 + Len(v)) = v
        /\ ~(s.rc < 0 \/ s.at > Len(s.value)) /\ ~(s.at - 6 + 3 + Len(v) > 65535)
    BY <1>2 DEF Sees
  <1>5. later = Within(info, value, to, version)
    <2>1. [Within(info, value, read, version) EXCEPT !.at = @ + 3 + n]
              = Within(info, value, read + 3 + n, version)
      BY SubMoved
    <2> QED
      BY <1>1, <1>2, <1>3, <2>1
  <1>6. type \notin {Type.CN, Type.CIPHER, Type.SIG_ALG, Type.KEY_ALG} /\ type \notin {Type.AWS, Type.AZURE}
    BY <1>2, TypeNumbers
  <1>7. TakeSub(s) = [KeepText(later, type, v) EXCEPT !.version = 1]
    <2>1. TakeSub(s) = TakenSub(s, later, type, v)
      <3>1. Sees(s, type, v)
        BY <1>2
      <3>2. TakeSub(s) = TakenSub(s, [s EXCEPT !.at = @ + 3 + Len(v)], type, v)
        BY ONLY <3>1, TakesSub
      <3> QED
        BY ONLY <1>3, <3>2
    <2>2. TakenSub(s, later, type, v) = [KeepText(later, type, v) EXCEPT !.version = 1]
      BY ONLY <1>2, <1>6 DEF TakenSub
    <2> QED
      BY ONLY <2>1, <2>2
  <1>8. PICK more : more = Append(v, 0)
    OBVIOUS
  <1>9. Stored(item) = Tlv(type, more)
    <2>1. item = <<type, more>>
      BY <1>2, <1>8
    <2>2. type \notin {Type.AWS, Type.AZURE}
      BY <1>6
    <2>3. Stored(item) = Tlv(type, IF type \in {Type.AWS, Type.AZURE} THEN <<1>> \o more ELSE more)
      BY ONLY <2>1, StoredIs
    <2> QED
      BY ONLY <2>2, <2>3
  <1>10. PICK one : one = Appended(info, Stored(item))
    OBVIOUS
  <1>11. KeepText(later, type, v) = Within(one, value, to, version)
    <2>1. KeepText(later, type, v) = Within(Appended(info, Tlv(type, Append(v, 0))), value, to, version)
      BY <1>5, SubKeptText
    <2> QED
      BY <1>8, <1>9, <1>10, <2>1
  <1>12. [Within(one, value, to, version) EXCEPT !.version = 1] = Within(one, value, to, 1)
    BY SubNoted
  <1> QED
    BY <1>2, <1>7, <1>10, <1>11, <1>12

(* The value of the SSL TLV when nothing of it is missing.                 *)
Client(ssl) == <<ClientBits(ssl), 1 - ssl.verified, 0, 0, 0>>
Five(a, b, c, d, e) == a \o b \o c \o d \o e
SslSubs(v, cn) ==
  Five(Tlv(Type.VERSION, v), Tlv(Type.CIPHER, v), Tlv(Type.SIG_ALG, <<7>>), Tlv(Type.KEY_ALG, v),
       Tlv(Type.CN, cn))
SslValue(ssl, v, cn) == Client(ssl) \o SslSubs(v, cn)

Lengths(a, b, c, d, e, m, o, r) ==
  /\ m \in Nat /\ o \in Nat /\ r \in Nat
  /\ Len(a) = m /\ Len(b) = m /\ Len(c) = o /\ Len(d) = m /\ Len(e) = r

LEMMA FiveHeld ==
  ASSUME NEW a \in Seq(Octet), NEW b \in Seq(Octet), NEW c \in Seq(Octet), NEW d \in Seq(Octet),
         NEW e \in Seq(Octet), NEW m, NEW o, NEW r, Lengths(a, b, c, d, e, m, o, r)
  PROVE  /\ Five(a, b, c, d, e) \in Seq(Octet) /\ Len(Five(a, b, c, d, e)) = 3 * m + o + r
         /\ Holds(Five(a, b, c, d, e), 0, a) /\ Holds(Five(a, b, c, d, e), m, b)
         /\ Holds(Five(a, b, c, d, e), 2 * m, c) /\ Holds(Five(a, b, c, d, e), 2 * m + o, d)
         /\ Holds(Five(a, b, c, d, e), 3 * m + o, e)
  <1>0. /\ m \in Nat /\ o \in Nat /\ r \in Nat
        /\ Len(a) = m /\ Len(b) = m /\ Len(c) = o /\ Len(d) = m /\ Len(e) = r
    BY DEF Lengths
  <1>1. PICK ab \in Seq(Octet) : ab = a \o b /\ Len(ab) = m + m /\ Holds(ab, 0, a) /\ Holds(ab, m, b)
    <2>1. a \o b \in Seq(Octet) /\ Len(a \o b) = Len(a) + Len(b)
      BY ONLY a \in Seq(Octet), b \in Seq(Octet), Joining
    <2>2. Holds(a \o b, 0, a) /\ Holds(a \o b, Len(a), b)
      BY ONLY a \in Seq(Octet), b \in Seq(Octet), HoldsBoth
    <2> QED
      BY <1>0, <2>1, <2>2
  <1>2. PICK abc \in Seq(Octet) : /\ abc = ab \o c /\ Len(abc) = m + m + o
                                  /\ Holds(abc, 0, a) /\ Holds(abc, m, b) /\ Holds(abc, m + m, c)
    <2>1. ab \o c \in Seq(Octet) /\ Len(ab \o c) = Len(ab) + Len(c)
      BY ONLY ab \in Seq(Octet), c \in Seq(Octet), Joining
    <2>2. Holds(ab \o c, Len(ab), c)
      BY ONLY ab \in Seq(Octet), c \in Seq(Octet), HoldsBoth
    <2>3. 0 \in Nat
      OBVIOUS
    <2>4. Holds(ab \o c, 0, a)
      BY <1>0, <1>1, <2>3, HoldsOn
    <2>5. Holds(ab \o c, m, b)
      BY <1>0, <1>1, HoldsOn
    <2> QED
      BY <1>0, <1>1, <2>1, <2>2, <2>4, <2>5
  <1>3. PICK abcd \in Seq(Octet) : /\ abcd = abc \o d /\ Len(abcd) = m + m + o + m
                                   /\ Holds(abcd, 0, a) /\ Holds(abcd, m, b)
                                   /\ Holds(abcd, m + m, c) /\ Holds(abcd, m + m + o, d)
    <2>1. abc \o d \in Seq(Octet) /\ Len(abc \o d) = Len(abc) + Len(d)
      BY ONLY abc \in Seq(Octet), d \in Seq(Octet), Joining
    <2>2. Holds(abc \o d, Len(abc), d)
      BY ONLY abc \in Seq(Octet), d \in Seq(Octet), HoldsBoth
    <2>3. 0 \in Nat /\ m + m \in Nat
      BY <1>0
    <2>4. Holds(abc \o d, 0, a)
      BY <1>0, <1>2, <2>3, HoldsOn
    <2>5. Holds(abc \o d, m, b)
      BY <1>0, <1>2, HoldsOn
    <2>6. Holds(abc \o d, m + m, c)
      BY <1>0, <1>2, <2>3, HoldsOn
    <2> QED
      BY <1>0, <1>2, <2>1, <2>2, <2>4, <2>5, <2>6
  <1>4. PICK all \in Seq(Octet) : /\ all = abcd \o e /\ Len(all) = m + m + o + m + r
                                  /\ Holds(all, 0, a) /\ Holds(all, m, b)
                                  /\ Holds(all, m + m, c) /\ Holds(all, m + m + o, d)
                                  /\ Holds(all, m + m + o + m, e)
    <2>1. abcd \o e \in Seq(Octet) /\ Len(abcd \o e) = Len(abcd) + Len(e)
      BY ONLY abcd \in Seq(Octet), e \in Seq(Octet), Joining
    <2>2. Holds(abcd \o e, Len(abcd), e)
      BY ONLY abcd \in Seq(Octet), e \in Seq(Octet), HoldsBoth
    <2>3. 0 \in Nat /\ m + m \in Nat /\ m + m + o \in Nat
      BY <1>0
    <2>4. Holds(abcd \o e, 0, a)
      BY <1>0, <1>3, <2>3, HoldsOn
    <2>5. Holds(abcd \o e, m, b)
      BY <1>0, <1>3, HoldsOn
    <2>6. Holds(abcd \o e, m + m, c)
      BY <1>0, <1>3, <2>3, HoldsOn
    <2>7. Holds(abcd \o e, m + m + o, d)
      BY <1>0, <1>3, <2>3, HoldsOn
    <2> QED
      BY <1>0, <1>3, <2>1, <2>2, <2>4, <2>5, <2>6, <2>7
  <1>5. Five(a, b, c, d, e) = all
    BY <1>1, <1>2, <1>3, <1>4 DEF Five
  <1>6. 2 * m = m + m /\ 2 * m + o = m + m + o /\ 3 * m + o = m + m + o + m /\ 3 * m + o + r = m + m + o + m + r
    BY <1>0
  <1> QED
    BY <1>0, <1>4, <1>5, <1>6

LEMMA Octets ==
  /\ {0, 1, 7} \subseteq Octet /\ <<7>> \in Seq(Octet) /\ Len(<<7>>) = 1
  BY DEF Octet

(* Where its parts are.                                                    *)
LEMMA SslParts ==
  ASSUME NEW ssl, {ssl.ssl, ssl.conn, ssl.verified} \subseteq {0, 1},
         NEW v \in Seq(Octet), NEW cn \in Seq(Octet), NEW n \in Nat, NEW c \in Nat,
         Len(v) = n, Len(cn) = c
  PROVE  /\ SslSubs(v, cn) \in Seq(Octet) /\ Len(SslSubs(v, cn)) = 16 + 3 * n + c
         /\ SslValue(ssl, v, cn) \in Seq(Octet) /\ Len(SslValue(ssl, v, cn)) = 21 + 3 * n + c
         /\ Holds(SslValue(ssl, v, cn), 0, Client(ssl))
         /\ Holds(SslValue(ssl, v, cn), 5, Tlv(Type.VERSION, v))
         /\ Holds(SslValue(ssl, v, cn), 8 + n, Tlv(Type.CIPHER, v))
         /\ Holds(SslValue(ssl, v, cn), 11 + 2 * n, Tlv(Type.SIG_ALG, <<7>>))
         /\ Holds(SslValue(ssl, v, cn), 15 + 2 * n, Tlv(Type.KEY_ALG, v))
         /\ Holds(SslValue(ssl, v, cn), 18 + 3 * n, Tlv(Type.CN, cn))
  <1>1. PICK m \in Nat, o \in Nat, r \in Nat : m = 3 + n /\ o = 4 /\ r = 3 + c
    <2>1. 3 + n \in Nat /\ 4 \in Nat /\ 3 + c \in Nat
      OBVIOUS
    <2> QED
      BY <2>1
  <1>2. PICK a \in Seq(Octet), b \in Seq(Octet), g \in Seq(Octet), d \in Seq(Octet), e \in Seq(Octet) :
           /\ a = Tlv(Type.VERSION, v) /\ b = Tlv(Type.CIPHER, v) /\ g = Tlv(Type.SIG_ALG, <<7>>)
           /\ d = Tlv(Type.KEY_ALG, v) /\ e = Tlv(Type.CN, cn)
           /\ Len(a) = m /\ Len(b) = m /\ Len(g) = o /\ Len(d) = m /\ Len(e) = r
    <2>1. {Type.VERSION, Type.CN, Type.CIPHER, Type.SIG_ALG, Type.KEY_ALG} \subseteq Octet
      BY TypesAre
    <2>2. Tlv(Type.VERSION, v) \in Seq(Octet) /\ Len(Tlv(Type.VERSION, v)) = 3 + Len(v)
      BY <2>1, TlvIs
    <2>3. Tlv(Type.CIPHER, v) \in Seq(Octet) /\ Len(Tlv(Type.CIPHER, v)) = 3 + Len(v)
      BY <2>1, TlvIs
    <2>4. Tlv(Type.KEY_ALG, v) \in Seq(Octet) /\ Len(Tlv(Type.KEY_ALG, v)) = 3 + Len(v)
      BY <2>1, TlvIs
    <2>5. Tlv(Type.CN, cn) \in Seq(Octet) /\ Len(Tlv(Type.CN, cn)) = 3 + Len(cn)
      BY <2>1, TlvIs
    <2>6. Tlv(Type.SIG_ALG, <<7>>) \in Seq(Octet) /\ Len(Tlv(Type.SIG_ALG, <<7>>)) = 3 + Len(<<7>>)
      BY <2>1, Octets, TlvIs
    <2>7. Len(<<7>>) = 1
      BY Octets
    <2>8. 3 + Len(<<7>>) = o
      BY ONLY <1>1, <2>7
    <2> QED
      BY <1>1, <2>2, <2>3, <2>4, <2>5, <2>6, <2>8
  <1>3. PICK client \in Seq(Octet) : client = Client(ssl) /\ Len(client) = 5
    <2>1. ClientBits(ssl) \in Octet /\ 1 - ssl.verified \in Octet /\ 0 \in Octet
      <3>1. PICK x \in {0, 1}, y \in {0, 1}, z \in {0, 1} : x = ssl.ssl /\ y = ssl.conn /\ z = ssl.verified
        OBVIOUS
      <3>2. x + 2 * y + 4 * y \in Octet /\ 1 - z \in Octet /\ 0 \in Octet
        BY DEF Octet
      <3> QED
        BY <3>1, <3>2 DEF ClientBits
    <2>2. Client(ssl) \in Seq(Octet) /\ Len(Client(ssl)) = 5
      BY <2>1 DEF Client
    <2> QED
      BY <2>2
  <1>4. PICK subs \in Seq(Octet) :
           /\ subs = SslSubs(v, cn) /\ Len(subs) = 3 * m + o + r
           /\ Holds(subs, 0, a) /\ Holds(subs, m, b) /\ Holds(subs, 2 * m, g)
           /\ Holds(subs, 2 * m + o, d) /\ Holds(subs, 3 * m + o, e)
    <2>1. /\ Five(a, b, g, d, e) \in Seq(Octet) /\ Len(Five(a, b, g, d, e)) = 3 * m + o + r
          /\ Holds(Five(a, b, g, d, e), 0, a) /\ Holds(Five(a, b, g, d, e), m, b)
          /\ Holds(Five(a, b, g, d, e), 2 * m, g) /\ Holds(Five(a, b, g, d, e), 2 * m + o, d)
          /\ Holds(Five(a, b, g, d, e), 3 * m + o, e)
      <3>1. Lengths(a, b, g, d, e, m, o, r)
        BY <1>2 DEF Lengths
      <3> QED
        BY <3>1, FiveHeld
    <2> QED
      BY <1>2, <2>1 DEF SslSubs
  <1>5. PICK value \in Seq(Octet) : /\ value = client \o subs /\ Len(value) = 5 + Len(subs)
                                    /\ Holds(value, 0, client) /\ Holds(value, 5, subs)
    <2>1. client \o subs \in Seq(Octet) /\ Len(client \o subs) = Len(client) + Len(subs)
      BY ONLY client \in Seq(Octet), subs \in Seq(Octet), Joining
    <2>2. Holds(client \o subs, 0, client) /\ Holds(client \o subs, Len(client), subs)
      BY ONLY client \in Seq(Octet), subs \in Seq(Octet), HoldsBoth
    <2> QED
      BY <1>3, <2>1, <2>2
  <1>6. \A in \in Nat, t \in Seq(Octet) : Holds(subs, in, t) => Holds(value, 5 + in, t)
    <2>1. 5 \in Nat
      OBVIOUS
    <2> QED
      BY <1>5, <2>1, HoldsIn
  <1>7. /\ Holds(value, 5 + 0, a) /\ Holds(value, 5 + m, b) /\ Holds(value, 5 + 2 * m, g)
        /\ Holds(value, 5 + (2 * m + o), d) /\ Holds(value, 5 + (3 * m + o), e)
    <2>1. 0 \in Nat /\ 2 * m \in Nat /\ 2 * m + o \in Nat /\ 3 * m + o \in Nat
      OBVIOUS
    <2> QED
      BY <1>4, <1>6, <2>1
  <1>8. /\ 5 + 0 = 5 /\ 5 + m = 8 + n /\ 5 + 2 * m = 11 + 2 * n /\ 5 + (2 * m + o) = 15 + 2 * n
        /\ 5 + (3 * m + o) = 18 + 3 * n /\ 3 * m + o + r = 16 + 3 * n + c
        /\ 5 + (3 * m + o + r) = 21 + 3 * n + c
    BY <1>1
  <1>9. value = SslValue(ssl, v, cn)
    BY <1>3, <1>4, <1>5 DEF SslValue
  <1>10. /\ Holds(value, 5, a) /\ Holds(value, 8 + n, b) /\ Holds(value, 11 + 2 * n, g)
         /\ Holds(value, 15 + 2 * n, d) /\ Holds(value, 18 + 3 * n, e)
    BY ONLY <1>7, <1>8
  <1>11. Len(subs) = 16 + 3 * n + c /\ Len(value) = 21 + 3 * n + c
    BY ONLY <1>4, <1>5, <1>8
  <1> QED
    BY <1>2, <1>3, <1>4, <1>5, <1>9, <1>10, <1>11

(* The writer of the SSL TLV leaves nothing of its allocation unwritten.   *)
LEMMA SslIs ==
  ASSUME NEW info, NEW v \in Seq(Octet), v # <<>>, NEW cn \in Seq(Octet), cn # <<>>, NEW found,
         {info.ssl.ssl, info.ssl.conn, info.ssl.verified} \subseteq {0, 1}
  PROVE  AddSsl(info, v, v, <<7>>, v, cn, found) = AppendNew(info, Type.SSL, SslValue(info.ssl, v, cn))
  <1> DEFINE w == <<7>>
             texts == v \o v \o w \o v \o cn
             subs == SubTlv(Type.VERSION, v) \o SubTlv(Type.CIPHER, v)
                     \o SubTlv(Type.SIG_ALG, w) \o SubTlv(Type.KEY_ALG, v) \o SubTlv(Type.CN, cn)
             absent == 15 + Len(texts) - Len(subs)
             tail == [i \in 1 .. absent |-> found[1 + ((i - 1) % 3)]]
  <1>1. w \in Seq(Octet) /\ w # <<>> /\ Len(w) = 1
    BY Octets
  <1>2. subs = SslSubs(v, cn)
    <2>1. /\ SubTlv(Type.VERSION, v) = Tlv(Type.VERSION, v) /\ SubTlv(Type.CIPHER, v) = Tlv(Type.CIPHER, v)
          /\ SubTlv(Type.SIG_ALG, w) = Tlv(Type.SIG_ALG, w) /\ SubTlv(Type.KEY_ALG, v) = Tlv(Type.KEY_ALG, v)
          /\ SubTlv(Type.CN, cn) = Tlv(Type.CN, cn)
      BY <1>1 DEF SubTlv
    <2> QED
      BY <2>1 DEF SslSubs, Five
  <1>3. PICK n \in Nat, c \in Nat : Len(v) = n /\ Len(cn) = c
    OBVIOUS
  <1>4. SslSubs(v, cn) \in Seq(Octet) /\ Len(SslSubs(v, cn)) = 16 + 3 * n + c
    BY <1>3, SslParts
  <1>5. Len(texts) = n + n + 1 + n + c
    <2>1. PICK o \in Seq(Octet) : o = w
      BY <1>1
    <2>2. Five(v, v, o, v, cn) \in Seq(Octet) /\ Len(Five(v, v, o, v, cn)) = 3 * n + 1 + c
      <3>1. Lengths(v, v, o, v, cn, n, 1, c)
        BY <1>1, <1>3, <2>1 DEF Lengths
      <3> QED
        BY ONLY <3>1, v \in Seq(Octet), o \in Seq(Octet), cn \in Seq(Octet), FiveHeld
    <2>3. Five(v, v, o, v, cn) = texts
      BY <2>1 DEF Five
    <2> HIDE DEF texts
    <2> QED
      BY <1>3, <2>2, <2>3
  <1> HIDE DEF texts, subs
  <1>6. absent = 0
    BY <1>2, <1>4, <1>5
  <1>7. tail = <<>>
    <2>1. 1 .. absent = {}
      BY <1>6
    <2>2. DOMAIN tail = {} /\ tail = [i \in {} |-> tail[i]]
      BY <2>1
    <2> QED
      BY <2>2
  <1> DEFINE client == <<ClientBits(info.ssl), 1 - info.ssl.verified, 0, 0, 0>>
  <1>8. client \o subs \o tail = SslValue(info.ssl, v, cn)
    <2>1. SslValue(info.ssl, v, cn) = client \o subs /\ SslValue(info.ssl, v, cn) \in Seq(Octet)
      <3>1. SslValue(info.ssl, v, cn) \in Seq(Octet)
        BY <1>3, SslParts
      <3> QED
        BY <1>2, <3>1 DEF SslValue, Client
    <2>2. PICK value \in Seq(Octet) : value = client \o subs
      BY <2>1
    <2>3. value \o <<>> = value
      OBVIOUS
    <2> HIDE DEF client, tail
    <2> QED
      BY <1>7, <2>1, <2>2, <2>3
  <1>9. AddSsl(info, v, v, <<7>>, v, cn, found) = AppendNew(info, Type.SSL, client \o subs \o tail)
    BY DEF AddSsl, subs, texts
  <1> HIDE DEF client, tail
  <1> QED
    BY ONLY <1>8, <1>9

(* The five items a complete one gives back, and the array with all five.  *)
TlsItems(a, b, c, d, e, v, cn) ==
  /\ a = <<Type.VERSION, Append(v, 0)>> /\ b = <<Type.CIPHER, Append(v, 0)>>
  /\ c = <<Type.SIG_ALG, <<7, 0>>>> /\ d = <<Type.KEY_ALG, Append(v, 0)>> /\ e = <<Type.CN, cn>>

FiveAppended(info, a, b, c, d, e) ==
  Appended(Appended(Appended(Appended(Appended(info, Stored(a)), Stored(b)), Stored(c)), Stored(d)), Stored(e))

LEMMA Both ==
  ASSUME NEW a, NEW b
  PROVE  Append(<<a>>, b) = <<a, b>>
  <1>1. <<a>> \in Seq({a, b}) /\ Len(<<a>>) = 1 /\ <<a>>[1] = a
    OBVIOUS
  <1>2. Append(<<a>>, b) = [i \in 1 .. 2 |-> IF i = 2 THEN b ELSE a]
    BY <1>1
  <1> DEFINE p == <<a, b>>
             q == [i \in 1 .. 2 |-> IF i = 2 THEN b ELSE a]
  <1>3. p \in Seq({a, b}) /\ Len(p) = 2 /\ p[1] = a /\ p[2] = b
    OBVIOUS
  <1>4. q \in [1 .. 2 -> {a, b}] /\ q[1] = a /\ q[2] = b
    OBVIOUS
  <1>5. p = q
    <2> HIDE DEF p, q
    <2>1. p \in [1 .. 2 -> {a, b}]
      BY <1>3
    <2> QED
      BY <1>3, <1>4, <2>1
  <1> QED
    BY <1>2, <1>5

(* A sub-TLV ahead, and what it gives back.                                *)
SubAhead(value, read, to, type, v) ==
  /\ value \in Seq(Octet) /\ read \in Nat /\ to \in Nat /\ type \in Octet /\ v \in Seq(Octet)
  /\ Len(v) < 65536 /\ to = read + 3 + Len(v) /\ Holds(value, read, Tlv(type, v))
  /\ Len(value) < 65536

LEMMA SubRound ==
  ASSUME NEW info, NEW value, NEW read, NEW to, NEW version, NEW type, NEW v, NEW item,
         SubAhead(value, read, to, type, v), SubWritten(type, v, item), type # Type.VERSION
  PROVE  TakeSub(Within(info, value, read, version)) = Within(Appended(info, Stored(item)), value, to, version)
  <1>1. /\ value \in Seq(Octet) /\ read \in Nat /\ to \in Nat /\ type \in Octet /\ v \in Seq(Octet)
        /\ Len(v) < 65536 /\ to = read + 3 + Len(v) /\ Holds(value, read, Tlv(type, v))
        /\ Len(value) < 65536
    BY DEF SubAhead
  <1>2. Sees(Within(info, value, read, version), type, v)
    BY ONLY <1>1, SubSeen
  <1> QED
    BY ONLY <1>1, <1>2, SubWritten(type, v, item), type # Type.VERSION, SubStep

LEMMA VersionRound ==
  ASSUME NEW info, NEW value, NEW read, NEW to, NEW version, NEW v, NEW item,
         SubAhead(value, read, to, Type.VERSION, v), item = <<Type.VERSION, Append(v, 0)>>
  PROVE  TakeSub(Within(info, value, read, version)) = Within(Appended(info, Stored(item)), value, to, 1)
  <1>1. /\ value \in Seq(Octet) /\ read \in Nat /\ to \in Nat /\ Type.VERSION \in Octet /\ v \in Seq(Octet)
        /\ Len(v) < 65536 /\ to = read + 3 + Len(v) /\ Holds(value, read, Tlv(Type.VERSION, v))
        /\ Len(value) < 65536
    BY DEF SubAhead
  <1>2. Sees(Within(info, value, read, version), Type.VERSION, v)
    BY ONLY <1>1, SubSeen
  <1> QED
    BY ONLY <1>1, <1>2, item = <<Type.VERSION, Append(v, 0)>>, VersionStep

LEMMA TlsWritten ==
  ASSUME NEW a, NEW b, NEW c, NEW d, NEW e, NEW v, NEW cn, TlsItems(a, b, c, d, e, v, cn)
  PROVE  /\ SubWritten(Type.CIPHER, v, b) /\ SubWritten(Type.SIG_ALG, <<7>>, c)
         /\ SubWritten(Type.KEY_ALG, v, d) /\ SubWritten(Type.CN, cn, e)
         /\ Type.VERSION \notin {Type.CIPHER, Type.SIG_ALG, Type.KEY_ALG, Type.CN}
         /\ a = <<Type.VERSION, Append(v, 0)>>
  <1>2. Append(<<7>>, 0) = <<7, 0>>
    BY ONLY Both
  <1>3. Type.VERSION \notin {Type.CIPHER, Type.SIG_ALG, Type.KEY_ALG, Type.CN}
    BY TypeNumbers
  <1>4. c = <<Type.SIG_ALG, Append(<<7>>, 0)>>
    BY <1>2 DEF TlsItems
  <1>5. a = <<Type.VERSION, Append(v, 0)>> /\ b = <<Type.CIPHER, Append(v, 0)>>
        /\ d = <<Type.KEY_ALG, Append(v, 0)>> /\ e = <<Type.CN, cn>>
    BY DEF TlsItems
  <1> QED
    BY ONLY <1>3, <1>4, <1>5 DEF SubWritten

(* The places of the five.                                                 *)
SslPlaces(value, v, cn, p) ==
  LET w == <<7>> IN
  /\ SubAhead(value, p[1], p[2], Type.VERSION, v) /\ SubAhead(value, p[2], p[3], Type.CIPHER, v)
  /\ SubAhead(value, p[3], p[4], Type.SIG_ALG, w) /\ SubAhead(value, p[4], p[5], Type.KEY_ALG, v)
  /\ SubAhead(value, p[5], p[6], Type.CN, cn)

LEMMA SslPlaced ==
  ASSUME NEW ssl, {ssl.ssl, ssl.conn, ssl.verified} \subseteq {0, 1},
         NEW v \in Seq(Octet), NEW cn \in Seq(Octet), NEW n \in Nat, NEW m \in Nat,
         Len(v) = n, Len(cn) = m, n < 65536, m < 65536, Len(SslValue(ssl, v, cn)) < 65536
  PROVE  SslPlaces(SslValue(ssl, v, cn), v, cn,
                   <<5, 8 + n, 11 + 2 * n, 15 + 2 * n, 18 + 3 * n, 21 + 3 * n + m>>)
  <1>1. PICK w \in Seq(Octet), o \in Nat : w = <<7>> /\ Len(w) = o /\ o = 1
    <2>1. 1 \in Nat
      OBVIOUS
    <2> QED
      BY ONLY <2>1, Octets
  <1>2. PICK value \in Seq(Octet) : value = SslValue(ssl, v, cn)
    <2>1. SslValue(ssl, v, cn) \in Seq(Octet)
      BY SslParts
    <2> QED
      BY ONLY <2>1
  <1>3. /\ Holds(value, 5, Tlv(Type.VERSION, v)) /\ Holds(value, 8 + n, Tlv(Type.CIPHER, v))
        /\ Holds(value, 11 + 2 * n, Tlv(Type.SIG_ALG, <<7>>)) /\ Holds(value, 15 + 2 * n, Tlv(Type.KEY_ALG, v))
        /\ Holds(value, 18 + 3 * n, Tlv(Type.CN, cn))
    BY <1>2, SslParts
  <1>4. Holds(value, 11 + 2 * n, Tlv(Type.SIG_ALG, w))
    BY ONLY <1>1, <1>3
  <1>5. {Type.VERSION, Type.CN, Type.CIPHER, Type.SIG_ALG, Type.KEY_ALG} \subseteq Octet
    BY TypesAre
  <1>14. value \in Seq(Octet) /\ Len(value) < 65536
    BY <1>2
  <1>6. SubAhead(value, 5, 8 + n, Type.VERSION, v)
    BY <1>2, <1>3, <1>5 DEF SubAhead
  <1>7. SubAhead(value, 8 + n, 11 + 2 * n, Type.CIPHER, v)
    BY <1>2, <1>3, <1>5 DEF SubAhead
  <1>8. SubAhead(value, 11 + 2 * n, 15 + 2 * n, Type.SIG_ALG, w)
    BY ONLY <1>1, <1>4, <1>5, <1>14, n \in Nat DEF SubAhead
  <1>9. SubAhead(value, 15 + 2 * n, 18 + 3 * n, Type.KEY_ALG, v)
    BY <1>2, <1>3, <1>5 DEF SubAhead
  <1>10. SubAhead(value, 18 + 3 * n, 21 + 3 * n + m, Type.CN, cn)
    BY <1>2, <1>3, <1>5 DEF SubAhead
  <1>11. SubAhead(value, 11 + 2 * n, 15 + 2 * n, Type.SIG_ALG, <<7>>)
    BY ONLY <1>1, <1>8
  <1> DEFINE p == <<5, 8 + n, 11 + 2 * n, 15 + 2 * n, 18 + 3 * n, 21 + 3 * n + m>>
  <1>12. p[1] = 5 /\ p[2] = 8 + n /\ p[3] = 11 + 2 * n /\ p[4] = 15 + 2 * n
         /\ p[5] = 18 + 3 * n /\ p[6] = 21 + 3 * n + m
    OBVIOUS
  <1> HIDE DEF p
  <1>13. SslPlaces(value, v, cn, p)
    BY ONLY <1>6, <1>7, <1>9, <1>10, <1>11, <1>12 DEF SslPlaces
  <1> QED
    BY ONLY <1>2, <1>13 DEF p

LEMMA SslRounds ==
  ASSUME NEW value, NEW v, NEW cn, NEW p, SslPlaces(value, v, cn, p),
         NEW a, NEW b, NEW c, NEW d, NEW e, TlsItems(a, b, c, d, e, v, cn),
         NEW info, NEW f, f[0] = Within(info, value, p[1], 0),
         \A k \in 1 .. 5 : f[k] = TakeSub(f[k - 1])
  PROVE  f[5] = Within(FiveAppended(info, a, b, c, d, e), value, p[6], 1)
  <1>1. /\ SubWritten(Type.CIPHER, v, b) /\ SubWritten(Type.SIG_ALG, <<7>>, c)
        /\ SubWritten(Type.KEY_ALG, v, d) /\ SubWritten(Type.CN, cn, e)
        /\ Type.VERSION \notin {Type.CIPHER, Type.SIG_ALG, Type.KEY_ALG, Type.CN}
        /\ a = <<Type.VERSION, Append(v, 0)>>
    BY ONLY TlsItems(a, b, c, d, e, v, cn), TlsWritten
  <1>2. f[1] = TakeSub(f[0]) /\ f[2] = TakeSub(f[1]) /\ f[3] = TakeSub(f[2])
        /\ f[4] = TakeSub(f[3]) /\ f[5] = TakeSub(f[4])
    <2>1. \A k \in 1 .. 5 : f[k] = TakeSub(f[k - 1])
      OBVIOUS
    <2>2. 1 - 1 = 0 /\ 2 - 1 = 1 /\ 3 - 1 = 2 /\ 4 - 1 = 3 /\ 5 - 1 = 4
          /\ 1 \in 1 .. 5 /\ 2 \in 1 .. 5 /\ 3 \in 1 .. 5 /\ 4 \in 1 .. 5 /\ 5 \in 1 .. 5
      OBVIOUS
    <2> QED
      BY ONLY <2>1, <2>2
  <1>3. /\ SubAhead(value, p[1], p[2], Type.VERSION, v) /\ SubAhead(value, p[2], p[3], Type.CIPHER, v)
        /\ SubAhead(value, p[3], p[4], Type.SIG_ALG, <<7>>) /\ SubAhead(value, p[4], p[5], Type.KEY_ALG, v)
        /\ SubAhead(value, p[5], p[6], Type.CN, cn)
    BY DEF SslPlaces
  <1>4. PICK i1, i2, i3, i4, i5 :
          /\ i1 = Appended(info, Stored(a)) /\ i2 = Appended(i1, Stored(b)) /\ i3 = Appended(i2, Stored(c))
          /\ i4 = Appended(i3, Stored(d)) /\ i5 = Appended(i4, Stored(e))
    OBVIOUS
  <1>5. f[1] = Within(i1, value, p[2], 1)
    <2>1. TakeSub(Within(info, value, p[1], 0)) = Within(Appended(info, Stored(a)), value, p[2], 1)
      BY ONLY <1>1, <1>3, VersionRound
    <2> QED
      BY ONLY <1>2, <1>4, <2>1, f[0] = Within(info, value, p[1], 0)
  <1>6. f[2] = Within(i2, value, p[3], 1)
    <2>1. TakeSub(Within(i1, value, p[2], 1)) = Within(Appended(i1, Stored(b)), value, p[3], 1)
      BY ONLY <1>1, <1>3, SubRound
    <2> QED
      BY ONLY <1>2, <1>4, <1>5, <2>1
  <1>7. f[3] = Within(i3, value, p[4], 1)
    <2>1. TakeSub(Within(i2, value, p[3], 1)) = Within(Appended(i2, Stored(c)), value, p[4], 1)
      BY ONLY <1>1, <1>3, SubRound
    <2> QED
      BY ONLY <1>2, <1>4, <1>6, <2>1
  <1>8. f[4] = Within(i4, value, p[5], 1)
    <2>1. TakeSub(Within(i3, value, p[4], 1)) = Within(Appended(i3, Stored(d)), value, p[5], 1)
      BY ONLY <1>1, <1>3, SubRound
    <2> QED
      BY ONLY <1>2, <1>4, <1>7, <2>1
  <1>9. f[5] = Within(i5, value, p[6], 1)
    <2>1. TakeSub(Within(i4, value, p[5], 1)) = Within(Appended(i4, Stored(e)), value, p[6], 1)
      BY ONLY <1>1, <1>3, SubRound
    <2> QED
      BY ONLY <1>2, <1>4, <1>8, <2>1
  <1> QED
    BY ONLY <1>4, <1>9 DEF FiveAppended

(* The flags of the TLS connection that pp_parse_hdr sets, and those of    *)
(* them that are the sender's.                                             *)
FlagsOf(value) ==
  [ssl |-> (value[1] \div 1) % 2, conn |-> (value[1] \div 2) % 2, sess |-> (value[1] \div 4) % 2,
   verified |-> IF SubSeq(value, 2, 5) = Zeros(4) THEN 1 ELSE 0]

SameFlags(told, ssl) == told.ssl = ssl.ssl /\ told.conn = ssl.conn /\ told.verified = ssl.verified

LEMMA FlagsBack ==
  ASSUME NEW ssl, {ssl.ssl, ssl.conn, ssl.verified} \subseteq {0, 1},
         NEW v \in Seq(Octet), NEW cn \in Seq(Octet)
  PROVE  SameFlags(FlagsOf(SslValue(ssl, v, cn)), ssl)
  <1>1. PICK n \in Nat, m \in Nat : Len(v) = n /\ Len(cn) = m
    OBVIOUS
  <1>2. PICK value \in Seq(Octet) : /\ value = SslValue(ssl, v, cn) /\ Len(value) = 21 + 3 * n + m
                                    /\ Holds(value, 0, Client(ssl))
    <2>1. /\ SslValue(ssl, v, cn) \in Seq(Octet) /\ Len(SslValue(ssl, v, cn)) = 21 + 3 * n + m
          /\ Holds(SslValue(ssl, v, cn), 0, Client(ssl))
      BY <1>1, SslParts
    <2> QED
      BY ONLY <2>1
  <1>3. PICK x \in {0, 1}, y \in {0, 1}, z \in {0, 1} : x = ssl.ssl /\ y = ssl.conn /\ z = ssl.verified
    OBVIOUS
  <1>4. Client(ssl) = <<x + 2 * y + 4 * y, 1 - z, 0, 0, 0>>
    BY <1>3 DEF Client, ClientBits
  <1>5. /\ value[1] = x + 2 * y + 4 * y /\ value[2] = 1 - z
        /\ value[3] = 0 /\ value[4] = 0 /\ value[5] = 0
    <2>1. Len(Client(ssl)) = 5
      BY <1>4
    <2>2. \A i \in 1 .. 5 : value[0 + i] = Client(ssl)[i]
      BY <1>2, <2>1 DEF Holds
    <2>3. 1 \in 1 .. 5 /\ 2 \in 1 .. 5 /\ 3 \in 1 .. 5 /\ 4 \in 1 .. 5 /\ 5 \in 1 .. 5
          /\ 0 + 1 = 1 /\ 0 + 2 = 2 /\ 0 + 3 = 3 /\ 0 + 4 = 4 /\ 0 + 5 = 5
      OBVIOUS
    <2>4. value[1] = Client(ssl)[1] /\ value[2] = Client(ssl)[2] /\ value[3] = Client(ssl)[3]
          /\ value[4] = Client(ssl)[4] /\ value[5] = Client(ssl)[5]
      BY ONLY <2>2, <2>3
    <2> QED
      BY <1>4, <2>4
  <1>6. (value[1] \div 1) % 2 = x /\ (value[1] \div 2) % 2 = y
    <2>1. (0 \div 1) % 2 = 0 /\ (1 \div 1) % 2 = 1 /\ (6 \div 1) % 2 = 0 /\ (7 \div 1) % 2 = 1
          /\ (0 \div 2) % 2 = 0 /\ (1 \div 2) % 2 = 0 /\ (6 \div 2) % 2 = 1 /\ (7 \div 2) % 2 = 1
      OBVIOUS
    <2>2. \/ x = 0 /\ y = 0 /\ value[1] = 0
          \/ x = 1 /\ y = 0 /\ value[1] = 1
          \/ x = 0 /\ y = 1 /\ value[1] = 6
          \/ x = 1 /\ y = 1 /\ value[1] = 7
      BY <1>5
    <2> QED
      BY ONLY <2>1, <2>2
  <1>7. (IF SubSeq(value, 2, 5) = Zeros(4) THEN 1 ELSE 0) = z
    <2>1. Zeros(4) = [i \in 1 .. 4 |-> 0]
      BY DEF Zeros
    <2>2. PICK cut : cut = SubSeq(value, 2, 5)
      OBVIOUS
    <2>3. cut = [i \in 1 .. 4 |-> value[i + 1]]
      <3>1. cut = [i \in 1 .. (5 - 2) + 1 |-> value[i + 2 - 1]]
        BY <1>1, <1>2, <2>2
      <3> QED
        BY <3>1
    <2>4. CASE z = 1
      <3>1. \A i \in 1 .. 4 : value[i + 1] = 0
        BY <1>5, <2>4
      <3>2. cut = Zeros(4)
        BY <2>1, <2>3, <3>1
      <3> QED
        BY <2>2, <2>4, <3>2
    <2>5. CASE z = 0
      <3>1. cut[1] = 1 /\ Zeros(4)[1] = 0
        BY <1>5, <2>1, <2>3, <2>5
      <3> QED
        BY <2>2, <2>5, <3>1
    <2> QED
      BY <2>4, <2>5
  <1> QED
    BY <1>2, <1>3, <1>6, <1>7 DEF SameFlags, FlagsOf

WithFlags(info, flags) == [info EXCEPT !.ssl = flags]
WithInfo(s, info) == [s EXCEPT !.info = info]

(* The whole TLV is taken, its five parts at the end of the array.         *)
LEMMA SslTaken ==
  ASSUME NEW s, NEW ssl, {ssl.ssl, ssl.conn, ssl.verified} \subseteq {0, 1},
         NEW v \in Seq(Octet), NEW cn \in Seq(Octet), Len(v) < 65536, Len(cn) < 65536,
         NEW a, NEW b, NEW c, NEW d, NEW e, TlsItems(a, b, c, d, e, v, cn),
         NEW value, value = SslValue(ssl, v, cn), Len(value) < 65536, NEW info, info = WithFlags(s.info, FlagsOf(value)),
         NEW last, last = FiveAppended(info, a, b, c, d, e)
  PROVE  TakeSsl(s, value) = WithInfo(s, last)
  <1>1. PICK n \in Nat, m \in Nat : Len(v) = n /\ Len(cn) = m
    OBVIOUS
  <1>2. value \in Seq(Octet) /\ Len(value) = 21 + 3 * n + m
    BY <1>1, SslParts
  <1>3. PICK p : /\ p = <<5, 8 + n, 11 + 2 * n, 15 + 2 * n, 18 + 3 * n, 21 + 3 * n + m>>
                 /\ SslPlaces(value, v, cn, p)
    <2>1. n < 65536 /\ m < 65536
      BY <1>1
    <2>2. SslPlaces(SslValue(ssl, v, cn), v, cn,
                   <<5, 8 + n, 11 + 2 * n, 15 + 2 * n, 18 + 3 * n, 21 + 3 * n + m>>)
      BY <1>1, <2>1, SslPlaced
    <2> QED
      BY <2>2
  <1>4. p[1] = 5 /\ p[6] = 21 + 3 * n + m
    BY <1>3
  <1>5. info = [s.info EXCEPT !.ssl = FlagsOf(value)]
    BY DEF WithFlags
  <1>6. PICK start : start = Within(info, value, 5, 0)
    OBVIOUS
  <1>7. PICK rounds \in Nat : rounds = Len(value) \div 3 /\ rounds >= 5
    BY <1>2
  <1>8. PICK f : /\ f[0] = start /\ SubTlvs(start, rounds) = f[rounds]
                 /\ \A k \in 1 .. rounds : f[k] = TakeSub(f[k - 1])
    <2>1. PICK f : SubChain(f, start, rounds)
      BY ONLY rounds \in Nat, LoopsAre
    <2> QED
      BY ONLY <2>1 DEF SubChain
  <1>9. last = FiveAppended(info, a, b, c, d, e)
    OBVIOUS
  <1>10. f[5] = Within(last, value, 21 + 3 * n + m, 1)
    <2>1. \A k \in 1 .. 5 : f[k] = TakeSub(f[k - 1])
      BY <1>7, <1>8
    <2>2. f[0] = Within(info, value, p[1], 0)
      BY <1>4, <1>6, <1>8
    <2>3. f[5] = Within(FiveAppended(info, a, b, c, d, e), value, p[6], 1)
      BY ONLY <1>3, <2>1, <2>2, TlsItems(a, b, c, d, e, v, cn), SslRounds
    <2> QED
      BY <1>4, <1>9, <2>3
  <1>11. TakeSub(f[5]) = f[5]
    <2>1. f[5].at = (21 + 3 * n + m) + 1 /\ f[5].value = value
      BY <1>10 DEF Within
    <2>2. f[5].at > Len(f[5].value)
      BY <1>2, <2>1
    <2> QED
      BY ONLY <2>2 DEF TakeSub
  <1>12. f[rounds] = f[5]
    <2> DEFINE S == {k \in Nat : 5 + k <= rounds => f[5 + k] = f[5]}
    <2>1. 0 \in S
      OBVIOUS
    <2>2. \A k \in S : k + 1 \in S
      <3> SUFFICES ASSUME NEW k \in S, 5 + (k + 1) <= rounds PROVE f[5 + (k + 1)] = f[5]
        OBVIOUS
      <3>1. k \in Nat /\ f[5 + k] = f[5]
        OBVIOUS
      <3>2. 5 + (k + 1) \in 1 .. rounds /\ (5 + (k + 1)) - 1 = 5 + k
        BY <3>1
      <3>3. f[5 + (k + 1)] = TakeSub(f[5 + k])
        BY <1>8, <3>2
      <3> QED
        BY <1>11, <3>1, <3>3
    <2> HIDE DEF S
    <2>3. S = Nat
      <3>1. S \in SUBSET Nat
        BY DEF S
      <3> QED
        BY ONLY <2>1, <2>2, <3>1, Induction
    <2>4. rounds - 5 \in S /\ 5 + (rounds - 5) = rounds
      BY <1>7, <2>3
    <2> QED
      BY <2>4 DEF S
  <1>13. PICK end : end = SubTlvs(start, rounds)
    OBVIOUS
  <1>14. end.rc = 0 /\ end.at = Len(value) + 1 /\ end.version = 1 /\ end.info = last
    <2>1. end = Within(last, value, 21 + 3 * n + m, 1)
      BY <1>8, <1>10, <1>12, <1>13
    <2> QED
      BY <1>2, <2>1 DEF Within
  <1>15. start = [rc |-> 0, info |-> [s.info EXCEPT !.ssl = FlagsOf(value)], value |-> value, at |-> 6, version |-> 0]
    BY <1>5, <1>6 DEF Within
  <1> DEFINE bit(k) == (value[1] \div k) % 2
             flags == [ssl |-> bit(1), conn |-> bit(2), sess |-> bit(4),
                       verified |-> IF SubSeq(value, 2, 5) = Zeros(4) THEN 1 ELSE 0]
             first == [rc |-> 0, info |-> [s.info EXCEPT !.ssl = flags], value |-> value,
                       at |-> 6, version |-> 0]
             whole == SubTlvs(first, Len(value) \div 3)
  <1>16. whole = end
    <2>1. flags = FlagsOf(value)
      BY DEF FlagsOf
    <2> HIDE DEF flags
    <2>2. first = start
      BY <1>15, <2>1
    <2> HIDE DEF first
    <2> QED
      BY <1>7, <1>13, <2>2
  <1>17. TakeSsl(s, value) =
           IF whole.rc < 0 THEN [s EXCEPT !.rc = whole.rc, !.info = whole.info]
           ELSE IF whole.at # Len(value) + 1 \/ (flags.ssl = 1 /\ whole.version = 0)
                THEN [Fail(s, "PP2_TYPE_SSL") EXCEPT !.info = whole.info]
                ELSE [s EXCEPT !.info = whole.info]
    <2>1. ~(Len(value) < 5)
      BY <1>1, <1>2
    <2> HIDE DEF whole, flags
    <2> QED
      BY <2>1 DEF TakeSsl, SubTlvs, whole, flags
  <1> HIDE DEF whole, flags
  <1>18. ~(whole.rc < 0) /\ ~(whole.at # Len(value) + 1 \/ (flags.ssl = 1 /\ whole.version = 0))
    BY ONLY <1>14, <1>16
  <1>19. TakeSsl(s, value) = [s EXCEPT !.info = whole.info]
    BY ONLY <1>17, <1>18
  <1> QED
    BY ONLY <1>14, <1>16, <1>19 DEF WithInfo

(* The receiver's pp_info_t when the first q of the items are in it: base  *)
(* is what it was before the first TLV.                                    *)
GoodItem(item) ==
  item[1] \in Octet /\ item[1] # Type.CRC32C /\ item[2] \in Seq(Octet)

Told(info, base, items, q) ==
  /\ DOMAIN info = DOMAIN Cleared
  /\ info.family = base.family /\ info.transport = base.transport
  /\ info.src = base.src /\ info.dst = base.dst /\ info.sport = base.sport /\ info.dport = base.dport
  /\ info.tlvs \in Seq(Seq(Octet)) /\ Len(info.tlvs) = q
  /\ \A j \in 1 .. q : info.tlvs[j] = Stored(items[j]) /\ GoodItem(items[j])

LEMMA InfoMembers ==
  DOMAIN Cleared = {"family", "transport", "src", "dst", "sport", "dport", "local", "power", "ssl",
                    "tlvs", "size", "crc32c"}
  BY DEF Cleared

LEMMA GoodStored ==
  ASSUME NEW item, GoodItem(item)
  PROVE  Stored(item) \in Seq(Octet)
  <1>1. item[1] \in Octet /\ item[2] \in Seq(Octet)
    BY DEF GoodItem
  <1>2. <<1>> \o item[2] \in Seq(Octet)
    <2>1. <<1>> \in Seq(Octet)
      BY DEF Octet
    <2> QED
      BY <1>1, <2>1
  <1>3. PICK v \in Seq(Octet) :
          v = IF item[1] \in {Type.AWS, Type.AZURE} THEN <<1>> \o item[2] ELSE item[2]
    BY <1>1, <1>2
  <1>4. Tlv(item[1], v) \in Seq(Octet)
    BY <1>1, TlvIs
  <1> QED
    BY <1>3, <1>4 DEF Stored

LEMMA AppendedMembers ==
  ASSUME NEW info, DOMAIN info = DOMAIN Cleared, NEW tlv
  PROVE  LET more == Appended(info, tlv) IN
         /\ DOMAIN more = DOMAIN Cleared
         /\ more.family = info.family /\ more.transport = info.transport
         /\ more.src = info.src /\ more.dst = info.dst /\ more.sport = info.sport /\ more.dport = info.dport
         /\ more.tlvs = Append(info.tlvs, tlv) /\ more.ssl = info.ssl
  BY InfoMembers DEF Appended

LEMMA ToldOn ==
  ASSUME NEW info, NEW base, NEW items, NEW q \in Nat, Told(info, base, items, q),
         NEW r, r = q + 1, NEW item, item = items[r], GoodItem(item)
  PROVE  Told(Appended(info, Stored(item)), base, items, r)
  <1>1. PICK tlv \in Seq(Octet) : tlv = Stored(item)
    BY GoodStored
  <1>2. PICK old \in Seq(Seq(Octet)) :
           old = info.tlvs /\ Len(old) = q /\ \A j \in 1 .. q : old[j] = Stored(items[j]) /\ GoodItem(items[j])
    BY DEF Told
  <1>3. PICK more : more = Appended(info, tlv)
    OBVIOUS
  <1>4. /\ DOMAIN more = DOMAIN Cleared
        /\ more.family = info.family /\ more.transport = info.transport
        /\ more.src = info.src /\ more.dst = info.dst /\ more.sport = info.sport /\ more.dport = info.dport
        /\ more.tlvs = Append(old, tlv)
    <2>1. DOMAIN info = DOMAIN Cleared
      BY DEF Told
    <2> QED
      BY ONLY <1>2, <1>3, <2>1, AppendedMembers
  <1>5. /\ Append(old, tlv) \in Seq(Seq(Octet)) /\ Len(Append(old, tlv)) = r
        /\ \A j \in 1 .. q : Append(old, tlv)[j] = old[j]
        /\ Append(old, tlv)[r] = tlv
    BY <1>1, <1>2
  <1>6. \A j \in 1 .. r : more.tlvs[j] = Stored(items[j]) /\ GoodItem(items[j])
    <2> TAKE j \in 1 .. r
    <2>1. CASE j = r
      BY <1>1, <1>4, <1>5, <2>1
    <2>2. CASE j # r
      <3>1. j \in 1 .. q
        BY <2>2
      <3> QED
        BY <1>2, <1>4, <1>5, <3>1
    <2> QED
      BY <2>1, <2>2
  <1>7. Told(more, base, items, r)
    <2>1. info.family = base.family /\ info.transport = base.transport
          /\ info.src = base.src /\ info.dst = base.dst /\ info.sport = base.sport /\ info.dport = base.dport
      BY DEF Told
    <2> QED
      BY ONLY <1>4, <1>5, <1>6, <2>1 DEF Told
  <1> QED
    BY ONLY <1>1, <1>3, <1>7

LEMMA ToldSsl ==
  ASSUME NEW info, NEW base, NEW items, NEW q, Told(info, base, items, q), NEW flags
  PROVE  Told([info EXCEPT !.ssl = flags], base, items, q) /\ [info EXCEPT !.ssl = flags].ssl = flags
  BY InfoMembers DEF Told

LEMMA ToldSame ==
  ASSUME NEW info, NEW base, NEW items, NEW q, Told(info, base, items, q), NEW tlv
  PROVE  Appended(info, tlv).ssl = info.ssl
  BY AppendedMembers DEF Told

LEMMA TlsGood ==
  ASSUME NEW a, NEW b, NEW c, NEW d, NEW e, NEW v \in Seq(Octet), NEW cn \in Seq(Octet),
         TlsItems(a, b, c, d, e, v, cn)
  PROVE  GoodItem(a) /\ GoodItem(b) /\ GoodItem(c) /\ GoodItem(d) /\ GoodItem(e)
  <1>1. PICK w \in Seq(Octet), t \in Seq(Octet) : w = Append(v, 0) /\ t = <<7, 0>>
    <2>1. Append(v, 0) \in Seq(Octet) /\ <<7, 0>> \in Seq(Octet)
      BY DEF Octet
    <2> QED
      BY <2>1
  <1>2. a = <<Type.VERSION, w>> /\ b = <<Type.CIPHER, w>> /\ c = <<Type.SIG_ALG, t>>
        /\ d = <<Type.KEY_ALG, w>> /\ e = <<Type.CN, cn>>
    BY <1>1 DEF TlsItems
  <1>3. {Type.VERSION, Type.CN, Type.CIPHER, Type.SIG_ALG, Type.KEY_ALG} \subseteq Octet
    BY TypesAre
  <1>4. Type.CRC32C \notin {Type.VERSION, Type.CN, Type.CIPHER, Type.SIG_ALG, Type.KEY_ALG}
    BY TypeNumbers
  <1>5. \A x, y : <<x, y>>[1] = x /\ <<x, y>>[2] = y
    OBVIOUS
  <1> QED
    BY ONLY <1>2, <1>3, <1>4, <1>5, w \in Seq(Octet), t \in Seq(Octet), cn \in Seq(Octet) DEF GoodItem

LEMMA FiveTold ==
  ASSUME NEW info, NEW base, NEW items, NEW q \in Nat, Told(info, base, items, q), NEW r, r = q + 5,
         NEW a, NEW b, NEW c, NEW d, NEW e,
         a = items[q + 1], b = items[q + 2], c = items[q + 3], d = items[q + 4], e = items[q + 5],
         GoodItem(a), GoodItem(b), GoodItem(c), GoodItem(d), GoodItem(e)
  PROVE  Told(FiveAppended(info, a, b, c, d, e), base, items, r)
         /\ FiveAppended(info, a, b, c, d, e).ssl = info.ssl
  <1>1. PICK i1, i2, i3, i4, i5 :
          /\ i1 = Appended(info, Stored(a)) /\ i2 = Appended(i1, Stored(b)) /\ i3 = Appended(i2, Stored(c))
          /\ i4 = Appended(i3, Stored(d)) /\ i5 = Appended(i4, Stored(e))
    OBVIOUS
  <1>2. PICK q1 \in Nat, q2 \in Nat, q3 \in Nat, q4 \in Nat, q5 \in Nat :
          q1 = q + 1 /\ q2 = q1 + 1 /\ q3 = q2 + 1 /\ q4 = q3 + 1 /\ q5 = q4 + 1
    <2>1. q + 1 \in Nat /\ q + 2 \in Nat /\ q + 3 \in Nat /\ q + 4 \in Nat /\ q + 5 \in Nat
          /\ q + 2 = (q + 1) + 1 /\ q + 3 = (q + 2) + 1 /\ q + 4 = (q + 3) + 1 /\ q + 5 = (q + 4) + 1
      OBVIOUS
    <2> QED
      BY ONLY <2>1
  <1>3. a = items[q1] /\ b = items[q2] /\ c = items[q3] /\ d = items[q4] /\ e = items[q5] /\ q5 = r
    <2>1. q1 = q + 1 /\ q2 = q + 2 /\ q3 = q + 3 /\ q4 = q + 4 /\ q5 = q + 5
      BY <1>2
    <2> QED
      BY <2>1
  <1>4. Told(i1, base, items, q1)
    BY ONLY <1>1, <1>2, <1>3, q \in Nat, Told(info, base, items, q), GoodItem(a), ToldOn
  <1>5. Told(i2, base, items, q2)
    BY ONLY <1>1, <1>2, <1>3, q1 \in Nat, <1>4, GoodItem(b), ToldOn
  <1>6. Told(i3, base, items, q3)
    BY ONLY <1>1, <1>2, <1>3, q2 \in Nat, <1>5, GoodItem(c), ToldOn
  <1>7. Told(i4, base, items, q4)
    BY ONLY <1>1, <1>2, <1>3, q3 \in Nat, <1>6, GoodItem(d), ToldOn
  <1>8. Told(i5, base, items, q5)
    BY ONLY <1>1, <1>2, <1>3, q4 \in Nat, <1>7, GoodItem(e), ToldOn
  <1>9. i5.ssl = info.ssl
    <2>1. i1.ssl = info.ssl
      BY ONLY <1>1, Told(info, base, items, q), ToldSame
    <2>2. i2.ssl = i1.ssl
      BY ONLY <1>1, <1>4, ToldSame
    <2>3. i3.ssl = i2.ssl
      BY ONLY <1>1, <1>5, ToldSame
    <2>4. i4.ssl = i3.ssl
      BY ONLY <1>1, <1>6, ToldSame
    <2>5. i5.ssl = i4.ssl
      BY ONLY <1>1, <1>7, ToldSame
    <2> QED
      BY ONLY <2>1, <2>2, <2>3, <2>4, <2>5
  <1>10. FiveAppended(info, a, b, c, d, e) = i5
    BY ONLY <1>1 DEF FiveAppended
  <1> QED
    BY ONLY <1>3, <1>8, <1>9, <1>10

(* A TLV of the header and the items it gives back: those from q + 1 to r. *)
Entry(ssl, type, value, items, q, r) ==
  \/ r = q + 1 /\ Spelt(type, value, items[r])
  \/ /\ type = Type.SSL /\ r = q + 5
     /\ \E v \in Seq(Octet), cn \in Seq(Octet) :
          /\ value = SslValue(ssl, v, cn)
          /\ TlsItems(items[q + 1], items[q + 2], items[q + 3], items[q + 4], items[q + 5], v, cn)

(* The flags are the sender's once a version was told.                     *)
Flagged(info, ssl, items, q) ==
  (\E j \in 1 .. q : items[j][1] = Type.VERSION) => SameFlags(info.ssl, ssl)

Bits01(ssl) == {ssl.ssl, ssl.conn, ssl.verified} \subseteq {0, 1}

(* The parser has been told the first q items; one more TLV gives those up *)
(* to r.                                                                   *)
Knows(info, base, ssl, items, q) == Told(info, base, items, q) /\ Flagged(info, ssl, items, q)

Gives(taken, s, base, ssl, items, r) ==
  \E info : taken = WithInfo(s, info) /\ Knows(info, base, ssl, items, r)

LEMMA OneEntry ==
  ASSUME NEW s, NEW base, NEW items, NEW ssl, NEW q \in Nat, NEW r, NEW type, NEW value \in Seq(Octet),
         Knows(s.info, base, ssl, items, q),
         r = q + 1, Spelt(type, value, items[r])
  PROVE  Gives(TakeTlv(s, type, value), s, base, ssl, items, r)
  <1>0. Told(s.info, base, items, q) /\ Flagged(s.info, ssl, items, q)
    BY DEF Knows
  <1>1. PICK item : item = items[r]
    OBVIOUS
  <1>2. Spelt(type, value, item)
    BY <1>1
  <1>3. /\ TakeTlv(s, type, value) = [s EXCEPT !.info = Appended(s.info, Stored(item))]
        /\ type \in Octet /\ item[1] = type /\ item[2] \in Seq(Octet)
        /\ type \notin {Type.CRC32C, Type.VERSION, Type.CN, Type.SSL}
    BY ONLY <1>2, value \in Seq(Octet), OneTaken
  <1>4. GoodItem(item) /\ item[1] # Type.VERSION
    BY ONLY <1>3 DEF GoodItem
  <1>5. PICK info : info = Appended(s.info, Stored(item))
    OBVIOUS
  <1>6. Told(info, base, items, r)
    BY ONLY <1>1, <1>4, <1>5, <1>0, q \in Nat, r = q + 1, ToldOn
  <1>7. info.ssl = s.info.ssl
    BY ONLY <1>0, <1>5, ToldSame
  <1>8. Flagged(info, ssl, items, r)
    <2> SUFFICES ASSUME NEW j \in 1 .. r, items[j][1] = Type.VERSION PROVE SameFlags(info.ssl, ssl)
      BY DEF Flagged
    <2>1. j # r
      BY <1>1, <1>4
    <2>2. j \in 1 .. q
      BY <2>1
    <2> QED
      BY <1>0, <1>7, <2>2 DEF Flagged
  <1>9. TakeTlv(s, type, value) = WithInfo(s, info)
    BY ONLY <1>3, <1>5 DEF WithInfo
  <1> QED
    BY ONLY <1>6, <1>8, <1>9 DEF Gives, Knows

LEMMA TlsEntry ==
  ASSUME NEW s, NEW base, NEW items, NEW ssl, Bits01(ssl),
         NEW q \in Nat, NEW r, NEW value \in Seq(Octet), Len(value) < 65536,
         Knows(s.info, base, ssl, items, q), r = q + 5,
         NEW v \in Seq(Octet), NEW cn \in Seq(Octet), value = SslValue(ssl, v, cn),
         TlsItems(items[q + 1], items[q + 2], items[q + 3], items[q + 4], items[q + 5], v, cn)
  PROVE  Gives(TakeTlv(s, Type.SSL, value), s, base, ssl, items, r)
  <1>0. Told(s.info, base, items, q) /\ Flagged(s.info, ssl, items, q)
    BY DEF Knows
  <1>13. {ssl.ssl, ssl.conn, ssl.verified} \subseteq {0, 1}
    BY DEF Bits01
  <1>1. TakeTlv(s, Type.SSL, value) = TakeSsl(s, value)
    <2>1. PICK type : type = Type.SSL
      OBVIOUS
    <2>2. type \notin {Type.ALPN, Type.AUTHORITY, Type.CRC32C, Type.UNIQUE_ID, Type.NETNS, Type.AWS, Type.AZURE}
      BY <2>1, TypeNumbers
    <2>3. TakeTlv(s, type, value) = TakeSsl(s, value)
      BY ONLY <2>1, <2>2 DEF TakeTlv
    <2> QED
      BY <2>1, <2>3
  <1>2. Len(v) < 65536 /\ Len(cn) < 65536
    <2>1. PICK n \in Nat, m \in Nat : Len(v) = n /\ Len(cn) = m
      OBVIOUS
    <2>2. Len(value) = 21 + 3 * n + m
      BY ONLY <1>13, <2>1, n \in Nat, m \in Nat, v \in Seq(Octet), cn \in Seq(Octet),
              value = SslValue(ssl, v, cn), SslParts
    <2> QED
      BY <2>1, <2>2
  <1>3. PICK a, b, c, d, e : /\ a = items[q + 1] /\ b = items[q + 2] /\ c = items[q + 3]
                             /\ d = items[q + 4] /\ e = items[q + 5]
    OBVIOUS
  <1>4. TlsItems(a, b, c, d, e, v, cn)
    BY ONLY <1>3, TlsItems(items[q + 1], items[q + 2], items[q + 3], items[q + 4], items[q + 5], v, cn)
  <1>5. PICK first : first = WithFlags(s.info, FlagsOf(value))
    OBVIOUS
  <1>6. Told(first, base, items, q) /\ first.ssl = FlagsOf(value)
    BY ONLY <1>5, <1>0, ToldSsl DEF WithFlags
  <1>12. PICK info : info = FiveAppended(first, a, b, c, d, e)
    OBVIOUS
  <1>7. GoodItem(a) /\ GoodItem(b) /\ GoodItem(c) /\ GoodItem(d) /\ GoodItem(e)
    BY ONLY <1>4, v \in Seq(Octet), cn \in Seq(Octet), TlsGood
  <1>8. Told(info, base, items, r) /\ info.ssl = first.ssl
    BY ONLY <1>3, <1>6, <1>7, <1>12, q \in Nat, r = q + 5, FiveTold
  <1>9. SameFlags(FlagsOf(value), ssl)
    BY ONLY <1>13, v \in Seq(Octet),
            cn \in Seq(Octet), value = SslValue(ssl, v, cn), FlagsBack
  <1>11. TakeSsl(s, value) = WithInfo(s, info)
    BY ONLY <1>2, <1>4, <1>5, <1>13, v \in Seq(Octet),
            cn \in Seq(Octet), value = SslValue(ssl, v, cn), Len(value) < 65536, <1>12, SslTaken
  <1>10. Flagged(info, ssl, items, r)
    BY ONLY <1>6, <1>8, <1>9 DEF Flagged
  <1> QED
    BY ONLY <1>1, <1>8, <1>10, <1>11 DEF Gives, Knows

(* The parser in the midst of the TLVs, and one round of it.               *)
Amid(info, buf, read, left) == [rc |-> 0, info |-> info, buf |-> buf, at |-> read + 1, left |-> left]

LEMMA AmidMoved ==
  ASSUME NEW info, NEW buf, NEW read \in Nat, NEW left \in Int, NEW n \in Nat
  PROVE  Onward(Amid(info, buf, read, left), n) = Amid(info, buf, read + 3 + n, left - 3 - n)
  <1>1. PICK to \in Nat, less \in Int : to = read + 3 + n /\ less = left - 3 - n
    OBVIOUS
  <1>2. (read + 1) + 3 + n = to + 1 /\ left - 3 - n = less
    BY <1>1
  <1>3. PICK s : s = Amid(info, buf, read, left)
    OBVIOUS
  <1>7. PICK more : more = to + 1
    OBVIOUS
  <1>4. s.at + 3 + n = more /\ s.left - 3 - n = less
    BY <1>2, <1>3, <1>7 DEF Amid
  <1>5. Onward(s, n) = [[s EXCEPT !.at = more] EXCEPT !.left = less]
    BY ONLY <1>3, <1>4 DEF Onward, Amid
  <1>8. PICK at : at = read + 1
    OBVIOUS
  <1>9. s = [rc |-> 0, info |-> info, buf |-> buf, at |-> at, left |-> left]
    BY <1>3, <1>8 DEF Amid
  <1>10. [s EXCEPT !.at = more] = [rc |-> 0, info |-> info, buf |-> buf, at |-> more, left |-> left]
    BY ONLY <1>9
  <1>11. PICK mid : mid = [rc |-> 0, info |-> info, buf |-> buf, at |-> more, left |-> left]
    OBVIOUS
  <1>12. [mid EXCEPT !.left = less] = [rc |-> 0, info |-> info, buf |-> buf, at |-> more, left |-> less]
    BY ONLY <1>11
  <1>13. Onward(s, n) = [rc |-> 0, info |-> info, buf |-> buf, at |-> more, left |-> less]
    BY ONLY <1>5, <1>10, <1>11, <1>12
  <1> QED
    BY ONLY <1>1, <1>3, <1>7, <1>13 DEF Amid

LEMMA AmidTold ==
  ASSUME NEW info, NEW buf, NEW read, NEW left, NEW more
  PROVE  WithInfo(Amid(info, buf, read, left), more) = Amid(more, buf, read, left)
  BY DEF WithInfo, Amid

LEMMA AmidRound ==
  ASSUME NEW info, NEW buf, NEW read, NEW left, NEW type, NEW value,
         TlvAhead(buf, read, left, type, value), NEW more, NEW rest,
         TakeTlv(Amid(info, buf, read, left), type, value) = Amid(more, rest, read, left)
  PROVE  NextTlv(Amid(info, buf, read, left)) = Amid(more, rest, read + 3 + Len(value), left - 3 - Len(value))
  <1>1. PICK s : s = Amid(info, buf, read, left)
    OBVIOUS
  <1>2. s.rc = 0 /\ s.buf = buf /\ s.at = read + 1 /\ s.left = left
    BY <1>1 DEF Amid
  <1>3. read \in Nat /\ left \in Int /\ value \in Seq(Octet)
    BY DEF TlvAhead
  <1>4. PICK n \in Nat : n = Len(value)
    BY <1>3
  <1>5. PICK taken : taken = TakeTlv(s, type, value)
    OBVIOUS
  <1>6. taken = Amid(more, rest, read, left)
    BY <1>1, <1>5
  <1>7. ~(taken.rc < 0)
    BY <1>6 DEF Amid
  <1>8. NextTlv(s) = Onward(taken, n)
    BY ONLY <1>2, <1>4, <1>5, <1>7, TlvAhead(buf, read, left, type, value), OneRound
  <1>9. Onward(taken, n) = Amid(more, rest, read + 3 + n, left - 3 - n)
    BY ONLY <1>3, n \in Nat, <1>6, AmidMoved
  <1> QED
    BY ONLY <1>1, <1>4, <1>8, <1>9

(* The TLVs of the sender, and what was given for each of them: the items  *)
(* from q[k - 1] + 1 to q[k] for the one at k.                             *)
Items == Octet \X Seq(Octet)

Packed(ssl, tlv, items, q, r) ==
  \E type \in Octet, value \in Seq(Octet) : tlv = Tlv(type, value) /\ Entry(ssl, type, value, items, q, r)

Recorded(ssl, tlvs, items, q) ==
  /\ q \in [0 .. Len(tlvs) -> 0 .. Len(items)] /\ q[0] = 0 /\ q[Len(tlvs)] = Len(items)
  /\ \A k \in 1 .. Len(tlvs) : Packed(ssl, tlvs[k], items, q[k - 1], q[k])

LEMMA PackedOn ==
  ASSUME NEW ssl, NEW tlv, NEW items \in Seq(Items), NEW what \in Seq(Items),
         NEW q \in Nat, NEW r \in Nat, r <= Len(items), Packed(ssl, tlv, items, q, r)
  PROVE  Packed(ssl, tlv, items \o what, q, r)
  <1>1. PICK more : more = items \o what
    OBVIOUS
  <1>2. \A i \in 1 .. r : more[i] = items[i]
    BY <1>1
  <1>3. PICK type \in Octet, value \in Seq(Octet) : tlv = Tlv(type, value) /\ Entry(ssl, type, value, items, q, r)
    BY DEF Packed
  <1>4. Entry(ssl, type, value, more, q, r)
    <2>1. CASE r = q + 1 /\ Spelt(type, value, items[r])
      <3>1. more[r] = items[r]
        BY <1>2, <2>1
      <3> QED
        BY <2>1, <3>1 DEF Entry
    <2>2. CASE /\ type = Type.SSL /\ r = q + 5
               /\ \E v \in Seq(Octet), cn \in Seq(Octet) :
                    /\ value = SslValue(ssl, v, cn)
                    /\ TlsItems(items[q + 1], items[q + 2], items[q + 3], items[q + 4], items[q + 5], v, cn)
      <3>1. PICK v \in Seq(Octet), cn \in Seq(Octet) :
               /\ value = SslValue(ssl, v, cn)
               /\ TlsItems(items[q + 1], items[q + 2], items[q + 3], items[q + 4], items[q + 5], v, cn)
        BY <2>2
      <3>2. /\ more[q + 1] = items[q + 1] /\ more[q + 2] = items[q + 2] /\ more[q + 3] = items[q + 3]
            /\ more[q + 4] = items[q + 4] /\ more[q + 5] = items[q + 5]
        BY <1>2, <2>2
      <3>3. TlsItems(more[q + 1], more[q + 2], more[q + 3], more[q + 4], more[q + 5], v, cn)
        BY ONLY <3>1, <3>2
      <3> QED
        BY ONLY <2>2, <3>1, <3>3, v \in Seq(Octet), cn \in Seq(Octet) DEF Entry
    <2> QED
      BY <1>3, <2>1, <2>2 DEF Entry
  <1> QED
    BY ONLY <1>1, <1>3, <1>4, type \in Octet, value \in Seq(Octet) DEF Packed

LEMMA RecordedMore ==
  ASSUME NEW ssl, NEW tlvs \in Seq(Seq(Octet)), NEW items \in Seq(Items), NEW what \in Seq(Items),
         NEW q, Recorded(ssl, tlvs, items, q), NEW more, more = items \o what,
         NEW tlv \in Seq(Octet), Packed(ssl, tlv, more, Len(items), Len(more))
  PROVE  \E p : Recorded(ssl, Append(tlvs, tlv), more, p)
  <1>1. PICK n \in Nat, m \in Nat, l \in Nat : n = Len(tlvs) /\ m = Len(items) /\ l = Len(more) /\ m <= l
    OBVIOUS
  <1>2. /\ q \in [0 .. n -> 0 .. m] /\ q[0] = 0 /\ q[n] = m
        /\ \A k \in 1 .. n : Packed(ssl, tlvs[k], items, q[k - 1], q[k])
    BY <1>1 DEF Recorded
  <1>3. PICK all : all = Append(tlvs, tlv)
    OBVIOUS
  <1>4. Len(all) = n + 1 /\ all[n + 1] = tlv /\ \A k \in 1 .. n : all[k] = tlvs[k]
    BY <1>1, <1>3
  <1>8. \A k \in 0 .. n : q[k] \in 0 .. m /\ q[k] \in 0 .. l /\ q[k] \in Nat
    <2> TAKE k \in 0 .. n
    <2>1. q[k] \in 0 .. m
      BY ONLY <1>2, k \in 0 .. n
    <2> QED
      BY <1>1, <2>1
  <1> DEFINE p == [k \in 0 .. n + 1 |-> IF k = n + 1 THEN l ELSE q[k]]
  <1>5. p \in [0 .. n + 1 -> 0 .. l] /\ p[0] = 0 /\ p[n + 1] = l /\ p[n] = m
        /\ \A k \in 0 .. n : p[k] = q[k]
    <2>1. ASSUME NEW k \in 0 .. n + 1 PROVE (IF k = n + 1 THEN l ELSE q[k]) \in 0 .. l
      <3>1. CASE k = n + 1
        BY <1>1, <3>1
      <3>2. CASE k # n + 1
        <4>1. k \in 0 .. n
          BY <1>1, <3>2
        <4> QED
          BY <1>8, <3>2, <4>1
      <3> QED
        BY <3>1, <3>2
    <2>2. \A k \in 0 .. n : k \in 0 .. n + 1 /\ k # n + 1
      BY <1>1
    <2>3. 0 \in 0 .. n /\ n \in 0 .. n /\ n + 1 \in 0 .. n + 1
      BY <1>1
    <2> QED
      BY ONLY <1>2, <2>1, <2>2, <2>3
  <1> HIDE DEF p
  <1>6. ASSUME NEW k \in 1 .. n + 1 PROVE Packed(ssl, all[k], more, p[k - 1], p[k])
    <2>1. CASE k = n + 1
      <3>1. p[k - 1] = m /\ p[k] = l /\ all[k] = tlv
        BY <1>4, <1>5, <2>1
      <3> QED
        BY <1>1, <3>1
    <2>2. CASE k # n + 1
      <3>1. k \in 1 .. n /\ k - 1 \in 0 .. n /\ k \in 0 .. n
        BY <2>2
      <3>2. p[k - 1] = q[k - 1] /\ p[k] = q[k] /\ all[k] = tlvs[k]
        BY <1>4, <1>5, <3>1
      <3>3. q[k - 1] \in Nat /\ q[k] \in Nat /\ q[k] <= Len(items)
        BY <1>1, <1>8, <3>1
      <3>4. Packed(ssl, tlvs[k], items, q[k - 1], q[k])
        BY <1>2, <3>1
      <3>5. Packed(ssl, tlvs[k], items \o what, q[k - 1], q[k])
        BY ONLY <3>3, <3>4, items \in Seq(Items), what \in Seq(Items), PackedOn
      <3> QED
        BY ONLY <3>2, <3>5, more = items \o what
    <2> QED
      BY <2>1, <2>2
  <1>7. Recorded(ssl, all, more, p)
    BY ONLY <1>1, <1>4, <1>5, <1>6 DEF Recorded
  <1> QED
    BY <1>3, <1>7

(* What the sender has given is what its TLVs are made of, unless an SSL   *)
(* TLV has no name in it.                                                  *)
Unnamed == \E i \in DOMAIN given : given[i] = <<Type.CN, <<>>>>

GivenInv ==
  /\ given \in Seq(Items)
  /\ ~Unnamed => \E q : Recorded(sinfo.ssl, sinfo.tlvs, given, q)

LEMMA GivenBegins == ExchangeInit => GivenInv
  <1> SUFFICES ASSUME ExchangeInit PROVE GivenInv
    OBVIOUS
  <1>1. given = <<>> /\ sinfo.tlvs = <<>>
    BY ExchangeAssumption DEF ExchangeInit
  <1>2. given \in Seq(Items) /\ Len(given) = 0 /\ Len(sinfo.tlvs) = 0
    BY <1>1
  <1>3. PICK q : q = [k \in 0 .. 0 |-> 0]
    OBVIOUS
  <1>4. q \in [0 .. 0 -> 0 .. 0] /\ q[0] = 0
    BY <1>3
  <1>5. Recorded(sinfo.ssl, sinfo.tlvs, given, q)
    <2>1. \A k \in 1 .. 0 : FALSE
      OBVIOUS
    <2> QED
      BY <1>2, <1>4, <2>1 DEF Recorded
  <1> QED
    BY <1>2, <1>5 DEF GivenInv

LEMMA AddedMore ==
  ASSUME ExchangeInv, GivenInv, NEW tlv \in Seq(Octet), NEW what \in Seq(Items),
         sinfo' = Appended(sinfo, tlv), given' = given \o what,
         ~Unnamed' => Packed(sinfo.ssl, tlv, given', Len(given), Len(given'))
  PROVE  GivenInv'
  <1>1. sinfo.tlvs \in Seq(Seq(Octet)) /\ DOMAIN sinfo = DOMAIN Cleared
    BY DEF ExchangeInv, Filling, FilledIn
  <1>2. sinfo'.tlvs = Append(sinfo.tlvs, tlv) /\ sinfo'.ssl = sinfo.ssl
    BY ONLY <1>1, sinfo' = Appended(sinfo, tlv), AppendedMembers
  <1>3. given \in Seq(Items) /\ given' \in Seq(Items)
    BY DEF GivenInv
  <1>4. ASSUME ~Unnamed' PROVE \E q : Recorded(sinfo'.ssl, sinfo'.tlvs, given', q)
    <2>1. ~Unnamed
      <3> SUFFICES ASSUME NEW i \in DOMAIN given PROVE given[i] # <<Type.CN, <<>>>>
        BY DEF Unnamed
      <3>1. i \in DOMAIN given' /\ given'[i] = given[i]
        BY <1>3
      <3> QED
        BY <1>4, <3>1 DEF Unnamed
    <2>2. PICK q : Recorded(sinfo.ssl, sinfo.tlvs, given, q)
      BY <2>1 DEF GivenInv
    <2>3. Packed(sinfo.ssl, tlv, given', Len(given), Len(given'))
      BY <1>4
    <2>4. \E p : Recorded(sinfo.ssl, Append(sinfo.tlvs, tlv), given', p)
      BY ONLY <1>1, <1>3, <2>2, <2>3, tlv \in Seq(Octet), what \in Seq(Items), given' = given \o what, RecordedMore
    <2> QED
      BY <1>2, <2>4
  <1> QED
    BY <1>3, <1>4 DEF GivenInv

LEMMA WrittenIs ==
  ASSUME NEW type, NEW value \in Seq(Octet), NEW item, Spelt(type, value, item)
  PROVE  item \in Items
  <1>1. item = <<item[1], item[2]>>
    BY DEF Spelt
  <1>2. item[1] \in Octet /\ item[2] \in Seq(Octet)
    <2>1. item[1] = type /\ type \in Octet /\ item[2] \in Seq(Octet)
      BY ONLY value \in Seq(Octet), Spelt(type, value, item), OneTaken
    <2> QED
      BY <2>1
  <1> QED
    BY ONLY <1>1, <1>2 DEF Items

LEMMA AddedOne ==
  ASSUME ExchangeInv, GivenInv, NEW type \in Octet, NEW value \in Seq(Octet), NEW item,
         Spelt(type, value, item), Add(AppendNew(sinfo, type, value), <<item>>)
  PROVE  GivenInv'
  <1>1. PICK tlv \in Seq(Octet) : tlv = Tlv(type, value)
    BY TlvIs
  <1>2. sinfo' = Appended(sinfo, tlv) /\ given' = given \o <<item>>
    BY <1>1 DEF Add, AppendNew
  <1>3. <<item>> \in Seq(Items) /\ given \in Seq(Items)
    <2>1. item \in Items
      BY WrittenIs
    <2> QED
      BY <2>1 DEF GivenInv
  <1>4. PICK n \in Nat : n = Len(given)
    BY <1>3
  <1>5. Len(given') = n + 1 /\ given'[n + 1] = item
    BY <1>2, <1>3, <1>4
  <1>6. PICK r : r = n + 1
    OBVIOUS
  <1>7. Entry(sinfo.ssl, type, value, given', n, r)
    BY ONLY <1>5, <1>6, Spelt(type, value, item) DEF Entry
  <1>8. Packed(sinfo.ssl, tlv, given', Len(given), Len(given'))
    BY ONLY <1>1, <1>4, <1>5, <1>6, <1>7, type \in Octet, value \in Seq(Octet) DEF Packed
  <1> QED
    BY ONLY ExchangeInv, GivenInv, <1>2, <1>3, <1>8, tlv \in Seq(Octet), AddedMore

LEMMA SameGiven ==
  ASSUME ExchangeInv, GivenInv, sinfo' = sinfo, given' = given \o <<>>
  PROVE  GivenInv'
  <1>1. given' = given
    <2>1. given \in Seq(Items)
      BY DEF GivenInv
    <2> QED
      BY <2>1
  <1> QED
    BY <1>1 DEF GivenInv, Unnamed

LEMMA AddedId ==
  ASSUME ExchangeInv, GivenInv, NEW v \in Seq(Octet), AddId(v)
  PROVE  GivenInv'
  <1>1. CASE Len(v) > 128
    <2>1. sinfo' = sinfo /\ given' = given \o <<>>
      BY <1>1 DEF AddId, Add, AddUniqueId
    <2> QED
      BY <2>1, SameGiven
  <1>2. CASE ~(Len(v) > 128)
    <2>1. Add(AppendNew(sinfo, Type.UNIQUE_ID, v), <<<<Type.UNIQUE_ID, v>>>>)
      BY <1>2 DEF AddId, AddUniqueId
    <2>2. PICK type, item : type = Type.UNIQUE_ID /\ item = <<type, v>>
      OBVIOUS
    <2>3. type \in Octet
      BY <2>2, TypeNumbers DEF Octet
    <2>4. Len(v) <= 128
      BY <1>2
    <2>5. Spelt(type, v, item)
      BY ONLY <2>2, <2>4 DEF Spelt
    <2>6. Add(AppendNew(sinfo, type, v), <<item>>)
      BY <2>1, <2>2
    <2> QED
      BY ONLY ExchangeInv, GivenInv, <2>3, <2>5, <2>6, v \in Seq(Octet), AddedOne
  <1> QED
    BY <1>1, <1>2

LEMMA TlsItemsAre ==
  ASSUME NEW v \in Seq(Octet), NEW cn \in Seq(Octet), NEW a, NEW b, NEW c, NEW d, NEW e,
         TlsItems(a, b, c, d, e, v, cn)
  PROVE  <<a, b, c, d, e>> \in Seq(Items)
  <1>1. Append(v, 0) \in Seq(Octet) /\ <<7, 0>> \in Seq(Octet)
    <2>1. 0 \in Octet /\ 7 \in Octet
      BY DEF Octet
    <2> QED
      BY <2>1
  <1>2. /\ Type.VERSION \in Octet /\ Type.CIPHER \in Octet /\ Type.SIG_ALG \in Octet
        /\ Type.KEY_ALG \in Octet /\ Type.CN \in Octet
    BY TypeNumbers DEF Octet
  <1>3. a \in Items /\ b \in Items /\ c \in Items /\ d \in Items /\ e \in Items
    BY <1>1, <1>2 DEF TlsItems, Items
  <1> QED
    BY ONLY <1>3

LEMMA AddedTls ==
  ASSUME ExchangeInv, GivenInv, NEW v \in Seq(Octet), v # <<>>, NEW cn \in Seq(Octet), NEW f,
         NEW a, NEW b, NEW c, NEW d, NEW e, TlsItems(a, b, c, d, e, v, cn),
         Add(AddSsl(sinfo, v, v, << 7 >>, v, cn, f), <<a, b, c, d, e>>)
  PROVE  GivenInv'
  <1>1. PICK what \in Seq(Items) : what = <<a, b, c, d, e>>
    BY TlsItemsAre
  <1>2. given \in Seq(Items) /\ given' = given \o what
    BY <1>1 DEF GivenInv, Add
  <1>3. PICK n \in Nat : n = Len(given)
    BY <1>2
  <1>4. /\ given' \in Seq(Items) /\ Len(given') = n + 5
        /\ \A i \in 1 .. 5 : given'[n + i] = what[i]
    <2>1. Len(what) = 5
      BY <1>1
    <2>2. PICK old \in Seq(Items) : old = given
      BY <1>2
    <2>3. /\ old \o what \in Seq(Items) /\ Len(old \o what) = n + 5
          /\ \A i \in 1 .. 5 : (old \o what)[n + i] = what[i]
      <3>1. Len(old) = n
        BY <1>3, <2>2
      <3>2. /\ old \o what \in Seq(Items) /\ Len(old \o what) = Len(old) + Len(what)
            /\ \A i \in 1 .. Len(what) : (old \o what)[Len(old) + i] = what[i]
        BY ONLY old \in Seq(Items), what \in Seq(Items)
      <3> QED
        BY ONLY <2>1, <3>1, <3>2
    <2> QED
      BY ONLY <1>2, <2>2, <2>3
  <1>5. /\ given'[n + 1] = a /\ given'[n + 2] = b /\ given'[n + 3] = c
        /\ given'[n + 4] = d /\ given'[n + 5] = e
    BY <1>1, <1>4
  <1>6. CASE cn = <<>>
    <2>1. given'[n + 5] = <<Type.CN, <<>>>>
      BY <1>5, <1>6 DEF TlsItems
    <2>2. n + 5 \in DOMAIN given'
      BY <1>4
    <2> QED
      BY <1>4, <2>1, <2>2 DEF GivenInv, Unnamed
  <1>7. CASE cn # <<>>
    <2>1. {sinfo.ssl.ssl, sinfo.ssl.conn, sinfo.ssl.verified} \subseteq {0, 1}
      BY DEF ExchangeInv, Filling, FilledIn
    <2>2. PICK value \in Seq(Octet) : value = SslValue(sinfo.ssl, v, cn)
      BY <2>1, SslParts
    <2>3. PICK type \in Octet : type = Type.SSL
      BY TypeNumbers DEF Octet
    <2>4. PICK tlv \in Seq(Octet) : tlv = Tlv(type, value)
      BY TlvIs
    <2>5. AddSsl(sinfo, v, v, <<7>>, v, cn, f) = AppendNew(sinfo, Type.SSL, SslValue(sinfo.ssl, v, cn))
      BY ONLY <1>7, <2>1, v \in Seq(Octet), v # <<>>, cn \in Seq(Octet), SslIs
    <2>6. sinfo' = AddSsl(sinfo, v, v, <<7>>, v, cn, f)
      BY DEF Add
    <2>7. sinfo' = Appended(sinfo, tlv)
      BY ONLY <2>2, <2>3, <2>4, <2>5, <2>6 DEF AppendNew
    <2>8. PICK r : r = n + 5
      OBVIOUS
    <2>9. TlsItems(given'[n + 1], given'[n + 2], given'[n + 3], given'[n + 4], given'[n + 5], v, cn)
      BY ONLY <1>5, TlsItems(a, b, c, d, e, v, cn)
    <2>10. Entry(sinfo.ssl, type, value, given', n, r)
      BY ONLY <2>2, <2>3, <2>8, <2>9, v \in Seq(Octet), cn \in Seq(Octet) DEF Entry
    <2>11. Packed(sinfo.ssl, tlv, given', Len(given), Len(given'))
      BY ONLY <1>3, <1>4, <2>4, <2>8, <2>10, type \in Octet, value \in Seq(Octet) DEF Packed
    <2> QED
      BY ONLY ExchangeInv, GivenInv, <1>2, <2>7, <2>11, tlv \in Seq(Octet), what \in Seq(Items), AddedMore
  <1> QED
    BY <1>6, <1>7

LEMMA AddedBytes ==
  ASSUME ExchangeInv, GivenInv, AddBytes \/ AddLongId
  PROVE  GivenInv'
  <1>1. CASE AddBytes
    <2>1. PICK v \in Texts : \/ Add(AddAlpn(sinfo, v), <<<<Type.ALPN, v>>>>)
                             \/ Add(AddAuthority(sinfo, v), <<<<Type.AUTHORITY, v>>>>)
                             \/ AddId(v)
      BY <1>1 DEF AddBytes
    <2>2. v \in Seq(Octet)
      BY TextsAre
    <2>3. ASSUME NEW type, type \in {Type.ALPN, Type.AUTHORITY}, Add(AppendNew(sinfo, type, v), <<<<type, v>>>>)
          PROVE  GivenInv'
      <3>1. PICK item : item = <<type, v>>
        OBVIOUS
      <3>2. type \in Octet
        BY <2>3, TypeNumbers DEF Octet
      <3>3. Spelt(type, v, item)
        BY ONLY <2>3, <3>1 DEF Spelt
      <3>4. Add(AppendNew(sinfo, type, v), <<item>>)
        BY ONLY <2>3, <3>1
      <3> QED
        BY ONLY ExchangeInv, GivenInv, <2>2, <3>2, <3>3, <3>4, AddedOne
    <2>4. Add(AddAlpn(sinfo, v), <<<<Type.ALPN, v>>>>) => GivenInv'
      BY <2>3 DEF AddAlpn
    <2>5. Add(AddAuthority(sinfo, v), <<<<Type.AUTHORITY, v>>>>) => GivenInv'
      BY <2>3 DEF AddAuthority
    <2>6. AddId(v) => GivenInv'
      BY ONLY ExchangeInv, GivenInv, <2>2, AddedId
    <2> QED
      BY ONLY <2>1, <2>4, <2>5, <2>6
  <1>2. CASE AddLongId
    <2>1. PICK n \in {128, 129} : AddId([i \in 1 .. n |-> 1])
      BY <1>2, Zenon DEF AddLongId
    <2>2. PICK v : v = [i \in 1 .. n |-> 1]
      OBVIOUS
    <2>3. v \in Seq(Octet)
      <3>1. 1 \in Octet /\ n \in Nat
        BY DEF Octet
      <3> QED
        BY <2>2, <3>1
    <2>4. AddId(v)
      BY ONLY <2>1, <2>2
    <2> QED
      BY ONLY ExchangeInv, GivenInv, <2>3, <2>4, AddedId
  <1> QED
    BY <1>1, <1>2

LEMMA AddedNames ==
  ASSUME ExchangeInv, GivenInv, AddNames
  PROVE  GivenInv'
  <1>1. PICK v \in Texts \ {<<>>} :
          \/ Add(AddNetns(sinfo, v), <<<<Type.NETNS, Append(v, 0)>>>>)
          \/ Add(AddVpceId(sinfo, v), <<<<Type.AWS, Append(v, 0)>>>>)
          \/ Add(AddLinkid(sinfo, <<1, 0, 0, 0>>), <<<<Type.AZURE, <<1, 0, 0, 0>>>>>>)
    BY DEF AddNames
  <1>2. v \in Seq(Octet) /\ <<1>> \o v \in Seq(Octet) /\ v # <<>>
    BY TextsAre
  <1>3. <<1>> \o <<1, 0, 0, 0>> \in Seq(Octet)
    <2>1. 1 \in Octet /\ 0 \in Octet
      BY DEF Octet
    <2>2. <<1>> \in Seq(Octet) /\ <<1, 0, 0, 0>> \in Seq(Octet)
      BY <2>1
    <2> QED
      BY <2>2
  <1>4. ASSUME NEW type, NEW value \in Seq(Octet), NEW item, Spelt(type, value, item),
               Add(AppendNew(sinfo, type, value), <<item>>)
        PROVE  GivenInv'
    <2>1. type \in Octet
      BY ONLY value \in Seq(Octet), Spelt(type, value, item), <1>4, OneTaken
    <2> QED
      BY ONLY ExchangeInv, GivenInv, <1>4, <2>1, value \in Seq(Octet), AddedOne
  <1>5. CASE Add(AddNetns(sinfo, v), <<<<Type.NETNS, Append(v, 0)>>>>)
    <2>1. PICK item : item = <<Type.NETNS, Append(v, 0)>>
      OBVIOUS
    <2>2. Spelt(Type.NETNS, v, item)
      BY ONLY <1>2, <2>1 DEF Spelt
    <2>3. Add(AppendNew(sinfo, Type.NETNS, v), <<item>>)
      BY ONLY <1>5, <2>1 DEF AddNetns
    <2> QED
      BY ONLY <1>2, <1>4, <2>2, <2>3
  <1>6. CASE Add(AddVpceId(sinfo, v), <<<<Type.AWS, Append(v, 0)>>>>)
    <2>1. PICK item : item = <<Type.AWS, Append(v, 0)>>
      OBVIOUS
    <2>4. PICK value : value = <<1>> \o v
      OBVIOUS
    <2>2. Spelt(Type.AWS, value, item)
      BY ONLY <1>2, <2>1, <2>4 DEF Spelt
    <2>3. Add(AppendNew(sinfo, Type.AWS, value), <<item>>)
      BY ONLY <1>6, <2>1, <2>4 DEF AddVpceId
    <2> QED
      BY ONLY <1>2, <1>4, <2>2, <2>3, <2>4
  <1>7. CASE Add(AddLinkid(sinfo, <<1, 0, 0, 0>>), <<<<Type.AZURE, <<1, 0, 0, 0>>>>>>)
    <2>1. PICK item : item = <<Type.AZURE, <<1, 0, 0, 0>>>>
      OBVIOUS
    <2>4. PICK value : value = <<1>> \o <<1, 0, 0, 0>>
      OBVIOUS
    <2>2. Spelt(Type.AZURE, value, item)
      BY ONLY <2>1, <2>4 DEF Spelt
    <2>3. Add(AppendNew(sinfo, Type.AZURE, value), <<item>>)
      BY ONLY <1>7, <2>1, <2>4 DEF AddLinkid
    <2> QED
      BY ONLY <1>3, <1>4, <2>2, <2>3, <2>4
  <1> QED
    BY <1>1, <1>5, <1>6, <1>7

LEMMA AddedSsl ==
  ASSUME ExchangeInv, GivenInv, AddTls
  PROVE  GivenInv'
  <1>1. PICK v \in Texts \ {<<>>}, cn \in Texts, f \in Found :
          Add(AddSsl(sinfo, v, v, <<7>>, v, cn, f),
              <<<<Type.VERSION, Append(v, 0)>>, <<Type.CIPHER, Append(v, 0)>>,
                <<Type.SIG_ALG, <<7, 0>>>>, <<Type.KEY_ALG, Append(v, 0)>>, <<Type.CN, cn>>>>)
    BY DEF AddTls
  <1>2. v \in Seq(Octet) /\ v # <<>> /\ cn \in Seq(Octet)
    BY TextsAre
  <1>3. PICK a, b, c, d, e : TlsItems(a, b, c, d, e, v, cn)
    BY DEF TlsItems
  <1>4. Add(AddSsl(sinfo, v, v, <<7>>, v, cn, f), <<a, b, c, d, e>>)
    BY ONLY <1>1, <1>3 DEF TlsItems
  <1> QED
    BY ONLY ExchangeInv, GivenInv, <1>2, <1>3, <1>4, AddedTls

LEMMA GivenStep == ExchangeInv /\ GivenInv /\ [ExchangeNext]_exchangeVars => GivenInv'
  <1> SUFFICES ASSUME ExchangeInv, GivenInv, [ExchangeNext]_exchangeVars PROVE GivenInv'
    OBVIOUS
  <1>1. CASE AddBytes \/ AddLongId
    BY <1>1, AddedBytes
  <1>2. CASE AddNames
    BY <1>2, AddedNames
  <1>3. CASE AddTls
    BY <1>3, AddedSsl
  <1>4. CASE UNCHANGED <<sinfo, given>>
    BY <1>4 DEF GivenInv, Unnamed
  <1>5. Create \/ Corrupt \/ Deliver \/ ParseArrived \/ ClearAndRetry \/ UNCHANGED exchangeVars
          => UNCHANGED <<sinfo, given>>
    BY DEF Create, Corrupt, Deliver, ParseArrived, ClearAndRetry, exchangeVars
  <1> QED
    BY <1>1, <1>2, <1>3, <1>4, <1>5 DEF ExchangeNext

LEMMA GivenInvariance == ExchangeSpec => []GivenInv
  <1> QED
    BY ExchangeInvariance, GivenBegins, GivenStep, PTL DEF ExchangeSpec

(* What is ahead of the parser, whatever its type.                         *)
TlvThere(buf, read, left, tlv) ==
  /\ buf \in Seq(Octet) /\ tlv \in Seq(Octet) /\ read \in Nat /\ left \in Nat /\ left < 65536
  /\ left > 3 /\ Len(tlv) <= left /\ Holds(buf, read, tlv)

LEMMA EntryTaken ==
  ASSUME NEW s, NEW base, NEW items, NEW ssl, Bits01(ssl), NEW q \in Nat, NEW r,
         NEW type, NEW value \in Seq(Octet), Len(value) < 65536,
         Knows(s.info, base, ssl, items, q), Entry(ssl, type, value, items, q, r)
  PROVE  Gives(TakeTlv(s, type, value), s, base, ssl, items, r)
  <1>1. CASE r = q + 1 /\ Spelt(type, value, items[r])
    BY ONLY <1>1, q \in Nat, value \in Seq(Octet), Knows(s.info, base, ssl, items, q), OneEntry
  <1>2. CASE /\ type = Type.SSL /\ r = q + 5
             /\ \E v \in Seq(Octet), cn \in Seq(Octet) :
                  /\ value = SslValue(ssl, v, cn)
                  /\ TlsItems(items[q + 1], items[q + 2], items[q + 3], items[q + 4], items[q + 5], v, cn)
    <2>1. PICK v \in Seq(Octet), cn \in Seq(Octet) :
             /\ value = SslValue(ssl, v, cn)
             /\ TlsItems(items[q + 1], items[q + 2], items[q + 3], items[q + 4], items[q + 5], v, cn)
      BY <1>2
    <2>2. r = q + 5
      BY <1>2
    <2>3. Gives(TakeTlv(s, Type.SSL, value), s, base, ssl, items, r)
      BY ONLY <2>1, <2>2, Bits01(ssl), q \in Nat, value \in Seq(Octet), Len(value) < 65536,
              v \in Seq(Octet), cn \in Seq(Octet), Knows(s.info, base, ssl, items, q), TlsEntry
    <2> QED
      BY ONLY <1>2, <2>3
  <1> QED
    BY <1>1, <1>2 DEF Entry

LEMMA RunStep ==
  ASSUME NEW info, NEW base, NEW ssl, Bits01(ssl), NEW items, NEW q \in Nat, NEW r, NEW tlv,
         Packed(ssl, tlv, items, q, r), Knows(info, base, ssl, items, q),
         NEW buf, NEW read, NEW left, TlvThere(buf, read, left, tlv),
         NEW n, n = Len(tlv)
  PROVE  \E more : /\ NextTlv(Amid(info, buf, read, left)) = Amid(more, buf, read + n, left - n)
                   /\ Knows(more, base, ssl, items, r)
  <1>1. PICK type \in Octet, value \in Seq(Octet) : tlv = Tlv(type, value) /\ Entry(ssl, type, value, items, q, r)
    BY DEF Packed
  <1>2. PICK m \in Nat : m = Len(value)
    OBVIOUS
  <1>3. n = 3 + m
    BY <1>1, <1>2, TlvIs
  <1>4. /\ buf \in Seq(Octet) /\ read \in Nat /\ left \in Nat /\ left < 65536 /\ left > 3
        /\ n <= left /\ Holds(buf, read, Tlv(type, value))
    BY <1>1 DEF TlvThere
  <1>5. Len(value) < 65536 /\ 3 + Len(value) < 65536 /\ 3 + Len(value) <= left /\ left \in Int
    BY <1>2, <1>3, <1>4
  <1>6. TlvAhead(buf, read, left, type, value)
    BY ONLY <1>4, <1>5, type \in Octet, value \in Seq(Octet) DEF TlvAhead
  <1>7. PICK s : s = Amid(info, buf, read, left)
    OBVIOUS
  <1>8. Knows(s.info, base, ssl, items, q)
    <2>1. s.info = info
      BY <1>7 DEF Amid
    <2> QED
      BY <2>1
  <1>9. PICK more : TakeTlv(s, type, value) = WithInfo(s, more) /\ Knows(more, base, ssl, items, r)
    <2>1. Gives(TakeTlv(s, type, value), s, base, ssl, items, r)
      BY ONLY Bits01(ssl), q \in Nat, value \in Seq(Octet), <1>1, <1>5, <1>8, EntryTaken
    <2> QED
      BY ONLY <2>1 DEF Gives
  <1>10. TakeTlv(Amid(info, buf, read, left), type, value) = Amid(more, buf, read, left)
    BY ONLY <1>7, <1>9, AmidTold
  <1>11. NextTlv(Amid(info, buf, read, left)) = Amid(more, buf, read + 3 + Len(value), left - 3 - Len(value))
    BY ONLY <1>6, <1>10, AmidRound
  <1>12. read + 3 + Len(value) = read + n /\ left - 3 - Len(value) = left - n
    BY <1>2, <1>3, <1>4
  <1> QED
    BY ONLY <1>9, <1>11, <1>12

(* The parser in the midst of the TLVs with the first q items told, and    *)
(* all of the TLVs ahead of it at the beginning.                           *)
Reached(s, base, ssl, items, q, buf, read, left) ==
  \E info : s = Amid(info, buf, read, left) /\ Knows(info, base, ssl, items, q)

AllThere(buf, at, left, p, tlvs) ==
  \A k \in 1 .. Len(tlvs) : TlvThere(buf, at + p[k - 1], left - p[k - 1], tlvs[k])

LEMMA RunOn ==
  ASSUME NEW s, NEW base, NEW ssl, Bits01(ssl), NEW items, NEW q \in Nat, NEW r, NEW tlv,
         Packed(ssl, tlv, items, q, r), NEW buf, NEW read, NEW left,
         Reached(s, base, ssl, items, q, buf, read, left), TlvThere(buf, read, left, tlv),
         NEW n, n = Len(tlv)
  PROVE  Reached(NextTlv(s), base, ssl, items, r, buf, read + n, left - n)
  <1>1. PICK info : s = Amid(info, buf, read, left) /\ Knows(info, base, ssl, items, q)
    BY DEF Reached
  <1>2. PICK more : /\ NextTlv(Amid(info, buf, read, left)) = Amid(more, buf, read + n, left - n)
                    /\ Knows(more, base, ssl, items, r)
    BY ONLY <1>1, Bits01(ssl), q \in Nat, Packed(ssl, tlv, items, q, r), TlvThere(buf, read, left, tlv),
            n = Len(tlv), RunStep
  <1> QED
    BY ONLY <1>1, <1>2 DEF Reached

Started(base) == DOMAIN base = DOMAIN Cleared /\ base.tlvs = <<>>

LEMMA RunBegins ==
  ASSUME NEW base, Started(base), NEW ssl, NEW items, NEW buf, NEW read, NEW left
  PROVE  Reached(Amid(base, buf, read, left), base, ssl, items, 0, buf, read, left)
  <1>1. \A j \in 1 .. 0 : FALSE
    OBVIOUS
  <1>2. base.tlvs \in Seq(Seq(Octet)) /\ Len(base.tlvs) = 0
    BY DEF Started
  <1>3. Told(base, base, items, 0)
    BY <1>1, <1>2 DEF Told, Started
  <1>4. Flagged(base, ssl, items, 0)
    BY <1>1 DEF Flagged
  <1> QED
    BY ONLY <1>3, <1>4 DEF Reached, Knows

LEMMA Run ==
  ASSUME NEW base, Started(base), NEW ssl, Bits01(ssl), NEW items, NEW n \in Nat, NEW tlvs, Len(tlvs) = n,
         NEW q, Recorded(ssl, tlvs, items, q), NEW p, Places(p, tlvs),
         NEW buf, NEW at \in Nat, NEW left \in Nat, AllThere(buf, at, left, p, tlvs),
         NEW f, f[0] = Amid(base, buf, at, left), \A k \in 1 .. n : f[k] = NextTlv(f[k - 1])
  PROVE  Reached(f[n], base, ssl, items, q[n], buf, at + p[n], left - p[n])
  <1>1. /\ q[0] = 0 /\ \A k \in 0 .. n : q[k] \in Nat
        /\ \A k \in 1 .. n : Packed(ssl, tlvs[k], items, q[k - 1], q[k])
    <2>1. q \in [0 .. n -> 0 .. Len(items)]
      BY DEF Recorded
    <2>2. \A k \in 0 .. n : q[k] \in 0 .. Len(items)
      BY ONLY <2>1
    <2> QED
      BY <2>2 DEF Recorded
  <1>2. /\ p[0] = 0 /\ \A k \in 0 .. n : p[k] \in Nat
        /\ \A k \in 1 .. n : p[k] = p[k - 1] + Len(tlvs[k])
    BY DEF Places
  <1>3. \A k \in 1 .. n : Len(tlvs[k]) \in Nat
    <2> TAKE k \in 1 .. n
    <2>1. tlvs[k] \in Seq(Octet)
      BY DEF AllThere, TlvThere
    <2> QED
      BY <2>1
  <1> DEFINE S == {k \in Nat : k <= n => Reached(f[k], base, ssl, items, q[k], buf, at + p[k], left - p[k])}
  <1>4. 0 \in S
    <2>1. Reached(Amid(base, buf, at, left), base, ssl, items, 0, buf, at, left)
      BY ONLY Started(base), RunBegins
    <2>2. at + p[0] = at /\ left - p[0] = left
      BY <1>2
    <2>3. Reached(f[0], base, ssl, items, q[0], buf, at + p[0], left - p[0])
      BY ONLY <1>1, <2>1, <2>2, f[0] = Amid(base, buf, at, left)
    <2> QED
      BY <2>3
  <1>5. \A k \in S : k + 1 \in S
    <2> SUFFICES ASSUME NEW k \in S, k + 1 <= n
                 PROVE  Reached(f[k + 1], base, ssl, items, q[k + 1], buf, at + p[k + 1], left - p[k + 1])
      OBVIOUS
    <2>1. k \in Nat /\ Reached(f[k], base, ssl, items, q[k], buf, at + p[k], left - p[k])
      OBVIOUS
    <2>2. PICK j \in 1 .. n : j = k + 1 /\ j - 1 = k
      BY <2>1
    <2>3. q[k] \in Nat /\ p[k] \in Nat
      BY <1>1, <1>2, <2>1
    <2>4. Packed(ssl, tlvs[j], items, q[k], q[j])
      BY <1>1, <2>2
    <2>5. TlvThere(buf, at + p[k], left - p[k], tlvs[j])
      BY ONLY <2>2, j \in 1 .. n, Len(tlvs) = n, AllThere(buf, at, left, p, tlvs) DEF AllThere
    <2>6. PICK l \in Nat : l = Len(tlvs[j])
      BY <1>3
    <2>7. Reached(NextTlv(f[k]), base, ssl, items, q[j], buf, at + p[k] + l, left - p[k] - l)
      BY ONLY Bits01(ssl), <2>1, <2>3, <2>4, <2>5, <2>6, RunOn
    <2>8. at + p[k] + l = at + p[j] /\ left - p[k] - l = left - p[j]
      <3>1. p[j] = p[k] + l
        BY <1>2, <2>2, <2>6
      <3> QED
        BY <2>3, <3>1
    <2>9. f[j] = NextTlv(f[k])
      BY <2>2
    <2> QED
      BY ONLY <2>2, <2>7, <2>8, <2>9
  <1> HIDE DEF S
  <1>6. S = Nat
    <2>1. S \in SUBSET Nat
      BY DEF S
    <2> QED
      BY ONLY <1>4, <1>5, <2>1, Induction
  <1> QED
    BY <1>6 DEF S

(* The rounds behind the end of the loop.                                  *)
LEMMA Stutters ==
  ASSUME NEW rounds \in Nat, NEW m \in Nat, m <= rounds,
         NEW f, \A k \in 1 .. rounds : f[k] = NextTlv(f[k - 1]), f[m].left <= 3
  PROVE  f[rounds] = f[m]
  <1>1. NextTlv(f[m]) = f[m]
    <2>1. PICK s : s = f[m] /\ s.left <= 3
      OBVIOUS
    <2>2. NextTlv(s) = s
      <3>1. s.left <= 3
        BY ONLY <2>1
      <3> QED
        BY ONLY <3>1 DEF NextTlv
    <2> QED
      BY ONLY <2>1, <2>2
  <1> DEFINE S == {k \in Nat : m + k <= rounds => f[m + k] = f[m]}
  <1>2. 0 \in S
    OBVIOUS
  <1>3. \A k \in S : k + 1 \in S
    <2> SUFFICES ASSUME NEW k \in S, m + (k + 1) <= rounds PROVE f[m + (k + 1)] = f[m]
      OBVIOUS
    <2>1. k \in Nat /\ f[m + k] = f[m]
      OBVIOUS
    <2>2. m + (k + 1) \in 1 .. rounds /\ (m + (k + 1)) - 1 = m + k
      BY <2>1
    <2>3. f[m + (k + 1)] = NextTlv(f[m + k])
      BY <2>2
    <2> QED
      BY <1>1, <2>1, <2>3
  <1> HIDE DEF S
  <1>4. S = Nat
    <2>1. S \in SUBSET Nat
      BY DEF S
    <2> QED
      BY ONLY <1>2, <1>3, <2>1, Induction
  <1>5. rounds - m \in S /\ m + (rounds - m) = rounds
    BY <1>4
  <1> QED
    BY <1>5 DEF S

(* The TLV that fills the gap is passed over.                              *)
LEMMA NoopRound ==
  ASSUME NEW s, NEW base, NEW ssl, NEW items, NEW q, NEW buf, NEW read, NEW left,
         Reached(s, base, ssl, items, q, buf, read, left),
         NEW value, TlvAhead(buf, read, left, Type.NOOP, value)
  PROVE  Reached(NextTlv(s), base, ssl, items, q, buf, read + 3 + Len(value), left - 3 - Len(value))
  <1>1. PICK info : s = Amid(info, buf, read, left) /\ Knows(info, base, ssl, items, q)
    BY DEF Reached
  <1>2. PICK type : type = Type.NOOP
    OBVIOUS
  <1>3. type \notin {Type.ALPN, Type.AUTHORITY, Type.CRC32C, Type.UNIQUE_ID, Type.SSL, Type.NETNS, Type.AWS, Type.AZURE}
    BY <1>2, TypeNumbers
  <1>4. TakeTlv(s, type, value) = s
    BY ONLY <1>3 DEF TakeTlv
  <1>5. TakeTlv(Amid(info, buf, read, left), Type.NOOP, value) = Amid(info, buf, read, left)
    BY ONLY <1>1, <1>2, <1>4
  <1>6. NextTlv(Amid(info, buf, read, left)) = Amid(info, buf, read + 3 + Len(value), left - 3 - Len(value))
    BY ONLY <1>5, TlvAhead(buf, read, left, Type.NOOP, value), AmidRound
  <1> QED
    BY ONLY <1>1, <1>6 DEF Reached

(* The receiver's pp_info_t at the end: the items, and behind them the     *)
(* checksum if there is one.                                               *)
Final(info, base, ssl, items, q, crc) ==
  /\ info.family = base.family /\ info.transport = base.transport
  /\ info.src = base.src /\ info.dst = base.dst /\ info.sport = base.sport /\ info.dport = base.dport
  /\ info.tlvs \in Seq(Seq(Octet)) /\ Len(info.tlvs) = q + crc
  /\ \A j \in 1 .. q : info.tlvs[j] = Stored(items[j]) /\ GoodItem(items[j])
  /\ crc = 1 => \E v \in Seq(Octet) : info.tlvs[q + 1] = Tlv(Type.CRC32C, v)
  /\ Flagged(info, ssl, items, q)

LEMMA FinalPlain ==
  ASSUME NEW info, NEW base, NEW ssl, NEW items, NEW q \in Nat, Knows(info, base, ssl, items, q)
  PROVE  Final(info, base, ssl, items, q, 0)
  <1>1. q + 0 = q
    OBVIOUS
  <1> QED
    BY <1>1 DEF Final, Knows, Told

WithSum(info, value) == [AppendNew(info, Type.CRC32C, value) EXCEPT !.crc32c = 1]

LEMMA FinalSum ==
  ASSUME NEW info, NEW base, NEW ssl, NEW items, NEW q \in Nat, Knows(info, base, ssl, items, q),
         NEW value \in Seq(Octet)
  PROVE  Final(WithSum(info, value), base, ssl, items, q, 1)
  <1>1. PICK tlv \in Seq(Octet) : tlv = Tlv(Type.CRC32C, value)
    <2>1. Type.CRC32C \in Octet
      BY TypeNumbers DEF Octet
    <2> QED
      BY <2>1, TlvIs
  <1>2. PICK old \in Seq(Seq(Octet)) :
           old = info.tlvs /\ Len(old) = q /\ \A j \in 1 .. q : old[j] = Stored(items[j]) /\ GoodItem(items[j])
    BY DEF Knows, Told
  <1>3. PICK more : more = Appended(info, tlv)
    OBVIOUS
  <1>4. /\ DOMAIN more = DOMAIN Cleared
        /\ more.family = info.family /\ more.transport = info.transport
        /\ more.src = info.src /\ more.dst = info.dst /\ more.sport = info.sport /\ more.dport = info.dport
        /\ more.tlvs = Append(old, tlv) /\ more.ssl = info.ssl
    <2>1. DOMAIN info = DOMAIN Cleared
      BY DEF Knows, Told
    <2> QED
      BY ONLY <1>2, <1>3, <2>1, AppendedMembers
  <1>5. PICK last : last = WithSum(info, value)
    OBVIOUS
  <1>6. last = [more EXCEPT !.crc32c = 1]
    BY ONLY <1>1, <1>3, <1>5 DEF WithSum, AppendNew
  <1>7. /\ last.family = more.family /\ last.transport = more.transport
        /\ last.src = more.src /\ last.dst = more.dst /\ last.sport = more.sport /\ last.dport = more.dport
        /\ last.tlvs = more.tlvs /\ last.ssl = more.ssl
    BY ONLY <1>4, <1>6, InfoMembers
  <1>8. PICK new \in Seq(Seq(Octet)) :
          /\ new = Append(old, tlv) /\ Len(new) = q + 1 /\ new[q + 1] = tlv
          /\ \A j \in 1 .. q : new[j] = old[j]
    <2>1. /\ Append(old, tlv) \in Seq(Seq(Octet)) /\ Len(Append(old, tlv)) = q + 1
          /\ Append(old, tlv)[q + 1] = tlv
          /\ \A j \in 1 .. q : Append(old, tlv)[j] = old[j]
      BY ONLY q \in Nat, tlv \in Seq(Octet), old \in Seq(Seq(Octet)), <1>2
    <2> QED
      BY ONLY <2>1
  <1>9. last.tlvs = new
    BY <1>4, <1>7, <1>8
  <1>10. Flagged(last, ssl, items, q)
    BY <1>4, <1>7 DEF Flagged, Knows
  <1>11. /\ last.family = base.family /\ last.transport = base.transport
         /\ last.src = base.src /\ last.dst = base.dst /\ last.sport = base.sport /\ last.dport = base.dport
    BY <1>4, <1>7 DEF Knows, Told
  <1>12. /\ last.tlvs \in Seq(Seq(Octet)) /\ Len(last.tlvs) = q + 1
         /\ \A j \in 1 .. q : last.tlvs[j] = Stored(items[j]) /\ GoodItem(items[j])
         /\ \E v \in Seq(Octet) : last.tlvs[q + 1] = Tlv(Type.CRC32C, v)
    BY <1>1, <1>2, <1>8, <1>9
  <1> QED
    BY ONLY <1>5, <1>10, <1>11, <1>12 DEF Final

(* The checksum is the last TLV, and taken of the header with its own      *)
(* bytes zero.                                                             *)
SumAhead(buf, read) ==
  /\ buf \in Seq(Octet) /\ read \in Nat /\ read >= 16 /\ Len(buf) = read + 7 /\ Len(buf) < 65536
  /\ 16 + 256 * buf[15] + buf[16] = Len(buf)
  /\ Holds(buf, read, Tlv(Type.CRC32C, Crc32c(Blanked(buf, read + 4, 4))))

Done(s, base, ssl, items, q, crc) ==
  s.rc = 0 /\ s.left <= 3 /\ Final(s.info, base, ssl, items, q, crc)

LEMMA SumTaken ==
  ASSUME NEW info, NEW buf, NEW read, SumAhead(buf, read), NEW blank, blank = Blanked(buf, read + 4, 4),
         NEW value, value = Crc32c(blank)
  PROVE  TakeTlv(Amid(info, buf, read, 7), Type.CRC32C, value) = Amid(WithSum(info, value), blank, read, 7)
  <1>1. PICK at : at = read + 1
    OBVIOUS
  <1>2. PICK s : s = [rc |-> 0, info |-> info, buf |-> buf, at |-> at, left |-> 7]
    OBVIOUS
  <1>3. s = Amid(info, buf, read, 7)
    BY <1>1, <1>2 DEF Amid
  <1>4. /\ buf \in Seq(Octet) /\ read \in Nat /\ 16 + 256 * buf[15] + buf[16] = Len(buf)
    BY DEF SumAhead
  <1>5. blank \in Seq(Octet) /\ Len(blank) = Len(buf)
    BY ONLY <1>4, blank = Blanked(buf, read + 4, 4), BlankedBytes
  <1>6. value \in Seq(Octet) /\ Len(value) = 4
    BY ONLY value = Crc32c(blank), ChecksumIs
  <1>7. Blanked(s.buf, s.at + 3, 4) = blank
    <2>1. s.buf = buf /\ s.at + 3 = read + 4
      BY <1>1, <1>2, <1>4
    <2> QED
      BY ONLY <2>1, blank = Blanked(buf, read + 4, 4)
  <1>8. PICK total \in Nat : total = Len(buf)
    BY <1>4
  <1>9. SubSeq(blank, 1, total) = blank
    <2>1. total = Len(blank)
      BY <1>5, <1>8
    <2> QED
      BY ONLY <1>5, <2>1
  <1>10. 16 + 256 * s.buf[15] + s.buf[16] = total
    <2>1. s.buf = buf
      BY <1>2
    <2> QED
      BY ONLY <1>4, <1>8, <2>1
  <1>11. TakeCrc32c(s, value) = [Keep(s, Type.CRC32C, value) EXCEPT !.buf = blank, !.info.crc32c = 1]
    <2>1. ~(Len(value) # 4) /\ ~(value # Crc32c(SubSeq(blank, 1, total)))
      BY ONLY <1>6, <1>9, value = Crc32c(blank)
    <2> QED
      BY ONLY <1>7, <1>10, <2>1 DEF TakeCrc32c
  <1>12. TakeTlv(s, Type.CRC32C, value) = TakeCrc32c(s, value)
    <2>1. PICK type : type = Type.CRC32C
      OBVIOUS
    <2>2. type \notin {Type.ALPN, Type.AUTHORITY, Type.UNIQUE_ID, Type.SSL, Type.NETNS, Type.AWS, Type.AZURE}
      BY <2>1, TypeNumbers
    <2>3. TakeTlv(s, type, value) = TakeCrc32c(s, value)
      BY ONLY <2>1, <2>2 DEF TakeTlv
    <2> QED
      BY ONLY <2>1, <2>3
  <1>13. PICK new : new = AppendNew(info, Type.CRC32C, value)
    OBVIOUS
  <1>14. PICK kept : kept = [rc |-> 0, info |-> new, buf |-> buf, at |-> at, left |-> 7]
    OBVIOUS
  <1>15. Keep(s, Type.CRC32C, value) = kept
    <2>1. Keep(s, Type.CRC32C, value) = [s EXCEPT !.info = new]
      BY ONLY <1>2, <1>13 DEF Keep
    <2> QED
      BY ONLY <1>2, <1>14, <2>1
  <1>16. PICK more : more = WithSum(info, value)
    OBVIOUS
  <1>17. [kept EXCEPT !.buf = blank, !.info.crc32c = 1]
           = [rc |-> 0, info |-> more, buf |-> blank, at |-> at, left |-> 7]
    <2>1. more = [new EXCEPT !.crc32c = 1]
      BY ONLY <1>13, <1>16 DEF WithSum
    <2>2. [kept EXCEPT !.buf = blank] = [rc |-> 0, info |-> new, buf |-> blank, at |-> at, left |-> 7]
      BY ONLY <1>14
    <2>3. PICK mid : mid = [rc |-> 0, info |-> new, buf |-> blank, at |-> at, left |-> 7]
      OBVIOUS
    <2>4. [mid EXCEPT !.info = more] = [rc |-> 0, info |-> more, buf |-> blank, at |-> at, left |-> 7]
      BY ONLY <2>3
    <2>5. [mid EXCEPT !.info.crc32c = 1] = [mid EXCEPT !.info = more]
      BY ONLY <2>1, <2>3
    <2>6. [kept EXCEPT !.buf = blank, !.info.crc32c = 1] = [mid EXCEPT !.info.crc32c = 1]
      <3>1. [[kept EXCEPT !.buf = blank] EXCEPT !.info.crc32c = 1] = [mid EXCEPT !.info.crc32c = 1]
        BY ONLY <2>2, <2>3
      <3> QED
        BY ONLY <3>1
    <2> QED
      BY ONLY <2>4, <2>5, <2>6
  <1>18. TakeTlv(s, Type.CRC32C, value) = [rc |-> 0, info |-> more, buf |-> blank, at |-> at, left |-> 7]
    BY ONLY <1>11, <1>12, <1>15, <1>17
  <1> QED
    BY ONLY <1>1, <1>3, <1>16, <1>18 DEF Amid

LEMMA SumRound ==
  ASSUME NEW s, NEW base, NEW ssl, NEW items, NEW q \in Nat, NEW buf, NEW read, NEW left,
         Reached(s, base, ssl, items, q, buf, read, left), left = 7, SumAhead(buf, read)
  PROVE  Done(NextTlv(s), base, ssl, items, q, 1)
  <1>1. PICK info : s = Amid(info, buf, read, left) /\ Knows(info, base, ssl, items, q)
    BY DEF Reached
  <1>2. PICK blank, value : blank = Blanked(buf, read + 4, 4) /\ value = Crc32c(blank)
    OBVIOUS
  <1>3. value \in Seq(Octet) /\ Len(value) = 4
    BY ONLY <1>2, ChecksumIs
  <1>4. TakeTlv(Amid(info, buf, read, left), Type.CRC32C, value) = Amid(WithSum(info, value), blank, read, left)
    BY ONLY <1>2, SumAhead(buf, read), left = 7, SumTaken
  <1>5. TlvAhead(buf, read, left, Type.CRC32C, value)
    <2>1. Type.CRC32C \in Octet
      BY TypeNumbers DEF Octet
    <2>2. buf \in Seq(Octet) /\ read \in Nat /\ Holds(buf, read, Tlv(Type.CRC32C, value))
      BY <1>2 DEF SumAhead
    <2>3. left \in Int /\ left > 3 /\ 3 + Len(value) < 65536 /\ 3 + Len(value) <= left
      BY ONLY <1>3, left = 7
    <2> QED
      BY ONLY <1>3, <2>1, <2>2, <2>3 DEF TlvAhead
  <1>6. NextTlv(Amid(info, buf, read, left))
          = Amid(WithSum(info, value), blank, read + 3 + Len(value), left - 3 - Len(value))
    BY ONLY <1>4, <1>5, AmidRound
  <1>7. Final(WithSum(info, value), base, ssl, items, q, 1)
    BY ONLY <1>1, <1>3, q \in Nat, FinalSum
  <1>8. PICK more, to, less : more = WithSum(info, value) /\ to = read + 3 + Len(value) /\ less = left - 3 - Len(value)
    OBVIOUS
  <1>9. less = 0
    BY ONLY <1>3, <1>8, left = 7
  <1>10. NextTlv(s) = Amid(more, blank, to, 0)
    BY ONLY <1>1, <1>6, <1>8, <1>9
  <1>11. PICK t : t = NextTlv(s)
    OBVIOUS
  <1>12. t.rc = 0 /\ t.left = 0 /\ t.info = more
    BY ONLY <1>10, <1>11 DEF Amid
  <1> QED
    BY ONLY <1>7, <1>8, <1>11, <1>12 DEF Done

(* The parts of a header and their lengths: addresses, TLVs, gap, checksum.*)
Parts(info, a, l, gap, c) ==
  /\ a = AddrLen(info.family) /\ l = Len(FlattenSeq(info.tlvs)) /\ gap = Padded(info) - Plain(info)
  /\ (info.crc32c = 1 /\ c = 7) \/ (info.crc32c = 0 /\ c = 0)
  /\ Padded(info) = 16 + a + l + gap + c
  /\ gap = 0 \/ gap >= 3

LEMMA PartsAre ==
  ASSUME NEW info, Sendable(info)
  PROVE  \E a \in Nat, l \in Nat, gap \in Nat, c \in Nat : Parts(info, a, l, gap, c)
  <1>1. PICK a \in Nat : a = AddrLen(info.family)
    BY PlainIs
  <1>2. PICK l \in Nat : l = Len(FlattenSeq(info.tlvs))
    BY PlainIs
  <1>3. PICK c \in Nat : (info.crc32c = 1 /\ c = 7) \/ (info.crc32c = 0 /\ c = 0)
    BY SendableHas
  <1>4. Plain(info) = 16 + a + l + c
    BY <1>1, <1>2, <1>3 DEF Plain
  <1>5. PICK gap \in Nat : gap = Padded(info) - Plain(info) /\ (gap = 0 \/ gap >= 3)
    BY <1>4, PaddedIs
  <1>6. Padded(info) = 16 + a + l + gap + c
    BY <1>4, <1>5, PaddedIs
  <1> QED
    BY ONLY <1>1, <1>2, <1>3, <1>5, <1>6, a \in Nat, l \in Nat, c \in Nat, gap \in Nat DEF Parts

(* The last TLV has a value, or there is something behind it: the loop has *)
(* more than three bytes left in front of every one.                       *)
LastSeen(info) ==
  \/ \A n \in Nat : n = Len(info.tlvs) /\ n > 0 => Len(info.tlvs[n]) > 3
  \/ info.crc32c = 1 \/ Padded(info) # Plain(info)

Ranged(tlvs) == \A k \in 1 .. Len(tlvs) : Len(tlvs[k]) >= 3
FlatThere(buf, at, left, l, tlvs) ==
  \E p : Places(p, tlvs) /\ p[Len(tlvs)] = l /\ AllThere(buf, at, left, p, tlvs)

LEMMA EachThere ==
  ASSUME NEW info, Sendable(info), Padded(info) < 65536, LastSeen(info),
         NEW a \in Nat, NEW l \in Nat, NEW gap \in Nat, NEW c \in Nat, Parts(info, a, l, gap, c),
         NEW tlvs \in Seq(Seq(Octet)), tlvs = info.tlvs, Ranged(tlvs),
         NEW b, b = Header2(info)
  PROVE  FlatThere(b, 16 + a, l + gap + c, l, tlvs)
  <1>0. \A k \in 1 .. Len(tlvs) : Len(tlvs[k]) >= 3
    BY DEF Ranged
  <1>1. PICK n \in Nat : n = Len(tlvs)
    OBVIOUS
  <1>2. PICK flat \in Seq(Octet) : flat = FlattenSeq(tlvs)
    BY Flattened
  <1>3. PICK p : /\ Places(p, tlvs) /\ p[n] = l
                 /\ \A k \in 1 .. n : Holds(flat, p[k - 1], tlvs[k])
    <2>1. PICK p : /\ Places(p, tlvs) /\ p[Len(tlvs)] = Len(FlattenSeq(tlvs))
                   /\ \A k \in 1 .. Len(tlvs) : Holds(FlattenSeq(tlvs), p[k - 1], tlvs[k])
      BY ONLY tlvs \in Seq(Seq(Octet)), FlatPlaces
    <2>2. l = Len(FlattenSeq(tlvs))
      BY DEF Parts
    <2> QED
      BY <1>1, <1>2, <2>1, <2>2
  <1>4. /\ \A k \in 0 .. n : p[k] \in Nat
        /\ \A k \in 1 .. n : p[k] = p[k - 1] + Len(tlvs[k])
    BY ONLY <1>1, <1>3 DEF Places
  <1>5. Len(flat) = l
    BY <1>2 DEF Parts
  <1>6. b \in Seq(Octet) /\ Holds(b, 16 + a, flat)
    <2>1. b \in Seq(Octet)
      BY Header2Is
    <2>2. Holds(b, 16 + AddrLen(info.family), FlattenSeq(info.tlvs))
      BY ONLY Sendable(info), b = Header2(info), Layout
    <2> QED
      BY <1>2, <2>1, <2>2 DEF Parts
  <1>7. l + gap + c < 65536
    <2>1. Padded(info) = 16 + a + l + gap + c
      BY ONLY Parts(info, a, l, gap, c) DEF Parts
    <2> QED
      BY ONLY <2>1, Padded(info) < 65536, a \in Nat, l \in Nat, gap \in Nat, c \in Nat
  <1>8. ASSUME NEW k \in 1 .. n PROVE TlvThere(b, (16 + a) + p[k - 1], (l + gap + c) - p[k - 1], tlvs[k])
    <2>1. PICK r \in Nat, m \in Nat : r = p[k - 1] /\ m = Len(tlvs[k]) /\ m >= 3
      <3>1. k - 1 \in 0 .. n
        OBVIOUS
      <3>2. p[k - 1] \in Nat
        BY ONLY <1>4, <3>1
      <3>3. tlvs[k] \in Seq(Octet)
        BY <1>1
      <3>4. Len(tlvs[k]) \in Nat
        BY ONLY <3>3
      <3>5. Len(tlvs[k]) >= 3
        BY ONLY <1>0, <1>1, k \in 1 .. n
      <3> QED
        BY ONLY <3>2, <3>4, <3>5
    <2>2. Holds(flat, r, tlvs[k]) /\ tlvs[k] \in Seq(Octet)
      BY <1>1, <1>3, <2>1
    <2>3. r + m <= l
      BY ONLY <1>5, <2>1, <2>2 DEF Holds
    <2>4. Holds(b, (16 + a) + r, tlvs[k])
      <3>1. 16 + a \in Nat
        OBVIOUS
      <3> QED
        BY ONLY <1>6, <2>2, <3>1, flat \in Seq(Octet), r \in Nat, HoldsIn
    <2>5. l + gap + c - r > 3
      <3>1. CASE m > 3
        BY <2>3, <3>1
      <3>2. CASE k < n
        <4>1. PICK j \in 1 .. n : j = k + 1 /\ j - 1 = k
          BY <3>2
        <4>2. Holds(flat, p[k], tlvs[j]) /\ Len(tlvs[j]) >= 3
          BY <1>0, <1>1, <1>3, <4>1
        <4>3. p[k] = r + m
          BY <1>4, <2>1
        <4>4. PICK o \in Nat : o = Len(tlvs[j])
          BY <1>1
        <4>5. (r + m) + o <= l
          BY ONLY <1>5, <4>2, <4>3, <4>4 DEF Holds
        <4> QED
          <5>1. o >= 3 /\ m >= 3
            BY ONLY <2>1, <4>2, <4>4
          <5> QED
            BY ONLY <4>5, <5>1, r \in Nat, m \in Nat, o \in Nat, l \in Nat, gap \in Nat, c \in Nat
      <3>3. CASE k = n /\ m = 3
        <4>1. gap > 0 \/ c > 0
          <5>1. CASE info.crc32c = 1
            BY <5>1 DEF Parts
          <5>2. CASE Padded(info) # Plain(info)
            <6>1. Padded(info) \in Nat /\ Plain(info) \in Nat
              BY PaddedIs, PlainIs
            <6> QED
              BY <5>2, <6>1 DEF Parts
          <5>3. ~(Len(info.tlvs[n]) > 3) /\ n = Len(info.tlvs) /\ n > 0
            <6>1. Len(tlvs[n]) = 3 /\ n > 0
              BY ONLY <2>1, <3>3, k \in 1 .. n, n \in Nat
            <6>2. ~(Len(tlvs[n]) > 3)
              BY ONLY <6>1
            <6> QED
              BY ONLY <1>1, <6>1, <6>2, tlvs = info.tlvs
          <5> QED
            BY <5>1, <5>2, <5>3 DEF LastSeen
        <4> QED
          <5>1. m >= 3
            BY ONLY <2>1
          <5>2. gap + c >= 1
            BY ONLY <4>1, gap \in Nat, c \in Nat
          <5> QED
            BY ONLY <2>3, <5>1, <5>2, r \in Nat, m \in Nat, l \in Nat, gap \in Nat, c \in Nat
      <3> QED
        <4>1. m > 3 \/ k < n \/ (k = n /\ m = 3)
          <5>1. m >= 3
            BY ONLY <2>1
          <5>2. k \in Nat /\ k <= n
            BY ONLY k \in 1 .. n, n \in Nat
          <5>3. m > 3 \/ m = 3
            BY ONLY <5>1, m \in Nat
          <5>4. k < n \/ k = n
            BY ONLY <5>2, n \in Nat
          <5> QED
            BY ONLY <5>3, <5>4
        <4> QED
          BY ONLY <3>1, <3>2, <3>3, <4>1
    <2>6. (16 + a) + r \in Nat /\ (l + gap + c) - r \in Nat /\ (l + gap + c) - r < 65536
          /\ (l + gap + c) - r > 3 /\ m <= (l + gap + c) - r
      BY <1>7, <2>3, <2>5
    <2> QED
      BY ONLY <1>6, <2>1, <2>2, <2>4, <2>6 DEF TlvThere
  <1> QED
    BY ONLY <1>1, <1>3, <1>8 DEF AllThere, FlatThere

LEMMA PlacesGrow ==
  ASSUME NEW n \in Nat, NEW p, \A k \in 0 .. n : p[k] \in Nat, p[0] = 0,
         \A k \in 1 .. n : p[k] >= p[k - 1] + 3
  PROVE  p[n] >= 3 * n
  <1> DEFINE S == {k \in Nat : k <= n => p[k] >= 3 * k}
  <1>1. 0 \in S
    OBVIOUS
  <1>2. \A k \in S : k + 1 \in S
    <2> SUFFICES ASSUME NEW k \in S, k + 1 <= n PROVE p[k + 1] >= 3 * (k + 1)
      OBVIOUS
    <2>1. k \in Nat /\ p[k] >= 3 * k
      OBVIOUS
    <2>2. k + 1 \in 1 .. n /\ (k + 1) - 1 = k /\ k \in 0 .. n /\ k + 1 \in 0 .. n
      BY <2>1
    <2>3. p[k + 1] >= p[k] + 3 /\ p[k] \in Nat /\ p[k + 1] \in Nat
      BY ONLY <2>2, \A i \in 1 .. n : p[i] >= p[i - 1] + 3, \A i \in 0 .. n : p[i] \in Nat
    <2>4. PICK x \in Nat, y \in Nat : x = p[k] /\ y = p[k + 1]
      BY <2>3
    <2> QED
      BY <2>1, <2>3, <2>4
  <1> HIDE DEF S
  <1>3. S = Nat
    <2>1. S \in SUBSET Nat
      BY DEF S
    <2> QED
      BY ONLY <1>1, <1>2, <2>1, Induction
  <1> QED
    BY <1>3 DEF S

LEMMA DonePlain ==
  ASSUME NEW s, NEW base, NEW ssl, NEW items, NEW q \in Nat, NEW buf, NEW read, NEW left,
         Reached(s, base, ssl, items, q, buf, read, left), left <= 3
  PROVE  Done(s, base, ssl, items, q, 0)
  <1>1. PICK info : s = Amid(info, buf, read, left) /\ Knows(info, base, ssl, items, q)
    BY DEF Reached
  <1>2. s.rc = 0 /\ s.left = left /\ s.info = info
    BY ONLY <1>1 DEF Amid
  <1>3. Final(info, base, ssl, items, q, 0)
    BY ONLY <1>1, q \in Nat, FinalPlain
  <1> QED
    BY ONLY <1>2, <1>3, left <= 3 DEF Done

(* Over the gap.                                                           *)
LEMMA PastGap ==
  ASSUME NEW info, Sendable(info), Padded(info) < 65536, NEW b, b = Header2(info),
         NEW a \in Nat, NEW l \in Nat, NEW gap \in Nat, NEW c \in Nat, Parts(info, a, l, gap, c),
         gap >= 3, gap + c > 3, NEW s, NEW base, NEW ssl, NEW items, NEW q,
         NEW read, read = 16 + a + l, NEW left, left = gap + c,
         Reached(s, base, ssl, items, q, b, read, left)
  PROVE  Reached(NextTlv(s), base, ssl, items, q, b, read + gap, c)
  <1>1. PICK n \in Nat : n = gap - 3
    OBVIOUS
  <1>2. PICK value : value = Zeros(n)
    OBVIOUS
  <1>3. value \in Seq(Octet) /\ Len(value) = n
    <2>1. n \in Int
      OBVIOUS
    <2> QED
      BY ONLY <1>2, <2>1, n \in Nat, ZerosAre
  <1>4. /\ a = AddrLen(info.family) /\ l = Len(FlattenSeq(info.tlvs)) /\ gap = Padded(info) - Plain(info)
        /\ Padded(info) = 16 + a + l + gap + c
    BY DEF Parts
  <1>5. Holds(b, read, Tlv(Type.NOOP, value))
    <2>1. Padded(info) - Plain(info) # 0 =>
            Holds(b, 16 + AddrLen(info.family) + Len(FlattenSeq(info.tlvs)),
                  Tlv(Type.NOOP, Zeros(Padded(info) - Plain(info) - 3)))
      BY ONLY Sendable(info), b = Header2(info), Layout
    <2>2. gap # 0 => Holds(b, 16 + a + l, Tlv(Type.NOOP, Zeros(gap - 3)))
      BY ONLY <1>4, <2>1
    <2>3. gap # 0
      OBVIOUS
    <2> QED
      BY ONLY <1>1, <1>2, <2>2, <2>3, read = 16 + a + l
  <1>6. b \in Seq(Octet)
    BY Header2Is
  <1>7. Type.NOOP \in Octet
    BY TypeNumbers DEF Octet
  <1>8. read \in Nat /\ left \in Int /\ left > 3 /\ 3 + n <= left /\ 3 + n < 65536
    <2>1. PICK len \in Nat : len = 16 + a + l + gap + c
      OBVIOUS
    <2>2. len = Padded(info)
      BY ONLY <1>4, <2>1
    <2>3. len < 65536
      BY ONLY <2>2, Padded(info) < 65536
    <2> QED
      BY ONLY <1>1, <2>1, <2>3, <2>2, len \in Nat, n \in Nat, a \in Nat, l \in Nat, gap \in Nat, c \in Nat,
              gap >= 3, gap + c > 3, read = 16 + a + l, left = gap + c
  <1>9. TlvAhead(b, read, left, Type.NOOP, value)
    BY ONLY <1>3, <1>5, <1>6, <1>7, <1>8 DEF TlvAhead
  <1>10. Reached(NextTlv(s), base, ssl, items, q, b, read + 3 + Len(value), left - 3 - Len(value))
    BY ONLY <1>9, Reached(s, base, ssl, items, q, b, read, left), NoopRound
  <1>11. read + 3 + n = read + gap /\ left - 3 - n = c
    BY ONLY <1>1, n \in Nat, gap \in Nat, c \in Nat, read \in Nat, <1>8, left = gap + c
  <1> QED
    BY ONLY <1>3, <1>10, <1>11

(* The checksum at the end.                                                *)
LEMMA SumThere ==
  ASSUME NEW info, Sendable(info), Padded(info) < 65536, NEW b, b = Header2(info),
         info.crc32c = 1, ~BehindTheEnd(info), NEW read \in Nat, read >= 16, read + 7 = Padded(info)
  PROVE  SumAhead(b, read)
  <1>1. PICK n \in Nat : n = Padded(info) /\ n = read + 7
    OBVIOUS
  <1>2. b \in Seq(Octet) /\ Len(b) = n /\ 256 * b[15] + b[16] = (n - 16) % 65536
    <2>1. LET bytes == Header2(info) IN
          /\ bytes \in Seq(Octet) /\ Len(bytes) = Padded(info)
          /\ 256 * bytes[15] + bytes[16] = (Padded(info) - 16) % 65536
      BY ONLY Sendable(info), Header2Is
    <2>2. /\ b \in Seq(Octet) /\ Len(b) = Padded(info)
          /\ 256 * b[15] + b[16] = (Padded(info) - 16) % 65536
      BY ONLY <2>1, b = Header2(info)
    <2> QED
      <3>1. Padded(info) = n
        BY ONLY <1>1
      <3> QED
        <4>1. b \in Seq(Octet)
          BY ONLY <2>2
        <4>2. Len(b) = n
          BY ONLY <2>2, <3>1
        <4>3. (Padded(info) - 16) % 65536 = (n - 16) % 65536
          BY ONLY <3>1
        <4>4. 256 * b[15] + b[16] = (Padded(info) - 16) % 65536
          BY ONLY <2>2
        <4>5. 256 * b[15] + b[16] = (n - 16) % 65536
          BY ONLY <4>3, <4>4
        <4> QED
          BY ONLY <4>1, <4>2, <4>5
  <1>3. (n - 16) % 65536 = n - 16
    BY <1>1
  <1>4. b[15] \in Nat /\ b[16] \in Nat
    <2>1. 15 \in 1 .. n /\ 16 \in 1 .. n
      BY <1>1
    <2>2. b[15] \in Octet /\ b[16] \in Octet
      BY ONLY <1>2, <2>1
    <2> QED
      BY ONLY <2>2 DEF Octet
  <1>5. 16 + 256 * b[15] + b[16] = n
    <2>1. PICK x \in Nat, y \in Nat : x = b[15] /\ y = b[16]
      BY <1>4
    <2> QED
      BY ONLY <1>1, <1>2, <1>3, <2>1, n \in Nat, x \in Nat, y \in Nat
  <1>6. Holds(b, Padded(info) - 7, Tlv(Type.CRC32C, Crc32c(Blanked(b, Padded(info) - 3, 4))))
    BY ONLY Sendable(info), b = Header2(info), info.crc32c = 1, ~BehindTheEnd(info), Layout
  <1>7. Padded(info) - 7 = read /\ Padded(info) - 3 = read + 4
    BY ONLY <1>1, n \in Nat, read \in Nat
  <1>8. Holds(b, read, Tlv(Type.CRC32C, Crc32c(Blanked(b, read + 4, 4))))
    BY ONLY <1>6, <1>7
  <1>9. n < 65536
    BY <1>1
  <1> QED
    BY ONLY <1>1, <1>2, <1>5, <1>8, <1>9, read \in Nat, read >= 16 DEF SumAhead

Chain(f, rounds) == \A k \in 1 .. rounds : f[k] = NextTlv(f[k - 1])

(* Enough rounds for n TLVs, the gap and the checksum.                     *)
Enough(n, gap, c, rounds) ==
  n + (IF gap = 0 THEN 0 ELSE 1) + (IF c = 0 THEN 0 ELSE 1) <= rounds

(* Behind n TLVs.                                                          *)
AtTheGap(info, b, a, l, gap, c, base, ssl, items, q, f, n, rounds) ==
  /\ a \in Nat /\ l \in Nat /\ gap \in Nat /\ c \in Nat /\ q \in Nat /\ n \in Nat /\ rounds \in Nat
  /\ b = Header2(info) /\ Parts(info, a, l, gap, c) /\ Enough(n, gap, c, rounds) /\ Chain(f, rounds)
  /\ Reached(f[n], base, ssl, items, q, b, 16 + a + l, gap + c)

(* The rounds behind the TLVs, up to the end of the header.                *)
LEMMA Endings ==
  ASSUME NEW info, Sendable(info), Padded(info) < 65536, ~(info.crc32c = 1 /\ BehindTheEnd(info)),
         NEW b, NEW a, NEW l, NEW gap, NEW c, NEW base, NEW ssl, NEW items, NEW q, NEW f, NEW n, NEW rounds,
         AtTheGap(info, b, a, l, gap, c, base, ssl, items, q, f, n, rounds)
  PROVE  Done(f[rounds], base, ssl, items, q, info.crc32c)
  <1>10. /\ a \in Nat /\ l \in Nat /\ gap \in Nat /\ c \in Nat /\ q \in Nat /\ n \in Nat /\ rounds \in Nat
        /\ b = Header2(info) /\ Parts(info, a, l, gap, c) /\ Enough(n, gap, c, rounds) /\ Chain(f, rounds)
    BY DEF AtTheGap
  <1>11. PICK read, left : /\ read = 16 + a + l /\ left = gap + c
                          /\ Reached(f[n], base, ssl, items, q, b, read, left)
    BY DEF AtTheGap
  <1>0. \A k \in 1 .. rounds : f[k] = NextTlv(f[k - 1])
    BY <1>10 DEF Chain
  <1>9. n + (IF gap = 0 THEN 0 ELSE 1) + (IF c = 0 THEN 0 ELSE 1) <= rounds
    BY <1>10 DEF Enough
  <1>1. /\ Padded(info) = 16 + a + l + gap + c /\ (gap = 0 \/ gap >= 3)
        /\ (info.crc32c = 1 /\ c = 7) \/ (info.crc32c = 0 /\ c = 0)
    BY <1>10 DEF Parts
  <1>2. ASSUME NEW m \in Nat, m <= rounds, Done(f[m], base, ssl, items, q, info.crc32c)
        PROVE  Done(f[rounds], base, ssl, items, q, info.crc32c)
    <2>1. f[m].left <= 3
      BY ONLY <1>2 DEF Done
    <2>2. f[rounds] = f[m]
      BY ONLY <1>2, <2>1, <1>10, m \in Nat, <1>0, Stutters
    <2> QED
      BY ONLY <1>2, <2>2
  <1>3. ASSUME NEW m \in Nat, m + 1 <= rounds
        PROVE  f[m + 1] = NextTlv(f[m])
    <2>1. m + 1 \in 1 .. rounds /\ (m + 1) - 1 = m
      BY ONLY <1>3, <1>10, m \in Nat
    <2> QED
      BY ONLY <2>1, <1>0
  <1>4. ASSUME NEW m \in Nat, m + 1 <= rounds, NEW to \in Nat, NEW rest, c = 7, rest = 7, to + 7 = Padded(info),
               to >= 16, Reached(f[m], base, ssl, items, q, b, to, rest)
        PROVE  Done(f[m + 1], base, ssl, items, q, info.crc32c)
    <2>1. info.crc32c = 1
      BY ONLY <1>1, <1>4
    <2>2. SumAhead(b, to)
      BY ONLY <1>4, <2>1, to \in Nat, Sendable(info), Padded(info) < 65536, <1>10,
              ~(info.crc32c = 1 /\ BehindTheEnd(info)), SumThere
    <2>3. Done(NextTlv(f[m]), base, ssl, items, q, 1)
      BY ONLY <1>4, <2>2, <1>10, SumRound
    <2>4. f[m + 1] = NextTlv(f[m])
      BY ONLY <1>3, <1>4, m \in Nat
    <2> QED
      BY ONLY <2>1, <2>3, <2>4
  <1>5. CASE gap = 0 /\ c = 0
    <2>1. Done(f[n], base, ssl, items, q, 0)
      <3>1. left <= 3
        BY ONLY <1>5, <1>11
      <3> QED
        BY ONLY <3>1, <1>10, <1>11, DonePlain
    <2>2. info.crc32c = 0 /\ n <= rounds
      BY ONLY <1>1, <1>5, <1>9, <1>10
    <2>3. Done(f[n], base, ssl, items, q, info.crc32c)
      BY ONLY <2>1, <2>2
    <2> QED
      BY ONLY <1>2, <2>2, <2>3, <1>10
  <1>6. CASE gap = 0 /\ c = 7
    <2>1. n + 1 <= rounds /\ n + 1 \in Nat
      BY ONLY <1>6, <1>9, <1>10
    <2>2. read \in Nat /\ read >= 16 /\ left = 7 /\ read + 7 = Padded(info)
      BY ONLY <1>1, <1>6, <1>10, <1>11
    <2>3. Done(f[n + 1], base, ssl, items, q, info.crc32c)
      BY ONLY <1>4, <1>6, <2>1, <2>2, <1>10, <1>11
    <2> QED
      BY ONLY <1>2, <2>1, <2>3
  <1>7. CASE gap >= 3 /\ gap + c <= 3
    <2>1. Done(f[n], base, ssl, items, q, 0)
      <3>1. left <= 3
        BY ONLY <1>7, <1>11
      <3> QED
        BY ONLY <3>1, <1>10, <1>11, DonePlain
    <2>2. info.crc32c = 0 /\ n <= rounds
      BY ONLY <1>1, <1>7, <1>9, <1>10
    <2>3. Done(f[n], base, ssl, items, q, info.crc32c)
      BY ONLY <2>1, <2>2
    <2> QED
      BY ONLY <1>2, <2>2, <2>3, <1>10
  <1>8. CASE gap >= 3 /\ gap + c > 3
    <2>1. n + 1 <= rounds /\ n + 1 \in Nat /\ (c = 7 => (n + 1) + 1 <= rounds /\ (n + 1) + 1 \in Nat)
      <3>1. gap # 0
        BY ONLY <1>8, <1>10
      <3> QED
        BY ONLY <3>1, <1>9, <1>10
    <2>2. Reached(NextTlv(f[n]), base, ssl, items, q, b, read + gap, c)
      BY ONLY <1>8, Sendable(info), Padded(info) < 65536, <1>10, gap \in Nat, <1>11, PastGap
    <2>3. f[n + 1] = NextTlv(f[n])
      BY ONLY <1>3, <2>1, <1>10
    <2>4. PICK to \in Nat, m \in Nat : to = read + gap /\ m = n + 1
      BY ONLY <2>1, <1>11, <1>10
    <2>5. Reached(f[m], base, ssl, items, q, b, to, c)
      BY ONLY <2>2, <2>3, <2>4
    <2>6. CASE c = 0
      <3>1. Done(f[m], base, ssl, items, q, 0)
        <4>1. c <= 3
          BY ONLY <2>6
        <4> QED
          BY ONLY <2>5, <4>1, <1>10, DonePlain
      <3>2. Done(f[m], base, ssl, items, q, info.crc32c)
        BY ONLY <1>1, <2>6, <3>1
      <3>3. m <= rounds
        BY ONLY <2>1, <2>4
      <3> QED
        BY ONLY <1>2, <3>2, <3>3, m \in Nat
    <2>7. CASE c = 7
      <3>1. to + 7 = Padded(info) /\ to >= 16
        BY ONLY <1>1, <2>4, <2>7, <1>10, <1>11
      <3>2. m + 1 <= rounds /\ m + 1 \in Nat
        BY ONLY <2>1, <2>4, <2>7
      <3>3. Done(f[m + 1], base, ssl, items, q, info.crc32c)
        BY ONLY <1>4, <2>5, <2>7, <3>1, <3>2, m \in Nat, to \in Nat
      <3> QED
        BY ONLY <1>2, <3>2, <3>3
    <2> QED
      BY <1>1, <2>6, <2>7
  <1> QED
    <2>1. gap >= 3 => (gap + c <= 3 \/ gap + c > 3)
      BY ONLY <1>10
    <2> QED
      BY ONLY <1>1, <1>5, <1>6, <1>7, <1>8, <2>1

(* A header that tells everything, and the reading of its TLVs.            *)
Honest(info) ==
  /\ Sendable(info) /\ Padded(info) < 65536 /\ LastSeen(info)
  /\ ~(info.crc32c = 1 /\ BehindTheEnd(info))

TlvsSet(info, b, a, l, gap, c, items, q, base, start, rounds) ==
  /\ b = Header2(info)
  /\ a \in Nat /\ l \in Nat /\ gap \in Nat /\ c \in Nat /\ Parts(info, a, l, gap, c)
  /\ Recorded(info.ssl, info.tlvs, items, q) /\ Len(items) \in Nat
  /\ Started(base) /\ start = Amid(base, b, 16 + a, l + gap + c)
  /\ rounds = (Padded(info) - 16) \div 3

(* From the first TLV to the end: all the items are told, the checksum too.*)
LEMMA TlvsRead ==
  ASSUME NEW info, Honest(info), NEW b, NEW a, NEW l, NEW gap, NEW c, NEW items, NEW q, NEW base,
         NEW start, NEW rounds, TlvsSet(info, b, a, l, gap, c, items, q, base, start, rounds)
  PROVE  Done(AllTlvs(start, rounds), base, info.ssl, items, Len(items), info.crc32c)
  <1> /\ Sendable(info) /\ Padded(info) < 65536 /\ LastSeen(info)
      /\ ~(info.crc32c = 1 /\ BehindTheEnd(info))
    BY DEF Honest
  <1> /\ b = Header2(info)
      /\ a \in Nat /\ l \in Nat /\ gap \in Nat /\ c \in Nat /\ Parts(info, a, l, gap, c)
      /\ Recorded(info.ssl, info.tlvs, items, q) /\ Len(items) \in Nat
      /\ Started(base) /\ start = Amid(base, b, 16 + a, l + gap + c)
      /\ rounds = (Padded(info) - 16) \div 3
    BY DEF TlvsSet
  <1>1. PICK tlvs \in Seq(Seq(Octet)) : tlvs = info.tlvs
    BY DEF Sendable
  <1>2. PICK n \in Nat : n = Len(tlvs)
    BY <1>1
  <1>3. \A k \in 1 .. n : Len(tlvs[k]) >= 3
    <2> TAKE k \in 1 .. n
    <2>1. Packed(info.ssl, info.tlvs[k], items, q[k - 1], q[k])
      BY <1>1, <1>2 DEF Recorded
    <2>2. PICK type \in Octet, value \in Seq(Octet) : tlvs[k] = Tlv(type, value)
      BY <1>1, <2>1 DEF Packed
    <2>3. Len(tlvs[k]) = 3 + Len(value)
      BY ONLY <2>2, type \in Octet, value \in Seq(Octet), TlvIs
    <2>4. Len(value) \in Nat
      BY ONLY value \in Seq(Octet)
    <2> QED
      BY ONLY <2>3, <2>4
  <1>4. PICK p : /\ Places(p, tlvs) /\ p[n] = l
                 /\ AllThere(b, 16 + a, l + gap + c, p, tlvs)
    <2>1. Ranged(tlvs)
      BY ONLY <1>2, <1>3 DEF Ranged
    <2>2. FlatThere(b, 16 + a, l + gap + c, l, tlvs)
      BY ONLY Sendable(info), Padded(info) < 65536, LastSeen(info), a \in Nat, l \in Nat, gap \in Nat,
              c \in Nat, Parts(info, a, l, gap, c), <1>1, <2>1, b = Header2(info),
              tlvs \in Seq(Seq(Octet)), EachThere
    <2> QED
      BY ONLY <1>2, <2>2 DEF FlatThere
  <1>5. PICK len \in Nat : len = Padded(info) - 16 /\ len = a + l + gap + c
    <2>1. Padded(info) = 16 + a + l + gap + c
      BY ONLY Parts(info, a, l, gap, c) DEF Parts
    <2>2. Padded(info) - 16 = a + l + gap + c /\ a + l + gap + c \in Nat
      BY ONLY <2>1, a \in Nat, l \in Nat, gap \in Nat, c \in Nat
    <2> QED
      BY ONLY <2>2
  <1>6. rounds \in Nat
    BY ONLY <1>5, len \in Nat, rounds = (Padded(info) - 16) \div 3
  <1>7. PICK f : /\ f[0] = start /\ AllTlvs(start, rounds) = f[rounds]
                 /\ \A k \in 1 .. rounds : f[k] = NextTlv(f[k - 1])
    <2>1. PICK f : TlvChain(f, start, rounds)
      BY ONLY <1>6, LoopsAre
    <2> QED
      BY ONLY <2>1 DEF TlvChain
  <1>8. l >= 3 * n
    <2>1. \A k \in 0 .. n : p[k] \in Nat
      BY ONLY <1>2, <1>4 DEF Places
    <2>2. p[0] = 0
      BY ONLY <1>4 DEF Places
    <2>3. ASSUME NEW k \in 1 .. n PROVE p[k] >= p[k - 1] + 3
      <3>1. p[k] = p[k - 1] + Len(tlvs[k])
        BY ONLY <1>2, <1>4, k \in 1 .. n DEF Places
      <3>2. k - 1 \in 0 .. n
        BY ONLY k \in 1 .. n, n \in Nat
      <3>3. PICK x \in Nat, y \in Nat : x = p[k - 1] /\ y = Len(tlvs[k]) /\ y >= 3
        <4>1. p[k - 1] \in Nat
          BY ONLY <2>1, <3>2
        <4>2. tlvs[k] \in Seq(Octet)
          BY ONLY <1>2, k \in 1 .. n, tlvs \in Seq(Seq(Octet))
        <4>3. Len(tlvs[k]) \in Nat /\ Len(tlvs[k]) >= 3
          BY ONLY <1>3, <4>2, k \in 1 .. n
        <4> QED
          BY ONLY <4>1, <4>3
      <3> QED
        BY ONLY <3>1, <3>3, x \in Nat, y \in Nat
    <2>4. p[n] >= 3 * n
      BY ONLY <2>1, <2>2, <2>3, n \in Nat, PlacesGrow
    <2> QED
      BY ONLY <1>4, <2>4
  <1>9. n + (IF gap = 0 THEN 0 ELSE 1) + (IF c = 0 THEN 0 ELSE 1) <= rounds
    <2>1. gap = 0 \/ gap >= 3
      BY DEF Parts
    <2>2. c = 0 \/ c = 7
      BY DEF Parts
    <2>3. PICK more \in Nat : more = (IF gap = 0 THEN 0 ELSE 1) + (IF c = 0 THEN 0 ELSE 1)
      OBVIOUS
    <2>4. 3 * more <= gap + c
      BY ONLY <2>1, <2>2, <2>3, gap \in Nat, c \in Nat, more \in Nat
    <2>5. 3 * (n + more) <= len
      BY ONLY <1>5, <1>8, <2>4, a \in Nat, l \in Nat, gap \in Nat, c \in Nat, n \in Nat, more \in Nat, len \in Nat
    <2>6. rounds = len \div 3
      BY ONLY <1>5, rounds = (Padded(info) - 16) \div 3
    <2>7. n + more <= rounds
      BY ONLY <2>5, <2>6, n \in Nat, more \in Nat, len \in Nat
    <2>8. n + (IF gap = 0 THEN 0 ELSE 1) + (IF c = 0 THEN 0 ELSE 1) = n + more
      BY ONLY <2>3, n \in Nat, gap \in Nat, c \in Nat
    <2> QED
      BY ONLY <2>7, <2>8
  <1>10. n <= rounds
    BY ONLY <1>9, n \in Nat, <1>6
  <1>11. Bits01(info.ssl)
    BY DEF Sendable, FilledIn, Bits01
  <1>12. PICK m \in Nat : m = Len(items) /\ q[n] = m
    BY <1>1, <1>2 DEF Recorded
  <1>13. PICK at \in Nat, left \in Nat : at = 16 + a /\ left = l + gap + c
    OBVIOUS
  <1>14. Reached(f[n], base, info.ssl, items, q[n], b, at + p[n], left - p[n])
    <2>1. f[0] = Amid(base, b, at, left)
      BY ONLY <1>7, <1>13, start = Amid(base, b, 16 + a, l + gap + c)
    <2>2. ASSUME NEW k \in 1 .. n PROVE f[k] = NextTlv(f[k - 1])
      <3>1. k \in 1 .. rounds
        BY ONLY <1>6, <1>10, k \in 1 .. n, n \in Nat
      <3> QED
        BY ONLY <1>7, <3>1
    <2>3. AllThere(b, at, left, p, tlvs)
      BY ONLY <1>4, <1>13
    <2>4. Recorded(info.ssl, tlvs, items, q) /\ Len(tlvs) = n
      BY ONLY <1>1, <1>2, Recorded(info.ssl, info.tlvs, items, q)
    <2> QED
      BY ONLY Started(base), <1>4, <1>11, <2>1, <2>2, <2>3, <2>4, n \in Nat, at \in Nat, left \in Nat, Run
  <1>15. PICK read, rest : read = 16 + a + l /\ rest = gap + c
    OBVIOUS
  <1>16. at + p[n] = read /\ left - p[n] = rest
    BY ONLY <1>4, <1>13, <1>15, a \in Nat, l \in Nat, gap \in Nat, c \in Nat
  <1>17. Reached(f[n], base, info.ssl, items, m, b, read, rest)
    BY ONLY <1>12, <1>14, <1>16
  <1>19. Chain(f, rounds) /\ Enough(n, gap, c, rounds)
    BY ONLY <1>7, <1>9 DEF Chain, Enough
  <1>20. AtTheGap(info, b, a, l, gap, c, base, info.ssl, items, m, f, n, rounds)
    BY ONLY b = Header2(info), a \in Nat, l \in Nat, gap \in Nat, c \in Nat, Parts(info, a, l, gap, c),
            m \in Nat, n \in Nat, <1>6, <1>15, <1>17, <1>19 DEF AtTheGap
  <1>18. Done(f[rounds], base, info.ssl, items, m, info.crc32c)
    BY ONLY Sendable(info), Padded(info) < 65536, ~(info.crc32c = 1 /\ BehindTheEnd(info)), <1>20, Endings
  <1> QED
    BY ONLY <1>7, <1>12, <1>18

(* The getters: the first item of a type.                                  *)
OfType(items, type) == {i \in DOMAIN items : items[i][1] = type}
LeastOf(S) == CHOOSE i \in S : \A j \in S : i <= j
FirstOf(items, type) ==
  IF OfType(items, type) = {} THEN Null
  ELSE [found |-> TRUE, value |-> items[LeastOf(OfType(items, type))][2]]

LEMMA StoredParts ==
  ASSUME NEW item, GoodItem(item)
  PROVE  /\ TlvType(Stored(item)) = item[1]
         /\ TlvValue(Stored(item)) = IF item[1] \in {Type.AWS, Type.AZURE} THEN <<1>> \o item[2] ELSE item[2]
  <1>1. item[1] \in Octet /\ item[2] \in Seq(Octet)
    BY DEF GoodItem
  <1>2. <<1>> \o item[2] \in Seq(Octet)
    <2>1. <<1>> \in Seq(Octet)
      BY DEF Octet
    <2> QED
      BY <1>1, <2>1
  <1>3. PICK v \in Seq(Octet) : v = IF item[1] \in {Type.AWS, Type.AZURE} THEN <<1>> \o item[2] ELSE item[2]
    BY <1>1, <1>2
  <1>4. TlvType(Tlv(item[1], v)) = item[1] /\ TlvValue(Tlv(item[1], v)) = v
    BY ONLY <1>1, v \in Seq(Octet), TlvBytes
  <1>5. Stored(item) = Tlv(item[1], v)
    BY ONLY <1>3 DEF Stored
  <1> QED
    BY ONLY <1>3, <1>4, <1>5

LEMMA LeastIs ==
  ASSUME NEW S \in SUBSET Nat, S # {}
  PROVE  LeastOf(S) \in S
  <1>1. \E n \in S : \A m \in S : n <= m
    BY Least
  <1> QED
    BY <1>1 DEF LeastOf

LEMMA BehindOne ==
  ASSUME NEW v \in Seq(Octet)
  PROVE  (<<1>> \o v)[1] = 1 /\ Tail(<<1>> \o v) = v
  <1>1. <<1>> \in Seq(Octet) /\ Len(<<1>>) = 1 /\ <<1>>[1] = 1
    BY DEF Octet
  <1>2. PICK n \in Nat : n = Len(v)
    OBVIOUS
  <1>3. PICK w : w = <<1>> \o v
    OBVIOUS
  <1>4. /\ w \in Seq(Octet) /\ Len(w) = 1 + n /\ w[1] = 1
        /\ \A i \in 1 .. n : w[1 + i] = v[i]
    <2>1. PICK one \in Seq(Octet) : one = <<1>>
      BY <1>1
    <2>2. /\ one \o v \in Seq(Octet) /\ Len(one \o v) = Len(one) + Len(v)
          /\ \A i \in 1 .. Len(one) : (one \o v)[i] = one[i]
          /\ \A i \in 1 .. Len(v) : (one \o v)[Len(one) + i] = v[i]
      BY ONLY one \in Seq(Octet), v \in Seq(Octet), Joining
    <2> QED
      BY ONLY <1>1, <1>2, <1>3, <2>1, <2>2
  <1>5. w # <<>>
    BY ONLY <1>2, <1>4, n \in Nat
  <1>6. PICK t : t = Tail(w)
    OBVIOUS
  <1>7. /\ t \in Seq(Octet) /\ Len(t) = Len(w) - 1
        /\ \A i \in 1 .. Len(t) : t[i] = w[i + 1]
    BY ONLY <1>4, <1>5, <1>6
  <1>8. Len(t) = Len(v)
    BY ONLY <1>2, <1>4, <1>7, n \in Nat
  <1>9. \A i \in 1 .. n : t[i] = v[i]
    <2> TAKE i \in 1 .. n
    <2>1. t[i] = w[i + 1] /\ i + 1 = 1 + i /\ w[1 + i] = v[i]
      BY ONLY <1>2, <1>4, <1>7, <1>8, n \in Nat, i \in 1 .. n
    <2> QED
      BY ONLY <2>1
  <1>10. t = v
    BY ONLY <1>2, <1>7, <1>8, <1>9, v \in Seq(Octet), SeqEqual
  <1> QED
    BY ONLY <1>3, <1>4, <1>6, <1>10

TlvsOf(info, type) == {i \in 1 .. Len(info.tlvs) : TlvType(info.tlvs[i]) = type}

SumPlace(crc, q) == IF crc = 1 THEN {q + 1} ELSE {}

SameTypes(info, items, q, crc) ==
  /\ \A type : type # Type.CRC32C => TlvsOf(info, type) = OfType(items, type)
  /\ TlvsOf(info, Type.CRC32C) = SumPlace(crc, q)

LEMMA SameOf ==
  ASSUME NEW info, NEW base, NEW ssl, NEW items \in Seq(Items), NEW q \in Nat, q = Len(items),
         NEW crc \in {0, 1}, Final(info, base, ssl, items, q, crc)
  PROVE  SameTypes(info, items, q, crc)
  <1>1. PICK tlvs : tlvs = info.tlvs
    OBVIOUS
  <1>2. Len(tlvs) = q + crc /\ \A i \in 1 .. q : tlvs[i] = Stored(items[i]) /\ GoodItem(items[i])
    BY ONLY <1>1, Final(info, base, ssl, items, q, crc) DEF Final
  <1>3. \A i \in 1 .. q : TlvType(tlvs[i]) = items[i][1] /\ items[i][1] # Type.CRC32C
    <2> TAKE i \in 1 .. q
    <2>1. tlvs[i] = Stored(items[i]) /\ GoodItem(items[i])
      BY ONLY <1>2, i \in 1 .. q
    <2>2. TlvType(Stored(items[i])) = items[i][1]
      BY ONLY <2>1, StoredParts
    <2> QED
      BY ONLY <2>1, <2>2 DEF GoodItem
  <1>4. crc = 1 => TlvType(tlvs[q + 1]) = Type.CRC32C
    <2> SUFFICES ASSUME crc = 1 PROVE TlvType(tlvs[q + 1]) = Type.CRC32C
      OBVIOUS
    <2>1. PICK v \in Seq(Octet) : tlvs[q + 1] = Tlv(Type.CRC32C, v)
      BY ONLY <1>1, crc = 1, Final(info, base, ssl, items, q, crc) DEF Final
    <2>2. Type.CRC32C \in Octet
      BY TypesAre
    <2>3. TlvType(Tlv(Type.CRC32C, v)) = Type.CRC32C
      BY ONLY <2>2, v \in Seq(Octet), TlvBytes
    <2> QED
      BY ONLY <2>1, <2>3
  <1>5. DOMAIN items = 1 .. q
    BY ONLY items \in Seq(Items), q = Len(items)
  <1>6. CASE crc = 0
    <2>1. 1 .. Len(tlvs) = 1 .. q
      BY ONLY <1>2, <1>6, q \in Nat
    <2> QED
      BY ONLY <1>1, <1>3, <1>5, <1>6, <2>1 DEF OfType, TlvsOf, SameTypes, SumPlace
  <1>7. CASE crc = 1
    <2>1. \A i : i \in 1 .. Len(tlvs) <=> i \in 1 .. q \/ i = q + 1
      BY ONLY <1>2, <1>7, q \in Nat
    <2>2. q + 1 \notin 1 .. q
      BY ONLY q \in Nat
    <2>3. TlvType(tlvs[q + 1]) = Type.CRC32C
      BY ONLY <1>4, <1>7
    <2>4. ASSUME NEW type, type # Type.CRC32C
          PROVE  {i \in 1 .. Len(tlvs) : TlvType(tlvs[i]) = type} = OfType(items, type)
      BY ONLY <2>4, <1>3, <1>5, <2>1, <2>3 DEF OfType
    <2>5. {i \in 1 .. Len(tlvs) : TlvType(tlvs[i]) = Type.CRC32C} = {q + 1}
      BY ONLY <1>3, <2>1, <2>3
    <2> QED
      BY ONLY <1>1, <1>7, <2>4, <2>5 DEF TlvsOf, SameTypes, SumPlace
  <1> QED
    BY ONLY <1>6, <1>7, crc \in {0, 1}

LEMMA GetsFirst ==
  ASSUME NEW info, NEW base, NEW ssl, NEW items \in Seq(Items), NEW q \in Nat, q = Len(items),
         NEW crc \in {0, 1}, Final(info, base, ssl, items, q, crc), NEW type, type # Type.CRC32C
  PROVE  Get(info, type) = FirstOf(items, type)
  <1>1. PICK tlvs : tlvs = info.tlvs
    OBVIOUS
  <1>2. PICK S : S = OfType(items, type)
    OBVIOUS
  <1>3. {i \in 1 .. Len(tlvs) : TlvType(tlvs[i]) = type} = S
    <2>2. SameTypes(info, items, q, crc)
      BY ONLY items \in Seq(Items), q \in Nat, q = Len(items), crc \in {0, 1},
              Final(info, base, ssl, items, q, crc), SameOf
    <2>1. TlvsOf(info, type) = OfType(items, type)
      BY ONLY <2>2, type # Type.CRC32C DEF SameTypes
    <2> QED
      BY ONLY <1>1, <1>2, <2>1 DEF TlvsOf
  <1>4. PICK k : k = LeastOf(S)
    OBVIOUS
  <1>5. PICK value : value = TlvValue(tlvs[k])
    OBVIOUS
  <1>6. GetValue(info, type, Subtype(type)) =
          IF S = {} THEN Null
          ELSE IF Subtype(type) = 0 THEN [found |-> TRUE, value |-> value]
          ELSE IF value[1] = Subtype(type) THEN [found |-> TRUE, value |-> Tail(value)]
          ELSE Null
    BY ONLY <1>1, <1>3, <1>4, <1>5 DEF GetValue, LeastOf
  <1>7. FirstOf(items, type) = IF S = {} THEN Null ELSE [found |-> TRUE, value |-> items[k][2]]
    BY ONLY <1>2, <1>4 DEF FirstOf
  <1>8. CASE S = {}
    BY ONLY <1>6, <1>7, <1>8 DEF Get
  <1>9. CASE S # {}
    <2>1. S \in SUBSET Nat
      BY ONLY <1>2, items \in Seq(Items) DEF OfType
    <2>2. k \in S
      BY ONLY <1>4, <1>9, <2>1, LeastIs
    <2>3. k \in 1 .. q /\ items[k][1] = type
      BY ONLY <1>2, <2>2, items \in Seq(Items), q = Len(items) DEF OfType
    <2>4. PICK item : item = items[k]
      OBVIOUS
    <2>5. tlvs[k] = Stored(item) /\ GoodItem(item) /\ item[1] = type
      BY ONLY <1>1, <2>3, <2>4, Final(info, base, ssl, items, q, crc) DEF Final
    <2>6. TlvValue(Stored(item)) = IF item[1] \in {Type.AWS, Type.AZURE} THEN <<1>> \o item[2] ELSE item[2]
      BY ONLY <2>5, StoredParts
    <2>7. value = IF type \in {Type.AWS, Type.AZURE} THEN <<1>> \o item[2] ELSE item[2]
      BY ONLY <1>5, <2>5, <2>6
    <2>8. CASE type \in {Type.AWS, Type.AZURE}
      <3>1. Subtype(type) = 1
        BY ONLY <2>8 DEF Subtype
      <3>2. item[2] \in Seq(Octet)
        BY ONLY <2>5 DEF GoodItem
      <3>3. (<<1>> \o item[2])[1] = 1 /\ Tail(<<1>> \o item[2]) = item[2]
        BY ONLY <3>2, BehindOne
      <3>4. value[1] = 1 /\ Tail(value) = item[2]
        BY ONLY <2>7, <2>8, <3>3
      <3>5. GetValue(info, type, Subtype(type)) = [found |-> TRUE, value |-> item[2]]
        <4>1. ~(S = {}) /\ ~(Subtype(type) = 0) /\ value[1] = Subtype(type)
          BY ONLY <1>9, <3>1, <3>4
        <4> QED
          BY ONLY <1>6, <3>4, <4>1
      <3> QED
        BY ONLY <1>7, <1>9, <2>4, <3>5 DEF Get
    <2>9. CASE type \notin {Type.AWS, Type.AZURE}
      <3>1. Subtype(type) = 0
        BY ONLY <2>9 DEF Subtype
      <3>2. value = item[2]
        BY ONLY <2>7, <2>9
      <3>3. GetValue(info, type, Subtype(type)) = [found |-> TRUE, value |-> item[2]]
        BY ONLY <1>6, <1>9, <3>1, <3>2
      <3> QED
        BY ONLY <1>7, <1>9, <2>4, <3>3 DEF Get
    <2> QED
      BY ONLY <2>8, <2>9
  <1> QED
    BY ONLY <1>8, <1>9

LEMMA SumFound ==
  ASSUME NEW info, NEW base, NEW ssl, NEW items \in Seq(Items), NEW q \in Nat, q = Len(items),
         NEW crc \in {0, 1}, Final(info, base, ssl, items, q, crc)
  PROVE  Get(info, Type.CRC32C).found <=> crc = 1
  <1>1. PICK type : type = Type.CRC32C
    OBVIOUS
  <1>2. PICK tlvs, S : tlvs = info.tlvs /\ S = (IF crc = 1 THEN {q + 1} ELSE {})
    OBVIOUS
  <1>3. {i \in 1 .. Len(tlvs) : TlvType(tlvs[i]) = type} = S
    <2>2. SameTypes(info, items, q, crc)
      BY ONLY items \in Seq(Items), q \in Nat, q = Len(items), crc \in {0, 1},
              Final(info, base, ssl, items, q, crc), SameOf
    <2>1. TlvsOf(info, Type.CRC32C) = (IF crc = 1 THEN {q + 1} ELSE {})
      BY ONLY <2>2 DEF SameTypes, SumPlace
    <2> QED
      BY ONLY <1>1, <1>2, <2>1 DEF TlvsOf
  <1>4. PICK value : value = TlvValue(tlvs[LeastOf(S)])
    OBVIOUS
  <1>5. Subtype(type) = 0
    <2>1. type \notin {Type.AWS, Type.AZURE}
      BY ONLY <1>1, TypeNumbers
    <2> QED
      BY ONLY <2>1 DEF Subtype
  <1>6. Get(info, type) = IF S = {} THEN Null ELSE [found |-> TRUE, value |-> value]
    <2>1. GetValue(info, type, Subtype(type)) =
            IF S = {} THEN Null
            ELSE IF Subtype(type) = 0 THEN [found |-> TRUE, value |-> value]
            ELSE IF value[1] = Subtype(type) THEN [found |-> TRUE, value |-> Tail(value)]
            ELSE Null
      BY ONLY <1>2, <1>3, <1>4 DEF GetValue, LeastOf
    <2> QED
      BY ONLY <1>5, <2>1 DEF Get
  <1>7. Null.found = FALSE /\ [found |-> TRUE, value |-> value].found = TRUE
    BY DEF Null
  <1>8. S = {} <=> ~(crc = 1)
    BY ONLY <1>2
  <1>9. CASE S = {}
    BY ONLY <1>1, <1>6, <1>7, <1>8, <1>9
  <1>10. CASE S # {}
    BY ONLY <1>1, <1>6, <1>7, <1>8, <1>10
  <1> QED
    BY ONLY <1>9, <1>10

(* The addresses and ports of a version 2 header, from where on they lie.  *)
AddrPlaces(s, at, info, w) ==
  /\ w = (IF info.family = INET THEN 4 ELSE 16)
  /\ info.src.bytes \in Seq(Octet) /\ Len(info.src.bytes) = w
  /\ info.dst.bytes \in Seq(Octet) /\ Len(info.dst.bytes) = w
  /\ Holds(s, at, info.src.bytes) /\ Holds(s, at + w, info.dst.bytes)
  /\ Holds(s, at + w + w, U16(info.sport)) /\ Holds(s, at + w + w + 2, U16(info.dport))

LEMMA AddrParts ==
  ASSUME NEW info, Sendable(info), info.family \in {INET, INET6}
  PROVE  \E w \in Nat : AddrPlaces(AddrBytes(info), 0, info, w)
  <1>1. PICK w \in Nat : w = IF info.family = INET THEN 4 ELSE 16
    OBVIOUS
  <1>2. info.src.fam = info.family /\ info.dst.fam = info.family
    BY SendableIs
  <1>3. AddressText(info.src, info.family) /\ AddressText(info.dst, info.family)
    BY SendableHas
  <1>4. INET # INET6
    BY DEF INET, INET6
  <1>5. PICK src \in Seq(Octet), dst \in Seq(Octet) :
          src = info.src.bytes /\ dst = info.dst.bytes /\ Len(src) = w /\ Len(dst) = w
    <2>1. info.src.bytes \in Seq(Octet) /\ info.dst.bytes \in Seq(Octet)
      BY ONLY <1>3 DEF AddressText
    <2>2. Len(info.src.bytes) = w /\ Len(info.dst.bytes) = w
      BY ONLY <1>1, <1>2, <1>3, <1>4, info.family \in {INET, INET6} DEF AddressText
    <2> QED
      BY ONLY <2>1, <2>2
  <1>6. PICK sp \in Seq(Octet), dp \in Seq(Octet) :
          sp = U16(info.sport) /\ dp = U16(info.dport) /\ Len(sp) = 2 /\ Len(dp) = 2
    <2>1. info.sport \in Nat /\ info.dport \in Nat
      BY SendableHas
    <2> QED
      BY ONLY <2>1, U16Is
  <1>7. PICK one \in Seq(Octet) : one = src \o dst /\ Len(one) = w + w
    <2>1. src \o dst \in Seq(Octet) /\ Len(src \o dst) = w + w
      <3>1. src \o dst \in Seq(Octet) /\ Len(src \o dst) = Len(src) + Len(dst)
        BY ONLY src \in Seq(Octet), dst \in Seq(Octet)
      <3> QED
        BY ONLY <1>5, <3>1
    <2> QED
      BY ONLY <2>1
  <1>8. PICK two \in Seq(Octet) : two = one \o sp /\ Len(two) = w + w + 2
    <2>1. one \o sp \in Seq(Octet) /\ Len(one \o sp) = w + w + 2
      <3>1. one \o sp \in Seq(Octet) /\ Len(one \o sp) = Len(one) + Len(sp)
        BY ONLY one \in Seq(Octet), sp \in Seq(Octet)
      <3> QED
        BY ONLY <1>6, <1>7, <3>1
    <2> QED
      BY ONLY <2>1
  <1>9. PICK all \in Seq(Octet) : all = two \o dp
    <2>1. two \o dp \in Seq(Octet)
      BY ONLY two \in Seq(Octet), dp \in Seq(Octet), JoinedLength
    <2> QED
      BY ONLY <2>1
  <1>10. Holds(one, 0, src) /\ Holds(one, w, dst)
    BY ONLY <1>5, <1>7, src \in Seq(Octet), dst \in Seq(Octet), HoldsBoth
  <1>11. Holds(two, 0, src) /\ Holds(two, w, dst) /\ Holds(two, w + w, sp)
    <2>1. Holds(two, 0, src) /\ Holds(two, w, dst)
      <3>1. 0 \in Nat
        OBVIOUS
      <3> QED
        BY ONLY <1>8, <1>10, <3>1, w \in Nat, one \in Seq(Octet), sp \in Seq(Octet), src \in Seq(Octet),
                dst \in Seq(Octet), HoldsOn
    <2>2. Holds(two, Len(one), sp)
      BY ONLY <1>8, one \in Seq(Octet), sp \in Seq(Octet), HoldsBoth
    <2> QED
      BY ONLY <1>7, <2>1, <2>2
  <1>12. Holds(all, 0, src) /\ Holds(all, w, dst) /\ Holds(all, w + w, sp) /\ Holds(all, w + w + 2, dp)
    <2>1. 0 \in Nat /\ w + w \in Nat
      OBVIOUS
    <2>2. Holds(all, 0, src) /\ Holds(all, w, dst) /\ Holds(all, w + w, sp)
      BY ONLY <1>9, <1>11, <2>1, w \in Nat, two \in Seq(Octet), sp \in Seq(Octet), dp \in Seq(Octet),
              src \in Seq(Octet), dst \in Seq(Octet), HoldsOn
    <2>3. Holds(all, Len(two), dp)
      BY ONLY <1>9, two \in Seq(Octet), dp \in Seq(Octet), HoldsBoth
    <2> QED
      BY ONLY <1>8, <2>2, <2>3
  <1>13. AddrBytes(info) = all
    <2>1. info.family # UNSPEC /\ info.family # UNIX
      BY DEF UNSPEC, UNIX, INET, INET6
    <2>2. AddrBytes(info) = info.src.bytes \o info.dst.bytes \o U16(info.sport) \o U16(info.dport)
      BY ONLY <2>1 DEF AddrBytes
    <2> QED
      BY ONLY <1>5, <1>6, <1>7, <1>8, <1>9, <2>2
  <1>14. 0 + w = w /\ 0 + w + w = w + w /\ 0 + w + w + 2 = w + w + 2
    OBVIOUS
  <1>15. AddrPlaces(AddrBytes(info), 0, info, w)
    BY ONLY <1>1, <1>5, <1>6, <1>12, <1>13, <1>14, src \in Seq(Octet), dst \in Seq(Octet) DEF AddrPlaces
  <1> QED
    BY <1>15

LEMMA AddrHeld ==
  ASSUME NEW info, Sendable(info), info.family \in {INET, INET6}, NEW b, b = Header2(info)
  PROVE  \E w \in Nat : AddrPlaces(b, 16, info, w)
  <1>1. PICK w \in Nat : AddrPlaces(AddrBytes(info), 0, info, w)
    BY AddrParts
  <1>2. PICK all \in Seq(Octet) : all = AddrBytes(info)
    BY AddrBytesAre
  <1>3. b \in Seq(Octet) /\ Holds(b, 16, all)
    <2>1. b \in Seq(Octet)
      BY Header2Is
    <2>2. Holds(b, 16, AddrBytes(info))
      BY ONLY Sendable(info), b = Header2(info), Layout
    <2> QED
      BY ONLY <1>2, <2>1, <2>2
  <1>4. info.sport \in Nat /\ info.dport \in Nat
    BY SendableHas
  <1>5. U16(info.sport) \in Seq(Octet) /\ U16(info.dport) \in Seq(Octet)
    BY ONLY <1>4, U16Is
  <1>6. /\ info.src.bytes \in Seq(Octet) /\ info.dst.bytes \in Seq(Octet)
        /\ Holds(all, 0, info.src.bytes) /\ Holds(all, w, info.dst.bytes)
        /\ Holds(all, w + w, U16(info.sport)) /\ Holds(all, w + w + 2, U16(info.dport))
    <2>1. 0 + w = w /\ 0 + w + w = w + w /\ 0 + w + w + 2 = w + w + 2
      OBVIOUS
    <2> QED
      BY ONLY <1>1, <1>2, <2>1 DEF AddrPlaces
  <1>7. 16 \in Nat /\ 0 \in Nat /\ w + w \in Nat /\ w + w + 2 \in Nat
    OBVIOUS
  <1>8. /\ Holds(b, 16 + 0, info.src.bytes) /\ Holds(b, 16 + w, info.dst.bytes)
        /\ Holds(b, 16 + (w + w), U16(info.sport)) /\ Holds(b, 16 + (w + w + 2), U16(info.dport))
    BY ONLY <1>3, <1>5, <1>6, <1>7, all \in Seq(Octet), w \in Nat, HoldsIn
  <1>9. 16 + 0 = 16 /\ 16 + (w + w) = 16 + w + w /\ 16 + (w + w + 2) = 16 + w + w + 2
    OBVIOUS
  <1>10. AddrPlaces(b, 16, info, w)
    BY ONLY <1>1, <1>8, <1>9 DEF AddrPlaces
  <1> QED
    BY <1>10

LEMMA HeldWord ==
  ASSUME NEW s, NEW at \in Nat, NEW n \in Nat, n < 65536, Holds(s, at, U16(n))
  PROVE  256 * s[at + 1] + s[at + 2] = n
  <1>1. n % 65536 = n
    BY ONLY n \in Nat, n < 65536
  <1>2. Len(U16(n)) = 2 /\ 256 * U16(n)[1] + U16(n)[2] = n
    BY ONLY n \in Nat, <1>1, U16Is
  <1>3. s[at + 1] = U16(n)[1] /\ s[at + 2] = U16(n)[2]
    BY ONLY <1>2, Holds(s, at, U16(n)) DEF Holds
  <1> QED
    BY ONLY <1>2, <1>3

(* The sixteen bytes in front, as pp2_parse_hdr takes them apart.          *)
FrontIs(b, family, transport, len) ==
  /\ SubSeq(b, 1, 12) = Signature
  /\ b[13] \div 16 = 2 /\ b[13] % 16 \in {0, 1}
  /\ b[14] \div 16 = family /\ b[14] % 16 = transport
  /\ 256 * b[15] + b[16] = len

LEMMA FrontRead ==
  ASSUME NEW info, Sendable(info), Padded(info) < 65536, NEW b, b = Header2(info)
  PROVE  FrontIs(b, info.family, info.transport, Padded(info) - 16)
  <1>0. b \in Seq(Octet)
    BY Header2Is
  <1>1. b \in Seq(Octet) /\ 256 * b[15] + b[16] = (Padded(info) - 16) % 65536
    BY Header2Is
  <1>2. Padded(info) \in Nat /\ Padded(info) >= 16
    <2>1. Plain(info) \in Nat /\ Plain(info) >= 16
      BY PlainIs
    <2>2. Padded(info) \in Nat /\ Padded(info) >= Plain(info)
      BY PaddedIs
    <2> QED
      BY ONLY <2>1, <2>2
  <1>3. (Padded(info) - 16) % 65536 = Padded(info) - 16
    BY ONLY <1>2, Padded(info) < 65536
  <1>4. Holds(b, 0, Signature) /\ Holds(b, 12, Kind(info))
    BY ONLY Sendable(info), b = Header2(info), Layout
  <1>5. SubSeq(b, 1, 12) = Signature
    <2>1. Signature \in Seq(Octet) /\ Len(Signature) = 12
      BY DEF Signature, Octet
    <2>2. SubSeq(b, 0 + 1, 0 + Len(Signature)) = Signature
      <3>1. 0 \in Nat
        OBVIOUS
      <3> QED
        BY ONLY <1>0, <1>4, <2>1, <3>1, HeldIsCut
    <2>3. 0 + 1 = 1 /\ 0 + Len(Signature) = 12
      BY ONLY <2>1
    <2> QED
      BY ONLY <2>2, <2>3
  <1>6. b[13] = Kind(info)[1] /\ b[14] = Kind(info)[2]
    <2>1. Len(Kind(info)) = 2
      BY KindIs
    <2>2. b[12 + 1] = Kind(info)[1] /\ b[12 + 2] = Kind(info)[2]
      BY ONLY <1>4, <2>1 DEF Holds
    <2> QED
      BY ONLY <2>2
  <1>7. b[13] \in {32, 33}
    BY ONLY <1>6 DEF Kind
  <1>8. b[13] \div 16 = 2 /\ b[13] % 16 \in {0, 1}
    <2>1. CASE b[13] = 32
      BY ONLY <2>1
    <2>2. CASE b[13] = 33
      BY ONLY <2>2
    <2> QED
      BY ONLY <1>7, <2>1, <2>2
  <1>9. PICK family \in 0 .. 3, transport \in 0 .. 2 : family = info.family /\ transport = info.transport
    <2>1. info.family \in 0 .. 3 /\ info.transport \in 0 .. 2
      BY SendableIs
    <2> QED
      BY ONLY <2>1
  <1>10. b[14] = 16 * family + transport
    BY ONLY <1>6, <1>9 DEF Kind
  <1>11. b[14] \div 16 = family
    BY ONLY <1>10, family \in 0 .. 3, transport \in 0 .. 2
  <1>12. b[14] % 16 = transport
    BY ONLY <1>10, family \in 0 .. 3, transport \in 0 .. 2
  <1> QED
    BY ONLY <1>1, <1>3, <1>5, <1>8, <1>9, <1>11, <1>12 DEF FrontIs

(* The pp_info_t in front of the addresses.                                *)
Before(command, family, transport) ==
  [Cleared EXCEPT !.local = 1 - command, !.family = family, !.transport = transport]

LEMMA BeforeIs ==
  ASSUME NEW command, NEW family, NEW transport
  PROVE  LET info == Before(command, family, transport) IN
         Started(info) /\ info.family = family /\ info.transport = transport
  BY InfoMembers DEF Before, Started, Cleared

(* The pp_info_t behind them.                                              *)
SameBase(base, info) ==
  /\ Started(base) /\ base.family = info.family /\ base.transport = info.transport
  /\ info.family \in {INET, INET6} => SameEnds(base, info)

WithEnds(info, src, dst, sport, dport) ==
  [info EXCEPT !.src = src, !.dst = dst, !.sport = sport, !.dport = dport]

LEMMA WithEndsIs ==
  ASSUME NEW info, Started(info), NEW src, NEW dst, NEW sport, NEW dport
  PROVE  LET base == WithEnds(info, src, dst, sport, dport) IN
         /\ Started(base) /\ base.family = info.family /\ base.transport = info.transport
         /\ base.src = src /\ base.dst = dst /\ base.sport = sport /\ base.dport = dport
  BY InfoMembers DEF WithEnds, Started

LEMMA PathsKept ==
  ASSUME NEW info, Started(info), NEW src, NEW dst
  PROVE  LET base == [info EXCEPT !.src = src, !.dst = dst] IN
         Started(base) /\ base.family = info.family /\ base.transport = info.transport
  BY InfoMembers DEF Started

(* The three kinds of addresses.                                           *)
Ends(info, b, w) ==
  LET part(from, n) == SubSeq(b, from, from + n - 1)
      word(at)      == 256 * b[at] + b[at + 1]
  IN  WithEnds(info, TextOf(info.family, part(17, w)), TextOf(info.family, part(17 + w, w)),
               word(17 + 2 * w), word(19 + 2 * w))

LEMMA AddrCases ==
  ASSUME NEW info, NEW b
  PROVE  /\ info.family = UNSPEC => TakeAddr(info, b) = info
         /\ info.family = UNIX => \E src, dst : TakeAddr(info, b) = [info EXCEPT !.src = src, !.dst = dst]
         /\ info.family \notin {UNSPEC, UNIX} =>
              TakeAddr(info, b) = Ends(info, b, IF info.family = INET THEN 4 ELSE 16)
  <1> DEFINE part(from, n) == SubSeq(b, from, from + n - 1)
             word(at)      == 256 * b[at] + b[at + 1]
             width         == IF info.family = INET THEN 4 ELSE 16
             one  == PathText(part(17, UnixPath))
             two  == PathText(part(17 + UnixPath, UnixPath))
             path == [info EXCEPT !.src = one, !.dst = two]
             inet == [info EXCEPT !.src = TextOf(info.family, part(17, width)),
                                  !.dst = TextOf(info.family, part(17 + width, width)),
                                  !.sport = word(17 + 2 * width), !.dport = word(19 + 2 * width)]
  <1>1. TakeAddr(info, b) = CASE info.family = UNSPEC -> info [] info.family = UNIX -> path [] OTHER -> inet
    BY DEF TakeAddr
  <1>2. inet = Ends(info, b, width)
    BY DEF Ends, WithEnds
  <1>3. \E src, dst : path = [info EXCEPT !.src = src, !.dst = dst]
    <2> HIDE DEF one, two
    <2> QED
      OBVIOUS
  <1>4. UNSPEC # UNIX
    BY DEF UNSPEC, UNIX
  <1> HIDE DEF path, inet
  <1>5. info.family = UNSPEC => TakeAddr(info, b) = info
    BY ONLY <1>1, <1>4
  <1>6. info.family = UNIX => TakeAddr(info, b) = path
    BY ONLY <1>1, <1>4
  <1>7. info.family \notin {UNSPEC, UNIX} => TakeAddr(info, b) = inet
    BY ONLY <1>1, <1>4
  <1> QED
    BY <1>2, <1>3, <1>5, <1>6, <1>7

LEMMA AddrTaken ==
  ASSUME NEW info, Sendable(info), NEW b, b = Header2(info), NEW command,
         NEW family, family = info.family, NEW transport, transport = info.transport
  PROVE  SameBase(TakeAddr(Before(command, family, transport), b), info)
  <1>1. PICK begun : begun = Before(command, family, transport)
    OBVIOUS
  <1>2. Started(begun) /\ begun.family = info.family /\ begun.transport = info.transport
    BY ONLY <1>1, family = info.family, transport = info.transport, BeforeIs
  <1>3. info.family \in 0 .. 3
    BY SendableIs
  <1>4. UNSPEC = 0 /\ INET = 1 /\ INET6 = 2 /\ UNIX = 3
    BY DEF UNSPEC, INET, INET6, UNIX
  <1>5. CASE info.family = UNSPEC
    <2>1. TakeAddr(begun, b) = begun
      BY ONLY <1>2, <1>5, AddrCases
    <2> QED
      BY ONLY <1>1, <1>2, <1>4, <1>5, <2>1 DEF SameBase
  <1>6. CASE info.family = UNIX
    <2>1. \E src, dst : TakeAddr(begun, b) = [begun EXCEPT !.src = src, !.dst = dst]
      BY ONLY <1>2, <1>6, AddrCases
    <2>2. PICK src, dst : TakeAddr(begun, b) = [begun EXCEPT !.src = src, !.dst = dst]
      BY ONLY <2>1
    <2>3. PICK base : base = [begun EXCEPT !.src = src, !.dst = dst]
      OBVIOUS
    <2>4. Started(base) /\ base.family = begun.family /\ base.transport = begun.transport
      <3>1. Started(begun)
        BY ONLY <1>2
      <3>2. LET kept == [begun EXCEPT !.src = src, !.dst = dst] IN
            Started(kept) /\ kept.family = begun.family /\ kept.transport = begun.transport
        BY ONLY <3>1, PathsKept, Zenon
      <3> QED
        BY ONLY <2>3, <3>2
    <2> QED
      BY ONLY <1>1, <1>2, <1>4, <1>6, <2>2, <2>3, <2>4 DEF SameBase
  <1>7. CASE info.family \in {INET, INET6}
    <2>1. PICK w \in Nat : AddrPlaces(b, 16, info, w)
      BY <1>7, AddrHeld
    <2>2. b \in Seq(Octet)
      BY Header2Is
    <2>3. PICK src \in Seq(Octet), dst \in Seq(Octet) :
            /\ src = info.src.bytes /\ dst = info.dst.bytes /\ Len(src) = w /\ Len(dst) = w
            /\ Holds(b, 16, src) /\ Holds(b, 16 + w, dst)
      BY ONLY <2>1 DEF AddrPlaces
    <2>4. PICK sport \in Nat, dport \in Nat :
            sport = info.sport /\ dport = info.dport /\ sport < 65536 /\ dport < 65536
      <3>1. FilledIn(info)
        BY DEF Sendable
      <3>2. info.sport \in Word /\ info.dport \in Word
        BY ONLY <3>1 DEF FilledIn
      <3>4. \A n \in Word : n \in Nat /\ n < 65536
        BY ONLY DEF Word
      <3>5. PICK sport \in Word, dport \in Word : sport = info.sport /\ dport = info.dport
        BY ONLY <3>2
      <3> QED
        BY ONLY <3>4, <3>5
    <2>5. Holds(b, 16 + w + w, U16(sport)) /\ Holds(b, 16 + w + w + 2, U16(dport))
      BY ONLY <2>1, <2>4 DEF AddrPlaces
    <2>6. w = IF begun.family = INET THEN 4 ELSE 16
      BY ONLY <1>2, <2>1 DEF AddrPlaces
    <2>7. 16 \in Nat /\ 16 + w \in Nat /\ 16 + w + w \in Nat /\ 16 + w + w + 2 \in Nat
      OBVIOUS
    <2>8. SubSeq(b, 17, 17 + w - 1) = src
      <3>1. SubSeq(b, 16 + 1, 16 + Len(src)) = src
        BY ONLY <2>2, <2>3, <2>7, src \in Seq(Octet), HeldIsCut
      <3>2. 16 + 1 = 17 /\ 16 + Len(src) = 17 + w - 1
        BY <2>3
      <3> QED
        BY ONLY <3>1, <3>2
    <2>9. SubSeq(b, 17 + w, (17 + w) + w - 1) = dst
      <3>1. SubSeq(b, (16 + w) + 1, (16 + w) + Len(dst)) = dst
        BY ONLY <2>2, <2>3, <2>7, dst \in Seq(Octet), HeldIsCut
      <3>2. (16 + w) + 1 = 17 + w /\ (16 + w) + Len(dst) = (17 + w) + w - 1
        BY <2>3
      <3> QED
        BY ONLY <3>1, <3>2
    <2>10. 256 * b[17 + 2 * w] + b[17 + 2 * w + 1] = sport
      <3>1. 256 * b[(16 + w + w) + 1] + b[(16 + w + w) + 2] = sport
        BY ONLY <2>4, <2>5, <2>7, sport \in Nat, HeldWord
      <3>2. (16 + w + w) + 1 = 17 + 2 * w /\ (16 + w + w) + 2 = 17 + 2 * w + 1
        OBVIOUS
      <3> QED
        BY ONLY <3>1, <3>2
    <2>11. 256 * b[19 + 2 * w] + b[19 + 2 * w + 1] = dport
      <3>1. 256 * b[(16 + w + w + 2) + 1] + b[(16 + w + w + 2) + 2] = dport
        BY ONLY <2>4, <2>5, <2>7, dport \in Nat, HeldWord
      <3>2. (16 + w + w + 2) + 1 = 19 + 2 * w /\ (16 + w + w + 2) + 2 = 19 + 2 * w + 1
        OBVIOUS
      <3> QED
        BY ONLY <3>1, <3>2
    <2>12. begun.family # UNSPEC /\ begun.family # UNIX
      BY ONLY <1>2, <1>4, <1>7
    <2>13. TakeAddr(begun, b) = WithEnds(begun, TextOf(begun.family, src), TextOf(begun.family, dst), sport, dport)
      <3>1. TakeAddr(begun, b) = Ends(begun, b, w)
        BY ONLY <2>6, <2>12, AddrCases
      <3> QED
        BY ONLY <2>8, <2>9, <2>10, <2>11, <3>1 DEF Ends
    <2>14. TextOf(begun.family, src) = info.src /\ TextOf(begun.family, dst) = info.dst
      <3>1. AddressText(info.src, info.family) /\ AddressText(info.dst, info.family)
        BY SendableHas
      <3>2. info.src.fam = info.family /\ info.dst.fam = info.family
        BY <1>7, SendableIs
      <3> QED
        BY ONLY <1>2, <1>7, <2>3, <3>1, <3>2 DEF AddressText
    <2>15. PICK base : base = WithEnds(begun, info.src, info.dst, sport, dport)
      OBVIOUS
    <2>16. /\ Started(base) /\ base.family = begun.family /\ base.transport = begun.transport
           /\ base.src = info.src /\ base.dst = info.dst /\ base.sport = sport /\ base.dport = dport
      BY ONLY <1>2, <2>15, WithEndsIs
    <2> QED
      BY ONLY <1>1, <1>2, <2>4, <2>13, <2>14, <2>15, <2>16 DEF SameBase, SameEnds
  <1> QED
    BY ONLY <1>3, <1>4, <1>5, <1>6, <1>7

(* pp2_parse_hdr of a header that is there as far as it announces.         *)
Behind2(info, b, family, len) ==
  Amid(info, b, 16 + AddrLen(family), IF family = UNIX THEN 0 ELSE len - AddrLen(family))

ReadOn(b, n, family, transport, len) ==
  \E command, end :
    /\ end = AllTlvs(Behind2(TakeAddr(Before(command, family, transport), b), b, family, len), len \div 3)
    /\ Parse2(b, n) = IF end.rc < 0 THEN end ELSE [end EXCEPT !.rc = 16 + len]

StartOf(info, b) == [rc |-> 0, info |-> info, buf |-> b, at |-> 17, left |-> 0]
StartAt(info, more, b, at, left) == [StartOf(info, b) EXCEPT !.info = more, !.at = at, !.left = left]

LEMMA StartMoved ==
  ASSUME NEW info, NEW more, NEW b, NEW read, NEW at, at = read + 1, NEW left
  PROVE  StartAt(info, more, b, at, left) = Amid(more, b, read, left)
  <1> DEFINE one == [rc |-> 0, info |-> more, buf |-> b, at |-> 17, left |-> 0]
             two == [rc |-> 0, info |-> more, buf |-> b, at |-> at, left |-> 0]
             all == [rc |-> 0, info |-> more, buf |-> b, at |-> at, left |-> left]
  <1>1. [StartOf(info, b) EXCEPT !.info = more] = one
    BY DEF StartOf
  <1>2. [one EXCEPT !.at = at] = two
    OBVIOUS
  <1>3. [two EXCEPT !.left = left] = all
    OBVIOUS
  <1>4. StartAt(info, more, b, at, left) = all
    <2>1. StartAt(info, more, b, at, left)
            = [[[StartOf(info, b) EXCEPT !.info = more] EXCEPT !.at = at] EXCEPT !.left = left]
      BY ONLY DEF StartAt, StartOf
    <2> HIDE DEF one, two, all
    <2> QED
      BY ONLY <1>1, <1>2, <1>3, <2>1
  <1> QED
    BY ONLY <1>4, at = read + 1 DEF Amid

(* Its refusals, one after the other, and what it answers otherwise.       *)
Choice2(start, command, family, transport, here, len, end) ==
  IF command > 1 THEN Fail(start, "PP2_CMD")
  ELSE IF family > UNIX THEN Fail(start, "PP2_ADDR_FAMILY")
  ELSE IF transport > DGRAM THEN Fail(start, "PP2_TRANSPORT_PROTOCOL")
  ELSE IF ~here \/ len < AddrLen(family) THEN Fail(start, "PP2_LENGTH")
  ELSE IF end.rc < 0 THEN end
  ELSE [end EXCEPT !.rc = 16 + len]

EndOf(info, b, family, len) ==
  AllTlvs(StartAt(info, TakeAddr(info, b), b, 17 + AddrLen(family),
                  IF family = UNIX THEN 0 ELSE len - AddrLen(family)), len \div 3)

LEMMA Parse2Chosen ==
  ASSUME NEW b, NEW n
  PROVE  LET family == b[14] \div 16
             len    == 256 * b[15] + b[16]
             info   == Before(b[13] % 16, family, b[14] % 16)
         IN  b[13] \div 16 = 2 =>
               Parse2(b, n) = Choice2(StartOf(info, b), b[13] % 16, family, b[14] % 16, Arrived(b, n), len,
                                      EndOf(info, b, family, len))
  BY DEF Parse2, Choice2, EndOf, StartAt, StartOf, Before, AllTlvs

LEMMA Parse2Is ==
  ASSUME NEW b \in Seq(Octet), Len(b) >= 16, NEW n \in Nat, NEW family \in 0 .. 3, NEW transport \in 0 .. 2,
         NEW len \in Nat, FrontIs(b, family, transport, len), n >= 16 + len, len >= AddrLen(family)
  PROVE  ReadOn(b, n, family, transport, len)
  <1>1. /\ b[13] \div 16 = 2 /\ b[13] % 16 \in {0, 1}
        /\ b[14] \div 16 = family /\ b[14] % 16 = transport /\ 256 * b[15] + b[16] = len
    BY DEF FrontIs
  <1>2. PICK command \in {0, 1} : command = b[13] % 16
    BY <1>1
  <1>3. PICK info, end : info = Before(command, family, transport) /\ end = EndOf(info, b, family, len)
    OBVIOUS
  <1>4. Parse2(b, n) = Choice2(StartOf(info, b), command, family, transport, Arrived(b, n), len, end)
    BY ONLY <1>1, <1>2, <1>3, Parse2Chosen
  <1>5. ~(command > 1) /\ ~(family > UNIX) /\ ~(transport > DGRAM)
    BY DEF UNIX, DGRAM
  <1>6. Arrived(b, n)
    <2>1. b[15] \in Nat /\ b[16] \in Nat
      <3>1. 15 \in 1 .. Len(b) /\ 16 \in 1 .. Len(b)
        OBVIOUS
      <3> QED
        BY <3>1, ByteAt
    <2>2. 16 + 256 * b[15] + b[16] = 16 + len
      BY <1>1, <2>1
    <2> QED
      BY ONLY <2>2, n >= 16 + len DEF Arrived
  <1>7. AddrLen(family) \in Nat
    BY AddrLenType DEF UNSPEC, UNIX
  <1>8. ~(len < AddrLen(family))
    BY <1>7
  <1>9. Parse2(b, n) = IF end.rc < 0 THEN end ELSE [end EXCEPT !.rc = 16 + len]
    BY ONLY <1>4, <1>5, <1>6, <1>8, Zenon DEF Choice2
  <1>10. end = AllTlvs(Behind2(TakeAddr(info, b), b, family, len), len \div 3)
    <2>1. PICK at, more, left : /\ at = 17 + AddrLen(family) /\ more = TakeAddr(info, b)
                                /\ left = IF family = UNIX THEN 0 ELSE len - AddrLen(family)
      OBVIOUS
    <2>2. PICK read \in Nat : read = 16 + AddrLen(family) /\ at = read + 1
      BY <1>7, <2>1
    <2>3. StartAt(info, more, b, at, left) = Amid(more, b, read, left)
      BY ONLY <2>2, StartMoved
    <2> QED
      BY ONLY <1>3, <2>1, <2>2, <2>3 DEF EndOf, Behind2
  <1> QED
    BY ONLY <1>3, <1>9, <1>10, Zenon DEF ReadOn

(* Behind the addresses the parser is in its buffer.                       *)
LEMMA RoundsWithin ==
  ASSUME NEW b \in Seq(Octet), NEW at \in Nat, NEW left \in Nat, at + left <= Len(b),
         NEW command, NEW family, NEW transport, NEW base,
         base = TakeAddr(Before(command, family, transport), b), NEW rounds \in Nat
  PROVE  DOMAIN AllTlvs(Amid(base, b, at, left), rounds) = {"rc", "info", "buf", "at", "left"}
  <1>1. PICK start : start = Amid(base, b, at, left)
    OBVIOUS
  <1>2. Roomy(Before(command, family, transport))
    BY ClearedRoomy DEF Before
  <1>3. Roomy(base)
    BY ONLY <1>2, base = TakeAddr(Before(command, family, transport), b), AddrRoomy
  <1>4. Reading(start)
    BY ONLY <1>1, <1>3 DEF Amid, Reading
  <1>5. start.buf = b /\ start.at = at + 1 /\ start.left = left
    BY ONLY <1>1 DEF Amid
  <1>6. Len(b) \in Nat
    OBVIOUS
  <1>7. InBuffer(start)
    <2>1. start.at \in Nat \ {0} /\ start.left \in Int /\ start.at + start.left <= Len(start.buf) + 1
      BY ONLY <1>5, <1>6, at \in Nat, left \in Nat, at + left <= Len(b)
    <2>2. start.buf \in Seq(Octet)
      BY <1>5
    <2> QED
      BY ONLY <1>4, <2>1, <2>2 DEF InBuffer
  <1>8. InBuffer(AllTlvs(start, rounds))
    BY ONLY <1>7, rounds \in Nat, AllTlvsKeep
  <1> QED
    BY ONLY <1>1, <1>8 DEF InBuffer, Reading

LEMMA WithAnswer ==
  ASSUME NEW end, DOMAIN end = {"rc", "info", "buf", "at", "left"}, NEW rc
  PROVE  [end EXCEPT !.rc = rc].rc = rc /\ [end EXCEPT !.rc = rc].info = end.info
  OBVIOUS

(* What a header that has arrived whole answers.                           *)
Answered(result, info, items) ==
  /\ result.rc = Padded(info)
  /\ \E base : SameBase(base, info) /\ Final(result.info, base, info.ssl, items, Len(items), info.crc32c)

(* None of the TLVs behind a socket path is looked at.                     *)
LEMMA NoneRead ==
  ASSUME NEW base, Started(base), NEW b, NEW at, NEW items, items = <<>>, NEW ssl, NEW rounds \in Nat
  PROVE  Done(AllTlvs(Amid(base, b, at, 0), rounds), base, ssl, items, Len(items), 0)
  <1>1. PICK start : start = Amid(base, b, at, 0)
    OBVIOUS
  <1>2. PICK f : /\ f[0] = start /\ AllTlvs(start, rounds) = f[rounds]
                 /\ \A k \in 1 .. rounds : f[k] = NextTlv(f[k - 1])
    <2>1. PICK f : TlvChain(f, start, rounds)
      BY ONLY rounds \in Nat, LoopsAre
    <2> QED
      BY ONLY <2>1 DEF TlvChain
  <1>3. f[0].left <= 3
    BY ONLY <1>1, <1>2 DEF Amid
  <1>4. f[rounds] = f[0]
    <2>1. 0 \in Nat /\ 0 <= rounds
      OBVIOUS
    <2> QED
      BY ONLY <1>2, <1>3, <2>1, rounds \in Nat, Stutters
  <1>5. Reached(start, base, ssl, items, 0, b, at, 0)
    BY ONLY <1>1, Started(base), RunBegins
  <1>6. Done(start, base, ssl, items, 0, 0)
    <2>1. 0 \in Nat /\ 0 <= 3
      OBVIOUS
    <2> QED
      BY ONLY <1>5, <2>1, DonePlain
  <1>7. Len(items) = 0
    BY ONLY items = <<>>
  <1> QED
    BY ONLY <1>1, <1>2, <1>4, <1>6, <1>7

(* The header of a sender whose TLVs are recorded, read whole.             *)
LEMMA WholeAnswered ==
  ASSUME NEW info, Honest(info),
         NEW b, b = Header2(info), NEW n \in Nat, n >= Padded(info),
         NEW items, NEW q, Recorded(info.ssl, info.tlvs, items, q), Len(items) \in Nat,
         info.family = UNIX => items = <<>> /\ info.crc32c = 0
  PROVE  Answered(Parse2(b, n), info, items)
  <1> /\ Sendable(info) /\ Padded(info) < 65536 /\ LastSeen(info)
      /\ ~(info.crc32c = 1 /\ BehindTheEnd(info))
    BY DEF Honest
  <1>1. PICK N \in Nat, len \in Nat : N = Padded(info) /\ N = 16 + len
    <2>1. Plain(info) \in Nat /\ Plain(info) >= 16
      BY PlainIs
    <2>2. Padded(info) \in Nat /\ Padded(info) >= Plain(info)
      BY PaddedIs
    <2>3. Padded(info) - 16 \in Nat /\ Padded(info) = 16 + (Padded(info) - 16)
      BY ONLY <2>1, <2>2
    <2> QED
      BY ONLY <2>2, <2>3
  <1>2. b \in Seq(Octet) /\ Len(b) = N
    <2>1. b \in Seq(Octet) /\ Len(b) = Padded(info)
      BY ONLY Sendable(info), b = Header2(info), Header2Is
    <2> QED
      BY ONLY <1>1, <2>1
  <1>3. PICK family \in 0 .. 3, transport \in 0 .. 2 : family = info.family /\ transport = info.transport
    <2>1. info.family \in 0 .. 3 /\ info.transport \in 0 .. 2
      BY SendableIs
    <2> QED
      BY ONLY <2>1
  <1>4. FrontIs(b, family, transport, len)
    <2>1. FrontIs(b, info.family, info.transport, Padded(info) - 16)
      BY FrontRead
    <2>2. Padded(info) - 16 = len
      BY ONLY <1>1
    <2> QED
      BY ONLY <1>3, <2>1, <2>2
  <1>5. PICK a \in Nat, l \in Nat, gap \in Nat, c \in Nat : Parts(info, a, l, gap, c)
    BY ONLY Sendable(info), PartsAre
  <1>6. a = AddrLen(family) /\ len = a + (l + gap + c) /\ len >= a /\ len - a = l + gap + c
    <2>1. a = AddrLen(family) /\ Padded(info) = 16 + a + l + gap + c
      BY ONLY <1>3, <1>5 DEF Parts
    <2>2. 16 + len = 16 + a + l + gap + c
      BY ONLY <1>1, <2>1
    <2>3. len = a + (l + gap + c) /\ len >= a /\ len - a = l + gap + c
      BY ONLY <2>2, len \in Nat, a \in Nat, l \in Nat, gap \in Nat, c \in Nat
    <2> QED
      BY ONLY <2>1, <2>3
  <1>7. ReadOn(b, n, family, transport, len)
    <2>1. Len(b) >= 16 /\ n >= 16 + len
      BY ONLY <1>1, <1>2, n >= Padded(info)
    <2>2. b \in Seq(Octet)
      BY <1>2
    <2>3. len >= AddrLen(family)
      BY ONLY <1>6
    <2> QED
      BY ONLY <1>4, <2>1, <2>2, <2>3, n \in Nat, len \in Nat, family \in 0 .. 3, transport \in 0 .. 2, Parse2Is
  <1>8. PICK command, end :
          /\ end = AllTlvs(Behind2(TakeAddr(Before(command, family, transport), b), b, family, len), len \div 3)
          /\ Parse2(b, n) = IF end.rc < 0 THEN end ELSE [end EXCEPT !.rc = 16 + len]
    BY ONLY <1>7, Zenon DEF ReadOn
  <1>9. PICK base : base = TakeAddr(Before(command, family, transport), b)
    OBVIOUS
  <1>10. SameBase(base, info) /\ Started(base)
    <2>1. SameBase(base, info)
      BY ONLY <1>3, <1>9, Sendable(info), b = Header2(info), AddrTaken
    <2> QED
      BY ONLY <2>1 DEF SameBase
  <1>11. PICK left \in Nat : /\ left = (IF family = UNIX THEN 0 ELSE l + gap + c) /\ 16 + a + left <= N
    BY ONLY <1>1, <1>6, a \in Nat, l \in Nat, gap \in Nat, c \in Nat
  <1>12. PICK rounds \in Nat : rounds = len \div 3
    BY ONLY len \in Nat
  <1>13. PICK start : start = Amid(base, b, 16 + a, left) /\ end = AllTlvs(start, rounds)
    <2>1. Behind2(base, b, family, len) = Amid(base, b, 16 + a, left)
      BY ONLY <1>6, <1>11 DEF Behind2
    <2> QED
      BY ONLY <1>8, <1>9, <1>12, <2>1
  <1>14. Done(end, base, info.ssl, items, Len(items), info.crc32c)
    <2>1. CASE family = UNIX
      <3>1. left = 0 /\ items = <<>> /\ info.crc32c = 0
        BY ONLY <1>3, <1>11, <2>1, info.family = UNIX => items = <<>> /\ info.crc32c = 0
      <3>2. start = Amid(base, b, 16 + a, 0)
        BY ONLY <1>13, <3>1
      <3>3. Done(AllTlvs(Amid(base, b, 16 + a, 0), rounds), base, info.ssl, items, Len(items), 0)
        BY ONLY <1>10, <3>1, rounds \in Nat, NoneRead
      <3> QED
        BY ONLY <1>13, <3>1, <3>2, <3>3
    <2>2. CASE family # UNIX
      <3>1. start = Amid(base, b, 16 + a, l + gap + c)
        BY ONLY <1>11, <1>13, <2>2
      <3>2. rounds = (Padded(info) - 16) \div 3
        <4>1. Padded(info) - 16 = len
          BY ONLY <1>1
        <4> QED
          BY ONLY <1>12, <4>1
      <3>3. Done(AllTlvs(start, rounds), base, info.ssl, items, Len(items), info.crc32c)
        <4>1. TlvsSet(info, b, a, l, gap, c, items, q, base, start, rounds)
          BY ONLY <1>5, <1>10, <3>1, <3>2, b = Header2(info), a \in Nat, l \in Nat, gap \in Nat, c \in Nat,
                  Recorded(info.ssl, info.tlvs, items, q), Len(items) \in Nat DEF TlvsSet
        <4> QED
          BY ONLY Honest(info), <4>1, TlvsRead
      <3> QED
        BY ONLY <1>13, <3>3
    <2> QED
      BY ONLY <2>1, <2>2
  <1>15. DOMAIN end = {"rc", "info", "buf", "at", "left"}
    <2>1. 16 + a \in Nat /\ (16 + a) + left <= Len(b)
      BY ONLY <1>2, <1>11, a \in Nat
    <2>2. b \in Seq(Octet)
      BY <1>2
    <2>3. DOMAIN AllTlvs(Amid(base, b, 16 + a, left), rounds) = {"rc", "info", "buf", "at", "left"}
      BY ONLY <1>9, <2>1, <2>2, left \in Nat, rounds \in Nat, RoundsWithin
    <2> QED
      BY ONLY <1>13, <2>3
  <1>16. end.rc = 0 /\ Final(end.info, base, info.ssl, items, Len(items), info.crc32c)
    BY ONLY <1>14 DEF Done
  <1>17. PICK rc : rc = 16 + len
    OBVIOUS
  <1>18. Parse2(b, n) = [end EXCEPT !.rc = rc]
    BY ONLY <1>8, <1>16, <1>17
  <1>19. Parse2(b, n).rc = rc /\ Parse2(b, n).info = end.info
    BY ONLY <1>15, <1>18, WithAnswer
  <1> QED
    BY ONLY <1>1, <1>10, <1>16, <1>17, <1>19 DEF Answered

(* A TLV without a value is the last one only if the last that was given   *)
(* has none.                                                               *)
LEMMA ValueSeen ==
  ASSUME NEW type, NEW value \in Seq(Octet), NEW item, Spelt(type, value, item)
  PROVE  value # <<>> \/ item[2] = <<>>
  <1>1. CASE type \in {Type.ALPN, Type.AUTHORITY} /\ item = <<type, value>>
    BY ONLY <1>1
  <1>2. CASE type = Type.UNIQUE_ID /\ Len(value) <= 128 /\ item = <<type, value>>
    BY ONLY <1>2
  <1>3. CASE type = Type.NETNS /\ value # <<>> /\ item = <<type, Append(value, 0)>>
    BY ONLY <1>3
  <1>4. CASE type = Type.AWS /\ \E v \in Seq(Octet) : v # <<>> /\ value = <<1>> \o v /\ item = <<type, Append(v, 0)>>
    <2>1. PICK v \in Seq(Octet) : value = <<1>> \o v
      BY ONLY <1>4
    <2>2. (<<1>> \o v)[1] = 1 /\ Len(<<1>> \o v) > 0
      BY ONLY v \in Seq(Octet)
    <2> QED
      BY ONLY <2>1, <2>2
  <1>5. CASE type = Type.AZURE /\ value = <<1>> \o <<1, 0, 0, 0>> /\ item = <<type, <<1, 0, 0, 0>>>>
    <2>1. item[2] = <<1, 0, 0, 0>>
      BY ONLY <1>5
    <2>2. Len(<<1>> \o <<1, 0, 0, 0>>) > 0
      OBVIOUS
    <2> QED
      BY ONLY <1>5, <2>2
  <1> QED
    BY ONLY Spelt(type, value, item), <1>1, <1>2, <1>3, <1>4, <1>5, Zenon DEF Spelt

LEMMA EntrySeen ==
  ASSUME NEW ssl, Bits01(ssl), NEW type, NEW value \in Seq(Octet), NEW items, NEW q, NEW r,
         Entry(ssl, type, value, items, q, r)
  PROVE  value # <<>> \/ items[r][2] = <<>>
  <1>1. CASE Spelt(type, value, items[r])
    BY ONLY <1>1, value \in Seq(Octet), ValueSeen
  <1>2. CASE \E v \in Seq(Octet), cn \in Seq(Octet) : value = SslValue(ssl, v, cn)
    <2>1. PICK v \in Seq(Octet), cn \in Seq(Octet) : value = SslValue(ssl, v, cn)
      BY ONLY <1>2
    <2>2. PICK n \in Nat, c \in Nat : Len(v) = n /\ Len(cn) = c
      OBVIOUS
    <2>3. {ssl.ssl, ssl.conn, ssl.verified} \subseteq {0, 1}
      BY DEF Bits01
    <2>4. Len(value) = 21 + 3 * n + c
      BY ONLY <2>1, <2>2, <2>3, v \in Seq(Octet), cn \in Seq(Octet), n \in Nat, c \in Nat, SslParts
    <2>5. Len(value) > 0
      BY ONLY <2>4, n \in Nat, c \in Nat
    <2> QED
      BY ONLY <2>5
  <1> QED
    BY <1>1, <1>2 DEF Entry

LEMMA LastValue ==
  ASSUME NEW ssl, Bits01(ssl), NEW tlvs \in Seq(Seq(Octet)), NEW items \in Seq(Items), NEW q,
         Recorded(ssl, tlvs, items, q), NEW n \in Nat, n = Len(tlvs), n > 0
  PROVE  Len(tlvs[n]) > 3 \/ (items # <<>> /\ Last(items)[2] = <<>>)
  <1>1. n \in 1 .. Len(tlvs)
    BY ONLY n \in Nat, n = Len(tlvs), n > 0
  <1>2. q[n] = Len(items) /\ Packed(ssl, tlvs[n], items, q[n - 1], q[n]) /\ q[n - 1] \in Nat
    <2>1. n - 1 \in 0 .. Len(tlvs)
      BY ONLY <1>1
    <2>2. /\ q \in [0 .. Len(tlvs) -> 0 .. Len(items)] /\ q[Len(tlvs)] = Len(items)
          /\ \A k \in 1 .. Len(tlvs) : Packed(ssl, tlvs[k], items, q[k - 1], q[k])
      BY ONLY Recorded(ssl, tlvs, items, q) DEF Recorded
    <2>3. q[n - 1] \in 0 .. Len(items)
      BY ONLY <2>1, <2>2
    <2>4. q[n] = Len(items)
      BY ONLY n = Len(tlvs), <2>2
    <2>5. Packed(ssl, tlvs[n], items, q[n - 1], q[n])
      BY ONLY <1>1, <2>2
    <2> QED
      BY ONLY <2>3, <2>4, <2>5
  <1>3. PICK p, r : p \in Nat /\ p = q[n - 1] /\ r = Len(items) /\ Packed(ssl, tlvs[n], items, p, r)
    BY ONLY <1>2
  <1>4. PICK type \in Octet, value \in Seq(Octet) :
          tlvs[n] = Tlv(type, value) /\ Entry(ssl, type, value, items, p, r)
    BY ONLY <1>3 DEF Packed
  <1>5. Len(tlvs[n]) = 3 + Len(value)
    BY ONLY <1>4, type \in Octet, value \in Seq(Octet), TlvIs
  <1>6. value # <<>> \/ items[r][2] = <<>>
    BY ONLY <1>4, Bits01(ssl), value \in Seq(Octet), EntrySeen
  <1>7. r = p + 1 \/ r = p + 5
    BY ONLY <1>4 DEF Entry
  <1>8. items # <<>>
    <2>1. Len(items) > 0
      BY ONLY <1>3, <1>7
    <2> QED
      BY ONLY <2>1
  <1>9. Last(items) = items[r]
    BY ONLY <1>3 DEF Last
  <1>10. value # <<>> => Len(tlvs[n]) > 3
    <2>1. value # <<>> => Len(value) > 0 /\ Len(value) \in Nat
      BY ONLY value \in Seq(Octet)
    <2> QED
      BY ONLY <1>5, <2>1
  <1> QED
    BY ONLY <1>6, <1>8, <1>9, <1>10

(* The sender of an honest header, whatever it has done.                   *)
Told2 ==
  /\ Honest(sinfo) /\ given \in Seq(Items)
  /\ sinfo.family = UNIX => given = <<>> /\ sinfo.crc32c = 0
  /\ \E q : Recorded(sinfo.ssl, sinfo.tlvs, given, q)

LEMMA SenderHonest ==
  ASSUME ExchangeInv, GivenInv, InAWord, HeaderMade, use.version = 2, ~Lossy
  PROVE  Told2
  <1>1. Sendable(sinfo)
    BY DEF HeaderMade
  <1>2. ~Unnamed
    BY DEF Lossy, Unnamed
  <1>3. given \in Seq(Items)
    BY DEF GivenInv
  <1>4. PICK q : Recorded(sinfo.ssl, sinfo.tlvs, given, q)
    BY <1>2 DEF GivenInv
  <1>5. /\ sinfo.family = UNIX => given = <<>> /\ sinfo.crc32c # 1
        /\ ~(given # <<>> /\ Last(given)[2] = <<>> /\ sinfo.crc32c = 0 /\ Padded(sinfo) = Plain(sinfo))
        /\ ~(BehindTheEnd(sinfo) /\ sinfo.crc32c = 1)
    BY DEF Lossy
  <1>6. sinfo.crc32c \in {0, 1}
    BY ONLY <1>1, SendableHas
  <1>7. Bits01(sinfo.ssl)
    BY ONLY <1>1 DEF Sendable, FilledIn, Bits01
  <1>8. PICK tlvs \in Seq(Seq(Octet)) : tlvs = sinfo.tlvs
    BY ONLY <1>1 DEF Sendable
  <1>9. LastSeen(sinfo)
    <2>1. CASE sinfo.crc32c = 1 \/ Padded(sinfo) # Plain(sinfo)
      BY ONLY <2>1 DEF LastSeen
    <2>2. CASE ~(sinfo.crc32c = 1 \/ Padded(sinfo) # Plain(sinfo))
      <3>1. ~(given # <<>> /\ Last(given)[2] = <<>>)
        BY ONLY <1>5, <1>6, <2>2
      <3>2. ASSUME NEW n \in Nat, n = Len(sinfo.tlvs), n > 0
            PROVE  Len(sinfo.tlvs[n]) > 3
        <4>1. n = Len(tlvs)
          BY ONLY <1>8, <3>2
        <4>2. Recorded(sinfo.ssl, tlvs, given, q)
          BY ONLY <1>4, <1>8
        <4>3. Len(tlvs[n]) > 3 \/ (given # <<>> /\ Last(given)[2] = <<>>)
          BY ONLY <1>3, <1>7, <3>2, <4>1, <4>2, n \in Nat, tlvs \in Seq(Seq(Octet)), LastValue
        <4> QED
          BY ONLY <1>8, <3>1, <4>3
      <3> QED
        BY ONLY <3>2 DEF LastSeen
    <2> QED
      BY ONLY <2>1, <2>2
  <1>10. Honest(sinfo)
    BY ONLY <1>1, <1>5, <1>9, InAWord DEF Honest, InAWord
  <1> QED
    BY ONLY <1>3, <1>4, <1>5, <1>6, <1>10 DEF Told2

(* A version 2 header that has arrived whole is answered.                  *)
LEMMA WholeParsed ==
  ASSUME ExchangeInv, GivenInv, InAWord, HeaderMade, use.version = 2, Whole, ~Lossy
  PROVE  Answered(answer, sinfo, given) /\ Size(header) = Padded(sinfo)
  <1>1. Told2
    BY SenderHonest
  <1>2. PICK b : b = header.bytes /\ b = Header2(sinfo) /\ header.version = 2 /\ Len(b) = Padded(sinfo)
    BY DEF HeaderMade, Whole
  <1>3. Size(header) = Padded(sinfo)
    BY ONLY <1>2 DEF Size
  <1>4. PICK n \in Nat : n = arrived /\ n >= Padded(sinfo)
    BY <1>3 DEF ExchangeInv, Whole
  <1>5. PICK q : Recorded(sinfo.ssl, sinfo.tlvs, given, q)
    BY ONLY <1>1 DEF Told2
  <1>6. Len(given) \in Nat
    BY ONLY <1>1 DEF Told2
  <1>7. Honest(sinfo) /\ (sinfo.family = UNIX => given = <<>> /\ sinfo.crc32c = 0)
    BY ONLY <1>1 DEF Told2
  <1>8. Answered(Parse2(b, n), sinfo, given)
    BY ONLY <1>2, <1>4, <1>5, <1>6, <1>7, n \in Nat, WholeAnswered
  <1>9. answer.rc = Parse2(b, n).rc /\ answer.info = Parse2(b, n).info
    <2>1. Sendable(sinfo) /\ Padded(sinfo) < 65536
      BY ONLY <1>7 DEF Honest
    <2>2. SubSeq(b, 1, 12) = Signature
      <3>1. FrontIs(b, sinfo.family, sinfo.transport, Padded(sinfo) - 16)
        BY ONLY <1>2, <2>1, FrontRead
      <3> QED
        BY ONLY <3>1 DEF FrontIs
    <2>3. n >= 16
      <3>1. Plain(sinfo) \in Nat /\ Plain(sinfo) >= 16
        BY ONLY <2>1, PlainIs
      <3>2. Padded(sinfo) \in Nat /\ Padded(sinfo) >= Plain(sinfo)
        BY ONLY <2>1, PaddedIs
      <3> QED
        BY ONLY <1>4, <3>1, <3>2, n \in Nat
    <2>4. answer = Parse(header, arrived)
      BY DEF ExchangeInv, Whole
    <2>5. answer = [rc |-> Parse2(b, n).rc, info |-> Parse2(b, n).info]
      <3>1. header.version = 2 /\ header.version # 1 /\ arrived >= 16 /\ SubSeq(header.bytes, 1, 12) = Signature
        BY ONLY <1>2, <1>4, <2>2, <2>3
      <3>2. Parse(header, arrived)
              = [rc |-> Parse2(header.bytes, arrived).rc, info |-> Parse2(header.bytes, arrived).info]
        BY ONLY <3>1, Zenon DEF Parse
      <3> QED
        BY ONLY <1>2, <1>4, <2>4, <3>2
    <2> QED
      BY ONLY <2>5
  <1> QED
    BY ONLY <1>3, <1>8, <1>9 DEF Answered

LEMMA FirstIs ==
  ASSUME NEW type
  PROVE  /\ FirstGiven(type) = FirstOf(given, type)
         /\ FirstGiven(type).found => \E j \in DOMAIN given : given[j][1] = type
  <1>1. FirstGiven(type) = FirstOf(given, type)
    BY ONLY DEF FirstGiven, FirstOf, OfType, LeastOf
  <1>2. OfType(given, type) = {} => ~FirstOf(given, type).found
    BY ONLY DEF FirstOf, Null
  <1>3. OfType(given, type) # {} => \E j \in DOMAIN given : given[j][1] = type
    BY ONLY DEF OfType
  <1> QED
    BY ONLY <1>1, <1>2, <1>3

(* It gives back what the sender put in.                                   *)
LEMMA RoundTrip2 ==
  ASSUME ExchangeInv, GivenInv, InAWord, HeaderMade, use.version = 2
  PROVE  RoundTrip
  <1> SUFFICES ASSUME Whole, ~Lossy
               PROVE  /\ answer.rc = Size(header)
                      /\ answer.info.family = sinfo.family
                      /\ sinfo.family \in {INET, INET6} => SameEnds(answer.info, sinfo)
                      /\ answer.info.transport = sinfo.transport
                      /\ \A type \in Asked \ {Type.CRC32C} : Get(answer.info, type) = FirstGiven(type)
                      /\ Get(answer.info, Type.CRC32C).found <=> sinfo.crc32c = 1
                      /\ FirstGiven(Type.VERSION).found =>
                           \A f \in {"ssl", "conn", "verified"} : answer.info.ssl[f] = sinfo.ssl[f]
    BY DEF RoundTrip
  <1>1. Answered(answer, sinfo, given) /\ Size(header) = Padded(sinfo)
    BY WholeParsed
  <1>2. Told2
    BY SenderHonest
  <1>3. PICK items \in Seq(Items), q \in Nat : items = given /\ q = Len(items)
    BY ONLY <1>2 DEF Told2
  <1>4. PICK crc \in {0, 1} : crc = sinfo.crc32c
    <2>1. Sendable(sinfo)
      BY ONLY <1>2 DEF Told2, Honest
    <2>2. sinfo.crc32c \in {0, 1}
      BY ONLY <2>1, SendableHas
    <2> QED
      BY ONLY <2>2
  <1>5. PICK base, info : /\ info = answer.info /\ SameBase(base, sinfo)
                          /\ Final(info, base, sinfo.ssl, items, q, crc)
    BY ONLY <1>1, <1>3, <1>4 DEF Answered
  <1>6. answer.rc = Size(header)
    BY ONLY <1>1 DEF Answered
  <1>7. info.family = base.family /\ info.transport = base.transport /\ SameEnds(info, base)
    BY ONLY <1>5 DEF Final, SameEnds
  <1>8. /\ info.family = sinfo.family /\ info.transport = sinfo.transport
        /\ sinfo.family \in {INET, INET6} => SameEnds(info, sinfo)
    BY ONLY <1>5, <1>7 DEF SameBase, SameEnds
  <1>9. ASSUME NEW type \in Asked \ {Type.CRC32C}
        PROVE  Get(info, type) = FirstGiven(type)
    <2>1. type # Type.CRC32C
      OBVIOUS
    <2>2. Get(info, type) = FirstOf(items, type)
      BY ONLY <1>3, <1>5, <2>1, items \in Seq(Items), q \in Nat, crc \in {0, 1}, GetsFirst
    <2> QED
      BY ONLY <1>3, <2>2, FirstIs
  <1>10. Get(info, Type.CRC32C).found <=> crc = 1
    BY ONLY <1>3, <1>5, items \in Seq(Items), q \in Nat, crc \in {0, 1}, SumFound
  <1>11. FirstGiven(Type.VERSION).found =>
           \A f \in {"ssl", "conn", "verified"} : info.ssl[f] = sinfo.ssl[f]
    <2> SUFFICES ASSUME FirstGiven(Type.VERSION).found
                 PROVE  SameFlags(info.ssl, sinfo.ssl)
      BY DEF SameFlags
    <2>1. PICK j \in DOMAIN given : given[j][1] = Type.VERSION
      BY FirstIs
    <2>2. j \in 1 .. q /\ items[j][1] = Type.VERSION
      BY <1>3, <2>1
    <2> QED
      BY ONLY <1>5, <2>2 DEF Final, Flagged
  <1> QED
    BY ONLY <1>4, <1>5, <1>6, <1>8, <1>9, <1>10, <1>11

(* A line.                                                                 *)
LineInfo(sent) ==
  [[[Cleared EXCEPT !.family = sent.family, !.transport = STREAM] EXCEPT !.src = sent.src] EXCEPT !.dst = sent.dst]
LineTold(sent) == [LineInfo(sent) EXCEPT !.sport = sent.sport, !.dport = sent.dport]

LEMMA LineToldIs ==
  ASSUME NEW sent
  PROVE  LineTold(sent).family = sent.family /\ SameEnds(LineTold(sent), sent)
  BY InfoMembers DEF LineTold, LineInfo, SameEnds, Cleared

LEMMA LineTaken ==
  ASSUME NEW sent, NEW n, ~(n < sent.size), sent.family # UNSPEC,
         sent.src.fam = sent.family, sent.dst.fam = sent.family,
         ~Refuses(sent.sport), ~Refuses(sent.dport)
  PROVE  Parse1(sent, n).rc = sent.size /\ Parse1(sent, n).info = LineTold(sent)
  BY DEF Parse1, LineTold, LineInfo

LEMMA NoAddresses ==
  ASSUME NEW sent, NEW n, ~(n < sent.size), sent.family = UNSPEC
  PROVE  Parse1(sent, n).rc = sent.size /\ Parse1(sent, n).info = Cleared
  BY DEF Parse1

(* It is written by hand, with all the sender has filled in.               *)
LEMMA LineIs ==
  ASSUME ExchangeInv, HeaderMade, use.version = 1
  PROVE  /\ header.version = 1 /\ sinfo.family \in {UNSPEC, INET, INET6}
         /\ header.line.family = sinfo.family
         /\ sinfo.family # UNSPEC => SameEnds(header.line, sinfo)
         /\ header.line.size \in Nat /\ header.line.size >= 15 /\ Size(header) = header.line.size
  <1>1. header.version = 1 /\ header.line = Header1(sinfo) /\ Fault1(sinfo) = 0
    BY DEF HeaderMade
  <1>2. sinfo.family \in {UNSPEC, INET, INET6}
    <2>1. ERR("PP1_TRANSPORT_FAMILY") # 0
      <3>1. Errors[21] = "PP1_TRANSPORT_FAMILY" /\ 21 \in 1 .. Len(Errors)
        BY DEF Errors
      <3>2. ERR(Errors[21]) \in Nat \ {0}
        BY <3>1, ErrorsAre
      <3> QED
        BY ONLY <3>1, <3>2
    <2> QED
      BY ONLY <1>1, <2>1 DEF Fault1
  <1>3. header.line.family = sinfo.family /\ (sinfo.family # UNSPEC => SameEnds(header.line, sinfo))
    BY ONLY <1>1 DEF Header1, SameEnds
  <1>4. PICK s \in Nat, d \in Nat : s = sinfo.src.size /\ d = sinfo.dst.size
    BY DEF ExchangeInv, Filling, FilledIn, AddressText
  <1>5. PICK m \in Nat, n \in Nat : m = Digits(sinfo.sport) /\ n = Digits(sinfo.dport)
    BY DigitsAre
  <1>6. header.line.size \in {15, 16 + s + d + m + n}
    BY ONLY <1>1, <1>4, <1>5 DEF Header1
  <1>7. header.line.size \in Nat /\ header.line.size >= 15
    BY ONLY <1>6, s \in Nat, d \in Nat, m \in Nat, n \in Nat
  <1>8. Size(header) = header.line.size
    BY ONLY <1>1 DEF Size
  <1> QED
    BY ONLY <1>1, <1>2, <1>3, <1>7, <1>8

LEMMA RoundTrip1 ==
  ASSUME ExchangeInv, HeaderMade, use.version = 1
  PROVE  RoundTrip
  <1> SUFFICES ASSUME Whole, ~Lossy
               PROVE  /\ answer.rc = Size(header)
                      /\ answer.info.family = sinfo.family
                      /\ sinfo.family \in {INET, INET6} => SameEnds(answer.info, sinfo)
    BY DEF RoundTrip
  <1>0. PICK sent : sent = header.line
    OBVIOUS
  <1>1. PICK n \in Nat : sent = header.line /\ n = arrived /\ ~(n < sent.size) /\ n >= 8
    <2>1. arrived \in Nat /\ arrived >= Size(header)
      BY DEF ExchangeInv, Whole
    <2>2. header.line.size \in Nat /\ header.line.size >= 15 /\ Size(header) = header.line.size
      BY LineIs
    <2> QED
      BY ONLY <1>0, <2>1, <2>2
  <1>2. /\ header.version = 1 /\ sinfo.family \in {UNSPEC, INET, INET6}
        /\ sent.family = sinfo.family /\ (sinfo.family # UNSPEC => SameEnds(sent, sinfo))
        /\ Size(header) = sent.size
    BY <1>1, LineIs
  <1>3. answer = Parse1(sent, n)
    <2>1. answer = Parse(header, arrived)
      BY DEF ExchangeInv, Whole
    <2>2. header.version # 2 /\ header.version = 1 /\ arrived >= 8
      BY ONLY <1>1, <1>2
    <2>3. Parse(header, arrived) = Parse1(header.line, arrived)
      BY ONLY <2>2, Zenon DEF Parse
    <2> QED
      BY ONLY <1>1, <2>1, <2>3
  <1>4. UNSPEC \notin {INET, INET6}
    BY DEF UNSPEC, INET, INET6
  <1>5. CASE sinfo.family = UNSPEC
    <2>1. answer.rc = sent.size /\ answer.info = Cleared
      BY ONLY <1>1, <1>2, <1>3, <1>5, NoAddresses
    <2>2. Cleared.family = UNSPEC
      BY DEF Cleared
    <2> QED
      BY ONLY <1>2, <1>4, <1>5, <2>1, <2>2
  <1>6. CASE sinfo.family # UNSPEC
    <2>1. SameEnds(sent, sinfo)
      BY ONLY <1>2, <1>6
    <2>2. 0 \notin {sinfo.sport, sinfo.dport} /\ {sinfo.src.fam, sinfo.dst.fam} = {sinfo.family}
      BY <1>6 DEF Lossy
    <2>3. ~Refuses(sinfo.sport) /\ ~Refuses(sinfo.dport)
      <3>1. {sinfo.sport, sinfo.dport} \subseteq Word
        BY DEF ExchangeInv, Filling, FilledIn
      <3>2. \A p \in Word : p # 0 => ~Refuses(p)
        BY ONLY DEF Word, Refuses
      <3> QED
        BY ONLY <2>2, <3>1, <3>2
    <2>4. /\ sent.src.fam = sent.family /\ sent.dst.fam = sent.family
          /\ ~Refuses(sent.sport) /\ ~Refuses(sent.dport)
      BY ONLY <1>2, <2>1, <2>2, <2>3 DEF SameEnds
    <2>5. answer.rc = sent.size /\ answer.info = LineTold(sent)
      BY ONLY <1>1, <1>2, <1>3, <1>6, <2>4, LineTaken
    <2>6. LineTold(sent).family = sent.family /\ SameEnds(LineTold(sent), sent)
      BY ONLY LineToldIs
    <2> QED
      BY ONLY <1>2, <2>1, <2>5, <2>6 DEF SameEnds
  <1> QED
    BY ONLY <1>5, <1>6

(* What pp_create_hdr made and pp_parse_hdr took apart is the same, in     *)
(* either version: the addresses and ports, for every type the first value *)
(* pp_info_add_* was given, the checksum's presence and the TLS flags; for *)
(* every sender, unless the header is one that cannot carry it, or longer  *)
(* than its len, a uint16_t, can tell.                                     *)
THEOREM RoundTrips == ExchangeSpec => []((use.version = 2 => InAWord) => RoundTrip)
  <1>1. ExchangeInv /\ GivenInv => ((use.version = 2 => InAWord) => RoundTrip)
    <2> SUFFICES ASSUME ExchangeInv, GivenInv, use.version = 2 => InAWord
                 PROVE  RoundTrip
      OBVIOUS
    <2>1. CASE stage # "parsed"
      BY <2>1 DEF RoundTrip, Whole
    <2>2. CASE stage = "parsed"
      <3>1. HeaderMade
        BY <2>2 DEF ExchangeInv
      <3>2. CASE use.version = 2
        BY <3>1, <3>2, RoundTrip2
      <3>3. CASE use.version = 1
        BY <3>1, <3>3, RoundTrip1
      <3> QED
        BY <3>1, <3>2, <3>3 DEF HeaderMade
    <2> QED
      BY <2>1, <2>2
  <1> QED
    BY <1>1, ExchangeInvariance, GivenInvariance, PTL

-----------------------------------------------------------------------------
(* The server.  A Session's buffer is empty unless a write is outstanding, *)
(* a Session exists only behind a connection that was accepted, and        *)
(* nothing is on its way to a client that has gone.                        *)

EchoTyped ==
  /\ link \in [Clients -> {"away", "waiting", "up", "closed"}]
  /\ op \in [Clients -> {"none", "read", "write", "gone"}]
  /\ next \in [Clients -> Int]
  /\ up \in [Clients -> Seq(Int)] /\ down \in [Clients -> Seq(Int)]
  /\ pending \in [Clients -> Seq(Int)] /\ buffer_ \in [Clients -> Seq(Int)]

SessionInv ==
  \A c \in Clients : /\ op[c] # "write" => buffer_[c] = <<>>
                     /\ op[c] # "none" => link[c] \in {"up", "closed"}
                     /\ link[c] = "closed" => down[c] = <<>> /\ pending[c] = <<>>

EchoInv == EchoTyped /\ SessionInv /\ EchoConserved

LEMMA EchoBegins == EchoInit => EchoInv
  BY DEF EchoInit, EchoInv, EchoTyped, SessionInv, EchoConserved

(* Sequences of three parts.                                               *)
LEMMA Split ==
  ASSUME NEW s \in Seq(Int), NEW n \in 1 .. Len(s)
  PROVE  /\ SubSeq(s, 1, n) \in Seq(Int) /\ SubSeq(s, n + 1, Len(s)) \in Seq(Int)
         /\ SubSeq(s, 1, n) \o SubSeq(s, n + 1, Len(s)) = s
  OBVIOUS

LEMMA Remaining ==
  ASSUME NEW s \in Seq(Int), NEW n \in 1 .. Len(s)
  PROVE  \A i \in DOMAIN SubSeq(s, n + 1, Len(s)) :
           i + n \in 1 .. Len(s) /\ i >= 1 /\ SubSeq(s, n + 1, Len(s))[i] = s[i + n]
  <1>1. PICK m \in Nat : m = Len(s) /\ n \in 1 .. m
    OBVIOUS
  <1>2. DOMAIN SubSeq(s, n + 1, m) = 1 .. m - n
    BY <1>1
  <1>3. \A i \in 1 .. m - n : SubSeq(s, n + 1, m)[i] = s[i + n]
    <2>1. n + 1 \in 1 .. m + 1 /\ (m + 1) - (n + 1) = m - n
      BY <1>1
    <2>2. \A i \in 1 .. m - n : SubSeq(s, n + 1, m)[i] = s[(n + 1) + i - 1]
      BY <1>1, <2>1
    <2>3. \A i \in 1 .. m - n : (n + 1) + i - 1 = i + n
      BY <1>1
    <2> QED
      BY <2>2, <2>3
  <1> QED
    BY <1>1, <1>2, <1>3

LEMMA Joined ==
  ASSUME NEW r \in Seq(Int), NEW s \in Seq(Int)
  PROVE  r \o s \in Seq(Int)
  OBVIOUS

LEMMA Assoc ==
  ASSUME NEW r \in Seq(Int), NEW s \in Seq(Int), NEW t \in Seq(Int)
  PROVE  (r \o s) \o t = r \o (s \o t)
  OBVIOUS

LEMMA Empty ==
  ASSUME NEW s \in Seq(Int)
  PROVE  s \o <<>> = s /\ <<>> \o s = s
  OBVIOUS

LEMMA TailOf ==
  ASSUME NEW r \in Seq(Int), NEW s \in Seq(Int), r # <<>>
  PROVE  Tail(r) \in Seq(Int) /\ Tail(r \o s) = Tail(r) \o s /\ Head(r \o s) = Head(r)
         /\ Head(r) \in Int /\ r \o s # <<>>
  OBVIOUS

(* What the invariant says of one client.                                  *)
LEMMA Streams ==
  ASSUME EchoInv, NEW c \in Clients
  PROVE  /\ up[c] \in Seq(Int) /\ down[c] \in Seq(Int)
         /\ pending[c] \in Seq(Int) /\ buffer_[c] \in Seq(Int)
         /\ link[c] # "closed" => pending[c] = (down[c] \o buffer_[c]) \o up[c]
  BY DEF EchoInv, EchoTyped, EchoConserved

(* Sending n pieces, which are on their way and waited for.                *)
LEMMA SendStep ==
  ASSUME EchoInv, NEW c \in Clients, NEW s \in Seq(Int), link[c] # "closed",
         up' = Into(up, c, s), pending' = Into(pending, c, s),
         UNCHANGED <<link, down, op, buffer_>>, next' \in [Clients -> Int]
  PROVE  EchoInv'
  <1>0. /\ up[c] \in Seq(Int) /\ down[c] \in Seq(Int)
        /\ pending[c] \in Seq(Int) /\ buffer_[c] \in Seq(Int)
        /\ pending[c] = (down[c] \o buffer_[c]) \o up[c]
    BY Streams
  <1>1. /\ up' = [up EXCEPT ![c] = up[c] \o s]
        /\ pending' = [pending EXCEPT ![c] = pending[c] \o s]
    BY DEF Into
  <1>2. up[c] \o s \in Seq(Int) /\ pending[c] \o s \in Seq(Int)
    BY <1>0, Joined, Zenon
  <1>3. EchoTyped'
    BY <1>1, <1>2 DEF EchoInv, EchoTyped
  <1>4. SessionInv'
    BY <1>1 DEF EchoInv, EchoTyped, SessionInv
  <1>5. pending[c] \o s = (down[c] \o buffer_[c]) \o (up[c] \o s)
    <2>1. down[c] \o buffer_[c] \in Seq(Int)
      BY <1>0, Joined, Zenon
    <2>2. ((down[c] \o buffer_[c]) \o up[c]) \o s = (down[c] \o buffer_[c]) \o (up[c] \o s)
      BY <2>1, <1>0, Assoc, Zenon
    <2> QED
      BY <2>2, <1>0, Zenon
  <1>6. EchoConserved'
    BY <1>1, <1>5 DEF EchoInv, EchoTyped, EchoConserved
  <1> QED
    BY <1>3, <1>4, <1>6 DEF EchoInv

LEMMA TakeBackStep ==
  ASSUME EchoInv, NEW c \in Clients, TakeBack(c), UNCHANGED <<link, next, up, op, buffer_>>
  PROVE  EchoInv' /\ link[c] # "closed" /\ pending[c] # <<>> /\ Head(down[c]) = Head(pending[c])
  <1>0. /\ up[c] \in Seq(Int) /\ down[c] \in Seq(Int) /\ buffer_[c] \in Seq(Int)
        /\ link[c] # "closed" => pending[c] = (down[c] \o buffer_[c]) \o up[c]
    BY Streams
  <1>1. /\ down[c] # <<>>
        /\ down' = [down EXCEPT ![c] = Tail(down[c])]
        /\ pending' = [pending EXCEPT ![c] = Tail(pending[c])]
    BY DEF TakeBack
  <1>2. link[c] # "closed"
    BY <1>1 DEF EchoInv, SessionInv
  <1> DEFINE rest == buffer_[c] \o up[c]
  <1>3. rest \in Seq(Int) /\ pending[c] = down[c] \o rest
    BY <1>0, <1>2, Joined, Assoc, Zenon
  <1>4. Tail(down[c]) \in Seq(Int) /\ Tail(down[c]) \o rest = (Tail(down[c]) \o buffer_[c]) \o up[c]
    <2>1. Tail(down[c]) \in Seq(Int)
      BY <1>0, <1>1
    <2> QED
      BY <2>1, <1>0, Assoc, Zenon
  <1> HIDE DEF rest
  <1>5. /\ pending[c] # <<>> /\ Head(down[c]) = Head(pending[c])
        /\ Tail(pending[c]) = Tail(down[c]) \o rest
    <2>1. /\ Tail(down[c] \o rest) = Tail(down[c]) \o rest
          /\ Head(down[c] \o rest) = Head(down[c]) /\ down[c] \o rest # <<>>
      BY <1>0, <1>1, <1>3, TailOf
    <2> QED
      BY <2>1, <1>3
  <1>6. Tail(pending[c]) \in Seq(Int)
    BY <1>3, <1>4, <1>5, Joined, Zenon
  <1>7. EchoTyped'
    BY <1>1, <1>4, <1>6 DEF EchoInv, EchoTyped
  <1>8. SessionInv'
    BY <1>1, <1>2 DEF EchoInv, EchoTyped, SessionInv
  <1>9. EchoConserved'
    BY <1>1, <1>4, <1>5 DEF EchoInv, EchoTyped, EchoConserved
  <1> QED
    BY <1>2, <1>5, <1>7, <1>8, <1>9 DEF EchoInv

LEMMA CloseStep ==
  ASSUME EchoInv, NEW c \in Clients, Close(c)
  PROVE  EchoInv'
  <1> USE DEF EchoInv, EchoTyped, Close
  <1>1. EchoTyped'
    OBVIOUS
  <1>2. SessionInv'
    BY DEF SessionInv
  <1>3. EchoConserved'
    BY DEF EchoConserved
  <1> QED
    BY <1>1, <1>2, <1>3

LEMMA SessionReadStep ==
  ASSUME EchoInv, NEW c \in Clients, OnRead(c)
  PROVE  EchoInv'
  <1>0. /\ up[c] \in Seq(Int) /\ down[c] \in Seq(Int) /\ buffer_[c] \in Seq(Int)
        /\ link[c] # "closed" => pending[c] = (down[c] \o buffer_[c]) \o up[c]
    BY Streams
  <1> PICK n \in 1 .. BufSize : Read(c, n) /\ Outstanding(c, "write")
    BY DEF OnRead
  <1> DEFINE s == SubSeq(up[c], 1, n)
             r == SubSeq(up[c], n + 1, Len(up[c]))
  <1>1. /\ op[c] = "read" /\ op' = [op EXCEPT ![c] = "write"]
        /\ buffer_' = [buffer_ EXCEPT ![c] = s] /\ up' = [up EXCEPT ![c] = r]
        /\ UNCHANGED <<link, next, pending, down>>
    BY DEF Read, Outstanding, clientVars
  <1>2. n \in 1 .. Len(up[c])
    BY <1>0 DEF Read
  <1>3. s \in Seq(Int) /\ r \in Seq(Int) /\ s \o r = up[c]
    BY <1>0, <1>2, Split
  <1> HIDE DEF s, r
  <1>4. EchoTyped'
    BY <1>1, <1>3 DEF EchoInv, EchoTyped
  <1>5. SessionInv'
    BY <1>1 DEF EchoInv, EchoTyped, SessionInv
  <1>6. (down[c] \o s) \o r = (down[c] \o buffer_[c]) \o up[c]
    <2>1. buffer_[c] = <<>>
      BY <1>1 DEF EchoInv, SessionInv
    <2>2. down[c] \o buffer_[c] = down[c]
      BY <2>1, <1>0, Empty
    <2> QED
      <3>1. (down[c] \o s) \o r = down[c] \o (s \o r)
        BY <1>0, <1>3, Assoc, Zenon
      <3> QED
        BY <3>1, <2>2, <1>3, Zenon
  <1>7. EchoConserved'
    BY <1>0, <1>1, <1>6 DEF EchoInv, EchoTyped, EchoConserved
  <1> QED
    BY <1>4, <1>5, <1>7 DEF EchoInv

LEMMA WriteStep ==
  ASSUME EchoInv, NEW c \in Clients, WriteSome(c)
  PROVE  EchoInv'
  <1>0. /\ up[c] \in Seq(Int) /\ down[c] \in Seq(Int) /\ buffer_[c] \in Seq(Int)
    BY Streams
  <1>1. op[c] = "write" /\ UNCHANGED <<link, next, pending, up, op>>
    BY DEF WriteSome, clientVars
  <1> PICK n \in 1 .. Len(buffer_[c]) :
        /\ down' = IF link[c] = "up" THEN Into(down, c, SubSeq(buffer_[c], 1, n)) ELSE down
        /\ buffer_' = [buffer_ EXCEPT ![c] = SubSeq(@, n + 1, Len(@))]
    BY DEF WriteSome
  <1> DEFINE s == SubSeq(buffer_[c], 1, n)
             r == SubSeq(buffer_[c], n + 1, Len(buffer_[c]))
  <1>2. s \in Seq(Int) /\ r \in Seq(Int) /\ s \o r = buffer_[c]
    BY <1>0, Split
  <1>3. buffer_' = [buffer_ EXCEPT ![c] = r]
    OBVIOUS
  <1>4. link[c] = "up" => down' = [down EXCEPT ![c] = down[c] \o s]
    BY DEF Into
  <1>5. link[c] # "up" => down' = down /\ link[c] = "closed"
    BY <1>1 DEF EchoInv, SessionInv
  <1> HIDE DEF s, r
  <1>6. down[c] \o s \in Seq(Int) /\ (down[c] \o s) \o r = down[c] \o buffer_[c]
    <2>1. down[c] \o s \in Seq(Int)
      BY <1>0, <1>2, Joined, Zenon
    <2>2. (down[c] \o s) \o r = down[c] \o (s \o r)
      BY <1>0, <1>2, Assoc, Zenon
    <2> QED
      BY <2>1, <2>2, <1>2, Zenon
  <1>7. EchoTyped'
    <2>0. [down EXCEPT ![c] = down[c] \o s] \in [Clients -> Seq(Int)]
      BY <1>6 DEF EchoInv, EchoTyped
    <2>1. down' \in [Clients -> Seq(Int)]
      BY <2>0, <1>4, <1>5 DEF EchoInv, EchoTyped
    <2>2. buffer_' \in [Clients -> Seq(Int)]
      BY <1>2, <1>3 DEF EchoInv, EchoTyped
    <2> QED
      BY <2>1, <2>2, <1>1 DEF EchoInv, EchoTyped
  <1>8. SessionInv'
    <2>1. \A d \in Clients : d # c => buffer_'[d] = buffer_[d]
      BY <1>3
    <2>2. link[c] # "closed" \/ down' = down
      BY <1>5
    <2>3. \A d \in Clients : link[d] = "closed" => down'[d] = <<>>
      BY <1>4, <1>5, <2>2 DEF EchoInv, EchoTyped, SessionInv
    <2> QED
      BY <1>1, <2>1, <2>3 DEF EchoInv, EchoTyped, SessionInv
  <1>9. EchoConserved'
    <2> SUFFICES ASSUME NEW d \in Clients, link[d] # "closed"
                 PROVE  pending[d] = (down'[d] \o buffer_'[d]) \o up[d]
      BY <1>1 DEF EchoConserved
    <2>1. CASE d # c
      BY <2>1, <1>3, <1>4, <1>5 DEF EchoInv, EchoTyped, EchoConserved
    <2>2. CASE d = c
      <3>1. down'[c] = down[c] \o s /\ buffer_'[c] = r
        BY <2>2, <1>3, <1>4, <1>5 DEF EchoInv, EchoTyped
      <3> QED
        BY <3>1, <2>2, <1>6 DEF EchoInv, EchoConserved
    <2> QED
      BY <2>1, <2>2
  <1> QED
    BY <1>7, <1>8, <1>9 DEF EchoInv

LEMMA OtherStep ==
  ASSUME EchoInv, NEW c \in Clients,
         \/ Connect(c) \/ OnAccept(c) \/ OnAcceptError(c)
         \/ OnReadError(c) \/ OnWrite(c) \/ OnWriteError(c)
  PROVE  EchoInv'
  <1> USE DEF EchoInv, EchoTyped, SessionInv, EchoConserved, Outstanding, clientVars
  <1>1. CASE Connect(c)
    BY <1>1 DEF Connect
  <1>2. CASE OnAccept(c)
    BY <1>2 DEF OnAccept
  <1>3. CASE OnAcceptError(c)
    BY <1>3 DEF OnAcceptError
  <1>4. CASE OnReadError(c)
    BY <1>4 DEF OnReadError
  <1>5. CASE OnWrite(c)
    BY <1>5 DEF OnWrite
  <1>6. CASE OnWriteError(c)
    BY <1>6 DEF OnWriteError
  <1> QED
    BY <1>1, <1>2, <1>3, <1>4, <1>5, <1>6

-----------------------------------------------------------------------------
(* The client.  While it waits for an answer, what it has read and what it *)
(* still waits for are a part of its line; the rest of the time it waits   *)
(* for nothing.                                                            *)

Start(t) == <<line[t][1]>>

Waits(t) ==
  \/ buff[t] = <<>> /\ pending[t] \in {Start(t), line[t]}
  \/ buff[t] = Start(t) /\ pending[t] \in {<<>>, <<Break>>}

TalkTyped ==
  /\ pc \in [Talkers -> {"connect", "write", "answer", "sleep", "end"}]
  /\ line \in [Talkers -> {Login, Ping}]
  /\ buff \in [Talkers -> Seq(Int)]

TalkInv ==
  /\ TalkTyped
  /\ \A t \in Talkers :
       /\ pc[t] # "end" => link[t] # "closed"
       /\ pc[t] \in {"connect", "write", "sleep"} => pending[t] = <<>>
       /\ pc[t] = "answer" => Waits(t)
       /\ pc[t] = "sleep" => buff[t] = line[t]

LEMMA TalkBegins == TalkInit => EchoInv /\ TalkInv
  BY EchoBegins, TalkAssumption DEF TalkInit, TalkInv, TalkTyped, EchoInit

(* What a Session does, and what another client does, a client that waits  *)
(* does not notice.                                                        *)
LEMMA Unnoticed ==
  ASSUME TalkInv, UNCHANGED talkVars,
         \A t \in Talkers : pending'[t] = pending[t] /\ (link[t] # "closed" => link'[t] # "closed")
  PROVE  TalkInv'
  BY DEF TalkInv, TalkTyped, talkVars, Waits, Start

LEMMA SessionKeeps ==
  ASSUME EchoInv, TalkInv, NEW c \in Clients, SessionStep(c), UNCHANGED talkVars
  PROVE  EchoInv' /\ TalkInv'
  <1>1. EchoInv'
    BY SessionReadStep, WriteStep, OtherStep DEF SessionStep
  <1>2. pending' = pending /\ \A t \in Talkers : link[t] # "closed" => link'[t] # "closed"
    <2>1. CASE OnAccept(c)
      BY <2>1, TalkAssumption DEF OnAccept, EchoInv, EchoTyped
    <2>2. CASE OnRead(c)
      BY <2>2 DEF OnRead, Read, clientVars
    <2>3. CASE OnAcceptError(c) \/ OnReadError(c) \/ WriteSome(c) \/ OnWrite(c) \/ OnWriteError(c)
      BY <2>3 DEF OnAcceptError, OnReadError, WriteSome, OnWrite, OnWriteError, clientVars
    <2> QED
      BY <2>1, <2>2, <2>3 DEF SessionStep
  <1> QED
    BY <1>1, <1>2, Unnoticed

LEMMA PeerKeeps ==
  ASSUME EchoInv, TalkInv, NEW c \in Clients \ Talkers, PeerStep(c), UNCHANGED talkVars
  PROVE  EchoInv' /\ TalkInv'
  <1>1. CASE Connect(c)
    <2>1. \A t \in Talkers : pending'[t] = pending[t] /\ link'[t] = link[t]
      BY <1>1, TalkAssumption DEF Connect, EchoInv, EchoTyped
    <2> QED
      BY <1>1, <2>1, OtherStep, Unnoticed
  <1>2. CASE Send(c)
    <2>1. \A t \in Talkers : pending'[t] = pending[t] /\ link'[t] = link[t]
      BY <1>2, TalkAssumption DEF Send, Into, EchoInv, EchoTyped
    <2>2. <<next[c]>> \in Seq(Int) /\ next' \in [Clients -> Int] /\ link[c] # "closed"
      BY <1>2 DEF Send, Following, EchoInv, EchoTyped
    <2>3. EchoInv'
      BY <1>2, <2>2, SendStep DEF Send
    <2> QED
      BY <2>1, <2>3, Unnoticed
  <1>3. CASE Receive(c)
    <2>1. \A t \in Talkers : pending'[t] = pending[t] /\ link'[t] = link[t]
      BY <1>3, TalkAssumption DEF Receive, TakeBack, EchoInv, EchoTyped
    <2>2. EchoInv'
      BY <1>3, TakeBackStep DEF Receive
    <2> QED
      BY <2>1, <2>2, Unnoticed
  <1>4. CASE Close(c)
    <2>1. \A t \in Talkers : pending'[t] = pending[t] /\ link'[t] = link[t]
      BY <1>4, TalkAssumption DEF Close, EchoInv, EchoTyped
    <2> QED
      BY <1>4, <2>1, CloseStep, Unnoticed
  <1> QED
    BY <1>1, <1>2, <1>3, <1>4 DEF PeerStep

(* A step of one talker leaves the others as they were.                    *)
LEMMA OnlyOne ==
  ASSUME TalkInv, TalkTyped', NEW t \in Talkers,
         \A u \in Talkers \ {t} :
           /\ pending'[u] = pending[u] /\ link'[u] = link[u] /\ pc'[u] = pc[u]
           /\ buff'[u] = buff[u] /\ line'[u] = line[u],
         /\ pc'[t] # "end" => link'[t] # "closed"
         /\ pc'[t] \in {"connect", "write", "sleep"} => pending'[t] = <<>>
         /\ pc'[t] = "answer" => Waits(t)'
         /\ pc'[t] = "sleep" => buff'[t] = line'[t]
  PROVE  TalkInv'
  <1>1. \A u \in Talkers \ {t} : Waits(u)' <=> Waits(u)
    BY DEF Waits, Start
  <1> QED
    BY <1>1 DEF TalkInv

(* A line is a word and the line break; what read_complete says of its      *)
(* pieces.                                                                 *)
LEMMA Pieces ==
  ASSUME NEW x \in {1, 2}
  PROVE  /\ Len(<<x, Break>>) = 2 /\ <<x, Break>> \in Seq(Int) /\ <<x>> \in Seq(Int)
         /\ SubSeq(<<x, Break>>, 1, 1) = <<x>> /\ SubSeq(<<x, Break>>, 1, 2) = <<x, Break>>
         /\ Head(<<x, Break>>) = x /\ Tail(<<x, Break>>) = <<Break>>
         /\ Head(<<x>>) = x /\ Tail(<<x>>) = <<>>
         /\ Head(<<Break>>) = Break /\ Tail(<<Break>>) = <<>>
         /\ Append(<<>>, x) = <<x>> /\ Append(<<x>>, Break) = <<x, Break>>
         /\ ~ReadComplete(<<x>>) /\ ReadComplete(<<x, Break>>)
         /\ <<x>> # <<x, Break>> /\ <<x, Break>>[1] = x
  <1>1. ~ReadComplete(<<x>>)
    BY DEF ReadComplete, Break
  <1>2. ReadComplete(<<x, Break>>)
    <2>1. Len(<<x, Break>>) = 2 /\ <<x, Break>>[2] = Break
      OBVIOUS
    <2> QED
      BY <2>1 DEF ReadComplete
  <1> DEFINE l == <<x, Break>>
             w == <<x>>
  <1>3. /\ Len(l) = 2 /\ l \in Seq(Int) /\ l[1] = x /\ l[2] = Break /\ Break \in Int
        /\ w \in Seq(Int) /\ Len(w) = 1 /\ w[1] = x
    BY DEF Break
  <1>4. SubSeq(l, 1, 1) = w
    <2>1. SubSeq(l, 1, 1) \in Seq(Int) /\ Len(SubSeq(l, 1, 1)) = 1 /\ SubSeq(l, 1, 1)[1] = x
      <3> HIDE DEF l
      <3> QED
        BY <1>3
    <2> HIDE DEF l, w
    <2> QED
      BY <1>3, <2>1
  <1>5. SubSeq(l, 1, 2) = l
    <2> HIDE DEF l
    <2>1. SubSeq(l, 1, 2) \in Seq(Int) /\ Len(SubSeq(l, 1, 2)) = 2
          /\ SubSeq(l, 1, 2)[1] = l[1] /\ SubSeq(l, 1, 2)[2] = l[2]
      BY <1>3
    <2> QED
      BY <1>3, <2>1
  <1>6. Head(l) = x /\ Tail(l) = <<Break>>
    OBVIOUS
  <1>7. Head(<<x>>) = x /\ Tail(<<x>>) = <<>> /\ Append(<<>>, x) = <<x>>
    OBVIOUS
  <1>8. Head(<<Break>>) = Break /\ Tail(<<Break>>) = <<>>
    OBVIOUS
  <1>9. Append(w, Break) = l
    BY <1>3, Both, Zenon
  <1>10. <<x>> # l
    BY <1>3
  <1> QED
    BY <1>1, <1>2, <1>3, <1>4, <1>5, <1>6, <1>7, <1>8, <1>9, <1>10

LEMMA TalkKeeps ==
  ASSUME EchoInv, TalkInv, NEW t \in Talkers, Talk(t) \/ TalkBreaks(t)
  PROVE  EchoInv' /\ TalkInv'
  <1>0. PICK x \in {1, 2} : line[t] = <<x, Break>>
    BY DEF TalkInv, TalkTyped, Login, Ping
  <1>a. t \in Clients
    BY TalkAssumption
  <1>b. Start(t) = <<x>>
    BY <1>0, Pieces DEF Start
  <1>1. CASE TalkConnect(t)
    <2>1. EchoInv'
      BY <1>a, <1>1, OtherStep DEF TalkConnect
    <2>2. /\ pc' = [pc EXCEPT ![t] = "write"] /\ UNCHANGED <<line, buff, pending>>
          /\ link' = [link EXCEPT ![t] = "waiting"] /\ pc[t] = "connect"
      BY <1>1 DEF TalkConnect, Connect, Goes
    <2>3. TalkInv'
      BY <1>a, <2>2, OnlyOne, TalkAssumption DEF TalkInv, TalkTyped, EchoInv, EchoTyped
    <2> QED
      BY <2>1, <2>3
  <1>2. CASE TalkWrite(t)
    <2>1. PICK n \in 1 .. Len(line[t]) :
            /\ up' = Into(up, t, SubSeq(line[t], 1, n))
            /\ pending' = Into(pending, t, SubSeq(line[t], 1, n))
      BY <1>2 DEF TalkWrite
    <2>2. /\ pc[t] = "write" /\ pc' = [pc EXCEPT ![t] = "answer"]
          /\ buff' = [buff EXCEPT ![t] = <<>>]
          /\ UNCHANGED <<link, next, down, op, buffer_, line>>
      BY <1>2 DEF TalkWrite, Goes
    <2>3. SubSeq(line[t], 1, n) \in Seq(Int) /\ SubSeq(line[t], 1, n) \in {Start(t), line[t]}
      <3>1. n = 1 \/ n = 2
        BY <1>0, Pieces
      <3> QED
        BY <1>0, <1>b, <3>1, Pieces
    <2>4. link[t] # "closed" /\ pending[t] = <<>>
      BY <2>2 DEF TalkInv
    <2>5. EchoInv'
      BY <1>a, <2>1, <2>2, <2>3, <2>4, SendStep DEF EchoInv, EchoTyped
    <2>6. pending' = [pending EXCEPT ![t] = SubSeq(line[t], 1, n)]
      BY <2>1, <2>3, <2>4, Empty DEF Into
    <2>7. Waits(t)'
      BY <1>a, <2>2, <2>3, <2>6 DEF Waits, Start, TalkInv, TalkTyped, EchoInv, EchoTyped
    <2>8. TalkInv'
      BY <1>a, <2>2, <2>4, <2>6, <2>7, OnlyOne, TalkAssumption
      DEF TalkInv, TalkTyped, EchoInv, EchoTyped
    <2> QED
      BY <2>5, <2>8
  <1>3. CASE TalkRead(t)
    <2> DEFINE b == Append(buff[t], Head(down[t]))
    <2>1. /\ pc[t] = "answer" /\ TakeBack(t)
          /\ pc' = [pc EXCEPT ![t] = IF ReadComplete(b) THEN "sleep" ELSE "answer"]
          /\ buff' = [buff EXCEPT ![t] = b]
          /\ UNCHANGED <<link, next, up, op, buffer_, line>>
      BY <1>3 DEF TalkRead, Goes
    <2>2. /\ EchoInv' /\ link[t] # "closed" /\ pending[t] # <<>>
          /\ b = Append(buff[t], Head(pending[t]))
      BY <1>a, <2>1, TakeBackStep
    <2>3. pending' = [pending EXCEPT ![t] = Tail(pending[t])]
      BY <2>1 DEF TakeBack
    <2>4. Waits(t)
      BY <2>1 DEF TalkInv
    <2> HIDE DEF b
    <2>5. \/ b = Start(t) /\ Tail(pending[t]) \in {<<>>, <<Break>>}
          \/ b = line[t] /\ Tail(pending[t]) = <<>>
      <3>1. CASE buff[t] = <<>> /\ pending[t] = Start(t)
        BY <1>b, <3>1, <2>2, Pieces
      <3>2. CASE buff[t] = <<>> /\ pending[t] = line[t]
        BY <1>0, <1>b, <3>2, <2>2, Pieces
      <3>3. CASE buff[t] = Start(t) /\ pending[t] = <<Break>>
        BY <1>0, <1>b, <3>3, <2>2, Pieces
      <3> QED
        BY <2>2, <2>4, <3>1, <3>2, <3>3 DEF Waits
    <2>6. b = Start(t) => ~ReadComplete(b)
      BY <1>b, Pieces
    <2>7. b = line[t] => ReadComplete(b)
      BY <1>0, Pieces
    <2>8. b \in Seq(Int)
      BY <1>0, <1>b, <2>5, Pieces
    <2>9. TalkTyped'
      BY <2>1, <2>8 DEF TalkInv, TalkTyped
    <2>10. TalkInv'
      <3>1. pc'[t] = (IF ReadComplete(b) THEN "sleep" ELSE "answer") /\ buff'[t] = b
        BY <2>1 DEF TalkInv, TalkTyped
      <3>2. pending'[t] = Tail(pending[t])
        BY <1>a, <2>3 DEF EchoInv, EchoTyped
      <3>3. \A u \in Talkers \ {t} :
              /\ pending'[u] = pending[u] /\ link'[u] = link[u] /\ pc'[u] = pc[u]
              /\ buff'[u] = buff[u] /\ line'[u] = line[u]
        BY <2>1, <2>3, TalkAssumption DEF TalkInv, TalkTyped, EchoInv, EchoTyped
      <3>4. link'[t] # "closed" /\ line'[t] = line[t]
        BY <2>1, <2>2
      <3>5. CASE b = Start(t)
        <4>1. pc'[t] = "answer"
          BY <2>6, <3>1, <3>5
        <4>2. pending'[t] \in {<<>>, <<Break>>}
          BY <1>0, <1>b, <2>5, <3>2, <3>5, Pieces
        <4>3. Waits(t)'
          BY <3>1, <3>4, <3>5, <4>2 DEF Waits, Start
        <4> QED
          BY <2>9, <3>3, <3>4, <4>1, <4>3, OnlyOne
      <3>6. CASE b = line[t]
        <4>1. pc'[t] = "sleep"
          BY <2>7, <3>1, <3>6
        <4>2. pending'[t] = <<>>
          BY <1>0, <1>b, <2>5, <3>2, <3>6, Pieces
        <4>3. buff'[t] = line'[t]
          BY <3>1, <3>4, <3>6
        <4> QED
          BY <2>9, <3>3, <3>4, <4>1, <4>2, <4>3, OnlyOne
      <3> QED
        BY <2>5, <3>5, <3>6
    <2> QED
      BY <2>2, <2>10
  <1>4. CASE TalkSleep(t)
    <2>1. /\ pc' = [pc EXCEPT ![t] = "write"] /\ line' = [line EXCEPT ![t] = Ping]
          /\ UNCHANGED <<echoVars, buff>> /\ pc[t] = "sleep"
      BY <1>4 DEF TalkSleep, Goes
    <2>2. EchoInv'
      BY <2>1 DEF echoVars, clientVars, EchoInv, EchoTyped, SessionInv, EchoConserved
    <2>3. TalkInv'
      BY <2>1, OnlyOne DEF TalkInv, TalkTyped, echoVars, clientVars
    <2> QED
      BY <2>2, <2>3
  <1>5. CASE TalkBreaks(t)
    <2>1. EchoInv'
      BY <1>a, <1>5, CloseStep DEF TalkBreaks
    <2>2. /\ pc' = [pc EXCEPT ![t] = "end"] /\ UNCHANGED <<line, buff>>
          /\ link' = [link EXCEPT ![t] = "closed"] /\ pending' = [pending EXCEPT ![t] = <<>>]
      BY <1>5 DEF TalkBreaks, Close, Goes
    <2>3. TalkInv'
      BY <2>2, OnlyOne, TalkAssumption DEF TalkInv, TalkTyped, EchoInv, EchoTyped
    <2> QED
      BY <2>1, <2>3
  <1> QED
    BY <1>1, <1>2, <1>3, <1>4, <1>5 DEF Talk

LEMMA TalkStepKeeps ==
  EchoInv /\ TalkInv /\ [TalkNext]_<<echoVars, talkVars>> => EchoInv' /\ TalkInv'
  <1> SUFFICES ASSUME EchoInv, TalkInv, [TalkNext]_<<echoVars, talkVars>>
               PROVE  EchoInv' /\ TalkInv'
    OBVIOUS
  <1>1. CASE UNCHANGED <<echoVars, talkVars>>
    BY <1>1 DEF echoVars, clientVars, talkVars, EchoInv, EchoTyped, SessionInv, EchoConserved,
                TalkInv, TalkTyped, Waits, Start
  <1> QED
    BY <1>1, TalkKeeps, PeerKeeps, SessionKeeps DEF TalkNext

LEMMA TalkInvariance == TalkSpec => [](EchoInv /\ TalkInv)
  BY TalkBegins, TalkStepKeeps, PTL DEF TalkSpec

(* Nothing a Session echoes is lost, doubled or changed in its order.      *)
THEOREM Conservation == TalkSpec => []EchoConserved
  <1>1. EchoInv => EchoConserved
    BY DEF EchoInv
  <1> QED
    BY <1>1, TalkInvariance, PTL

(* read_complete finds the end of the answer to the line written last.     *)
THEOREM AnswersInStep == TalkSpec => []InStep
  <1>1. TalkInv => InStep
    BY DEF TalkInv, InStep
  <1> QED
    BY <1>1, TalkInvariance, PTL
-----------------------------------------------------------------------------
(* The client's address.  Until a Session has read for the first time, the *)
(* two pieces of the header are the first two of what it will read.        *)
HeaderFirst ==
  \A c \in Clients : ip[c] = EmptyIp /\ front[c] # NoHeader =>
    /\ \A i \in 1 .. Len(up[c]) : i > 2 => up[c][i] >= 0
    /\ link[c] = "closed" \/ next[c] >= 0 \/ next[c] = Len(up[c]) - 2

IpInv ==
  /\ DOMAIN ip = Clients
  /\ front \in [Clients -> Headers] /\ \A t \in Talkers : front[t] = NoHeader
  /\ HeaderFirst

(* A version 2 header is never seen: strlen stops before its sixteenth     *)
(* byte.                                                                   *)
LEMMA BinaryUnseen ==
  ASSUME NEW h \in Headers, h.version = 2, NEW n \in Nat \ {0}
  PROVE  ParseClientIp(h, n) = SomeIp
  <1>1. h # NoHeader /\ Size(h) \in Nat
    BY EchoAssumption DEF NoHeader, Size
  <1>2. SizeOf(h, n) \in Nat
    BY <1>1 DEF SizeOf
  <1>3. StrLen(h, SizeOf(h, n)) \in 0 .. 4
    BY <1>2 DEF StrLen
  <1>4. Parse(h, StrLen(h, SizeOf(h, n))) = None
    BY <1>3 DEF Parse
  <1> QED
    BY <1>4 DEF ParseClientIp, None

(* Half a line has no CRLF; of a whole one the first word after the family *)
(* is taken, if anything is.                                               *)
LEMMA LineSeen ==
  ASSUME NEW h \in Headers, h.version = 1, NEW n \in Nat \ {0}
  PROVE  \/ ParseClientIp(h, n) = SomeIp
         \/ n > 1 /\ ParseClientIp(h, n) = h.line.src
  <1> DEFINE found == Parse(h, SizeOf(h, n))
  <1>1. h.line.size \in Nat \ {0} /\ h # NoHeader /\ Size(h) = h.line.size
    BY EchoAssumption DEF NoHeader, Size
  <1>2. StrLen(h, SizeOf(h, n)) = SizeOf(h, n)
    BY DEF StrLen
  <1>3. CASE n = 1
    <2>1. SizeOf(h, n) \in Nat /\ SizeOf(h, n) < h.line.size
      BY <1>1, <1>3 DEF SizeOf
    <2>2. found = None \/ found = Parse1(h.line, SizeOf(h, n))
      BY DEF Parse
    <2>3. None.rc = 0 /\ Parse1(h.line, SizeOf(h, n)).rc = -ERR("PP1_CRLF")
      BY <2>1 DEF Parse1, None
    <2> HIDE DEF found
    <2>4. ~(found.rc > 0)
      BY <2>2, <2>3, ErrorNumbers
    <2> QED
      BY <1>2, <2>4 DEF ParseClientIp, found
  <1>4. CASE n > 1
    <2>1. found = None \/ found = Parse1(h.line, SizeOf(h, n))
      BY DEF Parse
    <2>2. ~(None.rc > 0) /\ Cleared.src = NoText
      BY DEF None, Cleared
    <2>3. Parse1(h.line, SizeOf(h, n)).info.src \in {NoText, h.line.src}
      BY <2>2 DEF Parse1
    <2> HIDE DEF found
    <2> QED
      BY <1>2, <1>4, <2>1, <2>2, <2>3 DEF ParseClientIp, found
  <1> QED
    BY <1>3, <1>4

(* What the first read of a Session makes of its header: never EmptyIp.    *)
LEMMA FirstRead ==
  ASSUME NEW h \in Headers, h # NoHeader, NEW n \in Nat \ {0}
  PROVE  /\ ParseClientIp(h, n) # EmptyIp
         /\ ParseClientIp(h, n) # SomeIp =>
              n > 1 /\ h.version = 1 /\ ParseClientIp(h, n) = h.line.src
  <1>1. SomeIp # EmptyIp
    <2>1. SomeIp.fam # EmptyIp.fam
      BY DEF SomeIp, EmptyIp
    <2> QED
      BY <2>1
  <1>2. CASE h.version = 2
    BY <1>1, <1>2, BinaryUnseen
  <1>3. CASE h.version = 1
    <2>1. h.line.src.fam # EmptyIp.fam
      BY <1>3, EchoAssumption DEF NoHeader, EmptyIp, UNSPEC, UNIX
    <2> QED
      BY <1>1, <1>3, <2>1, LineSeen
  <1> QED
    BY <1>2, <1>3, EchoAssumption

(* A step that leaves the way of every header alone.                       *)
LEMMA HeadersAlone ==
  ASSUME IpInv, UNCHANGED <<front, ip>>,
         \A c \in Clients : front[c] # NoHeader =>
           up'[c] = up[c] /\ next'[c] = next[c] /\ (link[c] = "closed" => link'[c] = "closed")
  PROVE  IpInv'
  BY DEF IpInv, HeaderFirst

LEMMA ReadIp ==
  ASSUME EchoInv, IpInv, NEW c \in Clients, OnRead(c)
  PROVE  /\ IpInv'
         /\ \A d \in Clients : ip'[d] # ip[d] =>
              /\ ip[d] = EmptyIp
              /\ ip'[d] # SomeIp =>
                   /\ front[d].version = 1 /\ ip'[d] = front[d].line.src
                   /\ \A i \in DOMAIN up'[d] : up'[d][i] >= 0
  <1> PICK n \in 1 .. BufSize : Read(c, n)
    BY DEF OnRead
  <1>1. /\ up[c] \in Seq(Int) /\ n \in 1 .. Len(up[c]) /\ n \in Nat \ {0}
        /\ up' = [up EXCEPT ![c] = SubSeq(up[c], n + 1, Len(up[c]))]
        /\ ip' = [ip EXCEPT ![c] = IpAfter(c, n)]
        /\ UNCHANGED <<link, front, next>>
    <2>1. BufSize \in Nat
      BY EchoAssumption
    <2>2. up[c] \in Seq(Int)
      BY Streams
    <2>3. n \in 1 .. Len(up[c]) /\ n \in Nat \ {0}
      BY <2>1, <2>2 DEF Read
    <2> QED
      BY <2>2, <2>3 DEF Read, clientVars
  <1>2. up'[c] = SubSeq(up[c], n + 1, Len(up[c])) /\ ip'[c] = IpAfter(c, n)
    BY <1>1 DEF EchoInv, EchoTyped, IpInv
  <1>3. \A d \in Clients \ {c} : up'[d] = up[d] /\ ip'[d] = ip[d]
    BY <1>1 DEF EchoInv, EchoTyped, IpInv
  <1>4. CASE ip[c] # EmptyIp
    <2>1. ip'[c] = ip[c]
      BY <1>2, <1>4 DEF IpAfter
    <2> QED
      BY <1>1, <1>3, <1>4, <2>1 DEF IpInv, HeaderFirst
  <1>5. CASE ip[c] = EmptyIp /\ front[c] = NoHeader
    <2>1. ip'[c] = SomeIp
      BY <1>2, <1>5 DEF IpAfter, ParseClientIp
    <2> QED
      BY <1>1, <1>3, <1>5, <2>1 DEF IpInv, HeaderFirst
  <1>6. CASE ip[c] = EmptyIp /\ front[c] # NoHeader
    <2>1. /\ ip'[c] # EmptyIp
          /\ ip'[c] # SomeIp => n > 1 /\ front[c].version = 1 /\ ip'[c] = front[c].line.src
      BY <1>1, <1>2, <1>6, FirstRead DEF IpAfter, IpInv
    <2>2. n > 1 => \A i \in DOMAIN up'[c] : up'[c][i] >= 0
      <3>1. \A i \in 1 .. Len(up[c]) : i > 2 => up[c][i] >= 0
        BY <1>6 DEF IpInv, HeaderFirst
      <3> DEFINE rest == SubSeq(up[c], n + 1, Len(up[c]))
      <3>2. \A i \in DOMAIN rest : i + n \in 1 .. Len(up[c]) /\ i >= 1 /\ rest[i] = up[c][i + n]
        BY <1>1, Remaining
      <3> HIDE DEF rest
      <3>3. n > 1 => \A i \in DOMAIN rest : rest[i] >= 0
        <4> SUFFICES ASSUME n > 1, NEW i \in DOMAIN rest PROVE rest[i] >= 0
          OBVIOUS
        <4> DEFINE j == i + n
        <4>1. j \in 1 .. Len(up[c]) /\ i >= 1 /\ rest[i] = up[c][j]
          BY <3>2
        <4>2. j > 2
          <5>1. i \in Int
            BY <1>1, <3>2 DEF rest
          <5> QED
            BY <4>1, <5>1, <1>1
        <4> HIDE DEF j
        <4> QED
          BY <3>1, <4>1, <4>2
      <3> QED
        BY <1>2, <3>3 DEF rest
    <2>3. IpInv'
      BY <1>1, <1>3, <2>1 DEF IpInv, HeaderFirst
    <2> QED
      BY <1>3, <1>6, <2>1, <2>2, <2>3
  <1> QED
    BY <1>4, <1>5, <1>6

LEMMA SendIp ==
  ASSUME EchoInv, IpInv, NEW c \in Clients, Send(c)
  PROVE  IpInv' /\ UNCHANGED ip
  <1>1. /\ up[c] \in Seq(Int) /\ next[c] \in Int /\ link[c] # "closed"
        /\ up' = [up EXCEPT ![c] = up[c] \o <<next[c]>>]
        /\ next' = [next EXCEPT ![c] = Following(next[c])]
        /\ UNCHANGED <<link, front, ip>>
    BY Streams DEF Send, Into, EchoInv, EchoTyped
  <1>2. up'[c] = Append(up[c], next[c]) /\ next'[c] = Following(next[c])
    BY <1>1 DEF EchoInv, EchoTyped
  <1>3. \A d \in Clients \ {c} : up'[d] = up[d] /\ next'[d] = next[d]
    BY <1>1 DEF EchoInv, EchoTyped
  <1>4. ASSUME ip[c] = EmptyIp, front[c] # NoHeader
        PROVE  /\ \A i \in 1 .. Len(up'[c]) : i > 2 => up'[c][i] >= 0
               /\ next'[c] >= 0 \/ next'[c] = Len(up'[c]) - 2
    <2>1. /\ \A i \in 1 .. Len(up[c]) : i > 2 => up[c][i] >= 0
          /\ next[c] >= 0 \/ next[c] = Len(up[c]) - 2
      BY <1>1, <1>4 DEF IpInv, HeaderFirst
    <2>2. Len(up'[c]) = Len(up[c]) + 1 /\ up'[c][Len(up[c]) + 1] = next[c]
      BY <1>1, <1>2
    <2>3. \A i \in 1 .. Len(up[c]) : up'[c][i] = up[c][i]
      BY <1>1, <1>2
    <2>4. \A i \in 1 .. Len(up'[c]) : i > 2 => up'[c][i] >= 0
      BY <1>1, <2>1, <2>2, <2>3
    <2>5. next'[c] >= 0 \/ next'[c] = Len(up'[c]) - 2
      BY <1>1, <1>2, <2>1, <2>2 DEF Following
    <2> QED
      BY <2>4, <2>5
  <1> QED
    BY <1>1, <1>3, <1>4 DEF IpInv, HeaderFirst

LEMMA CloseIp ==
  ASSUME EchoInv, IpInv, NEW c \in Clients, Close(c)
  PROVE  IpInv' /\ UNCHANGED ip
  <1>1. /\ link' = [link EXCEPT ![c] = "closed"]
        /\ up' = up \/ up' = [up EXCEPT ![c] = <<>>]
        /\ UNCHANGED <<front, next, ip>>
    BY DEF Close
  <1>2. link'[c] = "closed" /\ (up'[c] = up[c] \/ up'[c] = <<>>)
    BY <1>1 DEF EchoInv, EchoTyped
  <1>3. \A d \in Clients \ {c} : link'[d] = link[d] /\ up'[d] = up[d]
    BY <1>1 DEF EchoInv, EchoTyped
  <1> QED
    BY <1>1, <1>2, <1>3 DEF IpInv, HeaderFirst

LEMMA OtherIp ==
  ASSUME EchoInv, IpInv, NEW c \in Clients,
         \/ Connect(c) \/ Receive(c) \/ OnAccept(c) \/ OnAcceptError(c) \/ OnReadError(c)
         \/ WriteSome(c) \/ OnWrite(c) \/ OnWriteError(c)
  PROVE  IpInv' /\ UNCHANGED ip
  <1>1. UNCHANGED <<front, ip, up, next>>
    BY DEF Connect, Receive, OnAccept, OnAcceptError, OnReadError, WriteSome, OnWrite,
           OnWriteError, clientVars
  <1>2. \A d \in Clients : link[d] = "closed" => link'[d] = "closed"
    BY DEF Connect, Receive, OnAccept, OnAcceptError, OnReadError, WriteSome, OnWrite,
           OnWriteError, clientVars, EchoInv, EchoTyped
  <1> QED
    BY <1>1, <1>2, HeadersAlone

(* The talk client is not behind a proxy.                                  *)
LEMMA TalkIp ==
  ASSUME EchoInv, IpInv, NEW t \in Talkers, Talk(t) \/ TalkBreaks(t)
  PROVE  IpInv' /\ UNCHANGED ip
  <1>0. t \in Clients
    BY TalkAssumption
  <1>1. CASE TalkConnect(t)
    BY <1>0, <1>1, OtherIp DEF TalkConnect
  <1>2. CASE TalkWrite(t)
    <2>1. PICK s : up' = Into(up, t, s) /\ UNCHANGED <<link, front, next, ip>>
      BY <1>2 DEF TalkWrite
    <2>2. \A c \in Clients : front[c] # NoHeader => up'[c] = up[c]
      BY <2>1 DEF Into, EchoInv, EchoTyped, IpInv
    <2> QED
      BY <2>1, <2>2, HeadersAlone
  <1>3. CASE TalkRead(t)
    BY <1>3, HeadersAlone DEF TalkRead
  <1>4. CASE TalkSleep(t)
    BY <1>4, HeadersAlone DEF TalkSleep, echoVars, clientVars
  <1>5. CASE TalkBreaks(t)
    BY <1>0, <1>5, CloseIp DEF TalkBreaks
  <1> QED
    BY <1>1, <1>2, <1>3, <1>4, <1>5 DEF Talk

(* client_ip_ is settled by the first read, and an address is taken from a *)
(* line only that came whole with that read.                               *)
THEOREM AddressSettled == TalkSpec => IpTold
  <1> DEFINE Settled ==
        \A c \in Clients : ip'[c] # ip[c] =>
          /\ ip[c] = EmptyIp
          /\ ip'[c] # SomeIp =>
               /\ front[c].version = 1 /\ ip'[c] = front[c].line.src
               /\ \A i \in DOMAIN up'[c] : up'[c][i] >= 0
  <1>1. TalkInit => IpInv
    <2> SUFFICES ASSUME TalkInit PROVE IpInv
      OBVIOUS
    <2>1. \A c \in Clients : up[c] = <<>> /\ (front[c] # NoHeader => next[c] = -2)
      BY DEF TalkInit, EchoInit
    <2> QED
      BY <2>1 DEF TalkInit, EchoInit, IpInv, HeaderFirst
  <1>2. EchoInv /\ IpInv /\ [TalkNext]_<<echoVars, talkVars>> => IpInv' /\ [Settled]_echoVars
    <2> SUFFICES ASSUME EchoInv, IpInv, [TalkNext]_<<echoVars, talkVars>>
                 PROVE  IpInv' /\ [Settled]_echoVars
      OBVIOUS
    <2>1. CASE UNCHANGED <<echoVars, talkVars>>
      BY <2>1, HeadersAlone DEF echoVars, clientVars
    <2>2. UNCHANGED ip => Settled
      OBVIOUS
    <2> HIDE DEF Settled
    <2>3. ASSUME NEW c \in Clients, OnRead(c) PROVE IpInv' /\ Settled
      BY <2>3, ReadIp DEF Settled
    <2> QED
      BY <2>1, <2>2, <2>3, SendIp, CloseIp, OtherIp, TalkIp
      DEF TalkNext, PeerStep, SessionStep
  <1>3. TalkSpec => [](EchoInv /\ IpInv)
    BY <1>1, <1>2, TalkBegins, TalkStepKeeps, TalkInvariance, PTL DEF TalkSpec
  <1> QED
    BY <1>2, <1>3, PTL DEF TalkSpec, IpTold
==============================================================================
