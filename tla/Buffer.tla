------------------------------- MODULE Buffer -------------------------------
(***************************************************************************)
(* struct buffer of test_epoll/lib: a byte array with a read and a write   *)
(* index.  Appending makes room by moving the readable bytes to the front  *)
(* or by growing the array; a socket read fills the free space and spills  *)
(* into an array on the stack, which is appended.                          *)
(***************************************************************************)
EXTENDS Integers, Sequences

CONSTANTS Byte,          \* the values of a byte
          Junk,          \* what malloc leaves in memory
          InitSize,      \* INIT_BUFFER_SIZE, also the size of the stack array
          MaxWrite,      \* the longest append (a bound)
          MaxTotal,      \* the array never grows beyond this (a bound)
          ReallocFails   \* whether realloc may return NULL

VARIABLES buffer,   \* the struct: data, readIndex, writeIndex, total_size
          overrun   \* a memcpy went past the end of the array

vars == <<buffer, overrun>>

ASSUME SizesAssumption ==
  /\ InitSize \in Nat \ {0} /\ MaxWrite \in Nat /\ MaxTotal \in Nat
  /\ InitSize <= MaxTotal
ASSUME BytesAssumption == Junk \notin Byte
ASSUME ReallocAssumption == ReallocFails \in BOOLEAN

Writeable(b)  == b.total_size - b.writeIndex
Readable(b)   == b.writeIndex - b.readIndex
FrontSpare(b) == b.readIndex

Init ==
  /\ buffer = [data |-> [i \in 0 .. InitSize - 1 |-> Junk],
               readIndex |-> 0, writeIndex |-> 0, total_size |-> InitSize]
  /\ overrun = FALSE

-----------------------------------------------------------------------------
(* make_room: the layouts it may leave; two when realloc may fail.         *)

(* Mutant: the copy leaves the last readable byte behind.                  *)
MovedShort(b) ==
  [b EXCEPT !.data = [i \in DOMAIN b.data |->
                        IF i + 1 < Readable(b) THEN b.data[b.readIndex + i] ELSE b.data[i]],
            !.readIndex = 0, !.writeIndex = Readable(b)]

Moved(b) ==
  [data       |-> [i \in DOMAIN b.data |->
                     IF i < Readable(b) THEN b.data[b.readIndex + i] ELSE b.data[i]],
   readIndex  |-> 0,
   writeIndex |-> Readable(b),
   total_size |-> b.total_size]

Grown(b, size) ==
  [data       |-> [i \in 0 .. b.total_size + size - 1 |->
                     IF i < b.total_size THEN b.data[i] ELSE Junk],
   readIndex  |-> b.readIndex,
   writeIndex |-> b.writeIndex,
   total_size |-> b.total_size + size]

(* Mutant: free space at both ends counts, but nothing is moved.           *)
MakeRoomInPlace(b, size) ==
  IF FrontSpare(b) + Writeable(b) >= size THEN {b} ELSE {Grown(b, size)}

MakeRoom(b, size) ==
  IF Writeable(b) >= size THEN {b}
  ELSE IF FrontSpare(b) + Writeable(b) >= size THEN {Moved(b)}
  ELSE {Grown(b, size)} \cup (IF ReallocFails THEN {b} ELSE {})

(* memcpy to data + writeIndex, when the bytes fit.                        *)
Fits(b, s) == Len(s) <= Writeable(b)

Written(b, s) ==
  [data       |-> [i \in DOMAIN b.data |->
                     IF i >= b.writeIndex /\ i < b.writeIndex + Len(s)
                     THEN s[i - b.writeIndex + 1] ELSE b.data[i]],
   readIndex  |-> b.readIndex,
   writeIndex |-> b.writeIndex + Len(s),
   total_size |-> b.total_size]

(* buffer_append to a buffer b.                                            *)
AppendTo(b, s) ==
  \E r \in MakeRoom(b, Len(s)) :
    /\ r.total_size <= MaxTotal
    /\ IF Fits(r, s) THEN buffer' = Written(r, s) /\ UNCHANGED overrun
       ELSE buffer' = r /\ overrun' = TRUE

-----------------------------------------------------------------------------
Chunk == UNION {[1 .. n -> Byte] : n \in 0 .. MaxWrite}

(* What readv may return: as much as the two arrays hold.                  *)
Received == UNION {[1 .. n -> Byte] : n \in 1 .. Writeable(buffer) + InitSize}

(* buffer_append, buffer_append_string (of its strlen bytes) and           *)
(* buffer_append_char (of one).                                            *)
BufferAppend(s) == ~overrun /\ AppendTo(buffer, s)

(* buffer_socket_read that got the bytes s; one that got none or an error  *)
(* changes nothing.                                                        *)
SocketRead(s) ==
  /\ ~overrun
  /\ LET max_writable == Writeable(buffer) IN
       IF Len(s) <= max_writable
       THEN buffer' = Written(buffer, s) /\ UNCHANGED overrun
       ELSE AppendTo(Written(buffer, SubSeq(s, 1, max_writable)),
                    SubSeq(s, max_writable + 1, Len(s)))

(* The callers drain a buffer by adding to readIndex, as buffer_read_char  *)
(* does by one; none of them takes more than there is.                     *)
Consume(n) ==
  /\ ~overrun
  /\ n <= Readable(buffer)
  /\ buffer' = [buffer EXCEPT !.readIndex = @ + n]
  /\ UNCHANGED overrun

Next ==
  \/ \E s \in Chunk : BufferAppend(s)
  \/ \E s \in Received : SocketRead(s)
  \/ \E n \in 1 .. Readable(buffer) : Consume(n)

Spec == Init /\ [][Next]_vars
-----------------------------------------------------------------------------
(* Properties *)

TypeOK ==
  /\ overrun \in BOOLEAN
  /\ \E n \in InitSize .. MaxTotal :
       buffer \in [data : [0 .. n - 1 -> Byte \cup {Junk}],
                   readIndex : 0 .. n, writeIndex : 0 .. n, total_size : {n}]

(* The indices never cross and everything between them was written: no     *)
(* reader sees memory that malloc or realloc left as it was.               *)
ReadableWasWritten ==
  /\ buffer.readIndex <= buffer.writeIndex
  /\ buffer.writeIndex <= buffer.total_size
  /\ \A i \in buffer.readIndex .. buffer.writeIndex - 1 : buffer.data[i] \in Byte

(* No append writes past the array, as long as realloc succeeds: make_room *)
(* returns nothing and buffer_append trusts it.                            *)
NoOverrun == ~ReallocFails => ~overrun

(* Both: the buffer neither shows nor touches memory that is not its own.  *)
MemorySafe == ReadableWasWritten /\ NoOverrun

(* The bytes between the indices are the queue; each operation does to it  *)
(* what the operation of ByteQueue does, with exactly the bytes it got.    *)
Content(b) == [i \in 1 .. Readable(b) |-> b.data[b.readIndex + i - 1]]

Queue == INSTANCE ByteQueue WITH content <- Content(buffer),
                                 MaxWrite <- MaxTotal + InitSize + MaxWrite

OperationsAgree ==
  [][buffer' # buffer =>
       /\ \A s \in Chunk : BufferAppend(s) /\ ~overrun' => Queue!Write(s)
       /\ \A s \in Received : SocketRead(s) /\ ~overrun' => Queue!Write(s)
       /\ \A n \in 1 .. Readable(buffer) : Consume(n) => Queue!Take(n)]_vars
=============================================================================
