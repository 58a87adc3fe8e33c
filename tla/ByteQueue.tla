----------------------------- MODULE ByteQueue -----------------------------
(***************************************************************************)
(* What test_epoll/lib/buffer.c promises to the code that fills and drains *)
(* a struct buffer: bytes leave in the order they came, none is lost,      *)
(* repeated or changed.  Storage, indices and growth do not exist here;    *)
(* Buffer.tla has them and implements this specification.                  *)
(***************************************************************************)
EXTENDS Integers, Sequences

CONSTANTS Byte,      \* the values of a byte
          MaxWrite   \* the longest write (a bound)

VARIABLE content     \* the bytes written and not yet taken

Chunk == UNION {[1 .. n -> Byte] : n \in 0 .. MaxWrite}

QueueInit == content = <<>>

Write(s) == content' = content \o s

Take(n) ==
  /\ n <= Len(content)
  /\ content' = SubSeq(content, n + 1, Len(content))

QueueNext ==
  \/ \E s \in Chunk : Write(s)
  \/ \E n \in 1 .. Len(content) : Take(n)

QueueSpec == QueueInit /\ [][QueueNext]_content
============================================================================
