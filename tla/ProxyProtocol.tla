---------------------------- MODULE ProxyProtocol ----------------------------
(***************************************************************************)
(* The PROXY protocol library: pp_info_t, the functions that add to it and *)
(* ask it, the writers and the parsers of both header versions, as         *)
(* operators.  A version 2 header is its bytes; a version 1 line is its    *)
(* words, each with the room it takes.  An address is written and read     *)
(* with inet_pton and inet_ntop: its text is one value, its bytes another. *)
(***************************************************************************)
EXTENDS Integers, Sequences, FiniteSets, SequencesExt

CONSTANT UnixPath   \* bytes of a socket path, 108 in the code

ASSUME UnixAssumption == UnixPath \in Nat \ {0}

(* The error numbers, in the order of the enumeration.                     *)
Errors == << "PP_VERSION", "PP2_SIG", "PP2_VERSION", "PP2_CMD",
  "PP2_ADDR_FAMILY", "PP2_TRANSPORT_PROTOCOL", "PP2_LENGTH", "PP2_IPV4_SRC_IP",
  "PP2_IPV4_DST_IP", "PP2_IPV6_SRC_IP", "PP2_IPV6_DST_IP", "PP2_TLV_LENGTH",
  "PP2_TYPE_CRC32C", "PP2_TYPE_SSL", "PP2_TYPE_UNIQUE_ID", "PP2_TYPE_AWS",
  "PP2_TYPE_AZURE", "PP1_CRLF", "PP1_PROXY", "PP1_SPACE",
  "PP1_TRANSPORT_FAMILY", "PP1_IPV4_SRC_IP", "PP1_IPV4_DST_IP",
  "PP1_IPV6_SRC_IP", "PP1_IPV6_DST_IP", "PP1_SRC_PORT", "PP1_DST_PORT",
  "HEAP_ALLOC" >>

ERR(name) == CHOOSE n \in 1 .. Len(Errors) : Errors[n] = name

(* None of the library's answers: see Astray.                              *)
Undefined == -29

(* pp_strerror has a text for zero and the negated error numbers.          *)
HasText(error) == -Len(Errors) <= error /\ error <= 0

UNSPEC == 0
INET   == 1
INET6  == 2
UNIX   == 3
STREAM == 1
DGRAM  == 2

Type == [ALPN |-> 1, AUTHORITY |-> 2, CRC32C |-> 3, NOOP |-> 4, UNIQUE_ID |-> 5,
         SSL |-> 32, VERSION |-> 33, CN |-> 34, CIPHER |-> 35, SIG_ALG |-> 36,
         KEY_ALG |-> 37, NETNS |-> 48, AWS |-> 234, AZURE |-> 238]

Octet == 0 .. 255
Word  == 0 .. 65535
Zeros(n) == [i \in 1 .. n |-> 0]
NoText == [fam |-> UNSPEC, bytes |-> <<>>, size |-> 0]
NoSsl == [ssl |-> 0, conn |-> 0, sess |-> 0, verified |-> 0]

(* pp_info_t after memset(0): tlvs are the elements of tlv_array and size  *)
(* its allocated elements.                                                 *)
Cleared == [family |-> UNSPEC, transport |-> 0, src |-> NoText, dst |-> NoText,
            sport |-> 0, dport |-> 0, local |-> 0, power |-> 0, ssl |-> NoSsl,
            tlvs |-> <<>>, size |-> 0, crc32c |-> 0]

-----------------------------------------------------------------------------
(* Type-length-value                                                       *)

U16(n) == <<(n % 65536) \div 256, n % 256>>
Tlv(type, value) == <<type>> \o U16(Len(value)) \o value
TlvType(tlv)  == tlv[1]
TlvValue(tlv) == SubSeq(tlv, 4, Len(tlv))

(* Mutant: the array is enlarged only when it has overflowed.              *)
RoomLate(len, size) == IF size = 0 THEN 10 ELSE IF len > size THEN size + 5 ELSE size

(* Ten elements to begin with, then five more whenever they are used up.   *)
Room(len, size) == IF size = 0 THEN 10 ELSE IF len = size THEN size + 5 ELSE size

(* tlv_array_append_tlv_new and its US-ASCII form, which stores the NUL.   *)
Appended(info, tlv) ==
  [info EXCEPT !.size = Room(Len(info.tlvs), @), !.tlvs = Append(@, tlv)]

AppendNew(info, type, value)     == Appended(info, Tlv(type, value))
AppendUsAscii(info, type, value) == Appended(info, Tlv(type, Append(value, 0)))

Clear(info) == Cleared

(* pp_info_add_*: each returns the information it leaves.                  *)
AddAlpn(info, value)      == AppendNew(info, Type.ALPN, value)
AddAuthority(info, value) == AppendNew(info, Type.AUTHORITY, value)
AddUniqueId(info, value)  == IF Len(value) > 128 THEN info ELSE AppendNew(info, Type.UNIQUE_ID, value)
AddNetns(info, value)     == AppendNew(info, Type.NETNS, value)
AddVpceId(info, value)    == AppendNew(info, Type.AWS, <<1>> \o value)
AddLinkid(info, value)    == AppendNew(info, Type.AZURE, <<1>> \o value)

(* An absent sub-TLV is not written, and its three bytes are counted all   *)
(* the same: as many bytes of the allocation go out as they were found.    *)
SubTlv(type, value) == IF value = <<>> THEN <<>> ELSE Tlv(type, value)

(* Mutant: the certificate bits are shifted one too far.                   *)
ClientShifted(ssl) == ssl.ssl + 4 * ssl.conn + 8 * ssl.conn

(* cert_in_connection is taken for both bits.                              *)
ClientBits(ssl) == ssl.ssl + 2 * ssl.conn + 4 * ssl.conn

AddSsl(info, version, cipher, sig, key, cn, found) ==
  LET subs   == SubTlv(Type.VERSION, version) \o SubTlv(Type.CIPHER, cipher)
                \o SubTlv(Type.SIG_ALG, sig) \o SubTlv(Type.KEY_ALG, key)
                \o SubTlv(Type.CN, cn)
      absent == 15 + Len(version \o cipher \o sig \o key \o cn) - Len(subs)
      tail   == [i \in 1 .. absent |-> found[1 + ((i - 1) % 3)]]
  IN  AppendNew(info, Type.SSL,
        <<ClientBits(info.ssl), 1 - info.ssl.verified, 0, 0, 0>> \o subs \o tail)

(* pp_info_get_tlv_value: NULL is the empty record of no value; the first  *)
(* TLV of the type decides.                                                *)
Null == [found |-> FALSE, value |-> <<>>]

GetValue(info, type, subtype) ==
  LET of == {i \in 1 .. Len(info.tlvs) : TlvType(info.tlvs[i]) = type}
      value == TlvValue(info.tlvs[CHOOSE i \in of : \A j \in of : i <= j])
  IN  IF of = {} THEN Null
      ELSE IF subtype = 0 THEN [found |-> TRUE, value |-> value]
      ELSE IF value[1] = subtype THEN [found |-> TRUE, value |-> Tail(value)]
      ELSE Null

Subtype(type) == IF type \in {Type.AWS, Type.AZURE} THEN 1 ELSE 0

(* pp_info_get_*: one for each of these types.                             *)
Asked == {Type.ALPN, Type.AUTHORITY, Type.CRC32C, Type.UNIQUE_ID, Type.VERSION, Type.CN,
          Type.CIPHER, Type.SIG_ALG, Type.KEY_ALG, Type.NETNS, Type.AWS, Type.AZURE}
Get(info, type) == GetValue(info, type, Subtype(type))

-----------------------------------------------------------------------------
(* CRC32c.  A 32-bit word is the set of its bits that are one.  The union  *)
(* in Remainder is of one set, which makes TLC go byte after byte.         *)

Bits(byte)   == {i \in 0 .. 7 : (byte \div 2 ^ i) % 2 = 1}
Xor(v, w)    == (v \ w) \cup (w \ v)
Shift(w, n)  == {i - n : i \in {j \in w : j >= n}}
OfBits(w)    ==
  LET bit(i, n) == IF i \in w THEN n ELSE 0
  IN  bit(0, 1) + bit(1, 2) + bit(2, 4) + bit(3, 8) + bit(4, 16) + bit(5, 32) + bit(6, 64) + bit(7, 128)
ByteOf(w, k) == OfBits({i - 8 * k : i \in {j \in w : 8 * k <= j /\ j < 8 * k + 8}})

Polynomial == {3, 4, 5, 6, 8, 9, 11, 12, 13, 17, 18, 20, 21, 22, 23, 25, 31}

(* The table, whose comment names the generator and its polynomial.        *)
crctable ==
  LET step(w, i) == IF 0 \in w THEN Xor(Shift(w, 1), Polynomial) ELSE Shift(w, 1)
  IN  [n \in 0 .. 255 |-> FoldLeft(step, Bits(n), <<1, 2, 3, 4, 5, 6, 7, 8>>)]

Remainder(bytes) ==
  LET step(crc, byte) ==
        Xor(Shift(crc, 8), crctable[OfBits({i \in Xor(crc, Bits(byte)) : i < 8})])
      after[n \in 0 .. Len(bytes)] ==
        IF n = 0 THEN 0 .. 31 ELSE UNION {step(crc, bytes[n]) : crc \in {after[n - 1]}}
  IN  after[Len(bytes)]

Crc32c(bytes) == LET crc == (0 .. 31) \ Remainder(bytes) IN [k \in 1 .. 4 |-> ByteOf(crc, k - 1)]

-----------------------------------------------------------------------------
(* Version 2                                                               *)

Signature == <<13, 10, 13, 10, 0, 13, 10, 81, 85, 73, 84, 10>>
AddrLen(family) == <<0, 12, 36, 2 * UnixPath>>[family + 1]

(* The digits sprintf and inet_ntop write for a number of at most 16 bits. *)
Digits(n) == 1 + Cardinality({m \in {10, 100, 1000, 10000} : n >= m})

(* inet_ntop: four numbers and three dots, or eight groups of four digits, *)
(* none of them zero here.  inet_pton refuses the text of another family.  *)
TextOf(family, bytes) ==
  [fam |-> family, bytes |-> bytes,
   size |-> IF family = INET6 THEN 39 ELSE FoldLeft(LAMBDA n, b : n + Digits(b), 3, bytes)]
Path(text) == text.bytes \o Zeros(UnixPath - Len(text.bytes))
PathText(bytes) ==
  LET ends == {i \in 1 .. UnixPath : bytes[i] = 0}
      n    == IF ends = {} THEN UnixPath ELSE (CHOOSE i \in ends : \A j \in ends : i <= j) - 1
  IN  [fam |-> UNIX, bytes |-> SubSeq(bytes, 1, n), size |-> n]

AddrBytes(info) ==
  CASE info.family = UNSPEC -> <<>>
    [] info.family = UNIX   -> Path(info.src) \o Path(info.dst)
    [] OTHER -> info.src.bytes \o info.dst.bytes \o U16(info.sport) \o U16(info.dport)

Refused(family, end) ==
  CASE family = INET /\ end = "src"  -> ERR("PP2_IPV4_SRC_IP")
    [] family = INET /\ end = "dst"  -> ERR("PP2_IPV4_DST_IP")
    [] family = INET6 /\ end = "src" -> ERR("PP2_IPV6_SRC_IP")
    [] OTHER                         -> ERR("PP2_IPV6_DST_IP")

Fault2(info) ==
  IF info.family = UNSPEC /\ info.local = 0 THEN ERR("PP2_CMD")
  ELSE IF info.family \notin UNSPEC .. UNIX THEN ERR("PP2_ADDR_FAMILY")
  ELSE IF info.family \in {INET, INET6} /\ info.src.fam # info.family THEN Refused(info.family, "src")
  ELSE IF info.family \in {INET, INET6} /\ info.dst.fam # info.family THEN Refused(info.family, "dst")
  ELSE IF info.transport > DGRAM THEN ERR("PP2_TRANSPORT_PROTOCOL")
  ELSE 0

(* What goes into the header unpadded.                                     *)
Plain(info) ==
  16 + AddrLen(info.family) + Len(FlattenSeq(info.tlvs)) + (IF info.crc32c = 1 THEN 7 ELSE 0)

(* Mutant: a gap too small for the NOOP TLV grows by the size of one.      *)
PaddedOdd(info) ==
  LET alignment == 2 ^ info.power
      up        == (Plain(info) \div alignment + 1) * alignment
  IN  IF info.power > 1 /\ Plain(info) % alignment # 0
      THEN IF up - Plain(info) < 3 THEN up + 3 ELSE up
      ELSE Plain(info)

(* The announced length, aligned; a gap of less than three bytes has no    *)
(* room for the NOOP TLV and takes one alignment more.                     *)
Padded(info) ==
  LET alignment == 2 ^ info.power
      up        == (Plain(info) \div alignment + 1) * alignment
  IN  IF info.power > 1 /\ Plain(info) % alignment # 0
      THEN IF up - Plain(info) < 3 THEN up + alignment ELSE up
      ELSE Plain(info)

(* The NOOP TLV is written whenever alignment was asked for, into a header *)
(* that is aligned already too: there it has no room.                      *)
Noop(info) ==
  IF info.power > 1 THEN Tlv(Type.NOOP, Zeros(Padded(info) - Plain(info) - 3)) ELSE <<>>

BehindTheEnd(info) == info.power > 1 /\ Padded(info) = Plain(info)

(* Everything in the order it is written; only the announced length of it  *)
(* is allocated and sent.  The checksum is taken with its own bytes zero.  *)
Header2(info) ==
  LET announced == Padded(info)
      command   == IF info.family = UNSPEC THEN 32 ELSE 33
      front     == Signature \o <<command, 16 * info.family + info.transport>>
                   \o U16(announced - 16) \o AddrBytes(info) \o FlattenSeq(info.tlvs) \o Noop(info)
      zeroed    == front \o (IF info.crc32c = 1 THEN Tlv(Type.CRC32C, Zeros(4)) ELSE <<>>)
      sum       == Crc32c(SubSeq(zeroed, 1, announced))
  IN  SubSeq(IF info.crc32c = 1 THEN front \o Tlv(Type.CRC32C, sum) ELSE front, 1, announced)

(* pp2_create_healthcheck_hdr fills in three members of a local structure: *)
(* the alignment and the checksum flag are as they were found, and so is   *)
(* the number of TLVs, which is taken to be zero: with any other the       *)
(* process reads pointers that were never set.                             *)
Healthcheck(power, crc) == [Cleared EXCEPT !.local = 1, !.power = power, !.crc32c = crc]

(* A number of rounds, those behind the end of the loop without an effect. *)
(* The choice among one makes TLC evaluate round after round.              *)
Loop(Round(_), start, rounds) ==
  LET after[n \in 0 .. rounds] ==
        IF n = 0 THEN start
        ELSE CHOOSE s \in {Round(r) : r \in {after[n - 1]}} : TRUE
  IN  after[rounds]

(* The parser in the midst of its work: what is read so far, the buffer,   *)
(* the place of the next TLV and what is left of the announced length.     *)
Fail(s, name) == [s EXCEPT !.rc = -ERR(name)]

(* A sum or a difference of lengths has wrapped at 16 bits: what follows   *)
(* depends on bytes behind the header, or the loop never ends.             *)
Astray(s) == [s EXCEPT !.rc = Undefined]

Keep(s, type, value)    == [s EXCEPT !.info = AppendNew(@, type, value)]
KeepText(s, type, value) == [s EXCEPT !.info = AppendUsAscii(@, type, value)]

Blanked(buf, from, n) == [i \in DOMAIN buf |-> IF i \in from .. from + n - 1 THEN 0 ELSE buf[i]]

(* Mutant: the result of the comparison is not looked at.                  *)
TakeAnyCrc32c(s, value) ==
  [Keep(s, Type.CRC32C, value) EXCEPT !.buf = Blanked(s.buf, s.at + 3, 4), !.info.crc32c = 1]

(* The four bytes are zeroed where they are, in the caller's buffer, and   *)
(* stay so.                                                                *)
TakeCrc32c(s, value) ==
  LET blank == Blanked(s.buf, s.at + 3, 4)
      total == 16 + 256 * s.buf[15] + s.buf[16]
  IN  IF Len(value) # 4 THEN Fail(s, "PP2_TYPE_CRC32C")
      ELSE IF value # Crc32c(SubSeq(blank, 1, total))
           THEN [Fail(s, "PP2_TYPE_CRC32C") EXCEPT !.buf = blank]
           ELSE [Keep(s, Type.CRC32C, value) EXCEPT !.buf = blank, !.info.crc32c = 1]

SubTypes == {Type.VERSION, Type.CIPHER, Type.SIG_ALG, Type.KEY_ALG, Type.CN}

(* One sub-TLV; an unknown one is an error, and the version sets a flag.   *)
(* The first one is at the sixth byte: from there the offset is counted.   *)
(* What a length beyond the value reads is left open (SubSeq, there, is).  *)
TakeSub(s) ==
  LET type  == s.value[s.at]
      len   == 256 * s.value[s.at + 1] + s.value[s.at + 2]
      value == SubSeq(s.value, s.at + 3, s.at + 2 + len)
      next  == [s EXCEPT !.at = @ + 3 + len]
      wraps == s.at - 6 + 3 + len > 65535
  IN  IF s.rc < 0 \/ s.at > Len(s.value) THEN s
      ELSE IF wraps /\ type \in SubTypes THEN Astray(s)
      ELSE CASE type = Type.VERSION -> [KeepText(next, type, value) EXCEPT !.version = 1]
             [] type \in {Type.CIPHER, Type.SIG_ALG, Type.KEY_ALG} -> KeepText(next, type, value)
             [] type = Type.CN -> Keep(next, type, value)
             [] OTHER -> Fail(s, "PP2_TYPE_SSL")

(* The client bits, the verify word and the sub-TLVs, each an element of   *)
(* the array of its own.  Without the first five bytes, the length of the  *)
(* sub-TLVs wraps.                                                         *)
TakeSsl(s, value) ==
  LET bit(n) == (value[1] \div n) % 2
      flags == [ssl |-> bit(1), conn |-> bit(2), sess |-> bit(4),
                verified |-> IF SubSeq(value, 2, 5) = Zeros(4) THEN 1 ELSE 0]
      start == [rc |-> 0, info |-> [s.info EXCEPT !.ssl = flags], value |-> value,
                at |-> 6, version |-> 0]
      end   == Loop(TakeSub, start, Len(value) \div 3)
  IN  IF Len(value) < 5 THEN Astray(s)
      ELSE IF end.rc < 0 THEN [s EXCEPT !.rc = end.rc, !.info = end.info]
      ELSE IF end.at # Len(value) + 1 \/ (flags.ssl = 1 /\ end.version = 0)
           THEN [Fail(s, "PP2_TYPE_SSL") EXCEPT !.info = end.info]
           ELSE [s EXCEPT !.info = end.info]

TakeTlv(s, type, value) ==
  CASE type \in {Type.ALPN, Type.AUTHORITY} -> Keep(s, type, value)
    [] type = Type.CRC32C                   -> TakeCrc32c(s, value)
    [] type = Type.UNIQUE_ID /\ Len(value) > 128  -> Fail(s, "PP2_TYPE_UNIQUE_ID")
    [] type = Type.UNIQUE_ID /\ Len(value) <= 128 -> Keep(s, type, value)
    [] type = Type.SSL                      -> TakeSsl(s, value)
    [] type = Type.NETNS                    -> KeepText(s, type, value)
    [] type = Type.AWS /\ Len(value) < 2    -> Fail(s, "PP2_TYPE_AWS")
    [] type = Type.AWS /\ Len(value) >= 2 /\ value[1] = 1 -> KeepText(s, type, value)
    [] type = Type.AZURE /\ Len(value) < 5  -> Fail(s, "PP2_TYPE_AZURE")
    [] type = Type.AZURE /\ Len(value) >= 5 /\ value[1] = 1 -> Keep(s, type, value)
    [] OTHER                                -> s

(* A TLV with its three bytes in front is longer than 65535 bytes.         *)
TakeOverlong(s, type) ==
  CASE type = Type.CRC32C    -> Fail(s, "PP2_TYPE_CRC32C")
    [] type = Type.UNIQUE_ID -> Fail(s, "PP2_TYPE_UNIQUE_ID")
    [] OTHER                 -> Astray(s)

(* One round of the loop, while more than three bytes are left.            *)
NextTlv(s) ==
  LET len  == 256 * s.buf[s.at + 1] + s.buf[s.at + 2]
      step == (3 + len) % 65536
      read == TakeTlv(s, s.buf[s.at], SubSeq(s.buf, s.at + 3, s.at + 2 + len))
  IN  IF s.rc < 0 \/ s.left <= 3 THEN s
      ELSE IF step > s.left THEN Fail(s, "PP2_TLV_LENGTH")
      ELSE IF step < 3 THEN TakeOverlong(s, s.buf[s.at])
      ELSE IF read.rc < 0 THEN read
      ELSE [read EXCEPT !.at = @ + 3 + len, !.left = @ - 3 - len]

(* The addresses; behind those of AF_UNIX no TLV is looked for.            *)
TakeAddr(info, buf) ==
  LET part(from, n) == SubSeq(buf, from, from + n - 1)
      word(at)      == 256 * buf[at] + buf[at + 1]
      width         == IF info.family = INET THEN 4 ELSE 16
  IN  CASE info.family = UNSPEC -> info
        [] info.family = UNIX ->
             [info EXCEPT !.src = PathText(part(17, UnixPath)),
                          !.dst = PathText(part(17 + UnixPath, UnixPath))]
        [] OTHER ->
             [info EXCEPT !.src = TextOf(info.family, part(17, width)),
                          !.dst = TextOf(info.family, part(17 + width, width)),
                          !.sport = word(17 + 2 * width), !.dport = word(19 + 2 * width)]

(* Mutant: the sixteen bytes in front of the announced length are not      *)
(* counted.                                                                *)
ArrivedShort(buf, n) == n >= 256 * buf[15] + buf[16]

Arrived(buf, n) == n >= 16 + 256 * buf[15] + buf[16]

Parse2(buf, n) ==
  LET command   == buf[13] % 16
      family    == buf[14] \div 16
      transport == buf[14] % 16
      len       == 256 * buf[15] + buf[16]
      info  == [Cleared EXCEPT !.local = 1 - command, !.family = family, !.transport = transport]
      start == [rc |-> 0, info |-> info, buf |-> buf, at |-> 17, left |-> 0]
      addrs == [start EXCEPT !.info = TakeAddr(info, buf), !.at = 17 + AddrLen(family),
                             !.left = IF family = UNIX THEN 0 ELSE len - AddrLen(family)]
      end   == Loop(NextTlv, addrs, len \div 3)
  IN  IF buf[13] \div 16 # 2 THEN Fail(start, "PP2_VERSION")
      ELSE IF command > 1 THEN Fail(start, "PP2_CMD")
      ELSE IF family > UNIX THEN Fail(start, "PP2_ADDR_FAMILY")
      ELSE IF transport > DGRAM THEN Fail(start, "PP2_TRANSPORT_PROTOCOL")
      ELSE IF ~Arrived(buf, n) \/ len < AddrLen(family) THEN Fail(start, "PP2_LENGTH")
      ELSE IF end.rc < 0 THEN end
      ELSE [end EXCEPT !.rc = 16 + len]

-----------------------------------------------------------------------------
(* Version 1                                                               *)

Fault1(info) ==
  IF info.transport \notin {0, STREAM} \/ info.family \notin {UNSPEC, INET, INET6}
  THEN ERR("PP1_TRANSPORT_FAMILY")
  ELSE IF info.family # UNSPEC /\ info.src.size > 39 THEN ERR("PP1_IPV4_SRC_IP")
  ELSE IF info.family # UNSPEC /\ info.dst.size > 39 THEN ERR("PP1_IPV4_DST_IP")
  ELSE 0

(* The words behind "PROXY" and the length of the line with its CRLF; the  *)
(* texts of the addresses are not looked at.                               *)
Header1(info) ==
  IF info.family = UNSPEC
  THEN [family |-> UNSPEC, src |-> NoText, dst |-> NoText, sport |-> 0, dport |-> 0, size |-> 15]
  ELSE [family |-> info.family, src |-> info.src, dst |-> info.dst,
        sport |-> info.sport, dport |-> info.dport,
        size |-> 16 + info.src.size + info.dst.size + Digits(info.sport) + Digits(info.dport)]

(* parse_port refuses the port 0.                                          *)
Refuses(port) == port = 0 \/ port > 65535

(* What is wrong with an address is told by a positive number.             *)
Parse1(line, n) ==
  LET info == [Cleared EXCEPT !.family = line.family, !.transport = STREAM]
      src  == [info EXCEPT !.src = line.src]
      dst  == [src EXCEPT !.dst = line.dst]
      all  == [dst EXCEPT !.sport = line.sport, !.dport = line.dport]
      known(v4, v6) == IF line.family = INET THEN ERR(v4) ELSE ERR(v6)
      result(rc, left) == [rc |-> rc, info |-> left]
  IN  IF n < line.size THEN result(-ERR("PP1_CRLF"), Cleared)
      ELSE IF line.family = UNSPEC THEN result(line.size, Cleared)
      ELSE IF line.src.fam # line.family THEN result(known("PP1_IPV4_SRC_IP", "PP1_IPV6_SRC_IP"), src)
      ELSE IF line.dst.fam # line.family THEN result(known("PP1_IPV4_DST_IP", "PP1_IPV6_DST_IP"), dst)
      ELSE IF Refuses(line.sport) THEN result(-ERR("PP1_SRC_PORT"), dst)
      ELSE IF Refuses(line.dport) THEN result(-ERR("PP1_DST_PORT"), [all EXCEPT !.dport = 0])
      ELSE result(line.size, all)

-----------------------------------------------------------------------------
(* pp_create_hdr and pp_parse_hdr.  A header is a record of its version    *)
(* and its bytes or its line; of it the first n bytes have arrived.        *)

None == [rc |-> 0, info |-> Cleared]
NoHeader == [version |-> 0]

Fault(version, info) ==
  CASE version = 2 -> Fault2(info) [] version = 1 -> Fault1(info) [] OTHER -> ERR("PP_VERSION")

Header(version, info) ==
  IF version = 2
  THEN [version |-> 2, bytes |-> Header2(info)]
  ELSE [version |-> 1, line |-> Header1(info)]

Size(header) == IF header.version = 2 THEN Len(header.bytes) ELSE header.line.size

Parse(header, n) ==
  CASE header.version = 2 /\ n >= 16 /\ SubSeq(header.bytes, 1, 12) = Signature ->
         LET end == Parse2(header.bytes, n) IN [rc |-> end.rc, info |-> end.info]
    [] header.version = 1 /\ n >= 8 -> Parse1(header.line, n)
    [] OTHER -> None
=============================================================================
