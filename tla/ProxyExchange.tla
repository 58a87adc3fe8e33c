---------------------------- MODULE ProxyExchange ----------------------------
(***************************************************************************)
(* The two ends of a connection that both use the PROXY protocol library   *)
(* the way its header file says.  One fills in a pp_info_t, adds TLVs and  *)
(* creates a header of either version.  The bytes arrive piece by piece,   *)
(* with what follows the header, and one of them may arrive changed when   *)
(* a checksum was asked for.  The other end parses what has arrived, asks  *)
(* for the values, clears the pp_info_t and tries again with more.         *)
(***************************************************************************)
EXTENDS ProxyProtocol

CONSTANTS Infos,     \* what the sender fills in before it adds TLVs
          Texts,     \* values of TLVs: byte sequences without a zero
          Found,     \* three bytes an allocation may hold before it is written
          MaxAdds,   \* bound: calls of pp_info_add_*
          Behind     \* bound: bytes that follow the header

(* An address text of a family has the bytes inet_pton writes for it and   *)
(* is spelt the way inet_ntop spells them; a path fits into its array.     *)
AddressText(text, family) ==
  /\ text.bytes \in Seq(Octet) /\ text.size \in Nat
  /\ text.fam \in {INET, INET6} => text = TextOf(text.fam, text.bytes)
  /\ text.fam = INET => Len(text.bytes) = 4
  /\ text.fam = INET6 => /\ Len(text.bytes) = 16
                         /\ \A group \in 1 .. 8 : text.bytes[2 * group - 1] >= 16
  /\ family = UNIX => Len(text.bytes) <= UnixPath

(* A pp_info_t with its members but the TLVs filled in, as their comments  *)
(* say.  The alignment is a uint16_t, 1 << alignment_power.                *)
FilledIn(info) ==
  /\ DOMAIN info = DOMAIN Cleared
  /\ {info.family, info.transport} \subseteq Octet
  /\ info.power \in 0 .. 15 /\ info.crc32c \in {0, 1}
  /\ {info.sport, info.dport} \subseteq Word
  /\ AddressText(info.src, info.family) /\ AddressText(info.dst, info.family)
  /\ {info.ssl.ssl, info.ssl.conn, info.ssl.verified} \subseteq {0, 1}

ASSUME ExchangeAssumption ==
  /\ {MaxAdds, Behind} \subseteq Nat
  /\ Texts \subseteq Seq(Octet \ {0}) /\ Found \subseteq [1 .. 3 -> Octet]
  /\ \A i \in Infos : /\ FilledIn(i.info) /\ i.info.tlvs = <<>> /\ i.info.size = 0
                      /\ i.version \in Nat /\ i.adds \in 0 .. MaxAdds

VARIABLES stage,    \* "fill", "send", "arrived", "parsed", "done" or "failed"
          use,      \* the version asked for, the calls left, and what may be added
          sinfo,    \* pp_info of the sender
          given,    \* type and value of what was added, in order
          header,   \* what pp_create_hdr returned, and then what arrives of it
          changed,  \* a byte of it is not what was sent
          arrived,  \* bytes received, those behind the header with them
          answer    \* rc and pp_info of the last pp_parse_hdr

exchangeVars == <<stage, use, sinfo, given, header, changed, arrived, answer>>

ExchangeInit ==
  \E i \in Infos :
    /\ sinfo = i.info /\ use = [version |-> i.version, adds |-> i.adds]
    /\ stage = "fill" /\ given = <<>> /\ header = NoHeader
    /\ changed = FALSE /\ arrived = 0 /\ answer = None

-----------------------------------------------------------------------------
(* The sender                                                              *)

Add(info, what) ==
  /\ stage = "fill" /\ use.adds > 0
  /\ use' = [use EXCEPT !.adds = @ - 1]
  /\ sinfo' = info
  /\ given' = given \o what
  /\ UNCHANGED <<stage, header, changed, arrived, answer>>

(* A unique id of more than 128 bytes is not added.                        *)
AddId(v) ==
  Add(AddUniqueId(sinfo, v), IF Len(v) > 128 THEN <<>> ELSE <<<<Type.UNIQUE_ID, v>>>>)

AddBytes ==
  \E v \in Texts :
    \/ Add(AddAlpn(sinfo, v), <<<<Type.ALPN, v>>>>)
    \/ Add(AddAuthority(sinfo, v), <<<<Type.AUTHORITY, v>>>>)
    \/ AddId(v)

AddLongId ==
  /\ given = <<>> /\ sinfo.crc32c = 0
  /\ \E n \in {128, 129} : AddId([i \in 1 .. n |-> 1])

(* The receiver finds the NUL at the end of what is US-ASCII.              *)
AddNames ==
  \E v \in Texts \ {<<>>} :
    \/ Add(AddNetns(sinfo, v), <<<<Type.NETNS, Append(v, 0)>>>>)
    \/ Add(AddVpceId(sinfo, v), <<<<Type.AWS, Append(v, 0)>>>>)
    \/ Add(AddLinkid(sinfo, <<1, 0, 0, 0>>), <<<<Type.AZURE, <<1, 0, 0, 0>>>>>>)

(* The certificate's name may be missing.                                  *)
AddTls ==
  \E v \in Texts \ {<<>>}, cn \in Texts, f \in Found :
    Add(AddSsl(sinfo, v, v, <<7>>, v, cn, f),
        <<<<Type.VERSION, Append(v, 0)>>, <<Type.CIPHER, Append(v, 0)>>,
          <<Type.SIG_ALG, <<7, 0>>>>, <<Type.KEY_ALG, Append(v, 0)>>, <<Type.CN, cn>>>>)

Create ==
  /\ stage = "fill"
  /\ IF Fault(use.version, sinfo) = 0
     THEN stage' = "send" /\ header' = Header(use.version, sinfo)
     ELSE stage' = "failed" /\ UNCHANGED header
  /\ UNCHANGED <<use, sinfo, given, changed, arrived, answer>>

-----------------------------------------------------------------------------
(* The network                                                             *)

(* One byte arrives as another one.                                        *)
Corrupt ==
  /\ stage = "send" /\ arrived = 0 /\ ~changed
  /\ header.version = 2 /\ sinfo.crc32c = 1 /\ Len(given) <= 1
  /\ \E i \in 1 .. Len(header.bytes), d \in {1, 128} :
       header' = [header EXCEPT !.bytes[i] = (@ + d) % 256]
  /\ changed' = TRUE
  /\ UNCHANGED <<stage, use, sinfo, given, arrived, answer>>

(* Lengths at which something comes to its end, and one byte less; what    *)
(* was changed arrives whole and alone.                                    *)
Cuts ==
  LET ends == {8, 16, 28, Size(header)}
  IN  IF changed THEN {Size(header)}
      ELSE ends \cup {n - 1 : n \in ends} \cup {Size(header) + Behind}

Deliver ==
  /\ stage = "send"
  /\ \E n \in Cuts :
       /\ n > arrived /\ n <= Size(header) + Behind
       /\ arrived' = n
  /\ stage' = "arrived"
  /\ UNCHANGED <<use, sinfo, given, header, changed, answer>>

-----------------------------------------------------------------------------
(* The receiver                                                            *)

ParseArrived ==
  /\ stage = "arrived" /\ stage' = "parsed"
  /\ answer' = Parse(header, arrived)
  /\ UNCHANGED <<use, sinfo, given, header, changed, arrived>>

(* pp_info_clear, and the next attempt if there is something to come.      *)
ClearAndRetry ==
  /\ stage = "parsed"
  /\ answer' = None
  /\ stage' = IF answer.rc <= 0 /\ arrived < Size(header) THEN "send" ELSE "done"
  /\ UNCHANGED <<use, sinfo, given, header, changed, arrived>>

ExchangeNext ==
  \/ AddBytes \/ AddLongId \/ AddNames \/ AddTls \/ Create
  \/ Corrupt \/ Deliver \/ ParseArrived \/ ClearAndRetry

ExchangeSpec == ExchangeInit /\ [][ExchangeNext]_exchangeVars
-----------------------------------------------------------------------------
(* Properties *)

(* What an honest header of either version cannot carry, or its writer     *)
(* leaves out: the TLVs of a UNIX address, the checksum too; a last TLV    *)
(* without a value, when nothing is written behind it; an SSL TLV with a   *)
(* part missing; a checksum in a header that needed no alignment when      *)
(* alignment was asked for; the port 0 and the text that is no address, in *)
(* a line.                                                                 *)
Lossy ==
  IF use.version = 2
  THEN \/ sinfo.family = UNIX /\ (given # <<>> \/ sinfo.crc32c = 1)
       \/ given # <<>> /\ Last(given)[2] = <<>> /\ sinfo.crc32c = 0 /\ Padded(sinfo) = Plain(sinfo)
       \/ \E i \in DOMAIN given : given[i] = <<Type.CN, <<>>>>
       \/ BehindTheEnd(sinfo) /\ sinfo.crc32c = 1
  ELSE /\ sinfo.family # UNSPEC
       /\ 0 \in {sinfo.sport, sinfo.dport} \/ {sinfo.src.fam, sinfo.dst.fam} # {sinfo.family}

Whole == stage = "parsed" /\ arrived >= Size(header) /\ ~changed

FirstGiven(type) ==
  LET of == {i \in DOMAIN given : given[i][1] = type}
  IN  IF of = {} THEN Null
      ELSE [found |-> TRUE, value |-> given[CHOOSE i \in of : \A j \in of : i <= j][2]]

SameEnds(a, b) == a.src = b.src /\ a.dst = b.dst /\ a.sport = b.sport /\ a.dport = b.dport

(* A header that has arrived whole gives back the addresses and the ports  *)
(* it was created from, and for every type the value that was added first; *)
(* of the TLS flags all but cert_in_session, which is never sent.          *)
RoundTrip ==
  Whole /\ ~Lossy =>
    /\ answer.rc = Size(header)
    /\ answer.info.family = sinfo.family
    /\ sinfo.family \in {INET, INET6} => SameEnds(answer.info, sinfo)
    /\ use.version = 2 =>
         /\ answer.info.transport = sinfo.transport
         /\ \A type \in Asked \ {Type.CRC32C} : Get(answer.info, type) = FirstGiven(type)
         /\ Get(answer.info, Type.CRC32C).found <=> sinfo.crc32c = 1
         /\ FirstGiven(Type.VERSION).found =>
              \A f \in {"ssl", "conn", "verified"} : answer.info.ssl[f] = sinfo.ssl[f]

(* "> 0 Length of the PROXY protocol header" (proxy_protocol.h): nothing   *)
(* is taken for a header before the last byte of it has arrived.  A line   *)
(* with a text that is no address answers a positive number all the same.  *)
NoHeaderFromAPart ==
  stage = "parsed" /\ answer.rc > 0 /\ ~changed =>
    \/ arrived >= Size(header) /\ answer.rc = Size(header)
    \/ use.version = 1 /\ Lossy /\ arrived >= Size(header)

(* "crc32c checksum TLV is present and verified" (proxy_protocol.h:100): a *)
(* header with one byte changed is never taken for a verified one.         *)
ChecksumHolds == stage = "parsed" /\ answer.rc > 0 /\ answer.info.crc32c = 1 => ~changed

(* "Append enough bytes to the header ... so that size_of_hdr % 4 becomes  *)
(* 0" (proxy_protocol.h:87), and the length in the header is the length    *)
(* of what is sent.                                                        *)
HeaderAligned ==
  stage = "send" /\ header.version = 2 /\ ~changed =>
    /\ sinfo.power > 1 => Size(header) % 2 ^ sinfo.power = 0
    /\ 16 + 256 * header.bytes[15] + header.bytes[16] = Size(header)

(* The array of TLVs never holds more than was allocated for it, at either *)
(* end.                                                                    *)
ArrayHolds ==
  /\ Len(sinfo.tlvs) <= sinfo.size
  /\ Len(answer.info.tlvs) <= answer.info.size
=============================================================================
