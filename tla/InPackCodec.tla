----------------------------- MODULE InPackCodec -----------------------------
(***************************************************************************)
(* The worker's packet codec, src/doc.go (package worker): decodeInPack,  *)
(* which turns the bytes read from the job server into an inPack, and the *)
(* payloads of SendData, SendWarning and UpdateStatus, which a running    *)
(* job sends back.  Pure operators; PacketStream uses them.               *)
(*                                                                         *)
(* A packet is a 12-byte header (4-byte magic, 4-byte type, 4-byte        *)
(* payload length, both big-endian) and the payload.  TLC's integers are  *)
(* 32-bit, so the model scales the width of header numbers down: a header *)
(* byte has ByteBits bits (8 in Go), a 4-byte field 4*ByteBits, and Go's  *)
(* int has IntBits bits (4*ByteBits on a 32-bit build, 8*ByteBits on a     *)
(* 64-bit one).  Sums wrap at IntBits, as Go's int does.  Payload bytes    *)
(* are kept as their Go values; decodeInPack only compares them with NUL. *)
(***************************************************************************)
EXTENDS Integers, Sequences, SequencesExt

CONSTANTS
  ByteBits,  \* bits of a header byte
  IntBits,   \* bits of Go's int on the build
  PT,        \* packet type codes (rt.PT): a record of numbers
  KnownPT    \* the codes rt.NewPT accepts

ASSUME /\ ByteBits \in Nat \ {0}
       /\ IntBits \in {4 * ByteBits, 8 * ByteBits}
       /\ KnownPT \subseteq 0 .. 2^(4 * ByteBits) - 1

NUL == 0

(* rt.MinPacketLength: the header alone. *)
MinPacketLength == 12

(* binary.BigEndian.Uint32 of four header bytes. *)
Uint32(b) == ((b[1] * 2^ByteBits + b[2]) * 2^ByteBits + b[3]) * 2^ByteBits + b[4]

(* Mutant: the length field is taken as an int32 whatever the build. *)
GoInt32(x) ==
  LET m == 2^(4 * ByteBits) IN ((x + m \div 2) % m) - m \div 2

(* Go's int(x), and the result of int arithmetic: x modulo 2^IntBits in   *)
(* two's complement.                                                       *)
GoInt(x) ==
  LET m == 2^IntBits IN ((x + m \div 2) % m) - m \div 2

(* Mutant: bytes.Split, every separator splits, whatever n. *)
RECURSIVE SplitAll(_, _, _)
SplitAll(s, sep, n) ==
  LET i == SelectInSeq(s, LAMBDA b : b = sep) IN
  IF i = 0 THEN <<s>>
  ELSE <<SubSeq(s, 1, i - 1)>> \o SplitAll(SubSeq(s, i + 1, Len(s)), sep, n)

(* bytes.SplitN(s, sep, n) for n > 0: at most n pieces, the last one the  *)
(* unsplit rest.                                                           *)
RECURSIVE SplitN(_, _, _)
SplitN(s, sep, n) ==
  LET i == SelectInSeq(s, LAMBDA b : b = sep) IN
  IF n = 1 \/ i = 0 THEN <<s>>
  ELSE <<SubSeq(s, 1, i - 1)>> \o SplitN(SubSeq(s, i + 1, Len(s)), sep, n - 1)

(* The inPack struct: dataType, data, handle, uniqueId, fn (a is the     *)
(* agent).  getInPack returns the zero value.                              *)
InPack(Bytes) ==
  [dataType : Nat, data : Seq(Bytes), handle : Seq(Bytes),
   uniqueId : Seq(Bytes), fn : Seq(Bytes)]
EmptyInPack == [dataType |-> 0, data |-> <<>>, handle |-> <<>>,
                uniqueId |-> <<>>, fn |-> <<>>]

(* The switch on dataType: a JOB_ASSIGN body is handle, fn, data; a       *)
(* JOB_ASSIGN_UNIQ body handle, fn, uniqueId, data; with fewer NUL-       *)
(* separated fields nothing is set.  Any other type keeps the body as     *)
(* data.                                                                   *)
Fields(pt, dt) ==
  LET ip == [EmptyInPack EXCEPT !.dataType = pt]
      s3 == SplitN(dt, NUL, 3)
      s4 == SplitN(dt, NUL, 4)
  IN CASE pt = PT.JobAssign /\ Len(s3) = 3 ->
            [ip EXCEPT !.handle = s3[1], !.fn = s3[2], !.data = s3[3]]
       [] pt = PT.JobAssign -> ip
       [] pt = PT.JobAssignUniq /\ Len(s4) = 4 ->
            [ip EXCEPT !.handle = s4[1], !.fn = s4[2], !.uniqueId = s4[3],
                       !.data = s4[4]]
       [] pt = PT.JobAssignUniq -> ip
       [] OTHER -> [ip EXCEPT !.data = dt]

(* Mutant: l counts the payload and forgets the header. *)
DecodeInPackBodyOnly(data) ==
  LET dl == GoInt(Uint32(SubSeq(data, 9, 12)))
      hi == GoInt(dl + MinPacketLength)
      dt == SubSeq(data, MinPacketLength + 1, hi)
      pt == Uint32(SubSeq(data, 5, 8))
      fail(e) == [outcome |-> e, pack |-> EmptyInPack, l |-> 0]
  IN CASE Len(data) < MinPacketLength -> fail("invalid")
       [] Len(data) < hi -> fail("notEnough")
       [] hi < MinPacketLength -> fail("panic")
       [] Len(dt) # dl -> fail("invalid")
       [] pt \notin KnownPT -> fail("badType")
       [] OTHER -> [outcome |-> "ok", pack |-> Fields(pt, dt), l |-> dl]

(* decodeInPack(data): the outcome ("ok", an error, or "panic" where the  *)
(* slice data[12:dl+12] is out of range), the inPack and the length l     *)
(* consumed.  dl is int(length field); dl+12 is an int sum.                *)
DecodeInPack(data) ==
  LET dl == GoInt(Uint32(SubSeq(data, 9, 12)))
      hi == GoInt(dl + MinPacketLength)
      dt == SubSeq(data, MinPacketLength + 1, hi)
      pt == Uint32(SubSeq(data, 5, 8))
      fail(e) == [outcome |-> e, pack |-> EmptyInPack, l |-> 0]
  IN CASE Len(data) < MinPacketLength -> fail("invalid")
       [] Len(data) < hi -> fail("notEnough")
       [] hi < MinPacketLength -> fail("panic")
       [] Len(dt) # dl -> fail("invalid")
       [] pt \notin KnownPT -> fail("badType")
       [] OTHER -> [outcome |-> "ok", pack |-> Fields(pt, dt), l |-> hi]

(* The Job interface of an inPack: Data, Fn, Handle, UniqueId. *)
JobView(ip) ==
  [type |-> ip.dataType, handle |-> ip.handle, fn |-> ip.fn,
   uid |-> ip.uniqueId, data |-> ip.data]

-----------------------------------------------------------------------------
(* Outgoing payloads.  rt.NewBuffer(l) is l zero bytes; copy(dst[off:],   *)
(* src) copies what fits.                                                  *)
NewBuffer(l) == [i \in 1..l |-> 0]
CopyAt(dst, off, src) ==
  [i \in DOMAIN dst |-> IF off < i /\ i <= off + Len(src) THEN src[i - off]
                                                          ELSE dst[i]]

(* strconv.Itoa: decimal ASCII digits, with '-' for a negative number. *)
RECURSIVE Digits(_)
Digits(n) == IF n < 10 THEN <<48 + n>> ELSE Digits(n \div 10) \o <<48 + (n % 10)>>
Itoa(n) == IF n < 0 THEN <<45>> \o Digits(-n) ELSE Digits(n)

(* Mutant: the data is copied at hl, over the separator. *)
WorkPayloadNoSep(handle, data) ==
  LET hl == Len(handle) IN
  CopyAt(CopyAt(NewBuffer(hl + Len(data) + 1), 0, handle), hl, data)

(* SendData and SendWarning: handle, NUL, data in a buffer of exactly     *)
(* len(handle) + len(data) + 1 bytes.                                      *)
WorkPayload(handle, data) ==
  LET hl == Len(handle) IN
  CopyAt(CopyAt(NewBuffer(hl + Len(data) + 1), 0, handle), hl + 1, data)

(* UpdateStatus: handle, NUL, Itoa(numerator), NUL, Itoa(denominator). *)
StatusPayload(handle, numerator, denominator) ==
  LET n == Itoa(numerator)
      d == Itoa(denominator)
      hl == Len(handle)
  IN CopyAt(CopyAt(CopyAt(NewBuffer(hl + Len(n) + Len(d) + 2), 0, handle),
                   hl + 1, n),
            hl + Len(n) + 2, d)
=============================================================================
