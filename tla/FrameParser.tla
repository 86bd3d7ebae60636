------------------------------- MODULE FrameParser -------------------------------
(***************************************************************************)
(* The frames of one connection after its upgrade: dataframe_parser, called *)
(* by dataframe_manager::parse_data once for every read of TCPConnection.  *)
(*                                                                         *)
(* The parser starts anew with every read, stops at the first whole frame  *)
(* and forgets the rest.  Beside it the bytes are followed as the stream   *)
(* they are: framing by arithmetic on the header, RFC 6455, whatever reads *)
(* they are cut into.  The numbered states of the parser are a state and a *)
(* number; of the payload its length is kept, and whether it was unmasked.  *)
(***************************************************************************)
EXTENDS Integers, Sequences

CONSTANTS
  Bytes,          \* the bytes a peer sends
  MAX_DATA_SIZE,  \* bytes of a read, PacketMacros.h
  MaxReads,       \* bound: reads after the first
  MaxFrame        \* bound: declared payload length of the frames sent

ASSUME BytesAssumption   == Bytes \subseteq 0 .. 255
ASSUME SizeAssumption    == MAX_DATA_SIZE \in 1 .. 1024
ASSUME ReadsAssumption   == MaxReads \in Nat
ASSUME FrameAssumption   == MaxFrame \in Nat

VARIABLES
  state_, pos,         \* dataframe_parser::state_ and its number
  mask, payload_len,   \* fields of the dataframe
  ext,                 \* its extended length, bytes from the least significant
  key,                 \* how many bytes of its masking_key were set
  size,                \* payload.size()
  decoded,             \* history: payload bytes combined with a byte of the key that was set
  result,              \* of parse for this read
  consumed,            \* bytes of this read so far
  reads,
  hdr, left,           \* the stream: header bytes so far, bytes of the body to come
  start,               \* this read began between two frames
  first                \* payload length of the first frame that is whole in this read

frame   == <<mask, payload_len, ext, key, size, decoded>>
parser  == <<state_, pos, frame, result>>
stream  == <<hdr, left, first>>
vars    == <<parser, consumed, reads, stream, start>>

(* Any length of 2^16 and more: no read holds such a frame. *)
Huge == 65536

--------------------------------------------------------------------------------
(* The stream. *)

Masked(h)   == h[2] >= 128
ExtBytes(h) == IF h[2] % 128 = 126 THEN 2 ELSE IF h[2] % 128 = 127 THEN 8 ELSE 0

HeaderDone(h) == Len(h) >= 2 /\ Len(h) = 2 + ExtBytes(h)

(* Network byte order. *)
Declared(h) ==
  LET e == ExtBytes(h) IN
    IF e = 0 THEN h[2] % 128
    ELSE IF \A i \in 3 .. e : h[i] = 0 THEN 256 * h[e + 1] + h[e + 2]
    ELSE Huge

Body(h) == Declared(h) + (IF Masked(h) THEN 4 ELSE 0)

Boundary == hdr = <<>> /\ left = 0

(* The first frame is complete, if the read began before it. *)
FrameEnds(h) == first' = IF start /\ first = -1 THEN Declared(h) ELSE first

(* The bound on frames, met early: only the last bytes of a length may be set. *)
Possible(h) ==
  MaxFrame < Huge => \A i \in 3 .. Len(h) : i <= ExtBytes(h) => h[i] = 0

(* The first byte, fin bit and opcode, says nothing of the length. *)
Kept(b) == IF hdr = <<>> THEN 0 ELSE b

InHeader(b) ==
  LET h == Append(hdr, Kept(b)) IN
  /\ left = 0
  /\ IF ~HeaderDone(h)
       THEN Possible(h) /\ hdr' = h /\ UNCHANGED <<left, first>>
       ELSE /\ Declared(h) <= MaxFrame
            /\ left' = Body(h)
            /\ IF Body(h) = 0 THEN hdr' = <<>> /\ FrameEnds(h)
                              ELSE hdr' = h /\ UNCHANGED first

InBody ==
  /\ left > 0
  /\ left' = left - 1
  /\ IF left = 1 THEN hdr' = <<>> /\ FrameEnds(hdr)
                 ELSE UNCHANGED <<hdr, first>>

StreamStep(b) == InHeader(b) \/ InBody

--------------------------------------------------------------------------------
(* dataframe_parser::consume *)

pow2 == <<1, 2, 4, 8, 16, 32, 64, 128>>

get_bits(b, offset, count) == (b \div pow2[offset + 1]) % pow2[count + 1]

(* On the little endian hosts the project is built for: n bytes reversed. *)
ntoh(bytes, n) == [i \in 0 .. 7 |-> IF i < n THEN bytes[n - 1 - i] ELSE 0]

ExtendedLength ==
  IF \A i \in 2 .. 7 : ext[i] = 0 THEN 256 * ext[1] + ext[0] ELSE Huge

FinOpcode ==
  /\ state_ = "fin_opcode"
  /\ state_' = "mask_payload_len"
  /\ UNCHANGED <<pos, frame, result>>

FaultNoKey(masked) == "payload"    \* fault: no key is expected

AfterLength(masked) == IF masked THEN "masking_key" ELSE "payload"

MaskPayloadLen(b) ==
  LET masked == get_bits(b, 7, 1) = 1
      len    == get_bits(b, 0, 7)
  IN
  /\ state_ = "mask_payload_len"
  /\ mask' = masked /\ payload_len' = len
  /\ pos' = 1
  /\ state_' = IF len = 0 THEN state_
               ELSE IF len \in {126, 127} THEN "extended_payload_len"
               ELSE AfterLength(masked)
  /\ result' = IF len = 0 THEN "true" ELSE result
  /\ UNCHANGED <<ext, key, size, decoded>>

LengthBytes == IF payload_len = 126 THEN 2 ELSE 8

(* Each byte goes above the last one; the last one is followed by ntoh. *)
ExtendedPayloadLen(b) ==
  LET e == [ext EXCEPT ![pos - 1] = b] IN
  /\ state_ = "extended_payload_len"
  /\ IF pos < LengthBytes
       THEN ext' = e /\ pos' = pos + 1 /\ UNCHANGED state_
       ELSE ext' = ntoh(e, LengthBytes) /\ pos' = 1 /\ state_' = AfterLength(mask)
  /\ UNCHANGED <<mask, payload_len, key, size, decoded, result>>

MaskingKey ==
  /\ state_ = "masking_key"
  /\ key' = pos
  /\ IF pos < 4 THEN pos' = pos + 1 /\ UNCHANGED state_
                ELSE pos' = 1 /\ state_' = "payload"
  /\ UNCHANGED <<mask, payload_len, ext, size, decoded, result>>

FaultBound == IF payload_len > 126 THEN ExtendedLength ELSE payload_len    \* fault: 126 too

PayloadLength == IF payload_len >= 126 THEN ExtendedLength ELSE payload_len

Payload ==
  /\ state_ = "payload"
  /\ decoded' = IF size % 4 < key THEN decoded + 1 ELSE decoded
  /\ size' = size + 1
  /\ result' = IF size' = PayloadLength THEN "true" ELSE result
  /\ UNCHANGED <<state_, pos, mask, payload_len, ext, key>>

consume(b) ==
  FinOpcode \/ MaskPayloadLen(b) \/ ExtendedPayloadLen(b) \/ MaskingKey \/ Payload

--------------------------------------------------------------------------------
(* dataframe_manager::parse_data, one call for every read *)

Init ==
  /\ state_ = "fin_opcode" /\ pos = 1
  /\ mask = FALSE /\ payload_len = 0 /\ ext = [i \in 0 .. 7 |-> 0]
  /\ key = 0 /\ size = 0 /\ decoded = 0
  /\ result = "indeterminate"
  /\ consumed = 0 /\ reads = 0
  /\ hdr = <<>> /\ left = 0 /\ first = -1
  /\ start = TRUE

(* parse: until a frame is whole. *)
Consume(b) ==
  /\ consumed < MAX_DATA_SIZE
  /\ result = "indeterminate"
  /\ consume(b)
  /\ StreamStep(b)
  /\ consumed' = consumed + 1
  /\ UNCHANGED <<reads, start>>

(* The rest of the read is not looked at. *)
Skip(b) ==
  /\ consumed < MAX_DATA_SIZE
  /\ result = "true"
  /\ StreamStep(b)
  /\ consumed' = consumed + 1
  /\ UNCHANGED <<parser, reads, start>>

(* The next read: a new dataframe, and parse starts with reset(). *)
NextRead ==
  /\ consumed > 0 /\ reads < MaxReads
  /\ reads' = reads + 1
  /\ state_' = "fin_opcode" /\ pos' = 1
  /\ mask' = FALSE /\ payload_len' = 0 /\ ext' = [i \in 0 .. 7 |-> 0]
  /\ key' = 0 /\ size' = 0 /\ decoded' = 0
  /\ result' = "indeterminate"
  /\ consumed' = 0
  /\ start' = Boundary /\ first' = -1
  /\ UNCHANGED <<hdr, left>>

Next ==
  \/ \E b \in Bytes : Consume(b) \/ Skip(b)
  \/ NextRead

Spec == Init /\ [][Next]_vars

--------------------------------------------------------------------------------

States == {"fin_opcode", "mask_payload_len", "extended_payload_len", "masking_key",
           "payload"}

TypeOK ==
  /\ state_ \in States /\ pos \in 1 .. 8
  /\ mask \in BOOLEAN /\ payload_len \in 0 .. 127
  /\ ext \in [0 .. 7 -> 0 .. 255]
  /\ key \in 0 .. 4 /\ size \in 0 .. MAX_DATA_SIZE /\ decoded \in 0 .. size
  /\ result \in {"indeterminate", "true"}
  /\ consumed \in 0 .. MAX_DATA_SIZE /\ reads \in 0 .. MaxReads
  /\ hdr \in Seq(0 .. 255) /\ left \in Nat
  /\ first \in -1 .. Huge /\ start \in BOOLEAN

(***************************************************************************)
(* A frame handed to TCPConnection is the first frame the peer sent in     *)
(* this read, with the length the peer declared, if the read began between *)
(* two frames.  (Of an empty masked frame the key may not have been read.) *)
(***************************************************************************)
DeliversFirst ==
  start /\ result = "true" => first = size \/ (first = -1 /\ payload_len = 0 /\ mask)

(***************************************************************************)
(* A frame with a payload is not missed by a read that begins before it    *)
(* and holds all of it; the only frames that are missed declare a length   *)
(* of 0 in an extended field.                                              *)
(***************************************************************************)
MissesOnlyEmpty ==
  start /\ first # -1 /\ result # "true" => first = 0 /\ payload_len \in {126, 127}

(***************************************************************************)
(* TCPConnection copies payload_len bytes of a delivered frame.  These are  *)
(* the payload that was sent, unmasked with the key that was sent, if the   *)
(* frame has a key and its length is not in an extended field: then 126 or  *)
(* 127 bytes are copied, and without a key the payload is combined with     *)
(* bytes that were never set.                                               *)
(***************************************************************************)
PacketIntact ==
  start /\ result = "true" /\ first # -1 /\ payload_len < 126 /\ (mask \/ first = 0) =>
    payload_len = first /\ decoded = first
================================================================================
