---------------------------- MODULE FrameParserProofs ----------------------------
(***************************************************************************)
(* Proofs about the frame parser, for every set of bytes, size of a read   *)
(* and number of reads.                                                    *)
(***************************************************************************)
EXTENDS FrameParser, SequenceTheorems, TLAPS

--------------------------------------------------------------------------------
(* The stream. *)

(* The header that is followed by a body is complete, any other is not. *)
StreamOK ==
  /\ hdr \in Seq(0 .. 255)
  /\ left \in Nat
  /\ left > 0 => HeaderDone(hdr)
  /\ left = 0 => (Len(hdr) < 2 \/ Len(hdr) < 2 + ExtBytes(hdr))

LEMMA Wider ==
  ASSUME NEW H \in Int, NEW n \in 0 .. 127, 127 < H PROVE n \in 0 .. H
  OBVIOUS

LEMMA Residue == ASSUME NEW n \in 0 .. 255 PROVE n % 128 \in 0 .. 127
  OBVIOUS

LEMMA Word ==
  ASSUME NEW x \in 0 .. 255, NEW y \in 0 .. 255 PROVE 256 * x + y \in 0 .. Huge
<1>1. Huge \in Int /\ 256 * x + y <= Huge
  BY DEF Huge
<1>2. QED
  BY <1>1

(* The bytes of a sequence of bytes. *)
LEMMA ByteOf ==
  ASSUME NEW h \in Seq(0 .. 255), NEW i \in 1 .. Len(h)
  PROVE  h[i] \in 0 .. 255
  BY ElementOfSeq

LEMMA Zeros == [i \in 0 .. 7 |-> 0] \in [0 .. 7 -> 0 .. 255]
  OBVIOUS

(* Number of length bytes and length of a complete header. *)
LEMMA HeaderBytes ==
  ASSUME NEW h \in Seq(0 .. 255), HeaderDone(h)
  PROVE  /\ ExtBytes(h) \in {0, 2, 8} /\ Len(h) = 2 + ExtBytes(h)
         /\ h[2] \in 0 .. 255
         /\ h[ExtBytes(h) + 2] \in 0 .. 255
         /\ ExtBytes(h) # 0 => h[ExtBytes(h) + 1] \in 0 .. 255
<1>1. ExtBytes(h) \in {0, 2, 8} /\ Len(h) = 2 + ExtBytes(h)
  BY DEF HeaderDone, ExtBytes
<1>2. 2 \in 1 .. Len(h) /\ ExtBytes(h) + 2 \in 1 .. Len(h)
  BY <1>1
<1>3. ExtBytes(h) # 0 => ExtBytes(h) + 1 \in 1 .. Len(h)
  BY <1>1
<1>4. h[2] \in 0 .. 255
  BY <1>2, ByteOf, Zenon
<1>5. h[ExtBytes(h) + 2] \in 0 .. 255
  BY <1>2, ByteOf, Zenon
<1>6. ExtBytes(h) # 0 => h[ExtBytes(h) + 1] \in 0 .. 255
  BY <1>3, ByteOf, Zenon
<1>7. QED
  BY <1>1, <1>4, <1>5, <1>6

(* A complete header declares a length in the range of the reads. *)
LEMMA DeclaredRange ==
  ASSUME NEW h \in Seq(0 .. 255), HeaderDone(h)
  PROVE  /\ Declared(h) \in 0 .. Huge
         /\ Declared(h) \in Nat
         /\ Body(h) \in Nat
<1> DEFINE e == ExtBytes(h)
           x == h[e + 1]
           y == h[e + 2]
<1>1. e = 0 \/ (x \in 0 .. 255 /\ y \in 0 .. 255)
  BY HeaderBytes, Zenon
<1>2. h[2] \in 0 .. 255
  BY HeaderBytes
<1>3. h[2] % 128 \in 0 .. 127
  BY <1>2, Residue
<1>4. Declared(h) \in {h[2] % 128, Huge} \/ (e # 0 /\ Declared(h) = 256 * x + y)
  BY DEF Declared
<1>5. Declared(h) \in 0 .. Huge
  <2>1. CASE e # 0 /\ Declared(h) = 256 * x + y
    <3> HIDE DEF e, x, y
    <3>1. x \in 0 .. 255 /\ y \in 0 .. 255
      BY <1>1, <2>1
    <3>2. 256 * x + y \in 0 .. Huge
      BY <3>1, Word
    <3>3. QED
      BY <2>1, <3>2
  <2>2. CASE Declared(h) \in {h[2] % 128, Huge}
    <3>1. Huge \in Int /\ 127 < Huge
      BY DEF Huge
    <3>2. h[2] % 128 \in 0 .. Huge
      BY <1>3, <3>1, Wider, Zenon
    <3>3. Huge \in 0 .. Huge
      BY <3>1
    <3>4. QED
      BY <2>2, <3>2, <3>3, Zenon
  <2>3. QED
    BY <1>4, <2>1, <2>2
<1>6. QED
  BY <1>5 DEF Body

(* A byte of the stream keeps header and body in step. *)
LEMMA StreamKept ==
  ASSUME StreamOK, first \in -1 .. Huge, start \in BOOLEAN, NEW b \in 0 .. 255, StreamStep(b)
  PROVE  StreamOK' /\ first' \in -1 .. Huge
<1>1. CASE InBody
  <2>1. Declared(hdr) \in 0 .. Huge
    BY <1>1, DeclaredRange DEF InBody, StreamOK
  <2>2. left' = left - 1 /\ left > 0 /\ HeaderDone(hdr)
    BY <1>1 DEF InBody, StreamOK
  <2>3. first' \in -1 .. Huge
    BY <1>1, <2>1 DEF InBody, FrameEnds
  <2>4. CASE left = 1
    BY <1>1, <2>2, <2>3, <2>4 DEF InBody, StreamOK
  <2>5. CASE left # 1
    BY <1>1, <2>2, <2>3, <2>5 DEF InBody, StreamOK
  <2>6. QED
    BY <2>4, <2>5
<1>2. CASE InHeader(b)
  <2> DEFINE h == Append(hdr, Kept(b))
  <2>0. Kept(b) \in 0 .. 255
    BY DEF Kept
  <2>1. h \in Seq(0 .. 255) /\ Len(h) = Len(hdr) + 1 /\ left = 0
    BY <1>2, <2>0 DEF InHeader, StreamOK
  <2>2. CASE HeaderDone(h)
    <3>1. Declared(h) \in 0 .. Huge /\ Body(h) \in Nat
      BY <2>1, <2>2, DeclaredRange
    <3>2. left' = Body(h) /\ first' \in -1 .. Huge
      BY <1>2, <2>2, <3>1 DEF InHeader, FrameEnds
    <3>3. CASE Body(h) = 0
      BY <1>2, <2>2, <3>2, <3>3 DEF InHeader, StreamOK
    <3>4. CASE Body(h) # 0
      <4>1. hdr' = h /\ left' > 0
        BY <1>2, <2>2, <3>1, <3>2, <3>4 DEF InHeader
      <4>2. QED
        BY <2>1, <2>2, <3>1, <3>2, <4>1 DEF StreamOK
    <3>5. QED
      BY <3>3, <3>4
  <2>3. CASE ~HeaderDone(h)
    <3>1. hdr' = h /\ left' = 0 /\ first' = first
      BY <1>2, <2>1, <2>3 DEF InHeader
    <3>2. Len(h) >= 2 => Len(h) < 2 + ExtBytes(h)
      <4>1. CASE Len(hdr) < 2
        BY <2>1, <2>3, <4>1 DEF HeaderDone, ExtBytes, StreamOK
      <4>2. CASE Len(hdr) >= 2
        <5>1. h[2] = hdr[2]
          BY <2>0, <2>1, <4>2 DEF StreamOK
        <5>2. QED
          BY <2>1, <2>3, <4>2, <5>1 DEF HeaderDone, ExtBytes, StreamOK
      <4>3. QED
        BY <4>1, <4>2 DEF StreamOK
    <3>3. QED
      BY <2>1, <3>1, <3>2 DEF StreamOK
  <2>4. QED
    BY <2>2, <2>3
<1>3. QED
  BY <1>1, <1>2 DEF StreamStep

--------------------------------------------------------------------------------
(* Types *)

TInv ==
  /\ TypeOK /\ StreamOK /\ size <= consumed
  /\ state_ = "masking_key" => pos <= 4

LEMMA InitTInv == Init => TInv
<1> SUFFICES ASSUME Init PROVE TInv
  OBVIOUS
<1>1. TypeOK
  <2>1. ext \in [0 .. 7 -> 0 .. 255]
    BY Zeros DEF Init
  <2>2. hdr \in Seq(0 .. 255)
    BY DEF Init
  <2>3. MAX_DATA_SIZE \in Nat /\ first \in -1 .. Huge
    BY SizeAssumption DEF Init, Huge
  <2>4. mask \in BOOLEAN /\ start \in BOOLEAN
    BY Zenon DEF Init
  <2>5. QED
    BY <2>1, <2>2, <2>3, <2>4, ReadsAssumption DEF Init, TypeOK, States
<1>2. StreamOK
  BY DEF Init, StreamOK
<1>3. QED
  BY <1>1, <1>2 DEF Init, TInv

LEMMA NextTInv == TInv /\ [Next]_vars => TInv'
<1> SUFFICES ASSUME TInv, [Next]_vars PROVE TInv'
  OBVIOUS
<1>1. ASSUME NEW b \in Bytes, Consume(b) PROVE TInv'
  <2>1. b \in 0 .. 255 /\ StreamOK' /\ first' \in -1 .. Huge
    BY <1>1, StreamKept, BytesAssumption DEF Consume, TInv, TypeOK
  <2>2. /\ consumed' = consumed + 1 /\ consumed < MAX_DATA_SIZE
        /\ UNCHANGED <<reads, start>>
    BY <1>1 DEF Consume
  <2>3. /\ state_' \in States /\ pos' \in 1 .. 8
        /\ mask' \in BOOLEAN /\ payload_len' \in 0 .. 127
        /\ ext' \in [0 .. 7 -> 0 .. 255]
        /\ size' \in Nat /\ size' <= size + 1
        /\ key' \in 0 .. 4 /\ decoded' \in 0 .. size'
        /\ result' \in {"indeterminate", "true"}
        /\ state_' = "masking_key" => pos' <= 4
    <3>1. CASE FinOpcode
      BY <3>1 DEF FinOpcode, frame, TInv, TypeOK, States
    <3>2. CASE MaskPayloadLen(b)
      <4>1. get_bits(b, 0, 7) \in 0 .. 127
        BY <2>1 DEF get_bits, pow2
      <4>2. QED
        BY <3>2, <4>1 DEF MaskPayloadLen, AfterLength, TInv, TypeOK, States
    <3>3. CASE ExtendedPayloadLen(b)
      <4> DEFINE n == LengthBytes
                 e == [ext EXCEPT ![pos - 1] = b]
      <4>1. n \in {2, 8} /\ e \in [0 .. 7 -> 0 .. 255]
        BY <2>1 DEF LengthBytes, TInv, TypeOK
      <4>2. ntoh(e, n) \in [0 .. 7 -> 0 .. 255]
        BY <4>1 DEF ntoh
      <4>3. UNCHANGED <<mask, payload_len, key, size, decoded, result>>
        BY <3>3 DEF ExtendedPayloadLen
      <4>4. /\ mask' \in BOOLEAN /\ payload_len' \in 0 .. 127
            /\ key' \in 0 .. 4 /\ decoded' \in 0 .. size'
            /\ size' = size /\ result' \in {"indeterminate", "true"}
        BY <4>3, Zenon DEF TInv, TypeOK
      <4>5. /\ state_' \in States /\ pos' \in 1 .. 8
            /\ state_' = "masking_key" => pos' <= 4
            /\ ext' \in [0 .. 7 -> 0 .. 255]
        <5>1. CASE pos < n
          <6>1. /\ ext' = e /\ pos' = pos + 1
                /\ state_' = state_ /\ state_ = "extended_payload_len"
            BY <3>3, <5>1 DEF ExtendedPayloadLen
          <6>2. QED
            BY <4>1, <5>1, <6>1 DEF TInv, TypeOK
        <5>2. CASE ~(pos < n)
          <6>1. /\ ext' = ntoh(e, n) /\ pos' = 1
                /\ state_' \in {"masking_key", "payload"}
            BY <3>3, <5>2 DEF ExtendedPayloadLen, AfterLength
          <6>2. ext' \in [0 .. 7 -> 0 .. 255]
            BY <4>2, <6>1, Zenon
          <6>3. state_' \in States /\ pos' \in 1 .. 8 /\ pos' <= 4
            BY <6>1 DEF States
          <6>4. QED
            BY <6>2, <6>3
        <5>3. QED
          BY <5>1, <5>2
      <4>6. size' \in Nat /\ size' <= size + 1
        BY <4>4 DEF TInv, TypeOK
      <4>7. QED
        BY <4>4, <4>5, <4>6
    <3>4. CASE MaskingKey
      BY <3>4 DEF MaskingKey, TInv, TypeOK, States
    <3>5. CASE Payload
      BY <3>5 DEF Payload, TInv, TypeOK, States
    <3>6. QED
      BY <1>1, <3>1, <3>2, <3>3, <3>4, <3>5 DEF Consume, consume
  <2>4. /\ consumed' \in 0 .. MAX_DATA_SIZE /\ size' \in 0 .. MAX_DATA_SIZE
        /\ size' <= consumed'
    BY <2>2, <2>3, SizeAssumption DEF TInv, TypeOK
  <2>5. reads' \in 0 .. MaxReads /\ start' \in BOOLEAN
    BY <2>2 DEF TInv, TypeOK
  <2>6. TypeOK'
    BY <2>1, <2>3, <2>4, <2>5 DEF TypeOK, StreamOK
  <2>7. QED
    BY <2>1, <2>3, <2>4, <2>6 DEF TInv
<1>2. ASSUME NEW b \in Bytes, Skip(b) PROVE TInv'
  <2>1. StreamOK' /\ first' \in -1 .. Huge
    BY <1>2, StreamKept, BytesAssumption DEF Skip, TInv, TypeOK
  <2>2. QED
    BY <1>2, <2>1, SizeAssumption DEF Skip, parser, frame, TInv, TypeOK, StreamOK
<1>3. CASE NextRead
  <2>1. ext' \in [0 .. 7 -> 0 .. 255]
    BY <1>3, Zeros DEF NextRead
  <2>2. StreamOK'
    BY <1>3 DEF NextRead, TInv, StreamOK
  <2>3. first' \in -1 .. Huge /\ start' \in BOOLEAN
    BY <1>3 DEF NextRead, Huge, Boundary
  <2>4. /\ consumed' \in 0 .. MAX_DATA_SIZE /\ size' \in 0 .. MAX_DATA_SIZE
        /\ size' <= consumed' /\ key' \in 0 .. 4 /\ decoded' \in 0 .. size'
        /\ reads' \in 0 .. MaxReads /\ state_' # "masking_key"
    BY <1>3, SizeAssumption, ReadsAssumption DEF NextRead, TInv, TypeOK
  <2>5. /\ state_' \in States /\ pos' \in 1 .. 8
        /\ payload_len' \in 0 .. 127
        /\ result' \in {"indeterminate", "true"}
    BY <1>3 DEF NextRead, States
  <2>8. mask' \in BOOLEAN
    BY <1>3, Zenon DEF NextRead
  <2>6. TypeOK'
    BY <2>1, <2>2, <2>3, <2>4, <2>5, <2>8 DEF TypeOK, StreamOK
  <2>7. QED
    BY <2>2, <2>4, <2>6 DEF TInv
<1>4. CASE UNCHANGED vars
  BY <1>4 DEF vars, parser, frame, stream, TInv, TypeOK, StreamOK, HeaderDone, ExtBytes
<1>5. QED
  BY <1>1, <1>2, <1>3, <1>4 DEF Next

(* Type correctness: every field of parser and frame keeps its range. *)
THEOREM TypeCorrect == Spec => []TypeOK
<1>1. TInv => TypeOK
  BY DEF TInv
<1>2. QED
  BY <1>1, InitTInv, NextTInv, PTL DEF Spec

--------------------------------------------------------------------------------
(* What is delivered *)

Fresh == ext = [i \in 0 .. 7 |-> 0] /\ key = 0 /\ size = 0 /\ decoded = 0

HeaderRead == Len(hdr) >= 2 /\ (mask <=> Masked(hdr)) /\ payload_len = hdr[2] % 128

LengthRead ==
  HeaderDone(hdr) /\ HeaderRead /\ payload_len # 0 /\ PayloadLength = Declared(hdr)

(* The parser and the stream are at the same place of the first frame. *)
InFrame ==
  \/ state_ = "fin_opcode" /\ hdr = <<>> /\ left = 0 /\ Fresh
  \/ state_ = "mask_payload_len" /\ Len(hdr) = 1 /\ left = 0 /\ Fresh
  \/ /\ state_ = "extended_payload_len" /\ Len(hdr) = pos + 1 /\ left = 0
     /\ HeaderRead /\ payload_len \in {126, 127} /\ pos <= LengthBytes
     /\ ext = [i \in 0 .. 7 |-> IF i < pos - 1 THEN hdr[i + 3] ELSE 0]
     /\ key = 0 /\ size = 0 /\ decoded = 0
  \/ /\ state_ = "masking_key" /\ LengthRead /\ mask
     /\ left = Declared(hdr) + 5 - pos /\ key = pos - 1 /\ size = 0 /\ decoded = 0
  \/ /\ state_ = "payload" /\ LengthRead
     /\ left > 0 /\ left = Declared(hdr) - size
     /\ mask => key = 4 /\ decoded = size

(* After a length of 0 in an extended field a payload is waited for that never ends. *)
Lost ==
  first = 0 /\ payload_len \in {126, 127} /\ state_ = "payload" /\ ExtendedLength = 0

Delivered ==
  \/ first = size /\ (payload_len < 126 => payload_len = size /\ (mask => decoded = size))
  \/ /\ first = -1 /\ payload_len = 0 /\ mask /\ size = 0
     /\ HeaderDone(hdr) /\ Declared(hdr) = 0 /\ left > 0

SInv ==
  start =>
    \/ result = "indeterminate" /\ ((first = -1 /\ InFrame) \/ Lost)
    \/ result = "true" /\ Delivered

(* The bits of the second byte. *)
LEMMA SecondByte ==
  ASSUME NEW b \in 0 .. 255
  PROVE  /\ get_bits(b, 7, 1) = 1 <=> b >= 128
         /\ get_bits(b, 0, 7) = b % 128
  BY DEF get_bits, pow2

(* A byte that follows the first one is appended to the header. *)
LEMMA AppendsByte ==
  ASSUME StreamOK, left = 0, NEW b \in 0 .. 255, StreamStep(b),
         NEW h, h = Append(hdr, Kept(b))
  PROVE  /\ InHeader(b)
         /\ h \in Seq(0 .. 255) /\ Len(h) = Len(hdr) + 1
         /\ \A i \in 1 .. Len(hdr) : h[i] = hdr[i]
         /\ hdr # <<>> => h[Len(hdr) + 1] = b
         /\ ~HeaderDone(h) => hdr' = h /\ left' = 0 /\ first' = first
         /\ HeaderDone(h) =>
              /\ left' = Body(h)
              /\ Body(h) # 0 => hdr' = h /\ first' = first
              /\ Body(h) = 0 => first' = IF start /\ first = -1 THEN Declared(h) ELSE first
<1>1. InHeader(b)
  BY DEF StreamStep, InBody
<1>2. Kept(b) \in 0 .. 255 /\ (hdr # <<>> => Kept(b) = b)
  BY DEF Kept
<1>3. /\ h \in Seq(0 .. 255) /\ Len(h) = Len(hdr) + 1
      /\ \A i \in 1 .. Len(hdr) : h[i] = hdr[i]
      /\ h[Len(hdr) + 1] = Kept(b)
  BY <1>2 DEF StreamOK
<1>4. QED
  BY <1>1, <1>2, <1>3 DEF InHeader, FrameEnds

(* ntoh of the bytes received is the length that was declared. *)
LEMMA NtohDeclares ==
  ASSUME NEW h \in Seq(0 .. 255), HeaderDone(h), NEW n \in {2, 8}, n = ExtBytes(h),
         ext' = [i \in 0 .. 7 |-> IF i < n THEN h[n + 2 - i] ELSE 0]
  PROVE  ExtendedLength' = Declared(h)
<1>1. CASE n = 2
  <2>1. /\ ext'[0] = h[4] /\ ext'[1] = h[3]
        /\ \A i \in 2 .. 7 : ext'[i] = 0
    BY <1>1
  <2>2. Declared(h) = 256 * h[3] + h[4]
    BY <1>1 DEF Declared
  <2>3. QED
    BY <2>1, <2>2 DEF ExtendedLength
<1>2. CASE n = 8
  <2>1. /\ ext'[0] = h[10] /\ ext'[1] = h[9] /\ ext'[2] = h[8] /\ ext'[3] = h[7]
        /\ ext'[4] = h[6] /\ ext'[5] = h[5] /\ ext'[6] = h[4] /\ ext'[7] = h[3]
    BY <1>2
  <2>2. (\A i \in 2 .. 7 : ext'[i] = 0) <=> (\A i \in 3 .. 8 : h[i] = 0)
    <3>1. (\A i \in 2 .. 7 : ext'[i] = 0) <=>
            /\ h[8] = 0 /\ h[7] = 0 /\ h[6] = 0 /\ h[5] = 0 /\ h[4] = 0 /\ h[3] = 0
      <4>1. \A i \in 2 .. 7 : i = 2 \/ i = 3 \/ i = 4 \/ i = 5 \/ i = 6 \/ i = 7
        OBVIOUS
      <4>2. (\A i \in 2 .. 7 : ext'[i] = 0) <=>
              /\ ext'[2] = 0 /\ ext'[3] = 0 /\ ext'[4] = 0
              /\ ext'[5] = 0 /\ ext'[6] = 0 /\ ext'[7] = 0
        BY <4>1
      <4>3. QED
        BY <2>1, <4>2
    <3>2. (\A i \in 3 .. 8 : h[i] = 0) <=>
            /\ h[8] = 0 /\ h[7] = 0 /\ h[6] = 0 /\ h[5] = 0 /\ h[4] = 0 /\ h[3] = 0
      <4>1. \A i \in 3 .. 8 : i = 3 \/ i = 4 \/ i = 5 \/ i = 6 \/ i = 7 \/ i = 8
        OBVIOUS
      <4>2. QED
        BY <4>1
    <3>3. QED
      BY <3>1, <3>2
  <2>3. Declared(h) = IF \A i \in 3 .. 8 : h[i] = 0 THEN 256 * h[9] + h[10] ELSE Huge
    BY <1>2 DEF Declared
  <2>4. QED
    BY <2>1, <2>2, <2>3 DEF ExtendedLength
<1>3. QED
  BY <1>1, <1>2

(* One byte of a frame that is not whole. *)
FirstFrame == result = "indeterminate" /\ first = -1

LEMMA OpcodeByte ==
  ASSUME TInv, start, FirstFrame, NEW b \in 0 .. 255, StreamStep(b), FinOpcode,
         hdr = <<>>, left = 0, Fresh
  PROVE  FirstFrame' /\ InFrame'
<1> DEFINE h == Append(hdr, Kept(b))
<1>1. StreamOK
  BY DEF TInv
<1>0. h = Append(hdr, Kept(b))
  OBVIOUS
<1> HIDE DEF h
<1>2. Len(h) = 1
  <2>1. Len(h) = Len(hdr) + 1
    BY <1>0, <1>1, AppendsByte
  <2>2. QED
    BY <2>1
<1>3. ~HeaderDone(h)
  BY <1>2 DEF HeaderDone
<1>4. hdr' = h /\ left' = 0 /\ first' = first
  BY <1>0, <1>1, <1>3, AppendsByte
<1>5. QED
  BY <1>2, <1>4 DEF FinOpcode, frame, Fresh, FirstFrame, InFrame

LEMMA LengthByte ==
  ASSUME TInv, start, FirstFrame, NEW b \in 0 .. 255, StreamStep(b), MaskPayloadLen(b),
         Len(hdr) = 1, left = 0, Fresh
  PROVE  \/ FirstFrame' /\ InFrame'
         \/ result' = "true" /\ Delivered'
<1> DEFINE h == Append(hdr, Kept(b))
<1>1. StreamOK
  BY DEF TInv
<1>0. h = Append(hdr, Kept(b))
  OBVIOUS
<1> HIDE DEF h
<1>2. h \in Seq(0 .. 255) /\ Len(h) = 2 /\ h[2] = b
  <2>1. hdr # <<>>
    OBVIOUS
  <2>2. h \in Seq(0 .. 255) /\ Len(h) = Len(hdr) + 1 /\ h[Len(hdr) + 1] = b
    BY <1>0, <1>1, <2>1, AppendsByte
  <2>3. QED
    BY <2>2
<1>3. /\ ~HeaderDone(h) => hdr' = h /\ left' = 0 /\ first' = first
      /\ HeaderDone(h) =>
           /\ left' = Body(h)
           /\ Body(h) # 0 => hdr' = h /\ first' = first
           /\ Body(h) = 0 => first' = Declared(h)
  <2>1. ~HeaderDone(h) => hdr' = h /\ left' = 0 /\ first' = first
    <3>1. InHeader(b)
      BY DEF StreamStep, InBody
    <3>2. QED
      BY <1>0, <3>1 DEF InHeader
  <2>2. ASSUME HeaderDone(h)
        PROVE  /\ left' = Body(h)
               /\ Body(h) # 0 => hdr' = h /\ first' = first
               /\ Body(h) = 0 => first' = IF start /\ first = -1 THEN Declared(h) ELSE first
    BY <1>0, <1>1, <2>2, AppendsByte
  <2>3. QED
    BY <2>1, <2>2 DEF FirstFrame
<1>4. /\ (mask' <=> b >= 128) /\ payload_len' = b % 128 /\ pos' = 1
      /\ ext' = ext /\ key' = 0 /\ size' = 0 /\ decoded' = 0
      /\ b % 128 \in 0 .. 127
  BY SecondByte, Residue DEF MaskPayloadLen, Fresh
<1>5. (Masked(h) <=> mask') /\ h[2] % 128 = payload_len'
  BY <1>2, <1>4 DEF Masked
<1>6. CASE payload_len' \in {126, 127}
  <2>1. ~HeaderDone(h)
    BY <1>2, <1>5, <1>6 DEF HeaderDone, ExtBytes
  <2>2. hdr' = h /\ left' = 0 /\ first' = -1
    BY <1>3, <2>1 DEF FirstFrame
  <2>3. state_' = "extended_payload_len" /\ result' = "indeterminate"
    BY <1>4, <1>6, SecondByte DEF MaskPayloadLen, FirstFrame
  <2>4. HeaderRead'
    <3>1. Len(hdr') = 2 /\ hdr'[2] % 128 = payload_len'
      <4>1. h[2] % 128 = payload_len'
        BY <1>5
      <4>2. QED
        BY <1>2, <2>2, <4>1
    <3>2. mask' <=> Masked(hdr')
      BY <1>5, <2>2
    <3>3. QED
      BY <3>1, <3>2 DEF HeaderRead, Masked
  <2>5. LengthBytes' \in {2, 8}
    BY DEF LengthBytes
  <2>6. ext' = [i \in 0 .. 7 |-> IF i < pos' - 1 THEN hdr'[i + 3] ELSE 0]
    BY <1>4 DEF Fresh
  <2>7. QED
    BY <1>2, <1>4, <1>6, <2>2, <2>3, <2>4, <2>5, <2>6 DEF FirstFrame, InFrame
<1>7. CASE payload_len' \notin {126, 127}
  <2>1. /\ HeaderDone(h) /\ Declared(h) = payload_len'
        /\ Body(h) = payload_len' + (IF mask' THEN 4 ELSE 0)
    BY <1>2, <1>5, <1>7 DEF HeaderDone, ExtBytes, Declared, Body
  <2>2. CASE payload_len' = 0
    <3>1. result' = "true"
      BY <1>4, <2>2, SecondByte DEF MaskPayloadLen
    <3>2. CASE mask'
      <4>1. hdr' = h /\ first' = -1 /\ left' = 4
        BY <1>3, <2>1, <2>2, <3>2 DEF FirstFrame
      <4>2. HeaderDone(hdr') /\ Declared(hdr') = 0
        BY <2>1, <2>2, <4>1
      <4>3. QED
        BY <1>4, <2>2, <3>1, <3>2, <4>1, <4>2 DEF Delivered, HeaderDone, ExtBytes, Declared
    <3>3. CASE ~mask'
      BY <1>3, <1>4, <2>1, <2>2, <3>1, <3>3 DEF Delivered, FirstFrame
    <3>4. QED
      BY <3>2, <3>3
  <2>3. CASE payload_len' # 0
    <3>1. hdr' = h /\ first' = -1 /\ left' = Body(h)
      BY <1>3, <1>4, <2>1, <2>3 DEF FirstFrame
    <3>2. /\ result' = "indeterminate"
          /\ state_' = IF mask' THEN "masking_key" ELSE "payload"
      BY <1>4, <1>7, <2>3, SecondByte DEF MaskPayloadLen, AfterLength, FirstFrame
    <3>3. PayloadLength' = payload_len'
      BY <1>4, <1>7 DEF PayloadLength
    <3>4. LengthRead' /\ Declared(hdr') = payload_len'
      <4>1. HeaderDone(hdr') /\ Declared(hdr') = payload_len' /\ Len(hdr') = 2
        BY <1>2, <2>1, <3>1
      <4>2. (mask' <=> Masked(hdr')) /\ hdr'[2] % 128 = payload_len'
        BY <1>5, <3>1
      <4>3. HeaderRead'
        BY <4>1, <4>2 DEF HeaderRead, Masked
      <4>4. QED
        BY <2>3, <3>3, <4>1, <4>3 DEF LengthRead, HeaderDone, ExtBytes, Declared
    <3>5. QED
      BY <1>4, <2>1, <2>3, <3>1, <3>2, <3>4 DEF FirstFrame, InFrame
  <2>4. QED
    BY <2>2, <2>3
<1>8. QED
  BY <1>6, <1>7

LEMMA ExtendedByte ==
  ASSUME TInv, start, FirstFrame, NEW b \in 0 .. 255, StreamStep(b), ExtendedPayloadLen(b),
         InFrame
  PROVE  \/ FirstFrame' /\ InFrame'
         \/ result' = "indeterminate" /\ Lost'
<1> DEFINE h == Append(hdr, Kept(b))
           n == LengthBytes
           e == [ext EXCEPT ![pos - 1] = b]
<1>1. StreamOK /\ pos \in 1 .. 8 /\ n \in {2, 8}
  BY DEF TInv, TypeOK, LengthBytes
<1>2. /\ Len(hdr) = pos + 1 /\ left = 0 /\ HeaderRead /\ payload_len \in {126, 127} /\ pos <= n
      /\ ext = [i \in 0 .. 7 |-> IF i < pos - 1 THEN hdr[i + 3] ELSE 0]
      /\ key = 0 /\ size = 0 /\ decoded = 0
  BY DEF InFrame, ExtendedPayloadLen
<1>3. UNCHANGED <<mask, payload_len, key, size, decoded, result>> /\ InHeader(b)
  BY <1>2 DEF ExtendedPayloadLen, StreamStep, InBody
<1>4. /\ h \in Seq(0 .. 255) /\ Len(h) = pos + 2
      /\ \A i \in 1 .. pos + 1 : h[i] = hdr[i]
      /\ h[pos + 2] = b
  <2>1. Kept(b) = b
    <3>1. hdr # <<>>
      BY <1>1, <1>2
    <3>2. QED
      BY <3>1 DEF Kept
  <2>2. hdr \in Seq(0 .. 255)
    BY <1>1 DEF StreamOK
  <2>3. QED
    BY <1>1, <1>2, <2>1, <2>2
<1>5. /\ h[2] = hdr[2] /\ ExtBytes(h) = n /\ (HeaderDone(h) <=> pos = n)
  <2>1. h[2] = hdr[2]
    BY <1>1, <1>4
  <2>2. ExtBytes(h) = n
    BY <1>2, <2>1 DEF ExtBytes, HeaderRead, LengthBytes
  <2>3. QED
    BY <1>1, <1>4, <2>1, <2>2 DEF HeaderDone
<1>6. e = [i \in 0 .. 7 |-> IF i < pos THEN h[i + 3] ELSE 0]
  <2>1. ASSUME NEW i \in 0 .. 7
        PROVE  e[i] = IF i < pos THEN h[i + 3] ELSE 0
    <3>1. CASE i < pos - 1
      <4>1. i + 3 \in 1 .. pos + 1
        BY <1>1, <3>1
      <4>2. e[i] = hdr[i + 3] /\ h[i + 3] = hdr[i + 3]
        BY <1>1, <1>2, <1>4, <3>1, <4>1
      <4>3. QED
        BY <1>1, <3>1, <4>2
    <3>2. CASE i = pos - 1
      <4>1. i + 3 = pos + 2
        BY <1>1, <3>2
      <4>2. e[i] = b
        BY <1>1, <1>2, <3>2
      <4>3. QED
        BY <1>1, <1>4, <3>2, <4>1, <4>2
    <3>3. CASE i > pos - 1
      BY <1>1, <1>2, <3>3
    <3>4. i < pos - 1 \/ i = pos - 1 \/ i > pos - 1
      BY <1>1
    <3>5. QED
      BY <3>1, <3>2, <3>3, <3>4, Zenon
  <2>2. e = [i \in 0 .. 7 |-> e[i]]
    BY <1>2
  <2>3. QED
    BY <2>1, <2>2
<1> HIDE DEF h, n, e
<1>7. /\ ~HeaderDone(h) => hdr' = h /\ left' = 0 /\ first' = first
      /\ HeaderDone(h) =>
           /\ left' = Body(h)
           /\ Body(h) # 0 => hdr' = h /\ first' = first
           /\ Body(h) = 0 => first' = Declared(h)
  BY <1>3 DEF InHeader, FrameEnds, FirstFrame, h
<1>8. Masked(h) <=> mask
  BY <1>2, <1>5 DEF HeaderRead, Masked
<1>9. CASE pos < n
  <2>1. hdr' = h /\ left' = 0 /\ first' = first
    BY <1>1, <1>5, <1>7, <1>9
  <2>2. ext' = e /\ pos' = pos + 1 /\ state_' = "extended_payload_len"
    BY <1>9 DEF ExtendedPayloadLen, n, e
  <2>3. HeaderRead'
    <3>1. Len(hdr') >= 2 /\ hdr'[2] % 128 = payload_len'
      BY <1>1, <1>2, <1>3, <1>4, <1>5, <2>1 DEF HeaderRead
    <3>2. mask' <=> Masked(hdr')
      BY <1>3, <1>8, <2>1
    <3>3. QED
      BY <3>1, <3>2 DEF HeaderRead, Masked
  <2>4. LengthBytes' = n
    BY <1>3 DEF LengthBytes, n
  <2>5. ext' = [i \in 0 .. 7 |-> IF i < pos' - 1 THEN hdr'[i + 3] ELSE 0]
    BY <1>1, <1>6, <2>1, <2>2
  <2>6. Len(hdr') = pos' + 1 /\ pos' <= n
    BY <1>1, <1>4, <1>9, <2>1, <2>2
  <2>7. QED
    BY <1>2, <1>3, <2>1, <2>2, <2>3, <2>4, <2>5, <2>6 DEF InFrame, FirstFrame
<1>10. CASE pos = n
  <2>1. /\ HeaderDone(h) /\ left' = Body(h)
        /\ Body(h) # 0 => hdr' = h /\ first' = first
        /\ Body(h) = 0 => first' = Declared(h)
    BY <1>5, <1>7, <1>10
  <2>2. ext' = ntoh(e, n) /\ pos' = 1 /\ state_' = IF mask THEN "masking_key" ELSE "payload"
    BY <1>1, <1>10 DEF ExtendedPayloadLen, AfterLength, n, e
  <2>3. ext' = [i \in 0 .. 7 |-> IF i < n THEN h[n + 2 - i] ELSE 0]
    <3>1. ASSUME NEW i \in 0 .. 7, i < n
          PROVE  e[n - 1 - i] = h[n + 2 - i]
      <4>1. n - 1 - i \in 0 .. 7 /\ n - 1 - i < pos /\ (n - 1 - i) + 3 = n + 2 - i
        BY <1>1, <1>10, <3>1
      <4>2. QED
        BY <1>6, <4>1
    <3>2. QED
      BY <2>2, <3>1 DEF ntoh
  <2>4. ExtendedLength' = Declared(h)
    BY <1>1, <1>4, <1>5, <2>1, <2>3, NtohDeclares
  <2>5. PayloadLength' = Declared(h) /\ payload_len' \in {126, 127}
    BY <1>2, <1>3, <2>4 DEF PayloadLength
  <2>6. Declared(h) \in Nat /\ Body(h) = Declared(h) + (IF mask THEN 4 ELSE 0)
    <3>2. Declared(h) \in Nat
      BY <1>4, <2>1, DeclaredRange
    <3>3. QED
      BY <1>8, <3>2 DEF Body
  <2>7. ASSUME hdr' = h
        PROVE  LengthRead' /\ Declared(hdr') = Declared(h)
    <3>1. Len(hdr') >= 2 /\ hdr'[2] % 128 = payload_len'
      BY <1>1, <1>2, <1>3, <1>4, <1>5, <2>7 DEF HeaderRead
    <3>2. mask' <=> Masked(hdr')
      BY <1>3, <1>8, <2>7
    <3>3. HeaderRead'
      BY <3>1, <3>2 DEF HeaderRead, Masked
    <3>4. HeaderDone(hdr') /\ PayloadLength' = Declared(hdr') /\ payload_len' # 0
      BY <2>1, <2>5, <2>7
    <3>5. QED
      BY <2>7, <3>3, <3>4 DEF LengthRead, HeaderDone, ExtBytes, Declared
  <2>8. CASE mask
    <3>1. hdr' = h /\ first' = first /\ left' = Declared(h) + 4
      BY <2>1, <2>6, <2>8
    <3>2. QED
      BY <1>2, <1>3, <2>2, <2>7, <2>8, <3>1 DEF InFrame, FirstFrame
  <2>9. CASE ~mask /\ Declared(h) # 0
    <3>1. hdr' = h /\ first' = first /\ left' = Declared(h) /\ left' > 0
      BY <2>1, <2>6, <2>9
    <3>2. QED
      BY <1>2, <1>3, <2>2, <2>6, <2>7, <2>9, <3>1 DEF InFrame, FirstFrame
  <2>10. CASE ~mask /\ Declared(h) = 0
    BY <1>3, <2>1, <2>2, <2>4, <2>5, <2>6, <2>10 DEF Lost, FirstFrame
  <2>11. QED
    BY <2>8, <2>9, <2>10
<1>11. QED
  BY <1>1, <1>2, <1>9, <1>10

LEMMA KeyByte ==
  ASSUME TInv, start, FirstFrame, NEW b \in 0 .. 255, StreamStep(b), MaskingKey, InFrame
  PROVE  \/ FirstFrame' /\ InFrame'
         \/ result' = "indeterminate" /\ Lost'
<1> DEFINE d == Declared(hdr)
<1>1. /\ LengthRead /\ mask /\ left = d + 5 - pos /\ key = pos - 1 /\ size = 0 /\ decoded = 0
      /\ pos \in 1 .. 4 /\ d \in Nat
  <2>1. LengthRead /\ pos \in 1 .. 4 /\ hdr \in Seq(0 .. 255)
    BY DEF InFrame, MaskingKey, TInv, TypeOK
  <2>2. d \in Nat
    BY <2>1, DeclaredRange DEF LengthRead
  <2>3. QED
    BY <2>1, <2>2 DEF InFrame, MaskingKey
<1>2. InBody
  BY <1>1 DEF StreamStep, InHeader
<1>3. UNCHANGED <<mask, payload_len, ext, size, decoded, result>> /\ key' = pos
  BY DEF MaskingKey
<1>4. left' = left - 1 /\ (left # 1 => hdr' = hdr /\ first' = first)
  BY <1>2 DEF InBody
<1>5. ASSUME hdr' = hdr
      PROVE  LengthRead' /\ Declared(hdr') = d
  BY <1>1, <1>3, <1>5
     DEF LengthRead, HeaderRead, HeaderDone, ExtBytes, Declared, Masked, PayloadLength,
         ExtendedLength
<1> HIDE DEF d
<1>6. CASE pos < 4
  <2>1. state_' = "masking_key" /\ pos' = pos + 1 /\ left # 1 /\ left' = d + 5 - pos'
    BY <1>1, <1>4, <1>6 DEF MaskingKey
  <2>2. QED
    BY <1>1, <1>3, <1>4, <1>5, <2>1 DEF InFrame, FirstFrame
<1>7. CASE pos = 4
  <2>1. state_' = "payload" /\ left' = d /\ key' = 4
    BY <1>1, <1>3, <1>4, <1>7 DEF MaskingKey
  <2>2. CASE d = 0
    <3>1. first' = 0
      BY <1>1, <1>2, <1>7, <2>2 DEF InBody, FrameEnds, FirstFrame, d
    <3>2. payload_len # 0 /\ PayloadLength = 0
      BY <1>1, <2>2 DEF LengthRead, d
    <3>3. payload_len \in {126, 127} /\ ExtendedLength = 0
      <4>1. payload_len \in 0 .. 127
        BY Zenon DEF TInv, TypeOK
      <4>2. payload_len >= 126 /\ ExtendedLength = 0
        BY ONLY <3>2, <4>1 DEF PayloadLength
      <4>3. QED
        BY ONLY <4>1, <4>2
    <3>4. ExtendedLength' = 0
      BY <1>3, <3>3 DEF ExtendedLength
    <3>5. QED
      BY <1>3, <2>1, <3>1, <3>3, <3>4 DEF Lost, FirstFrame
  <2>3. CASE d # 0
    <3>1. hdr' = hdr /\ first' = first
      BY <1>1, <1>4, <1>7, <2>3
    <3>2. left' > 0 /\ left' = d - size' /\ decoded' = size'
      BY <1>1, <1>3, <2>1, <2>3
    <3>3. QED
      BY <1>3, <1>5, <2>1, <3>1, <3>2 DEF InFrame, FirstFrame
  <2>4. QED
    BY <2>2, <2>3
<1>8. QED
  BY <1>1, <1>6, <1>7

LEMMA PayloadByte ==
  ASSUME TInv, start, FirstFrame, NEW b \in 0 .. 255, StreamStep(b), Payload, InFrame
  PROVE  \/ FirstFrame' /\ InFrame'
         \/ result' = "true" /\ Delivered'
<1> DEFINE d == Declared(hdr)
<1>1. /\ LengthRead /\ left > 0 /\ left = d - size /\ (mask => key = 4 /\ decoded = size)
      /\ size \in Nat /\ d \in Nat
  <2>1. LengthRead /\ size \in Nat /\ hdr \in Seq(0 .. 255)
    BY SizeAssumption DEF InFrame, Payload, TInv, TypeOK
  <2>2. d \in Nat
    BY <2>1, DeclaredRange DEF LengthRead
  <2>3. QED
    BY <2>1, <2>2 DEF InFrame, Payload
<1>2. InBody
  BY <1>1 DEF StreamStep, InHeader
<1>3. UNCHANGED <<state_, pos, mask, payload_len, ext, key>> /\ size' = size + 1
  BY DEF Payload
<1>4. /\ left' = left - 1
      /\ left # 1 => hdr' = hdr /\ first' = first
      /\ left = 1 => first' = d
  BY <1>2 DEF InBody, FrameEnds, FirstFrame
<1>5. PayloadLength' = d
  BY <1>1, <1>3 DEF LengthRead, PayloadLength, ExtendedLength
<1>6. mask' => decoded' = size'
  BY <1>1, <1>3 DEF Payload
<1>7. ASSUME hdr' = hdr
      PROVE  LengthRead' /\ Declared(hdr') = d
  BY <1>1, <1>3, <1>5, <1>7
     DEF LengthRead, HeaderRead, HeaderDone, ExtBytes, Declared, Masked
<1>8. result' = IF size' = d THEN "true" ELSE result
  <2>1. PayloadLength = d
    BY <1>1 DEF LengthRead
  <2>2. QED
    BY <2>1 DEF Payload
<1>9. payload_len < 126 => payload_len = d
  BY <1>1 DEF LengthRead, PayloadLength, TInv, TypeOK
<1> HIDE DEF d
<1>10. CASE left = 1
  <2>1. size' = d /\ first' = size' /\ result' = "true"
    BY <1>1, <1>3, <1>4, <1>8, <1>10
  <2>2. QED
    BY <1>3, <1>6, <1>9, <2>1 DEF Delivered
<1>11. CASE left # 1
  <2>1. size' # d /\ left' > 0 /\ left' = d - size' /\ hdr' = hdr /\ first' = first
    BY <1>1, <1>3, <1>4, <1>11
  <2>2. result' = result
    BY <1>8, <2>1
  <2>3. QED
    BY <1>1, <1>3, <1>6, <1>7, <2>1, <2>2 DEF Payload, InFrame, FirstFrame
<1>12. QED
  BY <1>10, <1>11

LEMMA SInit == Init => SInv
  BY DEF Init, SInv, InFrame, Fresh

(* A byte after the first frame is whole does not change which one is the first. *)
LEMMA SkipKeeps ==
  ASSUME TInv, SInv, NEW b \in 0 .. 255, Skip(b)
  PROVE  SInv'
<1> SUFFICES ASSUME start PROVE Delivered'
  BY DEF Skip, SInv, parser
<1>1. /\ Delivered /\ StreamStep(b) /\ StreamOK
      /\ UNCHANGED <<state_, pos, mask, payload_len, ext, key, size, decoded, result, start>>
  BY DEF Skip, SInv, parser, frame, TInv
<1>2. CASE first = size
  <2>1. first' = first
    <3>1. first # -1
      BY <1>2 DEF TInv, TypeOK
    <3>2. QED
      BY <1>1, <3>1 DEF StreamStep, InHeader, InBody, FrameEnds
  <2>2. QED
    BY <1>1, <1>2, <2>1 DEF Delivered
<1>3. CASE first = -1
  <2>1. /\ payload_len = 0 /\ mask /\ size = 0
        /\ HeaderDone(hdr) /\ Declared(hdr) = 0 /\ left > 0 /\ left \in Nat
    BY <1>1, <1>3 DEF Delivered, StreamOK, TInv, TypeOK
  <2>2. InBody
    BY <1>1, <2>1 DEF StreamStep, InHeader
  <2>3. CASE left = 1
    <3>1. first' = 0
      BY <1>3, <2>1, <2>2, <2>3 DEF InBody, FrameEnds
    <3>2. decoded = 0
      BY <2>1 DEF TInv, TypeOK
    <3>3. QED
      BY <1>1, <2>1, <3>1, <3>2 DEF Delivered
  <2>4. CASE left # 1
    <3>1. hdr' = hdr /\ first' = -1 /\ left' = left - 1
      BY <1>3, <2>2, <2>4 DEF InBody
    <3>2. HeaderDone(hdr') /\ Declared(hdr') = 0
      BY <2>1, <3>1
    <3>3. left' > 0
      BY <2>1, <2>4, <3>1
    <3>4. QED
      BY <1>1, <2>1, <3>1, <3>2, <3>3 DEF Delivered
  <2>5. QED
    BY <2>3, <2>4
<1>4. QED
  BY <1>1, <1>2, <1>3 DEF Delivered

(* The bytes of a payload that never ends. *)
LEMMA LostKeeps ==
  ASSUME TInv, Lost, result = "indeterminate", NEW b \in 0 .. 255, Consume(b)
  PROVE  result' = "indeterminate" /\ Lost'
<1>1. Payload /\ StreamStep(b)
  BY DEF Lost, Consume, consume, FinOpcode, MaskPayloadLen, ExtendedPayloadLen, MaskingKey
<1>2. first' = 0
  BY <1>1 DEF Lost, StreamStep, InHeader, InBody, FrameEnds
<1>3. UNCHANGED <<state_, payload_len, ext>>
  BY <1>1 DEF Payload
<1>4. ExtendedLength' = 0
  BY <1>3 DEF Lost, ExtendedLength
<1>5. PayloadLength = 0 /\ size' = size + 1 /\ size \in Nat
  BY <1>1, SizeAssumption DEF Lost, PayloadLength, Payload, TInv, TypeOK
<1>6. result' = "indeterminate"
  <2>1. size' # PayloadLength
    BY <1>5
  <2>2. QED
    BY <1>1, <2>1 DEF Payload
<1>7. QED
  BY <1>2, <1>3, <1>4, <1>6 DEF Lost

LEMMA SStep == TInv /\ SInv /\ [Next]_vars => SInv'
<1> SUFFICES ASSUME TInv, SInv, [Next]_vars PROVE SInv'
  OBVIOUS
<1>1. ASSUME NEW b \in Bytes, Consume(b) PROVE SInv'
  <2> SUFFICES ASSUME start
               PROVE  \/ result' = "indeterminate" /\ ((first' = -1 /\ InFrame') \/ Lost')
                      \/ result' = "true" /\ Delivered'
    BY <1>1 DEF Consume, SInv
  <2>1. b \in 0 .. 255
    BY BytesAssumption
  <2>2. result = "indeterminate" /\ consume(b) /\ StreamStep(b)
    BY <1>1 DEF Consume
  <2>3. CASE Lost
    BY <1>1, <2>1, <2>2, <2>3, LostKeeps
  <2>4. CASE first = -1 /\ InFrame
    <3>0. FirstFrame
      BY <2>2, <2>4 DEF FirstFrame
    <3>1. CASE FinOpcode
      <4>1. hdr = <<>> /\ left = 0 /\ Fresh
        BY <2>4, <3>1 DEF InFrame, FinOpcode
      <4>2. QED
        BY <2>1, <2>2, <3>0, <3>1, <4>1, OpcodeByte, Zenon DEF FirstFrame
    <3>2. CASE MaskPayloadLen(b)
      <4>1. Len(hdr) = 1 /\ left = 0 /\ Fresh
        BY <2>4, <3>2 DEF InFrame, MaskPayloadLen
      <4>2. QED
        BY <2>1, <2>2, <3>0, <3>2, <4>1, LengthByte, Zenon DEF FirstFrame
    <3>3. CASE ExtendedPayloadLen(b)
      BY <2>1, <2>2, <2>4, <3>0, <3>3, ExtendedByte, Zenon DEF FirstFrame
    <3>4. CASE MaskingKey
      BY <2>1, <2>2, <2>4, <3>0, <3>4, KeyByte, Zenon DEF FirstFrame
    <3>5. CASE Payload
      BY <2>1, <2>2, <2>4, <3>0, <3>5, PayloadByte, Zenon DEF FirstFrame
    <3>6. QED
      BY <2>2, <3>1, <3>2, <3>3, <3>4, <3>5 DEF consume
  <2>5. QED
    BY <2>2, <2>3, <2>4 DEF SInv
<1>2. ASSUME NEW b \in Bytes, Skip(b) PROVE SInv'
  BY <1>2, SkipKeeps, BytesAssumption
<1>3. CASE NextRead
  BY <1>3 DEF NextRead, Boundary, SInv, InFrame, Fresh
<1>4. CASE UNCHANGED vars
  <2>1. UNCHANGED <<state_, pos, mask, payload_len, ext, key, size, decoded, result,
                    hdr, left, first, start>>
    BY <1>4 DEF vars, parser, frame, stream
  <2>2. (InFrame <=> InFrame') /\ (Lost <=> Lost') /\ (Delivered <=> Delivered')
    BY <2>1 DEF InFrame, Lost, Delivered, Fresh, HeaderRead, LengthRead, LengthBytes,
                PayloadLength, ExtendedLength, Declared, HeaderDone, ExtBytes, Masked
  <2>3. QED
    BY <2>1, <2>2 DEF SInv
<1>5. QED
  BY <1>1, <1>2, <1>3, <1>4 DEF Next

LEMMA SafeAlways == Spec => [](TInv /\ SInv)
  BY InitTInv, NextTInv, SInit, SStep, PTL DEF Spec

(* What is handed on is the first frame that was sent, with its declared length. *)
THEOREM FirstDelivered == Spec => []DeliversFirst
<1>1. TInv /\ SInv => DeliversFirst
  BY DEF SInv, Delivered, DeliversFirst
<1>2. QED
  BY <1>1, SafeAlways, PTL

(* Only a frame that declares a length of 0 in an extended field is missed. *)
THEOREM OnlyEmptyMissed == Spec => []MissesOnlyEmpty
<1>1. TInv /\ SInv => MissesOnlyEmpty
  BY DEF SInv, Lost, MissesOnlyEmpty, TInv, TypeOK
<1>2. QED
  BY <1>1, SafeAlways, PTL

(* A short frame with a key is copied whole, and decoded with the key that was sent. *)
THEOREM ShortPacketIntact == Spec => []PacketIntact
<1>1. TInv /\ SInv => PacketIntact
  BY DEF SInv, Delivered, PacketIntact, TInv, TypeOK
<1>2. QED
  BY <1>1, SafeAlways, PTL
================================================================================
