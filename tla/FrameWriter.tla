------------------------------- MODULE FrameWriter -------------------------------
(***************************************************************************)
(* The header of a frame as dataframe::to_buffer writes it: the bytes of   *)
(* the buffer before the payload.  A frame is one made for an OPacket,     *)
(* with extended_payload_len16 still 0, or one of another opcode.          *)
(***************************************************************************)
EXTENDS Integers, Sequences

CONSTANTS
  Sizes,          \* payload sizes
  ShiftOutcomes   \* bytes a shift by more than the width of int may produce

VARIABLES
  fin, opcode,    \* of the dataframe
  size,           \* payload.size()
  buffer,         \* the length bytes written
  written

frame == <<fin, opcode, size>>
vars  == <<frame, buffer, written>>

(* dataframe::operation_code *)
operation_code ==
  {"continuation_frame", "text_frame", "binary_frame", "connection_close", "ping", "pong",
   "reserved"}

fin_opcode ==
  (IF fin THEN 128 ELSE 0) +
  CASE opcode = "continuation_frame" -> 0 [] opcode = "text_frame" -> 1
    [] opcode = "binary_frame" -> 2 [] opcode = "connection_close" -> 8
    [] opcode = "ping" -> 9 [] opcode = "pong" -> 10 [] OTHER -> 15

(* The conversion on little endian hosts: the two bytes are exchanged. *)
hton16(n) == 256 * (n % 256) + n \div 256

(* Bytes 1 and 0 of a 16 bit number, most significant first. *)
high_low(n) == <<n \div 256, n % 256>>

Init ==
  /\ fin \in BOOLEAN /\ opcode \in operation_code /\ size \in Sizes
  /\ buffer = <<>> /\ written = FALSE

write(bytes) ==
  /\ ~written
  /\ buffer' = <<fin_opcode>> \o bytes /\ written' = TRUE
  /\ UNCHANGED frame

ShortFrame == size < 126 /\ write(<<size>>)

(* The size is converted, and the result written most significant byte first. *)
MediumFrame ==
  /\ 126 <= size /\ size < 65536
  /\ write(<<126>> \o high_low(hton16(size)))

(***************************************************************************)
(* Of the converted 64 bit size only the most significant byte is written, *)
(* which holds the least significant one of size.  The rest is taken from  *)
(* the 16 bit field, first with shifts by 48, 40 and 32: undefined.        *)
(***************************************************************************)
LongFrame ==
  /\ size >= 65536
  /\ \E u \in [1 .. 3 -> ShiftOutcomes] :
       write(<<127, size % 256, u[1], u[2], u[3], 0, 0, 0, 0>>)

Next == ShortFrame \/ MediumFrame \/ LongFrame

Spec == Init /\ [][Next]_vars

--------------------------------------------------------------------------------

(* The last k bytes of n in network order; sizes are below 2^31. *)
Digits(n, k) ==
  [i \in 1 .. k |-> IF k - i > 3 THEN 0 ELSE (n \div 256^(k - i)) % 256]

NetworkOrder(n) ==
  IF n < 126 THEN <<n>>
  ELSE IF n < 65536 THEN <<126>> \o Digits(n, 2)
  ELSE <<127>> \o Digits(n, 8)

(***************************************************************************)
(* "Convert to the big-endian" (dataframe_parser.cpp:43): the length field *)
(* of a frame is in network order.                                         *)
(***************************************************************************)
WritesBigEndian == written => Tail(buffer) = NetworkOrder(size)
================================================================================
