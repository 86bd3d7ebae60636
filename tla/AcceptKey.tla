-------------------------------- MODULE AcceptKey --------------------------------
(***************************************************************************)
(* The reply to a handshake: request_handler::handle_request hashes the    *)
(* key of the request with SHA1, converts the hash with Base64, and reply  *)
(* turns the headers into a buffer.                                        *)
(*                                                                         *)
(* A word is the set of the places of its bits.  SHA1's uint32 is unsigned *)
(* long, which has 64 bits on the hosts the makefile builds for: the class *)
(* computes modulo 2^64, its blocks hold sign extended integers, and what  *)
(* is right are the lower halves.  The reference is FIPS 180-4, RFC 4648   *)
(* and RFC 6455, on words of 32 bits.                                      *)
(***************************************************************************)
EXTENDS Integers, SequencesExt

CONSTANTS
  Keys          \* values of the Sec-WebSocket-Key header, not empty

(* A read has no more bytes, and the key of a request is in one read. *)
MAX_DATA_SIZE == 1024

ASSUME KeysAssumption == \A k \in Keys : k \in Seq(0 .. 255) /\ Len(k) \in 1 .. MAX_DATA_SIZE

VARIABLES
  place,        \* where handle_request is
  rest,         \* of the stream that update reads
  buffer, digest, transforms,   \* members of SHA1
  total_bits,
  block, abcde, round,          \* of transform: the working variables a to e, the round
  return,       \* where transform returns to
  sent,         \* to_buffer() of the reply
  asked,        \* history: the key of the request
  W, working, H \* the reference: schedule, working variables and hash value

sha1   == <<buffer, digest, transforms>>
fips   == <<W, working, H>>
local  == <<block, abcde, round, return>>
akVars == <<place, rest, sha1, total_bits, local, sent, asked, fips>>

magic_guid == <<50, 53, 56, 69, 65, 70, 65, 53, 45, 69, 57, 49, 52, 45, 52, 55, 68, 65, 45,
                57, 53, 67, 65, 45, 67, 53, 65, 66, 48, 68, 67, 56, 53, 66, 49, 49>>

--------------------------------------------------------------------------------
(* Words. *)

Bits(n, width) == {b \in 0 .. width - 1 : (n \div 2^b) % 2 = 1}

(* A constant of 32 bits, given by its halves. *)
Const(high, low) == {b + 16 : b \in Bits(high, 16)} \cup Bits(low, 16)

xor(x, y) == (x \cup y) \ (x \cap y)

(* A place gets a carry from one below where both have a bit, if all between pass it on. *)
Carries(x, y, b) ==
  \E k \in 0 .. b - 1 : k \in x /\ k \in y /\ \A j \in k + 1 .. b - 1 : j \in x \/ j \in y

(* The sum modulo 2^width: a bit is set if one or all of the three are. *)
plus(x, y, width) == {b \in 0 .. width - 1 : (b \in x <=> b \in y) <=> Carries(x, y, b)}

shl(x, n) == {b + n : b \in x} \cap 0 .. 63
shr(x, n) == {b - n : b \in x} \cap 0 .. 63

Min2(m, n) == IF m < n THEN m ELSE n

--------------------------------------------------------------------------------
(* FIPS 180-4, beside the code: a round for every round. *)

rotl(x, n) == {(b + n) % 32 : b \in x}

(* 5.1.1 *)
Padded(m) ==
  m \o <<128>> \o [i \in 1 .. (55 - Len(m)) % 64 |-> 0]
    \o <<0, 0, 0, 0, 0, 0, (8 * Len(m)) \div 256, (8 * Len(m)) % 256>>

Word(m, i) == Const(256 * m[4 * i - 3] + m[4 * i - 2], 256 * m[4 * i - 1] + m[4 * i])

f(t, x, y, z) ==
  CASE t < 20            -> xor(x \cap y, z \ x)
    [] t \in 40 .. 59    -> xor(x \cap y, xor(x \cap z, y \cap z))
    [] OTHER             -> xor(x, xor(y, z))

K(t) == <<Const(23170, 31129), Const(28377, 60321), Const(36635, 48348),
          Const(51810, 49622)>>[(t \div 20) + 1]

(* 6.1.2: the words of the next block, a round, and the sum. *)
RefBlock ==
  /\ W' = [i \in 1 .. 16 |-> Word(Padded(asked \o magic_guid), 16 * transforms + i)]
  /\ working' = H /\ UNCHANGED H

RefRound(t) ==
  LET next == rotl(xor(xor(W[t - 2], W[t - 7]), xor(W[t - 13], W[t - 15])), 1)
      Wt   == IF t < 16 THEN W[t + 1] ELSE next
      s    == working
  IN
  /\ W' = IF t < 16 THEN W ELSE Append(W, next)
  /\ working' = <<plus(plus(rotl(s[1], 5), f(t, s[2], s[3], s[4]), 32),
                      plus(plus(s[5], K(t), 32), Wt, 32), 32),
                 s[1], rotl(s[2], 30), s[3], s[4]>>
  /\ UNCHANGED H

RefEnd == H' = [j \in 1 .. 5 |-> plus(H[j], working[j], 32)] /\ UNCHANGED <<W, working>>

--------------------------------------------------------------------------------
(* SHA1 *)

BLOCK_BYTES == 64
BLOCK_INTS  == 16

digest0 == <<Const(26437, 8961), Const(61389, 43913), Const(39098, 56574),
             Const(4146, 21622), Const(50130, 57840)>>

(* Fault: the upper half of a wide word is shifted into the lower one. *)
FaultNoMask(value, bits) == shl(value, bits) \cup shr(value, 32 - bits)

SHA1_ROL(value, bits) == shl(value, bits) \cup shr(value \cap 0 .. 31, 32 - bits)

(* An int, so a first byte of 128 and more fills the upper half of the word. *)
buffer_to_block(bytes) ==
  [i \in 0 .. BLOCK_INTS - 1 |->
    LET byte(j) == Bits(bytes[4 * i + j + 1], 8)
        int     == UNION {shl(byte(j), 8 * (3 - j)) : j \in 0 .. 3}
    IN  IF 31 \in int THEN int \cup 32 .. 63 ELSE int]

SHA1_BLK(i) ==
  SHA1_ROL(xor(xor(block[(i + 13) % 16], block[(i + 8) % 16]),
               xor(block[(i + 2) % 16], block[i % 16])), 1)

(* The functions and constants of the macros R0 and R1, R2, R3, R4. *)
mixes(i, w, x, y) ==
  CASE i < 20 -> xor(w \cap xor(x, y), y)
    [] i \in 20 .. 39 \cup 60 .. 79 -> xor(xor(w, x), y)
    [] OTHER -> ((w \cup x) \cap y) \cup (w \cap x)

adds(i) ==
  CASE i < 20        -> Const(23170, 31129)
    [] i \in 20 .. 39 -> Const(28377, 60321)
    [] i \in 40 .. 59 -> Const(36635, 48348)
    [] OTHER          -> Const(51810, 49622)

(* The five variables change places with every line of transform. *)
role(r, i) == ((r + 4 * i) % 5) + 1

Call(words, then) ==
  /\ block' = words /\ abcde' = digest /\ round' = 0 /\ return' = then
  /\ place' = "transform"
  /\ RefBlock

Round ==
  LET i == round
      v == abcde[role(0, i)]    w == abcde[role(1, i)]    x == abcde[role(2, i)]
      y == abcde[role(3, i)]    z == abcde[role(4, i)]
      blk == IF i < 16 THEN block[i] ELSE SHA1_BLK(i)
      sum == plus(plus(plus(mixes(i, w, x, y), blk, 64), adds(i), 64), SHA1_ROL(v, 5), 64)
  IN
  /\ place = "transform" /\ i < 80
  /\ block' = [block EXCEPT ![i % 16] = blk]
  /\ abcde' = [abcde EXCEPT ![role(4, i)] = plus(z, sum, 64), ![role(1, i)] = SHA1_ROL(w, 30)]
  /\ round' = i + 1
  /\ RefRound(i)
  /\ UNCHANGED <<place, rest, sha1, total_bits, return, sent, asked>>

EndTransform ==
  /\ place = "transform" /\ round = 80
  /\ digest' = [j \in 1 .. 5 |-> plus(digest[j], abcde[j], 64)]
  /\ transforms' = transforms + 1
  /\ place' = return
  /\ RefEnd
  /\ UNCHANGED <<rest, buffer, total_bits, local, sent, asked>>

(* update: the loop ends with the first read that does not fill a block. *)
Update ==
  LET n == Min2(BLOCK_BYTES, Len(rest)) IN
  /\ place = "update"
  /\ buffer' = SubSeq(rest, 1, n) /\ rest' = SubSeq(rest, n + 1, Len(rest))
  /\ IF n = BLOCK_BYTES THEN Call(buffer_to_block(buffer'), "update")
                        ELSE place' = "final" /\ UNCHANGED <<local, fips>>
  /\ UNCHANGED <<digest, transforms, total_bits, sent, asked>>

(* The length is 8 * 1060 at most: 16 bits hold it, and the word above it is empty. *)
WithLength(words) ==
  [words EXCEPT ![BLOCK_INTS - 1] = Bits(total_bits', 16), ![BLOCK_INTS - 2] = {}]

Final ==
  LET orig_size == Len(buffer) + 1
      padded    == buffer \o <<128>> \o [i \in 1 .. BLOCK_BYTES - orig_size |-> 0]
      words     == buffer_to_block(padded)
  IN
  /\ place = "final"
  /\ total_bits' = (transforms * BLOCK_BYTES + Len(buffer)) * 8
  /\ buffer' = padded
  /\ IF orig_size > BLOCK_BYTES - 8 THEN Call(words, "length")
                                    ELSE Call(WithLength(words), "answer")
  /\ UNCHANGED <<rest, digest, transforms, sent, asked>>

(* The length did not fit: a block of its own. *)
Length ==
  /\ place = "length"
  /\ total_bits' = total_bits
  /\ Call(WithLength([i \in 0 .. BLOCK_INTS - 1 |-> {}]), "answer")
  /\ UNCHANGED <<rest, sha1, sent, asked>>

(* The bytes of the digest, as sets of bits. *)
hash ==
  [i \in 1 .. 20 |-> shr(digest[((i - 1) \div 4) + 1], 8 * (3 - ((i - 1) % 4))) \cap 0 .. 7]

--------------------------------------------------------------------------------
(* Base64::to_base64, the characters as their numbers in base64Chars *)

Value(bits) == LET value[b \in 0 .. 6] ==
                     IF b = 0 THEN 0
                     ELSE value[b - 1] + (IF b - 1 \in bits THEN 2^(b - 1) ELSE 0)
               IN  value[6]

to_base64(bytes) ==
  LET pushCount == (3 - (Len(bytes) % 3)) % 3
      data      == bytes \o [i \in 1 .. pushCount |-> {}]
      chars(i)  == <<shr(data[i], 2),
                     shl(data[i] \cap 0 .. 1, 4) \cup shr(data[i + 1], 4),
                     shl(data[i + 1] \cap 0 .. 3, 2) \cup shr(data[i + 2], 6),
                     data[i + 2] \cap 0 .. 5>>
      result    == [n \in 1 .. 4 * (Len(data) \div 3) |->
                     Value(chars(3 * ((n - 1) \div 4) + 1)[((n - 1) % 4) + 1])]
  IN  [n \in DOMAIN result |-> IF n > Len(result) - pushCount THEN "=" ELSE result[n]]

--------------------------------------------------------------------------------
(* request_handler and reply *)

header(name, value) == <<name, ": ", value, "crlf">>

to_buffer(status, headers) == <<status>> \o FlattenSeq(headers) \o <<"crlf">>

AkInit ==
  /\ place = "waiting" /\ rest = <<>>
  /\ buffer = <<>> /\ digest = digest0 /\ transforms = 0 /\ total_bits = 0
  /\ block = [i \in 0 .. BLOCK_INTS - 1 |-> {}] /\ abcde = digest0 /\ round = 0
  /\ return = "waiting" /\ sent = <<>> /\ asked = <<>>
  /\ W = <<>> /\ working = digest0 /\ H = digest0

(* A SHA1 object of its own, whose constructor calls reset. *)
HandleRequest(key) ==
  /\ place = "waiting"
  /\ place' = "update" /\ rest' = key \o magic_guid /\ asked' = key
  /\ UNCHANGED <<sha1, total_bits, local, sent, fips>>

Reply ==
  /\ place = "answer"
  /\ place' = "answered"
  /\ sent' = to_buffer("101", <<header("Upgrade", "websocket"), header("Connection", "Upgrade"),
                                header("Sec-WebSocket-Accept", to_base64(hash))>>)
  /\ UNCHANGED <<rest, sha1, total_bits, local, asked, fips>>

AkNext ==
  \/ \E k \in Keys : HandleRequest(k)
  \/ Update \/ Final \/ Length \/ Round \/ EndTransform \/ Reply

AkSpec == AkInit /\ [][AkNext]_akVars

--------------------------------------------------------------------------------
(* What the client expects. *)

(* RFC 4648, 4: 160 bits are 26 groups of six and one of four, and one "=". *)
Base64Of(words) ==
  LET bit(k)   == k <= 160 /\ 31 - ((k - 1) % 32) \in words[((k - 1) \div 32) + 1]
      group(n) == {b \in 0 .. 5 : bit(6 * n - b)}
  IN  [n \in 1 .. 28 |-> IF n = 28 THEN "=" ELSE Value(group(n))]

(***************************************************************************)
(* The reply to a request with a key is the one a client checks: 101, the  *)
(* upgrade, and the Base64 form of the SHA-1 hash of its key and the GUID  *)
(* (RFC 6455, 4.2.2), whatever blocks the key falls into and although the  *)
(* words of the hash are twice as wide as they should be.                  *)
(***************************************************************************)
AcceptsKey ==
  place = "answered" =>
    /\ 64 * transforms = Len(Padded(asked \o magic_guid))
    /\ sent = <<"101", "Upgrade", ": ", "websocket", "crlf", "Connection", ": ", "Upgrade", "crlf",
                "Sec-WebSocket-Accept", ": ", Base64Of(H), "crlf", "crlf">>
================================================================================
