-------------------------------- MODULE WireFormat --------------------------------
(***************************************************************************)
(* What the generated messages use of the protobuf library, by tokens: a   *)
(* field on the wire is its tag, its value and whether all of it arrived.   *)
(* A varint's value is its number, a length delimited value the sequence   *)
(* of its elements: characters, which are numbers below 128, or the        *)
(* numbers of a packed field.  A group is one token, from its tag to the   *)
(* matching end, with the number of bytes between them for its value.  A    *)
(* tag of 0 stands for a tag that was cut.                                  *)
(***************************************************************************)
EXTENDS Integers, SequencesExt

VARINT      == 0
FIXED64     == 1
LENGTH      == 2
START_GROUP == 3
END_GROUP   == 4
FIXED32     == 5

WireType(tag) == tag % 8

(* Sizes, in bytes. *)
UInt32Size(n) ==
  IF n < 128 THEN 1 ELSE IF n < 16384 THEN 2 ELSE IF n < 2097152 THEN 3
  ELSE IF n < 268435456 THEN 4 ELSE 5

PayloadSize(s) == FoldLeft(LAMBDA sum, n : sum + UInt32Size(n), 0, s)

StringSize(s) == UInt32Size(PayloadSize(s)) + PayloadSize(s)

TokenSize(t) ==
  UInt32Size(t.tag) +
    CASE WireType(t.tag) = VARINT  -> UInt32Size(t.val)
      [] WireType(t.tag) = LENGTH  -> StringSize(t.val)
      [] WireType(t.tag) = START_GROUP -> t.val + UInt32Size(t.tag)
      [] WireType(t.tag) = FIXED64 -> 8
      [] WireType(t.tag) = FIXED32 -> 4

WireSize(tokens) == FoldLeft(LAMBDA sum, t : sum + TokenSize(t), 0, tokens)

Token(tag, val) == [tag |-> tag, val |-> val, whole |-> TRUE]

(* A bool is any number on the wire, and 0 or 1 when it is written. *)
WriteBool(b) == IF b THEN 1 ELSE 0
ReadBool(n)  == n # 0

(***************************************************************************)
(* A turn of the loop that every MergePartialFromCodedStream has.  What the *)
(* class does with the token is the message, whether the read succeeded,    *)
(* and whether it was one of its fields; others are kept as unknown fields. *)
(***************************************************************************)
Stored(m)  == [msg |-> m, ok |-> TRUE,  known |-> TRUE]
Failed(m)  == [msg |-> m, ok |-> FALSE, known |-> TRUE]
Unusual(m) == [msg |-> m, ok |-> TRUE,  known |-> FALSE]

Skippable(t) == t.whole /\ WireType(t.tag) \in {VARINT, FIXED64, LENGTH, START_GROUP, FIXED32}

handle_unusual(m, t) ==
  IF t.tag = 0 \/ WireType(t.tag) = END_GROUP THEN [msg |-> m, result |-> "ended"]
  ELSE IF Skippable(t) THEN [msg |-> [m EXCEPT !.unknown = Append(@, t)], result |-> "reading"]
  ELSE [msg |-> m, result |-> "failure"]

Reading(m) == [msg |-> m, result |-> "reading"]

mergeToken(s, t, f) ==
  IF s.result # "reading" THEN s
  ELSE IF ~f.known THEN handle_unusual(s.msg, t)
  ELSE [msg |-> f.msg, result |-> IF f.ok THEN "reading" ELSE "failure"]
====================================================================================
