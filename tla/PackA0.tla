---------------------------------- MODULE PackA0 ----------------------------------
(***************************************************************************)
(* The message of a client that sets up its session (Setup.proto).          *)
(***************************************************************************)
EXTENDS WireFormat

(* SharedCtor *)
New == [has |-> {}, username |-> <<>>, unknown |-> <<>>]

mutable_username(m) == [m EXCEPT !.has = @ \cup {"username"}]
set_username(m, s)  == [mutable_username(m) EXCEPT !.username = s]
clear_username(m)   == [m EXCEPT !.has = @ \ {"username"}, !.username = <<>>]
release_username(m) == clear_username(m)

Accessed(m, Strings) ==
  {set_username(m, s) : s \in Strings}
    \cup {mutable_username(m), clear_username(m), release_username(m)}

Clear(m) == [New EXCEPT !.username = IF "username" \in m.has THEN @ ELSE m.username]

Field(m, t) ==
  IF t.tag = 10 THEN [Stored(set_username(m, t.val)) EXCEPT !.ok = t.whole] ELSE Unusual(m)

MergePartialFromCodedStream(m, tokens) ==
  FoldLeft(LAMBDA s, t : mergeToken(s, t, Field(s.msg, t)), Reading(m), tokens)

SerializeWithCachedSizes(m) ==
  (IF "username" \in m.has THEN <<Token(10, m.username)>> ELSE <<>>) \o m.unknown

ByteSize(m) ==
  (IF "username" \in m.has THEN 1 + StringSize(m.username) ELSE 0) + WireSize(m.unknown)

MergeFrom(m, from) ==
  [has      |-> m.has \cup from.has,
   username |-> IF "username" \in from.has THEN from.username ELSE m.username,
   unknown  |-> m.unknown \o from.unknown]

CopyFrom(m, from) == MergeFrom(Clear(m), from)

Swap(pair) == <<pair[2], pair[1]>>
====================================================================================
