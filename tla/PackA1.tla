---------------------------------- MODULE PackA1 ----------------------------------
(***************************************************************************)
(* The answer of the server to PackA0: the client's id (Setup.proto).       *)
(***************************************************************************)
EXTENDS WireFormat

(* SharedCtor *)
New == [has |-> {}, id |-> 0, unknown |-> <<>>]

set_id(m, n) == [m EXCEPT !.has = @ \cup {"id"}, !.id = n]
clear_id(m)  == [m EXCEPT !.has = @ \ {"id"}, !.id = 0]

Accessed(m, Ids) == {set_id(m, n) : n \in Ids} \cup {clear_id(m)}

Clear(m) == [m EXCEPT !.has = {}, !.id = 0, !.unknown = <<>>]

Field(m, t) ==
  CASE t.tag = 8 /\ t.whole  -> Stored(set_id(m, t.val))
    [] t.tag = 8 /\ ~t.whole -> Failed(m)
    [] OTHER                 -> Unusual(m)

MergePartialFromCodedStream(m, tokens) ==
  FoldLeft(LAMBDA s, t : mergeToken(s, t, Field(s.msg, t)), Reading(m), tokens)

SerializeWithCachedSizes(m) ==
  (IF "id" \in m.has THEN <<Token(8, m.id)>> ELSE <<>>) \o m.unknown

ByteSize(m) == (IF "id" \in m.has THEN 1 + UInt32Size(m.id) ELSE 0) + WireSize(m.unknown)

MergeFrom(m, from) ==
  [has     |-> m.has \cup from.has,
   id      |-> IF "id" \in from.has THEN from.id ELSE m.id,
   unknown |-> m.unknown \o from.unknown]

CopyFrom(m, from) == MergeFrom(Clear(m), from)

Swap(pair) == <<pair[2], pair[1]>>
====================================================================================
