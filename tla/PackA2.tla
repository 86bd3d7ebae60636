---------------------------------- MODULE PackA2 ----------------------------------
(***************************************************************************)
(* A client's id and name, for other clients (Setup.proto); only            *)
(* applications use it.                                                     *)
(***************************************************************************)
EXTENDS WireFormat

(* SharedCtor *)
New == [has |-> {}, id |-> 0, userName |-> <<>>, unknown |-> <<>>]

set_id(m, n)        == [m EXCEPT !.has = @ \cup {"id"}, !.id = n]
clear_id(m)         == [m EXCEPT !.has = @ \ {"id"}, !.id = 0]
mutable_userName(m) == [m EXCEPT !.has = @ \cup {"userName"}]
set_userName(m, s)  == [mutable_userName(m) EXCEPT !.userName = s]
clear_userName(m)   == [m EXCEPT !.has = @ \ {"userName"}, !.userName = <<>>]
release_userName(m) == clear_userName(m)

Accessed(m, Strings, Ids) ==
  {set_id(m, n) : n \in Ids} \cup {set_userName(m, s) : s \in Strings}
    \cup {clear_id(m), mutable_userName(m), clear_userName(m), release_userName(m)}

Clear(m) ==
  [New EXCEPT !.id       = IF m.has # {} THEN @ ELSE m.id,
              !.userName = IF "userName" \in m.has THEN @ ELSE m.userName]

Field(m, t) ==
  CASE t.tag = 8 /\ t.whole  -> Stored(set_id(m, t.val))
    [] t.tag = 8 /\ ~t.whole -> Failed(m)
    [] t.tag = 18            -> [Stored(set_userName(m, t.val)) EXCEPT !.ok = t.whole]
    [] OTHER                 -> Unusual(m)

MergePartialFromCodedStream(m, tokens) ==
  FoldLeft(LAMBDA s, t : mergeToken(s, t, Field(s.msg, t)), Reading(m), tokens)

SerializeWithCachedSizes(m) ==
  (IF "id" \in m.has THEN <<Token(8, m.id)>> ELSE <<>>)
    \o (IF "userName" \in m.has THEN <<Token(18, m.userName)>> ELSE <<>>)
    \o m.unknown

ByteSize(m) ==
  (IF "id" \in m.has THEN 1 + UInt32Size(m.id) ELSE 0)
    + (IF "userName" \in m.has THEN 1 + StringSize(m.userName) ELSE 0)
    + WireSize(m.unknown)

MergeFrom(m, from) ==
  [has      |-> m.has \cup from.has,
   id       |-> IF "id" \in from.has THEN from.id ELSE m.id,
   userName |-> IF "userName" \in from.has THEN from.userName ELSE m.userName,
   unknown  |-> m.unknown \o from.unknown]

CopyFrom(m, from) == MergeFrom(Clear(m), from)

Swap(pair) == <<pair[2], pair[1]>>
====================================================================================
