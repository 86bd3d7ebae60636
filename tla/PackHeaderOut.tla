------------------------------- MODULE PackHeaderOut ------------------------------
(***************************************************************************)
(* The message that begins every packet of the server (PackFW.proto): the   *)
(* key of the packet and the id that it names as its sender.                *)
(***************************************************************************)
EXTENDS WireFormat

(* SharedCtor *)
New == [has |-> {}, locKey |-> <<>>, sentFromID |-> 0, unknown |-> <<>>]

--------------------------------------------------------------------------------
(* Accessors *)

mutable_locKey(m)    == [m EXCEPT !.has = @ \cup {"locKey"}]
set_locKey(m, s)     == [mutable_locKey(m) EXCEPT !.locKey = s]
clear_locKey(m)      == [m EXCEPT !.has = @ \ {"locKey"}, !.locKey = <<>>]
release_locKey(m)    == clear_locKey(m)
set_sentFromID(m, n) == [m EXCEPT !.has = @ \cup {"sentFromID"}, !.sentFromID = n]
clear_sentFromID(m)  == [m EXCEPT !.has = @ \ {"sentFromID"}, !.sentFromID = 0]

Accessed(m, Strings, Ids) ==
  {set_locKey(m, s) : s \in Strings} \cup {set_sentFromID(m, n) : n \in Ids}
    \cup {mutable_locKey(m), clear_locKey(m), release_locKey(m), clear_sentFromID(m)}

--------------------------------------------------------------------------------

FaultMask(m) ==    \* fault: the mask tests the bit of locKey only
  [New EXCEPT !.sentFromID = IF "locKey" \in m.has THEN @ ELSE m.sentFromID,
              !.locKey     = IF "locKey" \in m.has THEN @ ELSE m.locKey]

Clear(m) ==
  [New EXCEPT !.sentFromID = IF m.has \cap {"locKey", "sentFromID"} # {} THEN @ ELSE m.sentFromID,
              !.locKey     = IF "locKey" \in m.has THEN @ ELSE m.locKey]

Field(m, t) ==
  CASE t.tag = 10             -> [Stored(set_locKey(m, t.val)) EXCEPT !.ok = t.whole]
    [] t.tag = 16 /\ t.whole  -> Stored(set_sentFromID(m, t.val))
    [] t.tag = 16 /\ ~t.whole -> Failed(m)
    [] OTHER                  -> Unusual(m)

MergePartialFromCodedStream(m, tokens) ==
  FoldLeft(LAMBDA s, t : mergeToken(s, t, Field(s.msg, t)), Reading(m), tokens)

SerializeWithCachedSizes(m) ==
  (IF "locKey" \in m.has THEN <<Token(10, m.locKey)>> ELSE <<>>)
    \o (IF "sentFromID" \in m.has THEN <<Token(16, m.sentFromID)>> ELSE <<>>)
    \o m.unknown

ByteSize(m) ==
  (IF "locKey" \in m.has THEN 1 + StringSize(m.locKey) ELSE 0)
    + (IF "sentFromID" \in m.has THEN 1 + UInt32Size(m.sentFromID) ELSE 0)
    + WireSize(m.unknown)

FaultTakesUnset(m, from) ==    \* fault: the field is assigned without asking for its bit
  [has        |-> m.has \cup from.has,
   locKey     |-> IF "locKey" \in from.has THEN from.locKey ELSE m.locKey,
   sentFromID |-> from.sentFromID,
   unknown    |-> m.unknown \o from.unknown]

MergeFrom(m, from) ==
  [has        |-> m.has \cup from.has,
   locKey     |-> IF "locKey" \in from.has THEN from.locKey ELSE m.locKey,
   sentFromID |-> IF "sentFromID" \in from.has THEN from.sentFromID ELSE m.sentFromID,
   unknown    |-> m.unknown \o from.unknown]

CopyFrom(m, from) == MergeFrom(Clear(m), from)

Swap(pair) == <<pair[2], pair[1]>>
====================================================================================
