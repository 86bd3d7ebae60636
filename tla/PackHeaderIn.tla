------------------------------- MODULE PackHeaderIn -------------------------------
(***************************************************************************)
(* The message that begins every packet of a client (PackFW.proto), with    *)
(* its has bits: the key of the handler, whether the packet is for the io   *)
(* thread, and to whom it is addressed.                                     *)
(***************************************************************************)
EXTENDS WireFormat

(* SharedCtor *)
New == [has |-> {}, serverRead |-> FALSE, locKey |-> <<>>, sendToIDs |-> <<>>, unknown |-> <<>>]

--------------------------------------------------------------------------------
(* Accessors. What mutable_locKey returns is then written by the caller; *)
(* release_locKey gives the string away.                                 *)

set_serverRead(m, b)  == [m EXCEPT !.has = @ \cup {"serverRead"}, !.serverRead = b]
clear_serverRead(m)   == [m EXCEPT !.has = @ \ {"serverRead"}, !.serverRead = FALSE]
mutable_locKey(m)     == [m EXCEPT !.has = @ \cup {"locKey"}]
set_locKey(m, s)      == [mutable_locKey(m) EXCEPT !.locKey = s]

FaultLeavesValue(m) == [m EXCEPT !.has = @ \ {"locKey"}]    \* fault: only the bit is cleared

clear_locKey(m) == [m EXCEPT !.has = @ \ {"locKey"}, !.locKey = <<>>]

release_locKey(m)     == clear_locKey(m)
set_sendToIDs(m, i, n) == [m EXCEPT !.sendToIDs[i] = n]
add_sendToIDs(m, n)   == [m EXCEPT !.sendToIDs = Append(@, n)]
clear_sendToIDs(m)    == [m EXCEPT !.sendToIDs = <<>>]

Accessed(m, Strings, Ids) ==
  {set_serverRead(m, b) : b \in BOOLEAN} \cup {set_locKey(m, s) : s \in Strings}
    \cup {set_sendToIDs(m, i, n) : i \in DOMAIN m.sendToIDs, n \in Ids}
    \cup {add_sendToIDs(m, n) : n \in Ids}
    \cup {clear_serverRead(m), mutable_locKey(m), clear_locKey(m), release_locKey(m),
          clear_sendToIDs(m)}

--------------------------------------------------------------------------------

Clear(m) ==
  [New EXCEPT !.serverRead = m.has \cap {"serverRead", "locKey"} = {} /\ m.serverRead,
              !.locKey     = IF "locKey" \in m.has THEN @ ELSE m.locKey]

(* A string that is cut leaves the characters that came, a packed field its numbers. *)
Field(m, t) ==
  CASE t.tag = 8  /\ t.whole -> Stored(set_serverRead(m, ReadBool(t.val)))
    [] t.tag = 18            -> [Stored(set_locKey(m, t.val)) EXCEPT !.ok = t.whole]
    [] t.tag = 24 /\ t.whole -> Stored(add_sendToIDs(m, t.val))
    [] t.tag = 26            -> [Stored([m EXCEPT !.sendToIDs = @ \o t.val]) EXCEPT !.ok = t.whole]
    [] t.tag \in {8, 24} /\ ~t.whole -> Failed(m)
    [] OTHER                 -> Unusual(m)

MergePartialFromCodedStream(m, tokens) ==
  FoldLeft(LAMBDA s, t : mergeToken(s, t, Field(s.msg, t)), Reading(m), tokens)

SerializeWithCachedSizes(m) ==
  (IF "serverRead" \in m.has THEN <<Token(8, WriteBool(m.serverRead))>> ELSE <<>>)
    \o (IF "locKey" \in m.has THEN <<Token(18, m.locKey)>> ELSE <<>>)
    \o [i \in DOMAIN m.sendToIDs |-> Token(24, m.sendToIDs[i])]
    \o m.unknown

ByteSize(m) ==
  (IF "serverRead" \in m.has THEN 1 + 1 ELSE 0)
    + (IF "locKey" \in m.has THEN 1 + StringSize(m.locKey) ELSE 0)
    + 1 * Len(m.sendToIDs) + PayloadSize(m.sendToIDs)
    + WireSize(m.unknown)

MergeFrom(m, from) ==
  [has        |-> m.has \cup from.has,
   serverRead |-> IF "serverRead" \in from.has THEN from.serverRead ELSE m.serverRead,
   locKey     |-> IF "locKey" \in from.has THEN from.locKey ELSE m.locKey,
   sendToIDs  |-> m.sendToIDs \o from.sendToIDs,
   unknown    |-> m.unknown \o from.unknown]

CopyFrom(m, from) == MergeFrom(Clear(m), from)

Swap(pair) == <<pair[2], pair[1]>>
====================================================================================
