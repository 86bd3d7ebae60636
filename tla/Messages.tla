--------------------------------- MODULE Messages ---------------------------------
(***************************************************************************)
(* Two objects of one generated message class under every sequence of the   *)
(* calls the class offers, parsing of received bytes included.              *)
(***************************************************************************)
EXTENDS WireFormat, MessageClasses

CONSTANTS
  Strings,      \* values of string fields
  Numbers,      \* values of uint32 fields, naturals
  Streams,      \* bytes to parse, as sequences of tokens
  MaxRepeated   \* bound: repeated and unknown fields of an object

(* A token as the lower layers read it: what a length delimited field holds is a sequence. *)
IsToken(t) ==
  /\ t \in [tag : Nat, val : {t.val}, whole : BOOLEAN]
  /\ IF WireType(t.tag) = LENGTH THEN t.val \in Seq(Nat) ELSE t.val \in Nat

ASSUME FieldsAssumption  == Strings \subseteq Seq(Nat) /\ Numbers \subseteq Nat
ASSUME StreamsAssumption ==
  \A tokens \in Streams : tokens \in Seq(ToSet(tokens)) /\ \A t \in ToSet(tokens) : IsToken(t)

VARIABLES
  class,
  object        \* the two objects

Classes == {"PackHeaderIn", "PackHeaderOut", "PackA0", "PackA1", "PackA2"}

--------------------------------------------------------------------------------
(* The functions of the class. *)

New ==
  CASE class = "PackHeaderIn" -> In!New [] class = "PackHeaderOut" -> Out!New
    [] class = "PackA0" -> A0!New [] class = "PackA1" -> A1!New [] class = "PackA2" -> A2!New

Accessed(m) ==
  CASE class = "PackHeaderIn"  -> In!Accessed(m, Strings, Numbers)
    [] class = "PackHeaderOut" -> Out!Accessed(m, Strings, Numbers)
    [] class = "PackA0" -> A0!Accessed(m, Strings)
    [] class = "PackA1" -> A1!Accessed(m, Numbers)
    [] class = "PackA2" -> A2!Accessed(m, Strings, Numbers)

Clear(m) ==
  CASE class = "PackHeaderIn" -> In!Clear(m) [] class = "PackHeaderOut" -> Out!Clear(m)
    [] class = "PackA0" -> A0!Clear(m) [] class = "PackA1" -> A1!Clear(m)
    [] class = "PackA2" -> A2!Clear(m)

MergeFrom(m, from) ==
  CASE class = "PackHeaderIn" -> In!MergeFrom(m, from)
    [] class = "PackHeaderOut" -> Out!MergeFrom(m, from)
    [] class = "PackA0" -> A0!MergeFrom(m, from) [] class = "PackA1" -> A1!MergeFrom(m, from)
    [] class = "PackA2" -> A2!MergeFrom(m, from)

CopyFrom(m, from) ==
  CASE class = "PackHeaderIn" -> In!CopyFrom(m, from)
    [] class = "PackHeaderOut" -> Out!CopyFrom(m, from)
    [] class = "PackA0" -> A0!CopyFrom(m, from) [] class = "PackA1" -> A1!CopyFrom(m, from)
    [] class = "PackA2" -> A2!CopyFrom(m, from)

Swap(pair) ==
  CASE class = "PackHeaderIn" -> In!Swap(pair) [] class = "PackHeaderOut" -> Out!Swap(pair)
    [] class = "PackA0" -> A0!Swap(pair) [] class = "PackA1" -> A1!Swap(pair)
    [] class = "PackA2" -> A2!Swap(pair)

Merged(m, tokens) ==
  CASE class = "PackHeaderIn" -> In!MergePartialFromCodedStream(m, tokens)
    [] class = "PackHeaderOut" -> Out!MergePartialFromCodedStream(m, tokens)
    [] class = "PackA0" -> A0!MergePartialFromCodedStream(m, tokens)
    [] class = "PackA1" -> A1!MergePartialFromCodedStream(m, tokens)
    [] class = "PackA2" -> A2!MergePartialFromCodedStream(m, tokens)

Serialized(m) ==
  CASE class = "PackHeaderIn" -> In!SerializeWithCachedSizes(m)
    [] class = "PackHeaderOut" -> Out!SerializeWithCachedSizes(m)
    [] class = "PackA0" -> A0!SerializeWithCachedSizes(m)
    [] class = "PackA1" -> A1!SerializeWithCachedSizes(m)
    [] class = "PackA2" -> A2!SerializeWithCachedSizes(m)

ByteSize(m) ==
  CASE class = "PackHeaderIn" -> In!ByteSize(m) [] class = "PackHeaderOut" -> Out!ByteSize(m)
    [] class = "PackA0" -> A0!ByteSize(m) [] class = "PackA1" -> A1!ByteSize(m)
    [] class = "PackA2" -> A2!ByteSize(m)

--------------------------------------------------------------------------------
(* Calls on object i; the other one is the argument. *)

MsgInit ==
  /\ class \in Classes
  /\ object = <<New, New>>

AsNew == class = "PackHeaderIn" /\ object = <<New, New>>

InBounds(m) ==
  Len(m.unknown) <= MaxRepeated /\ (class = "PackHeaderIn" => Len(m.sendToIDs) <= MaxRepeated)

Becomes(i, m) ==
  /\ InBounds(m)
  /\ object' = [object EXCEPT ![i] = m]
  /\ UNCHANGED class

CallAccessor(i) == \E m \in Accessed(object[i]) : Becomes(i, m)

CallClear(i) == Becomes(i, Clear(object[i]))

CallMergeFrom(i) == Becomes(i, MergeFrom(object[i], object[3 - i]))

CallCopyFrom(i) == Becomes(i, CopyFrom(object[i], object[3 - i]))

CallSwap == object' = Swap(object) /\ UNCHANGED class

(* ParseFromArray, ParseFromString *)
CallParse(i) == \E tokens \in Streams : Becomes(i, Merged(Clear(object[i]), tokens).msg)

MsgNext ==
  \/ \E i \in {1, 2} :
       CallAccessor(i) \/ CallClear(i) \/ CallMergeFrom(i) \/ CallCopyFrom(i) \/ CallParse(i)
  \/ CallSwap

MsgSpec == MsgInit /\ [][MsgNext]_<<class, object>>

--------------------------------------------------------------------------------
(***************************************************************************)
(* A message, however it came about, is what its bytes parse to, and these *)
(* are as many as ByteSize says: SerializeAsString allocates that many and  *)
(* dies when it writes more.  So no field keeps a value without its bit.   *)
(***************************************************************************)
RoundTrip ==
  \A m \in ToSet(object) :
    /\ Merged(New, Serialized(m)) = [msg |-> m, result |-> "reading"]
    /\ ByteSize(m) = WireSize(Serialized(m))

(* To merge two messages is to parse the bytes of the one after those of the other. *)
MergeIsConcat ==
  MergeFrom(object[1], object[2])
    = Merged(New, Serialized(object[1]) \o Serialized(object[2])).msg

(***************************************************************************)
(* A cleared message is a new one, although Clear looks only at fields      *)
(* whose bits are set, and a copy is equal to what it was copied from.      *)
(***************************************************************************)
ClearForgets ==
  /\ \A m \in ToSet(object) : Clear(m) = New
  /\ CopyFrom(object[1], object[2]) = object[2]
====================================================================================
