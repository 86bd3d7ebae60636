------------------------------ MODULE MessagesProofs ------------------------------
(***************************************************************************)
(* Messages of every generated class, under any calls: with strings,        *)
(* numbers, repeated and unknown fields of any length, and whatever bytes   *)
(* are parsed.                                                              *)
(***************************************************************************)
EXTENDS Messages, FiniteSetTheorems, SequenceTheorems, WellFoundedInduction, TLAPS

--------------------------------------------------------------------------------
(* The folds of the generated classes, over sequences of any length. *)

(* Induction, stated for a set as the provers take no predicates. *)
LEMMA Induction ==
  ASSUME NEW S, 0 \in S, \A n \in Nat : n \in S => n + 1 \in S
  PROVE  Nat \subseteq S
<1> SUFFICES ASSUME Nat \ S # {} PROVE FALSE
  OBVIOUS
<1>1. PICK n \in Nat \ S : \A m \in Nat \ S : ~ (<<m, n>> \in OpToRel(<, Nat))
  BY NatLessThanWellFounded, WFMin
<1>2. \A m \in Nat \ S : ~ (m < n)
  BY <1>1 DEF OpToRel
<1>3. n \in Nat /\ n \notin S /\ n # 0
  BY <1>1
<1>4. n - 1 \in Nat /\ n = (n - 1) + 1 /\ n - 1 < n
  BY <1>3
<1>5. n - 1 \in S
  BY <1>2, <1>4
<1>6. QED
  BY <1>3, <1>4, <1>5

(* What the class does with a token, and a turn of its loop. *)
FieldOf(m, t) ==
  CASE class = "PackHeaderIn" -> In!Field(m, t) [] class = "PackHeaderOut" -> Out!Field(m, t)
    [] class = "PackA0" -> A0!Field(m, t) [] class = "PackA1" -> A1!Field(m, t)
    [] class = "PackA2" -> A2!Field(m, t)

Turn(s, t) == mergeToken(s, t, FieldOf(s.msg, t))

(* The loops: of MergePartialFromCodedStream, and over the sizes of tokens and of numbers. *)
Takes(loop, s, t) ==
  IF loop = "merge" THEN Turn(s, t)
  ELSE IF loop = "wire" THEN s + TokenSize(t)
  ELSE s + UInt32Size(t)

Prefolds(it, n, loop, base, seq) ==
  it = [s \in SUBSET (1 .. n) |->
          IF s = {} THEN base ELSE Takes(loop, it[s \ {Max(s)}], seq[Max(s)])]

Folds(it, loop, base, seq) ==
  it = [s \in SUBSET DOMAIN seq |->
          IF s = {} THEN base ELSE Takes(loop, it[s \ {Max(s)}], seq[Max(s)])]

LEMMA MaxOfUpTo ==
  ASSUME NEW n \in Nat, NEW s \in SUBSET (1 .. n + 1), n + 1 \in s
  PROVE  Max(s) = n + 1
<1>1. n + 1 \in s /\ \A y \in s : n + 1 >= y
  OBVIOUS
<1>2. Max(s) \in s /\ \A y \in s : Max(s) >= y
  BY <1>1 DEF Max
<1>3. Max(s) \in 1 .. n + 1 /\ Max(s) >= n + 1
  BY <1>1, <1>2
<1>4. QED
  BY <1>3

LEMMA PrefoldsExist ==
  ASSUME NEW loop, NEW base, NEW seq
  PROVE  \A n \in Nat : \E it : Prefolds(it, n, loop, base, seq)
<1> DEFINE S == {n \in Nat : \E it : Prefolds(it, n, loop, base, seq)}
<1>1. 0 \in S
  <2> DEFINE it == [s \in SUBSET (1 .. 0) |-> base]
  <2>1. \A s \in SUBSET (1 .. 0) : s = {}
    OBVIOUS
  <2>2. Prefolds(it, 0, loop, base, seq)
    BY <2>1 DEF Prefolds
  <2>3. QED
    BY <2>2
<1>2. ASSUME NEW n \in Nat, n \in S PROVE n + 1 \in S
  <2>1. PICK g : Prefolds(g, n, loop, base, seq)
    BY <1>2
  <2> DEFINE h == [s \in SUBSET (1 .. n + 1) |->
                     IF n + 1 \in s THEN Takes(loop, g[s \ {n + 1}], seq[n + 1]) ELSE g[s]]
  <2>2. ASSUME NEW s \in SUBSET (1 .. n + 1)
        PROVE  h[s] = IF s = {} THEN base ELSE Takes(loop, h[s \ {Max(s)}], seq[Max(s)])
    <3>1. CASE n + 1 \in s
      <4>1. s \ {n + 1} \in SUBSET (1 .. n + 1) /\ s # {}
        BY <3>1
      <4>2. h[s] = Takes(loop, g[s \ {n + 1}], seq[n + 1])
        BY <3>1
      <4>3. h[s \ {n + 1}] = g[s \ {n + 1}]
        BY <4>1
      <4> HIDE DEF h
      <4>4. QED
        BY <3>1, <4>1, <4>2, <4>3, MaxOfUpTo
    <3>2. CASE n + 1 \notin s
      <4>1. s \in SUBSET (1 .. n)
        BY <3>2
      <4>2. g[s] = IF s = {} THEN base ELSE Takes(loop, g[s \ {Max(s)}], seq[Max(s)])
        BY <2>1, <4>1 DEF Prefolds
      <4>3. h[s] = g[s]
        BY <3>2
      <4>4. h[s \ {Max(s)}] = g[s \ {Max(s)}]
        BY <3>2
      <4> HIDE DEF h
      <4>5. QED
        BY <4>2, <4>3, <4>4
    <3>3. QED
      BY <3>1, <3>2
  <2>3. h = [s \in SUBSET (1 .. n + 1) |-> h[s]]
    OBVIOUS
  <2> HIDE DEF h
  <2>4. Prefolds(h, n + 1, loop, base, seq)
    BY <2>2, <2>3 DEF Prefolds
  <2>5. QED
    BY <2>4
<1>3. Nat \subseteq S
  <2> HIDE DEF S
  <2>1. QED
    BY <1>1, <1>2, Induction
<1>4. QED
  BY <1>3

LEMMA FoldsExist ==
  ASSUME NEW loop, NEW base, NEW D, NEW seq \in Seq(D)
  PROVE  \E it : Folds(it, loop, base, seq)
<1>1. DOMAIN seq = 1 .. Len(seq) /\ Len(seq) \in Nat
  OBVIOUS
<1>2. PICK it : Prefolds(it, Len(seq), loop, base, seq)
  BY <1>1, PrefoldsExist
<1>3. QED
  BY <1>1, <1>2 DEF Folds, Prefolds

(* What the loop has computed after n elements, and that later ones do not matter. *)
LEMMA FoldsStep ==
  ASSUME NEW loop, NEW base, NEW seq, DOMAIN seq = 1 .. Len(seq), Len(seq) \in Nat,
         NEW it, Folds(it, loop, base, seq)
  PROVE  /\ it[{}] = base
         /\ \A n \in Nat : n + 1 <= Len(seq) =>
              it[1 .. n + 1] = Takes(loop, it[1 .. n], seq[n + 1])
<1>1. it[{}] = base
  BY DEF Folds
<1>2. ASSUME NEW n \in Nat, n + 1 <= Len(seq)
      PROVE  it[1 .. n + 1] = Takes(loop, it[1 .. n], seq[n + 1])
  <2>1. 1 .. n + 1 \in SUBSET DOMAIN seq /\ 1 .. n + 1 # {}
    <3>1. 1 \in 1 .. n + 1
      OBVIOUS
    <3>2. \A i \in 1 .. n + 1 : i \in 1 .. Len(seq)
      BY <1>2
    <3>3. QED
      BY <3>1, <3>2
  <2>2. Max(1 .. n + 1) = n + 1
    BY MaxOfUpTo
  <2>3. (1 .. n + 1) \ {n + 1} = 1 .. n
    OBVIOUS
  <2>4. it[1 .. n + 1] = Takes(loop, it[(1 .. n + 1) \ {Max(1 .. n + 1)}], seq[Max(1 .. n + 1)])
    BY <2>1 DEF Folds
  <2>5. QED
    BY <2>2, <2>3, <2>4
<1>3. QED
  BY <1>1, <1>2

Begins(seq, longer) ==
  Len(seq) <= Len(longer) /\ \A n \in Nat : n + 1 <= Len(seq) => longer[n + 1] = seq[n + 1]

(* Two loops compute the same as long as their elements agree. *)
LEMMA FoldsAgree ==
  ASSUME NEW loop, NEW base,
         NEW seq, DOMAIN seq = 1 .. Len(seq), Len(seq) \in Nat, NEW g, Folds(g, loop, base, seq),
         NEW longer, DOMAIN longer = 1 .. Len(longer), Len(longer) \in Nat,
         NEW h, Folds(h, loop, base, longer),
         Begins(seq, longer)
  PROVE  g[DOMAIN seq] = h[DOMAIN seq]
<1> DEFINE S == {n \in Nat : n <= Len(seq) => g[1 .. n] = h[1 .. n]}
<1>1. 0 \in S
  <2>1. g[{}] = base /\ h[{}] = base
    BY DEF Folds
  <2>2. 1 .. 0 = {}
    OBVIOUS
  <2>3. QED
    BY <2>1, <2>2
<1>2. ASSUME NEW n \in Nat, n \in S PROVE n + 1 \in S
  <2> SUFFICES ASSUME n + 1 <= Len(seq) PROVE g[1 .. n + 1] = h[1 .. n + 1]
    OBVIOUS
  <2>1. g[1 .. n + 1] = Takes(loop, g[1 .. n], seq[n + 1])
    BY FoldsStep
  <2>2. h[1 .. n + 1] = Takes(loop, h[1 .. n], longer[n + 1])
    <3>1. n + 1 <= Len(longer)
      BY DEF Begins
    <3>2. QED
      BY <3>1, FoldsStep
  <2>3. QED
    BY <1>2, <2>1, <2>2 DEF Begins
<1>3. Nat \subseteq S
  <2> HIDE DEF S
  <2>1. QED
    BY <1>1, <1>2, Induction
<1>4. QED
  BY <1>3

LEMMA FoldsUnique ==
  ASSUME NEW loop, NEW base, NEW D, NEW seq \in Seq(D),
         NEW g, Folds(g, loop, base, seq), NEW h, Folds(h, loop, base, seq)
  PROVE  g[DOMAIN seq] = h[DOMAIN seq]
<1>1. DOMAIN seq = 1 .. Len(seq) /\ Len(seq) \in Nat /\ Begins(seq, seq)
  BY DEF Begins
<1>2. QED
  BY <1>1, FoldsAgree

LEMMA FoldsAppend ==
  ASSUME NEW loop, NEW base, NEW D, NEW seq \in Seq(D), NEW t \in D,
         NEW g, Folds(g, loop, base, seq),
         NEW h, Folds(h, loop, base, Append(seq, t))
  PROVE  h[DOMAIN Append(seq, t)] = Takes(loop, g[DOMAIN seq], t)
<1> DEFINE longer == Append(seq, t)
<1>1. /\ Len(seq) \in Nat /\ DOMAIN seq = 1 .. Len(seq)
      /\ Len(longer) = Len(seq) + 1 /\ DOMAIN longer = 1 .. Len(longer)
      /\ longer[Len(seq) + 1] = t
      /\ \A n \in Nat : n + 1 <= Len(seq) => longer[n + 1] = seq[n + 1]
  OBVIOUS
<1>2. Folds(h, loop, base, longer)
  OBVIOUS
<1> HIDE DEF longer
<1>3. g[DOMAIN seq] = h[1 .. Len(seq)]
  <2>1. Len(longer) \in Nat /\ Begins(seq, longer)
    BY <1>1 DEF Begins
  <2>2. g[DOMAIN seq] = h[DOMAIN seq]
    BY <1>1, <1>2, <2>1, FoldsAgree
  <2>3. QED
    BY <1>1, <2>2
<1>4. h[1 .. Len(seq) + 1] = Takes(loop, h[1 .. Len(seq)], longer[Len(seq) + 1])
  BY <1>1, <1>2, FoldsStep
<1>5. QED
  BY <1>1, <1>3, <1>4 DEF longer

LEMMA WireFolds ==
  ASSUME NEW D, NEW tokens \in Seq(D)
  PROVE  \E it : Folds(it, "wire", 0, tokens) /\ WireSize(tokens) = it[DOMAIN tokens]
<1> DEFINE Solves(it) == it = [s \in SUBSET DOMAIN tokens |->
                                 IF s = {} THEN 0
                                 ELSE it[s \ {Max(s)}] + TokenSize(tokens[Max(s)])]
<1>1. WireSize(tokens) = (CHOOSE it : Solves(it))[DOMAIN tokens]
  BY DEF WireSize, FoldLeft, MapThenFoldSet
<1>2. \A it : Solves(it) <=> Folds(it, "wire", 0, tokens)
  BY DEF Folds, Takes
<1>3. \E it : Solves(it)
  BY <1>2, FoldsExist
<1> HIDE DEF Solves
<1>4. Solves(CHOOSE it : Solves(it))
  BY <1>3
<1>5. QED
  BY <1>1, <1>2, <1>4

LEMMA PayloadFolds ==
  ASSUME NEW D, NEW numbers \in Seq(D)
  PROVE  \E it : Folds(it, "payload", 0, numbers) /\ PayloadSize(numbers) = it[DOMAIN numbers]
<1> DEFINE Solves(it) == it = [s \in SUBSET DOMAIN numbers |->
                                 IF s = {} THEN 0
                                 ELSE it[s \ {Max(s)}] + UInt32Size(numbers[Max(s)])]
<1>1. PayloadSize(numbers) = (CHOOSE it : Solves(it))[DOMAIN numbers]
  BY DEF PayloadSize, FoldLeft, MapThenFoldSet
<1>2. \A it : Solves(it) <=> Folds(it, "payload", 0, numbers)
  BY DEF Folds, Takes
<1>3. \E it : Solves(it)
  BY <1>2, FoldsExist
<1> HIDE DEF Solves
<1>4. Solves(CHOOSE it : Solves(it))
  BY <1>3
<1>5. QED
  BY <1>1, <1>2, <1>4

LEMMA MergedFolds ==
  ASSUME class \in Classes, NEW m, NEW D, NEW tokens \in Seq(D)
  PROVE  \E it : Folds(it, "merge", Reading(m), tokens) /\ Merged(m, tokens) = it[DOMAIN tokens]
<1>1. CASE class = "PackHeaderIn"
  <2> DEFINE Solves(it) ==
               it = [s \in SUBSET DOMAIN tokens |->
                       IF s = {} THEN In!Reading(m)
                       ELSE In!mergeToken(it[s \ {Max(s)}], tokens[Max(s)],
                              In!Field(it[s \ {Max(s)}].msg, tokens[Max(s)]))]
  <2>1. In!MergePartialFromCodedStream(m, tokens) = (CHOOSE it : Solves(it))[DOMAIN tokens]
    BY DEF In!MergePartialFromCodedStream, In!FoldLeft, In!MapThenFoldSet, In!Max, Max
  <2>2. Merged(m, tokens) = In!MergePartialFromCodedStream(m, tokens)
    BY <1>1 DEF Merged
  <2>3. ASSUME NEW s, NEW t
        PROVE  In!mergeToken(s, t, In!Field(s.msg, t)) = Turn(s, t)
    <3>1. FieldOf(s.msg, t) = In!Field(s.msg, t)
      BY <1>1 DEF FieldOf
    <3>2. ASSUME NEW n PROVE In!handle_unusual(n, t) = handle_unusual(n, t)
      BY DEF In!handle_unusual, handle_unusual, In!Skippable, Skippable, In!WireType, WireType,
             VARINT, FIXED64, LENGTH, FIXED32, START_GROUP, END_GROUP,
             In!VARINT, In!FIXED64, In!LENGTH, In!FIXED32, In!START_GROUP, In!END_GROUP
    <3>3. QED
      BY <3>1, <3>2 DEF Turn, In!mergeToken, mergeToken
  <2>4. \A it : Solves(it) <=> Folds(it, "merge", Reading(m), tokens)
    BY <2>3 DEF Folds, Takes, In!Reading, Reading
  <2>5. \E it : Solves(it)
    BY <2>4, FoldsExist
  <2> HIDE DEF Solves
  <2>6. Solves(CHOOSE it : Solves(it))
    BY <2>5
  <2>7. QED
    BY <2>1, <2>2, <2>4, <2>6
<1>2. CASE class = "PackHeaderOut"
  <2> DEFINE Solves(it) ==
               it = [s \in SUBSET DOMAIN tokens |->
                       IF s = {} THEN Out!Reading(m)
                       ELSE Out!mergeToken(it[s \ {Max(s)}], tokens[Max(s)],
                              Out!Field(it[s \ {Max(s)}].msg, tokens[Max(s)]))]
  <2>1. Out!MergePartialFromCodedStream(m, tokens) = (CHOOSE it : Solves(it))[DOMAIN tokens]
    BY DEF Out!MergePartialFromCodedStream, Out!FoldLeft, Out!MapThenFoldSet, Out!Max, Max
  <2>2. Merged(m, tokens) = Out!MergePartialFromCodedStream(m, tokens)
    BY <1>2 DEF Merged
  <2>3. ASSUME NEW s, NEW t
        PROVE  Out!mergeToken(s, t, Out!Field(s.msg, t)) = Turn(s, t)
    <3>1. FieldOf(s.msg, t) = Out!Field(s.msg, t)
      BY <1>2 DEF FieldOf
    <3>2. ASSUME NEW n PROVE Out!handle_unusual(n, t) = handle_unusual(n, t)
      BY DEF Out!handle_unusual, handle_unusual, Out!Skippable, Skippable, Out!WireType, WireType,
             VARINT, FIXED64, LENGTH, FIXED32, START_GROUP, END_GROUP,
             Out!VARINT, Out!FIXED64, Out!LENGTH, Out!FIXED32, Out!START_GROUP, Out!END_GROUP
    <3>3. QED
      BY <3>1, <3>2 DEF Turn, Out!mergeToken, mergeToken
  <2>4. \A it : Solves(it) <=> Folds(it, "merge", Reading(m), tokens)
    BY <2>3 DEF Folds, Takes, Out!Reading, Reading
  <2>5. \E it : Solves(it)
    BY <2>4, FoldsExist
  <2> HIDE DEF Solves
  <2>6. Solves(CHOOSE it : Solves(it))
    BY <2>5
  <2>7. QED
    BY <2>1, <2>2, <2>4, <2>6
<1>3. CASE class = "PackA0"
  <2> DEFINE Solves(it) ==
               it = [s \in SUBSET DOMAIN tokens |->
                       IF s = {} THEN A0!Reading(m)
                       ELSE A0!mergeToken(it[s \ {Max(s)}], tokens[Max(s)],
                              A0!Field(it[s \ {Max(s)}].msg, tokens[Max(s)]))]
  <2>1. A0!MergePartialFromCodedStream(m, tokens) = (CHOOSE it : Solves(it))[DOMAIN tokens]
    BY DEF A0!MergePartialFromCodedStream, A0!FoldLeft, A0!MapThenFoldSet, A0!Max, Max
  <2>2. Merged(m, tokens) = A0!MergePartialFromCodedStream(m, tokens)
    BY <1>3 DEF Merged
  <2>3. ASSUME NEW s, NEW t
        PROVE  A0!mergeToken(s, t, A0!Field(s.msg, t)) = Turn(s, t)
    <3>1. FieldOf(s.msg, t) = A0!Field(s.msg, t)
      BY <1>3 DEF FieldOf
    <3>2. ASSUME NEW n PROVE A0!handle_unusual(n, t) = handle_unusual(n, t)
      BY DEF A0!handle_unusual, handle_unusual, A0!Skippable, Skippable, A0!WireType, WireType,
             VARINT, FIXED64, LENGTH, FIXED32, START_GROUP, END_GROUP,
             A0!VARINT, A0!FIXED64, A0!LENGTH, A0!FIXED32, A0!START_GROUP, A0!END_GROUP
    <3>3. QED
      BY <3>1, <3>2 DEF Turn, A0!mergeToken, mergeToken
  <2>4. \A it : Solves(it) <=> Folds(it, "merge", Reading(m), tokens)
    BY <2>3 DEF Folds, Takes, A0!Reading, Reading
  <2>5. \E it : Solves(it)
    BY <2>4, FoldsExist
  <2> HIDE DEF Solves
  <2>6. Solves(CHOOSE it : Solves(it))
    BY <2>5
  <2>7. QED
    BY <2>1, <2>2, <2>4, <2>6
<1>4. CASE class = "PackA1"
  <2> DEFINE Solves(it) ==
               it = [s \in SUBSET DOMAIN tokens |->
                       IF s = {} THEN A1!Reading(m)
                       ELSE A1!mergeToken(it[s \ {Max(s)}], tokens[Max(s)],
                              A1!Field(it[s \ {Max(s)}].msg, tokens[Max(s)]))]
  <2>1. A1!MergePartialFromCodedStream(m, tokens) = (CHOOSE it : Solves(it))[DOMAIN tokens]
    BY DEF A1!MergePartialFromCodedStream, A1!FoldLeft, A1!MapThenFoldSet, A1!Max, Max
  <2>2. Merged(m, tokens) = A1!MergePartialFromCodedStream(m, tokens)
    BY <1>4 DEF Merged
  <2>3. ASSUME NEW s, NEW t
        PROVE  A1!mergeToken(s, t, A1!Field(s.msg, t)) = Turn(s, t)
    <3>1. FieldOf(s.msg, t) = A1!Field(s.msg, t)
      BY <1>4 DEF FieldOf
    <3>2. ASSUME NEW n PROVE A1!handle_unusual(n, t) = handle_unusual(n, t)
      BY DEF A1!handle_unusual, handle_unusual, A1!Skippable, Skippable, A1!WireType, WireType,
             VARINT, FIXED64, LENGTH, FIXED32, START_GROUP, END_GROUP,
             A1!VARINT, A1!FIXED64, A1!LENGTH, A1!FIXED32, A1!START_GROUP, A1!END_GROUP
    <3>3. QED
      BY <3>1, <3>2 DEF Turn, A1!mergeToken, mergeToken
  <2>4. \A it : Solves(it) <=> Folds(it, "merge", Reading(m), tokens)
    BY <2>3 DEF Folds, Takes, A1!Reading, Reading
  <2>5. \E it : Solves(it)
    BY <2>4, FoldsExist
  <2> HIDE DEF Solves
  <2>6. Solves(CHOOSE it : Solves(it))
    BY <2>5
  <2>7. QED
    BY <2>1, <2>2, <2>4, <2>6
<1>5. CASE class = "PackA2"
  <2> DEFINE Solves(it) ==
               it = [s \in SUBSET DOMAIN tokens |->
                       IF s = {} THEN A2!Reading(m)
                       ELSE A2!mergeToken(it[s \ {Max(s)}], tokens[Max(s)],
                              A2!Field(it[s \ {Max(s)}].msg, tokens[Max(s)]))]
  <2>1. A2!MergePartialFromCodedStream(m, tokens) = (CHOOSE it : Solves(it))[DOMAIN tokens]
    BY DEF A2!MergePartialFromCodedStream, A2!FoldLeft, A2!MapThenFoldSet, A2!Max, Max
  <2>2. Merged(m, tokens) = A2!MergePartialFromCodedStream(m, tokens)
    BY <1>5 DEF Merged
  <2>3. ASSUME NEW s, NEW t
        PROVE  A2!mergeToken(s, t, A2!Field(s.msg, t)) = Turn(s, t)
    <3>1. FieldOf(s.msg, t) = A2!Field(s.msg, t)
      BY <1>5 DEF FieldOf
    <3>2. ASSUME NEW n PROVE A2!handle_unusual(n, t) = handle_unusual(n, t)
      BY DEF A2!handle_unusual, handle_unusual, A2!Skippable, Skippable, A2!WireType, WireType,
             VARINT, FIXED64, LENGTH, FIXED32, START_GROUP, END_GROUP,
             A2!VARINT, A2!FIXED64, A2!LENGTH, A2!FIXED32, A2!START_GROUP, A2!END_GROUP
    <3>3. QED
      BY <3>1, <3>2 DEF Turn, A2!mergeToken, mergeToken
  <2>4. \A it : Solves(it) <=> Folds(it, "merge", Reading(m), tokens)
    BY <2>3 DEF Folds, Takes, A2!Reading, Reading
  <2>5. \E it : Solves(it)
    BY <2>4, FoldsExist
  <2> HIDE DEF Solves
  <2>6. Solves(CHOOSE it : Solves(it))
    BY <2>5
  <2>7. QED
    BY <2>1, <2>2, <2>4, <2>6
<1>6. QED
  BY <1>1, <1>2, <1>3, <1>4, <1>5 DEF Classes

(* The classes measure by the functions of the library. *)
LEMMA InSizes ==
  /\ \A n : In!UInt32Size(n) = UInt32Size(n)
  /\ \A s : In!PayloadSize(s) = PayloadSize(s)
  /\ \A s : In!StringSize(s) = StringSize(s)
  /\ \A s : In!WireSize(s) = WireSize(s)
<1>1. ASSUME NEW n PROVE In!UInt32Size(n) = UInt32Size(n)
  BY DEF In!UInt32Size, UInt32Size
<1>2. ASSUME NEW s PROVE In!PayloadSize(s) = PayloadSize(s)
  BY DEF In!PayloadSize, PayloadSize, In!UInt32Size, UInt32Size,
         In!FoldLeft, FoldLeft, In!MapThenFoldSet, MapThenFoldSet, In!Max, Max
<1>3. ASSUME NEW s PROVE In!WireSize(s) = WireSize(s)
  BY DEF In!WireSize, WireSize, In!TokenSize, TokenSize, In!StringSize, StringSize,
         In!PayloadSize, PayloadSize, In!UInt32Size, UInt32Size, In!WireType, WireType,
         In!VARINT, VARINT, In!FIXED64, FIXED64, In!LENGTH, LENGTH, In!FIXED32, FIXED32,
         In!FoldLeft, FoldLeft, In!MapThenFoldSet, MapThenFoldSet, In!Max, Max
<1>4. QED
  BY <1>1, <1>2, <1>3 DEF In!StringSize, StringSize

LEMMA OutSizes ==
  /\ \A n : Out!UInt32Size(n) = UInt32Size(n)
  /\ \A s : Out!PayloadSize(s) = PayloadSize(s)
  /\ \A s : Out!StringSize(s) = StringSize(s)
  /\ \A s : Out!WireSize(s) = WireSize(s)
<1>1. ASSUME NEW n PROVE Out!UInt32Size(n) = UInt32Size(n)
  BY DEF Out!UInt32Size, UInt32Size
<1>2. ASSUME NEW s PROVE Out!PayloadSize(s) = PayloadSize(s)
  BY DEF Out!PayloadSize, PayloadSize, Out!UInt32Size, UInt32Size,
         Out!FoldLeft, FoldLeft, Out!MapThenFoldSet, MapThenFoldSet, Out!Max, Max
<1>3. ASSUME NEW s PROVE Out!WireSize(s) = WireSize(s)
  BY DEF Out!WireSize, WireSize, Out!TokenSize, TokenSize, Out!StringSize, StringSize,
         Out!PayloadSize, PayloadSize, Out!UInt32Size, UInt32Size, Out!WireType, WireType,
         Out!VARINT, VARINT, Out!FIXED64, FIXED64, Out!LENGTH, LENGTH, Out!FIXED32, FIXED32,
         Out!FoldLeft, FoldLeft, Out!MapThenFoldSet, MapThenFoldSet, Out!Max, Max
<1>4. QED
  BY <1>1, <1>2, <1>3 DEF Out!StringSize, StringSize

LEMMA A0Sizes ==
  /\ \A n : A0!UInt32Size(n) = UInt32Size(n)
  /\ \A s : A0!PayloadSize(s) = PayloadSize(s)
  /\ \A s : A0!StringSize(s) = StringSize(s)
  /\ \A s : A0!WireSize(s) = WireSize(s)
<1>1. ASSUME NEW n PROVE A0!UInt32Size(n) = UInt32Size(n)
  BY DEF A0!UInt32Size, UInt32Size
<1>2. ASSUME NEW s PROVE A0!PayloadSize(s) = PayloadSize(s)
  BY DEF A0!PayloadSize, PayloadSize, A0!UInt32Size, UInt32Size,
         A0!FoldLeft, FoldLeft, A0!MapThenFoldSet, MapThenFoldSet, A0!Max, Max
<1>3. ASSUME NEW s PROVE A0!WireSize(s) = WireSize(s)
  BY DEF A0!WireSize, WireSize, A0!TokenSize, TokenSize, A0!StringSize, StringSize,
         A0!PayloadSize, PayloadSize, A0!UInt32Size, UInt32Size, A0!WireType, WireType,
         A0!VARINT, VARINT, A0!FIXED64, FIXED64, A0!LENGTH, LENGTH, A0!FIXED32, FIXED32,
         A0!FoldLeft, FoldLeft, A0!MapThenFoldSet, MapThenFoldSet, A0!Max, Max
<1>4. QED
  BY <1>1, <1>2, <1>3 DEF A0!StringSize, StringSize

LEMMA A1Sizes ==
  /\ \A n : A1!UInt32Size(n) = UInt32Size(n)
  /\ \A s : A1!PayloadSize(s) = PayloadSize(s)
  /\ \A s : A1!StringSize(s) = StringSize(s)
  /\ \A s : A1!WireSize(s) = WireSize(s)
<1>1. ASSUME NEW n PROVE A1!UInt32Size(n) = UInt32Size(n)
  BY DEF A1!UInt32Size, UInt32Size
<1>2. ASSUME NEW s PROVE A1!PayloadSize(s) = PayloadSize(s)
  BY DEF A1!PayloadSize, PayloadSize, A1!UInt32Size, UInt32Size,
         A1!FoldLeft, FoldLeft, A1!MapThenFoldSet, MapThenFoldSet, A1!Max, Max
<1>3. ASSUME NEW s PROVE A1!WireSize(s) = WireSize(s)
  BY DEF A1!WireSize, WireSize, A1!TokenSize, TokenSize, A1!StringSize, StringSize,
         A1!PayloadSize, PayloadSize, A1!UInt32Size, UInt32Size, A1!WireType, WireType,
         A1!VARINT, VARINT, A1!FIXED64, FIXED64, A1!LENGTH, LENGTH, A1!FIXED32, FIXED32,
         A1!FoldLeft, FoldLeft, A1!MapThenFoldSet, MapThenFoldSet, A1!Max, Max
<1>4. QED
  BY <1>1, <1>2, <1>3 DEF A1!StringSize, StringSize

LEMMA A2Sizes ==
  /\ \A n : A2!UInt32Size(n) = UInt32Size(n)
  /\ \A s : A2!PayloadSize(s) = PayloadSize(s)
  /\ \A s : A2!StringSize(s) = StringSize(s)
  /\ \A s : A2!WireSize(s) = WireSize(s)
<1>1. ASSUME NEW n PROVE A2!UInt32Size(n) = UInt32Size(n)
  BY DEF A2!UInt32Size, UInt32Size
<1>2. ASSUME NEW s PROVE A2!PayloadSize(s) = PayloadSize(s)
  BY DEF A2!PayloadSize, PayloadSize, A2!UInt32Size, UInt32Size,
         A2!FoldLeft, FoldLeft, A2!MapThenFoldSet, MapThenFoldSet, A2!Max, Max
<1>3. ASSUME NEW s PROVE A2!WireSize(s) = WireSize(s)
  BY DEF A2!WireSize, WireSize, A2!TokenSize, TokenSize, A2!StringSize, StringSize,
         A2!PayloadSize, PayloadSize, A2!UInt32Size, UInt32Size, A2!WireType, WireType,
         A2!VARINT, VARINT, A2!FIXED64, FIXED64, A2!LENGTH, LENGTH, A2!FIXED32, FIXED32,
         A2!FoldLeft, FoldLeft, A2!MapThenFoldSet, MapThenFoldSet, A2!Max, Max
<1>4. QED
  BY <1>1, <1>2, <1>3 DEF A2!StringSize, StringSize

--------------------------------------------------------------------------------
(* The loops, element by element and part by part. *)

LEMMA SeqInduction ==
  ASSUME NEW D, NEW S, <<>> \in S, \A s \in Seq(D), t \in D : s \in S => Append(s, t) \in S
  PROVE  Seq(D) \subseteq S
<1> DEFINE N == {n \in Nat : \A s \in Seq(D) : Len(s) = n => s \in S}
<1>1. 0 \in N
  <2>1. \A s \in Seq(D) : Len(s) = 0 => s = <<>>
    BY EmptySeq
  <2>2. QED
    BY <2>1
<1>2. ASSUME NEW n \in Nat, n \in N PROVE n + 1 \in N
  <2>1. ASSUME NEW s \in Seq(D), Len(s) = n + 1 PROVE s \in S
    <3> DEFINE front == SubSeq(s, 1, n)
    <3>1. front \in Seq(D) /\ Len(front) = n /\ \A i \in 1 .. n : front[i] = s[i]
      BY <2>1
    <3>2. s[n + 1] \in D
      BY <2>1
    <3> HIDE DEF front
    <3>3. s = Append(front, s[n + 1])
      <4>1. Append(front, s[n + 1]) \in Seq(D) /\ Len(Append(front, s[n + 1])) = Len(s)
        BY <2>1, <3>1, <3>2
      <4>2. \A i \in 1 .. Len(s) : Append(front, s[n + 1])[i] = s[i]
        BY <2>1, <3>1, <3>2
      <4>3. QED
        BY <4>1, <4>2, SeqEqual
    <3>4. front \in S
      BY <1>2, <3>1
    <3>5. QED
      BY <3>1, <3>2, <3>3, <3>4
  <2>2. QED
    BY <2>1
<1>3. Nat \subseteq N
  <2> HIDE DEF N
  <2>1. QED
    BY <1>1, <1>2, Induction
<1>4. QED
  <2>1. ASSUME NEW s \in Seq(D) PROVE s \in S
    <3>1. Len(s) \in Nat
      OBVIOUS
    <3>2. QED
      BY <1>3, <3>1
  <2>2. QED
    BY <2>1

LEMMA MergedEmpty ==
  ASSUME class \in Classes, NEW m
  PROVE  Merged(m, <<>>) = Reading(m)
<1>1. <<>> \in Seq({}) /\ DOMAIN <<>> = {}
  OBVIOUS
<1>2. PICK it : Folds(it, "merge", Reading(m), <<>>) /\ Merged(m, <<>>) = it[DOMAIN <<>>]
  BY <1>1, MergedFolds
<1>3. it[{}] = Reading(m)
  BY <1>2 DEF Folds
<1>4. QED
  BY <1>1, <1>2, <1>3

LEMMA MergedAppend ==
  ASSUME class \in Classes, NEW m, NEW D, NEW tokens \in Seq(D), NEW t \in D
  PROVE  Merged(m, Append(tokens, t)) = Turn(Merged(m, tokens), t)
<1> DEFINE longer == Append(tokens, t)
<1>1. PICK g : Folds(g, "merge", Reading(m), tokens) /\ Merged(m, tokens) = g[DOMAIN tokens]
  BY MergedFolds
<1>2. longer \in Seq(D)
  OBVIOUS
<1> HIDE DEF longer
<1>3. PICK h : Folds(h, "merge", Reading(m), longer) /\ Merged(m, longer) = h[DOMAIN longer]
  BY <1>2, MergedFolds
<1>4. h[DOMAIN longer] = Takes("merge", g[DOMAIN tokens], t)
  BY <1>1, <1>3, FoldsAppend DEF longer
<1>5. QED
  BY <1>1, <1>3, <1>4 DEF Takes, longer

LEMMA WireSteps ==
  /\ WireSize(<<>>) = 0
  /\ \A D : \A s \in Seq(D), t \in D : WireSize(Append(s, t)) = WireSize(s) + TokenSize(t)
<1>1. WireSize(<<>>) = 0
  <2>1. <<>> \in Seq({}) /\ DOMAIN <<>> = {}
    OBVIOUS
  <2>2. PICK it : Folds(it, "wire", 0, <<>>) /\ WireSize(<<>>) = it[DOMAIN <<>>]
    BY <2>1, WireFolds
  <2>3. it[{}] = 0
    BY <2>2 DEF Folds
  <2>4. QED
    BY <2>1, <2>2, <2>3
<1>2. ASSUME NEW D, NEW s \in Seq(D), NEW t \in D
      PROVE  WireSize(Append(s, t)) = WireSize(s) + TokenSize(t)
  <2> DEFINE longer == Append(s, t)
  <2>1. PICK g : Folds(g, "wire", 0, s) /\ WireSize(s) = g[DOMAIN s]
    BY WireFolds
  <2>2. longer \in Seq(D)
    OBVIOUS
  <2> HIDE DEF longer
  <2>3. PICK h : Folds(h, "wire", 0, longer) /\ WireSize(longer) = h[DOMAIN longer]
    BY <2>2, WireFolds
  <2>4. h[DOMAIN longer] = Takes("wire", g[DOMAIN s], t)
    BY <2>1, <2>3, FoldsAppend DEF longer
  <2>5. QED
    BY <2>1, <2>3, <2>4 DEF Takes, longer
<1>3. QED
  BY <1>1, <1>2

LEMMA PayloadSteps ==
  /\ PayloadSize(<<>>) = 0
  /\ \A D : \A s \in Seq(D), t \in D : PayloadSize(Append(s, t)) = PayloadSize(s) + UInt32Size(t)
<1>1. PayloadSize(<<>>) = 0
  <2>1. <<>> \in Seq({}) /\ DOMAIN <<>> = {}
    OBVIOUS
  <2>2. PICK it : Folds(it, "payload", 0, <<>>) /\ PayloadSize(<<>>) = it[DOMAIN <<>>]
    BY <2>1, PayloadFolds
  <2>3. it[{}] = 0
    BY <2>2 DEF Folds
  <2>4. QED
    BY <2>1, <2>2, <2>3
<1>2. ASSUME NEW D, NEW s \in Seq(D), NEW t \in D
      PROVE  PayloadSize(Append(s, t)) = PayloadSize(s) + UInt32Size(t)
  <2> DEFINE longer == Append(s, t)
  <2>1. PICK g : Folds(g, "payload", 0, s) /\ PayloadSize(s) = g[DOMAIN s]
    BY PayloadFolds
  <2>2. longer \in Seq(D)
    OBVIOUS
  <2> HIDE DEF longer
  <2>3. PICK h : Folds(h, "payload", 0, longer) /\ PayloadSize(longer) = h[DOMAIN longer]
    BY <2>2, PayloadFolds
  <2>4. h[DOMAIN longer] = Takes("payload", g[DOMAIN s], t)
    BY <2>1, <2>3, FoldsAppend DEF longer
  <2>5. QED
    BY <2>1, <2>3, <2>4 DEF Takes, longer
<1>3. QED
  BY <1>1, <1>2

LEMMA AppendLast ==
  ASSUME NEW D, NEW a \in Seq(D), NEW b \in Seq(D), NEW t \in D
  PROVE  a \o Append(b, t) = Append(a \o b, t) /\ a \o b \in Seq(D)
<1>1. a \o b \in Seq(D)
  OBVIOUS
<1>2. a \o Append(b, t) = Append(a \o b, t)
  OBVIOUS
<1>3. QED
  BY <1>1, <1>2

LEMMA MergedConcat ==
  ASSUME class \in Classes, NEW D, NEW a \in Seq(D), NEW b \in Seq(D), NEW m, NEW n,
         Merged(m, a) = Reading(n)
  PROVE  Merged(m, a \o b) = Merged(n, b)
<1> DEFINE S == {s \in Seq(D) : Merged(m, a \o s) = Merged(n, s)}
<1>1. <<>> \in S
  <2>1. a \o <<>> = a /\ <<>> \in Seq(D)
    OBVIOUS
  <2>2. QED
    BY <2>1, MergedEmpty
<1>2. ASSUME NEW s \in Seq(D), NEW t \in D, s \in S PROVE Append(s, t) \in S
  <2>1. a \o Append(s, t) = Append(a \o s, t) /\ a \o s \in Seq(D) /\ Append(s, t) \in Seq(D)
    BY AppendLast
  <2>2. Merged(m, Append(a \o s, t)) = Turn(Merged(m, a \o s), t)
    <3>1. PICK joined \in Seq(D) : joined = a \o s
      BY <2>1
    <3>2. Merged(m, Append(joined, t)) = Turn(Merged(m, joined), t)
      BY MergedAppend
    <3>3. QED
      BY <3>1, <3>2
  <2>3. Merged(n, Append(s, t)) = Turn(Merged(n, s), t)
    BY MergedAppend
  <2>4. QED
    BY <1>2, <2>1, <2>2, <2>3
<1>3. Seq(D) \subseteq S
  <2> HIDE DEF S
  <2>1. QED
    BY <1>1, <1>2, SeqInduction
<1>4. QED
  BY <1>3

LEMMA WireConcat ==
  ASSUME NEW D, \A t \in D : TokenSize(t) \in Nat
  PROVE  \A a, b \in Seq(D) :
           WireSize(a) \in Nat /\ WireSize(a \o b) = WireSize(a) + WireSize(b)
<1> DEFINE S == {s \in Seq(D) : WireSize(s) \in Nat}
<1>1. Seq(D) \subseteq S
  <2>1. <<>> \in S
    <3>1. <<>> \in Seq(D)
      OBVIOUS
    <3>2. QED
      BY <3>1, WireSteps
  <2>2. ASSUME NEW s \in Seq(D), NEW t \in D, s \in S PROVE Append(s, t) \in S
    <3>1. Append(s, t) \in Seq(D)
      OBVIOUS
    <3>2. WireSize(Append(s, t)) = WireSize(s) + TokenSize(t)
      BY WireSteps
    <3>3. QED
      BY <2>2, <3>1, <3>2
  <2> HIDE DEF S
  <2>3. QED
    BY <2>1, <2>2, SeqInduction
<1>2. ASSUME NEW a \in Seq(D)
      PROVE  \A b \in Seq(D) : WireSize(a \o b) = WireSize(a) + WireSize(b)
  <2> DEFINE T == {s \in Seq(D) : WireSize(a \o s) = WireSize(a) + WireSize(s)}
  <2>0. WireSize(a) \in Nat
    BY <1>1
  <2>1. <<>> \in T
    <3>1. a \o <<>> = a /\ <<>> \in Seq(D)
      OBVIOUS
    <3>2. QED
      BY <2>0, <3>1, WireSteps
  <2>2. ASSUME NEW s \in Seq(D), NEW t \in D, s \in T PROVE Append(s, t) \in T
    <3>1. a \o Append(s, t) = Append(a \o s, t) /\ a \o s \in Seq(D) /\ Append(s, t) \in Seq(D)
      BY AppendLast
    <3>2. WireSize(Append(a \o s, t)) = WireSize(a \o s) + TokenSize(t)
      BY <3>1, WireSteps
    <3>3. WireSize(Append(s, t)) = WireSize(s) + TokenSize(t)
      BY WireSteps
    <3>4. WireSize(s) \in Nat /\ TokenSize(t) \in Nat
      BY <1>1
    <3>5. WireSize(a \o s) = WireSize(a) + WireSize(s)
      BY <2>2
    <3>6. WireSize(a \o Append(s, t)) = WireSize(a) + WireSize(Append(s, t))
      <4> HIDE DEF T
      <4>1. QED
        BY <2>0, <3>1, <3>2, <3>3, <3>4, <3>5
    <3>7. QED
      BY <3>1, <3>6
  <2>3. Seq(D) \subseteq T
    <3> HIDE DEF T
    <3>1. QED
      BY <2>1, <2>2, SeqInduction
  <2>4. QED
    BY <2>3
<1>3. QED
  BY <1>1, <1>2

--------------------------------------------------------------------------------
(* Tokens, and what is true of every class. *)

Tokens == {t \in [tag : Nat, val : Nat \cup Seq(Nat), whole : BOOLEAN] : IsToken(t)}

(* The tokens that a class with these tags keeps as unknown fields. *)
Others(tags) == {t \in Tokens : Skippable(t) /\ t.tag # 0 /\ t.tag \notin tags}

LEMMA OneToken ==
  ASSUME NEW t
  PROVE  <<>> \in Seq({t}) /\ Append(<<>>, t) = <<t>>
  OBVIOUS

LEMMA MergedOne ==
  ASSUME class \in Classes, NEW m, NEW t
  PROVE  Merged(m, <<t>>) = Turn(Reading(m), t)
<1>1. <<>> \in Seq({t}) /\ Append(<<>>, t) = <<t>>
  BY OneToken
<1>2. t \in {t}
  OBVIOUS
<1>3. Merged(m, Append(<<>>, t)) = Turn(Merged(m, <<>>), t)
  BY <1>1, <1>2, MergedAppend
<1>4. QED
  BY <1>1, <1>3, MergedEmpty

LEMMA WireOne ==
  ASSUME NEW t, TokenSize(t) \in Nat
  PROVE  WireSize(<<t>>) = TokenSize(t)
<1>1. <<>> \in Seq({t}) /\ Append(<<>>, t) = <<t>> /\ t \in {t}
  BY OneToken
<1>2. WireSize(Append(<<>>, t)) = WireSize(<<>>) + TokenSize(t)
  BY <1>1, WireSteps
<1>3. QED
  BY <1>1, <1>2, WireSteps

(* Unknown fields are added to those the message has. *)
Extended(m, u) == [m EXCEPT !.unknown = m.unknown \o u]

LEMMA OthersParsed ==
  ASSUME class \in Classes, NEW tags, \A m : \A t \in Others(tags) : FieldOf(m, t) = Unusual(m),
         NEW m, m = [x \in DOMAIN m |-> m[x]], "unknown" \in DOMAIN m,
         m.unknown \in Seq(Others(tags)),
         NEW u \in Seq(Others(tags))
  PROVE  Merged(m, u) = Reading(Extended(m, u))
<1> DEFINE S == {s \in Seq(Others(tags)) : Merged(m, s) = Reading(Extended(m, s))}
<1>1. <<>> \in S
  <2>1. <<>> \in Seq(Others(tags)) /\ m.unknown \o <<>> = m.unknown
    OBVIOUS
  <2>2. Extended(m, <<>>) = m
    BY <2>1 DEF Extended
  <2>3. QED
    BY <2>1, <2>2, MergedEmpty
<1>2. ASSUME NEW s \in Seq(Others(tags)), NEW t \in Others(tags), s \in S
      PROVE  Append(s, t) \in S
  <2> DEFINE n == Extended(m, s)
  <2>1. /\ m.unknown \o Append(s, t) = Append(m.unknown \o s, t)
        /\ Append(s, t) \in Seq(Others(tags))
    BY AppendLast
  <2>2. Merged(m, Append(s, t)) = Turn(Reading(n), t)
    BY <1>2, MergedAppend
  <2>3. n.unknown = m.unknown \o s
    BY DEF Extended
  <2>4. [n EXCEPT !.unknown = Append(n.unknown, t)] = Extended(m, Append(s, t))
    BY <2>1, <2>3 DEF Extended
  <2> HIDE DEF n
  <2>5. Turn(Reading(n), t) = mergeToken(Reading(n), t, Unusual(n))
    BY DEF Turn, Reading
  <2>6. t.tag # 0 /\ WireType(t.tag) # END_GROUP /\ Skippable(t)
    BY DEF Others, Skippable, VARINT, FIXED64, LENGTH, FIXED32, START_GROUP, END_GROUP
  <2>7. handle_unusual(n, t) = Reading([n EXCEPT !.unknown = Append(n.unknown, t)])
    BY <2>6 DEF handle_unusual, Reading
  <2>8. mergeToken(Reading(n), t, Unusual(n)) = handle_unusual(n, t)
    BY DEF mergeToken, Reading, Unusual
  <2>9. QED
    BY <2>1, <2>2, <2>4, <2>5, <2>7, <2>8
<1>3. Seq(Others(tags)) \subseteq S
  <2> HIDE DEF S
  <2>1. QED
    BY <1>1, <1>2, SeqInduction
<1>4. QED
  BY <1>3

(* Sizes are numbers. *)
LEMMA SizeTypes ==
  /\ \A n : UInt32Size(n) \in Nat
  /\ \A s \in Seq(Nat) : PayloadSize(s) \in Nat
  /\ \A s \in Seq(Nat) : StringSize(s) \in Nat
<1>1. \A n : UInt32Size(n) \in Nat
  BY DEF UInt32Size
<1> DEFINE S == {s \in Seq(Nat) : PayloadSize(s) \in Nat}
<1>2. <<>> \in S
  <2>1. <<>> \in Seq(Nat)
    OBVIOUS
  <2>2. QED
    BY <2>1, PayloadSteps
<1>3. ASSUME NEW s \in Seq(Nat), NEW t \in Nat, s \in S PROVE Append(s, t) \in S
  <2>1. Append(s, t) \in Seq(Nat)
    OBVIOUS
  <2>2. PayloadSize(Append(s, t)) = PayloadSize(s) + UInt32Size(t)
    BY PayloadSteps
  <2>3. QED
    BY <1>1, <1>3, <2>1, <2>2
<1>4. Seq(Nat) \subseteq S
  <2> HIDE DEF S
  <2>1. QED
    BY <1>2, <1>3, SeqInduction
<1>5. QED
  BY <1>1, <1>4 DEF StringSize

Measurable == {t \in Tokens : Skippable(t)}

LEMMA TokenSizes == \A t \in Measurable : TokenSize(t) \in Nat
<1> SUFFICES ASSUME NEW t \in Measurable PROVE TokenSize(t) \in Nat
  OBVIOUS
<1>1. UInt32Size(t.tag) \in Nat
  BY SizeTypes
<1>2. CASE WireType(t.tag) = VARINT
  <2>1. TokenSize(t) = UInt32Size(t.tag) + UInt32Size(t.val)
    BY <1>2 DEF TokenSize, VARINT, LENGTH, FIXED64, FIXED32, START_GROUP
  <2>2. QED
    BY <1>1, <2>1, SizeTypes
<1>3. CASE WireType(t.tag) = LENGTH
  <2>1. TokenSize(t) = UInt32Size(t.tag) + StringSize(t.val)
    BY <1>3 DEF TokenSize, VARINT, LENGTH, FIXED64, FIXED32, START_GROUP
  <2>2. t.val \in Seq(Nat)
    BY <1>3 DEF Measurable, Tokens, IsToken
  <2>3. QED
    BY <1>1, <2>1, <2>2, SizeTypes
<1>4. CASE WireType(t.tag) = FIXED64
  <2>1. TokenSize(t) = UInt32Size(t.tag) + 8
    BY <1>4 DEF TokenSize, VARINT, LENGTH, FIXED64, FIXED32, START_GROUP
  <2>2. QED
    BY <1>1, <2>1
<1>5. CASE WireType(t.tag) = FIXED32
  <2>1. TokenSize(t) = UInt32Size(t.tag) + 4
    BY <1>5 DEF TokenSize, VARINT, LENGTH, FIXED64, FIXED32, START_GROUP
  <2>2. QED
    BY <1>1, <2>1
<1>6. CASE WireType(t.tag) = START_GROUP
  <2>1. TokenSize(t) = UInt32Size(t.tag) + (t.val + UInt32Size(t.tag))
    BY <1>6 DEF TokenSize, VARINT, LENGTH, FIXED64, FIXED32, START_GROUP
  <2>2. t.val \in Nat
    BY <1>6 DEF Measurable, Tokens, IsToken, LENGTH, START_GROUP
  <2>3. QED
    BY <1>1, <2>1, <2>2
<1>7. QED
  BY <1>2, <1>3, <1>4, <1>5, <1>6 DEF Measurable, Skippable

LEMMA WireJoin ==
  ASSUME NEW a \in Seq(Measurable), NEW b \in Seq(Measurable)
  PROVE  /\ WireSize(a) \in Nat /\ a \o b \in Seq(Measurable)
         /\ WireSize(a \o b) = WireSize(a) + WireSize(b)
<1>1. a \o b \in Seq(Measurable)
  OBVIOUS
<1>2. WireSize(a) \in Nat /\ WireSize(a \o b) = WireSize(a) + WireSize(b)
  BY TokenSizes, WireConcat
<1>3. QED
  BY <1>1, <1>2

(* The fields that a class writes. *)
LEMMA WrittenNumber ==
  ASSUME NEW tag \in {8, 16, 24}, NEW n \in Nat
  PROVE  /\ Token(tag, n) \in Measurable
         /\ TokenSize(Token(tag, n)) = 1 + UInt32Size(n)
         /\ WireSize(<<Token(tag, n)>>) = 1 + UInt32Size(n)
<1>1. WireType(tag) = 0 /\ UInt32Size(tag) = 1
  BY DEF WireType, UInt32Size
<1>2. Token(tag, n) \in Measurable
  <2> DEFINE t == Token(tag, n)
  <2>1. t.tag = tag /\ t.val = n /\ t.whole = TRUE
    BY DEF Token
  <2>2. /\ t \in [tag : Nat, val : {t.val}, whole : BOOLEAN]
        /\ t \in [tag : Nat, val : Nat \cup Seq(Nat), whole : BOOLEAN]
    BY DEF Token
  <2> HIDE DEF t
  <2>3. IsToken(t)
    BY <1>1, <2>1, <2>2 DEF IsToken, LENGTH
  <2>4. Skippable(t)
    BY <1>1, <2>1 DEF Skippable, VARINT, LENGTH
  <2>5. t \in Measurable
    BY <2>2, <2>3, <2>4 DEF Measurable, Tokens
  <2>6. QED
    BY <2>5 DEF t
<1>3. TokenSize(Token(tag, n)) = 1 + UInt32Size(n)
  BY <1>1 DEF TokenSize, Token, VARINT, LENGTH, FIXED64, FIXED32, START_GROUP
<1>4. QED
  BY <1>2, <1>3, TokenSizes, WireOne

LEMMA WrittenString ==
  ASSUME NEW tag \in {10, 18}, NEW s \in Seq(Nat)
  PROVE  /\ Token(tag, s) \in Measurable
         /\ WireSize(<<Token(tag, s)>>) = 1 + StringSize(s)
<1>1. WireType(tag) = 2 /\ UInt32Size(tag) = 1
  BY DEF WireType, UInt32Size
<1>2. Token(tag, s) \in Measurable
  <2> DEFINE t == Token(tag, s)
  <2>1. t.tag = tag /\ t.val = s /\ t.whole = TRUE
    BY DEF Token
  <2>2. /\ t \in [tag : Nat, val : {t.val}, whole : BOOLEAN]
        /\ t \in [tag : Nat, val : Nat \cup Seq(Nat), whole : BOOLEAN]
    BY DEF Token
  <2> HIDE DEF t
  <2>3. IsToken(t)
    BY <1>1, <2>1, <2>2 DEF IsToken, LENGTH
  <2>4. Skippable(t)
    BY <1>1, <2>1 DEF Skippable, VARINT, LENGTH
  <2>5. t \in Measurable
    BY <2>2, <2>3, <2>4 DEF Measurable, Tokens
  <2>6. QED
    BY <2>5 DEF t
<1>3. TokenSize(Token(tag, s)) = 1 + StringSize(s)
  BY <1>1 DEF TokenSize, Token, VARINT, LENGTH, FIXED64, FIXED32, START_GROUP
<1>4. QED
  BY <1>2, <1>3, TokenSizes, WireOne

LEMMA EmptyConcat ==
  ASSUME NEW D, NEW s \in Seq(D)
  PROVE  <<>> \o s = s
  OBVIOUS

LEMMA OthersMeasurable == \A tags : \A s \in Seq(Others(tags)) : s \in Seq(Measurable)
<1>1. \A tags : Others(tags) \subseteq Measurable
  BY DEF Others, Measurable
<1>2. QED
  BY <1>1

(* What the class does with a token of one of its fields. *)
FieldIs(field, msg, ok) == field.known = TRUE /\ field.msg = msg /\ field.ok = ok

--------------------------------------------------------------------------------
(* PackHeaderIn *)

InRecords ==
  [has : SUBSET {"serverRead", "locKey"}, serverRead : BOOLEAN, locKey : Seq(Nat), sendToIDs : Seq(Nat),
   unknown : Seq(Others({8, 18, 24, 26}))]

(* A field without its bit has its default value. *)
InMessage(m) ==
  /\ m \in InRecords
  /\ "serverRead" \notin m.has => m.serverRead = FALSE
  /\ "locKey" \notin m.has => m.locKey = <<>>

LEMMA InEqual ==
  ASSUME NEW m \in InRecords, NEW n \in InRecords,
         m.has = n.has, m.serverRead = n.serverRead, m.locKey = n.locKey, m.sendToIDs = n.sendToIDs, m.unknown = n.unknown
  PROVE  m = n
<1>1. m = [has |-> m.has, serverRead |-> m.serverRead, locKey |-> m.locKey, sendToIDs |-> m.sendToIDs, unknown |-> m.unknown]
  BY DEF InRecords
<1>2. n = [has |-> n.has, serverRead |-> n.serverRead, locKey |-> n.locKey, sendToIDs |-> n.sendToIDs, unknown |-> n.unknown]
  BY DEF InRecords
<1>3. QED
  BY <1>1, <1>2

LEMMA InIsNew == InMessage(In!New)
<1>1. <<>> \in Seq(Nat) /\ <<>> \in Seq(Others({8, 18, 24, 26}))
  OBVIOUS
<1>2. QED
  BY <1>1 DEF InMessage, InRecords, In!New

LEMMA InCleared ==
  ASSUME NEW m, InMessage(m)
  PROVE  In!Clear(m) = In!New
<1> DEFINE r == In!Clear(m)
           Names == {"has", "serverRead", "locKey", "sendToIDs", "unknown"}
<1>1. /\ r.has = {} /\ r.serverRead = FALSE /\ r.locKey = <<>>
      /\ r.sendToIDs = <<>> /\ r.unknown = <<>>
  BY DEF InMessage, InRecords, In!New, In!Clear
<1>2. DOMAIN r = Names /\ r = [x \in Names |-> r[x]]
  BY DEF InMessage, InRecords, In!New, In!Clear
<1>3. DOMAIN In!New = Names /\ In!New = [x \in Names |-> In!New[x]]
  BY DEF In!New
<1>4. QED
  BY <1>1, <1>2, <1>3 DEF In!New

LEMMA InMerges ==
  ASSUME NEW m, InMessage(m), NEW n, InMessage(n)
  PROVE  InMessage(In!MergeFrom(m, n))
  BY DEF InMessage, InRecords, In!MergeFrom

LEMMA InMergesNew ==
  ASSUME NEW m, InMessage(m)
  PROVE  In!MergeFrom(In!New, m) = m
<1> DEFINE r == In!MergeFrom(In!New, m)
<1>1. r.has = m.has /\ r.serverRead = m.serverRead /\ r.locKey = m.locKey
  BY DEF InMessage, InRecords, In!MergeFrom, In!New
<1>2. <<>> \o m.sendToIDs = m.sendToIDs /\ <<>> \o m.unknown = m.unknown
  BY EmptyConcat DEF InMessage, InRecords
<1>3. r.sendToIDs = m.sendToIDs /\ r.unknown = m.unknown
  BY <1>2 DEF In!MergeFrom, In!New
<1>4. r \in InRecords /\ m \in InRecords
  BY InIsNew, InMerges DEF InMessage
<1> HIDE DEF r
<1>5. r = m
  BY <1>1, <1>3, <1>4, InEqual
<1>6. QED
  BY <1>5 DEF r

(* The setters keep the bits true to the fields. *)
LEMMA InSets ==
  ASSUME NEW m, InMessage(m)
  PROVE  /\ \A v \in BOOLEAN : InMessage(In!set_serverRead(m, v))
         /\ \A v \in Seq(Nat) : InMessage(In!set_locKey(m, v))
         /\ \A v \in Seq(Nat) : InMessage([m EXCEPT !.sendToIDs = v])
         /\ \A v \in Seq(Others({8, 18, 24, 26})) : InMessage([m EXCEPT !.unknown = v])
<1>1. ASSUME NEW v \in BOOLEAN PROVE InMessage(In!set_serverRead(m, v))
  BY DEF InMessage, InRecords, In!set_serverRead
<1>2. ASSUME NEW v \in Seq(Nat) PROVE InMessage(In!set_locKey(m, v))
  BY DEF InMessage, InRecords, In!set_locKey, In!mutable_locKey
<1>3. ASSUME NEW v \in Seq(Nat) PROVE InMessage([m EXCEPT !.sendToIDs = v])
  BY DEF InMessage, InRecords
<1>4. ASSUME NEW v \in Seq(Others({8, 18, 24, 26})) PROVE InMessage([m EXCEPT !.unknown = v])
  BY DEF InMessage, InRecords
<1>5. QED
  BY <1>1, <1>2, <1>3, <1>4

LEMMA InAccessedIs ==
  ASSUME NEW m, InMessage(m), NEW n \in In!Accessed(m, Strings, Numbers)
  PROVE  InMessage(n)
<1>0. <<>> \in Seq(Nat)
  OBVIOUS
<1>1. InMessage(In!clear_serverRead(m))
  BY <1>0 DEF InMessage, InRecords, In!clear_serverRead
<1>2. InMessage(In!mutable_locKey(m))
  BY <1>0 DEF InMessage, InRecords, In!mutable_locKey
<1>3. InMessage(In!clear_locKey(m))
  BY <1>0 DEF InMessage, InRecords, In!clear_locKey
<1>4. InMessage(In!release_locKey(m))
  BY <1>0 DEF InMessage, InRecords, In!release_locKey, In!clear_locKey
<1>5. /\ InMessage(In!clear_sendToIDs(m))
      /\ \A v \in Nat : InMessage(In!add_sendToIDs(m, v))
      /\ \A i \in DOMAIN m.sendToIDs, v \in Nat : InMessage(In!set_sendToIDs(m, i, v))
  <2>0. m.sendToIDs \in Seq(Nat)
    BY DEF InMessage, InRecords
  <2>1. \A v \in Nat : Append(m.sendToIDs, v) \in Seq(Nat)
    BY <2>0
  <2>2. \A i \in DOMAIN m.sendToIDs, v \in Nat : [m.sendToIDs EXCEPT ![i] = v] \in Seq(Nat)
    BY <2>0
  <2>3. \A i \in DOMAIN m.sendToIDs, v \in Nat :
          In!set_sendToIDs(m, i, v) = [m EXCEPT !.sendToIDs = [m.sendToIDs EXCEPT ![i] = v]]
    BY DEF In!set_sendToIDs
  <2>4. In!clear_sendToIDs(m) = [m EXCEPT !.sendToIDs = <<>>]
    BY DEF In!clear_sendToIDs
  <2>5. \A v \in Nat : In!add_sendToIDs(m, v) = [m EXCEPT !.sendToIDs = Append(m.sendToIDs, v)]
    BY DEF In!add_sendToIDs
  <2>6. \A v \in Seq(Nat) : InMessage([m EXCEPT !.sendToIDs = v])
    BY InSets
  <2>7. InMessage(In!clear_sendToIDs(m))
    BY <1>0, <2>4, <2>6
  <2>8. ASSUME NEW v \in Nat PROVE InMessage(In!add_sendToIDs(m, v))
    <3>1. PICK ids \in Seq(Nat) : ids = Append(m.sendToIDs, v)
      BY <2>1
    <3>2. QED
      BY <2>5, <2>6, <3>1
  <2>9. ASSUME NEW i \in DOMAIN m.sendToIDs, NEW v \in Nat PROVE InMessage(In!set_sendToIDs(m, i, v))
    <3>1. PICK ids \in Seq(Nat) : ids = [m.sendToIDs EXCEPT ![i] = v]
      BY <2>2
    <3>2. QED
      BY <2>3, <2>6, <3>1
  <2>10. QED
    BY <2>7, <2>8, <2>9
<1>6. Strings \subseteq Seq(Nat) /\ Numbers \subseteq Nat
  BY FieldsAssumption
<1>7. QED
  BY <1>1, <1>2, <1>3, <1>4, <1>5, <1>6, InSets DEF In!Accessed

(* What the class does with a token of each of its tags, and of any other. *)
LEMMA InFields ==
  ASSUME NEW m, NEW t
  PROVE  /\ t.tag = 8 /\ t.whole => FieldIs(In!Field(m, t), In!set_serverRead(m, In!ReadBool(t.val)), TRUE)
         /\ t.tag = 8 /\ ~t.whole => FieldIs(In!Field(m, t), m, FALSE)
         /\ t.tag = 18 =>
              FieldIs(In!Field(m, t), In!set_locKey(m, t.val), t.whole)
         /\ t.tag = 24 /\ t.whole => FieldIs(In!Field(m, t), In!add_sendToIDs(m, t.val), TRUE)
         /\ t.tag = 24 /\ ~t.whole => FieldIs(In!Field(m, t), m, FALSE)
         /\ t.tag = 26 =>
              FieldIs(In!Field(m, t), [m EXCEPT !.sendToIDs = @ \o t.val], t.whole)
         /\ t.tag \notin {8, 18, 24, 26} => In!Field(m, t) = In!Unusual(m)
<1>1. t.tag = 8 /\ t.whole =>
        FieldIs(In!Field(m, t), In!set_serverRead(m, In!ReadBool(t.val)), TRUE)
  <2>1. t.tag = 8 /\ t.whole => In!Field(m, t) = In!Stored(In!set_serverRead(m, In!ReadBool(t.val)))
    BY DEF In!Field
  <2>2. QED
    BY <2>1 DEF FieldIs, In!Stored, In!Failed
<1>2. t.tag = 8 /\ ~t.whole =>
        FieldIs(In!Field(m, t), m, FALSE)
  <2>1. t.tag = 8 /\ ~t.whole => In!Field(m, t) = In!Failed(m)
    BY DEF In!Field
  <2>2. QED
    BY <2>1 DEF FieldIs, In!Stored, In!Failed
<1>3. t.tag = 18 =>
        FieldIs(In!Field(m, t), In!set_locKey(m, t.val), t.whole)
  <2>1. t.tag = 18 => In!Field(m, t) = [In!Stored(In!set_locKey(m, t.val)) EXCEPT !.ok = t.whole]
    BY DEF In!Field
  <2>2. QED
    BY <2>1 DEF FieldIs, In!Stored, In!Failed
<1>4. t.tag = 24 /\ t.whole =>
        FieldIs(In!Field(m, t), In!add_sendToIDs(m, t.val), TRUE)
  <2>1. t.tag = 24 /\ t.whole => In!Field(m, t) = In!Stored(In!add_sendToIDs(m, t.val))
    BY DEF In!Field
  <2>2. QED
    BY <2>1 DEF FieldIs, In!Stored, In!Failed
<1>5. t.tag = 24 /\ ~t.whole =>
        FieldIs(In!Field(m, t), m, FALSE)
  <2>1. t.tag = 24 /\ ~t.whole => In!Field(m, t) = In!Failed(m)
    BY DEF In!Field
  <2>2. QED
    BY <2>1 DEF FieldIs, In!Stored, In!Failed
<1>6. t.tag = 26 =>
        FieldIs(In!Field(m, t), [m EXCEPT !.sendToIDs = @ \o t.val], t.whole)
  <2>1. t.tag = 26 => In!Field(m, t) = [In!Stored([m EXCEPT !.sendToIDs = @ \o t.val]) EXCEPT !.ok = t.whole]
    BY DEF In!Field
  <2>2. QED
    BY <2>1 DEF FieldIs, In!Stored, In!Failed
<1>7. t.tag \notin {8, 18, 24, 26} => In!Field(m, t) = In!Unusual(m)
  BY DEF In!Field
<1>8. QED
  BY <1>1, <1>2, <1>3, <1>4, <1>5, <1>6, <1>7

LEMMA InUnknown ==
  ASSUME class = "PackHeaderIn"
  PROVE  \A m : \A t \in Others({8, 18, 24, 26}) : FieldOf(m, t) = Unusual(m)
<1> SUFFICES ASSUME NEW m, NEW t \in Others({8, 18, 24, 26}) PROVE FieldOf(m, t) = Unusual(m)
  OBVIOUS
<1>1. FieldOf(m, t) = In!Field(m, t)
  BY DEF FieldOf
<1>2. t.tag \notin {8, 18, 24, 26}
  BY DEF Others
<1>3. QED
  BY <1>1, <1>2, InFields DEF In!Unusual, Unusual

(* A turn of the parser, whatever the token, leaves a message of the class. *)
LEMMA InTurns ==
  ASSUME class = "PackHeaderIn", NEW s, InMessage(s.msg), NEW t \in Tokens
  PROVE  InMessage(Turn(s, t).msg)
<1> DEFINE m == s.msg
           field == In!Field(m, t)
<1>1. FieldOf(m, t) = field
  BY DEF FieldOf
<1>2. CASE t.tag \in {8, 18, 24, 26}
  <2>1. CASE t.tag = 8
    <3>1. In!ReadBool(t.val) \in BOOLEAN
      BY DEF In!ReadBool
    <3>2. (field.msg = In!set_serverRead(m, In!ReadBool(t.val)) \/ field.msg = m) /\ field.known = TRUE
      <4>1. t.whole => FieldIs(field, In!set_serverRead(m, In!ReadBool(t.val)), TRUE)
        BY <2>1, InFields
      <4>2. ~t.whole => FieldIs(field, m, FALSE)
        BY <2>1, InFields
      <4>3. QED
        BY <4>1, <4>2 DEF FieldIs
    <3>3. InMessage(field.msg)
      BY <3>1, <3>2, InSets
    <3> HIDE DEF m, field
    <3>4. QED
      BY <1>1, <3>2, <3>3 DEF Turn, mergeToken, m
  <2>2. CASE t.tag = 18
    <3>1. t.val \in Seq(Nat)
      BY <2>2 DEF Tokens, IsToken, WireType, LENGTH
    <3>2. field.msg = In!set_locKey(m, t.val) /\ field.known = TRUE
      <4>1. FieldIs(field, In!set_locKey(m, t.val), t.whole)
        BY <2>2, InFields
      <4>2. QED
        BY <4>1 DEF FieldIs
    <3>3. InMessage(field.msg)
      BY <3>1, <3>2, InSets
    <3> HIDE DEF m, field
    <3>4. QED
      BY <1>1, <3>2, <3>3 DEF Turn, mergeToken, m
  <2>3. CASE t.tag = 24
    <3>1. t.val \in Nat /\ m.sendToIDs \in Seq(Nat)
      BY <2>3 DEF Tokens, IsToken, WireType, LENGTH, InMessage, InRecords
    <3>2. Append(m.sendToIDs, t.val) \in Seq(Nat)
      BY <3>1
    <3>3. (field.msg = In!add_sendToIDs(m, t.val) \/ field.msg = m) /\ field.known = TRUE
      <4>1. t.whole => FieldIs(field, In!add_sendToIDs(m, t.val), TRUE)
        BY <2>3, InFields
      <4>2. ~t.whole => FieldIs(field, m, FALSE)
        BY <2>3, InFields
      <4>3. QED
        BY <4>1, <4>2 DEF FieldIs
    <3>4. InMessage(field.msg)
      BY <3>2, <3>3, InSets DEF In!add_sendToIDs
    <3> HIDE DEF m, field
    <3>5. QED
      BY <1>1, <3>3, <3>4 DEF Turn, mergeToken, m
  <2>4. CASE t.tag = 26
    <3>1. t.val \in Seq(Nat) /\ m.sendToIDs \in Seq(Nat)
      BY <2>4 DEF Tokens, IsToken, WireType, LENGTH, InMessage, InRecords
    <3>2. m.sendToIDs \o t.val \in Seq(Nat)
      BY <3>1
    <3>3. field.msg = [m EXCEPT !.sendToIDs = m.sendToIDs \o t.val] /\ field.known = TRUE
      <4>1. FieldIs(field, [m EXCEPT !.sendToIDs = @ \o t.val], t.whole)
        BY <2>4, InFields
      <4>2. QED
        BY <4>1 DEF FieldIs
    <3>4. InMessage(field.msg)
      BY <3>2, <3>3, InSets
    <3> HIDE DEF m, field
    <3>5. QED
      BY <1>1, <3>3, <3>4 DEF Turn, mergeToken, m
  <2>5. QED
    BY <1>2, <2>1, <2>2, <2>3, <2>4
<1>3. CASE t.tag \notin {8, 18, 24, 26}
  <2>1. field = Unusual(m)
    BY <1>3, InFields DEF In!Unusual, Unusual
  <2>2. Turn(s, t) = s \/ Turn(s, t) = handle_unusual(m, t)
    BY <1>1, <2>1 DEF Turn, mergeToken, Unusual
  <2>3. CASE t.tag # 0 /\ Skippable(t)
    <3>1. t \in Others({8, 18, 24, 26})
      BY <1>3, <2>3 DEF Others
    <3>2. m.unknown \in Seq(Others({8, 18, 24, 26}))
      BY DEF InMessage, InRecords
    <3>3. Append(m.unknown, t) \in Seq(Others({8, 18, 24, 26}))
      BY <3>1, <3>2
    <3>4. InMessage([m EXCEPT !.unknown = Append(m.unknown, t)])
      BY <3>3, InSets
    <3> HIDE DEF m
    <3>5. handle_unusual(m, t).msg = m \/ handle_unusual(m, t).msg = [m EXCEPT !.unknown = Append(m.unknown, t)]
      BY DEF handle_unusual
    <3>6. QED
      BY <2>2, <3>4, <3>5 DEF m
  <2>4. CASE t.tag = 0 \/ ~Skippable(t)
    <3> HIDE DEF m
    <3>1. handle_unusual(m, t).msg = m
      BY <2>4 DEF handle_unusual
    <3>2. QED
      BY <2>2, <3>1 DEF m
  <2>5. QED
    BY <2>3, <2>4
<1>4. QED
  BY <1>2, <1>3

(* A token that the class writes sets the field it was written from. *)
LEMMA InReads ==
  ASSUME class = "PackHeaderIn", NEW m
  PROVE  /\ \A v \in BOOLEAN : Turn(Reading(m), Token(8, In!WriteBool(v))) = Reading(In!set_serverRead(m, v))
         /\ \A v \in Seq(Nat) : Turn(Reading(m), Token(18, v)) = Reading(In!set_locKey(m, v))
         /\ \A v \in Nat : Turn(Reading(m), Token(24, v)) = Reading(In!add_sendToIDs(m, v))
<1>0. \A t : FieldOf(m, t) = In!Field(m, t)
  BY DEF FieldOf
<1>1. ASSUME NEW v \in BOOLEAN PROVE Turn(Reading(m), Token(8, In!WriteBool(v))) = Reading(In!set_serverRead(m, v))
  <2> DEFINE t == Token(8, In!WriteBool(v))
             field == In!Field(m, t)
  <2>1. t.tag = 8 /\ t.val = In!WriteBool(v) /\ t.whole = TRUE
    BY DEF Token
  <2>2. In!ReadBool(In!WriteBool(v)) = v
    BY DEF In!ReadBool, In!WriteBool
  <2> HIDE DEF t
  <2>3. field.msg = In!set_serverRead(m, v) /\ field.known = TRUE /\ field.ok = TRUE
    <3>1. FieldIs(field, In!set_serverRead(m, v), TRUE)
      BY <2>1, <2>2, InFields
    <3>2. QED
      BY <3>1 DEF FieldIs
  <2>4. FieldOf(m, t) = field
    BY <1>0
  <2> HIDE DEF field
  <2>5. Turn(Reading(m), t) = Reading(field.msg)
    BY <2>3, <2>4 DEF Turn, mergeToken, Reading
  <2>6. QED
    BY <2>3, <2>5 DEF t
<1>2. ASSUME NEW v \in Seq(Nat) PROVE Turn(Reading(m), Token(18, v)) = Reading(In!set_locKey(m, v))
  <2> DEFINE t == Token(18, v)
             field == In!Field(m, t)
  <2>1. t.tag = 18 /\ t.val = v /\ t.whole = TRUE
    BY DEF Token
  <2> HIDE DEF t
  <2>2. field.msg = In!set_locKey(m, v) /\ field.known = TRUE /\ field.ok = TRUE
    <3>1. FieldIs(field, In!set_locKey(m, v), TRUE)
      BY <2>1, InFields
    <3>2. QED
      BY <3>1 DEF FieldIs
  <2>3. FieldOf(m, t) = field
    BY <1>0
  <2> HIDE DEF field
  <2>4. Turn(Reading(m), t) = Reading(field.msg)
    BY <2>2, <2>3 DEF Turn, mergeToken, Reading
  <2>5. QED
    BY <2>2, <2>4 DEF t
<1>3. ASSUME NEW v \in Nat PROVE Turn(Reading(m), Token(24, v)) = Reading(In!add_sendToIDs(m, v))
  <2> DEFINE t == Token(24, v)
             field == In!Field(m, t)
  <2>1. t.tag = 24 /\ t.val = v /\ t.whole = TRUE
    BY DEF Token
  <2> HIDE DEF t
  <2>2. field.msg = In!add_sendToIDs(m, v) /\ field.known = TRUE /\ field.ok = TRUE
    <3>1. FieldIs(field, In!add_sendToIDs(m, v), TRUE)
      BY <2>1, InFields
    <3>2. QED
      BY <3>1 DEF FieldIs
  <2>3. FieldOf(m, t) = field
    BY <1>0
  <2> HIDE DEF field
  <2>4. Turn(Reading(m), t) = Reading(field.msg)
    BY <2>2, <2>3 DEF Turn, mergeToken, Reading
  <2>5. QED
    BY <2>2, <2>4 DEF t
<1>4. QED
  BY <1>1, <1>2, <1>3

(* A token for each recipient. *)
IdTokens(ids) == [i \in DOMAIN ids |-> Token(24, ids[i])]

LEMMA IdTokensAppend ==
  ASSUME NEW ids \in Seq(Nat), NEW v \in Nat
  PROVE  /\ IdTokens(Append(ids, v)) = Append(IdTokens(ids), Token(24, v))
         /\ IdTokens(ids) \in Seq(Measurable)
<1>1. \A n \in Nat : Token(24, n) \in Measurable
  BY WrittenNumber
<1>2. \A s \in Seq(Nat) : IdTokens(s) \in Seq(Measurable) /\ Len(IdTokens(s)) = Len(s)
  BY <1>1 DEF IdTokens
<1>3. Append(ids, v) \in Seq(Nat) /\ Len(Append(ids, v)) = Len(ids) + 1
  OBVIOUS
<1> DEFINE a == IdTokens(Append(ids, v))
           b == Append(IdTokens(ids), Token(24, v))
<1>4. a \in Seq(Measurable) /\ Len(a) = Len(ids) + 1
  BY <1>2, <1>3
<1>5. b \in Seq(Measurable) /\ Len(b) = Len(ids) + 1
  BY <1>1, <1>2
<1>6. ASSUME NEW i \in 1 .. Len(ids) + 1 PROVE a[i] = b[i]
  <2>1. a[i] = Token(24, Append(ids, v)[i])
    BY <1>3 DEF IdTokens
  <2>2. CASE i = Len(ids) + 1
    <3>1. b[i] = Token(24, v)
      BY <1>2, <2>2
    <3>2. Append(ids, v)[i] = v
      BY <2>2
    <3> HIDE DEF a, b
    <3>3. QED
      BY <2>1, <3>1, <3>2
  <2>3. CASE i \in 1 .. Len(ids)
    <3>1. b[i] = IdTokens(ids)[i]
      BY <1>2, <2>3
    <3>2. IdTokens(ids)[i] = Token(24, ids[i])
      BY <2>3 DEF IdTokens
    <3>3. Append(ids, v)[i] = ids[i]
      BY <2>3
    <3> HIDE DEF a, b
    <3>4. QED
      BY <2>1, <3>1, <3>2, <3>3
  <2> HIDE DEF a, b
  <2>4. QED
    BY <2>2, <2>3
<1> HIDE DEF a, b
<1>7. a = b
  BY <1>4, <1>5, <1>6, SeqEqual
<1>8. QED
  BY <1>2, <1>7 DEF a, b

LEMMA IdTokensEmpty == IdTokens(<<>>) = <<>>
  BY DEF IdTokens

LEMMA IdTokensParsed ==
  ASSUME class = "PackHeaderIn", NEW m, InMessage(m)
  PROVE  \A ids \in Seq(Nat) :
           Merged(m, IdTokens(ids)) = Reading([m EXCEPT !.sendToIDs = m.sendToIDs \o ids])
<1> DEFINE added(ids) == [m EXCEPT !.sendToIDs = m.sendToIDs \o ids]
           S == {ids \in Seq(Nat) : Merged(m, IdTokens(ids)) = Reading(added(ids))}
<1>0. class \in Classes /\ m.sendToIDs \in Seq(Nat)
  BY DEF Classes, InMessage, InRecords
<1>1. <<>> \in S
  <2>1. <<>> \in Seq(Nat) /\ m.sendToIDs \o <<>> = m.sendToIDs
    BY <1>0
  <2>2. added(<<>>) = m
    BY <2>1 DEF InMessage, InRecords
  <2>3. QED
    BY <1>0, <2>1, <2>2, MergedEmpty, IdTokensEmpty
<1>2. ASSUME NEW ids \in Seq(Nat), NEW v \in Nat, ids \in S
      PROVE  Append(ids, v) \in S
  <2>1. m.sendToIDs \o Append(ids, v) = Append(m.sendToIDs \o ids, v) /\ Append(ids, v) \in Seq(Nat)
    <3>1. PICK old \in Seq(Nat) : old = m.sendToIDs
      BY <1>0
    <3>2. old \o Append(ids, v) = Append(old \o ids, v)
      BY AppendLast
    <3>3. QED
      BY <3>1, <3>2
  <2>2. Token(24, v) \in Measurable /\ IdTokens(ids) \in Seq(Measurable)
    BY WrittenNumber, IdTokensAppend
  <2>3. Merged(m, Append(IdTokens(ids), Token(24, v))) = Turn(Reading(added(ids)), Token(24, v))
    BY <1>0, <1>2, <2>2, MergedAppend
  <2>4. In!add_sendToIDs(added(ids), v) = added(Append(ids, v))
    <3>1. added(ids).sendToIDs = m.sendToIDs \o ids
      BY DEF InMessage, InRecords
    <3>2. QED
      BY <2>1, <3>1 DEF In!add_sendToIDs
  <2>5. Turn(Reading(added(ids)), Token(24, v)) = Reading(In!add_sendToIDs(added(ids), v))
    BY InReads
  <2>6. QED
    BY <2>1, <2>3, <2>4, <2>5, IdTokensAppend
<1>3. Seq(Nat) \subseteq S
  <2> HIDE DEF S
  <2>1. QED
    BY <1>1, <1>2, SeqInduction
<1>4. QED
  BY <1>3

LEMMA IdTokensMeasured ==
  \A ids \in Seq(Nat) : /\ IdTokens(ids) \in Seq(Measurable)
                        /\ WireSize(IdTokens(ids)) = 1 * Len(ids) + PayloadSize(ids)
<1> DEFINE S == {ids \in Seq(Nat) : WireSize(IdTokens(ids)) = 1 * Len(ids) + PayloadSize(ids)}
<1>0. \A ids \in Seq(Nat) : IdTokens(ids) \in Seq(Measurable)
  <2>1. 0 \in Nat
    OBVIOUS
  <2>2. QED
    BY <2>1, IdTokensAppend
<1>1. <<>> \in S
  <2>1. <<>> \in Seq(Nat) /\ Len(<<>>) = 0
    OBVIOUS
  <2>2. QED
    BY <2>1, IdTokensEmpty, WireSteps, PayloadSteps
<1>2. ASSUME NEW ids \in Seq(Nat), NEW v \in Nat, ids \in S
      PROVE  Append(ids, v) \in S
  <2>1. Append(ids, v) \in Seq(Nat) /\ Len(Append(ids, v)) = Len(ids) + 1 /\ Len(ids) \in Nat
    OBVIOUS
  <2>2. Token(24, v) \in Measurable /\ TokenSize(Token(24, v)) = 1 + UInt32Size(v)
    BY WrittenNumber
  <2>3. WireSize(Append(IdTokens(ids), Token(24, v))) = WireSize(IdTokens(ids)) + TokenSize(Token(24, v))
    BY <1>0, <2>2, WireSteps
  <2>4. PayloadSize(Append(ids, v)) = PayloadSize(ids) + UInt32Size(v)
    BY PayloadSteps
  <2>5. PayloadSize(ids) \in Nat /\ UInt32Size(v) \in Nat
    BY SizeTypes
  <2>6. WireSize(IdTokens(ids)) = 1 * Len(ids) + PayloadSize(ids)
    BY <1>2
  <2>7. WireSize(IdTokens(Append(ids, v))) = 1 * Len(Append(ids, v)) + PayloadSize(Append(ids, v))
    <3>1. IdTokens(Append(ids, v)) = Append(IdTokens(ids), Token(24, v))
      BY IdTokensAppend
    <3> HIDE DEF S
    <3>2. QED
      BY <2>1, <2>2, <2>3, <2>4, <2>5, <2>6, <3>1
  <2>8. QED
    BY <2>1, <2>7
<1>3. Seq(Nat) \subseteq S
  <2> HIDE DEF S
  <2>1. QED
    BY <1>1, <1>2, SeqInduction
<1>4. QED
  BY <1>0, <1>3

LEMMA InWritten ==
  ASSUME NEW n, InMessage(n)
  PROVE  /\ Token(8, In!WriteBool(n.serverRead)) \in Measurable
         /\ Token(18, n.locKey) \in Measurable
         /\ n.unknown \in Seq(Measurable)
<1>1. n.serverRead \in BOOLEAN /\ n.locKey \in Seq(Nat)
  BY DEF InMessage, InRecords
<1>2. In!WriteBool(n.serverRead) \in Nat
  BY DEF In!WriteBool
<1>3. n.unknown \in Seq(Measurable)
  BY OthersMeasurable DEF InMessage, InRecords
<1>4. QED
  BY <1>1, <1>2, <1>3, WrittenNumber, WrittenString

(* To parse what a message is written as is to merge the message. *)
LEMMA InParsed ==
  ASSUME class = "PackHeaderIn", NEW m, InMessage(m), NEW n, InMessage(n)
  PROVE  Merged(m, In!SerializeWithCachedSizes(n)) = Reading(In!MergeFrom(m, n))
<1> DEFINE p1 == IF "serverRead" \in n.has THEN <<Token(8, In!WriteBool(n.serverRead))>> ELSE <<>>
           m1 == IF "serverRead" \in n.has THEN In!set_serverRead(m, n.serverRead) ELSE m
           p2 == IF "locKey" \in n.has THEN <<Token(18, n.locKey)>> ELSE <<>>
           m2 == IF "locKey" \in n.has THEN In!set_locKey(m1, n.locKey) ELSE m1
           p3 == IdTokens(n.sendToIDs)
           m3 == [m2 EXCEPT !.sendToIDs = m2.sendToIDs \o n.sendToIDs]
<1>0. /\ class \in Classes /\ n.unknown \in Seq(Others({8, 18, 24, 26}))
      /\ n.serverRead \in BOOLEAN /\ n.locKey \in Seq(Nat) /\ n.sendToIDs \in Seq(Nat)
  BY DEF Classes, InMessage, InRecords
<1>1. p1 \in Seq(Measurable) /\ Merged(m, p1) = Reading(m1) /\ InMessage(m1)
  <2>1. CASE "serverRead" \in n.has
    <3>1. Merged(m, <<Token(8, In!WriteBool(n.serverRead))>>) = Reading(In!set_serverRead(m, n.serverRead))
      BY <1>0, MergedOne, InReads
    <3>2. InMessage(In!set_serverRead(m, n.serverRead))
      BY <1>0, InSets
    <3>3. <<Token(8, In!WriteBool(n.serverRead))>> \in Seq(Measurable)
      BY InWritten
    <3>4. QED
      BY <2>1, <3>1, <3>2, <3>3
  <2>2. CASE "serverRead" \notin n.has
    <3>1. Merged(m, <<>>) = Reading(m) /\ <<>> \in Seq(Measurable)
      BY <1>0, MergedEmpty
    <3>2. QED
      BY <2>2, <3>1
  <2>3. QED
    BY <2>1, <2>2
<1>2. p2 \in Seq(Measurable) /\ Merged(m1, p2) = Reading(m2) /\ InMessage(m2)
  <2>1. CASE "locKey" \in n.has
    <3>1. Merged(m1, <<Token(18, n.locKey)>>) = Reading(In!set_locKey(m1, n.locKey))
      BY <1>0, MergedOne, InReads
    <3>2. InMessage(In!set_locKey(m1, n.locKey))
      BY <1>0, <1>1, InSets
    <3>3. <<Token(18, n.locKey)>> \in Seq(Measurable)
      BY InWritten
    <3>4. QED
      BY <2>1, <3>1, <3>2, <3>3
  <2>2. CASE "locKey" \notin n.has
    <3>1. Merged(m1, <<>>) = Reading(m1) /\ <<>> \in Seq(Measurable)
      BY <1>0, MergedEmpty
    <3>2. QED
      BY <2>2, <3>1, <1>1
  <2>3. QED
    BY <2>1, <2>2
<1>3. /\ m2.has = m.has \cup n.has
      /\ m2.serverRead = IF "serverRead" \in n.has THEN n.serverRead ELSE m.serverRead
      /\ m2.locKey = IF "locKey" \in n.has THEN n.locKey ELSE m.locKey
      /\ m2.sendToIDs = m.sendToIDs
      /\ m2.unknown = m.unknown
  BY DEF InMessage, InRecords, In!set_serverRead, In!set_locKey, In!mutable_locKey
<1> HIDE DEF p1, m1, p2, m2
<1>4. p3 \in Seq(Measurable) /\ Merged(m2, p3) = Reading(m3)
  BY <1>0, <1>2, IdTokensMeasured, IdTokensParsed
<1>5. m3.sendToIDs \in Seq(Nat) /\ InMessage(m3)
  <2>1. m2.sendToIDs \o n.sendToIDs \in Seq(Nat)
    BY <1>0, <1>2 DEF InMessage, InRecords
  <2>2. InMessage(m3)
    BY <1>2, <2>1, InSets
  <2>3. QED
    BY <2>2 DEF InMessage, InRecords
<1>6. /\ m3.has = m2.has /\ m3.serverRead = m2.serverRead /\ m3.locKey = m2.locKey
      /\ m3.sendToIDs = m2.sendToIDs \o n.sendToIDs /\ m3.unknown = m2.unknown
  BY <1>2 DEF InMessage, InRecords
<1> HIDE DEF p3, m3
<1>7. n.unknown \in Seq(Measurable) /\ Merged(m3, n.unknown) = Reading(Extended(m3, n.unknown))
  <2>1. m3 = [x \in DOMAIN m3 |-> m3[x]] /\ "unknown" \in DOMAIN m3
    BY <1>5 DEF InMessage, InRecords
  <2>2. m3.unknown \in Seq(Others({8, 18, 24, 26}))
    BY <1>5 DEF InMessage, InRecords
  <2>3. \A r : \A t \in Others({8, 18, 24, 26}) : FieldOf(r, t) = Unusual(r)
    BY InUnknown
  <2>4. Merged(m3, n.unknown) = Reading(Extended(m3, n.unknown))
    BY <1>0, <2>1, <2>2, <2>3, OthersParsed
  <2>5. QED
    BY <2>4, InWritten
<1>8. Merged(m, p1 \o p2 \o p3 \o n.unknown) = Reading(Extended(m3, n.unknown))
  <2>1. Merged(m, p1 \o p2) = Reading(m2) /\ p1 \o p2 \in Seq(Measurable)
    <3>1. PICK a \in Seq(Measurable) : a = p1
      BY <1>1
    <3>2. Merged(m, a) = Reading(m1)
      BY <1>1, <3>1
    <3>3. Merged(m, a \o p2) = Reading(m2) /\ a \o p2 \in Seq(Measurable)
      BY <1>0, <1>2, <3>2, MergedConcat
    <3>4. QED
      BY <3>1, <3>3
  <2>2. Merged(m, p1 \o p2 \o p3) = Reading(m3) /\ p1 \o p2 \o p3 \in Seq(Measurable)
    <3>1. PICK a \in Seq(Measurable) : a = p1 \o p2
      BY <2>1
    <3>2. Merged(m, a) = Reading(m2)
      BY <2>1, <3>1
    <3>3. Merged(m, a \o p3) = Reading(m3) /\ a \o p3 \in Seq(Measurable)
      BY <1>0, <1>4, <3>2, MergedConcat
    <3>4. QED
      BY <3>1, <3>3
  <2>3. Merged(m, p1 \o p2 \o p3 \o n.unknown) = Reading(Extended(m3, n.unknown))
    <3>1. PICK a \in Seq(Measurable) : a = p1 \o p2 \o p3
      BY <2>2
    <3>2. Merged(m, a) = Reading(m3)
      BY <2>2, <3>1
    <3>3. Merged(m, a \o n.unknown) = Reading(Extended(m3, n.unknown)) /\ a \o n.unknown \in Seq(Measurable)
      BY <1>0, <1>7, <3>2, MergedConcat
    <3>4. QED
      BY <3>1, <3>3
  <2>4. QED
    BY <2>3
<1>9. In!SerializeWithCachedSizes(n) = p1 \o p2 \o p3 \o n.unknown
  BY DEF In!SerializeWithCachedSizes, In!Token, Token, IdTokens, p1, p2, p3
<1>10. Extended(m3, n.unknown) = In!MergeFrom(m, n)
  <2> DEFINE r == Extended(m3, n.unknown)
             merged == In!MergeFrom(m, n)
  <2>1. m3.unknown \o n.unknown \in Seq(Others({8, 18, 24, 26}))
    BY <1>0, <1>5 DEF InMessage, InRecords
  <2>2. r \in InRecords
    BY <2>1, <1>5, InSets DEF Extended, InMessage
  <2>3. /\ r.has = m3.has /\ r.serverRead = m3.serverRead /\ r.locKey = m3.locKey /\ r.sendToIDs = m3.sendToIDs
        /\ r.unknown = m3.unknown \o n.unknown
    BY <1>5 DEF Extended, InMessage, InRecords
  <2>4. merged \in InRecords
    BY InMerges DEF InMessage
  <2>5. /\ merged.has = m.has \cup n.has /\ merged.unknown = m.unknown \o n.unknown
        /\ merged.serverRead = IF "serverRead" \in n.has THEN n.serverRead ELSE m.serverRead
        /\ merged.locKey = IF "locKey" \in n.has THEN n.locKey ELSE m.locKey
        /\ merged.sendToIDs = m.sendToIDs \o n.sendToIDs
    BY DEF In!MergeFrom
  <2> HIDE DEF r, merged
  <2>6. r.has = merged.has /\ r.serverRead = merged.serverRead /\ r.locKey = merged.locKey
    BY <1>3, <1>6, <2>3, <2>5
  <2>7. r.sendToIDs = merged.sendToIDs /\ r.unknown = merged.unknown
    BY <1>3, <1>6, <2>3, <2>5
  <2>8. r = merged
    BY <2>2, <2>4, <2>6, <2>7, InEqual
  <2>9. QED
    BY <2>8 DEF r, merged
<1>11. QED
  BY <1>8, <1>9, <1>10

(* ByteSize is the size of what is written. *)
LEMMA InMeasured ==
  ASSUME NEW n, InMessage(n)
  PROVE  /\ In!SerializeWithCachedSizes(n) \in Seq(Measurable)
         /\ In!ByteSize(n) = WireSize(In!SerializeWithCachedSizes(n))
<1> DEFINE p1 == IF "serverRead" \in n.has THEN <<Token(8, In!WriteBool(n.serverRead))>> ELSE <<>>
           s1 == IF "serverRead" \in n.has THEN 1 + 1 ELSE 0
           p2 == IF "locKey" \in n.has THEN <<Token(18, n.locKey)>> ELSE <<>>
           s2 == IF "locKey" \in n.has THEN 1 + StringSize(n.locKey) ELSE 0
           p3 == IdTokens(n.sendToIDs)
           s3 == 1 * Len(n.sendToIDs) + PayloadSize(n.sendToIDs)
<1>0. n.serverRead \in BOOLEAN /\ n.locKey \in Seq(Nat) /\ n.sendToIDs \in Seq(Nat)
  BY DEF InMessage, InRecords
<1>1. p1 \in Seq(Measurable) /\ WireSize(p1) = s1
  <2>1. CASE "serverRead" \in n.has
    <3>1. In!WriteBool(n.serverRead) \in Nat /\ UInt32Size(In!WriteBool(n.serverRead)) = 1
      BY DEF In!WriteBool, UInt32Size
    <3>2. WireSize(<<Token(8, In!WriteBool(n.serverRead))>>) = 1 + 1
      BY <3>1, WrittenNumber
    <3>3. QED
      BY <2>1, <3>2, InWritten
  <2>2. CASE "serverRead" \notin n.has
    <3>1. <<>> \in Seq(Measurable)
      OBVIOUS
    <3>2. QED
      BY <2>2, <3>1, WireSteps
  <2>3. QED
    BY <2>1, <2>2
<1>2. p2 \in Seq(Measurable) /\ WireSize(p2) = s2
  <2>1. CASE "locKey" \in n.has
    <3>1. WireSize(<<Token(18, n.locKey)>>) = s2
      BY <1>0, <2>1, WrittenString
    <3>2. QED
      BY <2>1, <3>1, InWritten
  <2>2. CASE "locKey" \notin n.has
    <3>1. <<>> \in Seq(Measurable)
      OBVIOUS
    <3>2. QED
      BY <2>2, <3>1, WireSteps
  <2>3. QED
    BY <2>1, <2>2
<1>3. p3 \in Seq(Measurable) /\ WireSize(p3) = s3
  BY <1>0, IdTokensMeasured
<1>4. n.unknown \in Seq(Measurable)
  BY InWritten
<1>5. In!ByteSize(n) = s1 + s2 + 1 * Len(n.sendToIDs) + PayloadSize(n.sendToIDs) + WireSize(n.unknown)
  BY InSizes DEF In!ByteSize
<1>6. In!SerializeWithCachedSizes(n) = p1 \o p2 \o p3 \o n.unknown
  BY DEF In!SerializeWithCachedSizes, In!Token, Token, IdTokens
<1>7. Len(n.sendToIDs) \in Nat /\ PayloadSize(n.sendToIDs) \in Nat /\ s1 \in Nat /\ s2 \in Nat
  <2>1. StringSize(n.locKey) \in Nat
    BY <1>0, SizeTypes
  <2>2. QED
    BY <1>0, <2>1, SizeTypes
<1> HIDE DEF p1, p2, p3, s1, s2
<1>8. /\ p1 \o p2 \in Seq(Measurable) /\ WireSize(p1) \in Nat /\ WireSize(p2) \in Nat
      /\ WireSize(p1 \o p2) = WireSize(p1) + WireSize(p2)
  BY <1>1, <1>2, WireJoin
<1>9. /\ p1 \o p2 \o p3 \in Seq(Measurable) /\ WireSize(p1 \o p2) \in Nat /\ WireSize(p3) \in Nat
      /\ WireSize(p1 \o p2 \o p3) = WireSize(p1 \o p2) + WireSize(p3)
  BY <1>2, <1>3, <1>8, WireJoin
<1>10. /\ p1 \o p2 \o p3 \o n.unknown \in Seq(Measurable) /\ WireSize(p1 \o p2 \o p3) \in Nat /\ WireSize(n.unknown) \in Nat
      /\ WireSize(p1 \o p2 \o p3 \o n.unknown) = WireSize(p1 \o p2 \o p3) + WireSize(n.unknown)
  BY <1>3, <1>4, <1>9, WireJoin
<1>11. s3 \in Nat /\ In!ByteSize(n) = s1 + s2 + s3 + WireSize(n.unknown)
  <2>1. PICK many \in Nat, bytes \in Nat, rest \in Nat :
          many = Len(n.sendToIDs) /\ bytes = PayloadSize(n.sendToIDs) /\ rest = WireSize(n.unknown)
    BY <1>7, <1>10
  <2>2. s3 = many + bytes
    BY <2>1 DEF s3
  <2>3. In!ByteSize(n) = s1 + s2 + many + bytes + rest
    BY <1>5, <2>1
  <2>4. s1 + s2 + many + bytes + rest = s1 + s2 + (many + bytes) + rest
    <3>1. s1 \in Nat /\ s2 \in Nat /\ many \in Nat /\ bytes \in Nat /\ rest \in Nat
      BY <1>1, <1>2, <1>8, <2>1
    <3>2. QED
      BY <3>1
  <2>5. QED
    BY <2>1, <2>2, <2>3, <2>4
<1>12. WireSize(p1 \o p2 \o p3) = s1 + s2 + s3
  BY <1>1, <1>2, <1>3, <1>8, <1>9
<1>13. WireSize(p1 \o p2 \o p3 \o n.unknown) = s1 + s2 + s3 + WireSize(n.unknown)
  BY <1>10, <1>12
<1>14. QED
  BY <1>6, <1>10, <1>11, <1>13 DEF p1, p2, p3

--------------------------------------------------------------------------------
(* PackHeaderOut *)

OutRecords ==
  [has : SUBSET {"locKey", "sentFromID"}, locKey : Seq(Nat), sentFromID : Nat,
   unknown : Seq(Others({10, 16}))]

(* A field without its bit has its default value. *)
OutMessage(m) ==
  /\ m \in OutRecords
  /\ "locKey" \notin m.has => m.locKey = <<>>
  /\ "sentFromID" \notin m.has => m.sentFromID = 0

LEMMA OutEqual ==
  ASSUME NEW m \in OutRecords, NEW n \in OutRecords,
         m.has = n.has, m.locKey = n.locKey, m.sentFromID = n.sentFromID, m.unknown = n.unknown
  PROVE  m = n
<1>1. m = [has |-> m.has, locKey |-> m.locKey, sentFromID |-> m.sentFromID, unknown |-> m.unknown]
  BY DEF OutRecords
<1>2. n = [has |-> n.has, locKey |-> n.locKey, sentFromID |-> n.sentFromID, unknown |-> n.unknown]
  BY DEF OutRecords
<1>3. QED
  BY <1>1, <1>2

LEMMA OutIsNew == OutMessage(Out!New)
<1>1. <<>> \in Seq(Nat) /\ <<>> \in Seq(Others({10, 16}))
  OBVIOUS
<1>2. QED
  BY <1>1 DEF OutMessage, OutRecords, Out!New

LEMMA OutCleared ==
  ASSUME NEW m, OutMessage(m)
  PROVE  Out!Clear(m) = Out!New
<1> DEFINE r == Out!Clear(m)
           Names == {"has", "locKey", "sentFromID", "unknown"}
<1>1. /\ r.has = {} /\ r.locKey = <<>> /\ r.sentFromID = 0
      /\ r.unknown = <<>>
  BY DEF OutMessage, OutRecords, Out!New, Out!Clear
<1>2. DOMAIN r = Names /\ r = [x \in Names |-> r[x]]
  BY DEF OutMessage, OutRecords, Out!New, Out!Clear
<1>3. DOMAIN Out!New = Names /\ Out!New = [x \in Names |-> Out!New[x]]
  BY DEF Out!New
<1>4. QED
  BY <1>1, <1>2, <1>3 DEF Out!New

LEMMA OutMerges ==
  ASSUME NEW m, OutMessage(m), NEW n, OutMessage(n)
  PROVE  OutMessage(Out!MergeFrom(m, n))
  BY DEF OutMessage, OutRecords, Out!MergeFrom

LEMMA OutMergesNew ==
  ASSUME NEW m, OutMessage(m)
  PROVE  Out!MergeFrom(Out!New, m) = m
<1> DEFINE r == Out!MergeFrom(Out!New, m)
<1>1. r.has = m.has /\ r.locKey = m.locKey /\ r.sentFromID = m.sentFromID
  BY DEF OutMessage, OutRecords, Out!MergeFrom, Out!New
<1>2. <<>> \o m.unknown = m.unknown
  BY EmptyConcat DEF OutMessage, OutRecords
<1>3. r.unknown = m.unknown
  BY <1>2 DEF Out!MergeFrom, Out!New
<1>4. r \in OutRecords /\ m \in OutRecords
  BY OutIsNew, OutMerges DEF OutMessage
<1> HIDE DEF r
<1>5. r = m
  BY <1>1, <1>3, <1>4, OutEqual
<1>6. QED
  BY <1>5 DEF r

(* The setters keep the bits true to the fields. *)
LEMMA OutSets ==
  ASSUME NEW m, OutMessage(m)
  PROVE  /\ \A v \in Seq(Nat) : OutMessage(Out!set_locKey(m, v))
         /\ \A v \in Nat : OutMessage(Out!set_sentFromID(m, v))
         /\ \A v \in Seq(Others({10, 16})) : OutMessage([m EXCEPT !.unknown = v])
<1>1. ASSUME NEW v \in Seq(Nat) PROVE OutMessage(Out!set_locKey(m, v))
  BY DEF OutMessage, OutRecords, Out!set_locKey, Out!mutable_locKey
<1>2. ASSUME NEW v \in Nat PROVE OutMessage(Out!set_sentFromID(m, v))
  BY DEF OutMessage, OutRecords, Out!set_sentFromID
<1>3. ASSUME NEW v \in Seq(Others({10, 16})) PROVE OutMessage([m EXCEPT !.unknown = v])
  BY DEF OutMessage, OutRecords
<1>4. QED
  BY <1>1, <1>2, <1>3

LEMMA OutAccessedIs ==
  ASSUME NEW m, OutMessage(m), NEW n \in Out!Accessed(m, Strings, Numbers)
  PROVE  OutMessage(n)
<1>0. <<>> \in Seq(Nat)
  OBVIOUS
<1>1. OutMessage(Out!mutable_locKey(m))
  BY <1>0 DEF OutMessage, OutRecords, Out!mutable_locKey
<1>2. OutMessage(Out!clear_locKey(m))
  BY <1>0 DEF OutMessage, OutRecords, Out!clear_locKey
<1>3. OutMessage(Out!release_locKey(m))
  BY <1>0 DEF OutMessage, OutRecords, Out!release_locKey, Out!clear_locKey
<1>4. OutMessage(Out!clear_sentFromID(m))
  BY <1>0 DEF OutMessage, OutRecords, Out!clear_sentFromID
<1>5. Strings \subseteq Seq(Nat) /\ Numbers \subseteq Nat
  BY FieldsAssumption
<1>6. QED
  BY <1>1, <1>2, <1>3, <1>4, <1>5, OutSets DEF Out!Accessed

(* What the class does with a token of each of its tags, and of any other. *)
LEMMA OutFields ==
  ASSUME NEW m, NEW t
  PROVE  /\ t.tag = 10 =>
              FieldIs(Out!Field(m, t), Out!set_locKey(m, t.val), t.whole)
         /\ t.tag = 16 /\ t.whole => FieldIs(Out!Field(m, t), Out!set_sentFromID(m, t.val), TRUE)
         /\ t.tag = 16 /\ ~t.whole => FieldIs(Out!Field(m, t), m, FALSE)
         /\ t.tag \notin {10, 16} => Out!Field(m, t) = Out!Unusual(m)
<1>1. t.tag = 10 =>
        FieldIs(Out!Field(m, t), Out!set_locKey(m, t.val), t.whole)
  <2>1. t.tag = 10 => Out!Field(m, t) = [Out!Stored(Out!set_locKey(m, t.val)) EXCEPT !.ok = t.whole]
    BY DEF Out!Field
  <2>2. QED
    BY <2>1 DEF FieldIs, Out!Stored, Out!Failed
<1>2. t.tag = 16 /\ t.whole =>
        FieldIs(Out!Field(m, t), Out!set_sentFromID(m, t.val), TRUE)
  <2>1. t.tag = 16 /\ t.whole => Out!Field(m, t) = Out!Stored(Out!set_sentFromID(m, t.val))
    BY DEF Out!Field
  <2>2. QED
    BY <2>1 DEF FieldIs, Out!Stored, Out!Failed
<1>3. t.tag = 16 /\ ~t.whole =>
        FieldIs(Out!Field(m, t), m, FALSE)
  <2>1. t.tag = 16 /\ ~t.whole => Out!Field(m, t) = Out!Failed(m)
    BY DEF Out!Field
  <2>2. QED
    BY <2>1 DEF FieldIs, Out!Stored, Out!Failed
<1>4. t.tag \notin {10, 16} => Out!Field(m, t) = Out!Unusual(m)
  BY DEF Out!Field
<1>5. QED
  BY <1>1, <1>2, <1>3, <1>4

LEMMA OutUnknown ==
  ASSUME class = "PackHeaderOut"
  PROVE  \A m : \A t \in Others({10, 16}) : FieldOf(m, t) = Unusual(m)
<1> SUFFICES ASSUME NEW m, NEW t \in Others({10, 16}) PROVE FieldOf(m, t) = Unusual(m)
  OBVIOUS
<1>1. FieldOf(m, t) = Out!Field(m, t)
  BY DEF FieldOf
<1>2. t.tag \notin {10, 16}
  BY DEF Others
<1>3. QED
  BY <1>1, <1>2, OutFields DEF Out!Unusual, Unusual

(* A turn of the parser, whatever the token, leaves a message of the class. *)
LEMMA OutTurns ==
  ASSUME class = "PackHeaderOut", NEW s, OutMessage(s.msg), NEW t \in Tokens
  PROVE  OutMessage(Turn(s, t).msg)
<1> DEFINE m == s.msg
           field == Out!Field(m, t)
<1>1. FieldOf(m, t) = field
  BY DEF FieldOf
<1>2. CASE t.tag \in {10, 16}
  <2>1. CASE t.tag = 10
    <3>1. t.val \in Seq(Nat)
      BY <2>1 DEF Tokens, IsToken, WireType, LENGTH
    <3>2. field.msg = Out!set_locKey(m, t.val) /\ field.known = TRUE
      <4>1. FieldIs(field, Out!set_locKey(m, t.val), t.whole)
        BY <2>1, OutFields
      <4>2. QED
        BY <4>1 DEF FieldIs
    <3>3. OutMessage(field.msg)
      BY <3>1, <3>2, OutSets
    <3> HIDE DEF m, field
    <3>4. QED
      BY <1>1, <3>2, <3>3 DEF Turn, mergeToken, m
  <2>2. CASE t.tag = 16
    <3>1. t.val \in Nat
      BY <2>2 DEF Tokens, IsToken, WireType, LENGTH
    <3>2. (field.msg = Out!set_sentFromID(m, t.val) \/ field.msg = m) /\ field.known = TRUE
      <4>1. t.whole => FieldIs(field, Out!set_sentFromID(m, t.val), TRUE)
        BY <2>2, OutFields
      <4>2. ~t.whole => FieldIs(field, m, FALSE)
        BY <2>2, OutFields
      <4>3. QED
        BY <4>1, <4>2 DEF FieldIs
    <3>3. OutMessage(field.msg)
      BY <3>1, <3>2, OutSets
    <3> HIDE DEF m, field
    <3>4. QED
      BY <1>1, <3>2, <3>3 DEF Turn, mergeToken, m
  <2>3. QED
    BY <1>2, <2>1, <2>2
<1>3. CASE t.tag \notin {10, 16}
  <2>1. field = Unusual(m)
    BY <1>3, OutFields DEF Out!Unusual, Unusual
  <2>2. Turn(s, t) = s \/ Turn(s, t) = handle_unusual(m, t)
    BY <1>1, <2>1 DEF Turn, mergeToken, Unusual
  <2>3. CASE t.tag # 0 /\ Skippable(t)
    <3>1. t \in Others({10, 16})
      BY <1>3, <2>3 DEF Others
    <3>2. m.unknown \in Seq(Others({10, 16}))
      BY DEF OutMessage, OutRecords
    <3>3. Append(m.unknown, t) \in Seq(Others({10, 16}))
      BY <3>1, <3>2
    <3>4. OutMessage([m EXCEPT !.unknown = Append(m.unknown, t)])
      BY <3>3, OutSets
    <3> HIDE DEF m
    <3>5. handle_unusual(m, t).msg = m \/ handle_unusual(m, t).msg = [m EXCEPT !.unknown = Append(m.unknown, t)]
      BY DEF handle_unusual
    <3>6. QED
      BY <2>2, <3>4, <3>5 DEF m
  <2>4. CASE t.tag = 0 \/ ~Skippable(t)
    <3> HIDE DEF m
    <3>1. handle_unusual(m, t).msg = m
      BY <2>4 DEF handle_unusual
    <3>2. QED
      BY <2>2, <3>1 DEF m
  <2>5. QED
    BY <2>3, <2>4
<1>4. QED
  BY <1>2, <1>3

(* A token that the class writes sets the field it was written from. *)
LEMMA OutReads ==
  ASSUME class = "PackHeaderOut", NEW m
  PROVE  /\ \A v \in Seq(Nat) : Turn(Reading(m), Token(10, v)) = Reading(Out!set_locKey(m, v))
         /\ \A v \in Nat : Turn(Reading(m), Token(16, v)) = Reading(Out!set_sentFromID(m, v))
<1>0. \A t : FieldOf(m, t) = Out!Field(m, t)
  BY DEF FieldOf
<1>1. ASSUME NEW v \in Seq(Nat) PROVE Turn(Reading(m), Token(10, v)) = Reading(Out!set_locKey(m, v))
  <2> DEFINE t == Token(10, v)
             field == Out!Field(m, t)
  <2>1. t.tag = 10 /\ t.val = v /\ t.whole = TRUE
    BY DEF Token
  <2> HIDE DEF t
  <2>2. field.msg = Out!set_locKey(m, v) /\ field.known = TRUE /\ field.ok = TRUE
    <3>1. FieldIs(field, Out!set_locKey(m, v), TRUE)
      BY <2>1, OutFields
    <3>2. QED
      BY <3>1 DEF FieldIs
  <2>3. FieldOf(m, t) = field
    BY <1>0
  <2> HIDE DEF field
  <2>4. Turn(Reading(m), t) = Reading(field.msg)
    BY <2>2, <2>3 DEF Turn, mergeToken, Reading
  <2>5. QED
    BY <2>2, <2>4 DEF t
<1>2. ASSUME NEW v \in Nat PROVE Turn(Reading(m), Token(16, v)) = Reading(Out!set_sentFromID(m, v))
  <2> DEFINE t == Token(16, v)
             field == Out!Field(m, t)
  <2>1. t.tag = 16 /\ t.val = v /\ t.whole = TRUE
    BY DEF Token
  <2> HIDE DEF t
  <2>2. field.msg = Out!set_sentFromID(m, v) /\ field.known = TRUE /\ field.ok = TRUE
    <3>1. FieldIs(field, Out!set_sentFromID(m, v), TRUE)
      BY <2>1, OutFields
    <3>2. QED
      BY <3>1 DEF FieldIs
  <2>3. FieldOf(m, t) = field
    BY <1>0
  <2> HIDE DEF field
  <2>4. Turn(Reading(m), t) = Reading(field.msg)
    BY <2>2, <2>3 DEF Turn, mergeToken, Reading
  <2>5. QED
    BY <2>2, <2>4 DEF t
<1>3. QED
  BY <1>1, <1>2

LEMMA OutWritten ==
  ASSUME NEW n, OutMessage(n)
  PROVE  /\ Token(10, n.locKey) \in Measurable
         /\ Token(16, n.sentFromID) \in Measurable
         /\ n.unknown \in Seq(Measurable)
<1>1. n.locKey \in Seq(Nat) /\ n.sentFromID \in Nat
  BY DEF OutMessage, OutRecords
<1>2. n.unknown \in Seq(Others({10, 16}))
  BY DEF OutMessage, OutRecords
<1>3. n.unknown \in Seq(Measurable)
  BY OthersMeasurable DEF OutMessage, OutRecords
<1>4. QED
  BY <1>1, <1>2, <1>3, WrittenNumber, WrittenString

(* To parse what a message is written as is to merge the message. *)
LEMMA OutParsed ==
  ASSUME class = "PackHeaderOut", NEW m, OutMessage(m), NEW n, OutMessage(n)
  PROVE  Merged(m, Out!SerializeWithCachedSizes(n)) = Reading(Out!MergeFrom(m, n))
<1> DEFINE p1 == IF "locKey" \in n.has THEN <<Token(10, n.locKey)>> ELSE <<>>
           m1 == IF "locKey" \in n.has THEN Out!set_locKey(m, n.locKey) ELSE m
           p2 == IF "sentFromID" \in n.has THEN <<Token(16, n.sentFromID)>> ELSE <<>>
           m2 == IF "sentFromID" \in n.has THEN Out!set_sentFromID(m1, n.sentFromID) ELSE m1
<1>0. /\ class \in Classes /\ n.unknown \in Seq(Others({10, 16}))
      /\ n.locKey \in Seq(Nat) /\ n.sentFromID \in Nat
  BY DEF Classes, OutMessage, OutRecords
<1>1. p1 \in Seq(Measurable) /\ Merged(m, p1) = Reading(m1) /\ OutMessage(m1)
  <2>1. CASE "locKey" \in n.has
    <3>1. Merged(m, <<Token(10, n.locKey)>>) = Reading(Out!set_locKey(m, n.locKey))
      BY <1>0, MergedOne, OutReads
    <3>2. OutMessage(Out!set_locKey(m, n.locKey))
      BY <1>0, OutSets
    <3>3. <<Token(10, n.locKey)>> \in Seq(Measurable)
      BY OutWritten
    <3>4. QED
      BY <2>1, <3>1, <3>2, <3>3
  <2>2. CASE "locKey" \notin n.has
    <3>1. Merged(m, <<>>) = Reading(m) /\ <<>> \in Seq(Measurable)
      BY <1>0, MergedEmpty
    <3>2. QED
      BY <2>2, <3>1
  <2>3. QED
    BY <2>1, <2>2
<1>2. p2 \in Seq(Measurable) /\ Merged(m1, p2) = Reading(m2) /\ OutMessage(m2)
  <2>1. CASE "sentFromID" \in n.has
    <3>1. Merged(m1, <<Token(16, n.sentFromID)>>) = Reading(Out!set_sentFromID(m1, n.sentFromID))
      BY <1>0, MergedOne, OutReads
    <3>2. OutMessage(Out!set_sentFromID(m1, n.sentFromID))
      BY <1>0, <1>1, OutSets
    <3>3. <<Token(16, n.sentFromID)>> \in Seq(Measurable)
      BY OutWritten
    <3>4. QED
      BY <2>1, <3>1, <3>2, <3>3
  <2>2. CASE "sentFromID" \notin n.has
    <3>1. Merged(m1, <<>>) = Reading(m1) /\ <<>> \in Seq(Measurable)
      BY <1>0, MergedEmpty
    <3>2. QED
      BY <2>2, <3>1, <1>1
  <2>3. QED
    BY <2>1, <2>2
<1>3. /\ m2.has = m.has \cup n.has
      /\ m2.locKey = IF "locKey" \in n.has THEN n.locKey ELSE m.locKey
      /\ m2.sentFromID = IF "sentFromID" \in n.has THEN n.sentFromID ELSE m.sentFromID
      /\ m2.unknown = m.unknown
  BY DEF OutMessage, OutRecords, Out!set_locKey, Out!set_sentFromID, Out!mutable_locKey
<1> HIDE DEF p1, m1, p2, m2
<1>4. n.unknown \in Seq(Measurable) /\ Merged(m2, n.unknown) = Reading(Extended(m2, n.unknown))
  <2>1. m2 = [x \in DOMAIN m2 |-> m2[x]] /\ "unknown" \in DOMAIN m2
    BY <1>2 DEF OutMessage, OutRecords
  <2>2. m2.unknown \in Seq(Others({10, 16}))
    BY <1>2 DEF OutMessage, OutRecords
  <2>3. \A r : \A t \in Others({10, 16}) : FieldOf(r, t) = Unusual(r)
    BY OutUnknown
  <2>4. Merged(m2, n.unknown) = Reading(Extended(m2, n.unknown))
    BY <1>0, <2>1, <2>2, <2>3, OthersParsed
  <2>5. QED
    BY <2>4, OutWritten
<1>5. Merged(m, p1 \o p2 \o n.unknown) = Reading(Extended(m2, n.unknown))
  <2>1. Merged(m, p1 \o p2) = Reading(m2) /\ p1 \o p2 \in Seq(Measurable)
    <3>1. PICK a \in Seq(Measurable) : a = p1
      BY <1>1
    <3>2. Merged(m, a) = Reading(m1)
      BY <1>1, <3>1
    <3>3. Merged(m, a \o p2) = Reading(m2) /\ a \o p2 \in Seq(Measurable)
      BY <1>0, <1>2, <3>2, MergedConcat
    <3>4. QED
      BY <3>1, <3>3
  <2>2. Merged(m, p1 \o p2 \o n.unknown) = Reading(Extended(m2, n.unknown))
    <3>1. PICK a \in Seq(Measurable) : a = p1 \o p2
      BY <2>1
    <3>2. Merged(m, a) = Reading(m2)
      BY <2>1, <3>1
    <3>3. Merged(m, a \o n.unknown) = Reading(Extended(m2, n.unknown)) /\ a \o n.unknown \in Seq(Measurable)
      BY <1>0, <1>4, <3>2, MergedConcat
    <3>4. QED
      BY <3>1, <3>3
  <2>3. QED
    BY <2>2
<1>6. Out!SerializeWithCachedSizes(n) = p1 \o p2 \o n.unknown
  BY DEF Out!SerializeWithCachedSizes, Out!Token, Token, p1, p2
<1>7. Extended(m2, n.unknown) = Out!MergeFrom(m, n)
  <2> DEFINE r == Extended(m2, n.unknown)
             merged == Out!MergeFrom(m, n)
  <2>1. m2.unknown \o n.unknown \in Seq(Others({10, 16}))
    BY <1>0, <1>2 DEF OutMessage, OutRecords
  <2>2. r \in OutRecords
    BY <2>1, <1>2, OutSets DEF Extended, OutMessage
  <2>3. /\ r.has = m2.has /\ r.locKey = m2.locKey /\ r.sentFromID = m2.sentFromID
        /\ r.unknown = m2.unknown \o n.unknown
    BY <1>2 DEF Extended, OutMessage, OutRecords
  <2>4. merged \in OutRecords
    BY OutMerges DEF OutMessage
  <2>5. /\ merged.has = m.has \cup n.has /\ merged.unknown = m.unknown \o n.unknown
        /\ merged.locKey = IF "locKey" \in n.has THEN n.locKey ELSE m.locKey
        /\ merged.sentFromID = IF "sentFromID" \in n.has THEN n.sentFromID ELSE m.sentFromID
    BY DEF Out!MergeFrom
  <2> HIDE DEF r, merged
  <2>6. r = merged
    BY <1>3, <2>2, <2>3, <2>4, <2>5, OutEqual
  <2>7. QED
    BY <2>6 DEF r, merged
<1>8. QED
  BY <1>5, <1>6, <1>7

(* ByteSize is the size of what is written. *)
LEMMA OutMeasured ==
  ASSUME NEW n, OutMessage(n)
  PROVE  /\ Out!SerializeWithCachedSizes(n) \in Seq(Measurable)
         /\ Out!ByteSize(n) = WireSize(Out!SerializeWithCachedSizes(n))
<1> DEFINE p1 == IF "locKey" \in n.has THEN <<Token(10, n.locKey)>> ELSE <<>>
           s1 == IF "locKey" \in n.has THEN 1 + StringSize(n.locKey) ELSE 0
           p2 == IF "sentFromID" \in n.has THEN <<Token(16, n.sentFromID)>> ELSE <<>>
           s2 == IF "sentFromID" \in n.has THEN 1 + UInt32Size(n.sentFromID) ELSE 0
<1>0. n.locKey \in Seq(Nat) /\ n.sentFromID \in Nat
  BY DEF OutMessage, OutRecords
<1>1. p1 \in Seq(Measurable) /\ WireSize(p1) = s1
  <2>1. CASE "locKey" \in n.has
    <3>1. WireSize(<<Token(10, n.locKey)>>) = s1
      BY <1>0, <2>1, WrittenString
    <3>2. QED
      BY <2>1, <3>1, OutWritten
  <2>2. CASE "locKey" \notin n.has
    <3>1. <<>> \in Seq(Measurable)
      OBVIOUS
    <3>2. QED
      BY <2>2, <3>1, WireSteps
  <2>3. QED
    BY <2>1, <2>2
<1>2. p2 \in Seq(Measurable) /\ WireSize(p2) = s2
  <2>1. CASE "sentFromID" \in n.has
    <3>1. WireSize(<<Token(16, n.sentFromID)>>) = s2
      BY <1>0, <2>1, WrittenNumber
    <3>2. QED
      BY <2>1, <3>1, OutWritten
  <2>2. CASE "sentFromID" \notin n.has
    <3>1. <<>> \in Seq(Measurable)
      OBVIOUS
    <3>2. QED
      BY <2>2, <3>1, WireSteps
  <2>3. QED
    BY <2>1, <2>2
<1>3. n.unknown \in Seq(Measurable)
  BY OutWritten
<1>4. Out!ByteSize(n) = s1 + s2 + WireSize(n.unknown)
  BY OutSizes DEF Out!ByteSize
<1>5. Out!SerializeWithCachedSizes(n) = p1 \o p2 \o n.unknown
  BY DEF Out!SerializeWithCachedSizes, Out!Token, Token
<1> HIDE DEF p1, p2, s1, s2
<1>6. /\ p1 \o p2 \in Seq(Measurable) /\ WireSize(p1) \in Nat /\ WireSize(p2) \in Nat
      /\ WireSize(p1 \o p2) = WireSize(p1) + WireSize(p2)
  BY <1>1, <1>2, WireJoin
<1>7. /\ p1 \o p2 \o n.unknown \in Seq(Measurable) /\ WireSize(p1 \o p2) \in Nat /\ WireSize(n.unknown) \in Nat
      /\ WireSize(p1 \o p2 \o n.unknown) = WireSize(p1 \o p2) + WireSize(n.unknown)
  BY <1>2, <1>3, <1>6, WireJoin
<1>8. QED
  BY <1>1, <1>2, <1>3, <1>4, <1>5, <1>6, <1>7

--------------------------------------------------------------------------------
(* PackA0 *)

A0Records ==
  [has : SUBSET {"username"}, username : Seq(Nat),
   unknown : Seq(Others({10}))]

(* A field without its bit has its default value. *)
A0Message(m) ==
  /\ m \in A0Records
  /\ "username" \notin m.has => m.username = <<>>

LEMMA A0Equal ==
  ASSUME NEW m \in A0Records, NEW n \in A0Records,
         m.has = n.has, m.username = n.username, m.unknown = n.unknown
  PROVE  m = n
<1>1. m = [has |-> m.has, username |-> m.username, unknown |-> m.unknown]
  BY DEF A0Records
<1>2. n = [has |-> n.has, username |-> n.username, unknown |-> n.unknown]
  BY DEF A0Records
<1>3. QED
  BY <1>1, <1>2

LEMMA A0IsNew == A0Message(A0!New)
<1>1. <<>> \in Seq(Nat) /\ <<>> \in Seq(Others({10}))
  OBVIOUS
<1>2. QED
  BY <1>1 DEF A0Message, A0Records, A0!New

LEMMA A0Cleared ==
  ASSUME NEW m, A0Message(m)
  PROVE  A0!Clear(m) = A0!New
<1> DEFINE r == A0!Clear(m)
           Names == {"has", "username", "unknown"}
<1>1. /\ r.has = {} /\ r.username = <<>>
      /\ r.unknown = <<>>
  BY DEF A0Message, A0Records, A0!New, A0!Clear
<1>2. DOMAIN r = Names /\ r = [x \in Names |-> r[x]]
  BY DEF A0Message, A0Records, A0!New, A0!Clear
<1>3. DOMAIN A0!New = Names /\ A0!New = [x \in Names |-> A0!New[x]]
  BY DEF A0!New
<1>4. QED
  BY <1>1, <1>2, <1>3 DEF A0!New

LEMMA A0Merges ==
  ASSUME NEW m, A0Message(m), NEW n, A0Message(n)
  PROVE  A0Message(A0!MergeFrom(m, n))
  BY DEF A0Message, A0Records, A0!MergeFrom

LEMMA A0MergesNew ==
  ASSUME NEW m, A0Message(m)
  PROVE  A0!MergeFrom(A0!New, m) = m
<1> DEFINE r == A0!MergeFrom(A0!New, m)
<1>1. r.has = m.has /\ r.username = m.username
  BY DEF A0Message, A0Records, A0!MergeFrom, A0!New
<1>2. <<>> \o m.unknown = m.unknown
  BY EmptyConcat DEF A0Message, A0Records
<1>3. r.unknown = m.unknown
  BY <1>2 DEF A0!MergeFrom, A0!New
<1>4. r \in A0Records /\ m \in A0Records
  BY A0IsNew, A0Merges DEF A0Message
<1> HIDE DEF r
<1>5. r = m
  BY <1>1, <1>3, <1>4, A0Equal
<1>6. QED
  BY <1>5 DEF r

(* The setters keep the bits true to the fields. *)
LEMMA A0Sets ==
  ASSUME NEW m, A0Message(m)
  PROVE  /\ \A v \in Seq(Nat) : A0Message(A0!set_username(m, v))
         /\ \A v \in Seq(Others({10})) : A0Message([m EXCEPT !.unknown = v])
<1>1. ASSUME NEW v \in Seq(Nat) PROVE A0Message(A0!set_username(m, v))
  BY DEF A0Message, A0Records, A0!set_username, A0!mutable_username
<1>2. ASSUME NEW v \in Seq(Others({10})) PROVE A0Message([m EXCEPT !.unknown = v])
  BY DEF A0Message, A0Records
<1>3. QED
  BY <1>1, <1>2

LEMMA A0AccessedIs ==
  ASSUME NEW m, A0Message(m), NEW n \in A0!Accessed(m, Strings)
  PROVE  A0Message(n)
<1>0. <<>> \in Seq(Nat)
  OBVIOUS
<1>1. A0Message(A0!mutable_username(m))
  BY <1>0 DEF A0Message, A0Records, A0!mutable_username
<1>2. A0Message(A0!clear_username(m))
  BY <1>0 DEF A0Message, A0Records, A0!clear_username
<1>3. A0Message(A0!release_username(m))
  BY <1>0 DEF A0Message, A0Records, A0!release_username, A0!clear_username
<1>4. Strings \subseteq Seq(Nat) /\ Numbers \subseteq Nat
  BY FieldsAssumption
<1>5. QED
  BY <1>1, <1>2, <1>3, <1>4, A0Sets DEF A0!Accessed

(* What the class does with a token of each of its tags, and of any other. *)
LEMMA A0Fields ==
  ASSUME NEW m, NEW t
  PROVE  /\ t.tag = 10 =>
              FieldIs(A0!Field(m, t), A0!set_username(m, t.val), t.whole)
         /\ t.tag \notin {10} => A0!Field(m, t) = A0!Unusual(m)
<1>1. t.tag = 10 =>
        FieldIs(A0!Field(m, t), A0!set_username(m, t.val), t.whole)
  <2>1. t.tag = 10 => A0!Field(m, t) = [A0!Stored(A0!set_username(m, t.val)) EXCEPT !.ok = t.whole]
    BY DEF A0!Field
  <2>2. QED
    BY <2>1 DEF FieldIs, A0!Stored, A0!Failed
<1>2. t.tag \notin {10} => A0!Field(m, t) = A0!Unusual(m)
  BY DEF A0!Field
<1>3. QED
  BY <1>1, <1>2

LEMMA A0Unknown ==
  ASSUME class = "PackA0"
  PROVE  \A m : \A t \in Others({10}) : FieldOf(m, t) = Unusual(m)
<1> SUFFICES ASSUME NEW m, NEW t \in Others({10}) PROVE FieldOf(m, t) = Unusual(m)
  OBVIOUS
<1>1. FieldOf(m, t) = A0!Field(m, t)
  BY DEF FieldOf
<1>2. t.tag \notin {10}
  BY DEF Others
<1>3. QED
  BY <1>1, <1>2, A0Fields DEF A0!Unusual, Unusual

(* A turn of the parser, whatever the token, leaves a message of the class. *)
LEMMA A0Turns ==
  ASSUME class = "PackA0", NEW s, A0Message(s.msg), NEW t \in Tokens
  PROVE  A0Message(Turn(s, t).msg)
<1> DEFINE m == s.msg
           field == A0!Field(m, t)
<1>1. FieldOf(m, t) = field
  BY DEF FieldOf
<1>2. CASE t.tag \in {10}
  <2>1. CASE t.tag = 10
    <3>1. t.val \in Seq(Nat)
      BY <2>1 DEF Tokens, IsToken, WireType, LENGTH
    <3>2. field.msg = A0!set_username(m, t.val) /\ field.known = TRUE
      <4>1. FieldIs(field, A0!set_username(m, t.val), t.whole)
        BY <2>1, A0Fields
      <4>2. QED
        BY <4>1 DEF FieldIs
    <3>3. A0Message(field.msg)
      BY <3>1, <3>2, A0Sets
    <3> HIDE DEF m, field
    <3>4. QED
      BY <1>1, <3>2, <3>3 DEF Turn, mergeToken, m
  <2>2. QED
    BY <1>2, <2>1
<1>3. CASE t.tag \notin {10}
  <2>1. field = Unusual(m)
    BY <1>3, A0Fields DEF A0!Unusual, Unusual
  <2>2. Turn(s, t) = s \/ Turn(s, t) = handle_unusual(m, t)
    BY <1>1, <2>1 DEF Turn, mergeToken, Unusual
  <2>3. CASE t.tag # 0 /\ Skippable(t)
    <3>1. t \in Others({10})
      BY <1>3, <2>3 DEF Others
    <3>2. m.unknown \in Seq(Others({10}))
      BY DEF A0Message, A0Records
    <3>3. Append(m.unknown, t) \in Seq(Others({10}))
      BY <3>1, <3>2
    <3>4. A0Message([m EXCEPT !.unknown = Append(m.unknown, t)])
      BY <3>3, A0Sets
    <3> HIDE DEF m
    <3>5. handle_unusual(m, t).msg = m \/ handle_unusual(m, t).msg = [m EXCEPT !.unknown = Append(m.unknown, t)]
      BY DEF handle_unusual
    <3>6. QED
      BY <2>2, <3>4, <3>5 DEF m
  <2>4. CASE t.tag = 0 \/ ~Skippable(t)
    <3> HIDE DEF m
    <3>1. handle_unusual(m, t).msg = m
      BY <2>4 DEF handle_unusual
    <3>2. QED
      BY <2>2, <3>1 DEF m
  <2>5. QED
    BY <2>3, <2>4
<1>4. QED
  BY <1>2, <1>3

(* A token that the class writes sets the field it was written from. *)
LEMMA A0Reads ==
  ASSUME class = "PackA0", NEW m
  PROVE  /\ \A v \in Seq(Nat) : Turn(Reading(m), Token(10, v)) = Reading(A0!set_username(m, v))
<1>0. \A t : FieldOf(m, t) = A0!Field(m, t)
  BY DEF FieldOf
<1>1. ASSUME NEW v \in Seq(Nat) PROVE Turn(Reading(m), Token(10, v)) = Reading(A0!set_username(m, v))
  <2> DEFINE t == Token(10, v)
             field == A0!Field(m, t)
  <2>1. t.tag = 10 /\ t.val = v /\ t.whole = TRUE
    BY DEF Token
  <2> HIDE DEF t
  <2>2. field.msg = A0!set_username(m, v) /\ field.known = TRUE /\ field.ok = TRUE
    <3>1. FieldIs(field, A0!set_username(m, v), TRUE)
      BY <2>1, A0Fields
    <3>2. QED
      BY <3>1 DEF FieldIs
  <2>3. FieldOf(m, t) = field
    BY <1>0
  <2> HIDE DEF field
  <2>4. Turn(Reading(m), t) = Reading(field.msg)
    BY <2>2, <2>3 DEF Turn, mergeToken, Reading
  <2>5. QED
    BY <2>2, <2>4 DEF t
<1>2. QED
  BY <1>1

LEMMA A0Written ==
  ASSUME NEW n, A0Message(n)
  PROVE  /\ Token(10, n.username) \in Measurable
         /\ n.unknown \in Seq(Measurable)
<1>1. n.username \in Seq(Nat)
  BY DEF A0Message, A0Records
<1>2. n.unknown \in Seq(Others({10}))
  BY DEF A0Message, A0Records
<1>3. n.unknown \in Seq(Measurable)
  BY OthersMeasurable DEF A0Message, A0Records
<1>4. QED
  BY <1>1, <1>2, <1>3, WrittenNumber, WrittenString

(* To parse what a message is written as is to merge the message. *)
LEMMA A0Parsed ==
  ASSUME class = "PackA0", NEW m, A0Message(m), NEW n, A0Message(n)
  PROVE  Merged(m, A0!SerializeWithCachedSizes(n)) = Reading(A0!MergeFrom(m, n))
<1> DEFINE p1 == IF "username" \in n.has THEN <<Token(10, n.username)>> ELSE <<>>
           m1 == IF "username" \in n.has THEN A0!set_username(m, n.username) ELSE m
<1>0. /\ class \in Classes /\ n.unknown \in Seq(Others({10}))
      /\ n.username \in Seq(Nat)
  BY DEF Classes, A0Message, A0Records
<1>1. p1 \in Seq(Measurable) /\ Merged(m, p1) = Reading(m1) /\ A0Message(m1)
  <2>1. CASE "username" \in n.has
    <3>1. Merged(m, <<Token(10, n.username)>>) = Reading(A0!set_username(m, n.username))
      BY <1>0, MergedOne, A0Reads
    <3>2. A0Message(A0!set_username(m, n.username))
      BY <1>0, A0Sets
    <3>3. <<Token(10, n.username)>> \in Seq(Measurable)
      BY A0Written
    <3>4. QED
      BY <2>1, <3>1, <3>2, <3>3
  <2>2. CASE "username" \notin n.has
    <3>1. Merged(m, <<>>) = Reading(m) /\ <<>> \in Seq(Measurable)
      BY <1>0, MergedEmpty
    <3>2. QED
      BY <2>2, <3>1
  <2>3. QED
    BY <2>1, <2>2
<1>2. /\ m1.has = m.has \cup n.has
      /\ m1.username = IF "username" \in n.has THEN n.username ELSE m.username
      /\ m1.unknown = m.unknown
  BY DEF A0Message, A0Records, A0!set_username, A0!mutable_username
<1> HIDE DEF p1, m1
<1>3. n.unknown \in Seq(Measurable) /\ Merged(m1, n.unknown) = Reading(Extended(m1, n.unknown))
  <2>1. m1 = [x \in DOMAIN m1 |-> m1[x]] /\ "unknown" \in DOMAIN m1
    BY <1>1 DEF A0Message, A0Records
  <2>2. m1.unknown \in Seq(Others({10}))
    BY <1>1 DEF A0Message, A0Records
  <2>3. \A r : \A t \in Others({10}) : FieldOf(r, t) = Unusual(r)
    BY A0Unknown
  <2>4. Merged(m1, n.unknown) = Reading(Extended(m1, n.unknown))
    BY <1>0, <2>1, <2>2, <2>3, OthersParsed
  <2>5. QED
    BY <2>4, A0Written
<1>4. Merged(m, p1 \o n.unknown) = Reading(Extended(m1, n.unknown))
  <2>1. QED
    BY <1>0, <1>1, <1>3, MergedConcat
<1>5. A0!SerializeWithCachedSizes(n) = p1 \o n.unknown
  BY DEF A0!SerializeWithCachedSizes, A0!Token, Token, p1
<1>6. Extended(m1, n.unknown) = A0!MergeFrom(m, n)
  <2> DEFINE r == Extended(m1, n.unknown)
             merged == A0!MergeFrom(m, n)
  <2>1. m1.unknown \o n.unknown \in Seq(Others({10}))
    BY <1>0, <1>1 DEF A0Message, A0Records
  <2>2. r \in A0Records
    BY <2>1, <1>1, A0Sets DEF Extended, A0Message
  <2>3. /\ r.has = m1.has /\ r.username = m1.username
        /\ r.unknown = m1.unknown \o n.unknown
    BY <1>1 DEF Extended, A0Message, A0Records
  <2>4. merged \in A0Records
    BY A0Merges DEF A0Message
  <2>5. /\ merged.has = m.has \cup n.has /\ merged.unknown = m.unknown \o n.unknown
        /\ merged.username = IF "username" \in n.has THEN n.username ELSE m.username
    BY DEF A0!MergeFrom
  <2> HIDE DEF r, merged
  <2>6. r = merged
    BY <1>2, <2>2, <2>3, <2>4, <2>5, A0Equal
  <2>7. QED
    BY <2>6 DEF r, merged
<1>7. QED
  BY <1>4, <1>5, <1>6

(* ByteSize is the size of what is written. *)
LEMMA A0Measured ==
  ASSUME NEW n, A0Message(n)
  PROVE  /\ A0!SerializeWithCachedSizes(n) \in Seq(Measurable)
         /\ A0!ByteSize(n) = WireSize(A0!SerializeWithCachedSizes(n))
<1> DEFINE p1 == IF "username" \in n.has THEN <<Token(10, n.username)>> ELSE <<>>
           s1 == IF "username" \in n.has THEN 1 + StringSize(n.username) ELSE 0
<1>0. n.username \in Seq(Nat)
  BY DEF A0Message, A0Records
<1>1. p1 \in Seq(Measurable) /\ WireSize(p1) = s1
  <2>1. CASE "username" \in n.has
    <3>1. WireSize(<<Token(10, n.username)>>) = s1
      BY <1>0, <2>1, WrittenString
    <3>2. QED
      BY <2>1, <3>1, A0Written
  <2>2. CASE "username" \notin n.has
    <3>1. <<>> \in Seq(Measurable)
      OBVIOUS
    <3>2. QED
      BY <2>2, <3>1, WireSteps
  <2>3. QED
    BY <2>1, <2>2
<1>2. n.unknown \in Seq(Measurable)
  BY A0Written
<1>3. A0!ByteSize(n) = s1 + WireSize(n.unknown)
  BY A0Sizes DEF A0!ByteSize
<1>4. A0!SerializeWithCachedSizes(n) = p1 \o n.unknown
  BY DEF A0!SerializeWithCachedSizes, A0!Token, Token
<1> HIDE DEF p1, s1
<1>5. /\ p1 \o n.unknown \in Seq(Measurable) /\ WireSize(p1) \in Nat /\ WireSize(n.unknown) \in Nat
      /\ WireSize(p1 \o n.unknown) = WireSize(p1) + WireSize(n.unknown)
  BY <1>1, <1>2, WireJoin
<1>6. QED
  BY <1>1, <1>2, <1>3, <1>4, <1>5

--------------------------------------------------------------------------------
(* PackA1 *)

A1Records ==
  [has : SUBSET {"id"}, id : Nat,
   unknown : Seq(Others({8}))]

(* A field without its bit has its default value. *)
A1Message(m) ==
  /\ m \in A1Records
  /\ "id" \notin m.has => m.id = 0

LEMMA A1Equal ==
  ASSUME NEW m \in A1Records, NEW n \in A1Records,
         m.has = n.has, m.id = n.id, m.unknown = n.unknown
  PROVE  m = n
<1>1. m = [has |-> m.has, id |-> m.id, unknown |-> m.unknown]
  BY DEF A1Records
<1>2. n = [has |-> n.has, id |-> n.id, unknown |-> n.unknown]
  BY DEF A1Records
<1>3. QED
  BY <1>1, <1>2

LEMMA A1IsNew == A1Message(A1!New)
<1>1. <<>> \in Seq(Nat) /\ <<>> \in Seq(Others({8}))
  OBVIOUS
<1>2. QED
  BY <1>1 DEF A1Message, A1Records, A1!New

LEMMA A1Cleared ==
  ASSUME NEW m, A1Message(m)
  PROVE  A1!Clear(m) = A1!New
<1> DEFINE r == A1!Clear(m)
           Names == {"has", "id", "unknown"}
<1>1. /\ r.has = {} /\ r.id = 0
      /\ r.unknown = <<>>
  BY DEF A1Message, A1Records, A1!New, A1!Clear
<1>2. DOMAIN r = Names /\ r = [x \in Names |-> r[x]]
  BY DEF A1Message, A1Records, A1!New, A1!Clear
<1>3. DOMAIN A1!New = Names /\ A1!New = [x \in Names |-> A1!New[x]]
  BY DEF A1!New
<1>4. QED
  BY <1>1, <1>2, <1>3 DEF A1!New

LEMMA A1Merges ==
  ASSUME NEW m, A1Message(m), NEW n, A1Message(n)
  PROVE  A1Message(A1!MergeFrom(m, n))
  BY DEF A1Message, A1Records, A1!MergeFrom

LEMMA A1MergesNew ==
  ASSUME NEW m, A1Message(m)
  PROVE  A1!MergeFrom(A1!New, m) = m
<1> DEFINE r == A1!MergeFrom(A1!New, m)
<1>1. r.has = m.has /\ r.id = m.id
  BY DEF A1Message, A1Records, A1!MergeFrom, A1!New
<1>2. <<>> \o m.unknown = m.unknown
  BY EmptyConcat DEF A1Message, A1Records
<1>3. r.unknown = m.unknown
  BY <1>2 DEF A1!MergeFrom, A1!New
<1>4. r \in A1Records /\ m \in A1Records
  BY A1IsNew, A1Merges DEF A1Message
<1> HIDE DEF r
<1>5. r = m
  BY <1>1, <1>3, <1>4, A1Equal
<1>6. QED
  BY <1>5 DEF r

(* The setters keep the bits true to the fields. *)
LEMMA A1Sets ==
  ASSUME NEW m, A1Message(m)
  PROVE  /\ \A v \in Nat : A1Message(A1!set_id(m, v))
         /\ \A v \in Seq(Others({8})) : A1Message([m EXCEPT !.unknown = v])
<1>1. ASSUME NEW v \in Nat PROVE A1Message(A1!set_id(m, v))
  BY DEF A1Message, A1Records, A1!set_id
<1>2. ASSUME NEW v \in Seq(Others({8})) PROVE A1Message([m EXCEPT !.unknown = v])
  BY DEF A1Message, A1Records
<1>3. QED
  BY <1>1, <1>2

LEMMA A1AccessedIs ==
  ASSUME NEW m, A1Message(m), NEW n \in A1!Accessed(m, Numbers)
  PROVE  A1Message(n)
<1>0. <<>> \in Seq(Nat)
  OBVIOUS
<1>1. A1Message(A1!clear_id(m))
  BY <1>0 DEF A1Message, A1Records, A1!clear_id
<1>2. Strings \subseteq Seq(Nat) /\ Numbers \subseteq Nat
  BY FieldsAssumption
<1>3. QED
  BY <1>1, <1>2, A1Sets DEF A1!Accessed

(* What the class does with a token of each of its tags, and of any other. *)
LEMMA A1Fields ==
  ASSUME NEW m, NEW t
  PROVE  /\ t.tag = 8 /\ t.whole => FieldIs(A1!Field(m, t), A1!set_id(m, t.val), TRUE)
         /\ t.tag = 8 /\ ~t.whole => FieldIs(A1!Field(m, t), m, FALSE)
         /\ t.tag \notin {8} => A1!Field(m, t) = A1!Unusual(m)
<1>1. t.tag = 8 /\ t.whole =>
        FieldIs(A1!Field(m, t), A1!set_id(m, t.val), TRUE)
  <2>1. t.tag = 8 /\ t.whole => A1!Field(m, t) = A1!Stored(A1!set_id(m, t.val))
    BY DEF A1!Field
  <2>2. QED
    BY <2>1 DEF FieldIs, A1!Stored, A1!Failed
<1>2. t.tag = 8 /\ ~t.whole =>
        FieldIs(A1!Field(m, t), m, FALSE)
  <2>1. t.tag = 8 /\ ~t.whole => A1!Field(m, t) = A1!Failed(m)
    BY DEF A1!Field
  <2>2. QED
    BY <2>1 DEF FieldIs, A1!Stored, A1!Failed
<1>3. t.tag \notin {8} => A1!Field(m, t) = A1!Unusual(m)
  BY DEF A1!Field
<1>4. QED
  BY <1>1, <1>2, <1>3

LEMMA A1Unknown ==
  ASSUME class = "PackA1"
  PROVE  \A m : \A t \in Others({8}) : FieldOf(m, t) = Unusual(m)
<1> SUFFICES ASSUME NEW m, NEW t \in Others({8}) PROVE FieldOf(m, t) = Unusual(m)
  OBVIOUS
<1>1. FieldOf(m, t) = A1!Field(m, t)
  BY DEF FieldOf
<1>2. t.tag \notin {8}
  BY DEF Others
<1>3. QED
  BY <1>1, <1>2, A1Fields DEF A1!Unusual, Unusual

(* A turn of the parser, whatever the token, leaves a message of the class. *)
LEMMA A1Turns ==
  ASSUME class = "PackA1", NEW s, A1Message(s.msg), NEW t \in Tokens
  PROVE  A1Message(Turn(s, t).msg)
<1> DEFINE m == s.msg
           field == A1!Field(m, t)
<1>1. FieldOf(m, t) = field
  BY DEF FieldOf
<1>2. CASE t.tag \in {8}
  <2>1. CASE t.tag = 8
    <3>1. t.val \in Nat
      BY <2>1 DEF Tokens, IsToken, WireType, LENGTH
    <3>2. (field.msg = A1!set_id(m, t.val) \/ field.msg = m) /\ field.known = TRUE
      <4>1. t.whole => FieldIs(field, A1!set_id(m, t.val), TRUE)
        BY <2>1, A1Fields
      <4>2. ~t.whole => FieldIs(field, m, FALSE)
        BY <2>1, A1Fields
      <4>3. QED
        BY <4>1, <4>2 DEF FieldIs
    <3>3. A1Message(field.msg)
      BY <3>1, <3>2, A1Sets
    <3> HIDE DEF m, field
    <3>4. QED
      BY <1>1, <3>2, <3>3 DEF Turn, mergeToken, m
  <2>2. QED
    BY <1>2, <2>1
<1>3. CASE t.tag \notin {8}
  <2>1. field = Unusual(m)
    BY <1>3, A1Fields DEF A1!Unusual, Unusual
  <2>2. Turn(s, t) = s \/ Turn(s, t) = handle_unusual(m, t)
    BY <1>1, <2>1 DEF Turn, mergeToken, Unusual
  <2>3. CASE t.tag # 0 /\ Skippable(t)
    <3>1. t \in Others({8})
      BY <1>3, <2>3 DEF Others
    <3>2. m.unknown \in Seq(Others({8}))
      BY DEF A1Message, A1Records
    <3>3. Append(m.unknown, t) \in Seq(Others({8}))
      BY <3>1, <3>2
    <3>4. A1Message([m EXCEPT !.unknown = Append(m.unknown, t)])
      BY <3>3, A1Sets
    <3> HIDE DEF m
    <3>5. handle_unusual(m, t).msg = m \/ handle_unusual(m, t).msg = [m EXCEPT !.unknown = Append(m.unknown, t)]
      BY DEF handle_unusual
    <3>6. QED
      BY <2>2, <3>4, <3>5 DEF m
  <2>4. CASE t.tag = 0 \/ ~Skippable(t)
    <3> HIDE DEF m
    <3>1. handle_unusual(m, t).msg = m
      BY <2>4 DEF handle_unusual
    <3>2. QED
      BY <2>2, <3>1 DEF m
  <2>5. QED
    BY <2>3, <2>4
<1>4. QED
  BY <1>2, <1>3

(* A token that the class writes sets the field it was written from. *)
LEMMA A1Reads ==
  ASSUME class = "PackA1", NEW m
  PROVE  /\ \A v \in Nat : Turn(Reading(m), Token(8, v)) = Reading(A1!set_id(m, v))
<1>0. \A t : FieldOf(m, t) = A1!Field(m, t)
  BY DEF FieldOf
<1>1. ASSUME NEW v \in Nat PROVE Turn(Reading(m), Token(8, v)) = Reading(A1!set_id(m, v))
  <2> DEFINE t == Token(8, v)
             field == A1!Field(m, t)
  <2>1. t.tag = 8 /\ t.val = v /\ t.whole = TRUE
    BY DEF Token
  <2> HIDE DEF t
  <2>2. field.msg = A1!set_id(m, v) /\ field.known = TRUE /\ field.ok = TRUE
    <3>1. FieldIs(field, A1!set_id(m, v), TRUE)
      BY <2>1, A1Fields
    <3>2. QED
      BY <3>1 DEF FieldIs
  <2>3. FieldOf(m, t) = field
    BY <1>0
  <2> HIDE DEF field
  <2>4. Turn(Reading(m), t) = Reading(field.msg)
    BY <2>2, <2>3 DEF Turn, mergeToken, Reading
  <2>5. QED
    BY <2>2, <2>4 DEF t
<1>2. QED
  BY <1>1

LEMMA A1Written ==
  ASSUME NEW n, A1Message(n)
  PROVE  /\ Token(8, n.id) \in Measurable
         /\ n.unknown \in Seq(Measurable)
<1>1. n.id \in Nat
  BY DEF A1Message, A1Records
<1>2. n.unknown \in Seq(Others({8}))
  BY DEF A1Message, A1Records
<1>3. n.unknown \in Seq(Measurable)
  BY OthersMeasurable DEF A1Message, A1Records
<1>4. QED
  BY <1>1, <1>2, <1>3, WrittenNumber, WrittenString

(* To parse what a message is written as is to merge the message. *)
LEMMA A1Parsed ==
  ASSUME class = "PackA1", NEW m, A1Message(m), NEW n, A1Message(n)
  PROVE  Merged(m, A1!SerializeWithCachedSizes(n)) = Reading(A1!MergeFrom(m, n))
<1> DEFINE p1 == IF "id" \in n.has THEN <<Token(8, n.id)>> ELSE <<>>
           m1 == IF "id" \in n.has THEN A1!set_id(m, n.id) ELSE m
<1>0. /\ class \in Classes /\ n.unknown \in Seq(Others({8}))
      /\ n.id \in Nat
  BY DEF Classes, A1Message, A1Records
<1>1. p1 \in Seq(Measurable) /\ Merged(m, p1) = Reading(m1) /\ A1Message(m1)
  <2>1. CASE "id" \in n.has
    <3>1. Merged(m, <<Token(8, n.id)>>) = Reading(A1!set_id(m, n.id))
      BY <1>0, MergedOne, A1Reads
    <3>2. A1Message(A1!set_id(m, n.id))
      BY <1>0, A1Sets
    <3>3. <<Token(8, n.id)>> \in Seq(Measurable)
      BY A1Written
    <3>4. QED
      BY <2>1, <3>1, <3>2, <3>3
  <2>2. CASE "id" \notin n.has
    <3>1. Merged(m, <<>>) = Reading(m) /\ <<>> \in Seq(Measurable)
      BY <1>0, MergedEmpty
    <3>2. QED
      BY <2>2, <3>1
  <2>3. QED
    BY <2>1, <2>2
<1>2. /\ m1.has = m.has \cup n.has
      /\ m1.id = IF "id" \in n.has THEN n.id ELSE m.id
      /\ m1.unknown = m.unknown
  BY DEF A1Message, A1Records, A1!set_id
<1> HIDE DEF p1, m1
<1>3. n.unknown \in Seq(Measurable) /\ Merged(m1, n.unknown) = Reading(Extended(m1, n.unknown))
  <2>1. m1 = [x \in DOMAIN m1 |-> m1[x]] /\ "unknown" \in DOMAIN m1
    BY <1>1 DEF A1Message, A1Records
  <2>2. m1.unknown \in Seq(Others({8}))
    BY <1>1 DEF A1Message, A1Records
  <2>3. \A r : \A t \in Others({8}) : FieldOf(r, t) = Unusual(r)
    BY A1Unknown
  <2>4. Merged(m1, n.unknown) = Reading(Extended(m1, n.unknown))
    BY <1>0, <2>1, <2>2, <2>3, OthersParsed
  <2>5. QED
    BY <2>4, A1Written
<1>4. Merged(m, p1 \o n.unknown) = Reading(Extended(m1, n.unknown))
  <2>1. QED
    BY <1>0, <1>1, <1>3, MergedConcat
<1>5. A1!SerializeWithCachedSizes(n) = p1 \o n.unknown
  BY DEF A1!SerializeWithCachedSizes, A1!Token, Token, p1
<1>6. Extended(m1, n.unknown) = A1!MergeFrom(m, n)
  <2> DEFINE r == Extended(m1, n.unknown)
             merged == A1!MergeFrom(m, n)
  <2>1. m1.unknown \o n.unknown \in Seq(Others({8}))
    BY <1>0, <1>1 DEF A1Message, A1Records
  <2>2. r \in A1Records
    BY <2>1, <1>1, A1Sets DEF Extended, A1Message
  <2>3. /\ r.has = m1.has /\ r.id = m1.id
        /\ r.unknown = m1.unknown \o n.unknown
    BY <1>1 DEF Extended, A1Message, A1Records
  <2>4. merged \in A1Records
    BY A1Merges DEF A1Message
  <2>5. /\ merged.has = m.has \cup n.has /\ merged.unknown = m.unknown \o n.unknown
        /\ merged.id = IF "id" \in n.has THEN n.id ELSE m.id
    BY DEF A1!MergeFrom
  <2> HIDE DEF r, merged
  <2>6. r = merged
    BY <1>2, <2>2, <2>3, <2>4, <2>5, A1Equal
  <2>7. QED
    BY <2>6 DEF r, merged
<1>7. QED
  BY <1>4, <1>5, <1>6

(* ByteSize is the size of what is written. *)
LEMMA A1Measured ==
  ASSUME NEW n, A1Message(n)
  PROVE  /\ A1!SerializeWithCachedSizes(n) \in Seq(Measurable)
         /\ A1!ByteSize(n) = WireSize(A1!SerializeWithCachedSizes(n))
<1> DEFINE p1 == IF "id" \in n.has THEN <<Token(8, n.id)>> ELSE <<>>
           s1 == IF "id" \in n.has THEN 1 + UInt32Size(n.id) ELSE 0
<1>0. n.id \in Nat
  BY DEF A1Message, A1Records
<1>1. p1 \in Seq(Measurable) /\ WireSize(p1) = s1
  <2>1. CASE "id" \in n.has
    <3>1. WireSize(<<Token(8, n.id)>>) = s1
      BY <1>0, <2>1, WrittenNumber
    <3>2. QED
      BY <2>1, <3>1, A1Written
  <2>2. CASE "id" \notin n.has
    <3>1. <<>> \in Seq(Measurable)
      OBVIOUS
    <3>2. QED
      BY <2>2, <3>1, WireSteps
  <2>3. QED
    BY <2>1, <2>2
<1>2. n.unknown \in Seq(Measurable)
  BY A1Written
<1>3. A1!ByteSize(n) = s1 + WireSize(n.unknown)
  BY A1Sizes DEF A1!ByteSize
<1>4. A1!SerializeWithCachedSizes(n) = p1 \o n.unknown
  BY DEF A1!SerializeWithCachedSizes, A1!Token, Token
<1> HIDE DEF p1, s1
<1>5. /\ p1 \o n.unknown \in Seq(Measurable) /\ WireSize(p1) \in Nat /\ WireSize(n.unknown) \in Nat
      /\ WireSize(p1 \o n.unknown) = WireSize(p1) + WireSize(n.unknown)
  BY <1>1, <1>2, WireJoin
<1>6. QED
  BY <1>1, <1>2, <1>3, <1>4, <1>5

--------------------------------------------------------------------------------
(* PackA2 *)

A2Records ==
  [has : SUBSET {"id", "userName"}, id : Nat, userName : Seq(Nat),
   unknown : Seq(Others({8, 18}))]

(* A field without its bit has its default value. *)
A2Message(m) ==
  /\ m \in A2Records
  /\ "id" \notin m.has => m.id = 0
  /\ "userName" \notin m.has => m.userName = <<>>

LEMMA A2Equal ==
  ASSUME NEW m \in A2Records, NEW n \in A2Records,
         m.has = n.has, m.id = n.id, m.userName = n.userName, m.unknown = n.unknown
  PROVE  m = n
<1>1. m = [has |-> m.has, id |-> m.id, userName |-> m.userName, unknown |-> m.unknown]
  BY DEF A2Records
<1>2. n = [has |-> n.has, id |-> n.id, userName |-> n.userName, unknown |-> n.unknown]
  BY DEF A2Records
<1>3. QED
  BY <1>1, <1>2

LEMMA A2IsNew == A2Message(A2!New)
<1>1. <<>> \in Seq(Nat) /\ <<>> \in Seq(Others({8, 18}))
  OBVIOUS
<1>2. QED
  BY <1>1 DEF A2Message, A2Records, A2!New

LEMMA A2Cleared ==
  ASSUME NEW m, A2Message(m)
  PROVE  A2!Clear(m) = A2!New
<1> DEFINE r == A2!Clear(m)
           Names == {"has", "id", "userName", "unknown"}
<1>1. /\ r.has = {} /\ r.id = 0 /\ r.userName = <<>>
      /\ r.unknown = <<>>
  BY DEF A2Message, A2Records, A2!New, A2!Clear
<1>2. DOMAIN r = Names /\ r = [x \in Names |-> r[x]]
  BY DEF A2Message, A2Records, A2!New, A2!Clear
<1>3. DOMAIN A2!New = Names /\ A2!New = [x \in Names |-> A2!New[x]]
  BY DEF A2!New
<1>4. QED
  BY <1>1, <1>2, <1>3 DEF A2!New

LEMMA A2Merges ==
  ASSUME NEW m, A2Message(m), NEW n, A2Message(n)
  PROVE  A2Message(A2!MergeFrom(m, n))
  BY DEF A2Message, A2Records, A2!MergeFrom

LEMMA A2MergesNew ==
  ASSUME NEW m, A2Message(m)
  PROVE  A2!MergeFrom(A2!New, m) = m
<1> DEFINE r == A2!MergeFrom(A2!New, m)
<1>1. r.has = m.has /\ r.id = m.id /\ r.userName = m.userName
  BY DEF A2Message, A2Records, A2!MergeFrom, A2!New
<1>2. <<>> \o m.unknown = m.unknown
  BY EmptyConcat DEF A2Message, A2Records
<1>3. r.unknown = m.unknown
  BY <1>2 DEF A2!MergeFrom, A2!New
<1>4. r \in A2Records /\ m \in A2Records
  BY A2IsNew, A2Merges DEF A2Message
<1> HIDE DEF r
<1>5. r = m
  BY <1>1, <1>3, <1>4, A2Equal
<1>6. QED
  BY <1>5 DEF r

(* The setters keep the bits true to the fields. *)
LEMMA A2Sets ==
  ASSUME NEW m, A2Message(m)
  PROVE  /\ \A v \in Nat : A2Message(A2!set_id(m, v))
         /\ \A v \in Seq(Nat) : A2Message(A2!set_userName(m, v))
         /\ \A v \in Seq(Others({8, 18})) : A2Message([m EXCEPT !.unknown = v])
<1>1. ASSUME NEW v \in Nat PROVE A2Message(A2!set_id(m, v))
  BY DEF A2Message, A2Records, A2!set_id
<1>2. ASSUME NEW v \in Seq(Nat) PROVE A2Message(A2!set_userName(m, v))
  BY DEF A2Message, A2Records, A2!set_userName, A2!mutable_userName
<1>3. ASSUME NEW v \in Seq(Others({8, 18})) PROVE A2Message([m EXCEPT !.unknown = v])
  BY DEF A2Message, A2Records
<1>4. QED
  BY <1>1, <1>2, <1>3

LEMMA A2AccessedIs ==
  ASSUME NEW m, A2Message(m), NEW n \in A2!Accessed(m, Strings, Numbers)
  PROVE  A2Message(n)
<1>0. <<>> \in Seq(Nat)
  OBVIOUS
<1>1. A2Message(A2!clear_id(m))
  BY <1>0 DEF A2Message, A2Records, A2!clear_id
<1>2. A2Message(A2!mutable_userName(m))
  BY <1>0 DEF A2Message, A2Records, A2!mutable_userName
<1>3. A2Message(A2!clear_userName(m))
  BY <1>0 DEF A2Message, A2Records, A2!clear_userName
<1>4. A2Message(A2!release_userName(m))
  BY <1>0 DEF A2Message, A2Records, A2!release_userName, A2!clear_userName
<1>5. Strings \subseteq Seq(Nat) /\ Numbers \subseteq Nat
  BY FieldsAssumption
<1>6. QED
  BY <1>1, <1>2, <1>3, <1>4, <1>5, A2Sets DEF A2!Accessed

(* What the class does with a token of each of its tags, and of any other. *)
LEMMA A2Fields ==
  ASSUME NEW m, NEW t
  PROVE  /\ t.tag = 8 /\ t.whole => FieldIs(A2!Field(m, t), A2!set_id(m, t.val), TRUE)
         /\ t.tag = 8 /\ ~t.whole => FieldIs(A2!Field(m, t), m, FALSE)
         /\ t.tag = 18 =>
              FieldIs(A2!Field(m, t), A2!set_userName(m, t.val), t.whole)
         /\ t.tag \notin {8, 18} => A2!Field(m, t) = A2!Unusual(m)
<1>1. t.tag = 8 /\ t.whole =>
        FieldIs(A2!Field(m, t), A2!set_id(m, t.val), TRUE)
  <2>1. t.tag = 8 /\ t.whole => A2!Field(m, t) = A2!Stored(A2!set_id(m, t.val))
    BY DEF A2!Field
  <2>2. QED
    BY <2>1 DEF FieldIs, A2!Stored, A2!Failed
<1>2. t.tag = 8 /\ ~t.whole =>
        FieldIs(A2!Field(m, t), m, FALSE)
  <2>1. t.tag = 8 /\ ~t.whole => A2!Field(m, t) = A2!Failed(m)
    BY DEF A2!Field
  <2>2. QED
    BY <2>1 DEF FieldIs, A2!Stored, A2!Failed
<1>3. t.tag = 18 =>
        FieldIs(A2!Field(m, t), A2!set_userName(m, t.val), t.whole)
  <2>1. t.tag = 18 => A2!Field(m, t) = [A2!Stored(A2!set_userName(m, t.val)) EXCEPT !.ok = t.whole]
    BY DEF A2!Field
  <2>2. QED
    BY <2>1 DEF FieldIs, A2!Stored, A2!Failed
<1>4. t.tag \notin {8, 18} => A2!Field(m, t) = A2!Unusual(m)
  BY DEF A2!Field
<1>5. QED
  BY <1>1, <1>2, <1>3, <1>4

LEMMA A2Unknown ==
  ASSUME class = "PackA2"
  PROVE  \A m : \A t \in Others({8, 18}) : FieldOf(m, t) = Unusual(m)
<1> SUFFICES ASSUME NEW m, NEW t \in Others({8, 18}) PROVE FieldOf(m, t) = Unusual(m)
  OBVIOUS
<1>1. FieldOf(m, t) = A2!Field(m, t)
  BY DEF FieldOf
<1>2. t.tag \notin {8, 18}
  BY DEF Others
<1>3. QED
  BY <1>1, <1>2, A2Fields DEF A2!Unusual, Unusual

(* A turn of the parser, whatever the token, leaves a message of the class. *)
LEMMA A2Turns ==
  ASSUME class = "PackA2", NEW s, A2Message(s.msg), NEW t \in Tokens
  PROVE  A2Message(Turn(s, t).msg)
<1> DEFINE m == s.msg
           field == A2!Field(m, t)
<1>1. FieldOf(m, t) = field
  BY DEF FieldOf
<1>2. CASE t.tag \in {8, 18}
  <2>1. CASE t.tag = 8
    <3>1. t.val \in Nat
      BY <2>1 DEF Tokens, IsToken, WireType, LENGTH
    <3>2. (field.msg = A2!set_id(m, t.val) \/ field.msg = m) /\ field.known = TRUE
      <4>1. t.whole => FieldIs(field, A2!set_id(m, t.val), TRUE)
        BY <2>1, A2Fields
      <4>2. ~t.whole => FieldIs(field, m, FALSE)
        BY <2>1, A2Fields
      <4>3. QED
        BY <4>1, <4>2 DEF FieldIs
    <3>3. A2Message(field.msg)
      BY <3>1, <3>2, A2Sets
    <3> HIDE DEF m, field
    <3>4. QED
      BY <1>1, <3>2, <3>3 DEF Turn, mergeToken, m
  <2>2. CASE t.tag = 18
    <3>1. t.val \in Seq(Nat)
      BY <2>2 DEF Tokens, IsToken, WireType, LENGTH
    <3>2. field.msg = A2!set_userName(m, t.val) /\ field.known = TRUE
      <4>1. FieldIs(field, A2!set_userName(m, t.val), t.whole)
        BY <2>2, A2Fields
      <4>2. QED
        BY <4>1 DEF FieldIs
    <3>3. A2Message(field.msg)
      BY <3>1, <3>2, A2Sets
    <3> HIDE DEF m, field
    <3>4. QED
      BY <1>1, <3>2, <3>3 DEF Turn, mergeToken, m
  <2>3. QED
    BY <1>2, <2>1, <2>2
<1>3. CASE t.tag \notin {8, 18}
  <2>1. field = Unusual(m)
    BY <1>3, A2Fields DEF A2!Unusual, Unusual
  <2>2. Turn(s, t) = s \/ Turn(s, t) = handle_unusual(m, t)
    BY <1>1, <2>1 DEF Turn, mergeToken, Unusual
  <2>3. CASE t.tag # 0 /\ Skippable(t)
    <3>1. t \in Others({8, 18})
      BY <1>3, <2>3 DEF Others
    <3>2. m.unknown \in Seq(Others({8, 18}))
      BY DEF A2Message, A2Records
    <3>3. Append(m.unknown, t) \in Seq(Others({8, 18}))
      BY <3>1, <3>2
    <3>4. A2Message([m EXCEPT !.unknown = Append(m.unknown, t)])
      BY <3>3, A2Sets
    <3> HIDE DEF m
    <3>5. handle_unusual(m, t).msg = m \/ handle_unusual(m, t).msg = [m EXCEPT !.unknown = Append(m.unknown, t)]
      BY DEF handle_unusual
    <3>6. QED
      BY <2>2, <3>4, <3>5 DEF m
  <2>4. CASE t.tag = 0 \/ ~Skippable(t)
    <3> HIDE DEF m
    <3>1. handle_unusual(m, t).msg = m
      BY <2>4 DEF handle_unusual
    <3>2. QED
      BY <2>2, <3>1 DEF m
  <2>5. QED
    BY <2>3, <2>4
<1>4. QED
  BY <1>2, <1>3

(* A token that the class writes sets the field it was written from. *)
LEMMA A2Reads ==
  ASSUME class = "PackA2", NEW m
  PROVE  /\ \A v \in Nat : Turn(Reading(m), Token(8, v)) = Reading(A2!set_id(m, v))
         /\ \A v \in Seq(Nat) : Turn(Reading(m), Token(18, v)) = Reading(A2!set_userName(m, v))
<1>0. \A t : FieldOf(m, t) = A2!Field(m, t)
  BY DEF FieldOf
<1>1. ASSUME NEW v \in Nat PROVE Turn(Reading(m), Token(8, v)) = Reading(A2!set_id(m, v))
  <2> DEFINE t == Token(8, v)
             field == A2!Field(m, t)
  <2>1. t.tag = 8 /\ t.val = v /\ t.whole = TRUE
    BY DEF Token
  <2> HIDE DEF t
  <2>2. field.msg = A2!set_id(m, v) /\ field.known = TRUE /\ field.ok = TRUE
    <3>1. FieldIs(field, A2!set_id(m, v), TRUE)
      BY <2>1, A2Fields
    <3>2. QED
      BY <3>1 DEF FieldIs
  <2>3. FieldOf(m, t) = field
    BY <1>0
  <2> HIDE DEF field
  <2>4. Turn(Reading(m), t) = Reading(field.msg)
    BY <2>2, <2>3 DEF Turn, mergeToken, Reading
  <2>5. QED
    BY <2>2, <2>4 DEF t
<1>2. ASSUME NEW v \in Seq(Nat) PROVE Turn(Reading(m), Token(18, v)) = Reading(A2!set_userName(m, v))
  <2> DEFINE t == Token(18, v)
             field == A2!Field(m, t)
  <2>1. t.tag = 18 /\ t.val = v /\ t.whole = TRUE
    BY DEF Token
  <2> HIDE DEF t
  <2>2. field.msg = A2!set_userName(m, v) /\ field.known = TRUE /\ field.ok = TRUE
    <3>1. FieldIs(field, A2!set_userName(m, v), TRUE)
      BY <2>1, A2Fields
    <3>2. QED
      BY <3>1 DEF FieldIs
  <2>3. FieldOf(m, t) = field
    BY <1>0
  <2> HIDE DEF field
  <2>4. Turn(Reading(m), t) = Reading(field.msg)
    BY <2>2, <2>3 DEF Turn, mergeToken, Reading
  <2>5. QED
    BY <2>2, <2>4 DEF t
<1>3. QED
  BY <1>1, <1>2

LEMMA A2Written ==
  ASSUME NEW n, A2Message(n)
  PROVE  /\ Token(8, n.id) \in Measurable
         /\ Token(18, n.userName) \in Measurable
         /\ n.unknown \in Seq(Measurable)
<1>1. n.id \in Nat /\ n.userName \in Seq(Nat)
  BY DEF A2Message, A2Records
<1>2. n.unknown \in Seq(Others({8, 18}))
  BY DEF A2Message, A2Records
<1>3. n.unknown \in Seq(Measurable)
  BY OthersMeasurable DEF A2Message, A2Records
<1>4. QED
  BY <1>1, <1>2, <1>3, WrittenNumber, WrittenString

(* To parse what a message is written as is to merge the message. *)
LEMMA A2Parsed ==
  ASSUME class = "PackA2", NEW m, A2Message(m), NEW n, A2Message(n)
  PROVE  Merged(m, A2!SerializeWithCachedSizes(n)) = Reading(A2!MergeFrom(m, n))
<1> DEFINE p1 == IF "id" \in n.has THEN <<Token(8, n.id)>> ELSE <<>>
           m1 == IF "id" \in n.has THEN A2!set_id(m, n.id) ELSE m
           p2 == IF "userName" \in n.has THEN <<Token(18, n.userName)>> ELSE <<>>
           m2 == IF "userName" \in n.has THEN A2!set_userName(m1, n.userName) ELSE m1
<1>0. /\ class \in Classes /\ n.unknown \in Seq(Others({8, 18}))
      /\ n.id \in Nat /\ n.userName \in Seq(Nat)
  BY DEF Classes, A2Message, A2Records
<1>1. p1 \in Seq(Measurable) /\ Merged(m, p1) = Reading(m1) /\ A2Message(m1)
  <2>1. CASE "id" \in n.has
    <3>1. Merged(m, <<Token(8, n.id)>>) = Reading(A2!set_id(m, n.id))
      BY <1>0, MergedOne, A2Reads
    <3>2. A2Message(A2!set_id(m, n.id))
      BY <1>0, A2Sets
    <3>3. <<Token(8, n.id)>> \in Seq(Measurable)
      BY A2Written
    <3>4. QED
      BY <2>1, <3>1, <3>2, <3>3
  <2>2. CASE "id" \notin n.has
    <3>1. Merged(m, <<>>) = Reading(m) /\ <<>> \in Seq(Measurable)
      BY <1>0, MergedEmpty
    <3>2. QED
      BY <2>2, <3>1
  <2>3. QED
    BY <2>1, <2>2
<1>2. p2 \in Seq(Measurable) /\ Merged(m1, p2) = Reading(m2) /\ A2Message(m2)
  <2>1. CASE "userName" \in n.has
    <3>1. Merged(m1, <<Token(18, n.userName)>>) = Reading(A2!set_userName(m1, n.userName))
      BY <1>0, MergedOne, A2Reads
    <3>2. A2Message(A2!set_userName(m1, n.userName))
      BY <1>0, <1>1, A2Sets
    <3>3. <<Token(18, n.userName)>> \in Seq(Measurable)
      BY A2Written
    <3>4. QED
      BY <2>1, <3>1, <3>2, <3>3
  <2>2. CASE "userName" \notin n.has
    <3>1. Merged(m1, <<>>) = Reading(m1) /\ <<>> \in Seq(Measurable)
      BY <1>0, MergedEmpty
    <3>2. QED
      BY <2>2, <3>1, <1>1
  <2>3. QED
    BY <2>1, <2>2
<1>3. /\ m2.has = m.has \cup n.has
      /\ m2.id = IF "id" \in n.has THEN n.id ELSE m.id
      /\ m2.userName = IF "userName" \in n.has THEN n.userName ELSE m.userName
      /\ m2.unknown = m.unknown
  BY DEF A2Message, A2Records, A2!set_id, A2!set_userName, A2!mutable_userName
<1> HIDE DEF p1, m1, p2, m2
<1>4. n.unknown \in Seq(Measurable) /\ Merged(m2, n.unknown) = Reading(Extended(m2, n.unknown))
  <2>1. m2 = [x \in DOMAIN m2 |-> m2[x]] /\ "unknown" \in DOMAIN m2
    BY <1>2 DEF A2Message, A2Records
  <2>2. m2.unknown \in Seq(Others({8, 18}))
    BY <1>2 DEF A2Message, A2Records
  <2>3. \A r : \A t \in Others({8, 18}) : FieldOf(r, t) = Unusual(r)
    BY A2Unknown
  <2>4. Merged(m2, n.unknown) = Reading(Extended(m2, n.unknown))
    BY <1>0, <2>1, <2>2, <2>3, OthersParsed
  <2>5. QED
    BY <2>4, A2Written
<1>5. Merged(m, p1 \o p2 \o n.unknown) = Reading(Extended(m2, n.unknown))
  <2>1. Merged(m, p1 \o p2) = Reading(m2) /\ p1 \o p2 \in Seq(Measurable)
    <3>1. PICK a \in Seq(Measurable) : a = p1
      BY <1>1
    <3>2. Merged(m, a) = Reading(m1)
      BY <1>1, <3>1
    <3>3. Merged(m, a \o p2) = Reading(m2) /\ a \o p2 \in Seq(Measurable)
      BY <1>0, <1>2, <3>2, MergedConcat
    <3>4. QED
      BY <3>1, <3>3
  <2>2. Merged(m, p1 \o p2 \o n.unknown) = Reading(Extended(m2, n.unknown))
    <3>1. PICK a \in Seq(Measurable) : a = p1 \o p2
      BY <2>1
    <3>2. Merged(m, a) = Reading(m2)
      BY <2>1, <3>1
    <3>3. Merged(m, a \o n.unknown) = Reading(Extended(m2, n.unknown)) /\ a \o n.unknown \in Seq(Measurable)
      BY <1>0, <1>4, <3>2, MergedConcat
    <3>4. QED
      BY <3>1, <3>3
  <2>3. QED
    BY <2>2
<1>6. A2!SerializeWithCachedSizes(n) = p1 \o p2 \o n.unknown
  BY DEF A2!SerializeWithCachedSizes, A2!Token, Token, p1, p2
<1>7. Extended(m2, n.unknown) = A2!MergeFrom(m, n)
  <2> DEFINE r == Extended(m2, n.unknown)
             merged == A2!MergeFrom(m, n)
  <2>1. m2.unknown \o n.unknown \in Seq(Others({8, 18}))
    BY <1>0, <1>2 DEF A2Message, A2Records
  <2>2. r \in A2Records
    BY <2>1, <1>2, A2Sets DEF Extended, A2Message
  <2>3. /\ r.has = m2.has /\ r.id = m2.id /\ r.userName = m2.userName
        /\ r.unknown = m2.unknown \o n.unknown
    BY <1>2 DEF Extended, A2Message, A2Records
  <2>4. merged \in A2Records
    BY A2Merges DEF A2Message
  <2>5. /\ merged.has = m.has \cup n.has /\ merged.unknown = m.unknown \o n.unknown
        /\ merged.id = IF "id" \in n.has THEN n.id ELSE m.id
        /\ merged.userName = IF "userName" \in n.has THEN n.userName ELSE m.userName
    BY DEF A2!MergeFrom
  <2> HIDE DEF r, merged
  <2>6. r = merged
    BY <1>3, <2>2, <2>3, <2>4, <2>5, A2Equal
  <2>7. QED
    BY <2>6 DEF r, merged
<1>8. QED
  BY <1>5, <1>6, <1>7

(* ByteSize is the size of what is written. *)
LEMMA A2Measured ==
  ASSUME NEW n, A2Message(n)
  PROVE  /\ A2!SerializeWithCachedSizes(n) \in Seq(Measurable)
         /\ A2!ByteSize(n) = WireSize(A2!SerializeWithCachedSizes(n))
<1> DEFINE p1 == IF "id" \in n.has THEN <<Token(8, n.id)>> ELSE <<>>
           s1 == IF "id" \in n.has THEN 1 + UInt32Size(n.id) ELSE 0
           p2 == IF "userName" \in n.has THEN <<Token(18, n.userName)>> ELSE <<>>
           s2 == IF "userName" \in n.has THEN 1 + StringSize(n.userName) ELSE 0
<1>0. n.id \in Nat /\ n.userName \in Seq(Nat)
  BY DEF A2Message, A2Records
<1>1. p1 \in Seq(Measurable) /\ WireSize(p1) = s1
  <2>1. CASE "id" \in n.has
    <3>1. WireSize(<<Token(8, n.id)>>) = s1
      BY <1>0, <2>1, WrittenNumber
    <3>2. QED
      BY <2>1, <3>1, A2Written
  <2>2. CASE "id" \notin n.has
    <3>1. <<>> \in Seq(Measurable)
      OBVIOUS
    <3>2. QED
      BY <2>2, <3>1, WireSteps
  <2>3. QED
    BY <2>1, <2>2
<1>2. p2 \in Seq(Measurable) /\ WireSize(p2) = s2
  <2>1. CASE "userName" \in n.has
    <3>1. WireSize(<<Token(18, n.userName)>>) = s2
      BY <1>0, <2>1, WrittenString
    <3>2. QED
      BY <2>1, <3>1, A2Written
  <2>2. CASE "userName" \notin n.has
    <3>1. <<>> \in Seq(Measurable)
      OBVIOUS
    <3>2. QED
      BY <2>2, <3>1, WireSteps
  <2>3. QED
    BY <2>1, <2>2
<1>3. n.unknown \in Seq(Measurable)
  BY A2Written
<1>4. A2!ByteSize(n) = s1 + s2 + WireSize(n.unknown)
  BY A2Sizes DEF A2!ByteSize
<1>5. A2!SerializeWithCachedSizes(n) = p1 \o p2 \o n.unknown
  BY DEF A2!SerializeWithCachedSizes, A2!Token, Token
<1> HIDE DEF p1, p2, s1, s2
<1>6. /\ p1 \o p2 \in Seq(Measurable) /\ WireSize(p1) \in Nat /\ WireSize(p2) \in Nat
      /\ WireSize(p1 \o p2) = WireSize(p1) + WireSize(p2)
  BY <1>1, <1>2, WireJoin
<1>7. /\ p1 \o p2 \o n.unknown \in Seq(Measurable) /\ WireSize(p1 \o p2) \in Nat /\ WireSize(n.unknown) \in Nat
      /\ WireSize(p1 \o p2 \o n.unknown) = WireSize(p1 \o p2) + WireSize(n.unknown)
  BY <1>2, <1>3, <1>6, WireJoin
<1>8. QED
  BY <1>1, <1>2, <1>3, <1>4, <1>5, <1>6, <1>7

--------------------------------------------------------------------------------
(* The object's class. *)

IsMessage(m) ==
  /\ class = "PackHeaderIn"  => InMessage(m)
  /\ class = "PackHeaderOut" => OutMessage(m)
  /\ class = "PackA0" => A0Message(m)
  /\ class = "PackA1" => A1Message(m)
  /\ class = "PackA2" => A2Message(m)

LEMMA NewIsMessage ==
  ASSUME class \in Classes
  PROVE  IsMessage(New)
<1>1. CASE class = "PackHeaderIn"
  BY <1>1, InIsNew DEF New, IsMessage
<1>2. CASE class = "PackHeaderOut"
  BY <1>2, OutIsNew DEF New, IsMessage
<1>3. CASE class = "PackA0"
  BY <1>3, A0IsNew DEF New, IsMessage
<1>4. CASE class = "PackA1"
  BY <1>4, A1IsNew DEF New, IsMessage
<1>5. CASE class = "PackA2"
  BY <1>5, A2IsNew DEF New, IsMessage
<1>6. QED
  BY <1>1, <1>2, <1>3, <1>4, <1>5 DEF Classes

LEMMA ClearIsNew ==
  ASSUME class \in Classes, NEW m, IsMessage(m)
  PROVE  Clear(m) = New
<1>1. CASE class = "PackHeaderIn"
  <2>1. InMessage(m)
    BY <1>1 DEF IsMessage
  <2>2. QED
    BY <1>1, <2>1, InCleared DEF Clear, New
<1>2. CASE class = "PackHeaderOut"
  <2>1. OutMessage(m)
    BY <1>2 DEF IsMessage
  <2>2. QED
    BY <1>2, <2>1, OutCleared DEF Clear, New
<1>3. CASE class = "PackA0"
  <2>1. A0Message(m)
    BY <1>3 DEF IsMessage
  <2>2. QED
    BY <1>3, <2>1, A0Cleared DEF Clear, New
<1>4. CASE class = "PackA1"
  <2>1. A1Message(m)
    BY <1>4 DEF IsMessage
  <2>2. QED
    BY <1>4, <2>1, A1Cleared DEF Clear, New
<1>5. CASE class = "PackA2"
  <2>1. A2Message(m)
    BY <1>5 DEF IsMessage
  <2>2. QED
    BY <1>5, <2>1, A2Cleared DEF Clear, New
<1>6. QED
  BY <1>1, <1>2, <1>3, <1>4, <1>5 DEF Classes

LEMMA MergeIsMessage ==
  ASSUME class \in Classes, NEW m, IsMessage(m), NEW n, IsMessage(n)
  PROVE  IsMessage(MergeFrom(m, n))
<1>1. CASE class = "PackHeaderIn"
  <2>1. InMessage(m) /\ InMessage(n)
    BY <1>1 DEF IsMessage
  <2>2. QED
    BY <1>1, <2>1, InMerges DEF MergeFrom, IsMessage
<1>2. CASE class = "PackHeaderOut"
  <2>1. OutMessage(m) /\ OutMessage(n)
    BY <1>2 DEF IsMessage
  <2>2. QED
    BY <1>2, <2>1, OutMerges DEF MergeFrom, IsMessage
<1>3. CASE class = "PackA0"
  <2>1. A0Message(m) /\ A0Message(n)
    BY <1>3 DEF IsMessage
  <2>2. QED
    BY <1>3, <2>1, A0Merges DEF MergeFrom, IsMessage
<1>4. CASE class = "PackA1"
  <2>1. A1Message(m) /\ A1Message(n)
    BY <1>4 DEF IsMessage
  <2>2. QED
    BY <1>4, <2>1, A1Merges DEF MergeFrom, IsMessage
<1>5. CASE class = "PackA2"
  <2>1. A2Message(m) /\ A2Message(n)
    BY <1>5 DEF IsMessage
  <2>2. QED
    BY <1>5, <2>1, A2Merges DEF MergeFrom, IsMessage
<1>6. QED
  BY <1>1, <1>2, <1>3, <1>4, <1>5 DEF Classes

LEMMA MergeIntoNew ==
  ASSUME class \in Classes, NEW m, IsMessage(m)
  PROVE  MergeFrom(New, m) = m
<1>1. CASE class = "PackHeaderIn"
  <2>1. InMessage(m)
    BY <1>1 DEF IsMessage
  <2>2. QED
    BY <1>1, <2>1, InMergesNew DEF MergeFrom, New
<1>2. CASE class = "PackHeaderOut"
  <2>1. OutMessage(m)
    BY <1>2 DEF IsMessage
  <2>2. QED
    BY <1>2, <2>1, OutMergesNew DEF MergeFrom, New
<1>3. CASE class = "PackA0"
  <2>1. A0Message(m)
    BY <1>3 DEF IsMessage
  <2>2. QED
    BY <1>3, <2>1, A0MergesNew DEF MergeFrom, New
<1>4. CASE class = "PackA1"
  <2>1. A1Message(m)
    BY <1>4 DEF IsMessage
  <2>2. QED
    BY <1>4, <2>1, A1MergesNew DEF MergeFrom, New
<1>5. CASE class = "PackA2"
  <2>1. A2Message(m)
    BY <1>5 DEF IsMessage
  <2>2. QED
    BY <1>5, <2>1, A2MergesNew DEF MergeFrom, New
<1>6. QED
  BY <1>1, <1>2, <1>3, <1>4, <1>5 DEF Classes

LEMMA CopyIsEqual ==
  ASSUME class \in Classes, NEW m, IsMessage(m), NEW n, IsMessage(n)
  PROVE  CopyFrom(m, n) = n
<1>1. CASE class = "PackHeaderIn"
  <2>1. InMessage(m) /\ InMessage(n)
    BY <1>1 DEF IsMessage
  <2>2. QED
    BY <1>1, <2>1, InCleared, InMergesNew DEF CopyFrom, In!CopyFrom
<1>2. CASE class = "PackHeaderOut"
  <2>1. OutMessage(m) /\ OutMessage(n)
    BY <1>2 DEF IsMessage
  <2>2. QED
    BY <1>2, <2>1, OutCleared, OutMergesNew DEF CopyFrom, Out!CopyFrom
<1>3. CASE class = "PackA0"
  <2>1. A0Message(m) /\ A0Message(n)
    BY <1>3 DEF IsMessage
  <2>2. QED
    BY <1>3, <2>1, A0Cleared, A0MergesNew DEF CopyFrom, A0!CopyFrom
<1>4. CASE class = "PackA1"
  <2>1. A1Message(m) /\ A1Message(n)
    BY <1>4 DEF IsMessage
  <2>2. QED
    BY <1>4, <2>1, A1Cleared, A1MergesNew DEF CopyFrom, A1!CopyFrom
<1>5. CASE class = "PackA2"
  <2>1. A2Message(m) /\ A2Message(n)
    BY <1>5 DEF IsMessage
  <2>2. QED
    BY <1>5, <2>1, A2Cleared, A2MergesNew DEF CopyFrom, A2!CopyFrom
<1>6. QED
  BY <1>1, <1>2, <1>3, <1>4, <1>5 DEF Classes

LEMMA AccessedIsMessage ==
  ASSUME class \in Classes, NEW m, IsMessage(m), NEW n \in Accessed(m)
  PROVE  IsMessage(n)
<1>1. CASE class = "PackHeaderIn"
  <2>1. InMessage(m)
    BY <1>1 DEF IsMessage
  <2>2. QED
    BY <1>1, <2>1, InAccessedIs DEF Accessed, IsMessage
<1>2. CASE class = "PackHeaderOut"
  <2>1. OutMessage(m)
    BY <1>2 DEF IsMessage
  <2>2. QED
    BY <1>2, <2>1, OutAccessedIs DEF Accessed, IsMessage
<1>3. CASE class = "PackA0"
  <2>1. A0Message(m)
    BY <1>3 DEF IsMessage
  <2>2. QED
    BY <1>3, <2>1, A0AccessedIs DEF Accessed, IsMessage
<1>4. CASE class = "PackA1"
  <2>1. A1Message(m)
    BY <1>4 DEF IsMessage
  <2>2. QED
    BY <1>4, <2>1, A1AccessedIs DEF Accessed, IsMessage
<1>5. CASE class = "PackA2"
  <2>1. A2Message(m)
    BY <1>5 DEF IsMessage
  <2>2. QED
    BY <1>5, <2>1, A2AccessedIs DEF Accessed, IsMessage
<1>6. QED
  BY <1>1, <1>2, <1>3, <1>4, <1>5 DEF Classes

LEMMA TurnIsMessage ==
  ASSUME class \in Classes, NEW s, IsMessage(s.msg), NEW t \in Tokens
  PROVE  IsMessage(Turn(s, t).msg)
<1>1. CASE class = "PackHeaderIn"
  <2>1. InMessage(s.msg)
    BY <1>1 DEF IsMessage
  <2>2. QED
    BY <1>1, <2>1, InTurns DEF IsMessage
<1>2. CASE class = "PackHeaderOut"
  <2>1. OutMessage(s.msg)
    BY <1>2 DEF IsMessage
  <2>2. QED
    BY <1>2, <2>1, OutTurns DEF IsMessage
<1>3. CASE class = "PackA0"
  <2>1. A0Message(s.msg)
    BY <1>3 DEF IsMessage
  <2>2. QED
    BY <1>3, <2>1, A0Turns DEF IsMessage
<1>4. CASE class = "PackA1"
  <2>1. A1Message(s.msg)
    BY <1>4 DEF IsMessage
  <2>2. QED
    BY <1>4, <2>1, A1Turns DEF IsMessage
<1>5. CASE class = "PackA2"
  <2>1. A2Message(s.msg)
    BY <1>5 DEF IsMessage
  <2>2. QED
    BY <1>5, <2>1, A2Turns DEF IsMessage
<1>6. QED
  BY <1>1, <1>2, <1>3, <1>4, <1>5 DEF Classes

LEMMA SerializedIsParsed ==
  ASSUME class \in Classes, NEW m, IsMessage(m), NEW n, IsMessage(n)
  PROVE  Merged(m, Serialized(n)) = Reading(MergeFrom(m, n))
<1>1. CASE class = "PackHeaderIn"
  <2>1. InMessage(m) /\ InMessage(n)
    BY <1>1 DEF IsMessage
  <2>2. QED
    BY <1>1, <2>1, InParsed DEF Serialized, MergeFrom
<1>2. CASE class = "PackHeaderOut"
  <2>1. OutMessage(m) /\ OutMessage(n)
    BY <1>2 DEF IsMessage
  <2>2. QED
    BY <1>2, <2>1, OutParsed DEF Serialized, MergeFrom
<1>3. CASE class = "PackA0"
  <2>1. A0Message(m) /\ A0Message(n)
    BY <1>3 DEF IsMessage
  <2>2. QED
    BY <1>3, <2>1, A0Parsed DEF Serialized, MergeFrom
<1>4. CASE class = "PackA1"
  <2>1. A1Message(m) /\ A1Message(n)
    BY <1>4 DEF IsMessage
  <2>2. QED
    BY <1>4, <2>1, A1Parsed DEF Serialized, MergeFrom
<1>5. CASE class = "PackA2"
  <2>1. A2Message(m) /\ A2Message(n)
    BY <1>5 DEF IsMessage
  <2>2. QED
    BY <1>5, <2>1, A2Parsed DEF Serialized, MergeFrom
<1>6. QED
  BY <1>1, <1>2, <1>3, <1>4, <1>5 DEF Classes

LEMMA SerializedIsMeasured ==
  ASSUME class \in Classes, NEW m, IsMessage(m)
  PROVE  Serialized(m) \in Seq(Measurable) /\ ByteSize(m) = WireSize(Serialized(m))
<1>1. CASE class = "PackHeaderIn"
  <2>1. InMessage(m)
    BY <1>1 DEF IsMessage
  <2>2. QED
    BY <1>1, <2>1, InMeasured DEF Serialized, ByteSize
<1>2. CASE class = "PackHeaderOut"
  <2>1. OutMessage(m)
    BY <1>2 DEF IsMessage
  <2>2. QED
    BY <1>2, <2>1, OutMeasured DEF Serialized, ByteSize
<1>3. CASE class = "PackA0"
  <2>1. A0Message(m)
    BY <1>3 DEF IsMessage
  <2>2. QED
    BY <1>3, <2>1, A0Measured DEF Serialized, ByteSize
<1>4. CASE class = "PackA1"
  <2>1. A1Message(m)
    BY <1>4 DEF IsMessage
  <2>2. QED
    BY <1>4, <2>1, A1Measured DEF Serialized, ByteSize
<1>5. CASE class = "PackA2"
  <2>1. A2Message(m)
    BY <1>5 DEF IsMessage
  <2>2. QED
    BY <1>5, <2>1, A2Measured DEF Serialized, ByteSize
<1>6. QED
  BY <1>1, <1>2, <1>3, <1>4, <1>5 DEF Classes

(* What is parsed keeps the object a message of its class, whatever the bytes. *)
LEMMA ParsedIsMessage ==
  ASSUME class \in Classes, NEW m, IsMessage(m), NEW tokens \in Seq(Tokens)
  PROVE  IsMessage(Merged(m, tokens).msg)
<1> DEFINE S == {s \in Seq(Tokens) : IsMessage(Merged(m, s).msg)}
<1>1. <<>> \in S
  <2>1. Merged(m, <<>>) = Reading(m) /\ <<>> \in Seq(Tokens)
    BY MergedEmpty
  <2>2. Merged(m, <<>>).msg = m
    BY <2>1 DEF Reading
  <2>3. QED
    BY <2>1, <2>2
<1>2. ASSUME NEW s \in Seq(Tokens), NEW t \in Tokens, s \in S
      PROVE  Append(s, t) \in S
  <2>1. Merged(m, Append(s, t)) = Turn(Merged(m, s), t) /\ Append(s, t) \in Seq(Tokens)
    BY MergedAppend
  <2>2. IsMessage(Turn(Merged(m, s), t).msg)
    BY <1>2, TurnIsMessage
  <2>3. QED
    BY <2>1, <2>2
<1>3. Seq(Tokens) \subseteq S
  <2> HIDE DEF S
  <2>1. QED
    BY <1>1, <1>2, SeqInduction
<1>4. QED
  BY <1>3

(* Streams hold tokens. *)
LEMMA StreamTokens == \A tokens \in Streams : tokens \in Seq(Tokens)
<1> SUFFICES ASSUME NEW tokens \in Streams PROVE tokens \in Seq(Tokens)
  OBVIOUS
<1>1. tokens \in Seq(ToSet(tokens)) /\ \A t \in ToSet(tokens) : IsToken(t)
  BY StreamsAssumption
<1>2. \A t \in ToSet(tokens) : t \in Tokens
  <2> SUFFICES ASSUME NEW t \in ToSet(tokens) PROVE t \in Tokens
    OBVIOUS
  <2>1. IsToken(t)
    BY <1>1
  <2>2. t.val \in Nat \cup Seq(Nat)
    BY <2>1 DEF IsToken
  <2>3. QED
    BY <2>1, <2>2 DEF IsToken, Tokens
<1>3. QED
  <2> DEFINE D == ToSet(tokens)
  <2>1. tokens \in Seq(D) /\ \A t \in D : t \in Tokens
    BY <1>1, <1>2
  <2> HIDE DEF D
  <2>2. QED
    BY <2>1

--------------------------------------------------------------------------------
(* The calls. *)

MessagesInv ==
  /\ class \in Classes
  /\ object = <<object[1], object[2]>>
  /\ IsMessage(object[1]) /\ IsMessage(object[2])

LEMMA MessagesInvInit == MsgInit => MessagesInv
  BY NewIsMessage DEF MsgInit, MessagesInv

LEMMA BecomesKeeps ==
  ASSUME MessagesInv, NEW i \in {1, 2}, NEW m, IsMessage(m), Becomes(i, m)
  PROVE  MessagesInv'
<1>1. class' = class /\ object' = [object EXCEPT ![i] = m]
  BY DEF Becomes
<1>2. object' = <<object'[1], object'[2]>> /\ \A j \in {1, 2} : object'[j] = m \/ object'[j] = object[j]
  BY <1>1 DEF MessagesInv
<1>3. \A j \in {1, 2} : IsMessage(object'[j])
  BY <1>2 DEF MessagesInv
<1>4. \A r : IsMessage(r) => IsMessage(r)'
  BY <1>1 DEF IsMessage
<1>5. QED
  BY <1>1, <1>2, <1>3, <1>4 DEF MessagesInv, IsMessage

LEMMA MessagesInvNext == MessagesInv /\ [MsgNext]_<<class, object>> => MessagesInv'
<1> SUFFICES ASSUME MessagesInv, [MsgNext]_<<class, object>> PROVE MessagesInv'
  OBVIOUS
<1>0. class \in Classes /\ \A i \in {1, 2} : IsMessage(object[i]) /\ IsMessage(object[3 - i])
  BY DEF MessagesInv
<1>1. ASSUME NEW i \in {1, 2}, CallAccessor(i) PROVE MessagesInv'
  BY <1>0, <1>1, AccessedIsMessage, BecomesKeeps DEF CallAccessor
<1>2. ASSUME NEW i \in {1, 2}, CallClear(i) PROVE MessagesInv'
  <2>1. IsMessage(Clear(object[i]))
    BY <1>0, ClearIsNew, NewIsMessage
  <2>2. QED
    BY <1>2, <2>1, BecomesKeeps DEF CallClear
<1>3. ASSUME NEW i \in {1, 2}, CallMergeFrom(i) PROVE MessagesInv'
  <2>1. IsMessage(MergeFrom(object[i], object[3 - i]))
    BY <1>0, MergeIsMessage
  <2>2. QED
    BY <1>3, <2>1, BecomesKeeps DEF CallMergeFrom
<1>4. ASSUME NEW i \in {1, 2}, CallCopyFrom(i) PROVE MessagesInv'
  <2>1. IsMessage(CopyFrom(object[i], object[3 - i]))
    BY <1>0, CopyIsEqual
  <2>2. QED
    BY <1>4, <2>1, BecomesKeeps DEF CallCopyFrom
<1>5. ASSUME NEW i \in {1, 2}, CallParse(i) PROVE MessagesInv'
  <2>1. PICK tokens \in Streams : Becomes(i, Merged(Clear(object[i]), tokens).msg)
    BY <1>5 DEF CallParse
  <2>2. IsMessage(Clear(object[i])) /\ tokens \in Seq(Tokens)
    BY <1>0, ClearIsNew, NewIsMessage, StreamTokens
  <2>3. IsMessage(Merged(Clear(object[i]), tokens).msg)
    BY <1>0, <2>2, ParsedIsMessage
  <2>4. QED
    BY <2>1, <2>3, BecomesKeeps
<1>6. CASE CallSwap
  <2>1. Swap(object) = <<object[2], object[1]>>
    BY <1>0 DEF Swap, Classes, In!Swap, Out!Swap, A0!Swap, A1!Swap, A2!Swap
  <2>2. class' = class /\ object' = <<object[2], object[1]>>
    BY <1>6, <2>1 DEF CallSwap
  <2>3. \A r : IsMessage(r) => IsMessage(r)'
    BY <2>2 DEF IsMessage
  <2>4. object'[1] = object[2] /\ object'[2] = object[1] /\ object' = <<object'[1], object'[2]>>
    BY <2>2
  <2>5. IsMessage(object[2])' /\ IsMessage(object[1])'
    BY <1>0, <2>2, <2>4 DEF IsMessage
  <2>6. QED
    BY <2>2, <2>4, <2>5 DEF MessagesInv
<1>7. CASE UNCHANGED <<class, object>>
  BY <1>7 DEF MessagesInv, IsMessage
<1>8. QED
  BY <1>1, <1>2, <1>3, <1>4, <1>5, <1>6, <1>7 DEF MsgNext

(* Whatever is called, an object is a message of its class. *)
LEMMA MessagesInvAlways == MsgSpec => []MessagesInv
  BY MessagesInvInit, MessagesInvNext, PTL DEF MsgSpec

--------------------------------------------------------------------------------

LEMMA BothObjects ==
  ASSUME MessagesInv
  PROVE  ToSet(object) = {object[1], object[2]}
  BY DEF MessagesInv, ToSet

(***************************************************************************)
(* After any calls, a message is what its bytes parse to, and these are as  *)
(* many as ByteSize has SerializeAsString allocate: for strings, numbers,   *)
(* repeated and unknown fields of any length.                              *)
(***************************************************************************)
THEOREM MessagesRoundTrip == MsgSpec => []RoundTrip
<1>1. MessagesInv => RoundTrip
  <2> SUFFICES ASSUME MessagesInv, NEW m \in ToSet(object)
               PROVE  /\ Merged(New, Serialized(m)) = Reading(m)
                      /\ ByteSize(m) = WireSize(Serialized(m))
    BY DEF RoundTrip, Reading
  <2>1. class \in Classes /\ IsMessage(m) /\ IsMessage(New)
    BY BothObjects, NewIsMessage DEF MessagesInv
  <2>2. Merged(New, Serialized(m)) = Reading(MergeFrom(New, m))
    BY <2>1, SerializedIsParsed
  <2>3. QED
    BY <2>1, <2>2, MergeIntoNew, SerializedIsMeasured
<1>2. QED
  BY <1>1, MessagesInvAlways, PTL

(***************************************************************************)
(* To merge two messages is to parse the bytes of the one after those of    *)
(* the other: a field set in both takes the second value, repeated and      *)
(* unknown fields are appended.                                             *)
(***************************************************************************)
THEOREM MessagesMergeIsConcat == MsgSpec => []MergeIsConcat
<1>1. MessagesInv => MergeIsConcat
  <2> SUFFICES ASSUME MessagesInv PROVE MergeIsConcat
    OBVIOUS
  <2>1. class \in Classes /\ IsMessage(object[1]) /\ IsMessage(object[2]) /\ IsMessage(New)
    BY NewIsMessage DEF MessagesInv
  <2>2. PICK a \in Seq(Measurable), b \in Seq(Measurable) :
          a = Serialized(object[1]) /\ b = Serialized(object[2])
    BY <2>1, SerializedIsMeasured
  <2>3. Merged(New, a) = Reading(object[1])
    BY <2>1, <2>2, SerializedIsParsed, MergeIntoNew
  <2>4. Merged(object[1], b) = Reading(MergeFrom(object[1], object[2]))
    BY <2>1, <2>2, SerializedIsParsed
  <2>5. Merged(New, a \o b) = Merged(object[1], b)
    BY <2>1, <2>3, MergedConcat
  <2>6. QED
    BY <2>2, <2>4, <2>5 DEF MergeIsConcat, Reading
<1>2. QED
  BY <1>1, MessagesInvAlways, PTL

(***************************************************************************)
(* Clear, which looks only at fields whose bits are set, leaves a new       *)
(* message, and a copy is equal to what it was copied from: no accessor or  *)
(* parser leaves a value without its bit.                                   *)
(***************************************************************************)
THEOREM MessagesClearForgets == MsgSpec => []ClearForgets
<1>1. MessagesInv => ClearForgets
  BY BothObjects, ClearIsNew, CopyIsEqual DEF MessagesInv, ClearForgets
<1>2. QED
  BY <1>1, MessagesInvAlways, PTL
====================================================================================
