------------------------------ MODULE DispatchProofs ------------------------------
(***************************************************************************)
(* Proofs about PacketManager, for any number of threads, handlers and     *)
(* packets: its mutex and its queue, the table of handlers and the search  *)
(* in it, and what the owners' threads do to the table.                    *)
(***************************************************************************)
EXTENDS Dispatch, FiniteSetTheorems, WellFoundedInduction, TLAPS
--------------------------------------------------------------------------------
(* PacketManager::binarySearchKey on any sorted table *)

(* Induction, stated for a set as the provers take no predicates. *)
LEMMA StrongInduction ==
  ASSUME NEW S, \A n \in Nat : (\A m \in 0 .. n - 1 : m \in S) => n \in S
  PROVE  Nat \subseteq S
<1> SUFFICES ASSUME Nat \ S # {} PROVE FALSE
  OBVIOUS
<1>1. PICK n \in Nat \ S : \A m \in Nat \ S : ~ (<<m, n>> \in OpToRel(<, Nat))
  BY NatLessThanWellFounded, WFMin
<1>2. \A m \in Nat \ S : ~ (m < n)
  BY <1>1 DEF OpToRel
<1>3. \A m \in 0 .. n - 1 : m \in S
  BY <1>2
<1>4. QED
  BY <1>1, <1>3

span(b) == b[2] - b[1] + Len(pKeys) + 1

LEMMA Middle ==
  ASSUME NEW f \in Int, NEW l \in Int, f <= l
  PROVE  (l + f) \div 2 \in f .. l
  OBVIOUS

(* A call depends on calls for smaller parts only. *)
LEMMA CallsLess ==
  ASSUME pKeys \in Seq(Seq(PKeys)), NEW key, NEW b \in Bounds, NEW s, NEW g,
         \A c \in Bounds : span(c) < span(b) => s[c] = g[c]
  PROVE  searchCall(s, b[1], b[2], key) = searchCall(g, b[1], b[2], key)
<1> DEFINE f == b[1]
           l == b[2]
           m == (l + f) \div 2
<1>1. Len(pKeys) \in Nat /\ f \in 0 .. Len(pKeys) /\ l \in -1 .. Len(pKeys) - 1
  BY DEF Bounds
<1>2. CASE l < f
  BY <1>2 DEF searchCall
<1>3. CASE f <= l
  <2>1. f \in Int /\ l \in Int /\ f <= l /\ b = <<f, l>>
    BY <1>1, <1>3 DEF Bounds
  <2> HIDE DEF f, l
  <2>2. m \in f .. l
    BY <2>1, Middle
  <2>3. PICK mid \in f .. l : mid = m
    BY <2>2
  <2>4. <<mid + 1, l>> \in Bounds /\ span(<<mid + 1, l>>) < span(b)
    BY <1>1, <2>1 DEF Bounds, span
  <2>5. <<f, mid - 1>> \in Bounds /\ span(<<f, mid - 1>>) < span(b)
    BY <1>1, <2>1 DEF Bounds, span
  <2>6. s[<<mid + 1, l>>] = g[<<mid + 1, l>>] /\ s[<<f, mid - 1>>] = g[<<f, mid - 1>>]
    BY <2>4, <2>5
  <2>7. searchCall(s, f, l, key) = searchCall(g, f, l, key)
    BY <2>3, <2>6 DEF searchCall
  <2>8. QED
    BY <2>7 DEF f, l
<1>4. QED
  BY <1>1, <1>2, <1>3

LEMMA SearchExists ==
  ASSUME pKeys \in Seq(Seq(PKeys)), NEW key
  PROVE  \E s : s = [b \in Bounds |-> searchCall(s, b[1], b[2], key)]
<1> DEFINE Part(d) == { b \in Bounds : span(b) < d }
           Defines(s, d) == s = [b \in Part(d) |-> searchCall(s, b[1], b[2], key)]
           Solved == { d \in Nat : \E s : Defines(s, d) }
<1>0. Len(pKeys) \in Nat /\ \A b \in Bounds : span(b) \in 0 .. 2 * Len(pKeys)
  BY DEF Bounds, span
<1>1. ASSUME NEW n \in Nat, \A m \in 0 .. n - 1 : m \in Solved
      PROVE  n \in Solved
  <2>1. CASE n = 0
    <3>1. Part(n) = {}
      BY <1>0, <2>1
    <3>2. Defines([b \in {} |-> {}], n)
      BY <3>1
    <3>3. QED
      BY <3>2
  <2>2. CASE n # 0
    <3>1. n - 1 \in Solved
      <4> HIDE DEF Solved
      <4>1. QED
        BY <1>1, <2>2
    <3>6. PICK s : Defines(s, n - 1)
      BY <3>1
    <3> DEFINE g == [b \in Part(n) |-> searchCall(s, b[1], b[2], key)]
    <3>2. \A b \in Part(n - 1) : b \in Part(n) /\ g[b] = s[b]
      BY <1>0, <3>6, <2>2
    <3> HIDE DEF g
    <3>3. ASSUME NEW b \in Part(n)
          PROVE  searchCall(s, b[1], b[2], key) = searchCall(g, b[1], b[2], key)
      <4>1. \A c \in Bounds : span(c) < span(b) => c \in Part(n - 1)
        BY <1>0
      <4>2. \A c \in Bounds : span(c) < span(b) => s[c] = g[c]
        BY <4>1, <3>2
      <4>3. QED
        BY <4>2, CallsLess
    <3>4. Defines(g, n)
      BY <3>3 DEF g
    <3>5. QED
      BY <3>4
  <2>3. QED
    BY <2>1, <2>2
<1>2. 2 * Len(pKeys) + 1 \in Solved
  <2> HIDE DEF Solved
  <2>1. Nat \subseteq Solved
    BY <1>1, StrongInduction
  <2>2. QED
    BY <1>0, <2>1
<1>3. Part(2 * Len(pKeys) + 1) = Bounds
  BY <1>0
<1>4. QED
  BY <1>2, <1>3

(***************************************************************************)
(* What the caller learns of the table, and what is known of the lists     *)
(* outside of the positions that are still searched.                       *)
(***************************************************************************)
Answers(s, key) ==
  /\ s.fatal \in {"no", "undefined", "endless"}
  /\ s.fatal = "no" =>
       IF s.found
         THEN /\ s.index + 1 \in DOMAIN pKeys /\ At(s.index) # <<>>
              /\ KeyOf[Head(At(s.index))] = key
         ELSE /\ s.index \in 0 .. Len(pKeys)
              /\ \A i \in DOMAIN pKeys : \A k \in ToSet(pKeys[i]) :
                   IF i <= s.index THEN KeyOf[k] < key ELSE key < KeyOf[k]
  /\ s.fatal = "undefined" =>
       \E i \in DOMAIN pKeys : pKeys[i] = <<>> \/ Head(pKeys[i]) \in deleted \cap ToSet(pKeys[i])
  /\ s.fatal = "endless" =>
       \A i \in DOMAIN pKeys : \A k \in ToSet(pKeys[i]) : key < KeyOf[k]

Narrowed(f, l, key) ==
  /\ f <= l + 1
  /\ \A i \in DOMAIN pKeys : \A k \in ToSet(pKeys[i]) :
       (i <= f => KeyOf[k] < key) /\ (i > l + 1 => key < KeyOf[k])

LEMMA HeadIsIn ==
  ASSUME NEW S, NEW s \in Seq(S), s # <<>>
  PROVE  Head(s) \in ToSet(s) /\ Head(s) \in S
  BY DEF ToSet

LEMMA ListType ==
  ASSUME pKeys \in Seq(Seq(PKeys)), NEW i \in DOMAIN pKeys
  PROVE  /\ pKeys[i] \in Seq(PKeys)
         /\ \A k \in ToSet(pKeys[i]) : k \in PKeys /\ KeyOf[k] \in Keys /\ KeyOf[k] \in Int
<1>1. pKeys[i] \in Seq(PKeys)
  OBVIOUS
<1>2. \A k \in ToSet(pKeys[i]) : k \in PKeys
  BY <1>1 DEF ToSet
<1>3. QED
  BY <1>1, <1>2, KeyAssumption

(* One call, if the calls it makes answer. *)
LEMMA CallAnswers ==
  ASSUME pKeys \in Seq(Seq(PKeys)), KeysAscend, NEW key \in Int, NEW search,
         NEW f \in 0 .. Len(pKeys), NEW l \in -1 .. Len(pKeys) - 1, Narrowed(f, l, key),
         \A c \in Bounds :
           span(c) < span(<<f, l>>) /\ Narrowed(c[1], c[2], key) => Answers(search[c], key)
  PROVE  Answers(searchCall(search, f, l, key), key)
<1> DEFINE m == (l + f) \div 2
<1>0. Len(pKeys) \in Nat /\ DOMAIN pKeys = 1 .. Len(pKeys)
  OBVIOUS
<1>1. CASE l < f
  <2>1. l + 1 = f
    BY <1>1 DEF Narrowed
  <2>2. \A i \in DOMAIN pKeys : \A k \in ToSet(pKeys[i]) :
          IF i <= f THEN KeyOf[k] < key ELSE key < KeyOf[k]
    BY <1>0, <2>1 DEF Narrowed
  <2>3. Answers([found |-> FALSE, index |-> f, fatal |-> "no"], key)
    BY <2>2 DEF Answers
  <2>4. QED
    BY <1>1, <2>3 DEF searchCall
<1>2. CASE f <= l
  <2>1. m \in f .. l
    BY <1>2, Middle
  <2>2. PICK mid \in f .. l : mid = m
    BY <2>1
  <2> HIDE DEF m
  <2>3. mid \in 0 .. Len(pKeys) - 1 /\ mid + 1 \in DOMAIN pKeys
    BY <1>0
  <2> DEFINE list == pKeys[mid + 1]
  <2>4. list \in Seq(PKeys)
    BY <2>3
  <2>5. CASE list = <<>> \/ Head(list) \in deleted
    <3>1. list = <<>> \/ Head(list) \in deleted \cap ToSet(list)
      BY <2>4, <2>5, HeadIsIn
    <3>2. Answers([found |-> FALSE, index |-> mid, fatal |-> "undefined"], key)
      BY <2>3, <3>1 DEF Answers
    <3>3. QED
      BY <1>2, <2>2, <2>5, <3>2 DEF searchCall, At, m
  <2>6. CASE ~ (list = <<>> \/ Head(list) \in deleted)
    <3>1. Head(list) \in ToSet(list) /\ KeyOf[Head(list)] \in Int
      BY <2>3, <2>4, <2>6, HeadIsIn, ListType
    <3>2. CASE KeyOf[Head(list)] < key
      <4>1. ASSUME NEW i \in DOMAIN pKeys, NEW k \in ToSet(pKeys[i]), i <= mid + 1
            PROVE  KeyOf[k] < key
        <5>1. KeyOf[k] \in Int
          BY ListType
        <5>2. i < mid + 1 => KeyOf[k] < KeyOf[Head(list)]
          BY <2>3, <3>1 DEF KeysAscend
        <5>3. i = mid + 1 => KeyOf[k] = KeyOf[Head(list)]
          BY <2>3, <3>1 DEF KeysAscend
        <5>4. i < mid + 1 \/ i = mid + 1
          BY <1>0, <2>3, <4>1
        <5>5. CASE i < mid + 1
          <6>1. KeyOf[k] < KeyOf[Head(list)]
            BY <5>2, <5>5
          <6> HIDE DEF list
          <6>2. QED
            BY <3>1, <3>2, <5>1, <6>1
        <5>6. QED
          BY <5>3, <5>4, <5>5, <3>2
      <4>2. Narrowed(mid + 1, l, key)
        BY <4>1 DEF Narrowed
      <4>3. <<mid + 1, l>> \in Bounds /\ span(<<mid + 1, l>>) < span(<<f, l>>)
        <5>1. f \in Int /\ l \in Int /\ mid \in Int /\ f <= mid
          OBVIOUS
        <5>2. mid + 1 \in 0 .. Len(pKeys)
          BY <1>0, <2>3
        <5>3. <<mid + 1, l>> \in Bounds
          BY <5>2 DEF Bounds
        <5>4. span(<<mid + 1, l>>) < span(<<f, l>>)
          BY <1>0, <5>1 DEF span
        <5>5. QED
          BY <5>3, <5>4
      <4>4. Answers(search[<<mid + 1, l>>], key)
        BY <4>2, <4>3
      <4>5. QED
        BY <1>2, <2>2, <2>6, <3>2, <4>4 DEF searchCall, At, m
    <3>3. CASE KeyOf[Head(list)] = key
      <4>1. Answers([found |-> TRUE, index |-> mid, fatal |-> "no"], key)
        BY <2>3, <2>6, <3>3 DEF Answers, At
      <4>2. QED
        BY <1>2, <2>2, <2>6, <3>1, <3>3, <4>1 DEF searchCall, At, m
    <3>4. CASE key < KeyOf[Head(list)]
      <4>1. ASSUME NEW i \in DOMAIN pKeys, NEW k \in ToSet(pKeys[i]), i > mid
            PROVE  key < KeyOf[k]
        <5>1. KeyOf[k] \in Int
          BY ListType
        <5>2. mid + 1 < i => KeyOf[Head(list)] < KeyOf[k]
          BY <2>3, <3>1 DEF KeysAscend
        <5>3. i = mid + 1 => KeyOf[k] = KeyOf[Head(list)]
          BY <2>3, <3>1 DEF KeysAscend
        <5>4. mid + 1 < i \/ i = mid + 1
          BY <1>0, <2>3, <4>1
        <5>5. CASE mid + 1 < i
          <6>1. KeyOf[Head(list)] < KeyOf[k]
            BY <5>2, <5>5
          <6> HIDE DEF list
          <6>2. QED
            BY <3>1, <3>4, <5>1, <6>1
        <5>6. QED
          BY <5>3, <5>4, <5>5, <3>4
      <4>2. CASE mid = 0
        <5>1. Answers([found |-> FALSE, index |-> 0, fatal |-> "endless"], key)
          BY <1>0, <4>1, <4>2 DEF Answers
        <5>2. QED
          BY <1>2, <2>2, <2>6, <3>1, <3>4, <4>2, <5>1 DEF searchCall, At, m
      <4>3. CASE mid # 0
        <5>1. Narrowed(f, mid - 1, key)
          BY <4>1 DEF Narrowed
        <5>2. <<f, mid - 1>> \in Bounds /\ span(<<f, mid - 1>>) < span(<<f, l>>)
          <6>1. f \in Int /\ l \in Int /\ mid \in Int /\ mid <= l
            OBVIOUS
          <6>2. mid - 1 \in -1 .. Len(pKeys) - 1
            BY <1>0, <2>3
          <6>3. <<f, mid - 1>> \in Bounds
            BY <6>2 DEF Bounds
          <6>4. span(<<f, mid - 1>>) < span(<<f, l>>)
            BY <1>0, <6>1 DEF span
          <6>5. QED
            BY <6>3, <6>4
        <5>3. Answers(search[<<f, mid - 1>>], key)
          BY <5>1, <5>2
        <5>4. QED
          BY <1>2, <2>2, <2>6, <3>1, <3>4, <4>3, <5>3 DEF searchCall, At, m
      <4>4. QED
        BY <4>2, <4>3
    <3>5. QED
      BY <3>1, <3>2, <3>3, <3>4
  <2>7. QED
    BY <2>5, <2>6
<1>3. QED
  BY <1>1, <1>2

(* PacketManager::binarySearchKey on any sorted table. *)
LEMMA SearchAnswers ==
  ASSUME pKeys \in Seq(Seq(PKeys)), KeysAscend, NEW key \in Int
  PROVE  Answers(binarySearchKey(key), key)
<1> DEFINE Solves(s) == s = [b \in Bounds |-> searchCall(s, b[1], b[2], key)]
           search == CHOOSE s : Solves(s)
           top == <<0, Len(pKeys) - 1>>
           Done == { d \in Nat : \A b \in Bounds :
                       span(b) = d /\ Narrowed(b[1], b[2], key) => Answers(search[b], key) }
<1>1. Solves(search)
  BY SearchExists
<1> HIDE DEF search
<1>2. Len(pKeys) \in Nat /\ DOMAIN pKeys = 1 .. Len(pKeys) /\ \A b \in Bounds : span(b) \in Nat
  BY DEF Bounds, span
<1>3. ASSUME NEW d \in Nat, \A e \in 0 .. d - 1 : e \in Done
      PROVE  d \in Done
  <2> SUFFICES ASSUME NEW b \in Bounds, span(b) = d, Narrowed(b[1], b[2], key)
               PROVE  Answers(search[b], key)
    OBVIOUS
  <2>1. b[1] \in 0 .. Len(pKeys) /\ b[2] \in -1 .. Len(pKeys) - 1 /\ b = <<b[1], b[2]>>
    BY DEF Bounds
  <2>2. ASSUME NEW c \in Bounds, span(c) < span(<<b[1], b[2]>>), Narrowed(c[1], c[2], key)
        PROVE  Answers(search[c], key)
    <3>1. span(c) \in Done
      <4> HIDE DEF Done
      <4>1. span(c) \in Nat /\ span(c) < d
        BY <1>2, <2>1, <2>2
      <4>2. QED
        BY <1>3, <4>1
    <3>2. QED
      BY <2>2, <3>1
  <2>3. search[b] = searchCall(search, b[1], b[2], key)
    BY <1>1
  <2>4. QED
    BY <2>1, <2>2, <2>3, CallAnswers
<1>4. span(top) \in Done
  <2> HIDE DEF Done
  <2>1. Nat \subseteq Done
    BY <1>3, StrongInduction
  <2>2. QED
    BY <1>2, <2>1 DEF span
<1>5. top \in Bounds /\ Narrowed(top[1], top[2], key)
  BY <1>2 DEF Bounds, Narrowed
<1>6. Answers(search[top], key)
  BY <1>4, <1>5
<1>7. binarySearchKey(key) = search[top]
  BY DEF binarySearchKey, search
<1>8. QED
  BY <1>6, <1>7

--------------------------------------------------------------------------------
(* What addPKey and removePKey make of the table *)

(* How the elements of a concatenation are those of its parts. *)
LEMMA ConcatElements ==
  ASSUME NEW S, NEW s \in Seq(S), NEW t \in Seq(S)
  PROVE  /\ s \o t \in Seq(S) /\ Len(s \o t) = Len(s) + Len(t)
         /\ \A j \in 1 .. Len(s) : (s \o t)[j] = s[j]
         /\ \A j \in 1 .. Len(t) : (s \o t)[Len(s) + j] = t[j]
  OBVIOUS

LEMMA InsertAtElements ==
  ASSUME NEW S, NEW s \in Seq(S), NEW e \in S, NEW i \in 1 .. Len(s) + 1
  PROVE  /\ InsertAt(s, i, e) \in Seq(S) /\ Len(InsertAt(s, i, e)) = Len(s) + 1
         /\ InsertAt(s, i, e)[i] = e
         /\ \A j \in 1 .. i - 1 : InsertAt(s, i, e)[j] = s[j]
         /\ \A j \in i .. Len(s) : InsertAt(s, i, e)[j + 1] = s[j]
<1> DEFINE front == SubSeq(s, 1, i - 1)
           back == SubSeq(s, i, Len(s))
           most == front \o <<e>>
<1>1. front \in Seq(S) /\ Len(front) = i - 1 /\ \A j \in 1 .. i - 1 : front[j] = s[j]
  OBVIOUS
<1>2. back \in Seq(S) /\ Len(back) = Len(s) + 1 - i
  OBVIOUS
<1>3. \A j \in i .. Len(s) : back[j + 1 - i] = s[j]
  OBVIOUS
<1>4. InsertAt(s, i, e) = most \o back
  BY DEF InsertAt
<1> HIDE DEF front, back
<1>5. /\ most \in Seq(S) /\ Len(most) = i /\ most[i] = e
      /\ \A j \in 1 .. i - 1 : most[j] = s[j]
  BY <1>1
<1> HIDE DEF most
<1>6. InsertAt(s, i, e) \in Seq(S) /\ Len(InsertAt(s, i, e)) = Len(s) + 1
  <2>1. most \o back \in Seq(S) /\ Len(most \o back) = Len(most) + Len(back)
    BY <1>2, <1>5, ConcatElements
  <2>2. QED
    BY <1>2, <1>4, <1>5, <2>1
<1>7. \A j \in 1 .. i : InsertAt(s, i, e)[j] = most[j]
  BY <1>2, <1>4, <1>5, ConcatElements
<1>8. ASSUME NEW j \in i .. Len(s) PROVE InsertAt(s, i, e)[j + 1] = s[j]
  <2>1. j + 1 - i \in 1 .. Len(back) /\ i + (j + 1 - i) = j + 1
    BY <1>2
  <2>2. InsertAt(s, i, e)[j + 1] = back[j + 1 - i]
    BY <1>2, <1>4, <1>5, <2>1, ConcatElements
  <2>3. QED
    BY <1>3, <2>2
<1>9. InsertAt(s, i, e)[i] = e /\ \A j \in 1 .. i - 1 : InsertAt(s, i, e)[j] = s[j]
  BY <1>5, <1>7
<1>10. QED
  BY <1>6, <1>8, <1>9

LEMMA RemovedIndex ==
  ASSUME NEW S, NEW s \in Seq(S), NEW e \in ToSet(s)
  PROVE  /\ RemoveFirst(s, e) \in Seq(S) /\ Len(RemoveFirst(s, e)) = Len(s) - 1
         /\ \E i \in 1 .. Len(s) :
              /\ s[i] = e
              /\ \A j \in 1 .. i - 1 : RemoveFirst(s, e)[j] = s[j]
              /\ \A j \in i + 1 .. Len(s) : RemoveFirst(s, e)[j - 1] = s[j]
<1> DEFINE I == { i \in 1 .. Len(s) : s[i] = e }
<1>1. I \subseteq Nat /\ I # {}
  BY DEF ToSet
<1>2. PICK n \in I : \A m \in I : ~ (<<m, n>> \in OpToRel(<, Nat))
  BY <1>1, NatLessThanWellFounded, WFMin
<1>3. \A m \in I : ~ (m < n)
  BY <1>1, <1>2 DEF OpToRel
<1>4. \A m \in I : n <= m
  BY <1>3
<1> DEFINE i == SelectInSeq(s, LAMBDA v : v = e)
<1>5. i \in I
  BY <1>1, <1>4 DEF SelectInSeq, Min
<1>6. RemoveFirst(s, e) = RemoveAt(s, i)
  BY <1>1 DEF RemoveFirst
<1> HIDE DEF i
<1>7. i \in 1 .. Len(s) /\ s[i] = e /\ Len(s) \in Nat
  BY <1>5
<1> DEFINE front == SubSeq(s, 1, i - 1)
           back == SubSeq(s, i + 1, Len(s))
<1>8. front \in Seq(S) /\ Len(front) = i - 1 /\ \A j \in 1 .. i - 1 : front[j] = s[j]
  BY <1>7
<1>9. back \in Seq(S) /\ Len(back) = Len(s) - i
  BY <1>7
<1>10. \A j \in i + 1 .. Len(s) : back[j - i] = s[j]
  BY <1>7
<1>11. RemoveFirst(s, e) = front \o back
  BY <1>6 DEF RemoveAt
<1> HIDE DEF front, back
<1>12. front \in Seq(S) /\ back \in Seq(S)
  BY <1>8, <1>9
<1>13. /\ front \o back \in Seq(S) /\ Len(front \o back) = Len(front) + Len(back)
       /\ \A j \in 1 .. Len(front) : (front \o back)[j] = front[j]
       /\ \A j \in 1 .. Len(back) : (front \o back)[Len(front) + j] = back[j]
  BY <1>12, ConcatElements
<1>14. ASSUME NEW j \in i + 1 .. Len(s) PROVE RemoveFirst(s, e)[j - 1] = s[j]
  <2>1. j - i \in 1 .. Len(back) /\ (i - 1) + (j - i) = j - 1
    BY <1>7, <1>9
  <2>2. RemoveFirst(s, e)[j - 1] = back[j - i]
    BY <1>8, <1>11, <1>13, <2>1
  <2>3. QED
    BY <1>10, <2>2
<1>15. RemoveFirst(s, e) \in Seq(S) /\ Len(RemoveFirst(s, e)) = Len(s) - 1
  BY <1>7, <1>8, <1>9, <1>11, <1>13
<1>16. \A j \in 1 .. i - 1 : RemoveFirst(s, e)[j] = s[j]
  BY <1>8, <1>11, <1>13
<1>17. QED
  BY <1>7, <1>14, <1>15, <1>16

(* The handlers of a table, and one that is nowhere twice in a list. *)
Registered(tab) == UNION { ToSet(tab[i]) : i \in DOMAIN tab }

Ascending(tab) ==
  \A i, j \in DOMAIN tab : \A x \in ToSet(tab[i]), y \in ToSet(tab[j]) :
    /\ i < j => KeyOf[x] < KeyOf[y]
    /\ i = j => KeyOf[x] = KeyOf[y]

Once(s, k) == \A i, j \in DOMAIN s : s[i] = k /\ s[j] = k => i = j

SingleIn(tab, k) == \A i \in DOMAIN tab : Once(tab[i], k)

LEMMA AppendElements ==
  ASSUME NEW S, NEW s \in Seq(S), NEW e \in S
  PROVE  /\ Append(s, e) \in Seq(S) /\ ToSet(Append(s, e)) = ToSet(s) \cup {e}
         /\ \A k : Once(s, k) /\ (k = e => e \notin ToSet(s)) => Once(Append(s, e), k)
<1> DEFINE r == Append(s, e)
<1>1. /\ r \in Seq(S) /\ Len(r) = Len(s) + 1 /\ r[Len(s) + 1] = e
      /\ \A i \in 1 .. Len(s) : r[i] = s[i]
  OBVIOUS
<1> HIDE DEF r
<1>2. ToSet(r) = ToSet(s) \cup {e}
  BY <1>1 DEF ToSet
<1>3. ASSUME NEW k, Once(s, k), k = e => e \notin ToSet(s) PROVE Once(r, k)
  <2> SUFFICES ASSUME NEW i \in 1 .. Len(r), NEW j \in 1 .. Len(r), r[i] = k, r[j] = k
               PROVE  i = j
    BY <1>1 DEF Once
  <2>1. CASE i \in 1 .. Len(s) /\ j \in 1 .. Len(s)
    BY <1>1, <1>3, <2>1 DEF Once
  <2>2. CASE i = Len(s) + 1 /\ j \in 1 .. Len(s)
    BY <1>1, <1>3, <2>2 DEF ToSet
  <2>3. CASE j = Len(s) + 1 /\ i \in 1 .. Len(s)
    BY <1>1, <1>3, <2>3 DEF ToSet
  <2>4. QED
    BY <1>1, <2>1, <2>2, <2>3
<1>4. QED
  BY <1>1, <1>2, <1>3 DEF r

LEMMA RemoveElements ==
  ASSUME NEW S, NEW s \in Seq(S), NEW e
  PROVE  /\ RemoveFirst(s, e) \in Seq(S) /\ ToSet(RemoveFirst(s, e)) \subseteq ToSet(s)
         /\ ToSet(s) \ {e} \subseteq ToSet(RemoveFirst(s, e))
         /\ Once(s, e) => e \notin ToSet(RemoveFirst(s, e))
         /\ \A k : Once(s, k) => Once(RemoveFirst(s, e), k)
<1>1. CASE e \notin ToSet(s)
  <2>1. RemoveFirst(s, e) = s
    BY <1>1 DEF RemoveFirst, ToSet
  <2>2. QED
    BY <1>1, <2>1
<1>2. CASE e \in ToSet(s)
  <2> DEFINE r == RemoveFirst(s, e)
  <2>1. r \in Seq(S) /\ Len(r) = Len(s) - 1
    BY <1>2, RemovedIndex
  <2>2. PICK n \in 1 .. Len(s) :
          /\ s[n] = e
          /\ \A j \in 1 .. n - 1 : r[j] = s[j]
          /\ \A j \in n + 1 .. Len(s) : r[j - 1] = s[j]
    BY <1>2, RemovedIndex
  <2> HIDE DEF r
  <2> DEFINE from(j) == IF j < n THEN j ELSE j + 1
             to(i) == IF i < n THEN i ELSE i - 1
  <2>3. ASSUME NEW j \in 1 .. Len(r)
        PROVE  from(j) \in (1 .. Len(s)) \ {n} /\ r[j] = s[from(j)]
    <3>1. CASE j < n
      BY <2>1, <2>2, <3>1
    <3>2. CASE j >= n
      <4>1. j + 1 \in n + 1 .. Len(s) /\ (j + 1) - 1 = j
        BY <2>1, <3>2
      <4>2. r[j] = s[j + 1]
        BY <2>2, <4>1
      <4>3. QED
        BY <2>1, <3>2, <4>2
    <3>3. QED
      BY <3>1, <3>2
  <2>4. ASSUME NEW i \in (1 .. Len(s)) \ {n}
        PROVE  to(i) \in 1 .. Len(r) /\ r[to(i)] = s[i]
    <3>1. CASE i < n
      BY <2>1, <2>2, <3>1
    <3>2. CASE i > n
      <4>1. i \in n + 1 .. Len(s) /\ r[i - 1] = s[i]
        BY <2>2, <3>2
      <4>2. QED
        BY <2>1, <3>2, <4>1
    <3>3. QED
      BY <3>1, <3>2
  <2>5. \A i, j \in 1 .. Len(r) : from(i) = from(j) => i = j
    BY <2>1
  <2> HIDE DEF from, to
  <2>6. DOMAIN r = 1 .. Len(r) /\ DOMAIN s = 1 .. Len(s)
    BY <2>1
  <2>7. ToSet(r) \subseteq ToSet(s) /\ ToSet(s) \ {e} \subseteq ToSet(r)
    <3>1. \A j \in 1 .. Len(r) : r[j] \in ToSet(s)
      BY <2>3, <2>6 DEF ToSet
    <3>2. \A i \in (1 .. Len(s)) \ {n} : s[i] \in ToSet(r)
      BY <2>4, <2>6 DEF ToSet
    <3>3. QED
      BY <2>2, <2>6, <3>1, <3>2 DEF ToSet
  <2>8. ASSUME Once(s, e), e \in ToSet(r) PROVE FALSE
    <3>1. PICK j \in 1 .. Len(r) : r[j] = e
      BY <2>6, <2>8 DEF ToSet
    <3>2. QED
      BY <2>2, <2>3, <2>6, <2>8, <3>1 DEF Once
  <2>9. ASSUME NEW k, Once(s, k) PROVE Once(r, k)
    <3> SUFFICES ASSUME NEW i \in 1 .. Len(r), NEW j \in 1 .. Len(r), r[i] = k, r[j] = k
                 PROVE  i = j
      BY <2>6 DEF Once
    <3>1. s[from(i)] = k /\ s[from(j)] = k /\ from(i) \in DOMAIN s /\ from(j) \in DOMAIN s
      BY <2>3, <2>6
    <3>2. from(i) = from(j)
      BY <2>9, <3>1 DEF Once
    <3>3. QED
      BY <2>5, <3>2
  <2>10. QED
    BY <2>1, <2>7, <2>8, <2>9 DEF r
<1>3. QED
  BY <1>1, <1>2
LEMMA RegisteredIn ==
  ASSUME NEW tab, NEW k
  PROVE  k \in Registered(tab) <=> \E i \in DOMAIN tab : k \in ToSet(tab[i])
  BY DEF Registered

LEMMA InsertKeeps ==
  ASSUME pKeys \in Seq(Seq(PKeys)), KeysAscend, NEW k \in PKeys,
         NEW s, Answers(s, KeyOf[k]), s.fatal = "no"
  PROVE  /\ inserted(s, k) \in Seq(Seq(PKeys)) /\ Ascending(inserted(s, k))
         /\ Registered(inserted(s, k)) = Registered(pKeys) \cup {k}
         /\ \A x : SingleIn(pKeys, x) /\ (x = k => k \notin Registered(pKeys))
                     => SingleIn(inserted(s, k), x)
<1> DEFINE new == inserted(s, k)
           n == s.index + 1
<1>0. DOMAIN pKeys = 1 .. Len(pKeys) /\ Len(pKeys) \in Nat /\ \A i \in DOMAIN pKeys : pKeys[i] \in Seq(PKeys)
  OBVIOUS
<1>1. KeyOf[k] \in Int /\ \A i \in DOMAIN pKeys : \A x \in ToSet(pKeys[i]) : KeyOf[x] \in Int
  BY ListType, KeyAssumption
<1>2. CASE s.found
  <2>1. /\ n \in DOMAIN pKeys /\ pKeys[n] # <<>> /\ KeyOf[Head(pKeys[n])] = KeyOf[k]
        /\ new = [pKeys EXCEPT ![n] = Append(pKeys[n], k)]
    BY <1>2 DEF Answers, At, inserted
  <2> HIDE DEF new, n
  <2>2. /\ DOMAIN new = DOMAIN pKeys /\ new[n] = Append(pKeys[n], k)
        /\ \A i \in DOMAIN pKeys \ {n} : new[i] = pKeys[i]
    BY <2>1
  <2>3. /\ new[n] \in Seq(PKeys) /\ ToSet(new[n]) = ToSet(pKeys[n]) \cup {k}
        /\ \A x : Once(pKeys[n], x) /\ (x = k => k \notin ToSet(pKeys[n])) => Once(new[n], x)
    BY <1>0, <2>1, <2>2, AppendElements
  <2>4. new \in Seq(Seq(PKeys))
    BY <2>1, <2>2, <2>3
  <2>5. ASSUME NEW i \in DOMAIN new, NEW x \in ToSet(new[i])
        PROVE  \E y \in ToSet(pKeys[i]) : KeyOf[y] = KeyOf[x]
    <3>1. Head(pKeys[n]) \in ToSet(pKeys[n])
      BY <1>0, <2>1, HeadIsIn
    <3>2. QED
      BY <2>1, <2>2, <2>3, <3>1
  <2>6. Ascending(new)
    <3> SUFFICES ASSUME NEW i \in DOMAIN new, NEW j \in DOMAIN new,
                        NEW x \in ToSet(new[i]), NEW y \in ToSet(new[j])
                 PROVE  (i < j => KeyOf[x] < KeyOf[y]) /\ (i = j => KeyOf[x] = KeyOf[y])
      BY DEF Ascending
    <3>1. PICK a \in ToSet(pKeys[i]) : KeyOf[a] = KeyOf[x]
      BY <2>5
    <3>2. PICK b \in ToSet(pKeys[j]) : KeyOf[b] = KeyOf[y]
      BY <2>5
    <3>3. QED
      BY <2>2, <3>1, <3>2 DEF KeysAscend
  <2>7. Registered(new) = Registered(pKeys) \cup {k}
    <3>1. \A x : (\E i \in DOMAIN new : x \in ToSet(new[i]))
                 <=> (\E i \in DOMAIN pKeys : x \in ToSet(pKeys[i])) \/ x = k
      BY <2>1, <2>2, <2>3
    <3>2. QED
      BY <3>1, RegisteredIn
  <2>8. ASSUME NEW x, SingleIn(pKeys, x), x = k => k \notin Registered(pKeys)
        PROVE  SingleIn(new, x)
    BY <2>1, <2>2, <2>3, <2>8 DEF SingleIn, Registered
  <2>9. QED
    BY <2>4, <2>6, <2>7, <2>8 DEF new
<1>3. CASE ~ s.found
  <2>0. n \in 1 .. Len(pKeys) + 1 /\ new = InsertAt(pKeys, n, <<k>>)
    BY <1>0, <1>3 DEF Answers, inserted
  <2>1. \A i \in DOMAIN pKeys : \A x \in ToSet(pKeys[i]) :
          IF i < n THEN KeyOf[x] < KeyOf[k] ELSE KeyOf[k] < KeyOf[x]
    BY <1>0, <1>3 DEF Answers
  <2> HIDE DEF new, n
  <2>2. <<k>> \in Seq(PKeys) /\ ToSet(<<k>>) = {k} /\ \A x : Once(<<k>>, x)
    BY DEF ToSet, Once
  <2>3. /\ new \in Seq(Seq(PKeys)) /\ Len(new) = Len(pKeys) + 1 /\ new[n] = <<k>>
        /\ \A j \in 1 .. n - 1 : new[j] = pKeys[j]
        /\ \A j \in n .. Len(pKeys) : new[j + 1] = pKeys[j]
    <3> DEFINE Lists == Seq(PKeys)
               list == <<k>>
    <3>1. list \in Lists /\ pKeys \in Seq(Lists)
      BY <2>2
    <3> HIDE DEF Lists, list
    <3>2. /\ InsertAt(pKeys, n, list) \in Seq(Lists)
          /\ Len(InsertAt(pKeys, n, list)) = Len(pKeys) + 1
          /\ InsertAt(pKeys, n, list)[n] = list
          /\ \A j \in 1 .. n - 1 : InsertAt(pKeys, n, list)[j] = pKeys[j]
          /\ \A j \in n .. Len(pKeys) : InsertAt(pKeys, n, list)[j + 1] = pKeys[j]
      BY <2>0, <3>1, InsertAtElements
    <3>3. QED
      BY <2>0, <3>2 DEF Lists, list
  <2>11. n \in Nat /\ DOMAIN new = 1 .. Len(pKeys) + 1
    BY <1>0, <2>0, <2>3
  <2> DEFINE old(i) == IF i < n THEN i ELSE i - 1
  <2>4. ASSUME NEW i \in (DOMAIN new) \ {n}
        PROVE  old(i) \in DOMAIN pKeys /\ new[i] = pKeys[old(i)]
    <3>1. i \in 1 .. Len(pKeys) + 1 /\ i # n
      BY <2>11
    <3>2. CASE i < n
      <4>1. i \in 1 .. n - 1 /\ i \in 1 .. Len(pKeys)
        BY <1>0, <2>0, <2>11, <3>1, <3>2
      <4>2. QED
        BY <1>0, <2>3, <3>2, <4>1
    <3>3. CASE n < i
      <4>1. i - 1 \in n .. Len(pKeys) /\ (i - 1) + 1 = i /\ i - 1 \in 1 .. Len(pKeys) /\ ~ (i < n)
        BY <1>0, <2>0, <2>11, <3>1, <3>3
      <4>2. QED
        BY <1>0, <2>3, <4>1
    <3>4. QED
      BY <2>11, <3>1, <3>2, <3>3
  <2>5. ASSUME NEW i \in DOMAIN pKeys PROVE \E j \in DOMAIN new : j # n /\ new[j] = pKeys[i]
    <3>1. CASE i < n
      <4>1. i \in 1 .. n - 1 /\ i \in DOMAIN new /\ i # n
        BY <1>0, <2>11, <3>1
      <4>2. QED
        BY <2>3, <4>1
    <3>2. CASE i >= n
      <4>1. i \in n .. Len(pKeys) /\ i + 1 \in DOMAIN new /\ i + 1 # n
        BY <1>0, <2>11, <3>2
      <4>2. new[i + 1] = pKeys[i]
        BY <2>3, <4>1
      <4>3. QED
        BY <4>1, <4>2
    <3>3. QED
      BY <1>0, <2>11, <3>1, <3>2
  <2>6. Ascending(new)
    <3> SUFFICES ASSUME NEW i \in DOMAIN new, NEW j \in DOMAIN new,
                        NEW x \in ToSet(new[i]), NEW y \in ToSet(new[j])
                 PROVE  (i < j => KeyOf[x] < KeyOf[y]) /\ (i = j => KeyOf[x] = KeyOf[y])
      BY DEF Ascending
    <3>0. DOMAIN new = 1 .. Len(pKeys) + 1
      BY <2>3
    <3>1. CASE i # n /\ j # n
      <4>1. x \in ToSet(pKeys[old(i)]) /\ y \in ToSet(pKeys[old(j)])
        BY <2>4, <3>1
      <4>2. /\ old(i) \in DOMAIN pKeys /\ old(j) \in DOMAIN pKeys
            /\ i < j => old(i) < old(j)
            /\ i = j => old(i) = old(j)
        BY <1>0, <2>0, <2>11, <2>4, <3>0, <3>1
      <4> HIDE DEF old
      <4>3. QED
        BY <4>1, <4>2 DEF KeysAscend
    <3>2. CASE i = n /\ j = n
      <4>1. x = k /\ y = k
        BY <2>2, <2>3, <3>2
      <4>2. QED
        BY <2>11, <3>2, <4>1
    <3>3. CASE i = n /\ j # n
      <4>1. x = k /\ y \in ToSet(pKeys[old(j)]) /\ old(j) \in DOMAIN pKeys
        BY <2>2, <2>3, <2>4, <3>3
      <4>2. i < j => ~ (old(j) < n)
        BY <1>0, <2>0, <2>11, <3>0, <3>3
      <4> HIDE DEF old
      <4>3. QED
        BY <2>1, <3>3, <4>1, <4>2
    <3>4. CASE i # n /\ j = n
      <4>1. y = k /\ x \in ToSet(pKeys[old(i)]) /\ old(i) \in DOMAIN pKeys
        BY <2>2, <2>3, <2>4, <3>4
      <4>2. i < j => old(i) < n
        BY <1>0, <2>0, <2>11, <3>0, <3>4
      <4> HIDE DEF old
      <4>3. QED
        BY <2>1, <3>4, <4>1, <4>2
    <3>5. QED
      BY <3>1, <3>2, <3>3, <3>4
  <2> HIDE DEF old
  <2>7. n \in DOMAIN new
    BY <1>0, <2>0, <2>11
  <2>8. Registered(new) = Registered(pKeys) \cup {k}
    <3>1. \A x : (\E i \in DOMAIN new : x \in ToSet(new[i]))
                 => (\E i \in DOMAIN pKeys : x \in ToSet(pKeys[i])) \/ x = k
      BY <2>2, <2>3, <2>4
    <3>2. \A x : (\E i \in DOMAIN pKeys : x \in ToSet(pKeys[i])) \/ x = k
                 => (\E i \in DOMAIN new : x \in ToSet(new[i]))
      BY <2>2, <2>3, <2>5, <2>7
    <3>3. QED
      BY <3>1, <3>2, RegisteredIn
  <2>9. ASSUME NEW x, SingleIn(pKeys, x) PROVE SingleIn(new, x)
    BY <2>2, <2>3, <2>4, <2>9 DEF SingleIn
  <2>10. QED
    BY <2>3, <2>6, <2>8, <2>9 DEF new
<1>4. QED
  BY <1>2, <1>3

LEMMA EraseKeeps ==
  ASSUME pKeys \in Seq(Seq(PKeys)), KeysAscend, NEW k \in PKeys,
         NEW s, Answers(s, KeyOf[k]), s.fatal = "no", s.found
  PROVE  /\ erased(s, k) \in Seq(Seq(PKeys)) /\ Ascending(erased(s, k))
         /\ Registered(erased(s, k)) \subseteq Registered(pKeys)
         /\ Registered(pKeys) \ {k} \subseteq Registered(erased(s, k))
         /\ SingleIn(pKeys, k) => k \notin Registered(erased(s, k))
         /\ \A x : SingleIn(pKeys, x) => SingleIn(erased(s, k), x)
<1> DEFINE new == erased(s, k)
           n == s.index + 1
<1>0. DOMAIN pKeys = 1 .. Len(pKeys) /\ \A i \in DOMAIN pKeys : pKeys[i] \in Seq(PKeys)
  OBVIOUS
<1>1. /\ n \in DOMAIN pKeys /\ pKeys[n] # <<>> /\ KeyOf[Head(pKeys[n])] = KeyOf[k]
      /\ new = [pKeys EXCEPT ![n] = RemoveFirst(pKeys[n], k)]
  BY DEF Answers, At, erased
<1> HIDE DEF new, n
<1>2. /\ DOMAIN new = DOMAIN pKeys /\ new[n] = RemoveFirst(pKeys[n], k)
      /\ \A i \in DOMAIN pKeys \ {n} : new[i] = pKeys[i]
  BY <1>1
<1>3. /\ new[n] \in Seq(PKeys) /\ ToSet(new[n]) \subseteq ToSet(pKeys[n])
      /\ ToSet(pKeys[n]) \ {k} \subseteq ToSet(new[n])
      /\ Once(pKeys[n], k) => k \notin ToSet(new[n])
      /\ \A x : Once(pKeys[n], x) => Once(new[n], x)
  BY <1>0, <1>1, <1>2, RemoveElements
<1>4. new \in Seq(Seq(PKeys))
  BY <1>1, <1>2, <1>3
<1>5. \A i \in DOMAIN new : ToSet(new[i]) \subseteq ToSet(pKeys[i])
  BY <1>2, <1>3
<1>6. Ascending(new)
  BY <1>2, <1>5 DEF Ascending, KeysAscend
<1>7. Registered(new) \subseteq Registered(pKeys)
  BY <1>2, <1>5 DEF Registered
<1>8. Registered(pKeys) \ {k} \subseteq Registered(new)
  BY <1>2, <1>3 DEF Registered
<1>9. ASSUME SingleIn(pKeys, k) PROVE k \notin Registered(new)
  <2> SUFFICES ASSUME NEW i \in DOMAIN new, k \in ToSet(new[i]) PROVE FALSE
    BY DEF Registered
  <2>1. CASE i = n
    BY <1>1, <1>3, <1>9, <2>1 DEF SingleIn
  <2>2. CASE i # n
    <3>1. k \in ToSet(pKeys[i]) /\ Head(pKeys[n]) \in ToSet(pKeys[n])
      BY <1>0, <1>1, <1>2, <2>2, HeadIsIn
    <3>2. KeyOf[k] \in Int /\ i \in Int /\ n \in Int
      BY <1>0, <1>1, <1>2, KeyAssumption
    <3>3. i < n \/ n < i
      BY <2>2, <3>2
    <3>4. KeyOf[k] < KeyOf[Head(pKeys[n])] \/ KeyOf[Head(pKeys[n])] < KeyOf[k]
      BY <1>1, <1>2, <3>1, <3>3 DEF KeysAscend
    <3>5. QED
      BY <1>1, <3>2, <3>4
  <2>3. QED
    BY <2>1, <2>2
<1>10. ASSUME NEW x, SingleIn(pKeys, x) PROVE SingleIn(new, x)
  BY <1>1, <1>2, <1>3, <1>10 DEF SingleIn
<1>11. QED
  BY <1>4, <1>6, <1>7, <1>8, <1>9, <1>10 DEF new

--------------------------------------------------------------------------------

USE ThreadAssumption DEF Threads

(* Where threads are; a thread in the loop of process() has no packet yet. *)
Control ==
  /\ pc \in [Threads -> Places] /\ DOMAIN op = Threads
  /\ pKeysMutex \in Threads \cup {None}
  /\ \A t \in Threads : pc[t] = "queue" => op[t] = NoCall /\ t \in Processors
  /\ \A t \in Threads : Taken(t) # {} => t \in Processors

--------------------------------------------------------------------------------
(* The mutex *)

LEMMA MutexInit == Init => MutexInside
  BY DEF Init, MutexInside, InCall

(* A thread that is not in a handler and ends none changes nothing about the mutex. *)
LEMMA MutexKept ==
  ASSUME MutexInside, Control, NEW t \in Threads, NEW p \in Places \ {"running", "stuck"},
         ~InCall(t), pc' = [pc EXCEPT ![t] = p], UNCHANGED <<pKeysMutex, threw>>
  PROVE  MutexInside'
<1>1. \A u \in Threads : InCall(u)' <=> InCall(u)
  BY DEF Control, InCall
<1>2. QED
  BY <1>1 DEF MutexInside, Control

(* Nor does one that goes on in the call it is in, or only crashes. *)
LEMMA MutexSame ==
  ASSUME MutexInside, UNCHANGED <<pc, pKeysMutex, threw>>
  PROVE  MutexInside'
  BY DEF MutexInside, InCall

(* An exception leaves the mutex behind. *)
LEMMA MutexThrown ==
  ASSUME MutexInside, Control, NEW t \in Threads, Throws(t)
  PROVE  MutexInside'
<1>1. /\ pc' = [pc EXCEPT ![t] = "idle"] /\ pKeysMutex' = pKeysMutex
      /\ threw' = threw \cup {t}
  BY DEF Throws, returns
<1>2. \A u \in Threads : /\ InCall(u)' => InCall(u)
                         /\ u # t => InCall(u)' = InCall(u)
  BY <1>1 DEF Control, InCall
<1>3. QED
  BY <1>1, <1>2 DEF MutexInside, Control

LEMMA MutexCall ==
  ASSUME MutexInside, Control,
         \/ \E key \in Keys : ServerProcess(key) \/ addToProcessing(key)
         \/ \E t \in Apps : Process(t) \/ \E k \in PKeys : OwnerCall(t, k)
  PROVE  MutexInside'
<1>1. ASSUME NEW t \in Threads, NEW c, NEW p \in {"locking", "queue"}, Call(t, c, p)
      PROVE  MutexInside'
  <2>1. p \in Places \ {"running", "stuck"}
    BY DEF Places
  <2>2. ~InCall(t)
    BY <1>1 DEF Call, InCall
  <2>3. pc' = [pc EXCEPT ![t] = p] /\ UNCHANGED <<pKeysMutex, threw>>
    BY <1>1 DEF Call
  <2>4. QED
    BY <2>1, <2>2, <2>3, MutexKept
<1>2. ASSUME NEW key \in Keys, addToProcessing(key) PROVE MutexInside'
  BY <1>2, MutexSame DEF addToProcessing
<1>3. QED
  BY <1>1, <1>2 DEF ServerProcess, Process, OwnerCall

LEMMA MutexStep ==
  ASSUME MutexInside, Control, NEW t \in Threads, Step(t)
  PROVE  MutexInside'
<1>1. ASSUME NEW how, Crash(how) PROVE MutexInside'
  BY <1>1, MutexSame DEF Crash
<1>2. ASSUME NEW p \in {"idle", "deleting", "locking"}, ~InCall(t),
             pc' = [pc EXCEPT ![t] = p], UNCHANGED <<pKeysMutex, threw>>
      PROVE  MutexInside'
  <2>1. p \in Places \ {"running", "stuck"}
    BY DEF Places
  <2>2. QED
    BY <1>2, <2>1, MutexKept
<1>3. CASE addPKey(t)
  BY <1>1, <1>2, <1>3 DEF addPKey, Acquires, returns, InCall
<1>4. CASE removePKey(t)
  BY <1>1, <1>2, <1>4 DEF removePKey, Acquires, returns, InCall
<1>5. CASE deleteKey(t)
  BY <1>2, <1>5 DEF deleteKey, returns, InCall
<1>6. CASE Pop(t)
  BY <1>2, <1>6 DEF Pop, returns, InCall
<1>7. CASE Enter(t)
  <2>1. CASE pKeysMutex = None /\ pKeysMutex' = t /\ pc' = [pc EXCEPT ![t] = "running"]
    <3>1. \A u \in Threads : ~InCall(u)
      BY <2>1 DEF MutexInside
    <3>2. InCall(t)' /\ \A u \in Threads \ {t} : ~InCall(u)'
      BY <2>1, <3>1 DEF InCall, Control
    <3>3. QED
      BY <2>1, <3>2 DEF MutexInside
  <2>2. QED
    BY <1>1, <1>7, <2>1 DEF Enter, Acquires
<1>8. CASE Leave(t)
  <2>1. InCall(t) /\ pKeysMutex' = None /\ \E p \in {"idle", "queue"} : pc' = [pc EXCEPT ![t] = p]
    BY <1>8 DEF Leave, unlocks, returns, InCall
  <2>2. \A u \in Threads \ {t} : ~InCall(u)
    BY <2>1 DEF MutexInside
  <2>3. \A u \in Threads : ~InCall(u)'
    BY <2>1, <2>2 DEF InCall, Control
  <2>4. QED
    BY <2>1, <2>3 DEF MutexInside
<1>9. CASE HandlerReturns(t) \/ HandlerGone(t)
  BY <1>1, <1>9, MutexSame DEF HandlerReturns, HandlerGone
<1>10. CASE HandlerThrows(t)
  BY <1>10, MutexThrown DEF HandlerThrows
<1>11. CASE HandlerRegisters(t)
  <2>1. CASE Throws(t)
    BY <2>1, MutexThrown
  <2>2. CASE /\ pc[t] = "running" /\ pc' = [pc EXCEPT ![t] = "stuck"]
             /\ UNCHANGED <<pKeysMutex, threw>>
    <3>1. \A u \in Threads : InCall(u)' <=> InCall(u)
      BY <2>2 DEF InCall, Control
    <3>2. QED
      BY <2>2, <3>1 DEF MutexInside, Control
  <2>3. QED
    BY <1>11, <2>1, <2>2 DEF HandlerRegisters, Runs
<1>12. CASE LockAgain(t)
  BY <1>12, MutexThrown DEF LockAgain
<1>13. QED
  BY <1>3, <1>4, <1>5, <1>6, <1>7, <1>8, <1>9, <1>10, <1>11, <1>12 DEF Step

--------------------------------------------------------------------------------
(* The queue.  What a step of a thread can do with the packets. *)

Quiet == UNCHANGED <<queue, done>> /\ \A u \in Threads : Taken(u)' = Taken(u)

Takes(t) ==
  /\ syncProcess # <<>> /\ syncProcess' = Tail(syncProcess)
  /\ UNCHANGED <<packetKey, done>>
  /\ t \in Processors
  /\ Taken(t) = {} /\ Taken(t)' = {Head(syncProcess)}
  /\ \A u \in Threads \ {t} : Taken(u)' = Taken(u)

Ends(t) ==
  /\ UNCHANGED queue /\ done' = done \cup Taken(t)
  /\ Taken(t)' = {}
  /\ \A u \in Threads \ {t} : Taken(u)' = Taken(u)

LEMMA TakenOthers ==
  ASSUME Control, NEW t \in Threads, Step(t)
  PROVE  \A u \in Threads \ {t} : Taken(u)' = Taken(u)
<1>1. pc' = pc \/ \E p \in Places : pc' = [pc EXCEPT ![t] = p]
  BY DEF Step, addPKey, removePKey, deleteKey, Pop, Enter, Leave, HandlerReturns, HandlerThrows,
         HandlerRegisters, HandlerGone, LockAgain, Throws, returns, Crash, Places
<1>2. op' = op \/ \E o : op' = [op EXCEPT ![t] = o]
  BY DEF Step, addPKey, removePKey, deleteKey, Pop, Enter, Leave, HandlerReturns, HandlerThrows,
         HandlerRegisters, HandlerGone, LockAgain, Throws, returns, Crash
<1>3. \A u \in Threads \ {t} : pc'[u] = pc[u] /\ op'[u] = op[u]
  BY <1>1, <1>2 DEF Control
<1>4. QED
  BY <1>3 DEF Taken

(* returns ends a call: nothing is taken any more. *)
LEMMA TakenReturned ==
  ASSUME Control, NEW t \in Threads, NEW p \in {"idle", "queue"}, returns(t, p)
  PROVE  Taken(t)' = {}
  BY DEF Control, returns, Taken

LEMMA ThrowsEnds ==
  ASSUME Control, NEW t \in Threads, Step(t), Throws(t), pc[t] \in {"locking", "running"}
  PROVE  Ends(t)
<1>1. Taken(t)' = {}
  BY TakenReturned DEF Throws
<1>2. done' = done \cup Taken(t)
  BY DEF Throws, finished, Taken
<1>3. QED
  BY <1>1, <1>2, TakenOthers DEF Throws, Ends, queue

LEMMA Effect ==
  ASSUME Control, NEW t \in Threads, Step(t)
  PROVE  Quiet \/ Takes(t) \/ Ends(t)
<1>1. ASSUME NEW how, Crash(how) PROVE Quiet
  BY <1>1 DEF Crash, Quiet, Taken, queue
<1>2. ASSUME Taken(t)' = Taken(t), UNCHANGED <<queue, done>> PROVE Quiet
  BY <1>2, TakenOthers DEF Quiet
<1>3. CASE addPKey(t)
  <2>1. CASE returns(t, "idle") /\ UNCHANGED <<queue, done>>
    BY <1>2, <1>3, <2>1, TakenReturned DEF addPKey, Acquires, Taken
  <2>2. QED
    BY <1>1, <1>3, <2>1 DEF addPKey, queue
<1>4. CASE removePKey(t)
  <2>1. Taken(t) = {}
    BY <1>4 DEF removePKey, Acquires, Taken
  <2>2. CASE returns(t, "idle") /\ UNCHANGED <<queue, done>>
    BY <1>2, <2>1, <2>2, TakenReturned
  <2>3. CASE pc' = [pc EXCEPT ![t] = "deleting"] /\ UNCHANGED <<queue, done>>
    BY <1>2, <2>1, <2>3 DEF Taken, Control
  <2>4. QED
    BY <1>1, <1>4, <2>2, <2>3 DEF removePKey, queue
<1>5. CASE deleteKey(t)
  BY <1>2, <1>5, TakenReturned DEF deleteKey, Taken, queue
<1>6. CASE Pop(t)
  <2>1. op[t] = NoCall /\ t \in Processors /\ Taken(t) = {}
    BY <1>6 DEF Pop, Control, Taken
  <2>2. CASE syncProcess = <<>>
    <3>1. returns(t, "idle") /\ UNCHANGED <<queue, done>>
      BY <1>6, <2>2 DEF Pop, queue
    <3>2. QED
      BY <1>2, <2>1, <3>1, TakenReturned
  <2>3. CASE syncProcess # <<>>
    <3>1. /\ op' = [op EXCEPT ![t].packet = Head(syncProcess)]
          /\ pc' = [pc EXCEPT ![t] = "locking"]
          /\ syncProcess' = Tail(syncProcess) /\ UNCHANGED <<packetKey, done>>
      BY <1>6, <2>3 DEF Pop, pop
    <3>2. pc'[t] = "locking" /\ op'[t] = [op[t] EXCEPT !.packet = Head(syncProcess)]
      BY <3>1 DEF Control
    <3>3. op'[t].call = "process" /\ op'[t].packet = Head(syncProcess)
      BY <2>1, <3>2 DEF NoCall
    <3>4. Taken(t)' = {Head(syncProcess)}
      BY <3>2, <3>3 DEF Taken
    <3>5. QED
      BY <2>1, <2>3, <3>1, <3>4, TakenOthers DEF Takes
  <2>4. QED
    BY <2>2, <2>3
<1>7. CASE Enter(t)
  <2>1. CASE pc' = [pc EXCEPT ![t] = "running"] /\ UNCHANGED <<queue, op, done>>
    BY <1>2, <1>7, <2>1 DEF Enter, Acquires, Taken, Control
  <2>2. QED
    BY <1>1, <1>7, <2>1 DEF Enter
<1>8. CASE Leave(t)
  <2>1. Taken(t)' = {}
    BY <1>8, TakenReturned DEF Leave
  <2>2. done' = done \cup Taken(t)
    BY <1>8 DEF Leave, finished, Taken
  <2>3. QED
    BY <1>8, <2>1, <2>2, TakenOthers DEF Leave, Ends
<1>9. CASE HandlerReturns(t) \/ HandlerGone(t)
  BY <1>1, <1>2, <1>9 DEF HandlerReturns, HandlerGone, Taken
<1>10. CASE HandlerThrows(t)
  BY <1>10, ThrowsEnds DEF HandlerThrows, Runs
<1>11. CASE HandlerRegisters(t)
  <2>1. CASE Throws(t)
    BY <1>11, <2>1, ThrowsEnds DEF HandlerRegisters, Runs
  <2>2. CASE pc' = [pc EXCEPT ![t] = "stuck"] /\ UNCHANGED <<queue, op, done>>
    BY <1>2, <1>11, <2>2 DEF HandlerRegisters, Runs, Taken, Control
  <2>3. QED
    BY <1>11, <2>1, <2>2 DEF HandlerRegisters
<1>12. CASE LockAgain(t)
  BY <1>12, ThrowsEnds DEF LockAgain
<1>13. QED
  BY <1>3, <1>4, <1>5, <1>6, <1>7, <1>8, <1>9, <1>10, <1>11, <1>12 DEF Step

(* Calls take nothing; addToProcessing appends the next number. *)
LEMMA CallEffect ==
  ASSUME Control,
         \/ \E key \in Keys : ServerProcess(key) \/ addToProcessing(key)
         \/ \E t \in Apps : Process(t) \/ \E k \in PKeys : OwnerCall(t, k)
  PROVE  \/ Quiet
         \/ /\ \E key \in Keys : packetKey' = Append(packetKey, key)
            /\ syncProcess' = Append(syncProcess, Len(packetKey) + 1)
            /\ done' = done /\ \A t \in Threads : Taken(t)' = Taken(t)
<1>1. ASSUME NEW t \in Threads, NEW c, NEW p, Call(t, c, p),
             p = "locking" => c.call # "process", p \in {"locking", "queue"}
      PROVE  Quiet
  <2>1. Taken(t) = {} /\ pc'[t] = p /\ op'[t] = c
    BY <1>1 DEF Call, Taken, Control
  <2>2. \A u \in Threads \ {t} : pc'[u] = pc[u] /\ op'[u] = op[u]
    BY <1>1 DEF Call, Control
  <2>3. \A u \in Threads : Taken(u)' = Taken(u)
    BY <1>1, <2>1, <2>2 DEF Taken
  <2>4. QED
    BY <1>1, <2>3 DEF Call, Quiet, queue
<1>2. ASSUME NEW key \in Keys, ServerProcess(key) PROVE Quiet
  BY <1>1, <1>2 DEF ServerProcess
<1>3. ASSUME NEW t \in Apps, Process(t) PROVE Quiet
  BY <1>1, <1>3 DEF Process
<1>4. ASSUME NEW t \in Apps, NEW k \in PKeys, OwnerCall(t, k) PROVE Quiet
  <2>1. PICK c \in {"add", "remove", "delete"} : Call(t, [call |-> c, pKey |-> k], "locking")
    BY <1>4 DEF OwnerCall
  <2>2. QED
    BY <1>1, <2>1
<1>5. ASSUME NEW key \in Keys, addToProcessing(key)
      PROVE  /\ packetKey' = Append(packetKey, key)
             /\ syncProcess' = Append(syncProcess, Len(packetKey) + 1)
             /\ done' = done /\ \A t \in Threads : Taken(t)' = Taken(t)
  BY <1>5 DEF addToProcessing, push, number, Taken
<1>6. QED
  BY <1>2, <1>3, <1>4, <1>5

LEMMA ControlInit == Init => Control
  BY DEF Init, Control, Places, Taken, NoCall

LEMMA ControlCall ==
  ASSUME Control,
         \/ \E key \in Keys : ServerProcess(key) \/ addToProcessing(key)
         \/ \E t \in Apps : Process(t) \/ \E k \in PKeys : OwnerCall(t, k)
  PROVE  Control'
<1>1. \A t \in Threads : Taken(t)' = Taken(t)
  BY CallEffect DEF Quiet
<1>2. ASSUME NEW t \in Threads, NEW c, NEW p \in {"locking", "queue"}, Call(t, c, p),
             p = "queue" => c = NoCall /\ t \in Processors
      PROVE  Control'
  <2>1. /\ pc' = [pc EXCEPT ![t] = p] /\ op' = [op EXCEPT ![t] = c]
        /\ pKeysMutex' = pKeysMutex
    BY <1>2 DEF Call
  <2>2. p \in Places
    BY DEF Places
  <2>3. QED
    BY <1>1, <1>2, <2>1, <2>2 DEF Control
<1>3. ASSUME NEW key \in Keys, addToProcessing(key) PROVE Control'
  BY <1>1, <1>3 DEF Control, addToProcessing
<1>4. QED
  BY <1>2, <1>3 DEF ServerProcess, Process, OwnerCall

LEMMA ControlStep ==
  ASSUME Control, NEW t \in Threads, Step(t)
  PROVE  Control'
<1>1. \A u \in Threads : Taken(u)' # {} => u \in Processors
  BY Effect DEF Control, Quiet, Takes, Ends
<1>2. pc' = pc \/ \E p \in Places : pc' = [pc EXCEPT ![t] = p]
  BY DEF Step, addPKey, removePKey, deleteKey, Pop, Enter, Leave, HandlerReturns, HandlerThrows,
         HandlerRegisters, HandlerGone, LockAgain, Throws, returns, Crash, Places
<1>3. op' = op \/ \E o : op' = [op EXCEPT ![t] = o]
  BY DEF Step, addPKey, removePKey, deleteKey, Pop, Enter, Leave, HandlerReturns, HandlerThrows,
         HandlerRegisters, HandlerGone, LockAgain, Throws, returns, Crash
<1>4. pKeysMutex' \in Threads \cup {None}
  BY DEF Step, addPKey, removePKey, deleteKey, Pop, Enter, Leave, HandlerReturns, HandlerThrows,
         HandlerRegisters, HandlerGone, LockAgain, Throws, Crash, Control, unlocks
<1>5. pc'[t] = "queue" => op'[t] = NoCall /\ t \in Processors
  <2>1. CASE pc' = pc /\ op' = op
    BY <2>1 DEF Control
  <2>2. CASE returns(t, "idle")
    BY <2>2 DEF returns, Control
  <2>3. CASE \E p \in Places \ {"queue"} : pc' = [pc EXCEPT ![t] = p]
    BY <2>3 DEF Control
  <2>4. CASE Leave(t)
    <3>1. CASE op[t].call = "process"
      <4>1. Taken(t) # {}
        BY <2>4, <3>1 DEF Leave, Taken
      <4>2. QED
        BY <2>4, <3>1, <4>1 DEF Leave, returns, Control
    <3>2. CASE op[t].call # "process"
      BY <2>4, <3>2 DEF Leave, returns, Control
    <3>3. QED
      BY <3>1, <3>2
  <2>5. QED
    BY <2>1, <2>2, <2>3, <2>4 DEF Step, addPKey, removePKey, deleteKey, Pop, Enter, HandlerReturns,
       HandlerThrows, HandlerRegisters, HandlerGone, LockAgain, Throws, Crash, Places
<1>6. QED
  BY <1>1, <1>2, <1>3, <1>4, <1>5 DEF Control

(***************************************************************************)
(* The queue holds the highest numbers in order.  What was popped is done  *)
(* or in the hands of one thread, and for whatever is done one processor   *)
(* has gone on to a later packet or to none.                               *)
(***************************************************************************)
popped == Len(packetKey) - Len(syncProcess)

Numbered ==
  /\ packetKey \in Seq(Keys) /\ syncProcess \in Seq(Nat) /\ popped \in Nat
  /\ \A i \in 1 .. Len(syncProcess) : syncProcess[i] = popped + i

Handed ==
  /\ done \subseteq 1 .. popped
  /\ \A t \in Threads : Taken(t) \subseteq (1 .. popped) \ done
  /\ \A t \in Threads : \A u \in Threads \ {t} : Taken(t) \cap Taken(u) = {}
  /\ \A n \in (1 .. popped) \ done : \E t \in Threads : n \in Taken(t)

Later == \A n \in done : \E t \in Processors : \A m \in Taken(t) : n < m

QInv == Control /\ Numbered /\ Handed /\ Later

LEMMA QueueInit == Init => QInv
<1> SUFFICES ASSUME Init PROVE QInv
  OBVIOUS
<1>1. packetKey = <<>> /\ syncProcess = <<>> /\ popped = 0 /\ done = {}
  BY DEF Init, popped
<1>2. \A t \in Threads : Taken(t) = {}
  BY DEF Init, Taken
<1>3. QED
  BY <1>1, <1>2, ControlInit DEF QInv, Numbered, Handed, Later

LEMMA QuietKeeps ==
  ASSUME Numbered, Handed, Later, Quiet
  PROVE  Numbered' /\ Handed' /\ Later'
<1>1. popped' = popped /\ Numbered'
  BY DEF Numbered, Quiet, popped, queue
<1>2. QED
  BY <1>1 DEF Handed, Later, Quiet

LEMMA PushKeeps ==
  ASSUME Numbered, Handed, Later, NEW key \in Keys,
         packetKey' = Append(packetKey, key),
         syncProcess' = Append(syncProcess, Len(packetKey) + 1),
         done' = done, \A t \in Threads : Taken(t)' = Taken(t)
  PROVE  Numbered' /\ Handed' /\ Later'
<1>1. popped' = popped /\ packetKey' \in Seq(Keys) /\ syncProcess' \in Seq(Nat)
  BY DEF Numbered, popped
<1>2. ASSUME NEW i \in 1 .. Len(syncProcess') PROVE syncProcess'[i] = popped + i
  <2>1. CASE i \in 1 .. Len(syncProcess)
    BY <2>1 DEF Numbered
  <2>2. CASE i = Len(syncProcess) + 1
    BY <2>2 DEF Numbered, popped
  <2>3. QED
    BY <2>1, <2>2 DEF Numbered
<1>3. Numbered'
  BY <1>1, <1>2 DEF Numbered
<1>4. Handed' /\ Later'
  BY <1>1 DEF Handed, Later
<1>5. QED
  BY <1>3, <1>4

LEMMA PopKeeps ==
  ASSUME Numbered, Handed, Later, NEW t \in Threads, Takes(t)
  PROVE  Numbered' /\ Handed' /\ Later'
<1>1. /\ Len(syncProcess) >= 1 /\ popped' = popped + 1
      /\ Head(syncProcess) = popped + 1
  BY DEF Numbered, Takes, popped
<1>2. Numbered'
  BY <1>1 DEF Numbered, Takes
<1>3. Taken(t)' = {popped + 1} /\ Taken(t) = {} /\ done' = done /\ popped \in Nat
  BY <1>1 DEF Takes, Numbered
<1>4. \A u \in Threads \ {t} : Taken(u)' = Taken(u) /\ Taken(u) \subseteq 1 .. popped
  BY DEF Takes, Handed
<1>5. Handed'
  <2>1. done' \subseteq 1 .. popped' /\ \A u \in Threads : Taken(u)' \subseteq (1 .. popped') \ done'
    BY <1>1, <1>3, <1>4 DEF Handed
  <2>2. \A v \in Threads : \A u \in Threads \ {v} : Taken(v)' \cap Taken(u)' = {}
    BY <1>3, <1>4 DEF Handed
  <2>3. ASSUME NEW n \in (1 .. popped') \ done' PROVE \E u \in Threads : n \in Taken(u)'
    <3>1. CASE n = popped + 1
      BY <1>3, <3>1
    <3>2. CASE n # popped + 1
      <4>1. n \in (1 .. popped) \ done
        BY <1>1, <1>3, <2>3, <3>2
      <4>2. PICK u \in Threads : n \in Taken(u)
        BY <4>1 DEF Handed
      <4>3. QED
        BY <1>3, <1>4, <4>2
    <3>3. QED
      BY <3>1, <3>2
  <2>4. QED
    BY <2>1, <2>2, <2>3 DEF Handed
<1>6. Later'
  <2> SUFFICES ASSUME NEW n \in done
               PROVE  \E u \in Processors : \A m \in Taken(u)' : n < m
    BY <1>3 DEF Later
  <2>1. n \in 1 .. popped
    BY DEF Handed
  <2>2. QED
    BY <1>3, <2>1 DEF Takes
<1>7. QED
  BY <1>2, <1>5, <1>6

LEMMA EndKeeps ==
  ASSUME Control, Numbered, Handed, Later, NEW t \in Threads, Ends(t)
  PROVE  Numbered' /\ Handed' /\ Later'
<1>1. popped' = popped /\ Numbered'
  BY DEF Numbered, Ends, popped, queue
<1>2. /\ done' = done \cup Taken(t) /\ Taken(t)' = {}
      /\ \A u \in Threads \ {t} : Taken(u)' = Taken(u)
  BY DEF Ends
<1>3. Handed'
  <2>1. done' \subseteq 1 .. popped' /\ \A u \in Threads : Taken(u)' \subseteq (1 .. popped') \ done'
    <3>1. done' \subseteq 1 .. popped'
      BY <1>1, <1>2 DEF Handed
    <3>2. ASSUME NEW u \in Threads PROVE Taken(u)' \subseteq (1 .. popped') \ done'
      <4>1. CASE u = t
        BY <1>2, <4>1
      <4>2. CASE u # t
        <5>1. Taken(u)' = Taken(u) /\ Taken(u) \subseteq (1 .. popped) \ done
          BY <1>2, <4>2 DEF Handed
        <5>2. Taken(u) \cap Taken(t) = {}
          BY <4>2 DEF Handed
        <5>3. QED
          BY <1>1, <1>2, <5>1, <5>2
      <4>3. QED
        BY <4>1, <4>2
    <3>3. QED
      BY <3>1, <3>2
  <2>2. \A v \in Threads : \A u \in Threads \ {v} : Taken(v)' \cap Taken(u)' = {}
    BY <1>2 DEF Handed
  <2>3. \A n \in (1 .. popped') \ done' : \E u \in Threads : n \in Taken(u)'
    BY <1>1, <1>2 DEF Handed
  <2>4. QED
    BY <2>1, <2>2, <2>3 DEF Handed
<1>4. Later'
  <2> SUFFICES ASSUME NEW n \in done'
               PROVE  \E u \in Processors : \A m \in Taken(u)' : n < m
    BY DEF Later
  <2>1. CASE n \in Taken(t)
    BY <1>2, <2>1 DEF Control
  <2>2. CASE n \in done
    <3>1. PICK u \in Processors : \A m \in Taken(u) : n < m
      BY <2>2 DEF Later
    <3>2. QED
      BY <1>2, <3>1
  <2>3. QED
    BY <1>2, <2>1, <2>2
<1>5. QED
  BY <1>1, <1>3, <1>4

LEMMA QueueStep == QInv /\ [Next]_vars => QInv'
<1> SUFFICES ASSUME QInv, [Next]_vars PROVE QInv'
  OBVIOUS
<1>1. CASE UNCHANGED vars
  <2>1. UNCHANGED <<pc, op, pKeysMutex, syncProcess, packetKey, done>>
    BY <1>1 DEF vars, queue
  <2>2. popped' = popped /\ \A t \in Threads : Taken(t)' = Taken(t)
    BY <2>1 DEF popped, Taken
  <2>3. Control'
    BY <2>1, <2>2 DEF QInv, Control
  <2>4. Numbered'
    BY <2>1, <2>2 DEF QInv, Numbered
  <2>5. Handed' /\ Later'
    BY <2>1, <2>2 DEF QInv, Control, Handed, Later
  <2>6. QED
    BY <2>3, <2>4, <2>5 DEF QInv
<1>2. ASSUME NEW t \in Threads, Step(t) PROVE QInv'
  BY <1>2, ControlStep, Effect, QuietKeeps, PopKeeps, EndKeeps DEF QInv
<1>3. CASE \/ \E key \in Keys : ServerProcess(key) \/ addToProcessing(key)
           \/ \E t \in Apps : Process(t) \/ \E k \in PKeys : OwnerCall(t, k)
  BY <1>3, ControlCall, CallEffect, QuietKeeps, PushKeeps DEF QInv
<1>4. QED
  BY <1>1, <1>2, <1>3 DEF Next

--------------------------------------------------------------------------------

(* Numbers, hands and order of the queue of PacketManager.h:38, in every state. *)
THEOREM QueueInvariant == Spec => []QInv
<1>1. QED
  BY QueueInit, QueueStep, PTL DEF Spec

(***************************************************************************)
(* pKeysMutex is held by whoever runs a handler, and is left locked only   *)
(* by a handler that threw (PacketManager.cpp:99 and :139).                *)
(***************************************************************************)
THEOREM MutualExclusion == Spec => []MutexInside
<1>1. MutexInside /\ Control /\ [Next]_vars => MutexInside'
  <2> SUFFICES ASSUME MutexInside, Control, [Next]_vars PROVE MutexInside'
    OBVIOUS
  <2>1. CASE UNCHANGED vars
    BY <2>1, MutexSame DEF vars
  <2>2. CASE Next
    BY <2>2, MutexCall, MutexStep DEF Next
  <2>3. QED
    BY <2>1, <2>2
<1>2. QInv => Control
  BY DEF QInv
<1>3. QED
  BY <1>1, <1>2, MutexInit, QueueInvariant, PTL DEF Spec

(***************************************************************************)
(* However many threads call process(), no packet of the queue is lost or  *)
(* run twice (PacketManager.cpp:75).                                       *)
(***************************************************************************)
THEOREM OncePerPacket == Spec => []EachPacketOnce
<1>1. QInv => EachPacketOnce
  <2> SUFFICES ASSUME QInv PROVE EachPacketOnce
    OBVIOUS
  <2>1. ToSet(syncProcess) = popped + 1 .. Len(packetKey)
    <3>1. ToSet(syncProcess) = { syncProcess[i] : i \in 1 .. Len(syncProcess) }
      BY DEF ToSet, QInv, Numbered
    <3>2. \A n \in popped + 1 .. Len(packetKey) : n - popped \in 1 .. Len(syncProcess)
      BY DEF QInv, Numbered, popped
    <3>3. \A n \in popped + 1 .. Len(packetKey) : syncProcess[n - popped] = n
      BY <3>2 DEF QInv, Numbered
    <3>4. \A i \in 1 .. Len(syncProcess) : syncProcess[i] \in popped + 1 .. Len(packetKey)
      BY DEF QInv, Numbered, popped
    <3>5. QED
      BY <3>1, <3>2, <3>3, <3>4
  <2>2. popped \in Nat /\ Len(packetKey) \in Nat
    BY DEF QInv, Numbered
  <2>3. ASSUME NEW n \in 1 .. Len(packetKey)
        PROVE  n \in ToSet(syncProcess) \cup done \cup UNION { Taken(t) : t \in Threads }
    <3>1. CASE n > popped
      BY <2>1, <2>2, <3>1
    <3>2. CASE n <= popped
      BY <2>2, <3>2 DEF QInv, Handed
    <3>3. QED
      BY <2>2, <3>1, <3>2
  <2>4. ToSet(syncProcess) \cap done = {}
        /\ \A t \in Threads : Taken(t) \cap (ToSet(syncProcess) \cup done) = {}
    BY <2>1, <2>2 DEF QInv, Handed
  <2>5. QED
    BY <2>3, <2>4 DEF QInv, Handed, EachPacketOnce
<1>2. QED
  BY <1>1, QueueInvariant, PTL

(***************************************************************************)
(* How far packets overtake each other: each of the older ones that still  *)
(* wait is in the hands of a thread of its own, and one thread is beyond   *)
(* them all.                                                               *)
(***************************************************************************)
THEOREM BoundedReordering == Spec => []ReorderBounded
<1>1. QInv => ReorderBounded
  <2> SUFFICES ASSUME QInv, NEW n \in done
               PROVE  Cardinality((1 .. n) \ done) < Cardinality(Processors)
    BY DEF ReorderBounded
  <2> DEFINE waiting == (1 .. n) \ done
  <2>1. PICK t \in Processors : \A m \in Taken(t) : n < m
    BY DEF QInv, Later
  <2>2. n \in 1 .. popped /\ popped \in Nat
    BY DEF QInv, Numbered, Handed
  <2>3. \A m \in waiting : \E u \in Threads : m \in Taken(u)
    BY <2>2 DEF QInv, Handed
  <2> DEFINE holder == [m \in waiting |-> CHOOSE u \in Threads : m \in Taken(u)]
  <2>4. \A m \in waiting : holder[m] \in Threads /\ m \in Taken(holder[m])
    BY <2>3
  <2>5. \A m \in waiting : holder[m] \in Processors \ {t}
    BY <2>1, <2>2, <2>4 DEF QInv, Control
  <2>6. \A u \in Threads : \A m, k \in Taken(u) : m = k
    BY DEF Taken
  <2>7. holder \in Injection(waiting, Processors \ {t})
    <3> HIDE DEF holder
    <3>1. DOMAIN holder = waiting /\ holder \in [waiting -> Processors \ {t}]
      BY <2>5 DEF holder
    <3>2. \A m, k \in waiting : holder[m] = holder[k] => m = k
      BY <2>4, <2>6
    <3>3. QED
      BY <3>1, <3>2 DEF Injection, IsInjective
  <2>8. IsFiniteSet(Processors \ {t}) /\ Cardinality(Processors \ {t}) = Cardinality(Processors) - 1
    BY FS_RemoveElement
  <2>9. IsFiniteSet(waiting) /\ Cardinality(waiting) <= Cardinality(Processors \ {t})
    BY <2>7, <2>8, FS_Injection
  <2>10. QED
    BY <2>8, <2>9, FS_CardinalityType
<1>2. QED
  BY <1>1, QueueInvariant, PTL

--------------------------------------------------------------------------------
(* What an owner's thread is about to do with a PKey, it does to its own and a living one. *)
Holds(t) ==
  /\ pc[t] = "deleting" => op[t].call = "delete" /\ op[t].pKey \notin owned
  /\ pc[t] \in {"locking", "deleting"} /\ op[t].call \in {"add", "remove", "delete"}
       => OwnerOf[op[t].pKey] = t /\ op[t].pKey \notin deleted

TInv ==
  /\ KeysAscend
  /\ owned \subseteq Registered(pKeys) /\ Registered(pKeys) \subseteq owned \cup again
  /\ \A k \in PKeys \ again : SingleIn(pKeys, k)
  /\ owned \cap deleted = {}
  /\ \A t \in Threads :
       /\ Holds(t)
       /\ ToSet(handlers[t]) \subseteq Registered(pKeys)
       /\ handlers[t] # <<>> => InCall(t)
  /\ Len(packetKey) <= MaxPackets

DInv == QInv /\ MutexInside /\ TypeOK /\ TInv

LEMMA CallFields ==
  ASSUME NEW c \in Calls
  PROVE  \/ c.call \in {"add", "remove", "delete"} /\ c.pKey \in PKeys /\ "pKey" \in DOMAIN c
         \/ c.call = "serve" /\ c.key \in Keys /\ "pKey" \notin DOMAIN c
         \/ c.call = "process" /\ "pKey" \notin DOMAIN c
  BY DEF Calls

(* Whoever has the lock knows what to look for. *)
LEMMA OwnerKey ==
  ASSUME DInv, NEW t \in Threads, Acquires(t, {"add"}) \/ Acquires(t, {"remove", "delete"})
  PROVE  op[t].pKey \in PKeys /\ KeyOf[op[t].pKey] \in Int /\ "pKey" \in DOMAIN op[t]
<1>1. op[t] \in Calls
  BY DEF DInv, TypeOK
<1>2. op[t].pKey \in PKeys /\ "pKey" \in DOMAIN op[t]
  BY <1>1, CallFields DEF Acquires
<1>3. QED
  BY <1>2, KeyAssumption

LEMMA PacketKey ==
  ASSUME DInv, NEW t \in Threads, Acquires(t, {"serve", "process"})
  PROVE  keyOf(op[t]) \in Int /\ "pKey" \notin DOMAIN op[t]
<1>1. op[t] \in Calls
  BY DEF DInv, TypeOK
<1>2. CASE op[t].call = "serve"
  BY <1>1, <1>2, CallFields, KeyAssumption DEF keyOf
<1>3. CASE op[t].call = "process"
  <2>1. op[t].packet \in 1 .. popped
    BY <1>3 DEF Acquires, Taken, DInv, QInv, Handed
  <2>2. op[t].packet \in 1 .. Len(packetKey) /\ packetKey \in Seq(Keys)
    BY <2>1 DEF DInv, QInv, Numbered, popped
  <2>3. packetKey[op[t].packet] \in Keys
    BY <2>2
  <2>4. QED
    BY <1>1, <1>3, <2>3, CallFields, KeyAssumption DEF keyOf
<1>4. QED
  BY <1>2, <1>3 DEF Acquires

LEMMA OwnerSearch ==
  ASSUME DInv, NEW t \in Threads, Acquires(t, {"add"}) \/ Acquires(t, {"remove", "delete"})
  PROVE  Answers(binarySearchKey(KeyOf[op[t].pKey]), KeyOf[op[t].pKey])
<1>1. pKeys \in Seq(Seq(PKeys)) /\ KeysAscend
  BY DEF DInv, TypeOK, TInv
<1>2. QED
  BY <1>1, OwnerKey, SearchAnswers

LEMMA PacketSearch ==
  ASSUME DInv, NEW t \in Threads, Acquires(t, {"serve", "process"})
  PROVE  Answers(binarySearchKey(keyOf(op[t])), keyOf(op[t]))
<1>1. pKeys \in Seq(Seq(PKeys)) /\ KeysAscend
  BY DEF DInv, TypeOK, TInv
<1>2. QED
  BY <1>1, PacketKey, SearchAnswers

--------------------------------------------------------------------------------
(* The table and the owners' lists *)

Tables ==
  /\ pKeys \in Seq(Seq(PKeys)) /\ KeysAscend
  /\ owned \subseteq PKeys /\ again \subseteq PKeys /\ deleted \subseteq PKeys
  /\ owned \subseteq Registered(pKeys) /\ Registered(pKeys) \subseteq owned \cup again
  /\ \A k \in PKeys \ again : SingleIn(pKeys, k)
  /\ owned \cap deleted = {}

Adds(t) ==
  LET k == op[t].pKey
      s == binarySearchKey(KeyOf[k])
  IN
  /\ Acquires(t, {"add"}) /\ s.fatal = "no"
  /\ pKeys' = inserted(s, k) /\ owned' = owned \cup {k}
  /\ again' = IF k \in owned THEN again \cup {k} ELSE again
  /\ deleted' = deleted

Removes(t) ==
  LET k == op[t].pKey
      s == binarySearchKey(KeyOf[k])
  IN
  /\ Acquires(t, {"remove", "delete"}) /\ s.fatal = "no"
  /\ pKeys' = IF s.found THEN erased(s, k) ELSE pKeys
  /\ owned' = owned \ {k} /\ UNCHANGED <<again, deleted>>

LEMMA Ascends == (KeysAscend <=> Ascending(pKeys)) /\ (KeysAscend' <=> Ascending(pKeys'))
  BY DEF KeysAscend, Ascending

LEMMA TablesOf == DInv => Tables
  BY DEF DInv, TInv, TypeOK, Tables

LEMMA AddKeeps ==
  ASSUME DInv, NEW t \in Threads, Adds(t)
  PROVE  Tables' /\ Registered(pKeys) \subseteq Registered(pKeys')
<1> DEFINE k == op[t].pKey
           s == binarySearchKey(KeyOf[k])
<1>1. Tables
  BY TablesOf
<1>2. k \in PKeys /\ Answers(s, KeyOf[k])
  BY OwnerKey, OwnerSearch DEF Adds
<1>3. k \notin deleted
  BY DEF Adds, Acquires, DInv, TInv, Holds
<1>4. /\ s.fatal = "no" /\ pKeys' = inserted(s, k) /\ owned' = owned \cup {k}
      /\ again' = (IF k \in owned THEN again \cup {k} ELSE again) /\ deleted' = deleted
  BY DEF Adds
<1> HIDE DEF k, s
<1>5. /\ pKeys' \in Seq(Seq(PKeys)) /\ Ascending(pKeys')
      /\ Registered(pKeys') = Registered(pKeys) \cup {k}
      /\ \A x : SingleIn(pKeys, x) /\ (x = k => k \notin Registered(pKeys)) => SingleIn(pKeys', x)
  BY <1>1, <1>2, <1>4, InsertKeeps DEF Tables
<1>6. \A x \in PKeys \ again' : SingleIn(pKeys', x)
  <2> SUFFICES ASSUME NEW x \in PKeys \ again' PROVE SingleIn(pKeys', x)
    OBVIOUS
  <2>1. x \notin again /\ SingleIn(pKeys, x)
    BY <1>1, <1>4 DEF Tables
  <2>2. x = k => k \notin Registered(pKeys)
    BY <1>1, <1>4, <2>1 DEF Tables
  <2>3. QED
    BY <1>5, <2>1, <2>2
<1>7. QED
  BY <1>1, <1>2, <1>3, <1>4, <1>5, <1>6, Ascends DEF Tables

LEMMA RemoveKeeps ==
  ASSUME DInv, NEW t \in Threads, Removes(t)
  PROVE  Tables'
<1> DEFINE k == op[t].pKey
           s == binarySearchKey(KeyOf[k])
<1>1. Tables
  BY TablesOf
<1>2. k \in PKeys /\ KeyOf[k] \in Int /\ Answers(s, KeyOf[k])
  BY OwnerKey, OwnerSearch DEF Removes
<1>3. /\ s.fatal = "no" /\ pKeys' = (IF s.found THEN erased(s, k) ELSE pKeys)
      /\ owned' = owned \ {k} /\ UNCHANGED <<again, deleted>>
  BY DEF Removes
<1> HIDE DEF k, s
<1>4. /\ pKeys' \in Seq(Seq(PKeys)) /\ Ascending(pKeys')
      /\ Registered(pKeys') \subseteq Registered(pKeys)
      /\ Registered(pKeys) \ {k} \subseteq Registered(pKeys')
      /\ SingleIn(pKeys, k) => k \notin Registered(pKeys')
      /\ \A x : SingleIn(pKeys, x) => SingleIn(pKeys', x)
  <2>1. CASE s.found
    BY <1>1, <1>2, <1>3, <2>1, EraseKeeps DEF Tables
  <2>2. CASE ~ s.found
    <3>1. \A i \in DOMAIN pKeys : k \notin ToSet(pKeys[i])
      BY <1>2, <1>3, <2>2 DEF Answers
    <3>2. k \notin Registered(pKeys)
      BY <3>1, RegisteredIn
    <3>3. QED
      BY <1>1, <1>3, <2>2, <3>2, Ascends DEF Tables
  <2>3. QED
    BY <2>1, <2>2
<1>5. QED
  BY <1>1, <1>2, <1>3, <1>4, Ascends DEF Tables

(* The key of op[t] is deleted by the thread that has it. *)
Deletes(t) ==
  /\ pc[t] = "deleting" /\ UNCHANGED <<pKeys, owned, again>>
  /\ deleted' = deleted \cup {op[t].pKey}

LEMMA DeleteKeeps ==
  ASSUME DInv, NEW t \in Threads, Deletes(t)
  PROVE  Tables'
<1>1. Tables /\ op[t].pKey \notin owned
  BY TablesOf DEF DInv, TInv, Holds, Deletes
<1>2. op[t].pKey \in PKeys
  <2>1. op[t] \in Calls /\ op[t].call = "delete"
    BY DEF DInv, TypeOK, TInv, Holds, Deletes
  <2>2. QED
    BY <2>1, CallFields
<1>3. QED
  BY <1>1, <1>2 DEF Tables, Deletes, KeysAscend

LEMMA TableEffect ==
  ASSUME NEW t \in Threads, Step(t)
  PROVE  UNCHANGED <<pKeys, owner>> \/ Adds(t) \/ Removes(t) \/ Deletes(t)
<1>1. CASE addPKey(t)
  BY <1>1 DEF addPKey, Adds, Crash
<1>2. CASE removePKey(t)
  BY <1>2 DEF removePKey, Removes, Crash
<1>3. CASE deleteKey(t)
  BY <1>3 DEF deleteKey, Deletes
<1>4. CASE Pop(t) \/ Enter(t) \/ Leave(t)
  BY <1>4 DEF Pop, Enter, Leave, Crash
<1>5. CASE HandlerReturns(t) \/ HandlerThrows(t) \/ HandlerRegisters(t) \/ HandlerGone(t) \/ LockAgain(t)
  BY <1>5 DEF HandlerReturns, HandlerThrows, HandlerRegisters, HandlerGone, LockAgain, Throws, Crash
<1>6. QED
  BY <1>1, <1>2, <1>3, <1>4, <1>5 DEF Step

LEMMA CallTable ==
  ASSUME \/ \E key \in Keys : ServerProcess(key) \/ addToProcessing(key)
         \/ \E t \in Apps : Process(t) \/ \E k \in PKeys : OwnerCall(t, k)
  PROVE  UNCHANGED <<pKeys, owner, handlers, crashed>>
  BY DEF ServerProcess, addToProcessing, Process, OwnerCall, Call

LEMMA TablesStep ==
  ASSUME DInv, [Next]_vars
  PROVE  Tables'
<1>1. ASSUME UNCHANGED <<pKeys, owner>> PROVE Tables'
  BY <1>1, TablesOf DEF Tables, owner, KeysAscend
<1>2. ASSUME NEW t \in Threads, Step(t) PROVE Tables'
  BY <1>1, <1>2, TableEffect, AddKeeps, RemoveKeeps, DeleteKeeps
<1>3. QED
  BY <1>1, <1>2, CallTable DEF Next, vars

--------------------------------------------------------------------------------
(* What threads hold: the call they are in and the handlers they run *)

OwnerCalls == {"add", "remove", "delete"}

LEMMA TypeOp ==
  ASSUME DInv, [Next]_vars
  PROVE  op' \in [Threads -> Calls]
<1>1. op \in [Threads -> Calls] /\ NoCall \in Calls
  BY BoundsAssumption DEF DInv, TypeOK, NoCall, Calls
<1>2. ASSUME NEW t \in Threads, op' = [op EXCEPT ![t] = NoCall] PROVE op' \in [Threads -> Calls]
  BY <1>1, <1>2
<1>3. ASSUME NEW t \in Threads, NEW c \in Calls, NEW p, Call(t, c, p)
      PROVE op' \in [Threads -> Calls]
  BY <1>1, <1>3 DEF Call
<1>4. ASSUME NEW key \in Keys, ServerProcess(key) PROVE op' \in [Threads -> Calls]
  <2>1. [call |-> "serve", key |-> key] \in Calls
    BY DEF Calls
  <2>2. QED
    BY <1>3, <1>4, <2>1 DEF ServerProcess
<1>5. ASSUME NEW t \in Apps, NEW k \in PKeys, OwnerCall(t, k) PROVE op' \in [Threads -> Calls]
  <2>1. PICK c \in OwnerCalls : Call(t, [call |-> c, pKey |-> k], "locking")
    BY <1>5 DEF OwnerCall, OwnerCalls
  <2>2. [call |-> c, pKey |-> k] \in Calls
    BY DEF Calls, OwnerCalls
  <2>3. QED
    BY <1>3, <2>1, <2>2
<1>6. ASSUME NEW t \in Apps, Process(t) PROVE op' \in [Threads -> Calls]
  BY <1>1, <1>3, <1>6 DEF Process
<1>7. ASSUME NEW t \in Threads, Pop(t), syncProcess # <<>> PROVE op' \in [Threads -> Calls]
  <2>1. op[t] = NoCall /\ op' = [op EXCEPT ![t].packet = Head(syncProcess)]
    BY <1>7 DEF Pop, DInv, QInv, Control
  <2>7. syncProcess \in Seq(1 .. MaxPackets)
    BY DEF DInv, TypeOK
  <2>2. Head(syncProcess) \in 1 .. MaxPackets
    <3> DEFINE numbers == 1 .. MaxPackets
    <3> HIDE DEF numbers
    <3>1. syncProcess \in Seq(numbers)
      BY <2>7 DEF numbers
    <3>2. Head(syncProcess) \in numbers
      BY <1>7, <3>1
    <3>3. QED
      BY <3>2 DEF numbers
  <2>3. [op[t] EXCEPT !.packet = Head(syncProcess)] = [call |-> "process", packet |-> Head(syncProcess)]
    BY <2>1 DEF NoCall
  <2>4. [call |-> "process", packet |-> Head(syncProcess)] \in Calls
    BY <2>2, BoundsAssumption DEF Calls
  <2>5. op' = [op EXCEPT ![t] = [call |-> "process", packet |-> Head(syncProcess)]]
    BY <2>1, <2>3
  <2>6. QED
    BY <1>1, <2>4, <2>5
<1>8. ASSUME NEW t \in Threads, Step(t)
      PROVE  op' = op \/ op' = [op EXCEPT ![t] = NoCall] \/ (Pop(t) /\ syncProcess # <<>>)
  <2>1. CASE addPKey(t) \/ removePKey(t) \/ deleteKey(t) \/ Enter(t) \/ Leave(t)
    BY <2>1 DEF addPKey, removePKey, deleteKey, Enter, Leave, returns, Crash
  <2>2. CASE Pop(t)
    BY <2>2 DEF Pop, returns
  <2>3. CASE Throws(t)
    BY <2>3 DEF Throws, returns
  <2>4. CASE HandlerReturns(t) \/ HandlerGone(t) \/ (HandlerRegisters(t) /\ ~ Throws(t))
    BY <2>4 DEF HandlerReturns, HandlerRegisters, HandlerGone, Crash
  <2>5. QED
    BY <1>8, <2>1, <2>2, <2>3, <2>4 DEF Step, HandlerThrows, LockAgain
<1>9. CASE op' = op
  BY <1>1, <1>9
<1>10. QED
  BY <1>2, <1>4, <1>5, <1>6, <1>7, <1>8, <1>9 DEF Next, vars, addToProcessing

LEMMA TypeQueue ==
  ASSUME DInv, [Next]_vars
  PROVE  syncProcess' \in Seq(1 .. MaxPackets) /\ Len(packetKey') <= MaxPackets
<1>1. /\ syncProcess \in Seq(1 .. MaxPackets) /\ packetKey \in Seq(Keys)
      /\ Len(packetKey) <= MaxPackets /\ MaxPackets \in Nat
  BY BoundsAssumption DEF DInv, TypeOK, TInv
<1>2. CASE UNCHANGED queue
  BY <1>1, <1>2 DEF queue
<1>3. ASSUME NEW key \in Keys, addToProcessing(key)
      PROVE  syncProcess' \in Seq(1 .. MaxPackets) /\ Len(packetKey') <= MaxPackets
  BY <1>1, <1>3 DEF addToProcessing, push, number
<1>4. ASSUME NEW t \in Threads, Step(t)
      PROVE  syncProcess' \in Seq(1 .. MaxPackets) /\ Len(packetKey') <= MaxPackets
  <2>1. CASE Takes(t)
    BY <1>1, <2>1 DEF Takes
  <2>2. QED
    BY <1>2, <1>4, <2>1, Effect DEF Quiet, Ends, DInv, QInv
<1>5. UNCHANGED vars => UNCHANGED queue
  BY DEF vars, queue
<1>6. ASSUME \/ \E key \in Keys : ServerProcess(key)
             \/ \E t \in Apps : Process(t) \/ \E k \in PKeys : OwnerCall(t, k)
      PROVE  UNCHANGED queue
  BY <1>6 DEF ServerProcess, Process, OwnerCall, Call
<1>7. QED
  BY <1>2, <1>3, <1>4, <1>5, <1>6 DEF Next

(* Handlers are run from the table, under the mutex. *)
LEMMA HandlersStep ==
  ASSUME DInv, [Next]_vars
  PROVE  /\ handlers' \in [Threads -> Seq(PKeys)]
         /\ \A t \in Threads : /\ ToSet(handlers'[t]) \subseteq Registered(pKeys')
                               /\ handlers'[t] # <<>> => InCall(t)'
<1>1. /\ handlers \in [Threads -> Seq(PKeys)] /\ pc \in [Threads -> Places]
      /\ \A t \in Threads : /\ ToSet(handlers[t]) \subseteq Registered(pKeys)
                            /\ handlers[t] # <<>> => InCall(t)
  BY DEF DInv, TypeOK, TInv
<1> DEFINE Ok == /\ handlers' \in [Threads -> Seq(PKeys)]
                 /\ \A t \in Threads : /\ ToSet(handlers'[t]) \subseteq Registered(pKeys')
                                       /\ handlers'[t] # <<>> => InCall(t)'
<1>2. ToSet(<<>>) = {} /\ <<>> \in Seq(PKeys)
  BY DEF ToSet
<1>3. CASE UNCHANGED <<pKeys, handlers, pc>>
  BY <1>1, <1>3 DEF InCall
<1>4. ASSUME NEW t \in Threads, ~ InCall(t), UNCHANGED handlers,
             \A u \in Threads \ {t} : pc'[u] = pc[u],
             Registered(pKeys) \subseteq Registered(pKeys')
      PROVE  Ok
  BY <1>1, <1>2, <1>4 DEF InCall
<1>5. ASSUME NEW t \in Threads, Removes(t), UNCHANGED handlers,
             \A u \in Threads \ {t} : pc'[u] = pc[u]
      PROVE  Ok
  <2>1. \A u \in Threads : ~ InCall(u)
    BY <1>5 DEF Removes, Acquires, DInv, MutexInside
  <2>2. \A u \in Threads : handlers[u] = <<>>
    BY <1>1, <2>1
  <2>3. QED
    BY <1>1, <1>2, <1>5, <2>2
<1>6. ASSUME NEW t \in Threads, NEW h \in Seq(PKeys), handlers' = [handlers EXCEPT ![t] = h],
             ToSet(h) \subseteq Registered(pKeys), h # <<>> => InCall(t)',
             UNCHANGED pKeys, \A u \in Threads \ {t} : pc'[u] = pc[u]
      PROVE  Ok
  BY <1>1, <1>6 DEF InCall
<1>7. ASSUME NEW t \in Threads, Step(t) PROVE \A u \in Threads \ {t} : pc'[u] = pc[u]
  <2>1. pc' = pc \/ \E p : pc' = [pc EXCEPT ![t] = p]
    BY <1>7 DEF Step, addPKey, removePKey, deleteKey, Pop, Enter, Leave, HandlerReturns, HandlerThrows,
         HandlerRegisters, HandlerGone, LockAgain, Throws, returns, Crash
  <2>2. QED
    BY <1>1, <2>1
<1>8. ASSUME NEW t \in Threads, addPKey(t) \/ removePKey(t) \/ deleteKey(t) \/ Pop(t) PROVE Ok
  <2>1. ~ InCall(t) /\ UNCHANGED handlers
    BY <1>8 DEF addPKey, removePKey, deleteKey, Pop, Acquires, InCall, Crash
  <2>2. Step(t)
    BY <1>8 DEF Step
  <2>3. CASE Removes(t)
    BY <1>5, <1>7, <2>1, <2>2, <2>3
  <2>4. CASE ~ Removes(t)
    <3>1. Registered(pKeys) \subseteq Registered(pKeys')
      BY <2>2, <2>4, TableEffect, AddKeeps DEF Deletes
    <3>2. QED
      BY <1>4, <1>7, <2>1, <2>2, <3>1
  <2>5. QED
    BY <2>3, <2>4
<1>9. ASSUME NEW t \in Threads, Enter(t) PROVE Ok
  <2> DEFINE s == binarySearchKey(keyOf(op[t]))
  <2>1. CASE s.fatal # "no"
    BY <1>3, <1>9, <2>1 DEF Enter, Crash
  <2>2. CASE s.fatal = "no"
    <3> DEFINE h == IF s.found THEN At(s.index) ELSE <<>>
    <3>1. /\ handlers' = [handlers EXCEPT ![t] = h] /\ UNCHANGED pKeys
          /\ pc' = [pc EXCEPT ![t] = "running"]
      BY <1>9, <2>2 DEF Enter
    <3>2. Answers(s, keyOf(op[t]))
      BY <1>9, PacketSearch DEF Enter
    <3> HIDE DEF s
    <3>3. s.found => s.index + 1 \in DOMAIN pKeys
      BY <2>2, <3>2 DEF Answers
    <3>4. h \in Seq(PKeys) /\ ToSet(h) \subseteq Registered(pKeys)
      BY <1>2, <3>3 DEF At, Registered, DInv, TypeOK
    <3>5. InCall(t)' /\ \A u \in Threads \ {t} : pc'[u] = pc[u]
      BY <1>1, <3>1 DEF InCall
    <3> HIDE DEF h
    <3>6. QED
      BY <1>6, <3>1, <3>4, <3>5
  <2>3. QED
    BY <2>1, <2>2
<1>10. ASSUME NEW t \in Threads, Leave(t) PROVE Ok
  <2>1. handlers[t] = <<>> /\ UNCHANGED <<handlers, pKeys>>
    BY <1>10 DEF Leave
  <2>2. handlers' = [handlers EXCEPT ![t] = <<>>]
    BY <1>1, <2>1
  <2>3. Step(t)
    BY <1>10 DEF Step
  <2>4. QED
    BY <1>2, <1>6, <1>7, <2>1, <2>2, <2>3
<1>11. ASSUME NEW t \in Threads, Step(t), Throws(t) PROVE Ok
  BY <1>2, <1>6, <1>7, <1>11 DEF Throws
<1>12. ASSUME NEW t \in Threads, HandlerReturns(t) PROVE Ok
  <2>1. /\ handlers[t] # <<>> /\ handlers[t] \in Seq(PKeys)
        /\ handlers' = [handlers EXCEPT ![t] = Tail(handlers[t])] /\ UNCHANGED <<pKeys, pc>>
    BY <1>1, <1>12 DEF HandlerReturns, Runs
  <2>2. Tail(handlers[t]) \in Seq(PKeys) /\ ToSet(Tail(handlers[t])) \subseteq ToSet(handlers[t])
    BY <2>1 DEF ToSet
  <2>3. InCall(t)'
    BY <1>1, <2>1 DEF InCall
  <2>4. QED
    BY <1>1, <1>6, <2>1, <2>2, <2>3
<1>13. ASSUME NEW t \in Threads, HandlerRegisters(t), ~ Throws(t) PROVE Ok
  BY <1>1, <1>13 DEF HandlerRegisters, InCall
<1>14. ASSUME NEW t \in Threads, Step(t) PROVE Ok
  <2>1. CASE HandlerGone(t)
    BY <1>3, <2>1 DEF HandlerGone, Crash
  <2>2. QED
    BY <1>8, <1>9, <1>10, <1>11, <1>12, <1>13, <1>14, <2>1 DEF Step, HandlerThrows, LockAgain
<1>15. ASSUME NEW t \in Threads, NEW c, NEW p, Call(t, c, p) PROVE Ok
  <2>1. ~ InCall(t) /\ UNCHANGED <<handlers, pKeys>> /\ \A u \in Threads \ {t} : pc'[u] = pc[u]
    BY <1>1, <1>15 DEF Call, InCall
  <2>2. QED
    BY <1>4, <2>1
<1>16. QED
  <2>1. ASSUME NEW key \in Keys, addToProcessing(key) PROVE Ok
    BY <1>3, <2>1 DEF addToProcessing
  <2>2. ASSUME UNCHANGED vars PROVE Ok
    BY <1>3, <2>2 DEF vars
  <2> HIDE DEF Ok
  <2>3. ASSUME NEW key \in Keys, ServerProcess(key) PROVE Ok
    BY <1>15, <2>3 DEF ServerProcess
  <2>4. ASSUME NEW t \in Apps, Process(t) PROVE Ok
    BY <1>15, <2>4 DEF Process
  <2>5. ASSUME NEW t \in Apps, NEW k \in PKeys, OwnerCall(t, k) PROVE Ok
    <3>1. t \in Threads /\ \E c : Call(t, c, "locking")
      BY <2>5 DEF OwnerCall
    <3>2. QED
      BY <1>15, <3>1
  <2>6. ASSUME Next PROVE Ok
    BY <1>14, <2>1, <2>3, <2>4, <2>5, <2>6 DEF Next
  <2>7. QED
    BY <2>2, <2>6 DEF Ok

(* The owners' threads between a call and its end. *)
LEMMA HoldsStep ==
  ASSUME DInv, [Next]_vars
  PROVE  \A t \in Threads : Holds(t)'
<1>1. /\ pc \in [Threads -> Places] /\ op \in [Threads -> Calls]
      /\ \A t \in Threads : Holds(t)
  BY DEF DInv, TypeOK, TInv
<1>2. OwnerOf \in [PKeys -> Apps]
  BY OwnerAssumption
<1> DEFINE Ok == \A t \in Threads : Holds(t)'
<1>3. ASSUME NEW t \in Threads, pc'[t] \notin {"locking", "deleting"},
             \A u \in Threads \ {t} : pc'[u] = pc[u] /\ op'[u] = op[u],
             UNCHANGED <<owned, deleted>>
      PROVE  Ok
  BY <1>1, <1>3 DEF Holds
<1>4. CASE UNCHANGED <<pc, op, owned, deleted>>
  BY <1>1, <1>4 DEF Holds
<1>5. ASSUME NEW t \in Threads, Step(t)
      PROVE  \A u \in Threads \ {t} : pc'[u] = pc[u] /\ op'[u] = op[u]
  <2>1. pc' = pc \/ \E p : pc' = [pc EXCEPT ![t] = p]
    BY <1>5 DEF Step, addPKey, removePKey, deleteKey, Pop, Enter, Leave, HandlerReturns, HandlerThrows,
         HandlerRegisters, HandlerGone, LockAgain, Throws, returns, Crash
  <2>2. op' = op \/ \E o : op' = [op EXCEPT ![t] = o]
    BY <1>5 DEF Step, addPKey, removePKey, deleteKey, Pop, Enter, Leave, HandlerReturns, HandlerThrows,
         HandlerRegisters, HandlerGone, LockAgain, Throws, returns, Crash
  <2>3. QED
    BY <1>1, <2>1, <2>2
(* A thread that waits to delete holds a key of its own: nobody else adds it. *)
<1>6. ASSUME NEW t \in Threads, NEW u \in Threads \ {t},
             pc[t] \in {"locking", "deleting"}, pc[u] \in {"locking", "deleting"},
             op[t].call \in OwnerCalls, op[u].call \in OwnerCalls
      PROVE  op[t].pKey # op[u].pKey
  BY <1>1, <1>6 DEF Holds, OwnerCalls
<1>7. ASSUME NEW t \in Threads, addPKey(t) PROVE Ok
  <2>1. CASE Crash(binarySearchKey(KeyOf[op[t].pKey]).fatal)
    BY <1>4, <2>1 DEF Crash, owner
  <2>2. CASE Adds(t) /\ returns(t, "idle")
    <3>1. /\ pc[t] = "locking" /\ op[t].call = "add" /\ owned' = owned \cup {op[t].pKey}
          /\ deleted' = deleted /\ pc'[t] = "idle"
      BY <1>1, <2>2 DEF Adds, Acquires, returns
    <3>2. Step(t)
      BY <1>7 DEF Step
    <3>3. ASSUME NEW u \in Threads \ {t} PROVE Holds(u)'
      <4>1. pc'[u] = pc[u] /\ op'[u] = op[u] /\ Holds(u)
        BY <1>1, <1>5, <3>2
      <4>2. pc[u] = "deleting" => op[t].pKey # op[u].pKey
        BY <1>6, <3>1, <4>1 DEF Holds, OwnerCalls
      <4>3. QED
        BY <3>1, <4>1, <4>2 DEF Holds
    <3>4. Holds(t)'
      BY <3>1 DEF Holds
    <3>5. QED
      BY <3>3, <3>4
  <2>3. QED
    BY <1>7, <2>1, <2>2 DEF addPKey, Adds
<1>8. ASSUME NEW t \in Threads, removePKey(t) PROVE Ok
  <2>1. CASE Crash(binarySearchKey(KeyOf[op[t].pKey]).fatal)
    BY <1>4, <2>1 DEF Crash, owner
  <2>2. CASE /\ Removes(t)
             /\ \/ returns(t, "idle")
                \/ op[t].call = "delete" /\ pc' = [pc EXCEPT ![t] = "deleting"] /\ op' = op
    <3>1. /\ pc[t] = "locking" /\ op[t].call \in OwnerCalls /\ owned' = owned \ {op[t].pKey}
          /\ deleted' = deleted
      BY <2>2 DEF Removes, Acquires, OwnerCalls
    <3>2. \A u \in Threads \ {t} : pc'[u] = pc[u] /\ op'[u] = op[u]
      BY <1>5, <1>8 DEF Step
    <3>3. \A u \in Threads \ {t} : Holds(u)'
      BY <1>1, <3>1, <3>2 DEF Holds
    <3>4. Holds(t)'
      BY <1>1, <2>2, <3>1 DEF Holds, returns, OwnerCalls
    <3>5. QED
      BY <3>3, <3>4
  <2>3. QED
    BY <1>8, <2>1, <2>2 DEF removePKey, Removes
<1>9. ASSUME NEW t \in Threads, deleteKey(t) PROVE Ok
  <2>1. /\ pc[t] = "deleting" /\ op[t].call \in OwnerCalls /\ owned' = owned /\ pc'[t] = "idle"
        /\ deleted' = deleted \cup {op[t].pKey}
    BY <1>1, <1>9 DEF deleteKey, returns, Holds, OwnerCalls
  <2>2. \A u \in Threads \ {t} : pc'[u] = pc[u] /\ op'[u] = op[u]
    BY <1>5, <1>9 DEF Step
  <2>3. ASSUME NEW u \in Threads \ {t} PROVE Holds(u)'
    <3>1. (pc[u] \in {"locking", "deleting"} /\ op[u].call \in OwnerCalls) => op[t].pKey # op[u].pKey
      BY <1>6, <2>1
    <3>2. QED
      BY <1>1, <2>1, <2>2, <3>1 DEF Holds, OwnerCalls
  <2>4. Holds(t)'
    BY <2>1 DEF Holds
  <2>5. QED
    BY <2>3, <2>4
<1>10. ASSUME NEW t \in Threads, Pop(t) PROVE Ok
  <2>1. \A u \in Threads \ {t} : pc'[u] = pc[u] /\ op'[u] = op[u]
    BY <1>5, <1>10 DEF Step
  <2>2. UNCHANGED <<owned, deleted>>
    BY <1>10 DEF Pop, owner
  <2>3. CASE returns(t, "idle")
    BY <1>1, <1>3, <2>1, <2>2, <2>3 DEF returns
  <2>4. CASE ~ returns(t, "idle")
    <3>1. op[t] = NoCall /\ op' = [op EXCEPT ![t].packet = Head(syncProcess)] /\ pc'[t] = "locking"
      BY <1>1, <1>10, <2>4 DEF Pop, DInv, QInv, Control
    <3>2. op'[t].call = "process"
      BY <1>1, <3>1 DEF NoCall
    <3>3. Holds(t)' /\ \A u \in Threads \ {t} : Holds(u)'
      BY <1>1, <2>1, <2>2, <3>1, <3>2 DEF Holds
    <3>4. QED
      BY <3>3
  <2>5. QED
    BY <2>3, <2>4
<1>11. ASSUME NEW t \in Threads, UNCHANGED owner, Step(t),
              \/ pc' = pc /\ op' = op
              \/ \E p \in Places \ {"locking", "deleting"} : pc' = [pc EXCEPT ![t] = p]
       PROVE  Ok
  <2>1. UNCHANGED <<owned, deleted>> /\ \A u \in Threads \ {t} : pc'[u] = pc[u] /\ op'[u] = op[u]
    BY <1>5, <1>11 DEF owner
  <2>2. QED
    BY <1>1, <1>3, <1>4, <1>11, <2>1
<1>12. ASSUME NEW t \in Threads, Step(t) PROVE Ok
  <2>1. CASE Enter(t) \/ Leave(t)
    <3>1. /\ UNCHANGED owner
          /\ \/ pc' = pc /\ op' = op
             \/ \E p \in {"running", "idle", "queue"} : pc' = [pc EXCEPT ![t] = p]
      BY <2>1 DEF Enter, Leave, returns, Crash
    <3>2. QED
      BY <1>11, <1>12, <3>1 DEF Places
  <2>2. CASE Throws(t)
    BY <1>11, <1>12, <2>2 DEF Throws, returns, Places
  <2>3. CASE HandlerReturns(t) \/ HandlerGone(t) \/ (HandlerRegisters(t) /\ ~ Throws(t))
    BY <1>11, <1>12, <2>3 DEF HandlerReturns, HandlerGone, HandlerRegisters, Crash, Places
  <2>4. QED
    BY <1>7, <1>8, <1>9, <1>10, <1>12, <2>1, <2>2, <2>3 DEF Step, HandlerThrows, LockAgain
<1>13. ASSUME NEW t \in Threads, NEW c, NEW p \in {"locking", "queue"}, Call(t, c, p),
              c.call \in OwnerCalls => OwnerOf[c.pKey] = t /\ c.pKey \notin deleted
       PROVE  Ok
  <2>1. /\ pc'[t] = p /\ op'[t] = c /\ UNCHANGED <<owned, deleted>>
        /\ \A u \in Threads \ {t} : pc'[u] = pc[u] /\ op'[u] = op[u]
    BY <1>1, <1>13 DEF Call, owner
  <2>2. Holds(t)' /\ \A u \in Threads \ {t} : Holds(u)'
    BY <1>1, <1>13, <2>1 DEF Holds, OwnerCalls
  <2>3. QED
    BY <2>2
<1>14. ASSUME NEW key \in Keys, ServerProcess(key) PROVE Ok
  BY <1>13, <1>14 DEF ServerProcess, OwnerCalls
<1>15. ASSUME NEW t \in Apps, Process(t) PROVE Ok
  BY <1>13, <1>15 DEF Process, NoCall, OwnerCalls
<1>16. ASSUME NEW t \in Apps, NEW k \in PKeys, OwnerCall(t, k) PROVE Ok
  <2>1. PICK c \in OwnerCalls : Call(t, [call |-> c, pKey |-> k], "locking")
    BY <1>16 DEF OwnerCall, OwnerCalls
  <2>2. OwnerOf[k] = t /\ k \notin deleted
    BY <1>16 DEF OwnerCall
  <2> DEFINE r == [call |-> c, pKey |-> k]
  <2>3. r.pKey = k
    OBVIOUS
  <2> HIDE DEF r
  <2>4. QED
    BY <1>13, <2>1, <2>2, <2>3 DEF r
<1>17. ASSUME NEW key \in Keys, addToProcessing(key) PROVE Ok
  BY <1>4, <1>17 DEF addToProcessing, owner
<1>18. ASSUME UNCHANGED vars PROVE Ok
  BY <1>4, <1>18 DEF vars, owner
<1> HIDE DEF Ok
<1>19. Ok
  BY <1>12, <1>14, <1>15, <1>16, <1>17, <1>18 DEF Next
<1>20. QED
  BY <1>19 DEF Ok

--------------------------------------------------------------------------------

LEMMA DispatchInit == Init => DInv
<1> SUFFICES ASSUME Init PROVE DInv
  OBVIOUS
<1>1. /\ pKeys = <<>> /\ owned = {} /\ again = {} /\ deleted = {} /\ packetKey = <<>>
      /\ pc = [t \in Threads |-> "idle"] /\ handlers = [t \in Threads |-> <<>>]
  BY DEF Init
<1>2. NoCall \in Calls /\ MaxPackets \in Nat
  BY BoundsAssumption DEF NoCall, Calls
<1>3. TypeOK
  BY <1>2 DEF Init, TypeOK, Places
<1>4. TInv
  <2>1. KeysAscend /\ Registered(pKeys) = {} /\ \A k : SingleIn(pKeys, k)
    BY <1>1 DEF KeysAscend, Registered, SingleIn
  <2>2. \A t \in Threads : Holds(t) /\ handlers[t] = <<>> /\ ToSet(<<>>) = {}
    BY <1>1 DEF Holds, ToSet
  <2>3. QED
    BY <1>1, <1>2, <2>1, <2>2 DEF TInv
<1>5. QED
  BY <1>3, <1>4, QueueInit, MutexInit DEF DInv

LEMMA DispatchStep == DInv /\ [Next]_vars => DInv'
<1> SUFFICES ASSUME DInv, [Next]_vars PROVE DInv'
  OBVIOUS
<1>1. QInv'
  BY QueueStep DEF DInv
<1>2. MutexInside'
  BY MutexSame, MutexCall, MutexStep DEF DInv, QInv, Next, vars
<1>3. Tables' /\ \A t \in Threads : Holds(t)'
  BY TablesStep, HoldsStep
<1>4. crashed' \in {"no", "undefined", "endless", "terminated"}
  <2>1. crashed \in {"no", "undefined", "endless", "terminated"}
    BY DEF DInv, TypeOK
  <2>2. ASSUME NEW how \in {"no", "undefined", "endless"}, Crash(how)
        PROVE  crashed' \in {"no", "undefined", "endless", "terminated"}
    BY <2>2 DEF Crash
  <2>3. ASSUME NEW t \in Threads, addPKey(t) \/ removePKey(t)
        PROVE  crashed' \in {"no", "undefined", "endless", "terminated"}
    <3>1. Answers(binarySearchKey(KeyOf[op[t].pKey]), KeyOf[op[t].pKey])
      BY <2>3, OwnerSearch DEF addPKey, removePKey
    <3>2. binarySearchKey(KeyOf[op[t].pKey]).fatal \in {"no", "undefined", "endless"}
      BY <3>1 DEF Answers
    <3>3. QED
      BY <2>1, <2>2, <2>3, <3>2 DEF addPKey, removePKey
  <2>4. ASSUME NEW t \in Threads, Enter(t)
        PROVE  crashed' \in {"no", "undefined", "endless", "terminated"}
    <3>1. binarySearchKey(keyOf(op[t])).fatal \in {"no", "undefined", "endless"}
      BY <2>4, PacketSearch DEF Enter, Answers
    <3>2. QED
      BY <2>1, <2>2, <2>4, <3>1 DEF Enter
  <2>5. ASSUME NEW t \in Threads, Step(t)
        PROVE  crashed' \in {"no", "undefined", "endless", "terminated"}
    BY <2>1, <2>3, <2>4, <2>5 DEF Step, deleteKey, Pop, Leave, HandlerReturns, HandlerThrows,
       HandlerRegisters, HandlerGone, LockAgain, Throws, Crash
  <2>6. UNCHANGED vars => crashed' = crashed
    BY DEF vars
  <2>7. QED
    BY <2>1, <2>5, <2>6, CallTable DEF Next
<1>5. done' \subseteq 1 .. MaxPackets
  <2>1. done' \subseteq 1 .. popped' /\ popped' <= Len(packetKey') /\ popped' \in Nat
        /\ Len(packetKey') \in Nat
    BY <1>1 DEF QInv, Handed, Numbered, popped
  <2>2. QED
    BY <2>1, TypeQueue, BoundsAssumption
<1>9. threw' \subseteq Threads
  <2>1. threw \subseteq Threads
    BY DEF DInv, TypeOK
  <2>2. ASSUME NEW t \in Threads, Step(t) PROVE threw' \subseteq threw \cup {t}
    BY <2>2 DEF Step, addPKey, removePKey, deleteKey, Enter, Pop, Leave, HandlerReturns,
       HandlerThrows, HandlerRegisters, HandlerGone, LockAgain, Throws, Crash
  <2>3. UNCHANGED vars => threw' = threw
    BY DEF vars
  <2>4. (\/ \E key \in Keys : ServerProcess(key) \/ addToProcessing(key)
         \/ \E t \in Apps : Process(t) \/ \E k \in PKeys : OwnerCall(t, k))
        => threw' = threw
    BY DEF ServerProcess, addToProcessing, Process, OwnerCall, Call
  <2>5. QED
    BY <2>1, <2>2, <2>3, <2>4 DEF Next
<1>6. TypeOK'
  <2>1. /\ KeysAscend' /\ pKeysMutex' \in Threads \cup {None}
        /\ pc' \in [Threads -> Places]
    BY <1>1, <1>3 DEF Tables, QInv, Control
  <2>2. QED
    BY <1>1, <1>3, <1>4, <1>5, <1>9, <2>1, TypeOp, TypeQueue, HandlersStep
       DEF TypeOK, Tables, QInv, Control, Numbered
<1>7. TInv'
  BY <1>3, TypeQueue, HandlersStep DEF TInv, Tables
<1>8. QED
  BY <1>1, <1>2, <1>6, <1>7 DEF DInv

(* Everything about the table, the owners' lists and who is where, in every state. *)
THEOREM DispatchInvariant == Spec => []DInv
<1>1. QED
  BY DispatchInit, DispatchStep, PTL DEF Spec

(* Types of PacketManager's state. *)
THEOREM DispatchTypes == Spec => []TypeOK
<1>1. DInv => TypeOK
  BY DEF DInv
<1>2. QED
  BY <1>1, DispatchInvariant, PTL

(***************************************************************************)
(* addPKey inserts where binarySearchKey found the place: whatever owners  *)
(* register and remove, the vector stays sorted (PacketManager.cpp:15).    *)
(***************************************************************************)
THEOREM TableSorted == Spec => []KeysAscend
<1>1. DInv => KeysAscend
  BY DEF DInv, TInv
<1>2. QED
  BY <1>1, DispatchInvariant, PTL

(***************************************************************************)
(* A deleted PKey is out of the table and out of every thread's hands,     *)
(* unless it was added twice (PKeyOwner.cpp:24, PacketManager.cpp:32).     *)
(***************************************************************************)
THEOREM NothingDangles == Spec => []NoDangling
<1>1. DInv => NoDangling
  <2> SUFFICES ASSUME DInv, NEW k \in deleted \ again
               PROVE  /\ \A i \in DOMAIN pKeys : k \notin ToSet(pKeys[i])
                      /\ \A t \in Threads : k \notin ToSet(handlers[t])
    BY DEF NoDangling
  <2>1. k \notin Registered(pKeys)
    BY DEF DInv, TInv
  <2>2. QED
    BY <2>1, RegisteredIn DEF DInv, TInv
<1>2. QED
  BY <1>1, DispatchInvariant, PTL

LEMMA UndefinedSearch ==
  ASSUME DInv, NEW key, NEW s, Answers(s, key), s.fatal = "undefined"
  PROVE  again # {} \/ \E i \in DOMAIN pKeys : pKeys[i] = <<>>
<1>1. PICK i \in DOMAIN pKeys : pKeys[i] = <<>> \/ Head(pKeys[i]) \in deleted \cap ToSet(pKeys[i])
  BY DEF Answers
<1>2. CASE Head(pKeys[i]) \in deleted \cap ToSet(pKeys[i])
  <2>1. Head(pKeys[i]) \in Registered(pKeys)
    BY <1>2 DEF Registered
  <2>2. QED
    BY <1>2, <2>1 DEF DInv, TInv
<1>3. QED
  BY <1>1, <1>2

(***************************************************************************)
(* Why the process of PacketManager ends: front() of an emptied list, a    *)
(* PKey that was added twice, or a key below all of the table              *)
(* (PacketManager.cpp:117 to :121).                                        *)
(***************************************************************************)
THEOREM CrashesExplained == Spec => []CrashCause
<1>1. Init => CrashCause
  BY DEF Init, CrashCause
<1>2. DInv /\ CrashCause /\ [Next]_vars => CrashCause'
  <2> SUFFICES ASSUME DInv, CrashCause, [Next]_vars PROVE CrashCause'
    OBVIOUS
  <2>1. CASE UNCHANGED vars
    BY <2>1 DEF vars, CrashCause, keyOf, queue, owner
  <2>2. ASSUME crashed' \in {"no", "terminated"} PROVE CrashCause'
    BY <2>2 DEF CrashCause
  <2>3. ASSUME NEW t \in Threads, pc[t] = "locking", NEW key \in Int, NEW s, Answers(s, key),
               key = (IF "pKey" \in DOMAIN op[t] THEN KeyOf[op[t].pKey] ELSE keyOf(op[t])),
               s.fatal # "no", Crash(s.fatal)
        PROVE  CrashCause'
    <3>1. UNCHANGED <<pKeys, again, pc, op, packetKey>> /\ crashed' = s.fatal
      BY <2>3 DEF Crash, queue, owner
    <3>2. s.fatal \in {"undefined", "endless"}
      BY <2>3 DEF Answers
    <3>3. CASE s.fatal = "undefined"
      BY <2>3, <3>1, <3>3, UndefinedSearch DEF CrashCause
    <3>4. CASE s.fatal = "endless"
      BY <2>3, <3>1, <3>4 DEF CrashCause, Answers, keyOf
    <3>5. QED
      BY <3>2, <3>3, <3>4
  <2>4. ASSUME NEW t \in Threads, Step(t), crashed = "no" PROVE CrashCause'
    <3>1. CASE addPKey(t) \/ removePKey(t)
      <4> DEFINE s == binarySearchKey(KeyOf[op[t].pKey])
      <4>1. CASE s.fatal = "no"
        BY <2>2, <2>4, <3>1, <4>1 DEF addPKey, removePKey
      <4>2. CASE s.fatal # "no"
        <5>1. pc[t] = "locking" /\ Crash(s.fatal)
          BY <3>1, <4>2 DEF addPKey, removePKey, Acquires
        <5>2. /\ KeyOf[op[t].pKey] \in Int /\ "pKey" \in DOMAIN op[t]
              /\ Answers(s, KeyOf[op[t].pKey])
          BY <3>1, OwnerKey, OwnerSearch DEF addPKey, removePKey
        <5> HIDE DEF s
        <5>3. QED
          BY <2>3, <4>2, <5>1, <5>2
      <4>3. QED
        BY <4>1, <4>2
    <3>2. CASE Enter(t)
      <4> DEFINE s == binarySearchKey(keyOf(op[t]))
      <4>1. CASE s.fatal = "no"
        BY <2>2, <2>4, <3>2, <4>1 DEF Enter
      <4>2. CASE s.fatal # "no"
        <5>1. pc[t] = "locking" /\ Crash(s.fatal)
          BY <3>2, <4>2 DEF Enter, Acquires
        <5>2. keyOf(op[t]) \in Int /\ "pKey" \notin DOMAIN op[t] /\ Answers(s, keyOf(op[t]))
          BY <3>2, PacketKey, PacketSearch DEF Enter
        <5> HIDE DEF s
        <5>3. QED
          BY <2>3, <4>2, <5>1, <5>2
      <4>3. QED
        BY <4>1, <4>2
    <3>3. CASE HandlerGone(t)
      <4>1. Head(handlers[t]) \in deleted /\ handlers[t] # <<>> /\ handlers[t] \in Seq(PKeys)
        BY <3>3 DEF HandlerGone, DInv, TypeOK
      <4>2. Head(handlers[t]) \in Registered(pKeys)
        BY <4>1, HeadIsIn DEF DInv, TInv
      <4>3. again # {}
        BY <4>1, <4>2 DEF DInv, TInv
      <4>4. again' = again /\ crashed' = "undefined"
        BY <3>3 DEF HandlerGone, Crash, owner
      <4>5. QED
        BY <4>3, <4>4 DEF CrashCause
    <3>4. CASE crashed' \in {"no", "terminated"}
      BY <2>2, <3>4
    <3>5. QED
      BY <2>4, <3>1, <3>2, <3>3, <3>4 DEF Step, deleteKey, Pop, Leave, HandlerReturns, HandlerThrows,
         HandlerRegisters, LockAgain, Throws
  <2>5. QED
    BY <2>1, <2>2, <2>4, CallTable DEF Next
<1>3. QED
  BY <1>1, <1>2, DispatchInvariant, PTL DEF Spec

(***************************************************************************)
(* A packet reaches all the handlers the owners have for its key and no    *)
(* others (PacketManager.cpp:126 to :143).                                 *)
(***************************************************************************)
THEOREM DispatchComplete == Spec => DispatchesAll
<1> DEFINE wanted(t, set) == { k \in set : KeyOf[k] = keyOf(op[t]) }
           Complete(t) == /\ wanted(t, owned) \subseteq ToSet(handlers'[t])
                          /\ ToSet(handlers'[t]) \subseteq wanted(t, owned \cup again)
<1>1. ASSUME DInv, NEW t \in Threads, Enter(t), pc'[t] = "running" PROVE Complete(t)
  <2> DEFINE s == binarySearchKey(keyOf(op[t]))
             h == IF s.found THEN At(s.index) ELSE <<>>
  <2>0. pc \in [Threads -> Places] /\ handlers \in [Threads -> Seq(PKeys)] /\ Tables
    BY <1>1, TablesOf DEF DInv, TypeOK
  <2>1. s.fatal = "no" /\ handlers'[t] = h
    BY <1>1, <2>0 DEF Enter, Acquires, Crash
  <2>2. Answers(s, keyOf(op[t])) /\ keyOf(op[t]) \in Int
    BY <1>1, PacketSearch, PacketKey DEF Enter
  <2> HIDE DEF s
  <2>3. \A i \in DOMAIN pKeys : \A k \in ToSet(pKeys[i]) :
          KeyOf[k] \in Int /\ (KeyOf[k] = keyOf(op[t]) <=> k \in ToSet(h))
    <3> SUFFICES ASSUME NEW i \in DOMAIN pKeys, NEW k \in ToSet(pKeys[i])
                 PROVE  KeyOf[k] \in Int /\ (KeyOf[k] = keyOf(op[t]) <=> k \in ToSet(h))
      OBVIOUS
    <3>1. KeyOf[k] \in Int
      BY <2>0, ListType DEF Tables
    <3>2. CASE s.found
      <4> DEFINE n == s.index + 1
      <4>1. /\ h = pKeys[n] /\ n \in DOMAIN pKeys /\ pKeys[n] # <<>>
            /\ KeyOf[Head(pKeys[n])] = keyOf(op[t])
        BY <2>1, <2>2, <3>2 DEF Answers, At
      <4> HIDE DEF n, h
      <4>2. pKeys[n] \in Seq(PKeys) /\ n \in Int /\ i \in Int
        BY <2>0, <4>1 DEF Tables
      <4>3. Head(pKeys[n]) \in ToSet(pKeys[n])
        BY <4>1, <4>2, HeadIsIn
      <4>4. ASSUME KeyOf[k] = keyOf(op[t]) PROVE k \in ToSet(h)
        <5>1. ~ (i < n) /\ ~ (n < i)
          BY <2>0, <3>1, <4>1, <4>3, <4>4 DEF Tables, KeysAscend
        <5>2. QED
          BY <4>1, <4>2, <5>1
      <4>5. ASSUME k \in ToSet(h) PROVE KeyOf[k] = keyOf(op[t])
        BY <2>0, <4>1, <4>3, <4>5 DEF Tables, KeysAscend
      <4>6. QED
        BY <3>1, <4>4, <4>5
    <3>3. CASE ~ s.found
      <4>1. KeyOf[k] # keyOf(op[t])
        BY <2>1, <2>2, <3>1, <3>3 DEF Answers
      <4>2. ToSet(h) = {}
        BY <3>3 DEF ToSet
      <4>3. QED
        BY <3>1, <4>1, <4>2
    <3>4. QED
      BY <3>2, <3>3
  <2>4. ToSet(h) \subseteq Registered(pKeys)
    <3>1. CASE s.found
      BY <2>1, <2>2, <3>1 DEF Answers, At, Registered
    <3>2. CASE ~ s.found
      BY <3>2 DEF ToSet
    <3>3. QED
      BY <3>1, <3>2
  <2> HIDE DEF h
  <2>5. \A k \in Registered(pKeys) : KeyOf[k] = keyOf(op[t]) <=> k \in ToSet(h)
    BY <2>3, RegisteredIn
  <2>6. QED
    BY <2>0, <2>1, <2>4, <2>5 DEF Tables
<1>2. ASSUME DInv, [Next]_vars, NEW t \in Threads, pc[t] = "locking", pc'[t] = "running"
      PROVE  Complete(t)
  <2>0. pc \in [Threads -> Places]
    BY <1>2 DEF DInv, TypeOK
  <2>1. pc' # pc
    BY <1>2
  <2>2. ASSUME NEW u \in Threads, NEW c, NEW p \in {"locking", "queue"}, Call(u, c, p) PROVE FALSE
    BY <1>2, <2>0, <2>2 DEF Call
  <2>3. ASSUME NEW u \in Threads, Step(u) PROVE Enter(t)
    <3>1. CASE Enter(u)
      <4>1. pc' = [pc EXCEPT ![u] = "running"]
        BY <2>1, <3>1 DEF Enter, Crash
      <4>2. u = t
        BY <1>2, <2>0, <4>1
      <4>3. QED
        BY <3>1, <4>2
    <3>2. CASE ~ Enter(u)
      <4>1. pc' = pc \/ (\E p \in {"idle", "queue", "deleting", "locking"} : pc' = [pc EXCEPT ![u] = p])
              \/ pc' = [pc EXCEPT ![u] = "stuck"]
        BY <2>3, <3>2 DEF Step, addPKey, removePKey, deleteKey, Pop, Leave, HandlerReturns, HandlerThrows,
           HandlerRegisters, HandlerGone, LockAgain, Throws, returns, Crash
      <4>2. QED
        BY <1>2, <2>0, <4>1
    <3>3. QED
      BY <3>1, <3>2
  <2>4. Enter(t)
    <3>1. ASSUME NEW key \in Keys, ServerProcess(key) \/ addToProcessing(key) PROVE FALSE
      BY <2>1, <2>2, <3>1 DEF ServerProcess, addToProcessing
    <3>2. ASSUME NEW u \in Apps, Process(u) PROVE FALSE
      BY <2>2, <3>2 DEF Process
    <3>3. ASSUME NEW u \in Apps, NEW k \in PKeys, OwnerCall(u, k) PROVE FALSE
      <4>1. u \in Threads /\ \E c : Call(u, c, "locking")
        BY <3>3 DEF OwnerCall
      <4>2. QED
        BY <2>2, <4>1
    <3>4. QED
      BY <1>2, <2>1, <2>3, <3>1, <3>2, <3>3 DEF Next, vars
  <2>5. QED
    BY <1>1, <1>2, <2>4
<1>3. DInv /\ [Next]_vars =>
        [\A t \in Threads :
          pc[t] = "locking" /\ pc'[t] = "running" =>
            LET wantedOf(set) == { k \in set : KeyOf[k] = keyOf(op[t]) } IN
            /\ wantedOf(owned) \subseteq ToSet(handlers'[t])
            /\ ToSet(handlers'[t]) \subseteq wantedOf(owned \cup again)]_vars
  BY <1>2
<1>4. QED
  BY <1>3, DispatchInvariant, PTL DEF Spec, DispatchesAll
================================================================================
