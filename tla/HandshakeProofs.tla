----------------------------- MODULE HandshakeProofs -----------------------------
(* Reads of any number and length; the alphabet is the one of the model. *)
EXTENDS Handshake, AcceptKey, WellFoundedInduction, TLAPS

(* A header line is entered by its first character or by a folded line. *)
LEMMA HeaderEntry ==
  \A e \in Edges :
    e[3] \in MidHeader =>
      e[1] \in MidHeader \/ (e[1] = "header_line_start" /\ e[3] \in {"header_name", "header_lws"})
  BY DEF Edges, MidHeader

LEMMA Targets == \A e \in Edges : e[3] \in States \cup {"complete"}
  BY DEF Edges, States

(* The next state comes from an edge that accepts the input. *)
LEMMA ConsumeEdge ==
  ASSUME NEW s, NEW h, NEW i
  PROVE  \/ consume(s, h, i) = "bad"
         \/ \E e \in Edges : Accepts(e, s, h, i) /\ consume(s, h, i) = e[3]
<1> DEFINE next == {e[3] : e \in {d \in Edges : Accepts(d, s, h, i)}}
<1>1. CASE next = {}
  BY <1>1 DEF consume
<1>2. CASE next # {}
  <2>1. consume(s, h, i) \in next
    BY <1>2 DEF consume
  <2>2. QED
    BY <2>1
<1>3. QED
  BY <1>1, <1>2

LEMMA StateNames ==
  /\ "method_start" \in States /\ "method_start" \notin MidHeader
  /\ "bad" \notin States /\ "complete" \notin States
  BY DEF Edges, States, MidHeader

HInv ==
  /\ TypeOK
  /\ inCall /\ state_ \in MidHeader /\ ~headers => start \in MidHeader
  /\ UndefinedOnlyAfterSplit

LEMMA InitHInv == Init => HInv
  BY StateNames DEF Init, HInv, TypeOK, UndefinedOnlyAfterSplit

LEMMA FreshType ==
  ASSUME TypeOK, NEW input, StepFresh(input)
  PROVE  fresh' \in States \cup {"complete", "bad"} /\ freshHeaders' \in BOOLEAN
<1>1. consume(fresh, freshHeaders, input) \in States \cup {"complete", "bad"}
  BY ConsumeEdge, Targets
<1>2. QED
  BY <1>1 DEF StepFresh, TypeOK, ref

(***************************************************************************)
(* The step that matters.  A state in the middle of a header is reached    *)
(* from another one, or at the start of a line: by pushing a header, or by *)
(* folding, which needs one.                                               *)
(***************************************************************************)
LEMMA ConsumeStep ==
  ASSUME HInv, NEW input \in Chars, NEW isKey \in BOOLEAN, Consume(input, isKey)
  PROVE  HInv'
<1> DEFINE next == consume(state_, headers, input)
<1>1. /\ inCall /\ ~undefined
      /\ undefined' = (appends(state_, next) /\ ~headers)
      /\ state_' = IF next \in States THEN next ELSE state_
      /\ UpdateRequest(next, isKey)
      /\ Answer(next)
      /\ StepFresh(input)
      /\ UNCHANGED <<inCall, start>>
  BY DEF Consume
<1>2. next \in States \cup {"complete", "bad"}
  BY ConsumeEdge, Targets
<1>3. headers' = (headers \/ (state_ = "header_line_start" /\ next = "header_name"))
  BY <1>1 DEF UpdateRequest
<1>4. next \in MidHeader =>
        \/ state_ \in MidHeader
        \/ state_ = "header_line_start" /\ (next = "header_name" \/ headers)
  <2>1. SUFFICES ASSUME next \in MidHeader, state_ \notin MidHeader
                 PROVE  state_ = "header_line_start" /\ (next = "header_name" \/ headers)
    OBVIOUS
  <2>2. next # "bad"
    BY <2>1 DEF MidHeader
  <2>3. PICK e \in Edges : Accepts(e, state_, headers, input) /\ next = e[3]
    BY <2>2, ConsumeEdge
  <2>4. QED
    BY <2>1, <2>3, HeaderEntry DEF Accepts
<1>5. inCall' /\ state_' \in MidHeader /\ ~headers' => start' \in MidHeader
  BY <1>1, <1>3, <1>4 DEF HInv
<1>6. UndefinedOnlyAfterSplit'
  BY <1>1 DEF HInv, UndefinedOnlyAfterSplit, appends, MidHeader
<1>7. TypeOK'
  <2>1. state_' \in States /\ start' \in States /\ inCall' \in BOOLEAN
    BY <1>1 DEF HInv, TypeOK
  <2>2. headers' \in BOOLEAN /\ undefined' \in BOOLEAN
    BY <1>1, <1>3 DEF HInv, TypeOK
  <2>3. current' \in {"key", "other"} /\ key' \in {"absent", "empty", "set"}
    BY <1>1 DEF HInv, TypeOK, UpdateRequest
  <2>4. /\ result' \in {"none", "true", "false", "indeterminate"}
        /\ status' \in {"none", "101", "400"}
    BY <1>1, <1>2 DEF HInv, TypeOK, Answer
  <2>5. fresh' \in States \cup {"complete", "bad"} /\ freshHeaders' \in BOOLEAN
    BY <1>1, FreshType DEF HInv
  <2>6. QED
    BY <2>1, <2>2, <2>3, <2>4, <2>5 DEF TypeOK
<1>8. QED
  BY <1>5, <1>6, <1>7 DEF HInv

LEMMA NextHInv == HInv /\ [Next]_vars => HInv'
<1> SUFFICES ASSUME HInv, [Next]_vars PROVE HInv'
  OBVIOUS
<1>1. CASE UNCHANGED vars
  BY <1>1 DEF vars, req, ref, HInv, TypeOK, UndefinedOnlyAfterSplit
<1>2. CASE BeginRead
  BY <1>2, StateNames DEF BeginRead, HInv, TypeOK, UndefinedOnlyAfterSplit
<1>3. ASSUME NEW input \in Chars, Skip(input) PROVE HInv'
  <2>1. TypeOK'
    BY <1>3, FreshType DEF Skip, req, HInv, TypeOK
  <2>2. QED
    BY <1>3, <2>1 DEF Skip, req, HInv, UndefinedOnlyAfterSplit
<1>4. ASSUME NEW input \in Chars, NEW isKey \in BOOLEAN, Consume(input, isKey)
      PROVE  HInv'
  BY <1>4, ConsumeStep
<1>5. CASE EndOfRead
  BY <1>5 DEF EndOfRead, req, ref, HInv, TypeOK, UndefinedOnlyAfterSplit
<1>6. QED
  BY <1>1, <1>2, <1>3, <1>4, <1>5 DEF Next

(* Every read leaves the parser and the request well formed. *)
THEOREM TypeCorrect == Spec => []TypeOK
  BY InitHInv, NextHInv, PTL DEF Spec, HInv

(* back() is applied to no empty vector unless a header line was split. *)
THEOREM SafeWithoutSplit == Spec => []UndefinedOnlyAfterSplit
  BY InitHInv, NextHInv, PTL DEF Spec, HInv

--------------------------------------------------------------------------------

(* The parser waits for the last line feed and no request has a key. *)
Stuck ==
  /\ state_ = "expecting_newline_3"
  /\ inCall => ~headers /\ key = "absent" /\ status # "101"

LEMMA OneWayOut ==
  \A e \in Edges : e[1] = "expecting_newline_3" => e[3] = "complete"
  BY DEF Edges

LEMMA StuckStep == Stuck /\ [Next]_vars => Stuck'
<1> SUFFICES ASSUME Stuck, [Next]_vars PROVE Stuck'
  OBVIOUS
<1>1. CASE UNCHANGED vars
  BY <1>1 DEF vars, req, Stuck
<1>2. CASE BeginRead
  BY <1>2 DEF BeginRead, Stuck
<1>3. ASSUME NEW input \in Chars, Skip(input) PROVE Stuck'
  BY <1>3 DEF Skip, req, Stuck
<1>4. ASSUME NEW input \in Chars, NEW isKey \in BOOLEAN, Consume(input, isKey)
      PROVE  Stuck'
  <2> DEFINE next == consume(state_, headers, input)
  <2>1. next = "bad" \/ next = "complete"
    BY ConsumeEdge, OneWayOut DEF Stuck, Accepts
  <2>2. inCall /\ ~headers /\ key = "absent"
    BY <1>4 DEF Consume, Stuck
  <2>3. state_' = "expecting_newline_3"
    BY <1>4, <2>1, StateNames DEF Consume, Stuck
  <2>4. UpdateRequest(next, isKey)
    BY <1>4 DEF Consume
  <2>5. ~headers'
    BY <2>2, <2>4 DEF UpdateRequest, Stuck
  <2>6. key' = "absent"
    BY <2>1, <2>2, <2>4 DEF UpdateRequest, Stuck
  <2>7. status' # "101"
    BY <1>4, <2>1, <2>2 DEF Consume, Answer, Stuck
  <2>8. QED
    BY <2>3, <2>5, <2>6, <2>7 DEF Stuck
<1>5. CASE EndOfRead
  BY <1>5 DEF EndOfRead, Stuck
<1>6. QED
  BY <1>1, <1>2, <1>3, <1>4, <1>5 DEF Next

(* After a complete request without a key there is no way to upgrade. *)
THEOREM NeverUpgraded == Spec => NoRecovery
<1>1. ~inCall /\ state_ = "expecting_newline_3" => Stuck
  BY DEF Stuck
<1>2. Stuck => (inCall => status # "101")
  BY DEF Stuck
<1>3. QED
  BY <1>1, <1>2, StuckStep, PTL DEF Spec, NoRecovery

--------------------------------------------------------------------------------
(* The parser beside the one that was reset for the read *)

Version ==
  {"http_version_h", "http_version_t_1", "http_version_t_2", "http_version_p",
   "http_version_slash", "http_version_major_start", "http_version_major",
   "http_version_minor_start", "http_version_minor"}

(***************************************************************************)
(* Where the two parsers can be while what was read is the beginning of a  *)
(* request and the old one, which began in another state, accepts it, too: *)
(* it does not get past the version, or past the name of a header.         *)
(***************************************************************************)
Apart ==
  \/ fresh = "method_start" /\ state_ = start /\ ~headers
  \/ fresh = "method" /\ state_ \in Version \cup {"uri", "header_name"}
  \/ fresh = "uri" /\ state_ \in Version

Early == {"method_start", "method"}

RInv ==
  /\ undefined => result = "none"
  /\ start \notin Early =>
       /\ result = "true" => fresh = "bad"
       /\ inCall /\ ~undefined /\ result = "none" => Apart \/ fresh = "bad"

(* The first edges of a request. *)
LEMMA RequestEdges ==
  \A e \in Edges :
    /\ e[1] = "method_start" => e[2] = token /\ e[3] = "method"
    /\ e[1] = "method" => \/ e[2] = token /\ e[3] = "method"
                          \/ e[2] = {"SP"} /\ e[3] = "uri"
    /\ e[1] = "uri" => \/ e[2] = text \ {"SP"} /\ e[3] = "uri"
                       \/ e[2] = {"SP"} /\ e[3] = "http_version_h"
  BY DEF Edges

LEMMA Classes ==
  /\ token = {"H", "T", "P", ".", "digit", "letter"}
  /\ text = Chars \ {"HT", "CR", "LF", "ctl"}
  BY DEF token, text, is_char, is_ctl, is_tspecial, Chars

(* Where a character of a method leads the parser from any other state. *)
LEMMA TokenEdges ==
  ASSUME NEW e \in Edges, NEW i \in e[2], i \in token, e[1] \notin Early
  PROVE  \/ e[3] \in Version \cup {"uri", "header_name"}
         \/ e[1] \in {"header_lws", "header_value"} /\ e[3] = "header_value"
  BY Classes DEF Edges, Version, Early

LEMMA VersionEdges ==
  ASSUME NEW e \in Edges, e[1] \in Version
  PROVE  /\ "SP" \notin e[2]
         /\ \/ e[3] \in Version
            \/ e[2] = {"CR"}
  BY DEF Edges, Version

LEMMA HeaderNameEdges ==
  ASSUME NEW e \in Edges, e[1] = "header_name"
  PROVE  (e[2] = token /\ e[3] = "header_name") \/ e[2] = {":"}
  BY DEF Edges

(* Both parsers accept an input: they go on apart, or back() meets no header. *)
LEMMA ApartStep ==
  ASSUME TypeOK, Apart, start \notin Early,
         NEW input,
         NEW e \in Edges, Accepts(e, state_, headers, input),
         NEW d \in Edges, Accepts(d, fresh, freshHeaders, input)
  PROVE  \/ e[3] \in Version \cup {"uri", "header_name"} /\ d[3] = "method"
         \/ e[3] \in Version /\ d[3] = "uri"
         \/ appends(state_, e[3]) /\ ~headers /\ e[3] \in States
<1>1. e[1] = state_ /\ input \in e[2] /\ d[1] = fresh /\ input \in d[2]
  BY DEF Accepts
<1>2. CASE fresh = "method_start" /\ state_ = start /\ ~headers
  <2>1. d[2] = token /\ d[3] = "method"
    BY <1>1, <1>2, RequestEdges
  <2>2. \/ e[3] \in Version \cup {"uri", "header_name"}
        \/ e[1] \in {"header_lws", "header_value"} /\ e[3] = "header_value"
    BY <1>1, <1>2, <2>1, TokenEdges
  <2>3. "header_value" \in States
    BY DEF Edges, States
  <2>4. QED
    BY <1>1, <1>2, <2>1, <2>2, <2>3 DEF appends
<1>3. CASE fresh = "method" /\ state_ \in Version \cup {"uri", "header_name"}
  <2>1. CASE d[2] = token /\ d[3] = "method"
    <3>1. e[1] \notin Early /\ e[1] \notin {"header_lws", "header_value"}
      BY <1>1, <1>3 DEF Early, Version
    <3>2. e[3] \in Version \cup {"uri", "header_name"}
      BY <1>1, <2>1, <3>1, TokenEdges
    <3>3. QED
      BY <2>1, <3>2
  <2>2. CASE d[2] = {"SP"} /\ d[3] = "uri"
    <3>1. input = "SP" /\ input \notin token
      BY <1>1, <2>2, Classes
    <3>2. state_ = "uri"
      BY <1>1, <1>3, <3>1, VersionEdges, HeaderNameEdges
    <3>3. e[3] = "http_version_h"
      BY <1>1, <3>1, <3>2, RequestEdges
    <3>4. QED
      BY <2>2, <3>3 DEF Version
  <2>3. QED
    BY <1>1, <1>3, <2>1, <2>2, RequestEdges
<1>4. CASE fresh = "uri" /\ state_ \in Version
  <2>1. (d[2] = text \ {"SP"} /\ d[3] = "uri") \/ d[2] = {"SP"}
    BY <1>1, <1>4, RequestEdges
  <2>2. "SP" \notin e[2] /\ (e[3] \in Version \/ e[2] = {"CR"})
    BY <1>1, <1>4, VersionEdges
  <2>3. QED
    BY <1>1, <2>1, <2>2, Classes
<1>5. QED
  BY <1>2, <1>3, <1>4 DEF Apart

LEMMA RInvConsume ==
  ASSUME HInv, RInv, NEW input \in Chars, NEW isKey \in BOOLEAN, Consume(input, isKey)
  PROVE  RInv'
<1> DEFINE next == consume(state_, headers, input)
           ref1 == consume(fresh, freshHeaders, input)
<1>1. /\ inCall /\ ~undefined /\ result = "none"
      /\ undefined' = (appends(state_, next) /\ ~headers)
      /\ state_' = IF next \in States THEN next ELSE state_
      /\ Answer(next)
      /\ StepFresh(input)
      /\ UNCHANGED <<inCall, start>>
  BY DEF Consume
<1>2. undefined' => result' = "none"
  BY <1>1 DEF Answer, appends
<1>3. ASSUME start \notin Early, fresh' # "bad"
      PROVE  result' # "true" /\ (~undefined' /\ result' = "none" => Apart')
  <2>1. fresh # "bad"
    BY <1>1, <1>3, StateNames DEF StepFresh, ref
  <2>2. Apart
    BY <1>1, <1>3, <2>1 DEF RInv
  <2>3. fresh \in States
    BY <2>2 DEF Apart, Edges, States
  <2>4. fresh' = ref1
    BY <1>1, <2>3 DEF StepFresh
  <2>5. PICK d \in Edges : Accepts(d, fresh, freshHeaders, input) /\ fresh' = d[3]
    BY <1>3, <2>4, ConsumeEdge
  <2>6. CASE next = "bad"
    BY <1>1, <2>6 DEF Answer
  <2>7. CASE next # "bad"
    <3>1. PICK e \in Edges : Accepts(e, state_, headers, input) /\ next = e[3]
      BY <2>7, ConsumeEdge
    <3>2. \/ next \in Version \cup {"uri", "header_name"} /\ fresh' = "method"
          \/ next \in Version /\ fresh' = "uri"
          \/ appends(state_, next) /\ ~headers /\ next \in States
      BY <1>3, <2>2, <2>5, <3>1, ApartStep DEF HInv
    <3>3. next \in States
      BY <3>2 DEF Version, Edges, States
    <3>4. next \notin {"complete", "bad"}
      BY <3>3, StateNames
    <3>5. result' = "none" /\ state_' = next
      BY <1>1, <3>3, <3>4 DEF Answer
    <3>6. QED
      BY <1>1, <3>2, <3>5 DEF Apart
  <2>8. QED
    BY <2>6, <2>7
<1>4. QED
  BY <1>1, <1>2, <1>3 DEF RInv

LEMMA RInvStep == HInv /\ RInv /\ [Next]_vars => RInv'
<1> SUFFICES ASSUME HInv, RInv, [Next]_vars PROVE RInv'
  OBVIOUS
<1>1. CASE UNCHANGED vars
  BY <1>1 DEF vars, req, ref, RInv, Apart
<1>2. CASE BeginRead
  BY <1>2 DEF BeginRead, RInv, Apart
<1>3. ASSUME NEW input \in Chars, Skip(input) PROVE RInv'
  <2>1. fresh = "bad" => fresh' = "bad"
    BY <1>3, StateNames DEF Skip, StepFresh, ref
  <2>2. QED
    BY <1>3, <2>1 DEF Skip, RInv
<1>4. ASSUME NEW input \in Chars, NEW isKey \in BOOLEAN, Consume(input, isKey)
      PROVE  RInv'
  BY <1>4, RInvConsume
<1>5. CASE EndOfRead
  BY <1>5 DEF EndOfRead, RInv, ref
<1>6. QED
  BY <1>1, <1>2, <1>3, <1>4, <1>5 DEF Next

(***************************************************************************)
(* A client that repeats its whole request after a 400 is recognised only  *)
(* if the parser, which is never reset, was left before or in the method   *)
(* (handshake_manager.cpp, request_parser.cpp).                            *)
(***************************************************************************)
THEOREM RetryNeedsMethod == Spec => []RetryRecognised
<1>1. Init => RInv
  BY DEF Init, RInv, Early
<1>2. RInv => RetryRecognised
  BY DEF RInv, RetryRecognised, Early
<1>3. QED
  BY <1>1, <1>2, InitHInv, NextHInv, RInvStep, PTL DEF Spec

--------------------------------------------------------------------------------
(* The reply: AcceptKey. *)

(* Words of 64 and of 32 bits, and the lower half of a word. *)
Wide   == SUBSET (0 .. 63)
Narrow == SUBSET (0 .. 31)
Low(x) == x \cap 0 .. 31

(* What is hashed. *)
Message == asked \o magic_guid

(* The lower halves of the digest are the hash value. *)
HashInv ==
  /\ digest \in [1 .. 5 -> Wide] /\ H \in [1 .. 5 -> Narrow]
  /\ \A j \in 1 .. 5 : Low(digest[j]) = H[j]

(***************************************************************************)
(* Inside transform: the variables a to e, by their roles in the round,    *)
(* are the working variables, and the ring of sixteen words holds the last *)
(* sixteen of the schedule, in their lower halves.                         *)
(***************************************************************************)
RoundInv ==
  /\ round \in 0 .. 80 /\ return \in {"update", "length", "answer"}
  /\ abcde \in [1 .. 5 -> Wide] /\ block \in [0 .. 15 -> Wide]
  /\ working \in [1 .. 5 -> Narrow] /\ W \in Seq(Narrow)
  /\ Len(W) = IF round < 16 THEN 16 ELSE round
  /\ \A r \in 0 .. 4 : Low(abcde[role(r, round)]) = working[r + 1]
  /\ \A j \in Len(W) - 15 .. Len(W) : Low(block[(j - 1) % 16]) = W[j]

--------------------------------------------------------------------------------
(* Words: addition with carries, exclusive or and rotation, in 64 bits and in 32. *)

(* A set of numbers with 0 that has the next of each of its numbers has them all. *)
LEMMA Induction ==
  ASSUME NEW S, 0 \in S, \A n \in Nat : n \in S => n + 1 \in S
  PROVE  Nat \subseteq S
<1> SUFFICES ASSUME Nat \ S # {} PROVE FALSE
  OBVIOUS
<1>1. PICK n \in Nat \ S : \A m \in Nat \ S : ~ (<<m, n>> \in OpToRel(<, Nat))
  BY NatLessThanWellFounded, WFMin
<1>2. \A m \in Nat \ S : ~ (m < n)
  BY <1>1 DEF OpToRel
<1>3. n \in Nat /\ n \notin S /\ n # 0
  BY <1>1
<1>4. n - 1 \in Nat /\ n = (n - 1) + 1 /\ n - 1 < n
  BY <1>3
<1>5. n - 1 \in S
  BY <1>2, <1>4
<1>6. QED
  BY <1>3, <1>4, <1>5

(* The lowest place gets no carry. *)
LEMMA NoCarry == \A x, y : ~Carries(x, y, 0)
  BY DEF Carries

(* The rule of the full adder: the carry out of a place from its two bits and the carry into it. *)
LEMMA CarryStep ==
  ASSUME NEW x, NEW y, NEW b \in Nat
  PROVE  Carries(x, y, b + 1) <=>
           \/ b \in x /\ b \in y
           \/ (b \in x \/ b \in y) /\ Carries(x, y, b)
<1>1. ASSUME Carries(x, y, b + 1)
      PROVE  (b \in x /\ b \in y) \/ ((b \in x \/ b \in y) /\ Carries(x, y, b))
  <2>1. PICK k \in 0 .. b : k \in x /\ k \in y /\ \A j \in k + 1 .. b : j \in x \/ j \in y
    BY <1>1 DEF Carries
  <2>2. QED
    BY <2>1 DEF Carries
<1>2. ASSUME b \in x /\ b \in y PROVE Carries(x, y, b + 1)
  BY <1>2 DEF Carries
<1>3. ASSUME b \in x \/ b \in y, Carries(x, y, b) PROVE Carries(x, y, b + 1)
  <2>1. PICK k \in 0 .. b - 1 : k \in x /\ k \in y /\ \A j \in k + 1 .. b - 1 : j \in x \/ j \in y
    BY <1>3 DEF Carries
  <2>2. QED
    BY <1>3, <2>1 DEF Carries
<1>4. QED
  BY <1>1, <1>2, <1>3

(* A bit of the sum from the two bits and the carry. *)
LEMMA PlusBit ==
  ASSUME NEW x, NEW y, NEW w \in Nat, NEW b \in 0 .. w - 1
  PROVE  b \in plus(x, y, w) <=> ((b \in x <=> b \in y) <=> Carries(x, y, b))
  BY DEF plus

(* A sum has no bits from its width on. *)
LEMMA PlusType ==
  ASSUME NEW x, NEW y, NEW w \in Nat
  PROVE  plus(x, y, w) \subseteq 0 .. w - 1
  BY DEF plus

(* A carry depends on lower places only. *)
LEMMA CarryLow ==
  ASSUME NEW x, NEW y, NEW b \in 0 .. 31
  PROVE  Carries(x, y, b) <=> Carries(Low(x), Low(y), b)
<1>1. \A k \in 0 .. b - 1 : (k \in x <=> k \in Low(x)) /\ (k \in y <=> k \in Low(y))
  BY DEF Low
<1>2. QED
  BY <1>1 DEF Carries

(* The lower half of the sum in 64 bits is the sum of the lower halves in 32. *)
LEMMA PlusLow ==
  ASSUME NEW x, NEW y
  PROVE  Low(plus(x, y, 64)) = plus(Low(x), Low(y), 32)
<1>1. ASSUME NEW b \in 0 .. 31
      PROVE  b \in plus(x, y, 64) <=> b \in plus(Low(x), Low(y), 32)
  <2>1. (b \in x <=> b \in Low(x)) /\ (b \in y <=> b \in Low(y)) /\ b \in 0 .. 63
    BY DEF Low
  <2>2. b \in plus(x, y, 64) <=> ((b \in x <=> b \in y) <=> Carries(x, y, b))
    BY <2>1, PlusBit
  <2>3. b \in plus(Low(x), Low(y), 32)
          <=> ((b \in Low(x) <=> b \in Low(y)) <=> Carries(Low(x), Low(y), b))
    BY PlusBit
  <2>4. Carries(x, y, b) <=> Carries(Low(x), Low(y), b)
    BY CarryLow
  <2>5. QED
    BY <2>1, <2>2, <2>3, <2>4
<1>2. plus(Low(x), Low(y), 32) \subseteq 0 .. 31
  BY PlusType
<1>3. QED
  BY <1>1, <1>2 DEF Low

(* Addition is commutative. *)
LEMMA PlusCommutes ==
  ASSUME NEW x, NEW y, NEW w \in Nat
  PROVE  plus(x, y, w) = plus(y, x, w)
<1>1. \A b \in Nat : Carries(x, y, b) <=> Carries(y, x, b)
  BY DEF Carries
<1>2. ASSUME NEW b \in 0 .. w - 1
      PROVE  b \in plus(x, y, w) <=> b \in plus(y, x, w)
  BY <1>1, PlusBit
<1>3. QED
  BY <1>2, PlusType

(* Addition is associative: by induction on the places, the two carries of either order are as
   many. *)
LEMMA PlusAssociates ==
  ASSUME NEW x, NEW y, NEW z, NEW w \in Nat
  PROVE  plus(plus(x, y, w), z, w) = plus(x, plus(y, z, w), w)
<1> DEFINE s == plus(x, y, w)
           t == plus(y, z, w)
           Same(b) == /\ Carries(x, y, b) /\ Carries(s, z, b) <=> Carries(y, z, b) /\ Carries(x, t, b)
                      /\ Carries(x, y, b) \/ Carries(s, z, b) <=> Carries(y, z, b) \/ Carries(x, t, b)
           S == {b \in Nat : b <= w => Same(b)}
<1>1. ASSUME NEW b \in 0 .. w - 1, Same(b)
      PROVE  /\ ((b \in s <=> b \in z) <=> Carries(s, z, b)) <=> ((b \in x <=> b \in t) <=> Carries(x, t, b))
             /\ Same(b + 1)
  <2>1. (b \in s <=> ((b \in x <=> b \in y) <=> Carries(x, y, b)))
    BY PlusBit
  <2>2. (b \in t <=> ((b \in y <=> b \in z) <=> Carries(y, z, b)))
    BY PlusBit
  <2> HIDE DEF s, t
  <2>3. /\ Carries(x, y, b + 1) <=> (b \in x /\ b \in y) \/ ((b \in x \/ b \in y) /\ Carries(x, y, b))
        /\ Carries(s, z, b + 1) <=> (b \in s /\ b \in z) \/ ((b \in s \/ b \in z) /\ Carries(s, z, b))
        /\ Carries(y, z, b + 1) <=> (b \in y /\ b \in z) \/ ((b \in y \/ b \in z) /\ Carries(y, z, b))
        /\ Carries(x, t, b + 1) <=> (b \in x /\ b \in t) \/ ((b \in x \/ b \in t) /\ Carries(x, t, b))
    BY CarryStep
  <2>4. QED
    BY <1>1, <2>1, <2>2, <2>3
<1>2. 0 \in S
  BY NoCarry
<1>3. ASSUME NEW b \in Nat, b \in S PROVE b + 1 \in S
  <2>1. CASE b + 1 <= w
    <3>1. b \in 0 .. w - 1 /\ Same(b)
      BY <1>3, <2>1
    <3>2. QED
      BY <1>1, <3>1
  <2>2. QED
    BY <2>1
<1>4. \A b \in 0 .. w - 1 : Same(b)
  <2> HIDE DEF Same
  <2>1. Nat \subseteq S
    <3> HIDE DEF S
    <3>1. QED
      BY <1>2, <1>3, Induction
  <2>2. QED
    BY <2>1
<1>5. ASSUME NEW b \in 0 .. w - 1
      PROVE  b \in plus(s, z, w) <=> b \in plus(x, t, w)
  <2>1. Same(b)
    BY <1>4
  <2>2. ((b \in s <=> b \in z) <=> Carries(s, z, b)) <=> ((b \in x <=> b \in t) <=> Carries(x, t, b))
    BY <1>1, <2>1
  <2> HIDE DEF s, t, Same
  <2>3. QED
    BY <2>2, PlusBit
<1>6. plus(s, z, w) \subseteq 0 .. w - 1 /\ plus(x, t, w) \subseteq 0 .. w - 1
  BY PlusType
<1>7. QED
  <2> HIDE DEF s, t
  <2>1. plus(s, z, w) = plus(x, t, w)
    BY <1>5, <1>6
  <2>2. QED
    BY <2>1 DEF s, t

(* The halves of words. *)
LEMMA LowXor ==
  ASSUME NEW x, NEW y
  PROVE  Low(xor(x, y)) = xor(Low(x), Low(y))
  BY DEF Low, xor

(* The lower half of SHA1_ROL is the rotation of the lower half: the mask of the macro makes it
   so. *)
LEMMA LowRol ==
  ASSUME NEW x \in Wide, NEW n \in 1 .. 31
  PROVE  Low(SHA1_ROL(x, n)) = rotl(Low(x), n) /\ SHA1_ROL(x, n) \in Wide
<1>1. ASSUME NEW b \in 0 .. 31
      PROVE  b \in SHA1_ROL(x, n) <=> \E c \in Low(x) : b = (c + n) % 32
  BY DEF SHA1_ROL, shl, shr, Low, Wide
<1>2. \A c \in Low(x) : (c + n) % 32 \in 0 .. 31
  BY DEF Low
<1>3. Low(SHA1_ROL(x, n)) = rotl(Low(x), n)
  BY <1>1, <1>2 DEF Low, rotl
<1>4. QED
  BY <1>3 DEF SHA1_ROL, shl, shr, Wide

--------------------------------------------------------------------------------
(* The functions and constants of the rounds. *)

(* The functions of the macros R0 to R4, by rounds. *)
LEMMA Mixes ==
  ASSUME NEW i \in 0 .. 79, NEW w, NEW x, NEW y
  PROVE  /\ i < 20 => mixes(i, w, x, y) = xor(w \cap xor(x, y), y)
         /\ i \in 20 .. 39 \cup 60 .. 79 => mixes(i, w, x, y) = xor(xor(w, x), y)
         /\ i \in 40 .. 59 => mixes(i, w, x, y) = ((w \cup x) \cap y) \cup (w \cap x)
  BY DEF mixes

(* The functions of FIPS 180-4, by rounds. *)
LEMMA Functions ==
  ASSUME NEW i \in 0 .. 79, NEW x, NEW y, NEW z
  PROVE  /\ i < 20 => f(i, x, y, z) = xor(x \cap y, z \ x)
         /\ i \in 20 .. 39 \cup 60 .. 79 => f(i, x, y, z) = xor(x, xor(y, z))
         /\ i \in 40 .. 59 => f(i, x, y, z) = xor(x \cap y, xor(x \cap z, y \cap z))
  BY DEF f

(* In the lower half, the functions of the macros are those of FIPS 180-4. *)
LEMMA LowMixes ==
  ASSUME NEW i \in 0 .. 79, NEW w, NEW x, NEW y
  PROVE  Low(mixes(i, w, x, y)) = f(i, Low(w), Low(x), Low(y))
<1>1. i < 20 \/ i \in 20 .. 39 \cup 60 .. 79 \/ i \in 40 .. 59
  OBVIOUS
<1>2. Low(xor(w \cap xor(x, y), y)) = xor(Low(w) \cap Low(x), Low(y) \ Low(w))
  BY DEF Low, xor
<1>3. Low(xor(xor(w, x), y)) = xor(Low(w), xor(Low(x), Low(y)))
  BY DEF Low, xor
<1>4. Low(((w \cup x) \cap y) \cup (w \cap x))
        = xor(Low(w) \cap Low(x), xor(Low(w) \cap Low(y), Low(x) \cap Low(y)))
  BY DEF Low, xor
<1>5. CASE i < 20
  BY <1>2, <1>5, Mixes, Functions
<1>6. CASE i \in 20 .. 39 \cup 60 .. 79
  BY <1>3, <1>6, Mixes, Functions
<1>7. CASE i \in 40 .. 59
  <2>1. mixes(i, w, x, y) = ((w \cup x) \cap y) \cup (w \cap x)
    BY <1>7, Mixes
  <2>2. f(i, Low(w), Low(x), Low(y))
          = xor(Low(w) \cap Low(x), xor(Low(w) \cap Low(y), Low(x) \cap Low(y)))
    BY <1>7, Functions
  <2>3. QED
    BY <1>4, <2>1, <2>2
<1>8. QED
  BY <1>1, <1>5, <1>6, <1>7

(* The constants of the macros are those of FIPS 180-4. *)
LEMMA Adds ==
  ASSUME NEW i \in 0 .. 79
  PROVE  adds(i) = K(i) /\ K(i) \in Narrow
<1>1. \A high, low : Const(high, low) \in Narrow
  BY DEF Const, Bits, Narrow
<1>2. CASE i < 20
  BY <1>1, <1>2 DEF adds, K
<1>3. CASE i \in 20 .. 39
  BY <1>1, <1>3 DEF adds, K
<1>4. CASE i \in 40 .. 59
  BY <1>1, <1>4 DEF adds, K
<1>5. CASE i \in 60 .. 79
  BY <1>1, <1>5 DEF adds, K
<1>6. QED
  BY <1>2, <1>3, <1>4, <1>5

(* The five terms of a round, in the order of the code and in that of the standard. *)
LEMMA Terms ==
  ASSUME NEW z, NEW m, NEW b, NEW k, NEW r
  PROVE  plus(z, plus(plus(plus(m, b, 32), k, 32), r, 32), 32)
           = plus(plus(r, m, 32), plus(plus(z, k, 32), b, 32), 32)
<1> DEFINE P(x, y) == plus(x, y, 32)
<1>1. \A x, y : P(x, y) = P(y, x)
  BY PlusCommutes
<1>2. \A x, y, v : P(P(x, y), v) = P(x, P(y, v))
  BY PlusAssociates
<1> HIDE DEF P
<1>3. P(z, P(P(P(m, b), k), r)) = P(P(P(P(m, b), k), r), z)
  BY <1>1
<1>4. P(P(P(P(m, b), k), r), z) = P(P(P(m, b), k), P(r, z))
  BY <1>2
<1>5. P(P(P(m, b), k), P(r, z)) = P(P(m, P(b, k)), P(r, z))
  BY <1>2
<1>6. P(P(m, P(b, k)), P(r, z)) = P(P(r, z), P(m, P(b, k)))
  BY <1>1
<1>7. P(P(r, z), P(m, P(b, k))) = P(r, P(z, P(m, P(b, k))))
  BY <1>2
<1>8. P(z, P(m, P(b, k))) = P(m, P(z, P(k, b)))
  <2>1. P(z, P(m, P(b, k))) = P(P(z, m), P(b, k))
    BY <1>2
  <2>2. P(P(z, m), P(b, k)) = P(P(m, z), P(k, b))
    BY <1>1
  <2>3. P(P(m, z), P(k, b)) = P(m, P(z, P(k, b)))
    BY <1>2
  <2>4. QED
    BY <2>1, <2>2, <2>3
<1>9. P(r, P(m, P(z, P(k, b)))) = P(P(r, m), P(P(z, k), b))
  BY <1>2
<1>10. P(z, P(P(P(m, b), k), r)) = P(P(r, m), P(P(z, k), b))
  BY <1>3, <1>4, <1>5, <1>6, <1>7, <1>8, <1>9
<1>11. QED
  BY <1>10 DEF P

(* A round of transform, on the lower halves. *)
LEMMA LowSum ==
  ASSUME NEW i \in 0 .. 79, NEW v \in Wide, NEW w, NEW x, NEW y, NEW z, NEW blk
  PROVE  LET sum == plus(plus(plus(mixes(i, w, x, y), blk, 64), adds(i), 64), SHA1_ROL(v, 5), 64)
         IN  Low(plus(z, sum, 64))
               = plus(plus(rotl(Low(v), 5), f(i, Low(w), Low(x), Low(y)), 32),
                      plus(plus(Low(z), K(i), 32), Low(blk), 32), 32)
<1> DEFINE m == mixes(i, w, x, y)
           r == SHA1_ROL(v, 5)
           sum == plus(plus(plus(m, blk, 64), adds(i), 64), r, 64)
<1>1. Low(m) = f(i, Low(w), Low(x), Low(y))
  <2> HIDE DEF sum, r
  <2>1. QED
    BY LowMixes
<1>2. Low(r) = rotl(Low(v), 5)
  BY LowRol
<1>3. Low(adds(i)) = K(i)
  BY Adds DEF Low, Narrow
<1> HIDE DEF m, r
<1>4. Low(plus(z, sum, 64)) = plus(Low(z), Low(sum), 32)
  BY PlusLow
<1>5. Low(sum) = plus(Low(plus(plus(m, blk, 64), adds(i), 64)), Low(r), 32)
  BY PlusLow
<1>6. Low(plus(plus(m, blk, 64), adds(i), 64)) = plus(Low(plus(m, blk, 64)), Low(adds(i)), 32)
  BY PlusLow
<1>7. Low(plus(m, blk, 64)) = plus(Low(m), Low(blk), 32)
  BY PlusLow
<1>8. plus(Low(z), plus(plus(plus(Low(m), Low(blk), 32), K(i), 32), Low(r), 32), 32)
        = plus(plus(Low(r), Low(m), 32), plus(plus(Low(z), K(i), 32), Low(blk), 32), 32)
  BY Terms
<1>9. QED
  BY <1>1, <1>2, <1>3, <1>4, <1>5, <1>6, <1>7, <1>8 DEF m, r

--------------------------------------------------------------------------------
(* Blocks: words out of bytes. *)

(* A number of two bytes. *)
LEMMA LowBits ==
  ASSUME NEW a \in 0 .. 255, NEW b \in 0 .. 255
  PROVE  \A n \in 0 .. 7 : n \in Bits(256 * a + b, 16) <=> n \in Bits(b, 8)
<1> DEFINE Same(n) == n \in Bits(256 * a + b, 16) <=> n \in Bits(b, 8)
<1>1. /\ ((256 * a + b) \div 2^0) % 2 = (b \div 2^0) % 2
      /\ ((256 * a + b) \div 2^1) % 2 = (b \div 2^1) % 2
      /\ ((256 * a + b) \div 2^2) % 2 = (b \div 2^2) % 2
      /\ ((256 * a + b) \div 2^3) % 2 = (b \div 2^3) % 2
      /\ ((256 * a + b) \div 2^4) % 2 = (b \div 2^4) % 2
      /\ ((256 * a + b) \div 2^5) % 2 = (b \div 2^5) % 2
      /\ ((256 * a + b) \div 2^6) % 2 = (b \div 2^6) % 2
      /\ ((256 * a + b) \div 2^7) % 2 = (b \div 2^7) % 2
  OBVIOUS
<1>2. /\ Same(0) /\ Same(1) /\ Same(2) /\ Same(3) /\ Same(4) /\ Same(5) /\ Same(6) /\ Same(7)
  BY <1>1 DEF Bits
<1> HIDE DEF Same
<1>3. \A n \in 0 .. 7 : Same(n)
  BY <1>2
<1>4. QED
  BY <1>3 DEF Same

(* The high byte of a half word, moved up. *)
LEMMA HighBits ==
  ASSUME NEW a \in 0 .. 255, NEW b \in 0 .. 255
  PROVE  \A n \in 0 .. 7 : n + 8 \in Bits(256 * a + b, 16) <=> n \in Bits(a, 8)
<1>1. ((256 * a + b) \div 2^8) % 2 = (a \div 2^0) % 2
  OBVIOUS
<1>2. ((256 * a + b) \div 2^9) % 2 = (a \div 2^1) % 2
  OBVIOUS
<1>3. ((256 * a + b) \div 2^10) % 2 = (a \div 2^2) % 2
  OBVIOUS
<1>4. ((256 * a + b) \div 2^11) % 2 = (a \div 2^3) % 2
  OBVIOUS
<1>5. ((256 * a + b) \div 2^12) % 2 = (a \div 2^4) % 2
  OBVIOUS
<1>6. ((256 * a + b) \div 2^13) % 2 = (a \div 2^5) % 2
  OBVIOUS
<1>7. ((256 * a + b) \div 2^14) % 2 = (a \div 2^6) % 2
  OBVIOUS
<1>8. ((256 * a + b) \div 2^15) % 2 = (a \div 2^7) % 2
  OBVIOUS
<1> DEFINE Same(n) == n + 8 \in Bits(256 * a + b, 16) <=> n \in Bits(a, 8)
<1>9. /\ Same(0) /\ Same(1) /\ Same(2) /\ Same(3) /\ Same(4) /\ Same(5) /\ Same(6) /\ Same(7)
  BY <1>1, <1>2, <1>3, <1>4, <1>5, <1>6, <1>7, <1>8 DEF Bits
<1> HIDE DEF Same
<1>10. \A n \in 0 .. 7 : Same(n)
  BY <1>9
<1>11. QED
  BY <1>10 DEF Same

(* A half word of two bytes. *)
LEMMA BitsJoin ==
  ASSUME NEW a \in 0 .. 255, NEW b \in 0 .. 255
  PROVE  Bits(256 * a + b, 16) = {k + 8 : k \in Bits(a, 8)} \cup Bits(b, 8)
<1> DEFINE m == Bits(256 * a + b, 16)
<1>1. m \subseteq 0 .. 15 /\ Bits(a, 8) \subseteq 0 .. 7 /\ Bits(b, 8) \subseteq 0 .. 7
  BY DEF Bits
<1>2. \A k \in 0 .. 7 : k \in m <=> k \in Bits(b, 8)
  BY LowBits
<1>3. \A k \in 0 .. 7 : k + 8 \in m <=> k \in Bits(a, 8)
  BY HighBits
<1> HIDE DEF m
<1>4. ASSUME NEW n \in 0 .. 15
      PROVE  n \in m <=> n \in {k + 8 : k \in Bits(a, 8)} \cup Bits(b, 8)
  <2>1. CASE n < 8
    BY <1>1, <1>2, <2>1
  <2>2. CASE n >= 8
    <3>1. n - 8 \in 0 .. 7 /\ (n - 8) + 8 = n
      BY <2>2
    <3>2. n \in m <=> n - 8 \in Bits(a, 8)
      BY <1>3, <3>1
    <3>3. QED
      BY <1>1, <2>2, <3>2
  <2>3. QED
    BY <2>1, <2>2
<1> DEFINE u == {k + 8 : k \in Bits(a, 8)} \cup Bits(b, 8)
<1>5. u \subseteq 0 .. 15 /\ \A n \in 0 .. 15 : n \in m <=> n \in u
  BY <1>1, <1>4
<1> HIDE DEF u
<1>6. m = u
  BY <1>1, <1>5
<1>7. QED
  BY <1>6 DEF m, u

(* Zero has no bits. *)
LEMMA NoBits == Bits(0, 16) = {} /\ Bits(0, 8) = {}
<1> DEFINE Out(n) == n \notin Bits(0, 16) /\ n \notin Bits(0, 8)
<1>1. /\ (0 \div 2^0) % 2 = 0 /\ (0 \div 2^1) % 2 = 0 /\ (0 \div 2^2) % 2 = 0 /\ (0 \div 2^3) % 2 = 0
      /\ (0 \div 2^4) % 2 = 0 /\ (0 \div 2^5) % 2 = 0 /\ (0 \div 2^6) % 2 = 0 /\ (0 \div 2^7) % 2 = 0
      /\ (0 \div 2^8) % 2 = 0 /\ (0 \div 2^9) % 2 = 0 /\ (0 \div 2^10) % 2 = 0 /\ (0 \div 2^11) % 2 = 0
      /\ (0 \div 2^12) % 2 = 0 /\ (0 \div 2^13) % 2 = 0 /\ (0 \div 2^14) % 2 = 0 /\ (0 \div 2^15) % 2 = 0
  OBVIOUS
<1>2. /\ Out(0) /\ Out(1) /\ Out(2) /\ Out(3) /\ Out(4) /\ Out(5) /\ Out(6) /\ Out(7)
      /\ Out(8) /\ Out(9) /\ Out(10) /\ Out(11) /\ Out(12) /\ Out(13) /\ Out(14) /\ Out(15)
  BY <1>1 DEF Bits
<1>3. Bits(0, 16) \subseteq 0 .. 15 /\ Bits(0, 8) \subseteq 0 .. 15
  BY DEF Bits
<1> HIDE DEF Out
<1>4. \A n \in 0 .. 15 : Out(n)
  BY <1>2
<1>5. QED
  BY <1>3, <1>4 DEF Out

Byte == 0 .. 255

(* The word of four bytes, the first of them the highest. *)
Big(a, b, c, d) == Const(256 * a + b, 256 * c + d)

(* A word of four bytes, each moved to its place. *)
LEMMA ConstOfBytes ==
  ASSUME NEW a \in Byte, NEW b \in Byte, NEW c \in Byte, NEW d \in Byte
  PROVE  Big(a, b, c, d)
           = shl(Bits(a, 8), 24) \cup shl(Bits(b, 8), 16) \cup shl(Bits(c, 8), 8) \cup shl(Bits(d, 8), 0)
<1> DEFINE A == Bits(a, 8)
           B == Bits(b, 8)
           C == Bits(c, 8)
           D == Bits(d, 8)
<1>1. Bits(256 * a + b, 16) = {k + 8 : k \in A} \cup B
  BY BitsJoin DEF Byte
<1>2. Bits(256 * c + d, 16) = {k + 8 : k \in C} \cup D
  BY BitsJoin DEF Byte
<1>3. A \subseteq 0 .. 7 /\ B \subseteq 0 .. 7 /\ C \subseteq 0 .. 7 /\ D \subseteq 0 .. 7
  BY DEF Bits
<1> HIDE DEF A, B, C, D
<1>4. /\ shl(A, 24) = {k + 24 : k \in A} /\ shl(B, 16) = {k + 16 : k \in B}
      /\ shl(C, 8) = {k + 8 : k \in C} /\ shl(D, 0) = D
  <2>1. shl(A, 24) = {k + 24 : k \in A}
    BY <1>3 DEF shl
  <2>2. shl(B, 16) = {k + 16 : k \in B}
    BY <1>3 DEF shl
  <2>3. shl(C, 8) = {k + 8 : k \in C}
    BY <1>3 DEF shl
  <2>4. shl(D, 0) = D
    <3>1. \A n \in 0 .. 63 : n \in shl(D, 0) <=> n \in D
      BY <1>3 DEF shl
    <3>2. \A n : (n \in shl(D, 0) => n \in 0 .. 63) /\ (n \in D => n \in 0 .. 63)
      <4>1. \A n \in D : n \in 0 .. 63
        BY <1>3
      <4>2. \A n \in shl(D, 0) : n \in 0 .. 63
        BY DEF shl
      <4>3. QED
        BY <4>1, <4>2, Zenon
    <3>3. \A n : n \in shl(D, 0) <=> n \in D
      BY <3>1, <3>2, Zenon
    <3>4. QED
      BY <3>3
  <2>5. QED
    BY <2>1, <2>2, <2>3, <2>4
<1>5. {n + 16 : n \in {k + 8 : k \in A} \cup B} = {k + 24 : k \in A} \cup {k + 16 : k \in B}
  <2>1. {n + 16 : n \in {k + 8 : k \in A}} = {k + 24 : k \in A}
    <3>1. \A k \in A : (k + 8) + 16 = k + 24
      BY <1>3
    <3>2. QED
      BY <3>1
  <2>2. QED
    BY <2>1
<1>6. {n + 16 : n \in Bits(256 * a + b, 16)} = shl(A, 24) \cup shl(B, 16)
  BY <1>1, <1>4, <1>5
<1>7. QED
  BY <1>2, <1>4, <1>6 DEF Big, Const, A, B, C, D

(* The lower half of a word of the block is the big endian word of its four bytes. *)
LEMMA BlockWordOf ==
  ASSUME NEW a \in Byte, NEW b \in Byte, NEW c \in Byte, NEW d \in Byte,
         NEW bytes, NEW i \in 0 .. 15,
         bytes[4 * i + 1] = a, bytes[4 * i + 2] = b, bytes[4 * i + 3] = c, bytes[4 * i + 4] = d
  PROVE  /\ buffer_to_block(bytes)[i] \in Wide
         /\ Low(buffer_to_block(bytes)[i]) = Big(a, b, c, d)
<1> DEFINE byte(j) == Bits(bytes[4 * i + j + 1], 8)
           word == UNION {shl(byte(j), 8 * (3 - j)) : j \in 0 .. 3}
           blk == buffer_to_block(bytes)[i]
<1>1. blk = IF 31 \in word THEN word \cup 32 .. 63 ELSE word
  BY DEF buffer_to_block, BLOCK_INTS
<1>2. word = shl(byte(0), 24) \cup shl(byte(1), 16) \cup shl(byte(2), 8) \cup shl(byte(3), 0)
  OBVIOUS
<1>3. byte(0) = Bits(a, 8) /\ byte(1) = Bits(b, 8) /\ byte(2) = Bits(c, 8) /\ byte(3) = Bits(d, 8)
  OBVIOUS
<1> HIDE DEF word, byte, blk
<1>4. word = Big(a, b, c, d)
  <2>1. Big(a, b, c, d)
          = shl(Bits(a, 8), 24) \cup shl(Bits(b, 8), 16) \cup shl(Bits(c, 8), 8) \cup shl(Bits(d, 8), 0)
    BY ConstOfBytes
  <2>2. QED
    BY <1>2, <1>3, <2>1
<1>5. word \subseteq 0 .. 31
  BY <1>4 DEF Big, Const, Bits
<1>6. \A n \in 0 .. 31 : n \in blk <=> n \in word
  BY <1>1
<1>7. Low(blk) = word
  BY <1>5, <1>6 DEF Low
<1>8. blk \in Wide
  BY <1>1, <1>5 DEF Wide
<1>9. QED
  BY <1>4, <1>7, <1>8 DEF blk

(* The same, with the bytes where they stand. *)
LEMMA BlockWord ==
  ASSUME NEW bytes, NEW i \in 0 .. 15, \A j \in 1 .. 4 : bytes[4 * i + j] \in Byte
  PROVE  /\ buffer_to_block(bytes)[i] \in Wide
         /\ Low(buffer_to_block(bytes)[i])
              = Big(bytes[4 * i + 1], bytes[4 * i + 2], bytes[4 * i + 3], bytes[4 * i + 4])
<1>1. /\ bytes[4 * i + 1] \in Byte /\ bytes[4 * i + 2] \in Byte
      /\ bytes[4 * i + 3] \in Byte /\ bytes[4 * i + 4] \in Byte
  OBVIOUS
<1>2. PICK a \in Byte, b \in Byte, c \in Byte, d \in Byte :
        bytes[4 * i + 1] = a /\ bytes[4 * i + 2] = b /\ bytes[4 * i + 3] = c /\ bytes[4 * i + 4] = d
  BY <1>1
<1>3. /\ buffer_to_block(bytes)[i] \in Wide
      /\ Low(buffer_to_block(bytes)[i]) = Big(a, b, c, d)
  BY <1>2, BlockWordOf
<1>4. QED
  BY <1>2, <1>3, Zenon

--------------------------------------------------------------------------------
(* The padded message. *)

Zeros(n) == [i \in 1 .. n |-> 0]

(* What a sequence of zeros is. *)
LEMMA ZerosType ==
  ASSUME NEW n \in Nat
  PROVE  Zeros(n) \in Seq(Byte) /\ Len(Zeros(n)) = n /\ \A i \in 1 .. n : Zeros(n)[i] = 0
  BY DEF Zeros, Byte

(* What a message is padded with. *)
Fill(m)   == (55 - Len(m)) % 64

IsJoined(P, m, n, z, hi, lo) ==
  n = Len(m) /\ P = m \o <<128>> \o Zeros(z) \o <<0, 0, 0, 0, 0, 0, hi, lo>>

JoinedParts(P, m, n, z, hi, lo) ==
  /\ P \in Seq(Byte) /\ Len(P) = n + 9 + z
  /\ \A i \in 1 .. n : P[i] = m[i]
  /\ P[n + 1] = 128
  /\ \A i \in n + 2 .. n + 7 + z : P[i] = 0
  /\ P[n + 8 + z] = hi
  /\ P[n + 9 + z] = lo

(* The parts of a message with its padding, by their places. *)
LEMMA Joined ==
  ASSUME NEW m \in Seq(Byte), NEW n \in Nat, NEW z \in Nat,
         NEW hi \in Byte, NEW lo \in Byte, NEW P, IsJoined(P, m, n, z, hi, lo)
  PROVE  JoinedParts(P, m, n, z, hi, lo)
<1> DEFINE s == m \o <<128>>
           t == s \o Zeros(z)
           l == <<0, 0, 0, 0, 0, 0, hi, lo>>
<1>1. s \in Seq(Byte) /\ Len(s) = n + 1 /\ (\A i \in 1 .. n : s[i] = m[i]) /\ s[n + 1] = 128
  BY DEF Byte, IsJoined
<1>2. l \in Seq(Byte) /\ Len(l) = 8 /\ (\A i \in 1 .. 6 : l[i] = 0) /\ l[7] = hi /\ l[8] = lo
  <2>1. 0 \in Byte
    BY DEF Byte
  <2>2. QED
    BY <2>1
<1>3. P = t \o l
  BY DEF IsJoined
<1> HIDE DEF s, l
<1>4. Zeros(z) \in Seq(Byte) /\ Len(Zeros(z)) = z /\ \A i \in 1 .. z : Zeros(z)[i] = 0
  BY ZerosType
<1>5. /\ t \in Seq(Byte) /\ Len(t) = n + 1 + z
      /\ \A i \in 1 .. n : t[i] = m[i]
      /\ t[n + 1] = 128
      /\ \A i \in n + 2 .. n + 1 + z : t[i] = 0
  <2>0. PICK p \in Nat : p = n + 1
    OBVIOUS
  <2>1. /\ t \in Seq(Byte) /\ Len(t) = p + z
        /\ \A i \in 1 .. p : t[i] = s[i]
        /\ \A i \in p + 1 .. p + z : t[i] = Zeros(z)[i - p]
    <3>1. s \in Seq(Byte) /\ Zeros(z) \in Seq(Byte) /\ Len(s) = p /\ Len(Zeros(z)) = z
      BY <1>1, <1>4, <2>0
    <3>2. t \in Seq(Byte)
      BY <3>1
    <3>3. Len(t) = p + z
      BY <3>1
    <3>4. \A i \in 1 .. p : t[i] = s[i]
      BY <3>1
    <3>5. \A i \in p + 1 .. p + z : t[i] = Zeros(z)[i - p]
      BY <3>1
    <3>6. QED
      BY <3>2, <3>3, <3>4, <3>5
  <2> HIDE DEF t
  <2>4. \A i \in n + 2 .. n + 1 + z : i - (n + 1) \in 1 .. z
    OBVIOUS
  <2>5. QED
    BY <1>1, <1>4, <2>0, <2>1, <2>4
<1> HIDE DEF t
<1>6. /\ P \in Seq(Byte) /\ Len(P) = n + 9 + z
      /\ \A i \in 1 .. n + 1 + z : P[i] = t[i]
      /\ \A i \in n + 2 + z .. n + 9 + z : P[i] = l[i - (n + 1 + z)]
  <2>1. PICK p \in Nat : p = n + 1 + z
    OBVIOUS
  <2>2. Len(t) = p
    BY <1>5, <2>1
  <2>3. /\ P \in Seq(Byte) /\ Len(P) = p + 8
        /\ \A i \in 1 .. p : P[i] = t[i]
        /\ \A i \in p + 1 .. p + 8 : P[i] = l[i - p]
    <3> DEFINE Q == t \o l
    <3>0. PICK q \in Nat : q = 8
      OBVIOUS
    <3>1. t \in Seq(Byte) /\ l \in Seq(Byte) /\ Len(t) = p /\ Len(l) = q
      BY <1>2, <1>5, <2>2, <3>0
    <3>2. Q \in Seq(Byte)
      BY <3>1
    <3>3. Len(Q) = p + q
      BY <3>1
    <3>4. \A i \in 1 .. p : Q[i] = t[i]
      BY <3>1
    <3>5. \A i \in p + 1 .. p + q : Q[i] = l[i - p]
      BY <3>1
    <3>6. P = Q
      BY <1>3
    <3> HIDE DEF Q
    <3>7. QED
      BY <3>0, <3>2, <3>3, <3>4, <3>5, <3>6
  <2>4. QED
    BY <2>1, <2>3
<1>7. \A i \in n + 2 .. n + 7 + z : P[i] = 0
  <2> SUFFICES ASSUME NEW i \in n + 2 .. n + 7 + z PROVE P[i] = 0
    OBVIOUS
  <2>1. CASE i <= n + 1 + z
    BY <1>5, <1>6, <2>1
  <2>2. CASE i > n + 1 + z
    <3>1. i - (n + 1 + z) \in 1 .. 6 /\ i \in n + 2 + z .. n + 9 + z
      BY <2>2
    <3>2. QED
      BY <1>2, <1>6, <3>1
  <2>3. QED
    BY <2>1, <2>2
<1>8. P[n + 8 + z] = hi /\ P[n + 9 + z] = lo
  <2>1. /\ n + 8 + z \in n + 2 + z .. n + 9 + z /\ n + 9 + z \in n + 2 + z .. n + 9 + z
        /\ n + 8 + z - (n + 1 + z) = 7 /\ n + 9 + z - (n + 1 + z) = 8
    OBVIOUS
  <2>2. QED
    BY <1>2, <1>6, <2>1
<1>9. (\A i \in 1 .. n : P[i] = m[i]) /\ P[n + 1] = 128
  BY <1>5, <1>6
<1>10. QED
  BY <1>6, <1>7, <1>8, <1>9 DEF JoinedParts

(* P is the padded form of m, with z zero bytes before the length. *)
PaddedParts(P, m, n, z) == JoinedParts(P, m, n, z, (8 * n) \div 256, (8 * n) % 256)

(* The padded message: the message, 128, zeros, and the length in two bytes. *)
LEMMA PaddedIs ==
  ASSUME NEW m \in Seq(Byte), NEW n \in Nat, Len(m) = n, n <= 8191
  PROVE  Fill(m) \in Nat /\ PaddedParts(Padded(m), m, n, Fill(m))
<1>1. Fill(m) \in Nat
  <2>1. (55 - n) % 64 \in Nat
    OBVIOUS
  <2>2. QED
    BY <2>1 DEF Fill
<1>2. PICK z \in Nat : z = Fill(m)
  BY <1>1
<1>3. (8 * n) \div 256 \in Byte /\ (8 * n) % 256 \in Byte
  BY DEF Byte
<1>4. PICK hi \in Byte, lo \in Byte : hi = (8 * n) \div 256 /\ lo = (8 * n) % 256
  BY <1>3
<1>5. PICK P : P = Padded(m)
  OBVIOUS
<1>6. IsJoined(P, m, n, z, hi, lo)
  BY <1>2, <1>4, <1>5 DEF IsJoined, Padded, Zeros, Fill
<1>7. JoinedParts(P, m, n, z, hi, lo)
  BY <1>6, Joined
<1>8. JoinedParts(Padded(m), m, n, Fill(m), hi, lo)
  BY <1>2, <1>5, <1>7
<1>9. JoinedParts(Padded(m), m, n, Fill(m), (8 * n) \div 256, (8 * n) % 256)
  BY <1>4, <1>8
<1>10. QED
  BY <1>1, <1>9 DEF PaddedParts

--------------------------------------------------------------------------------
(* The blocks of the padded message. *)

(* The words of block t of a padded message. *)
WordOf(P, t, i) == Word(P, 16 * t + i + 1)

BlockIs(words, P, t) ==
  /\ words \in [0 .. 15 -> Wide]
  /\ \A i \in 0 .. 15 : Low(words[i]) = WordOf(P, t, i)

(* A word of block t of the padded message, by its bytes. *)
LEMMA WordIs ==
  ASSUME NEW P, NEW t \in Nat, NEW i \in 0 .. 15
  PROVE  WordOf(P, t, i) = Big(P[64 * t + 4 * i + 1], P[64 * t + 4 * i + 2],
                               P[64 * t + 4 * i + 3], P[64 * t + 4 * i + 4])
<1>1. /\ 4 * (16 * t + i + 1) - 3 = 64 * t + 4 * i + 1 /\ 4 * (16 * t + i + 1) - 2 = 64 * t + 4 * i + 2
      /\ 4 * (16 * t + i + 1) - 1 = 64 * t + 4 * i + 3 /\ 4 * (16 * t + i + 1) = 64 * t + 4 * i + 4
  OBVIOUS
<1>2. QED
  BY <1>1, Zenon DEF WordOf, Word, Big

(* The bytes of block t, from byte a to byte b. *)
Piece(bytes, P, t, a, b) ==
  \A k \in a .. b : bytes[k] = P[64 * t + k] /\ bytes[k] \in Byte

(* Four bytes of the buffer that are bytes of the message make a word of the message. *)
LEMMA WordOfBytes ==
  ASSUME NEW P, NEW t \in Nat, NEW i \in 0 .. 15, NEW bytes,
         Piece(bytes, P, t, 4 * i + 1, 4 * i + 4)
  PROVE  /\ buffer_to_block(bytes)[i] \in Wide
         /\ Low(buffer_to_block(bytes)[i]) = WordOf(P, t, i)
<1>1. /\ bytes[4 * i + 1] = P[64 * t + (4 * i + 1)] /\ bytes[4 * i + 2] = P[64 * t + (4 * i + 2)]
      /\ bytes[4 * i + 3] = P[64 * t + (4 * i + 3)] /\ bytes[4 * i + 4] = P[64 * t + (4 * i + 4)]
  BY DEF Piece
<1>2. /\ 64 * t + (4 * i + 1) = 64 * t + 4 * i + 1 /\ 64 * t + (4 * i + 2) = 64 * t + 4 * i + 2
      /\ 64 * t + (4 * i + 3) = 64 * t + 4 * i + 3 /\ 64 * t + (4 * i + 4) = 64 * t + 4 * i + 4
  OBVIOUS
<1>3. \A j \in 1 .. 4 : bytes[4 * i + j] \in Byte
  BY DEF Piece
<1>4. /\ buffer_to_block(bytes)[i] \in Wide
      /\ Low(buffer_to_block(bytes)[i])
            = Big(bytes[4 * i + 1], bytes[4 * i + 2], bytes[4 * i + 3], bytes[4 * i + 4])
  BY <1>3, BlockWord
<1>5. WordOf(P, t, i) = Big(P[64 * t + 4 * i + 1], P[64 * t + 4 * i + 2],
                            P[64 * t + 4 * i + 3], P[64 * t + 4 * i + 4])
  BY WordIs
<1>6. QED
  BY <1>1, <1>2, <1>4, <1>5

(* What a block of bytes of the padded message becomes. *)
LEMMA BlockOfBytes ==
  ASSUME NEW P, NEW t \in Nat, NEW bytes, Piece(bytes, P, t, 1, 64)
  PROVE  BlockIs(buffer_to_block(bytes), P, t)
<1>1. ASSUME NEW i \in 0 .. 15
      PROVE  /\ buffer_to_block(bytes)[i] \in Wide
             /\ Low(buffer_to_block(bytes)[i]) = WordOf(P, t, i)
  <2>1. Piece(bytes, P, t, 4 * i + 1, 4 * i + 4)
    BY DEF Piece
  <2>2. QED
    BY <2>1, WordOfBytes
<1>2. buffer_to_block(bytes) = [i \in 0 .. 15 |-> buffer_to_block(bytes)[i]]
  BY DEF buffer_to_block, BLOCK_INTS
<1>3. QED
  BY <1>1, <1>2 DEF BlockIs

(* Four zero bytes make an empty word. *)
LEMMA ZeroWord == Big(0, 0, 0, 0) = {}
<1>1. 256 * 0 + 0 = 0
  OBVIOUS
<1>2. QED
  BY <1>1, NoBits DEF Big, Const

(* A number of two bytes is the word of its bytes. *)
LEMMA ShortWord ==
  ASSUME NEW n \in Nat, n <= 65535
  PROVE  Big(0, 0, n \div 256, n % 256) = Bits(n, 16)
<1>1. 256 * 0 + 0 = 0 /\ 256 * (n \div 256) + (n % 256) = n
  OBVIOUS
<1>2. Big(0, 0, n \div 256, n % 256) = Const(0, n)
  BY <1>1 DEF Big
<1>3. QED
  BY <1>2, NoBits DEF Const

ZerosAt(P, t, i) == \A k \in 64 * t + 4 * i + 1 .. 64 * t + 4 * i + 4 : P[k] = 0

(* Where the padded message has four zeros, its word is empty. *)
LEMMA WordOfZeros ==
  ASSUME NEW P, NEW t \in Nat, NEW i \in 0 .. 15, ZerosAt(P, t, i)
  PROVE  WordOf(P, t, i) = {}
<1>1. /\ P[64 * t + 4 * i + 1] = 0 /\ P[64 * t + 4 * i + 2] = 0
      /\ P[64 * t + 4 * i + 3] = 0 /\ P[64 * t + 4 * i + 4] = 0
  BY DEF ZerosAt
<1>2. WordOf(P, t, i) = Big(P[64 * t + 4 * i + 1], P[64 * t + 4 * i + 2],
                            P[64 * t + 4 * i + 3], P[64 * t + 4 * i + 4])
  BY WordIs
<1>3. QED
  BY <1>1, <1>2, ZeroWord

(* All words but the last two. *)
BlockStart(words, P, t) ==
  words \in [0 .. 15 -> Wide] /\ \A i \in 0 .. 13 : Low(words[i]) = WordOf(P, t, i)

(* The last block: its two last words are the length of the message in bits. *)
LEMMA LastBlock ==
  ASSUME NEW P, NEW m, NEW n \in Nat, NEW z \in Nat, NEW t \in Nat,
         n <= 8191, n <= 64 * t + 55, 64 * t + 64 = n + 9 + z,
         PaddedParts(P, m, n, z), NEW words, BlockStart(words, P, t)
  PROVE  BlockIs([words EXCEPT ![15] = Bits(8 * n, 16), ![14] = {}], P, t)
<1> DEFINE last == [words EXCEPT ![15] = Bits(8 * n, 16), ![14] = {}]
<1>1. \A k \in 64 * t + 57 .. 64 * t + 62 : P[k] = 0
  <2>1. \A k \in n + 2 .. n + 7 + z : P[k] = 0
    BY DEF PaddedParts, JoinedParts
  <2>2. QED
    BY <2>1
<1>2. P[64 * t + 63] = (8 * n) \div 256 /\ P[64 * t + 64] = (8 * n) % 256
  <2>1. n + 8 + z = 64 * t + 63 /\ n + 9 + z = 64 * t + 64
    OBVIOUS
  <2>2. P[n + 8 + z] = (8 * n) \div 256 /\ P[n + 9 + z] = (8 * n) % 256
    BY DEF PaddedParts, JoinedParts
  <2>3. QED
    BY <2>1, <2>2
<1>3. WordOf(P, t, 14) = {}
  <2>1. 64 * t + 4 * 14 + 1 = 64 * t + 57 /\ 64 * t + 4 * 14 + 4 = 64 * t + 60
    OBVIOUS
  <2>2. ZerosAt(P, t, 14)
    BY <1>1, <2>1 DEF ZerosAt
  <2>3. QED
    BY <2>2, WordOfZeros
<1>4. WordOf(P, t, 15) = Bits(8 * n, 16)
  <2>1. WordOf(P, t, 15) = Big(P[64 * t + 4 * 15 + 1], P[64 * t + 4 * 15 + 2],
                               P[64 * t + 4 * 15 + 3], P[64 * t + 4 * 15 + 4])
    BY WordIs
  <2>2. /\ 64 * t + 4 * 15 + 1 = 64 * t + 61 /\ 64 * t + 4 * 15 + 2 = 64 * t + 62
        /\ 64 * t + 4 * 15 + 3 = 64 * t + 63 /\ 64 * t + 4 * 15 + 4 = 64 * t + 64
    OBVIOUS
  <2>3. P[64 * t + 61] = 0 /\ P[64 * t + 62] = 0
    BY <1>1
  <2>4. WordOf(P, t, 15) = Big(0, 0, (8 * n) \div 256, (8 * n) % 256)
    BY <1>2, <2>1, <2>2, <2>3
  <2>5. PICK l \in Nat : l = 8 * n
    OBVIOUS
  <2>6. l <= 65535
    BY <2>5
  <2>7. Big(0, 0, l \div 256, l % 256) = Bits(l, 16)
    BY <2>6, ShortWord
  <2>8. QED
    BY <2>4, <2>5, <2>7
<1>5. Bits(8 * n, 16) \in SUBSET (0 .. 15)
  BY DEF Bits
<1>6. last \in [0 .. 15 -> Wide] /\ last[15] = Bits(8 * n, 16) /\ last[14] = {}
        /\ \A i \in 0 .. 13 : last[i] = words[i]
  BY <1>5 DEF Wide, BlockStart
<1> HIDE DEF last
<1>7. Low(last[14]) = {} /\ Low(last[15]) = Bits(8 * n, 16)
  BY <1>5, <1>6 DEF Low
<1>8. ASSUME NEW i \in 0 .. 15 PROVE Low(last[i]) = WordOf(P, t, i)
  <2>1. i = 14 \/ i = 15 \/ i \in 0 .. 13
    OBVIOUS
  <2>2. QED
    BY <1>3, <1>4, <1>6, <1>7, <2>1 DEF BlockStart
<1>9. QED
  BY <1>6, <1>8 DEF BlockIs, last

--------------------------------------------------------------------------------
(* Rounds. *)

(* With every round the words change places: what was in one is in the next. *)
LEMMA Roles ==
  ASSUME NEW i \in Nat
  PROVE  /\ role(0, i) \in 1 .. 5 /\ role(1, i) \in 1 .. 5 /\ role(2, i) \in 1 .. 5
         /\ role(3, i) \in 1 .. 5 /\ role(4, i) \in 1 .. 5
         /\ role(4, i) # role(0, i) /\ role(4, i) # role(1, i) /\ role(4, i) # role(2, i)
         /\ role(4, i) # role(3, i) /\ role(1, i) # role(0, i) /\ role(1, i) # role(2, i)
         /\ role(1, i) # role(3, i)
         /\ role(0, i + 1) = role(4, i) /\ role(1, i + 1) = role(0, i) /\ role(2, i + 1) = role(1, i)
         /\ role(3, i + 1) = role(2, i) /\ role(4, i + 1) = role(3, i)
<1>1. \A r \in 0 .. 4 : role(r, i) \in 1 .. 5
  BY DEF role
<1>2. /\ role(4, i) # role(0, i) /\ role(4, i) # role(1, i) /\ role(4, i) # role(2, i)
      /\ role(4, i) # role(3, i) /\ role(1, i) # role(0, i) /\ role(1, i) # role(2, i)
      /\ role(1, i) # role(3, i)
  BY DEF role
<1>3. /\ role(0, i + 1) = role(4, i) /\ role(1, i + 1) = role(0, i) /\ role(2, i + 1) = role(1, i)
      /\ role(3, i + 1) = role(2, i) /\ role(4, i + 1) = role(3, i)
  BY DEF role
<1>4. QED
  BY <1>1, <1>2, <1>3

(* The block is a ring: sixteen words back is the same place, and no two of the last sixteen
   share one. *)
LEMMA Ring ==
  ASSUME NEW i \in Nat, i >= 16
  PROVE  /\ (i + 13) % 16 = (i - 3) % 16 /\ (i + 8) % 16 = (i - 8) % 16
         /\ (i + 2) % 16 = (i - 14) % 16 /\ i % 16 = (i - 16) % 16
         /\ \A j \in i - 15 .. i - 1 : j % 16 # i % 16
<1>1. (i + 13) % 16 = (i - 3) % 16 /\ (i + 8) % 16 = (i - 8) % 16
  OBVIOUS
<1>2. (i + 2) % 16 = (i - 14) % 16 /\ i % 16 = (i - 16) % 16
  OBVIOUS
<1>3. \A j \in i - 15 .. i - 1 : j % 16 # i % 16
  OBVIOUS
<1>4. QED
  BY <1>1, <1>2, <1>3

(* The word a round takes, in the code and in the standard. *)
Blk == IF round < 16 THEN block[round] ELSE SHA1_BLK(round)
NextWord == rotl(xor(xor(W[round - 2], W[round - 7]), xor(W[round - 13], W[round - 15])), 1)
RefWord == IF round < 16 THEN W[round + 1] ELSE NextWord

(* The exclusive or of two words is a word. *)
LEMMA XorType ==
  /\ \A x, y \in Wide : xor(x, y) \in Wide
  /\ \A x, y \in Narrow : xor(x, y) \in Narrow
  BY DEF xor, Wide, Narrow

(* A rotated word is a word. *)
LEMMA RotlType == \A x \in Narrow, n \in Nat : rotl(x, n) \in Narrow
<1> SUFFICES ASSUME NEW x \in Narrow, NEW n \in Nat PROVE rotl(x, n) \in Narrow
  OBVIOUS
<1>1. \A b \in x : (b + n) % 32 \in 0 .. 31
  BY DEF Narrow
<1>2. QED
  BY <1>1 DEF rotl, Narrow

(* A lower half is a word of 32 bits. *)
LEMMA LowType == \A x : Low(x) \in Narrow
  BY DEF Low, Narrow

(* The word that a round adds is the one of the schedule: block[i], or SHA1_BLK of the ring. *)
LEMMA RoundWord ==
  ASSUME RoundInv, round < 80
  PROVE  Blk \in Wide /\ Low(Blk) = RefWord /\ RefWord \in Narrow
<1>1. round \in 0 .. 79 /\ block \in [0 .. 15 -> Wide]
  BY DEF RoundInv
<1>2. CASE round < 16
  <2>1. Len(W) = 16 /\ \A j \in Len(W) - 15 .. Len(W) : Low(block[(j - 1) % 16]) = W[j]
    BY <1>2 DEF RoundInv
  <2>2. round + 1 \in Len(W) - 15 .. Len(W) /\ (round + 1 - 1) % 16 = round
    BY <1>1, <1>2, <2>1
  <2>3. Low(block[round]) = W[round + 1]
    <3>1. PICK j \in Len(W) - 15 .. Len(W) : j = round + 1
      BY <2>2
    <3>2. Low(block[(j - 1) % 16]) = W[j]
      BY <2>1
    <3>3. (j - 1) % 16 = round
      BY <1>1, <1>2, <3>1
    <3>4. QED
      BY <3>1, <3>2, <3>3
  <2>4. Blk = block[round] /\ RefWord = W[round + 1] /\ block[round] \in Wide
    BY <1>1, <1>2 DEF Blk, RefWord
  <2>5. QED
    BY <2>3, <2>4, LowType
<1>3. CASE round >= 16
  <2> DEFINE a == block[(round + 13) % 16]
             b == block[(round + 8) % 16]
             c == block[(round + 2) % 16]
             d == block[round % 16]
  <2>1. Len(W) = round /\ \A j \in Len(W) - 15 .. Len(W) : Low(block[(j - 1) % 16]) = W[j]
    BY <1>3 DEF RoundInv
  <2>2. /\ Low(block[(round - 2 - 1) % 16]) = W[round - 2] /\ Low(block[(round - 7 - 1) % 16]) = W[round - 7]
        /\ Low(block[(round - 13 - 1) % 16]) = W[round - 13] /\ Low(block[(round - 15 - 1) % 16]) = W[round - 15]
    <3>1. /\ round - 2 \in round - 15 .. round /\ round - 7 \in round - 15 .. round
          /\ round - 13 \in round - 15 .. round /\ round - 15 \in round - 15 .. round
      BY <1>1, <1>3
    <3>2. QED
      BY <2>1, <3>1
  <2>3. Low(a) = W[round - 2] /\ Low(b) = W[round - 7] /\ Low(c) = W[round - 13] /\ Low(d) = W[round - 15]
    <3>1. /\ round - 2 - 1 = round - 3 /\ round - 7 - 1 = round - 8
          /\ round - 13 - 1 = round - 14 /\ round - 15 - 1 = round - 16
      BY <1>1
    <3>2. QED
      BY <1>1, <1>3, <2>2, <3>1, Ring
  <2>4. a \in Wide /\ b \in Wide /\ c \in Wide /\ d \in Wide
    <3>1. /\ (round + 13) % 16 \in 0 .. 15 /\ (round + 8) % 16 \in 0 .. 15
          /\ (round + 2) % 16 \in 0 .. 15 /\ round % 16 \in 0 .. 15
      BY <1>1
    <3>2. QED
      BY <1>1, <3>1
  <2>5. Blk = SHA1_ROL(xor(xor(a, b), xor(c, d)), 1) /\ RefWord = NextWord
    BY <1>1, <1>3 DEF Blk, SHA1_BLK, RefWord
  <2> HIDE DEF a, b, c, d
  <2>6. PICK x \in Wide : x = xor(xor(a, b), xor(c, d))
    BY <2>4, XorType
  <2>7. Low(x) = xor(xor(Low(a), Low(b)), xor(Low(c), Low(d)))
    BY <2>6, LowXor
  <2>8. Low(SHA1_ROL(x, 1)) = rotl(Low(x), 1) /\ SHA1_ROL(x, 1) \in Wide
    BY LowRol
  <2>9. NextWord = rotl(Low(x), 1)
    BY <2>3, <2>7 DEF NextWord
  <2>10. rotl(Low(x), 1) \in Narrow
    BY LowType, RotlType
  <2>11. QED
    BY <2>5, <2>6, <2>8, <2>9, <2>10
<1>4. QED
  BY <1>1, <1>2, <1>3

(* A sum in 32 bits is a word of 32 bits. *)
LEMMA PlusNarrow == \A x, y : plus(x, y, 32) \in Narrow
  BY PlusType DEF Narrow

(* A sum in 64 bits is a word of 64. *)
LEMMA PlusWide == \A x, y : plus(x, y, 64) \in Wide
  BY PlusType DEF Wide

RoundSum == plus(plus(plus(mixes(round, abcde[role(1, round)], abcde[role(2, round)], abcde[role(3, round)]),
                           Blk, 64), adds(round), 64), SHA1_ROL(abcde[role(0, round)], 5), 64)

RefSum == plus(plus(rotl(working[1], 5), f(round, working[2], working[3], working[4]), 32),
               plus(plus(working[5], K(round), 32), RefWord, 32), 32)

(* What a round writes, in the code and in the reference. *)
LEMMA RoundIs ==
  ASSUME Round
  PROVE  /\ place = "transform" /\ round < 80 /\ round' = round + 1 /\ place' = place
         /\ return' = return
         /\ block' = [block EXCEPT ![round % 16] = Blk]
         /\ abcde' = [abcde EXCEPT ![role(4, round)] = plus(abcde[role(4, round)], RoundSum, 64),
                                   ![role(1, round)] = SHA1_ROL(abcde[role(1, round)], 30)]
         /\ W' = IF round < 16 THEN W ELSE Append(W, RefWord)
         /\ working' = <<RefSum, working[1], rotl(working[2], 30), working[3], working[4]>>
<1>1. /\ place = "transform" /\ round < 80 /\ round' = round + 1 /\ place' = place /\ return' = return
  BY DEF Round
<1>2. block' = [block EXCEPT ![round % 16] = Blk]
  BY DEF Round, Blk
<1>3. abcde' = [abcde EXCEPT ![role(4, round)] = plus(abcde[role(4, round)], RoundSum, 64),
                             ![role(1, round)] = SHA1_ROL(abcde[role(1, round)], 30)]
  BY DEF Round, RoundSum, Blk
<1>4. W' = IF round < 16 THEN W ELSE Append(W, RefWord)
  BY DEF Round, RefRound, RefWord, NextWord
<1>5. working' = <<RefSum, working[1], rotl(working[2], 30), working[3], working[4]>>
  BY DEF Round, RefRound, RefSum, RefWord, NextWord
<1>6. QED
  BY <1>1, <1>2, <1>3, <1>4, <1>5

(* A round leaves in the ring the last sixteen words of the schedule. *)
LEMMA RoundRing ==
  ASSUME RoundInv, Round
  PROVE  /\ block' \in [0 .. 15 -> Wide] /\ W' \in Seq(Narrow)
         /\ Len(W') = IF round' < 16 THEN 16 ELSE round'
         /\ \A j \in Len(W') - 15 .. Len(W') : Low(block'[(j - 1) % 16]) = W'[j]
<1>1. round \in 0 .. 79 /\ round' = round + 1
  BY RoundIs DEF RoundInv
<1>2. Blk \in Wide /\ Low(Blk) = RefWord /\ RefWord \in Narrow
  BY <1>1, RoundWord
<1>3. block \in [0 .. 15 -> Wide] /\ W \in Seq(Narrow)
  BY DEF RoundInv
<1>4. round % 16 \in 0 .. 15
  BY <1>1
<1>5. block' = [block EXCEPT ![round % 16] = Blk]
  BY RoundIs
<1>6. block' \in [0 .. 15 -> Wide]
  BY <1>2, <1>3, <1>5
<1>7. /\ block'[round % 16] = Blk
      /\ \A k \in 0 .. 15 : k # round % 16 => block'[k] = block[k]
  BY <1>3, <1>4, <1>5
<1>8. CASE round < 16
  <2>1. W' = W /\ Len(W) = 16 /\ \A j \in Len(W) - 15 .. Len(W) : Low(block[(j - 1) % 16]) = W[j]
    BY <1>8, RoundIs DEF RoundInv
  <2>2. Len(W') = IF round' < 16 THEN 16 ELSE round'
    BY <1>1, <1>8, <2>1
  <2>3. block' = block
    <3>1. round % 16 = round /\ Blk = block[round]
      BY <1>1, <1>8 DEF Blk
    <3>2. QED
      BY <1>3, <1>5, <3>1
  <2>4. QED
    BY <1>3, <1>6, <2>1, <2>2, <2>3
<1>9. CASE round >= 16
  <2>1. /\ W' = Append(W, RefWord) /\ Len(W) = round
        /\ \A j \in round - 15 .. round : Low(block[(j - 1) % 16]) = W[j]
    <3>1. W' = Append(W, RefWord)
      BY <1>1, <1>9, RoundIs
    <3>2. QED
      BY <1>1, <1>9, <3>1 DEF RoundInv
  <2>2. W' \in Seq(Narrow) /\ Len(W') = round + 1 /\ W'[round + 1] = RefWord
    BY <1>2, <1>3, <2>1
  <2>3. \A j \in 1 .. round : W'[j] = W[j]
    BY <1>2, <1>3, <2>1
  <2>4. ASSUME NEW j \in round - 14 .. round + 1
        PROVE  Low(block'[(j - 1) % 16]) = W'[j]
    <3>1. CASE j = round + 1
      <4>1. (j - 1) % 16 = round % 16
        BY <1>1, <3>1
      <4>2. QED
        BY <1>2, <1>7, <2>2, <3>1, <4>1
    <3>2. CASE j # round + 1
      <4>1. j \in round - 14 .. round /\ j - 1 \in round - 15 .. round - 1 /\ j \in 1 .. round
        BY <1>1, <1>9, <3>2
      <4>2. (j - 1) % 16 # round % 16 /\ (j - 1) % 16 \in 0 .. 15
        BY <1>1, <1>9, <4>1, Ring
      <4>3. block'[(j - 1) % 16] = block[(j - 1) % 16]
        BY <1>7, <4>2
      <4>4. Low(block[(j - 1) % 16]) = W[j]
        BY <1>1, <2>1, <4>1
      <4>5. QED
        BY <2>3, <4>1, <4>3, <4>4
    <3>3. QED
      BY <3>1, <3>2
  <2>5. Len(W') = round' /\ round' >= 16 /\ Len(W') - 15 = round - 14 /\ Len(W') = round + 1
    BY <1>1, <1>9, <2>2
  <2>6. QED
    BY <1>6, <2>2, <2>4, <2>5
<1>10. QED
  BY <1>1, <1>8, <1>9

(* A round leaves in the five variables, by their roles, the working variables of the reference. *)
LEMMA RoundWorking ==
  ASSUME RoundInv, Round
  PROVE  /\ abcde' \in [1 .. 5 -> Wide] /\ working' \in [1 .. 5 -> Narrow]
         /\ \A r \in 0 .. 4 : Low(abcde'[role(r, round')]) = working'[r + 1]
<1> DEFINE a(r) == abcde[role(r, round)]
<1>1. round \in 0 .. 79 /\ round' = round + 1
  BY RoundIs DEF RoundInv
<1>2. abcde \in [1 .. 5 -> Wide] /\ working \in [1 .. 5 -> Narrow]
  BY DEF RoundInv
<1>3. Blk \in Wide /\ Low(Blk) = RefWord /\ RefWord \in Narrow
  BY <1>1, RoundWord
<1>4. /\ Low(a(0)) = working[1] /\ Low(a(1)) = working[2] /\ Low(a(2)) = working[3]
      /\ Low(a(3)) = working[4] /\ Low(a(4)) = working[5]
  <2>1. \A r \in 0 .. 4 : Low(abcde[role(r, round)]) = working[r + 1]
    BY DEF RoundInv
  <2>2. 0 + 1 = 1 /\ 1 + 1 = 2 /\ 2 + 1 = 3 /\ 3 + 1 = 4 /\ 4 + 1 = 5
    OBVIOUS
  <2>3. QED
    BY <2>1, <2>2
<1>5. /\ role(0, round) \in 1 .. 5 /\ role(1, round) \in 1 .. 5 /\ role(2, round) \in 1 .. 5
      /\ role(3, round) \in 1 .. 5 /\ role(4, round) \in 1 .. 5
  BY <1>1, Roles
<1>6. a(0) \in Wide /\ a(1) \in Wide /\ a(2) \in Wide /\ a(3) \in Wide /\ a(4) \in Wide
  BY <1>2, <1>5
<1>7. Low(plus(a(4), RoundSum, 64)) = RefSum
  <2> DEFINE sum == plus(plus(plus(mixes(round, a(1), a(2), a(3)), Blk, 64), adds(round), 64),
                         SHA1_ROL(a(0), 5), 64)
  <2>1. RoundSum = sum
    BY DEF RoundSum
  <2>2. PICK i \in 0 .. 79, v \in Wide : i = round /\ v = a(0)
    BY <1>1, <1>6
  <2>3. PICK w, x, y, z, b : w = a(1) /\ x = a(2) /\ y = a(3) /\ z = a(4) /\ b = Blk
    OBVIOUS
  <2>4. Low(plus(z, plus(plus(plus(mixes(i, w, x, y), b, 64), adds(i), 64), SHA1_ROL(v, 5), 64), 64))
          = plus(plus(rotl(Low(v), 5), f(i, Low(w), Low(x), Low(y)), 32),
                 plus(plus(Low(z), K(i), 32), Low(b), 32), 32)
    BY LowSum
  <2>5. RoundSum = plus(plus(plus(mixes(i, w, x, y), b, 64), adds(i), 64), SHA1_ROL(v, 5), 64)
    BY <2>1, <2>2, <2>3
  <2>6. RefSum = plus(plus(rotl(Low(v), 5), f(i, Low(w), Low(x), Low(y)), 32),
                      plus(plus(Low(z), K(i), 32), Low(b), 32), 32)
    BY <1>3, <1>4, <2>2, <2>3 DEF RefSum
  <2>7. QED
    BY <2>3, <2>4, <2>5, <2>6
<1>8. Low(SHA1_ROL(a(1), 30)) = rotl(working[2], 30) /\ SHA1_ROL(a(1), 30) \in Wide
  <2>1. PICK w \in Wide : w = a(1)
    BY <1>6
  <2>2. Low(SHA1_ROL(w, 30)) = rotl(Low(w), 30) /\ SHA1_ROL(w, 30) \in Wide
    BY LowRol
  <2>3. QED
    BY <1>4, <2>1, <2>2
<1>9. plus(a(4), RoundSum, 64) \in Wide /\ RefSum \in Narrow
  BY PlusWide, PlusNarrow DEF RefSum
<1>10. /\ abcde' = [abcde EXCEPT ![role(4, round)] = plus(a(4), RoundSum, 64),
                                 ![role(1, round)] = SHA1_ROL(a(1), 30)]
       /\ working' = <<RefSum, working[1], rotl(working[2], 30), working[3], working[4]>>
  BY RoundIs
<1>11. abcde' \in [1 .. 5 -> Wide]
  BY <1>2, <1>8, <1>9, <1>10
<1>12. working' \in [1 .. 5 -> Narrow]
  BY <1>2, <1>9, <1>10, RotlType
<1>13. /\ abcde'[role(4, round)] = plus(a(4), RoundSum, 64)
       /\ abcde'[role(1, round)] = SHA1_ROL(a(1), 30)
       /\ abcde'[role(0, round)] = a(0) /\ abcde'[role(2, round)] = a(2) /\ abcde'[role(3, round)] = a(3)
  BY <1>1, <1>2, <1>5, <1>10, Roles
<1>14. /\ working'[1] = RefSum /\ working'[2] = working[1] /\ working'[3] = rotl(working[2], 30)
       /\ working'[4] = working[3] /\ working'[5] = working[4]
  BY <1>10
<1>15. /\ role(0, round') = role(4, round) /\ role(1, round') = role(0, round)
       /\ role(2, round') = role(1, round) /\ role(3, round') = role(2, round)
       /\ role(4, round') = role(3, round)
  BY <1>1, Roles
<1>16. /\ Low(abcde'[role(0, round')]) = working'[0 + 1] /\ Low(abcde'[role(1, round')]) = working'[1 + 1]
       /\ Low(abcde'[role(2, round')]) = working'[2 + 1] /\ Low(abcde'[role(3, round')]) = working'[3 + 1]
       /\ Low(abcde'[role(4, round')]) = working'[4 + 1]
  <2>1. 0 + 1 = 1 /\ 1 + 1 = 2 /\ 2 + 1 = 3 /\ 3 + 1 = 4 /\ 4 + 1 = 5
    OBVIOUS
  <2>2. QED
    BY <1>4, <1>7, <1>8, <1>13, <1>14, <1>15, <2>1, Zenon
<1>17. \A r \in 0 .. 4 : Low(abcde'[role(r, round')]) = working'[r + 1]
  <2>1. \A r \in 0 .. 4 : r = 0 \/ r = 1 \/ r = 2 \/ r = 3 \/ r = 4
    OBVIOUS
  <2>2. QED
    BY <1>16, <2>1, Zenon
<1>18. QED
  BY <1>11, <1>12, <1>17

(* A round keeps the code and the reference together. *)
LEMMA RoundStep ==
  ASSUME RoundInv, Round
  PROVE  RoundInv'
<1>1. round' \in 0 .. 80 /\ return' \in {"update", "length", "answer"}
  BY RoundIs DEF RoundInv
<1>2. QED
  BY <1>1, RoundRing, RoundWorking DEF RoundInv

--------------------------------------------------------------------------------
(* transform, as a whole. *)

(* The GUID has 36 bytes. *)
LEMMA MagicType == magic_guid \in Seq(Byte) /\ Len(magic_guid) = 36
<1>1. magic_guid = [i \in 1 .. 36 |-> magic_guid[i]]
  BY DEF magic_guid
<1>2. \A i \in 1 .. 36 : magic_guid[i] \in Byte
  BY DEF magic_guid, Byte
<1>3. QED
  BY <1>1, <1>2

MessageOK(m) == m \in Seq(Byte) /\ Len(m) \in Nat /\ Len(m) <= 8191

(* The key of a request and the GUID are a message whose bits a half word counts. *)
LEMMA MessageType ==
  ASSUME NEW k \in Seq(Byte), Len(k) <= MAX_DATA_SIZE
  PROVE  MessageOK(k \o magic_guid)
<1>1. Len(k) \in Nat /\ Len(k) <= 1024
  BY DEF MAX_DATA_SIZE
<1>2. magic_guid \in Seq(Byte)
  BY MagicType
<1>3. k \o magic_guid \in Seq(Byte)
  BY <1>2
<1>4. Len(k \o magic_guid) = Len(k) + Len(magic_guid)
  BY <1>2
<1>5. QED
  BY <1>1, <1>3, <1>4, MagicType DEF MessageOK

(* A word of a message is a word of 32 bits. *)
LEMMA WordType == \A P, t, i : WordOf(P, t, i) \in Narrow /\ Word(P, t) \in Narrow
  BY DEF WordOf, Word, Const, Bits, Narrow

(* The schedule starts with the words of the block. *)
LEMMA SixteenWords ==
  ASSUME NEW w \in [1 .. 16 -> Narrow]
  PROVE  w \in Seq(Narrow) /\ Len(w) = 16
<1>1. PICK n \in Nat : n = 16
  OBVIOUS
<1>2. w \in [1 .. n -> Narrow]
  BY <1>1
<1>3. w \in Seq(Narrow)
  BY <1>2
<1>4. Len(w) = n
  BY <1>2
<1>5. QED
  BY <1>1, <1>3, <1>4

(* The first words of a block. *)
LEMMA CallStep ==
  ASSUME NEW words, NEW then \in {"update", "length", "answer"}, Call(words, then),
         HashInv, transforms \in Nat, BlockIs(words, Padded(Message), transforms)
  PROVE  RoundInv' /\ return' = then /\ place' = "transform" /\ H' = H
<1> DEFINE P == Padded(Message)
<1>1. /\ block' = words /\ abcde' = digest /\ round' = 0 /\ return' = then /\ place' = "transform"
      /\ working' = H /\ H' = H
      /\ W' = [i \in 1 .. 16 |-> Word(P, 16 * transforms + i)]
  BY DEF Call, RefBlock, Message
<1>2. words \in [0 .. 15 -> Wide] /\ \A i \in 0 .. 15 : Low(words[i]) = WordOf(P, transforms, i)
  BY DEF BlockIs
<1> HIDE DEF P
<1>3. W' \in Seq(Narrow) /\ Len(W') = 16
  <2>1. W' \in [1 .. 16 -> Narrow]
    BY <1>1, WordType
  <2>2. QED
    BY <2>1, SixteenWords
<1>4. ASSUME NEW j \in 1 .. 16
      PROVE  Low(block'[(j - 1) % 16]) = W'[j]
  <2>1. j - 1 \in 0 .. 15 /\ (j - 1) % 16 = j - 1 /\ 16 * transforms + (j - 1) + 1 = 16 * transforms + j
    OBVIOUS
  <2>2. W'[j] = Word(P, 16 * transforms + j)
    BY <1>1
  <2>3. Low(words[j - 1]) = Word(P, 16 * transforms + (j - 1) + 1)
    BY <1>2, <2>1 DEF WordOf
  <2>4. QED
    BY <1>1, <2>1, <2>2, <2>3
<1>5. abcde' \in [1 .. 5 -> Wide] /\ working' \in [1 .. 5 -> Narrow]
  BY <1>1 DEF HashInv
<1>6. ASSUME NEW r \in 0 .. 4
      PROVE  Low(abcde'[role(r, round')]) = working'[r + 1]
  <2>1. role(r, round') = r + 1 /\ r + 1 \in 1 .. 5
    BY <1>1 DEF role
  <2>2. QED
    BY <1>1, <2>1 DEF HashInv
<1>7. round' \in 0 .. 80 /\ (IF round' < 16 THEN 16 ELSE round') = 16 /\ Len(W') - 15 = 1
  BY <1>1, <1>3
<1>8. QED
  BY <1>1, <1>2, <1>3, <1>4, <1>5, <1>6, <1>7 DEF RoundInv

(* The sums at the end of transform keep the lower half of the digest the hash value. *)
LEMMA EndStep ==
  ASSUME HashInv, RoundInv, EndTransform
  PROVE  HashInv'
<1>1. /\ round = 80
      /\ digest' = [j \in 1 .. 5 |-> plus(digest[j], abcde[j], 64)]
      /\ H' = [j \in 1 .. 5 |-> plus(H[j], working[j], 32)]
  BY DEF EndTransform, RefEnd
<1>2. digest' \in [1 .. 5 -> Wide] /\ H' \in [1 .. 5 -> Narrow]
  BY <1>1, PlusWide, PlusNarrow
<1>3. ASSUME NEW j \in 1 .. 5 PROVE Low(digest'[j]) = H'[j]
  <2>1. j - 1 \in 0 .. 4 /\ role(j - 1, round) = j /\ j - 1 + 1 = j
    BY <1>1 DEF role
  <2>2. Low(abcde[j]) = working[j]
    BY <2>1 DEF RoundInv
  <2>3. Low(digest[j]) = H[j]
    BY DEF HashInv
  <2>4. Low(plus(digest[j], abcde[j], 64)) = plus(Low(digest[j]), Low(abcde[j]), 32)
    BY PlusLow
  <2>5. QED
    BY <1>1, <2>2, <2>3, <2>4
<1>4. QED
  BY <1>2, <1>3 DEF HashInv

--------------------------------------------------------------------------------
(* update and final: what is left of the message. *)

(* The bytes of the buffer that final makes of what is left. *)
IsFinal(bytes, b, r) == r = Len(b) /\ bytes = b \o <<128>> \o Zeros(63 - r)

(* The second of two sequences that are put together. *)
LEMMA SecondPart ==
  ASSUME NEW S, NEW s \in Seq(S), NEW t \in Seq(S), NEW p \in Nat, NEW q \in Nat, Len(s) = p, Len(t) = q
  PROVE  \A i \in p + 1 .. p + q : (s \o t)[i] = t[i - p]
  OBVIOUS

FinalParts(bytes, b, r) ==
  /\ \A i \in 1 .. r : bytes[i] = b[i]
  /\ bytes[r + 1] = 128
  /\ \A i \in r + 2 .. 64 : bytes[i] = 0

(* The bytes of the last buffer: what was left, 128 and zeros. *)
LEMMA FinalBytes ==
  ASSUME NEW b \in Seq(Byte), NEW r \in 0 .. 63, NEW bytes, IsFinal(bytes, b, r)
  PROVE  FinalParts(bytes, b, r)
<1> DEFINE s == b \o <<128>>
<1>1. PICK z \in Nat : z = 63 - r
  OBVIOUS
<1>2. s \in Seq(Byte) /\ Len(s) = r + 1 /\ (\A i \in 1 .. r : s[i] = b[i]) /\ s[r + 1] = 128
  BY DEF Byte, IsFinal
<1>3. Zeros(z) \in Seq(Byte) /\ Len(Zeros(z)) = z /\ \A i \in 1 .. z : Zeros(z)[i] = 0
  BY ZerosType
<1>4. bytes = s \o Zeros(z)
  BY <1>1 DEF IsFinal
<1> HIDE DEF s
<1>5. PICK p \in Nat : p = r + 1
  OBVIOUS
<1> DEFINE t == s \o Zeros(z)
<1>6. s \in Seq(Byte) /\ Zeros(z) \in Seq(Byte) /\ Len(s) = p /\ Len(Zeros(z)) = z
  BY <1>2, <1>3, <1>5
<1>7. \A i \in 1 .. p : t[i] = s[i]
  BY <1>6
<1>8. \A i \in p + 1 .. p + z : t[i] = Zeros(z)[i - p]
  BY <1>6, SecondPart
<1>9. t = bytes
  BY <1>4
<1> HIDE DEF t
<1>10. \A i \in r + 2 .. 64 : bytes[i] = 0
  <2> SUFFICES ASSUME NEW i \in r + 2 .. 64 PROVE bytes[i] = 0
    OBVIOUS
  <2>1. i \in p + 1 .. p + z /\ i - p \in 1 .. z
    BY <1>1, <1>5
  <2>2. QED
    BY <1>3, <1>8, <1>9, <2>1
<1>11. \A i \in 1 .. r + 1 : bytes[i] = s[i]
  BY <1>5, <1>7, <1>9
<1>12. QED
  BY <1>2, <1>10, <1>11 DEF FinalParts

Padding(m) == PaddedParts(Padded(m), m, Len(m), Fill(m))

(* A message is padded as PaddedParts says. *)
LEMMA PaddedMessage ==
  ASSUME NEW m, MessageOK(m)
  PROVE  Padding(m)
<1>1. PICK n \in Nat : n = Len(m)
  BY DEF MessageOK
<1>2. m \in Seq(Byte) /\ n <= 8191
  BY <1>1 DEF MessageOK
<1>3. PaddedParts(Padded(m), m, n, Fill(m))
  BY <1>1, <1>2, PaddedIs
<1>4. QED
  BY <1>1, <1>3 DEF Padding

(* What is left of a message when t blocks were taken of it. *)
Left(b, m, t) ==
  b \in Seq(Byte) /\ 64 * t + Len(b) = Len(m) /\ \A i \in 1 .. Len(b) : b[i] = m[64 * t + i]

(* What is left of a message is there in the padded message. *)
LEMMA LeftPiece ==
  ASSUME NEW m, MessageOK(m), NEW t \in Nat, NEW b, Left(b, m, t)
  PROVE  \A i \in 1 .. Len(b) : b[i] = Padded(m)[64 * t + i] /\ b[i] \in Byte
<1> SUFFICES ASSUME NEW i \in 1 .. Len(b)
             PROVE  b[i] = Padded(m)[64 * t + i] /\ b[i] \in Byte
  OBVIOUS
<1>1. PICK r \in Nat, n \in Nat : r = Len(b) /\ n = Len(m) /\ 64 * t + r = n
  BY DEF Left, MessageOK
<1>2. b[i] = m[64 * t + i] /\ b[i] \in Byte
  BY DEF Left
<1>3. 64 * t + i \in 1 .. n
  BY <1>1
<1>4. \A j \in 1 .. n : Padded(m)[j] = m[j]
  BY <1>1, PaddedMessage DEF Padding, PaddedParts, JoinedParts
<1>5. QED
  BY <1>2, <1>3, <1>4

(* The zeros of the padding, from the bytes that are left. *)
LEMMA FillAfter ==
  ASSUME NEW t \in Nat, NEW r \in 0 .. 63
  PROVE  (55 - (64 * t + r)) % 64 = IF r >= 56 THEN 119 - r ELSE 55 - r
<1>1. CASE r >= 56
  BY <1>1
<1>2. CASE r < 56
  BY <1>2
<1>3. QED
  BY <1>1, <1>2

(* What final pads the buffer with is what the message is padded with. *)
LEMMA FinalPiece ==
  ASSUME NEW m, MessageOK(m), NEW t \in Nat, NEW b, Left(b, m, t), NEW r \in 0 .. 63,
         NEW bytes, IsFinal(bytes, b, r)
  PROVE  /\ r >= 56 => Piece(bytes, Padded(m), t, 1, 64) /\ Len(Padded(m)) = 64 * t + 128
         /\ r < 56 => Piece(bytes, Padded(m), t, 1, 56) /\ Len(Padded(m)) = 64 * t + 64
<1>1. PICK n \in Nat : n = Len(m) /\ n = 64 * t + r
  BY DEF MessageOK, Left, IsFinal
<1>2. Fill(m) = (55 - n) % 64
  BY <1>1 DEF Fill
<1>3. PICK z \in Nat : z = (55 - n) % 64
  OBVIOUS
<1>4. z = IF r >= 56 THEN 119 - r ELSE 55 - r
  BY <1>1, <1>3, FillAfter
<1>5. PICK P : P = Padded(m)
  OBVIOUS
<1>6. PaddedParts(P, m, n, z)
  BY <1>1, <1>2, <1>3, <1>5, PaddedMessage DEF Padding
<1>7. /\ Len(P) = n + 9 + z /\ P[n + 1] = 128
      /\ \A i \in n + 2 .. n + 7 + z : P[i] = 0
  BY <1>6 DEF PaddedParts, JoinedParts
<1>8. /\ \A i \in 1 .. r : bytes[i] = b[i]
      /\ bytes[r + 1] = 128
      /\ \A i \in r + 2 .. 64 : bytes[i] = 0
  <2>1. b \in Seq(Byte)
    BY DEF Left
  <2>2. FinalParts(bytes, b, r)
    BY <2>1, FinalBytes
  <2>3. QED
    BY <2>2 DEF FinalParts
<1>9. \A i \in 1 .. r : b[i] = P[64 * t + i] /\ b[i] \in Byte
  BY <1>5, LeftPiece DEF IsFinal
<1>10. ASSUME NEW k \in 1 .. 64, 64 * t + k <= n + 7 + z
       PROVE  bytes[k] = P[64 * t + k] /\ bytes[k] \in Byte
  <2>1. CASE k <= r
    BY <1>8, <1>9, <2>1
  <2>2. CASE k = r + 1
    <3>1. 64 * t + k = n + 1
      BY <1>1, <2>2
    <3>2. bytes[k] = 128 /\ P[64 * t + k] = 128
      BY <1>7, <1>8, <2>2, <3>1
    <3>3. QED
      BY <3>2 DEF Byte
  <2>3. CASE k > r + 1
    <3>1. 64 * t + k \in n + 2 .. n + 7 + z /\ k \in r + 2 .. 64
      BY <1>1, <1>10, <2>3
    <3>2. bytes[k] = 0 /\ P[64 * t + k] = 0
      BY <1>7, <1>8, <3>1
    <3>3. QED
      BY <3>2 DEF Byte
  <2>4. QED
    BY <2>1, <2>2, <2>3
<1>11. CASE r >= 56
  <2>1. z = 119 - r /\ n + 9 + z = 64 * t + 128 /\ \A k \in 1 .. 64 : 64 * t + k <= n + 7 + z
    BY <1>1, <1>4, <1>11
  <2>2. Piece(bytes, P, t, 1, 64)
    BY <1>10, <2>1 DEF Piece
  <2>3. QED
    BY <1>5, <1>7, <1>11, <2>1, <2>2
<1>12. CASE r < 56
  <2>1. z = 55 - r /\ n + 9 + z = 64 * t + 64 /\ \A k \in 1 .. 56 : k \in 1 .. 64 /\ 64 * t + k <= n + 7 + z
    BY <1>1, <1>4, <1>12
  <2>2. Piece(bytes, P, t, 1, 56)
    BY <1>10, <2>1 DEF Piece
  <2>3. QED
    BY <1>5, <1>7, <1>12, <2>1, <2>2
<1>13. QED
  BY <1>11, <1>12

(* The last block: its first words are the message's and its two last the length. *)
LEMMA LastWords ==
  ASSUME NEW m, MessageOK(m), NEW t \in Nat, Len(m) <= 64 * t + 55, Len(Padded(m)) = 64 * t + 64,
         NEW words, BlockStart(words, Padded(m), t)
  PROVE  BlockIs([words EXCEPT ![15] = Bits(8 * Len(m), 16), ![14] = {}], Padded(m), t)
<1>1. PICK n \in Nat : n = Len(m)
  BY DEF MessageOK
<1>2. n <= 8191 /\ n <= 64 * t + 55
  BY <1>1 DEF MessageOK
<1>3. PICK P : P = Padded(m)
  OBVIOUS
<1>4. PICK z \in Nat : z = Fill(m)
  <2>1. (55 - n) % 64 \in Nat
    OBVIOUS
  <2>2. QED
    BY <1>1, <2>1 DEF Fill
<1>5. PaddedParts(P, m, n, z)
  BY <1>1, <1>3, <1>4, PaddedMessage DEF Padding
<1>6. Len(P) = n + 9 + z
  BY <1>5 DEF PaddedParts, JoinedParts
<1>7. 64 * t + 64 = n + 9 + z
  BY <1>3, <1>6
<1>8. BlockStart(words, P, t)
  BY <1>3
<1>9. BlockIs([words EXCEPT ![15] = Bits(8 * n, 16), ![14] = {}], P, t)
  BY <1>2, <1>5, <1>7, <1>8, LastBlock
<1>10. QED
  BY <1>1, <1>3, <1>9

(* The block of its own for the length: nothing but zeros before it. *)
LEMMA LengthWords ==
  ASSUME NEW m, MessageOK(m), NEW t \in Nat, Len(m) < 64 * t, Len(Padded(m)) = 64 * t + 64
  PROVE  BlockIs([[i \in 0 .. 15 |-> {}] EXCEPT ![15] = Bits(8 * Len(m), 16), ![14] = {}], Padded(m), t)
<1>1. PICK n \in Nat : n = Len(m) /\ n < 64 * t
  BY DEF MessageOK
<1>2. PICK z \in Nat : z = Fill(m)
  <2>1. (55 - n) % 64 \in Nat
    OBVIOUS
  <2>2. QED
    BY <1>1, <2>1 DEF Fill
<1>3. PICK P : P = Padded(m)
  OBVIOUS
<1>4. PaddedParts(P, m, n, z)
  BY <1>1, <1>2, <1>3, PaddedMessage DEF Padding
<1>5. n + 9 + z = 64 * t + 64 /\ \A i \in n + 2 .. n + 7 + z : P[i] = 0
  BY <1>3, <1>4 DEF PaddedParts, JoinedParts
<1>6. ASSUME NEW i \in 0 .. 13 PROVE WordOf(P, t, i) = {}
  <2>1. \A k \in 64 * t + 4 * i + 1 .. 64 * t + 4 * i + 4 : k \in n + 2 .. n + 7 + z
    BY <1>1, <1>5
  <2>2. ZerosAt(P, t, i)
    BY <1>5, <2>1 DEF ZerosAt
  <2>3. QED
    BY <2>2, WordOfZeros
<1>7. PICK words : words = [i \in 0 .. 15 |-> {}]
  OBVIOUS
<1>8. words \in [0 .. 15 -> Wide] /\ \A i \in 0 .. 13 : Low(words[i]) = {}
  BY <1>7 DEF Wide, Low
<1>9. BlockStart(words, Padded(m), t)
  BY <1>3, <1>6, <1>8 DEF BlockStart
<1>10. Len(m) <= 64 * t + 55
  BY <1>1
<1>11. BlockIs([words EXCEPT ![15] = Bits(8 * Len(m), 16), ![14] = {}], Padded(m), t)
  BY <1>9, <1>10, LastWords
<1>12. QED
  BY <1>7, <1>11

--------------------------------------------------------------------------------
(* The inductive invariant, and the steps that keep it. *)

(* The blocks that were taken from the message, and where handle_request is or will be after this one. *)
Taken == IF place = "transform" THEN transforms + 1 ELSE transforms
Goal  == IF place = "transform" THEN return ELSE place

PlaceInv ==
  /\ transforms \in Nat
  /\ place \in {"waiting", "update", "final", "length", "transform", "answer", "answered"}
  /\ IF place = "waiting" THEN transforms = 0 ELSE asked \in Seq(Byte) /\ Len(asked) <= MAX_DATA_SIZE
  /\ Goal = "update" => Left(rest, Message, Taken)
  /\ place = "final" => Left(buffer, Message, transforms) /\ Len(buffer) < BLOCK_BYTES
  /\ Goal = "length" =>
       /\ Len(Message) < 64 * Taken /\ total_bits = 8 * Len(Message)
       /\ Len(Padded(Message)) = 64 * Taken + 64
  /\ Goal \in {"answer", "answered"} => Len(Padded(Message)) = 64 * Taken

AkInv == HashInv /\ (place = "transform" => RoundInv) /\ PlaceInv

(* After a request, what is hashed is a message. *)
LEMMA AskedMessage ==
  ASSUME PlaceInv, place # "waiting"
  PROVE  MessageOK(Message)
<1>1. asked \in Seq(Byte) /\ Len(asked) <= MAX_DATA_SIZE
  BY DEF PlaceInv
<1>2. QED
  BY <1>1, MessageType DEF Message

(* It holds at the start. *)
LEMMA InitAkInv == AkInit => AkInv
<1> SUFFICES ASSUME AkInit PROVE AkInv
  OBVIOUS
<1>1. digest = digest0 /\ H = digest0 /\ transforms = 0 /\ place = "waiting"
  BY DEF AkInit
<1>2. digest0 \in [1 .. 5 -> Narrow]
  <2>1. \A high, low : Const(high, low) \in Narrow
    BY DEF Const, Bits, Narrow
  <2>2. QED
    BY <2>1 DEF digest0
<1>3. HashInv
  <2>1. \A x \in Narrow : x \in Wide /\ Low(x) = x
    <3> SUFFICES ASSUME NEW x \in Narrow PROVE x \in Wide /\ Low(x) = x
      OBVIOUS
    <3>1. \A b \in x : b \in 0 .. 31 /\ b \in 0 .. 63
      BY DEF Narrow
    <3>2. \A b : b \in Low(x) <=> b \in x
      BY <3>1 DEF Low
    <3>3. QED
      BY <3>1, <3>2 DEF Wide
  <2>2. QED
    BY <1>1, <1>2, <2>1 DEF HashInv
<1>4. PlaceInv
  BY <1>1 DEF PlaceInv, Goal
<1>5. QED
  BY <1>1, <1>3, <1>4 DEF AkInv

(* handle_request starts with the whole message left. *)
LEMMA HandleRequestStep ==
  ASSUME AkInv, NEW k \in Keys, HandleRequest(k)
  PROVE  AkInv'
<1>1. /\ place' = "update" /\ rest' = k \o magic_guid /\ asked' = k /\ transforms' = transforms
      /\ digest' = digest /\ H' = H /\ transforms = 0
  BY DEF HandleRequest, sha1, fips, AkInv, PlaceInv
<1>2. k \in Seq(Byte) /\ Len(k) <= MAX_DATA_SIZE
  BY KeysAssumption DEF Byte
<1>3. Message' = rest' /\ MessageOK(rest')
  BY <1>1, <1>2, MessageType DEF Message
<1>4. Left(rest', Message', 0)
  <2>1. PICK m : m = rest'
    OBVIOUS
  <2>2. m \in Seq(Byte) /\ Len(m) \in Nat
    BY <1>3, <2>1 DEF MessageOK
  <2>3. 64 * 0 + Len(m) = Len(m) /\ \A i \in 1 .. Len(m) : 64 * 0 + i = i
    BY <2>2
  <2>4. QED
    BY <1>3, <2>1, <2>2, <2>3 DEF Left
<1>5. HashInv'
  BY <1>1 DEF AkInv, HashInv
<1>6. PlaceInv'
  BY <1>1, <1>2, <1>4 DEF PlaceInv, Goal, Taken
<1>7. QED
  BY <1>1, <1>5, <1>6 DEF AkInv

(* A round. *)
LEMMA RoundKeepsPlace ==
  ASSUME AkInv, Round
  PROVE  AkInv'
<1>1. /\ place = "transform" /\ place' = place /\ return' = return /\ rest' = rest /\ transforms' = transforms
      /\ digest' = digest /\ H' = H /\ asked' = asked /\ buffer' = buffer /\ total_bits' = total_bits
  BY DEF Round, RefRound, sha1
<1>2. RoundInv'
  BY <1>1, RoundStep DEF AkInv
<1>3. HashInv'
  BY <1>1 DEF AkInv, HashInv
<1>4. PlaceInv'
  BY <1>1 DEF AkInv, PlaceInv, Goal, Taken, Message
<1>5. QED
  BY <1>2, <1>3, <1>4 DEF AkInv

(* The end of transform: one more block is taken. *)
LEMMA EndTransformStep ==
  ASSUME AkInv, EndTransform
  PROVE  AkInv'
<1>1. /\ place = "transform" /\ place' = return /\ rest' = rest /\ transforms' = transforms + 1
      /\ asked' = asked /\ buffer' = buffer /\ total_bits' = total_bits
  BY DEF EndTransform
<1>2. return \in {"update", "length", "answer"} /\ RoundInv
  BY <1>1 DEF AkInv, RoundInv
<1>3. HashInv'
  BY <1>2, EndStep DEF AkInv
<1>4. Taken' = Taken /\ Goal' = Goal /\ Message' = Message /\ transforms' \in Nat
  BY <1>1, <1>2 DEF AkInv, PlaceInv, Taken, Goal, Message
<1>5. PlaceInv'
  BY <1>1, <1>2, <1>4 DEF AkInv, PlaceInv
<1>6. QED
  BY <1>1, <1>2, <1>3, <1>5 DEF AkInv

(* The reply changes nothing of the hash. *)
LEMMA ReplyKeepsPlace ==
  ASSUME AkInv, Reply
  PROVE  AkInv'
<1>1. /\ place = "answer" /\ place' = "answered" /\ transforms' = transforms /\ digest' = digest /\ H' = H
      /\ asked' = asked
  BY DEF Reply, sha1, fips
<1>2. HashInv'
  BY <1>1 DEF AkInv, HashInv
<1>3. PlaceInv'
  BY <1>1 DEF AkInv, PlaceInv, Goal, Taken, Message
<1>4. QED
  BY <1>1, <1>2, <1>3 DEF AkInv

(* The hash and the place, when a block is about to be transformed. *)
LEMMA CallKeepsHash ==
  ASSUME AkInv, NEW words, NEW then \in {"update", "length", "answer"}, Call(words, then),
         BlockIs(words, Padded(Message), transforms), digest' = digest
  PROVE  RoundInv' /\ HashInv' /\ place' = "transform" /\ return' = then
<1>1. HashInv /\ transforms \in Nat
  BY DEF AkInv, PlaceInv
<1>2. RoundInv' /\ return' = then /\ place' = "transform" /\ H' = H
  BY <1>1, CallStep
<1>3. HashInv'
  BY <1>1, <1>2 DEF HashInv
<1>4. QED
  BY <1>2, <1>3

(* update: a whole block goes to transform, and what is left is a block less; or it is the last
   bytes. *)
LEMMA UpdateStep ==
  ASSUME AkInv, Update
  PROVE  AkInv'
<1> DEFINE t == transforms
<1>1. place = "update" /\ PlaceInv
  BY DEF Update, AkInv
<1>2. MessageOK(Message) /\ t \in Nat /\ Left(rest, Message, t)
  BY <1>1, AskedMessage DEF PlaceInv, Goal, Taken
<1>3. rest \in Seq(Byte) /\ Len(rest) \in Nat
  BY <1>2 DEF Left
<1>4. PICK r \in Nat : r = Len(rest)
  BY <1>3
<1>5. PICK n \in 0 .. 64 : n = Min2(64, r) /\ n <= r /\ (n # 64 => n = r)
  BY DEF Min2
<1>6. /\ buffer' = SubSeq(rest, 1, n) /\ rest' = SubSeq(rest, n + 1, r)
      /\ IF n = 64 THEN Call(buffer_to_block(buffer'), "update")
                   ELSE place' = "final" /\ UNCHANGED <<local, fips>>
      /\ digest' = digest /\ transforms' = transforms /\ total_bits' = total_bits /\ asked' = asked
  BY <1>4, <1>5 DEF Update, BLOCK_BYTES
<1>7. Message' = Message
  BY <1>6 DEF Message
<1> HIDE DEF t
<1>8. buffer' \in Seq(Byte) /\ Len(buffer') = n /\ \A i \in 1 .. n : buffer'[i] = rest[i]
  BY <1>3, <1>4, <1>5, <1>6
<1>9. PICK q \in Nat : q = r - n
  BY <1>5
<1>10. rest' \in Seq(Byte) /\ Len(rest') = q /\ \A i \in 1 .. q : rest'[i] = rest[n + i]
  BY <1>3, <1>4, <1>5, <1>6, <1>9
<1>11. 64 * t + r = Len(Message) /\ \A i \in 1 .. r : rest[i] = Message[64 * t + i]
  BY <1>2, <1>4 DEF Left
<1>12. CASE n = 64
  <2>1. PICK words : words = buffer_to_block(buffer')
    OBVIOUS
  <2>2. Call(words, "update")
    BY <1>6, <1>12, <2>1
  <2>3. PICK bytes : bytes = buffer'
    OBVIOUS
  <2>4. Piece(bytes, Padded(Message), t, 1, 64)
    <3>1. \A i \in 1 .. r : rest[i] = Padded(Message)[64 * t + i] /\ rest[i] \in Byte
      BY <1>2, <1>4, LeftPiece
    <3>2. \A i \in 1 .. 64 : bytes[i] = Padded(Message)[64 * t + i] /\ bytes[i] \in Byte
      BY <1>5, <1>8, <1>12, <2>3, <3>1
    <3>3. QED
      BY <3>2 DEF Piece
  <2>5. BlockIs(words, Padded(Message), t)
    BY <1>2, <2>1, <2>3, <2>4, BlockOfBytes
  <2>6. RoundInv' /\ HashInv' /\ place' = "transform" /\ return' = "update"
    BY <1>6, <2>2, <2>5, CallKeepsHash DEF t
  <2>7. Left(rest', Message, t + 1)
    <3>1. 64 * (t + 1) + q = Len(Message)
      BY <1>2, <1>9, <1>11, <1>12
    <3>2. ASSUME NEW i \in 1 .. q PROVE rest'[i] = Message[64 * (t + 1) + i]
      <4>1. n + i \in 1 .. r /\ 64 * t + (n + i) = 64 * (t + 1) + i
        BY <1>2, <1>9, <1>12
      <4>2. QED
        BY <1>10, <1>11, <4>1
    <3>3. QED
      BY <1>10, <3>1, <3>2 DEF Left
  <2>8. PlaceInv'
    BY <1>1, <1>2, <1>6, <1>7, <2>6, <2>7 DEF PlaceInv, Goal, Taken, t
  <2>9. QED
    BY <2>6, <2>8 DEF AkInv
<1>13. CASE n # 64
  <2>1. place' = "final" /\ H' = H
    BY <1>6, <1>13 DEF fips
  <2>2. HashInv'
    BY <1>6, <2>1 DEF AkInv, HashInv
  <2>3. n = r /\ n < 64
    BY <1>5, <1>13
  <2>4. Left(buffer', Message, t) /\ Len(buffer') < 64
    BY <1>8, <1>11, <2>3 DEF Left
  <2>5. PlaceInv'
    BY <1>1, <1>2, <1>6, <1>7, <2>1, <2>4 DEF PlaceInv, Goal, Taken, BLOCK_BYTES, t
  <2>6. QED
    BY <2>1, <2>2, <2>5 DEF AkInv
<1>14. QED
  BY <1>12, <1>13

(* The words whose last two are the length of the message. *)
Ends(words, n) == [words EXCEPT ![15] = Bits(8 * n, 16), ![14] = {}]

(* Whatever the bytes are, the block is one of wide words. *)
LEMMA WideBlock ==
  ASSUME NEW bytes
  PROVE  buffer_to_block(bytes) \in [0 .. 15 -> Wide]
<1>1. ASSUME NEW i \in 0 .. 15 PROVE buffer_to_block(bytes)[i] \in Wide
  <2> DEFINE byte(j) == Bits(bytes[4 * i + j + 1], 8)
             int == UNION {shl(byte(j), 8 * (3 - j)) : j \in 0 .. 3}
  <2>1. int \subseteq 0 .. 63
    BY DEF shl
  <2> HIDE DEF int
  <2>2. (IF 31 \in int THEN int \cup 32 .. 63 ELSE int) \subseteq 0 .. 63
    BY <2>1
  <2>3. buffer_to_block(bytes)[i] = IF 31 \in int THEN int \cup 32 .. 63 ELSE int
    BY DEF buffer_to_block, BLOCK_INTS, int
  <2>4. QED
    BY <2>2, <2>3 DEF Wide
<1>2. buffer_to_block(bytes) = [i \in 0 .. 15 |-> buffer_to_block(bytes)[i]]
  BY DEF buffer_to_block, BLOCK_INTS
<1>3. QED
  BY <1>1, <1>2

(* final: the padding is the one of the reference, and the length goes into this block or into
   one of its own. *)
LEMMA FinalStep ==
  ASSUME AkInv, Final
  PROVE  AkInv'
<1> DEFINE t == transforms
<1>1. place = "final" /\ PlaceInv
  BY DEF Final, AkInv
<1>2. MessageOK(Message) /\ t \in Nat /\ Left(buffer, Message, t) /\ Len(buffer) < 64
  BY <1>1, AskedMessage DEF PlaceInv, BLOCK_BYTES
<1>3. buffer \in Seq(Byte) /\ Len(buffer) \in Nat
  BY <1>2 DEF Left
<1>4. PICK r \in 0 .. 63 : r = Len(buffer)
  <2>1. PICK q \in Nat : q = Len(buffer)
    BY <1>3
  <2>2. q < 64
    BY <1>2, <2>1, Zenon
  <2>3. q \in 0 .. 63
    BY <2>2
  <2>4. QED
    BY <2>1, <2>3
<1>5. PICK bytes : IsFinal(bytes, buffer, r) /\ bytes = buffer \o <<128>> \o [i \in 1 .. 64 - (r + 1) |-> 0]
  <2>1. 64 - (r + 1) = 63 - r
    OBVIOUS
  <2>2. QED
    BY <1>4, <2>1 DEF IsFinal, Zeros
<1>6. PICK words : words = buffer_to_block(bytes)
  OBVIOUS
<1>7. /\ total_bits' = (t * 64 + r) * 8
      /\ IF r + 1 > 56 THEN Call(words, "length") ELSE Call(WithLength(words), "answer")
      /\ digest' = digest /\ transforms' = transforms /\ asked' = asked
  <2>1. 64 - 8 = 56
    OBVIOUS
  <2>2. QED
    BY <1>4, <1>5, <1>6, <2>1 DEF Final, BLOCK_BYTES
<1>8. Message' = Message
  BY <1>7 DEF Message
<1>9. PICK m : m = Message
  OBVIOUS
<1> HIDE DEF t
<1>10. PICK n \in Nat : n = Len(m) /\ n = 64 * t + r
  BY <1>2, <1>4, <1>9 DEF MessageOK, Left
<1>11. total_bits' = 8 * n
  BY <1>2, <1>7, <1>10
<1>12. MessageOK(m) /\ Left(buffer, m, t)
  BY <1>2, <1>9
<1>13. /\ r >= 56 => Piece(bytes, Padded(m), t, 1, 64) /\ Len(Padded(m)) = 64 * t + 128
       /\ r < 56 => Piece(bytes, Padded(m), t, 1, 56) /\ Len(Padded(m)) = 64 * t + 64
  <2>1. PICK b : b = buffer
    OBVIOUS
  <2>2. Left(b, m, t) /\ IsFinal(bytes, b, r)
    BY <1>5, <1>12, <2>1
  <2>3. QED
    BY <1>2, <1>12, <2>2, FinalPiece
<1>14. CASE r >= 56
  <2>1. Call(words, "length")
    BY <1>7, <1>14
  <2>2. BlockIs(words, Padded(m), t)
    BY <1>2, <1>6, <1>13, <1>14, BlockOfBytes
  <2>3. RoundInv' /\ HashInv' /\ place' = "transform" /\ return' = "length"
    BY <1>7, <1>9, <2>1, <2>2, CallKeepsHash DEF t
  <2>4. n < 64 * (t + 1) /\ 64 * t + 128 = 64 * (t + 1) + 64
    BY <1>2, <1>10
  <2>5. PlaceInv'
    BY <1>1, <1>2, <1>7, <1>8, <1>9, <1>10, <1>11, <1>13, <1>14, <2>3, <2>4
    DEF PlaceInv, Goal, Taken, t
  <2>6. QED
    BY <2>3, <2>5 DEF AkInv
<1>15. CASE r < 56
  <2>1. WithLength(words) = Ends(words, n)
    BY <1>11 DEF WithLength, Ends, BLOCK_INTS
  <2>2. PICK last : last = Ends(words, n)
    OBVIOUS
  <2>3. Call(last, "answer")
    BY <1>7, <1>15, <2>1, <2>2
  <2>4. Piece(bytes, Padded(m), t, 1, 56)
    BY <1>13, <1>15
  <2>5. BlockStart(words, Padded(m), t)
    <3>1. PICK P : P = Padded(m)
      OBVIOUS
    <3>2. ASSUME NEW i \in 0 .. 13
          PROVE  /\ buffer_to_block(bytes)[i] \in Wide
                 /\ Low(buffer_to_block(bytes)[i]) = WordOf(P, t, i)
      <4>1. \A k \in 4 * i + 1 .. 4 * i + 4 : k \in 1 .. 56
        OBVIOUS
      <4>2. Piece(bytes, P, t, 4 * i + 1, 4 * i + 4)
        BY <2>4, <3>1, <4>1 DEF Piece
      <4>3. QED
        BY <1>2, <4>2, WordOfBytes
    <3>3. words \in [0 .. 15 -> Wide]
      BY <1>6, WideBlock
    <3>4. QED
      BY <1>6, <3>1, <3>2, <3>3 DEF BlockStart
  <2>6. BlockIs(last, Padded(m), t)
    <3>1. Len(m) <= 64 * t + 55 /\ Len(Padded(m)) = 64 * t + 64
      BY <1>2, <1>10, <1>13, <1>15
    <3>2. BlockIs([words EXCEPT ![15] = Bits(8 * Len(m), 16), ![14] = {}], Padded(m), t)
      BY <1>2, <1>12, <2>5, <3>1, LastWords
    <3>3. QED
      BY <1>10, <2>2, <3>2 DEF Ends
  <2>7. RoundInv' /\ HashInv' /\ place' = "transform" /\ return' = "answer"
    BY <1>7, <1>9, <2>3, <2>6, CallKeepsHash DEF t
  <2>8. 64 * t + 64 = 64 * (t + 1)
    BY <1>2
  <2>9. PlaceInv'
    BY <1>1, <1>2, <1>7, <1>8, <1>9, <1>13, <1>15, <2>7, <2>8
    DEF PlaceInv, Goal, Taken, t
  <2>10. QED
    BY <2>7, <2>9 DEF AkInv
<1>16. QED
  BY <1>14, <1>15

(* final, when the length has a block of its own. *)
LEMMA LengthStep ==
  ASSUME AkInv, Length
  PROVE  AkInv'
<1> DEFINE t == transforms
<1>1. place = "length" /\ PlaceInv
  BY DEF Length, AkInv
<1>2. MessageOK(Message) /\ t \in Nat
  BY <1>1, AskedMessage DEF PlaceInv
<1>3. /\ Len(Message) < 64 * t /\ total_bits = 8 * Len(Message)
      /\ Len(Padded(Message)) = 64 * t + 64
  BY <1>1 DEF PlaceInv, Goal, Taken
<1>4. PICK m : m = Message
  OBVIOUS
<1>5. PICK n \in Nat : n = Len(m)
  BY <1>2, <1>4 DEF MessageOK
<1>6. PICK last : last = Ends([i \in 0 .. 15 |-> {}], n)
  OBVIOUS
<1>7. /\ Call(last, "answer")
      /\ digest' = digest /\ transforms' = transforms /\ asked' = asked
  <2>1. WithLength([i \in 0 .. BLOCK_INTS - 1 |-> {}]) = last
    <3>1. total_bits' = 8 * n
      BY <1>3, <1>4, <1>5 DEF Length
    <3>2. BLOCK_INTS - 1 = 15 /\ BLOCK_INTS - 2 = 14
      BY DEF BLOCK_INTS
    <3>3. QED
      BY <1>6, <3>1, <3>2 DEF WithLength, Ends
  <2>2. QED
    BY <2>1 DEF Length, sha1
<1>8. Message' = Message
  BY <1>7 DEF Message
<1> HIDE DEF t
<1>9. BlockIs(last, Padded(m), t)
  <2>1. BlockIs([[i \in 0 .. 15 |-> {}] EXCEPT ![15] = Bits(8 * Len(m), 16), ![14] = {}], Padded(m), t)
    BY <1>2, <1>3, <1>4, LengthWords
  <2>2. QED
    BY <1>5, <1>6, <2>1 DEF Ends
<1>10. RoundInv' /\ HashInv' /\ place' = "transform" /\ return' = "answer"
  BY <1>4, <1>7, <1>9, CallKeepsHash DEF t
<1>11. 64 * t + 64 = 64 * (t + 1)
  BY <1>2
<1>12. PlaceInv'
  BY <1>1, <1>2, <1>3, <1>7, <1>8, <1>10, <1>11 DEF PlaceInv, Goal, Taken, t
<1>13. QED
  BY <1>10, <1>12 DEF AkInv

--------------------------------------------------------------------------------
(* The reply: to_base64 and to_buffer. *)

(* Three headers, one after the other. *)
LEMMA ThreeParts ==
  ASSUME NEW s, Len(s) = 3
  PROVE  FlattenSeq(s) = (s[1] \o s[2]) \o s[3]
<1> DEFINE flat(g) == g = [i \in 1 .. 3 |-> IF i = 1 THEN s[i] ELSE g[i - 1] \o s[i]]
           F == CHOOSE g : flat(g)
<1>1. FlattenSeq(s) = F[3]
  BY DEF FlattenSeq
<1>2. \E g : flat(g)
  <2> DEFINE h == [i \in 1 .. 3 |-> IF i = 1 THEN s[1] ELSE IF i = 2 THEN s[1] \o s[2]
                                    ELSE (s[1] \o s[2]) \o s[3]]
  <2>1. h[1] = s[1] /\ h[2] = s[1] \o s[2] /\ h[3] = (s[1] \o s[2]) \o s[3]
    OBVIOUS
  <2>2. \A i \in 1 .. 3 : h[i] = IF i = 1 THEN s[i] ELSE h[i - 1] \o s[i]
    BY <2>1
  <2>3. h = [i \in 1 .. 3 |-> IF i = 1 THEN s[i] ELSE h[i - 1] \o s[i]]
    BY <2>2
  <2>4. QED
    BY <2>3
<1>3. flat(F)
  BY <1>2, Zenon
<1> HIDE DEF F
<1>4. \A i \in 1 .. 3 : F[i] = IF i = 1 THEN s[i] ELSE F[i - 1] \o s[i]
  BY <1>3, Zenon
<1>5. F[1] = s[1] /\ F[2] = F[2 - 1] \o s[2] /\ F[3] = F[3 - 1] \o s[3]
  <2>1. 1 \in 1 .. 3 /\ 2 \in 1 .. 3 /\ 3 \in 1 .. 3 /\ 2 # 1 /\ 3 # 1
    OBVIOUS
  <2>2. QED
    BY <1>4, <2>1, Zenon
<1>6. 2 - 1 = 1 /\ 3 - 1 = 2
  OBVIOUS
<1>7. F[3] = (s[1] \o s[2]) \o s[3]
  BY <1>5, <1>6, Zenon
<1>8. QED
  BY <1>1, <1>7

(* Bit k of a hash, counted from its first byte. *)
BitOf(words, k) == k <= 160 /\ 31 - ((k - 1) % 32) \in words[((k - 1) \div 32) + 1]

(* A bit of a word moved down. *)
LEMMA InShr ==
  ASSUME NEW x \in Wide, NEW n \in Nat, NEW c \in 0 .. 63
  PROVE  c \in shr(x, n) <=> c + n \in x
<1>1. \A b \in x : b \in 0 .. 63
  BY DEF Wide
<1>2. ASSUME NEW b \in x, c = b - n PROVE c + n \in x
  BY <1>1, <1>2
<1>3. ASSUME c + n \in x PROVE c \in shr(x, n)
  <2>1. c = (c + n) - n
    OBVIOUS
  <2>2. QED
    BY <1>3, <2>1 DEF shr
<1>4. QED
  BY <1>2, <1>3 DEF shr

(* The bytes of the digest are those of the hash. *)
LEMMA HashBit ==
  ASSUME HashInv, NEW i \in 1 .. 20, NEW b \in 0 .. 7
  PROVE  b \in hash[i] <=> BitOf(H, 8 * i - b)
<1>1. PICK j \in 1 .. 5, m \in 0 .. 3 : i = 4 * (j - 1) + m + 1
  <2>1. PICK j \in 1 .. 5 : j = ((i - 1) \div 4) + 1
    OBVIOUS
  <2>2. PICK m \in 0 .. 3 : m = (i - 1) % 4
    OBVIOUS
  <2>3. QED
    BY <2>1, <2>2
<1>2. ((i - 1) \div 4) + 1 = j /\ (i - 1) % 4 = m
  BY <1>1
<1>3. PICK n \in Nat : n = 8 * (3 - m) /\ n <= 24
  OBVIOUS
<1>4. hash[i] = shr(digest[j], n) \cap 0 .. 7
  BY <1>2, <1>3 DEF hash
<1>5. b \in hash[i] <=> b + n \in digest[j]
  <2>1. PICK x \in Wide : x = digest[j]
    BY DEF HashInv
  <2>2. b \in 0 .. 63
    OBVIOUS
  <2>3. b \in shr(x, n) <=> b + n \in x
    BY <2>2, InShr
  <2>4. QED
    BY <1>4, <2>1, <2>3
<1>6. b + n \in digest[j] <=> b + n \in H[j]
  <2>1. Low(digest[j]) = H[j] /\ b + n \in 0 .. 31
    BY <1>3 DEF HashInv
  <2>2. QED
    BY <2>1 DEF Low
<1>7. BitOf(H, 8 * i - b) <=> b + n \in H[j]
  <2>1. 8 * i - b <= 160
    OBVIOUS
  <2>2. PICK k \in Nat : k = 8 * i - b - 1 /\ k = 32 * (j - 1) + (8 * m + 7 - b)
    BY <1>1
  <2>3. k % 32 = 8 * m + 7 - b /\ (k \div 32) + 1 = j
    BY <2>2
  <2>4. 31 - (k % 32) = b + n
    BY <1>3, <2>3
  <2>5. QED
    BY <2>1, <2>2, <2>3, <2>4 DEF BitOf
<1>8. QED
  BY <1>5, <1>6, <1>7

(* The bytes that to_base64 converts: one more, with no bits, than the hash has. *)
Data == hash \o [i \in 1 .. 1 |-> {}]

(* The same for the data that to_base64 converts. *)
LEMMA DataBit ==
  ASSUME HashInv, NEW i \in 1 .. 21, NEW b \in 0 .. 7
  PROVE  b \in Data[i] <=> BitOf(H, 8 * i - b)
<1>1. PICK h : h = hash
  OBVIOUS
<1>2. h = [k \in 1 .. 20 |-> h[k]]
  BY <1>1 DEF hash
<1>3. Data[i] = IF i <= 20 THEN h[i] ELSE {}
  <2>1. PICK n \in Nat : n = 20
    OBVIOUS
  <2>2. h = [k \in 1 .. n |-> h[k]]
    BY <1>2, <2>1
  <2>3. QED
    BY <1>1, <2>1, <2>2 DEF Data
<1>4. CASE i <= 20
  <2>1. i \in 1 .. 20
    BY <1>4
  <2>2. QED
    BY <1>1, <1>3, <1>4, <2>1, HashBit
<1>5. CASE i = 21
  BY <1>3, <1>5 DEF BitOf
<1>6. QED
  BY <1>4, <1>5

(* The data are 21 bytes. *)
LEMMA DataType ==
  ASSUME NEW i \in 1 .. 21
  PROVE  Data[i] \subseteq 0 .. 7 /\ Len(Data) = 21 /\ Len(hash) = 20
<1>1. PICK h : h = hash
  OBVIOUS
<1>2. h = [k \in 1 .. 20 |-> h[k]] /\ \A k \in 1 .. 20 : h[k] \subseteq 0 .. 7
  BY <1>1 DEF hash
<1>3. PICK n \in Nat : n = 20
  OBVIOUS
<1>4. h = [k \in 1 .. n |-> h[k]]
  BY <1>2, <1>3
<1>5. Data[i] = (IF i <= 20 THEN h[i] ELSE {}) /\ Len(Data) = 21 /\ Len(h) = 20
  BY <1>1, <1>3, <1>4 DEF Data
<1>6. QED
  BY <1>1, <1>2, <1>5

(* The group of six bits at place n. *)
Group(words, n) == {b \in 0 .. 5 : BitOf(words, 6 * n - b)}

(* The characters that to_base64 makes of three bytes. *)
CharsOf(i) ==
  <<shr(Data[i], 2),
    shl(Data[i] \cap 0 .. 1, 4) \cup shr(Data[i + 1], 4),
    shl(Data[i + 1] \cap 0 .. 3, 2) \cup shr(Data[i + 2], 6),
    Data[i + 2] \cap 0 .. 5>>

(* A bit of a word moved up. *)
LEMMA InShl ==
  ASSUME NEW x \in Wide, NEW n \in Nat, NEW c \in 0 .. 63
  PROVE  c \in shl(x, n) <=> c - n \in x
<1>1. \A b \in x : b \in 0 .. 63
  BY DEF Wide
<1>2. ASSUME NEW b \in x, c = b + n PROVE c - n \in x
  BY <1>1, <1>2
<1>3. ASSUME c - n \in x PROVE c \in shl(x, n)
  <2>1. c = (c - n) + n
    OBVIOUS
  <2>2. QED
    BY <1>3, <2>1 DEF shl
<1>4. QED
  BY <1>2, <1>3 DEF shl

(* Three bytes of eight bits are four groups of six. *)
LEMMA CharBit ==
  ASSUME NEW x \in SUBSET (0 .. 7), NEW y \in SUBSET (0 .. 7), NEW z \in SUBSET (0 .. 7), NEW c \in 0 .. 63
  PROVE  /\ c \in shr(x, 2) <=> c + 2 \in x
         /\ c \in shl(x \cap 0 .. 1, 4) \cup shr(y, 4) <=> IF c < 4 THEN c + 4 \in y ELSE c < 6 /\ c - 4 \in x
         /\ c \in shl(y \cap 0 .. 3, 2) \cup shr(z, 6) <=> IF c < 2 THEN c + 6 \in z ELSE c < 6 /\ c - 2 \in y
         /\ c \in z \cap 0 .. 5 <=> c < 6 /\ c \in z
<1>1. x \in Wide /\ y \in Wide /\ z \in Wide /\ x \cap 0 .. 1 \in Wide /\ y \cap 0 .. 3 \in Wide
  BY DEF Wide
<1>2. PICK two \in Nat, four \in Nat, six \in Nat : two = 2 /\ four = 4 /\ six = 6
  OBVIOUS
<1>3. c \in shr(x, 2) <=> c + 2 \in x
  BY <1>1, <1>2, InShr
<1>4. c \in shr(y, 4) <=> c + 4 \in y
  BY <1>1, <1>2, InShr
<1>5. c \in shr(z, 6) <=> c + 6 \in z
  BY <1>1, <1>2, InShr
<1>6. c \in shl(x \cap 0 .. 1, 4) <=> c - 4 \in x \cap 0 .. 1
  BY <1>1, <1>2, InShl
<1>7. c \in shl(y \cap 0 .. 3, 2) <=> c - 2 \in y \cap 0 .. 3
  BY <1>1, <1>2, InShl
<1>8. c \in shl(x \cap 0 .. 1, 4) \cup shr(y, 4) <=> IF c < 4 THEN c + 4 \in y ELSE c < 6 /\ c - 4 \in x
  BY <1>4, <1>6
<1>9. c \in shl(y \cap 0 .. 3, 2) \cup shr(z, 6) <=> IF c < 2 THEN c + 6 \in z ELSE c < 6 /\ c - 2 \in y
  BY <1>5, <1>7
<1>10. QED
  BY <1>3, <1>8, <1>9

(* The four characters of three bytes are four groups of six bits of the hash. *)
LEMMA CharsAreGroups ==
  ASSUME HashInv, NEW q \in 0 .. 6
  PROVE  /\ CharsOf(3 * q + 1)[1] = Group(H, 4 * q + 1)
         /\ CharsOf(3 * q + 1)[2] = Group(H, 4 * q + 2)
         /\ CharsOf(3 * q + 1)[3] = Group(H, 4 * q + 3)
         /\ CharsOf(3 * q + 1)[4] = Group(H, 4 * q + 4)
<1>1. PICK i \in 1 .. 21 : i = 3 * q + 1 /\ i + 1 \in 1 .. 21 /\ i + 2 \in 1 .. 21
  OBVIOUS
<1>2. PICK x \in SUBSET (0 .. 7), y \in SUBSET (0 .. 7), z \in SUBSET (0 .. 7) :
        x = Data[i] /\ y = Data[i + 1] /\ z = Data[i + 2]
  BY <1>1, DataType
<1>3. PICK X, Y : X = shl(x \cap 0 .. 1, 4) \cup shr(y, 4) /\ Y = shl(y \cap 0 .. 3, 2) \cup shr(z, 6)
  OBVIOUS
<1>4. PICK V, U : V = shr(x, 2) /\ U = z \cap 0 .. 5
  OBVIOUS
<1>5. CharsOf(i) = <<V, X, Y, U>>
  BY <1>2, <1>3, <1>4 DEF CharsOf
<1>6. V \subseteq 0 .. 63 /\ X \subseteq 0 .. 63 /\ Y \subseteq 0 .. 63 /\ U \subseteq 0 .. 63
  BY <1>3, <1>4 DEF shr, shl
<1>7. ASSUME NEW c \in 0 .. 63
      PROVE  /\ c \in V <=> c + 2 \in x
             /\ c \in X <=> IF c < 4 THEN c + 4 \in y ELSE c < 6 /\ c - 4 \in x
             /\ c \in Y <=> IF c < 2 THEN c + 6 \in z ELSE c < 6 /\ c - 2 \in y
             /\ c \in U <=> c < 6 /\ c \in z
  BY <1>3, <1>4, CharBit
<1>8. ASSUME NEW b \in 0 .. 7
      PROVE  /\ b \in x <=> BitOf(H, 8 * i - b)
             /\ b \in y <=> BitOf(H, 8 * (i + 1) - b)
             /\ b \in z <=> BitOf(H, 8 * (i + 2) - b)
  BY <1>1, <1>2, DataBit
<1>9. ASSUME NEW c \in 0 .. 5
      PROVE  /\ c \in V <=> BitOf(H, 6 * (4 * q + 1) - c)
             /\ c \in X <=> BitOf(H, 6 * (4 * q + 2) - c)
             /\ c \in Y <=> BitOf(H, 6 * (4 * q + 3) - c)
             /\ c \in U <=> BitOf(H, 6 * (4 * q + 4) - c)
  <2>1. c \in 0 .. 63
    OBVIOUS
  <2>2. c \in V <=> BitOf(H, 6 * (4 * q + 1) - c)
    <3>1. c + 2 \in 0 .. 7 /\ 8 * i - (c + 2) = 6 * (4 * q + 1) - c
      BY <1>1
    <3>2. c \in V <=> c + 2 \in x
      BY <1>7, <2>1
    <3>3. c + 2 \in x <=> BitOf(H, 8 * i - (c + 2))
      BY <1>8, <3>1
    <3>4. QED
      BY <3>1, <3>2, <3>3
  <2>3. c \in X <=> BitOf(H, 6 * (4 * q + 2) - c)
    <3>1. CASE c < 4
      <4>1. c + 4 \in 0 .. 7 /\ 8 * (i + 1) - (c + 4) = 6 * (4 * q + 2) - c
        BY <1>1, <3>1
      <4>2. c \in X <=> c + 4 \in y
        BY <1>7, <2>1, <3>1
      <4>3. c + 4 \in y <=> BitOf(H, 8 * (i + 1) - (c + 4))
        BY <1>8, <4>1
      <4>4. QED
        BY <4>1, <4>2, <4>3
    <3>2. CASE ~(c < 4)
      <4>1. c - 4 \in 0 .. 7 /\ 8 * i - (c - 4) = 6 * (4 * q + 2) - c
        BY <1>1, <3>2
      <4>2. c \in X <=> c - 4 \in x
        BY <1>7, <2>1, <3>2
      <4>3. c - 4 \in x <=> BitOf(H, 8 * i - (c - 4))
        BY <1>8, <4>1
      <4>4. QED
        BY <4>1, <4>2, <4>3
    <3>3. QED
      BY <3>1, <3>2
  <2>4. c \in Y <=> BitOf(H, 6 * (4 * q + 3) - c)
    <3>1. CASE c < 2
      <4>1. c + 6 \in 0 .. 7 /\ 8 * (i + 2) - (c + 6) = 6 * (4 * q + 3) - c
        BY <1>1, <3>1
      <4>2. c \in Y <=> c + 6 \in z
        BY <1>7, <2>1, <3>1
      <4>3. c + 6 \in z <=> BitOf(H, 8 * (i + 2) - (c + 6))
        BY <1>8, <4>1
      <4>4. QED
        BY <4>1, <4>2, <4>3
    <3>2. CASE ~(c < 2)
      <4>1. c - 2 \in 0 .. 7 /\ 8 * (i + 1) - (c - 2) = 6 * (4 * q + 3) - c
        BY <1>1, <3>2
      <4>2. c \in Y <=> c - 2 \in y
        BY <1>7, <2>1, <3>2
      <4>3. c - 2 \in y <=> BitOf(H, 8 * (i + 1) - (c - 2))
        BY <1>8, <4>1
      <4>4. QED
        BY <4>1, <4>2, <4>3
    <3>3. QED
      BY <3>1, <3>2
  <2>5. c \in U <=> BitOf(H, 6 * (4 * q + 4) - c)
    <3>1. c \in 0 .. 7 /\ 8 * (i + 2) - c = 6 * (4 * q + 4) - c
      BY <1>1
    <3>2. c \in U <=> c \in z
      BY <1>7, <2>1
    <3>3. c \in z <=> BitOf(H, 8 * (i + 2) - c)
      BY <1>8, <3>1
    <3>4. QED
      BY <3>1, <3>2, <3>3
  <2>6. QED
    BY <2>2, <2>3, <2>4, <2>5
<1>10. V \subseteq 0 .. 5 /\ X \subseteq 0 .. 5 /\ Y \subseteq 0 .. 5 /\ U \subseteq 0 .. 5
  <2> SUFFICES ASSUME NEW c \in 0 .. 63, c >= 6
               PROVE  c \notin V /\ c \notin X /\ c \notin Y /\ c \notin U
    BY <1>6
  <2>1. c + 2 \notin x
    OBVIOUS
  <2>2. QED
    BY <1>7, <2>1
<1>11. /\ \A c : c \in V <=> c \in Group(H, 4 * q + 1)
       /\ \A c : c \in X <=> c \in Group(H, 4 * q + 2)
       /\ \A c : c \in Y <=> c \in Group(H, 4 * q + 3)
       /\ \A c : c \in U <=> c \in Group(H, 4 * q + 4)
  BY <1>9, <1>10 DEF Group
<1>12. /\ V = Group(H, 4 * q + 1) /\ X = Group(H, 4 * q + 2)
       /\ Y = Group(H, 4 * q + 3) /\ U = Group(H, 4 * q + 4)
  BY <1>11
<1>13. QED
  BY <1>1, <1>5, <1>12

(* What a character of the reply is: the reference's. *)
LEMMA CharIs ==
  ASSUME HashInv, NEW n \in 1 .. 28
  PROVE  CharsOf(3 * ((n - 1) \div 4) + 1)[((n - 1) % 4) + 1] = Group(H, n)
<1>1. PICK q \in 0 .. 6 : q = (n - 1) \div 4
  OBVIOUS
<1>2. PICK r \in 1 .. 4 : r = ((n - 1) % 4) + 1
  OBVIOUS
<1>3. n = 4 * q + r
  BY <1>1, <1>2
<1>4. CharsOf(3 * q + 1)[r] = Group(H, 4 * q + r)
  <2>1. r = 1 \/ r = 2 \/ r = 3 \/ r = 4
    OBVIOUS
  <2>2. /\ CharsOf(3 * q + 1)[1] = Group(H, 4 * q + 1)
        /\ CharsOf(3 * q + 1)[2] = Group(H, 4 * q + 2)
        /\ CharsOf(3 * q + 1)[3] = Group(H, 4 * q + 3)
        /\ CharsOf(3 * q + 1)[4] = Group(H, 4 * q + 4)
    BY CharsAreGroups
  <2>3. QED
    BY <2>1, <2>2, Zenon
<1>5. QED
  BY <1>1, <1>2, <1>3, <1>4

(* to_base64 of the digest is the Base64 form of the hash value. *)
LEMMA Base64IsRight ==
  ASSUME HashInv
  PROVE  to_base64(hash) = Base64Of(H)
<1> DEFINE chars(n) == CharsOf(3 * ((n - 1) \div 4) + 1)[((n - 1) % 4) + 1]
           groups == [n \in 1 .. 28 |-> Value(chars(n))]
<1>1. Len(hash) = 20 /\ Len(Data) = 21
  BY DataType
<1>2. to_base64(hash) = [n \in DOMAIN groups |-> IF n > Len(groups) - 1 THEN "=" ELSE groups[n]]
  <2> DEFINE p == (3 - (Len(hash) % 3)) % 3
             d == hash \o [i \in 1 .. p |-> {}]
             three(i) == <<shr(d[i], 2),
                           shl(d[i] \cap 0 .. 1, 4) \cup shr(d[i + 1], 4),
                           shl(d[i + 1] \cap 0 .. 3, 2) \cup shr(d[i + 2], 6),
                           d[i + 2] \cap 0 .. 5>>
             all == [n \in 1 .. 4 * (Len(d) \div 3) |->
                      Value(three(3 * ((n - 1) \div 4) + 1)[((n - 1) % 4) + 1])]
  <2>1. to_base64(hash) = [n \in DOMAIN all |-> IF n > Len(all) - p THEN "=" ELSE all[n]]
    BY Zenon DEF to_base64
  <2>2. p = 1
    BY <1>1
  <2>3. d = Data
    BY <2>2 DEF Data
  <2>4. \A i : three(i) = CharsOf(i)
    BY <2>3, Zenon DEF CharsOf
  <2> HIDE DEF p, d, three
  <2>5. 4 * (Len(d) \div 3) = 28
    <3>1. Len(d) = 21
      BY <1>1, <2>3, Zenon
    <3>2. 4 * (21 \div 3) = 28
      OBVIOUS
    <3>3. QED
      BY <3>1, <3>2, Zenon
  <2>6. all = groups
    BY <2>4, <2>5, Zenon
  <2> HIDE DEF all
  <2>7. QED
    BY <2>1, <2>2, <2>6, Zenon
<1>3. Len(groups) = 28 /\ DOMAIN groups = 1 .. 28
  OBVIOUS
<1>4. \A n \in 1 .. 28 : groups[n] = Value(Group(H, n))
  BY CharIs
<1> HIDE DEF groups
<1>5. to_base64(hash) = [n \in 1 .. 28 |-> IF n = 28 THEN "=" ELSE Value(Group(H, n))]
  BY <1>2, <1>3, <1>4
<1>6. Base64Of(H) = [n \in 1 .. 28 |-> IF n = 28 THEN "=" ELSE Value(Group(H, n))]
  BY DEF Base64Of, Group, BitOf
<1>7. QED
  BY <1>5, <1>6

(* A sequence is what two were put together to if it starts and ends as they do. *)
LEMMA SameSeq ==
  ASSUME NEW S, NEW s \in Seq(S), NEW t \in Seq(S), NEW u \in Seq(S), NEW p \in Nat, NEW q \in Nat,
         Len(s) = p, Len(t) = q, Len(u) = p + q,
         \A i \in 1 .. p : u[i] = s[i], \A i \in 1 .. q : u[p + i] = t[i]
  PROVE  s \o t = u
<1>1. s \o t \in Seq(S) /\ Len(s \o t) = p + q
  <2>1. s \o t \in Seq(S)
    OBVIOUS
  <2>2. Len(s \o t) = p + q
    OBVIOUS
  <2>3. QED
    BY <2>1, <2>2
<1>2. \A i \in 1 .. p + q : (s \o t)[i] = u[i]
  <2> SUFFICES ASSUME NEW i \in 1 .. p + q PROVE (s \o t)[i] = u[i]
    OBVIOUS
  <2>1. CASE i <= p
    BY <2>1
  <2>2. CASE i > p
    <3>1. i \in p + 1 .. p + q
      BY <2>2
    <3>2. (s \o t)[i] = t[i - p]
      <4>1. \A k \in p + 1 .. p + q : (s \o t)[k] = t[k - p]
        BY SecondPart
      <4>2. QED
        BY <3>1, <4>1
    <3>3. i - p \in 1 .. q /\ p + (i - p) = i
      BY <2>2
    <3>4. QED
      BY <3>2, <3>3
  <2>3. QED
    BY <2>1, <2>2
<1>3. PICK n \in Nat : n = p + q
  OBVIOUS
<1>4. PICK v \in Seq(S) : v = s \o t
  BY <1>1
<1>5. Len(v) = n /\ Len(u) = n /\ \A i \in 1 .. n : v[i] = u[i]
  BY <1>1, <1>2, <1>3, <1>4
<1>6. v = [i \in 1 .. n |-> v[i]] /\ u = [i \in 1 .. n |-> u[i]]
  BY <1>5
<1>7. v = u
  BY <1>5, <1>6
<1>8. QED
  BY <1>4, <1>7

(* Three headers between the status and the last line. *)
LEMMA WholeReply ==
  ASSUME NEW ver, NEW up, NEW ws, NEW con, NEW acc, NEW val, NEW colon, NEW crlf
  PROVE  (<<ver>> \o ((<<up, colon, ws, crlf>> \o <<con, colon, up, crlf>>) \o <<acc, colon, val, crlf>>))
           \o <<crlf>>
         = <<ver, up, colon, ws, crlf, con, colon, up, crlf, acc, colon, val, crlf, crlf>>
<1> DEFINE S == {ver, up, ws, con, acc, val, colon, crlf}
<1>1. PICK first : first = <<ver>>
  OBVIOUS
<1>2. /\ first \in Seq(S) /\ Len(first) = 1
      /\ first[1] = ver
  BY <1>1
<1>3. PICK h1 : h1 = <<up, colon, ws, crlf>>
  OBVIOUS
<1>4. /\ h1 \in Seq(S) /\ Len(h1) = 4
      /\ h1[1] = up /\ h1[2] = colon /\ h1[3] = ws /\ h1[4] = crlf
  BY <1>3
<1>5. PICK h2 : h2 = <<con, colon, up, crlf>>
  OBVIOUS
<1>6. /\ h2 \in Seq(S) /\ Len(h2) = 4
      /\ h2[1] = con /\ h2[2] = colon /\ h2[3] = up /\ h2[4] = crlf
  BY <1>5
<1>7. PICK h3 : h3 = <<acc, colon, val, crlf>>
  OBVIOUS
<1>8. /\ h3 \in Seq(S) /\ Len(h3) = 4
      /\ h3[1] = acc /\ h3[2] = colon /\ h3[3] = val /\ h3[4] = crlf
  BY <1>7
<1>9. PICK last : last = <<crlf>>
  OBVIOUS
<1>10. /\ last \in Seq(S) /\ Len(last) = 1
      /\ last[1] = crlf
  BY <1>9
<1>11. PICK two : two = <<up, colon, ws, crlf, con, colon, up, crlf>>
  OBVIOUS
<1>12. /\ two \in Seq(S) /\ Len(two) = 8
      /\ two[1] = up /\ two[2] = colon /\ two[3] = ws /\ two[4] = crlf
      /\ two[5] = con /\ two[6] = colon /\ two[7] = up /\ two[8] = crlf
  BY <1>11
<1>13. PICK three : three = <<up, colon, ws, crlf, con, colon, up, crlf, acc, colon, val, crlf>>
  OBVIOUS
<1>14. /\ three \in Seq(S) /\ Len(three) = 12
      /\ three[1] = up /\ three[2] = colon /\ three[3] = ws /\ three[4] = crlf
      /\ three[5] = con /\ three[6] = colon /\ three[7] = up /\ three[8] = crlf
      /\ three[9] = acc /\ three[10] = colon /\ three[11] = val /\ three[12] = crlf
  BY <1>13
<1>15. PICK most : most = <<ver, up, colon, ws, crlf, con, colon, up, crlf, acc, colon, val, crlf>>
  OBVIOUS
<1>16. /\ most \in Seq(S) /\ Len(most) = 13
      /\ most[1] = ver /\ most[2] = up /\ most[3] = colon /\ most[4] = ws
      /\ most[5] = crlf /\ most[6] = con /\ most[7] = colon /\ most[8] = up
      /\ most[9] = crlf /\ most[10] = acc /\ most[11] = colon /\ most[12] = val
      /\ most[13] = crlf
  BY <1>15
<1>17. PICK whole : whole = <<ver, up, colon, ws, crlf, con, colon, up, crlf, acc, colon, val, crlf, crlf>>
  OBVIOUS
<1>18. /\ whole \in Seq(S) /\ Len(whole) = 14
      /\ whole[1] = ver /\ whole[2] = up /\ whole[3] = colon /\ whole[4] = ws
      /\ whole[5] = crlf /\ whole[6] = con /\ whole[7] = colon /\ whole[8] = up
      /\ whole[9] = crlf /\ whole[10] = acc /\ whole[11] = colon /\ whole[12] = val
      /\ whole[13] = crlf /\ whole[14] = crlf
  BY <1>17
<1> HIDE DEF S
<1>19. h1 \o h2 = two
  <2>1. PICK p \in Nat, q \in Nat : p = 4 /\ q = 4
    OBVIOUS
  <2>2. h1 \in Seq(S) /\ h2 \in Seq(S) /\ two \in Seq(S)
    BY <1>4, <1>6, <1>12
  <2>3. Len(h1) = p /\ Len(h2) = q /\ Len(two) = p + q
    BY <1>4, <1>6, <1>12, <2>1
  <2>4. \A i \in 1 .. p : two[i] = h1[i]
    BY <1>4, <1>12, <2>1
  <2>5. \A i \in 1 .. q : two[p + i] = h2[i]
    BY <1>6, <1>12, <2>1
  <2>6. QED
    BY <2>2, <2>3, <2>4, <2>5, SameSeq
<1>20. two \o h3 = three
  <2>1. PICK p \in Nat, q \in Nat : p = 8 /\ q = 4
    OBVIOUS
  <2>2. two \in Seq(S) /\ h3 \in Seq(S) /\ three \in Seq(S)
    BY <1>12, <1>8, <1>14
  <2>3. Len(two) = p /\ Len(h3) = q /\ Len(three) = p + q
    BY <1>12, <1>8, <1>14, <2>1
  <2>4. \A i \in 1 .. p : three[i] = two[i]
    BY <1>12, <1>14, <2>1
  <2>5. \A i \in 1 .. q : three[p + i] = h3[i]
    BY <1>8, <1>14, <2>1
  <2>6. QED
    BY <2>2, <2>3, <2>4, <2>5, SameSeq
<1>21. first \o three = most
  <2>1. PICK p \in Nat, q \in Nat : p = 1 /\ q = 12
    OBVIOUS
  <2>2. first \in Seq(S) /\ three \in Seq(S) /\ most \in Seq(S)
    BY <1>2, <1>14, <1>16
  <2>3. Len(first) = p /\ Len(three) = q /\ Len(most) = p + q
    BY <1>2, <1>14, <1>16, <2>1
  <2>4. \A i \in 1 .. p : most[i] = first[i]
    BY <1>2, <1>16, <2>1
  <2>5. \A i \in 1 .. q : most[p + i] = three[i]
    BY <1>14, <1>16, <2>1
  <2>6. QED
    BY <2>2, <2>3, <2>4, <2>5, SameSeq
<1>22. most \o last = whole
  <2>1. PICK p \in Nat, q \in Nat : p = 13 /\ q = 1
    OBVIOUS
  <2>2. most \in Seq(S) /\ last \in Seq(S) /\ whole \in Seq(S)
    BY <1>16, <1>10, <1>18
  <2>3. Len(most) = p /\ Len(last) = q /\ Len(whole) = p + q
    BY <1>16, <1>10, <1>18, <2>1
  <2>4. \A i \in 1 .. p : whole[i] = most[i]
    BY <1>16, <1>18, <2>1
  <2>5. \A i \in 1 .. q : whole[p + i] = last[i]
    BY <1>10, <1>18, <2>1
  <2>6. QED
    BY <2>2, <2>3, <2>4, <2>5, SameSeq
<1>23. QED
  BY <1>1, <1>3, <1>5, <1>7, <1>9, <1>17, <1>19, <1>20, <1>21, <1>22, Zenon

(* What reply::to_buffer makes of the status and the three headers. *)
LEMMA SentIs ==
  ASSUME HashInv
  PROVE  to_buffer("101", <<header("Upgrade", "websocket"), header("Connection", "Upgrade"),
                            header("Sec-WebSocket-Accept", to_base64(hash))>>)
         = <<"101", "Upgrade", ": ", "websocket", "crlf", "Connection", ": ", "Upgrade", "crlf",
             "Sec-WebSocket-Accept", ": ", Base64Of(H), "crlf", "crlf">>
<1>1. PICK accept : accept = Base64Of(H) /\ accept = to_base64(hash)
  BY Base64IsRight
<1>2. FlattenSeq(<<header("Upgrade", "websocket"), header("Connection", "Upgrade"),
                   header("Sec-WebSocket-Accept", accept)>>)
        = (header("Upgrade", "websocket") \o header("Connection", "Upgrade"))
            \o header("Sec-WebSocket-Accept", accept)
  <2>1. PICK a, b, c : /\ a = header("Upgrade", "websocket") /\ b = header("Connection", "Upgrade")
                       /\ c = header("Sec-WebSocket-Accept", accept)
    OBVIOUS
  <2>2. PICK s : s = <<a, b, c>>
    OBVIOUS
  <2>3. Len(s) = 3 /\ s[1] = a /\ s[2] = b /\ s[3] = c
    BY <2>2
  <2>4. FlattenSeq(s) = (a \o b) \o c
    BY <2>3, ThreeParts
  <2>5. QED
    BY <2>1, <2>2, <2>4, Zenon
<1>3. to_buffer("101", <<header("Upgrade", "websocket"), header("Connection", "Upgrade"),
                         header("Sec-WebSocket-Accept", accept)>>)
        = (<<"101">> \o ((<<"Upgrade", ": ", "websocket", "crlf">> \o <<"Connection", ": ", "Upgrade", "crlf">>)
                           \o <<"Sec-WebSocket-Accept", ": ", accept, "crlf">>)) \o <<"crlf">>
  BY <1>2, Zenon DEF to_buffer, header
<1>4. (<<"101">> \o ((<<"Upgrade", ": ", "websocket", "crlf">> \o <<"Connection", ": ", "Upgrade", "crlf">>)
                       \o <<"Sec-WebSocket-Accept", ": ", accept, "crlf">>)) \o <<"crlf">>
        = <<"101", "Upgrade", ": ", "websocket", "crlf", "Connection", ": ", "Upgrade", "crlf",
            "Sec-WebSocket-Accept", ": ", accept, "crlf", "crlf">>
  <2>1. PICK ver, up, ws, con, acc, colon, crlf :
          /\ ver = "101" /\ up = "Upgrade" /\ ws = "websocket" /\ con = "Connection"
          /\ acc = "Sec-WebSocket-Accept" /\ colon = ": " /\ crlf = "crlf"
    OBVIOUS
  <2>2. (<<ver>> \o ((<<up, colon, ws, crlf>> \o <<con, colon, up, crlf>>) \o <<acc, colon, accept, crlf>>))
           \o <<crlf>>
         = <<ver, up, colon, ws, crlf, con, colon, up, crlf, acc, colon, accept, crlf, crlf>>
    BY WholeReply
  <2>3. QED
    BY <2>1, <2>2, Zenon
<1>5. QED
  BY <1>1, <1>3, <1>4, Zenon

(* The inductive invariant, and what the client is sent. *)
AcceptInv == AkInv /\ AcceptsKey

(* The reply is the one the client accepts. *)
LEMMA ReplyStep ==
  ASSUME AkInv, Reply
  PROVE  AcceptsKey'
<1>1. /\ place = "answer" /\ transforms' = transforms /\ H' = H /\ asked' = asked
      /\ sent' = to_buffer("101", <<header("Upgrade", "websocket"), header("Connection", "Upgrade"),
                                    header("Sec-WebSocket-Accept", to_base64(hash))>>)
  BY DEF Reply, sha1, fips
<1>2. Len(Padded(asked \o magic_guid)) = 64 * transforms
  BY <1>1 DEF AkInv, PlaceInv, Goal, Taken, Message
<1>3. sent' = <<"101", "Upgrade", ": ", "websocket", "crlf", "Connection", ": ", "Upgrade", "crlf",
                "Sec-WebSocket-Accept", ": ", Base64Of(H), "crlf", "crlf">>
  BY <1>1, SentIs, Zenon DEF AkInv
<1>4. QED
  BY <1>1, <1>2, <1>3, Zenon DEF AcceptsKey

(* No step breaks the invariant. *)
LEMMA StepAccepts ==
  ASSUME AcceptInv, [AkNext]_akVars
  PROVE  AcceptInv'
<1>1. ASSUME NEW k \in Keys, HandleRequest(k) PROVE AcceptInv'
  <2>1. place' # "answered"
    BY <1>1 DEF HandleRequest
  <2>2. QED
    BY <1>1, <2>1, HandleRequestStep DEF AcceptInv, AcceptsKey
<1>2. CASE Update
  <2>1. place' # "answered"
    BY <1>2 DEF Update, Call
  <2>2. QED
    BY <1>2, <2>1, UpdateStep DEF AcceptInv, AcceptsKey
<1>3. CASE Final
  <2>1. place' # "answered"
    BY <1>3 DEF Final, Call
  <2>2. QED
    BY <1>3, <2>1, FinalStep DEF AcceptInv, AcceptsKey
<1>4. CASE Length
  <2>1. place' # "answered"
    BY <1>4 DEF Length, Call
  <2>2. QED
    BY <1>4, <2>1, LengthStep DEF AcceptInv, AcceptsKey
<1>5. CASE Round
  <2>1. place' # "answered"
    BY <1>5 DEF Round
  <2>2. QED
    BY <1>5, <2>1, RoundKeepsPlace DEF AcceptInv, AcceptsKey
<1>6. CASE EndTransform
  <2>1. place' # "answered"
    BY <1>6 DEF EndTransform, AcceptInv, AkInv, RoundInv
  <2>2. QED
    BY <1>6, <2>1, EndTransformStep DEF AcceptInv, AcceptsKey
<1>7. CASE Reply
  BY <1>7, ReplyKeepsPlace, ReplyStep DEF AcceptInv
<1>8. CASE UNCHANGED akVars
  <2>1. /\ place' = place /\ rest' = rest /\ buffer' = buffer /\ digest' = digest
        /\ transforms' = transforms /\ total_bits' = total_bits /\ block' = block /\ abcde' = abcde
        /\ round' = round /\ return' = return /\ sent' = sent /\ asked' = asked
        /\ W' = W /\ working' = working /\ H' = H
    BY <1>8 DEF akVars, sha1, local, fips
  <2>2. HashInv' <=> HashInv
    BY <2>1 DEF HashInv
  <2>3. RoundInv' <=> RoundInv
    BY <2>1 DEF RoundInv
  <2>4. PlaceInv' <=> PlaceInv
    BY <2>1 DEF PlaceInv, Goal, Taken, Message
  <2>5. AcceptsKey' <=> AcceptsKey
    BY <2>1 DEF AcceptsKey
  <2>6. QED
    BY <2>1, <2>2, <2>3, <2>4, <2>5 DEF AcceptInv, AkInv
<1>9. QED
  BY <1>1, <1>2, <1>3, <1>4, <1>5, <1>6, <1>7, <1>8 DEF AkNext

(***************************************************************************)
(* SHA1 follows FIPS 180-4, whatever the key: between two blocks the lower *)
(* halves of digest are the hash value, within one the working variables   *)
(* and the ring of transform are those of the standard, update and final   *)
(* take the blocks of the padded message one after the other.              *)
(***************************************************************************)
THEOREM HashFollowsStandard == AkSpec => []AcceptInv
<1>1. AkInit => AcceptInv
  BY InitAkInv DEF AcceptInv, AcceptsKey, AkInit
<1>2. AcceptInv /\ [AkNext]_akVars => AcceptInv'
  BY StepAccepts
<1>3. QED
  BY <1>1, <1>2, PTL DEF AkSpec

(***************************************************************************)
(* The reply of handle_request carries the key the client expects, for     *)
(* every key that a read can hold: its blocks are those of the padded      *)
(* message, its hash is SHA-1's and its characters are those of Base64.    *)
(***************************************************************************)
THEOREM AcceptKeyCorrect == AkSpec => []AcceptsKey
<1>1. AcceptInv => AcceptsKey
  BY DEF AcceptInv
<1>2. QED
  BY <1>1, HashFollowsStandard, PTL
================================================================================
