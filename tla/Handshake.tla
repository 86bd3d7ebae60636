-------------------------------- MODULE Handshake --------------------------------
(***************************************************************************)
(* The WebSocket handshake of one connection: handshake_manager with its   *)
(* request_parser and request_handler, over the reads TCPConnection makes  *)
(* until one of them is answered with 101.                                 *)
(*                                                                         *)
(* parse_handshake parses one read at a time into a request of its own,    *)
(* with a parser that lives as long as the connection and is never reset.  *)
(* Beside it runs a parser that is reset for every read: what the bytes of *)
(* the read amount to on their own.  Bytes are the classes the parser      *)
(* tells apart; of the headers only what the code looks at is kept.        *)
(***************************************************************************)
EXTENDS Integers

VARIABLES
  state_,       \* request_parser::state_
  inCall,       \* a read is being parsed
  start,        \* state_ when the read began
  headers,      \* req.headers is not empty
  current,      \* the header at headers.back(): "key" or "other"
  key,          \* value of the first Sec-WebSocket-Key header
  result,       \* what parse returned for this read, "none" while it runs
  status,       \* the reply to this read
  undefined,    \* headers.back() was applied to an empty vector
  fresh,        \* state of the parser that was reset for this read
  freshHeaders  \* and whether it has seen a header

req  == <<headers, current, key>>
ref  == <<fresh, freshHeaders>>
vars == <<state_, inCall, start, req, result, status, undefined, ref>>

--------------------------------------------------------------------------------
(* request_parser *)

Chars == {"SP", "HT", "CR", "LF", "H", "T", "P", "/", ".", ":",
          "digit", "letter", "tspecial", "ctl", "high"}

is_char     == Chars \ {"high"}
is_ctl      == {"HT", "CR", "LF", "ctl"}
is_tspecial == {"SP", "HT", "/", ":", "tspecial"}

token == is_char \ (is_ctl \cup is_tspecial)
text  == Chars \ is_ctl

(* The switch of consume: state, accepted input, next state. *)
Edges == {
  <<"method_start",              token,           "method">>,
  <<"method",                    token,           "method">>,
  <<"method",                    {"SP"},          "uri">>,
  <<"uri",                       text \ {"SP"},   "uri">>,
  <<"uri",                       {"SP"},          "http_version_h">>,
  <<"http_version_h",            {"H"},           "http_version_t_1">>,
  <<"http_version_t_1",          {"T"},           "http_version_t_2">>,
  <<"http_version_t_2",          {"T"},           "http_version_p">>,
  <<"http_version_p",            {"P"},           "http_version_slash">>,
  <<"http_version_slash",        {"/"},           "http_version_major_start">>,
  <<"http_version_major_start",  {"digit"},       "http_version_major">>,
  <<"http_version_major",        {"digit"},       "http_version_major">>,
  <<"http_version_major",        {"."},           "http_version_minor_start">>,
  <<"http_version_minor_start",  {"digit"},       "http_version_minor">>,
  <<"http_version_minor",        {"digit"},       "http_version_minor">>,
  <<"http_version_minor",        {"CR"},          "expecting_newline_1">>,
  <<"expecting_newline_1",       {"LF"},          "header_line_start">>,
  <<"header_line_start",         {"CR"},          "expecting_newline_3">>,
  <<"header_line_start",         {"SP", "HT"},    "header_lws">>,
  <<"header_line_start",         token,           "header_name">>,
  <<"header_lws",                {"SP", "HT"},    "header_lws">>,
  <<"header_lws",                text \ {"SP"},   "header_value">>,
  <<"header_lws",                {"CR"},          "expecting_newline_2">>,
  <<"header_name",               token,           "header_name">>,
  <<"header_name",               {":"},           "space_before_header_value">>,
  <<"space_before_header_value", {"SP"},          "header_value">>,
  <<"header_value",              text,            "header_value">>,
  <<"header_value",              {"CR"},          "expecting_newline_2">>,
  <<"expecting_newline_2",       {"LF"},          "header_line_start">>,
  <<"expecting_newline_3",       {"LF"},          "complete">>}

States == {e[1] : e \in Edges}

(* A folded line needs a header to continue. *)
Accepts(e, s, hasHeaders, input) ==
  /\ e[1] = s /\ input \in e[2]
  /\ s = "header_line_start" /\ e[3] = "header_lws" => hasHeaders

(* Fault: any character ends the request. *)
FaultAnyEnd(s, hasHeaders, input) ==
  LET next == {e[3] : e \in {d \in Edges : Accepts(d, s, hasHeaders, input)}}
  IN  IF s = "expecting_newline_3" THEN "complete"
      ELSE IF next = {} THEN "bad" ELSE CHOOSE n \in next : TRUE

(* The state after input: "complete" for true, "bad" for false. *)
consume(s, hasHeaders, input) ==
  LET next == {e[3] : e \in {d \in Edges : Accepts(d, s, hasHeaders, input)}}
  IN  IF next = {} THEN "bad" ELSE CHOOSE n \in next : TRUE

(* The input goes to the name or the value of headers.back(). *)
appends(s, next) ==
  \/ s \in {"header_name", "header_lws"} /\ next \in {"header_name", "header_value"}
  \/ s = "header_value" /\ next = "header_value"

--------------------------------------------------------------------------------
(* handshake_manager::parse_handshake *)

Init ==
  /\ state_ = "method_start" /\ start = "method_start"
  /\ inCall = FALSE
  /\ headers = FALSE /\ current = "other" /\ key = "absent"
  /\ result = "none" /\ status = "none"
  /\ undefined = FALSE
  /\ fresh = "method_start" /\ freshHeaders = FALSE

(* asyncReceive calls it while handshakeComplete is false. *)
BeginRead ==
  /\ ~inCall /\ ~undefined /\ status # "101"
  /\ inCall' = TRUE /\ start' = state_
  /\ headers' = FALSE /\ current' = "other" /\ key' = "absent"
  /\ result' = "none" /\ status' = "none"
  /\ fresh' = "method_start" /\ freshHeaders' = FALSE
  /\ UNCHANGED <<state_, undefined>>

(* Fault: no header is pushed for a new header line. *)
FaultNoHeader(next, isKey) ==
  ~isKey /\ UNCHANGED req

(* What the input does to the request that is being built. *)
UpdateRequest(next, isKey) ==
  LET named == state_ = "header_name" /\ next = "space_before_header_value" /\ headers
      value == next = "header_value" /\ appends(state_, next)
  IN
  /\ headers' = (headers \/ (state_ = "header_line_start" /\ next = "header_name"))
  /\ isKey => named
  /\ current' = IF ~named THEN current
                ELSE IF isKey /\ key = "absent" THEN "key" ELSE "other"
  /\ key' = IF named /\ isKey /\ key = "absent" THEN "empty"
            ELSE IF value /\ current = "key" THEN "set"
            ELSE key

(* Fault: a request without a key is accepted. *)
FaultNoKeyCheck(next) ==
  CASE next = "complete" -> result' = "true" /\ status' = "101"
    [] next = "bad"      -> result' = "false" /\ status' = "400"
    [] OTHER             -> UNCHANGED <<result, status>>

(* handle_request, or the bad_request of a read that is no whole request. *)
Answer(next) ==
  CASE next = "complete" -> /\ result' = "true"
                            /\ status' = IF key = "set" THEN "101" ELSE "400"
    [] next = "bad"      -> result' = "false" /\ status' = "400"
    [] OTHER             -> UNCHANGED <<result, status>>

StepFresh(input) ==
  LET next == consume(fresh, freshHeaders, input) IN
    IF fresh \in States
      THEN /\ fresh' = next
           /\ freshHeaders' = (freshHeaders \/ next = "header_name")
      ELSE UNCHANGED ref

(* One iteration of parse.  Every return of consume leaves state_ in place. *)
Consume(input, isKey) ==
  LET next == consume(state_, headers, input) IN
  /\ inCall /\ ~undefined /\ result = "none"
  /\ undefined' = (appends(state_, next) /\ ~headers)
  /\ state_' = IF next \in States THEN next ELSE state_
  /\ UpdateRequest(next, isKey)
  /\ Answer(next)
  /\ StepFresh(input)
  /\ UNCHANGED <<inCall, start>>

(* The rest of a read the parser already gave its verdict on. *)
Skip(input) ==
  /\ inCall /\ ~undefined /\ result # "none"
  /\ StepFresh(input)
  /\ UNCHANGED <<state_, inCall, start, req, result, status, undefined>>

EndOfRead ==
  /\ inCall /\ ~undefined
  /\ fresh # "method_start"
  /\ inCall' = FALSE
  /\ IF result = "none" THEN result' = "indeterminate" /\ status' = "400"
                        ELSE UNCHANGED <<result, status>>
  /\ UNCHANGED <<state_, start, req, undefined, ref>>

Next ==
  \/ BeginRead
  \/ \E input \in Chars :
       Skip(input) \/ \E isKey \in BOOLEAN : Consume(input, isKey)
  \/ EndOfRead

Spec == Init /\ [][Next]_vars

--------------------------------------------------------------------------------

TypeOK ==
  /\ state_ \in States /\ start \in States
  /\ inCall \in BOOLEAN /\ headers \in BOOLEAN /\ undefined \in BOOLEAN
  /\ current \in {"key", "other"} /\ key \in {"absent", "empty", "set"}
  /\ result \in {"none", "true", "false", "indeterminate"}
  /\ status \in {"none", "101", "400"}
  /\ fresh \in States \cup {"complete", "bad"} /\ freshHeaders \in BOOLEAN

(* The states between the first character of a header and its carriage return. *)
MidHeader == {"header_name", "space_before_header_value", "header_value", "header_lws"}

(***************************************************************************)
(* headers.back() is only applied to an empty vector when an earlier read  *)
(* ended in the middle of a header line.  A request that arrives in one    *)
(* read never does it, nor one that is split between two lines.            *)
(***************************************************************************)
UndefinedOnlyAfterSplit == undefined => start \in MidHeader

(***************************************************************************)
(* A connection that sent a complete request without a key (or whose read  *)
(* ended before the last line feed) was answered 400 and can never be      *)
(* upgraded: the parser waits for that line feed for good.                 *)
(***************************************************************************)
NoRecovery ==
  [](~inCall /\ state_ = "expecting_newline_3" => [](inCall => status # "101"))

(***************************************************************************)
(* What a client gets that tries again, in one read, after an answer 400:  *)
(* its complete request is recognised only if the earlier reads left the   *)
(* parser before or in the method.                                         *)
(***************************************************************************)
RetryRecognised ==
  fresh = "complete" /\ result = "true" => start \in {"method_start", "method"}

(***************************************************************************)
(* "The tribool return value is true when a complete request has been      *)
(* parsed" (request_parser.h:21-22): a read that holds a complete request  *)
(* is not taken for anything else.                                         *)
(***************************************************************************)
CompleteRequestParsed == fresh = "complete" /\ ~undefined => result = "true"
================================================================================
