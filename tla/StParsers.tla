------------------------------- MODULE StParsers -------------------------------
(***************************************************************************)
(* The parsers and builders of the sample programs: what they make of the  *)
(* bytes b that one or more st_recv returned, and what they send.          *)
(*                                                                         *)
(*   redis     resp_parse and resp_encode of st_redisclient                *)
(*   memcache  memcache_parse_rsp, as FeedResponse uses it                 *)
(*   request   memcache_parse_req, as SetRequest uses it                   *)
(*   http      st_http_exchange, on what the proxy's reply writes          *)
(*   wrk       http_get of st_wrk                                          *)
(*   proxy     a request to st_httpproxy, on what build_request writes     *)
(*   dns       the answers of dns_lookup                                   *)
(*   query     a question to st_dnsserver (st_dns_build_reply)             *)
(*   ports     parse_spec of st_portscan                                   *)
(*                                                                         *)
(* A byte is a string.  A word is a byte with its name and one for the     *)
(* rest, so that it can be cut, too; outside memcache, which looks at each *)
(* byte, a word and a number are one byte.                                 *)
(***************************************************************************)
EXTENDS Integers, Sequences, FiniteSets, SequencesExt

CONSTANTS
    Reader,      \* the readers looked at, one of which runs
    MaxBulk,     \* kRespMaxBulk
    MaxArray,    \* kRespMaxArray
    MaxDepth,    \* kRespMaxDepth
    MaxBuffer,   \* the largest buffer parser_append makes
    MaxKey,      \* MEMCACHE_MAX_KEY_LENGTH
    MaxPort,     \* 65535, the highest port and the most ports of a scan
    MaxLabel,    \* 63, the longest label of a name
    NameSize,    \* ST_DNS_MAX_NAME
    MaxHops,     \* 128, more labels than a name may have
    MaxPkt,      \* ST_DNS_MAX_PKT
    MaxBody,     \* the largest buffer append_body makes
    RecvSize,    \* ST_RECV_BUFFSIZE
    OutSize,     \* ST_SEND_BUFFSIZE
    ReplySize    \* sizeof(rbuf) of http_get

ASSUME RepliesAssumption ==
    /\ Reader \subseteq {"redis", "memcache", "request", "http", "wrk", "proxy", "dns", "query",
                  "ports"}
    /\ {MaxBulk, MaxArray, MaxDepth, MaxBuffer, MaxKey} \subseteq Nat
    /\ {MaxLabel, NameSize, MaxHops, MaxPkt} \subseteq Nat
    /\ {MaxPort, MaxBody, RecvSize, OutSize, ReplySize} \subseteq Nat

CRLF == <<"CR", "LF">>
Digit == {"0", "1", "2"}
Value10(d) == CASE d = "0" -> 0 [] d = "1" -> 1 [] d = "2" -> 2 [] d = "3" -> 3
                [] d = "4" -> 4 [] d = "-1" -> -1 [] OTHER -> 0
Numeral(n) == CHOOSE d \in Digit \cup {"3", "4", "-1"} : Value10(d) = n

\* rc: ok, error, more, or spins, for a reader that never returns; value: the
\* message; used: how many bytes it took.
Rc(rc) == [rc |-> rc, value |-> <<>>, used |-> 0]
Ok(value, used) == [rc |-> "ok", value |-> value, used |-> used]
From(s, k) == SubSeq(s, k, Len(s))

\* What lies between the separators of s; nothing is read behind one at the end.
Tokens(s, separator) ==
    LET ends == SetToSortSeq({k \in 1..Len(s) : s[k] = separator} \cup {Len(s) + 1}, <)
        token(i) == SubSeq(s, IF i = 1 THEN 1 ELSE ends[i - 1] + 1, ends[i] - 1)
        all == [i \in 1..Len(ends) |-> token(i)]
    IN  IF Last(all) = <<>> THEN Front(all) ELSE all

-----------------------------------------------------------------------------
(* RESP.  A value has a type, its text, and its elements.                  *)

\* Where the first CRLF is, or 0.
CrLfs(s) == {k \in 1..Len(s) - 1 : s[k] = "CR" /\ s[k + 1] = "LF"}
find_crlf(s) == IF CrLfs(s) = {} THEN 0 ELSE CHOOSE k \in CrLfs(s) : \A j \in CrLfs(s) : k <= j

Resp(type, text, elem) == [type |-> type, text |-> text, elem |-> elem]

parse_line_value(s) ==
    LET cr == find_crlf(s)
    IN  IF cr = 0 THEN Rc("more") ELSE Ok(Resp(s[1], SubSeq(s, 2, cr - 1), <<>>), cr + 1)

MutantParseBulk(s) ==  \* does not wait for the CRLF behind the text
    LET cr == find_crlf(s)
        blen == Value10(s[2])
    IN  IF cr = 0 THEN Rc("more")
        ELSE IF blen = -1 THEN Ok(Resp("null", <<>>, <<>>), cr + 1)
        ELSE IF Len(s) < cr + 1 + blen THEN Rc("more")
        ELSE Ok(Resp("$", SubSeq(s, cr + 2, cr + 1 + blen), <<>>), cr + 3 + blen)
parse_bulk(s) ==
    LET cr == find_crlf(s)
        blen == Value10(s[2])
        body == SubSeq(s, cr + 2, cr + 1 + blen)
        used == cr + 1 + blen + 2
    IN  IF cr = 0 THEN Rc("more")
        ELSE IF blen = -1 THEN Ok(Resp("null", <<>>, <<>>), cr + 1)
        ELSE IF blen \notin 0..MaxBulk THEN Rc("error")
        ELSE IF Len(s) < used THEN Rc("more")
        ELSE IF SubSeq(s, used - 1, used) # CRLF THEN Rc("error")
        ELSE Ok(Resp("$", body, <<>>), used)

RECURSIVE parse_one(_, _), ParseElements(_, _, _)

\* The loop of parse_array: n elements more, from the start of s on.
ParseElements(s, n, depth) ==
    IF n = 0 THEN Ok(<<>>, 0)
    ELSE LET one == parse_one(s, depth)
             others == ParseElements(From(s, one.used + 1), n - 1, depth)
         IN  IF one.rc # "ok" THEN one
            ELSE IF others.rc # "ok" THEN others
            ELSE Ok(<<one.value>> \o others.value, one.used + others.used)

parse_array(s, depth) ==
    LET cr == find_crlf(s)
        count == Value10(s[2])
        all == ParseElements(From(s, cr + 2), count, depth + 1)
    IN  IF depth > MaxDepth THEN Rc("error")
        ELSE IF cr = 0 THEN Rc("more")
        ELSE IF count \notin 0..MaxArray THEN Rc("error")
        ELSE IF all.rc # "ok" THEN all
        ELSE Ok(Resp("*", <<>>, all.value), cr + 1 + all.used)

parse_one(s, depth) ==
    IF s = <<>> THEN Rc("more")
    ELSE CASE s[1] \in {"+", "-", ":"} -> parse_line_value(s)
           [] s[1] = "$"              -> parse_bulk(s)
           [] s[1] = "*"              -> parse_array(s, depth)
           [] OTHER                   -> Rc("error")

\* The parser keeps all it was given and starts again from its first byte.
parser_append(s) == Len(s) + 1 <= MaxBuffer
resp_parse(s) == IF parser_append(s) THEN parse_one(s, 0) ELSE Rc("error")

\* resp_encode writes a command: an array of bulk strings.
EncodeBulk(text) == <<"$", Numeral(Len(text))>> \o CRLF \o text \o CRLF
resp_encode(argv) ==
    <<"*", Numeral(Len(argv))>> \o CRLF \o FlattenSeq([i \in 1..Len(argv) |-> EncodeBulk(argv[i])])

-----------------------------------------------------------------------------
(* memcache.  A parser r reads the bytes b from r.pos on; token and end    *)
(* are positions, too, and a token of 0 is NULL.                           *)

Parser(of, b) == [of |-> of, st |-> "START", pos |-> 1, token |-> 1, type |-> "unknown",
                  vlen |-> 0, keys |-> <<>>, end |-> Len(b) + 1]

\* A byte is read, or left for the next state (p = p - 1).
To(r, st) == [r EXCEPT !.st = st, !.pos = @ + 1]
Back(r, st) == [r EXCEPT !.st = st]
Error(r) == [r EXCEPT !.st = "error"]
Take(r) == [r EXCEPT !.token = r.pos]
Drop(r) == [r EXCEPT !.token = 0]
TakeFirst(r) == IF r.token = 0 THEN Take(r) ELSE r

\* The word that ends before r.pos.
Word(r, b) == IF r.pos = r.token + 2 /\ b[r.token + 1] = "." THEN b[r.token] ELSE "unknown"

\* memcache_storage, _retrieval, _arithmetic, _delete and _touch.
Storage == {"set", "cas", "add", "replace", "append", "prepend"}
Retrieval == {"get", "gets"}
Arithmetic == {"incr", "decr"}
Quiet == Storage \cup Arithmetic \cup {"delete", "touch"}
Command == Quiet \cup Retrieval \cup {"quit"}
Lower == Command \cup {"noreply", ".", "x"}

ReqType(r, b) ==
    LET ch == b[r.pos]
        w == Word(r, b)
        typed == [Drop(r) EXCEPT !.type = w]
    IN  CASE r.st = "START" /\ ch = "SP"                     -> To(r, "START")
          [] r.st = "START" /\ ch \in Lower                  -> To(Take(r), "REQ_TYPE")
          [] r.st = "REQ_TYPE" /\ ch \in Lower               -> To(r, "REQ_TYPE")
          [] r.st = "REQ_TYPE" /\ ch \in {"SP", "CR"} /\ w = "quit" -> Back(typed, "CRLF")
          [] r.st = "REQ_TYPE" /\ ch = "SP" /\ w \in Command \ {"quit"} ->
                 To(typed, "SPACES_BEFORE_KEY")
          [] OTHER -> Error(r)

AfterKey(type) ==
    CASE type \in Storage                -> "SPACES_BEFORE_FLAGS"
      [] type \in Arithmetic \cup {"touch"} -> "SPACES_BEFORE_NUM"
      [] type \in Retrieval              -> "SPACES_BEFORE_KEYS"
      [] type = "delete"                 -> "RUNTO_CRLF"

EndOfKey(r, b) ==
    LET key == SubSeq(b, r.token, r.pos - 1)
        kept == [Drop(r) EXCEPT !.keys = Append(@, key)]
    IN  IF Len(key) \notin 1..MaxKey THEN Error(r)
        ELSE IF b[r.pos] = "SP" THEN To(kept, AfterKey(r.type))
        ELSE IF r.type \in Storage \cup Arithmetic THEN Error(r)
        ELSE Back(kept, AfterKey(r.type))

ReqKey(r, b) ==
    LET ch == b[r.pos]
    IN  CASE r.st = "SPACES_BEFORE_KEY" -> IF ch = "SP" THEN To(r, r.st) ELSE Back(Drop(r), "KEY")
          [] r.st = "SPACES_BEFORE_KEYS" /\ ch = "SP" -> To(r, r.st)
          [] r.st = "SPACES_BEFORE_KEYS" /\ ch = "CR" -> To(r, "ALMOST_DONE")
          [] r.st = "SPACES_BEFORE_KEYS" /\ ch \notin {"SP", "CR"} -> Back(Drop(r), "KEY")
          [] r.st = "KEY" -> IF ch \in {"SP", "CR"} THEN EndOfKey(TakeFirst(r), b)
                                                   ELSE To(TakeFirst(r), "KEY")

\* Before a number and in it; vlen alone has a value, and takes no token.
Before(r, ch, digits, number) ==
    IF ch = "SP" THEN To(r, r.st) ELSE IF ch \in digits THEN To(Take(r), number) ELSE Error(r)
Within(r, ch, ends, then) ==
    IF ch \in Digit THEN To(r, r.st) ELSE IF ch \in ends THEN then ELSE Error(r)

ReqNumbers(r, b) ==
    LET ch == b[r.pos]
        tail == Back(Drop(r), "RUNTO_CRLF")
    IN  CASE r.st = "SPACES_BEFORE_FLAGS"  -> Before(r, ch, Digit, "FLAGS")
          [] r.st = "FLAGS"                -> Within(r, ch, {"SP"}, To(Drop(r), "SPACES_BEFORE_EXPIRY"))
          [] r.st = "SPACES_BEFORE_EXPIRY" -> Before(r, ch, Digit, "EXPIRY")
          [] r.st = "EXPIRY"               -> Within(r, ch, {"SP"}, To(Drop(r), "SPACES_BEFORE_VLEN"))
          [] r.st = "SPACES_BEFORE_VLEN"   ->
                 IF ch \in Digit THEN [To(r, "VLEN") EXCEPT !.vlen = Value10(ch)]
                                 ELSE Before(r, ch, {}, "VLEN")
          [] r.st = "VLEN" /\ ch \in Digit -> [To(r, "VLEN") EXCEPT !.vlen = @ * 10 + Value10(ch)]
          [] r.st = "VLEN" /\ ch \notin Digit ->
                 IF r.type = "cas" THEN Within(r, ch, {"SP"}, Back(Drop(r), "SPACES_BEFORE_CAS"))
                                   ELSE Within(r, ch, {"SP", "CR"}, tail)
          [] r.st = "SPACES_BEFORE_CAS"    -> Before(r, ch, Digit, "CAS")
          [] r.st = "CAS"                  -> Within(r, ch, {"SP", "CR"}, tail)

\* The data of vlen bytes, the CR behind it, and the state that follows.  With less
\* in the buffer, what is there is taken.
Value(r, b, next) ==
    LET m == r.pos + r.vlen
    IN  IF m > Len(b) THEN [r EXCEPT !.vlen = m - (Len(b) + 1), !.pos = Len(b) + 1]
        ELSE IF b[m] = "CR" THEN [r EXCEPT !.pos = m + 1, !.st = next]
        ELSE Error(r)

ReqValue(r, b) ==
    CASE r.st = "RUNTO_VAL" -> IF b[r.pos] = "LF" THEN To(r, "VAL") ELSE Error(r)
      [] r.st = "VAL"       -> Value(r, b, "ALMOST_DONE")

\* After the arguments; the states without a row for the byte refuse it.
EndOfLine(type) == IF type \in Storage THEN "RUNTO_VAL" ELSE "ALMOST_DONE"

ReqTail(r, b) ==
    LET ch == b[r.pos]
    IN  CASE r.st = "SPACES_BEFORE_NUM" -> Before(r, ch, Digit \cup {"-"}, "NUM")
          [] r.st = "NUM" -> Within(r, ch, {"SP", "CR"}, Back(Drop(r), "RUNTO_CRLF"))
          [] r.st \in {"RUNTO_CRLF", "AFTER_NOREPLY", "CRLF"} /\ ch = "SP" -> To(r, r.st)
          [] r.st \in {"RUNTO_CRLF", "AFTER_NOREPLY"} /\ ch = "CR" -> To(r, EndOfLine(r.type))
          [] r.st = "RUNTO_CRLF" /\ ch = "noreply" /\ r.type \in Quiet -> To(Take(r), "NOREPLY")
          [] r.st = "NOREPLY" /\ ch \notin {"SP", "CR"} -> To(r, "NOREPLY")
          [] r.st = "NOREPLY" /\ ch \in {"SP", "CR"} /\ Word(r, b) = "noreply" ->
                 Back(Drop(r), "AFTER_NOREPLY")
          [] r.st = "CRLF" /\ ch = "CR" -> To(r, "ALMOST_DONE")
          [] r.st = "ALMOST_DONE" /\ ch = "LF" -> To(r, "done")
          [] OTHER -> Error(r)

\* Replies: a number or a word, which decides what follows.
Plain == {"END", "ERROR", "STORED", "NOT_STORED", "EXISTS", "NOT_FOUND", "DELETED", "TOUCHED"}
WithText == {"CLIENT_ERROR", "SERVER_ERROR"}

RspNumber(r, b) ==
    CASE r.st = "START"   -> Back(r, IF b[r.pos] \in Digit THEN "RSP_NUM" ELSE "RSP_STR")
      [] r.st = "RSP_NUM" -> Within(TakeFirst(r), b[r.pos], {"SP", "CR"},
                                    Back([Drop(r) EXCEPT !.type = "number"], "CRLF"))

RspWord(r, b) ==
    LET k == TakeFirst(r)
        w == Word(k, b)
        typed == [k EXCEPT !.type = w, !.end = IF w = "END" THEN k.token ELSE @]
    IN  CASE b[r.pos] \notin {"SP", "CR"}              -> To(k, "RSP_STR")
          [] b[r.pos] = "CR" /\ w \in Plain            -> Back(typed, "CRLF")
          [] b[r.pos] = "SP" /\ w \in Plain \ {"END"}  -> Back(typed, "CRLF")
          [] b[r.pos] \in {"SP", "CR"} /\ w \in WithText -> Back(typed, "RUNTO_CRLF")
          [] b[r.pos] \in {"SP", "CR"} /\ w = "VALUE"  -> Back(typed, "SPACES_BEFORE_KEY")
          [] OTHER -> Error(k)

RspHeader(r, b) ==
    LET ch == b[r.pos]
        spaces(next) == IF ch = "SP" THEN To(r, r.st) ELSE next
        digits(next) == IF ch \in Digit THEN next ELSE Error(r)
    IN  CASE r.st = "SPACES_BEFORE_KEY"   -> spaces(Back(r, "KEY"))
          [] r.st = "KEY"                 -> To(r, IF ch = "SP" THEN "SPACES_BEFORE_FLAGS" ELSE "KEY")
          [] r.st = "SPACES_BEFORE_FLAGS" -> spaces(digits(Back(r, "FLAGS")))
          [] r.st = "FLAGS"               -> Within(r, ch, {"SP"}, To(r, "SPACES_BEFORE_VLEN"))
          [] r.st = "SPACES_BEFORE_VLEN"  -> spaces(digits(Back([r EXCEPT !.vlen = 0], "VLEN")))
          [] r.st = "VLEN" /\ ch \in Digit -> [To(r, "VLEN") EXCEPT !.vlen = @ * 10 + Value10(ch)]
          [] r.st = "VLEN" /\ ch \notin Digit -> Within(r, ch, {"SP", "CR"}, Back(r, "RUNTO_CRLF"))

\* The word after a value is another VALUE, or END; SW_END is never entered.
RspValue(r, b) ==
    CASE r.st = "RUNTO_VAL" -> IF b[r.pos] = "LF" THEN To(Drop(r), "VAL") ELSE Error(r)
      [] r.st = "VAL"       -> Value(r, b, "VAL_LF")
      [] r.st = "VAL_LF"    -> IF b[r.pos] = "LF" THEN To(r, "RSP_STR") ELSE Error(r)

RspTail(r, b) ==
    LET ch == b[r.pos]
    IN  CASE r.st = "RUNTO_CRLF" /\ ch # "CR" -> To(r, r.st)
          [] r.st = "RUNTO_CRLF" /\ ch = "CR" ->
                 To(r, IF r.type = "VALUE" THEN "RUNTO_VAL" ELSE "ALMOST_DONE")
          [] r.st = "CRLF" /\ ch = "SP" -> To(r, "CRLF")
          [] r.st = "CRLF" /\ ch = "CR" -> To(r, "ALMOST_DONE")
          [] r.st = "ALMOST_DONE" /\ ch = "LF" -> To([r EXCEPT !.token = 0], "done")
          [] OTHER -> Error(r)

ReqStep(r, b) ==
    CASE r.st \in {"START", "REQ_TYPE"} -> ReqType(r, b)
      [] r.st \in {"SPACES_BEFORE_KEY", "KEY", "SPACES_BEFORE_KEYS"} -> ReqKey(r, b)
      [] r.st \in {"SPACES_BEFORE_FLAGS", "FLAGS", "SPACES_BEFORE_EXPIRY", "EXPIRY", "VLEN",
                   "SPACES_BEFORE_VLEN", "SPACES_BEFORE_CAS", "CAS"} -> ReqNumbers(r, b)
      [] r.st \in {"RUNTO_VAL", "VAL"} -> ReqValue(r, b)
      [] OTHER -> ReqTail(r, b)

RspStep(r, b) ==
    CASE r.st \in {"START", "RSP_NUM"} -> RspNumber(r, b)
      [] r.st = "RSP_STR" -> RspWord(r, b)
      [] r.st \in {"SPACES_BEFORE_KEY", "KEY", "SPACES_BEFORE_FLAGS", "FLAGS",
                   "SPACES_BEFORE_VLEN", "VLEN"} -> RspHeader(r, b)
      [] r.st \in {"RUNTO_VAL", "VAL", "VAL_LF"} -> RspValue(r, b)
      [] OTHER -> RspTail(r, b)

RECURSIVE Parse(_, _)
Parse(r, b) ==
    IF r.st \in {"done", "error"} \/ r.pos > Len(b) THEN r
    ELSE Parse(IF r.of = "request" THEN ReqStep(r, b) ELSE RspStep(r, b), b)

\* The result: repair if a token is cut, again if it is not.  A reply that has
\* moved end to its END is never repaired.
ReqResult(r) ==
    CASE r.st = "done"  -> Ok([type |-> r.type, keys |-> r.keys], r.pos - 1)
      [] r.st = "error" -> Rc("error")
      [] OTHER          -> Rc(IF r.token # 0 THEN "repair" ELSE "again")
RspResult(r, b) ==
    CASE r.st = "done"  -> Ok(r.type, r.pos - 1)
      [] r.st = "error" -> Rc("error")
      [] OTHER          -> Rc(IF r.end = Len(b) + 1 /\ r.token # 0 THEN "repair" ELSE "again")

\* Both callers go on while the result is again.  The parser then starts at last,
\* where there is nothing to read, with the same result: they never return.
Loop(result) == IF result.rc = "again" THEN Rc("spins") ELSE result
SetRequest(b) == Loop(ReqResult(Parse(Parser("request", b), b)))
FeedResponse(b) == Loop(RspResult(Parse(Parser("reply", b), b), b))

\* memcache_exchange and thread_func take everything but ok for an error.
GivesUp(result) == IF result.rc = "repair" THEN Rc("error") ELSE result

-----------------------------------------------------------------------------
(* HTTP.  A method, a target and the name of a header are one byte.        *)

\* Where the head ends, or 0.
HeadEnds(s) == {k + 3 : k \in {k \in CrLfs(s) : k + 2 \in CrLfs(s)}}
find_headers_end(s) ==
    IF HeadEnds(s) = {} THEN 0 ELSE CHOOSE k \in HeadEnds(s) : \A j \in HeadEnds(s) : k <= j

\* The first line that starts with the name, in either case.
header_name_is(name) == name \in {"Content-Length:", "content-length:"}
LengthLines(head) ==
    {k \in {j + 2 : j \in CrLfs(head)} : k < Len(head) /\ header_name_is(head[k])}
header_content_length(head) ==
    LET lines == LengthLines(head)
    IN  IF lines = {} THEN 0 ELSE Value10(head[1 + CHOOSE k \in lines : \A j \in lines : k <= j])

\* A request of the client: the headers of its own that the caller did not supply,
\* the caller's, and the body.
header_supplied(req, names) == \E i \in 1..Len(req.headers) : req.headers[i][1] \in names
Own(req, names, value) ==
    IF header_supplied(req, names) THEN <<>> ELSE <<CHOOSE n \in names : TRUE, value>> \o CRLF
build_request(req) ==
    <<req.method, "SP", req.target, "SP", "HTTP/1.1">> \o CRLF
    \o Own(req, {"Host:"}, "x") \o Own(req, {"User-Agent:"}, "x")
    \o Own(req, {"Accept:"}, "x") \o Own(req, {"Connection:"}, "close")
    \o (IF req.body # <<>> \/ req.method = "POST"
         THEN Own(req, {"Content-Type:"}, "x")
              \o Own(req, {"Content-Length:", "content-length:"}, Numeral(Len(req.body)))
         ELSE <<>>)
    \o FlattenSeq([i \in 1..Len(req.headers) |-> req.headers[i] \o CRLF])
    \o CRLF \o req.body

\* The proxy is ready with the head, or with a buffer that is full, which it refuses.
DoInput(s) ==
    IF find_headers_end(s) > 0 THEN "ready" ELSE IF Len(s) >= RecvSize THEN "overflow" ELSE "more"

\* forward up to pick_backend: 400, or the request for the backend.
Forwardable == {"/", "http://"}
forward(s) ==
    LET hend == find_headers_end(s)
        length == header_content_length(SubSeq(s, 1, hend))
    IN  IF Len(s) < 4 \/ s[2] # "SP" \/ s[4] # "SP" THEN Rc("error")
        ELSE IF s[1] = "CONNECT" \/ s[3] \notin Forwardable THEN Rc("error")
        ELSE IF length \notin 0..(Len(s) - hend) THEN Rc("error")
        ELSE Ok([method |-> s[1], body |-> SubSeq(s, hend + 1, hend + length)], hend + length)

\* CallBack goes on to DoProcess whatever DoInput said of the first RecvData.
DoProcess(s) == IF DoInput(s) = "ready" THEN forward(s) ELSE Rc("error")

\* What reply writes; without room for the body, 502.
Status(status, length) ==
    <<"HTTP/1.1", "SP", status>> \o CRLF \o <<"Content-Length:", length>> \o CRLF
    \o <<"Connection:", "close">> \o CRLF \o CRLF
reply(status, body) ==
    LET whole == Status(status, Numeral(Len(body))) \o body
    IN  IF Len(whole) >= OutSize THEN Status("502", "0") ELSE whole

\* http_parser on the reply s, which may have ended: its body so far, and whether it is
\* complete, by its length, or without one by its end.
HttpParser(s, ended) ==
    LET hend == find_headers_end(s)
        head == SubSeq(s, 1, hend)
        body == From(s, hend + 1)
    IN  IF hend = 0 THEN [complete |-> FALSE, body |-> <<>>]
        ELSE IF LengthLines(head) = {} THEN [complete |-> ended, body |-> body]
        ELSE [complete |-> Len(body) >= header_content_length(head), body |-> body]

\* The callbacks collect the body; st_http_exchange reads until it is complete.
append_body(body) == Len(body) + 1 <= MaxBody
st_http_exchange(s, ended) ==
    LET p == HttpParser(s, ended)
    IN  IF ~append_body(p.body) THEN Rc("error")
        ELSE IF p.complete THEN Ok([status |-> s[3], body |-> p.body], Len(s))
        ELSE Rc("more")

\* http_get reads into one buffer, and counts bytes.
http_get(s, ended) ==
    IF HttpParser(s, ended).complete THEN Ok(<<>>, Len(s))
    ELSE Rc(IF Len(s) >= ReplySize THEN "error" ELSE "more")

-----------------------------------------------------------------------------
(* DNS.  The head is two bytes, the numbers of questions and of answers.   *)
(* The type and class of the question are one byte, and so are a pointer   *)
(* to its name, and an address.                                            *)

\* www.x as 3 www 1 x 0.
Label(name, k) ==
    LET dots == {j \in k..Len(name) : name[j] = "."}
    IN  IF dots = {} THEN Len(name) + 1 - k ELSE (CHOOSE j \in dots : \A i \in dots : j <= i) - k
ch_name(name) ==
    [k \in 1..Len(name) + 1 |->
        IF k = 1 THEN Numeral(Label(name, 1))
        ELSE IF name[k - 1] = "." THEN Numeral(Label(name, k)) ELSE name[k - 1]] \o <<"0">>

MutantQueryFormat(name) == 2 + 1 + Len(name) + 1  \* without the 0 that ends a name
make_dns_query_format(name) == 2 + 1 + Len(name) + 2

\* set_dns_head: one question, and no answers.
set_dns_head(name) == <<"1", "0">> \o ch_name(name) \o <<"A">>

\* The n answers from s on: addresses, and stop at a record of another type.
RECURSIVE Answers(_, _)
Answers(s, n) ==
    IF n = 0 THEN Ok(<<>>, 0)
    ELSE IF s[2] \notin {"A", "CNAME"} THEN Rc("stop")
    ELSE LET size == IF s[2] = "A" THEN 3 ELSE 3 + Value10(s[3])
             rest == Answers(From(s, size + 1), n - 1)
         IN  [rest EXCEPT !.value = (IF s[2] = "A" THEN <<s[3]>> ELSE <<>>) \o @]

\* The answers come behind the question, which the server repeats.
dns_lookup(b, name) ==
    LET answers == Answers(From(b, make_dns_query_format(name) + 1), Value10(b[2]))
    IN  IF answers.rc = "ok" /\ answers.value = <<>> THEN Rc("error")
        ELSE Ok(answers.value, Len(b))

\* st_dns_encode_qname, where there is room; none for a label it refuses.
st_dns_encode_qname(name) ==
    LET labels == Tokens(name, ".")
    IN  IF \E i \in 1..Len(labels) : Len(labels[i]) \notin 1..MaxLabel THEN <<>>
        ELSE FlattenSeq([i \in 1..Len(labels) |-> <<Numeral(Len(labels[i]))>> \o labels[i]]) \o <<"0">>

\* st_dns_decode_qname, from off on, behind as much of a name.  No pointers.
RECURSIVE st_dns_decode_qname(_, _, _, _)
st_dns_decode_qname(pkt, off, name, hops) ==
    IF off > Len(pkt) \/ hops >= MaxHops THEN Rc("error")
    ELSE IF pkt[off] = "0" THEN Ok(name, off)
    ELSE LET lab == Value10(pkt[off])
             longer == name \o (IF name = <<>> THEN <<>> ELSE <<".">>) \o SubSeq(pkt, off + 1, off + lab)
         IN  IF lab \notin 1..MaxLabel \/ off + lab > Len(pkt) \/ Len(longer) >= NameSize
               THEN Rc("error")
               ELSE st_dns_decode_qname(pkt, off + lab + 1, longer, hops + 1)

\* bench.local and bench.sthread.local.
Zones == {<<"b", ".", "l">>, <<"b", ".", "s", ".", "l">>}
st_dns_name_in_zone(name) == \E zone \in Zones : name = zone \/ IsSuffix(<<".">> \o zone, name)

\* The reply begins with all of the query; the answer comes behind.
st_dns_build_reply(query) ==
    LET qname == st_dns_decode_qname(query, 3, <<>>, 0)
        filled(n, answer) == <<"1", n>> \o From(query, 3) \o answer
    IN  IF Len(query) \notin 2..MaxPkt \/ query[1] = "0" THEN Rc("error")
        ELSE IF qname.rc = "error" \/ qname.used + 1 > Len(query) THEN Rc("error")
        ELSE IF query[qname.used + 1] # "A" \/ ~st_dns_name_in_zone(qname.value)
          THEN Ok(filled("0", <<>>), Len(query))
        ELSE IF Len(query) + 3 > MaxPkt THEN Rc("error")
        ELSE Ok(filled("1", <<"ptr", "A", "127.0.0.1">>), Len(query))

-----------------------------------------------------------------------------
(* The ports of a scan: numbers and ranges between commas.                 *)

\* One port or a range, or none for an error.  atoi makes 0 of what is no number.
parse_range(tok) ==
    LET dash == SelectInSeq(tok, LAMBDA ch : ch = "-")
        a == Value10(tok[1])
        b == IF dash = 0 THEN a ELSE IF dash = Len(tok) THEN 0 ELSE Value10(tok[dash + 1])
    IN  IF tok = <<>> THEN <<>>
        ELSE IF a <= 0 \/ b < a \/ b > MaxPort THEN <<>> ELSE [k \in 1..b - a + 1 |-> a + k - 1]

parse_spec(s) ==
    LET tokens == Tokens(s, ",")
        ranges == [i \in 1..Len(tokens) |-> parse_range(tokens[i])]
        ports == FlattenSeq(ranges)
    IN  IF ports = <<>> \/ <<>> \in Range(ranges) \/ Len(ports) > MaxPort THEN Rc("error")
        ELSE Ok(ports, Len(s))
=============================================================================
