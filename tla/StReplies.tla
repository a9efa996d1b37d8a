------------------------------- MODULE StReplies -------------------------------
(***************************************************************************)
(* The readers of the sample programs at work (module StParsers): a peer   *)
(* sends one message, TCP cuts it anywhere, and the reader calls st_recv   *)
(* until it accepts the message or gives it up.                            *)
(***************************************************************************)
EXTENDS StParsers

VARIABLES
    reader,   \* the reader that runs
    sent,     \* the message its peer sends: its bytes, and what they mean
    net,      \* what has not come yet, of the message and of what follows it
    buf,      \* the bytes the reader has got
    outcome   \* what it made of them

vars == <<reader, sent, net, buf, outcome>>

-----------------------------------------------------------------------------
(* What the peers send: bytes, what they mean, whether the reader's limits *)
(* allow it, whether it ends with its connection, and for dns the name     *)
(* that was asked for.                                                     *)

Message(bytes, means, fits) ==
    [bytes |-> bytes, means |-> means, fits |-> fits, close |-> FALSE, name |-> <<>>]

\* RESP values, with up to one element and one array too many; a command is one, too.
RECURSIVE Encode(_), Fits(_, _)
Encode(v) ==
    CASE v.type \in {"+", "-", ":"} -> <<v.type>> \o v.text \o CRLF
      [] v.type = "$"    -> EncodeBulk(v.text)
      [] v.type = "null" -> <<"$", "-1">> \o CRLF
      [] v.type = "*"    -> <<"*", Numeral(Len(v.elem))>> \o CRLF
                            \o FlattenSeq([i \in 1..Len(v.elem) |-> Encode(v.elem[i])])
Fits(v, depth) ==
    CASE v.type = "$" -> Len(v.text) <= MaxBulk
      [] v.type = "*" -> /\ depth <= MaxDepth /\ Len(v.elem) <= MaxArray
                         /\ \A i \in 1..Len(v.elem) : Fits(v.elem[i], depth + 1)
      [] OTHER -> TRUE

Bulks == {Resp("$", text, <<>>) : text \in {<<>>, <<"x">>, CRLF, <<"x", "CR", "LF">>}}
Simple == {Resp("+", <<"x">>, <<>>), Resp("-", <<"CR">>, <<>>), Resp(":", <<"1">>, <<>>),
           Resp("null", <<>>, <<>>)} \cup Bulks
Arrays(values, n) == {Resp("*", <<>>, elem) : elem \in [1..n -> values]}
Flat == Arrays(Simple, 0) \cup Arrays(Simple, 2) \cup Arrays(Bulks, 3)
Deep == Arrays(Arrays(Simple, 0) \cup Arrays(Simple, 1), 2)
TooDeep == Arrays(Arrays(Arrays(Simple, 0) \cup Arrays(Simple, 1), 1), 1)

Words == {<<"x">>, <<"x", "x">>}
Commands == UNION {[1..n -> Words] : n \in 1..2}
RedisReplies ==
    {Message(Encode(v), v, Fits(v, 0)) : v \in Simple \cup Flat \cup Deep \cup TooDeep}
    \cup {Message(resp_encode(c), Resp("*", <<>>, [i \in 1..Len(c) |-> Resp("$", c[i], <<>>)]), TRUE) :
              c \in Commands}

\* memcache: replies of one line, and values followed by END.
W(word) == <<word, ".">>
SP == <<"SP">>
DataOf == {<<>>, <<"x">>, CRLF} \cup {[k \in 1..12 |-> "x"]}
Length(data) == IF Len(data) = 12 THEN <<"1", "2">> ELSE <<Numeral(Len(data))>>
ValueLine(data, cas) ==
    W("VALUE") \o SP \o <<"x">> \o SP \o <<"0">> \o SP \o Length(data) \o cas \o CRLF \o data \o CRLF
MemcacheReplies ==
    {Message(W(w) \o CRLF, w, TRUE) : w \in Plain}
    \cup {Message(W(w) \o SP \o <<"x">> \o CRLF, w, TRUE) : w \in WithText}
    \cup {Message(number \o CRLF, "number", TRUE) : number \in {<<"1">>, <<"1", "2">>}}
    \cup {Message(ValueLine(d, cas) \o W("END") \o CRLF, "END", TRUE) :
              d \in DataOf, cas \in {<<>>, <<"SP", "1">>}}
    \cup {Message(ValueLine(d, <<>>) \o ValueLine(e, <<>>) \o W("END") \o CRLF, "END", TRUE) :
              d, e \in DataOf}

\* memcache requests, with one key or two, some of them too long.
Keys == {<<"x">>, <<"x", "x">>, <<"x", "x", "x">>}
NoReply == {<<>>, SP \o W("noreply")}
Line(words) == words \o CRLF
MemcacheRequests ==
    LET asks(c, k, bytes) == Message(bytes, [type |-> c, keys |-> k],
                                     \A i \in 1..Len(k) : Len(k[i]) <= MaxKey)
        start(c, k) == W(c) \o SP \o k
    IN  {asks(c, <<k>>, Line(start(c, k))) : c \in Retrieval, k \in Keys}
        \cup {asks("gets", <<k, l>>, Line(start("gets", k) \o SP \o l)) : k, l \in Keys}
        \cup {asks("delete", <<k>>, Line(start("delete", k) \o n)) : k \in Keys, n \in NoReply}
        \cup {asks(c, <<k>>, Line(start(c, k) \o SP \o <<"1", "2">> \o n)) :
                  c \in Arithmetic \cup {"touch"}, k \in Keys, n \in NoReply}
        \cup {asks(c, <<k>>, Line(start(c, k) \o <<"SP", "0", "SP", "1", "SP">> \o Length(d)
                                  \o (IF c = "cas" THEN <<"SP", "1">> ELSE <<>>) \o n) \o d \o CRLF) :
                  c \in Storage, k \in Keys, n \in NoReply, d \in DataOf}
        \cup {asks("quit", <<>>, Line(W("quit")))}

\* Requests to the proxy, with a body or without, and with headers of the caller's.
Bodies == {<<>>, <<"x">>, CRLF}
Supplied == {<<>>, <<<<"Host:", "x">>>>, <<<<"Expect:", "x">>>>}
HttpRequests ==
    LET asks(m, t, h, d) ==
            LET bytes == build_request([method |-> m, target |-> t, headers |-> h, body |-> d])
            IN  Message(bytes, [method |-> m, body |-> d],
                        m # "CONNECT" /\ t \in Forwardable /\ Len(bytes) <= RecvSize)
        target == {"/", "http://", "https://", "*"}
    IN  {asks(m, t, h, <<>>) : m \in {"GET", "CONNECT"}, t \in target, h \in Supplied}
        \cup {asks("POST", t, h, d) : t \in target, h \in Supplied, d \in Bodies}
        \cup {asks("POST", "/", <<<<"content-length:", Numeral(Len(d))>>>>, d) : d \in Bodies}

\* Replies with a length, from the proxy, which may shorten them to a 502, and from
\* other servers, and replies that end with their connection.
Page(bytes, status, body, close) ==
    [Message(bytes, [status |-> status, body |-> body], append_body(body)) EXCEPT !.close = close]
HttpReplies ==
    LET body == Bodies \cup {<<"x", "x", "x">>}
        whole(status, d) == Status(status, Numeral(Len(d))) \o d
    IN  {LET bytes == reply("200", d)
             short == bytes # whole("200", d)
         IN  IF short THEN Page(bytes, "502", <<>>, FALSE) ELSE Page(bytes, "200", d, FALSE) :
              d \in body}
        \cup {Page(whole(status, d), status, d, FALSE) : status \in {"200", "404"}, d \in body}
        \cup {Page(<<"HTTP/1.1", "SP", "200">> \o CRLF \o CRLF \o d, "200", d, TRUE) : d \in body}

\* http_get needs room for the end of a connection, too.
FitsBuffer(m) == Len(m.bytes) + (IF m.close THEN 1 ELSE 0) <= ReplySize

\* Answers to a question for one of three names; those to a CNAME, and to a type
\* dns_lookup does not know, which ends its list, are longer than an address.
Record(type) ==
    CASE type = "CNAME" -> <<"ptr", "CNAME", "2", "x", "ptr">>
      [] type = "AAAA"  -> <<"ptr", "AAAA", "x", "x">>
      [] OTHER          -> <<"ptr", "A", type>>
RECURSIVE Addresses(_)
Addresses(types) ==
    IF types = <<>> \/ Head(types) = "AAAA" THEN <<>>
    ELSE (IF Head(types) = "CNAME" THEN <<>> ELSE <<Head(types)>>) \o Addresses(Tail(types))

\* Names for st_dnsserver: whether they are in its zones, and whether no label is
\* too long; and whether it answers.
Names ==
    LET known(name) == [name |-> name, zone |-> TRUE, label |-> TRUE]
        other(name) == [name |-> name, zone |-> FALSE, label |-> TRUE]
        x == <<"x", ".">>
        b == <<"b", ".">>
    IN  {known(b \o <<"l">>), known(x \o b \o <<"l">>), known(<<"x">> \o x \o b \o <<"l">>),
         known(b \o <<"s", ".", "l">>), known(x \o b \o <<"s", ".", "l">>),
         other(<<"x">>), other(<<"x">> \o b \o <<"l">>), other(b \o <<"s">>), other(x \o x \o <<"x">>),
         other(x \o x \o x \o <<"x", "x">>), other(x \o x \o x \o x \o <<"x">>),
         other(<<"x">> \o x \o <<"x">> \o x \o <<"x">> \o x \o <<"x">>),
         [name |-> <<"x", "x", "x", ".">> \o b \o <<"l">>, zone |-> TRUE, label |-> FALSE]}
Dots(name) == Cardinality({k \in 1..Len(name) : name[k] = "."})
Answered(q, t) ==
    /\ q.label /\ Len(q.name) < NameSize /\ Dots(q.name) + 1 < MaxHops
    /\ Len(q.name) + 5 + (IF q.zone /\ t = "A" THEN 3 ELSE 0) <= MaxPkt

\* From other servers, and from st_dnsserver to st_dns.
DnsReplies ==
    {[Message(<<"1", Numeral(Len(types))>> \o From(set_dns_head(name), 3)
                \o FlattenSeq([i \in 1..Len(types) |-> Record(types[i])]),
              Addresses(types), \E i \in 1..Len(types) : types[i] # "CNAME")
        EXCEPT !.name = name] :
        name \in {<<"x">>, <<"x", "x", "x", ".", "x">>, <<"x", ".", "x", "x">>},
        types \in UNION {[1..n -> {"1.1.1.1", "2.2.2.2", "CNAME", "AAAA"}] : n \in 0..3}}
    \cup {LET answered == st_dns_build_reply(set_dns_head(q.name))
          IN  [Message(answered.value, IF q.zone THEN <<"127.0.0.1">> ELSE <<>>, q.zone)
                EXCEPT !.name = q.name] : q \in {q \in Names : Answered(q, "A")}}

\* Queries to st_dnsserver, as a test of the repository builds them, and broken ones.
Queries ==
    LET ask(q, t) ==
            LET question == st_dns_encode_qname(q.name) \o <<t>>
                found == q.zone /\ t = "A"
            IN  Message(<<"1", "0">> \o question,
                        (IF found THEN <<"1", "1">> ELSE <<"1", "0">>) \o question
                            \o (IF found THEN <<"ptr", "A", "127.0.0.1">> ELSE <<>>),
                        Answered(q, t))
    IN  {ask(q, t) : q \in {q \in Names : q.label}, t \in {"A", "AAAA"}}
        \cup {Message(bytes, <<>>, FALSE) :
                  bytes \in {<<"1">>, <<"1", "0">>, <<"1", "0", "0">>, <<"0", "0", "1", "b", "0", "A">>,
                             <<"1", "0", "ptr", "A">>, <<"1", "0", "3", "x", "x", "x", "0", "A">>,
                             <<"1", "0", "2", "x">>, <<"1", "0", "1", "x">>, <<"1", "0", "1", "x", "0">>}}

\* Lists of one or two ports and ranges, some of them no ports at all, with a comma at
\* the end or without.
Specs ==
    LET port == {<<n, n>> : n \in 0..4} \cup {<<a, b>> \in (1..4) \X (1..4) : a # b}
        item(r) == IF r[1] = r[2] THEN <<Numeral(r[1])>> ELSE <<Numeral(r[1]), "-", Numeral(r[2])>>
        ports(r) == [k \in 1..r[2] - r[1] + 1 |-> r[1] + k - 1]
        valid(r) == r[1] # 0 /\ r[1] <= r[2] /\ r[2] <= MaxPort
        spec(bytes, all, means) == Message(bytes, means, (\A r \in all : valid(r)) /\ Len(means) <= MaxPort)
    IN  {spec(item(r) \o end, {r}, ports(r)) : r \in port, end \in {<<>>, <<",">>}}
        \cup {spec(item(q) \o <<",">> \o item(r), {q, r}, ports(q) \o ports(r)) : q, r \in port}
        \cup {Message(bytes, <<>>, FALSE) :
                  bytes \in {<<",">>, <<"1", ",", ",", "1">>, <<"1", "-">>, <<"-", "1">>}}

Messages(of) ==
    CASE of = "redis"    -> RedisReplies
      [] of = "memcache" -> MemcacheReplies
      [] of = "request"  -> MemcacheRequests
      [] of = "proxy"    -> HttpRequests
      [] of = "http"     -> HttpReplies
      [] of = "wrk"      -> {[m EXCEPT !.means = <<>>, !.fits = FitsBuffer(m)] : m \in HttpReplies}
      [] of = "dns"      -> DnsReplies
      [] of = "query"    -> Queries
      [] of = "ports"    -> Specs

\* Over TCP the start of a next message may follow, but not a reply to one request.
Follows(of) ==
    IF of \in {"dns", "query", "ports", "http", "wrk"} THEN {<<>>} ELSE {<<>>, <<"x", "CR", "LF">>}

-----------------------------------------------------------------------------

Init ==
    /\ reader \in Reader /\ sent \in Messages(reader)
    /\ \E rest \in Follows(reader) : net = sent.bytes \o rest
    /\ buf = <<>> /\ outcome = Rc("more")

\* What the reader makes of all it has got, and of its end.
Read(b, ended) ==
    CASE reader = "redis"    -> resp_parse(b)
      [] reader = "memcache" -> GivesUp(FeedResponse(b))
      [] reader = "request"  -> GivesUp(SetRequest(b))
      [] reader = "proxy"    -> DoProcess(b)
      [] reader = "http"     -> st_http_exchange(b, ended)
      [] reader = "wrk"      -> http_get(b, ended)
      [] reader = "dns"      -> dns_lookup(b, sent.name)
      [] reader = "query"    -> st_dns_build_reply(b)
      [] reader = "ports"    -> parse_spec(b)

\* What st_recv may return at most: what has come, and what the buffer has room for.
Room ==
    CASE reader = "proxy" -> RecvSize [] reader = "wrk" -> ReplySize - Len(buf) [] OTHER -> Len(net)

\* One st_recv, of the next n bytes; a datagram comes whole, as an option of main does.
AtOnce == reader \in {"dns", "query", "ports"}
Receive(n) ==
    /\ outcome.rc = "more"
    /\ n <= Room /\ (AtOnce => n = Len(net))
    /\ buf' = buf \o SubSeq(net, 1, n) /\ net' = From(net, n + 1)
    /\ outcome' = Read(buf', FALSE)
    /\ UNCHANGED <<reader, sent>>

\* st_recv returns 0: exchange_once of redis and the readers of HTTP look at what they
\* have once more, and every other reader ends without a message.  Where the end is
\* part of the message it comes last.
Close ==
    /\ outcome.rc = "more" /\ ~AtOnce /\ (sent.close => net = <<>>)
    /\ outcome' = IF reader \in {"redis", "http", "wrk"} /\ Read(buf, TRUE).rc = "ok"
                    THEN Read(buf, TRUE) ELSE Rc("closed")
    /\ UNCHANGED <<reader, sent, net, buf>>

Next == Close \/ \E n \in 1..Len(net) : Receive(n)

Spec == Init /\ [][Next]_vars

-----------------------------------------------------------------------------

Whole == Len(buf) >= Len(sent.bytes) /\ (sent.close => outcome.rc # "more")
Over == reader = "redis" /\ Len(buf) >= MaxBuffer

\* A reader accepts a message exactly when all of it has arrived, wherever TCP cut
\* it, unless it is beyond one of its limits; a RESP value that has not all arrived is
\* waited for.  memcache's parsers may never return on a cut message, but never when
\* it is whole.  This is what the comments on FeedResponse and in resp.cc promise, and
\* what a length that is one off, or a state that is left a byte early, breaks.
OkIsWhole ==
    /\ outcome.rc = "ok" => Whole /\ sent.fits /\ ~Over
    /\ Whole /\ sent.fits /\ ~Over => outcome.rc = "ok"
    /\ reader = "redis" /\ sent.fits /\ ~Whole /\ ~Over => outcome.rc \in {"more", "closed"}
    /\ outcome.rc = "spins" => reader \in {"memcache", "request"} /\ ~Whole

\* What is accepted is what was sent: the value with its elements and a text that may
\* hold a CRLF, the type of a reply, the keys of a request, the body, the addresses;
\* and to a question st_dnsserver has the right answer, where dns_lookup looks for it.
\* The bytes behind it are not part of it, so the next message starts where it should.
Decoded ==
    outcome.rc = "ok" =>
        /\ outcome.value = sent.means
        /\ SubSeq(buf, 1, outcome.used) = sent.bytes
=============================================================================
