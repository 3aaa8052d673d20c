--------------------------- MODULE RequestParser ---------------------------
(***************************************************************************)
(* The parser of HTTP requests: http_parser_execute() of http_parser.c as  *)
(* the server drives it (request_parser.cpp).  A message arrives in reads  *)
(* of any size, and the automaton, the callbacks and parse() must make of  *)
(* them the request that was sent, wherever the reads are cut.             *)
(*                                                                         *)
(* A read is a sequence of atoms: a delimiter, a digit, a letter or half   *)
(* of a word the parser compares with ("G" and "ET", "chun" and "ked"), so *)
(* that a word may be cut too.  Case, the responses, the Connection        *)
(* headers (which the server never consults) and the reuse of the parser   *)
(* after a message are left out.  STRICT is on, as http_parser.h sets it.  *)
(***************************************************************************)
EXTENDS Integers, Sequences, SequencesExt, Functions

CONSTANTS
  Atoms,       \* what messages are cut into: delimiters, digits, letters, halves of words
  Messages,    \* the well-formed messages a client may send
  Garbled,     \* those of them that may arrive with one atom replaced
  Noise,       \* the atoms that replace it
  MaxRead,     \* bound: the atoms of a read that is not all there is left
  MaxHeader,   \* HTTP_MAX_HEADER_SIZE
  MaxLength    \* ULLONG_MAX, the "no length given" of content_length

ASSUME LimitsAssumption == MaxRead \in Nat /\ MaxHeader \in Nat /\ MaxLength \in Nat \ 0..15

VARIABLES
  sent,        \* the message the client sends
  intact,      \* nothing of it was replaced
  stream,      \* its atoms as they reach the server
  pos,         \* how many of them were read
  p,           \* the parser and what its callbacks collected
  verdict      \* what the last parse() returned

vars == <<sent, intact, stream, pos, p, verdict>>

Digits == [d \in {"0", "1", "2", "9"} |->
             CASE d = "0" -> 0 [] d = "1" -> 1 [] d = "2" -> 2 [] d = "9" -> 9]
Methods == {<<"G", "ET">>, <<"P", "OST">>, <<"P", "UT">>, <<"C", "ONNECT">>}
Delimiters == {"SP", "TAB", "CR", "LF", ":", "/", "?", "#", "@", ";"}

(***************************************************************************)
(* What a client sends: m is a record of a lead (empty lines before the    *)
(* request), method, url, version, headers (pairs of a name and a value),  *)
(* framing, body, the chunks the body is cut into and trailers, and the    *)
(* first atoms of the next request.  "fold" in a value is a folded line.   *)
(***************************************************************************)
CRLF == <<"CR", "LF">>
Folded(v, by) == FlattenSeq([i \in DOMAIN v |-> IF v[i] = "fold" THEN by ELSE <<v[i]>>])
HeaderLine(h) == h[1] \o <<":", "SP">> \o Folded(h[2], CRLF \o <<"SP">>) \o CRLF
Chunk(data) == <<<<"0", "1", "2">>[Len(data) + 1], "CR", "LF">> \o data \o CRLF
Lines(hs) == FlattenSeq([i \in DOMAIN hs |-> HeaderLine(hs[i])])
HeadOf(m) == m.lead \o m.method \o <<"SP">> \o m.url \o
           (IF m.version = <<>> THEN <<>> ELSE <<"SP", "HT", "TP/">> \o m.version) \o
           CRLF \o Lines(m.headers) \o CRLF
BodyOf(m) == IF m.chunks = <<>> THEN m.body
           ELSE FlattenSeq([i \in DOMAIN m.chunks |-> Chunk(m.chunks[i])]) \o
                <<"0", "CR", "LF">> \o Lines(m.trailers) \o CRLF
Serialized(m) == HeadOf(m) \o BodyOf(m) \o m.next

ASSUME MessagesAssumption == \A m \in Messages : Serialized(m) \in Seq(Range(Serialized(m)))

(***************************************************************************)
(* The parser: http_parser together with the members of RequestParser.     *)
(***************************************************************************)
Fresh(complete) ==
  [state |-> "start_req", hs |-> "general", word |-> <<>>, method |-> <<>>,
   version |-> <<0, 0>>, flags |-> {}, len |-> MaxLength, nread |-> 0, errno |-> "ok",
   field |-> <<>>, value |-> <<>>, url |-> <<>>, body |-> <<>>,
   headers |-> {}, complete |-> complete]

Go(q, s) == [q EXCEPT !.state = s]
Fail(q) == [q EXCEPT !.errno = "bad"]
Expect(q, ok, s) == IF ok THEN Go(q, s) ELSE Fail(q)

(* on_header_field and on_headers_complete store the pair before them, but *)
(* only one whose value is not empty: the name of a header without a value *)
(* stays in current_header_field_.                                         *)
Flush(q) ==
  IF q.value = <<>> THEN q
  ELSE [q EXCEPT !.headers = {h \in @ : h[1] # q.field} \union {<<q.field, q.value>>},
                 !.field = <<>>, !.value = <<>>]
OnHeaderField(q, ch) == [Flush(q) EXCEPT !.field = Append(@, ch)]
MessageComplete(q) == [q EXCEPT !.complete = TRUE, !.errno = "paused", !.state = "start_req"]

StartReq(q, ch) ==
  CASE ch \in {"CR", "LF"} -> q
    [] \E m \in Methods : m[1] = ch ->
         [q EXCEPT !.complete = FALSE, !.flags = {}, !.len = MaxLength, !.word = <<ch>>,
                   !.state = "method"]
    [] OTHER -> Fail(q)

Method(q, ch) ==
  CASE ch = "SP" /\ q.word \in Methods ->
         [q EXCEPT !.method = q.word, !.state = "spaces_before_url"]
    [] \E m \in Methods : IsPrefix(Append(q.word, ch), m) -> [q EXCEPT !.word = Append(@, ch)]
    [] OTHER -> Fail(q)

(* parse_url_char(): the state after ch, or "dead".                        *)
IsUrlChar(ch) == ch \notin {"SP", "TAB", "CR", "LF", "?", "#"}
IsAlpha(ch) == ch \in {"a", "b"}
ParseUrlChar(s, ch) ==
  IF ch \in {"SP", "TAB", "CR", "LF"} THEN "dead"
  ELSE CASE s = "spaces_before_url" /\ ch = "/" -> "path"
         [] s = "spaces_before_url" /\ IsAlpha(ch) -> "schema"
         [] s = "schema" /\ IsAlpha(ch) -> s
         [] s = "schema" /\ ch = ":" -> "schema_slash"
         [] s = "schema_slash" /\ ch = "/" -> "schema_slash_slash"
         [] s = "schema_slash_slash" /\ ch = "/" -> "server_start"
         [] s \in {"server_start", "server", "server_with_at"} ->
              (CASE ch = "/" -> "path"
                 [] ch = "?" -> "query"
                 [] ch = "@" /\ s # "server_with_at" -> "server_with_at"
                 [] ch \notin Delimiters \/ ch \in {":", ";"} -> "server"
                 [] OTHER -> "dead")
         [] s \in {"path", "query"} ->
              (IF IsUrlChar(ch) THEN s ELSE IF ch = "?" THEN "query" ELSE "fragment_start")
         [] s \in {"fragment_start", "fragment"} ->
              IF IsUrlChar(ch) \/ (s = "fragment_start" /\ ch = "?") THEN "fragment" ELSE s
         [] OTHER -> "dead"

UrlChar(q, from, ch) ==
  LET s == ParseUrlChar(from, ch)
  IN  IF s = "dead" THEN Fail(q) ELSE [q EXCEPT !.state = s, !.url = Append(@, ch)]

UrlUnfinished == {"schema", "schema_slash", "schema_slash_slash", "server_start"}
UrlFinished == {"server", "server_with_at", "path", "query", "fragment_start", "fragment"}

Url(q, ch) ==
  CASE q.state = "spaces_before_url" /\ ch = "SP" -> q
    [] q.state = "spaces_before_url" /\ ch # "SP" /\ q.method = <<"C", "ONNECT">> ->
         UrlChar(q, "server_start", ch)
    [] q.state \in UrlFinished /\ ch = "SP" -> Go(q, "http_start")
    [] q.state \in UrlFinished /\ ch \in {"CR", "LF"} ->
         [q EXCEPT !.version = <<0, 9>>,
                   !.state = IF ch = "CR" THEN "line_almost_done" ELSE "field_start"]
    [] OTHER -> UrlChar(q, q.state, ch)

Digit(q, i, ch, first) ==
  LET n == IF first THEN Digits[ch] ELSE 10 * q.version[i] + Digits[ch]
  IN  IF n > 999 THEN Fail(q)
      ELSE [q EXCEPT !.version[i] = n, !.state = IF i = 1 THEN "major" ELSE "minor"]

Version(q, ch) ==
  LET num == ch \in DOMAIN Digits
  IN  CASE q.state = "http_start" /\ ch = "SP" -> q
        [] q.state = "http_start" /\ ch # "SP" -> Expect(q, ch = "HT", "http_HT")
        [] q.state = "http_HT" -> Expect(q, ch = "TP/", "first_major")
        [] q.state = "first_major" /\ num /\ ch # "0" -> Digit(q, 1, ch, TRUE)
        [] q.state = "major" /\ ch = "." -> Go(q, "first_minor")
        [] q.state = "major" /\ num -> Digit(q, 1, ch, FALSE)
        [] q.state = "first_minor" /\ num -> Digit(q, 2, ch, TRUE)
        [] q.state = "minor" /\ ch = "CR" -> Go(q, "line_almost_done")
        [] q.state = "minor" /\ ch = "LF" -> Go(q, "field_start")
        [] q.state = "minor" /\ num -> Digit(q, 2, ch, FALSE)
        [] q.state = "line_almost_done" -> Expect(q, ch = "LF", "field_start")
        [] OTHER -> Fail(q)

(* The end of the headers stops the parser before the last line feed: that *)
(* atom is fed again, to HeadersDone.  The end of a trailer is the end of  *)
(* the message.                                                            *)
HeadersAlmostDone(q, ch) ==
  CASE ch # "LF" -> Fail(q)
    [] ch = "LF" /\ "trailing" \in q.flags -> MessageComplete(q)
    [] OTHER -> [Flush(q) EXCEPT !.state = "headers_done", !.errno = "paused"]

HeadersDone(q, ch) ==
  LET r == [q EXCEPT !.nread = 0]
  IN  IF ch # "LF" THEN Fail(q)
      ELSE IF "upgrade" \in r.flags \/ r.method = <<"C", "ONNECT">> THEN MessageComplete(r)
      ELSE IF "chunked" \in r.flags THEN Go(r, "chunk_size_start")
      ELSE IF r.len \in {0, MaxLength} THEN MessageComplete(r)
      ELSE Go(r, "body_identity")

FieldStart(q, ch) ==
  CASE ch = "CR" -> Go(q, "headers_almost_done")
    [] ch = "LF" -> HeadersAlmostDone(q, ch)
    [] ch \in Delimiters \ {"CR", "LF"} -> Fail(q)
    [] OTHER -> [OnHeaderField(q, ch) EXCEPT !.word = <<ch>>, !.state = "field"]

(* header_state at the end of a name: which of the names it is, as a whole *)
HeaderState(word) ==
  CASE word = <<"content-", "length">> -> "content_length"
    [] word = <<"transfer-", "encoding">> -> "transfer_encoding"
    [] word = <<"up", "grade">> -> "upgrade"
    [] OTHER -> "general"

Field(q, ch) ==
  LET named == [q EXCEPT !.hs = HeaderState(q.word)]
  IN  CASE ch = ":" -> Go(named, "value_discard_ws")
        [] ch = "CR" -> Go(named, "header_almost_done")
        [] ch = "LF" -> Go(named, "field_start")
        [] ch \in Delimiters \ {":", "CR", "LF"} -> Fail(q)
        [] OTHER -> [OnHeaderField(q, ch) EXCEPT !.word = Append(@, ch)]

ValueStart(q, ch) ==
  LET r == [q EXCEPT !.state = "value", !.value = Append(@, ch), !.hs = "general"]
  IN  CASE q.hs = "upgrade" -> [r EXCEPT !.flags = @ \union {"upgrade"}]
        [] q.hs = "transfer_encoding" /\ ch = "chun" -> [r EXCEPT !.hs = "matching_chunked"]
        [] q.hs = "content_length" /\ ch \notin DOMAIN Digits -> Fail(q)
        [] q.hs = "content_length" /\ ch \in DOMAIN Digits ->
             [r EXCEPT !.hs = q.hs, !.len = Digits[ch]]
        [] OTHER -> r

(* Mutation: the guard against overflow is dropped.                        *)
BugLengthen(q, b, ch) == [q EXCEPT !.len = (b * @ + Digits[ch]) % (MaxLength + 1)]

(* One more digit of a length in base b: no wrap of the unsigned value.    *)
Lengthen(q, b, ch) ==
  IF (MaxLength - b) \div b < q.len THEN Fail(q)
  ELSE [q EXCEPT !.len = (b * @ + Digits[ch]) % (MaxLength + 1)]

Value(q, ch) ==
  LET r == [q EXCEPT !.value = Append(@, ch)]
  IN  CASE ch = "CR" -> Go(q, "header_almost_done")
        [] ch = "LF" -> Go(q, "value_lws")
        [] q.hs = "content_length" /\ ch = "SP" -> r
        [] q.hs = "content_length" /\ ch \in DOMAIN Digits -> Lengthen(r, 10, ch)
        [] q.hs = "content_length" /\ ch \notin DOMAIN Digits \union {"SP", "CR", "LF"} -> Fail(q)
        [] q.hs = "matching_chunked" /\ ch = "ked" -> [r EXCEPT !.hs = "chunked"]
        [] q.hs = "chunked" /\ ch = "SP" -> r
        [] OTHER -> [r EXCEPT !.hs = "general"]

(* After the end of a line: a folded line continues the value.             *)
ValueLws(q, ch) ==
  IF ch \in {"SP", "TAB"} THEN ValueStart(q, ch)
  ELSE FieldStart([q EXCEPT !.flags = IF q.hs = "chunked" THEN @ \union {"chunked"} ELSE @], ch)

DiscardWs(q, ch) ==
  CASE ch \in {"SP", "TAB"} -> q
    [] ch = "CR" -> Go(q, "value_discard_ws_almost_done")
    [] ch = "LF" -> Go(q, "value_discard_lws")
    [] OTHER -> ValueStart(q, ch)

DiscardLws(q, ch) ==
  IF ch \in {"SP", "TAB"} THEN Go(q, "value_discard_ws") ELSE FieldStart(q, ch)

BodyIdentity(q, ch) ==
  LET r == [q EXCEPT !.len = @ - 1, !.body = Append(@, ch)]
  IN  IF r.len = 0 THEN MessageComplete(r) ELSE r

ChunkSize(q, ch) ==
  CASE q.state = "chunk_size_start" /\ ch \in DOMAIN Digits ->
         [q EXCEPT !.len = Digits[ch], !.state = "chunk_size"]
    [] q.state = "chunk_size" /\ ch = "CR" -> Go(q, "chunk_size_almost_done")
    [] q.state = "chunk_size" /\ ch \in DOMAIN Digits -> Lengthen(q, 16, ch)
    [] q.state = "chunk_size" /\ ch \in {";", "SP"} -> Go(q, "chunk_parameters")
    [] q.state = "chunk_parameters" ->
         IF ch = "CR" THEN Go(q, "chunk_size_almost_done") ELSE q
    [] q.state = "chunk_size_almost_done" /\ ch = "LF" ->
         IF q.len = 0
         THEN [q EXCEPT !.nread = 0, !.flags = @ \union {"trailing"}, !.state = "field_start"]
         ELSE [q EXCEPT !.nread = 0, !.state = "chunk_data"]
    [] OTHER -> Fail(q)

ChunkData(q, ch) ==
  CASE q.state = "chunk_data" ->
         [q EXCEPT !.len = @ - 1, !.body = Append(@, ch),
                   !.state = IF q.len = 1 THEN "chunk_data_almost_done" ELSE @]
    [] q.state = "chunk_data_almost_done" -> Expect(q, ch = "CR", "chunk_data_done")
    [] q.state = "chunk_data_done" /\ ch = "LF" ->
         [q EXCEPT !.nread = 0, !.state = "chunk_size_start"]
    [] OTHER -> Fail(q)

Step(q, ch) ==
  CASE q.state = "start_req" -> StartReq(q, ch)
    [] q.state = "method" -> Method(q, ch)
    [] q.state \in {"spaces_before_url"} \union UrlUnfinished \union UrlFinished -> Url(q, ch)
    [] q.state = "field_start" -> FieldStart(q, ch)
    [] q.state = "field" -> Field(q, ch)
    [] q.state = "value_discard_ws" -> DiscardWs(q, ch)
    [] q.state = "value_discard_ws_almost_done" -> Expect(q, ch = "LF", "value_discard_lws")
    [] q.state = "value_discard_lws" -> DiscardLws(q, ch)
    [] q.state = "value" -> Value(q, ch)
    [] q.state = "header_almost_done" -> Expect(q, ch = "LF", "value_lws")
    [] q.state = "value_lws" -> ValueLws(q, ch)
    [] q.state = "headers_almost_done" -> HeadersAlmostDone(q, ch)
    [] q.state = "headers_done" -> HeadersDone(q, ch)
    [] q.state = "body_identity" -> BodyIdentity(q, ch)
    [] q.state \in {"chunk_size_start", "chunk_size", "chunk_parameters",
                    "chunk_size_almost_done"} -> ChunkSize(q, ch)
    [] q.state \in {"chunk_data", "chunk_data_almost_done", "chunk_data_done"} ->
         ChunkData(q, ch)
    [] OTHER -> Version(q, ch)

(* One turn of the loop of http_parser_execute(), with the limit on what   *)
(* counts as header (every state before s_chunk_data).                     *)
ParsingHeader(s) ==
  s \notin {"chunk_data", "chunk_data_almost_done", "chunk_data_done", "body_identity"}
Feed(run, ch) ==
  IF run.q.errno # "ok" THEN run
  ELSE LET r == [run.q EXCEPT !.nread = IF ParsingHeader(run.q.state) THEN @ + 1 ELSE @]
           s == IF r.nread > MaxHeader THEN Fail(r) ELSE Step(r, ch)
           stays == s.errno = "bad" \/ s.state = "headers_done"
       IN  [q |-> s, used |-> IF stays THEN run.used ELSE run.used + 1]

(* The parser after a call of http_parser_execute(), and what it returns.  *)
Execute(q, data) == FoldLeft(Feed, [q |-> q, used |-> 0], data)

Unpaused(q) == IF q.errno = "paused" THEN [q EXCEPT !.errno = "ok"] ELSE q

(* Mutation: what follows the headers in their read is dropped.            *)
BugParseOnce(q, data) == Unpaused(Execute(q, data).q)

(* RequestParser::parse(): unpause, and run once more over what is left    *)
(* after the headers; the error of that second run is not looked at.       *)
Parse(q, data) ==
  LET r == Execute(q, data)
      rest == SubSeq(data, r.used + 1, Len(data))
      again == rest # <<>> /\ r.q.errno = "paused" /\ ~r.q.complete
  IN  IF again THEN Execute(Unpaused(r.q), rest).q ELSE Unpaused(r.q)
Verdict(q, data) ==
  LET r == Execute(q, data)
  IN  IF r.used < Len(data) /\ r.q.errno # "paused" THEN "false"
      ELSE IF Parse(q, data).complete THEN "true" ELSE "indeterminate"

-----------------------------------------------------------------------------
(* is_complete_ is not initialised: the first value is any.                *)
Init ==
  /\ sent \in Messages
  /\ \/ intact = TRUE /\ stream = Serialized(sent)
     \/ /\ sent \in Garbled /\ intact = FALSE
        /\ \E i \in DOMAIN Serialized(sent), x \in Noise :
             /\ Serialized(sent)[i] # x
             /\ stream = [Serialized(sent) EXCEPT ![i] = x]
  /\ pos = 0
  /\ \E b \in BOOLEAN : p = Fresh(b)
  /\ verdict = "indeterminate"

(* Connection::handle_read with n more atoms; it reads on for as long as   *)
(* parse() does not know.                                                  *)
HandleRead(n) ==
  LET data == SubSeq(stream, pos + 1, pos + n)
  IN  /\ verdict = "indeterminate"
      /\ pos + n <= Len(stream)
      /\ pos' = pos + n
      /\ p' = Parse(p, data)
      /\ verdict' = Verdict(p, data)
      /\ UNCHANGED <<sent, intact, stream>>

Next == \E n \in 1..MaxRead \union {Len(stream) - pos} : n > 0 /\ HandleRead(n)
Spec == Init /\ [][Next]_vars

-----------------------------------------------------------------------------
(* What a well-formed message is.  Header names and values keep the        *)
(* delimiters out that end them, a length is a number and chunked the only *)
(* transfer encoding there is.                                             *)
IsHeader(h) ==
  /\ h \in Seq(Atoms \ Delimiters) \X Seq((Atoms \ {"CR", "LF"}) \union {"fold"})
  /\ h[1] # <<>>
  /\ h[2] # <<>> => h[2][1] \notin {"SP", "TAB", "fold"}
  /\ h[1] = <<"content-", "length">> => h[2] # <<>> /\ Range(h[2]) \subseteq DOMAIN Digits
  /\ h[1] = <<"transfer-", "encoding">> => h[2] = <<"chun", "ked">>

(* The url is one that parse_url_char() takes.                             *)
IsUrl(method, url) ==
  FoldLeft(ParseUrlChar, IF method = <<"C", "ONNECT">> THEN "server_start" ELSE "spaces_before_url",
           url) \in UrlFinished

IsVersion(v) ==
  /\ v[1] # "0"
  /\ \E dot \in 2..4 :
       /\ Len(v) - dot \in 1..3 /\ v[dot] = "."
       /\ \A i \in DOMAIN v \ {dot} : v[i] \in DOMAIN Digits

(* No header takes the place of one before it that says something else:    *)
(* one of the same name, or whose name is glued to that of an empty header *)
(* before it.                                                              *)
NoneReplaced(hs) ==
  \A i, k \in DOMAIN hs :
    LET name == hs[i][1]
        later == hs[k][1]
    IN  i < k /\ hs[i][2] # <<>> /\ hs[k][2] # <<>> =>
          /\ name = later => hs[i][2] = hs[k][2]
          /\ hs[k - 1][2] = <<>> /\ Len(later) < Len(name) =>
               later # SubSeq(name, Len(name) - Len(later) + 1, Len(name))

Named(m, name) == {i \in DOMAIN m.headers : m.headers[i][1] = name}
HeaderOnly(m) ==
  \/ m.method = <<"C", "ONNECT">>
  \/ \E i \in Named(m, <<"up", "grade">>) : m.headers[i][2] # <<>>
Number(v) == FoldLeft(LAMBDA n, d : 10 * n + Digits[d], 0, v)

(* The body is cut into chunks, is as long as the header says, or is not   *)
(* there.  Of a long one that nothing follows m may hold the start only.   *)
IsFramed(m) ==
  IF m.chunks # <<>>
  THEN /\ Named(m, <<"transfer-", "encoding">>) # {} /\ ~HeaderOnly(m)
       /\ \A i \in DOMAIN m.chunks : Len(m.chunks[i]) \in 1..2
       /\ m.body = FlattenSeq(m.chunks)
  ELSE /\ Named(m, <<"transfer-", "encoding">>) = {}
       /\ IF HeaderOnly(m) \/ Named(m, <<"content-", "length">>) = {} THEN m.body = <<>>
          ELSE \A i \in Named(m, <<"content-", "length">>) :
                 LET v == m.headers[i][2]
                 IN  \/ Len(m.body) = Number(v)
                     \/ (Len(m.body) < Number(v) /\ Len(v) > 1 /\ m.next = <<>>)

WellFormed(m) ==
  /\ m.lead \in Seq({"CR", "LF"}) /\ m.method \in Methods
  /\ m.url \in Seq(Atoms) /\ IsUrl(m.method, m.url)
  /\ m.version \in Seq(Atoms) /\ (m.version # <<>> => IsVersion(m.version))
  /\ m.headers \in Seq(Range(m.headers)) /\ \A i \in DOMAIN m.headers : IsHeader(m.headers[i])
  /\ m.trailers \in Seq(Range(m.trailers))
  /\ \A i \in DOMAIN m.trailers :
       IsHeader(m.trailers[i]) /\ HeaderState(m.trailers[i][1]) = "general"
  /\ NoneReplaced(m.headers \o m.trailers)
  /\ m.body \in Seq(Atoms) /\ m.chunks \in Seq(Seq(Atoms)) /\ m.next \in Seq(Atoms)
  /\ IsFramed(m)

ASSUME WellFormedAssumption == \A m \in Messages : WellFormed(m)

(* What a client may count on: the limits are kept, and no header follows  *)
(* one without a value, whose name would be put before its own.            *)
WithinLimits(m) ==
  /\ Len(HeadOf(m)) + 1 <= MaxHeader /\ Len(Lines(m.trailers)) + 2 <= MaxHeader
  /\ \A i \in DOMAIN m.headers :
       m.headers[i][1] = <<"content-", "length">> => Len(m.headers[i][2]) = 1
Delivered(m) ==
  {<<m.headers[i][1], Folded(m.headers[i][2], <<"SP">>)>> :
     i \in {j \in DOMAIN m.headers : /\ m.headers[j][2] # <<>>
                                     /\ j = 1 \/ m.headers[j - 1][2] # <<>>}}

(* The request a handler gets is the one the client sent: method, url,     *)
(* headers and body, wherever the reads were cut.  It is given out when    *)
(* the message is whole, and no message within the limits is refused.      *)
(* (Unless a read ended in the empty lines before the request: then        *)
(* is_complete_ says what the memory held.)                                *)
ParsesWhatWasSent ==
  intact /\ p.method # <<>> =>
    /\ verdict = "true" =>
         /\ p.method = sent.method /\ p.url = sent.url /\ p.body = sent.body
         /\ Delivered(sent) \subseteq p.headers
         /\ pos >= Len(Serialized(sent)) - Len(sent.next)
    /\ WithinLimits(sent) => verdict # "false"
    /\ WithinLimits(sent) /\ pos = Len(stream) => verdict = "true"

(* The same stream read one atom at a time.                                *)
ReadAtom(run, ch) ==
  IF run.verdict # "indeterminate" THEN run
  ELSE [p |-> Parse(run.p, <<ch>>), verdict |-> Verdict(run.p, <<ch>>)]
OneByOne(complete, n) ==
  FoldLeft(ReadAtom, [p |-> Fresh(complete), verdict |-> "indeterminate"], SubSeq(stream, 1, n))
Content(q) == <<q.method, q.url, q.version, q.headers, q.body>>

(* The cut of the reads makes no difference, for what is not a request     *)
(* either: what is accepted or refused is so byte by byte too, with the    *)
(* same content, and nothing is left undecided but an error behind the     *)
(* headers in the read that ends them, which the next read reports.        *)
CutIsImmaterial ==
  p.method # <<>> =>
    LET r == OneByOne(FALSE, pos)
    IN  /\ verdict = "true" => r.verdict = "true" /\ Content(r.p) = Content(p)
        /\ verdict = "false" => r.verdict = "false"
        /\ verdict = "indeterminate" => \/ r.verdict = "indeterminate"
                                        \/ r.verdict = "false" /\ p.errno = "bad"

=============================================================================
