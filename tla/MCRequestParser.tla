-------------------------- MODULE MCRequestParser --------------------------
(* Requests that go through every state of the automaton but the ends of   *)
(* line without CR, which garbling brings.                                 *)
EXTENDS RequestParser

MCAtoms == Delimiters \union DOMAIN Digits \union
  {".", "HT", "TP/", "a", "b", "G", "ET", "P", "OST", "UT", "C", "ONNECT", "content-", "length",
   "transfer-", "encoding", "up", "grade", "chun", "ked"}
V11 == <<"1", ".", "1">>
Plain(method, url, headers, body) ==
  [lead |-> <<>>, method |-> method, url |-> url, version |-> V11, headers |-> headers,
   body |-> body, chunks |-> <<>>, trailers |-> <<>>, next |-> <<>>]
Get == Plain(<<"G", "ET">>, <<"/">>, <<>>, <<>>)
A == <<<<"a", "b">>, <<"a">>>>
Empty == <<<<"b">>, <<>>>>
B == <<<<"b">>, <<"b", "SP", "1">>>>
LongValue == <<<<"a">>, <<"a", "fold", "b">>>>
Upgrade == <<<<"up", "grade">>, <<"a">>>>
Chunked == <<<<"transfer-", "encoding">>, <<"chun", "ked">>>>
Length(n) == <<<<"content-", "length">>, n>>
Post(n, body) == Plain(<<"P", "OST">>, <<"/", "a">>, <<Length(n), A>>, body)
ChunkedPost == [Plain(<<"P", "OST">>, <<"/">>, <<Chunked>>, <<"1", "a", "LF">>)
                  EXCEPT !.chunks = <<<<"1">>, <<"a", "LF">>>>]

MCGarbled == {Post(<<"2">>, <<"CR", "LF">>), ChunkedPost,
              Plain(<<"P", "UT">>, <<"a", ":", "/", "/", "a", "@", "b", "/", "?", "a", "#", "b">>,
                    <<>>, <<>>)}
MCMessages == MCGarbled \union
  {Get,
   [Get EXCEPT !.lead = CRLF, !.next = <<"G", "ET">>],
   [Get EXCEPT !.version = <<>>],
   [Get EXCEPT !.version = <<"1", "2", ".", "0", "9">>, !.headers = <<A, B>>],
   [Get EXCEPT !.headers = <<A, Empty, A>>],
   [Get EXCEPT !.headers = <<LongValue, B>>],
   [Get EXCEPT !.headers = <<Upgrade, A>>, !.next = <<"9">>],
   [Get EXCEPT !.headers = <<B, A, LongValue, B, A>>],
   Plain(<<"C", "ONNECT">>, <<"a", ":", "9">>, <<A>>, <<>>),
   [Post(<<"1">>, <<"a">>) EXCEPT !.next = <<"P", "OST">>],
   Post(<<"0">>, <<>>),
   Post(<<"2", "9">>, <<"a", "b", "a", "b">>),  \* the start of a body of 29
   [ChunkedPost EXCEPT !.trailers = <<A, B>>],
   [ChunkedPost EXCEPT !.headers = <<Length(<<"1">>), Chunked, A>>, !.lead = CRLF]}
MCNoise == {"CR", "LF", "SP", ":", "0", "9", "a"}
=============================================================================
