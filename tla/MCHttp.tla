------------------------------- MODULE MCHttp -------------------------------
(* Responses for TLC.                                                      *)
EXTENDS Http

R(hdr, body, good) == [hdr |-> hdr, body |-> body, good |-> good]
EOL == <<"CR", "LF">>

\* A body of chunks as RFC 7230 writes it: sz with len bytes, an extension or not
Chunk(sz, ext, data) == sz \o ext \o EOL \o data \o EOL
LastChunk(trailer) == <<"0">> \o EOL \o trailer \o EOL
Chunked(body) == R(<<"line", "chunked", "empty">>, body, TRUE)

Good ==
    {Chunked(LastChunk(<<>>)),
     Chunked(LastChunk(<<"x", "CR", "LF">>)),
     Chunked(Chunk(<<"1">>, <<>>, <<"x">>) \o LastChunk(<<>>)),
     Chunked(Chunk(<<"0", "2">>, <<"x", "1">>, <<"CR", "LF">>) \o LastChunk(<<"1", "LF">>)),
     Chunked(Chunk(<<"2">>, <<>>, <<"CR", "0">>) \o Chunk(<<"1">>, <<>>, <<"LF">>) \o LastChunk(<<>>)),
     Chunked(Chunk(<<"1", "1">>, <<>>, [k \in 1 .. 17 |-> "x"]) \o LastChunk(<<>>)),
     Chunked(Chunk(<<"a">>, <<>>, [k \in 1 .. 10 |-> "0"]) \o LastChunk(<<>>)),
     R(<<"line", "cl2", "empty">>, <<"x", "x">>, TRUE), R(<<"cl0", "close", "empty">>, <<>>, TRUE),
     R(<<"line", "cl0", "cl2", "empty">>, <<"x", "LF">>, TRUE)}

Bad ==
    {R(<<"line", "cl2", "empty">>, <<"x", "x", "x">>, FALSE), R(<<"line", "cl-1", "empty">>, <<>>, FALSE),
     R(<<"cl2", "chunked", "empty">>, <<>>, FALSE), R(<<"chunked", "cl2", "empty">>, <<>>, FALSE),
     R(<<"line", "empty">>, <<"x", "x">>, FALSE), R(<<"empty", "close", "empty">>, <<"x">>, FALSE),
     R(<<"line", "chunked", "empty">>, Chunk(<<"A">>, <<>>, <<"x">>), FALSE)}

Bytes(n) == {R(<<"chunked", "empty">>, b, FALSE) : b \in [1 .. n -> {"0", "1", "CR", "LF", "x"}]}

Short ==
    {R(<<"cl2", "empty">>, <<"x", "x">>, TRUE),
     R(<<"chunked", "empty">>, Chunk(<<"1">>, <<>>, <<"x">>) \o LastChunk(<<>>), TRUE)}

MCResponses ==
    "encoded" :> ("s1" :> Good \cup Bad @@ "s2" :> {})
    @@ "bytes" :> ("s1" :> Bytes(5) @@ "s2" :> {})
    @@ "two" :> ("s1" :> Short @@ "s2" :> Short)

MCMaxResponses == "encoded" :> 1 @@ "bytes" :> 1 @@ "two" :> 3
=============================================================================
