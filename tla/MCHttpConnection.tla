--------------------------- MODULE MCHttpConnection ---------------------------
(***************************************************************************)
(* Request bodies for TLC: well-framed ones, some at and past each limit,    *)
(* and one in which any byte may have been replaced by any other.            *)
(***************************************************************************)
EXTENDS HttpConnection

OneChunk == <<"2", ";", "r", "n", "r", "n", "r", "n", "0", "r", "n", "x", "r", "n", "r", "n">>

TwoChunks ==
  <<"1", "r", "n", "x", "r", "n", "1", "r", "n", "r", "r", "n", "0", "r", "n", "r", "n">>

\* Past the limits: metadata, payload, trailer count, trailer bytes, size line; and a
\* second request behind the first.
Others ==
  {<<"1", ";", "r", "n", "x", "r", "n", "1", "r", "n", "r", "r", "n", "0", "r", "n", "r", "n">>,
   <<"1", "r", "n", "x", "r", "n", "2", "r", "n", "x", "x", "r", "n", "0", "r", "n", "r", "n">>,
   <<"0", "r", "n", "x", "r", "n", "x", "r", "n", "r", "n">>,
   <<"0", "r", "n", "x", "x", "x", "x", "x", "r", "n", "r", "n">>,
   <<"0", "0", "1", "r", "n", "x", "r", "n", "0", "r", "n", "r", "n">>,
   <<"0", "r", "n", "r", "n", "1", "r", "n">>}

Corrupted(wire) == {[wire EXCEPT ![i] = byte] : i \in DOMAIN wire, byte \in Bytes}

Request(wire, expect, memory) ==
  [head_error |-> 0, chunked |-> TRUE, content_length |-> 0, body |-> wire,
   expect |-> expect, memory |-> memory]

MCRequests ==
  {Request(wire, "none", TRUE) : wire \in Corrupted(OneChunk) \cup Others}
    \cup {Request(TwoChunks, expect, memory) :
            expect \in {"none", "continue", "unsupported"}, memory \in BOOLEAN}
    \cup {[Request(<<"x", "r", "n">>, expect, FALSE) EXCEPT !.chunked = FALSE,
                                                          !.content_length = length] :
            expect \in {"none", "continue", "unsupported"}, length \in 0 .. MaxBodyBytes + 1}
    \cup {[Request(<<>>, "none", FALSE) EXCEPT !.head_error = place] : place \in 1 .. HeadBytes}
=============================================================================
