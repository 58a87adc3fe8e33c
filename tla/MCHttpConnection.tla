------------------------- MODULE MCHttpConnection -------------------------
(* HttpConnection with the requests a browser or a script may send: both   *)
(* versions, with and without the Connection header.                       *)
EXTENDS HttpConnection

Plain == {<<"http11">>, <<"http11", "plain">>}
Usual == Plain \cup {<<"http11", "keep", "plain">>, <<"http11", "plain", "close">>,
                     <<"http10", "keep">>, <<"http10", "plain">>}
Unusual == Usual \cup {<<"http11", "keep", "tight">>, <<"http10", "keep", "close">>}
TightOnes == Plain \cup {<<"http11", "tight", "plain">>}
============================================================================
