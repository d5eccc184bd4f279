---------------------------- MODULE MCHttpServer ----------------------------
(* One client with messages around every limit and parse error, and        *)
(* another that shares the server with it.                                 *)
EXTENDS HttpServer

CONSTANTS c1, c2

\* The only bodies that are a request; everything else is no JSON.
MCJudge(posted) == IF posted = <<"x", "y">> THEN "settled"
                   ELSE IF posted = <<"x">> THEN "rejected"
                   ELSE "unreadable"

M(head, route, length, rest) == [head |-> head, route |-> route, length |-> length,
                                 body |-> rest]
Line == <<"l">>
Two  == <<"l", Crlf, "l">>

AnyMessage ==
    {M(Line, "POST /api/verify", n, <<"x", "y">>) : n \in 0..4}
    \cup {M(Two, "POST /api/verify", n, <<"x", "y", Crlf, Crlf>>) : n \in {1, 2, 4}}
    \cup {M(Line, route, 0, <<>>) :
            route \in {"GET /", "OPTIONS /api/verify", "GET /nowhere", Unreadable}}
    \cup {M(Two, "GET /api/sample", Unreadable, <<>>), M(<<>>, Unreadable, 0, <<>>)}
    \cup {M([k \in 1..n |-> "l"], "GET /", 0, <<>>) : n \in 3..6}
MCUnits    == {"l", "x", "y", Crlf}
MCClients  == {c1, c2}
MCMessages ==
    [c \in MCClients |->
        IF c = c1 THEN AnyMessage
        ELSE {M(Line, "POST /api/verify", 1, <<"x">>), M(Line, "GET /", 0, <<>>)}]
=============================================================================
