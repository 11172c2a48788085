------------------------------- MODULE MCHttp -------------------------------
(***************************************************************************)
(* What carries the blog's messages: the exchange of requests and          *)
(* responses, the server that accepts connections, the texts of URIs and   *)
(* the byte arrays, each for itself: in a behaviour one of them moves and  *)
(* the others rest in their first states.                                  *)
(***************************************************************************)
EXTENDS HttpExchange, TcpServer, UrlTexts, ByteArrays

CONSTANT Parts
VARIABLE part

Req(method, query, body, close, chunked) ==
  [method |-> method, path |-> <<"/", "a">>, query |-> query,
   version |-> IF chunked THEN <<1, 1>> ELSE <<1, Len(body) % 2>>,
   headers |-> (<<"Host">> :> <<"h">>) @@ (<<"X">> :> query), body |-> body,
   close |-> close, chunked |-> chunked]
MCRequests ==
  {Req("GET", <<"b">>, <<>>, FALSE, FALSE), Req("GET", <<>>, <<>>, TRUE, FALSE),
   Req("POST", <<>>, <<"x", "y", "z">>, FALSE, FALSE),
   Req("POST", <<"b">>, <<"x", "y", "z">>, FALSE, TRUE)}
MCBodies == {<<>>, <<"r", "s">>}
MCSymbols == {"x", "a", "8", "0", "/", ":", "?", "#", "@", "[", "]"}
MCBeginnings == {<<>>, <<"http", ":", "/", "/", "[">>, <<"http", ":", "/", "/">>, <<"wss", ":", "/", "/">>,
                 <<"http", ":", "/", "/", "x", ":">>}
MCCodeSymbols == {"x", "8", "&", "=", "%", "+", "SP"}
MCOctet == ("x" :> 255) @@ ("8" :> 0) @@ ("&" :> 1) @@ ("=" :> 128) @@ ("%" :> 63)
             @@ ("+" :> 192) @@ ("SP" :> 90)
MCData == {<<>>, <<1>>, <<0, 3, 2>>}

\* The messages of a run are read as they were written, unless a read may end in a name.
ASSUME MessagesAssumption == ~SplitAnywhere => ReadAsWritten

MessagesInit ==
  /\ part \in Parts
  /\ HttpInit /\ TcpInit /\ UrlsInit /\ ArraysInit
  /\ part # "urls" => text = <<>>
MessagesNext ==
  /\ \/ part = "http" /\ HttpNext /\ UNCHANGED <<tcpVars, urlVars, arrayVars>>
     \/ part = "tcp" /\ TcpNext /\ UNCHANGED <<httpVars, urlVars, arrayVars>>
     \/ part = "urls" /\ UrlsNext /\ UNCHANGED <<httpVars, tcpVars, arrayVars>>
     \/ part = "bytes" /\ ArraysNext /\ UNCHANGED <<httpVars, tcpVars, urlVars>>
  /\ UNCHANGED part
MessagesSpec ==
  /\ MessagesInit /\ [][MessagesNext]_<<part, httpVars, tcpVars, urlVars, arrayVars>>
  /\ HttpFairness /\ TcpFairness
=============================================================================
