--------------------------- MODULE MCHttpServer ---------------------------
(***************************************************************************)
(* Instances of HttpServer for TLC.                                        *)
(***************************************************************************)
EXTENDS HttpServer, TLC

CONSTANTS c1, c2, c3

MCFiles == "/index.html" :> "html" @@ "/logo.svg" :> "svg" @@ "/notes" :> "none"

Posted == <<Line("POST", "/get-devices"), Header(1), Header(NotANumber), EndOfHeaders, Byte>>
Invalid == <<BadLine>>
Colonless == <<Line("GET", "/"), NoColon>>
TooLong == <<Line("GET", "/logo.svg"), Header(10), EndOfHeaders>>

\* Malformed requests with a well-formed one, and requests that panic both workers.
MCRequests ==
    {c1 :> Posted @@ c2 :> Invalid @@ c3 :> Invalid,
     c1 :> Colonless @@ c2 :> Invalid @@ c3 :> Invalid,
     c1 :> TooLong @@ c2 :> TooLong @@ c3 :> Invalid}
=============================================================================
