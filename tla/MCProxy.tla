------------------------------ MODULE MCProxy -------------------------------
(* Model-checking instances of Proxy.                                        *)
EXTENDS Proxy

\* A chunked event stream, and an upstream failure with a Content-Length.
MCResponses ==
    {[status |-> 200, sse |-> TRUE, framed |-> FALSE, size |-> 1],
     [status |-> 500, sse |-> FALSE, framed |-> TRUE, size |-> 1]}
=============================================================================
