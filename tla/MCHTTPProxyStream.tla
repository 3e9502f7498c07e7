------------------------- MODULE MCHTTPProxyStream -------------------------
(***************************************************************************)
(* One call of CloseSrc and one of CloseDest at once, and any number of      *)
(* them, one after the other; one chunk from src of a TCP stream, one        *)
(* exchange of an HTTP or HTTPS stream.                                      *)
(***************************************************************************)
EXTENDS HTTPProxyStream

FromSrc == [c \in Conns |-> IF c = "src" THEN 1 ELSE 0]
OneEach == [c \in Conns |-> 1]
============================================================================
