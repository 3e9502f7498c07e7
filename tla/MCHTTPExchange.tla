--------------------------- MODULE MCHTTPExchange ---------------------------
(***************************************************************************)
(* Two listeners; bodies of no, of two and of an unknown number of bytes,    *)
(* with every combination of content types.                                  *)
(***************************************************************************)
EXTENDS HTTPExchange

CONSTANTS l1, l2

Bodies == {-1, 0, 2}
============================================================================
