--------------------------- MODULE MCPayloadRack ---------------------------
(* Two callers of Load with different payloads against two of Release.      *)
EXTENDS PayloadRack
============================================================================
