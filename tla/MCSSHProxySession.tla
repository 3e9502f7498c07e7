------------------------- MODULE MCSSHProxySession -------------------------
(***************************************************************************)
(* A client that asks for one channel, since the manager never takes         *)
(* another; one request of each side at a time waits to be relayed.          *)
(***************************************************************************)
EXTENDS SSHProxySession

CONSTANTS k1
============================================================================
