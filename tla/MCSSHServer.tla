---------------------------- MODULE MCSSHServer ----------------------------
(***************************************************************************)
(* Two clients, of which the first may ask for two channels.                 *)
(***************************************************************************)
EXTENDS SSHServer, TLC

CONSTANTS c1, c2, k1, k2

BothOfFirst == k1 :> c1 @@ k2 :> c1
============================================================================
