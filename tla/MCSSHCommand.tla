---------------------------- MODULE MCSSHCommand ----------------------------
(***************************************************************************)
(* Two users, of lines that run whole (5 and 251 bytes), that make the end   *)
(* wrap below 4 (252) and that are cut (260); a link that is dialled twice.  *)
(***************************************************************************)
EXTENDS SSHCommand

CONSTANTS u1, u2
============================================================================
