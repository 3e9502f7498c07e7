-------------------------- MODULE MCSessionManager --------------------------
(***************************************************************************)
(* Three sessions for two addresses, a proxied channel that takes and closes  *)
(* sessions, and two destroyers: two of one address, or one of each, with    *)
(* sessions stored before, between and after their steps.                    *)
(***************************************************************************)
EXTENDS SessionManager

CONSTANTS a1, a2, s1, s2, s3, g1, g2, p1
============================================================================
