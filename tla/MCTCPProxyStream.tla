-------------------------- MODULE MCTCPProxyStream --------------------------
(***************************************************************************)
(* One call of CloseSrc and one of CloseDest at once; one chunk each way.    *)
(***************************************************************************)
EXTENDS TCPProxyStream

OneEach == [c \in Conns |-> 1]
============================================================================
