-------------------------- MODULE MCRouteDispatch --------------------------
(***************************************************************************)
(* The tree  io / session / exec  of an SSH service, a second child of io    *)
(* that accepts every segment, and a route made with InvertRoute that takes  *)
(* what io rejects.  One path matches down to the leaf and is longer than    *)
(* the branch of the second child; one is shorter than the tree and rejected *)
(* below the root; one is rejected at the root and diverted.                 *)
(***************************************************************************)
EXTENDS RouteDispatch, TLC

CONSTANTS rIo, rSession, rExec, rAny, rAlt,
          q1, q2, q3, h1

Tree == rSession :> rIo @@ rExec :> rSession @@ rAny :> rIo @@ rAlt :> rIo

Patterns ==
    rIo :> {"io"} @@ rSession :> {"session"} @@ rExec :> {"exec"}
    @@ rAny :> {"io", "session", "exec", "other"} @@ rAlt :> {"other"}

Paths ==
    q1 :> <<"io", "session", "exec">> @@ q2 :> <<"io">>
    @@ q3 :> <<"other", "session">>

NoHandlers == [r \in Routes |-> None]
============================================================================
