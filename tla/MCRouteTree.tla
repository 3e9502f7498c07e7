---------------------------- MODULE MCRouteTree ----------------------------
(***************************************************************************)
(* One goroutine makes two routes under one name, the way setupServer does;  *)
(* the other makes a route under the same name, so that the two may meet on  *)
(* it or not, and one under a name of its own.                               *)
(***************************************************************************)
EXTENDS RouteTree, TLC

CONSTANTS m1, m2, session, exec, env, status

SetupJobs ==
    m1 :> <<<<session, exec>>, <<session, env>>>>
    @@ m2 :> <<<<status, exec>>, <<session, env>>>>

Searches == {<<session, exec>>, <<session, env>>, <<status>>}
============================================================================
