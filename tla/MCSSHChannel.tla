---------------------------- MODULE MCSSHChannel ----------------------------
(***************************************************************************)
(* Clients that open a terminal and a shell, that run two commands, that end *)
(* with an exit-status, or that send a request no behaviour is for; servers   *)
(* that refuse by default, that redirect, or that do neither.                *)
(***************************************************************************)
EXTENDS SSHChannel

Clients == {<<"pty", "shell">>, <<"exec", "exec">>, <<"exec", "exit-status">>,
            <<"env", "window">>}

Servers == {{"refuse", "exec"}, {"redirect", "refuse", "shell"},
            {"pty", "shell", "window", "exec"}}
============================================================================
