----------------------------- MODULE MCEnvironment ----------------------------
(* Environment with two shells, whose profiles change, and two workspaces. *)
EXTENDS Environment

MCShellEnvs ==
    [bash |-> <<[PATH |-> <<"bash 1">>, SHLVL |-> <<"1">>], [PATH |-> <<"bash 2">>, A |-> <<"profile">>]>>,
     zsh |-> <<[PATH |-> <<"zsh">>, PWD |-> <<"dir">>]>>]

MCDaemonEnv == [SHELL |-> <<"bash">>, HOME |-> <<"home">>, A |-> <<"daemon">>]

MCHosts == {[shell |-> None, import |-> TRUE, allowlist |-> {"A", "B"}],
            [shell |-> <<"zsh">>, import |-> FALSE, allowlist |-> {"A"}]}

Text(t) == [ref |-> FALSE, text |-> t]
Ref(k) == [ref |-> TRUE, text |-> k]
Line(k, quote, parts) == [valid |-> TRUE, key |-> k, quote |-> quote, parts |-> parts]
Comment == [valid |-> FALSE, key |-> "A", quote |-> "none", parts |-> <<Text("#")>>]

\* A search path that is extended twice, a value that refers to a line before and to one
\* of the other file, a reference in quotes, a comment.
Template == <<Line("PATH", "none", <<Text("bin:"), Ref("PATH")>>), Comment, Line("A", "single", <<Ref("PATH")>>)>>
Local == <<Line("B", "double", <<Ref("A"), Ref("C")>>), Line("PATH", "none", <<Text("opt:"), Ref("PATH")>>),
           Line("A", "none", <<Ref("B"), Text("x")>>)>>

MCWorkspaces ==
    {(".env.in" :> <<Template>>) @@ (".env" :> <<Local>>) @@ ("own.env" :> None),
     (".env.in" :> None) @@ (".env" :> None) @@ ("own.env" :> <<Local>>)}

Request == [kind |-> "pty", mode |-> "bootstrap", file |-> None, overrides |-> Nothing]

\* Every mode, with the files of the workspace, or with a file and a variable of its own; and
\* a log session in shell mode, where it differs from others.
MCRequests ==
    UNION {{[Request EXCEPT !.mode = mode],
            [Request EXCEPT !.mode = mode, !.file = <<"own.env">>, !.overrides = [A |-> <<"session">>]]} :
           mode \in {"clean", "shell", "bootstrap"}}
    \cup {[Request EXCEPT !.kind = "log", !.mode = "shell"]}
===============================================================================
