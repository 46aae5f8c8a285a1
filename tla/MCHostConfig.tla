---------------------------- MODULE MCHostConfig ----------------------------
EXTENDS HostConfig

Body == [title |-> <<"task">>, argv |-> None, shell |-> None, tags |-> {}, record |-> 0]

\* New launches: with the provider's command, an argv, a shell line, tags, an empty title
\* or two commands.
NewLaunches ==
    {Body, [Body EXCEPT !.argv = <<"argv">>], [Body EXCEPT !.shell = <<"shell">>, !.tags = {"tag"}],
     [Body EXCEPT !.title = <<"">>], [Body EXCEPT !.argv = <<"argv">>, !.shell = <<"shell">>]}

\* A record that is launched again as it was, or under another title.
Again == {[Body EXCEPT !.title = t, !.record = id] : t \in {None, <<"other">>}, id \in 1..2}

\* A record that is launched again with another command.
AgainWith == {[Body EXCEPT !.argv = <<"argv">>, !.record = 1], [Body EXCEPT !.shell = <<"shell">>, !.record = 1]}

MCBodies == NewLaunches \cup Again
MCBodiesOverride == MCBodies \cup AgainWith
=============================================================================
