----------------------------- MODULE MCSettings -----------------------------
EXTENDS Settings

Cfg(entries, token) == [entries |-> entries, token |-> token]

\* A build that knows one node; a token typed in; and a link with another first entry point.
Built == Cfg(<<"n1">>, "none")
Typed == {Cfg(<<"n1">>, "t1")}
Linked == {Cfg(<<"n2", "n1">>, "t1")}
Published == {<<>>, <<"n1", "n2">>}

B(edits, disk, crashes, net, asks) ==
    [edits |-> edits, disk |-> disk, crashes |-> crashes, network |-> net, asks |-> asks]

\* Two edits beside a request and a change of the network; an edit with a failing disk and a
\* crash; two failures of the network.
Small == {B(2, 0, 0, 1, 1), B(2, 1, 1, 0, 0), B(1, 0, 0, 2, 1)}
=============================================================================
