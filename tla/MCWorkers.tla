----------------------------- MODULE MCWorkers -----------------------------
(* Instances of Workers for TLC. *)
EXTENDS Workers

Conf(n, mutex) == [n |-> n, mutex |-> mutex]

\* Two workers that share the accept mutex, then one that does not need it.
Shrinks == {<<Conf(2, TRUE), Conf(1, TRUE)>>}

\* One order of an administrator, or a reload that may still be under way when the second
\* one comes.
ReloadOrEnd == {<<"HUP">>, <<"QUIT">>, <<"TERM">>}
ReloadThenQuit == {<<"HUP", "QUIT">>, <<"TERM">>}
=============================================================================
