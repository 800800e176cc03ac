------------------------------ MODULE MCZEvent ------------------------------
\* Two threads, an auto-reset event "a" and a manual-reset event "m".
EXTENDS ZEvent, TLC

\* A thread waits for "a", or for "a" and "m" as select and poll do.
Lists == {<<"a">>, <<"a", "m">>}
=============================================================================
