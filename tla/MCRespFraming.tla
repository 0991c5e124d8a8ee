--------------------------- MODULE MCRespFraming ---------------------------
EXTENDS RespFraming

MCValues == {<<>>, [i \in 1 .. 10 |-> IF i < 3 THEN "3" ELSE "a"]}
MCTails == {<<>>, <<"-", "1">>, <<"3">>}
=============================================================================
