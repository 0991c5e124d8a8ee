--------------------------- MODULE MCQkSubrequest ---------------------------
(* Instances of QkSubrequest for TLC. *)
EXTENDS QkSubrequest

Req(t, k, s) == [type |-> t, keys |-> k, slots |-> s]

SmallBatches == {Req("MGET", 0, 2), Req("MGET", 0, 4), Req("MSET", 0, 3), Req("ZADD", 1, 2),
                 Req("ZBATCHADD", 2, 2), Req("ZRANGE", 1, 0), Req("BATCHZRANGE", 2, 0)}
=============================================================================
