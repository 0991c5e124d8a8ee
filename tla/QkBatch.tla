------------------------------ MODULE QkBatch ------------------------------
(***************************************************************************)
(* QkPackParserImpl: how the plugin splits a batch request into rounds of  *)
(* sub-requests.  Each operator takes the qkpack_request_t it finds to the *)
(* one it leaves, with the code it returns in field rc: "AGAIN" starts the *)
(* sub-requests in subs, anything else answers the client.                 *)
(*                                                                         *)
(* A sub-request is named by what it is for: a key of map_kv or map_query, *)
(* or a slot of map_slots_kv.  Both maps are walked in order, so vector_sub*)
(* always holds a final part of its list and only its length is kept.      *)
(***************************************************************************)
EXTENDS Integers, Sequences

CONSTANTS
    MsetMax,    \* mset_max_count
    BatchAddMax \* batchadd_max_count

ASSUME LimitsAssumption == MsetMax \in Nat \ {0} /\ BatchAddMax \in Nat \ {0}

CommandTypes == {"MGET", "MSET", "ZADD", "ZBATCHADD", "ZRANGE", "BATCHZRANGE"}
SubPhases == {"START", "MGET", "MSET", "ZADD", "ZBATCHADD", "ZRANGE", "BATCHZRANGE", "DONE"}

Item == [of : {"KEY", "SLOT"}, n : Nat]

QkRequest ==
    [ type : CommandTypes,          \* kvpair.command_type
      phase : SubPhases,
      keys : Nat,                   \* size of map_kv or map_query
      slots : Nat,                  \* size of map_slots_kv
      vec : Nat,                    \* size of vector_sub
      subs : Seq(Item),             \* subrequest
      code : {"OK", "ERROR"},
      rc : {"AGAIN", "OK", "ERROR"} ]

NewRequest(t, k, s) ==
    [ type |-> t, phase |-> "START", keys |-> k, slots |-> s, vec |-> 0,
      subs |-> <<>>, code |-> "OK", rc |-> "AGAIN" ]

Least(a, b) == IF a < b THEN a ELSE b

\* The n names of a list that follow the first `from'.
Items(what, from, n) == [i \in 1 .. n |-> [of |-> what, n |-> from + i]]

Enter(x, p) == IF x.phase = "START" THEN [x EXCEPT !.phase = p] ELSE x

Return(x, rc) == [x EXCEPT !.rc = rc]

\* CheckSubRequestStatus: only the code the sub-requests left in the parent.
CheckSubRequestStatus(x) == x.code = "OK"

\* One round of a list: vector_sub is filled when empty, and at most max of
\* it move to subrequest.
Take(x, what, total, max, p) ==
    LET size == IF x.vec = 0 THEN total ELSE x.vec
        k    == Least(size, max)
    IN  IF size = 0 THEN Return([x EXCEPT !.subs = <<>>], "ERROR")
        ELSE [x EXCEPT !.subs = Items(what, total - size, k),
                       !.vec = size - k, !.phase = p, !.rc = "AGAIN"]

CreateSubRequestMget(x) ==
    LET y == Enter(x, "MGET")
    IN  CASE y.phase = "MGET" ->
               [y EXCEPT !.subs = y.subs \o Items("SLOT", 0, y.slots),
                         !.phase = "DONE", !.rc = "AGAIN"]
          [] y.phase = "DONE" ->
               Return(y, IF CheckSubRequestStatus(y) THEN "OK" ELSE "ERROR")
          [] y.phase \notin {"MGET", "DONE"} -> Return(y, "ERROR")

\* Fault: the rest of vector_sub is forgotten.
OneRoundOfMset(x) ==
    CASE x.phase = "MSET" -> Take(x, "SLOT", x.slots, MsetMax, "DONE")
      [] x.phase = "DONE" -> Return(x, IF x.code = "OK" THEN "OK" ELSE "ERROR")
      [] x.phase \notin {"MSET", "DONE"} -> Return(x, "ERROR")

ProcessMset(x) ==
    CASE x.phase = "MSET" -> Take(x, "SLOT", x.slots, MsetMax, "DONE")
      [] x.phase = "DONE" ->
           IF ~CheckSubRequestStatus(x) THEN Return(x, "ERROR")
           ELSE IF x.vec > 0 THEN [x EXCEPT !.phase = "MSET", !.rc = "AGAIN"]
           ELSE Return(x, "OK")
      [] x.phase \notin {"MSET", "DONE"} -> Return(x, "ERROR")

CreateSubRequestMset(x) ==
    LET y == ProcessMset(Enter(x, "MSET"))
    IN  IF y.rc = "AGAIN" /\ y.phase = "MSET" THEN ProcessMset(y) ELSE y

CreateSubRequestZfixedsetAdd(x) ==
    LET y == Enter(x, "ZADD")
    IN  CASE y.phase = "ZADD" -> Take(y, "KEY", y.keys, BatchAddMax, "MSET")
          [] y.phase = "MSET" ->
               LET z == [y EXCEPT !.subs = <<>>]
               IN  IF ~CheckSubRequestStatus(y) THEN Return(y, "ERROR")
                   ELSE IF z.vec > 0 THEN [z EXCEPT !.phase = "ZBATCHADD", !.rc = "AGAIN"]
                   ELSE CreateSubRequestMset(z)
          [] y.phase \notin {"ZADD", "MSET"} -> CreateSubRequestMset(y)

ProcessZfixedsetBatchAdd(x) ==
    CreateSubRequestZfixedsetAdd(
        IF x.phase = "ZBATCHADD" THEN [x EXCEPT !.phase = "ZADD"] ELSE x)

CreateSubRequestZfixedsetBatchAdd(x) ==
    LET y == ProcessZfixedsetBatchAdd(Enter(x, "ZBATCHADD"))
    IN  IF y.rc = "AGAIN" /\ y.phase = "ZBATCHADD" THEN ProcessZfixedsetBatchAdd(y) ELSE y

\* found: the number of slots of the members the queries returned.
CreateSubRequestZfixedsetGetByScore(x, found) ==
    LET y == Enter(x, "ZRANGE")
        z == [y EXCEPT !.subs = <<>>, !.slots = found]
        End(v) == Return(v, IF CheckSubRequestStatus(v) THEN "OK" ELSE "ERROR")
    IN  CASE y.phase = "ZRANGE" ->
               [y EXCEPT !.subs = Items("KEY", 0, y.keys), !.phase = "MGET", !.rc = "AGAIN"]
          [] y.phase = "MGET" ->
               IF ~CheckSubRequestStatus(y) THEN Return(y, "ERROR")
               ELSE IF found > 0 THEN CreateSubRequestMget(z)
               ELSE End([z EXCEPT !.phase = "DONE"])
          [] y.phase = "DONE" -> End(y)
          [] y.phase \notin {"ZRANGE", "MGET", "DONE"} -> Return(y, "ERROR")

CreateSubRequestZfixedsetBatchGetByScore(x, found) ==
    LET y == Enter(x, "BATCHZRANGE")
    IN  CreateSubRequestZfixedsetGetByScore(
            IF y.phase = "BATCHZRANGE" THEN [y EXCEPT !.phase = "ZRANGE"] ELSE y, found)

CreateSubRequestBody(x, found) ==
    CASE x.code # "OK" -> Return(x, "ERROR")
      [] x.code = "OK" /\ x.type = "MGET" -> CreateSubRequestMget(x)
      [] x.code = "OK" /\ x.type = "MSET" -> CreateSubRequestMset(x)
      [] x.code = "OK" /\ x.type = "ZADD" -> CreateSubRequestZfixedsetAdd(x)
      [] x.code = "OK" /\ x.type = "ZBATCHADD" -> CreateSubRequestZfixedsetBatchAdd(x)
      [] x.code = "OK" /\ x.type = "ZRANGE" -> CreateSubRequestZfixedsetGetByScore(x, found)
      [] x.code = "OK" /\ x.type = "BATCHZRANGE" ->
           CreateSubRequestZfixedsetBatchGetByScore(x, found)
=============================================================================
