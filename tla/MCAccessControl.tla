-------------------------- MODULE MCAccessControl --------------------------
(***************************************************************************)
(* Instances of AccessControl: keys of one cluster, requests that read,    *)
(* write, add to sets whose keys have overlapping policies or none, or are *)
(* malformed, from a network with a cluster, one without and one that is   *)
(* wide; answers that grant both operations or one, name all interfaces of *)
(* a kind, or lack a part.                                                 *)
(***************************************************************************)
EXTENDS AccessControl

CONSTANTS w1, k1, k2

MCCluster == [k \in Key |-> "BJ001"]

Occurs(name, uri) == \E i \in 0 .. Len(uri) - Len(name) : SubSeq(uri, i + 1, i + Len(name)) = name
MCNamesIn == [uri \in Interface |-> {name \in Interface \cup {"kv/", "zfixedset"} : Occurs(name, uri)}]

Request(uri, k, net) ==
    [uri |-> uri, body |-> TRUE, ns |-> TRUE, k |-> k, net |-> net, wide |-> FALSE, keylen |-> 0,
     vallen |-> 0, datalen |-> 1, lens |-> <<>>]
MCRequests == {
    [Request("kv/get", k1, "10.1") EXCEPT !.keylen = 2],
    [Request("kv/incrby", k1, "10.2") EXCEPT !.keylen = 1],
    [Request("zfixedset/batchadd", k1, "10.1") EXCEPT !.lens = <<2, 5>>],
    [Request("kv/mget", k2, "other") EXCEPT !.wide = TRUE],
    [Request("zfixedset/add", k2, "10.2") EXCEPT !.lens = <<5>>],
    [Request("kv/del", k2, "10.1") EXCEPT !.body = FALSE],
    [Request("kv/ttl", k2, "10.1") EXCEPT !.ns = FALSE]}

Full ==
    [id |-> TRUE, quotation |-> "object", whole |-> TRUE, default |-> TRUE, routes |-> "whole",
     operation |-> {"read", "write"},
     limits |-> <<[min |-> 0, max |-> 2, limit |-> 1000], [min |-> 2, max |-> 4, limit |-> 30]>>,
     lengths |-> <<[name |-> "kv/", keylen |-> 1, vallen |-> 1, datalen |-> 1]>>,
     timeouts |-> <<[name |-> "kv/incr", tries |-> 2], [name |-> "kv/incrby", tries |-> 3]>>,
     client |-> {<<"10.1", "BJ02">>}, server |-> <<"BJ01", "BJ02">>]
ReadOnly == [Full EXCEPT !.operation = {"read"}, !.quotation = "string", !.lengths = <<>>]
MCAnswers == {Full, ReadOnly, [Full EXCEPT !.whole = FALSE],
              [ReadOnly EXCEPT !.routes = "mistyped"]}
MCUninit == {7}
=============================================================================
