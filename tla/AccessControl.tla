--------------------------- MODULE AccessControl ---------------------------
(***************************************************************************)
(* What a worker lets through: the parsing of a request's interface, its   *)
(* check against the entry of its uri and application key, and the entries *)
(* a worker gets from the authority service and keeps for its life         *)
(* (qkpack_acl.cc, qkpack_parser.cc, QkPackHandler::CreateRequest).        *)
(*                                                                         *)
(* The question to the service is a blocking POST inside the event loop:   *)
(* the worker does nothing else until the answer or the timeout, but the   *)
(* service and the other workers go on.  The answers are JSON; an answer   *)
(* is a record of which of its parts are there and of what they say.       *)
(*                                                                         *)
(* Names of interfaces are the ends of the uris in qkpack_common.h.  What  *)
(* follows the check is ClusterMap, QkUpstream and QkBatch.                *)
(***************************************************************************)
EXTENDS Integers, Sequences

CONSTANTS
    Worker,
    Key,          \* uri and application key of a client
    ClusterOf,    \* the name of the cluster in the uri of a key (SetClusterName)
    NamesIn,      \* the names the service may use that occur in the uri of an interface
    Requests,     \* requests clients may send: see RequestType
    Answers,      \* answers the service may be set to give: see AnswerType
    Uninit,       \* values an uninitialised int may have
    DefaultTries, \* upstream_tries
    None,
    MaxChanges,   \* bound: changes of the service's answers
    MaxFaults     \* bound: crashes, lost and late answers, unreachable seeds

Reads == {"kv/get", "kv/ttl", "kv/mget", "set/scard", "set/smembers", "set/sismember",
          "zfixedset/getbyscore", "zfixedset/getbyrank", "zfixedset/batchgetbyscore"}
Writes == {"kv/set", "kv/del", "kv/incr", "kv/incrby", "kv/mset", "set/sadd", "set/srem",
           "zfixedset/add", "zfixedset/batchadd"}
Interface == Reads \cup Writes

\* net is x_real_ip up to its second dot, or all of it; wide says that, with that dot, it is
\* longer than ten bytes.  lens are the lengths of the keys of a zfixedset, in the order of map_kv.
RequestType == [uri : Interface \cup {"other"}, body : BOOLEAN, ns : BOOLEAN, k : Key, net : STRING,
                wide : BOOLEAN, keylen : Nat, vallen : Nat, datalen : Nat, lens : Seq(Nat)]
AnswerType == [id : BOOLEAN, quotation : {"object", "string", "none"}, whole : BOOLEAN,
               default : BOOLEAN, routes : {"whole", "missing", "mistyped"},
               operation : SUBSET {"read", "write"},
               limits : Seq([min : Nat, max : Nat, limit : Nat]),
               lengths : Seq([name : STRING, keylen : Nat, vallen : Nat, datalen : Nat]),
               timeouts : Seq([name : STRING, tries : Nat]),
               client : SUBSET (STRING \X STRING), server : Seq(STRING)] \* both as maps, in their order

ASSUME AccessAssumption ==
    /\ Requests \subseteq RequestType /\ Answers \subseteq AnswerType /\ Answers # {}
    /\ NamesIn \in [Interface -> SUBSET STRING] /\ \A uri \in Interface : uri \in NamesIn[uri]
    /\ "kv/incr" \in NamesIn["kv/incrby"]
    /\ ClusterOf \in [Key -> STRING] /\ Uninit \subseteq Int /\ Uninit # {} /\ DefaultTries \in Nat
    /\ MaxChanges \in Nat /\ MaxFaults \in Nat

VARIABLES
    book,    \* the service's answers so far, oldest first: Key -> Answers
    cache,   \* map_acl_ per worker: the entry of a key, or None; v is the answer's place in book
    at,      \* per worker: what it is doing
    born,    \* per worker: how long book was when it started
    dec,     \* per worker: its last decision
    cluster, \* map_cluster_ per worker: the seeds a cluster's map is from and for whom, or None
    faults

vars == <<book, cache, at, born, dec, cluster, faults>>

Fault == faults < MaxFaults /\ faults' = faults + 1

-----------------------------------------------------------------------------
(* The request. *)

\* Fault: the addition to several sets is taken for a query.
ParseBatchAsRead(uri) == IF uri \in Reads \cup {"zfixedset/batchadd"} THEN "read" ELSE "write"

\* ParseRequestUri.
ParseRequestUri(uri) == IF uri \in Reads THEN "read" ELSE "write"

\* ParseRequestBody and the readers of the bodies, up to their errors.
ParseRequestBody(q) == q.uri \in Interface /\ q.body

\* The interfaces of the sub-requests by which a request is carried out (CreateSubRequest*),
\* and what they do (ParseRequestBody of a sub-request): no entry is looked up for them.
SubRequests(uri) ==
    (IF uri \in {"kv/mget", "kv/mset"} THEN {uri} ELSE {}) \cup
    (IF uri \in {"zfixedset/add", "zfixedset/batchadd"} THEN {"kv/mset", "zfixedset/add"} ELSE {}) \cup
    (IF uri \in {"zfixedset/getbyscore", "zfixedset/batchgetbyscore"}
       THEN {"kv/mget", "zfixedset/getbyscore"} ELSE {}) \cup
    (IF uri = "zfixedset/getbyrank" THEN {"kv/mget", "zfixedset/getbyrank"} ELSE {})
Operations(uri) == {ParseRequestUri(s) : s \in SubRequests(uri) \cup {uri}}

-----------------------------------------------------------------------------
(* The check against an entry. *)

\* std::string::find: the name may stand for part of the uri, and so for several interfaces.
Find(name, uri) == name \in NamesIn[uri]

\* CheckInterfaceLimitsLength: the key and the value of requests for several keys are empty.
CheckLengths(q, e) ==
    \A i \in DOMAIN e.lengths : Find(e.lengths[i].name, q.uri) =>
        q.keylen <= e.lengths[i].keylen /\ q.vallen <= e.lengths[i].vallen
        /\ q.datalen <= e.lengths[i].datalen

\* Fault: the last policy that fits is taken.
LastPolicy(e, len) ==
    {i \in DOMAIN e.limits : LET Fits(j) == len \in e.limits[j].min .. e.limits[j].max IN
                             Fits(i) /\ \A j \in i + 1 .. Len(e.limits) : ~Fits(j)}

\* GetZsetLimit.  status is not reset between keys: once a key has a policy, a later one
\* without any passes, with the limit its constructor has left.
Policy(e, len) ==
    {i \in DOMAIN e.limits : LET Fits(j) == len \in e.limits[j].min .. e.limits[j].max IN
                             Fits(i) /\ \A j \in 1 .. i - 1 : ~Fits(j)}
ZAdds == {"zfixedset/add", "zfixedset/batchadd"}
CheckLimits(q, e) ==
    q.uri \in ZAdds =>
        \A i \in DOMAIN q.lens : \E j \in 1 .. i : Policy(e, q.lens[j]) # {}
ZsetLimits(q, e) ==
    {f \in [DOMAIN q.lens -> Uninit \cup {e.limits[i].limit : i \in DOMAIN e.limits}] :
        \A i \in DOMAIN q.lens :
            f[i] \in IF q.uri \in ZAdds /\ Policy(e, q.lens[i]) # {}
                       THEN {e.limits[p].limit : p \in Policy(e, q.lens[i])} ELSE Uninit}

\* CheckInterfaceTimeout: the first that is found.
Tries(q, e) ==
    LET found == {i \in DOMAIN e.timeouts : Find(e.timeouts[i].name, q.uri)} IN
    IF found = {} THEN DefaultTries
    ELSE e.timeouts[CHOOSE i \in found : \A j \in found : i <= j].tries

\* QkPackACL::Process once there is an entry.
Process(q, e) ==
    IF ParseRequestUri(q.uri) \notin e.operation THEN "operation"
    ELSE IF ~CheckLengths(q, e) THEN "length"
    ELSE IF ~CheckLimits(q, e) THEN "limit"
    ELSE "ok"

-----------------------------------------------------------------------------
(* The entries. *)

\* An incomplete quotation that is an object is freed here and by the caller: the worker may end.
ReadACLQuotation(a) ==
    IF a.quotation = "none" THEN {"error"}
    ELSE IF a.whole THEN {"ok"}
    ELSE IF a.quotation = "object" THEN {"error", "dies"} ELSE {"error"}

\* std::string is made from a missing default, or from the name of a client's or a server's
\* route that is no string: the worker ends.
ReadACLResponse(a) ==
    IF ~a.id THEN {"error"}
    ELSE IF ReadACLQuotation(a) # {"ok"} THEN ReadACLQuotation(a)
    ELSE IF ~a.default THEN {"dies"}
    ELSE IF a.routes = "missing" THEN {"error"}
    ELSE IF a.routes = "mistyped" THEN {"dies"}
    ELSE {"entry"}

Matches(q, a) == \E i \in DOMAIN a.server : <<q.net, a.server[i]>> \in a.client

\* Fault: a network that is not matched leaves the flag as it was.
NodeListStays(q, e) == [e EXCEPT !.match = @ \/ Matches(q, e.a)]
\* GetNodeList: whether the client's network has a cluster, kept in the entry all share.
GetNodeList(q, e) == [e EXCEPT !.match = Matches(q, e.a)]

Entries == [a : Answers, v : Nat, match : BOOLEAN]
Idle == [st |-> "idle"]
Dead == [st |-> "dead"]
NoDecision == [why |-> "none"]
Refused(q, why) == [why |-> why, q |-> q]

TypeOK ==
    /\ book \in Seq([Key -> Answers]) /\ Len(book) \in 1 .. MaxChanges + 1
    /\ cache \in [Worker -> [Key -> Entries \cup {None}]]
    /\ at \in [Worker -> {Idle, Dead} \cup [st : {"asking", "lost"}, q : Requests]
                         \cup [st : {"served"}, q : Requests, v : DOMAIN book]]
    /\ born \in [Worker -> DOMAIN book]
    /\ \A w \in Worker :
          \/ dec[w] = NoDecision
          \/ \E q \in Requests :
               \/ dec[w] \in {Refused(q, why) : why \in {"parse", "namespace", "noauth", "operation",
                                                      "length", "limit", "unknown"}}
               \/ dec[w] \in [why : {"ok"}, q : {q}, a : Answers, tries : Nat,
                              limits : [DOMAIN q.lens -> Int]]
    /\ \A w \in Worker, c \in {ClusterOf[k] : k \in Key} :
          cluster[w][c] \in [seeds : [list : {"server", "default"}, id : STRING], q : Requests, a : Answers] \cup {None}
    /\ faults \in 0 .. MaxFaults

\* A worker as it starts.
Fresh(w) ==
    /\ cache' = [cache EXCEPT ![w] = [k \in Key |-> None]]
    /\ cluster' = [cluster EXCEPT ![w] = [c \in DOMAIN @ |-> None]]
    /\ at' = [at EXCEPT ![w] = Idle] /\ dec' = [dec EXCEPT ![w] = NoDecision]
    /\ born' = [born EXCEPT ![w] = Len(book)]

Init ==
    /\ \E f \in [Key -> Answers] : book = <<f>>
    /\ cache = [w \in Worker |-> [k \in Key |-> None]]
    /\ cluster = [w \in Worker |-> [c \in {ClusterOf[k] : k \in Key} |-> None]]
    /\ at = [w \in Worker |-> Idle] /\ dec = [w \in Worker |-> NoDecision]
    /\ born = [w \in Worker |-> 1] /\ faults = 0

\* CreateRequestError.
Refuse(w, q, why) ==
    /\ at' = [at EXCEPT ![w] = Idle] /\ dec' = [dec EXCEPT ![w] = Refused(q, why)]

\* RedisCluster::GetNode: the seeds of every server of the route are asked, or the default
\* ones, and insert() keeps the first map.  A later list without an answer refuses the request
\* all the same, and so does a key whose slot has no node.
Seeds(e) ==
    IF e.match THEN [i \in DOMAIN e.a.server |-> [list |-> "server", id |-> e.a.server[i]]]
    ELSE <<[list |-> "default", id |-> ""]>>
GetNode(w, q, e) ==
    LET c == ClusterOf[q.k]
        loads == cluster[w][c] = None
    IN
    \/ /\ cluster' = IF loads THEN [cluster EXCEPT ![w][c] = [seeds |-> Seeds(e)[1], q |-> q, a |-> e.a]]
                             ELSE cluster
       /\ \/ /\ \E f \in ZsetLimits(q, e.a) :
                    dec' = [dec EXCEPT ![w] = [why |-> "ok", q |-> q, a |-> e.a,
                                               tries |-> Tries(q, e.a), limits |-> f]]
             /\ UNCHANGED faults
          \/ /\ q.keylen > 0 \/ (loads /\ Len(Seeds(e)) > 1)
             /\ dec' = [dec EXCEPT ![w] = Refused(q, "unknown")] /\ Fault
    \/ loads /\ dec' = [dec EXCEPT ![w] = Refused(q, "unknown")] /\ Fault /\ UNCHANGED cluster

\* GetNodeList copies the network and its dot to ten bytes on the stack, unchecked: the worker
\* may end, or go on as if they had fitted (ByEntry).
NodeListOverruns(w, q) ==
    /\ q.wide /\ at' = [at EXCEPT ![w] = Dead]
    /\ UNCHANGED <<cache, dec, cluster, faults>>

\* CreateRequest from the entry on.
ByEntry(w, q, entry) ==
    LET e == GetNodeList(q, entry)
        why == Process(q, e.a)
    IN
    /\ cache' = [cache EXCEPT ![w][q.k] = e]
    /\ \/ why # "ok" /\ Refuse(w, q, why) /\ UNCHANGED <<cluster, faults>>
       \/ why = "ok" /\ GetNode(w, q, e) /\ at' = [at EXCEPT ![w] = Idle]
Decide(w, q, entry) == ByEntry(w, q, entry) \/ NodeListOverruns(w, q)

\* CreateRequest: an error, a decision by the cached entry, or the question to the service.
CreateRequest(w, q) ==
    /\ at[w].st = "idle"
    /\ LET why == IF ~ParseRequestBody(q) THEN "parse" ELSE IF ~q.ns THEN "namespace" ELSE "" IN
       \/ why # "" /\ Refuse(w, q, why) /\ UNCHANGED <<cache, cluster, faults>>
       \/ why = "" /\ cache[w][q.k] # None /\ Decide(w, q, cache[w][q.k])
       \/ /\ why = "" /\ cache[w][q.k] = None
          /\ at' = [at EXCEPT ![w] = [st |-> "asking", q |-> q]]
          /\ UNCHANGED <<cache, dec, cluster, faults>>
    /\ UNCHANGED <<book, born>>

\* The service answers, or its answer is lost.
Serve(w) ==
    /\ at[w].st = "asking"
    /\ \/ at' = [at EXCEPT ![w] = [st |-> "served", q |-> at[w].q, v |-> Len(book)]] /\ UNCHANGED faults
       \/ at' = [at EXCEPT ![w] = [st |-> "lost", q |-> at[w].q]] /\ Fault
    /\ UNCHANGED <<book, cache, born, dec, cluster>>

\* GetCurlResponse and SetACL: only a whole answer becomes an entry.
Receive(w) ==
    /\ at[w].st = "served"
    /\ LET q == at[w].q
           a == book[at[w].v][q.k]
       IN \/ /\ "error" \in ReadACLResponse(a) /\ Refuse(w, q, "noauth")
             /\ UNCHANGED <<cache, cluster, faults>>
          \/ /\ "dies" \in ReadACLResponse(a) /\ at' = [at EXCEPT ![w] = Dead]
             /\ UNCHANGED <<cache, dec, cluster, faults>>
          \/ /\ "entry" \in ReadACLResponse(a)
             /\ Decide(w, q, [a |-> a, v |-> at[w].v, match |-> FALSE])
    /\ UNCHANGED <<book, born>>

\* Fault: the POST has no timeout.
NoTimeout(w) == FALSE /\ UNCHANGED vars
\* EasyCurl::Post cannot connect or times out (a timeout is configured); an answer on its way
\* is dropped with the handle.
PostFails(w) ==
    /\ at[w].st \in {"asking", "served", "lost"}
    /\ Refuse(w, at[w].q, "noauth")
    /\ IF at[w].st = "lost" THEN UNCHANGED faults ELSE Fault
    /\ UNCHANGED <<book, cache, born, cluster>>

\* The worker is ended, by a crash or a reload, and replaced.
End(w) ==
    /\ at[w].st # "dead" /\ at' = [at EXCEPT ![w] = Dead] /\ Fault
    /\ UNCHANGED <<book, cache, born, dec, cluster>>
\* Fault: the entries survive the worker.
RespawnKeeps(w) ==
    /\ at[w].st = "dead" /\ at' = [at EXCEPT ![w] = Idle] /\ born' = [born EXCEPT ![w] = Len(book)]
    /\ dec' = [dec EXCEPT ![w] = NoDecision] /\ UNCHANGED <<book, cache, cluster, faults>>
Respawn(w) == at[w].st = "dead" /\ Fresh(w) /\ UNCHANGED <<book, faults>>

\* The service's operators change what it answers for a key.
Change(k, a) ==
    /\ Len(book) <= MaxChanges /\ book' = Append(book, [book[Len(book)] EXCEPT ![k] = a])
    /\ UNCHANGED <<cache, at, born, dec, cluster, faults>>

Next ==
    \/ \E w \in Worker :
          \/ \E q \in Requests : CreateRequest(w, q)
          \/ Serve(w) \/ Receive(w) \/ PostFails(w) \/ End(w) \/ Respawn(w)
    \/ \E k \in Key, a \in Answers : Change(k, a)

Spec == Init /\ [][Next]_vars

\* Clients keep sending well-formed requests for every key from networks of at most ten bytes
\* (the first two parts of any IPv4 address), the service answers, curl has a
\* timeout and the master replaces a worker that has ended.
Asks(w, k) == \E q \in Requests :
                 q.k = k /\ q.ns /\ ~q.wide /\ ParseRequestBody(q) /\ CreateRequest(w, q)
FairSpec ==
    /\ Spec
    /\ \A w \in Worker : /\ \A k \in Key : SF_vars(Asks(w, k))
                         /\ WF_vars(Serve(w)) /\ WF_vars(Receive(w))
                         /\ WF_vars(PostFails(w)) /\ WF_vars(Respawn(w))

-----------------------------------------------------------------------------
(* Properties. *)

\* Every entry of a worker (map_acl_) is a whole answer, the one the service gave for that very
\* uri and application key at some time since the worker started: neither a refusal nor half
\* an answer is kept, and no entry outlives its worker.
EntryIsAnswer ==
    \A w \in Worker, k \in Key : LET e == cache[w][k] IN
        e # None => /\ e.v \in born[w] .. Len(book) /\ e.a = book[e.v][k]
                    /\ e.a.id /\ e.a.whole /\ e.a.default /\ e.a.routes = "whole"

\* A request that is let through was allowed everything it does, its sub-requests included,
\* by one answer the service gave for its key since the worker started (the check is made
\* for the request alone: CreateRequest skips it for sub-requests).
GrantCovers ==
    \A w \in Worker : at[w].st # "dead" /\ dec[w].why = "ok" =>
        \E v \in born[w] .. Len(book) : Operations(dec[w].q.uri) \subseteq book[v][dec[w].q.k].operation

\* Of the sets an accepted addition names, each whose key's length some policy covers gets the
\* limit of the first such policy, and the first set always has one (GetZsetLimit).
FirstPolicyLimits ==
    \A w \in Worker : dec[w].why = "ok" /\ dec[w].q.uri \in ZAdds =>
        \A i \in DOMAIN dec[w].q.lens :
            LET len == dec[w].q.lens[i]
                limits == dec[w].a.limits
            IN \/ \E p \in DOMAIN limits :
                    /\ limits[p].min <= len /\ len <= limits[p].max /\ dec[w].limits[i] = limits[p].limit
                    /\ \A o \in 1 .. p - 1 : len < limits[o].min \/ limits[o].max < len
               \/ i > 1 /\ \A p \in DOMAIN limits : len < limits[p].min \/ limits[p].max < len

\* The map of a cluster was loaded from the default seeds exactly when the network of the
\* client whose request loaded it has no cluster, whoever used the shared entry before.
SeedsForClient ==
    \A w \in Worker, k \in Key : LET m == cluster[w][ClusterOf[k]] IN
        m # None => (m.seeds.list = "default" <=>
                       ~\E s \in {m.a.server[i] : i \in DOMAIN m.a.server} : <<m.q.net, s>> \in m.a.client)

\* Every set of an accepted addition has the limit of a policy that covers its key.
EveryKeyLimited ==
    \A w \in Worker : dec[w].why = "ok" /\ dec[w].q.uri \in ZAdds =>
        \A i \in DOMAIN dec[w].q.lens : Policy(dec[w].a, dec[w].q.lens[i]) # {}

\* A map that was not loaded from the default seeds was loaded from the seeds of the cluster
\* of the network of the client that loaded it.
SeedsOfMatch ==
    \A w \in Worker, k \in Key : LET m == cluster[w][ClusterOf[k]] IN
        m # None /\ m.seeds.list # "default" => <<m.q.net, m.seeds.id>> \in m.a.client

\* When the service's answer for a key stays readable, a worker keeps getting hold of it: a
\* lost answer, a timeout, an unreadable answer for another key or the end of the worker
\* delays an entry and never prevents it (refusals are not cached).
Learns ==
    \A w \in Worker, k \in Key :
        <>[](ReadACLResponse(book[Len(book)][k]) = {"entry"}) => []<>(cache[w][k] # None)
=============================================================================
