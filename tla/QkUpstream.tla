----------------------------- MODULE QkUpstream -----------------------------
(***************************************************************************)
(* One nginx worker of the proxy forwarding Redis commands to a Redis      *)
(* Cluster: the qkupstream handler, the node balancer and the plugin's     *)
(* redirect, retry and backup logic, run by the Tengine upstream framework *)
(* (external), against a cluster that migrates slots, restarts nodes,      *)
(* refuses connections and loses replies.                                  *)
(*                                                                         *)
(* A request is a record; a handler is an operator from the record it      *)
(* finds to the record it leaves, and an action is one event of the event  *)
(* loop.  ngx_http_upstream_next calls ngx_http_upstream_connect in the    *)
(* same event, so a request in state "connect" is still inside its event:  *)
(* no other event of the worker is taken before it blocks or ends (Quiet). *)
(***************************************************************************)
EXTENDS Integers, FiniteSets

CONSTANTS
    Nodes,          \* masters of the cluster, named by address
    Default,        \* the placeholder peer 0.0.0.0:80 of the configuration
    Backup,         \* backup_server
    NoNode,         \* no node: the slot is in no map, no migration, no readable address
    Slots,
    Reqs,           \* client requests and sub-requests handled by the worker
    Kinds,          \* the kinds of request: sub-request or not, EVALSHA or not
    ConfTries,      \* qkupstream_next_upstream_tries
    AclTries,       \* tries an interface's ACL entry may carry
    BackupReplies,  \* what the server at the backup address answers
    MaxNodeTries,   \* 50: beyond it get_peer falls back to round robin
    Histories,      \* the sets of peers earlier requests may have added
    InitIdle,       \* idle connections those left, per peer
    MaxIdle,        \* bound: idle keepalive connections per peer
    MaxEnv          \* bound: cluster events (migration steps, restarts)

Peers == Nodes \cup {Default, Backup}

ASSUME NamesAssumption ==
    /\ Default \notin Nodes /\ Backup \notin Nodes /\ Default # Backup
    /\ NoNode \notin Peers
    /\ IsFiniteSet(Nodes) /\ Slots # {} /\ Nodes # {}

ASSUME BoundsAssumption ==
    /\ ConfTries \in Nat /\ AclTries \subseteq Nat
    /\ MaxNodeTries \in Nat /\ MaxIdle \in Nat /\ InitIdle \in 0 .. MaxIdle /\ MaxEnv \in Nat

ASSUME HistoriesAssumption == Histories \subseteq SUBSET (Nodes \cup {Backup})

ASSUME KindsAssumption == Kinds \subseteq [sub : BOOLEAN, script : BOOLEAN]

ASSUME BackupAssumption == BackupReplies \subseteq {"OK", "TEST"}

VARIABLES
    q,        \* the request records
    mapped,   \* the cluster is in RedisCluster::map_cluster_
    route,    \* and its slot map: slot -> address
    scripts,  \* nodes whose script hashes are in RedisProto::map_script_
    peers,    \* names in the worker's current peer array (us->peer.data)
    conf,     \* upstream_tries in the location configuration, shared
    dflt,     \* static upstream_tries of ngx_upstream_interface.cc
    idle,     \* idle keepalive connections, per peer
    owner,    \* the cluster: master of each slot
    mig,      \* the cluster: node importing the slot, or NoNode
    loaded,   \* the cluster: nodes that hold the Lua scripts
    env       \* cluster events so far

worker == <<mapped, route, scripts, peers, conf, dflt, idle>>
cluster == <<owner, mig, loaded, env>>
vars == <<q, worker, cluster>>

-----------------------------------------------------------------------------
(* Types *)

MovedAsk == {"OK", "MOVED", "ASK", "ASKING", "ASKING_END"}
Codes == {"OK", "UNKNOWN", "REJECTED", "TIMEOUT", "STORAGE"}
Answers == {"none", "200", "500", "502", "504"}
Phases == {"new", "connect", "connecting", "sent", "replied", "done"}
Replies == {"none", "OK", "ERR", "TRYAGAIN", "NOSCRIPT", "MOVED", "ASK", "TEST"}

\* Redis protocol text: a number of ASKING commands before a body.
Bytes == [asks : Nat, body : {"CMD", "PING"}]
Command == [asks |-> 0, body |-> "CMD"]
Ping == [asks |-> 0, body |-> "PING"]

Request ==
    [ st : Phases,
      slot : Slots,
      sub : BOOLEAN,                \* request->is_subrequest
      script : BOOLEAN,             \* the command is an EVALSHA
      tries : Nat,                  \* request->tries
      node : Peers,                 \* request->node_ip, ctx->upstream_ip
      at : Peers,                   \* u->peer.sockaddr, the peer connected to
      moved : MovedAsk,             \* ctx->moved_ask, kvpair.moved_ask
      code : Codes,                 \* request->code
      pcode : Codes \cup {"unset"}, \* what it wrote to parent->code
      proto : Bytes,                \* kvpair.proto_str
      bufs : Bytes,                 \* u->request_bufs, what goes on the wire
      cap : SUBSET Peers,           \* rrp.peers, captured by init_peer
      ptries : Nat,                 \* u->peer.tries
      us : Nat,                     \* r->us_tries
      hp : Nat,                     \* hp->tries
      sent : BOOLEAN,               \* u->request_sent
      cached : BOOLEAN,             \* u->peer.cached
      rep : Replies,                \* the reply on the connection
      to : Nodes \cup {NoNode},     \* the node a redirect names, if it can be read
      ans : Answers,                \* HTTP status of the answer
      execs : Nat,                  \* history: executions by the cluster
      lost : Nat,                   \* history: attempts given up once sent
      stale : Nat ]                 \* history: uncounted retries

Blank ==
    [ st |-> "new", slot |-> CHOOSE s \in Slots : TRUE, sub |-> FALSE,
      script |-> FALSE, tries |-> 0, node |-> Default, at |-> Default, moved |-> "OK",
      code |-> "OK", pcode |-> "unset", proto |-> Command, bufs |-> Command,
      cap |-> {}, ptries |-> 0, us |-> 1, hp |-> 0, sent |-> FALSE,
      cached |-> FALSE, rep |-> "none", to |-> NoNode, ans |-> "none",
      execs |-> 0, lost |-> 0, stale |-> 0 ]

TypeOK ==
    /\ q \in [Reqs -> Request]
    /\ mapped \in BOOLEAN
    /\ route \in [Slots -> Nodes \cup {NoNode}]
    /\ scripts \subseteq Nodes
    /\ peers \subseteq Peers
    /\ conf \in Nat
    /\ dflt \in Nat
    /\ idle \in [Peers -> Nat]
    /\ owner \in [Slots -> Nodes]
    /\ mig \in [Slots -> Nodes \cup {NoNode}]
    /\ loaded \subseteq Nodes
    /\ env \in Nat

-----------------------------------------------------------------------------
(* Handlers, as operators on the request record *)

\* ngx_http_upstream_finalize_request: destroy deletes the request, so only
\* the answer and the history are kept.
Finish(x, a) ==
    [x EXCEPT !.st = "done", !.ans = a, !.rep = "none", !.to = NoNode,
              !.moved = "OK", !.node = x.at, !.proto = x.bufs, !.tries = 0,
              !.ptries = 0, !.us = 0, !.sent = FALSE, !.cached = FALSE]

\* A handler of a sub-request copies code into the parent's.
TellParent(x) == IF x.sub THEN [x EXCEPT !.pcode = x.code] ELSE x

\* ProcessBodyError: the parent is told before a zero code becomes UNKNOWN.
ProcessBodyError(x) ==
    [TellParent(x) EXCEPT !.code = IF x.code = "OK" THEN "UNKNOWN" ELSE x.code]

\* CreateRequestError: the backup node, and a PING in proto_str.
CreateRequestError(x) ==
    [TellParent(x) EXCEPT !.node = Backup, !.proto = Ping]

\* ReinitRequest, on now_tries = hp->tries.  tries is a uint32_t, so
\* tries - 1 is never reached when tries is 0.
ReinitRequest(x) ==
    CASE x.tries > 0 /\ x.hp = x.tries - 1 ->
           CreateRequestError([x EXCEPT !.moved = "OK", !.code = "TIMEOUT"])
      [] ~(x.tries > 0 /\ x.hp = x.tries - 1) /\ x.moved = "ASK" ->
           [x EXCEPT !.moved = "ASKING", !.proto = [x.proto EXCEPT !.asks = @ + 1]]
      [] OTHER -> x

\* The peers update_nodes may leave in hp->key: the redirect's, or a random
\* one of the captured array.  Its loop counter is never initialised, so the
\* tests that exclude the current, placeholder and backup peers may be
\* skipped, and they are dropped after ten tries in any case.
Candidates(x) ==
    IF x.hp <= MaxNodeTries /\ (x.hp = 0 \/ x.moved # "OK") THEN {x.node} ELSE x.cap

\* get_peer: update_nodes on every attempt but the first; beyond
\* MaxNodeTries, round robin over the captured array and nothing else.
GetPeer(x, p) ==
    LET y == IF x.hp = 0 THEN x ELSE ReinitRequest([x EXCEPT !.node = p])
    IN  IF x.hp > MaxNodeTries
        THEN [x EXCEPT !.at = p, !.cached = FALSE]
        ELSE [y EXCEPT !.at = y.node, !.hp = x.hp + 1, !.cached = FALSE]

\* reinit_request fails in these states: it leaves no buffer.
ReinitFails(x) == x.sent /\ x.moved \in {"ASK", "ASKING_END"}

\* Fault: the buffer is not replaced when ASKING was put before the command.
ReinitKeepsBufs(x) ==
    CASE x.sent /\ x.moved = "MOVED" -> [x EXCEPT !.moved = "OK"]
      [] x.sent /\ x.moved = "ASKING" -> [x EXCEPT !.moved = "ASKING_END"]
      [] OTHER -> x

\* reinit_request, called when the previous attempt sent its bytes.
ReinitBufs(x) ==
    CASE x.sent /\ x.moved = "MOVED" -> [x EXCEPT !.moved = "OK"]
      [] x.sent /\ x.moved = "ASKING" ->
           [x EXCEPT !.moved = "ASKING_END", !.bufs = x.proto]
      [] OTHER -> x

\* Fault: the tries left are not counted down.
PeerTriesKept(x) == x.ptries

\* free_round_robin_peer on the captured array.
PeerTriesLeft(x) ==
    IF Cardinality(x.cap) = 1 \/ x.ptries = 0 THEN 0 ELSE x.ptries - 1

\* ngx_http_upstream_next: free the peer, then retry or give up.  A cached
\* connection that fails is retried without being counted.
NextUpstream(x, ft) ==
    LET left   == PeerTriesLeft(x)
        status == IF ft = "TIMEOUT" THEN "504" ELSE "502"
        y      == [x EXCEPT !.rep = "none", !.to = NoNode, !.ptries = left,
                            !.us = IF conf # 0 THEN x.us + 1 ELSE x.us]
    IN  CASE x.cached /\ ft = "ERROR" ->
               [x EXCEPT !.rep = "none", !.to = NoNode, !.ptries = left + 1, !.st = "connect",
                         !.stale = x.stale + 1]
          [] ~(x.cached /\ ft = "ERROR")
               /\ (left = 0 \/ (conf # 0 /\ x.us >= conf)) -> Finish(y, status)
          [] OTHER -> [y EXCEPT !.st = "connect"]

-----------------------------------------------------------------------------
(* The event loop *)

\* No request is in the middle of its event.
Quiet == \A r \in Reqs : q[r].st # "connect"

Set(r, x) == q' = [q EXCEPT ![r] = x]

\* Fault: the tries are read from the location configuration every time.
TriesFromConf == conf

\* process_request caches the configured tries in a static once, and ...
DefaultTries == IF dflt = 0 THEN conf ELSE dflt

\* ... stores the request's own in the location configuration; create_request
\* copies proto_str to request_bufs, and init_peer captures the peer array.
Begin(r, x) ==
    /\ Set(r, [x EXCEPT !.st = "connect", !.bufs = x.proto, !.cap = peers,
                        !.ptries = Cardinality(peers)])
    /\ dflt' = DefaultTries
    /\ conf' = IF x.tries > 0 THEN x.tries ELSE conf
    /\ UNCHANGED <<peers, idle, owner, mig, env>>

\* CreateRequest, when parsing the request or its ACL check fails.
RejectRequest(r) ==
    /\ Quiet /\ q[r].st = "new"
    /\ \E k \in Kinds :
         /\ k.sub => mapped
         /\ Begin(r, CreateRequestError([Blank EXCEPT !.sub = k.sub,
                         !.code = "REJECTED", !.tries = DefaultTries]))
    /\ UNCHANGED <<mapped, route, scripts, loaded>>

\* Fault: the map is read again for every request.
ReloadMaps == [Slots -> Nodes \cup {NoNode}]

\* GetNode: the map of an unknown cluster is first read from a seed node,
\* whose view may be stale or lack the slots of disconnected masters.
RouteMaps == IF mapped THEN {route} ELSE [Slots -> Nodes \cup {NoNode}]

\* The record CreateRequest works on once the request is accepted.
Accepted(s, k, t) ==
    [Blank EXCEPT !.slot = s, !.sub = k.sub, !.script = k.script, !.tries = t]

TriesOf(k) == {DefaultTries} \cup (IF k.sub THEN {} ELSE AclTries)

\* CreateRequest, when the slot is in no map, no seed node answers, or a
\* script cannot be loaded into the slot's node.
UnroutableRequest(r) ==
    /\ Quiet /\ q[r].st = "new"
    /\ \E s \in Slots, k \in Kinds, m \in RouteMaps :
         \E t \in TriesOf(k) :
           /\ k.sub => mapped
           /\ Begin(r, CreateRequestError(
                  [Accepted(s, k, t) EXCEPT !.code = "UNKNOWN"]))
           /\ \/ ~mapped /\ UNCHANGED <<mapped, route>>
              \/ m[s] = NoNode /\ mapped' = TRUE /\ route' = m
              \/ /\ k.script /\ m[s] \notin scripts \cup {NoNode}
                 /\ mapped' = TRUE /\ route' = m
    /\ UNCHANGED <<scripts, loaded>>

\* GetNode finds the slot in the map.
Routable(m, s) == m[s] # NoNode

\* CreateRequest, when the command is encoded for its slot's node; an
\* EVALSHA first loads the scripts into a node that has no cached hash.
ForwardRequest(r) ==
    /\ Quiet /\ q[r].st = "new"
    /\ \E s \in Slots, k \in Kinds, m \in RouteMaps :
         \E t \in TriesOf(k) :
           /\ k.sub => mapped
           /\ Routable(m, s)
           /\ Begin(r, [Accepted(s, k, t) EXCEPT !.node = m[s]])
           /\ mapped' = TRUE /\ route' = m
           /\ scripts' = IF k.script THEN scripts \cup {m[s]} ELSE scripts
           /\ loaded' = IF k.script /\ m[s] \notin scripts
                        THEN loaded \cup {m[s]} ELSE loaded

\* What follows a successful event_connect_peer in ngx_http_upstream_connect:
\* a connection in progress, or a cached one that takes the bytes at once.
Connected(x, cached) ==
    IF ReinitFails(x) THEN Finish([x EXCEPT !.cached = cached], "500")
    ELSE [ReinitBufs(x) EXCEPT !.cached = cached, !.sent = cached,
                               !.st = IF cached THEN "sent" ELSE "connecting"]

\* add_peer: ngx_prealloc_and_delay grows the array where it is when the pool
\* has room behind it, and the requests that captured it see the new peer too;
\* otherwise they keep the old copy.  An array is told by its peers.
Shared(inPlace, p) ==
    [s \in Reqs |-> IF inPlace /\ q[s].st # "done" /\ q[s].cap = peers
                    THEN [q[s] EXCEPT !.cap = peers \cup {p}] ELSE q[s]]

\* ngx_http_upstream_connect.  A peer unknown to the worker is added to the
\* current array; the keepalive cache is asked before a socket is opened.
Connect(r) ==
    /\ q[r].st = "connect"
    /\ \E p \in Candidates(q[r]), inPlace \in BOOLEAN :
         LET at == GetPeer(q[r], p).at
             f  == Shared(inPlace, at)
             x  == [GetPeer(q[r], p) EXCEPT !.cap = f[r].cap]
         IN  /\ peers' = peers \cup {at}
             /\ \/ /\ idle[at] = 0
                   /\ q' = [f EXCEPT ![r] = NextUpstream(x, "ERROR")]
                   /\ idle' = idle
                \/ /\ idle[at] = 0
                   /\ q' = [f EXCEPT ![r] = Connected(x, FALSE)]
                   /\ idle' = idle
                \/ /\ idle[at] > 0
                   /\ q' = [f EXCEPT ![r] = Connected(x, TRUE)]
                   /\ idle' = [idle EXCEPT ![at] = @ - 1]
    /\ UNCHANGED <<mapped, route, scripts, conf, dflt, cluster>>

\* Round robin finds every captured peer tried: NGX_BUSY.
ConnectBusy(r) ==
    /\ q[r].st = "connect" /\ q[r].hp > MaxNodeTries
    /\ Set(r, Finish(q[r], "502"))
    /\ UNCHANGED <<worker, cluster>>

\* The connection completes and ngx_http_upstream_send_request sends.
Established(r) ==
    /\ Quiet /\ q[r].st = "connecting"
    /\ Set(r, [q[r] EXCEPT !.st = "sent", !.sent = TRUE])
    /\ UNCHANGED <<worker, cluster>>

\* The connection is refused after all, or its timer expires.
ConnectFailed(r) ==
    /\ Quiet /\ q[r].st = "connecting"
    /\ \E ft \in {"ERROR", "TIMEOUT"} : Set(r, NextUpstream(q[r], ft))
    /\ UNCHANGED <<worker, cluster>>

\* Fault: no read timer is armed, so only an answer ends the wait.
LostWithoutTimer(r) ==
    /\ Quiet /\ q[r].st = "replied"
    /\ Set(r, NextUpstream([q[r] EXCEPT !.lost = @ + 1], "ERROR"))
    /\ UNCHANGED <<worker, cluster>>

\* The peer closes the connection, or the read timer expires, before the
\* reply is processed.  A closed cached connection is not counted.
Lost(r) ==
    /\ Quiet /\ q[r].st \in {"sent", "replied"}
    /\ \E ft \in {"ERROR", "TIMEOUT"} :
         Set(r, NextUpstream([q[r] EXCEPT !.lost = @ + 1], ft))
    /\ UNCHANGED <<worker, cluster>>

\* Fault: the reply to ASKING is not skipped.
SeenWithoutSkip(x) == IF x.bufs.asks > 0 THEN "OK" ELSE x.rep

\* The reply process_header reads: behind ASKING it skips the five bytes of
\* one "+OK", and it reads the first reply only.
Seen(x) ==
    LET left == x.bufs.asks - (IF x.moved = "ASKING_END" THEN 1 ELSE 0)
    IN  IF left > 0 THEN "OK" ELSE IF left < 0 THEN "TEST" ELSE x.rep

\* The reply reaches RedisProtoDecode and is looked at.
Decoded(x) ==
    x.moved \notin {"ASK", "ASKING"} /\ Seen(x) # "TEST" /\ x.code = "OK"

\* ProcessMoved fails: the redirect does not name its node by an IPv4 address
\* and a port (a node without a known address, a hostname).
Misnamed(x) == Seen(x) \in {"MOVED", "ASK"} /\ x.to = NoNode

\* Fault: a redirect is reported to the parent like an error.
RedirectTells(x) ==
    IF x.moved = "ASKING_END" \/ Misnamed(x)
    THEN Finish(ProcessBodyError([x EXCEPT !.code = "STORAGE"]), "200")
    ELSE NextUpstream([TellParent(x) EXCEPT
                          !.moved = IF Seen(x) = "ASK" THEN "ASK" ELSE "MOVED",
                          !.node = IF Seen(x) \in {"MOVED", "ASK"} THEN x.to ELSE x.node],
                      "INVALID_HEADER")

\* A redirect: ProcessMoved takes the node it names; TRYAGAIN and NOSCRIPT
\* name none.  Behind ASKING a second redirect is an error, and so is one
\* whose node cannot be read.
Redirect(x) ==
    IF x.moved = "ASKING_END" \/ Misnamed(x)
    THEN Finish(ProcessBodyError([x EXCEPT !.code = "STORAGE"]), "200")
    ELSE NextUpstream([x EXCEPT !.moved = IF Seen(x) = "ASK" THEN "ASK" ELSE "MOVED",
                                !.node = IF Seen(x) \in {"MOVED", "ASK"} THEN x.to ELSE x.node],
                      "INVALID_HEADER")

\* process_header, process_response and ProcessBody.  ok: the scripts could
\* be loaded, when the reply asks for it.
ProcessHeader(x, ok) ==
    CASE x.moved \in {"ASK", "ASKING"} -> NextUpstream(x, "INVALID_HEADER")
      [] x.moved \notin {"ASK", "ASKING"} /\ Seen(x) = "TEST" -> Finish(x, "500")
      [] x.moved \notin {"ASK", "ASKING"} /\ Seen(x) # "TEST" /\ x.code # "OK" ->
           Finish(ProcessBodyError(x), "200")
      [] Decoded(x) /\ Seen(x) = "OK" -> Finish(x, "200")
      [] Decoded(x) /\ Seen(x) = "ERR" -> Finish([x EXCEPT !.code = "STORAGE"], "200")
      [] Decoded(x) /\ Seen(x) = "NOSCRIPT" /\ ~ok -> Finish(ProcessBodyError(x), "200")
      [] OTHER -> Redirect(x)

\* RedisProtoEncodeLoadScript on NOSCRIPT: nothing to do when a hash is cached.
NeedsLoad(x) == Decoded(x) /\ Seen(x) = "NOSCRIPT" /\ x.node \notin scripts

\* Fault: ASK updates the map too.
LearnsFromAsk(x) ==
    /\ Decoded(x) /\ Seen(x) \in {"MOVED", "ASK"} /\ x.moved # "ASKING_END"
    /\ ~Misnamed(x)

\* ProcessMoved writes the node into the map, behind its checks.
LearnsRoute(x) ==
    Decoded(x) /\ Seen(x) = "MOVED" /\ x.moved # "ASKING_END" /\ ~Misnamed(x)

\* The upstream framework reads a reply and runs process_header on it.
ProcessReply(r) ==
    /\ Quiet /\ q[r].st = "replied"
    /\ \E ok \in BOOLEAN :
         LET x == q[r]
             y == ProcessHeader(x, ok)
             load == ok /\ NeedsLoad(x)
         IN  /\ NeedsLoad(x) \/ ok
             /\ load => x.node \in Nodes
             /\ Set(r, y)
             /\ scripts' = IF load THEN scripts \cup {x.node} ELSE scripts
             /\ loaded' = IF load THEN loaded \cup {x.node} ELSE loaded
             /\ route' = IF LearnsRoute(x)
                         THEN [route EXCEPT ![x.slot] = x.to] ELSE route
             /\ idle' = IF y.ans = "200" /\ idle[x.at] < MaxIdle
                        THEN [idle EXCEPT ![x.at] = @ + 1] ELSE idle
    /\ UNCHANGED <<mapped, peers, conf, dflt, owner, mig, env>>

\* Fault: the undecodable reply is retried instead of ending the request.
RetryPartialReply(r) ==
    /\ Quiet /\ q[r].st = "replied" /\ q[r].moved = "ASKING_END"
    /\ Set(r, NextUpstream([q[r] EXCEPT !.moved = "MOVED"], "INVALID_HEADER"))
    /\ UNCHANGED <<worker, cluster>>

\* Only the "+OK" of ASKING has arrived: the byte behind it is a digit left
\* in the buffer by the "-ASK <slot> ..." line, and decoding fails.
ProcessPartialReply(r) ==
    /\ Quiet /\ q[r].st = "replied" /\ q[r].moved = "ASKING_END"
    /\ Set(r, Finish(q[r], "500"))
    /\ UNCHANGED <<worker, cluster>>

\* nginx notices that an idle connection was closed.
IdleClosed(p) ==
    /\ Quiet /\ idle[p] > 0
    /\ idle' = [idle EXCEPT ![p] = @ - 1]
    /\ UNCHANGED <<q, mapped, route, scripts, peers, conf, dflt, cluster>>

-----------------------------------------------------------------------------
(* The cluster (external), as the proxy sees it *)

Answer(r, rep, to, ran) ==
    /\ Set(r, [q[r] EXCEPT !.st = "replied", !.rep = rep, !.to = to,
                           !.execs = IF ran THEN @ + 1 ELSE @])
    /\ UNCHANGED <<worker, cluster>>

Sent(r) == q[r].st = "sent"

\* The node would run the command: it owns the slot, or imports it and was
\* sent ASKING first.
Serves(x) ==
    \/ x.at = owner[x.slot]
    \/ x.at = mig[x.slot] /\ x.bufs.asks > 0

ToServer(r) == Sent(r) /\ q[r].at \in Nodes /\ q[r].bufs.body = "CMD"

\* The manager of this repository answers "test", a Redis answers a status.
ServeBackup(r) ==
    /\ Sent(r) /\ q[r].at = Backup
    /\ \E rep \in BackupReplies : Answer(r, rep, NoNode, FALSE)

\* Whatever listens on 0.0.0.0:80 does not speak the Redis protocol.
ServeDefault(r) == Sent(r) /\ q[r].at = Default /\ Answer(r, "TEST", NoNode, FALSE)

ServePing(r) ==
    /\ Sent(r) /\ q[r].at \in Nodes /\ q[r].bufs.body = "PING"
    /\ Answer(r, "OK", NoNode, FALSE)

ServeCommand(r) ==
    /\ ToServer(r) /\ Serves(q[r])
    /\ q[r].script => q[r].at \in loaded
    /\ Answer(r, "OK", NoNode, TRUE)

ServeError(r) == ToServer(r) /\ Serves(q[r]) /\ Answer(r, "ERR", NoNode, FALSE)

ServeNoScript(r) ==
    /\ ToServer(r) /\ Serves(q[r])
    /\ q[r].script /\ q[r].at \notin loaded
    /\ Answer(r, "NOSCRIPT", NoNode, FALSE)

ServeTryAgain(r) ==
    /\ ToServer(r) /\ Serves(q[r]) /\ mig[q[r].slot] # NoNode
    /\ Answer(r, "TRYAGAIN", NoNode, FALSE)

\* The node a redirect names, or no address the proxy can read.
Named(n) == {n, NoNode}

ServeAsk(r) ==
    /\ ToServer(r) /\ q[r].at = owner[q[r].slot] /\ mig[q[r].slot] # NoNode
    /\ \E to \in Named(mig[q[r].slot]) : Answer(r, "ASK", to, FALSE)

ServeMoved(r) ==
    /\ ToServer(r) /\ ~Serves(q[r])
    /\ \E to \in Named(owner[q[r].slot]) : Answer(r, "MOVED", to, FALSE)

Serve(r) ==
    \/ ServeBackup(r) \/ ServeDefault(r) \/ ServePing(r)
    \/ ServeCommand(r) \/ ServeError(r) \/ ServeNoScript(r)
    \/ ServeTryAgain(r) \/ ServeAsk(r) \/ ServeMoved(r)

StartMigration(s, n) ==
    /\ env < MaxEnv /\ env' = env + 1
    /\ mig[s] = NoNode /\ n # owner[s]
    /\ mig' = [mig EXCEPT ![s] = n]
    /\ UNCHANGED <<q, worker, owner, loaded>>

FinishMigration(s) ==
    /\ env < MaxEnv /\ env' = env + 1
    /\ mig[s] # NoNode
    /\ owner' = [owner EXCEPT ![s] = mig[s]]
    /\ mig' = [mig EXCEPT ![s] = NoNode]
    /\ UNCHANGED <<q, worker, loaded>>

\* A restarted node has forgotten its scripts.
RestartNode(n) ==
    /\ env < MaxEnv /\ env' = env + 1
    /\ loaded' = loaded \ {n}
    /\ UNCHANGED <<q, worker, owner, mig>>

-----------------------------------------------------------------------------
\* A worker that has served before: it may hold a map, have added peers and
\* keep idle connections to them.
Init ==
    /\ q = [r \in Reqs |-> Blank]
    /\ mapped \in BOOLEAN
    /\ route \in [Slots -> Nodes \cup {NoNode}]
    /\ ~mapped => route = [s \in Slots |-> NoNode]
    /\ scripts = {} /\ loaded = {}
    /\ \E known \in Histories :
         /\ peers = known \cup {Default}
         /\ idle = [p \in Peers |-> IF p \in known THEN InitIdle ELSE 0]
    /\ conf = ConfTries /\ dflt = 0
    /\ owner \in [Slots -> Nodes]
    /\ mig = [s \in Slots |-> NoNode]
    /\ env = 0

\* Every request is answered; the worker waits for more.
Idle == (\A r \in Reqs : q[r].st = "done") /\ UNCHANGED vars

Create(r) == RejectRequest(r) \/ UnroutableRequest(r) \/ ForwardRequest(r)
EndConnecting(r) == Established(r) \/ ConnectFailed(r)
EndReading(r) == Lost(r) \/ ProcessReply(r) \/ ProcessPartialReply(r)

Next ==
    \/ \E r \in Reqs :
         \/ Create(r) \/ Connect(r) \/ ConnectBusy(r)
         \/ EndConnecting(r) \/ EndReading(r) \/ Serve(r)
    \/ \E p \in Peers : IdleClosed(p)
    \/ \E s \in Slots, n \in Nodes : StartMigration(s, n)
    \/ \E s \in Slots : FinishMigration(s)
    \/ \E n \in Nodes : RestartNode(n)
    \/ Idle

Spec == Init /\ [][Next]_vars

\* nginx arms a timer for every connection it waits on, so a wait ends even
\* when the cluster never answers; nothing is assumed of the cluster.
Fairness ==
    \A r \in Reqs :
        /\ WF_vars(Connect(r) \/ ConnectBusy(r))
        /\ WF_vars(EndConnecting(r))
        /\ WF_vars(EndReading(r))

FairSpec == Spec /\ Fairness

-----------------------------------------------------------------------------
(* Properties *)

\* process_header skips five bytes exactly when the bytes on the wire begin
\* with ASKING, once; no reply is read in the middle of a redirect.
SkipMatchesBytes ==
    \A r \in Reqs : q[r].st \in {"sent", "replied"} /\ q[r].code = "OK" =>
        /\ q[r].moved \in {"OK", "ASKING_END"}
        /\ q[r].bufs.asks = IF q[r].moved = "ASKING_END" THEN 1 ELSE 0

\* A client is told success only if the cluster ran the command: neither the
\* "+OK" of ASKING nor the answer to a PING is taken for the command's.  The
\* exception is a backup server that accepts a command sent to it by a retry
\* to a random captured peer.
TrueSuccess ==
    \A r \in Reqs : q[r].ans = "200" /\ q[r].code = "OK" =>
        q[r].execs > 0 \/ (q[r].at = Backup /\ q[r].bufs.body = "CMD")

\* A retry may run a command again, but only after an attempt whose reply was
\* lost: redirects and refused connections never duplicate it.
RunsOncePerLoss == \A r \in Reqs : q[r].execs <= q[r].lost + 1

\* However the shared tries setting is overwritten, a request makes at most
\* one attempt per peer of the array it holds and one per stale cached
\* connection.
AttemptsBounded ==
    \A r \in Reqs : q[r].hp <= Cardinality(q[r].cap) + q[r].stale

\* Tries that ACL entries give to other requests do not become the default
\* of requests that have none, although they overwrite the configuration.
DefaultTriesKept == ConfTries > 0 /\ dflt > 0 => dflt = ConfTries

\* What a sub-request leaves in its parent's code: success leaves it alone,
\* and an HTTP error never resets it to OK.
SubRequestContract ==
    \A r \in Reqs : q[r].st = "done" /\ q[r].sub =>
        /\ q[r].ans = "200" /\ q[r].code = "OK" => q[r].pcode = "unset"
        /\ q[r].ans # "200" => q[r].pcode # "OK"

\* The change of a slot is the one a MOVED reply asks for.
ChangesByMoved ==
    mapped => \A s \in Slots : route'[s] # route[s] =>
        \E r \in Reqs : /\ q[r].st = "replied" /\ q[r].rep = "MOVED"
                       /\ q[r].slot = s /\ route'[s] = q[r].to /\ q[r].to # NoNode

\* Once loaded, the slot map changes only by a MOVED reply, for its slot and
\* to the node it names; ASK, TRYAGAIN, failures and a MOVED whose node cannot
\* be read leave it alone.
RouteFollowsMoved == [][ChangesByMoved]_vars

\* A slot missing from the loaded map is never learned: its requests are not
\* sent, so no MOVED reply can name its node.
MissingSlotStays ==
    [][mapped => \A s \in Slots : route[s] = NoNode => route'[s] = NoNode]_vars

\* The attempt that goes to the backup server because the tries are used up
\* sends the PING that CreateRequestError encodes.
LastTrySendsPing ==
    \A r \in Reqs : q[r].st = "sent" /\ q[r].code = "TIMEOUT" /\ q[r].at = Backup
        => q[r].bufs.body = "PING"

\* A request that fails parsing or the ACL check is answered with the JSON of
\* its error code.
RejectedGetsJson ==
    \A r \in Reqs : q[r].st = "done" /\ q[r].code = "REJECTED" => q[r].ans = "200"

\* A request makes no more attempts than its interface's entry allows.
OwnTriesRespected ==
    \A r \in Reqs : q[r].st # "done" /\ q[r].tries > 0
        => q[r].hp <= q[r].tries + q[r].stale

\* A NOSCRIPT reply that is retried has loaded the scripts into the node.
NoScriptReloads ==
    [][\A r \in Reqs :
         /\ q[r].st = "replied" /\ Decoded(q[r]) /\ Seen(q[r]) = "NOSCRIPT"
         /\ q'[r].st = "connect" /\ q'[r].lost = q[r].lost
         => q[r].node \in loaded']_vars

\* Every request is answered, whatever the cluster does.
Answered == \A r \in Reqs : q[r].st # "new" ~> q[r].st = "done"

=============================================================================
