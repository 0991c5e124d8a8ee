# A TLA+ verification of the qkpack proxy

The repository is a Tengine (nginx) build with a module, `module_qkpack`, that
turns HTTP/JSON requests into Redis commands and forwards them to a Redis
Cluster. This directory holds TLA+ models of it, the TLC configurations that
check them on small instances, and TLAPS proofs for every value of the
constants.

Contents: [the system](#1-the-system), [the modules](#2-the-modules-and-the-code),
[the runs](#3-the-runs), [the proofs](#4-the-proofs),
[disagreements](#5-where-code-and-comments-disagree),
[what is left out](#6-what-is-not-modelled), [what could follow](#7-what-could-follow).

## 1. The system

A master process starts workers, replaces those that die, and reloads or ends
them on signals. A worker is one single-threaded process. It runs one event at a
time (bytes arrive, a connection completes or breaks, a timer expires); between
two events of one request any events of other requests may come. So an action of
a model is one event, and interleaving is the order of events.

A client's request is first checked against what the authority service has
granted to its application, then takes one of two paths.

* A **single command** (`qkupstream_pass`). The plugin parses the JSON, finds
  the slot's node in its slot map and encodes the command. nginx's upstream
  framework connects to the node, sends the bytes and hands the reply to the
  plugin, which answers, or asks for another attempt: MOVED and ASK name another
  node, TRYAGAIN and NOSCRIPT retry, and failures retry on another peer. Errors
  are sent through a backup server: the proxy sends it a PING and answers with
  JSON when the reply comes.
* A **batch** (`qksubrequest`: MGET, MSET and the four operations on fixed
  sets). The plugin cuts it into rounds of nginx sub-requests, each of which is
  a single command on the first path, and the handler is run again as they end.

### Inventory

| component | state | operations | what is hard |
|---|---|---|---|
| qkupstream handler (`qkupstream/ngx_upstream_handler.c`, `ngx_upstream_interface.cc`) | the context, the redirect state, `request_bufs`, shared tries and timeouts | create, reinit, process_header, finalize | the reply to ASKING is skipped by redirect state while the bytes are replaced elsewhere; settings of one request overwrite the configuration all others read |
| node balancer (`ngx_http_qkupstream_node_module.c`) | the captured peer array, the attempt count | init_peer, update_nodes, get_peer, free_peer | uninitialised loop counter; the round-robin fallback ignores redirects |
| dynamic peers (`ngx_upstream_util.c`) | the worker's peer array, timers | add a peer, free old arrays later | requests hold arrays that grow or are replaced |
| plugin lifecycle (`qkpack_handler.cc`) | `qkpack_request_t` | CreateRequest, ReinitRequest, ProcessBody, the two error handlers | errors travel through a backup server |
| access control (`qkpack_acl.cc`, `easycurl.cc`) | cached entries per key | check, ask the service, match the client's network | a blocking question whose answer may be late, partial or changed; entries shared by clients |
| cluster routing (`redis_cluster.cc`) | slot map per cluster | load, lookup, MOVED/ASK | loaded once, from a node whose view may be stale |
| slot hash (`redis_slot.cc`) | none | key to slot | a table, signed bytes, hash tags |
| protocol codec (`redis_proto.cc`) | cached script hashes | encode, decode, SCRIPT LOAD | hashes outlive the node's scripts |
| reply framing (`ngx_redis_protocol.c`) | none | decode a prefix of a reply | replies arrive in pieces |
| qksubrequest handler (`ngx_http_qksubrequest_module.c`, `ngx_subrequest_interface.cc`) | phase, sub-requests, plugin request | the phase machine, run again and again | reference counts paid by hand, order of ends, flushing, one destroy on every path |
| batch commands (`qkpack_parser_impl.cc`) | phase, `vector_sub`, sub-request list | one create and one process function per type | cutting lists into rounds |
| Tengine's upstream, sub-request and keepalive code | peer tries, `r->main->count`, postponed list, idle connections | next, connect, finalize, run_posted_requests | retries that are not counted |
| master and workers (`ngx_process_cycle.c`, `ngx_process.c`, `ngx_event.c`, `ngx_event_accept.c`, `ngx_shmtx.c`), publish timer (`ngx_http_qkplugin_module.c`) | process table, signals, accept mutex | spawn, reap, reload, terminate, accept | crashes with the mutex held, signals that merge, a reload that overlaps a respawn |
| metrics | meters, samples | update, tick, report | blocking report in the event loop |

`PROJECT.json` lists every component with its sources and status, and the
hazards with the properties that would catch them.

## 2. The modules and the code

| module | models |
|---|---|
| `QkUpstream` | one worker forwarding single commands, and the cluster as it sees it |
| `QkUpstreamInv`, `QkUpstreamProofs` | its inductive invariant; lemmas per handler, lemmas per action and the theorems |
| `QkBatch` | the plugin's batch commands, as operators on its request |
| `QkSubrequest`, `QkSubrequestProofs` | the qksubrequest handler with the part of nginx it relies on, on top of `QkBatch`; its theorems |
| `BatchSpec`, `BatchSpecProofs` | the abstract promise of a batch; the proof that `QkSubrequest` implements it |
| `PeerArray`, `PeerArrayProofs` | the peer array that grows under the requests that hold it, and its delayed free; its theorems |
| `RespFraming`, `RespFramingProofs` | when a reply counts as complete, and what is decoded from it; its theorems |
| `ClusterMap` | from CLUSTER NODES to the slot map, and its correction by redirects |
| `HashTag` | which part of a key is hashed |
| `RoutingProofs` | theorems on the hashed part of a key and on the first load of the map |
| `SlotHash` | the CRC of that part, on top of `HashTag` |
| `Workers`, `WorkersProofs` | the master, its workers, the accept mutex, the publish timer; theorems on the mutex and the table of processes |
| `AccessControl`, `AccessControlProofs` | the check of a request, the cached entries, the authority service; its theorems |
| `MC...` | instances for TLC |

`map` in `PROJECT.json` gives the source lines of every definition. Operators
described as "Fault" are plausible mistakes in the definition that follows
them. No specification uses them; they are there to show that a property
notices the mistake.

How the modules fit together:

* `AccessControl` decides whether a request reaches the other modules and with
  how many tries; `QkUpstream` takes the decision and the tries as inputs.
* `SlotHash` and `ClusterMap` explain `mapped` and `route` of `QkUpstream`, which
  starts from any loaded map.
* `QkUpstream` receives whole replies; `RespFraming` is what happens before that.
* `QkUpstream` lets an array grow under its holders or not (`Shared`);
  `PeerArray` is when it does, and what happens to the array left behind.
* A sub-request of `QkSubrequest` is a request of `QkUpstream`. The link is
  `SubRequestContract`, which says what an answered sub-request may have left in
  its parent's code, and `Answered`, which justifies the fairness of `SubEnds`.
* `Workers` is where the worker of all the others is started and ended; the
  others start from the state of a new worker, or have a step that replaces it.

### QkUpstream

`q[r]` is a request: the fields of `qkpack_request_t`, of the handler's context
and of `ngx_http_upstream_t` that decide what happens next, with their source
names in comments. `mapped` and `route` are the slot map, `scripts` the cached
script hashes, `peers` the worker's peer array, `conf` the tries in the shared
location configuration, `dflt` the static that caches them, `idle` the
keepalive cache. `owner`, `mig` and `loaded` are the cluster (external).

A handler is an operator from the record it finds to the record it leaves
(`CreateRequestError`, `ReinitRequest`, `GetPeer`, `ReinitBufs`,
`NextUpstream`, `ProcessHeader`, ...), and an action composes the handlers one
event runs. `ngx_http_upstream_next` connects again within the same event, so a
request in state `"connect"` is inside its event and `Quiet` keeps every other
event of the worker out. The cluster may take steps at any time.

Data is abstracted to what the properties tell apart: the bytes on the wire are
a number of ASKING commands and a body, command or PING; a reply is its class and,
for a redirect, the node it names. A redirect may also name none the proxy can read
(`Misnamed`: an empty address, a host name, anything but one IPv4 address and a
port). `ProcessMoved` then fails, the map stays as it is, and the request ends with
an error, as it does when a second redirect comes behind ASKING (`Redirect`).
Undefined behaviour is a free choice: `update_nodes` uses an uninitialised loop
counter, so `Candidates` lets a retry pick any captured peer. So is whether a
peer array grows where it is (`Shared`): that depends on what else the memory
pool holds, and the requests that captured the array see the new peer only then.

### QkBatch and QkSubrequest

`QkBatch` has one operator per `CreateSubRequest*` and `Process*` function, from
request to request, with the returned code in `rc`. The maps of a request are
walked in order, so `vector_sub` is always a final part of its list and only its
length is kept.

`QkSubrequest` is the content handler answering one batch. `phase`, `waiting`
and `cur` are its context; `data` tells whether the plugin's request is
allocated; `active`, `postponed`, `posted`, `wev`, `count` and `left` are nginx's
`c->data`, postponed list, posted requests, write handler, `r->main->count` and
sub-request budget. What a sub-request does between its start and its end is
`QkUpstream`; here it may write a code to its parent and end in one of four ways.

`BatchSpec` says what a client may rely on: nothing is issued twice, rounds do
not overlap, keys come before slots, rounds of writes are bounded, and success
is reported only after every item has ended. An error is reported between
rounds; the connection may be aborted at any time, also when the slots of a range
query have just become known and their round cannot be issued.
`ImplementsPromise` maps `QkSubrequest` to it.

### PeerArray

Sizes are counted in peers. `arrays` are the arrays allocated so far, `peers` the
one the worker uses, `timers` the delayed frees, `conns` the clients'
connections with the start of their `current_request`, `subs` what each
sub-request captured: its array and the size of its bitmap. An array of at most
`PoolMax` peers may grow in place (`MayGrow`); otherwise `CopyAndDelay` copies
it, and arms a timer if it had its own allocation. `DelayDelete` is that timer.

### RespFraming

Bytes are tokens; numbers are written and read digit by digit, since both decoders
compute with the number of digits. `Recv` is one turn of `ngx_http_upstream_process_header`: some
more bytes have arrived and the whole buffer goes through `ProtoDecode`
(`ngx_redis_proto_decode`). The buffer is not terminated, so `Tails` says what a
decoder finds that walks past the received bytes. An accepted reply goes through
`RedisProtoDecode`, the plugin's own decoder. `Elements` and `Steps` are the two
loops over the elements of an array: functions from the number of turns to the
pointer, the length and the values after them. `strtol` (with base 0: a leading
zero means octal digits) and the node's encoding are external.

### ClusterMap, HashTag and SlotHash

`GetNode` loads the map: the first seed that accepts a connection answers CLUSTER
NODES, in any order of lines; `SetMemNode` turns a line into slots, with the
flags, link states, ranges and migration tokens a line may have, and `SlotMaps`
is the loop over the lines. Any state of the cluster is initial; with no seed
list nothing is ever loaded. `noaddr` are masters whose address the others do not
know: a line flags them so, and a MOVED to them changes nothing, because
`ProcessMoved` finds no address in it. `HashTag` is the search for the braces in
`key_hash_slot`. `SlotHash` runs `crc16` byte by byte with the source's
table; its reference is a division of polynomials, bit by bit.

### Workers

The master sleeps in `sigsuspend`, so an iteration of its loop is `Wake` (signal
handlers and reaping) and then one of `Terminate`, `Quit`, `Reconfigure`,
`ShutOldDown`. A worker's iteration is `Enter` (up to `epoll_wait`, where it may
hold the accept mutex) and `Events`. `table` is `ngx_processes`, `proc` what the
processes really do; the two differ until a signal or a channel message is
handled. Pending signals are a set: two ends of children are one `CHLD`.

### AccessControl

`book` is everything the authority service has answered so far, so a property can
say which answer a decision rests on. `CreateRequest` refuses, decides by the
cached entry (`Decide`), or asks. The question is a blocking POST: the worker
does nothing until `Receive` or `PostFails`, while the service and other workers
go on. What the answer lacks decides whether it is an entry, an error, or ends
the worker (`ReadACLResponse`): a missing part is an error, but a missing default
and a route whose name is not a string are made into a `std::string` from NULL.

`NamesIn` gives, for the uri of an interface, the names an answer may use that occur
in it: limits and timeouts are looked up with `std::string::find`, so a name may
apply to several interfaces. `net` is the part of the client's address that
`GetNodeList` looks up. If it is longer than the ten bytes `GetNodeList` copies it
to (`wide`), which no IPv4 address is, the behaviour is undefined: the worker goes
on as if it had fitted, or ends (`NodeListOverruns`).

## 3. The runs

| run | instance | checks | states |
|---|---|---|---|
| `upstream_one` | one request of any kind, 2 nodes, 1 slot, 4 configured tries or 3 of the access list, 2 cluster events, fresh and warm workers | `IInv`, `SkipMatchesBytes`, `TrueSuccess`, `RunsOncePerLoss`, `AttemptsBounded`, `SubRequestContract`, `MissingSlotStays` | 915 000 |
| `upstream_two` | two interleaved requests, 1 cluster event | `DefaultTriesKept`, `RouteFollowsMoved` | 1 432 000 |
| `upstream_live` | one EVALSHA, round-robin fallback after two node tries, fair | `Answered` | 278 000 |
| `batch` | every batch type, rounds of 2 slots and of 1 key, lists of up to 4, at most 3 open sub-requests, fair | `CountMatches`, `DestroyedOnce`, `WrittenOnce`, `ParentAlive`, `StopsAfterError`, `ImplementsPromise`, `Closes` | 98 000 |
| `framing` | every reply of up to 3 elements, values of 0 and of 10 bytes and nulls, cut at every place, with and without the reply to ASKING, 3 kinds of memory behind it | `BulkExact`, `NoLateArray`, `EarlyByLastElement`, `DecodedIsSent` | 15 000 |
| `peer_array` | 2 connections with 2 sub-requests each, 2 configured and 3 added peers, 3 ticks | `HeldIsLive`, `BitmapCovers` | 230 000 |
| `cluster_map` | 2 masters, 1 slave, 3 slots, 2 seed lists, any cluster state, fair | `LoadsOwners`, `LoadsSettled`, `Heals` | 98 000 |
| `slot_hash` | every byte alone and after another, every key of up to 5 bytes over `a`, `{`, `}` | `CrcIsRemainder`, `HashesTag` | 3 000 |
| `workers` | 2 workers with the mutex, a reload to 1, a QUIT or a TERM, 1 client, 1 fault, fair | `LockOwner`, `AcceptsByTurn`, `NoOrphan`, `ReloadSplits`, `Shuts`, `Drains`, `Served` | 25 000 |
| `access_control` | 1 worker, 2 keys of one cluster, 7 requests, 4 answers, 1 change, 1 fault, fair | `EntryIsAnswer`, `GrantCovers`, `FirstPolicyLimits`, `SeedsForClient`, `Learns` | 170 000 |
| `noscript_reload`, `batch_success` | small instances | one violated property each, see [5](#5-where-code-and-comments-disagree) | |

What they show:

* **upstream**: the five bytes `process_header` skips are exactly the reply to an
  ASKING on the wire, whatever redirects, refusals, losses and stale connections
  come in between. A reported success is the command's own. A command is run a
  second time only after an attempt whose reply was lost. The attempts of a
  request are bounded by the peer array it holds, although that may grow under
  it. A slot missing from a loaded map is never learned, which is a property of
  the code and not a desirable one. Access-list tries of one request never
  become another's default, although both live in the shared configuration; the
  map changes only by a MOVED that names a node. Every request is answered even if no node ever
  answers, also beyond `MaxNodeTries`, where the fallback does not run
  `update_nodes` and meets redirects half way.
* **batch**: reference counts, the single destroy and the single response hold
  over every order of ends and through the flush; a batch whose plugin reported
  an error issues no further round; the rounds implement `BatchSpec`; every
  batch is closed.
* **framing**: a bulk string is taken exactly when its last byte is there. An
  array that has arrived is not left waiting, but it may be taken before its last
  element has arrived. If the memory behind the buffer is zeroed it is never taken
  earlier than that, up to the digits of its count, which are not counted: with
  10000 elements or more these five bytes can hide the header of one element
  more, so the property is stated for counts of at most four digits. The values
  of a complete reply are the ones that were sent.
* **peer_array**: no live request holds a freed array, although the timer looks
  at one request of each connection, and no bitmap is too small for an array
  that grew under its request.
* **cluster_map**: a cluster at rest is mapped exactly as it is. In any other
  state a slot is wrong only if it is slot 0, and missing only if its master was
  not trusted, had no known address or the seed was loading. A mapped slot that is
  wrong heals.
* **slot_hash**: every entry of the table is right, and the hashed part is the
  tag of the cluster's specification.
* **workers**: the accept mutex never stays with a process that will not release
  it; workers accept by turn; the master loses no child; a crash, a failed fork
  or a respawn during a reload does not mix up old and new workers; QUIT and
  TERM end the master; a waiting client is accepted.
* **access_control**: an entry is a whole answer to that very key since the
  worker started; whoever is let through was allowed all of it, sub-requests
  included; whatever fails, an entry is delayed and not prevented.

Type invariants (and `WaitsForSomeone`, which says what a waiting batch waits
for) have configurations of their own, `MC...Types.cfg`; that of `QkUpstream` is
a theorem. `MCQkUpstreamRoundRobin.cfg` checks `SkipMatchesBytes` on the instance
of `upstream_live`. `MCWorkersReload.cfg` checks the type invariant of `Workers` and
the properties of `workers` where a QUIT follows a reload that may still be under
way (63 000 states). All of these pass.

### Bounds

* Two nodes and one slot: a redirect names at most one other node, and no
  handler of `QkUpstream` relates two slots. With the placeholder and the backup
  server a retry has up to four peers. More nodes only add equal choices (they
  are symmetric; `SYMMETRY` is used only where no liveness is checked).
* Four tries fit a redirect, its ASKING, a failure and the last try to the
  backup server. Two cluster events fit the start and the end of a migration, or
  a migration and a restart.
* `MaxNodeTries` is 50 in the code. The runs use 50, where the fallback is out
  of reach as it is for any small peer array, and 2 to reach it early.
* `MaxIdle`, `InitIdle`: one cached connection per peer shows the cached path
  and its stale form; more only lengthen it.
* `MsetMax` and `BatchAddMax` are 1000 in the code. With 2 and 1, a list of 3
  slots has a full and a short round, a list of 2 slots exactly one, and 2 keys
  two rounds. The limits differ, so keys cut by the limit of slots are noticed.
* `MaxSubrequests` is 16384 in nginx. With 3, a read of 4 slots is refused in its
  first round, and a range query that finds `MaxFound` (3) slots is refused in a
  later one, while a sub-request of the round before has not been finalized.
* `PoolMax` 2 and `WordBits` 3 keep the order of the real values (a pool block
  holds fewer peers than a word has bits, which the proof assumes); three added
  peers give an array that grows, one that is copied and one that is freed.
* `BufferSize` 45 is reached by the longest replies. Three elements are a first,
  a middle and a last one. A length of 10 has two digits, of which one may have
  arrived; its value begins with digits, which strtol would take for more of the
  length.
* Three slots are slot 0, which migration tokens hit, and two others that form
  ranges of one and of two.
* `MaxPid` 4 allows for two workers, one of the new cycle and one respawned.
  `MaxFaults` is 1 in `workers` and `access_control`: one fault anywhere.
* The four answers of `access_control` are two whole ones, one with a missing part
  (an error) and one with a mistyped route (the worker ends; a missing default,
  which ends it the same way, is left to the proofs).
  Each order of the administrator comes alone in the run; the invariants are
  proved for every series of orders.

Deadlock is checked in the upstream, batch and access-control runs. The others
really stop, and set `CHECK_DEADLOCK FALSE`: an attempt is over (`framing`), the
clock bound is reached (`peer_array`), nothing is left to correct
(`cluster_map`), the key is hashed (`slot_hash`), the master has ended
(`workers`).

### Fairness

* `upstream_live` assumes nothing of the cluster: the event loop finishes an
  event it has begun (`Connect`), and a wait for a connection or a reply ends, by
  the awaited event or by the timer nginx arms for each
  (`ngx_http_upstream_connect`, `ngx_http_upstream_send_request`).
* `batch`: posted requests are run before an event ends
  (`ngx_http_run_posted_requests`), some running sub-request ends (which is
  `Answered`), and the body arrives or the client's timer closes the request.
* `cluster_map`: requests for every slot keep coming, nodes that are down come
  back, and the others learn the address of every master (a Redis node announces
  its own). `Heals` needs the last: a MOVED without an address is not applied, so in
  a cluster whose nodes are known by host names or IPv6 addresses nothing heals.
  Whether a worker ends, is replaced or loads its map is left open.
* `workers`: the master and the kernel's timers run (weak); a worker runs (weak);
  and in a worker that polls again and again, the timers of its connections and
  the publish timer expire (strong, since every other event disables and enables
  the expiry).
* `access_control`: clients keep sending well-formed requests for every key, from
  addresses `GetNodeList` has room for (strong: the worker is at times busy with
  another), the service or curl's timeout ends a question, and the master respawns
  a worker.

## 4. The proofs

Every theorem holds for all values of the constants that satisfy the named
`ASSUME` of the component's module. `QkUpstream` assumes that the placeholder, the
backup server and the nodes differ, that there is a node and a slot, and that the
nodes are finitely many; `PeerArray` that a pool block holds fewer peers than a
word has bits; `QkSubrequest` that a batch names keys or slots as its type
requires (MGET and MSET no keys, ZADD and ZRANGE one, a range query no slots
before its keys were read) and that the rounds' limits are positive; `Workers`
that a configuration has a worker; `AccessControl` that the service has some
answer and that the name of an interface occurs in its uri (and `kv/incr` in
`kv/incrby`); `ClusterMap` that the nodes are finitely many and that no master is a
slave; `HashTag` that keys are sequences of bytes; `RespFraming` that values and
memory are too and that the buffer is not empty. The rest says that the
constants have their types.

| module | theorems | states |
|---|---|---|
| `QkUpstreamProofs` | `Invariance` | `Spec => []IInv` |
| | `TypeCorrect`, `SkipSafe`, `SuccessSafe`, `RunsOnceSafe`, `AttemptsSafe`, `DefaultTriesSafe`, `SubRequestSafe` | the invariants, from `IInv` |
| | `RouteSafe`, `MissingSlotSafe` | two action properties, from `IInv` and the step |
| `QkSubrequestProofs` | `ReferencesMatch`, `RequestDestroyedOnce`, `ResponseWrittenOnce`, `ParentStaysAlive`, `ErrorStopsBatch` | `CountMatches`, `DestroyedOnce`, `WrittenOnce`, `ParentAlive`, `StopsAfterError` |
| `BatchSpecProofs` | `KeepsPromise` | `ImplementsPromise`: the handler implements `BatchSpec` |
| `PeerArrayProofs` | `HeldArraysLive`, `BitmapsCover` | `HeldIsLive`, `BitmapCovers` |
| `WorkersProofs` | `MutexIsReleased`, `WorkersTakeTurns` | `LockOwner`, `AcceptsByTurn` |
| | `ChildrenAreKnown`, `ReloadsSplit` | `NoOrphan`, `ReloadSplits` |
| `RespFramingProofs` | `AlwaysFramed` | the verdict is that of the decoder on the bytes in the buffer |
| | `BulkIsExact`, `ArrayIsNeverLate`, `ArrayIsEarlyByLast`, `DecodedIsWhatWasSent` | `BulkExact`, `NoLateArray`, `EarlyByLastElement`, `DecodedIsSent`, for every value, cut and buffer size |
| `AccessControlProofs` | `EntriesAreAnswers`, `GrantsCover` | `EntryIsAnswer`, `GrantCovers` |
| | `FirstPoliciesApply`, `SeedsFit` | `FirstPolicyLimits`, `SeedsForClient` |
| `RoutingProofs` | `LoadGivesOwners`, `LoadAtRestIsExact` | `LoadsOwners`, `LoadsSettled` |
| | `TagIsHashed` | `HashesTag`, for every key |

None of the invariants is inductive; each module strengthens them. `RoutingProofs`
and `RespFramingProofs` are about algorithms, and their weight is in lemmas on
loops.

**QkUpstream.** `SkipMatchesBytes` speaks of requests that wait for a reply, but
what they wait with was put together earlier: ASKING goes into `proto_str` in one
handler, into `request_bufs` in another, and only if the previous attempt had
been sent. `IInv` therefore says, for each state of a request (`Good`):

* `Aligned`: how many ASKINGs `proto_str` and `request_bufs` hold in each
  redirect state, that a redirect is pending only after bytes were sent, and
  that a request with an error code is past its redirects and has told its
  parent;
* `Budget`: attempts made plus tries left, against captured peers plus uncounted
  retries;
* `ReplyMeans`: what the reply on the connection says of executions (nothing is
  assumed of the node a redirect names: `Redirect` and `LearnsRoute` check it);
* `Final`: what is left of an answered request;
* `Routed`: a request without an error was routed through a map that has its
  slot. This is why `MissingSlotStays` holds: a MOVED reply reaches only slots
  already in the map.

The argument has two layers. The first half of `QkUpstreamProofs` has, for each
handler, a lemma on types and one on the invariant, about a single record: for
example `NextUpstreamGood` takes an `Attempting` request to a `Good` one. The
second half lifts them: `RequestStep` says that replacing one good record
keeps `IInv`, `SharedGood` that growing an array under all its holders does, each
action has a lemma, and `NextInv` puts them together.

**QkSubrequest.** `HandlerInv` has five parts. `Shape` is about the lists and
records; `Refs` ties `count` to what nginx has still to finish: an unfinished
sub-request has its turn or is in the postponed list; `Control` says which phase,
write handler and waiting flag go together; `Running` that sub-requests run only
while the handler waits; `Output` that a response that was written has been sent
or is still in the postponed list. Of the plugin these proofs use little more than
that its operators keep the types of a request. `ErrorStopsBatch` needs one more
invariant, `Heeded`: while the handler waits, an error that was reported in the
round and not reset since is the parent's code, which makes
`CreateSubRequestBody` return an error instead of another round.

`KeepsPromise` shows each step of the handler to be a step of `BatchSpec` or to
change nothing it sees. That needs to know where the plugin stands between two
rounds. `Planned` says it for each type of batch: which phases it passes and what
is left in `vector_sub`. From this follow the items issued so far (`Issued`).
`PlanInv` says that, while the handler waits, these are exactly the items of its
sub-requests, each once, and that those of earlier rounds have ended. The
`...Advances` lemmas say of each `CreateSubRequest*` that it returns the next
items of the plan, or ends with the plan complete, or fails.

**PeerArray.** `ArrayInv` relates what a sub-request captured to the
connection's current request and to the timer of the array (`Held`): a request
started before its array was replaced, so the timer that looks at
`current_request` sees it. `Old` keeps arrays that have timers or are freed apart
from the array in use.

**Workers.** `ngx_accept_mutex_held` stays set after the mutex is released, so it
means the lock only inside a poll. `MutexInv` says this, that a worker has its
accept events only with the flag, and that a process id that has not been given
out owns nothing.

`TableInv` is about the master. `Slots` says that two slots never have one process,
that an exited slot's process is gone and that slots from `ngx_last_process` on
are free; `Known` that a child has a slot and `live` is set while there is one;
`Splits` that `just_spawn` marks the current cycle's workers exactly while the
master sleeps between starting them and telling the others to quit, and that
otherwise `exiting` marks the older ones. Several slots are filled in one step, so
the proof counts: slots and new process ids are matched by rank (`RankOnto`).

**RespFraming.** The invariant, `Framed`, only ties the verdict and the decoded
values to what the decoders make of the buffer as it is now; that they do the right
thing is shown in three layers below it.

* Numbers: `DecimalReadsBack` and `NumSizeIs` say that strtol reads back what Redis
  writes and that `NumSize` counts its digits. `StrtolReads` says it of a number
  in memory, `StrtolNull` of `-1`; `StrtolNone` is what strtol makes of zeroed
  memory.
* Layout: `BulkLays` and `EncodeArray` say where the bytes of a value and of the
  elements of an array are. The offsets of the elements are a function
  (`ArrayLays`), so that a turn of a loop can be related to an element.
* Loops: after k turns both loops are at offset k (`ElementsExact`, `StepsExact`),
  as long as the lengths they read have arrived. `ElementsStuck` says that a loop
  that has counted too much stays so, and `CutElement` that a turn at an element
  that has not arrived counts more bytes than there are: whether strtol sees the
  length, only its first digits or none, the uncounted digits of the array's
  count do not outweigh what is missing, if they are at most four. This is the
  argument of `EarlyByLastElement`, and where 10000 elements break it.

**AccessControl.** `AccessInv` says of each worker that its cache, the answer on
its way and its last decision each rest on an answer in `book` since the worker
started. Steps of other workers and of the service only make `book` longer.
`ChosenInv` adds what else a decision and a loaded map keep of their origin: the
limits come from the answer the request was let through by, and a map is from the
default seeds exactly if the client that had it loaded matched no network.

**ClusterMap.** The invariant is small: every slot has a master as its owner. The
argument is about the algorithm. `LineSlots` says how a line of CLUSTER NODES is
read: every slot is one its node owns, except slot 0 if there is a migration, and
they are all of them if the seed trusts the node and knows its address. `LoopSays` says what the loop
leaves in the map: exactly the slots that some line has, each with the node of such
a line.

**HashTag.** The loops of `key_hash_slot` stop at the first brace they meet, if
there is one (`FindFirst`). Each key is then in one of three cases: no opening
brace, no closing one behind it or one right behind it, or a tag.

Where a proof needs induction over a loop, a sequence or the digits of a number, it
takes the first place where the claim would be wrong. That there is a first one is
`LeastNumber` (`NoDescent` in `RespFramingProofs`), from the well-foundedness of the
natural numbers. That a recursive function is what its equation says is shown in the
same way (`TextExists`, `NumExists`, `ElementsDefined`, `StepsDefined`).

Each inductive invariant was checked by TLC on the instances above (`IInv` is
listed in `upstream_one`) before it was proved.

Every safety property of a passing run is a theorem but one. Only model-checked are
`CrcIsRemainder`, which is about bits (`Bitwise`, which the prover does not support),
and all liveness (`Answered`, `Closes`, `Heals`, `Shuts`, `Drains`, `Served`,
`Learns`; the prover does not reason about fairness).

## 5. Where code and comments disagree

Two of these are runs that TLC must find violated (`findings` in `PROJECT.json`
quotes the lines); the others have a configuration each, whose one property TLC
finds violated.

| property | configuration | the code |
|---|---|---|
| `NoScriptReloads` | run `noscript_reload` | on NOSCRIPT the scripts are not loaded again, because their hashes are still cached |
| `SuccessMeansAll` | run `batch_success` | a sub-request that ends with an HTTP error leaves its parent's code alone, and the batch reports success |
| `LastTrySendsPing` | `MCQkUpstreamLastTry` | on the last try a PING is encoded for the backup server, but the bytes on the wire are refreshed only for ASKING, so the command is sent to it |
| `RejectedGetsJson` | `MCQkUpstreamRejected` | a rejected request's error JSON depends on the backup server; if that refuses, is silent, or is this repository's manager (which answers `test`), the client gets a bare HTTP error |
| `OwnTriesRespected` | `MCQkUpstreamOwnTries` | a request's tries are stored in the shared location configuration, so another request replaces them while the first is in flight |
| `FreeOrWait` | `MCPeerArrayScan` | the delayed free ("delay free", `ngx_upstream_util.c:614`) walks all connections from the listening sockets on, whose `log->data` is not an HTTP log context; following it ends the worker |
| `CompleteIsTaken` | `MCRespFramingNil` | a null element of an array is not stepped over with its CR LF (`ngx_redis_protocol.c:66-72`), so a complete reply may be left waiting |
| `NotOkIsAgain` | `MCRespFramingAsking` | while the reply to ASKING has arrived but the next byte has not, or not even all of it, the decoder reads behind the received bytes and may return an error, which ends the attempt (`ngx_upstream_handler.c:294` returns it with the comment `//NGX_AGAIN`) |
| `RoutesToOwner` | `MCClusterMapMigration` | a migration token of CLUSTER NODES is read as slot 0 (`redis_cluster.cc:130`) |
| `LoadedIsComplete` | `MCClusterMapLoading` | the error line of a node that loads its data is read as a node without slots; the empty map is kept (`redis_cluster.cc:65`) |
| `EveryKeyLimited` | `MCAccessControlLimit` | the flag of `GetZsetLimit` is not reset between the sets of a batch addition (`qkpack_acl.cc:93`), so only the first must have a limit; another one outside every policy keeps an uninitialised one |
| `SeedsOfMatch` | `MCAccessControlCluster` | when a client's network matches one cluster of an answer, the map is loaded from the first cluster of the answer, not from the matching one |

Five hazards of `PROJECT.json` are covered by the runs only in part, because the
code itself does what the hazard describes. Their notes name the violated property of
this table that shows the rest; the property of the run says what still holds:
a slot that was left out of the map stays out of it (`MissingSlotStays`), a lost error
text never becomes a success (`TrueSuccess`), the plugin's decoder gets nulls right
(`DecodedIsSent`), a migration token spoils no slot but 0 (`LoadsOwners`), and a set
whose key some policy covers gets its limit (`FirstPolicyLimits`).

Smaller remarks, met while reading:

* `RedisProtoDecode` returns for `:` before its checks for a TTL of -1 and -2.
* Interface names are matched by substring (`NamesIn`), so an entry for `kv/incr`
  applies to `kv/incrby`; lengths are checked only for requests of a single key.
* A worker whose plugin fails to initialise exits with code 2 and is not
  respawned before the next reload; a respawn whose fork fails is tried again
  only when another child ends. If every fork of a reload fails and no old worker
  is left, `live` is not computed again, and neither QUIT nor TERM ends the
  master (beyond `MaxFaults` 1).
* A worker with `ngx_accept_disabled > 0` skips the lock but keeps its accept
  events; `AcceptsByTurn` therefore leaves overloaded workers out.
* `init_process` of the plugin module passes `ctx` where `ctx[i]` is meant.

## 6. What is not modelled

* Most of the tree. It is stock Tengine (modules, event backends, mail, proxying,
  caching, Lua), libraries and tools, about which this proxy's behaviour says
  nothing. The models cover the proxy's own module and the parts of Tengine it
  rests on: upstream, sub-requests, keepalive, master and workers, accept mutex.
  Mapped lines are therefore a small share of all lines.
* `reuse_port`, which `conf/nginx.conf.online` sets together with `accept_mutex
  off` (the model has the mutex on and off, and sockets shared by all workers);
  the change of binary, reopening of logs, cache and helper processes.
* Allocation failures. Blocking calls only delay other events; their timeouts are
  modelled where something else may happen meanwhile (`AccessControl`).
* Timeouts as numbers: a timer may expire at any time, except in `PeerArray`,
  where the order of milliseconds matters.
* The text of JSON and of commands, the case of uris, value conversions,
  compression and logging: no property tells them apart.
* A seed that does not know its own address (`:7004 myself,master`, the example at
  `redis_cluster.cc:242`); the seeds of `ClusterMap` do.
* Metrics: averages and samples in floating point, of which no handler reads
  anything back; the report is one of the blocking calls.
* Directive parsing, which runs once and before any request; string and file
  utilities.
* In the composition: sub-requests, framing, maps and arrays are composed by the
  contracts named in section 2, not in one state space, which would be out of
  TLC's reach.

## 7. What could follow

`reuse_port` in `Workers`; a run of `access_control` with two workers; the CRC with
bits as functions instead of numbers, and a proof of its table.
