----------------------------- MODULE PeerArray -----------------------------
(***************************************************************************)
(* The array of upstream peers that a worker extends while requests hold   *)
(* pointers into it (ngx_upstream_util.c).  A request captures the array   *)
(* when it starts.  Adding a node grows the array in place while it is the *)
(* last allocation of its pool block, or copies it; a copied array that    *)
(* had its own allocation is freed later, by a timer that walks the        *)
(* connections for requests that may still use it.                         *)
(*                                                                         *)
(* Sizes are counted in peers.  A connection's requests are one parent and *)
(* the sub-requests of one round, all started in the same event            *)
(* (QkSubrequest).                                                         *)
(***************************************************************************)
EXTENDS Integers, FiniteSets

CONSTANTS
    Conn,       \* connections
    Sub,        \* sub-requests of a round
    Configured, \* peers of the configured upstream
    PoolMax,    \* pool->max: larger allocations are separate
    WordBits,   \* 8 * sizeof(uintptr_t)
    Delay,      \* NGX_DELAY_DELETE
    MaxPeers,   \* bound: peers added
    MaxTime     \* bound: the clock

ASSUME PeerArrayAssumption ==
    /\ Configured \in Nat \ {0} /\ MaxPeers \in Nat
    /\ PoolMax \in Nat /\ WordBits \in Nat /\ PoolMax < WordBits
    /\ Delay \in Nat \ {0} /\ MaxTime \in Nat

VARIABLES
    now,     \* ngx_timeofday()
    worker,  \* "running"; "exiting": listening sockets closed; "dead"
    peers,   \* uscf->peer.data: the current array
    arrays,  \* every array: peers in it, its own allocation?, freed?
    timers,  \* delayed frees: the array, when it was replaced, when to look
    conns,   \* per connection: open, start of its request and of current_request
    subs     \* per sub-request: live, start, array and bitmap captured

vars == <<now, worker, peers, arrays, timers, conns, subs>>

Ids == 1 .. MaxPeers + 1

TypeOK ==
    /\ now \in 0 .. MaxTime /\ worker \in {"running", "exiting", "dead"}
    /\ peers \in Ids /\ DOMAIN arrays \subseteq Ids /\ peers \in DOMAIN arrays
    /\ \A a \in DOMAIN arrays : 
         arrays[a] \in [n : 1 .. Configured + MaxPeers, large : BOOLEAN, freed : BOOLEAN]
    /\ timers \subseteq [array : DOMAIN arrays, start : 0 .. MaxTime, due : 0 .. MaxTime + Delay]
    /\ conns \in [Conn -> [open : BOOLEAN, born : 0 .. MaxTime, current : 0 .. MaxTime]]
    /\ subs \in [Conn \X Sub ->
                   [live : BOOLEAN, start : 0 .. MaxTime, array : DOMAIN arrays, bits : Nat]]

NoConn == [open |-> FALSE, born |-> 0, current |-> 0]
NoSub == [live |-> FALSE, start |-> 0, array |-> 1, bits |-> 0]

\* The configured array is one allocation (ngx_http_upstream_init_round_robin).
FirstArray == [a \in {1} |-> [n |-> Configured, large |-> Configured > PoolMax, freed |-> FALSE]]

Init ==
    /\ now = 0 /\ worker = "running" /\ peers = 1
    /\ arrays = FirstArray /\ timers = {}
    /\ conns = [c \in Conn |-> NoConn]
    /\ subs = [s \in Conn \X Sub |-> NoSub]

Live(c) == {s \in Sub : subs[<<c, s>>].live}

(***************************************************************************)
(* Requests.                                                               *)
(***************************************************************************)
\* A client's request starts on a connection: it becomes the current request.
Accept(c) ==
    /\ worker = "running" /\ ~conns[c].open
    /\ conns' = [conns EXCEPT ![c] = [open |-> TRUE, born |-> now, current |-> now]]
    /\ UNCHANGED <<now, worker, peers, arrays, timers, subs>>

\* ngx_http_upstream_init_round_robin_peer: the bits of tried[] for n peers.
TriedBits(n) == IF n <= WordBits THEN WordBits
                ELSE ((n + WordBits - 1) \div WordBits) * WordBits

\* A sub-request starts; those of a round start in one event, before any ends.
StartSub(c, s) ==
    /\ worker # "dead" /\ conns[c].open /\ ~subs[<<c, s>>].live
    /\ \A t \in Live(c) : subs[<<c, t>>].start = now
    /\ conns' = [conns EXCEPT ![c].current = now]
    /\ subs' = [subs EXCEPT ![<<c, s>>] =
                  [live |-> TRUE, start |-> now, array |-> peers,
                   bits |-> TriedBits(arrays[peers].n)]]
    /\ UNCHANGED <<now, worker, peers, arrays, timers>>

\* A sub-request ends; the last one of a round runs the parent again.
EndSub(c, s) ==
    /\ worker # "dead" /\ s \in Live(c)
    /\ subs' = [subs EXCEPT ![<<c, s>>] = NoSub]
    /\ conns' = [conns EXCEPT ![c].current = IF Live(c) = {s} THEN conns[c].born ELSE @]
    /\ UNCHANGED <<now, worker, peers, arrays, timers>>

\* The request ends and its connection is closed (idle ones are as closed).
Close(c) ==
    /\ worker # "dead" /\ conns[c].open /\ Live(c) = {}
    /\ conns' = [conns EXCEPT ![c] = NoConn]
    /\ UNCHANGED <<now, worker, peers, arrays, timers, subs>>

(***************************************************************************)
(* ngx_http_qkupstream_add_peer with ngx_prealloc_and_delay.               *)
(***************************************************************************)
\* Fault: an array is grown in place whatever its size.
MayGrowAlways(n) == TRUE

\* old_size <= pool->max: the array may be the last allocation of a block.
MayGrow(n) == n <= PoolMax

\* A copy is made; ngx_pfree_and_delay arms a timer if the old one was large.
CopyAndDelay(a) ==
    /\ arrays' = [b \in DOMAIN arrays \cup {Cardinality(DOMAIN arrays) + 1} |->
                    IF b \in DOMAIN arrays THEN arrays[b]
                    ELSE [n |-> arrays[a].n + 1, large |-> arrays[a].n + 1 > PoolMax,
                          freed |-> FALSE]]
    /\ timers' = IF arrays[a].large
                 THEN timers \cup {[array |-> a, start |-> now, due |-> now + Delay]}
                 ELSE timers

\* A live sub-request connects to a node that the array does not have.
AddPeer(c, s) ==
    /\ worker # "dead" /\ s \in Live(c)
    /\ arrays[peers].n < Configured + MaxPeers
    /\ \/ /\ MayGrow(arrays[peers].n)
          /\ arrays' = [arrays EXCEPT ![peers].n = @ + 1]
          /\ UNCHANGED <<timers, peers>>
       \/ /\ CopyAndDelay(peers)
          /\ peers' = Cardinality(DOMAIN arrays) + 1
    /\ UNCHANGED <<now, worker, conns, subs>>

(***************************************************************************)
(* ngx_http_qkupstream_add_delay_delete, and the life of the worker.       *)
(***************************************************************************)
\* Fault: a request of the same millisecond does not count.
UsesBefore(c, t) == conns[c].open /\ conns[c].current < t.start

\* The connection's current_request started before the array was replaced.
MayUse(c, t) == conns[c].open /\ conns[c].current <= t.start

\* The walk starts at the listening sockets.  log->data of such a connection is
\* the text of its address, not an ngx_http_log_ctx_t: what is read there as
\* current_request is not a pointer, and following it ends the process.
DelayDelete(t) ==
    /\ worker # "dead" /\ now >= t.due
    /\ IF worker = "running"
       THEN worker' = "dead" /\ UNCHANGED <<arrays, timers>>
       ELSE /\ worker' = worker
            /\ IF \E c \in Conn : MayUse(c, t)
               THEN /\ timers' = (timers \ {t}) \cup {[t EXCEPT !.due = now + Delay]}
                    /\ arrays' = arrays
               ELSE /\ timers' = timers \ {t}
                    /\ arrays' = [arrays EXCEPT ![t.array].freed = TRUE]
    /\ UNCHANGED <<now, peers, conns, subs>>

\* ngx_quit in the loop of the worker: the listening sockets are closed.  Idle
\* connections are as closed here; the worker ends when no timer is left, which
\* ends its requests and arrays with it.
Quit ==
    /\ worker = "running" /\ worker' = "exiting"
    /\ UNCHANGED <<now, peers, arrays, timers, conns, subs>>

\* The master starts a new worker in place of one that died (ngx_reap_children).
Respawn ==
    /\ worker = "dead"
    /\ worker' = "running" /\ peers' = 1
    /\ arrays' = FirstArray /\ timers' = {}
    /\ conns' = [c \in Conn |-> NoConn]
    /\ subs' = [s \in Conn \X Sub |-> NoSub]
    /\ now' = now

Tick ==
    /\ now < MaxTime /\ now' = now + 1
    /\ UNCHANGED <<worker, peers, arrays, timers, conns, subs>>

Next ==
    \/ \E c \in Conn : Accept(c) \/ Close(c)
    \/ \E c \in Conn, s \in Sub : StartSub(c, s) \/ EndSub(c, s) \/ AddPeer(c, s)
    \/ \E t \in timers : DelayDelete(t)
    \/ Quit \/ Respawn \/ Tick

Spec == Init /\ [][Next]_vars

(***************************************************************************)
(* Properties.                                                             *)
(***************************************************************************)
\* No live request holds a freed array, although the timer looks at one
\* request per connection only: those of a round started together, and none
\* started after the array it captured was replaced.
HeldIsLive ==
    worker # "dead" =>
      \A c \in Conn : \A s \in Live(c) : ~arrays[subs[<<c, s>>].array].freed

\* The bitmap of tried peers a request captured covers its array, also after
\* the array has grown in place under the request.
BitmapCovers ==
    \A c \in Conn : \A s \in Live(c) :
      arrays[subs[<<c, s>>].array].n <= subs[<<c, s>>].bits

\* The delayed free frees the array or waits on; the worker goes on
\* (ngx_upstream_util.c:614, "delay free").
FreeOrWait == [][worker = "running" => worker' # "dead"]_vars
=============================================================================
