---------------------------- MODULE QkUpstreamInv ----------------------------
(***************************************************************************)
(* The inductive invariant behind the safety properties of QkUpstream: for *)
(* each state of a request, what its redirect state, its bytes, its codes  *)
(* and its counters say of one another.                                    *)
(***************************************************************************)
EXTENDS QkUpstream

\* Redirect state, bytes and codes of an unanswered request.  ASKING is in
\* proto_str once it was put there, and in request_bufs once reinit_request
\* copied it; a redirect is pending only after bytes were sent; a request
\* with an error code is past all redirects, and its parent knows.
Aligned(x) ==
    /\ x.ans = "none"
    /\ x.pcode # "OK"
    /\ x.code = "OK" =>
         /\ x.pcode = "unset"
         /\ x.proto.body = "CMD" /\ x.bufs.body = "CMD"
         /\ x.proto.asks = IF x.moved \in {"ASKING", "ASKING_END"} THEN 1 ELSE 0
         /\ x.bufs.asks = IF x.moved = "ASKING_END" THEN 1 ELSE 0
    /\ x.code # "OK" => x.moved = "OK"
    /\ x.moved \in {"MOVED", "ASK", "ASKING"} => x.sent

\* u->peer.tries and the attempts made, while an attempt is under way (used
\* is 1) or is to be made (0).
Budget(x, used) ==
    /\ x.ptries > 0
    /\ x.hp + x.ptries <= Cardinality(x.cap) + x.stale + used

\* An attempt that may still be given up: no reply of it counts yet.
Attempting(x) == Aligned(x) /\ Budget(x, 1) /\ x.execs <= x.lost

\* The bytes on the wire are the ones process_header expects a reply to.
Settled(x) == Aligned(x) /\ Budget(x, 1) /\ x.moved \in {"OK", "ASKING_END"}

\* What the reply on the connection says of the executions.
ReplyMeans(x) ==
    /\ x.rep = "OK" => /\ x.execs <= x.lost + 1
                       /\ x.code = "OK" => x.execs > 0 \/ x.at = Backup
    /\ x.rep # "OK" => x.execs <= x.lost

\* What is left of an answered request.
Final(x) ==
    /\ x.ans = "200" /\ x.code = "OK" =>
         x.execs > 0 \/ (x.at = Backup /\ x.bufs.body = "CMD")
    /\ x.execs <= x.lost + 1
    /\ x.hp <= Cardinality(x.cap) + x.stale
    /\ x.sub => /\ x.ans = "200" /\ x.code = "OK" => x.pcode = "unset"
                /\ x.ans # "200" => x.pcode # "OK"

Good(x) ==
    /\ x.st = "new" => x = Blank
    /\ x.st = "connect" => Attempting(x) /\ Budget(x, 0)
    /\ x.st = "connecting" => Settled(x) /\ x.execs <= x.lost
    /\ x.st = "sent" => Settled(x) /\ x.execs <= x.lost /\ x.sent
    /\ x.st = "replied" => Settled(x) /\ ReplyMeans(x) /\ x.sent
    /\ x.st = "done" => Final(x)

\* A request under way without an error was routed through the map.
Routed(x, known, map) ==
    x.st \notin {"new", "done"} /\ x.code = "OK" => known /\ map[x.slot] # NoNode

\* The inductive invariant: every request is Good and Routed, the placeholder
\* never leaves the peer array, and the default tries are the configured ones
\* until and after process_request caches them.
IInv ==
    /\ TypeOK
    /\ \A r \in Reqs : Good(q[r]) /\ Routed(q[r], mapped, route)
    /\ Default \in peers
    /\ ConfTries > 0 => dflt = ConfTries \/ (dflt = 0 /\ conf = ConfTries)

=============================================================================
