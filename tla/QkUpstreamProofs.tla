-------------------------- MODULE QkUpstreamProofs --------------------------
(***************************************************************************)
(* The safety properties of QkUpstream for every cluster, every number of  *)
(* requests and every setting.  IInv (QkUpstreamInv) is shown inductive    *)
(* and the properties follow from it.  The first half has lemmas per       *)
(* handler: it keeps the type of a request record and its part (Good) of   *)
(* the invariant.  The second half has a lemma per action.                 *)
(***************************************************************************)
EXTENDS QkUpstreamInv, FiniteSetTheorems, TLAPS

-----------------------------------------------------------------------------
(* Handlers keep the type of a request *)

\* The upstream framework ends a request: its record keeps its type.
LEMMA FinishType ==
    ASSUME NEW x \in Request, NEW a \in Answers
    PROVE  Finish(x, a) \in Request
<1> DEFINE y == [x EXCEPT !.st = "done", !.ans = a, !.rep = "none", !.to = NoNode,
                          !.moved = "OK", !.node = x.at, !.proto = x.bufs]
<1>1. x.at \in Peers /\ x.bufs \in Bytes
  BY DEF Request
<1>2. "done" \in Phases /\ "none" \in Replies /\ "OK" \in MovedAsk
  BY DEF Phases, Replies, MovedAsk
<1>3. y \in Request
  BY <1>1, <1>2, Zenon DEF Request
<1>4. Finish(x, a) = [y EXCEPT !.tries = 0, !.ptries = 0, !.us = 0,
                               !.sent = FALSE, !.cached = FALSE]
  BY DEF Finish
<1>5. ASSUME NEW z \in Request
      PROVE  [z EXCEPT !.tries = 0, !.ptries = 0, !.us = 0,
                       !.sent = FALSE, !.cached = FALSE] \in Request
  BY ZenonT(30) DEF Request
<1>6. QED BY <1>3, <1>4, <1>5, Zenon

\* Telling the parent changes only what was told.
LEMMA TellParentType ==
    ASSUME NEW x \in Request
    PROVE  TellParent(x) \in Request
BY DEF TellParent, Request

\* ProcessBodyError keeps the type of a request.
LEMMA ProcessBodyErrorType ==
    ASSUME NEW x \in Request
    PROVE  ProcessBodyError(x) \in Request
<1>1. TellParent(x) \in Request
  BY TellParentType
<1>2. ASSUME NEW z \in Request, NEW c \in Codes
      PROVE  [z EXCEPT !.code = c] \in Request
  BY DEF Request
<1>3. (IF x.code = "OK" THEN "UNKNOWN" ELSE x.code) \in Codes
  BY DEF Request, Codes
<1>4. QED BY <1>1, <1>2, <1>3 DEF ProcessBodyError

\* CreateRequestError keeps the type of a request.
LEMMA CreateRequestErrorType ==
    ASSUME NEW x \in Request
    PROVE  CreateRequestError(x) \in Request
<1>1. TellParent(x) \in Request
  BY TellParentType
<1>2. Backup \in Peers /\ Ping \in Bytes
  BY DEF Peers, Ping, Bytes
<1>3. ASSUME NEW z \in Request, NEW n \in Peers, NEW b \in Bytes
      PROVE  [z EXCEPT !.node = n, !.proto = b] \in Request
  BY Zenon DEF Request
<1>4. QED BY <1>1, <1>2, <1>3, Zenon DEF CreateRequestError

\* ReinitRequest keeps the type of a request.
LEMMA ReinitRequestType ==
    ASSUME NEW x \in Request
    PROVE  ReinitRequest(x) \in Request
<1> DEFINE last == x.tries > 0 /\ x.hp = x.tries - 1
<1>1. [x EXCEPT !.moved = "OK", !.code = "TIMEOUT"] \in Request
  BY Zenon DEF Request, MovedAsk, Codes
<1>2. [x.proto EXCEPT !.asks = @ + 1] \in Bytes
  BY DEF Request, Bytes
<1>3. [x EXCEPT !.moved = "ASKING", !.proto = [x.proto EXCEPT !.asks = @ + 1]] \in Request
  BY <1>2, Zenon DEF Request, MovedAsk
<1>4. CASE last
  BY <1>1, <1>4, CreateRequestErrorType DEF ReinitRequest
<1>5. CASE ~last /\ x.moved = "ASK"
  BY <1>3, <1>5 DEF ReinitRequest
<1>6. CASE ~last /\ x.moved # "ASK"
  BY <1>6 DEF ReinitRequest
<1>7. QED BY <1>4, <1>5, <1>6

\* get_peer keeps the type of a request.
LEMMA GetPeerType ==
    ASSUME NEW x \in Request, NEW p \in Peers
    PROVE  GetPeer(x, p) \in Request
<1> DEFINE y == IF x.hp = 0 THEN x ELSE ReinitRequest([x EXCEPT !.node = p])
<1>1. [x EXCEPT !.node = p] \in Request
  BY DEF Request
<1>2. y \in Request
  BY <1>1, ReinitRequestType
<1>3. [x EXCEPT !.at = p, !.cached = FALSE] \in Request
  BY Zenon DEF Request
<1>4. ASSUME NEW z \in Request, NEW h \in Nat
      PROVE  [z EXCEPT !.at = z.node, !.hp = h, !.cached = FALSE] \in Request
  BY ZenonT(30) DEF Request
<1>5. x.hp + 1 \in Nat
  BY DEF Request
<1>6. [y EXCEPT !.at = y.node, !.hp = x.hp + 1, !.cached = FALSE] \in Request
  BY <1>2, <1>4, <1>5, Zenon
<1>7. QED BY <1>3, <1>6 DEF GetPeer

\* u->peer.tries stays a number, whatever array was captured.
LEMMA PeerTriesLeftType ==
    ASSUME NEW x \in Request
    PROVE  PeerTriesLeft(x) \in Nat
BY DEF PeerTriesLeft, Request

\* ngx_http_upstream_next keeps the type of a request.
LEMMA NextUpstreamType ==
    ASSUME NEW x \in Request, NEW ft
    PROVE  NextUpstream(x, ft) \in Request
<1> DEFINE left   == PeerTriesLeft(x)
           us     == IF conf # 0 THEN x.us + 1 ELSE x.us
           status == IF ft = "TIMEOUT" THEN "504" ELSE "502"
           y      == [x EXCEPT !.rep = "none", !.to = NoNode, !.ptries = left, !.us = us]
           stale  == x.cached /\ ft = "ERROR"
           over   == left = 0 \/ (conf # 0 /\ x.us >= conf)
<1>1. left \in Nat /\ us \in Nat /\ status \in Answers
  BY PeerTriesLeftType DEF Request, Answers
<1>2. y \in Request
  <2> HIDE DEF left, us
  <2> QED BY <1>1, Zenon DEF Request, Replies
<1>3. CASE stale
  <2>1. left + 1 \in Nat /\ x.stale + 1 \in Nat
    BY <1>1 DEF Request
  <2>2. ASSUME NEW n \in Nat, NEW m \in Nat
        PROVE  [x EXCEPT !.rep = "none", !.to = NoNode, !.ptries = n, !.st = "connect",
                         !.stale = m] \in Request
    BY ZenonT(30) DEF Request, Replies, Phases
  <2>3. QED BY <1>3, <2>1, <2>2, Zenon DEF NextUpstream
<1>4. CASE ~stale /\ over
  <2>1. NextUpstream(x, ft) = Finish(y, status)
    BY <1>4 DEF NextUpstream
  <2> HIDE DEF y, status
  <2>2. QED BY <2>1, <1>1, <1>2, FinishType
<1>5. CASE ~stale /\ ~over
  <2>1. NextUpstream(x, ft) = [y EXCEPT !.st = "connect"]
    BY <1>5 DEF NextUpstream
  <2>2. ASSUME NEW z \in Request
        PROVE  [z EXCEPT !.st = "connect"] \in Request
    BY DEF Request, Phases
  <2> HIDE DEF y
  <2>3. QED BY <2>1, <2>2, <1>2
<1>6. QED BY <1>3, <1>4, <1>5

\* The buffer reinit_request leaves keeps the type of a request.
LEMMA ReinitBufsType ==
    ASSUME NEW x \in Request
    PROVE  ReinitBufs(x) \in Request
<1>1. [x EXCEPT !.moved = "OK"] \in Request
  BY DEF Request, MovedAsk
<1>2. [x EXCEPT !.moved = "ASKING_END", !.bufs = x.proto] \in Request
  BY Zenon DEF Request, MovedAsk
<1>3. QED BY <1>1, <1>2, Zenon DEF ReinitBufs

\* A connection, in progress or cached, keeps the type of a request.
LEMMA ConnectedType ==
    ASSUME NEW x \in Request, NEW c \in BOOLEAN
    PROVE  Connected(x, c) \in Request
<1>1. ASSUME NEW z \in Request
      PROVE  [z EXCEPT !.cached = c] \in Request
  BY DEF Request
<1>2. Finish([x EXCEPT !.cached = c], "500") \in Request
  BY <1>1, FinishType DEF Answers
<1>3. ASSUME NEW z \in Request, NEW s \in Phases
      PROVE  [z EXCEPT !.cached = c, !.sent = c, !.st = s] \in Request
  BY Zenon DEF Request
<1>4. (IF c THEN "sent" ELSE "connecting") \in Phases
  BY DEF Phases
<1>5. QED BY <1>2, <1>3, <1>4, ReinitBufsType, Zenon DEF Connected

\* A redirect that is not misnamed names a node.
LEMMA NamedIsNode ==
    ASSUME NEW x \in Request, ~Misnamed(x), Seen(x) \in {"MOVED", "ASK"}
    PROVE  x.to \in Nodes
<1>1. x.to \in Nodes \cup {NoNode}
  BY Zenon DEF Request
<1>2. QED BY <1>1, Zenon DEF Misnamed

\* A redirect keeps the type of a request: it goes to the node it names.
LEMMA RedirectType ==
    ASSUME NEW x \in Request
    PROVE  Redirect(x) \in Request
<1> DEFINE m == IF Seen(x) = "ASK" THEN "ASK" ELSE "MOVED"
           n == IF Seen(x) \in {"MOVED", "ASK"} THEN x.to ELSE x.node
<1>1. m \in MovedAsk /\ (~Misnamed(x) => n \in Peers)
  <2>1. x.node \in Peers
    BY Zenon DEF Request
  <2>2. ~Misnamed(x) => n \in Peers
    BY <2>1, NamedIsNode, ZenonT(40) DEF Peers
  <2>3. QED BY <2>2, Zenon DEF MovedAsk
<1>2. ~Misnamed(x) => [x EXCEPT !.moved = m, !.node = n] \in Request
  <2> HIDE DEF m, n
  <2> QED BY <1>1, Zenon DEF Request
<1>3. [x EXCEPT !.code = "STORAGE"] \in Request
  BY DEF Request, Codes
<1>4. CASE x.moved = "ASKING_END" \/ Misnamed(x)
  BY <1>3, <1>4, ProcessBodyErrorType, FinishType, ZenonT(40) DEF Redirect, Answers
<1>5. CASE ~(x.moved = "ASKING_END" \/ Misnamed(x))
  BY <1>2, <1>5, NextUpstreamType, ZenonT(40) DEF Redirect
<1>6. QED BY <1>4, <1>5, Zenon

\* process_header keeps the type of a request.
LEMMA ProcessHeaderType ==
    ASSUME NEW x \in Request, NEW ok \in BOOLEAN
    PROVE  ProcessHeader(x, ok) \in Request
<1>1. "200" \in Answers /\ "500" \in Answers
  BY DEF Answers
<1>2. [x EXCEPT !.code = "STORAGE"] \in Request
  BY DEF Request, Codes
<1>3. /\ NextUpstream(x, "INVALID_HEADER") \in Request
      /\ Finish(x, "500") \in Request
      /\ Finish(x, "200") \in Request
      /\ Finish(ProcessBodyError(x), "200") \in Request
      /\ Finish([x EXCEPT !.code = "STORAGE"], "200") \in Request
      /\ Redirect(x) \in Request
  BY <1>1, <1>2, NextUpstreamType, FinishType, ProcessBodyErrorType, RedirectType, ZenonT(40)
<1>4. QED BY <1>3, Zenon DEF ProcessHeader

-----------------------------------------------------------------------------
(* Handlers keep the invariant *)

\* A handler never moves a request to another slot, and never turns an error
\* code back into OK.
Kept(x, y) == y.slot = x.slot /\ (y.code = "OK" => x.code = "OK")

\* A captured peer array is finite, so its size is a number.
LEMMA CapSize ==
    ASSUME NEW S \in SUBSET Peers
    PROVE  IsFiniteSet(S) /\ Cardinality(S) \in Nat
<1>1. Peers = (Nodes \cup {Default}) \cup {Backup}
  BY DEF Peers
<1>2. IsFiniteSet(Peers)
  BY <1>1, NamesAssumption, FS_AddElement, Zenon
<1>3. QED BY <1>2, FS_Subset, FS_CardinalityType

\* What the steps below use of arithmetic, for the provers that have none.
LEMMA Counting ==
    ASSUME NEW i \in Nat, NEW j \in Nat
    PROVE  /\ i + 1 \in Nat /\ i + 1 > 0 /\ 0 <= i + j /\ 0 <= i + 1 /\ ~ (0 > 0)
           /\ i <= j => i <= j + 1 /\ i + 1 <= j + 1
  OBVIOUS

\* One idle connection more or less to a peer leaves every count a number.
LEMMA IdleCounts ==
    ASSUME NEW f \in [Peers -> Nat], NEW p \in Peers
    PROVE  /\ [f EXCEPT ![p] = @ + 1] \in [Peers -> Nat]
           /\ f[p] > 0 => [f EXCEPT ![p] = @ - 1] \in [Peers -> Nat]
  OBVIOUS

\* The counters of a request, and the size of the peer array it captured, are numbers.
LEMMA Counters ==
    ASSUME NEW x \in Request
    PROVE  /\ x.cap \in SUBSET Peers /\ Cardinality(x.cap) \in Nat
           /\ x.hp \in Nat /\ x.ptries \in Nat /\ x.stale \in Nat
           /\ x.execs \in Nat /\ x.lost \in Nat
<1>1. /\ x.cap \in SUBSET Peers /\ x.hp \in Nat /\ x.ptries \in Nat /\ x.stale \in Nat
      /\ x.execs \in Nat /\ x.lost \in Nat
  BY Zenon DEF Request
<1> QED BY <1>1, CapSize, Zenon

\* A request with tries left has not made more attempts than it may.
LEMMA BudgetSpent ==
    ASSUME NEW x \in Request, Budget(x, 1)
    PROVE  x.hp <= Cardinality(x.cap) + x.stale
<1>1. /\ Cardinality(x.cap) \in Nat /\ x.hp \in Nat /\ x.ptries \in Nat /\ x.stale \in Nat
  BY Counters, Zenon
<1>2. x.ptries > 0 /\ x.hp + x.ptries <= Cardinality(x.cap) + x.stale + 1
  BY Zenon DEF Budget
<1> QED BY <1>1, <1>2

\* Whatever the reply on the connection means, it is at most one execution.
LEMMA ExecsBound ==
    ASSUME NEW x \in Request, x.execs <= x.lost \/ ReplyMeans(x)
    PROVE  x.execs <= x.lost + 1
<1>1. x.execs \in Nat /\ x.lost \in Nat
  BY Counters, Zenon
<1>2. x.execs <= x.lost => x.execs <= x.lost + 1
  BY <1>1
<1> QED BY <1>2, Zenon DEF ReplyMeans

\* A request record that is not in use.
LEMMA BlankFields ==
    Blank.cap = {} /\ Blank.hp = 0 /\ Blank.execs = 0 /\ Blank.ans = "none"
  BY DEF Blank

\* A peer array that grows in place leaves the request that holds it good.
LEMMA WiderCap ==
    ASSUME NEW x \in Request, NEW c \in SUBSET Peers, x.cap \subseteq c, x.st # "new",
           NEW y, y = [x EXCEPT !.cap = c]
    PROVE  /\ y \in Request /\ Kept(x, y) /\ y.st = x.st /\ y.at = x.at
           /\ Good(x) => Good(y)
           /\ Attempting(x) => Attempting(y)
<1>1. /\ y.st = x.st /\ y.at = x.at /\ y.slot = x.slot /\ y.code = x.code /\ y.ans = x.ans
      /\ y.pcode = x.pcode /\ y.proto = x.proto /\ y.bufs = x.bufs /\ y.moved = x.moved
      /\ y.sent = x.sent /\ y.sub = x.sub /\ y.rep = x.rep /\ y.to = x.to
  BY DEF Request
<1>2. /\ y.ptries = x.ptries /\ y.hp = x.hp /\ y.stale = x.stale /\ y.execs = x.execs
      /\ y.lost = x.lost /\ y.cap = c
  BY DEF Request
<1>3. y \in Request
  BY DEF Request
<1>4. /\ x.ptries \in Nat /\ x.hp \in Nat /\ x.stale \in Nat /\ x.cap \in SUBSET Peers
  BY DEF Request
<1>5. Cardinality(x.cap) \in Nat /\ Cardinality(c) \in Nat /\ IsFiniteSet(c)
  BY <1>4, CapSize
<1>6. Cardinality(x.cap) <= Cardinality(c)
  BY <1>5, FS_Subset
<1>7. Budget(x, 0) => Budget(y, 0)
  BY <1>2, <1>4, <1>5, <1>6 DEF Budget
<1>8. Budget(x, 1) => Budget(y, 1)
  BY <1>2, <1>4, <1>5, <1>6 DEF Budget
<1>9. Aligned(x) => Aligned(y)
  BY <1>1 DEF Aligned
<1>10. Attempting(x) => Attempting(y)
  BY <1>2, <1>8, <1>9 DEF Attempting
<1>11. Settled(x) => Settled(y)
  BY <1>1, <1>8, <1>9 DEF Settled
<1>12. ReplyMeans(x) => ReplyMeans(y)
  BY <1>1, <1>2 DEF ReplyMeans
<1>13. Final(x) => Final(y)
  <2>1. x.hp <= Cardinality(x.cap) + x.stale => y.hp <= Cardinality(y.cap) + y.stale
    BY <1>2, <1>4, <1>5, <1>6
  <2>2. QED BY <1>1, <1>2, <2>1 DEF Final
<1>14. Good(x) => Good(y)
  BY <1>1, <1>2, <1>7, <1>10, <1>11, <1>12, <1>13, ZenonT(40) DEF Good
<1>15. QED BY <1>1, <1>3, <1>10, <1>14, ZenonT(40) DEF Kept

\* What Finish keeps of the request it ends.
LEMMA FinishFields ==
    ASSUME NEW x \in Request, NEW a \in Answers, NEW f, f = Finish(x, a)
    PROVE  /\ f.st = "done" /\ f.ans = a
           /\ f.code = x.code /\ f.pcode = x.pcode /\ f.sub = x.sub /\ f.slot = x.slot
           /\ f.at = x.at /\ f.bufs = x.bufs /\ f.cap = x.cap
           /\ f.execs = x.execs /\ f.lost = x.lost /\ f.hp = x.hp /\ f.stale = x.stale
BY DEF Finish, Request

\* A request that ends satisfies the invariant if its answer, its code and
\* its counters fit together.
LEMMA FinishGood ==
    ASSUME NEW x \in Request, NEW a \in Answers,
           a = "200" /\ x.code = "OK" =>
             x.execs > 0 \/ (x.at = Backup /\ x.bufs.body = "CMD"),
           x.execs <= x.lost + 1,
           x.hp <= Cardinality(x.cap) + x.stale,
           x.sub => /\ a = "200" /\ x.code = "OK" => x.pcode = "unset"
                    /\ a # "200" => x.pcode # "OK"
    PROVE  Good(Finish(x, a)) /\ Kept(x, Finish(x, a)) /\ Finish(x, a).st = "done"
<1> DEFINE f == Finish(x, a)
<1>1. /\ f.st = "done" /\ f.ans = a
      /\ f.code = x.code /\ f.pcode = x.pcode /\ f.sub = x.sub /\ f.slot = x.slot
      /\ f.at = x.at /\ f.bufs = x.bufs /\ f.cap = x.cap
      /\ f.execs = x.execs /\ f.lost = x.lost /\ f.hp = x.hp /\ f.stale = x.stale
  BY FinishFields
<1> HIDE DEF f
<1>2. Final(f)
  BY <1>1 DEF Final
<1>3. Good(f) /\ Kept(x, f) /\ f.st = "done"
  BY <1>1, <1>2 DEF Good, Kept
<1>4. QED BY <1>3 DEF f

\* Giving an attempt up leaves a request that is answered with an HTTP error,
\* or one with an attempt left and its redirect state untouched.
LEMMA NextUpstreamGood ==
    ASSUME NEW x \in Request, Attempting(x), NEW ft
    PROVE  /\ Good(NextUpstream(x, ft)) /\ Kept(x, NextUpstream(x, ft))
           /\ NextUpstream(x, ft).st \in {"connect", "done"}
<1> DEFINE left   == PeerTriesLeft(x)
           us     == IF conf # 0 THEN x.us + 1 ELSE x.us
           status == IF ft = "TIMEOUT" THEN "504" ELSE "502"
           y      == [x EXCEPT !.rep = "none", !.to = NoNode, !.ptries = left, !.us = us]
           stale  == x.cached /\ ft = "ERROR"
           over   == left = 0 \/ (conf # 0 /\ x.us >= conf)
           z      == NextUpstream(x, ft)
<1>1. /\ left \in Nat /\ left <= x.ptries - 1
      /\ us \in Nat /\ status \in Answers /\ status # "200"
  BY DEF PeerTriesLeft, Request, Answers, Attempting, Budget
<1>2. x.cap \in SUBSET Peers
  BY DEF Request
<1>3. /\ Cardinality(x.cap) \in Nat /\ x.hp \in Nat /\ x.ptries \in Nat /\ x.stale \in Nat
      /\ x.execs \in Nat /\ x.lost \in Nat
  BY <1>2, CapSize, ZenonT(40) DEF Request
<1>4. CASE stale
  <2>1. z = [x EXCEPT !.rep = "none", !.to = NoNode, !.ptries = left + 1, !.st = "connect",
                      !.stale = x.stale + 1]
    BY <1>4 DEF NextUpstream
  <2>2. /\ z.st = "connect" /\ z.ptries = left + 1 /\ z.stale = x.stale + 1
        /\ z.ans = x.ans /\ z.pcode = x.pcode /\ z.code = x.code /\ z.proto = x.proto
        /\ z.bufs = x.bufs /\ z.moved = x.moved /\ z.sent = x.sent /\ z.slot = x.slot
        /\ z.cap = x.cap /\ z.hp = x.hp /\ z.execs = x.execs /\ z.lost = x.lost
    <3> HIDE DEF z, left
    <3> QED BY <2>1 DEF Request
  <2> HIDE DEF z, left
  <2>3. Aligned(z)
    BY <2>2 DEF Attempting, Aligned
  <2>4. Budget(z, 0) /\ Budget(z, 1) /\ z.execs <= z.lost
    BY <2>2, <1>1, <1>3 DEF Attempting, Budget
  <2>5. Good(z)
    BY <2>2, <2>3, <2>4, ZenonT(40) DEF Good, Attempting
  <2>6. QED BY <2>2, <2>5 DEF Kept, z
<1>5. CASE ~stale /\ over
  <2>1. z = Finish(y, status)
    BY <1>5 DEF NextUpstream
  <2>2. y \in Request
    <3> HIDE DEF left, us
    <3> QED BY <1>1, ZenonT(30) DEF Request, Replies
  <2>3. /\ y.code = x.code /\ y.pcode = x.pcode /\ y.slot = x.slot
        /\ y.cap = x.cap /\ y.hp = x.hp /\ y.stale = x.stale
        /\ y.execs = x.execs /\ y.lost = x.lost
    BY DEF Request
  <2> HIDE DEF y, status, z, left, us
  <2>4. y.execs <= y.lost + 1 /\ y.hp <= Cardinality(y.cap) + y.stale /\ y.pcode # "OK"
    BY <2>3, <1>3 DEF Attempting, Budget, Aligned
  <2>5. Good(z) /\ Kept(y, z) /\ z.st = "done"
    BY <2>1, <2>2, <2>4, <1>1, FinishGood, ZenonT(40)
  <2>6. QED BY <2>3, <2>5 DEF Kept, z
<1>6. CASE ~stale /\ ~over
  <2>1. z = [y EXCEPT !.st = "connect"]
    BY <1>6 DEF NextUpstream
  <2>2. /\ z.st = "connect" /\ z.ptries = left /\ z.stale = x.stale
        /\ z.ans = x.ans /\ z.pcode = x.pcode /\ z.code = x.code /\ z.proto = x.proto
        /\ z.bufs = x.bufs /\ z.moved = x.moved /\ z.sent = x.sent /\ z.slot = x.slot
        /\ z.cap = x.cap /\ z.hp = x.hp /\ z.execs = x.execs /\ z.lost = x.lost
    <3> HIDE DEF z, left, us
    <3> QED BY <2>1 DEF Request
  <2> HIDE DEF z, left, us
  <2>3. Aligned(z)
    BY <2>2 DEF Attempting, Aligned
  <2>4. Budget(z, 0) /\ Budget(z, 1) /\ z.execs <= z.lost
    BY <2>2, <1>1, <1>3, <1>6, SMTT(30) DEF Attempting, Budget
  <2>5. Good(z)
    BY <2>2, <2>3, <2>4, ZenonT(40) DEF Good, Attempting
  <2>6. QED BY <2>2, <2>5 DEF Kept, z
<1>7. QED BY <1>4, <1>5, <1>6

\* CreateRequestError on a request with an error code: what it changes.
LEMMA CreateRequestErrorFields ==
    ASSUME NEW x \in Request, NEW z, z = CreateRequestError(x)
    PROVE  /\ z.code = x.code /\ z.slot = x.slot /\ z.moved = x.moved /\ z.ans = x.ans
           /\ z.pcode = IF x.sub THEN x.code ELSE x.pcode
           /\ z.sent = x.sent /\ z.cap = x.cap /\ z.hp = x.hp /\ z.stale = x.stale
           /\ z.ptries = x.ptries /\ z.execs = x.execs /\ z.lost = x.lost /\ z.st = x.st
           /\ z.tries = x.tries
<1>1. CASE x.sub
  BY <1>1 DEF CreateRequestError, TellParent, Request
<1>2. CASE ~x.sub
  BY <1>2 DEF CreateRequestError, TellParent, Request
<1>3. QED BY <1>1, <1>2

\* ReinitRequest turns an ASK into an ASKING put before the command, or, on
\* the last try, ends all redirects with an error code.
LEMMA ReinitRequestAligned ==
    ASSUME NEW x \in Request, Aligned(x), NEW z, z = ReinitRequest(x)
    PROVE  /\ Aligned(z) /\ Kept(x, z)
           /\ z.cap = x.cap /\ z.stale = x.stale /\ z.ptries = x.ptries
           /\ z.execs = x.execs /\ z.lost = x.lost
<1> DEFINE last == x.tries > 0 /\ x.hp = x.tries - 1
<1>1. CASE last
  <2> DEFINE y == [x EXCEPT !.moved = "OK", !.code = "TIMEOUT"]
  <2>1. y \in Request
    BY ZenonT(30) DEF Request, MovedAsk, Codes
  <2>2. /\ y.moved = "OK" /\ y.code = "TIMEOUT" /\ y.slot = x.slot /\ y.ans = x.ans
        /\ y.pcode = x.pcode /\ y.cap = x.cap /\ y.stale = x.stale
        /\ y.ptries = x.ptries /\ y.execs = x.execs /\ y.lost = x.lost
    BY DEF Request
  <2>3. z = CreateRequestError(y)
    BY <1>1 DEF ReinitRequest
  <2> HIDE DEF y
  <2>4. /\ z.code = "TIMEOUT" /\ z.moved = "OK" /\ z.slot = x.slot /\ z.ans = x.ans
        /\ z.pcode = "TIMEOUT" \/ z.pcode = x.pcode
        /\ z.cap = x.cap /\ z.stale = x.stale /\ z.ptries = x.ptries
        /\ z.execs = x.execs /\ z.lost = x.lost
    BY <2>1, <2>2, <2>3, CreateRequestErrorFields
  <2>5. QED BY <2>4 DEF Aligned, Kept
<1>2. CASE ~last /\ x.moved = "ASK"
  <2>1. z = [x EXCEPT !.moved = "ASKING", !.proto = [x.proto EXCEPT !.asks = @ + 1]]
    BY <1>2 DEF ReinitRequest
  <2>2. /\ z.moved = "ASKING" /\ z.proto = [x.proto EXCEPT !.asks = @ + 1]
        /\ z.code = x.code /\ z.slot = x.slot /\ z.ans = x.ans /\ z.pcode = x.pcode
        /\ z.bufs = x.bufs /\ z.sent = x.sent
        /\ z.cap = x.cap /\ z.stale = x.stale /\ z.ptries = x.ptries
        /\ z.execs = x.execs /\ z.lost = x.lost
    BY <2>1 DEF Request
  <2>3. x.proto \in Bytes
    BY DEF Request
  <2>4. z.proto.asks = x.proto.asks + 1 /\ z.proto.body = x.proto.body
    BY <2>2, <2>3 DEF Bytes
  <2>5. QED BY <1>2, <2>2, <2>4 DEF Aligned, Kept
<1>3. CASE ~last /\ x.moved # "ASK"
  BY <1>3 DEF ReinitRequest, Kept
<1>4. QED BY <1>1, <1>2, <1>3, ZenonT(40)

\* get_peer makes one attempt of the ones left.
LEMMA GetPeerGood ==
    ASSUME NEW x \in Request, NEW p \in Peers, Attempting(x), Budget(x, 0)
    PROVE  Attempting(GetPeer(x, p)) /\ Kept(x, GetPeer(x, p))
<1> DEFINE w == [x EXCEPT !.node = p]
           y == IF x.hp = 0 THEN x ELSE ReinitRequest(w)
           z == GetPeer(x, p)
<1>1. w \in Request
  BY DEF Request
<1>2. /\ w.ans = x.ans /\ w.pcode = x.pcode /\ w.code = x.code /\ w.proto = x.proto
      /\ w.bufs = x.bufs /\ w.moved = x.moved /\ w.sent = x.sent /\ w.slot = x.slot
      /\ w.cap = x.cap /\ w.stale = x.stale /\ w.ptries = x.ptries
      /\ w.execs = x.execs /\ w.lost = x.lost
  BY DEF Request
<1>3. Aligned(w)
  BY <1>2 DEF Attempting, Aligned
<1>4. /\ y \in Request /\ Aligned(y) /\ Kept(x, y)
      /\ y.cap = x.cap /\ y.stale = x.stale /\ y.ptries = x.ptries
      /\ y.execs = x.execs /\ y.lost = x.lost
  <2> HIDE DEF w
  <2>1. CASE x.hp = 0
    BY <2>1 DEF Attempting, Kept
  <2>2. CASE x.hp # 0
    BY <2>2, <1>1, <1>2, <1>3, ReinitRequestAligned, ReinitRequestType, SMTT(30) DEF Kept
  <2>3. QED BY <2>1, <2>2
<1>5. x.cap \in SUBSET Peers
  BY DEF Request
<1>6. /\ Cardinality(x.cap) \in Nat /\ x.hp \in Nat /\ x.ptries \in Nat /\ x.stale \in Nat
  BY <1>5, CapSize DEF Request
<1>7. CASE x.hp > MaxNodeTries
  <2>1. z = [x EXCEPT !.at = p, !.cached = FALSE]
    BY <1>7 DEF GetPeer
  <2>2. /\ z.ans = x.ans /\ z.pcode = x.pcode /\ z.code = x.code /\ z.proto = x.proto
        /\ z.bufs = x.bufs /\ z.moved = x.moved /\ z.sent = x.sent /\ z.slot = x.slot
        /\ z.cap = x.cap /\ z.stale = x.stale /\ z.ptries = x.ptries
        /\ z.execs = x.execs /\ z.lost = x.lost /\ z.hp = x.hp
    <3> HIDE DEF z
    <3> QED BY <2>1, ZenonT(40) DEF Request
  <2> HIDE DEF z
  <2>3. Aligned(z) /\ Kept(x, z)
    BY <2>2 DEF Attempting, Aligned, Kept
  <2>4. Attempting(z)
    BY <2>2, <2>3, <1>6, ZenonT(40) DEF Attempting, Budget
  <2>5. QED BY <2>3, <2>4 DEF z
<1>8. CASE ~(x.hp > MaxNodeTries)
  <2>1. z = [y EXCEPT !.at = y.node, !.hp = x.hp + 1, !.cached = FALSE]
    BY <1>8 DEF GetPeer
  <2> HIDE DEF w, y, z
  <2>2. /\ z.ans = y.ans /\ z.pcode = y.pcode /\ z.code = y.code /\ z.proto = y.proto
        /\ z.bufs = y.bufs /\ z.moved = y.moved /\ z.sent = y.sent /\ z.slot = y.slot
        /\ z.cap = y.cap /\ z.stale = y.stale /\ z.ptries = y.ptries
        /\ z.execs = y.execs /\ z.lost = y.lost /\ z.hp = x.hp + 1
    BY <2>1, <1>4, ZenonT(40) DEF Request
  <2>3. Aligned(z) /\ Kept(x, z)
    BY <2>2, <1>4, ZenonT(40) DEF Aligned, Kept
  <2>4. Budget(z, 1) /\ z.execs <= z.lost
    BY <2>2, <1>4, <1>6, SMTT(30) DEF Budget, Attempting
  <2>5. QED BY <2>3, <2>4 DEF z, Attempting
<1>9. QED BY <1>7, <1>8

\* get_peer leaves the captured array and the state of the request alone.
LEMMA GetPeerCap ==
    ASSUME NEW x \in Request, NEW p \in Peers, NEW z, z = GetPeer(x, p)
    PROVE  z.cap = x.cap /\ z.st = x.st
<1>1. ASSUME NEW w \in Request, NEW v, v = ReinitRequest(w)
      PROVE  v.cap = w.cap /\ v.st = w.st
  <2> DEFINE last == w.tries > 0 /\ w.hp = w.tries - 1
             y == [w EXCEPT !.moved = "OK", !.code = "TIMEOUT"]
  <2>1. y \in Request
    <3>1. "OK" \in MovedAsk /\ "TIMEOUT" \in Codes
      BY DEF MovedAsk, Codes
    <3>2. QED BY <3>1, ZenonT(30) DEF Request
  <2>2. y.cap = w.cap /\ y.st = w.st
    BY DEF Request
  <2>3. CASE last
    <3>1. v = CreateRequestError(y)
      BY <1>1, <2>3 DEF ReinitRequest
    <3> HIDE DEF y
    <3>2. QED BY <2>1, <2>2, <3>1, CreateRequestErrorFields, SMTT(30)
  <2>4. CASE ~last /\ w.moved = "ASK"
    <3>1. v = [w EXCEPT !.moved = "ASKING", !.proto = [w.proto EXCEPT !.asks = @ + 1]]
      BY <1>1, <2>4, SMTT(30) DEF ReinitRequest
    <3>2. QED BY <3>1 DEF Request
  <2>5. CASE ~last /\ w.moved # "ASK"
    BY <1>1, <2>5, SMTT(30) DEF ReinitRequest
  <2>6. QED BY <2>3, <2>4, <2>5
<1> DEFINE u == [x EXCEPT !.node = p]
           y == IF x.hp = 0 THEN x ELSE ReinitRequest(u)
<1>2. u \in Request /\ u.cap = x.cap /\ u.st = x.st
  BY DEF Request
<1>3. \/ z = [x EXCEPT !.at = p, !.cached = FALSE]
      \/ z = [y EXCEPT !.at = y.node, !.hp = x.hp + 1, !.cached = FALSE]
  BY DEF GetPeer
<1> HIDE DEF u
<1>4. y \in Request /\ y.cap = x.cap /\ y.st = x.st
  BY <1>1, <1>2, ReinitRequestType, ZenonT(40)
<1> HIDE DEF y
<1>5. ASSUME NEW v \in Request, NEW n, NEW h
      PROVE  /\ [v EXCEPT !.at = n, !.cached = FALSE].cap = v.cap
             /\ [v EXCEPT !.at = n, !.cached = FALSE].st = v.st
             /\ [v EXCEPT !.at = n, !.hp = h, !.cached = FALSE].cap = v.cap
             /\ [v EXCEPT !.at = n, !.hp = h, !.cached = FALSE].st = v.st
  BY ZenonT(30) DEF Request
<1>6. CASE z = [x EXCEPT !.at = p, !.cached = FALSE]
  BY <1>5, <1>6
<1>7. CASE z = [y EXCEPT !.at = y.node, !.hp = x.hp + 1, !.cached = FALSE]
  <2>1. z.cap = y.cap /\ z.st = y.st
    BY <1>4, <1>5, <1>7
  <2> QED BY <1>4, <2>1, Zenon
<1>8. QED BY <1>3, <1>6, <1>7, Zenon

\* reinit_request leaves bytes and redirect state that agree, or fails.
LEMMA ConnectedGood ==
    ASSUME NEW x \in Request, NEW c \in BOOLEAN, Attempting(x)
    PROVE  Good(Connected(x, c)) /\ Kept(x, Connected(x, c))
<1> DEFINE z == Connected(x, c)
<1>1. x.cap \in SUBSET Peers
  BY DEF Request
<1>2. /\ Cardinality(x.cap) \in Nat /\ x.hp \in Nat /\ x.ptries \in Nat /\ x.stale \in Nat
      /\ x.execs \in Nat /\ x.lost \in Nat
  BY <1>1, CapSize, ZenonT(40) DEF Request
<1>3. CASE ReinitFails(x)
  <2> DEFINE w == [x EXCEPT !.cached = c]
  <2>1. w \in Request
    BY DEF Request
  <2>2. /\ w.code = x.code /\ w.pcode = x.pcode /\ w.slot = x.slot
        /\ w.cap = x.cap /\ w.hp = x.hp /\ w.stale = x.stale
        /\ w.execs = x.execs /\ w.lost = x.lost
    BY ZenonT(40) DEF Request
  <2> HIDE DEF w
  <2>3. w.execs <= w.lost + 1 /\ w.hp <= Cardinality(w.cap) + w.stale /\ w.pcode # "OK"
    BY <2>2, <1>2, SMTT(30) DEF Attempting, Budget, Aligned
  <2>4. Good(Finish(w, "500")) /\ Kept(w, Finish(w, "500"))
    BY <2>1, <2>3, FinishGood DEF Answers
  <2>5. z = Finish(w, "500")
    BY <1>3, ZenonT(40) DEF Connected, w
  <2>6. QED BY <2>2, <2>4, <2>5, ZenonT(40) DEF Kept
<1>4. CASE ~ReinitFails(x)
  <2> DEFINE y == ReinitBufs(x)
  <2>1. /\ y \in Request /\ Aligned(y) /\ Kept(x, y) /\ y.moved \in {"OK", "ASKING_END"}
        /\ y.cap = x.cap /\ y.hp = x.hp /\ y.stale = x.stale /\ y.ptries = x.ptries
        /\ y.execs = x.execs /\ y.lost = x.lost
    <3>1. CASE x.sent /\ x.moved = "MOVED"
      <4>1. y = [x EXCEPT !.moved = "OK"]
        BY <3>1 DEF ReinitBufs
      <4> HIDE DEF y
      <4>2. /\ y.moved = "OK" /\ y.ans = x.ans /\ y.pcode = x.pcode /\ y.code = x.code
            /\ y.proto = x.proto /\ y.bufs = x.bufs /\ y.sent = x.sent /\ y.slot = x.slot
            /\ y.cap = x.cap /\ y.hp = x.hp /\ y.stale = x.stale /\ y.ptries = x.ptries
            /\ y.execs = x.execs /\ y.lost = x.lost
        BY <4>1, ZenonT(40) DEF Request
      <4>3. Aligned(y)
        BY <3>1, <4>2, ZenonT(40) DEF Attempting, Aligned
      <4>4. QED BY <4>2, <4>3, ReinitBufsType DEF Kept, y
    <3>2. CASE x.sent /\ x.moved = "ASKING"
      <4>1. y = [x EXCEPT !.moved = "ASKING_END", !.bufs = x.proto]
        BY <3>2 DEF ReinitBufs
      <4> HIDE DEF y
      <4>2. /\ y.moved = "ASKING_END" /\ y.ans = x.ans /\ y.pcode = x.pcode
            /\ y.code = x.code /\ y.proto = x.proto /\ y.bufs = x.proto
            /\ y.sent = x.sent /\ y.slot = x.slot
            /\ y.cap = x.cap /\ y.hp = x.hp /\ y.stale = x.stale /\ y.ptries = x.ptries
            /\ y.execs = x.execs /\ y.lost = x.lost
        BY <4>1, ZenonT(40) DEF Request
      <4>3. Aligned(y)
        BY <3>2, <4>2, SMTT(30) DEF Attempting, Aligned
      <4>4. QED BY <4>2, <4>3, ReinitBufsType DEF Kept, y
    <3>3. CASE ~(x.sent /\ x.moved \in {"MOVED", "ASKING"})
      <4>1. y = x
        BY <3>3 DEF ReinitBufs
      <4>2. x.moved \in {"OK", "ASKING_END"}
        BY <1>4, <3>3, ZenonT(40) DEF ReinitFails, Attempting, Aligned, Request, MovedAsk
      <4>3. QED BY <4>1, <4>2 DEF Kept, Attempting
    <3>4. QED BY <3>1, <3>2, <3>3, ZenonT(40)
  <2> HIDE DEF y
  <2>2. z = [y EXCEPT !.cached = c, !.sent = c, !.st = IF c THEN "sent" ELSE "connecting"]
    BY <1>4 DEF Connected, y
  <2> HIDE DEF z
  <2>3. /\ z.sent = c /\ z.st = (IF c THEN "sent" ELSE "connecting")
        /\ z.moved = y.moved /\ z.ans = y.ans /\ z.pcode = y.pcode /\ z.code = y.code
        /\ z.proto = y.proto /\ z.bufs = y.bufs /\ z.slot = y.slot
        /\ z.cap = y.cap /\ z.hp = y.hp /\ z.stale = y.stale /\ z.ptries = y.ptries
        /\ z.execs = y.execs /\ z.lost = y.lost
    BY <2>1, <2>2, ZenonT(40) DEF Request
  <2>4. Aligned(z) /\ z.moved \in {"OK", "ASKING_END"}
    BY <2>1, <2>3, ZenonT(40) DEF Aligned
  <2>5. Budget(z, 1) /\ z.execs <= z.lost
    BY <2>1, <2>3, SMTT(30) DEF Attempting, Budget
  <2>6. Good(z)
    BY <2>3, <2>4, <2>5, Zenon DEF Good, Settled
  <2>7. QED BY <2>1, <2>3, <2>6, ZenonT(40) DEF Kept, z
<1>5. QED BY <1>3, <1>4

\* Behind the right number of skipped replies process_header reads the reply
\* that the node gave to the command.
LEMMA SeenIsReply ==
    ASSUME NEW x \in Request, Settled(x), x.code = "OK"
    PROVE  Seen(x) = x.rep
BY DEF Seen, Settled, Aligned, Request, MovedAsk

\* ProcessBodyError leaves an error code and changes no counter.
LEMMA ProcessBodyErrorFields ==
    ASSUME NEW x \in Request, NEW z, z = ProcessBodyError(x)
    PROVE  /\ z.code # "OK" /\ z.slot = x.slot /\ z.cap = x.cap /\ z.hp = x.hp
           /\ z.stale = x.stale /\ z.execs = x.execs /\ z.lost = x.lost
<1>1. CASE x.sub
  BY <1>1 DEF ProcessBodyError, TellParent, Request
<1>2. CASE ~x.sub
  BY <1>2 DEF ProcessBodyError, TellParent, Request
<1>3. QED BY <1>1, <1>2

\* A redirect starts a new attempt, or ends the request behind ASKING or for
\* want of an address.
LEMMA RedirectGood ==
    ASSUME NEW x \in Request, Settled(x), x.code = "OK", x.sent, x.execs <= x.lost
    PROVE  Good(Redirect(x)) /\ Kept(x, Redirect(x))
<1> DEFINE m == IF Seen(x) = "ASK" THEN "ASK" ELSE "MOVED"
           n == IF Seen(x) \in {"MOVED", "ASK"} THEN x.to ELSE x.node
           w == [x EXCEPT !.moved = m, !.node = n]
           v == [x EXCEPT !.code = "STORAGE"]
<1>1. x.cap \in SUBSET Peers
  BY DEF Request
<1>2. /\ Cardinality(x.cap) \in Nat /\ x.hp \in Nat /\ x.ptries \in Nat /\ x.stale \in Nat
      /\ x.execs \in Nat /\ x.lost \in Nat
  BY <1>1, CapSize, ZenonT(40) DEF Request
<1>3. CASE x.moved = "ASKING_END" \/ Misnamed(x)
  <2> DEFINE y == ProcessBodyError(v)
  <2>1. v \in Request
    BY DEF Request, Codes
  <2>2. y \in Request
    BY <2>1, ProcessBodyErrorType
  <2>3. v.code = "STORAGE" /\ v.slot = x.slot /\ v.cap = x.cap /\ v.hp = x.hp
        /\ v.stale = x.stale /\ v.execs = x.execs /\ v.lost = x.lost
    BY DEF Request
  <2> HIDE DEF v
  <2>4. /\ y.code # "OK" /\ y.slot = v.slot /\ y.cap = v.cap /\ y.hp = v.hp
        /\ y.stale = v.stale /\ y.execs = v.execs /\ y.lost = v.lost
    BY <2>1, ProcessBodyErrorFields
  <2>5. Redirect(x) = Finish(y, "200")
    BY <1>3, Zenon DEF Redirect, v
  <2> HIDE DEF y
  <2>6. y.execs <= y.lost + 1 /\ y.hp <= Cardinality(y.cap) + y.stale /\ y.code # "OK"
    BY <2>3, <2>4, <1>2, SMTT(30) DEF Settled, Budget
  <2>7. Good(Finish(y, "200")) /\ Kept(y, Finish(y, "200"))
    BY <2>2, <2>6, FinishGood, ZenonT(40) DEF Answers
  <2>8. QED BY <2>3, <2>4, <2>5, <2>7, ZenonT(40) DEF Kept
<1>4. CASE x.moved # "ASKING_END" /\ ~Misnamed(x)
  <2>0. x.node \in Peers
    BY Zenon DEF Request
  <2>1. m \in {"MOVED", "ASK"} /\ n \in Peers
    BY <1>4, <2>0, NamedIsNode, ZenonT(40) DEF Peers
  <2> HIDE DEF m, n
  <2>2. w \in Request
    BY <2>1, ZenonT(30) DEF Request, MovedAsk
  <2>3. /\ w.moved = m /\ w.ans = x.ans /\ w.pcode = x.pcode /\ w.code = x.code
        /\ w.proto = x.proto /\ w.bufs = x.bufs /\ w.sent = x.sent /\ w.slot = x.slot
        /\ w.cap = x.cap /\ w.hp = x.hp /\ w.stale = x.stale /\ w.ptries = x.ptries
        /\ w.execs = x.execs /\ w.lost = x.lost
    BY Zenon DEF Request
  <2> HIDE DEF w
  <2>4. Aligned(w)
    BY <1>4, <2>1, <2>3, ZenonT(40) DEF Settled, Aligned
  <2>5. Attempting(w)
    BY <2>3, <2>4 DEF Settled, Budget, Attempting
  <2>6. Redirect(x) = NextUpstream(w, "INVALID_HEADER")
    BY <1>4, Zenon DEF Redirect, w, m, n
  <2>7. QED BY <2>2, <2>3, <2>5, <2>6, NextUpstreamGood, SMTT(30) DEF Kept
<1>5. QED BY <1>3, <1>4, Zenon

\* A reply ends its request or redirects it.
LEMMA ProcessHeaderGood ==
    ASSUME NEW x \in Request, Good(x), x.st = "replied", NEW ok \in BOOLEAN
    PROVE  Good(ProcessHeader(x, ok)) /\ Kept(x, ProcessHeader(x, ok))
<1> DEFINE z == ProcessHeader(x, ok)
           y == ProcessBodyError(x)
           v == [x EXCEPT !.code = "STORAGE"]
<1>1. x.cap \in SUBSET Peers
  BY DEF Request
<1>2. /\ Cardinality(x.cap) \in Nat /\ x.hp \in Nat /\ x.ptries \in Nat /\ x.stale \in Nat
      /\ x.execs \in Nat /\ x.lost \in Nat
  BY <1>1, CapSize, ZenonT(40) DEF Request
<1>3. Settled(x) /\ ReplyMeans(x) /\ x.sent
  BY ZenonT(40) DEF Good
<1>4. x.execs <= x.lost + 1 /\ x.hp <= Cardinality(x.cap) + x.stale /\ x.pcode # "OK"
  BY <1>2, <1>3 DEF Settled, Budget, ReplyMeans, Aligned
<1>5. x.moved \notin {"ASK", "ASKING"}
  BY <1>3, ZenonT(40) DEF Settled
<1>6. CASE Seen(x) = "TEST"
  <2>1. z = Finish(x, "500")
    BY <1>5, <1>6, ZenonT(40) DEF ProcessHeader, Decoded
  <2>2. QED BY <1>4, <2>1, FinishGood DEF Answers
<1>7. Good(Finish(y, "200")) /\ Kept(x, Finish(y, "200"))
  <2>1. y \in Request
    BY ProcessBodyErrorType, ZenonT(40)
  <2>2. /\ y.code # "OK" /\ y.slot = x.slot /\ y.cap = x.cap /\ y.hp = x.hp
        /\ y.stale = x.stale /\ y.execs = x.execs /\ y.lost = x.lost
    BY ProcessBodyErrorFields, ZenonT(40)
  <2> HIDE DEF y
  <2>3. Good(Finish(y, "200")) /\ Kept(y, Finish(y, "200"))
    BY <1>4, <2>1, <2>2, FinishGood, ZenonT(40) DEF Answers
  <2>4. QED BY <2>2, <2>3 DEF Kept
<1>8. CASE Seen(x) # "TEST" /\ x.code # "OK"
  <2>1. z = Finish(y, "200")
    BY <1>5, <1>8, ZenonT(40) DEF ProcessHeader, Decoded
  <2>2. QED BY <1>7, <2>1, ZenonT(40)
<1>9. CASE Seen(x) # "TEST" /\ x.code = "OK"
  <2>1. Decoded(x) /\ Seen(x) = x.rep
    BY <1>3, <1>5, <1>9, SeenIsReply, ZenonT(40) DEF Decoded
  <2>2. CASE Seen(x) = "OK"
    <3>1. z = Finish(x, "200")
      BY <1>5, <1>9, <2>1, <2>2, ZenonT(40) DEF ProcessHeader
    <3>2. x.execs > 0 \/ (x.at = Backup /\ x.bufs.body = "CMD")
      BY <1>3, <1>9, <2>1, <2>2, ZenonT(40) DEF ReplyMeans, Settled, Aligned
    <3>3. x.pcode = "unset"
      BY <1>3, <1>9, ZenonT(40) DEF Settled, Aligned
    <3>4. QED BY <1>4, <3>1, <3>2, <3>3, FinishGood, ZenonT(40) DEF Answers
  <2>3. CASE Seen(x) = "ERR"
    <3>1. z = Finish(v, "200")
      BY <1>5, <1>9, <2>1, <2>3, ZenonT(40) DEF ProcessHeader
    <3>2. v \in Request
      BY DEF Request, Codes
    <3>3. /\ v.code # "OK" /\ v.slot = x.slot /\ v.cap = x.cap /\ v.hp = x.hp
          /\ v.stale = x.stale /\ v.execs = x.execs /\ v.lost = x.lost
      BY ZenonT(40) DEF Request
    <3> HIDE DEF v
    <3>4. Good(Finish(v, "200")) /\ Kept(v, Finish(v, "200"))
      BY <1>4, <3>2, <3>3, FinishGood, ZenonT(40) DEF Answers
    <3>5. QED BY <1>9, <3>1, <3>3, <3>4, ZenonT(40) DEF Kept
  <2>4. CASE Seen(x) = "NOSCRIPT" /\ ~ok
    <3>1. z = Finish(y, "200")
      BY <1>5, <1>9, <2>1, <2>4, ZenonT(40) DEF ProcessHeader
    <3>2. QED BY <1>7, <3>1
  <2>5. CASE Seen(x) \notin {"OK", "ERR"} /\ ~(Seen(x) = "NOSCRIPT" /\ ~ok)
    <3>1. z = Redirect(x)
      BY <1>5, <1>9, <2>1, <2>5, ZenonT(40) DEF ProcessHeader
    <3>2. x.execs <= x.lost
      BY <1>3, <2>1, <2>5, Zenon DEF ReplyMeans
    <3>3. QED BY <1>3, <1>9, <3>1, <3>2, RedirectGood, ZenonT(40)
  <2>6. QED BY <2>2, <2>3, <2>4, <2>5, ZenonT(40)
<1>10. QED BY <1>6, <1>8, <1>9, ZenonT(40)

-----------------------------------------------------------------------------
(* Actions keep the invariant *)

\* The slot map only grows: slots are overwritten with nodes, never removed.
RouteGrows ==
    mapped => mapped' /\ \A s \in Slots : route[s] # NoNode => route'[s] # NoNode

\* Replacing the record of one request keeps every request Good and Routed.
LEMMA RequestStep ==
    ASSUME IInv, NEW r \in Reqs, NEW x \in Request, Set(r, x), Good(x),
           Routed(x, mapped', route'), RouteGrows
    PROVE  /\ q' \in [Reqs -> Request]
           /\ \A s \in Reqs : Good(q'[s]) /\ Routed(q'[s], mapped', route')
<1>1. q \in [Reqs -> Request] /\ q' = [q EXCEPT ![r] = x]
  BY DEF IInv, TypeOK, Set
<1>2. q' \in [Reqs -> Request] /\ q'[r] = x
  BY <1>1, ZenonT(40)
<1>3. ASSUME NEW s \in Reqs, s # r
      PROVE  Good(q'[s]) /\ Routed(q'[s], mapped', route')
  <2>1. q'[s] = q[s] /\ q[s].slot \in Slots
    BY <1>1, <1>3 DEF Request
  <2>2. Good(q[s]) /\ Routed(q[s], mapped, route)
    BY ZenonT(40) DEF IInv
  <2>3. Routed(q[s], mapped', route')
    BY <2>1, <2>2, ZenonT(40) DEF Routed, RouteGrows
  <2>4. QED BY <2>1, <2>2, <2>3, ZenonT(40)
<1>4. QED BY <1>2, <1>3

\* The same for a handler that leaves the map alone.
LEMMA HandlerStep ==
    ASSUME IInv, NEW r \in Reqs, NEW x \in Request, Set(r, x), Good(x), Kept(q[r], x),
           q[r].st \notin {"new", "done"}, UNCHANGED <<mapped, route>>
    PROVE  /\ q' \in [Reqs -> Request]
           /\ \A s \in Reqs : Good(q'[s]) /\ Routed(q'[s], mapped', route')
<1>1. Routed(q[r], mapped, route)
  BY ZenonT(40) DEF IInv
<1>2. Routed(x, mapped', route') /\ RouteGrows
  BY <1>1, ZenonT(40) DEF Routed, Kept, RouteGrows
<1>3. QED BY <1>2, RequestStep, ZenonT(40)

\* A request that create_request has built and no attempt has touched.
Fresh(x) ==
    /\ x.ans = "none" /\ x.moved = "OK" /\ x.sent = FALSE /\ x.pcode # "OK"
    /\ x.code = "OK" => x.pcode = "unset" /\ x.proto = Command
    /\ x.hp = 0 /\ x.stale = 0 /\ x.execs = 0 /\ x.lost = 0

\* The first attempt has one try per peer of the array, and there is one.
LEMMA BeginInv ==
    ASSUME IInv, NEW r \in Reqs, NEW x \in Request, Fresh(x), Begin(r, x),
           x.code = "OK" => mapped' /\ route'[x.slot] # NoNode,
           RouteGrows, mapped' \in BOOLEAN, route' \in [Slots -> Nodes \cup {NoNode}],
           scripts' \subseteq Nodes, loaded' \subseteq Nodes
    PROVE  IInv'
<1> DEFINE y == [x EXCEPT !.st = "connect", !.bufs = x.proto, !.cap = peers,
                          !.ptries = Cardinality(peers)]
<1>1. TypeOK /\ peers \in SUBSET Peers /\ Default \in peers
  BY DEF IInv, TypeOK
<1>2. Cardinality(peers) \in Nat /\ Cardinality(peers) # 0
  BY <1>1, CapSize, FS_EmptySet
<1>3. y \in Request
  BY <1>1, <1>2, Zenon DEF Request, Phases
<1>4. /\ y.st = "connect" /\ y.bufs = x.proto /\ y.cap = peers
      /\ y.ptries = Cardinality(peers) /\ y.ans = x.ans /\ y.pcode = x.pcode
      /\ y.code = x.code /\ y.proto = x.proto /\ y.moved = x.moved /\ y.sent = x.sent
      /\ y.slot = x.slot /\ y.hp = x.hp /\ y.stale = x.stale
      /\ y.execs = x.execs /\ y.lost = x.lost
  BY DEF Request
<1>5. Set(r, y)
  BY DEF Begin
<1> HIDE DEF y
<1>6. Aligned(y)
  BY <1>4 DEF Aligned, Fresh, Command
<1>7. Budget(y, 0) /\ Budget(y, 1) /\ y.execs <= y.lost
  BY <1>2, <1>4 DEF Budget, Fresh
<1>8. Good(y) /\ Routed(y, mapped', route')
  BY <1>4, <1>6, <1>7, ZenonT(40) DEF Good, Attempting, Routed
<1>9. /\ q' \in [Reqs -> Request]
      /\ \A s \in Reqs : Good(q'[s]) /\ Routed(q'[s], mapped', route')
  BY <1>3, <1>5, <1>8, RequestStep, ZenonT(40)
<1>10. conf' \in Nat /\ dflt' \in Nat /\ UNCHANGED <<peers, idle, owner, mig, env>>
  BY <1>1 DEF Begin, DefaultTries, TypeOK, Request
<1>11. ConfTries > 0 => dflt' = ConfTries
  BY DEF IInv, Begin, DefaultTries
<1>12. TypeOK'
  BY <1>1, <1>9, <1>10, ZenonT(40) DEF TypeOK
<1>13. QED BY <1>1, <1>9, <1>10, <1>11, <1>12, ZenonT(40) DEF IInv

\* The record every request starts from is a request.
LEMMA BlankType == Blank \in Request
<1>1. (CHOOSE s \in Slots : TRUE) \in Slots
  BY NamesAssumption
<1>2. QED
  BY <1>1 DEF Blank, Request, Phases, Peers, MovedAsk, Codes, Command, Bytes, Replies, Answers

\* A request with an error code, on its way to the backup server.
LEMMA CreateRequestErrorFresh ==
    ASSUME NEW x \in Request, x.code # "OK", x.pcode = "unset", x.ans = "none",
           x.moved = "OK", x.sent = FALSE,
           x.hp = 0, x.stale = 0, x.execs = 0, x.lost = 0
    PROVE  /\ CreateRequestError(x) \in Request /\ Fresh(CreateRequestError(x))
           /\ CreateRequestError(x).code # "OK"
<1> DEFINE z == CreateRequestError(x)
<1>1. /\ z.code = x.code /\ z.moved = x.moved /\ z.ans = x.ans
      /\ z.pcode = IF x.sub THEN x.code ELSE x.pcode
      /\ z.sent = x.sent /\ z.hp = x.hp /\ z.stale = x.stale
      /\ z.execs = x.execs /\ z.lost = x.lost
  BY CreateRequestErrorFields, ZenonT(40)
<1> HIDE DEF z
<1>2. Fresh(z) /\ z.code # "OK"
  BY <1>1 DEF Fresh
<1>3. QED BY <1>2, CreateRequestErrorType, ZenonT(40) DEF z

\* The record CreateRequest fills in is a request without errors.
LEMMA AcceptedFresh ==
    ASSUME NEW s \in Slots, NEW k \in Kinds, NEW t \in Nat
    PROVE  /\ Accepted(s, k, t) \in Request /\ Fresh(Accepted(s, k, t))
           /\ Accepted(s, k, t).code = "OK" /\ Accepted(s, k, t).pcode = "unset"
           /\ Accepted(s, k, t).slot = s
<1>1. k.sub \in BOOLEAN /\ k.script \in BOOLEAN
  BY KindsAssumption
<1>2. Accepted(s, k, t) \in Request
  BY <1>1, BlankType, Zenon DEF Accepted, Request
<1>3. QED BY <1>2 DEF Accepted, Fresh, Blank

\* The tries of a request are a number.
LEMMA TriesType ==
    ASSUME TypeOK, NEW k
    PROVE  DefaultTries \in Nat /\ TriesOf(k) \subseteq Nat
<1>1. DefaultTries \in Nat
  BY DEF TypeOK, DefaultTries
<1>2. QED BY <1>1, BoundsAssumption DEF TriesOf

\* Requests that fail parsing or the ACL check keep the invariant.
LEMMA RejectRequestInv ==
    ASSUME IInv, NEW r \in Reqs, RejectRequest(r)
    PROVE  IInv'
<1>1. PICK k \in Kinds :
        Begin(r, CreateRequestError([Blank EXCEPT !.sub = k.sub,
                     !.code = "REJECTED", !.tries = DefaultTries]))
  BY Zenon DEF RejectRequest
<1> DEFINE b == [Blank EXCEPT !.sub = k.sub, !.code = "REJECTED", !.tries = DefaultTries]
<1>2. TypeOK /\ DefaultTries \in Nat /\ k.sub \in BOOLEAN
  BY TriesType, KindsAssumption DEF IInv
<1>3. b \in Request
  <2> HIDE DEF b
  <2>1. ASSUME NEW z \in Request, NEW d \in Nat
        PROVE  [z EXCEPT !.sub = k.sub, !.code = "REJECTED", !.tries = d] \in Request
    BY <1>2, Zenon DEF Request, Codes
  <2>2. QED BY <1>2, <2>1, BlankType, Zenon DEF b
<1>4. /\ b.code = "REJECTED" /\ b.pcode = "unset" /\ b.ans = "none" /\ b.moved = "OK"
      /\ b.sent = FALSE /\ b.hp = 0 /\ b.stale = 0 /\ b.execs = 0 /\ b.lost = 0
  BY DEF Blank
<1>5. UNCHANGED <<mapped, route, scripts, loaded>>
  BY DEF RejectRequest
<1> DEFINE e == CreateRequestError(b)
<1>6. e \in Request /\ Fresh(e) /\ e.code # "OK" /\ Begin(r, e)
  <2>1. Begin(r, e)
    BY <1>1, ZenonT(40)
  <2> HIDE DEF b
  <2>2. QED BY <1>3, <1>4, <2>1, CreateRequestErrorFresh, Zenon
<1>7. RouteGrows /\ mapped' \in BOOLEAN /\ route' \in [Slots -> Nodes \cup {NoNode}]
      /\ scripts' \subseteq Nodes /\ loaded' \subseteq Nodes
  BY <1>2, <1>5, ZenonT(40) DEF TypeOK, RouteGrows
<1> HIDE DEF e
<1>8. QED BY <1>6, <1>7, BeginInv

\* Requests whose slot has no node, or whose scripts cannot be loaded, keep
\* the invariant.
LEMMA UnroutableRequestInv ==
    ASSUME IInv, NEW r \in Reqs, UnroutableRequest(r)
    PROVE  IInv'
<1>1. PICK s \in Slots, k \in Kinds, m \in RouteMaps : \E t \in TriesOf(k) :
        /\ Begin(r, CreateRequestError([Accepted(s, k, t) EXCEPT !.code = "UNKNOWN"]))
        /\ \/ ~mapped /\ UNCHANGED <<mapped, route>>
           \/ mapped' = TRUE /\ route' = m
  BY DEF UnroutableRequest
<1>2. PICK t \in TriesOf(k) :
        /\ Begin(r, CreateRequestError([Accepted(s, k, t) EXCEPT !.code = "UNKNOWN"]))
        /\ \/ ~mapped /\ UNCHANGED <<mapped, route>>
           \/ mapped' = TRUE /\ route' = m
  BY <1>1
<1>3. TypeOK /\ t \in Nat
  BY TriesType, ZenonT(40) DEF IInv
<1> DEFINE a == Accepted(s, k, t)
           b == [a EXCEPT !.code = "UNKNOWN"]
           e == CreateRequestError(b)
<1>4. a \in Request /\ Fresh(a) /\ a.pcode = "unset"
  BY <1>3, AcceptedFresh
<1>5. e \in Request /\ Fresh(e) /\ e.code # "OK" /\ Begin(r, e)
  <2>1. Begin(r, e)
    BY <1>2
  <2> HIDE DEF a
  <2>2. b \in Request
    BY <1>4 DEF Request, Codes
  <2>3. /\ b.code = "UNKNOWN" /\ b.pcode = "unset" /\ b.ans = "none" /\ b.moved = "OK"
        /\ b.sent = FALSE /\ b.hp = 0 /\ b.stale = 0 /\ b.execs = 0 /\ b.lost = 0
    BY <1>4, ZenonT(40) DEF Fresh, Request
  <2> HIDE DEF b
  <2>4. QED BY <2>1, <2>2, <2>3, CreateRequestErrorFresh, Zenon
<1>6. m \in [Slots -> Nodes \cup {NoNode}] /\ (mapped => m = route)
  BY <1>3 DEF RouteMaps, TypeOK
<1>7. RouteGrows /\ mapped' \in BOOLEAN /\ route' \in [Slots -> Nodes \cup {NoNode}]
  BY <1>2, <1>3, <1>6, Zenon DEF TypeOK, RouteGrows
<1>8. scripts' \subseteq Nodes /\ loaded' \subseteq Nodes
  BY <1>3, ZenonT(40) DEF UnroutableRequest, TypeOK
<1> HIDE DEF e
<1>9. QED BY <1>5, <1>7, <1>8, BeginInv, ZenonT(40)

\* A command forwarded to its slot's node was routed through the map.
LEMMA ForwardRequestInv ==
    ASSUME IInv, NEW r \in Reqs, ForwardRequest(r)
    PROVE  IInv'
<1> DEFINE F(s, k, m, t) ==
             /\ Routable(m, s)
             /\ Begin(r, [Accepted(s, k, t) EXCEPT !.node = m[s]])
             /\ mapped' = TRUE /\ route' = m
             /\ scripts' = IF k.script THEN scripts \cup {m[s]} ELSE scripts
             /\ loaded' = IF k.script /\ m[s] \notin scripts
                          THEN loaded \cup {m[s]} ELSE loaded
<1>1. PICK s \in Slots, k \in Kinds, m \in RouteMaps : \E t \in TriesOf(k) : F(s, k, m, t)
  BY ZenonT(30) DEF ForwardRequest
<1>2. PICK t \in TriesOf(k) : F(s, k, m, t)
  BY <1>1
<1>3. TypeOK /\ t \in Nat
  BY TriesType DEF IInv
<1>4. m \in [Slots -> Nodes \cup {NoNode}] /\ (mapped => m = route)
  BY <1>3 DEF RouteMaps, TypeOK
<1>5. m[s] \in Nodes
  BY <1>2, <1>4 DEF Routable
<1> DEFINE a == Accepted(s, k, t)
           b == [a EXCEPT !.node = m[s]]
<1>6. a \in Request /\ Fresh(a) /\ a.slot = s
  BY <1>3, AcceptedFresh, ZenonT(40)
<1>7. b \in Request /\ Fresh(b) /\ b.slot = s
  <2> HIDE DEF a
  <2>1. b \in Request
    BY <1>5, <1>6, ZenonT(40) DEF Request, Peers
  <2>2. QED BY <1>6, <2>1, ZenonT(40) DEF Fresh, Request
<1>8. Begin(r, b)
  BY <1>2, ZenonT(40)
<1>9. RouteGrows /\ mapped' \in BOOLEAN /\ route' \in [Slots -> Nodes \cup {NoNode}]
  BY <1>2, <1>4, ZenonT(40) DEF RouteGrows
<1>10. scripts' \subseteq Nodes /\ loaded' \subseteq Nodes
  BY <1>2, <1>3, <1>5, ZenonT(40) DEF TypeOK
<1>11. mapped' /\ route'[b.slot] # NoNode
  BY <1>2, <1>5, <1>7, NamesAssumption, ZenonT(40) DEF Peers
<1> HIDE DEF b
<1>12. QED BY <1>7, <1>8, <1>9, <1>10, <1>11, BeginInv, ZenonT(40)

\* A step that changes one request, and of the rest at most the peer array
\* and the idle connections.
LEMMA HandlerInv ==
    ASSUME IInv, NEW r \in Reqs, NEW x \in Request, Set(r, x), Good(x), Kept(q[r], x),
           q[r].st \notin {"new", "done"},
           UNCHANGED <<mapped, route, scripts, conf, dflt, cluster>>,
           peers \subseteq peers', peers' \subseteq Peers, idle' \in [Peers -> Nat]
    PROVE  IInv'
<1>1. /\ q' \in [Reqs -> Request]
      /\ \A s \in Reqs : Good(q'[s]) /\ Routed(q'[s], mapped', route')
  BY HandlerStep, ZenonT(40)
<1>2. TypeOK'
  BY <1>1, ZenonT(40) DEF IInv, TypeOK, cluster
<1>3. QED BY <1>1, <1>2, ZenonT(40) DEF IInv

\* What the invariant says of the request an action is about.
LEMMA RequestFacts ==
    ASSUME IInv, NEW r \in Reqs
    PROVE  /\ q[r] \in Request /\ Good(q[r])
           /\ peers \subseteq Peers /\ idle \in [Peers -> Nat]
BY ZenonT(40) DEF IInv, TypeOK

\* Growing the peer array in place keeps every request Good and Routed.
LEMMA SharedGood ==
    ASSUME IInv, NEW i \in BOOLEAN, NEW p \in Peers, NEW f, f = Shared(i, p)
    PROVE  /\ f \in [Reqs -> Request]
           /\ \A s \in Reqs : /\ Good(f[s]) /\ Routed(f[s], mapped, route)
                              /\ q[s].cap \subseteq f[s].cap
<1> DEFINE g(s) == [q[s] EXCEPT !.cap = peers \cup {p}]
<1>1. peers \cup {p} \in SUBSET Peers /\ Default \in peers
  BY ZenonT(40) DEF IInv, TypeOK
<1>2. ASSUME NEW s \in Reqs, q[s].st # "done", q[s].cap = peers
      PROVE  /\ g(s) \in Request /\ Good(g(s)) /\ Routed(g(s), mapped, route)
             /\ q[s].cap \subseteq g(s).cap
  <2>1. q[s] \in Request /\ Good(q[s]) /\ Routed(q[s], mapped, route)
    BY ZenonT(40) DEF IInv, TypeOK
  <2>2. q[s].st # "new"
    <3>1. q[s].st = "new" => q[s].cap = {}
      BY <2>1, BlankFields, Zenon DEF Good
    <3> QED BY <1>1, <1>2, <3>1, Zenon
  <2>3. /\ g(s) \in Request /\ Kept(q[s], g(s)) /\ g(s).st = q[s].st /\ Good(g(s))
    <3>1. q[s].cap \subseteq peers \cup {p}
      BY <1>2, Zenon
    <3> DEFINE x == q[s]
               c == peers \cup {p}
               y == g(s)
    <3>2. /\ x \in Request /\ Good(x) /\ x.st # "new" /\ c \in SUBSET Peers
          /\ x.cap \subseteq c /\ y = [x EXCEPT !.cap = c]
      BY <1>1, <2>1, <2>2, <3>1, Zenon
    <3> HIDE DEF x, c, y
    <3>3. y \in Request /\ Kept(x, y) /\ y.st = x.st /\ Good(y)
      BY <3>2, WiderCap, ZenonT(40)
    <3> QED BY <3>3, Zenon DEF x, y
  <2>4. g(s).cap = peers \cup {p}
    BY <2>1, ZenonT(40) DEF Request
  <2> HIDE DEF g
  <2>5. Routed(g(s), mapped, route)
    BY <2>1, <2>3, ZenonT(40) DEF Routed, Kept
  <2>6. QED BY <1>2, <2>3, <2>4, <2>5, ZenonT(40)
<1>3. ASSUME NEW s \in Reqs
      PROVE  q[s] \in Request /\ Good(q[s]) /\ Routed(q[s], mapped, route)
  BY DEF IInv, TypeOK
<1>4. f = [s \in Reqs |-> IF i /\ q[s].st # "done" /\ q[s].cap = peers
                          THEN g(s) ELSE q[s]]
  BY DEF Shared
<1> HIDE DEF g
<1>5. QED BY <1>2, <1>3, <1>4, ZenonT(40)

\* ngx_http_upstream_connect keeps the invariant.
LEMMA ConnectInv ==
    ASSUME IInv, NEW r \in Reqs, Connect(r)
    PROVE  IInv'
<1>1. q[r] \in Request /\ Good(q[r]) /\ peers \subseteq Peers /\ idle \in [Peers -> Nat]
  BY RequestFacts, ZenonT(40)
<1>2. q[r].st = "connect" /\ UNCHANGED <<mapped, route, scripts, conf, dflt, cluster>>
  BY ZenonT(40) DEF Connect
<1>3. Attempting(q[r]) /\ Budget(q[r], 0)
  BY <1>1, <1>2, ZenonT(40) DEF Good
<1> DEFINE C(at, f, x) ==
             /\ peers' = peers \cup {at}
             /\ \/ /\ idle[at] = 0
                   /\ q' = [f EXCEPT ![r] = NextUpstream(x, "ERROR")]
                   /\ idle' = idle
                \/ /\ idle[at] = 0
                   /\ q' = [f EXCEPT ![r] = Connected(x, FALSE)]
                   /\ idle' = idle
                \/ /\ idle[at] > 0
                   /\ q' = [f EXCEPT ![r] = Connected(x, TRUE)]
                   /\ idle' = [idle EXCEPT ![at] = @ - 1]
<1>4. PICK p \in Candidates(q[r]), i \in BOOLEAN :
         C(GetPeer(q[r], p).at, Shared(i, GetPeer(q[r], p).at),
           [GetPeer(q[r], p) EXCEPT !.cap = Shared(i, GetPeer(q[r], p).at)[r].cap])
  BY Zenon DEF Connect
<1>5. p \in Peers
  BY <1>1, ZenonT(40) DEF Candidates, Request
<1> DEFINE w  == GetPeer(q[r], p)
           at == w.at
           f  == Shared(i, at)
           x  == [w EXCEPT !.cap = f[r].cap]
<1>6. w \in Request /\ Attempting(w) /\ Kept(q[r], w) /\ w.cap = q[r].cap /\ w.st = q[r].st
  BY <1>1, <1>2, <1>3, <1>5, GetPeerType, GetPeerGood, GetPeerCap, ZenonT(40)
<1>7. C(at, f, x)
  BY <1>4, ZenonT(30)
<1> HIDE DEF w
<1>8. at \in Peers
  BY <1>6, ZenonT(30) DEF Request
<1> HIDE DEF at
<1>9. /\ f \in [Reqs -> Request]
      /\ \A s \in Reqs : /\ Good(f[s]) /\ Routed(f[s], mapped, route)
                         /\ q[s].cap \subseteq f[s].cap
  BY <1>8, SharedGood, Zenon
<1> HIDE DEF f
<1>10. x \in Request /\ Attempting(x) /\ Kept(q[r], x)
  <2>1. f[r].cap \in SUBSET Peers /\ w.cap \subseteq f[r].cap /\ w.st # "new"
    BY <1>2, <1>6, <1>9, Zenon DEF Request
  <2>2. x \in Request /\ Attempting(x) /\ Kept(w, x)
    BY <1>6, <2>1, WiderCap
  <2> HIDE DEF x
  <2>3. QED BY <1>6, <2>2, ZenonT(40) DEF Kept
<1> HIDE DEF x
<1>11. peers \subseteq peers' /\ peers' \subseteq Peers /\ idle' \in [Peers -> Nat]
  <2>1. /\ peers' = peers \cup {at}
        /\ idle' = idle \/ (idle[at] > 0 /\ idle' = [idle EXCEPT ![at] = @ - 1])
    BY <1>7, Zenon
  <2>2. idle[at] > 0 => [idle EXCEPT ![at] = @ - 1] \in [Peers -> Nat]
    BY <1>1, <1>8, IdleCounts, Zenon
  <2>3. QED BY <1>1, <1>8, <2>1, <2>2, ZenonT(40)
<1>12. ASSUME NEW z \in Request, q' = [f EXCEPT ![r] = z], Good(z), Kept(x, z)
       PROVE  IInv'
  <2>1. Routed(z, mapped, route)
    <3>1. Routed(q[r], mapped, route)
      BY ZenonT(40) DEF IInv
    <3>2. QED BY <1>2, <1>10, <1>12, <3>1, ZenonT(40) DEF Kept, Routed
  <2>2. /\ q' \in [Reqs -> Request]
        /\ \A s \in Reqs : Good(q'[s]) /\ Routed(q'[s], mapped', route')
    BY <1>2, <1>9, <1>12, <2>1, ZenonT(40)
  <2>3. TypeOK'
    BY <1>2, <1>11, <2>2, ZenonT(40) DEF IInv, TypeOK, cluster
  <2>4. QED BY <1>2, <1>11, <2>2, <2>3, ZenonT(40) DEF IInv
<1>13. CASE q' = [f EXCEPT ![r] = NextUpstream(x, "ERROR")]
  BY <1>10, <1>12, <1>13, NextUpstreamType, NextUpstreamGood, Zenon
<1>14. CASE q' = [f EXCEPT ![r] = Connected(x, FALSE)]
  BY <1>10, <1>12, <1>14, ConnectedType, ConnectedGood, Zenon
<1>15. CASE q' = [f EXCEPT ![r] = Connected(x, TRUE)]
  BY <1>10, <1>12, <1>15, ConnectedType, ConnectedGood, Zenon
<1>16. QED BY <1>7, <1>13, <1>14, <1>15, Zenon

\* NGX_BUSY from round robin keeps the invariant.
LEMMA ConnectBusyInv ==
    ASSUME IInv, NEW r \in Reqs, ConnectBusy(r)
    PROVE  IInv'
<1>1. q[r] \in Request /\ Good(q[r]) /\ peers \subseteq Peers /\ idle \in [Peers -> Nat]
  BY RequestFacts
<1> DEFINE x == q[r]
<1>2. x.st = "connect" /\ Set(r, Finish(x, "502")) /\ UNCHANGED <<worker, cluster>>
  BY SMTT(30) DEF ConnectBusy
<1>3. Attempting(x)
  BY <1>1, <1>2, ZenonT(30) DEF Good
<1>4. x.cap \in SUBSET Peers /\ x.execs \in Nat /\ x.lost \in Nat
      /\ x.hp \in Nat /\ x.ptries \in Nat /\ x.stale \in Nat
  BY <1>1, ZenonT(30) DEF Request
<1>5. Cardinality(x.cap) \in Nat
  BY <1>4, CapSize, ZenonT(40)
<1>6. x.execs <= x.lost + 1 /\ x.hp <= Cardinality(x.cap) + x.stale /\ x.pcode # "OK"
  BY <1>1, <1>3, BudgetSpent, ExecsBound, ZenonT(40) DEF Attempting, Aligned
<1>7. Finish(x, "502") \in Request /\ Good(Finish(x, "502")) /\ Kept(x, Finish(x, "502"))
  BY <1>1, <1>6, FinishType, FinishGood, ZenonT(40) DEF Answers
<1>8. QED BY <1>1, <1>2, <1>7, HandlerInv, ZenonT(40) DEF worker

\* A completed connection keeps the invariant.
LEMMA EstablishedInv ==
    ASSUME IInv, NEW r \in Reqs, Established(r)
    PROVE  IInv'
<1>1. q[r] \in Request /\ Good(q[r]) /\ peers \subseteq Peers /\ idle \in [Peers -> Nat]
  BY RequestFacts
<1> DEFINE x == q[r]
           z == [x EXCEPT !.st = "sent", !.sent = TRUE]
<1>2. x.st = "connecting" /\ Set(r, z) /\ UNCHANGED <<worker, cluster>>
  BY DEF Established
<1>3. Settled(x) /\ x.execs <= x.lost
  BY <1>1, <1>2, ZenonT(40) DEF Good
<1>4. z \in Request
  BY <1>1, ZenonT(30) DEF Request, Phases
<1>5. /\ z.st = "sent" /\ z.sent = TRUE /\ z.ans = x.ans /\ z.pcode = x.pcode
      /\ z.code = x.code /\ z.proto = x.proto /\ z.bufs = x.bufs /\ z.moved = x.moved
      /\ z.slot = x.slot /\ z.cap = x.cap /\ z.hp = x.hp /\ z.stale = x.stale
      /\ z.ptries = x.ptries /\ z.execs = x.execs /\ z.lost = x.lost
  BY <1>1 DEF Request
<1> HIDE DEF z
<1>6. Aligned(z) /\ Budget(z, 1) /\ z.moved \in {"OK", "ASKING_END"} /\ z.execs <= z.lost
  BY <1>3, <1>5 DEF Settled, Aligned, Budget
<1>7. Good(z) /\ Kept(x, z)
  BY <1>5, <1>6, Zenon DEF Good, Settled, Kept
<1>8. QED BY <1>1, <1>2, <1>4, <1>7, HandlerInv, Zenon DEF worker

\* A refused or timed out connection keeps the invariant.
LEMMA ConnectFailedInv ==
    ASSUME IInv, NEW r \in Reqs, ConnectFailed(r)
    PROVE  IInv'
<1>1. q[r] \in Request /\ Good(q[r]) /\ peers \subseteq Peers /\ idle \in [Peers -> Nat]
  BY RequestFacts
<1>2. q[r].st = "connecting" /\ UNCHANGED <<worker, cluster>>
  BY ZenonT(40) DEF ConnectFailed
<1>3. PICK ft \in {"ERROR", "TIMEOUT"} : Set(r, NextUpstream(q[r], ft))
  BY SMTT(30) DEF ConnectFailed
<1>4. Attempting(q[r])
  BY <1>1, <1>2, Zenon DEF Good, Settled, Attempting
<1>5. /\ NextUpstream(q[r], ft) \in Request /\ Good(NextUpstream(q[r], ft))
      /\ Kept(q[r], NextUpstream(q[r], ft))
  BY <1>1, <1>4, NextUpstreamType, NextUpstreamGood, ZenonT(30)
<1>6. QED BY <1>1, <1>2, <1>3, <1>5, HandlerInv, Zenon DEF worker

\* A closed connection or an expired read timer keeps the invariant: the
\* execution its reply may have reported becomes a counted loss.
LEMMA LostInv ==
    ASSUME IInv, NEW r \in Reqs, Lost(r)
    PROVE  IInv'
<1>1. q[r] \in Request /\ Good(q[r]) /\ peers \subseteq Peers /\ idle \in [Peers -> Nat]
  BY RequestFacts
<1> DEFINE x == q[r]
           w == [x EXCEPT !.lost = @ + 1]
<1>2. x.st \in {"sent", "replied"} /\ UNCHANGED <<worker, cluster>>
  BY DEF Lost
<1>3. PICK ft \in {"ERROR", "TIMEOUT"} : Set(r, NextUpstream(w, ft))
  BY ZenonT(40) DEF Lost
<1>4. Settled(x) /\ x.execs <= x.lost + 1
  <2>1. Settled(x) /\ (x.execs <= x.lost \/ ReplyMeans(x))
    BY <1>1, <1>2, ZenonT(40) DEF Good
  <2> QED BY <1>1, <2>1, ExecsBound, Zenon
<1>5. w \in Request
  <2>1. x.lost + 1 \in Nat
    BY <1>1, Counters, Counting, Zenon
  <2> QED BY <1>1, <2>1, ZenonT(40) DEF Request
<1>6. /\ w.lost = x.lost + 1 /\ w.ans = x.ans /\ w.pcode = x.pcode
      /\ w.code = x.code /\ w.proto = x.proto /\ w.bufs = x.bufs /\ w.moved = x.moved
      /\ w.slot = x.slot /\ w.cap = x.cap /\ w.hp = x.hp /\ w.stale = x.stale
      /\ w.ptries = x.ptries /\ w.execs = x.execs /\ w.sent = x.sent
  BY <1>1, ZenonT(40) DEF Request
<1> HIDE DEF w
<1>7. Aligned(w)
  BY <1>4, <1>6 DEF Settled, Aligned
<1>8. Attempting(w)
  BY <1>4, <1>6, <1>7, Zenon DEF Settled, Attempting, Budget
<1>9. /\ NextUpstream(w, ft) \in Request /\ Good(NextUpstream(w, ft))
      /\ Kept(x, NextUpstream(w, ft))
  BY <1>5, <1>6, <1>8, NextUpstreamType, NextUpstreamGood, Zenon DEF Kept
<1>10. QED BY <1>1, <1>2, <1>3, <1>9, HandlerInv, ZenonT(40) DEF worker

\* A processed reply keeps the invariant; only MOVED writes to the map, and
\* it names a node.
LEMMA ProcessReplyInv ==
    ASSUME IInv, NEW r \in Reqs, ProcessReply(r)
    PROVE  IInv' /\ RouteGrows
<1>1. q[r] \in Request /\ Good(q[r]) /\ peers \subseteq Peers /\ idle \in [Peers -> Nat]
  BY RequestFacts
<1> DEFINE x == q[r]
           y(ok) == ProcessHeader(x, ok)
           load(ok) == ok /\ NeedsLoad(x)
           P(ok) ==
             /\ load(ok) => x.node \in Nodes
             /\ Set(r, y(ok))
             /\ scripts' = IF load(ok) THEN scripts \cup {x.node} ELSE scripts
             /\ loaded' = IF load(ok) THEN loaded \cup {x.node} ELSE loaded
             /\ route' = IF LearnsRoute(x) THEN [route EXCEPT ![x.slot] = x.to] ELSE route
             /\ idle' = IF y(ok).ans = "200" /\ idle[x.at] < MaxIdle
                        THEN [idle EXCEPT ![x.at] = @ + 1] ELSE idle
<1>2. x.st = "replied" /\ UNCHANGED <<mapped, peers, conf, dflt, owner, mig, env>>
  BY ZenonT(30) DEF ProcessReply
<1>3. PICK ok \in BOOLEAN : P(ok)
  BY ZenonT(30) DEF ProcessReply
<1>4. Settled(x) /\ ReplyMeans(x)
  BY <1>1, <1>2, ZenonT(30) DEF Good
<1>5. x.code = "OK" => Seen(x) = x.rep
  BY <1>1, <1>4, SeenIsReply, ZenonT(40)
<1>6. Good(y(ok)) /\ Kept(x, y(ok))
  BY <1>1, <1>2, ProcessHeaderGood, ZenonT(40)
<1>7. TypeOK
  BY SMTT(30) DEF IInv
<1>8. x.slot \in Slots /\ x.at \in Peers
  BY <1>1, Zenon DEF Request
<1>9. LearnsRoute(x) => x.to \in Nodes
  BY <1>1, NamedIsNode, ZenonT(40) DEF LearnsRoute
<1>10. route' \in [Slots -> Nodes \cup {NoNode}] /\ RouteGrows
  <2>1. route' = IF LearnsRoute(x) THEN [route EXCEPT ![x.slot] = x.to] ELSE route
    BY <1>3, ZenonT(40)
  <2>2. route \in [Slots -> Nodes \cup {NoNode}]
    BY <1>7 DEF TypeOK
  <2>3. NoNode \notin Nodes
    BY NamesAssumption, ZenonT(40) DEF Peers
  <2> HIDE DEF x
  <2>4. QED BY <1>2, <1>8, <1>9, <2>1, <2>2, <2>3, ZenonT(40) DEF RouteGrows
<1>11. y(ok) \in Request
  BY <1>1, ProcessHeaderType, Zenon
<1>12. Routed(y(ok), mapped', route')
  <2>1. Routed(x, mapped, route)
    BY ZenonT(40) DEF IInv
  <2> HIDE DEF x, y
  <2>2. QED BY <1>2, <1>6, <1>8, <1>10, <2>1, ZenonT(40) DEF Routed, Kept, RouteGrows
<1>13. /\ q' \in [Reqs -> Request]
       /\ \A s \in Reqs : Good(q'[s]) /\ Routed(q'[s], mapped', route')
  <2>1. Set(r, y(ok))
    BY <1>3, ZenonT(40)
  <2> HIDE DEF y
  <2>2. QED BY <1>6, <1>10, <1>11, <1>12, <2>1, RequestStep, ZenonT(40)
<1>14. scripts' \subseteq Nodes /\ loaded' \subseteq Nodes
  <2>1. /\ load(ok) => x.node \in Nodes
        /\ scripts' = IF load(ok) THEN scripts \cup {x.node} ELSE scripts
        /\ loaded' = IF load(ok) THEN loaded \cup {x.node} ELSE loaded
    BY <1>3, ZenonT(40)
  <2> HIDE DEF load, x
  <2>2. QED BY <1>7, <2>1, ZenonT(40) DEF TypeOK
<1>15. idle' \in [Peers -> Nat]
  <2>1. idle' = idle \/ idle' = [idle EXCEPT ![x.at] = @ + 1]
    BY <1>3, ZenonT(30)
  <2> HIDE DEF x
  <2>2. [idle EXCEPT ![x.at] = @ + 1] \in [Peers -> Nat]
    BY <1>1, <1>8, IdleCounts, Zenon
  <2>3. QED BY <1>1, <2>1, <2>2, Zenon
<1>16. TypeOK'
  BY <1>2, <1>7, <1>10, <1>13, <1>14, <1>15, ZenonT(40) DEF TypeOK
<1>17. QED BY <1>2, <1>10, <1>13, <1>16, Zenon DEF IInv

\* A reply that cannot be decoded keeps the invariant.
LEMMA ProcessPartialReplyInv ==
    ASSUME IInv, NEW r \in Reqs, ProcessPartialReply(r)
    PROVE  IInv'
<1>1. q[r] \in Request /\ Good(q[r]) /\ peers \subseteq Peers /\ idle \in [Peers -> Nat]
  BY RequestFacts
<1> DEFINE x == q[r]
<1>2. x.st = "replied" /\ Set(r, Finish(x, "500")) /\ UNCHANGED <<worker, cluster>>
  BY ZenonT(30) DEF ProcessPartialReply
<1>3. Settled(x) /\ ReplyMeans(x)
  BY <1>1, <1>2, ZenonT(30) DEF Good
<1>4. x.cap \in SUBSET Peers /\ x.execs \in Nat /\ x.lost \in Nat
      /\ x.hp \in Nat /\ x.ptries \in Nat /\ x.stale \in Nat
  BY <1>1, ZenonT(40) DEF Request
<1>5. Cardinality(x.cap) \in Nat
  BY <1>4, CapSize
<1>6. x.execs <= x.lost + 1 /\ x.hp <= Cardinality(x.cap) + x.stale /\ x.pcode # "OK"
  BY <1>1, <1>3, BudgetSpent, ExecsBound, ZenonT(40) DEF Settled, Aligned
<1>7. Finish(x, "500") \in Request /\ Good(Finish(x, "500")) /\ Kept(x, Finish(x, "500"))
  BY <1>1, <1>6, FinishType, FinishGood, Zenon DEF Answers
<1>8. QED BY <1>1, <1>2, <1>7, HandlerInv, Zenon DEF worker

\* Any answer that reports a success only for an execution, for a command at
\* the backup server or for a request with an error code keeps the invariant.
LEMMA AnswerInv ==
    ASSUME IInv, NEW r \in Reqs, q[r].st = "sent",
           NEW rep \in Replies, NEW to \in Nodes \cup {NoNode}, NEW ran \in BOOLEAN,
           Answer(r, rep, to, ran), ran => rep = "OK",
           rep = "OK" => ran \/ q[r].at = Backup \/ q[r].code # "OK"
    PROVE  IInv'
<1>1. q[r] \in Request /\ Good(q[r]) /\ peers \subseteq Peers /\ idle \in [Peers -> Nat]
  BY RequestFacts, Zenon
<1> DEFINE x == q[r]
           n == IF ran THEN x.execs + 1 ELSE x.execs
           z == [x EXCEPT !.st = "replied", !.rep = rep, !.to = to, !.execs = n]
<1>2. Set(r, z) /\ UNCHANGED <<worker, cluster>>
  BY SMTT(30) DEF Answer
<1>3. Settled(x) /\ x.execs <= x.lost /\ x.sent
  BY <1>1, ZenonT(30) DEF Good
<1>4. /\ n \in Nat /\ n <= x.lost + 1
      /\ ran => n > 0
      /\ ~ran => n <= x.lost
  <2>1. x.execs \in Nat /\ x.lost \in Nat
    BY <1>1, Counters, Zenon
  <2>2. /\ x.execs + 1 \in Nat /\ x.execs + 1 > 0
        /\ x.execs <= x.lost + 1 /\ x.execs + 1 <= x.lost + 1
    BY <1>3, <2>1, Counting, Zenon
  <2> QED BY <1>3, <2>1, <2>2, Zenon
<1>5. z \in Request
  <2>1. "replied" \in Phases /\ x \in Request
    BY <1>1, SMTT(30) DEF Phases
  <2> HIDE DEF n, x
  <2>2. QED BY <1>4, <2>1, ZenonT(30) DEF Request
<1>6. /\ z.st = "replied" /\ z.rep = rep /\ z.to = to /\ z.execs = n /\ z.at = x.at
      /\ z.ans = x.ans /\ z.pcode = x.pcode
      /\ z.code = x.code /\ z.proto = x.proto /\ z.bufs = x.bufs /\ z.moved = x.moved
      /\ z.slot = x.slot /\ z.cap = x.cap /\ z.hp = x.hp /\ z.stale = x.stale
      /\ z.ptries = x.ptries /\ z.lost = x.lost /\ z.sent = x.sent
  <2> HIDE DEF n
  <2> QED BY <1>1, SMTT(30) DEF Request
<1> HIDE DEF z
<1>7. Aligned(z) /\ Budget(z, 1) /\ z.moved \in {"OK", "ASKING_END"}
  <2>1. Aligned(x) /\ Budget(x, 1) /\ x.moved \in {"OK", "ASKING_END"}
    BY <1>3, ZenonT(30) DEF Settled
  <2> HIDE DEF x
  <2>2. Aligned(z)
    BY <1>6, <2>1, ZenonT(40) DEF Aligned
  <2>3. Budget(z, 1)
    BY <1>6, <2>1, Zenon DEF Budget
  <2>4. QED BY <1>6, <2>1, <2>2, <2>3, Zenon
<1>8. ReplyMeans(z)
  <2>1. /\ ran => rep = "OK"
        /\ rep = "OK" => ran \/ x.at = Backup \/ x.code # "OK"
    BY Zenon
  <2> HIDE DEF n, x
  <2> QED BY <1>4, <1>6, <2>1, ZenonT(40) DEF ReplyMeans
<1>9. Good(z) /\ Kept(x, z)
  BY <1>3, <1>6, <1>7, <1>8, Zenon DEF Good, Settled, Kept
<1>10. QED BY <1>1, <1>2, <1>5, <1>9, HandlerInv, Zenon DEF worker

\* Whatever the cluster, the backup server or the placeholder answers keeps
\* the invariant.
LEMMA ServeInv ==
    ASSUME IInv, NEW r \in Reqs, Serve(r)
    PROVE  IInv'
<1>1. q[r] \in Request /\ Good(q[r]) /\ q[r].st = "sent"
  <2>1. q[r].st = "sent"
    BY ZenonT(40) DEF Serve, ServeBackup, ServeDefault, ServePing, ServeCommand, ServeError,
         ServeNoScript, ServeTryAgain, ServeAsk, ServeMoved, ToServer, Sent
  <2>2. QED BY <2>1, RequestFacts, Zenon
<1>2. TypeOK /\ q[r].slot \in Slots
  BY <1>1, ZenonT(30) DEF IInv, Request
<1>3. CASE ServeBackup(r)
  BY <1>1, <1>3, AnswerInv, BackupAssumption, Zenon DEF ServeBackup, Replies
<1>4. CASE ServeDefault(r)
  BY <1>1, <1>4, AnswerInv, Zenon DEF ServeDefault, Replies
<1>5. CASE ServePing(r)
  <2>1. q[r].code # "OK"
    BY <1>1, <1>5, Zenon DEF ServePing, Good, Settled, Aligned
  <2>2. QED BY <1>1, <1>5, <2>1, AnswerInv, Zenon DEF ServePing, Replies
<1>6. CASE ServeCommand(r)
  BY <1>1, <1>6, AnswerInv, Zenon DEF ServeCommand, Replies
<1>7. CASE ServeError(r)
  BY <1>1, <1>7, AnswerInv, Zenon DEF ServeError, Replies
<1>8. CASE ServeNoScript(r)
  BY <1>1, <1>8, AnswerInv, Zenon DEF ServeNoScript, Replies
<1>9. CASE ServeTryAgain(r)
  BY <1>1, <1>9, AnswerInv, Zenon DEF ServeTryAgain, Replies
<1>10. CASE ServeAsk(r)
  <2>1. mig[q[r].slot] \in Nodes \cup {NoNode}
    BY <1>2, ZenonT(40) DEF TypeOK
  <2>2. PICK to \in {mig[q[r].slot], NoNode} : Answer(r, "ASK", to, FALSE)
    BY <1>10, Zenon DEF ServeAsk, Named
  <2>3. to \in Nodes \cup {NoNode}
    BY <2>1, <2>2, Zenon
  <2>4. QED BY <1>1, <2>2, <2>3, AnswerInv, Zenon DEF Replies
<1>11. CASE ServeMoved(r)
  <2>1. owner[q[r].slot] \in Nodes
    BY <1>2, ZenonT(40) DEF TypeOK
  <2>2. PICK to \in {owner[q[r].slot], NoNode} : Answer(r, "MOVED", to, FALSE)
    BY <1>11, Zenon DEF ServeMoved, Named
  <2>3. to \in Nodes \cup {NoNode}
    BY <2>1, <2>2, Zenon
  <2>4. QED BY <1>1, <2>2, <2>3, AnswerInv, Zenon DEF Replies
<1>12. QED
  BY <1>3, <1>4, <1>5, <1>6, <1>7, <1>8, <1>9, <1>10, <1>11, ZenonT(40) DEF Serve

\* Idle connections that close and events of the cluster keep the invariant:
\* they touch no request and no map.
LEMMA EnvironmentInv ==
    ASSUME IInv,
           \/ \E p \in Peers : IdleClosed(p)
           \/ \E s \in Slots, n \in Nodes : StartMigration(s, n)
           \/ \E s \in Slots : FinishMigration(s)
           \/ \E n \in Nodes : RestartNode(n)
           \/ UNCHANGED vars
    PROVE  IInv'
<1>1. TypeOK
  BY SMTT(30) DEF IInv
<1>2. UNCHANGED <<q, mapped, route, scripts, peers, conf, dflt>>
  BY ZenonT(30) DEF IdleClosed, StartMigration, FinishMigration, RestartNode, vars, worker
<1>3. idle' \in [Peers -> Nat]
  <2>1. idle \in [Peers -> Nat]
    BY <1>1, Zenon DEF TypeOK
  <2>2. CASE \E p \in Peers : IdleClosed(p)
    <3>1. PICK p \in Peers : idle[p] > 0 /\ idle' = [idle EXCEPT ![p] = @ - 1]
      BY <2>2, Zenon DEF IdleClosed
    <3>2. idle[p] > 0 => [idle EXCEPT ![p] = @ - 1] \in [Peers -> Nat]
      BY <2>1, IdleCounts, Zenon
    <3> QED BY <3>1, <3>2, Zenon
  <2>3. CASE ~ \E p \in Peers : IdleClosed(p)
    <3>1. idle' = idle
      BY <2>3, ZenonT(40) DEF StartMigration, FinishMigration, RestartNode, vars, worker
    <3> QED BY <2>1, <3>1, Zenon
  <2> QED BY <2>2, <2>3, Zenon
<1>4. owner' \in [Slots -> Nodes] /\ mig' \in [Slots -> Nodes \cup {NoNode}]
      /\ loaded' \subseteq Nodes /\ env' \in Nat
  <2>1. CASE \E s \in Slots, n \in Nodes : StartMigration(s, n)
    BY <1>1, <2>1, Counting, ZenonT(40) DEF TypeOK, StartMigration
  <2>2. CASE \E s \in Slots : FinishMigration(s)
    BY <1>1, <2>2, Counting, ZenonT(40) DEF TypeOK, FinishMigration
  <2>3. CASE \E n \in Nodes : RestartNode(n)
    BY <1>1, <2>3, Counting, ZenonT(40) DEF TypeOK, RestartNode
  <2>4. CASE (\E p \in Peers : IdleClosed(p)) \/ UNCHANGED vars
    BY <1>1, <2>4, ZenonT(30) DEF TypeOK, IdleClosed, vars, cluster
  <2>5. QED BY <2>1, <2>2, <2>3, <2>4, ZenonT(40)
<1>5. TypeOK'
  BY <1>1, <1>2, <1>3, <1>4, Zenon DEF TypeOK
<1>6. QED BY <1>2, <1>5, ZenonT(40) DEF IInv

\* A worker that has served before satisfies the invariant.
LEMMA InitInv == Init => IInv
<1> SUFFICES ASSUME Init PROVE IInv
  OBVIOUS
<1>1. q = [r \in Reqs |-> Blank] /\ Blank.st = "new"
  BY ZenonT(30) DEF Init, Blank
<1>2. \A r \in Reqs : Good(q[r]) /\ Routed(q[r], mapped, route)
  BY <1>1, Zenon DEF Good, Routed
<1>3. PICK known \in Histories : /\ peers = known \cup {Default}
                                 /\ idle = [p \in Peers |-> IF p \in known THEN InitIdle ELSE 0]
  BY ZenonT(40) DEF Init
<1>4. peers \subseteq Peers /\ Default \in peers /\ idle \in [Peers -> Nat]
  <2>1. InitIdle \in Nat /\ 0 \in Nat
    BY BoundsAssumption
  <2>2. known \subseteq Nodes \cup {Backup}
    BY HistoriesAssumption, Zenon
  <2> QED BY <1>3, <2>1, <2>2, ZenonT(40) DEF Peers
<1>5. q \in [Reqs -> Request]
  BY <1>1, BlankType, ZenonT(40)
<1>6. TypeOK
  BY <1>4, <1>5, BoundsAssumption, ZenonT(40) DEF Init, TypeOK
<1>7. QED BY <1>2, <1>4, <1>6, ZenonT(40) DEF Init, IInv

\* Every step of the worker and of its environment keeps the invariant.
LEMMA NextInv == IInv /\ [Next]_vars => IInv'
<1> SUFFICES ASSUME IInv, [Next]_vars PROVE IInv'
  OBVIOUS
<1>1. ASSUME NEW r \in Reqs, Create(r) PROVE IInv'
  BY <1>1, RejectRequestInv, UnroutableRequestInv, ForwardRequestInv, ZenonT(40) DEF Create
<1>2. ASSUME NEW r \in Reqs, Connect(r) \/ ConnectBusy(r) PROVE IInv'
  BY <1>2, ConnectInv, ConnectBusyInv, ZenonT(40)
<1>3. ASSUME NEW r \in Reqs, EndConnecting(r) PROVE IInv'
  BY <1>3, EstablishedInv, ConnectFailedInv, ZenonT(40) DEF EndConnecting
<1>4. ASSUME NEW r \in Reqs, EndReading(r) PROVE IInv'
  BY <1>4, LostInv, ProcessReplyInv, ProcessPartialReplyInv, ZenonT(40) DEF EndReading
<1>5. ASSUME NEW r \in Reqs, Serve(r) PROVE IInv'
  BY <1>5, ServeInv, ZenonT(40)
<1>6. CASE Idle \/ UNCHANGED vars
  BY <1>6, EnvironmentInv, ZenonT(40) DEF Idle
<1>7. QED
  BY <1>1, <1>2, <1>3, <1>4, <1>5, <1>6, EnvironmentInv, ZenonT(40) DEF Next

-----------------------------------------------------------------------------
(* The properties *)

\* The inductive invariant holds in every behaviour of the worker.
THEOREM Invariance == Spec => []IInv
BY InitInv, NextInv, PTL DEF Spec

\* Type correctness of the worker's and the cluster's state.
THEOREM TypeCorrect == Spec => []TypeOK
<1>1. IInv => TypeOK
  BY DEF IInv
<1>2. QED BY <1>1, Invariance, PTL

\* process_header skips the reply of ASKING exactly when the bytes on the
\* wire contain ASKING.
THEOREM SkipSafe == Spec => []SkipMatchesBytes
<1>1. IInv => SkipMatchesBytes
  BY ZenonT(30) DEF IInv, Good, Settled, Aligned, SkipMatchesBytes
<1>2. QED BY <1>1, Invariance, PTL

\* What the invariant says of the answer, the counters and the parent's code
\* of a request, whatever its state.
LEMMA GoodSummary ==
    ASSUME NEW x \in Request, Good(x)
    PROVE  /\ x.ans = "200" /\ x.code = "OK" =>
                x.execs > 0 \/ (x.at = Backup /\ x.bufs.body = "CMD")
           /\ x.execs <= x.lost + 1
           /\ x.hp <= Cardinality(x.cap) + x.stale
           /\ x.st = "done" => Final(x)
<1>1. x.st \in {"new", "connect", "connecting", "sent", "replied", "done"}
  BY DEF Request, Phases
<1>2. /\ x.cap \in SUBSET Peers /\ x.hp \in Nat /\ x.ptries \in Nat /\ x.stale \in Nat
      /\ x.execs \in Nat /\ x.lost \in Nat
  BY ZenonT(40) DEF Request
<1>3. Cardinality(x.cap) \in Nat
  BY <1>2, CapSize, ZenonT(40)
<1>4. CASE x.st = "new"
  <2>1. x.hp = 0 /\ x.execs = 0 /\ x.ans = "none"
    BY <1>4, BlankFields, Zenon DEF Good
  <2>2. 0 <= Cardinality(x.cap) + x.stale /\ 0 <= x.lost + 1
    BY <1>2, <1>3, Counting, Zenon
  <2>3. QED BY <1>4, <2>1, <2>2, Zenon
<1>5. CASE x.st = "done"
  BY <1>5, ZenonT(30) DEF Good, Final
<1>6. CASE x.st \in {"connect", "connecting", "sent", "replied"}
  <2>1. Aligned(x) /\ Budget(x, 1) /\ (x.execs <= x.lost \/ ReplyMeans(x))
    BY <1>6, ZenonT(40) DEF Good, Attempting, Settled
  <2>2. x.execs <= x.lost + 1 /\ x.hp <= Cardinality(x.cap) + x.stale
    BY <2>1, BudgetSpent, ExecsBound, Zenon
  <2>3. QED BY <1>6, <2>1, <2>2, ZenonT(40) DEF Aligned
<1>7. QED BY <1>1, <1>4, <1>5, <1>6, Zenon

\* A client is told success only for a command the cluster ran or a backup
\* server accepted.
THEOREM SuccessSafe == Spec => []TrueSuccess
<1>1. IInv => TrueSuccess
  BY GoodSummary, Zenon DEF IInv, TypeOK, TrueSuccess
<1>2. QED BY <1>1, Invariance, PTL

\* A command runs at most once more than the attempts whose reply was lost.
THEOREM RunsOnceSafe == Spec => []RunsOncePerLoss
<1>1. IInv => RunsOncePerLoss
  BY GoodSummary, Zenon DEF IInv, TypeOK, RunsOncePerLoss
<1>2. QED BY <1>1, Invariance, PTL

\* The attempts of a request are bounded by the peers it captured and the
\* stale cached connections it met.
THEOREM AttemptsSafe == Spec => []AttemptsBounded
<1>1. IInv => AttemptsBounded
  BY GoodSummary, Zenon DEF IInv, TypeOK, AttemptsBounded
<1>2. QED BY <1>1, Invariance, PTL

\* The default tries stay the configured ones.
THEOREM DefaultTriesSafe == Spec => []DefaultTriesKept
<1>1. IInv => DefaultTriesKept
  <2>1. ~ (0 > 0)
    OBVIOUS
  <2> QED BY <2>1, Zenon DEF IInv, DefaultTriesKept
<1>2. QED BY <1>1, Invariance, PTL

\* What an answered sub-request leaves in its parent's code.
THEOREM SubRequestSafe == Spec => []SubRequestContract
<1>1. IInv => SubRequestContract
  BY GoodSummary, Zenon DEF IInv, TypeOK, SubRequestContract, Final
<1>2. QED BY <1>1, Invariance, PTL

\* Once the map is loaded, a step that changes a slot processes a MOVED reply
\* to a request for that slot, and the slot was in the map.
LEMMA RouteStep ==
    ASSUME IInv, [Next]_vars, mapped, NEW s \in Slots, route'[s] # route[s]
    PROVE  /\ route[s] # NoNode
           /\ \E r \in Reqs : /\ q[r].st = "replied" /\ q[r].rep = "MOVED"
                              /\ q[r].slot = s /\ route'[s] = q[r].to /\ q[r].to # NoNode
<1>1. TypeOK /\ route \in [Slots -> Nodes \cup {NoNode}]
  BY ZenonT(30) DEF IInv, TypeOK
<1>2. PICK r \in Reqs : ProcessReply(r)
  <2>1. ASSUME NEW r \in Reqs, Create(r) PROVE FALSE
    BY <2>1, ZenonT(30) DEF Create, RejectRequest, UnroutableRequest, ForwardRequest, RouteMaps
  <2>2. ASSUME NEW r \in Reqs, Connect(r) \/ ConnectBusy(r) \/ EndConnecting(r) \/ Lost(r)
                               \/ ProcessPartialReply(r)
        PROVE  FALSE
    BY <2>2, ZenonT(30) DEF Connect, ConnectBusy, EndConnecting, Established, ConnectFailed, Lost,
         ProcessPartialReply, worker
  <2>3. ASSUME NEW r \in Reqs, Serve(r) PROVE FALSE
    BY <2>3, ZenonT(30) DEF Serve, ServeBackup, ServeDefault, ServePing, ServeCommand, ServeError,
         ServeNoScript, ServeTryAgain, ServeAsk, ServeMoved, Answer, worker
  <2>4. ASSUME \/ \E p \in Peers : IdleClosed(p)
               \/ \E t \in Slots, n \in Nodes : StartMigration(t, n)
               \/ \E t \in Slots : FinishMigration(t)
               \/ \E n \in Nodes : RestartNode(n)
               \/ Idle \/ UNCHANGED vars
        PROVE  FALSE
    BY <2>4, ZenonT(30) DEF IdleClosed, StartMigration, FinishMigration, RestartNode, Idle, vars, worker
  <2>5. QED
    BY <2>1, <2>2, <2>3, <2>4, Zenon DEF Next, EndReading
<1> DEFINE x == q[r]
<1>3. x \in Request /\ Good(x) /\ Routed(x, mapped, route)
  BY <1>1, ZenonT(30) DEF IInv, TypeOK
<1>4. /\ x.st = "replied"
      /\ route' = IF LearnsRoute(x) THEN [route EXCEPT ![x.slot] = x.to] ELSE route
  BY <1>2, Zenon DEF ProcessReply
<1> HIDE DEF x
<1>5. LearnsRoute(x) /\ x.slot = s /\ route'[s] = x.to
  BY <1>1, <1>4, ZenonT(40)
<1>6. x.code = "OK" /\ Seen(x) = "MOVED"
  BY <1>5, ZenonT(40) DEF LearnsRoute, Decoded
<1>7. x.rep = "MOVED"
  BY <1>3, <1>4, <1>6, SeenIsReply, ZenonT(40) DEF Good
<1>8. route[s] # NoNode
  BY <1>3, <1>4, <1>5, <1>6, ZenonT(40) DEF Routed
<1>9. x.to # NoNode
  BY <1>5, ZenonT(40) DEF LearnsRoute, Misnamed
<1>10. QED BY <1>4, <1>5, <1>7, <1>8, <1>9, Zenon DEF x

\* The loaded slot map changes only by MOVED replies.
THEOREM RouteSafe == Spec => RouteFollowsMoved
<1>1. IInv /\ [Next]_vars => ChangesByMoved
  BY RouteStep DEF ChangesByMoved
<1>2. QED BY <1>1, Invariance, PTL DEF Spec, RouteFollowsMoved

\* A slot missing from the loaded map is never learned.
THEOREM MissingSlotSafe == Spec => MissingSlotStays
<1>1. IInv /\ [Next]_vars =>
        [mapped => \A s \in Slots : route[s] = NoNode => route'[s] = NoNode]_vars
  BY RouteStep
<1>2. QED BY <1>1, Invariance, PTL DEF Spec, MissingSlotStays
=============================================================================
