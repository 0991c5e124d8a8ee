------------------------ MODULE AccessControlProofs ------------------------
(***************************************************************************)
(* For any workers, keys, requests, answers and bounds: what a worker      *)
(* keeps is what the service answered since the worker started             *)
(* (EntryIsAnswer), what it lets through was granted (GrantCovers) within  *)
(* the limits of the first policy that applies (FirstPolicyLimits), and    *)
(* its maps come from the seeds of the client that had them loaded         *)
(* (SeedsForClient).                                                       *)
(*                                                                         *)
(* None is inductive: an entry comes from an answer that is still on its   *)
(* way, and a decision from the entry it was made by.  Good adds both for  *)
(* one worker, so that a step is looked at for the one worker that takes   *)
(* it; the others only see the service's book grow (BookGrows).  ChosenInv *)
(* adds which answer the limits and the seeds were chosen from.            *)
(***************************************************************************)
EXTENDS AccessControl, WellFoundedInduction, TLAPS

\* e is a whole answer to a question for k that the service gave since the worker started.
Answered(e, k, b, bk) ==
    /\ e \in Entries /\ e.v \in b .. Len(bk) /\ e.a = bk[e.v][k]
    /\ e.a.id /\ e.a.whole /\ e.a.default /\ e.a.routes = "whole"

\* The entries of a worker.
GoodCache(c, b, bk) == \A k \in Key : c[k] # None => Answered(c[k], k, b, bk)

\* The question a worker has asked, and the answer on its way to it.
GoodAt(s, b, bk) ==
    /\ s.st \in {"asking", "served", "lost"} => s.q \in Requests /\ ParseRequestBody(s.q)
    /\ s.st = "served" => s.v \in b .. Len(bk)

\* What a worker has let through, and by which answer.
GoodDec(d, b, bk) ==
    d.why = "ok" =>
        /\ d.q \in Requests /\ ParseRequestBody(d.q)
        /\ \E v \in b .. Len(bk) : ParseRequestUri(d.q.uri) \in bk[v][d.q.k].operation

Good(c, s, b, d, bk) ==
    /\ b \in Nat /\ 1 <= b /\ b <= Len(bk)
    /\ DOMAIN c = Key /\ GoodCache(c, b, bk) /\ GoodAt(s, b, bk)
    /\ s.st # "dead" => GoodDec(d, b, bk)

\* The inductive invariant.
AccessInv ==
    /\ book \in Seq([Key -> Answers]) /\ Len(book) >= 1
    /\ DOMAIN cache = Worker /\ DOMAIN at = Worker /\ DOMAIN born = Worker /\ DOMAIN dec = Worker
    /\ \A w \in Worker : Good(cache[w], at[w], born[w], dec[w], book)

-----------------------------------------------------------------------------
\* The sub-requests of a request do what the request does (ParseRequestUri, CreateSubRequest*).
LEMMA OneOperation ==
    ASSUME NEW uri \in Interface
    PROVE  Operations(uri) = {ParseRequestUri(uri)}
<1>1. CASE uri \in Reads
  <2>1. SubRequests(uri) \subseteq Reads
    BY <1>1 DEF SubRequests, Reads
  <2> QED BY <1>1, <2>1 DEF Operations, ParseRequestUri
<1>2. CASE uri \in Writes
  <2>1. \A s \in SubRequests(uri) \cup {uri} : s \notin Reads
    BY <1>2 DEF SubRequests, Reads, Writes
  <2> QED BY <2>1 DEF Operations, ParseRequestUri
<1> QED BY <1>1, <1>2 DEF Interface

\* A request names a key and an interface (or "other").
LEMMA RequestTyped ==
    ASSUME NEW q \in Requests
    PROVE  q.k \in Key /\ (ParseRequestBody(q) => q.uri \in Interface)
BY AccessAssumption DEF AccessAssumption, RequestType, ParseRequestBody

\* The book of the service grows at its end (Change).
LEMMA BookGrows ==
    ASSUME NEW bk \in Seq([Key -> Answers]), NEW f \in [Key -> Answers],
           NEW c, NEW s, NEW b, NEW d, Good(c, s, b, d, bk)
    PROVE  Good(c, s, b, d, Append(bk, f))
<1> DEFINE bk2 == Append(bk, f)
<1>1. Len(bk) \in Nat /\ Len(bk2) = Len(bk) + 1 /\ \A v \in 1 .. Len(bk) : bk2[v] = bk[v]
  BY DEF bk2
<1> HIDE DEF bk2
<1>2. b \in Nat /\ 1 <= b /\ b <= Len(bk)
  BY DEF Good
<1>3. \A v \in b .. Len(bk) : v \in b .. Len(bk2) /\ bk2[v] = bk[v]
  BY <1>1, <1>2
<1>4. GoodCache(c, b, bk2)
  BY <1>3 DEF Good, GoodCache, Answered
<1>5. GoodAt(s, b, bk2)
  BY <1>3 DEF Good, GoodAt
<1>6. s.st # "dead" => GoodDec(d, b, bk2)
  BY <1>3 DEF Good, GoodDec
<1> QED BY <1>1, <1>2, <1>4, <1>5, <1>6 DEF Good, bk2

\* CreateRequest from the entry on: what is decided by an answered entry is granted by it.
LEMMA DecideGood ==
    ASSUME AccessInv, NEW w \in Worker, NEW q \in Requests, ParseRequestBody(q),
           NEW entry, Answered(entry, q.k, born[w], book), ByEntry(w, q, entry), UNCHANGED <<book, born>>
    PROVE  /\ DOMAIN cache' = Worker /\ DOMAIN at' = Worker /\ DOMAIN dec' = Worker
           /\ \A x \in Worker \ {w} : cache'[x] = cache[x] /\ at'[x] = at[x] /\ dec'[x] = dec[x]
           /\ Good(cache'[w], at'[w], born[w], dec'[w], book)
<1> DEFINE e == GetNodeList(q, entry)
<1>1. Answered(e, q.k, born[w], book)
  <2>1. entry \in [a : Answers, v : Nat, match : BOOLEAN]
    BY DEF Answered, Entries
  <2>2. Matches(q, entry.a) \in BOOLEAN
    BY DEF Matches
  <2>3. e \in Entries /\ e.a = entry.a /\ e.v = entry.v
    BY <2>1, <2>2 DEF GetNodeList, Entries
  <2> QED BY <2>3 DEF Answered
<1> HIDE DEF e
<1>2. q.k \in Key
  BY RequestTyped
<1>3. cache' = [cache EXCEPT ![w][q.k] = e]
  BY DEF ByEntry, e
<1>4. DOMAIN cache = Worker /\ DOMAIN cache[w] = Key /\ GoodCache(cache[w], born[w], book)
  BY DEF AccessInv, Good
<1>5. /\ DOMAIN cache' = Worker /\ \A x \in Worker \ {w} : cache'[x] = cache[x]
      /\ DOMAIN cache'[w] = Key /\ GoodCache(cache'[w], born[w], book)
  <2>1. cache'[w] = [cache[w] EXCEPT ![q.k] = e]
    BY <1>3, <1>4
  <2>2. \A k \in Key : (cache'[w][k] = e /\ k = q.k) \/ cache'[w][k] = cache[w][k]
    BY <2>1, <1>4
  <2>3. GoodCache(cache'[w], born[w], book)
    BY <1>1, <1>4, <2>2 DEF GoodCache
  <2> QED BY <1>3, <1>4, <2>1, <2>3
<1>6. at' = [at EXCEPT ![w] = Idle]
  BY DEF ByEntry, Refuse
<1>7. \/ \E why \in {"operation", "length", "limit", "unknown"} : dec' = [dec EXCEPT ![w] = Refused(q, why)]
      \/ /\ Process(q, e.a) = "ok"
         /\ \E f, t : dec' = [dec EXCEPT ![w] = [why |-> "ok", q |-> q, a |-> e.a, tries |-> t, limits |-> f]]
  <2>1. CASE Process(q, e.a) # "ok" /\ Refuse(w, q, Process(q, e.a))
    <3>1. Process(q, e.a) \in {"operation", "length", "limit"}
      BY <2>1 DEF Process
    <3> QED BY <2>1, <3>1, Zenon DEF Refuse
  <2>2. CASE Process(q, e.a) = "ok" /\ GetNode(w, q, e)
    BY <2>2 DEF GetNode
  <2> QED BY <2>1, <2>2 DEF ByEntry, e
<1>8. DOMAIN at = Worker /\ DOMAIN dec = Worker
  BY DEF AccessInv
<1>9. GoodDec(dec'[w], born[w], book)
  <2>1. CASE \E why \in {"operation", "length", "limit", "unknown"} : dec' = [dec EXCEPT ![w] = Refused(q, why)]
    <3>1. PICK why \in {"operation", "length", "limit", "unknown"} : dec' = [dec EXCEPT ![w] = Refused(q, why)]
      BY <2>1, Zenon
    <3>2. dec'[w].why = why
      BY <3>1, <1>8 DEF Refused
    <3> QED BY <3>2 DEF GoodDec
  <2>2. CASE /\ Process(q, e.a) = "ok"
             /\ \E f, t : dec' = [dec EXCEPT ![w] = [why |-> "ok", q |-> q, a |-> e.a, tries |-> t, limits |-> f]]
    <3>1. dec'[w].q = q
      BY <2>2, <1>8
    <3>2. ParseRequestUri(q.uri) \in e.a.operation
      BY <2>2 DEF Process
    <3>3. e.v \in born[w] .. Len(book) /\ e.a = book[e.v][q.k]
      BY <1>1 DEF Answered
    <3> QED BY <3>1, <3>2, <3>3 DEF GoodDec
  <2> QED BY <1>7, <2>1, <2>2
<1>10. at'[w] = Idle /\ GoodAt(Idle, born[w], book)
  BY <1>6, <1>8 DEF GoodAt, Idle
<1>11. DOMAIN dec' = Worker /\ \A x \in Worker \ {w} : dec'[x] = dec[x]
  BY <1>7, <1>8
<1>12. born[w] \in Nat /\ 1 <= born[w] /\ born[w] <= Len(book)
  BY DEF AccessInv, Good
<1>13. Good(cache'[w], at'[w], born[w], dec'[w], book)
  BY <1>5, <1>9, <1>10, <1>12 DEF Good
<1> QED BY <1>5, <1>6, <1>8, <1>11, <1>13

\* A step of w that leaves the book alone, and w in order, keeps the invariant.
LEMMA OneWorker ==
    ASSUME AccessInv, NEW w \in Worker, UNCHANGED book,
           DOMAIN cache' = Worker, DOMAIN at' = Worker, DOMAIN born' = Worker, DOMAIN dec' = Worker,
           \A x \in Worker \ {w} : /\ cache'[x] = cache[x] /\ at'[x] = at[x]
                                   /\ born'[x] = born[x] /\ dec'[x] = dec[x],
           Good(cache'[w], at'[w], born'[w], dec'[w], book)
    PROVE  AccessInv'
<1>1. ASSUME NEW x \in Worker PROVE Good(cache'[x], at'[x], born'[x], dec'[x], book')
  <2>1. CASE x = w
    BY <2>1
  <2>2. CASE x # w
    <3>1. Good(cache[x], at[x], born[x], dec[x], book)
      BY DEF AccessInv
    <3> QED BY <2>2, <3>1
  <2> QED BY <2>1, <2>2
<1> QED BY <1>1 DEF AccessInv

\* The invariant holds at the start.
LEMMA AccessInvInit == Init => AccessInv
<1> SUFFICES ASSUME Init PROVE AccessInv
  OBVIOUS
<1>1. PICK f \in [Key -> Answers] : book = <<f>>
  BY DEF Init
<1>2. book \in Seq([Key -> Answers]) /\ Len(book) = 1
  BY <1>1
<1>3. ASSUME NEW w \in Worker PROVE Good(cache[w], at[w], born[w], dec[w], book)
  <2>1. cache[w] = [k \in Key |-> None] /\ at[w] = Idle /\ born[w] = 1 /\ dec[w] = NoDecision
    BY DEF Init
  <2>2. GoodCache(cache[w], born[w], book)
    BY <2>1 DEF GoodCache
  <2>3. GoodAt(at[w], born[w], book)
    BY <2>1 DEF GoodAt, Idle
  <2>4. GoodDec(dec[w], born[w], book)
    BY <2>1 DEF GoodDec, NoDecision
  <2> QED BY <1>2, <2>1, <2>2, <2>3, <2>4 DEF Good
<1> QED BY <1>2, <1>3 DEF AccessInv, Init

\* Refusing a request keeps a worker in order.
LEMMA RefuseGood ==
    ASSUME AccessInv, NEW w \in Worker, NEW q, NEW why, why # "ok", Refuse(w, q, why),
           UNCHANGED <<book, cache, born>>
    PROVE  AccessInv'
<1>1. DOMAIN at = Worker /\ DOMAIN dec = Worker /\ Good(cache[w], at[w], born[w], dec[w], book)
  BY DEF AccessInv
<1>2. at'[w] = Idle /\ dec'[w] = Refused(q, why)
  BY <1>1 DEF Refuse
<1>3. GoodAt(at'[w], born[w], book)
  BY <1>2 DEF GoodAt, Idle
<1>4. GoodDec(dec'[w], born[w], book)
  BY <1>2 DEF GoodDec, Refused
<1>5. Good(cache'[w], at'[w], born'[w], dec'[w], book)
  BY <1>1, <1>3, <1>4 DEF Good
<1>6. /\ DOMAIN at' = Worker /\ DOMAIN dec' = Worker
      /\ \A x \in Worker \ {w} : at'[x] = at[x] /\ dec'[x] = dec[x]
  BY <1>1 DEF Refuse
<1>7. DOMAIN cache' = Worker /\ DOMAIN born' = Worker
  BY DEF AccessInv
<1> QED BY <1>5, <1>6, <1>7, OneWorker

\* A change of what the worker is doing alone keeps it in order.
LEMMA AtGood ==
    ASSUME AccessInv, NEW w \in Worker, NEW s, at' = [at EXCEPT ![w] = s],
           GoodAt(s, born[w], book), s.st # "dead" => at[w].st # "dead",
           UNCHANGED <<book, cache, born, dec>>
    PROVE  AccessInv'
<1>1. DOMAIN at = Worker /\ Good(cache[w], at[w], born[w], dec[w], book)
  BY DEF AccessInv
<1>2. at'[w] = s /\ DOMAIN at' = Worker /\ \A x \in Worker \ {w} : at'[x] = at[x]
  BY <1>1
<1>3. Good(cache'[w], at'[w], born'[w], dec'[w], book)
  BY <1>1, <1>2 DEF Good
<1>4. DOMAIN cache' = Worker /\ DOMAIN born' = Worker /\ DOMAIN dec' = Worker
  BY DEF AccessInv
<1> QED BY <1>2, <1>3, <1>4, OneWorker

\* Deciding by an answered entry keeps the invariant, and so does ending over it.
LEMMA DecideInv ==
    ASSUME AccessInv, NEW w \in Worker, NEW q \in Requests, ParseRequestBody(q),
           NEW entry, Answered(entry, q.k, born[w], book), Decide(w, q, entry), UNCHANGED <<book, born>>
    PROVE  AccessInv'
<1>1. CASE ByEntry(w, q, entry)
  <2>1. DOMAIN born' = Worker
    BY DEF AccessInv
  <2>2. /\ DOMAIN cache' = Worker /\ DOMAIN at' = Worker /\ DOMAIN dec' = Worker
        /\ \A x \in Worker \ {w} : cache'[x] = cache[x] /\ at'[x] = at[x] /\ dec'[x] = dec[x]
        /\ Good(cache'[w], at'[w], born[w], dec'[w], book)
    BY <1>1, DecideGood
  <2> QED BY <2>1, <2>2, OneWorker
<1>2. CASE NodeListOverruns(w, q)
  <2>1. at' = [at EXCEPT ![w] = Dead] /\ UNCHANGED <<cache, dec>>
    BY <1>2, Zenon DEF NodeListOverruns
  <2>2. GoodAt(Dead, born[w], book) /\ Dead.st = "dead"
    BY DEF GoodAt, Dead
  <2> QED BY <2>1, <2>2, AtGood, Zenon
<1> QED BY <1>1, <1>2, Zenon DEF Decide

\* CreateRequest.
LEMMA CreateRequestInv ==
    ASSUME AccessInv, NEW w \in Worker, NEW q \in Requests, CreateRequest(w, q)
    PROVE  AccessInv'
<1> DEFINE why == IF ~ParseRequestBody(q) THEN "parse" ELSE IF ~q.ns THEN "namespace" ELSE ""
<1>1. CASE why # "" /\ Refuse(w, q, why) /\ UNCHANGED cache
  <2>1. why # "ok"
    OBVIOUS
  <2> HIDE DEF why
  <2>2. UNCHANGED <<book, cache, born>>
    BY <1>1 DEF CreateRequest
  <2> QED BY <1>1, <2>1, <2>2, RefuseGood
<1>2. CASE why = "" /\ cache[w][q.k] # None /\ Decide(w, q, cache[w][q.k])
  <2>1. ParseRequestBody(q)
    BY <1>2
  <2>2. Answered(cache[w][q.k], q.k, born[w], book)
    BY <1>2, RequestTyped DEF AccessInv, Good, GoodCache
  <2>3. UNCHANGED <<book, born>>
    BY DEF CreateRequest
  <2> QED BY <1>2, <2>1, <2>2, <2>3, DecideInv
<1>3. CASE /\ why = "" /\ at' = [at EXCEPT ![w] = [st |-> "asking", q |-> q]]
           /\ UNCHANGED <<cache, dec>>
  <2>1. ParseRequestBody(q)
    BY <1>3
  <2>2. GoodAt([st |-> "asking", q |-> q], born[w], book)
    BY <2>1 DEF GoodAt
  <2>3. at[w].st # "dead" /\ UNCHANGED <<book, born>>
    BY DEF CreateRequest
  <2> QED BY <1>3, <2>2, <2>3, AtGood, Zenon
<1> QED BY <1>1, <1>2, <1>3 DEF CreateRequest

\* Serve: the answer on its way is the one the service gives now.
LEMMA ServeInv ==
    ASSUME AccessInv, NEW w \in Worker, Serve(w)
    PROVE  AccessInv'
<1>1. Good(cache[w], at[w], born[w], dec[w], book) /\ book \in Seq([Key -> Answers])
  BY DEF AccessInv
<1>2. at[w].q \in Requests /\ ParseRequestBody(at[w].q) /\ Len(book) \in born[w] .. Len(book)
  BY <1>1 DEF Good, GoodAt, Serve
<1>3. GoodAt([st |-> "served", q |-> at[w].q, v |-> Len(book)], born[w], book)
  BY <1>2 DEF GoodAt
<1>4. GoodAt([st |-> "lost", q |-> at[w].q], born[w], book)
  BY <1>2 DEF GoodAt
<1>5. at[w].st # "dead" /\ UNCHANGED <<book, cache, born, dec>>
  BY DEF Serve
<1>6. CASE at' = [at EXCEPT ![w] = [st |-> "served", q |-> at[w].q, v |-> Len(book)]]
  BY <1>3, <1>5, <1>6, AtGood, Zenon
<1>7. CASE at' = [at EXCEPT ![w] = [st |-> "lost", q |-> at[w].q]]
  BY <1>4, <1>5, <1>7, AtGood, Zenon
<1> QED BY <1>6, <1>7 DEF Serve

\* Receive: only a whole answer becomes an entry.
LEMMA ReceiveInv ==
    ASSUME AccessInv, NEW w \in Worker, Receive(w)
    PROVE  AccessInv'
<1> DEFINE q == at[w].q
           a == book[at[w].v][q.k]
<1>1. Good(cache[w], at[w], born[w], dec[w], book) /\ book \in Seq([Key -> Answers])
  BY DEF AccessInv
<1>2. at[w].st = "served" /\ UNCHANGED <<book, born>>
  BY DEF Receive
<1>3. q \in Requests /\ ParseRequestBody(q) /\ at[w].v \in born[w] .. Len(book)
  BY <1>1, <1>2 DEF Good, GoodAt
<1>4. CASE Refuse(w, q, "noauth") /\ UNCHANGED cache
  BY <1>2, <1>4, RefuseGood
<1>5. CASE at' = [at EXCEPT ![w] = Dead] /\ UNCHANGED <<cache, dec>>
  <2>1. GoodAt(Dead, born[w], book) /\ Dead.st = "dead"
    BY SMTT(30) DEF GoodAt, Dead
  <2> QED BY <1>2, <1>5, <2>1, AtGood, Zenon
<1>6. CASE /\ "entry" \in ReadACLResponse(a)
           /\ Decide(w, q, [a |-> a, v |-> at[w].v, match |-> FALSE])
  <2>1. at[w].v \in Nat /\ at[w].v \in 1 .. Len(book)
    BY <1>1, <1>3 DEF Good
  <2>2. a \in Answers
    <3>1. book[at[w].v] \in [Key -> Answers]
      BY <1>1, <2>1, SMTT(30)
    <3> QED BY <1>3, <3>1, RequestTyped
  <2>3. a.id /\ a.whole /\ a.default /\ a.routes = "whole"
    <3>1. a.routes \in {"whole", "missing", "mistyped"}
      BY <2>2, AccessAssumption, Zenon DEF AccessAssumption, AnswerType
    <3> HIDE DEF a
    <3> QED BY <1>6, <3>1, Zenon DEF ReadACLResponse, ReadACLQuotation
  <2>4. Answered([a |-> a, v |-> at[w].v, match |-> FALSE], q.k, born[w], book)
    BY <1>3, <2>1, <2>2, <2>3, Zenon DEF Answered, Entries
  <2> QED BY <1>2, <1>3, <1>6, <2>4, DecideInv
<1> QED BY <1>4, <1>5, <1>6 DEF Receive

\* PostFails, End, Respawn and Change.
LEMMA OtherStepsInv ==
    ASSUME AccessInv, \/ \E w \in Worker : PostFails(w) \/ End(w) \/ Respawn(w)
                      \/ \E k \in Key, a \in Answers : Change(k, a)
    PROVE  AccessInv'
<1>1. ASSUME NEW w \in Worker, PostFails(w) PROVE AccessInv'
  BY <1>1, RefuseGood DEF PostFails
<1>2. ASSUME NEW w \in Worker, End(w) PROVE AccessInv'
  <2>1. GoodAt(Dead, born[w], book) /\ Dead.st = "dead"
    BY DEF GoodAt, Dead
  <2> QED BY <1>2, <2>1, AtGood, Zenon DEF End
<1>3. ASSUME NEW w \in Worker, Respawn(w) PROVE AccessInv'
  <2>1. /\ DOMAIN cache = Worker /\ DOMAIN at = Worker /\ DOMAIN born = Worker /\ DOMAIN dec = Worker
        /\ book \in Seq([Key -> Answers]) /\ Good(cache[w], at[w], born[w], dec[w], book)
    BY DEF AccessInv
  <2>2. /\ cache' = [cache EXCEPT ![w] = [k \in Key |-> None]] /\ at' = [at EXCEPT ![w] = Idle]
        /\ dec' = [dec EXCEPT ![w] = NoDecision] /\ born' = [born EXCEPT ![w] = Len(book)]
        /\ UNCHANGED book
    BY <1>3 DEF Respawn, Fresh
  <2>3. cache'[w] = [k \in Key |-> None] /\ at'[w] = Idle /\ dec'[w] = NoDecision /\ born'[w] = Len(book)
    BY <2>1, <2>2
  <2>4. GoodCache(cache'[w], born'[w], book)
    BY <2>3 DEF GoodCache
  <2>5. GoodAt(at'[w], born'[w], book)
    BY <2>3 DEF GoodAt, Idle
  <2>6. GoodDec(dec'[w], born'[w], book)
    BY <2>3 DEF GoodDec, NoDecision
  <2>7. Len(book) \in Nat /\ 1 <= Len(book)
    BY <2>1 DEF Good
  <2>8. DOMAIN cache'[w] = Key
    BY <2>3
  <2>9. Good(cache'[w], at'[w], born'[w], dec'[w], book)
    BY <2>3, <2>4, <2>5, <2>6, <2>7, <2>8 DEF Good
  <2>10. /\ DOMAIN cache' = Worker /\ DOMAIN at' = Worker /\ DOMAIN born' = Worker /\ DOMAIN dec' = Worker
         /\ \A x \in Worker \ {w} : /\ cache'[x] = cache[x] /\ at'[x] = at[x]
                                     /\ born'[x] = born[x] /\ dec'[x] = dec[x]
    BY <2>1, <2>2
  <2> QED BY <2>2, <2>9, <2>10, OneWorker
<1>4. ASSUME NEW k \in Key, NEW a \in Answers, Change(k, a) PROVE AccessInv'
  <2> DEFINE f == [book[Len(book)] EXCEPT ![k] = a]
  <2>1. book' = Append(book, f) /\ UNCHANGED <<cache, at, born, dec>>
    BY <1>4 DEF Change
  <2>2. book \in Seq([Key -> Answers])
    BY DEF AccessInv
  <2>3. f \in [Key -> Answers] /\ Len(book') >= 1
    <3>1. Len(book) \in 1 .. Len(book)
      BY <2>2 DEF AccessInv
    <3>2. book[Len(book)] \in [Key -> Answers]
      BY <2>2, <3>1
    <3>3. Len(book') = Len(book) + 1
      BY <2>1, <2>2
    <3> QED BY <3>1, <3>2, <3>3
  <2> HIDE DEF f
  <2>4. book' \in Seq([Key -> Answers])
    BY <2>1, <2>2, <2>3
  <2>5. \A w \in Worker : Good(cache[w], at[w], born[w], dec[w], Append(book, f))
    BY <2>2, <2>3, BookGrows, Zenon DEF AccessInv
  <2> QED BY <2>1, <2>3, <2>4, <2>5 DEF AccessInv
<1> QED BY <1>1, <1>2, <1>3, <1>4

\* The invariant is inductive.
LEMMA AccessInvStep == AccessInv /\ [Next]_vars => AccessInv'
<1> SUFFICES ASSUME AccessInv, [Next]_vars PROVE AccessInv'
  OBVIOUS
<1>1. CASE UNCHANGED vars
  BY <1>1 DEF vars, AccessInv
<1>2. ASSUME NEW w \in Worker, NEW q \in Requests, CreateRequest(w, q) PROVE AccessInv'
  BY <1>2, CreateRequestInv
<1>3. ASSUME NEW w \in Worker, Serve(w) PROVE AccessInv'
  BY <1>3, ServeInv
<1>4. ASSUME NEW w \in Worker, Receive(w) PROVE AccessInv'
  BY <1>4, ReceiveInv
<1>5. ASSUME \/ \E w \in Worker : PostFails(w) \/ End(w) \/ Respawn(w)
             \/ \E k \in Key, a \in Answers : Change(k, a)
      PROVE AccessInv'
  BY <1>5, OtherStepsInv
<1> QED BY <1>1, <1>2, <1>3, <1>4, <1>5 DEF Next

\* In every behaviour, an entry of a worker's map_acl_ is a whole answer the service gave for
\* its key since the worker started.
THEOREM EntriesAreAnswers == Spec => []EntryIsAnswer
<1>1. AccessInv => EntryIsAnswer
  BY SMTT(30) DEF AccessInv, Good, GoodCache, Answered, EntryIsAnswer
<1> QED BY AccessInvInit, AccessInvStep, <1>1, PTL DEF Spec

\* In every behaviour, a request let through by CreateRequest was allowed all that it and its
\* sub-requests do by an answer the service gave for its key since the worker started.
THEOREM GrantsCover == Spec => []GrantCovers
<1>1. AccessInv => GrantCovers
  <2> SUFFICES ASSUME AccessInv, NEW w \in Worker, at[w].st # "dead", dec[w].why = "ok"
               PROVE  \E v \in born[w] .. Len(book) :
                         Operations(dec[w].q.uri) \subseteq book[v][dec[w].q.k].operation
    BY DEF GrantCovers
  <2>1. GoodDec(dec[w], born[w], book)
    BY DEF AccessInv, Good
  <2>2. PICK v \in born[w] .. Len(book) :
               ParseRequestUri(dec[w].q.uri) \in book[v][dec[w].q.k].operation
    BY <2>1 DEF GoodDec
  <2>3. dec[w].q.uri \in Interface
    BY <2>1, RequestTyped DEF GoodDec
  <2>4. Operations(dec[w].q.uri) = {ParseRequestUri(dec[w].q.uri)}
    BY <2>3, OneOperation
  <2> QED BY <2>2, <2>4
<1> QED BY AccessInvInit, AccessInvStep, <1>1, PTL DEF Spec

-----------------------------------------------------------------------------
(* The limits and the seeds a decision comes with. *)

\* A request that was let through passed the check of its sets, and has limits that the
\* entry of the decision allows.
GoodLimits(d) ==
    d.why = "ok" => /\ d.q \in Requests /\ d.a \in Answers
                    /\ CheckLimits(d.q, d.a) /\ d.limits \in ZsetLimits(d.q, d.a)

\* The maps of a worker are from the default seeds if the client that loaded them had no match.
GoodSeeds(m) == m # None => (m.seeds.list = "default" <=> ~Matches(m.q, m.a))

Clusters == {ClusterOf[k] : k \in Key}

ChosenInv ==
    /\ DOMAIN cluster = Worker
    /\ \A w \in Worker : /\ DOMAIN cluster[w] = Clusters /\ GoodLimits(dec[w])
                         /\ \A c \in Clusters : GoodSeeds(cluster[w][c])

\* A set of natural numbers has a least one.
LEMMA LeastNumber ==
    ASSUME NEW T, T \subseteq Nat, T # {}
    PROVE  \E x \in T : \A y \in T : x <= y
<1> DEFINE Less == {ss \in Nat \X Nat : ss[1] < ss[2]}
<1>1. IsWellFoundedOn(Less, Nat)
  BY NatLessThanWellFounded, Zenon DEF OpToRel
<1> HIDE DEF Less
<1>2. PICK x \in T : \A y \in T : ~(<<y, x>> \in Less)
  BY <1>1, WFMin, Zenon
<1>3. ASSUME NEW y \in T PROVE x <= y
  <2>1. ~(y < x)
    BY <1>2, Zenon DEF Less
  <2> QED BY <2>1
<1> QED BY <1>3

\* The indices and the elements of a sequence.
LEMMA IndexTyped ==
    ASSUME NEW S, NEW s \in Seq(S), NEW i \in DOMAIN s
    PROVE  /\ Len(s) \in Nat /\ DOMAIN s = 1 .. Len(s)
           /\ i \in 1 .. Len(s) /\ i \in Nat /\ 1 <= i /\ s[i] \in S
OBVIOUS

\* GetZsetLimit finds a policy if one covers the key.
LEMMA PolicyFound ==
    ASSUME NEW e \in Answers, NEW len \in Nat, NEW p \in DOMAIN e.limits,
           len \in e.limits[p].min .. e.limits[p].max
    PROVE  Policy(e, len) # {}
<1>1. e.limits \in Seq([min : Nat, max : Nat, limit : Nat])
  BY AccessAssumption DEF AccessAssumption, AnswerType
<1> DEFINE Covers == {i \in DOMAIN e.limits : len \in e.limits[i].min .. e.limits[i].max}
<1>2. Covers \subseteq Nat /\ Covers # {}
  <2>1. \A i \in DOMAIN e.limits : i \in Nat
    BY <1>1, IndexTyped, Zenon
  <2> QED BY <2>1, Zenon
<1>3. PICK i \in Covers : \A j \in Covers : i <= j
  <2> HIDE DEF Covers
  <2> QED BY <1>2, LeastNumber, Zenon
<1>4. i \in 1 .. Len(e.limits) /\ Len(e.limits) \in Nat /\ DOMAIN e.limits = 1 .. Len(e.limits)
  BY <1>1, <1>3, IndexTyped
<1>5. ASSUME NEW j \in 1 .. i - 1 PROVE ~(len \in e.limits[j].min .. e.limits[j].max)
  <2>1. j \in DOMAIN e.limits /\ ~(i <= j)
    BY <1>4
  <2> QED BY <1>3, <2>1
<1> QED BY <1>3, <1>5 DEF Policy

\* GetNodeList and GetNode: the seeds of the route, or the default ones.
LEMMA SeedsGood ==
    ASSUME NEW q, NEW entry \in Entries
    PROVE  LET e == GetNodeList(q, entry) IN
           /\ e.a = entry.a
           /\ Seeds(e)[1].list = "default" <=> ~Matches(q, e.a)
<1> DEFINE e == GetNodeList(q, entry)
<1>1. e.a = entry.a /\ e.match = Matches(q, entry.a)
  BY DEF GetNodeList, Entries
<1> HIDE DEF e
<1>2. CASE Matches(q, entry.a)
  <2>1. entry.a.server \in Seq(STRING)
    BY AccessAssumption DEF AccessAssumption, AnswerType, Entries
  <2>2. 1 \in DOMAIN entry.a.server
    BY <1>2, <2>1 DEF Matches
  <2> QED BY <1>1, <1>2, <2>2 DEF Seeds, e
<1>3. CASE ~Matches(q, entry.a)
  BY <1>1, <1>3 DEF Seeds, e
<1> QED BY <1>2, <1>3

\* A decision by an answered entry.
LEMMA ByEntryChosen ==
    ASSUME AccessInv, ChosenInv, NEW w \in Worker, NEW q \in Requests,
           NEW entry \in Entries, ByEntry(w, q, entry)
    PROVE  ChosenInv'
<1> DEFINE e == GetNodeList(q, entry)
           c == ClusterOf[q.k]
<1>1. e.a = entry.a /\ e.a \in Answers /\ (Seeds(e)[1].list = "default" <=> ~Matches(q, e.a))
  <2>1. entry.a \in Answers
    BY DEF Entries
  <2> QED BY <2>1, SeedsGood
<1>2. c \in Clusters /\ DOMAIN cluster = Worker /\ DOMAIN cluster[w] = Clusters /\ DOMAIN dec = Worker
  BY RequestTyped DEF Clusters, ChosenInv, AccessInv
<1> HIDE DEF e, c
<1>3. /\ DOMAIN cluster' = Worker
      /\ \A x \in Worker : /\ DOMAIN cluster'[x] = Clusters
                           /\ \A n \in Clusters : GoodSeeds(cluster'[x][n])
  <2> DEFINE m == [seeds |-> Seeds(e)[1], q |-> q, a |-> e.a]
  <2>1. GoodSeeds(m)
    BY <1>1, SMTT(30) DEF GoodSeeds
  <2>2. cluster' = cluster \/ cluster' = [cluster EXCEPT ![w][c] = m]
    BY DEF ByEntry, GetNode, e, c
  <2> HIDE DEF m
  <2>3. CASE cluster' = cluster
    BY <2>3 DEF ChosenInv
  <2>4. CASE cluster' = [cluster EXCEPT ![w][c] = m]
    <3>1. /\ DOMAIN cluster' = Worker /\ cluster'[w] = [cluster[w] EXCEPT ![c] = m]
          /\ \A x \in Worker \ {w} : cluster'[x] = cluster[x]
      BY <1>2, <2>4
    <3>2. DOMAIN cluster'[w] = Clusters /\ \A n \in Clusters : cluster'[w][n] \in {m, cluster[w][n]}
      BY <1>2, <3>1
    <3>3. ASSUME NEW n \in Clusters PROVE GoodSeeds(cluster'[w][n])
      <4>1. GoodSeeds(cluster[w][n])
        BY DEF ChosenInv
      <4>2. cluster'[w][n] = m \/ cluster'[w][n] = cluster[w][n]
        BY <3>2
      <4> QED BY <2>1, <4>1, <4>2
    <3>4. ASSUME NEW x \in Worker, x # w
          PROVE  DOMAIN cluster'[x] = Clusters /\ \A n \in Clusters : GoodSeeds(cluster'[x][n])
      BY <3>1, <3>4 DEF ChosenInv
    <3> QED BY <3>1, <3>2, <3>3, <3>4, Zenon
  <2> QED BY <2>2, <2>3, <2>4
<1>4. \A x \in Worker : GoodLimits(dec'[x])
  <2>1. CASE \E why : why # "ok" /\ dec' = [dec EXCEPT ![w] = Refused(q, why)]
    <3>1. PICK why : why # "ok" /\ dec' = [dec EXCEPT ![w] = Refused(q, why)]
      BY <2>1, Zenon
    <3>2. dec'[w].why # "ok" /\ \A x \in Worker \ {w} : dec'[x] = dec[x]
      BY <1>2, <3>1 DEF Refused
    <3> QED BY <3>2 DEF ChosenInv, GoodLimits
  <2>2. CASE /\ Process(q, e.a) = "ok"
             /\ \E f \in ZsetLimits(q, e.a) :
                   dec' = [dec EXCEPT ![w] = [why |-> "ok", q |-> q, a |-> e.a, tries |-> Tries(q, e.a), limits |-> f]]
    <3>1. PICK f \in ZsetLimits(q, e.a) :
                   dec' = [dec EXCEPT ![w] = [why |-> "ok", q |-> q, a |-> e.a, tries |-> Tries(q, e.a), limits |-> f]]
      BY <2>2, Zenon
    <3>2. /\ dec'[w].q = q /\ dec'[w].a = e.a /\ dec'[w].limits = f
          /\ \A x \in Worker \ {w} : dec'[x] = dec[x]
      BY <1>2, <3>1
    <3>3. CheckLimits(q, e.a)
      BY <2>2 DEF Process
    <3>4. GoodLimits(dec'[w])
      BY <1>1, <3>1, <3>2, <3>3, Zenon DEF GoodLimits
    <3> QED BY <3>2, <3>4 DEF ChosenInv
  <2>3. CASE Process(q, e.a) # "ok" /\ Refuse(w, q, Process(q, e.a))
    BY <2>1, <2>3, Zenon DEF Refuse
  <2>4. CASE Process(q, e.a) = "ok" /\ GetNode(w, q, e)
    <3>1. "unknown" # "ok"
      OBVIOUS
    <3> QED BY <2>1, <2>2, <2>4, <3>1, Zenon DEF GetNode
  <2> QED BY <2>3, <2>4, SMTT(30) DEF ByEntry, e
<1> QED BY <1>3, <1>4 DEF ChosenInv

\* CreateRequest from the entry on decides, or ends the worker and decides nothing.
LEMMA DecideChosen ==
    ASSUME AccessInv, ChosenInv, NEW w \in Worker, NEW q \in Requests,
           NEW entry \in Entries, Decide(w, q, entry)
    PROVE  ChosenInv'
<1>1. CASE NodeListOverruns(w, q)
  <2>1. UNCHANGED <<dec, cluster>>
    BY <1>1, Zenon DEF NodeListOverruns
  <2> QED BY <2>1 DEF ChosenInv
<1>2. CASE ByEntry(w, q, entry)
  BY <1>2, ByEntryChosen, Zenon
<1> QED BY <1>1, <1>2, Zenon DEF Decide

\* A decision that lets nothing through leaves the rest in order.
LEMMA NotChosen ==
    ASSUME AccessInv, ChosenInv, NEW w \in Worker, NEW d, d.why # "ok",
           dec' = [dec EXCEPT ![w] = d], UNCHANGED cluster
    PROVE  ChosenInv'
<1>1. DOMAIN dec = Worker
  BY Zenon DEF AccessInv
<1>2. dec'[w].why # "ok" /\ \A x \in Worker \ {w} : dec'[x] = dec[x]
  BY <1>1
<1>3. \A x \in Worker : GoodLimits(dec'[x])
  BY <1>2, SMTT(30) DEF ChosenInv, GoodLimits
<1> QED BY <1>3, SMTT(30) DEF ChosenInv

\* ChosenInv holds at first.
LEMMA ChosenInvInit == Init => ChosenInv
<1> SUFFICES ASSUME Init PROVE ChosenInv
  OBVIOUS
<1>1. \A w \in Worker : dec[w].why # "ok"
  BY DEF Init, NoDecision
<1> QED BY <1>1, Zenon DEF Init, ChosenInv, Clusters, GoodLimits, GoodSeeds

\* Every step preserves ChosenInv.
LEMMA ChosenInvStep == AccessInv /\ ChosenInv /\ [Next]_vars => ChosenInv'
<1> SUFFICES ASSUME AccessInv, ChosenInv, [Next]_vars PROVE ChosenInv'
  OBVIOUS
<1>1. CASE UNCHANGED <<dec, cluster>>
  BY <1>1 DEF ChosenInv
<1>2. ASSUME NEW w \in Worker, NEW q, NEW why, why # "ok", Refuse(w, q, why), UNCHANGED cluster
      PROVE  ChosenInv'
  <2>1. Refused(q, why).why # "ok"
    BY <1>2 DEF Refused
  <2> QED BY <1>2, <2>1, NotChosen, Zenon DEF Refuse
<1>3. ASSUME NEW w \in Worker, NEW q \in Requests, CreateRequest(w, q) PROVE ChosenInv'
  <2>1. CASE cache[w][q.k] # None /\ Decide(w, q, cache[w][q.k])
    <3>1. cache[w][q.k] \in Entries
      BY <2>1, RequestTyped, Zenon DEF AccessInv, Good, GoodCache, Answered
    <3> QED BY <2>1, <3>1, DecideChosen, SMTT(30)
  <2>2. CASE \E why \in {"parse", "namespace"} : Refuse(w, q, why) /\ UNCHANGED cluster
    BY <1>2, <2>2, SMTT(30)
  <2> QED BY <1>1, <1>3, <2>1, <2>2, Zenon DEF CreateRequest
<1>4. ASSUME NEW w \in Worker, Receive(w) PROVE ChosenInv'
  <2> DEFINE q == at[w].q
             a == book[at[w].v][q.k]
  <2>1. CASE Decide(w, q, [a |-> a, v |-> at[w].v, match |-> FALSE])
    <3>1. /\ Good(cache[w], at[w], born[w], dec[w], book) /\ book \in Seq([Key -> Answers])
          /\ at[w].st = "served"
      BY <1>4, Zenon DEF AccessInv, Receive
    <3>2. q \in Requests /\ at[w].v \in Nat /\ at[w].v \in 1 .. Len(book)
      BY <3>1 DEF Good, GoodAt
    <3>3. a \in Answers
      <4>1. book[at[w].v] \in [Key -> Answers]
        BY <3>1, <3>2, SMTT(30)
      <4> QED BY <3>2, <4>1, RequestTyped, SMTT(30)
    <3>4. [a |-> a, v |-> at[w].v, match |-> FALSE] \in Entries
      BY <3>2, <3>3, Zenon DEF Entries
    <3> QED BY <2>1, <3>2, <3>4, DecideChosen, ZenonT(30)
  <2>2. CASE Refuse(w, q, "noauth") /\ UNCHANGED cluster
    BY <1>2, <2>2
  <2> QED BY <1>1, <1>4, <2>1, <2>2, ZenonT(30) DEF Receive
<1>5. ASSUME NEW w \in Worker, PostFails(w) PROVE ChosenInv'
  BY <1>2, <1>5, SMTT(30) DEF PostFails
<1>6. ASSUME NEW w \in Worker, Respawn(w) PROVE ChosenInv'
  <2>1. /\ DOMAIN cluster = Worker /\ DOMAIN cluster[w] = Clusters
        /\ cluster' = [cluster EXCEPT ![w] = [c \in DOMAIN @ |-> None]]
        /\ dec' = [dec EXCEPT ![w] = NoDecision] /\ DOMAIN dec = Worker
    BY <1>6 DEF ChosenInv, AccessInv, Respawn, Fresh
  <2>2. /\ DOMAIN cluster' = Worker /\ cluster'[w] = [c \in Clusters |-> None]
        /\ \A x \in Worker \ {w} : cluster'[x] = cluster[x] /\ dec'[x] = dec[x]
        /\ dec'[w].why # "ok"
    BY <2>1 DEF NoDecision
  <2> QED BY <2>2 DEF ChosenInv, GoodSeeds, GoodLimits
<1>7. ASSUME NEW w \in Worker, Serve(w) \/ End(w) PROVE ChosenInv'
  BY <1>1, <1>7 DEF Serve, End
<1>8. ASSUME NEW k \in Key, NEW a \in Answers, Change(k, a) PROVE ChosenInv'
  BY <1>1, <1>8 DEF Change
<1>9. CASE UNCHANGED vars
  BY <1>1, <1>9 DEF vars
<1> QED BY <1>3, <1>4, <1>5, <1>6, <1>7, <1>8, <1>9 DEF Next

\* What the limits of an accepted addition say of one of its sets.
LEMMA LimitOfFirstPolicy ==
    ASSUME NEW q \in Requests, NEW e \in Answers, q.uri \in ZAdds, CheckLimits(q, e),
           NEW given \in ZsetLimits(q, e), NEW i \in DOMAIN q.lens
    PROVE  LET len == q.lens[i] IN
           \/ \E p \in DOMAIN e.limits :
                /\ e.limits[p].min <= len /\ len <= e.limits[p].max /\ given[i] = e.limits[p].limit
                /\ \A o \in 1 .. p - 1 : len < e.limits[o].min \/ e.limits[o].max < len
           \/ i > 1 /\ \A p \in DOMAIN e.limits : len < e.limits[p].min \/ e.limits[p].max < len
<1> SUFFICES ASSUME NEW len, len = q.lens[i]
             PROVE  \/ \E p \in DOMAIN e.limits :
                         /\ e.limits[p].min <= len /\ len <= e.limits[p].max
                         /\ given[i] = e.limits[p].limit
                         /\ \A o \in 1 .. p - 1 : len < e.limits[o].min \/ e.limits[o].max < len
                    \/ i > 1 /\ \A p \in DOMAIN e.limits : len < e.limits[p].min \/ e.limits[p].max < len
  BY Zenon
<1>1. q.lens \in Seq(Nat) /\ e.limits \in Seq([min : Nat, max : Nat, limit : Nat])
  BY AccessAssumption, Zenon DEF AccessAssumption, RequestType, AnswerType
<1>2. len \in Nat /\ i \in Nat /\ 1 <= i
  BY <1>1, IndexTyped, Zenon
<1>3. \A p \in DOMAIN e.limits : /\ p \in 1 .. Len(e.limits) /\ DOMAIN e.limits = 1 .. Len(e.limits)
                                /\ e.limits[p] \in [min : Nat, max : Nat, limit : Nat]
  BY <1>1, IndexTyped, Zenon
<1>4. \A p \in DOMAIN e.limits : e.limits[p].min \in Nat /\ e.limits[p].max \in Nat
  BY <1>3, Zenon
<1>5. Len(e.limits) \in Nat
  BY <1>1
<1>6. CASE Policy(e, len) # {}
  <2>1. PICK p \in Policy(e, len) : given[i] = e.limits[p].limit
    <3>1. given[i] \in {e.limits[p].limit : p \in Policy(e, q.lens[i])}
      BY <1>6, Zenon DEF ZsetLimits
    <3> QED BY <3>1, Zenon
  <2>2. /\ p \in DOMAIN e.limits /\ len \in e.limits[p].min .. e.limits[p].max
        /\ \A j \in 1 .. p - 1 : ~(len \in e.limits[j].min .. e.limits[j].max)
    BY Zenon DEF Policy
  <2>3. e.limits[p].min <= len /\ len <= e.limits[p].max
    BY <1>2, <1>4, <2>2
  <2>4. ASSUME NEW o \in 1 .. p - 1 PROVE len < e.limits[o].min \/ e.limits[o].max < len
    <3>1. p \in 1 .. Len(e.limits) /\ DOMAIN e.limits = 1 .. Len(e.limits)
      BY <1>3, <2>2, Zenon
    <3>2. o \in 1 .. Len(e.limits)
      BY <1>5, <3>1
    <3>3. e.limits[o].min \in Nat /\ e.limits[o].max \in Nat
      BY <1>4, <3>1, <3>2, Zenon
    <3> QED BY <1>2, <2>2, <3>3
  <2> QED BY <2>1, <2>2, <2>3, <2>4, Zenon
<1>7. CASE Policy(e, len) = {}
  <2>1. ASSUME NEW p \in DOMAIN e.limits PROVE len < e.limits[p].min \/ e.limits[p].max < len
    <3>1. ~(len \in e.limits[p].min .. e.limits[p].max)
      BY <1>2, <1>7, PolicyFound, Zenon
    <3> QED BY <1>2, <1>4, <3>1
  <2>2. i > 1
    <3>1. PICK j \in 1 .. i : Policy(e, q.lens[j]) # {}
      BY Zenon DEF CheckLimits
    <3>2. j # i
      BY <1>7, <3>1, Zenon
    <3> QED BY <1>2, <3>2
  <2> QED BY <2>1, <2>2, Zenon
<1> QED BY <1>6, <1>7, Zenon

\* In every behaviour, each set of an accepted addition whose key some policy covers has the
\* limit of the first such policy, and the first set has one (GetZsetLimit keeps its status
\* from one key to the next, so that only the first key is sure to be checked).
THEOREM FirstPoliciesApply == Spec => []FirstPolicyLimits
<1>1. ChosenInv => FirstPolicyLimits
  <2> SUFFICES ASSUME ChosenInv, NEW w \in Worker, dec[w].why = "ok", dec[w].q.uri \in ZAdds,
                      NEW i \in DOMAIN dec[w].q.lens
               PROVE  LET len == dec[w].q.lens[i]
                          limits == dec[w].a.limits
                      IN \/ \E p \in DOMAIN limits :
                              /\ limits[p].min <= len /\ len <= limits[p].max
                              /\ dec[w].limits[i] = limits[p].limit
                              /\ \A o \in 1 .. p - 1 : len < limits[o].min \/ limits[o].max < len
                         \/ i > 1 /\ \A p \in DOMAIN limits : len < limits[p].min \/ limits[p].max < len
    BY Zenon DEF FirstPolicyLimits
  <2>1. /\ dec[w].q \in Requests /\ dec[w].a \in Answers
        /\ CheckLimits(dec[w].q, dec[w].a) /\ dec[w].limits \in ZsetLimits(dec[w].q, dec[w].a)
    BY Zenon DEF ChosenInv, GoodLimits
  <2> QED BY <2>1, LimitOfFirstPolicy, Zenon
<1> QED BY AccessInvInit, AccessInvStep, ChosenInvInit, ChosenInvStep, <1>1, PTL DEF Spec

\* In every behaviour, a cluster's map was loaded from the default seeds exactly when the
\* network of the client that loaded it has no cluster (GetNodeList writes its match into the
\* entry that all clients of the key share).
THEOREM SeedsFit == Spec => []SeedsForClient
<1>1. ChosenInv => SeedsForClient
  <2> SUFFICES ASSUME ChosenInv, NEW w \in Worker, NEW k \in Key, cluster[w][ClusterOf[k]] # None
               PROVE  LET m == cluster[w][ClusterOf[k]] IN
                      m.seeds.list = "default" <=>
                        ~\E s \in {m.a.server[i] : i \in DOMAIN m.a.server} : <<m.q.net, s>> \in m.a.client
    BY ZenonT(30) DEF SeedsForClient
  <2>1. GoodSeeds(cluster[w][ClusterOf[k]])
    BY Zenon DEF ChosenInv, Clusters
  <2> QED BY <2>1, ZenonT(30) DEF GoodSeeds, Matches
<1> QED BY AccessInvInit, AccessInvStep, ChosenInvInit, ChosenInvStep, <1>1, PTL DEF Spec
=============================================================================
