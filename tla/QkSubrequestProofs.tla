------------------------- MODULE QkSubrequestProofs -------------------------
(***************************************************************************)
(* For every batch, limit and order of events: the reference count matches *)
(* the unfinished sub-requests (CountMatches), the plugin's request is     *)
(* destroyed once (DestroyedOnce) and not written to afterwards            *)
(* (ParentAlive), the client gets one response, sent before the request is *)
(* freed (WrittenOnce) and a reported error stops the batch                *)
(* (StopsAfterError).                                                      *)
(*                                                                         *)
(* None of these is inductive.  The count is right because the parent lets *)
(* go of its own reference only when no sub-request is unfinished, which   *)
(* holds because each unfinished one has its turn or is in the postponed   *)
(* list (Refs); the response is not lost because the parent's output is    *)
(* in that list until it is sent (Output); nobody writes to a destroyed    *)
(* request because sub-requests run only in the phase that waits for them, *)
(* in its last round (Running); an error is not overlooked because it      *)
(* stays in the parent's code until a sub-request resets it (Heeded).      *)
(***************************************************************************)
EXTENDS QkSubrequest, FiniteSetTheorems, TLAPS

\* QkRequest, but with any numbers for the names of the sub-requests.
Name == [of : {"KEY", "SLOT"}, n : Int]
Rounds == Seq(Name)
Request ==
    [ type : CommandTypes, phase : SubPhases, keys : Nat, slots : Nat, vec : Nat,
      subs : Rounds, code : {"OK", "ERROR"}, rc : {"AGAIN", "OK", "ERROR"} ]

\* A concatenation of two sequences over S, its length and its elements.
LEMMA SeqConcat ==
    ASSUME NEW S, NEW s \in Seq(S), NEW t \in Seq(S)
    PROVE  /\ s \o t \in Seq(S) /\ Len(s \o t) = Len(s) + Len(t)
           /\ \A i \in 1 .. Len(s) + Len(t) :
                (s \o t)[i] = IF i <= Len(s) THEN s[i] ELSE t[i - Len(s)]
  OBVIOUS

\* A sequence over S is one over any larger set.
LEMMA SeqWider ==
    ASSUME NEW S, NEW T, NEW s \in Seq(S), S \subseteq T
    PROVE  s \in Seq(T)
  OBVIOUS

-----------------------------------------------------------------------------
(* What the plugin leaves is a request: its round is a sequence. *)

\* The names of the next items are a round.
LEMMA ItemsType ==
    ASSUME NEW what \in {"KEY", "SLOT"}, NEW from \in Int, NEW n \in Nat
    PROVE  Items(what, from, n) \in Rounds
<1>1. \A i \in 1 .. n : [of |-> what, n |-> from + i] \in Name
  BY DEF Name
<1> QED BY <1>1 DEF Items, Rounds

\* The plugin's return code leaves a request.
LEMMA ReturnType ==
    ASSUME NEW x \in Request, NEW rc \in {"AGAIN", "OK", "ERROR"}
    PROVE  Return(x, rc) \in Request
BY DEF Return, Request

\* Entering a phase from START leaves a request.
LEMMA EnterType ==
    ASSUME NEW x \in Request, NEW p \in SubPhases
    PROVE  Enter(x, p) \in Request
BY DEF Enter, Request

\* Clearing the round leaves a request.
LEMMA EmptyRound == ASSUME NEW x \in Request PROVE [x EXCEPT !.subs = <<>>] \in Request
<1>1. <<>> \in Rounds
  BY DEF Rounds
<1> QED BY <1>1 DEF Request

\* Handing over a round for phase p with AGAIN leaves a request.
LEMMA NextRound ==
    ASSUME NEW x \in Request, NEW s \in Rounds, NEW p \in SubPhases
    PROVE  [x EXCEPT !.subs = s, !.phase = p, !.rc = "AGAIN"] \in Request
BY Zenon DEF Request

\* Setting the phase, with or without AGAIN, leaves a request.
LEMMA PhaseType ==
    ASSUME NEW x \in Request, NEW p \in SubPhases
    PROVE  [x EXCEPT !.phase = p] \in Request /\ [x EXCEPT !.phase = p, !.rc = "AGAIN"] \in Request
BY Zenon DEF Request

\* Taking the next items of a list, at most max of them, leaves a request.
LEMMA TakeType ==
    ASSUME NEW x \in Request, NEW what \in {"KEY", "SLOT"}, NEW total \in Nat, NEW max \in Nat,
           NEW p \in SubPhases
    PROVE  Take(x, what, total, max, p) \in Request
<1> DEFINE size == IF x.vec = 0 THEN total ELSE x.vec
           k == Least(size, max)
           it == Items(what, total - size, k)
           v == size - k
<1>1. size \in Nat
  BY DEF Request
<1>2. k \in Nat /\ total - size \in Int /\ size - k \in Nat
  <2> HIDE DEF size
  <2> QED BY <1>1 DEF Least
<1>3. it \in Rounds /\ v \in Nat
  <2> HIDE DEF k, size
  <2> QED BY <1>2, ItemsType
<1> HIDE DEF it, v
<1>4. [x EXCEPT !.subs = it, !.vec = v, !.phase = p, !.rc = "AGAIN"] \in Request
  BY <1>3, Zenon DEF Request
<1>5. Return([x EXCEPT !.subs = <<>>], "ERROR") \in Request
  BY EmptyRound, ReturnType
<1> QED BY <1>4, <1>5 DEF Take, it, v

\* CreateSubRequestMget leaves a request.
LEMMA MgetType == ASSUME NEW x \in Request PROVE CreateSubRequestMget(x) \in Request
<1> DEFINE y == Enter(x, "MGET")
<1>1. y \in Request
  BY EnterType DEF SubPhases
<1>2. y.subs \o Items("SLOT", 0, y.slots) \in Rounds
  <2> HIDE DEF y
  <2>1. y.subs \in Rounds /\ y.slots \in Nat
    BY <1>1 DEF Request
  <2>2. Items("SLOT", 0, y.slots) \in Rounds
    BY <2>1, ItemsType
  <2> QED BY <2>1, <2>2 DEF Rounds
<1>3. [y EXCEPT !.subs = y.subs \o Items("SLOT", 0, y.slots), !.phase = "DONE", !.rc = "AGAIN"] \in Request
  <2> HIDE DEF y
  <2> QED BY <1>1, <1>2, NextRound, Zenon DEF SubPhases
<1>4. Return(y, "OK") \in Request /\ Return(y, "ERROR") \in Request
  BY <1>1, ReturnType
<1> QED BY <1>3, <1>4 DEF CreateSubRequestMget

\* ProcessMset leaves a request.
LEMMA ProcessMsetType == ASSUME NEW x \in Request PROVE ProcessMset(x) \in Request
<1>1. x.slots \in Nat /\ MsetMax \in Nat
  BY LimitsAssumption DEF Request, LimitsAssumption
<1>2. Take(x, "SLOT", x.slots, MsetMax, "DONE") \in Request
  BY <1>1, TakeType, Zenon DEF SubPhases
<1>3. [x EXCEPT !.phase = "MSET", !.rc = "AGAIN"] \in Request
  BY PhaseType, Zenon DEF SubPhases
<1>4. Return(x, "OK") \in Request /\ Return(x, "ERROR") \in Request
  BY ReturnType
<1> QED BY <1>2, <1>3, <1>4 DEF ProcessMset

\* CreateSubRequestMset leaves a request.
LEMMA MsetType == ASSUME NEW x \in Request PROVE CreateSubRequestMset(x) \in Request
<1>1. Enter(x, "MSET") \in Request
  BY EnterType DEF SubPhases
<1>2. ProcessMset(Enter(x, "MSET")) \in Request
  BY <1>1, ProcessMsetType
<1>3. ProcessMset(ProcessMset(Enter(x, "MSET"))) \in Request
  BY <1>2, ProcessMsetType
<1> QED BY <1>2, <1>3 DEF CreateSubRequestMset

\* CreateSubRequestZfixedsetAdd leaves a request.
LEMMA ZaddType == ASSUME NEW x \in Request PROVE CreateSubRequestZfixedsetAdd(x) \in Request
<1> DEFINE y == Enter(x, "ZADD")
           z == [y EXCEPT !.subs = <<>>]
<1>1. y \in Request
  BY EnterType DEF SubPhases
<1>2. z \in Request
  <2> HIDE DEF y
  <2> QED BY <1>1, EmptyRound
<1>3. Take(y, "KEY", y.keys, BatchAddMax, "MSET") \in Request
  <2> HIDE DEF y
  <2>1. y.keys \in Nat /\ BatchAddMax \in Nat
    BY <1>1, LimitsAssumption DEF Request, LimitsAssumption
  <2> QED BY <1>1, <2>1, TakeType, Zenon DEF SubPhases
<1>4. [z EXCEPT !.phase = "ZBATCHADD", !.rc = "AGAIN"] \in Request
  <2> HIDE DEF z
  <2> QED BY <1>2, PhaseType, Zenon DEF SubPhases
<1>5. Return(y, "ERROR") \in Request /\ CreateSubRequestMset(z) \in Request /\ CreateSubRequestMset(y) \in Request
  BY <1>1, <1>2, ReturnType, MsetType
<1> QED BY <1>3, <1>4, <1>5 DEF CreateSubRequestZfixedsetAdd

\* ProcessZfixedsetBatchAdd leaves a request.
LEMMA ProcessBatchAddType ==
    ASSUME NEW x \in Request PROVE ProcessZfixedsetBatchAdd(x) \in Request
<1>1. [x EXCEPT !.phase = "ZADD"] \in Request
  BY PhaseType, Zenon DEF SubPhases
<1> QED BY <1>1, ZaddType DEF ProcessZfixedsetBatchAdd

\* CreateSubRequestZfixedsetBatchAdd leaves a request.
LEMMA BatchAddType ==
    ASSUME NEW x \in Request PROVE CreateSubRequestZfixedsetBatchAdd(x) \in Request
<1>1. Enter(x, "ZBATCHADD") \in Request
  BY EnterType DEF SubPhases
<1>2. ProcessZfixedsetBatchAdd(Enter(x, "ZBATCHADD")) \in Request
  BY <1>1, ProcessBatchAddType
<1>3. ProcessZfixedsetBatchAdd(ProcessZfixedsetBatchAdd(Enter(x, "ZBATCHADD"))) \in Request
  BY <1>2, ProcessBatchAddType
<1> QED BY <1>2, <1>3 DEF CreateSubRequestZfixedsetBatchAdd

\* CreateSubRequestZfixedsetGetByScore leaves a request, however many members were found.
LEMMA RangeType ==
    ASSUME NEW x \in Request, NEW found \in Nat
    PROVE  CreateSubRequestZfixedsetGetByScore(x, found) \in Request
<1> DEFINE y == Enter(x, "ZRANGE")
           z == [y EXCEPT !.subs = <<>>, !.slots = found]
           w == [z EXCEPT !.phase = "DONE"]
<1>1. y \in Request
  BY EnterType DEF SubPhases
<1>2. z \in Request
  <2> HIDE DEF y
  <2>1. <<>> \in Rounds
    BY DEF Rounds
  <2> QED BY <1>1, <2>1, Zenon DEF Request
<1>3. w \in Request
  <2> HIDE DEF z
  <2> QED BY <1>2, PhaseType, Zenon DEF SubPhases
<1>4. [y EXCEPT !.subs = Items("KEY", 0, y.keys), !.phase = "MGET", !.rc = "AGAIN"] \in Request
  <2> HIDE DEF y
  <2>1. y.keys \in Nat
    BY <1>1 DEF Request
  <2>2. Items("KEY", 0, y.keys) \in Rounds
    BY <2>1, ItemsType
  <2> QED BY <1>1, <2>2, NextRound, Zenon DEF SubPhases
<1>5. \A v \in Request : Return(v, "OK") \in Request /\ Return(v, "ERROR") \in Request
  BY ReturnType
<1>6. CreateSubRequestMget(z) \in Request
  BY <1>2, MgetType
<1> QED BY <1>1, <1>3, <1>4, <1>5, <1>6 DEF CreateSubRequestZfixedsetGetByScore

\* CreateSubRequestZfixedsetBatchGetByScore leaves a request, likewise.
LEMMA BatchRangeType ==
    ASSUME NEW x \in Request, NEW found \in Nat
    PROVE  CreateSubRequestZfixedsetBatchGetByScore(x, found) \in Request
<1> DEFINE y == Enter(x, "BATCHZRANGE")
<1>1. y \in Request
  BY EnterType DEF SubPhases
<1>2. [y EXCEPT !.phase = "ZRANGE"] \in Request
  <2> HIDE DEF y
  <2> QED BY <1>1, PhaseType, Zenon DEF SubPhases
<1> QED BY <1>1, <1>2, RangeType DEF CreateSubRequestZfixedsetBatchGetByScore

\* CreateSubRequestBody leaves a request, whichever command it dispatches on.
LEMMA BodyType ==
    ASSUME NEW x \in Request, NEW found \in Nat
    PROVE  CreateSubRequestBody(x, found) \in Request
<1>1. x.code \in {"OK", "ERROR"} /\ x.type \in CommandTypes
  BY DEF Request
<1>2. Return(x, "ERROR") \in Request
  BY ReturnType
<1> QED BY <1>1, <1>2, MgetType, MsetType, ZaddType, BatchAddType, RangeType, BatchRangeType
        DEF CreateSubRequestBody, CommandTypes

-----------------------------------------------------------------------------
(* The inductive invariant *)

Sr == [ item : Name,
        st : {"created", "running", "done", "final", "killed"},
        out : {"none", "ok", "failed", "5xx", "nostate"},
        told : {"no", "OK", "ERROR"} ]

Contains(s, v) == \E k \in 1 .. Len(s) : s[k] = v

Shape ==
    /\ rq \in Request /\ subs \in Seq(Sr) /\ cur \in Nat /\ count \in Int
    /\ active \in 0 .. Len(subs)
    /\ postponed \in Seq(0 .. Len(subs)) /\ posted \in Seq(0 .. Len(subs))

\* The sub-requests that nginx has still to finish.
Unfinished == {i \in Ids : subs[i].st # "final"}

\* Each holds a reference, and its turn to write has come or is in the list.
Refs ==
    ~closed => /\ count = 1 + Cardinality(Unfinished)
               /\ \A i \in Unfinished : i = active \/ Contains(postponed, i)

\* A value of a queue other than its head is still there when the head has been taken.
LEMMA ContainsTail ==
    ASSUME NEW S, NEW s \in Seq(S), s # <<>>, NEW v, Contains(s, v), v # Head(s)
    PROVE  Contains(Tail(s), v)
<1>1. PICK k \in 1 .. Len(s) : s[k] = v
  BY DEF Contains
<1>2. k - 1 \in 1 .. Len(Tail(s)) /\ Tail(s)[k - 1] = s[k]
  BY <1>1
<1> QED BY <1>1, <1>2 DEF Contains

\* What is in one of two queues is in the two of them joined.
LEMMA ContainsConcat ==
    ASSUME NEW S, NEW s \in Seq(S), NEW t \in Seq(S), NEW v
    PROVE  /\ Contains(s, v) => Contains(s \o t, v)
           /\ Contains(t, v) => Contains(s \o t, v)
<1>1. ASSUME NEW k \in 1 .. Len(s), s[k] = v PROVE Contains(s \o t, v)
  <2>1. k \in 1 .. Len(s \o t) /\ (s \o t)[k] = v
    BY <1>1
  <2> QED BY <2>1 DEF Contains
<1>2. ASSUME NEW k \in 1 .. Len(t), t[k] = v PROVE Contains(s \o t, v)
  <2>1. Len(s) + k \in 1 .. Len(s \o t) /\ (s \o t)[Len(s) + k] = v
    BY <1>2
  <2> QED BY <2>1 DEF Contains
<1> QED BY <1>1, <1>2 DEF Contains

\* The unfinished subrequests are finitely many, so they can be counted.
LEMMA FiniteUnfinished ==
    ASSUME subs \in Seq(Sr)
    PROVE  IsFiniteSet(Unfinished) /\ Cardinality(Unfinished) \in Nat
<1>1. Len(subs) \in Nat /\ IsFiniteSet(1 .. Len(subs))
  BY FS_Interval
<1>2. IsFiniteSet(Unfinished)
  BY <1>1, FS_Subset DEF Unfinished, Ids
<1> QED BY <1>2, FS_CardinalityType

\* ngx_http_postpone_filter_add loses nothing and ends with the parent's output.
LEMMA PostponeAddKeeps ==
    ASSUME NEW n \in Nat, NEW l \in Seq(0 .. n)
    PROVE  /\ PostponeAdd(l) \in Seq(0 .. n)
           /\ Contains(PostponeAdd(l), 0)
           /\ \A v : Contains(l, v) => Contains(PostponeAdd(l), v)
<1>1. CASE l # <<>> /\ l[Len(l)] = 0
  <2>1. PostponeAdd(l) = l /\ Len(l) \in 1 .. Len(l)
    BY <1>1 DEF PostponeAdd
  <2> QED BY <1>1, <2>1 DEF Contains
<1>2. CASE ~(l # <<>> /\ l[Len(l)] = 0)
  <2>1. PostponeAdd(l) = Append(l, 0) /\ Append(l, 0) \in Seq(0 .. n)
    BY <1>2 DEF PostponeAdd
  <2>2. Append(l, 0)[Len(l) + 1] = 0 /\ Len(l) + 1 \in 1 .. Len(Append(l, 0))
    OBVIOUS
  <2>3. \A k \in 1 .. Len(l) : k \in 1 .. Len(Append(l, 0)) /\ Append(l, 0)[k] = l[k]
    OBVIOUS
  <2> QED BY <2>1, <2>2, <2>3 DEF Contains
<1> QED BY <1>1, <1>2

-----------------------------------------------------------------------------
(* One lemma per operator the handlers share *)

\* Write: a request is let go by the list only to have its turn, so the parent
\* ends when none is unfinished; and its output is sent or in the list.
LEMMA WriteInv ==
    ASSUME Shape, Refs, ~closed, NEW in \in BOOLEAN, NEW rest \in Seq(0 .. Len(subs)),
           Write(in, rest), subs' = subs, cur' = cur, rq' \in Request,
           in \/ flushed \/ Contains(postponed, 0)
    PROVE  /\ Shape' /\ Refs'
           /\ flushed' \/ Contains(postponed', 0)
           /\ closed' => flushed'
<1> DEFINE N == 0 .. Len(subs)
           list == IF in /\ (active # 0 \/ postponed # <<>>) THEN PostponeAdd(postponed) ELSE postponed
           turn == active = 0 /\ list # <<>>
           pop  == turn /\ Head(list) # 0
           rem  == IF turn THEN Tail(list) ELSE list
           over == rem = <<>> /\ ~pop /\ active = 0
<1>1. /\ postponed' = rem /\ active' = IF pop THEN Head(list) ELSE active
      /\ posted' = IF over THEN <<>> ELSE IF pop THEN Append(rest, Head(list)) ELSE rest
      /\ flushed' = (flushed \/ (in /\ list = <<>>) \/ (turn /\ ~pop))
      /\ closed' = (over /\ count = 1) /\ count' = IF over THEN count - 1 ELSE count
  BY Zenon DEF Write
<1>2. Len(subs) \in Nat /\ postponed \in Seq(N) /\ active \in N /\ count \in Int
  BY DEF Shape
<1>3. /\ list \in Seq(N) /\ \A v : Contains(postponed, v) => Contains(list, v)
      /\ list = <<>> \/ flushed \/ Contains(list, 0)
      /\ list = <<>> => in \/ flushed
  <2>1. Contains(postponed, 0) => postponed # <<>>
    BY <1>2 DEF Contains
  <2>2. /\ PostponeAdd(postponed) \in Seq(N) /\ Contains(PostponeAdd(postponed), 0)
        /\ \A v : Contains(postponed, v) => Contains(PostponeAdd(postponed), v)
    BY <1>2, PostponeAddKeeps
  <2> QED BY <1>2, <2>1, <2>2
<1> HIDE DEF list
<1>4. /\ rem \in Seq(N) /\ (turn => Head(list) \in N)
      /\ \A v : Contains(list, v) => Contains(rem, v) \/ (turn /\ v = Head(list))
  <2>1. CASE turn
    <3>1. list # <<>> /\ rem = Tail(list)
      BY <2>1
    <3>2. \A v : Contains(list, v) /\ v # Head(list) => Contains(Tail(list), v)
      BY <1>3, <3>1, ContainsTail
    <3>3. Tail(list) \in Seq(N) /\ Head(list) \in N
      BY <1>3, <3>1
    <3> QED BY <2>1, <3>1, <3>2, <3>3
  <2>2. CASE ~turn
    BY <1>3, <2>2
  <2> QED BY <2>1, <2>2
<1>5. \A i \in Unfinished : i \in Nat \ {0} /\ (i = active \/ Contains(list, i))
  BY <1>2, <1>3 DEF Refs, Unfinished, Ids
<1>6. \A i \in Unfinished : i = active' \/ Contains(rem, i)
  <2> SUFFICES ASSUME NEW i \in Unfinished, i # active', ~Contains(rem, i) PROVE FALSE
    OBVIOUS
  <2>1. CASE Contains(list, i)
    <3>1. turn /\ i = Head(list) /\ i # 0
      BY <1>4, <1>5, <2>1
    <3> QED BY <1>1, <3>1
  <2>2. CASE i = active
    <3>1. ~turn
      BY <1>5, <2>2
    <3> QED BY <1>1, <2>2, <3>1
  <2> QED BY <1>5, <2>1, <2>2
<1>7. over => Unfinished = {}
  <2> SUFFICES ASSUME over, NEW i \in Unfinished PROVE FALSE
    OBVIOUS
  <2>1. active' = 0 /\ rem = <<>>
    BY <1>1
  <2>2. ~Contains(<<>>, i)
    BY DEF Contains
  <2> QED BY <1>5, <1>6, <2>1, <2>2, Zenon
<1> HIDE DEF rem
<1>8. Unfinished' = Unfinished
  BY DEF Unfinished, Ids
<1>9. Refs'
  <2>1. CASE over
    <3>1. count = 1
      BY <1>7, <2>1, FS_EmptySet DEF Refs
    <3>2. closed'
      BY <1>1, <2>1, <3>1, Zenon
    <3> QED BY <3>2 DEF Refs
  <2>2. CASE ~over
    <3>1. count' = count /\ postponed' = rem
      BY <1>1, <2>2
    <3>2. count = 1 + Cardinality(Unfinished)
      BY DEF Refs
    <3> QED BY <1>6, <1>8, <3>1, <3>2 DEF Refs
  <2> QED BY <2>1, <2>2
<1>10. Shape'
  <2>1. postponed' \in Seq(N) /\ count' \in Int
    BY <1>1, <1>2, <1>4
  <2>2. active' \in N
    BY <1>1, <1>2, <1>4
  <2>3. posted' \in Seq(N)
    <3>1. pop => Append(rest, Head(list)) \in Seq(N)
      BY <1>4
    <3>2. <<>> \in Seq(N) /\ rest \in Seq(N)
      OBVIOUS
    <3> HIDE DEF N, over, pop
    <3> QED BY <1>1, <3>1, <3>2
  <2> QED BY <2>1, <2>2, <2>3 DEF Shape
<1>11. flushed' \/ Contains(postponed', 0)
  <2> SUFFICES ASSUME ~flushed' PROVE Contains(rem, 0)
    BY <1>1
  <2>1. ~flushed /\ ~(in /\ list = <<>>) /\ ~(turn /\ ~pop)
    BY <1>1, Zenon
  <2>2. Contains(list, 0)
    BY <1>3, <2>1
  <2> QED BY <1>4, <2>1, <2>2
<1>12. closed' => flushed'
  <2> SUFFICES ASSUME over PROVE flushed'
    BY <1>1
  <2>1. CASE list = <<>>
    BY <1>1, <1>3, <2>1, Zenon
  <2>2. CASE list # <<>>
    <3>1. turn /\ ~pop
      BY <2>2
    <3> QED BY <1>1, <3>1, Zenon
  <2> QED BY <2>1, <2>2
<1> QED BY <1>9, <1>10, <1>11, <1>12

\* Start: the round's sub-requests take their references and join the list.
LEMMA StartInv ==
    ASSUME Shape, Refs, ~closed, NEW y \in Request, NEW d, NEW rest \in Seq(0 .. Len(subs)),
           Len(y.subs) < left, Start(y, d, rest), rq' = y
    PROVE  /\ Shape' /\ Refs' /\ phase' = "WAIT" /\ data' = d /\ wev' = "empty"
           /\ cur' = Len(subs) + 1 /\ Len(subs) <= Len(subs')
           /\ \A i \in Ids : subs'[i] = subs[i]
           /\ UNCHANGED <<written, flushed, closed>>
<1> DEFINE n == Len(y.subs)
           m == Len(subs)
           new == [i \in 1 .. n |-> [item |-> y.subs[i], st |-> "created", out |-> "none", told |-> "no"]]
           ids == [i \in 1 .. n |-> m + i]
<1>1. /\ phase' = "WAIT" /\ subs' = subs \o new /\ cur' = m + 1 /\ count' = count + n
      /\ active' = IF n > 0 /\ active = 0 /\ postponed = <<>> THEN m + 1 ELSE active
      /\ postponed' = postponed \o ids /\ posted' = rest \o ids
      /\ wev' = "empty" /\ data' = d /\ UNCHANGED <<written, flushed, closed>>
  BY Zenon DEF Start
<1>2. n \in Nat /\ m \in Nat /\ y.subs \in Rounds /\ subs \in Seq(Sr) /\ count \in Int
  BY SMTT(30) DEF Request, Rounds, Shape
<1>3. new \in Seq(Sr) /\ Len(new) = n /\ \A i \in 1 .. n : new[i].st = "created"
  <2>1. \A i \in 1 .. n : y.subs[i] \in Name
    BY <1>2 DEF Rounds
  <2>2. \A i \in 1 .. n : [item |-> y.subs[i], st |-> "created", out |-> "none", told |-> "no"] \in Sr
    BY <2>1 DEF Sr
  <2> HIDE DEF n
  <2> QED BY <1>2, <2>2
<1>4. ids \in Seq(0 .. m + n) /\ Len(ids) = n /\ \A i \in m + 1 .. m + n : Contains(ids, i)
  <2> HIDE DEF n, m
  <2>1. ids \in Seq(0 .. m + n) /\ Len(ids) = n /\ \A k \in 1 .. n : ids[k] = m + k
    BY <1>2
  <2>2. ASSUME NEW i \in m + 1 .. m + n PROVE Contains(ids, i)
    <3>1. i - m \in 1 .. n /\ m + (i - m) = i
      BY <1>2
    <3> HIDE DEF ids
    <3>2. i - m \in 1 .. Len(ids) /\ ids[i - m] = i
      BY <2>1, <3>1
    <3> QED BY <3>2 DEF Contains
  <2> QED BY <2>1, <2>2, Zenon
<1> HIDE DEF new, ids
<1>5. /\ subs' \in Seq(Sr) /\ Len(subs') = m + n
      /\ \A i \in 1 .. m : subs'[i] = subs[i]
      /\ \A i \in m + 1 .. m + n : subs'[i].st = "created"
  <2> HIDE DEF n
  <2>1. subs \o new \in Seq(Sr) /\ Len(subs \o new) = m + n
    <3>1. subs \in Seq(Sr) /\ new \in Seq(Sr) /\ Len(new) = n
      BY <1>2, <1>3, Zenon
    <3> QED BY <3>1, SeqConcat, Zenon
  <2>2. \A i \in 1 .. m : (subs \o new)[i] = subs[i]
    BY <1>2, <1>3
  <2>3. \A i \in m + 1 .. m + n : i - m \in 1 .. n /\ (subs \o new)[i] = new[i - m]
    BY <1>2, <1>3
  <2> QED BY <1>1, <1>3, <2>1, <2>2, <2>3, SMTT(30)
<1>6. rest \in Seq(0 .. m + n) /\ postponed \in Seq(0 .. m + n) /\ active \in 0 .. m + n
  <2>1. 0 .. m \subseteq 0 .. m + n
    BY <1>2
  <2>2. postponed \in Seq(0 .. m) /\ rest \in Seq(0 .. m) /\ active \in 0 .. m
    BY DEF Shape
  <2> HIDE DEF n, m
  <2> QED BY <2>1, <2>2, SeqWider, Zenon
<1>7. Shape'
  <2> HIDE DEF n, m
  <2>1. postponed' \in Seq(0 .. m + n) /\ posted' \in Seq(0 .. m + n)
    BY <1>1, <1>4, <1>6, SeqConcat
  <2>2. active' \in 0 .. m + n /\ count' \in Int /\ cur' \in Nat
    BY <1>1, <1>2, <1>6
  <2> QED BY <1>1, <1>5, <2>1, <2>2 DEF Shape
<1>8. \A v : (Contains(postponed, v) \/ Contains(ids, v)) => Contains(postponed', v)
  BY <1>1, <1>4, <1>6, ContainsConcat
<1>9. Unfinished' = Unfinished \cup (m + 1 .. m + n) /\ Unfinished \cap (m + 1 .. m + n) = {}
  <2>1. \A i : i \in 1 .. m + n <=> (i \in 1 .. m \/ i \in m + 1 .. m + n)
    <3> HIDE DEF n, m
    <3> QED BY <1>2
  <2>2. \A i \in 1 .. m : i \notin m + 1 .. m + n
    <3> HIDE DEF n, m
    <3> QED BY <1>2
  <2>3. Unfinished' = {i \in 1 .. m + n : subs'[i].st # "final"}
    BY <1>5 DEF Unfinished, Ids
  <2>4. Unfinished = {i \in 1 .. m : subs[i].st # "final"}
    BY DEF Unfinished, Ids
  <2> HIDE DEF n, m
  <2> QED BY <1>5, <2>1, <2>2, <2>3, <2>4
<1>10. Cardinality(Unfinished') = Cardinality(Unfinished) + n
  <2> HIDE DEF n, m
  <2>1. IsFiniteSet(m + 1 .. m + n) /\ Cardinality(m + 1 .. m + n) = n
    <3>1. m + 1 \in Int /\ m + n \in Int
      BY <1>2
    <3>2. (m + 1 > m + n <=> n = 0) /\ (m + n) - (m + 1) + 1 = n
      BY <1>2
    <3> QED BY <1>2, <3>1, <3>2, FS_Interval, Zenon
  <2>2. IsFiniteSet(Unfinished) /\ Cardinality(Unfinished) \in Nat
    BY <1>2, FiniteUnfinished
  <2>3. Cardinality(Unfinished \cup (m + 1 .. m + n))
          = Cardinality(Unfinished) + Cardinality(m + 1 .. m + n) - Cardinality(Unfinished \cap (m + 1 .. m + n))
    BY <2>1, <2>2, FS_Union, Zenon
  <2>4. Cardinality(Unfinished \cap (m + 1 .. m + n)) = 0
    BY <1>9, FS_EmptySet, Zenon
  <2>5. Cardinality(Unfinished') = Cardinality(Unfinished \cup (m + 1 .. m + n))
    BY <1>9
  <2> QED BY <1>2, <2>1, <2>2, <2>3, <2>4, <2>5
<1>11. Refs'
  <2>1. count = 1 + Cardinality(Unfinished) /\ Cardinality(Unfinished) \in Nat
    BY <1>2, FiniteUnfinished DEF Refs
  <2>2. count' = 1 + Cardinality(Unfinished')
    <3> HIDE DEF n
    <3> QED BY <1>1, <1>2, <1>10, <2>1, SMTT(30)
  <2>3. ASSUME NEW i \in Unfinished' PROVE i = active' \/ Contains(postponed', i)
    <3>1. CASE i \in m + 1 .. m + n
      BY <1>4, <1>8, <3>1
    <3>2. CASE i \in Unfinished
      <4>1. i = active \/ Contains(postponed, i)
        BY <3>2 DEF Refs
      <4>2. i # 0
        BY <3>2, <1>2 DEF Unfinished, Ids
      <4> QED BY <1>1, <1>8, <4>1, <4>2
    <3> QED BY <1>9, <3>1, <3>2
  <2> QED BY <2>2, <2>3 DEF Refs
<1> QED BY <1>1, <1>2, <1>5, <1>7, <1>11 DEF Ids

\* Terminate: everything is let go.
LEMMA TerminateInv ==
    ASSUME Shape, Terminate(subs), rq' \in Request
    PROVE  /\ Shape' /\ Refs' /\ phase' = "ERROR" /\ closed' /\ wev' = "empty"
           /\ UNCHANGED <<written, flushed>>
           /\ \A i \in Ids' : subs'[i].st \in {"final", "killed"}
<1>1. /\ phase' = "ERROR" /\ closed' = TRUE /\ count' = 0 /\ cur' = cur
      /\ subs' = [i \in DOMAIN subs |-> IF subs[i].st = "final" THEN subs[i] ELSE [subs[i] EXCEPT !.st = "killed"]]
      /\ posted' = <<>> /\ postponed' = <<>> /\ active' = 0 /\ wev' = "empty" /\ UNCHANGED <<written, flushed>>
  BY DEF Terminate
<1>2. \A i \in DOMAIN subs : subs[i] \in Sr
  BY DEF Shape
<1>3. \A x \in Sr : /\ [x EXCEPT !.st = "killed"] \in Sr /\ [x EXCEPT !.st = "killed"].st = "killed"
                    /\ x.st \in {"created", "running", "done", "final", "killed"}
  BY DEF Sr
<1>4. /\ DOMAIN subs' = DOMAIN subs
      /\ \A i \in DOMAIN subs : subs'[i] \in Sr /\ subs'[i].st \in {"final", "killed"}
  <2>1. \A i \in DOMAIN subs :
          subs'[i] = IF subs[i].st = "final" THEN subs[i] ELSE [subs[i] EXCEPT !.st = "killed"]
    BY <1>1
  <2> QED BY <1>1, <1>2, <1>3, <2>1
<1>5. Len(subs) \in Nat /\ DOMAIN subs = 1 .. Len(subs)
  BY DEF Shape
<1>6. subs' \in Seq(Sr) /\ Len(subs') = Len(subs)
  <2>1. subs' = [i \in 1 .. Len(subs) |-> subs'[i]]
    BY <1>1, <1>4, <1>5
  <2>2. [i \in 1 .. Len(subs) |-> subs'[i]] \in Seq(Sr) /\ Len([i \in 1 .. Len(subs) |-> subs'[i]]) = Len(subs)
    BY <1>4, <1>5
  <2> QED BY <2>1, <2>2
<1>7. Shape'
  BY <1>1, <1>5, <1>6 DEF Shape
<1> QED BY <1>1, <1>4, <1>5, <1>6, <1>7 DEF Refs, Ids

\* Finalize: the sub-request whose turn it is gives its reference back.
LEMMA FinalizeInv ==
    ASSUME Shape, Refs, ~closed, NEW i \in Ids, subs[i].st # "final",
           NEW o \in {"none", "ok", "failed", "5xx", "nostate"}, NEW rest \in Seq(0 .. Len(subs)),
           Finalize(i, o, rest), rq' \in Request
    PROVE  /\ Shape' /\ Refs' /\ wev' = "phases" /\ Ids' = Ids
           /\ \A j \in Ids \ {i} : subs'[j] = subs[j]
           /\ subs'[i].st \in {"done", "final"}
           /\ Contains(postponed, 0) => Contains(postponed', 0)
           /\ UNCHANGED <<data, phase, waiting, cur, answer, written, flushed, closed>>
<1> DEFINE st == IF i = active THEN "final" ELSE "done"
           out == IF o = "none" THEN subs[i].out ELSE o
           x == [subs[i] EXCEPT !.st = st, !.out = out]
<1>1. /\ subs' = [subs EXCEPT ![i] = x]
      /\ wev' = "phases" /\ posted' = Append(rest, 0)
      /\ UNCHANGED <<data, phase, waiting, cur, answer, written, flushed, closed>>
      /\ IF i = active
         THEN /\ count' = count - 1 /\ active' = 0
              /\ postponed' = IF postponed # <<>> /\ Head(postponed) = i THEN Tail(postponed) ELSE postponed
         ELSE UNCHANGED <<count, active, postponed>>
  BY Zenon DEF Finalize
<1>2. subs[i] \in Sr /\ Len(subs) \in Nat /\ i \in DOMAIN subs /\ DOMAIN subs = Ids /\ i # 0
  BY DEF Shape, Ids
<1>3. x \in Sr /\ x.st = st
  <2>1. st \in {"done", "final"} /\ out \in {"none", "ok", "failed", "5xx", "nostate"}
    BY <1>2 DEF Sr
  <2> HIDE DEF st, out
  <2> QED BY <1>2, <2>1, Zenon DEF Sr
<1> HIDE DEF x
<1>4. /\ subs' \in Seq(Sr) /\ Len(subs') = Len(subs) /\ subs'[i] = x
      /\ \A j \in Ids \ {i} : subs'[j] = subs[j]
  BY <1>1, <1>2, <1>3 DEF Shape
<1>5. Ids' = Ids
  BY <1>4 DEF Ids
<1>6. /\ postponed' \in Seq(0 .. Len(subs)) /\ active' \in 0 .. Len(subs) /\ count' \in Int
      /\ \A v : Contains(postponed, v) /\ v # i => Contains(postponed', v)
  <2>1. postponed \in Seq(0 .. Len(subs)) /\ active \in 0 .. Len(subs) /\ count \in Int
    BY DEF Shape
  <2>2. CASE i = active /\ postponed # <<>> /\ Head(postponed) = i
    <3>1. Tail(postponed) \in Seq(0 .. Len(subs))
      BY <2>1, <2>2
    <3>2. \A v : Contains(postponed, v) /\ v # i => Contains(Tail(postponed), v)
      BY <2>1, <2>2, ContainsTail
    <3>3. postponed' = Tail(postponed) /\ active' = 0 /\ count' = count - 1
      BY <1>1, <2>2
    <3> QED BY <1>2, <2>1, <3>1, <3>2, <3>3
  <2>3. CASE ~(i = active /\ postponed # <<>> /\ Head(postponed) = i)
    <3>1. postponed' = postponed /\ (active' = active \/ active' = 0) /\ (count' = count \/ count' = count - 1)
      BY <1>1, <2>3
    <3> QED BY <1>2, <2>1, <3>1
  <2> QED BY <2>2, <2>3
<1>7. Shape'
  <2>1. posted' \in Seq(0 .. Len(subs))
    BY <1>1, <1>2
  <2> QED BY <1>1, <1>4, <1>6, <2>1 DEF Shape
<1>8. IsFiniteSet(Unfinished) /\ Cardinality(Unfinished) \in Nat /\ i \in Unfinished
  BY FiniteUnfinished DEF Shape, Unfinished
<1>9. Refs'
  <2>1. /\ count = 1 + Cardinality(Unfinished)
        /\ \A j \in Unfinished : j = active \/ Contains(postponed, j)
    BY DEF Refs
  <2>2. CASE i = active
    <3>1. Unfinished' = Unfinished \ {i}
      BY <1>3, <1>4, <1>5, <2>2 DEF Unfinished
    <3>2. Cardinality(Unfinished') = Cardinality(Unfinished) - 1
      BY <1>8, <3>1, FS_RemoveElement, Zenon
    <3>3. count' = count - 1
      BY <1>1, <2>2
    <3>4. count' = 1 + Cardinality(Unfinished')
      BY <1>8, <2>1, <3>2, <3>3, SMTT(30)
    <3> QED BY <1>6, <2>1, <2>2, <3>1, <3>4, SMTT(30) DEF Refs
  <2>3. CASE i # active
    <3>1. Unfinished' = Unfinished
      BY <1>3, <1>4, <1>5, <1>8, <2>3, SMTT(30) DEF Unfinished
    <3> QED BY <1>1, <2>1, <2>3, <3>1, SMTT(30) DEF Refs
  <2> QED BY <2>2, <2>3
<1>10. Contains(postponed, 0) => Contains(postponed', 0)
  BY <1>2, <1>6
<1>11. subs'[i].st \in {"done", "final"}
  BY <1>3, <1>4
<1> QED BY <1>1, <1>4, <1>5, <1>7, <1>9, <1>10, <1>11, SMTT(30)

-----------------------------------------------------------------------------
(* The steps *)

\* What each phase knows of the plugin's request and of the answer.
Control ==
    /\ phase \in {"INIT", "WAIT", "DONE", "ERROR"}
    /\ phase = "INIT" => data = "none" /\ ~closed /\ answer = "none" /\ written = 0
    /\ phase = "WAIT" => data = "live" /\ ~closed /\ answer = "none" /\ written = 0
    /\ phase = "DONE" => data = "freed" /\ written = 1
    /\ phase = "ERROR" => data \in {"none", "freed"} /\ answer = "none" /\ written = 0
    /\ waiting => phase = "INIT"
    /\ wev = "writer" => phase = "DONE"

\* Sub-requests run only while the handler waits, and are those of its round.
Running == \A i \in Ids : subs[i].st \in {"created", "running"} => phase = "WAIT" /\ cur <= i

\* Once answered, the answer is sent or in the list, and sent when all is over.
Output == phase = "DONE" => (flushed \/ Contains(postponed, 0)) /\ (closed => flushed)

\* The inductive invariant.
HandlerInv == Shape /\ Refs /\ Control /\ Running /\ Output

\* Terminating the request, which kills what is still open, preserves HandlerInv.
LEMMA TerminatedInv ==
    ASSUME HandlerInv, phase \in {"INIT", "WAIT"}, Terminate(subs), rq' = rq \/ rq' \in Request,
           data' \in {"none", "freed"}, ~waiting', answer' = answer
    PROVE  HandlerInv'
<1>1. rq' \in Request /\ Shape
  BY DEF HandlerInv, Shape
<1>2. /\ Shape' /\ Refs' /\ phase' = "ERROR" /\ closed' /\ wev' = "empty"
      /\ UNCHANGED <<written, flushed>>
      /\ \A i \in Ids' : subs'[i].st \in {"final", "killed"}
  BY <1>1, TerminateInv
<1>3. answer = "none" /\ written = 0
  BY DEF HandlerInv, Control
<1>4. Control'
  BY <1>2, <1>3 DEF Control
<1>5. Running'
  BY <1>2 DEF Running
<1>6. Output'
  BY <1>2 DEF Output
<1> QED BY <1>2, <1>4, <1>5, <1>6 DEF HandlerInv

\* Delivering what the plugin answers, once no subrequest is open, preserves HandlerInv.
LEMMA DeliverInv ==
    ASSUME HandlerInv, phase \in {"INIT", "WAIT"}, NEW y \in Request,
           NEW rest \in Seq(0 .. Len(subs)), Deliver(y, "live", rest), ~waiting',
           \A i \in Ids : subs[i].st \notin {"created", "running"}
    PROVE  HandlerInv'
<1>1. Shape /\ Refs /\ ~closed /\ rq' = y /\ answer = "none" /\ written = 0
  BY DEF HandlerInv, Control, Deliver
<1>2. CASE y.rc = "AGAIN" /\ Start(y, "live", rest) /\ UNCHANGED answer
  <2>1. CASE Len(y.subs) < left
    <3>1. /\ Shape' /\ Refs' /\ phase' = "WAIT" /\ data' = "live" /\ wev' = "empty"
          /\ cur' = Len(subs) + 1 /\ Len(subs) <= Len(subs')
          /\ \A i \in Ids : subs'[i] = subs[i]
          /\ UNCHANGED <<written, flushed, closed>>
      BY <1>1, <1>2, <2>1, StartInv
    <3>2. Control'
      BY <1>1, <1>2, <3>1 DEF Control
    <3>3. Running'
      <4>1. \A i \in Ids' : i \in Ids \/ cur' <= i
        BY <1>1, <3>1 DEF Ids, Shape
      <4> QED BY <3>1, <4>1 DEF Running
    <3>4. Output'
      BY <3>1 DEF Output
    <3> QED BY <3>1, <3>2, <3>3, <3>4, SMTT(30) DEF HandlerInv
  <2>2. CASE ~(Len(y.subs) < left)
    <3>1. Terminate(subs) /\ data' = "freed"
      BY <1>2, <2>2, Zenon DEF Start, Destroyed
    <3> QED BY <1>1, <1>2, <3>1, TerminatedInv
  <2> QED BY <2>1, <2>2
<1>3. CASE /\ y.rc # "AGAIN" /\ phase' = "DONE" /\ data' = Destroyed("live")
           /\ Write(TRUE, rest) /\ UNCHANGED <<subs, cur>>
  <2>1. Shape' /\ Refs' /\ (flushed' \/ Contains(postponed', 0)) /\ (closed' => flushed')
    BY <1>1, <1>3, WriteInv, Zenon
  <2>2. data' = "freed" /\ written' = 1
    <3>1. written' = written + 1
      BY <1>3, Zenon DEF Write
    <3> QED BY <1>1, <1>3, <3>1 DEF Destroyed
  <2>3. Control'
    BY <1>3, <2>2 DEF Control
  <2>4. Running'
    BY <1>3 DEF Running, Ids
  <2>5. Output'
    BY <2>1 DEF Output
  <2> QED BY <2>1, <2>3, <2>4, <2>5 DEF HandlerInv
<1> QED BY <1>2, <1>3, Zenon DEF Deliver

\* A request just read from the client is a request.
LEMMA NewRequestType ==
    ASSUME NEW t \in CommandTypes, NEW k \in Nat, NEW s \in Nat
    PROVE  NewRequest(t, k, s) \in Request
<1>1. <<>> \in Rounds
  BY DEF Rounds
<1> QED BY <1>1 DEF NewRequest, Request, SubPhases

\* The handler's first turn, ProcessRequest, preserves HandlerInv.
LEMMA ProcessRequestInv ==
    ASSUME HandlerInv, phase = "INIT", ProcessRequest
    PROVE  HandlerInv'
<1>1. ~waiting' /\ <<>> \in Seq(0 .. Len(subs))
  <2>1. ~waiting'
    BY Zenon DEF ProcessRequest
  <2> QED BY <2>1
<1>2. \A i \in Ids : subs[i].st \notin {"created", "running"}
  BY DEF HandlerInv, Running
<1>3. ASSUME NEW b \in Batches, NEW y, y = NewRequest(b.type, b.keys, b.slots),
             \/ Deliver(CreateSubRequestBody(y, 0), "live", <<>>)
             \/ Deliver([y EXCEPT !.code = "ERROR", !.rc = "ERROR"], "live", <<>>)
      PROVE  HandlerInv'
  <2>1. b.type \in CommandTypes /\ b.keys \in Nat /\ b.slots \in Nat
    BY BatchesAssumption DEF BatchesAssumption
  <2>2. y \in Request
    BY <1>3, <2>1, NewRequestType
  <2>3. CreateSubRequestBody(y, 0) \in Request
    BY <2>2, BodyType
  <2>4. [y EXCEPT !.code = "ERROR", !.rc = "ERROR"] \in Request
    BY <2>2, Zenon DEF Request
  <2> QED BY <1>1, <1>2, <1>3, <2>3, <2>4, DeliverInv, Zenon
<1>4. ASSUME NEW d \in {"none", "live"}, Terminate(subs), data' = Destroyed(d), UNCHANGED <<rq, answer>>
      PROVE  HandlerInv'
  <2>1. data' \in {"none", "freed"}
    BY <1>4 DEF Destroyed
  <2> QED BY <1>1, <1>4, <2>1, TerminatedInv
<1> QED BY <1>3, <1>4, Zenon DEF ProcessRequest

\* RunSub and SubTells: a sub-request runs on.
LEMMA RunsOnInv ==
    ASSUME HandlerInv, NEW i \in Ids, subs[i].st \in {"created", "running"},
           NEW x \in Sr, x.st = "running", subs' = [subs EXCEPT ![i] = x],
           posted' \in Seq(0 .. Len(subs)), rq' \in Request,
           UNCHANGED <<data, phase, waiting, cur, answer, active, postponed, wev, count,
                       written, flushed, closed>>
    PROVE  HandlerInv'
<1>1. /\ subs' \in Seq(Sr) /\ Len(subs') = Len(subs) /\ subs'[i] = x
      /\ \A j \in Ids \ {i} : subs'[j] = subs[j]
  BY DEF HandlerInv, Shape, Ids
<1>2. Ids' = Ids
  BY <1>1 DEF Ids
<1>3. Unfinished' = Unfinished
  BY <1>1, <1>2 DEF Unfinished
<1>4. Shape'
  BY <1>1 DEF HandlerInv, Shape
<1>5. Refs'
  BY <1>3 DEF HandlerInv, Refs
<1>6. Running'
  BY <1>1, <1>2 DEF HandlerInv, Running
<1>7. Control' /\ Output'
  BY DEF HandlerInv, Control, Output
<1> QED BY <1>4, <1>5, <1>6, <1>7 DEF HandlerInv

\* RunSub, RunFinalizer and SubEnds: a sub-request ends.
LEMMA EndsInv ==
    ASSUME HandlerInv, ~closed, NEW i \in Ids, subs[i].st # "final",
           NEW o \in {"none", "ok", "failed", "5xx", "nostate"}, NEW rest \in Seq(0 .. Len(subs)),
           Finalize(i, o, rest), rq' \in Request
    PROVE  HandlerInv'
<1>1. /\ Shape' /\ Refs' /\ wev' = "phases" /\ Ids' = Ids
      /\ \A j \in Ids \ {i} : subs'[j] = subs[j]
      /\ subs'[i].st \in {"done", "final"}
      /\ Contains(postponed, 0) => Contains(postponed', 0)
      /\ UNCHANGED <<data, phase, waiting, cur, answer, written, flushed, closed>>
  BY FinalizeInv DEF HandlerInv
<1>2. Control'
  BY <1>1 DEF HandlerInv, Control
<1>3. Running'
  BY <1>1 DEF HandlerInv, Running
<1>4. Output'
  BY <1>1 DEF HandlerInv, Output
<1> QED BY <1>1, <1>2, <1>3, <1>4, SMTT(30) DEF HandlerInv

\* A posted subrequest that runs, or is finalized, preserves HandlerInv.
LEMMA RunSubInv ==
    ASSUME HandlerInv, ~closed, posted # <<>>, Head(posted) # 0,
           RunSub(Head(posted)) \/ RunFinalizer(Head(posted))
    PROVE  HandlerInv'
<1> DEFINE i == Head(posted)
<1>1. i \in Ids /\ Tail(posted) \in Seq(0 .. Len(subs)) /\ subs[i] \in Sr /\ rq \in Request
  BY DEF HandlerInv, Shape, Ids
<1> HIDE DEF i
<1>2. ASSUME subs[i].st \in {"created", "running"}, NEW t \in {"no", "ERROR"},
             rq' = IF t = "no" THEN rq ELSE [rq EXCEPT !.code = t],
             \/ /\ subs' = [subs EXCEPT ![i].st = "running", ![i].told = IF t = "no" THEN @ ELSE t]
                /\ posted' = Tail(posted)
                /\ UNCHANGED <<data, phase, waiting, cur, answer, active, postponed, wev,
                               count, left, written, flushed, closed>>
             \/ \E o \in Outcomes \ {"ok"} : Finalize(i, o, Tail(posted))
      PROVE  HandlerInv'
  <2>1. rq' \in Request
    BY <1>1, <1>2, Zenon DEF Request
  <2>2. CASE \E o \in Outcomes \ {"ok"} : Finalize(i, o, Tail(posted))
    BY <1>1, <1>2, <2>1, <2>2, EndsInv, Zenon DEF Outcomes
  <2>3. CASE /\ subs' = [subs EXCEPT ![i].st = "running", ![i].told = IF t = "no" THEN @ ELSE t]
             /\ posted' = Tail(posted)
             /\ UNCHANGED <<data, phase, waiting, cur, answer, active, postponed, wev,
                            count, left, written, flushed, closed>>
    <3> DEFINE told == IF t = "no" THEN subs[i].told ELSE t
               x == [subs[i] EXCEPT !.st = "running", !.told = told]
    <3>1. subs' = [subs EXCEPT ![i] = x]
      BY <2>3, Zenon
    <3>2. x \in Sr /\ x.st = "running"
      <4>1. told \in {"no", "OK", "ERROR"}
        BY <1>1 DEF Sr
      <4> HIDE DEF told
      <4> QED BY <1>1, <4>1, Zenon DEF Sr
    <3> HIDE DEF x
    <3> QED BY <1>1, <1>2, <2>1, <2>3, <3>1, <3>2, RunsOnInv, Zenon
  <2> QED BY <1>2, <2>2, <2>3
<1>3. CASE RunFinalizer(i)
  BY <1>1, <1>3, EndsInv, Zenon DEF RunFinalizer
<1>4. CASE RunSub(i)
  BY <1>2, <1>4, Zenon DEF RunSub
<1> QED BY <1>3, <1>4 DEF i

\* An event of a subrequest's upstream preserves HandlerInv.
LEMMA SubEventInv ==
    ASSUME HandlerInv, NEW i \in Ids, SubTells(i) \/ SubEnds(i)
    PROVE  HandlerInv'
<1>1. subs[i] \in Sr /\ rq \in Request
  BY DEF HandlerInv, Shape, Ids
<1>2. CASE SubTells(i)
  <2>1. PICK c \in {"OK", "ERROR"} : rq' = [rq EXCEPT !.code = c] /\ subs' = [subs EXCEPT ![i].told = c]
    BY <1>2, Zenon DEF SubTells
  <2> DEFINE x == [subs[i] EXCEPT !.told = c]
  <2>2. rq' \in Request
    BY <1>1, <2>1 DEF Request
  <2>3. subs' = [subs EXCEPT ![i] = x]
    BY <2>1
  <2>4. x \in Sr /\ x.st = "running" /\ subs[i].st = "running"
    BY <1>1, <1>2 DEF Sr, SubTells
  <2> HIDE DEF x
  <2>5. /\ posted' \in Seq(0 .. Len(subs))
        /\ UNCHANGED <<data, phase, waiting, cur, answer, active, postponed, wev, count,
                       written, flushed, closed>>
    BY <1>2 DEF SubTells, nginx, HandlerInv, Shape
  <2> QED BY <2>2, <2>3, <2>4, <2>5, RunsOnInv, Zenon
<1>3. CASE SubEnds(i)
  <2>1. ~closed /\ subs[i].st # "final" /\ rq' = rq /\ \E o \in Outcomes : Finalize(i, o, <<>>)
    BY <1>3 DEF SubEnds
  <2>2. <<>> \in Seq(0 .. Len(subs))
    OBVIOUS
  <2> QED BY <1>1, <2>1, <2>2, EndsInv, Zenon DEF Outcomes
<1> QED BY <1>2, <1>3

\* The parent, posted again and run, preserves HandlerInv.
LEMMA RunParentInv ==
    ASSUME HandlerInv, ~closed, posted # <<>>, RunParent
    PROVE  HandlerInv'
<1>1. Tail(posted) \in Seq(0 .. Len(subs)) /\ rq \in Request /\ Len(subs) \in Nat /\ cur \in Nat
  BY DEF HandlerInv, Shape
<1>2. ASSUME posted' = Tail(posted), wev' \in {wev, "empty"},
             UNCHANGED <<rq, data, phase, waiting, subs, cur, answer, active, postponed,
                         count, left, written, flushed, closed>>
      PROVE  HandlerInv'
  <2>1. Shape' /\ Refs'
    BY <1>1, <1>2 DEF HandlerInv, Shape, Refs, Unfinished, Ids
  <2>2. Control' /\ Running' /\ Output'
    BY <1>2 DEF HandlerInv, Control, Running, Output, Ids
  <2> QED BY <2>1, <2>2 DEF HandlerInv
<1>3. CASE CheckAgain
  BY <1>2, <1>3 DEF CheckAgain
<1>4. CASE CheckError
  <2>1. phase = "WAIT" /\ data = "live" /\ ~waiting
    BY <1>4 DEF CheckError, HandlerInv, Control
  <2> QED BY <1>4, <2>1, TerminatedInv DEF CheckError, Destroyed
<1>5. CASE CheckOk
  <2>1. phase = "WAIT" /\ data = "live" /\ ~waiting /\ AllEnded
    BY <1>5 DEF CheckOk, HandlerInv, Control
  <2>2. PICK found \in 0 .. MaxFound : Deliver(CreateSubRequestBody(rq, found), data, Tail(posted))
    BY <1>5 DEF CheckOk
  <2>3. found \in Nat /\ waiting' = waiting
    BY <1>5, SubrequestsAssumption DEF SubrequestsAssumption, CheckOk
  <2>4. CreateSubRequestBody(rq, found) \in Request
    BY <1>1, <2>3, BodyType
  <2>5. \A i \in Ids : subs[i].st \notin {"created", "running"}
    <3> SUFFICES ASSUME NEW i \in Ids, subs[i].st \in {"created", "running"} PROVE FALSE
      OBVIOUS
    <3>1. cur <= i
      BY DEF HandlerInv, Running
    <3>2. i \in Round
      BY <1>1, <3>1 DEF Round, Ids
    <3> QED BY <2>1, <3>2 DEF AllEnded, Ended
  <2> QED BY <1>1, <2>1, <2>2, <2>3, <2>4, <2>5, DeliverInv, ZenonT(40)
<1>6. CASE Flush
  <2>1. phase = "DONE" /\ Write(FALSE, Tail(posted)) /\ UNCHANGED <<rq, data, phase, waiting, subs, cur, answer>>
    BY <1>6, Zenon DEF Flush, HandlerInv, Control
  <2>2. Shape' /\ Refs' /\ (flushed' \/ Contains(postponed', 0)) /\ (closed' => flushed')
    BY <1>1, <2>1, WriteInv, Zenon DEF HandlerInv, Output
  <2>3. written' = written
    BY <2>1, Zenon DEF Write
  <2>4. Control'
    BY <2>1, <2>3 DEF HandlerInv, Control
  <2>5. Running' /\ Output'
    BY <2>1, <2>2 DEF HandlerInv, Running, Output, Ids
  <2> QED BY <2>2, <2>4, <2>5 DEF HandlerInv
<1> QED BY <1>2, <1>3, <1>4, <1>5, <1>6 DEF RunParent

\* The invariant is inductive.
LEMMA HandlerInvInit == Init => HandlerInv
<1> SUFFICES ASSUME Init PROVE HandlerInv
  OBVIOUS
<1>1. rq \in Request
  BY NewRequestType DEF Init, CommandTypes
<1>2. Ids = {} /\ Unfinished = {}
  BY DEF Init, Ids, Unfinished
<1>3. Shape
  BY <1>1 DEF Init, Shape
<1>4. Refs
  BY <1>2, FS_EmptySet DEF Init, Refs
<1>5. Control /\ Running /\ Output
  BY <1>2 DEF Init, Control, Running, Output
<1> QED BY <1>3, <1>4, <1>5 DEF HandlerInv

\* Every step preserves HandlerInv.
LEMMA HandlerInvStep == HandlerInv /\ [Next]_vars => HandlerInv'
<1> SUFFICES ASSUME HandlerInv, [Next]_vars PROVE HandlerInv'
  OBVIOUS
<1>1. CASE ReadBody
  BY <1>1, ProcessRequestInv DEF ReadBody
<1>2. CASE ReadMore
  <2>1. Shape' /\ Refs'
    BY <1>2, SMTT(30) DEF ReadMore, nginx, HandlerInv, Shape, Refs, Unfinished, Ids
  <2>2. Control' /\ Running' /\ Output'
    BY <1>2 DEF ReadMore, nginx, HandlerInv, Control, Running, Output, Ids
  <2> QED BY <2>1, <2>2, SMTT(30) DEF HandlerInv
<1>3. CASE BodyArrives
  <2>1. phase = "INIT"
    BY <1>3 DEF BodyArrives, HandlerInv, Control
  <2> QED BY <1>3, <2>1, ProcessRequestInv DEF BodyArrives
<1>4. CASE BodyFails
  <2>1. data = "none"
    BY <1>4 DEF BodyFails, HandlerInv, Control
  <2> QED BY <1>4, <2>1, TerminatedInv DEF BodyFails
<1>5. CASE RunPosted
  BY <1>5, RunParentInv, RunSubInv DEF RunPosted
<1>6. ASSUME NEW i \in Ids, SubTells(i) \/ SubEnds(i) PROVE HandlerInv'
  BY <1>6, SubEventInv, SMTT(30)
<1>7. CASE UNCHANGED vars
  <2>1. Shape' /\ Refs'
    BY <1>7, SMTT(30) DEF vars, nginx, HandlerInv, Shape, Refs, Unfinished, Ids
  <2>2. Control' /\ Running' /\ Output'
    BY <1>7 DEF vars, nginx, HandlerInv, Control, Running, Output, Ids
  <2> QED BY <2>1, <2>2 DEF HandlerInv
<1> QED BY <1>1, <1>2, <1>3, <1>4, <1>5, <1>6, <1>7, SMTT(30) DEF Next, Over

\* For every batch, limit and order in which sub-requests end, r->main->count
\* is one reference for the request and one for each unfinished sub-request.
THEOREM ReferencesMatch == Spec => []CountMatches
<1>1. HandlerInv => CountMatches
  BY SMTT(30) DEF HandlerInv, Refs, Unfinished, CountMatches
<1> QED BY <1>1, HandlerInvInit, HandlerInvStep, PTL DEF Spec

\* The plugin's request is destroyed once, whichever way the batch ends.
THEOREM RequestDestroyedOnce == Spec => []DestroyedOnce
<1>1. HandlerInv => DestroyedOnce
  BY SMTT(30) DEF HandlerInv, Control, DestroyedOnce
<1> QED BY <1>1, HandlerInvInit, HandlerInvStep, PTL DEF Spec

\* The client gets one response, sent before the request is freed.
THEOREM ResponseWrittenOnce == Spec => []WrittenOnce
<1>1. HandlerInv => WrittenOnce
  BY DEF HandlerInv, Control, Output, WrittenOnce
<1> QED BY <1>1, HandlerInvInit, HandlerInvStep, PTL DEF Spec

\* No sub-request writes to a plugin request that has been destroyed.
THEOREM ParentStaysAlive == Spec => ParentAlive
<1>1. HandlerInv /\ [Next]_vars => [rq' # rq => data \in {"none", "live"}]_vars
  <2> SUFFICES ASSUME HandlerInv, Next, rq' # rq PROVE data \in {"none", "live"}
    OBVIOUS
  <2>1. phase \in {"INIT", "WAIT"} => data \in {"none", "live"}
    BY DEF HandlerInv, Control
  <2>2. CASE ReadBody \/ ReadMore \/ BodyArrives \/ BodyFails
    BY <2>1, <2>2 DEF ReadBody, ReadMore, BodyArrives, BodyFails, HandlerInv, Control
  <2>3. CASE RunPosted
    <3>1. CASE Head(posted) = 0
      <4>1. RunParent
        BY <2>3, <3>1 DEF RunPosted
      <4> QED BY <2>1, <4>1, Zenon DEF RunParent, CheckAgain, CheckError, CheckOk, Flush
    <3>2. CASE Head(posted) # 0
      <4>1. RunSub(Head(posted)) \/ RunFinalizer(Head(posted))
        BY <2>3, <3>2, SMTT(30) DEF RunPosted
      <4>2. RunSub(Head(posted)) /\ Head(posted) \in Ids
        BY <2>3, <3>2, <4>1 DEF RunFinalizer, RunPosted, HandlerInv, Shape, Ids
      <4>3. subs[Head(posted)].st \in {"created", "running"}
        BY <4>2, Zenon DEF RunSub
      <4> QED BY <2>1, <4>2, <4>3 DEF HandlerInv, Running
    <3> QED BY <3>1, <3>2
  <2>4. ASSUME NEW i \in Ids, SubTells(i) \/ SubEnds(i) PROVE data \in {"none", "live"}
    <3>1. subs[i].st = "running"
      BY <2>4 DEF SubTells, SubEnds
    <3> QED BY <2>1, <3>1 DEF HandlerInv, Running
  <2>5. CASE Over
    BY <2>5 DEF Over, vars
  <2> QED BY <2>2, <2>3, <2>4, <2>5 DEF Next
<1> QED BY <1>1, HandlerInvInit, HandlerInvStep, PTL DEF Spec, ParentAlive

-----------------------------------------------------------------------------
(* A reported error stops the batch *)

\* An error was reported in the round, and no sub-request has reset the code since.
ErrorStands ==
    (\E i \in Round : subs[i].told = "ERROR") /\ (\A i \in Round : subs[i].told # "OK")

\* While the handler waits, the parent's code is then an error.
Heeded ==
    /\ cur >= 1
    /\ phase = "INIT" => subs = <<>>
    /\ phase = "WAIT" /\ ErrorStands => rq.code = "ERROR"

\* A new round has reported nothing yet.
LEMMA DeliverHeeds ==
    ASSUME Shape, cur >= 1, NEW y \in Request, NEW d, NEW rest, Deliver(y, d, rest)
    PROVE  /\ Heeded'
           /\ y.rc # "AGAIN" => Len(subs') = Len(subs)
<1> DEFINE n == Len(y.subs)
           new == [i \in 1 .. n |-> [item |-> y.subs[i], st |-> "created", out |-> "none", told |-> "no"]]
<1>1. CASE y.rc = "AGAIN" /\ Start(y, d, rest)
  <2>1. CASE n < left
    <3>1. phase' = "WAIT" /\ subs' = subs \o new /\ cur' = Len(subs) + 1
      BY <1>1, <2>1, Zenon DEF Start
    <3>2. n \in Nat /\ subs \in Seq(Sr) /\ Len(subs) \in Nat
      BY SMTT(30) DEF Request, Rounds, Shape
    <3>3. new \in Seq(Sr) /\ Len(new) = n /\ \A i \in 1 .. n : new[i].told = "no"
      <4>1. \A i \in 1 .. n : y.subs[i] \in Name
        BY DEF Request, Rounds
      <4>2. \A i \in 1 .. n : [item |-> y.subs[i], st |-> "created", out |-> "none", told |-> "no"] \in Sr
        BY <4>1 DEF Sr
      <4> HIDE DEF n
      <4> QED BY <3>2, <4>2
    <3> HIDE DEF new, n
    <3>4. /\ Len(subs') = Len(subs) + n
          /\ \A i \in Len(subs) + 1 .. Len(subs) + n :
                i - Len(subs) \in 1 .. n /\ subs'[i] = new[i - Len(subs)]
      <4>1. Len(subs \o new) = Len(subs) + n
        BY <3>2, <3>3, SeqConcat, Zenon
      <4>2. \A i \in Len(subs) + 1 .. Len(subs) + n :
               i - Len(subs) \in 1 .. n /\ (subs \o new)[i] = new[i - Len(subs)]
        BY <3>2, <3>3
      <4> QED BY <3>1, <4>1, <4>2
    <3>5. \A i \in Round' : subs'[i].told = "no"
      BY <3>1, <3>3, <3>4 DEF Round
    <3>6. ~ErrorStands'
      BY <3>5, Zenon DEF ErrorStands
    <3>7. cur' >= 1
      BY <3>1, <3>2
    <3> QED BY <1>1, <3>1, <3>6, <3>7 DEF Heeded
  <2>2. CASE ~(n < left)
    <3>1. phase' = "ERROR" /\ cur' = cur
      BY <1>1, <2>2, Zenon DEF Start, Terminate
    <3> QED BY <1>1, <3>1 DEF Heeded
  <2> QED BY <2>1, <2>2
<1>2. CASE y.rc # "AGAIN" /\ phase' = "DONE" /\ subs' = subs /\ cur' = cur
  BY <1>2 DEF Heeded
<1> QED BY <1>1, <1>2, Zenon DEF Deliver

\* A sub-request's end leaves the codes alone.
LEMMA FinalizeHeeds ==
    ASSUME HandlerInv, Heeded, NEW i \in Ids, NEW o, NEW rest, Finalize(i, o, rest),
           rq' = rq \/ rq'.code = "ERROR", subs[i].st # "final"
    PROVE  Heeded' /\ Len(subs') = Len(subs)
<1>1. /\ subs' = [subs EXCEPT ![i].st = IF i = active THEN "final" ELSE "done",
                              ![i].out = IF o = "none" THEN @ ELSE o]
      /\ phase' = phase /\ cur' = cur
  BY Zenon DEF Finalize
<1>2. subs \in Seq(Sr) /\ Len(subs) \in Nat /\ cur \in Nat
  BY DEF HandlerInv, Shape
<1>3. Len(subs') = Len(subs)
  BY <1>1, <1>2
<1>4. \A j \in Ids : subs'[j].told = subs[j].told
  BY <1>1, <1>2 DEF Ids, Sr
<1>5. Round' = Round
  BY <1>1, <1>3 DEF Round
<1>6. Round \subseteq Ids /\ phase # "INIT"
  BY <1>2 DEF Heeded, Round, Ids
<1> QED BY <1>1, <1>3, <1>4, <1>5, <1>6, Zenon DEF Heeded, ErrorStands

\* A sub-request that runs on writes its code to its parent's.
LEMMA TellsHeeds ==
    ASSUME HandlerInv, Heeded, NEW i \in Ids, subs[i].st \in {"created", "running"},
           NEW x \in Sr, subs' = [subs EXCEPT ![i] = x], UNCHANGED <<phase, cur>>,
           \/ rq' = rq /\ x.told = subs[i].told
           \/ rq'.code = "ERROR"
           \/ x.told = "OK"
    PROVE  Heeded' /\ Len(subs') = Len(subs)
<1>1. subs \in Seq(Sr) /\ Len(subs) \in Nat /\ cur \in Nat
  BY DEF HandlerInv, Shape
<1>2. Len(subs') = Len(subs) /\ subs'[i] = x /\ \A j \in Ids \ {i} : subs'[j] = subs[j]
  BY <1>1 DEF Ids
<1>3. Round' = Round
  BY <1>2 DEF Round
<1>4. Round \subseteq Ids /\ phase = "WAIT" /\ i \in Round
  BY <1>1 DEF Heeded, Round, Ids, HandlerInv, Running
<1>5. CASE rq' = rq /\ x.told = subs[i].told
  <2>1. \A j \in Ids : subs'[j].told = subs[j].told
    BY <1>2, <1>5
  <2> QED BY <1>2, <1>3, <1>4, <1>5, <2>1, SMTT(30) DEF Heeded, ErrorStands
<1>6. CASE rq'.code = "ERROR" \/ x.told = "OK"
  BY <1>2, <1>3, <1>4, <1>6 DEF Heeded, ErrorStands
<1> QED BY <1>5, <1>6

\* Heeded holds at first: no subrequest has been made.
LEMMA HeededInit == Init => Heeded
BY DEF Init, Heeded

\* One step keeps Heeded, and starts no round while an error stands.
LEMMA HeededStep ==
    ASSUME HandlerInv, Heeded, Next
    PROVE  Heeded' /\ (ErrorStands => Len(subs') = Len(subs))
<1>1. Shape /\ rq \in Request /\ cur >= 1 /\ Len(subs) \in Nat /\ cur \in Nat
  BY DEF HandlerInv, Shape, Heeded
<1>2. ASSUME UNCHANGED <<rq, phase, subs, cur>> PROVE Heeded' /\ Len(subs') = Len(subs)
  BY <1>2 DEF Heeded, ErrorStands, Round
<1>3. ASSUME Terminate(subs) PROVE Heeded' /\ Len(subs') = Len(subs)
  <2>1. /\ phase' = "ERROR" /\ cur' = cur
        /\ subs' = [i \in DOMAIN subs |->
                      IF subs[i].st = "final" THEN subs[i] ELSE [subs[i] EXCEPT !.st = "killed"]]
    BY <1>3, Zenon DEF Terminate
  <2>2. Len(subs') = Len(subs)
    BY <1>1, <2>1 DEF Shape
  <2> QED BY <1>1, <2>1, <2>2 DEF Heeded
<1>4. ASSUME phase = "INIT", ProcessRequest PROVE Heeded' /\ ~ErrorStands
  <2>1. ~ErrorStands
    BY <1>1, <1>4 DEF Heeded, ErrorStands, Round
  <2>2. ASSUME NEW b \in Batches, NEW y, y = NewRequest(b.type, b.keys, b.slots),
               \/ Deliver(CreateSubRequestBody(y, 0), "live", <<>>)
               \/ Deliver([y EXCEPT !.code = "ERROR", !.rc = "ERROR"], "live", <<>>)
        PROVE  Heeded'
    <3>1. y \in Request
      BY <2>2, BatchesAssumption, NewRequestType DEF BatchesAssumption
    <3>2. CreateSubRequestBody(y, 0) \in Request /\ [y EXCEPT !.code = "ERROR", !.rc = "ERROR"] \in Request
      <4>1. CreateSubRequestBody(y, 0) \in Request
        BY <3>1, BodyType
      <4>2. [y EXCEPT !.code = "ERROR", !.rc = "ERROR"] \in Request
        BY <3>1, Zenon DEF Request
      <4> QED BY <4>1, <4>2
    <3> QED BY <1>1, <2>2, <3>2, DeliverHeeds, Zenon
  <2> QED BY <1>3, <1>4, <2>1, <2>2, Zenon DEF ProcessRequest
<1>5. CASE ReadBody \/ BodyArrives
  <2>1. phase = "INIT" /\ ProcessRequest
    BY <1>5 DEF ReadBody, BodyArrives, HandlerInv, Control
  <2> QED BY <1>4, <2>1
<1>6. CASE ReadMore
  BY <1>2, <1>6 DEF ReadMore
<1>7. CASE BodyFails
  BY <1>3, <1>7 DEF BodyFails
<1>8. CASE RunPosted /\ Head(posted) = 0
  <2>1. RunParent
    BY <1>8 DEF RunPosted
  <2>2. CASE CheckOk
    <3>1. PICK found \in 0 .. MaxFound : Deliver(CreateSubRequestBody(rq, found), data, Tail(posted))
      BY <2>2 DEF CheckOk
    <3> DEFINE y == CreateSubRequestBody(rq, found)
    <3>2. y \in Request
      BY <1>1, BodyType, SubrequestsAssumption DEF SubrequestsAssumption
    <3>3. ErrorStands => y.rc # "AGAIN"
      <4> SUFFICES ASSUME ErrorStands PROVE y.rc = "ERROR"
        OBVIOUS
      <4>1. rq.code = "ERROR"
        BY <2>2 DEF CheckOk, Heeded
      <4>2. y = Return(rq, "ERROR")
        BY <4>1 DEF CreateSubRequestBody
      <4> QED BY <1>1, <4>2 DEF Return, Request
    <3> HIDE DEF y
    <3> QED BY <1>1, <3>1, <3>2, <3>3, DeliverHeeds, Zenon DEF y
  <2>3. CASE CheckAgain \/ Flush \/ (UNCHANGED <<rq, phase, subs, cur>>)
    BY <1>2, <2>3, Zenon DEF CheckAgain, Flush
  <2>4. CASE CheckError
    BY <1>3, <2>4, Zenon DEF CheckError
  <2> QED BY <2>1, <2>2, <2>3, <2>4, Zenon DEF RunParent
<1>9. CASE RunPosted /\ Head(posted) # 0
  <2> DEFINE i == Head(posted)
  <2>1. i \in Ids /\ subs[i] \in Sr
    BY <1>9 DEF RunPosted, HandlerInv, Shape, Ids
  <2>2. RunSub(i) \/ RunFinalizer(i)
    BY <1>9 DEF RunPosted
  <2> HIDE DEF i
  <2>3. CASE RunFinalizer(i)
    BY <2>1, <2>3, FinalizeHeeds, Zenon DEF RunFinalizer
  <2>4. ASSUME subs[i].st \in {"created", "running"}, NEW t \in {"no", "ERROR"},
               rq' = IF t = "no" THEN rq ELSE [rq EXCEPT !.code = t],
               \/ /\ subs' = [subs EXCEPT ![i].st = "running", ![i].told = IF t = "no" THEN @ ELSE t]
                  /\ UNCHANGED <<phase, cur>>
               \/ \E o \in Outcomes \ {"ok"} : Finalize(i, o, Tail(posted))
        PROVE  Heeded' /\ Len(subs') = Len(subs)
    <3>1. (rq' = rq /\ t = "no") \/ (rq'.code = "ERROR" /\ t = "ERROR")
      <4>1. CASE t = "no"
        BY <2>4, <4>1
      <4>2. CASE t = "ERROR"
        BY <1>1, <2>4, <4>2 DEF Request
      <4> QED BY <4>1, <4>2
    <3>2. CASE \E o \in Outcomes \ {"ok"} : Finalize(i, o, Tail(posted))
      BY <2>1, <2>4, <3>1, <3>2, FinalizeHeeds, Zenon
    <3>3. CASE /\ subs' = [subs EXCEPT ![i].st = "running", ![i].told = IF t = "no" THEN @ ELSE t]
               /\ UNCHANGED <<phase, cur>>
      <4> DEFINE told == IF t = "no" THEN subs[i].told ELSE t
                 x == [subs[i] EXCEPT !.st = "running", !.told = told]
      <4>1. subs' = [subs EXCEPT ![i] = x]
        BY <3>3, Zenon
      <4>2. told \in {"no", "OK", "ERROR"} /\ (t = "no" => told = subs[i].told)
        BY <2>1 DEF Sr
      <4> HIDE DEF told
      <4>3. x \in Sr /\ x.told = told
        BY <2>1, <4>2, Zenon DEF Sr
      <4> HIDE DEF x
      <4> QED BY <2>1, <2>4, <3>1, <3>3, <4>1, <4>2, <4>3, TellsHeeds, Zenon
    <3> QED BY <2>4, <3>2, <3>3
  <2>5. CASE RunSub(i)
    BY <2>4, <2>5, Zenon DEF RunSub
  <2> QED BY <2>2, <2>3, <2>5
<1>10. ASSUME NEW i \in Ids, SubTells(i) PROVE Heeded' /\ Len(subs') = Len(subs)
  <2>1. PICK c \in {"OK", "ERROR"} : rq' = [rq EXCEPT !.code = c] /\ subs' = [subs EXCEPT ![i].told = c]
    BY <1>10, Zenon DEF SubTells
  <2> DEFINE x == [subs[i] EXCEPT !.told = c]
  <2>2. subs[i] \in Sr /\ subs[i].st = "running" /\ UNCHANGED <<phase, cur>>
    BY <1>10 DEF SubTells, HandlerInv, Shape, Ids
  <2>3. subs' = [subs EXCEPT ![i] = x] /\ x \in Sr /\ x.told = c
    BY <2>1, <2>2 DEF Sr
  <2>4. rq'.code = c
    BY <1>1, <2>1 DEF Request
  <2> HIDE DEF x
  <2> QED BY <2>2, <2>3, <2>4, TellsHeeds, Zenon
<1>11. ASSUME NEW i \in Ids, SubEnds(i) PROVE Heeded' /\ Len(subs') = Len(subs)
  <2>1. subs[i].st # "final" /\ rq' = rq /\ \E o \in Outcomes : Finalize(i, o, <<>>)
    BY <1>11 DEF SubEnds
  <2> QED BY <2>1, FinalizeHeeds, Zenon
<1>12. CASE Over
  BY <1>2, <1>12 DEF Over, vars
<1> QED BY <1>5, <1>6, <1>7, <1>8, <1>9, <1>10, <1>11, <1>12, SMTT(30) DEF Next

\* Whatever the batch, the limits and the order of events: after a sub-request
\* reported an error that none has reset since, no further round is issued.
THEOREM ErrorStopsBatch == Spec => StopsAfterError
<1>1. HandlerInv /\ Heeded /\ [Next]_vars => Heeded'
  <2>1. CASE UNCHANGED vars
    BY <2>1 DEF vars, nginx, Heeded, ErrorStands, Round
  <2> QED BY <2>1, HeededStep
<1>2. HandlerInv /\ Heeded /\ [Next]_vars => [ErrorStands => Len(subs') = Len(subs)]_vars
  BY HeededStep
<1> QED BY <1>1, <1>2, HeededInit, HandlerInvInit, HandlerInvStep, PTL
        DEF Spec, StopsAfterError, ErrorStands

=============================================================================
