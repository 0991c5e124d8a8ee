-------------------------- MODULE BatchSpecProofs --------------------------
(***************************************************************************)
(* The handler implements BatchSpec (ImplementsPromise), for every batch,  *)
(* limit and order of events.                                              *)
(*                                                                         *)
(* Besides HandlerInv, the refinement needs to know where the plugin       *)
(* stands: its list vector_sub tells how many keys and slots it has issued *)
(* (Planned), and these are the items of the sub-requests, each once       *)
(* (PlanInv).  Each create function returns the next items of the plan, or *)
(* ends with the plan complete, or fails (the ...Advances lemmas).         *)
(***************************************************************************)
EXTENDS QkSubrequestProofs

-----------------------------------------------------------------------------
(* The rounds of a batch *)

\* How many keys and how many slots have been issued: vector_sub holds the
\* rest of the list of the phase.
KeysDone(x) ==
    IF x.phase = "START" THEN 0 ELSE IF x.phase = "DONE" THEN x.keys ELSE x.keys - x.vec
SlotsDone(x) == IF x.phase = "DONE" THEN x.slots - x.vec ELSE 0

\* The plugin's request between two rounds, by the type of the batch.
Planned(x) ==
    /\ x \in Request
    /\ x.phase = "START" => x.subs = <<>> /\ x.vec = 0
    /\ x.type \in {"MGET", "MSET"} =>
         /\ x.keys = 0 /\ x.slots > 0 /\ x.phase \in {"START", "DONE"}
         /\ x.vec <= x.slots /\ (x.type = "MGET" => x.vec = 0)
    /\ x.type \in {"ZADD", "ZBATCHADD"} =>
         /\ x.keys > 0 /\ x.slots > 0 /\ x.phase \in {"START", "MSET", "DONE"}
         /\ x.vec <= IF x.phase = "DONE" THEN x.slots ELSE x.keys
         /\ x.type = "ZADD" => x.keys = 1 /\ (x.phase = "MSET" => x.vec = 0)
    /\ x.type \in {"ZRANGE", "BATCHZRANGE"} =>
         /\ x.keys > 0 /\ x.vec = 0 /\ x.phase \in {"START", "MGET", "DONE"}
         /\ x.phase # "DONE" => x.slots = 0

Same(x, y) == y.type = x.type /\ y.keys = x.keys /\ y.slots = x.slots

\* A round of k keys, a round of k slots.
KeyRound(x, y, k) ==
    /\ y.subs = Items("KEY", KeysDone(x), k)
    /\ KeysDone(y) = KeysDone(x) + k /\ KeysDone(y) <= y.keys
    /\ SlotsDone(x) = 0 /\ SlotsDone(y) = 0
    /\ y.type \in {"MSET", "ZADD", "ZBATCHADD"} => k <= BatchAddMax
    /\ Same(x, y)

SlotRound(x, y, k) ==
    /\ y.subs = Items("SLOT", SlotsDone(x), k)
    /\ SlotsDone(y) = SlotsDone(x) + k /\ SlotsDone(y) <= y.slots
    /\ KeysDone(x) = x.keys /\ KeysDone(y) = x.keys
    /\ y.type \in {"MSET", "ZADD", "ZBATCHADD"} => k <= MsetMax
    /\ y.type = x.type /\ y.keys = x.keys
    /\ y.slots = x.slots \/ (y.type \in {"ZRANGE", "BATCHZRANGE"} /\ x.slots = 0)

\* What a run of the plugin does to the plan.
Advances(x, y) ==
    \/ y.rc = "ERROR" /\ Same(x, y)
    \/ /\ y.rc = "OK" /\ Same(x, y) /\ x.phase # "START"
       /\ KeysDone(x) = x.keys /\ SlotsDone(x) = x.slots
    \/ /\ y.rc = "AGAIN" /\ Planned(y) /\ y.phase # "START"
       /\ \E k \in Nat \ {0} : KeyRound(x, y, k) \/ SlotRound(x, y, k)

\* y is x with the next names of its list, at most max, in its round.
Took(x, y, what, total, max, p) ==
    LET s == IF x.vec = 0 THEN total ELSE x.vec
    IN  /\ y.rc = "AGAIN" /\ y.phase = p /\ Same(x, y)
        /\ \E k \in Nat \ {0} : /\ k <= s /\ k <= max /\ y.vec = s - k
                                /\ y.subs = Items(what, total - s, k)

\* Take does what Took says, on a request z with x's command, lists and remaining count.
LEMMA TakeTook ==
    ASSUME NEW x \in Request, NEW z \in Request, z.vec = x.vec, Same(x, z),
           NEW what \in {"KEY", "SLOT"}, NEW total \in Nat, NEW max \in Nat \ {0},
           NEW p \in SubPhases, total > 0
    PROVE  Took(x, Take(z, what, total, max, p), what, total, max, p)
<1> DEFINE s == IF x.vec = 0 THEN total ELSE x.vec
           k == Least(s, max)
           it == Items(what, total - s, k)
           v == s - k
           y == [z EXCEPT !.subs = it, !.vec = v, !.phase = p, !.rc = "AGAIN"]
<1>1. s \in Nat /\ s > 0
  BY DEF Request
<1> HIDE DEF s
<1>2. k \in Nat \ {0} /\ k <= s /\ k <= max
  BY <1>1 DEF Least
<1>3. Take(z, what, total, max, p) = y
  BY <1>1 DEF Take, s
<1> HIDE DEF k, it, v
<1>4. y.subs = it /\ y.vec = v /\ y.phase = p /\ y.rc = "AGAIN" /\ Same(z, y)
  BY Zenon DEF Request, Same
<1> HIDE DEF y
<1>5. Same(x, y)
  BY <1>4 DEF Same
<1> QED BY <1>2, <1>3, <1>4, <1>5, Zenon DEF it, v, s, Took

\* Fields of a request that an update leaves alone.
LEMMA PhaseFields ==
    ASSUME NEW x \in Request, NEW p \in SubPhases
    PROVE  LET y == [x EXCEPT !.phase = p]
           IN  y \in Request /\ y.phase = p /\ y.code = x.code /\ y.vec = x.vec /\ y.subs = x.subs /\ Same(x, y)
<1>1. [x EXCEPT !.phase = p] \in Request
  BY PhaseType, Zenon
<1> QED BY <1>1, Zenon DEF Request, Same

\* A phase set with AGAIN leaves the command, its lists and the remaining count alone.
LEMMA AgainFields ==
    ASSUME NEW x \in Request, NEW p \in SubPhases
    PROVE  LET z == [x EXCEPT !.phase = p, !.rc = "AGAIN"]
           IN  z \in Request /\ z.phase = p /\ z.rc = "AGAIN" /\ z.vec = x.vec /\ Same(x, z)
<1>1. [x EXCEPT !.phase = p, !.rc = "AGAIN"] \in Request
  BY PhaseType, Zenon
<1> QED BY <1>1, Zenon DEF Request, Same

\* Entering a phase changes the phase alone.
LEMMA EnterFields ==
    ASSUME NEW x \in Request, NEW p \in SubPhases, x.phase \in {"START", p}
    PROVE  LET y == Enter(x, p)
           IN  y \in Request /\ y.phase = p /\ y.code = x.code /\ y.vec = x.vec /\ y.subs = x.subs /\ Same(x, y)
<1>1. CASE x.phase = "START"
  BY <1>1, PhaseFields, Zenon DEF Enter
<1>2. CASE x.phase # "START"
  BY <1>2 DEF Enter, Same
<1> QED BY <1>1, <1>2

\* A return changes the return code alone.
LEMMA ReturnFields ==
    ASSUME NEW x \in Request, NEW rc \in {"AGAIN", "OK", "ERROR"}
    PROVE  Return(x, rc).rc = rc /\ Same(x, Return(x, rc))
BY Zenon DEF Return, Request, Same

\* CreateSubRequestMset: the next slots of the list, or the end of it.
LEMMA MsetRound ==
    ASSUME NEW x \in Request, x.code = "OK", x.slots > 0,
           x.phase \in {"START", "MSET", "DONE"}
    PROVE  LET y == CreateSubRequestMset(x)
           IN  IF x.phase = "DONE" /\ x.vec = 0 THEN y.rc = "OK" /\ Same(x, y)
               ELSE Took(x, y, "SLOT", x.slots, MsetMax, "DONE")
<1> DEFINE y == CreateSubRequestMset(x)
<1>1. x.slots \in Nat /\ x.vec \in Nat /\ MsetMax \in Nat \ {0} /\ "MSET" \in SubPhases /\ "DONE" \in SubPhases
  BY LimitsAssumption DEF Request, LimitsAssumption, SubPhases
<1>2. ASSUME NEW z \in Request, z.phase = "MSET", z.vec = x.vec, Same(x, z)
      PROVE  Took(x, ProcessMset(z), "SLOT", x.slots, MsetMax, "DONE")
  <2>1. ProcessMset(z) = Take(z, "SLOT", x.slots, MsetMax, "DONE")
    BY <1>2 DEF ProcessMset, Same
  <2> QED BY <1>1, <1>2, <2>1, TakeTook
<1>3. CASE x.phase \in {"START", "MSET"}
  <2> DEFINE e == Enter(x, "MSET")
  <2>1. e \in Request /\ e.phase = "MSET" /\ e.vec = x.vec /\ Same(x, e)
    BY <1>1, <1>3, EnterFields
  <2> HIDE DEF e
  <2>2. Took(x, ProcessMset(e), "SLOT", x.slots, MsetMax, "DONE")
    BY <1>2, <2>1
  <2>3. y = ProcessMset(e)
    BY <2>2 DEF CreateSubRequestMset, e, Took
  <2> QED BY <1>3, <2>2, <2>3
<1>4. CASE x.phase = "DONE" /\ x.vec = 0
  <2>1. y = Return(x, "OK")
    <3>1. Enter(x, "MSET") = x
      BY <1>4 DEF Enter
    <3>2. ProcessMset(x) = Return(x, "OK")
      BY <1>4 DEF ProcessMset, CheckSubRequestStatus
    <3>3. Return(x, "OK").rc = "OK"
      BY ReturnFields
    <3> QED BY <3>1, <3>2, <3>3 DEF CreateSubRequestMset
  <2> QED BY <1>4, <2>1, ReturnFields
<1>5. CASE x.phase = "DONE" /\ x.vec # 0
  <2> DEFINE e == [x EXCEPT !.phase = "MSET", !.rc = "AGAIN"]
  <2>1. e \in Request /\ e.phase = "MSET" /\ e.rc = "AGAIN" /\ e.vec = x.vec /\ Same(x, e)
    BY <1>1, AgainFields, Zenon
  <2>2. y = ProcessMset(e)
    <3>1. Enter(x, "MSET") = x
      BY <1>5 DEF Enter
    <3>2. ProcessMset(x) = e
      BY <1>1, <1>5 DEF ProcessMset, CheckSubRequestStatus
    <3> HIDE DEF e
    <3> QED BY <2>1, <3>1, <3>2 DEF CreateSubRequestMset
  <2> HIDE DEF e
  <2> QED BY <1>2, <1>5, <2>1, <2>2
<1> QED BY <1>3, <1>4, <1>5

\* CreateSubRequestZfixedsetAdd: the next keys, before the first slots.
LEMMA AddKeys ==
    ASSUME NEW x \in Request, NEW z \in Request, z.vec = x.vec, Same(x, z),
           z.phase = "ZADD", x.keys > 0
    PROVE  Took(x, CreateSubRequestZfixedsetAdd(z), "KEY", x.keys, BatchAddMax, "MSET")
<1>1. x.keys \in Nat /\ BatchAddMax \in Nat \ {0} /\ "MSET" \in SubPhases
  BY LimitsAssumption DEF Request, LimitsAssumption, SubPhases
<1>2. CreateSubRequestZfixedsetAdd(z) = Take(z, "KEY", x.keys, BatchAddMax, "MSET")
  BY DEF CreateSubRequestZfixedsetAdd, Enter, Same
<1> QED BY <1>1, <1>2, TakeTook

\* Clearing the round changes the round alone.
LEMMA EmptyFields ==
    ASSUME NEW x \in Request
    PROVE  LET y == [x EXCEPT !.subs = <<>>]
           IN  y \in Request /\ y.phase = x.phase /\ y.code = x.code /\ y.vec = x.vec /\ Same(x, y)
<1>1. [x EXCEPT !.subs = <<>>] \in Request
  BY EmptyRound
<1> QED BY <1>1, Zenon DEF Request, Same

\* Then the slots.
LEMMA AddSlots ==
    ASSUME NEW x \in Request, x.code = "OK", x.slots > 0,
           (x.phase = "MSET" /\ x.vec = 0) \/ x.phase = "DONE"
    PROVE  LET y == CreateSubRequestZfixedsetAdd(x)
           IN  IF x.phase = "DONE" /\ x.vec = 0 THEN y.rc = "OK" /\ Same(x, y)
               ELSE Took(x, y, "SLOT", x.slots, MsetMax, "DONE")
<1>1. CASE x.phase = "DONE"
  <2>1. CreateSubRequestZfixedsetAdd(x) = CreateSubRequestMset(x)
    BY <1>1 DEF CreateSubRequestZfixedsetAdd, Enter
  <2> QED BY <1>1, <2>1, MsetRound
<1>2. CASE x.phase = "MSET" /\ x.vec = 0
  <2> DEFINE z == [x EXCEPT !.subs = <<>>]
  <2>1. z \in Request /\ z.phase = "MSET" /\ z.code = "OK" /\ z.vec = 0 /\ Same(x, z)
    BY <1>2, EmptyFields
  <2>2. CreateSubRequestZfixedsetAdd(x) = CreateSubRequestMset(z)
    <3>1. Enter(x, "ZADD") = x /\ CheckSubRequestStatus(x) /\ ~(z.vec > 0)
      BY <1>2, <2>1 DEF Enter, CheckSubRequestStatus
    <3> QED BY <1>2, <3>1 DEF CreateSubRequestZfixedsetAdd
  <2> HIDE DEF z
  <2>3. z.slots = x.slots
    BY <2>1 DEF Same
  <2>4. Took(z, CreateSubRequestMset(z), "SLOT", x.slots, MsetMax, "DONE")
    BY <2>1, <2>3, MsetRound
  <2>5. Took(x, CreateSubRequestMset(z), "SLOT", x.slots, MsetMax, "DONE")
    BY <1>2, <2>1, <2>4 DEF Took, Same
  <2> QED BY <1>2, <2>2, <2>5
<1> QED BY <1>1, <1>2

\* Such rounds advance the plan.
LEMMA KeysAdvance ==
    ASSUME NEW x, Planned(x), x.type \in {"ZADD", "ZBATCHADD"}, NEW y \in Request,
           x.phase = "START" \/ (x.phase = "MSET" /\ x.vec > 0),
           Took(x, y, "KEY", x.keys, BatchAddMax, "MSET")
    PROVE  Advances(x, y)
<1> DEFINE s == IF x.vec = 0 THEN x.keys ELSE x.vec
<1>1. y.rc = "AGAIN" /\ y.phase = "MSET" /\ y.type = x.type /\ y.keys = x.keys /\ y.slots = x.slots
  BY DEF Took, Same
<1>2. PICK k \in Nat \ {0} : /\ k <= s /\ k <= BatchAddMax /\ y.vec = s - k
                            /\ y.subs = Items("KEY", x.keys - s, k)
  BY DEF Took
<1>3. x.keys \in Nat /\ x.vec \in Nat /\ x.slots \in Nat /\ x.vec <= x.keys /\ x.keys > 0 /\ x.slots > 0
      /\ (x.phase = "START" => x.vec = 0) /\ (x.type = "ZADD" => x.keys = 1)
  BY DEF Planned, Request
<1>4. KeysDone(x) = x.keys - s /\ SlotsDone(x) = 0
  BY <1>3 DEF KeysDone, SlotsDone
<1>5. KeysDone(y) = x.keys - (s - k) /\ SlotsDone(y) = 0
  BY <1>1, <1>2 DEF KeysDone, SlotsDone
<1>6. s \in Nat /\ s <= x.keys
  BY <1>3
<1>7. KeyRound(x, y, k)
  <2> HIDE DEF s
  <2> QED BY <1>1, <1>2, <1>3, <1>4, <1>5, <1>6, SMTT(30) DEF KeyRound, Same
<1>8. Planned(y)
  <2> HIDE DEF s
  <2> QED BY <1>1, <1>2, <1>3, <1>6, SMTT(30) DEF Planned
<1> QED BY <1>1, <1>7, <1>8 DEF Advances

\* Taking the next slots of a write advances it, from each phase in which slots are taken.
LEMMA SlotsAdvance ==
    ASSUME NEW x, Planned(x), x.type \in {"MSET", "ZADD", "ZBATCHADD"}, NEW y \in Request,
           \/ x.phase = "START" /\ x.type = "MSET"
           \/ x.phase = "MSET" /\ x.vec = 0
           \/ x.phase = "DONE" /\ x.vec # 0,
           Took(x, y, "SLOT", x.slots, MsetMax, "DONE")
    PROVE  Advances(x, y)
<1> DEFINE s == IF x.vec = 0 THEN x.slots ELSE x.vec
<1>1. y.rc = "AGAIN" /\ y.phase = "DONE" /\ y.type = x.type /\ y.keys = x.keys /\ y.slots = x.slots
  BY DEF Took, Same
<1>2. PICK k \in Nat \ {0} : /\ k <= s /\ k <= MsetMax /\ y.vec = s - k
                            /\ y.subs = Items("SLOT", x.slots - s, k)
  BY DEF Took
<1>3. x.keys \in Nat /\ x.vec \in Nat /\ x.slots \in Nat /\ x.slots > 0
      /\ (x.phase = "DONE" => x.vec <= x.slots) /\ (x.phase = "START" => x.vec = 0)
      /\ (IF x.type = "MSET" THEN x.keys = 0 ELSE x.keys > 0)
      /\ (x.type = "ZADD" => x.keys = 1)
  BY DEF Planned, Request
<1>4. SlotsDone(x) = x.slots - s /\ KeysDone(x) = x.keys
  BY <1>3 DEF KeysDone, SlotsDone
<1>5. SlotsDone(y) = x.slots - (s - k) /\ KeysDone(y) = x.keys
  BY <1>1, <1>2 DEF KeysDone, SlotsDone
<1>6. s \in Nat /\ s <= x.slots
  BY <1>3
<1>7. SlotRound(x, y, k)
  <2> HIDE DEF s
  <2> QED BY <1>1, <1>2, <1>3, <1>4, <1>5, <1>6, SMTT(30) DEF SlotRound
<1>8. Planned(y)
  <2> HIDE DEF s
  <2> QED BY <1>1, <1>2, <1>3, <1>6, SMTT(30) DEF Planned
<1> QED BY <1>1, <1>7, <1>8 DEF Advances

\* An OK after the last slot advances the request: there is nothing left to issue.
LEMMA EndAdvances ==
    ASSUME NEW x, Planned(x), NEW y, x.phase = "DONE", x.vec = 0, y.rc = "OK", Same(x, y)
    PROVE  Advances(x, y)
BY DEF Advances, KeysDone, SlotsDone, Planned, Request

\* CreateSubRequestMget: every slot in one round.
LEMMA MgetAdvances ==
    ASSUME NEW x, Planned(x), x.type = "MGET", x.code = "OK"
    PROVE  Advances(x, CreateSubRequestMget(x))
<1> DEFINE y == CreateSubRequestMget(x)
<1>1. x \in Request /\ y \in Request /\ x.slots \in Nat /\ x.slots > 0 /\ x.keys = 0 /\ x.vec = 0
      /\ x.phase \in {"START", "DONE"} /\ (x.phase = "START" => x.subs = <<>>)
  BY MgetType DEF Planned, Request
<1>2. CASE x.phase = "START"
  <2> DEFINE e == Enter(x, "MGET")
             it == e.subs \o Items("SLOT", 0, e.slots)
  <2>1. e \in Request /\ e.phase = "MGET" /\ e.vec = 0 /\ e.subs = <<>> /\ Same(x, e)
    BY <1>1, <1>2, EnterFields DEF SubPhases
  <2> HIDE DEF e
  <2>2. y = [e EXCEPT !.subs = it, !.phase = "DONE", !.rc = "AGAIN"]
    BY <2>1 DEF CreateSubRequestMget, e
  <2>3. it = Items("SLOT", 0, x.slots)
    <3>1. e.slots = x.slots
      BY <2>1 DEF Same
    <3>2. Items("SLOT", 0, x.slots) \in Rounds
      BY <1>1, ItemsType
    <3> QED BY <2>1, <3>1, <3>2 DEF Rounds
  <2> HIDE DEF it
  <2>4. y.subs = it /\ y.phase = "DONE" /\ y.rc = "AGAIN" /\ y.vec = e.vec /\ Same(e, y)
    BY <2>1, <2>2, Zenon DEF Request, Same
  <2> HIDE DEF y
  <2>5. y.type = "MGET" /\ y.keys = 0 /\ y.slots = x.slots /\ y.vec = 0
    BY <1>1, <2>1, <2>4 DEF Same
  <2>6. SlotRound(x, y, x.slots)
    BY <1>1, <1>2, <2>3, <2>4, <2>5, SMTT(30) DEF SlotRound, SlotsDone, KeysDone
  <2>7. Planned(y)
    BY <1>1, <2>4, <2>5, SMTT(30) DEF Planned
  <2>8. Advances(x, y)
    BY <1>1, <2>4, <2>6, <2>7 DEF Advances
  <2> QED BY <2>8 DEF y
<1>3. CASE x.phase = "DONE"
  <2>1. y = Return(x, "OK")
    BY <1>3 DEF CreateSubRequestMget, Enter, CheckSubRequestStatus
  <2> QED BY <1>1, <1>3, <2>1, ReturnFields, EndAdvances
<1> QED BY <1>1, <1>2, <1>3

\* CreateSubRequestMset advances a request that has met no error.
LEMMA MsetAdvances ==
    ASSUME NEW x, Planned(x), x.type = "MSET", x.code = "OK"
    PROVE  Advances(x, CreateSubRequestMset(x))
<1>1. x \in Request /\ CreateSubRequestMset(x) \in Request /\ x.slots > 0 /\ x.phase \in {"START", "DONE"}
  BY MsetType DEF Planned
<1>2. CASE x.phase = "DONE" /\ x.vec = 0
  BY <1>1, <1>2, MsetRound, EndAdvances
<1>3. CASE ~(x.phase = "DONE" /\ x.vec = 0)
  BY <1>1, <1>3, MsetRound, SlotsAdvance
<1> QED BY <1>2, <1>3

\* CreateSubRequestZfixedsetAdd advances a request that has met no error; of a batch
\* add it is called for the slots alone.
LEMMA AddAdvances ==
    ASSUME NEW x, Planned(x), x.type \in {"ZADD", "ZBATCHADD"}, x.code = "OK"
    PROVE  Advances(x, CreateSubRequestZfixedsetAdd(x)) \/ (x.type = "ZBATCHADD" /\ x.phase # "DONE" /\ ~(x.phase = "MSET" /\ x.vec = 0))
<1>1. /\ x \in Request /\ CreateSubRequestZfixedsetAdd(x) \in Request /\ x.slots > 0 /\ x.keys > 0
      /\ x.phase \in {"START", "MSET", "DONE"} /\ (x.type = "ZADD" /\ x.phase = "MSET" => x.vec = 0)
  BY ZaddType DEF Planned
<1>2. CASE x.phase = "DONE" /\ x.vec = 0
  BY <1>1, <1>2, AddSlots, EndAdvances
<1>3. CASE (x.phase = "DONE" /\ x.vec # 0) \/ (x.phase = "MSET" /\ x.vec = 0)
  BY <1>1, <1>3, AddSlots, SlotsAdvance
<1>4. CASE x.type = "ZADD" /\ x.phase = "START"
  <2> DEFINE e == Enter(x, "ZADD")
  <2>1. e \in Request /\ e.phase = "ZADD" /\ e.vec = x.vec /\ Same(x, e)
    BY <1>1, <1>4, EnterFields DEF SubPhases
  <2>2. CreateSubRequestZfixedsetAdd(x) = CreateSubRequestZfixedsetAdd(e)
    <3>1. Enter(e, "ZADD") = e
      BY <2>1 DEF Enter
    <3> QED BY <3>1, Zenon DEF CreateSubRequestZfixedsetAdd
  <2> HIDE DEF e
  <2>3. Took(x, CreateSubRequestZfixedsetAdd(x), "KEY", x.keys, BatchAddMax, "MSET")
    BY <1>1, <2>1, <2>2, AddKeys
  <2> QED BY <1>1, <1>4, <2>3, KeysAdvance
<1> QED BY <1>1, <1>2, <1>3, <1>4

\* CreateSubRequestZfixedsetBatchAdd advances a request that has met no error.
LEMMA BatchAddAdvances ==
    ASSUME NEW x, Planned(x), x.type = "ZBATCHADD", x.code = "OK"
    PROVE  Advances(x, CreateSubRequestZfixedsetBatchAdd(x))
<1> DEFINE y == CreateSubRequestZfixedsetBatchAdd(x)
<1>1. /\ x \in Request /\ y \in Request /\ x.slots > 0 /\ x.keys > 0 /\ x.vec \in Nat
      /\ x.phase \in {"START", "MSET", "DONE"}
  BY BatchAddType DEF Planned, Request
<1>2. ASSUME NEW z \in Request, z.phase = "ZBATCHADD", z.vec = x.vec, Same(x, z)
      PROVE  Took(x, ProcessZfixedsetBatchAdd(z), "KEY", x.keys, BatchAddMax, "MSET")
  <2> DEFINE e == [z EXCEPT !.phase = "ZADD"]
  <2>1. e \in Request /\ e.phase = "ZADD" /\ e.vec = x.vec /\ Same(x, e)
    <3>1. "ZADD" \in SubPhases
      BY DEF SubPhases
    <3>2. e \in Request /\ e.phase = "ZADD" /\ e.vec = z.vec /\ Same(z, e)
      BY <1>2, <3>1, PhaseFields, Zenon
    <3> HIDE DEF e
    <3> QED BY <1>2, <3>2 DEF Same
  <2>2. ProcessZfixedsetBatchAdd(z) = CreateSubRequestZfixedsetAdd(e)
    BY <1>2 DEF ProcessZfixedsetBatchAdd
  <2> HIDE DEF e
  <2> QED BY <1>1, <2>1, <2>2, AddKeys
<1>3. CASE x.phase = "START"
  <2> DEFINE e == Enter(x, "ZBATCHADD")
  <2>1. e \in Request /\ e.phase = "ZBATCHADD" /\ e.vec = x.vec /\ Same(x, e)
    BY <1>1, <1>3, EnterFields DEF SubPhases
  <2> HIDE DEF e
  <2>2. Took(x, ProcessZfixedsetBatchAdd(e), "KEY", x.keys, BatchAddMax, "MSET")
    BY <1>2, <2>1
  <2>3. y = ProcessZfixedsetBatchAdd(e)
    BY <2>2 DEF CreateSubRequestZfixedsetBatchAdd, e, Took
  <2> QED BY <1>1, <1>3, <2>2, <2>3, KeysAdvance
<1>4. CASE x.phase = "MSET" /\ x.vec > 0
  <2> DEFINE z == [x EXCEPT !.subs = <<>>]
             e == [z EXCEPT !.phase = "ZBATCHADD", !.rc = "AGAIN"]
  <2>1. z \in Request /\ z.vec = x.vec /\ Same(x, z)
    BY <1>1, EmptyFields
  <2>2. e \in Request /\ e.phase = "ZBATCHADD" /\ e.rc = "AGAIN" /\ e.vec = x.vec /\ Same(x, e)
    <3> HIDE DEF z
    <3>1. "ZBATCHADD" \in SubPhases
      BY DEF SubPhases
    <3>2. e \in Request /\ e.phase = "ZBATCHADD" /\ e.rc = "AGAIN" /\ e.vec = z.vec /\ Same(z, e)
      BY <2>1, <3>1, AgainFields, Zenon
    <3> HIDE DEF e
    <3> QED BY <2>1, <3>2 DEF Same
  <2>3. CreateSubRequestZfixedsetAdd(x) = e
    <3>1. Enter(x, "ZADD") = x /\ CheckSubRequestStatus(x) /\ z.vec > 0
      BY <1>4, <2>1 DEF Enter, CheckSubRequestStatus
    <3> QED BY <1>4, <3>1, Zenon DEF CreateSubRequestZfixedsetAdd
  <2>4. ProcessZfixedsetBatchAdd(Enter(x, "ZBATCHADD")) = e
    BY <1>4, <2>3 DEF ProcessZfixedsetBatchAdd, Enter
  <2> HIDE DEF e
  <2>5. y = ProcessZfixedsetBatchAdd(e)
    BY <2>2, <2>4 DEF CreateSubRequestZfixedsetBatchAdd
  <2> QED BY <1>1, <1>2, <1>4, <2>2, <2>5, KeysAdvance
<1>5. CASE x.phase = "DONE" \/ (x.phase = "MSET" /\ x.vec = 0)
  <2> DEFINE e == CreateSubRequestZfixedsetAdd(x)
  <2>1. ProcessZfixedsetBatchAdd(Enter(x, "ZBATCHADD")) = e
    BY <1>5 DEF ProcessZfixedsetBatchAdd, Enter
  <2>2. e.rc = "OK" \/ e.phase = "DONE"
    BY <1>1, <1>5, AddSlots DEF Took
  <2>3. Advances(x, e)
    BY <1>5, AddAdvances
  <2> HIDE DEF e
  <2>4. y = e
    BY <2>1, <2>2, SMTT(30) DEF CreateSubRequestZfixedsetBatchAdd
  <2> QED BY <2>3, <2>4
<1> QED BY <1>1, <1>3, <1>4, <1>5

\* CreateSubRequestZfixedsetGetByScore: every key, then every slot found.
LEMMA RangeStart ==
    ASSUME NEW x, Planned(x), x.type \in {"ZRANGE", "BATCHZRANGE"}, x.phase = "START",
           NEW z \in Request, z.phase = "ZRANGE", z.vec = x.vec, Same(x, z), NEW found \in Nat
    PROVE  Advances(x, CreateSubRequestZfixedsetGetByScore(z, found))
<1> DEFINE y == CreateSubRequestZfixedsetGetByScore(z, found)
           it == Items("KEY", 0, z.keys)
<1>1. x.keys \in Nat /\ x.keys > 0 /\ x.vec = 0 /\ x.slots = 0 /\ y \in Request
  BY RangeType, Zenon DEF Planned, Request
<1>2. y = [z EXCEPT !.subs = it, !.phase = "MGET", !.rc = "AGAIN"]
  BY DEF CreateSubRequestZfixedsetGetByScore, Enter
<1> HIDE DEF it
<1>3. y.subs = it /\ y.phase = "MGET" /\ y.rc = "AGAIN" /\ y.vec = z.vec /\ Same(z, y)
  BY <1>2, Zenon DEF Request, Same
<1> HIDE DEF y
<1>4. y.type = x.type /\ y.keys = x.keys /\ y.slots = 0 /\ y.vec = 0 /\ z.keys = x.keys
  BY <1>1, <1>3 DEF Same
<1>5. KeyRound(x, y, x.keys)
  BY <1>1, <1>3, <1>4 DEF KeyRound, KeysDone, SlotsDone, Same, it
<1>6. Planned(y)
  BY <1>1, <1>3, <1>4, SMTT(30) DEF Planned
<1>7. Advances(x, y)
  BY <1>1, <1>3, <1>5, <1>6 DEF Advances
<1> QED BY <1>7 DEF y

\* CreateSubRequestZfixedsetGetByScore, after its keys, advances either kind of range.
LEMMA RangeAfter ==
    ASSUME NEW x, Planned(x), x.type \in {"ZRANGE", "BATCHZRANGE"}, x.phase \in {"MGET", "DONE"},
           x.code = "OK", NEW found \in Nat
    PROVE  Advances(x, CreateSubRequestZfixedsetGetByScore(x, found))
<1> DEFINE y == CreateSubRequestZfixedsetGetByScore(x, found)
           z == [x EXCEPT !.subs = <<>>, !.slots = found]
<1>1. /\ x \in Request /\ y \in Request /\ x.vec = 0 /\ x.keys \in Nat /\ x.keys > 0
      /\ (x.phase = "MGET" => x.slots = 0)
  BY RangeType, Zenon DEF Planned, Request
<1>2. Enter(x, "ZRANGE") = x /\ CheckSubRequestStatus(x)
  BY DEF Enter, CheckSubRequestStatus
<1>3. /\ z \in Request /\ z.phase = x.phase /\ z.vec = 0 /\ z.subs = <<>> /\ z.slots = found
      /\ z.type = x.type /\ z.keys = x.keys /\ z.code = "OK"
  <2>1. <<>> \in Rounds
    BY DEF Rounds
  <2> QED BY <1>1, <2>1, Zenon DEF Request
<1>4. CASE x.phase = "DONE"
  <2>1. y = Return(x, "OK")
    BY <1>2, <1>4 DEF CreateSubRequestZfixedsetGetByScore
  <2> QED BY <1>1, <1>4, <2>1, ReturnFields, EndAdvances
<1>5. CASE x.phase = "MGET" /\ found = 0
  <2> DEFINE w == [z EXCEPT !.phase = "DONE"]
  <2>1. w \in Request /\ w.code = "OK" /\ Same(z, w)
    <3> HIDE DEF z
    <3>1. "DONE" \in SubPhases
      BY DEF SubPhases
    <3> QED BY <1>3, <3>1, PhaseFields, Zenon
  <2>2. y = Return(w, "OK")
    <3>1. y = Return(w, IF CheckSubRequestStatus(w) THEN "OK" ELSE "ERROR")
      <4>1. x.phase = "MGET" /\ ~(found > 0)
        BY <1>5
      <4> QED BY <1>2, <4>1, Zenon DEF CreateSubRequestZfixedsetGetByScore
    <3> HIDE DEF y, w
    <3> QED BY <2>1, <3>1 DEF CheckSubRequestStatus
  <2> HIDE DEF w
  <2>3. y.rc = "OK" /\ Same(w, y)
    BY <2>1, <2>2, ReturnFields
  <2> HIDE DEF y, z
  <2>4. Same(x, y)
    BY <1>1, <1>3, <1>5, <2>1, <2>3, SMTT(30) DEF Same
  <2>5. Advances(x, y)
    BY <1>1, <1>5, <2>3, <2>4 DEF Advances, KeysDone, SlotsDone
  <2> QED BY <2>5 DEF y
<1>6. CASE x.phase = "MGET" /\ found > 0
  <2> DEFINE it == z.subs \o Items("SLOT", 0, z.slots)
  <2>1. y = CreateSubRequestMget(z)
    BY <1>2, <1>6, Zenon DEF CreateSubRequestZfixedsetGetByScore
  <2> HIDE DEF y, z
  <2>2. y = [z EXCEPT !.subs = it, !.phase = "DONE", !.rc = "AGAIN"]
    BY <1>3, <1>6, <2>1, Zenon DEF CreateSubRequestMget, Enter
  <2>3. it = Items("SLOT", 0, found)
    <3>1. Items("SLOT", 0, found) \in Rounds
      BY ItemsType
    <3> QED BY <1>3, <3>1 DEF Rounds
  <2> HIDE DEF it
  <2>4. y.subs = it /\ y.phase = "DONE" /\ y.rc = "AGAIN" /\ y.vec = z.vec /\ Same(z, y)
    BY <1>3, <2>2, Zenon DEF Request, Same
  <2>5. y.type = x.type /\ y.keys = x.keys /\ y.slots = found /\ y.vec = 0
    BY <1>3, <2>4, SMTT(30) DEF Same
  <2>6. SlotRound(x, y, found)
    BY <1>1, <1>6, <2>3, <2>4, <2>5, SMTT(30) DEF SlotRound, KeysDone, SlotsDone
  <2>7. Planned(y)
    <3>1. y \in Request
      BY <1>1 DEF y
    <3> QED BY <1>1, <2>4, <2>5, <3>1 DEF Planned
  <2>8. Advances(x, y)
    BY <1>6, <2>4, <2>6, <2>7 DEF Advances
  <2> QED BY <2>8 DEF y
<1> QED BY <1>4, <1>5, <1>6

\* CreateSubRequestZfixedsetGetByScore advances a request that has met no error.
LEMMA RangeAdvances ==
    ASSUME NEW x, Planned(x), x.type = "ZRANGE", x.code = "OK", NEW found \in Nat
    PROVE  Advances(x, CreateSubRequestZfixedsetGetByScore(x, found))
<1>1. x \in Request /\ x.phase \in {"START", "MGET", "DONE"}
  BY DEF Planned
<1>2. CASE x.phase = "START"
  <2> DEFINE e == Enter(x, "ZRANGE")
  <2>1. e \in Request /\ e.phase = "ZRANGE" /\ e.vec = x.vec /\ Same(x, e)
    BY <1>1, <1>2, EnterFields DEF SubPhases
  <2>2. CreateSubRequestZfixedsetGetByScore(x, found) = CreateSubRequestZfixedsetGetByScore(e, found)
    <3>1. Enter(e, "ZRANGE") = e
      BY <2>1 DEF Enter
    <3> QED BY <3>1, Zenon DEF CreateSubRequestZfixedsetGetByScore
  <2> HIDE DEF e
  <2> QED BY <1>2, <2>1, <2>2, RangeStart
<1> QED BY <1>1, <1>2, RangeAfter

\* CreateSubRequestZfixedsetBatchGetByScore advances a request that has met no error.
LEMMA BatchRangeAdvances ==
    ASSUME NEW x, Planned(x), x.type = "BATCHZRANGE", x.code = "OK", NEW found \in Nat
    PROVE  Advances(x, CreateSubRequestZfixedsetBatchGetByScore(x, found))
<1>1. x \in Request /\ x.phase \in {"START", "MGET", "DONE"}
  BY DEF Planned
<1>2. CASE x.phase = "START"
  <2> DEFINE e == Enter(x, "BATCHZRANGE")
             z == [e EXCEPT !.phase = "ZRANGE"]
  <2>1. e \in Request /\ e.phase = "BATCHZRANGE" /\ e.vec = x.vec /\ Same(x, e)
    BY <1>1, <1>2, EnterFields DEF SubPhases
  <2>2. CreateSubRequestZfixedsetBatchGetByScore(x, found) = CreateSubRequestZfixedsetGetByScore(z, found)
    BY <2>1 DEF CreateSubRequestZfixedsetBatchGetByScore
  <2> HIDE DEF e
  <2>3. z \in Request /\ z.phase = "ZRANGE" /\ z.vec = e.vec /\ Same(e, z)
    <3>1. "ZRANGE" \in SubPhases
      BY DEF SubPhases
    <3> QED BY <2>1, <3>1, PhaseFields, Zenon
  <2> HIDE DEF z
  <2>4. z.vec = x.vec /\ Same(x, z)
    BY <2>1, <2>3 DEF Same
  <2> QED BY <1>2, <2>2, <2>3, <2>4, RangeStart, SMTT(30)
<1>3. CASE x.phase \in {"MGET", "DONE"}
  <2>1. CreateSubRequestZfixedsetBatchGetByScore(x, found) = CreateSubRequestZfixedsetGetByScore(x, found)
    BY <1>3, SMTT(30) DEF CreateSubRequestZfixedsetBatchGetByScore, Enter
  <2> QED BY <1>3, <2>1, RangeAfter
<1> QED BY <1>1, <1>2, <1>3, SMTT(30)

\* Whatever the type, a run of the plugin issues the next part of the batch, or
\* ends it when all of it is issued.
LEMMA BodyAdvances ==
    ASSUME NEW x, Planned(x), NEW found \in Nat
    PROVE  Advances(x, CreateSubRequestBody(x, found))
<1>1. x \in Request /\ x.code \in {"OK", "ERROR"} /\ x.type \in CommandTypes
  BY DEF Planned, Request
<1>2. CASE x.code # "OK"
  <2>1. CreateSubRequestBody(x, found) = Return(x, "ERROR")
    BY <1>2 DEF CreateSubRequestBody
  <2> QED BY <1>1, <2>1, ReturnFields DEF Advances
<1>3. CASE x.code = "OK"
  <2>1. CASE x.type = "ZADD"
    <3>1. CreateSubRequestBody(x, found) = CreateSubRequestZfixedsetAdd(x)
      BY <1>3, <2>1 DEF CreateSubRequestBody
    <3> QED BY <1>3, <2>1, <3>1, AddAdvances
  <2> QED BY SMTT(30), <1>1, <1>3, <2>1, MgetAdvances, MsetAdvances, BatchAddAdvances, RangeAdvances,
             BatchRangeAdvances DEF CreateSubRequestBody, CommandTypes
<1> QED BY <1>2, <1>3

-----------------------------------------------------------------------------
(* The promise *)

\* What BatchSpec sees of the state.
Asked ==
    IF subs = <<>> THEN [type |-> "none", keys |-> 0, slots |-> 0]
    ELSE [type |-> rq.type, keys |-> rq.keys, slots |-> rq.slots]
Listed == {subs[i].item : i \in Ids}
Finished == {subs[i].item : i \in {j \in Ids : subs[j].out # "none"}}
Said == IF phase = "ERROR" THEN "aborted" ELSE answer

Stutters == UNCHANGED <<Asked, Listed, Finished, Said>>

\* A step that changes none of the four is a stutter of the promise.
LEMMA MapStutters == Stutters => UNCHANGED Promise!vars
BY Zenon DEF Stutters, Asked, Listed, Finished, Said, Promise!vars

\* A listed item that finishes is the promise's End.
LEMMA MapEnds ==
    ASSUME NEW i \in Listed \ Finished, Said = "none",
           Finished' = Finished \cup {i}, UNCHANGED <<Asked, Listed, Said>>
    PROVE  Promise!Next
BY Zenon DEF Asked, Listed, Finished, Said, Promise!Next, Promise!End

\* The answer ok, once all the keys and slots have been listed and finished, is the
\* promise's Succeed.
LEMMA MapSucceeds ==
    ASSUME Said = "none", subs # <<>>, Finished = Listed, Said' = "ok",
           Listed = [of : {"KEY"}, n : 1 .. rq.keys] \cup [of : {"SLOT"}, n : 1 .. rq.slots],
           rq.type # "none",
           UNCHANGED <<Asked, Listed, Finished>>
    PROVE  Promise!Next
<1>1. Promise!Succeed
BY Zenon DEF Asked, Listed, Finished, Said, Promise!Succeed, Promise!NoBatch, Promise!All, Promise!KeyItems, Promise!SlotItems
<1> QED BY <1>1 DEF Promise!Next

\* The instance's Cardinality is this module's.
LEMMA SameCardinality == ASSUME NEW S PROVE Promise!Cardinality(S) = Cardinality(S)
BY DEF Promise!Cardinality, Cardinality, Promise!IsFiniteSet, IsFiniteSet

\* BatchSpec's Known and Issue, in these terms.
LEMMA KnownMeans ==
    Promise!Known(Asked') <=>
      \/ Asked' = Asked
      \/ /\ Promise!Reads(Asked'.type) /\ Asked.slots = 0 /\ Promise!KeyItems(Asked') \subseteq Finished
         /\ Asked' = [Asked EXCEPT !.slots = Asked'.slots]
BY Zenon DEF Promise!Known, Asked, Finished

\* BatchSpec's Issue of what is newly listed.
LEMMA IssueMeans ==
    Promise!Issue(Asked', Listed' \ Listed) <=>
      /\ Said = "none" /\ Finished = Listed
      /\ Listed' \ Listed # {} /\ (Listed' \ Listed) \cap Listed = {}
      /\ Asked = Promise!NoBatch \/ Promise!Known(Asked')
      /\ \/ /\ Listed' \ Listed \subseteq Promise!KeyItems(Asked')
            /\ Promise!Writes(Asked'.type) => Promise!Cardinality(Listed' \ Listed) <= BatchAddMax
         \/ /\ Listed' \ Listed \subseteq Promise!SlotItems(Asked')
            /\ Promise!KeyItems(Asked') \subseteq Finished
            /\ Promise!Writes(Asked'.type) => Promise!Cardinality(Listed' \ Listed) <= MsetMax
      /\ Asked' \in Promise!Batch /\ Asked' = Asked' /\ Listed' = Listed \cup (Listed' \ Listed)
      /\ UNCHANGED <<Finished, Said>>
BY Zenon DEF Promise!Issue, Asked, Listed, Finished, Said

\* A round of new items, within the limits on a write, is the promise's Issue.
LEMMA MapIssues ==
    ASSUME NEW S, Said = "none", Finished = Listed,
           Asked' \in [type : CommandTypes, keys : Nat, slots : Nat],
           Listed' = Listed \cup S, S # {}, S \cap Listed = {},
           \/ subs = <<>> \/ Asked' = Asked
           \/ /\ Asked'.type \in {"ZRANGE", "BATCHZRANGE"} /\ Asked.slots = 0
              /\ [of : {"KEY"}, n : 1 .. Asked'.keys] \subseteq Listed
              /\ Asked' = [Asked EXCEPT !.slots = Asked'.slots],
           \/ /\ S \subseteq [of : {"KEY"}, n : 1 .. Asked'.keys]
              /\ Asked'.type \in {"MSET", "ZADD", "ZBATCHADD"} => Cardinality(S) <= BatchAddMax
           \/ /\ S \subseteq [of : {"SLOT"}, n : 1 .. Asked'.slots]
              /\ [of : {"KEY"}, n : 1 .. Asked'.keys] \subseteq Listed
              /\ Asked'.type \in {"MSET", "ZADD", "ZBATCHADD"} => Cardinality(S) <= MsetMax,
           UNCHANGED <<Finished, Said>>
    PROVE  Promise!Next
<1>1. Listed' \ Listed = S /\ Promise!Cardinality(S) = Cardinality(S)
  BY SameCardinality
<1>2. Asked = Promise!NoBatch \/ Promise!Known(Asked')
  <2>1. subs = <<>> => Asked = Promise!NoBatch
    BY DEF Asked, Promise!NoBatch
  <2> QED BY <2>1, KnownMeans DEF Promise!Reads, Promise!KeyItems
<1>3. Asked' \in Promise!Batch
  BY DEF Promise!Batch, CommandTypes
<1>4. /\ \/ /\ S \subseteq Promise!KeyItems(Asked')
            /\ Promise!Writes(Asked'.type) => Promise!Cardinality(S) <= BatchAddMax
         \/ /\ S \subseteq Promise!SlotItems(Asked')
            /\ Promise!KeyItems(Asked') \subseteq Finished
            /\ Promise!Writes(Asked'.type) => Promise!Cardinality(S) <= MsetMax
  BY <1>1 DEF Promise!KeyItems, Promise!SlotItems, Promise!Writes
<1>5. Promise!Issue(Asked', Listed' \ Listed)
  BY <1>1, <1>2, <1>3, <1>4, IssueMeans, ZenonT(40)
<1> QED BY <1>5 DEF Promise!Next, Asked, Listed

\* An error once all is finished, or an abort at any time, is the promise's Fail.
LEMMA MapFails ==
    ASSUME Said = "none",
           \/ Said' = "error" /\ Finished = Listed /\ Asked' = Asked
           \/ /\ Said' = "aborted"
              /\ \/ Asked' = Asked
                 \/ /\ Asked'.type \in {"ZRANGE", "BATCHZRANGE"} /\ Asked.slots = 0
                    /\ [of : {"KEY"}, n : 1 .. Asked'.keys] \subseteq Finished
                    /\ Asked' = [Asked EXCEPT !.slots = Asked'.slots],
           UNCHANGED <<Listed, Finished>>
    PROVE  Promise!Next
<1>1. Promise!Fail <=> /\ Said = "none"
                       /\ \/ Said' = "error" /\ Finished = Listed /\ UNCHANGED Asked
                          \/ Said' = "aborted" /\ Promise!Known(Asked')
                       /\ UNCHANGED <<Listed, Finished>>
  BY Zenon DEF Promise!Fail, Asked, Listed, Finished, Said
<1>2. Promise!Fail
  BY <1>1, KnownMeans DEF Promise!Reads, Promise!KeyItems
<1> QED BY <1>2 DEF Promise!Next

-----------------------------------------------------------------------------
(* Every step of the handler is a step of the promise *)

\* The keys, or the slots, from a to b.
Span(what, a, b) == [of : {what}, n : a .. b]

Issued(x) == Span("KEY", 1, KeysDone(x)) \cup Span("SLOT", 1, SlotsDone(x))

\* No item has two sub-requests, and the ones that have ended have an outcome.
Tracked ==
    /\ \A i, j \in Ids : subs[i].item = subs[j].item => i = j
    /\ \A i \in Ids : Ended(i) => subs[i].out # "none"
    /\ \A i \in Ids : subs[i].st \in {"created", "running"} => subs[i].out = "none"

\* While the handler waits, the sub-requests are the part of the plan that is
\* issued, and those of the earlier rounds have ended.
Waits ==
    /\ Planned(rq) /\ rq.phase # "START" /\ subs # <<>> /\ Listed = Issued(rq)
    /\ \A i \in Ids : i < cur => Ended(i)

PlanInv ==
    /\ Tracked
    /\ phase = "INIT" => subs = <<>>
    /\ phase = "WAIT" => Waits
    /\ phase = "DONE" => answer # "none"

\* An item is in a span if its number is.
LEMMA SpanMember ==
    ASSUME NEW what, NEW a \in Int, NEW b \in Int, NEW q
    PROVE  q \in Span(what, a, b) <=> \E n \in a .. b : q = [of |-> what, n |-> n]
BY DEF Span

\* The first a + k items are the first a and the next k, which are disjoint.
LEMMA SpanSplit ==
    ASSUME NEW what, NEW a \in Nat, NEW k \in Nat
    PROVE  /\ Span(what, 1, a + k) = Span(what, 1, a) \cup Span(what, a + 1, a + k)
           /\ Span(what, 1, a) \cap Span(what, a + 1, a + k) = {}
           /\ Span(what, 1, 0) = {}
<1>1. /\ 1 .. a + k = (1 .. a) \cup (a + 1 .. a + k)
      /\ (1 .. a) \cap (a + 1 .. a + k) = {}
      /\ 1 .. 0 = {}
  OBVIOUS
<1>2. /\ \A q : q \in Span(what, 1, a + k) <=> \E n \in 1 .. a + k : q = [of |-> what, n |-> n]
      /\ \A q : q \in Span(what, 1, a) <=> \E n \in 1 .. a : q = [of |-> what, n |-> n]
      /\ \A q : q \in Span(what, a + 1, a + k) <=> \E n \in a + 1 .. a + k : q = [of |-> what, n |-> n]
      /\ \A q : q \in Span(what, 1, 0) <=> \E n \in 1 .. 0 : q = [of |-> what, n |-> n]
  BY SpanMember
<1>3. \A m, n : [of |-> what, n |-> m] = [of |-> what, n |-> n] => m = n
  OBVIOUS
<1> QED BY <1>1, <1>2, <1>3

\* s lists the k items of S.
IsRound(s, k, S) ==
    /\ s \in Rounds /\ Len(s) = k
    /\ {s[i] : i \in 1 .. k} = S /\ S # {}
    /\ Cardinality(S) \in Nat /\ Cardinality(S) <= k
    /\ \A i, j \in 1 .. k : s[i] = s[j] => i = j

\* Items lists each of the next k items once.
LEMMA RoundItems ==
    ASSUME NEW what \in {"KEY", "SLOT"}, NEW from \in Nat, NEW k \in Nat \ {0},
           NEW s, s = Items(what, from, k)
    PROVE  IsRound(s, k, Span(what, from + 1, from + k))
<1> DEFINE S == Span(what, from + 1, from + k)
<1>1. s \in Rounds /\ Len(s) = k /\ \A i \in 1 .. k : s[i] = [of |-> what, n |-> from + i]
  <2>1. s \in Rounds
    BY ItemsType
  <2>2. s = [i \in 1 .. k |-> [of |-> what, n |-> from + i]]
    BY DEF Items
  <2>3. Len(s) = k
    BY <2>1, <2>2 DEF Rounds
  <2> QED BY <2>1, <2>2, <2>3
<1>2. \A i, j \in 1 .. k : s[i] = s[j] => i = j
  <2> SUFFICES ASSUME NEW i \in 1 .. k, NEW j \in 1 .. k, s[i] = s[j] PROVE i = j
    OBVIOUS
  <2>1. [of |-> what, n |-> from + i].n = [of |-> what, n |-> from + j].n
    BY <1>1
  <2> QED BY <2>1, SMTT(30)
<1>3. {s[i] : i \in 1 .. k} = S
  <2>0. \A q : q \in S <=> \E n \in from + 1 .. from + k : q = [of |-> what, n |-> n]
    BY SpanMember
  <2> HIDE DEF S
  <2>1. ASSUME NEW i \in 1 .. k PROVE s[i] \in S
    <3>1. from + i \in from + 1 .. from + k
      OBVIOUS
    <3> QED BY <1>1, <2>0, <3>1
  <2>2. ASSUME NEW q \in S PROVE \E i \in 1 .. k : s[i] = q
    <3>1. PICK n \in from + 1 .. from + k : q = [of |-> what, n |-> n]
      BY <2>0
    <3>2. n - from \in 1 .. k /\ from + (n - from) = n
      OBVIOUS
    <3> QED BY <1>1, <3>1, <3>2, ZenonT(40)
  <2> QED BY <2>1, <2>2
<1> HIDE DEF S
<1>4. S # {}
  <2>1. 1 \in 1 .. k
    OBVIOUS
  <2> QED BY <1>3, <2>1
<1>5. Cardinality(S) \in Nat /\ Cardinality(S) <= k
  <2>1. IsFiniteSet(1 .. k) /\ Cardinality(1 .. k) = k
    BY FS_Interval
  <2>2. [i \in 1 .. k |-> s[i]] \in Surjection(1 .. k, S)
    BY <1>3 DEF Surjection
  <2>3. IsFiniteSet(S) /\ Cardinality(S) <= Cardinality(1 .. k)
    BY <2>1, <2>2, FS_Surjection, SMTT(30)
  <2> QED BY <2>1, <2>3, FS_CardinalityType
<1> QED BY <1>1, <1>2, <1>3, <1>4, <1>5, ZenonT(40) DEF S, IsRound

\* y has issued the next items S of the plan that x follows, k of them.
Issues(x, y, k, S) ==
    /\ y.subs \in Rounds /\ Len(y.subs) = k
    /\ Issued(y) = Issued(x) \cup S /\ S \cap Issued(x) = {} /\ S # {}
    /\ \A i, j \in 1 .. k : y.subs[i] = y.subs[j] => i = j
    /\ \/ /\ S \subseteq Span("KEY", 1, y.keys)
          /\ y.type \in {"MSET", "ZADD", "ZBATCHADD"} => Cardinality(S) <= BatchAddMax
       \/ /\ S \subseteq Span("SLOT", 1, y.slots)
          /\ Span("KEY", 1, y.keys) \subseteq Issued(x)
          /\ y.type \in {"MSET", "ZADD", "ZBATCHADD"} => Cardinality(S) <= MsetMax

\* A round issues the next items of the plan.
LEMMA RoundIssues ==
    ASSUME NEW x, Planned(x), NEW y, Planned(y), NEW k \in Nat \ {0},
           KeyRound(x, y, k) \/ SlotRound(x, y, k)
    PROVE  Issues(x, y, k, {y.subs[i] : i \in 1 .. k})
<1> DEFINE S == {y.subs[i] : i \in 1 .. k}
           a == KeysDone(x)
           b == SlotsDone(x)
<1>1. /\ a \in Nat /\ b \in Nat
      /\ y.keys \in Nat /\ y.slots \in Nat /\ BatchAddMax \in Nat /\ MsetMax \in Nat
  <2>1. x \in Request /\ x.keys \in Nat /\ x.slots \in Nat /\ x.vec \in Nat /\ x.type \in CommandTypes
        /\ y.keys \in Nat /\ y.slots \in Nat
    BY DEF Planned, Request
  <2>2. x.phase \notin {"START", "DONE"} => x.vec <= x.keys
    BY <2>1, SMTT(30) DEF Planned, CommandTypes
  <2>3. x.phase = "DONE" => x.vec <= x.slots
    BY <2>1, SMTT(30) DEF Planned, CommandTypes
  <2> QED BY <2>1, <2>2, <2>3, LimitsAssumption, SMTT(30) DEF KeysDone, SlotsDone, LimitsAssumption
<1>2. CASE KeyRound(x, y, k)
  <2>1. /\ y.subs = Items("KEY", a, k) /\ KeysDone(y) = a + k
        /\ a + k <= y.keys /\ b = 0 /\ SlotsDone(y) = 0
        /\ y.type \in {"MSET", "ZADD", "ZBATCHADD"} => k <= BatchAddMax
    BY <1>2 DEF KeyRound
  <2> HIDE DEF a, b
  <2>2. /\ y.subs \in Rounds /\ Len(y.subs) = k /\ S = Span("KEY", a + 1, a + k) /\ S # {}
        /\ Cardinality(Span("KEY", a + 1, a + k)) \in Nat /\ Cardinality(Span("KEY", a + 1, a + k)) <= k
        /\ \A i, j \in 1 .. k : y.subs[i] = y.subs[j] => i = j
    <3> DEFINE P == Span("KEY", a + 1, a + k)
    <3>1. /\ y.subs \in Rounds /\ Len(y.subs) = k
          /\ {y.subs[i] : i \in 1 .. k} = P /\ P # {}
          /\ Cardinality(P) \in Nat /\ Cardinality(P) <= k
          /\ \A i, j \in 1 .. k : y.subs[i] = y.subs[j] => i = j
      <4>1. IsRound(y.subs, k, P)
        BY <1>1, <2>1, RoundItems
      <4> QED BY <4>1, Zenon DEF IsRound
    <3> HIDE DEF P
    <3>2. S = P
      BY <3>1, Zenon
    <3> HIDE DEF S
    <3> QED BY <3>1, <3>2, Zenon DEF P
  <2> HIDE DEF S
  <2>3. Span("KEY", 1, a + k) = Span("KEY", 1, a) \cup S /\ Span("KEY", 1, a) \cap S = {} /\ Span("SLOT", 1, 0) = {}
    BY <1>1, <2>2, SpanSplit, ZenonT(40)
  <2>4. Issued(y) = Issued(x) \cup S /\ S \cap Issued(x) = {}
    <3>1. Issued(x) = Span("KEY", 1, a) \cup Span("SLOT", 1, 0) /\ Issued(y) = Span("KEY", 1, a + k) \cup Span("SLOT", 1, 0)
      BY <2>1 DEF Issued, a, b
    <3> QED BY <2>3, <3>1
  <2>5. S \subseteq Span("KEY", 1, y.keys)
    <3>1. a + k + (y.keys - (a + k)) = y.keys /\ y.keys - (a + k) \in Nat /\ a + k \in Nat
      BY <1>1, <2>1
    <3>2. Span("KEY", 1, a + k) \subseteq Span("KEY", 1, (a + k) + (y.keys - (a + k)))
      BY <3>1, SpanSplit
    <3> QED BY <2>3, <3>1, <3>2, SMTT(30)
  <2>6. y.type \in {"MSET", "ZADD", "ZBATCHADD"} => Cardinality(S) <= BatchAddMax
    BY <1>1, <2>1, <2>2, SMTT(30)
  <2>7. Issues(x, y, k, S)
    BY <2>2, <2>4, <2>5, <2>6, SMTT(30) DEF Issues
  <2> QED BY <2>7 DEF S
<1>3. CASE SlotRound(x, y, k)
  <2>1. /\ y.subs = Items("SLOT", b, k) /\ SlotsDone(y) = b + k
        /\ b + k <= y.slots /\ a = y.keys /\ KeysDone(y) = y.keys
        /\ y.type \in {"MSET", "ZADD", "ZBATCHADD"} => k <= MsetMax
    BY <1>3 DEF SlotRound
  <2> HIDE DEF a, b
  <2>2. /\ y.subs \in Rounds /\ Len(y.subs) = k /\ S = Span("SLOT", b + 1, b + k) /\ S # {}
        /\ Cardinality(Span("SLOT", b + 1, b + k)) \in Nat /\ Cardinality(Span("SLOT", b + 1, b + k)) <= k
        /\ \A i, j \in 1 .. k : y.subs[i] = y.subs[j] => i = j
    <3> DEFINE P == Span("SLOT", b + 1, b + k)
    <3>1. /\ y.subs \in Rounds /\ Len(y.subs) = k
          /\ {y.subs[i] : i \in 1 .. k} = P /\ P # {}
          /\ Cardinality(P) \in Nat /\ Cardinality(P) <= k
          /\ \A i, j \in 1 .. k : y.subs[i] = y.subs[j] => i = j
      <4>1. IsRound(y.subs, k, P)
        BY <1>1, <2>1, RoundItems, SMTT(30)
      <4> QED BY <4>1, Zenon DEF IsRound
    <3> HIDE DEF P
    <3>2. S = P
      BY <3>1, Zenon
    <3> HIDE DEF S
    <3> QED BY <3>1, <3>2, Zenon DEF P
  <2> HIDE DEF S
  <2>3. Span("SLOT", 1, b + k) = Span("SLOT", 1, b) \cup S /\ Span("SLOT", 1, b) \cap S = {}
    BY <1>1, <2>2, SpanSplit, ZenonT(40)
  <2>4. Issued(x) = Span("KEY", 1, y.keys) \cup Span("SLOT", 1, b) /\ Issued(y) = Span("KEY", 1, y.keys) \cup Span("SLOT", 1, b + k)
    BY <2>1 DEF Issued, a, b
  <2>5. Issued(y) = Issued(x) \cup S /\ S \cap Issued(x) = {}
    <3>1. Span("KEY", 1, y.keys) \cap S = {}
      BY <2>2 DEF Span
    <3> QED BY <2>3, <2>4, <3>1, SMTT(30)
  <2>6. S \subseteq Span("SLOT", 1, y.slots) /\ Span("KEY", 1, y.keys) \subseteq Issued(x)
    <3>1. b + k + (y.slots - (b + k)) = y.slots /\ y.slots - (b + k) \in Nat /\ b + k \in Nat
      BY <1>1, <2>1
    <3>2. Span("SLOT", 1, b + k) \subseteq Span("SLOT", 1, (b + k) + (y.slots - (b + k)))
      BY <3>1, SpanSplit
    <3> QED BY <2>3, <2>4, <3>1, <3>2, SMTT(30)
  <2>7. y.type \in {"MSET", "ZADD", "ZBATCHADD"} => Cardinality(S) <= MsetMax
    BY <1>1, <2>1, <2>2, SMTT(30)
  <2>8. Issues(x, y, k, S)
    BY <2>2, <2>5, <2>6, <2>7, SMTT(30) DEF Issues
  <2> QED BY <2>8 DEF S
<1> QED BY <1>2, <1>3

\* Sub-requests that keep their items and outcomes.
LEMMA KeepsItems ==
    ASSUME Ids' = Ids, \A i \in Ids : subs'[i].item = subs[i].item /\ subs'[i].out = subs[i].out
    PROVE  Listed' = Listed /\ Finished' = Finished
BY DEF Listed, Finished

\* What is asked for does not change with a step that keeps the command and its lists.
LEMMA AskedSame ==
    ASSUME Same(rq, rq'), subs = <<>> <=> subs' = <<>>
    PROVE  Asked' = Asked
BY DEF Asked, Same

\* A request that is still at work has not been answered.
LEMMA PhaseOpen ==
    ASSUME HandlerInv, phase \in {"INIT", "WAIT"}
    PROVE  Said = "none" /\ answer = "none"
BY DEF HandlerInv, Control, Said

\* ngx_http_terminate_request aborts the batch.
LEMMA AbortKeeps ==
    ASSUME HandlerInv, PlanInv, Terminate(subs)
    PROVE  PlanInv' /\ Listed' = Listed /\ Finished' = Finished /\ Said' = "aborted"
           /\ (subs' = <<>> <=> subs = <<>>)
<1>1. /\ phase' = "ERROR"
      /\ subs' = [i \in DOMAIN subs |-> IF subs[i].st = "final" THEN subs[i] ELSE [subs[i] EXCEPT !.st = "killed"]]
  BY Zenon DEF Terminate
<1>2. subs \in Seq(Sr) /\ Len(subs) \in Nat /\ DOMAIN subs = Ids
  BY DEF HandlerInv, Shape, Ids
<1>3. \A x \in Sr : LET y == [x EXCEPT !.st = "killed"]
                    IN  y.item = x.item /\ y.out = x.out /\ y.st = "killed"
  BY DEF Sr
<1>4. \A i \in Ids : /\ subs'[i].item = subs[i].item /\ subs'[i].out = subs[i].out
                     /\ subs'[i].st = subs[i].st \/ subs'[i].st = "killed"
  BY <1>1, <1>2, <1>3 DEF Ids
<1>5. Len(subs') = Len(subs) /\ Ids' = Ids
  BY <1>1, <1>2 DEF Ids
<1>6. subs' = <<>> <=> subs = <<>>
  BY <1>1, <1>2
<1>7. Tracked'
  BY <1>4, <1>5 DEF PlanInv, Tracked, Ended
<1>8. PlanInv'
  BY <1>1, <1>7 DEF PlanInv
<1> QED BY <1>1, <1>4, <1>5, <1>6, <1>8, KeepsItems, SMTT(30) DEF Said

\* Terminating a request at work is a step of the promise and preserves PlanInv.
LEMMA AbortMaps ==
    ASSUME HandlerInv, PlanInv, phase \in {"INIT", "WAIT"}, Terminate(subs), rq' = rq
    PROVE  Promise!Next /\ PlanInv'
<1>1. PlanInv' /\ Listed' = Listed /\ Finished' = Finished /\ Said' = "aborted" /\ (subs' = <<>> <=> subs = <<>>)
  BY AbortKeeps
<1>2. Asked' = Asked /\ Said = "none"
  BY <1>1, AskedSame, PhaseOpen DEF Same
<1> QED BY <1>1, <1>2, MapFails

\* What the handler knows when it runs the plugin on x: all that x has issued
\* has ended.
Between(x) ==
    /\ Planned(x) /\ Listed = Issued(x)
    /\ \A i \in Ids : Ended(i)
    /\ IF subs = <<>> THEN x.phase = "START" ELSE x.phase # "START" /\ Same(rq, x)

\* When every subrequest has ended, every listed item has finished.
LEMMA AllFinished ==
    ASSUME PlanInv, \A i \in Ids : Ended(i)
    PROVE  Finished = Listed
BY DEF PlanInv, Tracked, Finished, Listed

\* What is asked for is known, when a round has been made.
LEMMA RoundKnown ==
    ASSUME NEW x, Between(x), Finished = Listed, NEW y \in Request, rq' = y, subs # <<>>, subs' # <<>>,
           NEW k \in Nat \ {0}, KeyRound(x, y, k) \/ SlotRound(x, y, k)
    PROVE  \/ Asked' = Asked
           \/ /\ Asked'.type \in {"ZRANGE", "BATCHZRANGE"} /\ Asked.slots = 0
              /\ [of : {"KEY"}, n : 1 .. Asked'.keys] \subseteq Finished
              /\ Asked' = [Asked EXCEPT !.slots = Asked'.slots]
<1>1. /\ Asked' = [type |-> y.type, keys |-> y.keys, slots |-> y.slots]
      /\ Asked = [type |-> x.type, keys |-> x.keys, slots |-> x.slots]
  BY DEF Asked, Between, Same
<1>2. CASE Same(x, y)
  BY <1>1, <1>2, ZenonT(40) DEF Same
<1>3. CASE ~Same(x, y)
  <2>1. /\ y.type = x.type /\ y.keys = x.keys /\ KeysDone(x) = x.keys
        /\ y.type \in {"ZRANGE", "BATCHZRANGE"} /\ x.slots = 0
    BY <1>3, SMTT(30) DEF KeyRound, SlotRound, Same
  <2>2. [of : {"KEY"}, n : 1 .. y.keys] \subseteq Finished
    BY <2>1 DEF Between, Issued, Span
  <2> QED BY <1>1, <2>1, <2>2, SMTT(30)
<1> QED BY <1>2, <1>3

\* What a sequence appended to another leaves where.
LEMMA Appended ==
    ASSUME NEW R, NEW s \in Seq(R), NEW t \in Seq(R)
    PROVE  /\ Len(s \o t) = Len(s) + Len(t)
           /\ \A i \in 1 .. Len(s) : (s \o t)[i] = s[i]
           /\ \A i \in 1 .. Len(t) : (s \o t)[Len(s) + i] = t[i]
OBVIOUS

\* A round is started.
LEMMA StartMaps ==
    ASSUME HandlerInv, PlanInv, phase \in {"INIT", "WAIT"}, NEW x, Between(x),
           NEW y \in Request, Planned(y), y.phase # "START", rq' = y, answer' = answer,
           NEW k \in Nat \ {0}, KeyRound(x, y, k) \/ SlotRound(x, y, k),
           NEW rest, Start(y, "live", rest), Len(y.subs) < left
    PROVE  Promise!Next /\ PlanInv'
<1> DEFINE S == {y.subs[i] : i \in 1 .. k}
           m == Len(subs)
           new == [i \in 1 .. k |-> [item |-> y.subs[i], st |-> "created", out |-> "none", told |-> "no"]]
<1>1. /\ y.subs \in Rounds /\ Len(y.subs) = k
      /\ Issued(y) = Issued(x) \cup S /\ S \cap Issued(x) = {} /\ S # {}
      /\ \A i, j \in 1 .. k : y.subs[i] = y.subs[j] => i = j
      /\ \/ /\ S \subseteq Span("KEY", 1, y.keys)
            /\ y.type \in {"MSET", "ZADD", "ZBATCHADD"} => Cardinality(S) <= BatchAddMax
         \/ /\ S \subseteq Span("SLOT", 1, y.slots)
            /\ Span("KEY", 1, y.keys) \subseteq Issued(x)
            /\ y.type \in {"MSET", "ZADD", "ZBATCHADD"} => Cardinality(S) <= MsetMax
  <2>1. Planned(x)
    BY DEF Between
  <2>2. Issues(x, y, k, S)
    BY <2>1, RoundIssues, SMTT(30)
  <2> HIDE DEF S
  <2> QED BY <2>2 DEF Issues
<1>2. phase' = "WAIT" /\ subs' = subs \o new /\ cur' = m + 1
  BY <1>1, Zenon DEF Start
<1>3. m \in Nat /\ subs \in Seq(Sr) /\ Ids = 1 .. m
  BY DEF HandlerInv, Shape, Ids
<1>4. new \in Seq(Sr) /\ Len(new) = k
      /\ \A i \in 1 .. k : new[i].item = y.subs[i] /\ new[i].st = "created" /\ new[i].out = "none"
  <2>1. \A i \in 1 .. k : y.subs[i] \in Name
    BY <1>1, SMTT(30) DEF Rounds
  <2>2. \A i \in 1 .. k : [item |-> y.subs[i], st |-> "created", out |-> "none", told |-> "no"] \in Sr
    BY <2>1 DEF Sr
  <2> QED BY <2>2, SMTT(30)
<1> HIDE DEF new, m
<1>5. /\ Len(subs') = m + k /\ Ids' = 1 .. m + k
      /\ \A i \in 1 .. m : subs'[i] = subs[i]
      /\ \A i \in 1 .. k : /\ subs'[m + i].item = y.subs[i] /\ subs'[m + i].st = "created"
                           /\ subs'[m + i].out = "none"
  <2>1. /\ Len(subs \o new) = m + k /\ \A i \in 1 .. m : (subs \o new)[i] = subs[i]
        /\ \A i \in 1 .. k : (subs \o new)[m + i] = new[i]
    <3>1. subs \in Seq(Sr) /\ new \in Seq(Sr) /\ Len(new) = k
      BY <1>3, <1>4
    <3>2. /\ Len(subs \o new) = Len(subs) + Len(new)
          /\ \A i \in 1 .. Len(subs) : (subs \o new)[i] = subs[i]
          /\ \A i \in 1 .. Len(new) : (subs \o new)[Len(subs) + i] = new[i]
      <4> HIDE DEF Sr
      <4>1. \A s, t \in Seq(Sr) :
               /\ Len(s \o t) = Len(s) + Len(t)
               /\ \A i \in 1 .. Len(s) : (s \o t)[i] = s[i]
               /\ \A i \in 1 .. Len(t) : (s \o t)[Len(s) + i] = t[i]
        BY Appended
      <4> QED BY <3>1, <4>1, ZenonT(40)
    <3> QED BY <3>1, <3>2, Zenon DEF m
  <2>2. Ids' = 1 .. Len(subs')
    BY DEF Ids
  <2> QED BY <1>2, <1>4, <2>1, <2>2, ZenonT(40)
<1>6. /\ \A i \in 1 .. m : i \in 1 .. m + k
      /\ \A i \in 1 .. k : m + i \in 1 .. m + k
      /\ \A i \in 1 .. m + k : i \in 1 .. m \/ \E j \in 1 .. k : i = m + j
  <2>1. ASSUME NEW i \in 1 .. m + k, i \notin 1 .. m PROVE i - m \in 1 .. k /\ i = m + (i - m)
    BY <1>3, <2>1
  <2> QED BY <1>3, <2>1
<1>7. Listed' = Listed \cup S
  <2>1. \A q : q \in Listed' <=> \E i \in 1 .. m + k : q = subs'[i].item
    BY <1>5 DEF Listed
  <2>2. \A q : q \in Listed <=> \E i \in 1 .. m : q = subs[i].item
    BY <1>3, SMTT(30) DEF Listed
  <2>3. \A q : q \in S <=> \E i \in 1 .. k : q = y.subs[i]
    OBVIOUS
  <2> HIDE DEF S
  <2>4. ASSUME NEW q \in Listed' PROVE q \in Listed \cup S
    <3>1. PICK i \in 1 .. m + k : q = subs'[i].item
      BY <2>1
    <3>2. CASE i \in 1 .. m
      BY <1>5, <2>2, <3>1, <3>2, SMTT(30)
    <3>3. ASSUME NEW j \in 1 .. k, i = m + j PROVE q \in S
      BY <1>5, <2>3, <3>1, <3>3, SMTT(30)
    <3> QED BY <1>6, <3>2, <3>3, SMTT(30)
  <2>5. ASSUME NEW q \in Listed PROVE q \in Listed'
    BY <1>5, <1>6, <2>1, <2>2, SMTT(30)
  <2>6. ASSUME NEW q \in S PROVE q \in Listed'
    BY <1>5, <1>6, <2>1, <2>3, SMTT(30)
  <2> QED BY <2>4, <2>5, <2>6, SMTT(30)
<1>8. Finished' = Finished
  <2>1. \A q : q \in Finished' <=> \E i \in 1 .. m + k : q = subs'[i].item /\ subs'[i].out # "none"
    BY <1>5 DEF Finished
  <2>2. \A q : q \in Finished <=> \E i \in 1 .. m : q = subs[i].item /\ subs[i].out # "none"
    BY <1>3 DEF Finished
  <2>3. ASSUME NEW q \in Finished' PROVE q \in Finished
    <3>1. PICK i \in 1 .. m + k : q = subs'[i].item /\ subs'[i].out # "none"
      BY <2>1, SMTT(30)
    <3>2. CASE i \in 1 .. m
      BY <1>5, <2>2, <3>1, <3>2, SMTT(30)
    <3>3. \A j \in 1 .. k : i # m + j
      BY <1>5, <3>1, SMTT(30)
    <3> QED BY <1>6, <3>2, <3>3, SMTT(30)
  <2>4. ASSUME NEW q \in Finished PROVE q \in Finished'
    BY <1>5, <1>6, <2>1, <2>2, SMTT(30)
  <2> QED BY <2>3, <2>4, ZenonT(40)
<1>9. Finished = Listed /\ Listed = Issued(x) /\ Said = "none" /\ Said' = Said
  BY <1>2, AllFinished, PhaseOpen, SMTT(30) DEF Between, Said
<1>10. subs' # <<>>
  <2>1. m + k # 0
    BY <1>3
  <2>2. Len(subs') # 0
    BY <1>5, <2>1, ZenonT(40)
  <2> QED BY <2>2
<1>11. Asked' = [type |-> y.type, keys |-> y.keys, slots |-> y.slots]
  BY <1>10 DEF Asked
<1>12. Promise!Next
  <2>1. Asked' \in [type : CommandTypes, keys : Nat, slots : Nat]
    BY <1>11 DEF Request
  <2>2. \/ subs = <<>> \/ Asked' = Asked
        \/ /\ Asked'.type \in {"ZRANGE", "BATCHZRANGE"} /\ Asked.slots = 0
           /\ [of : {"KEY"}, n : 1 .. Asked'.keys] \subseteq Listed
           /\ Asked' = [Asked EXCEPT !.slots = Asked'.slots]
    BY <1>9, <1>10, RoundKnown, SMTT(30)
  <2>3. Asked'.type = y.type /\ Asked'.keys = y.keys /\ Asked'.slots = y.slots
    BY <1>11, SMTT(30)
  <2>4. \/ /\ S \subseteq [of : {"KEY"}, n : 1 .. Asked'.keys]
           /\ Asked'.type \in {"MSET", "ZADD", "ZBATCHADD"} => Cardinality(S) <= BatchAddMax
        \/ /\ S \subseteq [of : {"SLOT"}, n : 1 .. Asked'.slots]
           /\ [of : {"KEY"}, n : 1 .. Asked'.keys] \subseteq Listed
           /\ Asked'.type \in {"MSET", "ZADD", "ZBATCHADD"} => Cardinality(S) <= MsetMax
    <3> HIDE DEF S
    <3> QED BY <1>1, <1>9, <2>3, SMTT(30) DEF Span
  <2> HIDE DEF S
  <2> QED BY <1>1, <1>7, <1>8, <1>9, <2>1, <2>2, <2>4, MapIssues, ZenonT(40)
<1>13. Tracked'
  <2>1. ASSUME NEW i \in 1 .. m + k, NEW j \in 1 .. m + k, subs'[i].item = subs'[j].item PROVE i = j
    <3>1. CASE i \in 1 .. m /\ j \in 1 .. m
      BY <1>3, <1>5, <2>1, <3>1, SMTT(30) DEF PlanInv, Tracked
    <3>2. ASSUME NEW a \in 1 .. k, NEW b \in 1 .. m PROVE subs'[m + a].item # subs'[b].item
      <4>1. subs'[m + a].item \in S /\ subs'[b].item \in Listed
        BY <1>3, <1>5, Zenon DEF Listed
      <4> HIDE DEF S
      <4> QED BY <1>1, <1>9, <4>1
    <3>3. ASSUME NEW a \in 1 .. k, NEW b \in 1 .. k, i = m + a, j = m + b PROVE i = j
      <4>1. subs'[m + a].item = y.subs[a] /\ subs'[m + b].item = y.subs[b]
        BY <1>5, Zenon
      <4>2. y.subs[a] = y.subs[b]
        BY <2>1, <3>3, <4>1, ZenonT(40)
      <4> HIDE DEF S
      <4> QED BY <1>1, <3>3, <4>2, Zenon
    <3> QED BY <1>6, <2>1, <3>1, <3>2, <3>3, SMTT(30)
  <2>2. ASSUME NEW i \in 1 .. m + k
        PROVE  /\ subs'[i].st \in {"done", "final"} => subs'[i].out # "none"
               /\ subs'[i].st \in {"created", "running"} => subs'[i].out = "none"
    <3>1. CASE i \in 1 .. m
      BY <1>3, <1>5, <3>1, SMTT(30) DEF PlanInv, Tracked, Ended
    <3>2. ASSUME NEW a \in 1 .. k, i = m + a PROVE subs'[i].st = "created" /\ subs'[i].out = "none"
      BY <1>5, <3>2, SMTT(30)
    <3> QED BY <1>6, <3>1, <3>2, SMTT(30)
  <2> QED BY <1>5, <2>1, <2>2, SMTT(30) DEF Tracked, Ended
<1>14. Waits'
  <2>1. \A i \in 1 .. m + k : i < m + 1 => subs'[i].st \in {"done", "final"}
    BY <1>3, <1>5, SMTT(30) DEF Between, Ended
  <2>2. Listed' = Issued(y)
    BY <1>1, <1>7, <1>9, SMTT(30)
  <2> QED BY <1>2, <1>5, <1>10, <2>1, <2>2, SMTT(30) DEF Waits, Ended
<1> QED BY <1>2, <1>12, <1>13, <1>14, SMTT(30) DEF PlanInv

\* The plugin's request after its run, whatever it says.
LEMMA DeliverMaps ==
    ASSUME HandlerInv, PlanInv, phase \in {"INIT", "WAIT"}, NEW x, Between(x),
           NEW y \in Request, Advances(x, y), NEW rest, Deliver(y, "live", rest)
    PROVE  Promise!Next /\ PlanInv'
<1>1. /\ Said = "none" /\ Finished = Listed /\ rq' = y
      /\ y.rc = "OK" \/ y.rc = "ERROR" \/ y.rc = "AGAIN"
  BY AllFinished, PhaseOpen DEF Between, Advances, Deliver
<1>2. ASSUME y.rc # "AGAIN"
      PROVE  /\ phase' = "DONE" /\ subs' = subs /\ answer' = IF y.rc = "OK" THEN "ok" ELSE "error"
             /\ Listed' = Listed /\ Finished' = Finished /\ PlanInv'
  <2>1. phase' = "DONE" /\ subs' = subs /\ answer' = IF y.rc = "OK" THEN "ok" ELSE "error"
    BY <1>2, Zenon DEF Deliver
  <2>2. Listed' = Listed /\ Finished' = Finished /\ Tracked'
    BY <2>1, SMTT(30) DEF Listed, Finished, PlanInv, Tracked, Ended, Ids
  <2> QED BY <2>1, <2>2 DEF PlanInv
<1>3. ASSUME subs' = subs, Same(x, y) PROVE Asked' = Asked
  BY <1>1, <1>3 DEF Between, Asked, Same
<1>4. CASE y.rc = "ERROR"
  <2>1. Same(x, y)
    BY <1>4 DEF Advances
  <2>2. Said' = "error"
    BY <1>2, <1>4, SMTT(30) DEF Said
  <2> QED BY <1>1, <1>2, <1>3, <1>4, <2>1, <2>2, MapFails, SMTT(30)
<1>5. CASE y.rc = "OK"
  <2>1. Same(x, y) /\ x.phase # "START" /\ KeysDone(x) = x.keys /\ SlotsDone(x) = x.slots
    BY <1>5 DEF Advances
  <2>2. Said' = "ok"
    BY <1>2, <1>5, SMTT(30) DEF Said
  <2>3. subs # <<>> /\ rq.keys = x.keys /\ rq.slots = x.slots
    BY <2>1 DEF Between, Same
  <2>4. Listed = [of : {"KEY"}, n : 1 .. rq.keys] \cup [of : {"SLOT"}, n : 1 .. rq.slots]
    BY <2>1, <2>3 DEF Between, Issued, Span
  <2>5. rq.type # "none"
    BY DEF HandlerInv, Shape, Request, CommandTypes
  <2> QED BY <1>1, <1>2, <1>3, <1>5, <2>1, <2>2, <2>3, <2>4, <2>5, MapSucceeds, SMTT(30)
<1>6. CASE y.rc = "AGAIN"
  <2>1. Planned(y) /\ y.phase # "START" /\ Start(y, "live", rest) /\ answer' = answer
    BY <1>6 DEF Advances, Deliver
  <2>2. PICK k \in Nat \ {0} : KeyRound(x, y, k) \/ SlotRound(x, y, k)
    BY <1>6 DEF Advances
  <2>3. CASE Len(y.subs) < left
    BY <1>1, <2>1, <2>2, <2>3, StartMaps, SMTT(30)
  <2>4. CASE ~(Len(y.subs) < left)
    <3>1. Terminate(subs)
      BY <2>1, <2>4, Zenon DEF Start
    <3>2. PlanInv' /\ Listed' = Listed /\ Finished' = Finished /\ Said' = "aborted" /\ (subs' = <<>> <=> subs = <<>>)
      BY <3>1, AbortKeeps
    <3>3. CASE subs = <<>>
      <4>1. Asked' = Asked
        BY <3>2, <3>3 DEF Asked
      <4> QED BY <1>1, <3>2, <4>1, MapFails, SMTT(30)
    <3>4. CASE subs # <<>>
      <4>1. \/ Asked' = Asked
            \/ /\ Asked'.type \in {"ZRANGE", "BATCHZRANGE"} /\ Asked.slots = 0
               /\ [of : {"KEY"}, n : 1 .. Asked'.keys] \subseteq Finished
               /\ Asked' = [Asked EXCEPT !.slots = Asked'.slots]
        BY <1>1, <2>2, <3>2, <3>4, RoundKnown, SMTT(30)
      <4> QED BY <1>1, <3>2, <4>1, MapFails, SMTT(30)
    <3> QED BY <3>3, <3>4
  <2> QED BY <2>3, <2>4, SMTT(30)
<1> QED BY <1>1, <1>4, <1>5, <1>6, SMTT(30)

\* The plugin's request as it is made.
LEMMA NewPlanned ==
    ASSUME NEW b \in Batches
    PROVE  LET x == NewRequest(b.type, b.keys, b.slots)
           IN  /\ Planned(x) /\ Issued(x) = {} /\ x.phase = "START"
               /\ [x EXCEPT !.code = "ERROR", !.rc = "ERROR"].rc = "ERROR"
               /\ Same(x, [x EXCEPT !.code = "ERROR", !.rc = "ERROR"])
<1> DEFINE x == NewRequest(b.type, b.keys, b.slots)
<1>1. x \in Request /\ x.type = b.type /\ x.keys = b.keys /\ x.slots = b.slots
      /\ x.phase = "START" /\ x.subs = <<>> /\ x.vec = 0
  <2>1. b.type \in CommandTypes /\ b.keys \in Nat /\ b.slots \in Nat
    BY BatchesAssumption DEF BatchesAssumption
  <2>2. NewRequest(b.type, b.keys, b.slots) \in Request
    BY <2>1, NewRequestType, SMTT(30)
  <2> QED BY <2>2 DEF NewRequest
<1> HIDE DEF x
<1>2. Planned(x)
  BY <1>1, BatchesAssumption, SMTT(30) DEF Planned, BatchesAssumption, CommandTypes
<1>3. Issued(x) = {}
  <2>1. KeysDone(x) = 0 /\ SlotsDone(x) = 0
    BY <1>1 DEF KeysDone, SlotsDone
  <2> QED BY <2>1, SpanSplit DEF Issued
<1>4. [x EXCEPT !.code = "ERROR", !.rc = "ERROR"].rc = "ERROR" /\ Same(x, [x EXCEPT !.code = "ERROR", !.rc = "ERROR"])
  BY DEF NewRequest, Same, x
<1> QED BY <1>1, <1>2, <1>3, <1>4, SMTT(30) DEF x

\* The handler's first turn is a step of the promise and preserves PlanInv.
LEMMA ProcessMaps ==
    ASSUME HandlerInv, PlanInv, phase = "INIT", ProcessRequest
    PROVE  Promise!Next /\ PlanInv'
<1>1. ASSUME NEW b \in Batches, NEW x, x = NewRequest(b.type, b.keys, b.slots),
             \/ Deliver(CreateSubRequestBody(x, 0), "live", <<>>)
             \/ Deliver([x EXCEPT !.code = "ERROR", !.rc = "ERROR"], "live", <<>>)
      PROVE  Promise!Next /\ PlanInv'
  <2> DEFINE e == [x EXCEPT !.code = "ERROR", !.rc = "ERROR"]
             y == CreateSubRequestBody(x, 0)
  <2>1. Planned(x) /\ Issued(x) = {} /\ x.phase = "START" /\ e.rc = "ERROR" /\ Same(x, e)
    BY <1>1, NewPlanned, Zenon
  <2>2. subs = <<>> /\ Ids = {} /\ Listed = {}
    BY DEF PlanInv, Ids, Listed
  <2>3. Between(x)
    BY <2>1, <2>2 DEF Between
  <2>4. x \in Request
    BY <2>1 DEF Planned
  <2>5. e \in Request /\ Advances(x, e)
    <3>1. e \in Request
      BY <2>4, Zenon DEF Request
    <3> HIDE DEF e
    <3> QED BY <2>1, <3>1 DEF Advances
  <2>6. y \in Request /\ Advances(x, y)
    BY <2>1, <2>4, BodyType, BodyAdvances, SMTT(30)
  <2> HIDE DEF e, y
  <2>7. CASE Deliver(e, "live", <<>>)
    BY <2>3, <2>5, <2>7, DeliverMaps, SMTT(30)
  <2>8. CASE Deliver(y, "live", <<>>)
    BY <2>3, <2>6, <2>8, DeliverMaps, SMTT(30)
  <2> QED BY <1>1, <2>7, <2>8, SMTT(30) DEF e, y
<1>2. ASSUME NEW d \in {"none", "live"}, Terminate(subs), data' = Destroyed(d), UNCHANGED <<rq, answer>>
      PROVE  Promise!Next /\ PlanInv'
  BY <1>2, AbortMaps, SMTT(30)
<1> QED BY <1>1, <1>2, Zenon DEF ProcessRequest

\* A sub-request's code changes nothing of the plan.
CodeOnly == rq' = rq \/ \E c \in {"OK", "ERROR"} : rq' = [rq EXCEPT !.code = c]

\* A subrequest's failure, which sets the code alone, keeps the plan.
LEMMA CodeKeeps ==
    ASSUME HandlerInv, CodeOnly
    PROVE  /\ Same(rq, rq') /\ rq'.phase = rq.phase /\ Issued(rq') = Issued(rq)
           /\ Planned(rq) => Planned(rq')
<1>1. rq \in Request
  BY DEF HandlerInv, Shape
<1>2. /\ rq' \in Request /\ Same(rq, rq') /\ rq'.phase = rq.phase /\ rq'.vec = rq.vec
      /\ rq'.subs = rq.subs
  <2>1. ASSUME NEW c \in {"OK", "ERROR"}, NEW z, z = [rq EXCEPT !.code = c]
        PROVE  z \in Request /\ Same(rq, z) /\ z.phase = rq.phase /\ z.vec = rq.vec /\ z.subs = rq.subs
    BY <1>1, <2>1, Zenon DEF Request, Same
  <2>2. CASE rq' = rq
    BY <1>1, <2>2, SMTT(30) DEF Same
  <2> QED BY <2>1, <2>2 DEF CodeOnly
<1>3. KeysDone(rq') = KeysDone(rq) /\ SlotsDone(rq') = SlotsDone(rq)
  BY <1>2, SMTT(30) DEF KeysDone, SlotsDone, Same
<1>4. Planned(rq) => Planned(rq')
  BY <1>2 DEF Planned, Same
<1> QED BY <1>2, <1>3, <1>4, SMTT(30) DEF Issued

\* One sub-request changes: it keeps its item, and runs on or has ended.
LEMMA SubMaps ==
    ASSUME HandlerInv, PlanInv, CodeOnly, NEW i \in Ids, NEW x \in Sr,
           subs' = [subs EXCEPT ![i] = x], x.item = subs[i].item,
           \/ x.st = "running" /\ x.out = subs[i].out /\ subs[i].st \in {"created", "running"}
           \/ x.st \in {"done", "final"} /\ x.out # "none" /\ (x.out = subs[i].out \/ subs[i].out = "none"),
           subs[i].out = "none" => phase = "WAIT",
           UNCHANGED <<phase, cur, answer>>
    PROVE  (Promise!Next \/ UNCHANGED Promise!vars) /\ PlanInv'
<1>1. /\ Ids' = Ids /\ subs'[i] = x /\ (subs' = <<>> <=> subs = <<>>)
      /\ \A j \in Ids \ {i} : subs'[j] = subs[j]
  BY DEF HandlerInv, Shape, Ids
<1>2. Listed' = Listed
  BY <1>1 DEF Listed
<1>3. Asked' = Asked /\ Said' = Said
  BY <1>1, CodeKeeps, AskedSame, SMTT(30) DEF Said
<1>4. Tracked'
  BY <1>1, SMTT(30) DEF PlanInv, Tracked, Ended
<1>5. phase = "WAIT" => Waits'
  BY <1>1, <1>2, CodeKeeps, SMTT(30) DEF PlanInv, Waits, Ended
<1>6. PlanInv'
  BY <1>1, <1>4, <1>5, SMTT(30) DEF PlanInv
<1>7. CASE x.out = subs[i].out
  <2>1. Finished' = Finished
    BY <1>1, <1>7, KeepsItems, SMTT(30)
  <2> QED BY <1>2, <1>3, <1>6, <2>1, MapStutters, SMTT(30) DEF Stutters
<1>8. CASE x.out # subs[i].out
  <2>1. x.out # "none" /\ subs[i].out = "none" /\ phase = "WAIT"
    BY <1>8
  <2>2. Finished' = Finished \cup {subs[i].item}
    BY <1>1, <2>1, SMTT(30) DEF Finished
  <2>3. subs[i].item \in Listed \ Finished
    BY <2>1 DEF Listed, Finished, PlanInv, Tracked
  <2>4. Said = "none"
    BY <2>1, PhaseOpen
  <2> QED BY <1>2, <1>3, <1>6, <2>2, <2>3, <2>4, MapEnds, SMTT(30)
<1> QED BY <1>7, <1>8

\* Nothing that the promise sees changes.
LEMMA IdleMaps ==
    ASSUME PlanInv, UNCHANGED <<rq, phase, subs, cur, answer>>
    PROVE  (Promise!Next \/ UNCHANGED Promise!vars) /\ PlanInv'
<1>1. Stutters
  BY DEF Stutters, Asked, Listed, Finished, Said, Ids
<1>2. Tracked' /\ (Waits => Waits')
  BY DEF PlanInv, Tracked, Waits, Ended, Ids, Listed
<1> QED BY <1>1, <1>2, MapStutters, SMTT(30) DEF PlanInv

\* RunSub, RunFinalizer and SubEnds: Finalize gives a sub-request an outcome.
LEMMA FinalizeMaps ==
    ASSUME HandlerInv, PlanInv, CodeOnly, NEW i \in Ids, NEW o \in Outcomes \cup {"none"}, NEW rest,
           Finalize(i, o, rest),
           IF o = "none" THEN subs[i].st = "done" ELSE subs[i].st \in {"created", "running"}
    PROVE  (Promise!Next \/ UNCHANGED Promise!vars) /\ PlanInv'
<1> DEFINE st == IF i = active THEN "final" ELSE "done"
           out == IF o = "none" THEN subs[i].out ELSE o
           x == [subs[i] EXCEPT !.st = st, !.out = out]
<1>1. subs[i] \in Sr
  BY DEF HandlerInv, Shape, Ids
<1>2. subs' = [subs EXCEPT ![i] = x] /\ UNCHANGED <<phase, cur, answer>>
  BY ZenonT(40) DEF Finalize
<1>3. /\ st \in {"done", "final"} /\ out # "none" /\ out \in Outcomes
      /\ out = subs[i].out \/ subs[i].out = "none"
      /\ subs[i].out = "none" => phase = "WAIT"
  BY <1>1 DEF PlanInv, Tracked, Ended, HandlerInv, Running, Sr, Outcomes
<1> HIDE DEF st, out
<1>4. x.item = subs[i].item /\ x.st = st /\ x.out = out /\ x \in Sr
  <2>1. st \in {"created", "running", "done", "final", "killed"} /\ out \in {"none", "ok", "failed", "5xx", "nostate"}
    BY <1>3 DEF Outcomes
  <2> QED BY <1>1, <2>1, ZenonT(40) DEF Sr
<1> HIDE DEF x
<1> QED BY <1>2, <1>3, <1>4, SubMaps, ZenonT(40)

\* A posted subrequest that runs, or is finalized, maps to a step or a stutter.
LEMMA RunSubMaps ==
    ASSUME HandlerInv, PlanInv, posted # <<>>, Head(posted) # 0,
           RunSub(Head(posted)) \/ RunFinalizer(Head(posted))
    PROVE  (Promise!Next \/ UNCHANGED Promise!vars) /\ PlanInv'
<1> DEFINE i == Head(posted)
<1>1. i \in Ids /\ subs[i] \in Sr
  BY DEF HandlerInv, Shape, Ids
<1> HIDE DEF i
<1>2. ASSUME subs[i].st \in {"created", "running"}, NEW t \in {"no", "ERROR"},
             rq' = IF t = "no" THEN rq ELSE [rq EXCEPT !.code = t],
             \/ /\ subs' = [subs EXCEPT ![i].st = "running", ![i].told = IF t = "no" THEN @ ELSE t]
                /\ posted' = Tail(posted)
                /\ UNCHANGED <<data, phase, waiting, cur, answer, active, postponed, wev,
                               count, left, written, flushed, closed>>
             \/ \E o \in Outcomes \ {"ok"} : Finalize(i, o, Tail(posted))
      PROVE  (Promise!Next \/ UNCHANGED Promise!vars) /\ PlanInv'
  <2>1. CodeOnly
    BY <1>2 DEF CodeOnly
  <2>2. CASE \E o \in Outcomes \ {"ok"} : Finalize(i, o, Tail(posted))
    <3>1. PICK o \in Outcomes \ {"ok"} : Finalize(i, o, Tail(posted))
      BY <2>2
    <3>2. o \in Outcomes \cup {"none"} /\ o # "none"
      BY DEF Outcomes
    <3> QED BY <1>1, <1>2, <2>1, <3>1, <3>2, FinalizeMaps, SMTT(30)
  <2>3. CASE /\ subs' = [subs EXCEPT ![i].st = "running", ![i].told = IF t = "no" THEN @ ELSE t]
             /\ posted' = Tail(posted)
             /\ UNCHANGED <<data, phase, waiting, cur, answer, active, postponed, wev,
                            count, left, written, flushed, closed>>
    <3> DEFINE told == IF t = "no" THEN subs[i].told ELSE t
               x == [subs[i] EXCEPT !.st = "running", !.told = told]
    <3>1. subs' = [subs EXCEPT ![i] = x]
      BY <2>3, Zenon
    <3>2. x \in Sr /\ x.st = "running" /\ x.item = subs[i].item /\ x.out = subs[i].out
      <4>1. told \in {"no", "OK", "ERROR"}
        BY <1>1 DEF Sr
      <4> HIDE DEF told
      <4> QED BY <1>1, <4>1, ZenonT(40) DEF Sr
    <3> HIDE DEF x
    <3>3. phase = "WAIT" /\ UNCHANGED <<phase, cur, answer>>
      BY <1>1, <1>2, <2>3, SMTT(30) DEF HandlerInv, Running
    <3> QED BY <1>1, <1>2, <2>1, <3>1, <3>2, <3>3, SubMaps, ZenonT(40)
  <2> QED BY <1>2, <2>2, <2>3, SMTT(30)
<1>3. CASE RunFinalizer(i)
  <2>1. CodeOnly /\ subs[i].st = "done" /\ Finalize(i, "none", Tail(posted)) /\ "none" \in Outcomes \cup {"none"}
    BY <1>3, Zenon DEF RunFinalizer, CodeOnly
  <2> QED BY <1>1, <2>1, FinalizeMaps, Zenon
<1>4. CASE RunSub(i)
  BY <1>2, <1>4, Zenon DEF RunSub
<1> QED BY <1>3, <1>4 DEF i

\* An event of a subrequest's upstream maps to a step or a stutter.
LEMMA SubEventMaps ==
    ASSUME HandlerInv, PlanInv, NEW i \in Ids, SubTells(i) \/ SubEnds(i)
    PROVE  (Promise!Next \/ UNCHANGED Promise!vars) /\ PlanInv'
<1>1. subs[i] \in Sr
  BY DEF HandlerInv, Shape, Ids
<1>2. CASE SubTells(i)
  <2>1. PICK c \in {"OK", "ERROR"} : rq' = [rq EXCEPT !.code = c] /\ subs' = [subs EXCEPT ![i].told = c]
    BY <1>2, Zenon DEF SubTells
  <2> DEFINE x == [subs[i] EXCEPT !.told = c]
  <2>2. CodeOnly
    BY <2>1 DEF CodeOnly
  <2>3. subs' = [subs EXCEPT ![i] = x]
    BY <2>1
  <2>4. x \in Sr /\ x.st = subs[i].st /\ subs[i].st = "running" /\ x.item = subs[i].item /\ x.out = subs[i].out
    BY <1>1, <1>2 DEF Sr, SubTells
  <2> HIDE DEF x
  <2>5. phase = "WAIT" /\ UNCHANGED <<phase, cur, answer>>
    BY <1>2, <2>4, SMTT(30) DEF SubTells, HandlerInv, Running
  <2> QED BY <2>2, <2>3, <2>4, <2>5, SubMaps, ZenonT(40)
<1>3. CASE SubEnds(i)
  <2>1. subs[i].st = "running" /\ CodeOnly /\ \E o \in Outcomes : Finalize(i, o, <<>>)
    BY <1>3, Zenon DEF SubEnds, CodeOnly
  <2>2. PICK o \in Outcomes : Finalize(i, o, <<>>)
    BY <2>1
  <2>3. o \in Outcomes \cup {"none"} /\ o # "none"
    BY DEF Outcomes
  <2> QED BY <2>1, <2>2, <2>3, FinalizeMaps, SMTT(30)
<1> QED BY <1>2, <1>3

\* The parent, posted again and run, maps to a step or a stutter.
LEMMA RunParentMaps ==
    ASSUME HandlerInv, PlanInv, posted # <<>>, RunParent
    PROVE  (Promise!Next \/ UNCHANGED Promise!vars) /\ PlanInv'
<1>1. CASE UNCHANGED <<rq, phase, subs, cur, answer>>
  BY <1>1, IdleMaps
<1>2. CASE CheckError
  BY <1>2, AbortMaps, Zenon DEF CheckError
<1>3. CASE CheckOk
  <2>1. phase = "WAIT" /\ data = "live" /\ AllEnded
    BY <1>3 DEF CheckOk, HandlerInv, Control
  <2>2. PICK found \in 0 .. MaxFound : Deliver(CreateSubRequestBody(rq, found), data, Tail(posted))
    BY <1>3 DEF CheckOk
  <2>3. found \in Nat /\ rq \in Request /\ cur \in Nat /\ Len(subs) \in Nat
    BY SubrequestsAssumption DEF SubrequestsAssumption, HandlerInv, Shape
  <2>4. Planned(rq) /\ rq.phase # "START" /\ subs # <<>> /\ Listed = Issued(rq) /\ \A i \in Ids : i < cur => Ended(i)
    BY <2>1 DEF PlanInv, Waits
  <2>5. \A i \in Ids : Ended(i)
    BY <2>1, <2>3, <2>4, SMTT(30) DEF AllEnded, Round, Ids
  <2>6. Between(rq)
    BY <2>4, <2>5, SMTT(30) DEF Between, Same
  <2> DEFINE y == CreateSubRequestBody(rq, found)
  <2>7. y \in Request /\ Advances(rq, y) /\ Deliver(y, "live", Tail(posted))
    BY <2>1, <2>2, <2>3, <2>4, BodyType, BodyAdvances, SMTT(30)
  <2> HIDE DEF y
  <2> QED BY <2>1, <2>6, <2>7, DeliverMaps, SMTT(30)
<1> QED BY <1>1, <1>2, <1>3, Zenon DEF RunParent, CheckAgain, Flush

\* Every step is a step of the promise or leaves what it sees alone.
LEMMA PlanStep ==
    ASSUME HandlerInv, PlanInv, [Next]_vars
    PROVE  (Promise!Next \/ UNCHANGED Promise!vars) /\ PlanInv'
<1>1. CASE ReadBody
  BY <1>1, ProcessMaps DEF ReadBody
<1>2. CASE ReadMore
  BY <1>2, IdleMaps, Zenon DEF ReadMore
<1>3. CASE BodyArrives
  <2>1. phase = "INIT"
    BY <1>3 DEF BodyArrives, HandlerInv, Control
  <2> QED BY <1>3, <2>1, ProcessMaps, SMTT(30) DEF BodyArrives
<1>4. CASE BodyFails
  BY <1>4, AbortMaps, Zenon DEF BodyFails
<1>5. CASE RunPosted
  BY <1>5, RunParentMaps, RunSubMaps, SMTT(30) DEF RunPosted
<1>6. ASSUME NEW i \in Ids, SubTells(i) \/ SubEnds(i)
      PROVE  (Promise!Next \/ UNCHANGED Promise!vars) /\ PlanInv'
  BY <1>6, SubEventMaps
<1>7. CASE UNCHANGED vars
  BY <1>7, IdleMaps, Zenon DEF vars
<1> QED BY <1>1, <1>2, <1>3, <1>4, <1>5, <1>6, <1>7, SMTT(30) DEF Next, Over

\* At first the plan holds and the promise is in its initial state.
LEMMA PlanInit == Init => PlanInv /\ Promise!Init
<1> SUFFICES ASSUME Init PROVE PlanInv /\ Promise!Init
  OBVIOUS
<1>1. subs = <<>> /\ Ids = {} /\ phase = "INIT" /\ answer = "none"
  BY DEF Init, Ids
<1>2. PlanInv
  BY <1>1, SMTT(30) DEF PlanInv, Tracked
<1>3. Promise!Init
  BY <1>1 DEF Promise!Init, Promise!NoBatch
<1> QED BY <1>2, <1>3

\* Whatever the batch, the limits and the order of events, the handler keeps
\* the promise of BatchSpec: every step is one of its steps or invisible to it.
\* Rounds issue items of the plan nobody has issued before, within the limits
\* and keys before slots; success is said when all of them have ended.
THEOREM KeepsPromise == Spec => ImplementsPromise
<1>1. Init => HandlerInv /\ PlanInv /\ Promise!Init
  BY HandlerInvInit, PlanInit
<1>2. HandlerInv /\ PlanInv /\ [Next]_vars => HandlerInv' /\ PlanInv' /\ [Promise!Next]_Promise!vars
  BY HandlerInvStep, PlanStep
<1> QED BY <1>1, <1>2, PTL DEF Spec, ImplementsPromise, Promise!Spec
=============================================================================
