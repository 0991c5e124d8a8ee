---------------------------- MODULE QkSubrequest ----------------------------
(***************************************************************************)
(* The qksubrequest content handler answering one batch request: it reads  *)
(* the body, asks the plugin (QkBatch) for a round of sub-requests, starts *)
(* them, is run again whenever one ends, and repeats until the plugin      *)
(* answers.  Sub-requests end in any order.                                *)
(*                                                                         *)
(* nginx's side (external) is modelled as far as the handler depends on    *)
(* it: the references r->main->count keeps, the queue of posted requests   *)
(* an event runs to its end, c->data (the request whose turn it is to      *)
(* write), and the postponed list that keeps the output in order.  A       *)
(* sub-request that ends out of turn is marked done but keeps its          *)
(* reference until its turn comes.  Request 0 is the parent.               *)
(***************************************************************************)
EXTENDS QkBatch, FiniteSets

CONSTANTS
    Batches,        \* the requests a client may send: records type, keys, slots
    MaxFound,       \* bound: slots of the members a range query returns
    MaxSubrequests  \* NGX_HTTP_MAX_SUBREQUESTS

ASSUME BatchesAssumption ==
    /\ Batches \subseteq [type : CommandTypes, keys : Nat, slots : Nat]
    /\ \A b \in Batches :
         /\ IF b.type \in {"ZRANGE", "BATCHZRANGE"} THEN b.slots = 0 ELSE b.slots > 0
         /\ IF b.type \in {"MGET", "MSET"} THEN b.keys = 0 ELSE b.keys > 0
         /\ b.type \in {"ZADD", "ZRANGE"} => b.keys = 1

ASSUME SubrequestsAssumption == MaxFound \in Nat /\ MaxSubrequests \in Nat

VARIABLES
    rq,         \* ctx->data: the plugin's request
    data,       \* whether it is allocated; "twice": deleted a second time
    phase,      \* ctx->phase
    waiting,    \* ctx->waiting_more_body
    subs,       \* every sub-request created so far
    cur,        \* ctx->subrequests: the ones from here on
    active,     \* c->data
    postponed,  \* r->postponed: sub-requests, and 0 for the parent's output
    posted,     \* r->main->posted_requests
    wev,        \* r->write_event_handler
    count,      \* r->main->count
    left,       \* r->main->subrequests
    answer,     \* what the plugin answered
    written,    \* responses given to the output filter
    flushed,    \* a response has reached the connection
    closed      \* the request is freed

nginx == <<active, postponed, posted, wev, count, left, written, flushed, closed>>
vars == <<rq, data, phase, waiting, subs, cur, answer, nginx>>

SubRequest ==
    [ item : Item,
      st : {"created", "running", "done", "final", "killed"},
      out : {"none", "ok", "failed", "5xx", "nostate"},
      told : {"no", "OK", "ERROR"} ]   \* what it wrote to parent->code

TypeOK ==
    /\ rq \in QkRequest
    /\ data \in {"none", "live", "freed", "twice"}
    /\ phase \in {"INIT", "WAIT", "DONE", "ERROR"}
    /\ waiting \in BOOLEAN /\ flushed \in BOOLEAN /\ closed \in BOOLEAN
    /\ subs \in Seq(SubRequest)
    /\ cur \in 1 .. Len(subs) + 1
    /\ active \in 0 .. Len(subs)
    /\ postponed \in Seq(0 .. Len(subs))
    /\ posted \in Seq(0 .. Len(subs))
    /\ wev \in {"phases", "writer", "empty"}
    /\ count \in Nat /\ left \in Nat /\ written \in Nat
    /\ answer \in {"none", "ok", "error"}

Ids == 1 .. Len(subs)

-----------------------------------------------------------------------------
(* The end of a run of the handler *)

\* ngx_http_qksubrequest_destroy deletes the request and leaves the pointer.
Destroyed(d) == IF d = "live" THEN "freed" ELSE IF d = "freed" THEN "twice" ELSE d

\* The handler returns NGX_ERROR: ngx_http_terminate_request drops the posted
\* requests, cleans up the running sub-requests and frees everything.
Terminate(sb) ==
    /\ phase' = "ERROR" /\ closed' = TRUE /\ count' = 0
    /\ subs' = [i \in DOMAIN sb |->
                  IF sb[i].st = "final" THEN sb[i] ELSE [sb[i] EXCEPT !.st = "killed"]]
    /\ posted' = <<>> /\ postponed' = <<>> /\ active' = 0 /\ wev' = "empty"
    /\ UNCHANGED <<cur, left, written, flushed>>

\* ngx_http_postpone_filter_add: the output joins output at the end of the list.
PostponeAdd(list) ==
    IF list # <<>> /\ list[Len(list)] = 0 THEN list ELSE Append(list, 0)

\* ngx_http_postpone_filter and the ngx_http_finalize_request that follows,
\* with the parent's output (in) or without.
Write(in, rest) ==
    LET list == IF in /\ (active # 0 \/ postponed # <<>>)
                THEN PostponeAdd(postponed) ELSE postponed
        turn == active = 0 /\ list # <<>>
        pop  == turn /\ Head(list) # 0
        rem  == IF turn THEN Tail(list) ELSE list
        over == rem = <<>> /\ ~pop /\ active = 0
    IN  /\ postponed' = rem
        /\ active' = IF pop THEN Head(list) ELSE active
        /\ posted' = IF over THEN <<>> ELSE IF pop THEN Append(rest, Head(list)) ELSE rest
        /\ written' = IF in THEN written + 1 ELSE written
        /\ flushed' = (flushed \/ (in /\ list = <<>>) \/ (turn /\ ~pop))
        /\ wev' = IF rem # <<>> THEN "writer" ELSE "empty"
        /\ closed' = (over /\ count = 1)
        /\ count' = IF over THEN count - 1 ELSE count
        /\ UNCHANGED left

\* ngx_http_qksubrequest_start: creates and posts the sub-requests of the
\* round; ngx_http_subrequest fails when the main request has none left.
Start(y, d, rest) ==
    LET n   == Len(y.subs)
        new == [i \in 1 .. n |-> [item |-> y.subs[i], st |-> "created",
                                  out |-> "none", told |-> "no"]]
        ids == [i \in 1 .. n |-> Len(subs) + i]
    IN  IF n < left
        THEN /\ phase' = "WAIT"
             /\ subs' = subs \o new /\ cur' = Len(subs) + 1
             /\ left' = left - n /\ count' = count + n
             /\ active' = IF n > 0 /\ active = 0 /\ postponed = <<>>
                          THEN Len(subs) + 1 ELSE active
             /\ postponed' = postponed \o ids /\ posted' = rest \o ids
             /\ wev' = "empty" /\ data' = d
             /\ UNCHANGED <<written, flushed, closed>>
        ELSE Terminate(subs) /\ data' = Destroyed(d)

\* Fault: the phase does not advance to DONE.
DeliverInWait(y, d, rest) ==
    /\ rq' = y
    /\ \/ y.rc = "AGAIN" /\ Start(y, d, rest) /\ UNCHANGED answer
       \/ /\ y.rc # "AGAIN"
          /\ answer' = IF y.rc = "OK" THEN "ok" ELSE "error"
          /\ phase' = "WAIT" /\ data' = Destroyed(d)
          /\ Write(TRUE, rest)
          /\ UNCHANGED <<subs, cur>>

\* The plugin has returned: another round, or the answer, which is written
\* before the plugin's request is destroyed.
Deliver(y, d, rest) ==
    /\ rq' = y
    /\ \/ y.rc = "AGAIN" /\ Start(y, d, rest) /\ UNCHANGED answer
       \/ /\ y.rc # "AGAIN"
          /\ answer' = IF y.rc = "OK" THEN "ok" ELSE "error"
          /\ phase' = "DONE" /\ data' = Destroyed(d)
          /\ Write(TRUE, rest)
          /\ UNCHANGED <<subs, cur>>

-----------------------------------------------------------------------------
(* The handler: reading the body *)

\* ngx_http_qksubrequest_process_request.  A request that fails parsing, the
\* ACL check or routing is answered at once by CreateRequestError.
ProcessRequest ==
    /\ waiting' = FALSE
    /\ \/ \E b \in Batches : \E y \in {NewRequest(b.type, b.keys, b.slots)} :
            \/ Deliver(CreateSubRequestBody(y, 0), "live", <<>>)
            \/ Deliver([y EXCEPT !.code = "ERROR", !.rc = "ERROR"], "live", <<>>)
       \/ \E d \in {"none", "live"} :
            Terminate(subs) /\ data' = Destroyed(d) /\ UNCHANGED <<rq, answer>>

\* The first run, with the whole body at hand: ngx_subrequest_post_body gives
\* back the reference that reading the body took.
ReadBody == phase = "INIT" /\ ~waiting /\ ~closed /\ ProcessRequest

\* The first run, with more of the body to come.
ReadMore ==
    /\ phase = "INIT" /\ ~waiting /\ ~closed
    /\ waiting' = TRUE
    /\ UNCHANGED <<rq, data, phase, subs, cur, answer, nginx>>

\* The rest arrives: ngx_subrequest_post_body runs the phases again.
BodyArrives == waiting /\ ~closed /\ ProcessRequest

\* Not a POST, no room for the body, or the client goes away: nothing has
\* been allocated.
BodyFails ==
    /\ phase = "INIT" /\ ~closed
    /\ Terminate(subs) /\ waiting' = FALSE
    /\ UNCHANGED <<rq, data, answer>>

-----------------------------------------------------------------------------
(* Sub-requests (QkUpstream), and nginx's end of them *)

\* Fault: a sub-request out of turn gives its reference back at once.
FinalizeAtOnce(i, o, rest) ==
    /\ subs' = [subs EXCEPT ![i].st = IF i = active THEN "final" ELSE "done",
                            ![i].out = IF o = "none" THEN @ ELSE o]
    /\ count' = count - 1 /\ left' = left + 1
    /\ active' = IF i = active THEN 0 ELSE active
    /\ postponed' = IF postponed # <<>> /\ Head(postponed) = i
                    THEN Tail(postponed) ELSE postponed
    /\ wev' = "phases" /\ posted' = Append(rest, 0)
    /\ UNCHANGED <<data, phase, waiting, cur, answer, written, flushed, closed>>

\* ngx_http_finalize_request of sub-request i: subrequest_post_handler makes
\* the parent run its phases, and the parent is posted.
Finalize(i, o, rest) ==
    /\ subs' = [subs EXCEPT ![i].st = IF i = active THEN "final" ELSE "done",
                            ![i].out = IF o = "none" THEN @ ELSE o]
    /\ IF i = active
       THEN /\ count' = count - 1 /\ left' = left + 1 /\ active' = 0
            /\ postponed' = IF postponed # <<>> /\ Head(postponed) = i
                            THEN Tail(postponed) ELSE postponed
       ELSE UNCHANGED <<count, left, active, postponed>>
    /\ wev' = "phases" /\ posted' = Append(rest, 0)
    /\ UNCHANGED <<data, phase, waiting, cur, answer, written, flushed, closed>>

\* The event is over: nothing is posted.
Quiet == posted = <<>>

Outcomes == {"ok", "failed", "5xx", "nostate"}

\* A posted sub-request is run.  CreateRequestError writes its code to the
\* parent's; the upstream request waits for the cluster or ends at once.
RunSub(i) ==
    /\ subs[i].st \in {"created", "running"}
    /\ \E t \in {"no", "ERROR"} :
         /\ rq' = IF t = "no" THEN rq ELSE [rq EXCEPT !.code = t]
         /\ \/ /\ subs' = [subs EXCEPT ![i].st = "running",
                                       ![i].told = IF t = "no" THEN @ ELSE t]
               /\ posted' = Tail(posted)
               /\ UNCHANGED <<data, phase, waiting, cur, answer, active, postponed, wev,
                              count, left, written, flushed, closed>>
            \/ \E o \in Outcomes \ {"ok"} : Finalize(i, o, Tail(posted))

\* Its turn to write has come: ngx_http_request_finalizer.
RunFinalizer(i) ==
    subs[i].st = "done" /\ Finalize(i, "none", Tail(posted)) /\ UNCHANGED rq

\* Fault: the code stays in the sub-request.
SubTellsNobody(i) ==
    /\ Quiet /\ ~closed /\ subs[i].st = "running" /\ subs[i].told = "no"
    /\ \E c \in {"OK", "ERROR"} : subs' = [subs EXCEPT ![i].told = c]
    /\ UNCHANGED <<rq, data, phase, waiting, cur, answer, nginx>>

\* ReinitRequest and ProcessBodyError of a sub-request write its code, an
\* error or a zero, to the parent's request.
SubTells(i) ==
    /\ Quiet /\ ~closed /\ subs[i].st = "running" /\ subs[i].told = "no"
    /\ \E c \in {"OK", "ERROR"} :
         rq' = [rq EXCEPT !.code = c] /\ subs' = [subs EXCEPT ![i].told = c]
    /\ UNCHANGED <<data, phase, waiting, cur, answer, nginx>>

\* The sub-request ends: with a result, with an error the plugin or the
\* cluster reported in a 200 answer, with an HTTP error, or before its
\* upstream state was made.
SubEnds(i) ==
    /\ Quiet /\ ~closed /\ subs[i].st = "running"
    /\ \E o \in Outcomes :
         /\ o = "ok" => subs[i].told = "no"
         /\ Finalize(i, o, <<>>)
    /\ UNCHANGED rq

-----------------------------------------------------------------------------
(* The handler: run again by the phases *)

Round == cur .. Len(subs)

\* ngx_http_qksubrequest_check looks at the sub-requests in order.
Ended(i) == subs[i].st \in {"done", "final"}

NoState == \E i \in Round : subs[i].out = "nostate" /\ \A j \in cur .. i : Ended(j)

\* Fault: the first sub-request to end ends the wait.
AnyEnded == \E i \in Round : Ended(i)

AllEnded == \A i \in Round : Ended(i)

\* Fault: the handler posts itself instead of waiting to be posted.
CheckPolls ==
    /\ phase = "WAIT" /\ ~NoState /\ ~AllEnded
    /\ posted' = Append(Tail(posted), 0) /\ wev' = "phases"
    /\ UNCHANGED <<rq, data, phase, waiting, subs, cur, answer, active, postponed,
                   count, left, written, flushed, closed>>

\* WAIT_SUBREQUEST: some are still running.
CheckAgain ==
    /\ phase = "WAIT" /\ ~NoState /\ ~AllEnded
    /\ posted' = Tail(posted) /\ wev' = "empty"
    /\ UNCHANGED <<rq, data, phase, waiting, subs, cur, answer, active, postponed,
                   count, left, written, flushed, closed>>

\* Fault: the error path returns without destroying the request.
CheckErrorLeaks ==
    /\ phase = "WAIT" /\ NoState
    /\ Terminate(subs)
    /\ UNCHANGED <<rq, data, waiting, answer>>

\* ERROR: a sub-request ended without an upstream state.
CheckError ==
    /\ phase = "WAIT" /\ NoState
    /\ Terminate(subs) /\ data' = Destroyed(data)
    /\ UNCHANGED <<rq, waiting, answer>>

\* POST_SUBREQUEST: the plugin's ProcessBody.
CheckOk ==
    /\ phase = "WAIT" /\ ~NoState /\ AllEnded
    /\ \E found \in 0 .. MaxFound : Deliver(CreateSubRequestBody(rq, found), data, Tail(posted))
    /\ UNCHANGED waiting

\* DONE: ngx_http_qksubrequest_done, or ngx_http_writer, flushes the rest.
Flush ==
    /\ wev = "writer" \/ (wev = "phases" /\ phase = "DONE")
    /\ Write(FALSE, Tail(posted))
    /\ UNCHANGED <<rq, data, phase, waiting, subs, cur, answer>>

RunParent ==
    \/ wev = "phases" /\ (CheckAgain \/ CheckError \/ CheckOk)
    \/ Flush
    \/ /\ wev = "empty" /\ posted' = Tail(posted)
       /\ UNCHANGED <<rq, data, phase, waiting, subs, cur, answer, active, postponed,
                      wev, count, left, written, flushed, closed>>

RunPosted ==
    /\ posted # <<>> /\ ~closed
    /\ IF Head(posted) = 0 THEN RunParent
       ELSE RunSub(Head(posted)) \/ RunFinalizer(Head(posted))

-----------------------------------------------------------------------------
Init ==
    /\ rq = NewRequest("MGET", 0, 0)
    /\ data = "none" /\ phase = "INIT" /\ waiting = FALSE
    /\ subs = <<>> /\ cur = 1 /\ active = 0
    /\ postponed = <<>> /\ posted = <<>> /\ wev = "empty"
    /\ count = 1 /\ left = MaxSubrequests + 1
    /\ answer = "none" /\ written = 0 /\ flushed = FALSE /\ closed = FALSE

Over == closed /\ UNCHANGED vars

Next ==
    \/ ReadBody \/ ReadMore \/ BodyArrives \/ BodyFails
    \/ RunPosted
    \/ \E i \in Ids : SubTells(i) \/ SubEnds(i)
    \/ Over

Spec == Init /\ [][Next]_vars

\* The event loop runs what is posted, a sub-request ends (QkUpstream's
\* Answered), and the body arrives or its timer closes the request.
Fairness ==
    /\ WF_vars(RunPosted)
    /\ WF_vars(\E i \in Ids : SubEnds(i))
    /\ WF_vars(ReadBody \/ ReadMore)
    /\ WF_vars(BodyArrives \/ BodyFails)

FairSpec == Spec /\ Fairness

-----------------------------------------------------------------------------
(* Properties *)

\* The handler never waits for nothing: between events a waiting parent has a
\* running sub-request in its round, whose end will run it again.
WaitsForSomeone ==
    phase = "WAIT" /\ Quiet => \E i \in Round : subs[i].st = "running"

\* r->main->count holds one reference for the request and one for each
\* sub-request nginx still has to finish, across every handler return.
CountMatches ==
    ~closed => count = 1 + Cardinality({i \in Ids : subs[i].st # "final"})

\* "destroy request context exactly once": never twice, and not left behind.
DestroyedOnce == data # "twice" /\ (closed => data # "live")

\* Sub-requests write to the parent's request only while it is allocated.
ParentAlive == [][rq' # rq => data \in {"none", "live"}]_vars

\* However often the handler runs again while the sub-requests before its
\* response are flushed, the client gets one response.
WrittenOnce == written <= 1 /\ (closed /\ answer # "none" => flushed)

\* The batch is answered or aborted.
Closes == <>closed

\* A sub-request's error is not lost: unless a later sub-request resets the
\* parent's code, no further round is issued after a reported error.
StopsAfterError ==
    [][(\E i \in Round : subs[i].told = "ERROR") /\ (\A i \in Round : subs[i].told # "OK")
       => Len(subs') = Len(subs)]_vars

\* Success is reported only when every sub-request succeeded.
SuccessMeansAll == answer = "ok" => \A i \in Ids : subs[i].out = "ok"

\* The promise of BatchSpec.
Promise ==
    INSTANCE BatchSpec WITH
        SlotLimit <- MsetMax, KeyLimit <- BatchAddMax,
        batch <- IF subs = <<>> THEN [type |-> "none", keys |-> 0, slots |-> 0]
                 ELSE [type |-> rq.type, keys |-> rq.keys, slots |-> rq.slots],
        issued <- {subs[i].item : i \in Ids},
        ended <- {subs[i].item : i \in {j \in Ids : subs[j].out # "none"}},
        answer <- IF phase = "ERROR" THEN "aborted" ELSE answer

ImplementsPromise == Promise!Spec
=============================================================================
