---------------------------- MODULE RespFraming ----------------------------
(***************************************************************************)
(* How a worker decides that a Redis node's reply has arrived.  A reply    *)
(* comes in pieces; after every piece the upstream module hands the whole  *)
(* buffer to process_header, which asks ngx_redis_proto_decode whether the *)
(* reply is complete.  A complete reply is decoded by the plugin.          *)
(*                                                                         *)
(* Bytes are tokens.  The buffer is not terminated: a decoder that walks   *)
(* past the received bytes reads whatever the memory holds (stale, a       *)
(* member of Tails, then NUL bytes).                                       *)
(***************************************************************************)
EXTENDS Integers, Sequences

CONSTANTS
    Values,      \* the values a node stores: sequences of tokens
    MaxElements, \* bound: elements of an array
    Tails,       \* what the memory after the received bytes may hold
    BufferSize   \* u->conf->buffer_size

Digit == <<"0", "1", "2", "3", "4", "5", "6", "7", "8", "9">>
CRLF == <<"CR", "LF">>
Byte == {Digit[i] : i \in DOMAIN Digit}
          \cup {"CR", "LF", "+", "-", ":", "$", "*", "O", "K", "a", "nil", "NUL"}
Nil == <<"nil">>

ASSUME FramingAssumption ==
    /\ Values \subseteq Seq(Byte) /\ Tails \subseteq Seq(Byte)
    /\ MaxElements \in Nat /\ BufferSize \in Nat \ {0}

VARIABLES
    reply,    \* what the node answers: its kind, and the elements of $ and *
    asking,   \* ctx->moved_ask = QKUPSTREAM_ASKING_END
    got,      \* bytes received: u->buffer.last - u->buffer.pos
    tail,     \* the memory behind them at the last call
    verdict,  \* what became of the request at the last event
    decoded   \* the values the plugin took from the reply

vars == <<reply, asking, got, tail, verdict, decoded>>

Replies ==
    [kind : {"+", "-", ":"}, elems : {<<>>}]
      \cup [kind : {"$"}, elems : [{1} -> Values \cup {Nil}]]
      \cup [kind : {"*"}, elems : UNION {[1 .. n -> Values \cup {Nil}] : n \in 0 .. MaxElements}]

(***************************************************************************)
(* The node's side (external): how Redis writes a reply, and +OK before it *)
(* when the request began with ASKING.                                     *)
(***************************************************************************)
Decimal(n) ==
    LET text[i \in 0 .. n] ==
          IF i < 10 THEN <<Digit[i + 1]>> ELSE Append(text[i \div 10], Digit[(i % 10) + 1])
    IN  text[n]

Header(t, n) == <<t>> \o Decimal(n) \o CRLF

Bulk(v) == IF v = Nil THEN <<"$", "-", "1">> \o CRLF
                      ELSE Header("$", Len(v)) \o v \o CRLF

Concat(seqs) ==
    LET upto[i \in 1 .. Len(seqs)] == IF i = 1 THEN seqs[i] ELSE upto[i - 1] \o seqs[i]
    IN  IF seqs = <<>> THEN <<>> ELSE upto[Len(seqs)]

Encode(r) ==
    CASE r.kind = "$" -> Bulk(r.elems[1])
      [] r.kind = "*" -> Header("*", Len(r.elems))
                           \o Concat([i \in DOMAIN r.elems |-> Bulk(r.elems[i])])
      [] OTHER -> <<r.kind, "1">> \o CRLF

Wire == (IF asking THEN <<"+", "O", "K">> \o CRLF ELSE <<>>) \o Encode(reply)

(***************************************************************************)
(* strtol with base 0 (external): white space, a sign, digits; octal ones  *)
(* after a leading 0.  Without digits the end is where it started.  The    *)
(* numbers of a reply fit an int: Redis limits a value to 512 MB.          *)
(***************************************************************************)
At(m, i) == IF i \in DOMAIN m THEN m[i] ELSE "NUL"

Skip(m, p, S) == CHOOSE i \in p .. p + Len(m) + 1 :
                   /\ At(m, i) \notin S
                   /\ \A j \in p .. i - 1 : At(m, j) \in S

ValueOf(c) == (CHOOSE i \in DOMAIN Digit : Digit[i] = c) - 1

Number(s, base) ==
    LET num[k \in 0 .. Len(s)] == IF k = 0 THEN 0 ELSE num[k - 1] * base + ValueOf(s[k])
    IN  num[Len(s)]

Strtol(m, p) ==
    LET sign  == Skip(m, p, {"CR", "LF"})
        first == IF At(m, sign) \in {"-", "+"} THEN sign + 1 ELSE sign
        base  == IF At(m, first) = "0" THEN 8 ELSE 10
        end   == Skip(m, first, {Digit[i] : i \in 1 .. base})
        abs   == Number(SubSeq(m, first, end - 1), base)
    IN  IF end = first THEN [n |-> 0, end |-> p]
        ELSE [n |-> IF At(m, sign) = "-" THEN -abs ELSE abs, end |-> end]

(***************************************************************************)
(* ngx_redis_proto_decode.  m is the memory, p the index after the type    *)
(* byte, size the number of bytes received.                                *)
(***************************************************************************)
NumSize(n) ==
    LET size[i \in 0 .. n] == IF i < 10 THEN 1 ELSE size[i \div 10] + 1
    IN  IF n < 0 THEN 20 ELSE size[n]  \* an int, widened to uint64_t

\* Fault: the CR LF after the value is not waited for.
ParseBulkNoEnd(m, p, size) ==
    LET bulk == Strtol(m, p).n
    IN  IF bulk = -1 \/ 1 + NumSize(bulk) + 2 + bulk <= size THEN "OK" ELSE "AGAIN"

ParseBulk(m, p, size) ==
    LET bulk == Strtol(m, p).n
    IN  IF bulk = -1 \/ 1 + NumSize(bulk) + 2 + bulk + 2 <= size THEN "OK" ELSE "AGAIN"

\* Fault: the length is compared after an element, with the wrong operator.
ElementOffByOne(m, size, s) ==
    LET bulk == Strtol(m, s.rest + 1)
        len  == s.len + 1 + NumSize(bulk.n) + 2 + bulk.n + 2
    IN  IF s.rc # "OK" THEN s
        ELSE IF bulk.n = -1 THEN [s EXCEPT !.rest = bulk.end, !.len = @ + 1]
        ELSE [rest |-> bulk.end + 2 + bulk.n + 2, len |-> len,
              rc |-> IF len + 1 >= size THEN "AGAIN" ELSE "OK"]

\* Fault: the value itself is not counted.
ElementNoValue(m, size, s) ==
    LET bulk == Strtol(m, s.rest + 1)
    IN  IF s.len > size THEN [s EXCEPT !.rc = "AGAIN"]
        ELSE IF bulk.n = -1 THEN [s EXCEPT !.rest = bulk.end, !.len = @ + 1]
        ELSE [s EXCEPT !.rest = bulk.end + 2 + bulk.n + 2,
                       !.len = @ + 1 + NumSize(bulk.n) + 2 + 2]

\* One turn of the loop over the elements.
Element(m, size, s) ==
    LET bulk == Strtol(m, s.rest + 1)
    IN  IF s.len > size THEN [s EXCEPT !.rc = "AGAIN"]
        ELSE IF bulk.n = -1 THEN [s EXCEPT !.rest = bulk.end, !.len = @ + 1]
        ELSE [s EXCEPT !.rest = bulk.end + 2 + bulk.n + 2,
                       !.len = @ + 1 + NumSize(bulk.n) + 2 + bulk.n + 2]

\* The loop: the pointer and the length after each turn.  A turn that finds the length
\* too large ends it, and leaves the length as it is.
Elements(m, size, count) ==
    LET turn[i \in 0 .. count.n] ==
          IF i = 0 THEN [rest |-> count.end + 2, len |-> 3, rc |-> "OK"]
                   ELSE Element(m, size, turn[i - 1])
    IN  turn

ParseMultibulk(m, p, size) ==
    LET count == Strtol(m, p)
    IN  IF count.n <= 0 THEN "OK" ELSE Elements(m, size, count)[count.n].rc

ProtoDecode(m, p, size) ==
    CASE At(m, p) \in {"-", "+", ":"} -> "OK"
      [] At(m, p) = "$" -> ParseBulk(m, p + 1, size)
      [] At(m, p) = "*" -> ParseMultibulk(m, p + 1, size)
      [] OTHER -> "ERROR"

Skipped == IF asking THEN 5 ELSE 0

\* process_header, up to the call of process_response.
ProcessHeader(wire, n, t) ==
    ProtoDecode(SubSeq(wire, 1, n) \o t, 1 + Skipped, n - Skipped)

(***************************************************************************)
(* The plugin's decoder: RedisProtoDecodeGetString and ...GetArray.        *)
(***************************************************************************)
Take(m, p, n) == [k \in 1 .. n |-> At(m, p + k - 1)]

GetString(m, p) ==
    LET bulk == Strtol(m, p)
    IN  IF bulk.n = -1 THEN <<Nil>> ELSE << Take(m, bulk.end + 2, bulk.n) >>

\* Fault: the CR LF of a null element is not stepped over.
StepNil(m, s) ==
    LET bulk == Strtol(m, s.rest + 1)
    IN  IF bulk.n = -1
        THEN [rest |-> bulk.end, out |-> Append(s.out, Nil)]
        ELSE [rest |-> bulk.end + 2 + bulk.n + 2,
              out |-> Append(s.out, Take(m, bulk.end + 2, bulk.n))]

\* One turn of the loop over the elements, null ones included.
Step(m, s) ==
    LET bulk == Strtol(m, s.rest + 1)
    IN  IF bulk.n = -1
        THEN [rest |-> bulk.end + 2, out |-> Append(s.out, Nil)]
        ELSE [rest |-> bulk.end + 2 + bulk.n + 2,
              out |-> Append(s.out, Take(m, bulk.end + 2, bulk.n))]

Steps(m, count) ==
    LET turn[i \in 0 .. count.n] ==
          IF i = 0 THEN [rest |-> count.end + 2, out |-> <<>>] ELSE Step(m, turn[i - 1])
    IN  turn

GetArray(m, p) ==
    LET count == Strtol(m, p)
    IN  IF count.n <= 0 THEN <<>> ELSE Steps(m, count)[count.n].out

RedisProtoDecode(m) ==
    CASE At(m, 1) = "$" -> GetString(m, 2)
      [] At(m, 1) = "*" -> GetArray(m, 2)
      [] OTHER -> <<>>

(***************************************************************************)
(* The events of one attempt.                                              *)
(***************************************************************************)
Init == /\ reply \in Replies
        /\ asking \in BOOLEAN
        /\ got = 0 /\ tail = <<>> /\ verdict = "AGAIN" /\ decoded = <<>>

\* Some more bytes arrive: one turn of ngx_http_upstream_process_header.
Recv ==
    /\ verdict = "AGAIN"
    /\ LET wire == Wire IN
       \E n \in got + 1 .. Len(wire), t \in Tails :
         LET rc == ProcessHeader(wire, n, t)
         IN  /\ n <= BufferSize
             /\ got' = n
             /\ tail' = t
             /\ verdict' = IF rc = "AGAIN" /\ n = BufferSize THEN "TOOBIG" ELSE rc
             /\ decoded' = IF rc = "OK"
                           THEN RedisProtoDecode(SubSeq(wire, 1 + Skipped, n) \o t)
                           ELSE decoded
    /\ UNCHANGED <<reply, asking>>

\* The node closes the connection, or the read timer fires: the next peer is tried.
Lose ==
    /\ verdict = "AGAIN"
    /\ verdict' \in {"CLOSED", "TIMEDOUT"}
    /\ UNCHANGED <<reply, asking, got, tail, decoded>>

Next == Recv \/ Lose

Spec == Init /\ [][Next]_vars

(***************************************************************************)
(* Properties.                                                             *)
(***************************************************************************)
TypeOK ==
    /\ reply \in Replies /\ asking \in BOOLEAN
    /\ got \in 0 .. Len(Wire) /\ tail \in Tails \cup {<<>>}
    /\ verdict \in {"AGAIN", "OK", "ERROR", "TOOBIG", "CLOSED", "TIMEDOUT"}
    /\ decoded \in Seq(Seq(Byte))

Complete == got = Len(Wire)

\* The type byte and the number of the reply have arrived with their CR.
Count(r) == IF r.kind = "$" THEN Len(r.elems[1]) ELSE Len(r.elems)
HeaderSeen == got >= Skipped + 1 + Len(Decimal(Count(reply))) + 1

NoNil == \A i \in DOMAIN reply.elems : reply.elems[i] # Nil

\* The count has at most four digits, and there is a last element.
FourDigitCount == Len(reply.elems) >= 1 /\ Len(reply.elems) < 10000

\* Once its header is there, a bulk string is taken exactly when its last byte is there:
\* never while it still grows, and never left waiting (ngx_parse_bulk's length is exact).
BulkExact ==
    reply.kind = "$" /\ NoNil /\ HeaderSeen => (verdict = "OK" <=> Complete)

\* However it was cut, an array without null elements that has arrived is taken, and not
\* left waiting for bytes that never come (ngx_parse_multibulk never counts more bytes
\* than the node sends).
NoLateArray ==
    reply.kind = "*" /\ NoNil /\ Complete => verdict = "OK"

\* An array without null elements is taken early by at most its last element and the
\* digits of its count, if the memory behind the buffer is zeroed: the loop compares
\* lengths before an element and not after the last one.  From 10000 elements on the
\* uncounted digits can hide the header of one element more.
EarlyByLastElement ==
    /\ reply.kind = "*" /\ NoNil /\ HeaderSeen /\ tail = <<>>
    /\ verdict = "OK" /\ FourDigitCount
    => got >= Len(Wire) - Len(Bulk(reply.elems[Len(reply.elems)])) - Len(Decimal(Len(reply.elems)))

\* What the plugin takes from a complete reply is what the node sent, null
\* elements included, also behind the reply to ASKING.
DecodedIsSent ==
    Complete /\ verdict = "OK" => decoded = reply.elems

\* A reply that has arrived is not left waiting: every null element is stepped
\* over and the next one starts at its $ (ngx_redis_protocol.c:66-72).
CompleteIsTaken ==
    Complete => verdict # "AGAIN"

\* What process_header returns for a reply it cannot take yet is NGX_AGAIN
\* (ngx_upstream_handler.c:294), never an error that ends the request.
NotOkIsAgain ==
    ~Complete => verdict # "ERROR"
=============================================================================
