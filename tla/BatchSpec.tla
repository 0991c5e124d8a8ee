----------------------------- MODULE BatchSpec -----------------------------
(***************************************************************************)
(* What the proxy promises of a batch request: its items are issued in     *)
(* rounds, none of them twice; a round starts when the one before it has   *)
(* ended; every key is done before the first slot is issued; a round of    *)
(* writes has a bounded size; and the client hears of success only after   *)
(* every item has ended.                                                   *)
(***************************************************************************)
EXTENDS Naturals, FiniteSets

CONSTANTS SlotLimit, KeyLimit   \* the most slots, keys in a round of writes

VARIABLES
    batch,   \* [type, keys, slots]: what was asked, or NoBatch
    issued,  \* items issued, all rounds together
    ended,   \* items whose sub-request has ended
    answer   \* "none", "ok", "error" or "aborted"

vars == <<batch, issued, ended, answer>>

Batch ==
    [type : {"MGET", "MSET", "ZADD", "ZBATCHADD", "ZRANGE", "BATCHZRANGE"}, keys : Nat, slots : Nat]
NoBatch == [type |-> "none", keys |-> 0, slots |-> 0]
Writes(t) == t \in {"MSET", "ZADD", "ZBATCHADD"}
Reads(t) == t \in {"ZRANGE", "BATCHZRANGE"}

KeyItems(b) == [of : {"KEY"}, n : 1 .. b.keys]
SlotItems(b) == [of : {"SLOT"}, n : 1 .. b.slots]
All(b) == KeyItems(b) \cup SlotItems(b)

Init == batch = NoBatch /\ issued = {} /\ ended = {} /\ answer = "none"

\* The batch is what was asked; the slots of a range query are known only when
\* its keys have ended.
Known(b) ==
    \/ b = batch
    \/ /\ Reads(b.type) /\ batch.slots = 0 /\ KeyItems(b) \subseteq ended
       /\ b = [batch EXCEPT !.slots = b.slots]

\* A round: new items, keys first, after everything issued has ended.
Issue(b, S) ==
    /\ answer = "none" /\ ended = issued
    /\ S # {} /\ S \cap issued = {}
    /\ batch = NoBatch \/ Known(b)
    /\ \/ /\ S \subseteq KeyItems(b)
          /\ Writes(b.type) => Cardinality(S) <= KeyLimit
       \/ /\ S \subseteq SlotItems(b)
          /\ KeyItems(b) \subseteq ended
          /\ Writes(b.type) => Cardinality(S) <= SlotLimit
    /\ b \in Batch /\ batch' = b /\ issued' = issued \cup S
    /\ UNCHANGED <<ended, answer>>

End(i) ==
    /\ answer = "none" /\ i \in issued \ ended
    /\ ended' = ended \cup {i}
    /\ UNCHANGED <<batch, issued, answer>>

Succeed ==
    /\ answer = "none" /\ batch # NoBatch
    /\ issued = All(batch) /\ ended = issued
    /\ answer' = "ok" /\ UNCHANGED <<batch, issued, ended>>

\* An error is reported between rounds; the connection may be aborted at any
\* time, also when a round is known and cannot be issued.
Fail ==
    /\ answer = "none"
    /\ \/ answer' = "error" /\ ended = issued /\ UNCHANGED batch
       \/ answer' = "aborted" /\ Known(batch')
    /\ UNCHANGED <<issued, ended>>

Next ==
    \/ Issue(batch', issued' \ issued)
    \/ \E i \in issued : End(i)
    \/ Succeed \/ Fail

Spec == Init /\ [][Next]_vars
=============================================================================
