------------------------------ MODULE HashTag ------------------------------
(***************************************************************************)
(* The part of a key that is hashed (key_hash_slot).  Keys are sequences   *)
(* of bytes.                                                               *)
(***************************************************************************)
EXTENDS Integers, Sequences

CONSTANT Keys  \* the keys that are hashed

ASSUME KeysAssumption == Keys \subseteq Seq(0 .. 255)

VARIABLE key  \* the argument of key_hash_slot

Open == 123   \* '{'
Close == 125  \* '}'

\* The index of the first b from p on; beyond the end if there is none.
Find(k, b, p) ==
    CHOOSE i \in p .. Len(k) + 1 :
      /\ i = Len(k) + 1 \/ k[i] = b
      /\ \A j \in p .. i - 1 : k[j] # b

\* Fault: an empty tag is hashed.
HashedEmptyTag(k) ==
    LET s == Find(k, Open, 1)
        e == Find(k, Close, s + 1)
    IN  IF s > Len(k) THEN k
        ELSE IF e > Len(k) THEN k ELSE SubSeq(k, s + 1, e - 1)

\* key_hash_slot: the bytes that are hashed.
Hashed(k) ==
    LET s == Find(k, Open, 1)
        e == Find(k, Close, s + 1)
    IN  IF s > Len(k) THEN k
        ELSE IF e > Len(k) \/ e = s + 1 THEN k ELSE SubSeq(k, s + 1, e - 1)

-----------------------------------------------------------------------------
(* The reference: the {...} pattern of redis_slot.cc:67. *)

\* The tag of k: between its first { and the first } after it, not empty.
Tags(k) ==
    {SubSeq(k, q[1] + 1, q[2] - 1) : q \in
       {p \in (1 .. Len(k)) \X (1 .. Len(k)) :
          /\ p[1] + 1 < p[2] /\ k[p[1]] = Open /\ k[p[2]] = Close
          /\ \A i \in 1 .. p[1] - 1 : k[i] # Open
          /\ \A i \in p[1] + 1 .. p[2] - 1 : k[i] # Close}}

\* Keys with the same tag share a slot: a key with a tag hashes its tag alone,
\* any other key hashes all its bytes.
HashesTag ==
    IF Tags(key) = {} THEN Hashed(key) = key ELSE Tags(key) = {Hashed(key)}
=============================================================================
