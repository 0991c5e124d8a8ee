----------------------------- MODULE MCSlotHash -----------------------------
EXTENDS SlotHash

\* Every byte, alone and after another, and every short key around the braces.
MCKeys == {<<b>> : b \in 0 .. 255} \cup {<<97, b>> : b \in 0 .. 255}
            \cup UNION {[1 .. n -> {97, Open, Close}] : n \in 0 .. 5}

\* The reference gives the check value of redis_slot.cc:16 for "123456789".
ASSUME CheckValue == Remainder[ [i \in 1 .. 9 |-> 48 + i] ] = \h31C3
=============================================================================
